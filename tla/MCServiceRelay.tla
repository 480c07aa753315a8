---------------------------- MODULE MCServiceRelay ----------------------------
(* Two passes, two teardowns and two connections, with one pairing the     *)
(* user may replace or remove.                                             *)
EXTENDS ServiceRelay

MCConns == 1..2

(* Every property but one says nothing of what comes after.                *)
Unspoiled == ~overrun
=============================================================================
