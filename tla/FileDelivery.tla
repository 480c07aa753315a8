----------------------------- MODULE FileDelivery -----------------------------
(***************************************************************************)
(* What a download promises, whatever connections and restarts do to it:   *)
(* the phone holds a prefix of the file and only ever extends it by the    *)
(* chunk that comes next, it publishes a copy only of the whole file, and  *)
(* the laptop records the file as completed only once such a copy exists.  *)
(* After that the file is not published again, unless it has at most one   *)
(* chunk: an offer that is repeated may then be served before the reports  *)
(* of its first reception are handled.                                     *)
(***************************************************************************)
EXTENDS Naturals, Sequences

CONSTANTS
  Files,
  Size       \* number of chunks of each file

VARIABLES
  held,      \* the chunks in the phone's partial file
  copies,    \* whole copies the phone has published
  recorded   \* the files the laptop has durably recorded as completed

vars == <<held, copies, recorded>>

Whole(f) == [n \in 1..Size[f] |-> n - 1]

Init ==
  /\ held = [f \in Files |-> <<>>]
  /\ copies = [f \in Files |-> 0]
  /\ recorded = {}

Receive(f) ==
  /\ Len(held[f]) < Size[f]
  /\ held' = [held EXCEPT ![f] = Append(@, Len(@))]
  /\ UNCHANGED <<copies, recorded>>

Publish(f) ==
  /\ held[f] = Whole(f)
  /\ f \in recorded => Size[f] <= 1
  /\ held' = [held EXCEPT ![f] = <<>>]
  /\ copies' = [copies EXCEPT ![f] = @ + 1]
  /\ UNCHANGED recorded

(* The bytes are not those that were offered. *)
Discard(f) ==
  /\ Len(held[f]) = Size[f]
  /\ held' = [held EXCEPT ![f] = <<>>]
  /\ UNCHANGED <<copies, recorded>>

Record(f) ==
  /\ copies[f] > 0
  /\ recorded' = recorded \cup {f}
  /\ UNCHANGED <<held, copies>>

Next == \E f \in Files : Receive(f) \/ Publish(f) \/ Discard(f) \/ Record(f)

Spec == Init /\ [][Next]_vars
=============================================================================
