---------------------------- MODULE MCRelaySession ----------------------------
(* One folder that can be shared. *)
EXTENDS RelaySession, FiniteSets

CONSTANT pics

MCFolders == {pics}

(* Bound: beside two requests there are connections, proofs and closes, but *)
(* no heartbeat, broken link or message after the handshake.                *)
QuietBesideTwo ==
  requests <= 1 \/ \A c \in Conns : /\ socket[c].said = 0 /\ end[c].said = 0
                                    /\ socket[c].idle = 0 /\ link[c] # "cut"
                                    /\ dropped = {}

(* Bound: on the second connection only the Relay says more than its        *)
(* handshake, and it loses a message on one of the two.                     *)
FewWords == end[2].said = 0 /\ Cardinality(dropped) <= 1
=============================================================================
