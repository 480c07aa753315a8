----------------------------- MODULE MCDurableQueue ----------------------------
(* One phone transfer of one file, two saves on their way at once, two     *)
(* restarts and a clock that passes the deadline of the batch.             *)
EXTENDS DurableQueue

CONSTANTS t1, f1, phone

MCTransfers == {t1}
MCFiles == {f1}
MCOwner == [f \in MCFiles |-> t1]
MCPosition == [f \in MCFiles |-> 1]
MCSize == [f \in MCFiles |-> 1]
MCUploads == {t1}
MCDevices == {phone}
=============================================================================
