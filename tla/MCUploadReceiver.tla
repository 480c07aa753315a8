--------------------------- MODULE MCUploadReceiver ---------------------------
(* One phone transfer of one file of two chunks.                           *)
EXTENDS UploadReceiver, TLC

CONSTANTS t1, f1, phone, h1, h2

MCTransfers == {t1}
MCFiles == {f1}
MCOwner == [f \in MCFiles |-> t1]
MCPosition == [f \in MCFiles |-> 1]
MCSize == [f \in MCFiles |-> 2]
MCUploads == {t1}
MCDevices == {phone}
MCTasks == {h1, h2}

(* The handlers differ in name only; for the runs without liveness.        *)
MCSymmetry == Permutations(MCTasks)
=============================================================================
