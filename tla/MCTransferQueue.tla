--------------------------- MODULE MCTransferQueue ---------------------------
(* A phone transfer of one chunk and a laptop transfer of two empty files, *)
(* and a clock that reaches the deadline of a batch.                       *)
EXTENDS TransferQueue

CONSTANTS t1, t2, f1, f2, f3, phone

MCTransfers == {t1, t2}
MCFiles == {f1, f2, f3}
MCOwner == [f \in MCFiles |-> IF f = f1 THEN t1 ELSE t2]
MCPosition == [f \in MCFiles |-> IF f = f3 THEN 2 ELSE 1]
MCSize == [f \in MCFiles |-> IF f = f1 THEN 1 ELSE 0]
MCUploads == {t1}
MCDevices == {phone}
=============================================================================
