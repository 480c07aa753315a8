--------------------------- MODULE MCDownloadBatch ---------------------------
(* One laptop batch of two files: one of two chunks and an empty one. *)
EXTENDS PhoneDownload

CONSTANTS t1, f1, f2, d1

MCTransfers == {t1}
MCFiles == {f1, f2}
MCOwner == [f \in MCFiles |-> t1]
MCPosition == [f \in MCFiles |-> IF f = f1 THEN 1 ELSE 2]
MCSize == [f \in MCFiles |-> IF f = f1 THEN 2 ELSE 0]
MCLimited == {f1}
MCDevices == {d1}
=============================================================================
