---------------------------- MODULE MCUploadBatch ----------------------------
(* One phone transfer of two files of one chunk each: the file after the   *)
(* one in hand, and an offer with no room for either.                      *)
EXTENDS UploadReceiver

CONSTANTS t1, f1, f2, phone, h1, h2

MCTransfers == {t1}
MCFiles == {f1, f2}
MCOwner == [f \in MCFiles |-> t1]
MCPosition == [f \in MCFiles |-> IF f = f1 THEN 1 ELSE 2]
MCSize == [f \in MCFiles |-> 1]
MCUploads == {t1}
MCDevices == {phone}
MCTasks == {h1, h2}
=============================================================================
