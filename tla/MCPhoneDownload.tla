--------------------------- MODULE MCPhoneDownload ---------------------------
(* Two laptop batches: a file of two chunks, and an empty file. *)
EXTENDS PhoneDownload

CONSTANTS t1, t2, f1, f2, d1

MCTransfers == {t1, t2}
MCFiles == {f1, f2}
MCOwner == [f \in MCFiles |-> IF f = f1 THEN t1 ELSE t2]
MCPosition == [f \in MCFiles |-> 1]
MCSize == [f \in MCFiles |-> IF f = f1 THEN 2 ELSE 0]
MCLimited == {f1}
MCDevices == {d1}
=============================================================================
