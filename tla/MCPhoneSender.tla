---------------------------- MODULE MCPhoneSender ----------------------------
(* One batch of one file of two chunks; a batch of a chunk and an empty    *)
(* file; and two batches of a file each.                                   *)
EXTENDS PhoneToLaptop

CONSTANTS t1, t2, f1, f2, d1

MCDevices == {d1}

MCOneOwner == [f \in {f1} |-> t1]
MCOnePosition == [f \in {f1} |-> 1]
MCOneSize == [f \in {f1} |-> 2]

MCFiles == {f1, f2}
MCSameOwner == [f \in MCFiles |-> t1]
MCOwner == [f \in MCFiles |-> IF f = f1 THEN t1 ELSE t2]
MCSamePosition == [f \in MCFiles |-> IF f = f1 THEN 1 ELSE 2]
MCPosition == [f \in MCFiles |-> 1]
MCSize == [f \in MCFiles |-> IF f = f1 THEN 1 ELSE 0]
=============================================================================
