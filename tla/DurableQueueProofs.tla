-------------------------- MODULE DurableQueueProofs --------------------------
(* Proofs about TransferQueue, for any transfers, files, sizes and clock,  *)
(* and then about DurableQueue: what any crash leaves behind, for any      *)
(* number of waiting saves and restarts.                                   *)
EXTENDS DurableQueue, SequenceTheorems, TLAPS

(* Files and their batch enter the queue in the same call.  This is what   *)
(* the safety invariants miss to be inductive together.                    *)
KnownTogether ==
  \A f \in Files :
    /\ file[f].status = "absent" <=> batch[Owner[f]].status = "absent"
    /\ f \in retrying => file[f].status # "absent"

IInv ==
  /\ TypeOK /\ OneInFlight /\ CompletedIsConfirmed
  /\ QueuedIsClaimable /\ TerminalBatchIsOver /\ KnownTogether

-----------------------------------------------------------------------------
(* What deriveBatchStatus returns says about the files it looked at: a     *)
(* terminal status means every file is over, "completed" that every file   *)
(* is completed, and a queued file always shows as queued or active.       *)
LEMMA DerivedStatusMeaning ==
  ASSUME NEW t, NEW F
  PROVE  /\ DerivedStatus(t, F) \in BatchStatus \ {"absent", "expired"}
         /\ DerivedStatus(t, F) \in TerminalBatch =>
              \A f \in FilesOf(t) : F[f].status \in TerminalFile
         /\ DerivedStatus(t, F) = "completed" =>
              \A f \in FilesOf(t) : F[f].status = "completed"
         /\ \A f \in FilesOf(t) :
              F[f].status = "queued" => DerivedStatus(t, F) \in {"queued", "active"}
<1> DEFINE All(S) == \A f \in FilesOf(t) : F[f].status \in S
           Some(S) == \E f \in FilesOf(t) : F[f].status \in S
<1>1. DerivedStatus(t, F) =
        IF All({"completed"}) THEN "completed"
        ELSE IF All({"cancelled"}) THEN "cancelled"
        ELSE IF All(TerminalFile) THEN "completed_with_issues"
        ELSE IF Some(InFlight) THEN "active"
        ELSE IF Some({"queued"}) THEN "queued"
        ELSE "paused"
  BY DEF DerivedStatus
<1>2. ASSUME NEW f \in FilesOf(t), F[f].status = "queued"
      PROVE  DerivedStatus(t, F) \in {"queued", "active"}
  BY <1>1, <1>2 DEF TerminalFile
<1>3. QED
  BY <1>1, <1>2 DEF BatchStatus, TerminalBatch, TerminalFile

(* Settling a batch keeps its device and moves its deadline.               *)
LEMMA SettledRecord ==
  ASSUME NEW b \in BatchRecord, NEW s \in BatchStatus, now + Lifetime \in Nat
  PROVE  /\ Touched([b EXCEPT !.status = s]) \in BatchRecord
         /\ Touched([b EXCEPT !.status = s]).status = s
<1>1. /\ [b EXCEPT !.status = s] \in BatchRecord
      /\ [b EXCEPT !.status = s].status = s
  BY DEF BatchRecord
<1>2. QED
  BY <1>1 DEF BatchRecord, Touched

(* A call that gives files of one known batch new records and derives the  *)
(* batch from them preserves the invariant if the new records have at most *)
(* one file in flight and no unconfirmed bytes behind a verified file.     *)
LEMMA SettleKeepsIInv ==
  ASSUME IInv, NEW t \in Transfers, NEW F \in [Files -> FileRecord],
         Known(t), Settle(t, F), UNCHANGED <<order, claims, now>>,
         retrying' \subseteq Files,
         \A g \in Files : Owner[g] # t =>
           F[g] = file[g] /\ (g \in retrying' <=> g \in retrying),
         \A g \in FilesOf(t) : F[g].status # "absent",
         AtMostOneInFlight(F), FullyConfirmed(F)
  PROVE  IInv'
<1> USE QueueAssumption
<1> DEFINE s == DerivedStatus(t, F)
<1>1. s \in BatchStatus \ {"absent", "expired"}
  BY DerivedStatusMeaning
<1>2. /\ batch' \in [Transfers -> BatchRecord]
      /\ batch'[t].status = s
      /\ \A u \in Transfers \ {t} : batch'[u] = batch[u]
  <2>1. batch[t] \in BatchRecord /\ now + Lifetime \in Nat
    BY DEF IInv, TypeOK
  <2>2. /\ Touched([batch[t] EXCEPT !.status = s]) \in BatchRecord
        /\ Touched([batch[t] EXCEPT !.status = s]).status = s
    BY <1>1, <2>1, SettledRecord
  <2>3. QED
    BY <2>2 DEF Settle, IInv, TypeOK
<1>3. TypeOK'
  BY <1>2 DEF IInv, TypeOK, Settle
<1>4. OneInFlight' /\ CompletedIsConfirmed'
  BY DEF OneInFlight, CompletedIsConfirmed, Settle, AtMostOneInFlight, FullyConfirmed
<1>5. ASSUME NEW g \in Files, Owner[g] = t
      PROVE  /\ batch'[Owner[g]].status = s
             /\ g \in FilesOf(t)
  BY <1>2, <1>5 DEF IInv, TypeOK, FilesOf
<1>6. ASSUME NEW g \in Files, Owner[g] # t
      PROVE  /\ batch'[Owner[g]] = batch[Owner[g]]
             /\ file'[g] = file[g]
             /\ g \in retrying' <=> g \in retrying
  BY <1>2, <1>6 DEF IInv, TypeOK, Settle
<1>7. file' = F
  BY DEF Settle
<1>8. QueuedIsClaimable'
  <2> SUFFICES ASSUME NEW g \in Files \ retrying', file'[g].status = "queued"
               PROVE  batch'[Owner[g]].status \in {"queued", "active"}
    BY DEF QueuedIsClaimable
  <2>1. CASE Owner[g] = t
    BY <2>1, <1>5, <1>7, DerivedStatusMeaning
  <2>2. CASE Owner[g] # t
    BY <2>2, <1>6 DEF IInv, QueuedIsClaimable
  <2>3. QED
    BY <2>1, <2>2
<1>9. TerminalBatchIsOver'
  <2> SUFFICES ASSUME NEW g \in Files
               PROVE  /\ batch'[Owner[g]].status \in TerminalBatch =>
                           file'[g].status \in TerminalFile \/ g \in retrying'
                      /\ batch'[Owner[g]].status = "completed" =>
                           file'[g].status = "completed"
    BY DEF TerminalBatchIsOver
  <2>1. CASE Owner[g] = t
    BY <2>1, <1>5, <1>7, DerivedStatusMeaning
  <2>2. CASE Owner[g] # t
    BY <2>2, <1>6 DEF IInv, TerminalBatchIsOver
  <2>3. QED
    BY <2>1, <2>2
<1>10. KnownTogether'
  <2> SUFFICES ASSUME NEW g \in Files
               PROVE  /\ file'[g].status = "absent" <=> batch'[Owner[g]].status = "absent"
                      /\ g \in retrying' => file'[g].status # "absent"
    BY DEF KnownTogether
  <2>1. CASE Owner[g] = t
    BY <2>1, <1>1, <1>5, <1>7
  <2>2. CASE Owner[g] # t
    BY <2>2, <1>6 DEF IInv, KnownTogether
  <2>3. QED
    BY <2>1, <2>2
<1>11. QED
  BY <1>3, <1>4, <1>8, <1>9, <1>10 DEF IInv

(* The form most calls take: one file of a known batch gets a new record   *)
(* r, which may be in flight only if the old one was.                      *)
LEMMA SettleFileKeepsIInv ==
  ASSUME IInv, NEW f \in Files, NEW r \in FileRecord,
         Known(Owner[f]), SettleFile(f, r), UNCHANGED <<order, claims, now>>,
         retrying' \subseteq Files,
         \A g \in Files \ {f} : g \in retrying' <=> g \in retrying,
         r.status # "absent",
         r.status \in InFlight => file[f].status \in InFlight,
         r.confirmed <= Size[f],
         r.status \in {"verifying", "finalizing", "completed"} => r.confirmed = Size[f]
  PROVE  IInv'
<1> USE QueueAssumption
<1> DEFINE F == [file EXCEPT ![f] = r]
<1>1. /\ F \in [Files -> FileRecord]
      /\ F[f] = r
      /\ \A g \in Files \ {f} : F[g] = file[g]
  BY DEF IInv, TypeOK
<1>2. AtMostOneInFlight(F)
  BY <1>1 DEF IInv, OneInFlight, AtMostOneInFlight
<1>3. FullyConfirmed(F)
  BY <1>1 DEF IInv, CompletedIsConfirmed, FullyConfirmed
<1>4. \A g \in FilesOf(Owner[f]) : F[g].status # "absent"
  BY <1>1 DEF IInv, KnownTogether, Known, FilesOf
<1>5. Owner[f] \in Transfers
  OBVIOUS
<1>6. Settle(Owner[f], F)
  BY DEF SettleFile
<1>7. \A g \in Files : Owner[g] # Owner[f] =>
        F[g] = file[g] /\ (g \in retrying' <=> g \in retrying)
  BY <1>1
<1> HIDE DEF F
<1>8. QED
  BY <1>1, <1>2, <1>3, <1>4, <1>5, <1>6, <1>7, SettleKeepsIInv

(* Calls that leave the files alone and give one batch a new device or a   *)
(* new deadline.                                                           *)
LEMMA RetouchKeepsIInv ==
  ASSUME IInv, NEW t \in Transfers, NEW b \in BatchRecord,
         b.status = batch[t].status, batch' = [batch EXCEPT ![t] = b],
         UNCHANGED <<order, file, claims, now, retrying>>
  PROVE  IInv'
<1> USE QueueAssumption
<1>1. /\ batch' \in [Transfers -> BatchRecord]
      /\ \A u \in Transfers : batch'[u].status = batch[u].status
  BY DEF IInv, TypeOK
<1>2. TypeOK'
  BY <1>1 DEF IInv, TypeOK
<1>3. OneInFlight' /\ CompletedIsConfirmed'
  BY DEF IInv, OneInFlight, CompletedIsConfirmed, AtMostOneInFlight, FullyConfirmed
<1>4. QueuedIsClaimable' /\ TerminalBatchIsOver' /\ KnownTogether'
  BY <1>1 DEF IInv, QueuedIsClaimable, TerminalBatchIsOver, KnownTogether
<1>5. QED
  BY <1>2, <1>3, <1>4 DEF IInv

-----------------------------------------------------------------------------
LEMMA InitEstablishesIInv == Init => IInv
<1> SUFFICES ASSUME Init PROVE IInv
  OBVIOUS
<1>1. NewFile \in FileRecord /\ "absent" \in FileStatus
  BY DEF NewFile, FileRecord, FileStatus
<1>2. NoFile \in FileRecord /\ NoFile.status = "absent" /\ NoFile.confirmed = 0
  BY <1>1 DEF NoFile, NewFile, FileRecord
<1>3. NoBatch \in BatchRecord /\ NoBatch.status = "absent"
  BY DEF NoBatch, BatchRecord, BatchStatus
<1>4. TypeOK
  BY <1>2, <1>3 DEF Init, TypeOK
<1>5. OneInFlight /\ CompletedIsConfirmed
  BY <1>2, QueueAssumption DEF Init, OneInFlight, CompletedIsConfirmed, AtMostOneInFlight,
                               FullyConfirmed, InFlight
<1>6. QueuedIsClaimable /\ TerminalBatchIsOver /\ KnownTogether
  BY <1>2, <1>3, QueueAssumption
    DEF Init, QueuedIsClaimable, TerminalBatchIsOver, KnownTogether, TerminalBatch
<1>7. QED
  BY <1>4, <1>5, <1>6 DEF IInv

LEMMA AddBatchKeepsIInv ==
  ASSUME IInv, NEW t \in Transfers, NEW d \in Devices \cup {NoDevice}, AddBatch(t, d)
  PROVE  IInv'
<1> USE QueueAssumption DEF AddBatch, Known
<1>1. NewFile \in FileRecord /\ NewFile.status = "queued" /\ NewFile.confirmed = 0
  BY DEF NewFile, FileRecord, FileStatus
<1>2. /\ batch' \in [Transfers -> BatchRecord]
      /\ batch'[t].status = "queued"
      /\ \A u \in Transfers \ {t} : batch'[u] = batch[u]
  BY DEF IInv, TypeOK, BatchRecord, BatchStatus
<1>3. /\ file' \in [Files -> FileRecord]
      /\ \A g \in Files : file'[g] = IF Owner[g] = t THEN NewFile ELSE file[g]
  BY <1>1 DEF IInv, TypeOK
<1>4. TypeOK'
  BY <1>2, <1>3 DEF IInv, TypeOK
<1>5. OneInFlight' /\ CompletedIsConfirmed'
  BY <1>1, <1>3 DEF IInv, OneInFlight, CompletedIsConfirmed, AtMostOneInFlight,
                    FullyConfirmed, InFlight
<1>6. QueuedIsClaimable' /\ TerminalBatchIsOver' /\ KnownTogether'
  BY <1>1, <1>2, <1>3 DEF IInv, QueuedIsClaimable, TerminalBatchIsOver, KnownTogether,
                          TerminalBatch
<1>7. QED
  BY <1>4, <1>5, <1>6 DEF IInv

(* A status change of all files of one batch at once, as pause, resume and *)
(* cancel of a whole transfer make it.                                     *)
LEMMA MovedFiles ==
  ASSUME IInv, NEW t \in Transfers, Known(t), NEW From,
         NEW to \in {"queued", "paused", "cancelled"}
  PROVE  LET F == Moved(t, From, to)
         IN  /\ F \in [Files -> FileRecord]
             /\ \A g \in Files : Owner[g] # t => F[g] = file[g]
             /\ \A g \in FilesOf(t) : F[g].status # "absent"
             /\ \A g \in Files : F[g].status \in InFlight => file[g].status \in InFlight
             /\ AtMostOneInFlight(F)
             /\ FullyConfirmed(F)
<1> DEFINE F == Moved(t, From, to)
<1>1. ASSUME NEW g \in Files
      PROVE  /\ F[g] \in FileRecord
             /\ F[g].status \in {file[g].status, to}
             /\ F[g].confirmed = file[g].confirmed
             /\ Owner[g] # t => F[g] = file[g]
  BY DEF Moved, IInv, TypeOK, FileRecord, FileStatus, TerminalFile
<1>2. F \in [Files -> FileRecord]
  BY <1>1 DEF Moved
<1>3. \A g \in FilesOf(t) : file[g].status # "absent"
  BY DEF FilesOf, IInv, KnownTogether, Known
<1>4. \A g \in FilesOf(t) : F[g].status # "absent"
  BY <1>1, <1>3 DEF FilesOf
<1>5. \A g \in Files : F[g].status \in InFlight => file[g].status \in InFlight
  BY <1>1 DEF InFlight
<1>6. AtMostOneInFlight(F)
  BY <1>5 DEF IInv, OneInFlight, AtMostOneInFlight
<1>7. FullyConfirmed(F)
  BY <1>1 DEF IInv, CompletedIsConfirmed, FullyConfirmed
<1>8. QED
  BY <1>1, <1>2, <1>4, <1>5, <1>6, <1>7

LEMMA PauseBatchKeepsIInv ==
  ASSUME IInv, NEW t \in Transfers, PauseBatch(t)
  PROVE  IInv'
<1> USE QueueAssumption DEF PauseBatch, Static
<1> DEFINE F == Moved(t, {"queued", "active"}, "paused")
<1>1. /\ F \in [Files -> FileRecord]
      /\ \A g \in Files : Owner[g] # t => F[g] = file[g]
      /\ \A g \in FilesOf(t) : F[g].status # "absent"
      /\ AtMostOneInFlight(F)
      /\ FullyConfirmed(F)
  BY MovedFiles
<1>2. \A g \in FilesOf(t) : F[g].status # "queued"
  BY DEF Moved, FilesOf, IInv, TypeOK, FileRecord
<1>3. file' = F
  OBVIOUS
<1>4. /\ batch' \in [Transfers -> BatchRecord]
      /\ batch'[t].status = "paused"
      /\ \A u \in Transfers \ {t} : batch'[u] = batch[u]
  <2>1. batch[t] \in BatchRecord /\ now + Lifetime \in Nat /\ "paused" \in BatchStatus
    BY DEF IInv, TypeOK, BatchStatus
  <2>2. /\ Touched([batch[t] EXCEPT !.status = "paused"]) \in BatchRecord
        /\ Touched([batch[t] EXCEPT !.status = "paused"]).status = "paused"
    BY <2>1, SettledRecord
  <2>3. QED
    BY <2>2 DEF IInv, TypeOK
<1> HIDE DEF F
<1>5. TypeOK'
  BY <1>1, <1>3, <1>4 DEF IInv, TypeOK
<1>6. OneInFlight' /\ CompletedIsConfirmed'
  BY <1>1, <1>3 DEF OneInFlight, CompletedIsConfirmed, AtMostOneInFlight, FullyConfirmed
<1>7. QueuedIsClaimable' /\ TerminalBatchIsOver' /\ KnownTogether'
  BY <1>1, <1>2, <1>3, <1>4 DEF IInv, QueuedIsClaimable, TerminalBatchIsOver,
                                KnownTogether, FilesOf, TerminalBatch
<1>8. QED
  BY <1>5, <1>6, <1>7 DEF IInv

LEMMA ExpireKeepsIInv ==
  ASSUME IInv, ClaimBegin
  PROVE  IInv'
<1> USE QueueAssumption DEF ClaimBegin, Expire
<1>1. ASSUME NEW t \in Transfers
      PROVE  /\ batch'[t] \in BatchRecord
             /\ batch'[t].status = IF Expired(t) THEN "expired" ELSE batch[t].status
  BY DEF IInv, TypeOK, BatchRecord, BatchStatus, TerminalBatch
<1>2. ASSUME NEW g \in Files
      PROVE  /\ file'[g] \in FileRecord
             /\ file'[g].confirmed = file[g].confirmed
             /\ file'[g].status =
                  IF Expired(Owner[g]) /\ file[g].status \notin TerminalFile
                  THEN "failed" ELSE file[g].status
  BY DEF IInv, TypeOK, FileRecord, FileStatus, TerminalFile
<1>3. TypeOK'
  <2>1. batch' \in [Transfers -> BatchRecord]
    BY <1>1
  <2>2. file' \in [Files -> FileRecord]
    BY <1>2
  <2>3. QED
    BY <2>1, <2>2 DEF IInv, TypeOK
<1>4. OneInFlight'
  BY <1>2 DEF IInv, OneInFlight, AtMostOneInFlight, InFlight
<1>5. CompletedIsConfirmed'
  BY <1>2 DEF IInv, CompletedIsConfirmed, FullyConfirmed
<1>6. QueuedIsClaimable'
  BY <1>1, <1>2 DEF IInv, QueuedIsClaimable, TerminalFile
<1>7. TerminalBatchIsOver'
  BY <1>1, <1>2 DEF IInv, TerminalBatchIsOver, TerminalBatch, TerminalFile, Expired
<1>8. KnownTogether'
  BY <1>1, <1>2 DEF IInv, KnownTogether, Expired, Known, TerminalFile
<1>9. QED
  BY <1>3, <1>4, <1>5, <1>6, <1>7, <1>8 DEF IInv

LEMMA ClaimFileKeepsIInv ==
  ASSUME IInv, NEW f \in Files, ClaimFile(f)
  PROVE  IInv'
<1> USE QueueAssumption
<1>1. /\ file' \in [Files -> FileRecord]
      /\ file'[f].status = "active"
      /\ file'[f].confirmed = file[f].confirmed
      /\ \A g \in Files \ {f} : file'[g] = file[g]
  BY DEF ClaimFile, IInv, TypeOK, FileRecord, FileStatus, InFlight
<1>2. /\ batch' \in [Transfers -> BatchRecord]
      /\ batch'[Owner[f]].status = "active"
      /\ \A u \in Transfers \ {Owner[f]} : batch'[u] = batch[u]
  <2>1. batch[Owner[f]] \in BatchRecord /\ now + Lifetime \in Nat /\ "active" \in BatchStatus
    BY DEF IInv, TypeOK, BatchStatus
  <2>2. /\ Touched([batch[Owner[f]] EXCEPT !.status = "active"]) \in BatchRecord
        /\ Touched([batch[Owner[f]] EXCEPT !.status = "active"]).status = "active"
    BY <2>1, SettledRecord
  <2>3. QED
    BY <2>2 DEF ClaimFile, IInv, TypeOK
<1>3. file[f].status = "queued" /\ ~SomeInFlight
  BY DEF ClaimFile, IsNext
<1>4. TypeOK'
  BY <1>1, <1>2 DEF ClaimFile, IInv, TypeOK
<1>5. OneInFlight'
  BY <1>1, <1>3 DEF OneInFlight, AtMostOneInFlight, SomeInFlight
<1>6. CompletedIsConfirmed'
  BY <1>1 DEF IInv, CompletedIsConfirmed, FullyConfirmed
<1>7. QueuedIsClaimable' /\ TerminalBatchIsOver'
  BY <1>1, <1>2 DEF ClaimFile, IInv, QueuedIsClaimable, TerminalBatchIsOver, TerminalBatch
<1>8. KnownTogether'
  BY <1>1, <1>2, <1>3 DEF ClaimFile, IInv, KnownTogether
<1>9. QED
  BY <1>4, <1>5, <1>6, <1>7, <1>8 DEF IInv

-----------------------------------------------------------------------------
(* The calls on one file. *)
LEMMA FileCallKeepsIInv ==
  ASSUME IInv, NEW f \in Files, FileCall(f)
  PROVE  IInv'
<1> USE QueueAssumption
<1> DEFINE r == file[f]
<1>1. /\ r \in FileRecord
      /\ Owner[f] \in Transfers
      /\ retrying \subseteq Files
      /\ Size[f] \in Nat
      /\ r.confirmed <= Size[f]
      /\ r.status \in {"verifying", "finalizing", "completed"} => r.confirmed = Size[f]
      /\ r.status = "absent" <=> ~Known(Owner[f])
  BY DEF IInv, TypeOK, CompletedIsConfirmed, FullyConfirmed, KnownTogether, Known
<1>2. ASSUME NEW offset \in 0..Size[f], ConfirmProgress(f, offset)
      PROVE  IInv'
  <2> DEFINE q == [r EXCEPT !.confirmed = offset]
  <2>1. q \in FileRecord /\ q.status = "active" /\ q.confirmed = offset
    BY <1>1, <1>2 DEF ConfirmProgress, FileRecord
  <2>2. file' = [file EXCEPT ![f] = q] /\ batch' = [batch EXCEPT ![Owner[f]] = Touched(@)]
    BY <1>2 DEF ConfirmProgress, Advance
  <2>3. UNCHANGED <<order, retrying, claims, now>>
    BY <1>2 DEF ConfirmProgress, Static
  <2>4. r.status = "active"
    BY <1>2 DEF ConfirmProgress
  <2>5. /\ Touched(batch[Owner[f]]) \in BatchRecord
        /\ Touched(batch[Owner[f]]).status = batch[Owner[f]].status
    <3>1. batch[Owner[f]] \in BatchRecord /\ now + Lifetime \in Nat
      BY <1>1 DEF IInv, TypeOK
    <3>2. QED
      BY <3>1 DEF Touched, BatchRecord
  <2> HIDE DEF q
  <2>6. /\ file' \in [Files -> FileRecord]
        /\ file'[f] = q
        /\ \A g \in Files \ {f} : file'[g] = file[g]
    BY <2>1, <2>2 DEF IInv, TypeOK
  <2>7. /\ batch' \in [Transfers -> BatchRecord]
        /\ \A u \in Transfers : batch'[u].status = batch[u].status
    BY <1>1, <2>2, <2>5 DEF IInv, TypeOK
  <2>8. TypeOK'
    BY <2>3, <2>6, <2>7 DEF IInv, TypeOK
  <2>9. OneInFlight' /\ CompletedIsConfirmed'
    BY <2>1, <2>4, <2>6 DEF IInv, OneInFlight, CompletedIsConfirmed, AtMostOneInFlight,
                            FullyConfirmed
  <2>10. QueuedIsClaimable' /\ TerminalBatchIsOver' /\ KnownTogether'
    BY <2>1, <2>3, <2>4, <2>6, <2>7
      DEF IInv, QueuedIsClaimable, TerminalBatchIsOver, KnownTogether, TerminalFile
  <2>11. QED
    BY <2>8, <2>9, <2>10 DEF IInv
<1>3. ASSUME NEW q \in FileRecord, SettleFile(f, q), Static, r.status # "absent",
             q.status # "absent",
             q.status \in InFlight => r.status \in InFlight,
             q.confirmed <= Size[f],
             q.status \in {"verifying", "finalizing", "completed"} => q.confirmed = Size[f]
      PROVE  IInv'
  BY <1>1, <1>3, SettleFileKeepsIInv DEF Static
<1>4. CASE BeginVerification(f)
  <2> DEFINE q == [r EXCEPT !.status = "verifying", !.confirmed = Size[f]]
  <2>1. q \in FileRecord /\ q.status = "verifying" /\ q.confirmed = Size[f]
    BY <1>1 DEF FileRecord, FileStatus, InFlight
  <2>2. SettleFile(f, q) /\ Static /\ r.status = "active"
    BY <1>4 DEF BeginVerification
  <2> HIDE DEF q
  <2>3. QED
    BY <1>1, <1>3, <2>1, <2>2 DEF InFlight
<1>5. CASE BeginFinalization(f)
  <2> DEFINE q == [r EXCEPT !.status = "finalizing", !.finalPath = TRUE]
  <2>1. q \in FileRecord /\ q.status = "finalizing" /\ q.confirmed = r.confirmed
    BY <1>1 DEF FileRecord, FileStatus, InFlight
  <2>2. SettleFile(f, q) /\ Static /\ r.status \in {"verifying", "finalizing"}
    BY <1>5 DEF BeginFinalization
  <2> HIDE DEF q
  <2>3. QED
    BY <1>1, <1>3, <2>1, <2>2 DEF InFlight
<1>6. CASE Complete(f)
  <2> DEFINE q == [r EXCEPT !.status = "completed", !.finalPath = FALSE]
  <2>1. q \in FileRecord /\ q.status = "completed" /\ q.confirmed = r.confirmed
    BY <1>1 DEF FileRecord, FileStatus, TerminalFile
  <2>2. SettleFile(f, q) /\ Static /\ r.status \in InFlight /\ r.confirmed = Size[f]
    BY <1>6 DEF Complete
  <2> HIDE DEF q
  <2>3. QED
    BY <1>1, <1>3, <2>1, <2>2 DEF InFlight
<1>7. CASE Fail(f)
  <2> DEFINE q == [r EXCEPT !.status = "failed", !.finalPath = FALSE]
  <2>1. q \in FileRecord /\ q.status = "failed" /\ q.confirmed = r.confirmed
    BY <1>1 DEF FileRecord, FileStatus, TerminalFile
  <2>2. SettleFile(f, q) /\ Static /\ r.status # "absent"
    BY <1>7 DEF Fail
  <2> HIDE DEF q
  <2>3. QED
    BY <1>1, <1>3, <2>1, <2>2 DEF InFlight
<1>8. ASSUME NEW s \in {"paused", "queued", "cancelled"}
      PROVE  LET q == [r EXCEPT !.status = s]
             IN  q \in FileRecord /\ q.status = s /\ q.confirmed = r.confirmed
  BY <1>1 DEF FileRecord, FileStatus, TerminalFile
<1>9. ASSUME NEW s \in {"paused", "queued", "cancelled"}, NEW c \in BOOLEAN,
             SettleFile(f, IF c THEN [r EXCEPT !.status = s] ELSE r), Static,
             Known(Owner[f])
      PROVE  IInv'
  <2>1. CASE c
    <3> DEFINE q == [r EXCEPT !.status = s]
    <3>1. q \in FileRecord /\ q.status = s /\ q.confirmed = r.confirmed
      BY <1>8
    <3>2. SettleFile(f, q)
      BY <1>9, <2>1
    <3> HIDE DEF q
    <3>3. QED
      BY <1>1, <1>3, <1>9, <3>1, <3>2 DEF InFlight
  <2>2. CASE ~c
    BY <1>1, <1>3, <1>9, <2>2
  <2>3. QED
    BY <2>1, <2>2
<1>10. CASE PauseFile(f)
  BY <1>9, <1>10 DEF PauseFile
<1>11. CASE ResumeFile(f)
  BY <1>9, <1>11 DEF ResumeFile
<1>12. CASE CancelFile(f)
  BY <1>9, <1>12 DEF CancelFile
<1>13. CASE RetryNothing(f)
  BY <1>1, <1>3, <1>13 DEF RetryNothing
<1>14. CASE RetryEnd(f)
  <2>1. /\ retrying' = retrying \ {f}
        /\ Settle(Owner[f], file)
        /\ UNCHANGED <<order, claims, now>>
    BY <1>14 DEF RetryEnd
  <2>2. /\ Known(Owner[f])
        /\ file \in [Files -> FileRecord]
        /\ \A g \in FilesOf(Owner[f]) : file[g].status # "absent"
    BY <1>14 DEF RetryEnd, IInv, TypeOK, KnownTogether, Known, FilesOf
  <2>3. AtMostOneInFlight(file) /\ FullyConfirmed(file)
    BY DEF IInv, OneInFlight, CompletedIsConfirmed
  <2>4. \A g \in Files : Owner[g] # Owner[f] =>
          file[g] = file[g] /\ (g \in retrying' <=> g \in retrying)
    BY <2>1
  <2>5. retrying' \subseteq Files
    BY <1>1, <2>1
  <2>6. QED
    BY <1>1, <2>1, <2>2, <2>3, <2>4, <2>5, SettleKeepsIInv
<1>15. QED
  BY <1>2, <1>4, <1>5, <1>6, <1>7, <1>10, <1>11, <1>12, <1>13, <1>14, ClaimFileKeepsIInv
    DEF FileCall

(* The calls on one batch. *)
LEMMA BatchCallKeepsIInv ==
  ASSUME IInv, NEW t \in Transfers, BatchCall(t)
  PROVE  IInv'
<1> USE QueueAssumption
<1>1. batch[t] \in BatchRecord /\ now + Lifetime \in Nat /\ retrying \subseteq Files
  BY DEF IInv, TypeOK
<1>2. ASSUME NEW d \in Devices
      PROVE  LET b == [batch[t] EXCEPT !.device = d]
             IN  b \in BatchRecord /\ b.status = batch[t].status
  BY <1>1 DEF BatchRecord
<1>3. ASSUME NEW b \in BatchRecord
      PROVE  Touched(b) \in BatchRecord /\ Touched(b).status = b.status
  BY <1>1 DEF Touched, BatchRecord
<1>4. CASE Enqueue(t)
  BY <1>4, AddBatchKeepsIInv DEF Enqueue
<1>5. ASSUME NEW d \in Devices, AcceptOffer(t, d)
      PROVE  IInv'
  BY <1>5, AddBatchKeepsIInv DEF AcceptOffer
<1>7. ASSUME NEW d \in Devices, AssociateSourceDevice(t, d)
      PROVE  IInv'
  <2> DEFINE b == Touched([batch[t] EXCEPT !.device = d])
  <2>1. b \in BatchRecord /\ b.status = batch[t].status
    BY <1>2, <1>3
  <2>2. batch' = [batch EXCEPT ![t] = b] /\ UNCHANGED <<order, file, claims, now, retrying>>
    BY <1>7 DEF AssociateSourceDevice, Static
  <2> HIDE DEF b
  <2>3. QED
    BY <2>1, <2>2, RetouchKeepsIInv
<1>8. CASE MarkStage(t)
  <2> DEFINE b == Touched(batch[t])
  <2>1. b \in BatchRecord /\ b.status = batch[t].status
    BY <1>1, <1>3
  <2>2. batch' = [batch EXCEPT ![t] = b] /\ UNCHANGED <<order, file, claims, now, retrying>>
    BY <1>8 DEF MarkStage, Static
  <2> HIDE DEF b
  <2>3. QED
    BY <2>1, <2>2, RetouchKeepsIInv
<1>9. CASE PauseBatch(t)
  BY <1>9, PauseBatchKeepsIInv
<1>10. ASSUME NEW From, NEW to \in {"queued", "cancelled"},
              Known(t), Settle(t, Moved(t, From, to)), Static
       PROVE  IInv'
  BY <1>1, <1>10, MovedFiles, SettleKeepsIInv DEF Static
<1>11. CASE ResumeBatch(t)
  BY <1>10, <1>11 DEF ResumeBatch
<1>12. CASE CancelBatch(t)
  BY <1>10, <1>12 DEF CancelBatch
<1>13. QED
  BY <1>4, <1>5, <1>7, <1>8, <1>9, <1>11, <1>12 DEF BatchCall

LEMMA RetryBeginKeepsIInv ==
  ASSUME IInv, NEW f \in Files, RetryBegin(f)
  PROVE  IInv'
<1> USE QueueAssumption
<1>1. NewFile \in FileRecord /\ NewFile.status = "queued" /\ NewFile.confirmed = 0
  BY DEF NewFile, FileRecord, FileStatus
<1>2. /\ file' \in [Files -> FileRecord]
      /\ file'[f] = NewFile
      /\ \A g \in Files \ {f} : file'[g] = file[g]
      /\ file[f].status \in {"failed", "cancelled"}
      /\ retrying' = retrying \cup {f}
      /\ UNCHANGED <<order, batch, claims, now>>
  BY <1>1 DEF RetryBegin, IInv, TypeOK
<1>3. TypeOK'
  BY <1>2 DEF IInv, TypeOK
<1>4. OneInFlight' /\ CompletedIsConfirmed'
  BY <1>1, <1>2 DEF IInv, OneInFlight, CompletedIsConfirmed, AtMostOneInFlight,
                    FullyConfirmed, InFlight
<1>5. QueuedIsClaimable' /\ TerminalBatchIsOver' /\ KnownTogether'
  BY <1>1, <1>2 DEF IInv, QueuedIsClaimable, TerminalBatchIsOver, KnownTogether
<1>6. QED
  BY <1>3, <1>4, <1>5 DEF IInv

LEMMA NextKeepsIInv == IInv /\ [Next]_vars => IInv'
<1> SUFFICES ASSUME IInv, [Next]_vars PROVE IInv'
  OBVIOUS
<1>1. CASE SavingCall
  BY <1>1, FileCallKeepsIInv, BatchCallKeepsIInv DEF SavingCall
<1>2. ASSUME NEW f \in Files, RetryBegin(f)
      PROVE  IInv'
  BY <1>2, RetryBeginKeepsIInv
<1>3. CASE ClaimBegin
  BY <1>3, ExpireKeepsIInv
<1>4. ASSUME UNCHANGED <<order, batch, file, retrying>>, claims' \in Nat, now' \in Nat
      PROVE  IInv'
  BY <1>4 DEF IInv, TypeOK, OneInFlight, CompletedIsConfirmed, AtMostOneInFlight,
              FullyConfirmed, QueuedIsClaimable, TerminalBatchIsOver, KnownTogether
<1>5. CASE ClaimNothing \/ Tick \/ UNCHANGED vars
  BY <1>4, <1>5 DEF ClaimNothing, Tick, vars, IInv, TypeOK
<1>6. QED
  BY <1>1, <1>2, <1>3, <1>5 DEF Next, OtherStep

(* The invariant and each of its parts hold in every reachable state.      *)
THEOREM QueueInvariant == Spec => []IInv
<1>1. Init => IInv
  BY InitEstablishesIInv
<1>2. IInv /\ [Next]_vars => IInv'
  BY NextKeepsIInv
<1>3. QED
  BY <1>1, <1>2, PTL DEF Spec

(* The records of the queue keep their shape.                              *)
THEOREM TypeCorrect == Spec => []TypeOK
BY QueueInvariant, PTL DEF IInv

(* One file is in flight on the whole laptop, however calls interleave.    *)
THEOREM OneFileInFlight == Spec => []OneInFlight
BY QueueInvariant, PTL DEF IInv

(* No file is verified, finalized or completed with unconfirmed bytes.     *)
THEOREM CompletedFilesAreConfirmed == Spec => []CompletedIsConfirmed
BY QueueInvariant, PTL DEF IInv

(* claimNext can always find a queued file whose retry is not running.     *)
THEOREM NoQueuedFileIsStranded == Spec => []QueuedIsClaimable
BY QueueInvariant, PTL DEF IInv

(* A batch that is over has no file left to move.                          *)
THEOREM OverMeansOver == Spec => []TerminalBatchIsOver
BY QueueInvariant, PTL DEF IInv
-----------------------------------------------------------------------------
(* What one step may do to one file, and to the batch it is in.            *)

(* A file that is over stays as it is, or starts again; a file comes into  *)
(* flight by being claimed; nothing but verified bytes are ever verified.  *)
FileMoves(f) ==
  LET r == file[f]
      s == file'[f]
  IN  /\ s \in FileRecord
      /\ s.confirmed <= Size[f]
      /\ s.status \in {"verifying", "finalizing", "completed"} => s.confirmed = Size[f]
      /\ s.status \in InFlight => r.status \in InFlight \/ ClaimFile(f)
      /\ r.status \in TerminalFile => s = r \/ (r.status # "completed" /\ s = NewFile)
      /\ r.status = "queued" /\ s.status = "active" => ClaimFile(f)
      /\ s.status = "absent" <=> batch'[Owner[f]].status = "absent"
      /\ r.status # "absent" => s.status # "absent"

(* The part of the invariant that holds of every snapshot as well.         *)
CoreInv == TypeOK /\ OneInFlight /\ CompletedIsConfirmed /\ KnownTogether

LEMMA SettledBatch ==
  ASSUME CoreInv, NEW t \in Transfers, NEW F, Settle(t, F)
  PROVE  /\ batch' \in [Transfers -> BatchRecord]
         /\ batch'[t].status # "absent"
         /\ \A u \in Transfers \ {t} : batch'[u] = batch[u]
<1>1. DerivedStatus(t, F) \in BatchStatus \ {"absent", "expired"}
  BY DerivedStatusMeaning
<1>2. batch[t] \in BatchRecord /\ now + Lifetime \in Nat
  BY QueueAssumption DEF CoreInv, TypeOK
<1>3. /\ Touched([batch[t] EXCEPT !.status = DerivedStatus(t, F)]) \in BatchRecord
      /\ Touched([batch[t] EXCEPT !.status = DerivedStatus(t, F)]).status = DerivedStatus(t, F)
  BY <1>1, <1>2, SettledRecord
<1>4. QED
  BY <1>1, <1>3 DEF Settle, CoreInv, TypeOK

(* A file that stays as it is, in a batch that is known as before.         *)
LEMMA FileRests ==
  ASSUME CoreInv, NEW g \in Files, file'[g] = file[g],
         batch'[Owner[g]].status = "absent" <=> batch[Owner[g]].status = "absent"
  PROVE  FileMoves(g)
BY DEF FileMoves, CoreInv, TypeOK, CompletedIsConfirmed, FullyConfirmed, KnownTogether,
       InFlight, TerminalFile

(* Every file when one of them gets the record r and its batch is derived. *)
LEMMA SettledFiles ==
  ASSUME CoreInv, NEW f \in Files, NEW r \in FileRecord, Known(Owner[f]),
         SettleFile(f, r), r.status # "absent",
         r.status \in InFlight => file[f].status \in InFlight,
         r.confirmed <= Size[f],
         r.status \in {"verifying", "finalizing", "completed"} => r.confirmed = Size[f],
         file[f].status \in TerminalFile => r = file[f]
  PROVE  /\ batch' \in [Transfers -> BatchRecord]
         /\ \A g \in Files : FileMoves(g)
<1>1. /\ Owner[f] \in Transfers /\ file[f] \in FileRecord
      /\ Settle(Owner[f], [file EXCEPT ![f] = r])
  BY QueueAssumption DEF SettleFile, CoreInv, TypeOK
<1>2. /\ batch' \in [Transfers -> BatchRecord]
      /\ batch'[Owner[f]].status # "absent"
      /\ \A u \in Transfers \ {Owner[f]} : batch'[u] = batch[u]
  BY <1>1, SettledBatch
<1>3. file'[f] = r /\ \A g \in Files \ {f} : file'[g] = file[g]
  BY <1>1 DEF Settle, CoreInv, TypeOK
<1>4. FileMoves(f)
  BY <1>2, <1>3 DEF FileMoves, InFlight, TerminalFile
<1>5. ASSUME NEW g \in Files \ {f} PROVE FileMoves(g)
  <2>1. batch'[Owner[g]].status = "absent" <=> batch[Owner[g]].status = "absent"
    BY <1>2, QueueAssumption DEF Known
  <2>2. QED
    BY <1>3, <2>1, FileRests
<1>6. QED
  BY <1>2, <1>4, <1>5

LEMMA FileCallMoves ==
  ASSUME CoreInv, NEW f \in Files, FileCall(f)
  PROVE  /\ batch' \in [Transfers -> BatchRecord]
         /\ \A g \in Files : FileMoves(g)
<1> USE QueueAssumption
<1> DEFINE r == file[f]
           Result == /\ batch' \in [Transfers -> BatchRecord]
                     /\ \A g \in Files : FileMoves(g)
<1>1. /\ r \in FileRecord
      /\ Owner[f] \in Transfers
      /\ Size[f] \in Nat
      /\ r.confirmed <= Size[f]
      /\ r.status \in {"verifying", "finalizing", "completed"} => r.confirmed = Size[f]
      /\ r.status = "absent" <=> ~Known(Owner[f])
      /\ batch[Owner[f]] \in BatchRecord /\ now + Lifetime \in Nat
  BY DEF CoreInv, TypeOK, CompletedIsConfirmed, FullyConfirmed, KnownTogether, Known
<1>2. ASSUME NEW q \in FileRecord, SettleFile(f, q), r.status # "absent",
             q.status # "absent", q.status \in InFlight => r.status \in InFlight,
             q.confirmed <= Size[f],
             q.status \in {"verifying", "finalizing", "completed"} => q.confirmed = Size[f],
             r.status \in TerminalFile => q = r
      PROVE  Result
  BY <1>1, <1>2, SettledFiles
<1>3. ASSUME NEW offset \in 0..Size[f], ConfirmProgress(f, offset) PROVE Result
  <2> DEFINE q == [r EXCEPT !.confirmed = offset]
  <2>1. q \in FileRecord /\ q.status = r.status /\ r.status = "active" /\ q.confirmed = offset
    BY <1>1, <1>3 DEF ConfirmProgress, FileRecord
  <2>2. Touched(batch[Owner[f]]) \in BatchRecord /\ Touched(batch[Owner[f]]).status = batch[Owner[f]].status
    BY <1>1 DEF Touched, BatchRecord
  <2>3. file' = [file EXCEPT ![f] = q] /\ batch' = [batch EXCEPT ![Owner[f]] = Touched(@)]
    BY <1>3 DEF ConfirmProgress, Advance
  <2> HIDE DEF q
  <2>4. file'[f] = q /\ \A g \in Files \ {f} : file'[g] = file[g]
    BY <2>3 DEF CoreInv, TypeOK
  <2>5. /\ batch' \in [Transfers -> BatchRecord]
        /\ \A u \in Transfers : batch'[u].status = batch[u].status
    BY <1>1, <2>2, <2>3 DEF CoreInv, TypeOK
  <2>6. FileMoves(f)
    BY <1>1, <2>1, <2>4, <2>5 DEF FileMoves, Known, InFlight, TerminalFile
  <2>7. ASSUME NEW g \in Files \ {f} PROVE FileMoves(g)
    BY <2>4, <2>5, FileRests
  <2>8. QED
    BY <2>5, <2>6, <2>7
<1>4. CASE BeginVerification(f)
  <2> DEFINE q == [r EXCEPT !.status = "verifying", !.confirmed = Size[f]]
  <2>1. q \in FileRecord /\ q.status = "verifying" /\ q.confirmed = Size[f]
    BY <1>1 DEF FileRecord, FileStatus, InFlight
  <2>2. SettleFile(f, q) /\ r.status = "active"
    BY <1>4 DEF BeginVerification
  <2> HIDE DEF q
  <2>3. QED
    BY <1>1, <1>2, <2>1, <2>2 DEF InFlight, TerminalFile
<1>5. CASE BeginFinalization(f)
  <2> DEFINE q == [r EXCEPT !.status = "finalizing", !.finalPath = TRUE]
  <2>1. q \in FileRecord /\ q.status = "finalizing" /\ q.confirmed = r.confirmed
    BY <1>1 DEF FileRecord, FileStatus, InFlight
  <2>2. SettleFile(f, q) /\ r.status \in {"verifying", "finalizing"}
    BY <1>5 DEF BeginFinalization
  <2> HIDE DEF q
  <2>3. QED
    BY <1>1, <1>2, <2>1, <2>2 DEF InFlight, TerminalFile
<1>6. CASE Complete(f)
  <2> DEFINE q == [r EXCEPT !.status = "completed", !.finalPath = FALSE]
  <2>1. q \in FileRecord /\ q.status = "completed" /\ q.confirmed = r.confirmed
    BY <1>1 DEF FileRecord, FileStatus, TerminalFile
  <2>2. SettleFile(f, q) /\ r.status \in InFlight /\ r.confirmed = Size[f]
    BY <1>6 DEF Complete
  <2> HIDE DEF q
  <2>3. QED
    BY <1>1, <1>2, <2>1, <2>2 DEF InFlight, TerminalFile
<1>7. CASE Fail(f)
  <2> DEFINE q == [r EXCEPT !.status = "failed", !.finalPath = FALSE]
  <2>1. q \in FileRecord /\ q.status = "failed" /\ q.confirmed = r.confirmed
    BY <1>1 DEF FileRecord, FileStatus, TerminalFile
  <2>2. SettleFile(f, q) /\ r.status \notin TerminalFile \cup {"absent"}
    BY <1>7 DEF Fail
  <2> HIDE DEF q
  <2>3. QED
    BY <1>1, <1>2, <2>1, <2>2 DEF InFlight
<1>8. ASSUME NEW s \in {"paused", "queued", "cancelled"}, NEW c \in BOOLEAN,
             SettleFile(f, IF c THEN [r EXCEPT !.status = s] ELSE r),
             Known(Owner[f]), c => r.status \notin TerminalFile
      PROVE  Result
  <2>1. CASE c
    <3> DEFINE q == [r EXCEPT !.status = s]
    <3>1. q \in FileRecord /\ q.status = s /\ q.confirmed = r.confirmed
      BY <1>1 DEF FileRecord, FileStatus, TerminalFile
    <3>2. SettleFile(f, q)
      BY <1>8, <2>1
    <3> HIDE DEF q
    <3>3. QED
      BY <1>1, <1>2, <1>8, <2>1, <3>1, <3>2 DEF InFlight
  <2>2. CASE ~c
    BY <1>1, <1>2, <1>8, <2>2
  <2>3. QED
    BY <2>1, <2>2
<1>9. CASE PauseFile(f)
  BY <1>8, <1>9 DEF PauseFile, TerminalFile
<1>10. CASE ResumeFile(f)
  BY <1>8, <1>10 DEF ResumeFile, TerminalFile
<1>11. CASE CancelFile(f)
  BY <1>8, <1>11 DEF CancelFile
<1>12. CASE RetryNothing(f)
  BY <1>1, <1>2, <1>12 DEF RetryNothing
<1>13. CASE RetryEnd(f)
  <2>1. Settle(Owner[f], file) /\ Known(Owner[f])
    BY <1>13 DEF RetryEnd, CoreInv, KnownTogether, Known
  <2>2. /\ batch' \in [Transfers -> BatchRecord]
        /\ batch'[Owner[f]].status # "absent"
        /\ \A u \in Transfers \ {Owner[f]} : batch'[u] = batch[u]
    BY <1>1, <2>1, SettledBatch
  <2>3. file' = file
    BY <2>1 DEF Settle
  <2>4. ASSUME NEW g \in Files PROVE FileMoves(g)
    <3>1. batch'[Owner[g]].status = "absent" <=> batch[Owner[g]].status = "absent"
      BY <2>1, <2>2 DEF Known
    <3>2. QED
      BY <2>3, <3>1, FileRests
  <2>5. QED
    BY <2>2, <2>4
<1>14. CASE ClaimFile(f)
  <2>1. /\ file'[f].status = "active" /\ file'[f] \in FileRecord
        /\ file'[f].confirmed = file[f].confirmed
        /\ \A g \in Files \ {f} : file'[g] = file[g]
        /\ r.status = "queued"
    BY <1>1, <1>14 DEF ClaimFile, IsNext, CoreInv, TypeOK, FileRecord, FileStatus, InFlight
  <2>2. /\ Touched([batch[Owner[f]] EXCEPT !.status = "active"]) \in BatchRecord
        /\ Touched([batch[Owner[f]] EXCEPT !.status = "active"]).status = "active"
    <3>1. "active" \in BatchStatus
      BY DEF BatchStatus
    <3>2. QED
      BY <1>1, <3>1, SettledRecord
  <2>3. /\ batch' \in [Transfers -> BatchRecord]
        /\ batch'[Owner[f]].status = "active"
        /\ \A u \in Transfers \ {Owner[f]} : batch'[u] = batch[u]
    BY <1>1, <1>14, <2>2 DEF ClaimFile, CoreInv, TypeOK
  <2>4. FileMoves(f)
    BY <1>1, <1>14, <2>1, <2>3 DEF FileMoves, InFlight, TerminalFile
  <2>5. ASSUME NEW g \in Files \ {f} PROVE FileMoves(g)
    <3>1. batch[Owner[f]].status # "absent"
      BY <1>1, <2>1 DEF Known
    <3>2. batch'[Owner[g]].status = "absent" <=> batch[Owner[g]].status = "absent"
      BY <2>3, <3>1
    <3>3. QED
      BY <2>1, <3>2, FileRests
  <2>6. QED
    BY <2>3, <2>4, <2>5
<1>15. QED
  BY <1>3, <1>4, <1>5, <1>6, <1>7, <1>9, <1>10, <1>11, <1>12, <1>13, <1>14 DEF FileCall

(* The same of the calls on one batch.                                     *)
LEMMA MovedFilesMove ==
  ASSUME CoreInv, NEW t \in Transfers, Known(t), NEW From, NEW to \in {"queued", "paused", "cancelled"},
         From \cap TerminalFile = {}, file' = Moved(t, From, to),
         batch'[t].status # "absent",
         \A u \in Transfers \ {t} : batch'[u] = batch[u]
  PROVE  \A g \in Files : FileMoves(g)
<1> USE QueueAssumption
<1> SUFFICES ASSUME NEW g \in Files PROVE FileMoves(g)
  OBVIOUS
<1>1. file[g] \in FileRecord
  BY DEF CoreInv, TypeOK
<1>2. CASE Owner[g] = t /\ file[g].status \in From
  <2>1. file'[g] = [file[g] EXCEPT !.status = to]
    BY <1>2 DEF Moved
  <2>2. file'[g] \in FileRecord /\ file'[g].status = to /\ file'[g].confirmed = file[g].confirmed
    BY <1>1, <2>1 DEF FileRecord, FileStatus, TerminalFile
  <2>3. file[g].confirmed <= Size[g] /\ file[g].status \notin TerminalFile
    BY <1>2 DEF CoreInv, CompletedIsConfirmed, FullyConfirmed
  <2>4. QED
    BY <1>2, <2>2, <2>3 DEF FileMoves, InFlight
<1>3. CASE ~(Owner[g] = t /\ file[g].status \in From)
  <2>1. file'[g] = file[g]
    BY <1>3 DEF Moved
  <2>2. batch'[Owner[g]].status = "absent" <=> batch[Owner[g]].status = "absent"
    BY DEF Known
  <2>3. QED
    BY <2>1, <2>2, FileRests
<1>4. QED
  BY <1>2, <1>3

LEMMA BatchCallMoves ==
  ASSUME CoreInv, NEW t \in Transfers, BatchCall(t)
  PROVE  /\ batch' \in [Transfers -> BatchRecord]
         /\ \A g \in Files : FileMoves(g)
<1> USE QueueAssumption
<1> DEFINE Result == /\ batch' \in [Transfers -> BatchRecord]
                     /\ \A g \in Files : FileMoves(g)
<1>1. batch[t] \in BatchRecord /\ now + Lifetime \in Nat
  BY DEF CoreInv, TypeOK
<1>2. ASSUME NEW d \in Devices \cup {NoDevice}, AddBatch(t, d) PROVE Result
  <2>1. NewFile \in FileRecord /\ NewFile.status = "queued" /\ NewFile.confirmed = 0
    BY DEF NewFile, FileRecord, FileStatus
  <2>2. /\ batch' \in [Transfers -> BatchRecord]
        /\ batch'[t].status = "queued"
        /\ \A u \in Transfers \ {t} : batch'[u] = batch[u]
    BY <1>1, <1>2 DEF AddBatch, CoreInv, TypeOK, BatchRecord, BatchStatus
  <2>3. ASSUME NEW g \in Files PROVE FileMoves(g)
    <3>1. CASE Owner[g] = t
      <4>1. file'[g] = NewFile /\ file[g].status = "absent"
        BY <1>2, <3>1 DEF AddBatch, CoreInv, KnownTogether, Known
      <4>2. QED
        BY <2>1, <2>2, <3>1, <4>1 DEF FileMoves, InFlight, TerminalFile
    <3>2. CASE Owner[g] # t
      <4>1. file'[g] = file[g] /\ batch'[Owner[g]] = batch[Owner[g]]
        BY <1>2, <2>2, <3>2 DEF AddBatch
      <4>2. QED
        BY <4>1, FileRests
    <3>3. QED
      BY <3>1, <3>2
  <2>4. QED
    BY <2>2, <2>3
<1>3. ASSUME NEW b \in BatchRecord, b.status = batch[t].status,
             batch' = [batch EXCEPT ![t] = b], file' = file
      PROVE  Result
  <2>1. /\ batch' \in [Transfers -> BatchRecord]
        /\ \A u \in Transfers : batch'[u].status = batch[u].status
    BY <1>3 DEF CoreInv, TypeOK
  <2>2. ASSUME NEW g \in Files PROVE FileMoves(g)
    BY <1>3, <2>1, FileRests
  <2>3. QED
    BY <2>1, <2>2
<1>4. ASSUME NEW b \in BatchRecord
      PROVE  Touched(b) \in BatchRecord /\ Touched(b).status = b.status
  BY <1>1 DEF Touched, BatchRecord
<1>5. CASE Enqueue(t)
  BY <1>2, <1>5 DEF Enqueue
<1>6. ASSUME NEW d \in Devices, AcceptOffer(t, d) PROVE Result
  BY <1>2, <1>6 DEF AcceptOffer
<1>7. ASSUME NEW d \in Devices, AssociateSourceDevice(t, d) PROVE Result
  <2> DEFINE b == [batch[t] EXCEPT !.device = d]
  <2>1. b \in BatchRecord /\ b.status = batch[t].status
    BY <1>1 DEF BatchRecord
  <2>2. batch' = [batch EXCEPT ![t] = Touched(b)] /\ file' = file
    BY <1>7 DEF AssociateSourceDevice
  <2> HIDE DEF b
  <2>3. QED
    BY <1>3, <1>4, <2>1, <2>2
<1>8. CASE MarkStage(t)
  <2>1. batch' = [batch EXCEPT ![t] = Touched(batch[t])] /\ file' = file
    BY <1>8 DEF MarkStage
  <2>2. QED
    BY <1>1, <1>3, <1>4, <2>1
<1>9. CASE PauseBatch(t)
  <2>1. "paused" \in BatchStatus
    BY DEF BatchStatus
  <2>2. /\ Touched([batch[t] EXCEPT !.status = "paused"]) \in BatchRecord
        /\ Touched([batch[t] EXCEPT !.status = "paused"]).status = "paused"
    BY <1>1, <2>1, SettledRecord
  <2>3. /\ batch' \in [Transfers -> BatchRecord]
        /\ batch'[t].status = "paused"
        /\ \A u \in Transfers \ {t} : batch'[u] = batch[u]
    BY <1>9, <2>2 DEF PauseBatch, CoreInv, TypeOK
  <2>4. Known(t) /\ file' = Moved(t, {"queued", "active"}, "paused")
    BY <1>9 DEF PauseBatch
  <2>5. {"queued", "active"} \cap TerminalFile = {}
    BY DEF TerminalFile
  <2>6. QED
    BY <2>3, <2>4, <2>5, MovedFilesMove
<1>10. ASSUME NEW From, NEW to \in {"queued", "cancelled"}, Known(t),
              From \cap TerminalFile = {}, Settle(t, Moved(t, From, to))
       PROVE  Result
  <2>1. /\ batch' \in [Transfers -> BatchRecord]
        /\ batch'[t].status # "absent"
        /\ \A u \in Transfers \ {t} : batch'[u] = batch[u]
    BY <1>10, SettledBatch
  <2>2. file' = Moved(t, From, to)
    BY <1>10 DEF Settle
  <2>3. QED
    BY <1>10, <2>1, <2>2, MovedFilesMove
<1>11. CASE ResumeBatch(t)
  BY <1>10, <1>11 DEF ResumeBatch, TerminalFile
<1>12. CASE CancelBatch(t)
  BY <1>10, <1>12 DEF CancelBatch
<1>13. QED
  BY <1>5, <1>6, <1>7, <1>8, <1>9, <1>11, <1>12 DEF BatchCall

(* What expire does: every file it fails belongs to a batch it knows.      *)
LEMMA ExpireMoves ==
  ASSUME CoreInv, Expire
  PROVE  /\ batch' \in [Transfers -> BatchRecord]
         /\ \A g \in Files : FileMoves(g)
<1> USE QueueAssumption
<1>1. ASSUME NEW t \in Transfers
      PROVE  /\ batch'[t] \in BatchRecord
             /\ batch'[t].status = "absent" <=> batch[t].status = "absent"
  BY DEF Expire, Expired, Known, CoreInv, TypeOK, BatchRecord, BatchStatus, TerminalBatch
<1>2. batch' \in [Transfers -> BatchRecord]
  BY <1>1 DEF Expire
<1>3. ASSUME NEW g \in Files PROVE FileMoves(g)
  <2>1. file[g] \in FileRecord /\ file[g].confirmed <= Size[g]
    BY DEF CoreInv, TypeOK, CompletedIsConfirmed, FullyConfirmed
  <2>2. batch'[Owner[g]].status = "absent" <=> batch[Owner[g]].status = "absent"
    BY <1>1
  <2>3. CASE Expired(Owner[g]) /\ file[g].status \notin TerminalFile
    <3>1. file'[g] = [file[g] EXCEPT !.status = "failed"]
      BY <2>3 DEF Expire
    <3>2. /\ file'[g] \in FileRecord /\ file'[g].status = "failed"
          /\ file'[g].confirmed = file[g].confirmed
      BY <2>1, <3>1 DEF FileRecord, FileStatus, TerminalFile
    <3>3. batch'[Owner[g]].status # "absent"
      BY <2>2, <2>3 DEF Expired, Known
    <3>4. QED
      BY <2>1, <2>3, <3>2, <3>3 DEF FileMoves, InFlight
  <2>4. CASE ~(Expired(Owner[g]) /\ file[g].status \notin TerminalFile)
    <3>1. file'[g] = file[g]
      BY <2>4 DEF Expire
    <3>2. QED
      BY <2>2, <3>1, FileRests
  <2>5. QED
    BY <2>3, <2>4
<1>4. QED
  BY <1>2, <1>3

LEMMA RetryBeginMoves ==
  ASSUME CoreInv, NEW f \in Files, RetryBegin(f)
  PROVE  /\ batch' \in [Transfers -> BatchRecord]
         /\ \A g \in Files : FileMoves(g)
<1>1. NewFile \in FileRecord /\ NewFile.status = "queued" /\ NewFile.confirmed = 0
  BY DEF NewFile, FileRecord, FileStatus
<1>2. /\ file[f].status \in {"failed", "cancelled"}
      /\ file'[f] = NewFile /\ \A g \in Files \ {f} : file'[g] = file[g]
      /\ batch' = batch
  BY DEF RetryBegin, CoreInv, TypeOK
<1>3. FileMoves(f)
  BY <1>1, <1>2, QueueAssumption DEF FileMoves, CoreInv, KnownTogether, InFlight
<1>4. ASSUME NEW g \in Files \ {f} PROVE FileMoves(g)
  BY <1>2, FileRests
<1>5. QED
  BY <1>2, <1>3, <1>4 DEF CoreInv, TypeOK

(* Every step of the queue moves every file as FileMoves says.             *)
LEMMA NextMoves ==
  ASSUME CoreInv, [Next]_vars
  PROVE  /\ batch' \in [Transfers -> BatchRecord]
         /\ \A g \in Files : FileMoves(g)
<1> DEFINE Result == /\ batch' \in [Transfers -> BatchRecord]
                     /\ \A g \in Files : FileMoves(g)
<1>1. CASE SavingCall
  BY <1>1, FileCallMoves, BatchCallMoves DEF SavingCall
<1>2. ASSUME NEW f \in Files, RetryBegin(f) PROVE Result
  BY <1>2, RetryBeginMoves
<1>3. CASE ClaimBegin
  BY <1>3, ExpireMoves DEF ClaimBegin
<1>4. CASE ClaimNothing \/ Tick \/ UNCHANGED vars
  <2>1. batch' = batch /\ file' = file
    BY <1>4 DEF ClaimNothing, Tick, vars
  <2>2. ASSUME NEW g \in Files PROVE FileMoves(g)
    BY <2>1, FileRests
  <2>3. QED
    BY <2>1, <2>2 DEF CoreInv, TypeOK
<1>5. QED
  BY <1>1, <1>2, <1>3, <1>4 DEF Next, OtherStep

(* The rest of the state: a batch joins the list once, when it is not      *)
(* known yet, and a file whose retry begins is a new file.                 *)
Listed(t) == ~Known(t) /\ order' = Append(order, t)
                       /\ \A f \in FilesOf(t) : file'[f] = NewFile

LEMMA NextFrame ==
  ASSUME CoreInv, [Next]_vars
  PROVE  /\ order' = order \/ \E t \in Transfers : Listed(t)
         /\ \A f \in retrying' : f \in Files /\ (f \in retrying \/ file'[f] = NewFile)
         /\ claims' \in Nat /\ now' \in Nat
<1> DEFINE Result == /\ order' = order \/ \E t \in Transfers : Listed(t)
                     /\ \A f \in retrying' : f \in Files /\ (f \in retrying \/ file'[f] = NewFile)
                     /\ claims' \in Nat /\ now' \in Nat
<1>1. retrying \subseteq Files /\ claims \in Nat /\ now \in Nat /\ file \in [Files -> FileRecord]
  BY DEF CoreInv, TypeOK
<1>2. CASE UNCHANGED <<order, retrying, claims, now>>
  BY <1>1, <1>2
<1>3. ASSUME NEW t \in Transfers, NEW d, AddBatch(t, d) PROVE Result
  <2>1. Listed(t)
    BY <1>3 DEF Listed, AddBatch, FilesOf
  <2>2. QED
    BY <1>1, <1>3, <2>1 DEF AddBatch
<1>4. ASSUME NEW t \in Transfers, BatchCall(t) PROVE Result
  BY <1>2, <1>3, <1>4
    DEF BatchCall, Enqueue, AcceptOffer, AssociateSourceDevice, MarkStage, PauseBatch,
        ResumeBatch, CancelBatch, Static
<1>5. ASSUME NEW f \in Files, FileCall(f) PROVE Result
  <2>1. CASE Static
    BY <1>2, <2>1 DEF Static
  <2>2. CASE RetryEnd(f)
    BY <1>1, <2>2 DEF RetryEnd
  <2>3. CASE ClaimFile(f)
    BY <1>1, <2>3 DEF ClaimFile
  <2>4. QED
    BY <1>5, <2>1, <2>2, <2>3
      DEF FileCall, ConfirmProgress, BeginVerification, BeginFinalization, Complete, Fail,
          PauseFile, ResumeFile, CancelFile, RetryNothing
<1>6. ASSUME NEW f \in Files, RetryBegin(f) PROVE Result
  BY <1>1, <1>6 DEF RetryBegin
<1>7. CASE ClaimBegin \/ ClaimNothing \/ Tick \/ UNCHANGED vars
  BY <1>1, <1>7 DEF ClaimBegin, ClaimNothing, Tick, vars
<1>8. QED
  BY <1>4, <1>5, <1>6, <1>7 DEF Next, SavingCall, OtherStep

LEMMA NextKeepsTheFiles ==
  ASSUME CoreInv, [Next]_vars
  PROVE  file' = [g \in Files |-> file'[g]]
<1> DEFINE Result == file' = [g \in Files |-> file'[g]]
<1>1. file = [g \in Files |-> file[g]]
  BY DEF CoreInv, TypeOK
<1>2. CASE UNCHANGED file
  BY <1>1, <1>2
<1>3. ASSUME NEW f \in Files, NEW r, file' = [file EXCEPT ![f] = r] PROVE Result
  BY <1>1, <1>3
<1>4. ASSUME NEW F, file' = [g \in Files |-> F[g]] PROVE Result
  BY <1>4
<1>5. ASSUME NEW t, NEW d, AddBatch(t, d) PROVE Result
  BY <1>5 DEF AddBatch
<1>6. ASSUME NEW t, NEW From, NEW to, file' = Moved(t, From, to) PROVE Result
  BY <1>6 DEF Moved
<1>7. ASSUME NEW f \in Files, FileCall(f) PROVE Result
  <2>1. ASSUME NEW r, SettleFile(f, r) PROVE Result
    BY <1>3, <2>1 DEF SettleFile, Settle
  <2>2. ASSUME NEW r, Advance(f, r) PROVE Result
    BY <1>3, <2>2 DEF Advance
  <2>3. CASE RetryEnd(f)
    BY <1>2, <2>3 DEF RetryEnd, Settle
  <2>4. CASE ClaimFile(f)
    BY <1>3, <2>4 DEF ClaimFile
  <2>5. QED
    BY <1>7, <2>1, <2>2, <2>3, <2>4
      DEF FileCall, ConfirmProgress, BeginVerification, BeginFinalization, Complete, Fail,
          PauseFile, ResumeFile, CancelFile, RetryNothing
<1>8. ASSUME NEW t \in Transfers, BatchCall(t) PROVE Result
  BY <1>2, <1>5, <1>6, <1>8
    DEF BatchCall, Enqueue, AcceptOffer, AssociateSourceDevice, MarkStage, PauseBatch,
        ResumeBatch, CancelBatch, Settle
<1>9. ASSUME NEW f \in Files, RetryBegin(f) PROVE Result
  BY <1>3, <1>9 DEF RetryBegin
<1>10. CASE ClaimBegin
  BY <1>10 DEF ClaimBegin, Expire
<1>11. CASE ClaimNothing \/ Tick \/ UNCHANGED vars
  BY <1>2, <1>11 DEF ClaimNothing, Tick, vars
<1>12. QED
  BY <1>7, <1>8, <1>9, <1>10, <1>11 DEF Next, SavingCall, OtherStep

(* The core of the invariant is inductive by itself.                       *)
LEMMA NextKeepsCore ==
  ASSUME CoreInv, [Next]_vars
  PROVE  CoreInv'
<1> USE QueueAssumption
<1>1. batch' \in [Transfers -> BatchRecord] /\ \A g \in Files : FileMoves(g)
  BY NextMoves
<1>2. order' = order \/ \E t \in Transfers : Listed(t)
  BY NextFrame
<1>3. /\ \A f \in retrying' : f \in Files /\ (f \in retrying \/ file'[f] = NewFile)
      /\ claims' \in Nat /\ now' \in Nat
  BY NextFrame
<1>4. order' \in Seq(Transfers)
  <2>1. order \in Seq(Transfers)
    BY DEF CoreInv, TypeOK
  <2>2. ASSUME NEW t \in Transfers, Listed(t) PROVE order' \in Seq(Transfers)
    BY <2>1, <2>2, AppendProperties DEF Listed
  <2>3. QED
    BY <1>2, <2>1, <2>2
<1>5. file' \in [Files -> FileRecord]
  <2>1. file' = [g \in Files |-> file'[g]]
    BY NextKeepsTheFiles
  <2>2. \A g \in Files : file'[g] \in FileRecord
    BY <1>1 DEF FileMoves
  <2>3. QED
    BY <2>1, <2>2
<1>6. TypeOK'
  BY <1>1, <1>3, <1>4, <1>5 DEF TypeOK
<1>7. OneInFlight'
  <2>1. ASSUME NEW f \in Files, NEW g \in Files, file'[f].status \in InFlight,
               file'[g].status \in InFlight, f # g
        PROVE  FALSE
    <3>1. /\ file[f].status \in InFlight \/ ClaimFile(f)
          /\ file[g].status \in InFlight \/ ClaimFile(g)
      BY <1>1, <2>1 DEF FileMoves
    <3>2. ASSUME NEW h \in Files, ClaimFile(h)
          PROVE  \A k \in Files : file'[k].status \in InFlight => k = h
      BY <3>2 DEF ClaimFile, SomeInFlight, CoreInv, TypeOK
    <3>3. QED
      BY <2>1, <3>1, <3>2 DEF CoreInv, OneInFlight, AtMostOneInFlight
  <2>2. QED
    BY <2>1 DEF OneInFlight, AtMostOneInFlight
<1>8. CompletedIsConfirmed'
  BY <1>1 DEF CompletedIsConfirmed, FullyConfirmed, FileMoves
<1>9. KnownTogether'
  <2>1. ASSUME NEW f \in Files
        PROVE  file'[f].status = "absent" <=> batch'[Owner[f]].status = "absent"
    BY <1>1 DEF FileMoves
  <2>2. ASSUME NEW f \in retrying' PROVE file'[f].status # "absent"
    <3>1. f \in Files /\ (f \in retrying \/ file'[f] = NewFile)
      BY <1>3
    <3>2. NewFile.status = "queued"
      BY DEF NewFile
    <3>3. CASE f \in retrying
      BY <1>1, <3>1, <3>3 DEF FileMoves, CoreInv, KnownTogether
    <3>4. QED
      BY <3>1, <3>2, <3>3
  <2>3. QED
    BY <2>1, <2>2 DEF KnownTogether
<1>10. QED
  BY <1>6, <1>7, <1>8, <1>9 DEF CoreInv

(* A file that reached its end stays there until it is retried: every call *)
(* that writes a file's status looks at it first.                          *)
THEOREM EndedFilesStay == Spec => TerminalUntilRetried
<1>1. Init => CoreInv
  BY InitEstablishesIInv DEF IInv, CoreInv
<1>2. CoreInv /\ [Next]_vars => CoreInv'
  BY NextKeepsCore
<1>3. CoreInv /\ [Next]_vars =>
        \A f \in Files :
          file[f].status \in TerminalFile /\ file'[f] # file[f]
            => file[f].status # "completed" /\ file'[f] = NewFile
  BY NextMoves DEF FileMoves
<1>4. QED
  BY <1>1, <1>2, <1>3, PTL DEF Spec, TerminalUntilRetried

(* A transfer with files is listed once, and only if it is known.          *)
ListedOnce ==
  \A f \in Files : \A i, k \in DOMAIN order :
    order[i] = Owner[f] => /\ file[f].status # "absent"
                           /\ order[k] = Owner[f] => i = k

LEMMA NextKeepsListedOnce ==
  ASSUME CoreInv, ListedOnce, [Next]_vars
  PROVE  ListedOnce'
<1>1. \A g \in Files : FileMoves(g)
  BY NextMoves
<1>2. order' = order \/ \E t \in Transfers : Listed(t)
  BY NextFrame
<1>3. CASE order' = order
  BY <1>1, <1>3 DEF ListedOnce, FileMoves
<1>4. ASSUME NEW t \in Transfers, Listed(t) PROVE ListedOnce'
  <2>1. /\ order \in Seq(Transfers) /\ order' = Append(order, t)
        /\ NewFile.status = "queued"
    BY <1>4 DEF CoreInv, TypeOK, Listed, NewFile
  <2>2. /\ DOMAIN order = 1..Len(order) /\ Len(order) \in Nat
        /\ DOMAIN order' = 1..(Len(order) + 1)
        /\ order'[Len(order) + 1] = t
        /\ \A i \in 1..Len(order) : order'[i] = order[i]
    BY <2>1
  <2>3. ASSUME NEW f \in Files, NEW i \in DOMAIN order, order[i] = Owner[f]
        PROVE  Owner[f] # t
    BY <1>4, <2>3 DEF ListedOnce, CoreInv, KnownTogether, Listed, Known
  <2>4. ASSUME NEW f \in Files, Owner[f] = t PROVE file'[f].status # "absent"
    BY <1>4, <2>1, <2>4 DEF Listed, FilesOf
  <2>5. ASSUME NEW f \in Files, NEW i \in DOMAIN order', NEW k \in DOMAIN order',
               order'[i] = Owner[f]
        PROVE  /\ file'[f].status # "absent"
               /\ order'[k] = Owner[f] => i = k
    <3>1. CASE i \in DOMAIN order
      BY <1>1, <2>2, <2>3, <2>5, <3>1 DEF ListedOnce, FileMoves
    <3>2. CASE i = Len(order) + 1
      BY <2>2, <2>3, <2>4, <2>5, <3>2
    <3>3. QED
      BY <2>2, <3>1, <3>2
  <2>6. QED
    BY <2>5 DEF ListedOnce
<1>5. QED
  BY <1>2, <1>3, <1>4

(* claimNext never serves a file ahead of an older transfer that waits.    *)
THEOREM OldestTransferFirst == Spec => NoOvertaking
<1> DEFINE Claims(f) == file[f].status = "queued" /\ file'[f].status = "active"
           Waits(g) == file[g].status = "queued" /\ batch[Owner[g]].status \in {"queued", "active"}
<1>1. Init => CoreInv /\ ListedOnce
  BY InitEstablishesIInv DEF IInv, CoreInv, Init, ListedOnce
<1>2. CoreInv /\ ListedOnce /\ [Next]_vars => (CoreInv /\ ListedOnce)'
  BY NextKeepsCore, NextKeepsListedOnce
<1>3. ASSUME CoreInv, ListedOnce, [Next]_vars, NEW f \in Files, Claims(f),
             NEW g \in Files \ retrying, NEW i \in DOMAIN order, NEW k \in DOMAIN order,
             order[i] = Owner[f], order[k] = Owner[g], k < i
      PROVE  ~Waits(g)
  <2>1. ClaimFile(f)
    BY <1>3, NextMoves DEF FileMoves
  <2>2. PICK j \in DOMAIN order : /\ order[j] = Owner[f]
                                  /\ \A m \in 1..(j - 1) : ~Claimable(order[m])
    BY <2>1 DEF ClaimFile, IsNext
  <2>3. j = i
    BY <1>3, <2>2 DEF ListedOnce
  <2>4. k \in 1..(i - 1)
    BY <1>3 DEF CoreInv, TypeOK
  <2>5. ~Claimable(Owner[g])
    BY <1>3, <2>2, <2>3, <2>4
  <2>6. QED
    BY <2>5 DEF Claimable, FilesOf, TerminalBatch
<1>4. CoreInv /\ ListedOnce /\ [Next]_vars =>
        \A f \in Files : Claims(f) =>
          \A g \in Files \ retrying : \A i, k \in DOMAIN order :
            order[i] = Owner[f] /\ order[k] = Owner[g] /\ k < i => ~Waits(g)
  BY <1>3
<1>5. CoreInv /\ ListedOnce /\ [Next]_vars =>
        \A f \in Files :
          file[f].status = "queued" /\ file'[f].status = "active" =>
            \A g \in Files \ retrying : \A i, k \in DOMAIN order :
              order[i] = Owner[f] /\ order[k] = Owner[g] /\ k < i =>
                \/ file[g].status # "queued"
                \/ batch[Owner[g]].status \notin {"queued", "active"}
  BY <1>4
<1>6. QED
  BY <1>1, <1>2, <1>5, PTL DEF Spec, NoOvertaking

-----------------------------------------------------------------------------
(* DurableQueue.  After a crash the queue may hold a queued file in a      *)
(* batch that is over, because the retry that was deriving the batch is    *)
(* lost, so only the core of the queue's invariant (CoreInv) holds here.   *)

(* At most one file of a snapshot is in flight and none is verified with   *)
(* bytes missing.                                                          *)
SnapshotSound(s) == AtMostOneInFlight(s.file) /\ FullyConfirmed(s.file)

(* A snapshot a restart may load: a queue state.                           *)
Loadable(s) ==
  /\ s \in SnapshotType
  /\ SnapshotSound(s)
  /\ \A f \in Files : s.file[f].status = "absent" <=> s.batch[Owner[f]].status = "absent"

(* What is completed in an older snapshot is completed in a younger one.   *)
Keeps(old, young) ==
  \A f \in Files : old.file[f].status = "completed" => young.file[f].status = "completed"

(* Snapshots in the order they were taken: the disk, the waiting saves,    *)
(* memory.                                                                 *)
Chain ==
  /\ Keeps(disk, Snapshot)
  /\ \A i \in DOMAIN pending :
       Keeps(disk, pending[i]) /\ Keeps(pending[i], Snapshot)
  /\ \A i, k \in DOMAIN pending : i < k => Keeps(pending[i], pending[k])

DurableInv ==
  /\ CoreInv
  /\ Loadable(disk)
  /\ pending \in Seq(SnapshotType)
  /\ \A i \in DOMAIN pending : Loadable(pending[i])
  /\ up \in BOOLEAN /\ crashes \in Nat
  /\ ~up => pending = <<>> /\ retrying = {} /\ disk = Snapshot
  /\ Chain
-----------------------------------------------------------------------------
(* Memory is a queue state, so the snapshot a call takes is one.           *)
LEMMA MemoryIsLoadable ==
  ASSUME CoreInv
  PROVE  Loadable(Snapshot)
<1> DEFINE s == Snapshot
<1>1. s.order = order /\ s.batch = batch /\ s.file = file
  BY DEF Snapshot
<1>2. s \in SnapshotType
  BY DEF Snapshot, SnapshotType, CoreInv, TypeOK
<1> HIDE DEF s
<1>3. Loadable(s)
  BY <1>1, <1>2 DEF Loadable, SnapshotSound, CoreInv, OneInFlight, CompletedIsConfirmed,
                    KnownTogether
<1>4. QED
  BY <1>3 DEF s

(* Loading a loadable snapshot gives a queue state.                        *)
LEMMA LoadedIsCore ==
  ASSUME NEW s, Loadable(s), order' = s.order, batch' = s.batch, file' = s.file,
         retrying' = {}, claims' \in Nat, now' \in Nat
  PROVE  CoreInv'
<1>1. TypeOK'
  BY DEF Loadable, SnapshotType, TypeOK
<1>2. OneInFlight' /\ CompletedIsConfirmed' /\ KnownTogether'
  BY DEF Loadable, SnapshotSound, OneInFlight, CompletedIsConfirmed, KnownTogether,
         AtMostOneInFlight, FullyConfirmed
<1>3. QED
  BY <1>1, <1>2 DEF CoreInv

LEMMA KeepsIsTransitive ==
  ASSUME NEW r, NEW s, NEW u, Keeps(r, s), Keeps(s, u)
  PROVE  Keeps(r, u)
BY DEF Keeps

LEMMA InitEstablishesDurableInv == DurableInit => DurableInv
<1> SUFFICES ASSUME DurableInit PROVE DurableInv
  OBVIOUS
<1>1. CoreInv
  BY InitEstablishesIInv DEF DurableInit, IInv, CoreInv
<1>2. disk = Snapshot /\ pending = <<>> /\ up = TRUE /\ crashes = 0
  BY DEF DurableInit
<1>3. Loadable(disk)
  BY <1>1, <1>2, MemoryIsLoadable
<1>4. Chain
  BY <1>2 DEF Chain, Keeps
<1>5. QED
  BY <1>1, <1>2, <1>3, <1>4 DEF DurableInv

(* A step of the running queue, and the clock: memory goes on as the queue *)
(* does, and what was completed there stays completed.                     *)
LEMMA QueueSteps ==
  ASSUME DurableInv, [Next]_vars
  PROVE  CoreInv' /\ Loadable(Snapshot') /\ Keeps(Snapshot, Snapshot')
<1>1. CoreInv'
  BY NextKeepsCore DEF DurableInv
<1>2. Loadable(Snapshot)'
  BY <1>1, MemoryIsLoadable, PTL
<1>3. ASSUME NEW f \in Files, file[f].status = "completed"
      PROVE  file'[f].status = "completed"
  BY <1>3, NextMoves DEF DurableInv, FileMoves, TerminalFile
<1>4. Keeps(Snapshot, Snapshot')
  BY <1>3 DEF Keeps, Snapshot
<1>5. QED
  BY <1>1, <1>2, <1>4 DEF Loadable, Snapshot

(* The waiting saves when memory moves on and none joins them.             *)
LEMMA QuietChain ==
  ASSUME DurableInv, CoreInv', Keeps(Snapshot, Snapshot'),
         UNCHANGED <<disk, pending, crashes>>, up' \in BOOLEAN,
         ~up' => pending' = <<>> /\ retrying' = {} /\ disk' = Snapshot'
  PROVE  DurableInv'
<1>1. Loadable(disk')
  BY DEF DurableInv
<1>2. /\ pending' \in Seq(SnapshotType)
      /\ \A i \in DOMAIN pending' : Loadable(pending'[i])
  BY DEF DurableInv
<1>3. Chain'
  BY KeepsIsTransitive DEF DurableInv, Chain
<1>4. QED
  BY <1>1, <1>2, <1>3 DEF DurableInv, Loadable, SnapshotSound, AtMostOneInFlight, FullyConfirmed

(* persist: the snapshot of the new state joins the tail.                  *)
LEMMA PersistChain ==
  ASSUME DurableInv, CoreInv', Loadable(Snapshot'), Keeps(Snapshot, Snapshot'), Persist,
         UNCHANGED <<disk, up, crashes>>, up
  PROVE  DurableInv'
<1> DEFINE n == Len(pending)
           s == Snapshot'
<1>1. /\ pending \in Seq(SnapshotType) /\ s \in SnapshotType
      /\ pending' = Append(pending, s)
  BY DEF DurableInv, Loadable, Persist
<1> HIDE DEF s
<1>2. /\ pending' \in Seq(SnapshotType)
      /\ n \in Nat /\ DOMAIN pending = 1..n /\ DOMAIN pending' = 1..(n + 1)
      /\ pending'[n + 1] = s
      /\ \A i \in 1..n : pending'[i] = pending[i]
  BY <1>1
<1>3. \A i \in DOMAIN pending' : Loadable(pending'[i])
  BY <1>2 DEF DurableInv, s
<1>4. /\ Keeps(disk, s) /\ Keeps(s, s)
      /\ \A i \in 1..n : /\ Keeps(disk, pending[i]) /\ Keeps(pending[i], s)
                         /\ \A k \in 1..n : i < k => Keeps(pending[i], pending[k])
  <2>1. Keeps(Snapshot, s) /\ Keeps(s, s)
    BY DEF s, Keeps
  <2>2. ASSUME NEW r, Keeps(r, Snapshot) PROVE Keeps(r, s)
    BY <2>1, <2>2, KeepsIsTransitive
  <2>3. QED
    BY <1>2, <2>1, <2>2 DEF DurableInv, Chain
<1>5. /\ Keeps(disk', s)
      /\ \A i \in DOMAIN pending' : Keeps(disk', pending'[i]) /\ Keeps(pending'[i], s)
      /\ \A i, k \in DOMAIN pending' : i < k => Keeps(pending'[i], pending'[k])
  BY <1>2, <1>4
<1>6. Chain'
  BY <1>5 DEF Chain, Keeps, s, Snapshot
<1>7. Loadable(disk')
  BY DEF DurableInv
<1>8. QED
  BY <1>2, <1>3, <1>6, <1>7 DEF DurableInv, Loadable, SnapshotSound, AtMostOneInFlight,
                                FullyConfirmed

(* The head of the tail leaves it, saved or not.                           *)
LEMMA TailChain ==
  ASSUME DurableInv, pending # <<>>, pending' = Tail(pending),
         disk' \in {disk, Head(pending)}, UNCHANGED <<vars, up, crashes>>
  PROVE  DurableInv' /\ Keeps(disk, disk')
<1> DEFINE n == Len(pending)
<1>1. /\ pending \in Seq(SnapshotType) /\ n \in Nat \ {0} /\ DOMAIN pending = 1..n
      /\ Head(pending) = pending[1]
  BY DEF DurableInv
<1>2. /\ pending' \in Seq(SnapshotType)
      /\ DOMAIN pending' = 1..(n - 1)
      /\ \A i \in 1..(n - 1) : i + 1 \in 1..n /\ pending'[i] = pending[i + 1]
  BY <1>1
<1>3. CoreInv' /\ Snapshot' = Snapshot
  BY DEF DurableInv, CoreInv, TypeOK, OneInFlight, CompletedIsConfirmed, KnownTogether,
         AtMostOneInFlight, FullyConfirmed, Snapshot, vars
<1>4. disk' = disk \/ disk' = pending[1]
  BY <1>1
<1>5. Loadable(disk') /\ \A i \in DOMAIN pending' : Loadable(pending'[i])
  BY <1>1, <1>2, <1>4 DEF DurableInv
<1>6. Keeps(disk, disk') /\ Keeps(disk', Snapshot)
  BY <1>1, <1>4 DEF DurableInv, Chain, Keeps
<1>7. \A i \in 1..n : Keeps(pending[i], Snapshot)
  BY <1>1 DEF DurableInv, Chain
<1>8. \A i \in 2..n : Keeps(disk', pending[i])
  BY <1>1, <1>4 DEF DurableInv, Chain
<1>9. \A i, k \in 1..n : i < k => Keeps(pending[i], pending[k])
  BY <1>1 DEF DurableInv, Chain
<1>10. Chain'
  <2>1. ASSUME NEW i \in DOMAIN pending'
        PROVE  Keeps(disk', pending'[i]) /\ Keeps(pending'[i], Snapshot')
    BY <1>1, <1>2, <1>3, <1>7, <1>8
  <2>2. ASSUME NEW i \in DOMAIN pending', NEW k \in DOMAIN pending', i < k
        PROVE  Keeps(pending'[i], pending'[k])
    BY <1>1, <1>2, <1>9, <2>2
  <2>3. QED
    BY <1>3, <1>6, <2>1, <2>2 DEF Chain, Keeps, Snapshot
<1>11. ~up' => pending' = <<>> /\ retrying' = {} /\ disk' = Snapshot'
  BY DEF DurableInv
<1>12. QED
  BY <1>2, <1>3, <1>5, <1>6, <1>10, <1>11
    DEF DurableInv, Loadable, SnapshotSound, AtMostOneInFlight, FullyConfirmed

LEMMA CrashKeepsDurableInv ==
  ASSUME DurableInv, Crash
  PROVE  DurableInv'
<1>1. /\ order' = disk.order /\ batch' = disk.batch /\ file' = disk.file
      /\ retrying' = {} /\ claims' = 0 /\ now' = now /\ disk' = disk
      /\ pending' = <<>> /\ up' = FALSE /\ crashes' = crashes + 1
  BY DEF Crash
<1>2. CoreInv'
  <2>1. now \in Nat /\ Loadable(disk)
    BY DEF DurableInv, CoreInv, TypeOK
  <2>2. QED
    BY <1>1, <2>1, LoadedIsCore
<1>3. disk' = Snapshot'
  BY <1>1 DEF Snapshot, DurableInv, Loadable, SnapshotType
<1>4. Chain'
  BY <1>1, <1>3 DEF Chain, Keeps
<1>5. /\ Loadable(disk') /\ pending' \in Seq(SnapshotType)
      /\ \A i \in DOMAIN pending' : Loadable(pending'[i])
      /\ up' \in BOOLEAN /\ crashes' \in Nat
  <2>1. <<>> \in Seq(SnapshotType) /\ \A i \in DOMAIN <<>> : FALSE
    OBVIOUS
  <2>2. pending' \in Seq(SnapshotType) /\ \A i \in DOMAIN pending' : Loadable(pending'[i])
    BY <1>1, <2>1
  <2>3. Loadable(disk')
    BY <1>1 DEF DurableInv
  <2>4. up' \in BOOLEAN
    BY <1>1, Zenon
  <2>5. crashes' \in Nat
    BY <1>1 DEF DurableInv
  <2>6. QED
    BY <2>2, <2>3, <2>4, <2>5
<1>6. QED
  BY <1>1, <1>2, <1>3, <1>4, <1>5
    DEF DurableInv, Loadable, SnapshotSound, AtMostOneInFlight, FullyConfirmed

-----------------------------------------------------------------------------
(* What open may make of the files and batches it loaded: it completes     *)
(* only what had all its bytes, gives up nothing completed, and brings no  *)
(* file into flight.                                                       *)
RecoversTo(F, B) ==
  /\ F \in [Files -> FileRecord] /\ B \in [Transfers -> BatchRecord]
  /\ \A f \in Files :
       /\ F[f].confirmed = file[f].confirmed
       /\ F[f].status \in InFlight => file[f].status \in InFlight
       /\ F[f].status \in {"verifying", "finalizing", "completed"} =>
            file[f].status \in {"verifying", "finalizing", "completed"}
       /\ file[f].status = "completed" => F[f].status = "completed"
       /\ F[f].status = "absent" <=> file[f].status = "absent"
  /\ \A t \in Transfers : B[t].status = "absent" <=> batch[t].status = "absent"

LEMMA RecoveredIsLoadable ==
  ASSUME CoreInv, NEW F, NEW B, RecoversTo(F, B)
  PROVE  LET s == [order |-> order, batch |-> B, file |-> F]
         IN  Loadable(s) /\ Keeps(Snapshot, s)
<1> DEFINE s == [order |-> order, batch |-> B, file |-> F]
<1>1. s \in SnapshotType /\ s.file = F /\ s.batch = B
  BY DEF SnapshotType, CoreInv, TypeOK, RecoversTo
<1>2. Keeps(Snapshot, s)
  BY DEF Keeps, Snapshot, RecoversTo
<1> HIDE DEF s
<1>3. AtMostOneInFlight(F) /\ FullyConfirmed(F)
  BY DEF CoreInv, OneInFlight, CompletedIsConfirmed, AtMostOneInFlight, FullyConfirmed,
         RecoversTo
<1>4. \A f \in Files : F[f].status = "absent" <=> B[Owner[f]].status = "absent"
  BY QueueAssumption DEF CoreInv, KnownTogether, RecoversTo
<1>5. Loadable(s)
  BY <1>1, <1>3, <1>4 DEF Loadable, SnapshotSound
<1>6. QED
  BY <1>2, <1>5 DEF s

(* recoverInterrupted on one file: a file that was in flight is completed, *)
(* failed or queued again, and every other file keeps its record.          *)
LEMMA RecoveredFileMeaning ==
  ASSUME NEW f \in Files, NEW finalized, file[f] \in FileRecord
  PROVE  LET q == RecoveredFile(f, finalized)
         IN  /\ q \in FileRecord
             /\ q.confirmed = file[f].confirmed
             /\ q.status \in {"completed", "failed", "queued"} \/ q = file[f]
             /\ q = file[f] \/ file[f].status \in InFlight
             /\ q.status = "completed" => file[f].status \in {"finalizing", "completed"}
<1> DEFINE r == file[f]
           Result(q) == /\ q \in FileRecord
                        /\ q.confirmed = r.confirmed
                        /\ q.status \in {"completed", "failed", "queued"} \/ q = r
                        /\ q = r \/ r.status \in InFlight
                        /\ q.status = "completed" => r.status \in {"finalizing", "completed"}
<1>1. ASSUME NEW s \in {"completed", "failed"}, r.status = "finalizing"
      PROVE  Result([r EXCEPT !.status = s, !.finalPath = FALSE])
  <2> DEFINE q == [r EXCEPT !.status = s, !.finalPath = FALSE]
  <2>1. q \in FileRecord /\ q.status = s /\ q.confirmed = r.confirmed
    BY DEF FileRecord, FileStatus, TerminalFile
  <2> HIDE DEF q
  <2>2. Result(q)
    BY <1>1, <2>1 DEF InFlight
  <2>3. QED
    BY <2>2 DEF q
<1>2. ASSUME NEW s \in {"failed", "queued"}, r.status \in {"verifying", "active"}
      PROVE  Result([r EXCEPT !.status = s])
  <2> DEFINE q == [r EXCEPT !.status = s]
  <2>1. q \in FileRecord /\ q.status = s /\ q.confirmed = r.confirmed
    BY DEF FileRecord, FileStatus, TerminalFile
  <2> HIDE DEF q
  <2>2. Result(q)
    BY <1>2, <2>1 DEF InFlight
  <2>3. QED
    BY <2>2 DEF q
<1>3. Result(r)
  OBVIOUS
<1> HIDE DEF Result
<1>4. Result(RecoveredFile(f, finalized))
  BY <1>1, <1>2, <1>3 DEF RecoveredFile
<1>5. QED
  BY <1>4 DEF Result

LEMMA RecoveryMeaning ==
  ASSUME CoreInv, NEW finalized
  PROVE  LET F == Recovered(finalized) IN RecoversTo(F, RecoveredBatches(F))
<1> USE QueueAssumption
<1> DEFINE F == Recovered(finalized)
           B == RecoveredBatches(F)
<1>1. ASSUME NEW f \in Files
      PROVE  /\ F[f] \in FileRecord
             /\ F[f].confirmed = file[f].confirmed
             /\ F[f].status \in {"completed", "failed", "queued"} \/ F[f] = file[f]
             /\ F[f] = file[f] \/ file[f].status \in InFlight
             /\ F[f].status = "completed" => file[f].status \in {"finalizing", "completed"}
  <2>1. file[f] \in FileRecord
    BY DEF CoreInv, TypeOK
  <2>2. F[f] = file[f] \/ F[f] = RecoveredFile(f, finalized)
    BY DEF Recovered
  <2> HIDE DEF F
  <2>3. QED
    BY <2>1, <2>2, RecoveredFileMeaning
<1>2. F \in [Files -> FileRecord]
  BY <1>1 DEF Recovered
<1> HIDE DEF F
<1>3. \A f \in Files : F[f] # file[f] => file[f].status # "absent"
  BY <1>1 DEF InFlight
<1>4. ASSUME NEW t \in Transfers
      PROVE  /\ B[t] \in BatchRecord
             /\ B[t].status = "absent" <=> batch[t].status = "absent"
  <2>1. batch[t] \in BatchRecord /\ now + Lifetime \in Nat
    BY DEF CoreInv, TypeOK
  <2>2. CASE \E f \in FilesOf(t) : F[f] # file[f]
    <3>1. batch[t].status # "absent"
      BY <1>3, <2>2 DEF FilesOf, CoreInv, KnownTogether
    <3>2. DerivedStatus(t, F) \in BatchStatus \ {"absent", "expired"}
      BY DerivedStatusMeaning
    <3>3. B[t] = Touched([batch[t] EXCEPT !.status = DerivedStatus(t, F)])
      BY <2>2 DEF RecoveredBatches
    <3> HIDE DEF B
    <3>4. B[t] \in BatchRecord /\ B[t].status = DerivedStatus(t, F)
      BY <2>1, <3>2, <3>3, SettledRecord
    <3>5. QED
      BY <3>1, <3>2, <3>4
  <2>3. CASE ~\E f \in FilesOf(t) : F[f] # file[f]
    BY <2>1, <2>3 DEF RecoveredBatches
  <2>4. QED
    BY <2>2, <2>3
<1>5. B \in [Transfers -> BatchRecord]
  BY <1>4 DEF RecoveredBatches
<1> HIDE DEF B
<1>6. ASSUME NEW f \in Files
      PROVE  /\ F[f].confirmed = file[f].confirmed
             /\ F[f].status \in InFlight => file[f].status \in InFlight
             /\ F[f].status \in {"verifying", "finalizing", "completed"} =>
                  file[f].status \in {"verifying", "finalizing", "completed"}
             /\ file[f].status = "completed" => F[f].status = "completed"
             /\ F[f].status = "absent" <=> file[f].status = "absent"
  BY <1>1 DEF InFlight
<1>7. RecoversTo(F, B)
  BY <1>2, <1>4, <1>5, <1>6 DEF RecoversTo
<1>8. QED
  BY <1>7 DEF F, B

(* The expiry that ends open recovers nothing more than it was given.      *)
LEMMA ExpiryRecovers ==
  ASSUME CoreInv, NEW F, NEW B, RecoversTo(F, B), NEW D, NEW G, NEW C,
         \A t \in Transfers : t \in D => B[t].status # "absent",
         C = [t \in Transfers |-> IF t \in D THEN [B[t] EXCEPT !.status = "expired"] ELSE B[t]],
         G = [f \in Files |-> IF Owner[f] \in D /\ F[f].status \notin TerminalFile
                             THEN [F[f] EXCEPT !.status = "failed"] ELSE F[f]]
  PROVE  RecoversTo(G, C)
<1> USE QueueAssumption
<1>1. ASSUME NEW t \in Transfers
      PROVE  C[t] \in BatchRecord /\ (C[t].status = "absent" <=> B[t].status = "absent")
  <2>1. B[t] \in BatchRecord
    BY DEF RecoversTo
  <2>2. CASE t \in D
    <3>1. C[t] = [B[t] EXCEPT !.status = "expired"]
      BY <2>2
    <3>2. C[t] \in BatchRecord /\ C[t].status = "expired"
      BY <2>1, <3>1 DEF BatchRecord, BatchStatus, TerminalBatch
    <3>3. QED
      BY <2>2, <3>2
  <2>3. CASE t \notin D
    BY <2>1, <2>3
  <2>4. QED
    BY <2>2, <2>3
<1>2. ASSUME NEW f \in Files
      PROVE  /\ G[f] \in FileRecord /\ G[f].confirmed = F[f].confirmed
             /\ G[f] = F[f] \/ (G[f].status = "failed" /\ F[f].status \notin TerminalFile
                                                     /\ F[f].status # "absent")
  <2>1. F[f] \in FileRecord
    BY DEF RecoversTo
  <2>2. CASE Owner[f] \in D /\ F[f].status \notin TerminalFile
    <3>1. G[f] = [F[f] EXCEPT !.status = "failed"]
      BY <2>2
    <3>2. F[f].status # "absent"
      BY <2>2 DEF RecoversTo, CoreInv, KnownTogether
    <3>3. QED
      BY <2>1, <2>2, <3>1, <3>2 DEF FileRecord, FileStatus, TerminalFile
  <2>3. CASE ~(Owner[f] \in D /\ F[f].status \notin TerminalFile)
    BY <2>1, <2>3
  <2>4. QED
    BY <2>2, <2>3
<1>3. G \in [Files -> FileRecord] /\ C \in [Transfers -> BatchRecord]
  <2>1. /\ G = [f \in Files |-> G[f]] /\ C = [t \in Transfers |-> C[t]]
        /\ \A f \in Files : G[f] \in FileRecord
        /\ \A t \in Transfers : C[t] \in BatchRecord
    BY <1>1, <1>2
  <2>2. QED
    BY <2>1, Zenon
<1>4. ASSUME NEW f \in Files
      PROVE  /\ G[f].confirmed = file[f].confirmed
             /\ G[f].status \in InFlight => file[f].status \in InFlight
             /\ G[f].status \in {"verifying", "finalizing", "completed"} =>
                  file[f].status \in {"verifying", "finalizing", "completed"}
             /\ file[f].status = "completed" => G[f].status = "completed"
             /\ G[f].status = "absent" <=> file[f].status = "absent"
  <2>1. /\ F[f].confirmed = file[f].confirmed
        /\ F[f].status \in InFlight => file[f].status \in InFlight
        /\ F[f].status \in {"verifying", "finalizing", "completed"} =>
             file[f].status \in {"verifying", "finalizing", "completed"}
        /\ file[f].status = "completed" => F[f].status = "completed"
        /\ F[f].status = "absent" <=> file[f].status = "absent"
    BY DEF RecoversTo
  <2>2. QED
    BY <1>2, <2>1 DEF InFlight, TerminalFile
<1>5. \A t \in Transfers : C[t].status = "absent" <=> batch[t].status = "absent"
  BY <1>1 DEF RecoversTo
<1>6. QED
  BY <1>3, <1>4, <1>5 DEF RecoversTo

(* A restart that ends with the recovered state in memory and on disk.     *)
LEMMA RestartKeepsDurableInv ==
  ASSUME DurableInv, ~up, NEW F, NEW B, RecoversTo(F, B), batch' = B, file' = F,
         disk' = [order |-> order, batch |-> B, file |-> F], up' \in BOOLEAN,
         crashes' \in Nat, UNCHANGED <<order, retrying, claims, now, pending>>
  PROVE  DurableInv' /\ Keeps(disk, disk')
<1>1. pending = <<>> /\ retrying = {} /\ disk = Snapshot /\ CoreInv
  BY DEF DurableInv
<1>2. Loadable(disk') /\ Keeps(disk, disk')
  BY <1>1, RecoveredIsLoadable
<1>3. /\ disk'.order = order' /\ disk'.batch = batch' /\ disk'.file = file'
      /\ disk' = Snapshot'
  BY DEF Snapshot
<1>4. claims' \in Nat /\ now' \in Nat /\ retrying' = {}
  BY <1>1 DEF CoreInv, TypeOK
<1>5. CoreInv'
  BY <1>2, <1>3, <1>4, LoadedIsCore
<1>6. Chain'
  BY <1>1, <1>3 DEF Chain, Keeps
<1>7. /\ pending' \in Seq(SnapshotType)
      /\ \A i \in DOMAIN pending' : Loadable(pending'[i])
  BY DEF DurableInv
<1>8. ~up' => pending' = <<>> /\ retrying' = {} /\ disk' = Snapshot'
  BY <1>1, <1>3
<1>9. QED
  BY <1>2, <1>5, <1>6, <1>7, <1>8
    DEF DurableInv, Loadable, SnapshotSound, AtMostOneInFlight, FullyConfirmed

LEMMA ReopenKeepsDurableInv ==
  ASSUME DurableInv, NEW finalized, Reopen(finalized)
  PROVE  DurableInv' /\ Keeps(disk, disk')
<1> DEFINE F == Recovered(finalized)
           B == RecoveredBatches(F)
           D == {t \in Transfers : /\ B[t].status \notin TerminalBatch \cup {"absent"}
                                   /\ B[t].expiresAt <= now}
<1>1. /\ ~up /\ up' = TRUE
      /\ batch' = [t \in Transfers |->
                     IF t \in D THEN [B[t] EXCEPT !.status = "expired"] ELSE B[t]]
      /\ file' = [f \in Files |-> IF Owner[f] \in D /\ F[f].status \notin TerminalFile
                                   THEN [F[f] EXCEPT !.status = "failed"] ELSE F[f]]
      /\ UNCHANGED <<order, retrying, claims, now, pending, crashes>>
      /\ disk' = Snapshot'
  BY QueueAssumption DEF Reopen
<1>2. CoreInv /\ RecoversTo(F, B)
  BY RecoveryMeaning DEF DurableInv
<1>3. \A t \in Transfers : t \in D => B[t].status # "absent"
  OBVIOUS
<1>4. disk' = [order |-> order, batch |-> batch', file |-> file']
  BY <1>1 DEF Snapshot
<1> HIDE DEF F, B, D
<1>5. RecoversTo(file', batch')
  BY <1>1, <1>2, <1>3, ExpiryRecovers
<1>6. up' \in BOOLEAN
  BY <1>1, Zenon
<1>7. crashes' \in Nat
  BY <1>1 DEF DurableInv
<1>8. QED
  BY <1>1, <1>4, <1>5, <1>6, <1>7, RestartKeepsDurableInv

LEMMA ReopenInterruptedKeepsDurableInv ==
  ASSUME DurableInv, NEW finalized, ReopenInterrupted(finalized)
  PROVE  DurableInv' /\ Keeps(disk, disk')
<1> DEFINE F == Recovered(finalized)
           B == RecoveredBatches(F)
<1>1. /\ ~up /\ up' = up /\ crashes' = crashes + 1
      /\ disk' = [order |-> order, batch |-> B, file |-> F]
      /\ batch' = disk'.batch /\ file' = disk'.file
      /\ UNCHANGED <<order, retrying, claims, now, pending>>
  BY DEF ReopenInterrupted, Recover
<1>2. RecoversTo(F, B)
  BY RecoveryMeaning DEF DurableInv
<1> HIDE DEF F, B
<1>3. batch' = B /\ file' = F
  BY <1>1
<1>4. up' \in BOOLEAN
  BY <1>1 DEF DurableInv
<1>5. crashes' \in Nat
  BY <1>1 DEF DurableInv
<1>6. QED
  BY <1>1, <1>2, <1>3, <1>4, <1>5, RestartKeepsDurableInv
-----------------------------------------------------------------------------
(* Every step keeps the invariant, and what is completed on disk.          *)
LEMMA NextKeepsDurableInv ==
  ASSUME DurableInv, [DurableNext]_allVars
  PROVE  DurableInv' /\ Keeps(disk, disk')
<1>0. /\ Keeps(disk, disk)
      /\ CoreInv /\ up \in BOOLEAN /\ crashes \in Nat
      /\ ~up => pending = <<>> /\ retrying = {} /\ disk = Snapshot
  BY DEF Keeps, DurableInv
<1>1. ASSUME up, [Next]_vars, UNCHANGED <<disk, up, crashes>>, Persist
      PROVE  DurableInv' /\ Keeps(disk, disk')
  BY <1>0, <1>1, QueueSteps, PersistChain
<1>2. ASSUME up, [Next]_vars, UNCHANGED durable
      PROVE  DurableInv' /\ Keeps(disk, disk')
  BY <1>0, <1>2, QueueSteps, QuietChain DEF durable
<1>3. CASE SavingStep
  BY <1>1, <1>3 DEF SavingStep, Next
<1>4. CASE ClaimBeginStep
  <2>1. CASE Persist
    BY <1>1, <1>4, <2>1 DEF ClaimBeginStep, Next, OtherStep
  <2>2. CASE UNCHANGED pending
    BY <1>2, <1>4, <2>2 DEF ClaimBeginStep, Next, OtherStep, durable
  <2>3. QED
    BY <1>4, <2>1, <2>2 DEF ClaimBeginStep
<1>5. CASE QuietStep
  BY <1>2, <1>5 DEF QuietStep, Next, OtherStep
<1>6. CASE Clock \/ UNCHANGED allVars
  <2>1. [Next]_vars /\ UNCHANGED durable /\ UNCHANGED <<order, batch, file, retrying>>
    BY <1>6 DEF Clock, Tick, Next, OtherStep, allVars, vars
  <2>2. disk' = disk /\ pending' = pending /\ up' = up /\ crashes' = crashes
    BY <2>1 DEF durable
  <2>3. ~up' => pending' = <<>> /\ retrying' = {} /\ disk' = Snapshot'
    BY <1>0, <2>1, <2>2 DEF Snapshot
  <2>4. DurableInv'
    BY <1>0, <2>1, <2>2, <2>3, QueueSteps, QuietChain
  <2>5. QED
    BY <1>0, <2>2, <2>4
<1>7. CASE Save \/ SaveFails
  BY <1>7, TailChain DEF Save, SaveFails
<1>8. CASE Crash
  BY <1>0, <1>8, CrashKeepsDurableInv DEF Crash
<1>9. ASSUME NEW finalized, Reopen(finalized) \/ ReopenInterrupted(finalized)
      PROVE  DurableInv' /\ Keeps(disk, disk')
  BY <1>9, ReopenKeepsDurableInv, ReopenInterruptedKeepsDurableInv
<1>10. QED
  BY <1>3, <1>4, <1>5, <1>6, <1>7, <1>8, <1>9 DEF DurableNext

(* The invariant holds across saves, failed saves, crashes and restarts.   *)
THEOREM DurableInvariant == DurableSpec => []DurableInv
<1>1. DurableInv /\ [DurableNext]_allVars => DurableInv'
  BY NextKeepsDurableInv
<1>2. QED
  BY <1>1, InitEstablishesDurableInv, PTL DEF DurableSpec

(* The file on disk and the snapshots on their way there keep their shape. *)
THEOREM DurableTypeCorrect == DurableSpec => []DurableTypeOK
<1>1. DurableInv => DurableTypeOK
  BY DEF DurableInv, DurableTypeOK, CoreInv, Loadable
<1>2. QED
  BY <1>1, DurableInvariant, PTL

(* A completion that reached the disk is never taken back: not by a save   *)
(* that was waiting or fails, not by a crash, a recovery or an expiry.     *)
THEOREM CompletionSurvives == DurableSpec => CompletionIsDurable
<1>1. DurableInv /\ DurableInv' /\ Keeps(disk, disk') =>
        \A f \in Files :
          disk.file[f].status = "completed" =>
            disk'.file[f].status = "completed" /\ file'[f].status = "completed"
  BY DEF DurableInv, Chain, Keeps, Snapshot
<1>2. DurableInv /\ [DurableNext]_allVars => Keeps(disk, disk')
  BY NextKeepsDurableInv
<1>3. DurableInv /\ [DurableNext]_allVars => DurableInv'
  BY NextKeepsDurableInv
<1>4. DurableInv /\ [DurableNext]_allVars =>
        \A f \in Files :
          disk.file[f].status = "completed" =>
            disk'.file[f].status = "completed" /\ file'[f].status = "completed"
  BY <1>1, <1>2, <1>3
<1>5. QED
  BY <1>4, DurableInvariant, PTL DEF DurableSpec, CompletionIsDurable

-----------------------------------------------------------------------------
(* Recovery looks at the batches that are not over, so a file in flight    *)
(* must never be in one that is.                                           *)
AliveIn(F, B) ==
  \A f \in Files : F[f].status \in InFlight => B[Owner[f]].status \notin TerminalBatch
Alive(s) == AliveIn(s.file, s.batch)

InFlightIsRecovered ==
  Alive(Snapshot) /\ Alive(disk) /\ \A i \in DOMAIN pending : Alive(pending[i])

LEMMA SettledIsAlive ==
  ASSUME CoreInv, AliveIn(file, batch), NEW t \in Transfers, NEW F, Settle(t, F),
         \A g \in Files : Owner[g] # t => F[g] = file[g]
  PROVE  AliveIn(file', batch')
<1>1. /\ batch' \in [Transfers -> BatchRecord] /\ file' = F
      /\ \A u \in Transfers \ {t} : batch'[u] = batch[u]
  BY SettledBatch DEF Settle
<1>2. batch'[t].status = DerivedStatus(t, F)
  <2>1. batch[t] \in BatchRecord /\ now + Lifetime \in Nat
    BY QueueAssumption DEF CoreInv, TypeOK
  <2>2. DerivedStatus(t, F) \in BatchStatus
    BY DerivedStatusMeaning
  <2>3. batch'[t] = Touched([batch[t] EXCEPT !.status = DerivedStatus(t, F)])
    BY DEF Settle, CoreInv, TypeOK
  <2>4. QED
    BY <2>1, <2>2, <2>3, SettledRecord
<1>3. ASSUME NEW g \in Files, F[g].status \in InFlight
      PROVE  batch'[Owner[g]].status \notin TerminalBatch
  <2>1. CASE Owner[g] = t
    <3>1. g \in FilesOf(t) /\ F[g].status \notin TerminalFile
      BY <1>3, <2>1 DEF FilesOf, InFlight, TerminalFile
    <3>2. QED
      BY <1>2, <2>1, <3>1, DerivedStatusMeaning
  <2>2. CASE Owner[g] # t
    BY <1>1, <1>3, <2>2, QueueAssumption DEF AliveIn
  <2>3. QED
    BY <2>1, <2>2
<1>4. QED
  BY <1>1, <1>3 DEF AliveIn

(* Steps that bring no file into flight and end no batch.                  *)
LEMMA StaysAlive ==
  ASSUME AliveIn(file, batch),
         \A g \in Files : file'[g].status \in InFlight =>
           /\ file[g].status \in InFlight
           /\ batch[Owner[g]].status \notin TerminalBatch =>
                batch'[Owner[g]].status \notin TerminalBatch
  PROVE  AliveIn(file', batch')
BY DEF AliveIn

LEMMA FileCallKeepsAlive ==
  ASSUME CoreInv, AliveIn(file, batch), NEW f \in Files, FileCall(f)
  PROVE  AliveIn(file', batch')
<1> USE QueueAssumption
<1>1. /\ file \in [Files -> FileRecord] /\ batch \in [Transfers -> BatchRecord]
      /\ Owner[f] \in Transfers
  BY DEF CoreInv, TypeOK
<1>2. ASSUME NEW r, SettleFile(f, r) PROVE AliveIn(file', batch')
  <2> DEFINE F == [file EXCEPT ![f] = r]
  <2>1. Settle(Owner[f], F) /\ \A g \in Files : Owner[g] # Owner[f] => F[g] = file[g]
    BY <1>1, <1>2 DEF SettleFile
  <2> HIDE DEF F
  <2>2. QED
    BY <1>1, <2>1, SettledIsAlive
<1>3. CASE \E offset \in 0..Size[f] : ConfirmProgress(f, offset)
  <2>1. PICK r : Advance(f, r) /\ file[f].status = "active"
    BY <1>3 DEF ConfirmProgress
  <2>2. \A g \in Files : file'[g].status \in InFlight => file[g].status \in InFlight
    BY <1>1, <2>1 DEF Advance, InFlight
  <2>3. \A t \in Transfers : batch'[t].status = batch[t].status
    BY <1>1, <2>1 DEF Advance, Touched, BatchRecord
  <2>4. QED
    BY <2>2, <2>3, StaysAlive
<1>4. CASE RetryEnd(f)
  BY <1>1, <1>4, SettledIsAlive DEF RetryEnd
<1>5. CASE ClaimFile(f)
  <2>1. /\ file' = [file EXCEPT ![f].status = "active"]
        /\ batch' = [batch EXCEPT ![Owner[f]] = Touched([@ EXCEPT !.status = "active"])]
    BY <1>5 DEF ClaimFile
  <2>2. batch'[Owner[f]].status = "active"
    <3>1. batch[Owner[f]] \in BatchRecord
      BY <1>1
    <3>2. batch'[Owner[f]] = Touched([batch[Owner[f]] EXCEPT !.status = "active"])
      BY <1>1, <2>1
    <3>3. QED
      BY <3>1, <3>2 DEF Touched, BatchRecord
  <2>3. \A t \in Transfers \ {Owner[f]} : batch'[t] = batch[t]
    BY <1>1, <2>1
  <2>4. \A g \in Files \ {f} : file'[g] = file[g]
    BY <1>1, <2>1
  <2>5. QED
    BY <2>2, <2>3, <2>4 DEF AliveIn, TerminalBatch
<1>6. QED
  BY <1>2, <1>3, <1>4, <1>5
    DEF FileCall, BeginVerification, BeginFinalization, Complete, Fail, PauseFile, ResumeFile,
        CancelFile, RetryNothing

LEMMA BatchCallKeepsAlive ==
  ASSUME CoreInv, AliveIn(file, batch), NEW t \in Transfers, BatchCall(t)
  PROVE  AliveIn(file', batch')
<1> USE QueueAssumption
<1>1. file \in [Files -> FileRecord] /\ batch \in [Transfers -> BatchRecord]
  BY DEF CoreInv, TypeOK
<1>2. ASSUME NEW d, AddBatch(t, d) PROVE AliveIn(file', batch')
  BY <1>1, <1>2 DEF AddBatch, AliveIn, NewFile, InFlight, TerminalBatch
<1>3. ASSUME NEW d, AssociateSourceDevice(t, d) PROVE AliveIn(file', batch')
  <2>1. \A u \in Transfers : batch'[u].status = batch[u].status
    BY <1>1, <1>3 DEF AssociateSourceDevice, Touched, BatchRecord
  <2>2. QED
    BY <1>3, <2>1, StaysAlive DEF AssociateSourceDevice
<1>4. CASE MarkStage(t)
  <2>1. \A u \in Transfers : batch'[u].status = batch[u].status
    BY <1>1, <1>4 DEF MarkStage, Touched, BatchRecord
  <2>2. QED
    BY <1>4, <2>1, StaysAlive DEF MarkStage
<1>5. CASE PauseBatch(t)
  <2>1. /\ batch'[t].status = "paused"
        /\ \A u \in Transfers \ {t} : batch'[u] = batch[u]
    BY <1>1, <1>5 DEF PauseBatch, Touched, BatchRecord
  <2>2. \A g \in Files : file'[g].status \in InFlight => file[g].status \in InFlight
    BY <1>1, <1>5 DEF PauseBatch, Moved, FileRecord, InFlight
  <2>3. QED
    BY <2>1, <2>2 DEF AliveIn, TerminalBatch
<1>6. ASSUME NEW From, NEW to, Settle(t, Moved(t, From, to)) PROVE AliveIn(file', batch')
  <2>1. \A g \in Files : Owner[g] # t => Moved(t, From, to)[g] = file[g]
    BY DEF Moved
  <2>2. QED
    BY <1>6, <2>1, SettledIsAlive
<1>7. QED
  BY <1>2, <1>3, <1>4, <1>5, <1>6
    DEF BatchCall, Enqueue, AcceptOffer, ResumeBatch, CancelBatch

LEMMA QueueKeepsAlive ==
  ASSUME CoreInv, AliveIn(file, batch), [Next]_vars
  PROVE  AliveIn(file', batch')
<1> USE QueueAssumption
<1>1. /\ file \in [Files -> FileRecord] /\ batch \in [Transfers -> BatchRecord]
      /\ \A f \in Files : Owner[f] \in Transfers
  BY DEF CoreInv, TypeOK
<1>2. CASE SavingCall
  BY <1>2, FileCallKeepsAlive, BatchCallKeepsAlive DEF SavingCall
<1>3. ASSUME NEW f \in Files, RetryBegin(f) PROVE AliveIn(file', batch')
  BY <1>1, <1>3 DEF RetryBegin, AliveIn, NewFile, InFlight
<1>4. CASE ClaimBegin
  <2>1. ASSUME NEW g \in Files, file'[g].status \in InFlight
        PROVE  file'[g] = file[g] /\ batch'[Owner[g]] = batch[Owner[g]]
    <3>1. ~Expired(Owner[g])
      BY <1>1, <1>4, <2>1 DEF ClaimBegin, Expire, InFlight, TerminalFile, FileRecord
    <3>2. QED
      BY <1>1, <1>4, <3>1 DEF ClaimBegin, Expire
  <2>2. QED
    BY <2>1, StaysAlive
<1>5. CASE ClaimNothing \/ Tick \/ UNCHANGED vars
  BY <1>5 DEF ClaimNothing, Tick, vars, AliveIn
<1>6. QED
  BY <1>2, <1>3, <1>4, <1>5 DEF Next, OtherStep

(* Recovery leaves nothing in flight: it reaches every such file.          *)
LEMMA NothingInFlightAfterRecovery ==
  ASSUME CoreInv, AliveIn(file, batch), NEW finalized, NEW f \in Files
  PROVE  Recovered(finalized)[f].status \notin InFlight
<1>1. file[f] \in FileRecord
  BY DEF CoreInv, TypeOK
<1>2. CASE file[f].status \in InFlight
  <2>1. Recovered(finalized)[f] = RecoveredFile(f, finalized)
    BY <1>2 DEF Recovered, AliveIn
  <2>2. RecoveredFile(f, finalized).status \in {"completed", "failed", "queued"}
    BY <1>1, <1>2 DEF RecoveredFile, FileRecord, InFlight
  <2>3. QED
    BY <2>1, <2>2 DEF InFlight
<1>3. CASE file[f].status \notin InFlight
  BY <1>1, <1>3 DEF Recovered, RecoveredFile, InFlight
<1>4. QED
  BY <1>2, <1>3

LEMMA RestartEndsWhatWasInFlight ==
  ASSUME DurableInv, InFlightIsRecovered, NEW finalized,
         Reopen(finalized) \/ ReopenInterrupted(finalized)
  PROVE  /\ \A f \in Files : /\ file'[f].status \notin InFlight
                             /\ disk'.file[f].status \notin InFlight
         /\ pending' = pending
<1> DEFINE F == Recovered(finalized)
           B == RecoveredBatches(F)
           Due(t) == /\ B[t].status \notin TerminalBatch \cup {"absent"}
                     /\ B[t].expiresAt <= now
<1>1. \A f \in Files : F[f].status \notin InFlight /\ F[f] \in FileRecord
  <2>1. CoreInv /\ AliveIn(file, batch)
    BY DEF DurableInv, InFlightIsRecovered, Alive, Snapshot
  <2>2. RecoversTo(F, B)
    BY <2>1, RecoveryMeaning
  <2> HIDE DEF F
  <2>3. \A f \in Files : F[f] \in FileRecord
    BY <2>2 DEF RecoversTo
  <2>4. QED
    BY <2>1, <2>3, NothingInFlightAfterRecovery DEF F
<1>2. CASE Reopen(finalized)
  <2>1. /\ file' = [f \in Files |->
                      IF Due(Owner[f]) /\ F[f].status \notin TerminalFile
                      THEN [F[f] EXCEPT !.status = "failed"] ELSE F[f]]
        /\ pending' = pending /\ disk' = Snapshot'
    BY <1>2 DEF Reopen
  <2>2. disk'.file = file'
    BY <2>1 DEF Snapshot
  <2> HIDE DEF F, B, Due
  <2>3. \A f \in Files : file'[f].status \notin InFlight
    BY <1>1, <2>1 DEF FileRecord, InFlight
  <2>4. QED
    BY <2>1, <2>2, <2>3
<1>3. CASE ReopenInterrupted(finalized)
  <2>1. /\ disk' = [order |-> order, batch |-> B, file |-> F]
        /\ file' = disk'.file /\ pending' = pending
    BY <1>3 DEF ReopenInterrupted, Recover
  <2> HIDE DEF F, B
  <2>2. file' = F /\ disk'.file = F
    BY <2>1
  <2>3. QED
    BY <1>1, <2>1, <2>2
<1>4. QED
  BY <1>2, <1>3

LEMMA NextKeepsRecoverable ==
  ASSUME DurableInv, InFlightIsRecovered, [DurableNext]_allVars
  PROVE  InFlightIsRecovered'
<1> DEFINE n == Len(pending)
<1>1. /\ CoreInv /\ AliveIn(file, batch) /\ pending \in Seq(SnapshotType)
      /\ n \in Nat /\ DOMAIN pending = 1..n
      /\ disk.file = disk.file /\ Alive(disk) /\ \A i \in 1..n : Alive(pending[i])
  BY DEF DurableInv, InFlightIsRecovered, Alive, Snapshot
<1>2. ASSUME [Next]_vars, disk' = disk, Persist \/ pending' = pending
      PROVE  InFlightIsRecovered'
  <2>1. AliveIn(file', batch')
    BY <1>1, <1>2, QueueKeepsAlive
  <2> DEFINE s == Snapshot'
  <2>2. Alive(s)
    BY <2>1 DEF Alive, Snapshot
  <2>3. s \in SnapshotType
    BY <1>2, QueueSteps DEF Loadable
  <2> HIDE DEF s
  <2>4. \A i \in DOMAIN pending' : Alive(pending'[i])
    <3>1. CASE pending' = pending
      BY <1>1, <3>1
    <3>2. CASE pending' = Append(pending, s)
      <4>1. /\ DOMAIN pending' = 1..(n + 1) /\ pending'[n + 1] = s
            /\ \A i \in 1..n : pending'[i] = pending[i]
        BY <1>1, <2>3, <3>2
      <4>2. QED
        BY <1>1, <2>2, <4>1
    <3>3. QED
      BY <1>2, <3>1, <3>2 DEF Persist, s
  <2>5. QED
    BY <1>1, <1>2, <2>2, <2>4 DEF InFlightIsRecovered, Alive, AliveIn, Snapshot, s
<1>3. CASE SavingStep \/ ClaimBeginStep \/ QuietStep \/ Clock \/ UNCHANGED allVars
  <2>1. [Next]_vars /\ disk' = disk /\ (Persist \/ pending' = pending)
    BY <1>3 DEF SavingStep, ClaimBeginStep, QuietStep, Clock, allVars, durable, Next, OtherStep
  <2>2. QED
    BY <1>2, <2>1
<1>4. CASE Save \/ SaveFails
  <2>1. /\ pending # <<>> /\ pending' = Tail(pending) /\ UNCHANGED vars
        /\ disk' = disk \/ disk' = Head(pending)
    BY <1>4 DEF Save, SaveFails
  <2>2. /\ DOMAIN pending' = 1..(n - 1) /\ Head(pending) = pending[1] /\ 1 \in 1..n
        /\ \A i \in 1..(n - 1) : pending'[i] = pending[i + 1] /\ i + 1 \in 1..n
    BY <1>1, <2>1
  <2>3. /\ Alive(disk') /\ \A i \in DOMAIN pending' : Alive(pending'[i])
    BY <1>1, <2>1, <2>2
  <2>4. file' = file /\ batch' = batch
    BY <2>1 DEF vars
  <2>5. QED
    BY <1>1, <2>3, <2>4 DEF InFlightIsRecovered, Alive, AliveIn, Snapshot
<1>5. CASE Crash
  <2>1. /\ file' = disk.file /\ batch' = disk.batch /\ disk' = disk /\ pending' = <<>>
    BY <1>5 DEF Crash
  <2>2. QED
    BY <1>1, <2>1 DEF InFlightIsRecovered, Alive, AliveIn, Snapshot
<1>6. ASSUME NEW finalized, Reopen(finalized) \/ ReopenInterrupted(finalized)
      PROVE  InFlightIsRecovered'
  <2>1. /\ \A f \in Files : /\ file'[f].status \notin InFlight
                            /\ disk'.file[f].status \notin InFlight
        /\ pending' = pending
    BY <1>6, RestartEndsWhatWasInFlight
  <2>2. QED
    BY <1>1, <2>1 DEF InFlightIsRecovered, Alive, AliveIn, Snapshot
<1>7. QED
  BY <1>3, <1>4, <1>5, <1>6 DEF DurableNext

(* Whatever snapshot a restart finds, recovery reaches the file that was   *)
(* in flight: recoverInterrupted skips batches that are over, and a file   *)
(* in flight is never in one, in memory, on disk or on the way there.      *)
THEOREM RecoveryReachesEveryFile == DurableSpec => []InFlightIsRecovered
<1>1. DurableInit => InFlightIsRecovered
  BY DEF DurableInit, Init, NoFile, NewFile, InFlight, InFlightIsRecovered, Alive, AliveIn,
         Snapshot
<1>2. DurableInv /\ InFlightIsRecovered /\ [DurableNext]_allVars => InFlightIsRecovered'
  BY NextKeepsRecoverable
<1>3. QED
  BY <1>1, <1>2, DurableInvariant, PTL DEF DurableSpec

(* Once open returns nothing is in flight, whatever the crash left on disk *)
(* and wherever the recovery itself was stopped before.                    *)
THEOREM RestartsFreeTheQueue == DurableSpec => RestartFreesTheQueue
<1> DEFINE Freed == ~up /\ up' =>
             \A f \in Files : {file'[f].status, disk'.file[f].status} \cap InFlight = {}
<1>1. DurableInv /\ InFlightIsRecovered /\ [DurableNext]_allVars => Freed
  <2> SUFFICES ASSUME DurableInv, InFlightIsRecovered, [DurableNext]_allVars, ~up, up'
               PROVE  \A f \in Files :
                        {file'[f].status, disk'.file[f].status} \cap InFlight = {}
    OBVIOUS
  <2>1. PICK finalized : Reopen(finalized)
    BY DEF DurableNext, SavingStep, ClaimBeginStep, QuietStep, Clock, Save, SaveFails, Crash,
           ReopenInterrupted, allVars, durable
  <2>2. QED
    BY <2>1, RestartEndsWhatWasInFlight
<1>2. QED
  BY <1>1, DurableInvariant, RecoveryReachesEveryFile, PTL
     DEF DurableSpec, RestartFreesTheQueue
=============================================================================
