----------------------------- MODULE DurableQueue -----------------------------
(***************************************************************************)
(* TransferQueue with its queue.json: a saving call takes its snapshot     *)
(* before it awaits the save, the saves run one after the other on         *)
(* persistTail, the process may stop between any two steps, and open loads *)
(* the last saved snapshot, recovers the file that was in flight and       *)
(* expires what is due (src/transfer/transfer-queue.ts).                   *)
(***************************************************************************)
EXTENDS TransferQueue

CONSTANTS
  MaxPending,  \* bound: snapshots waiting to be saved
  MaxCrashes   \* bound: times the process stops

ASSUME DurableAssumption == MaxPending \in Nat /\ MaxCrashes \in Nat

VARIABLES
  disk,        \* the snapshot in queue.json
  pending,     \* persistTail: snapshots taken and not saved yet, oldest first
  up,          \* the process runs and open has returned
  crashes

durable == <<disk, pending, up, crashes>>
allVars == <<vars, durable>>

Snapshot == [order |-> order, batch |-> batch, file |-> file]

DurableInit ==
  /\ Init
  /\ disk = Snapshot
  /\ pending = <<>>
  /\ up = TRUE
  /\ crashes = 0
-----------------------------------------------------------------------------
(* persist: the snapshot joins the tail in the step that changed the state. *)
Persist == pending' = Append(pending, Snapshot')

SavingStep ==
  /\ up /\ Len(pending) < MaxPending
  /\ SavingCall
  /\ Persist
  /\ UNCHANGED <<disk, up, crashes>>

(* expire saves only when it changed something. *)
ClaimBeginStep ==
  /\ up /\ Len(pending) < MaxPending
  /\ ClaimBegin
  /\ IF memory' = memory THEN UNCHANGED pending ELSE Persist
  /\ UNCHANGED <<disk, up, crashes>>

QuietStep ==
  /\ up
  /\ ClaimNothing \/ \E f \in Files : RetryBegin(f)
  /\ UNCHANGED durable

Clock == Tick /\ UNCHANGED durable

(* Mutant: the saves do not wait for each other. *)
SaveUnordered ==
  /\ pending # <<>>
  /\ disk' = pending[Len(pending)]
  /\ pending' = SubSeq(pending, 1, Len(pending) - 1)
  /\ UNCHANGED <<vars, up, crashes>>

(* JsonTransferQueueStorage.save renames a complete temporary file. *)
Save ==
  /\ pending # <<>>
  /\ disk' = Head(pending)
  /\ pending' = Tail(pending)
  /\ UNCHANGED <<vars, up, crashes>>

(* A save that rejects leaves the file as it was and does not stop the tail. *)
SaveFails ==
  /\ pending # <<>>
  /\ pending' = Tail(pending)
  /\ UNCHANGED <<vars, disk, up, crashes>>

(* The process stops: memory, waiting saves and running calls are gone. *)
Crash ==
  /\ up
  /\ crashes < MaxCrashes
  /\ crashes' = crashes + 1
  /\ up' = FALSE
  /\ pending' = <<>>
  /\ retrying' = {} /\ claims' = 0
  /\ order' = disk.order /\ batch' = disk.batch /\ file' = disk.file
  /\ UNCHANGED <<disk, now>>
-----------------------------------------------------------------------------
(* recoverInterrupted on one file of a batch that is not over.  Finalized: *)
(* the files whose partial file is a hard link of their final path.        *)
RecoveredFile(f, finalized) ==
  LET r == file[f]
      allBytes == Size[f] > 0 /\ r.confirmed = Size[f]
  IN  IF r.status = "finalizing" /\ f \in finalized
        THEN [r EXCEPT !.status = "completed", !.finalPath = FALSE]
      ELSE IF r.status = "finalizing"
        THEN [r EXCEPT !.status = "failed", !.finalPath = FALSE]
      ELSE IF r.status = "verifying" \/ (r.status = "active" /\ allBytes)
        THEN [r EXCEPT !.status = "failed"]
      ELSE IF r.status = "active" THEN [r EXCEPT !.status = "queued"]
      ELSE r

(* Mutant: a batch the user paused is left to the user, as if pausing had  *)
(* taken the file out of flight.                                           *)
RecoveredUnlessPaused(finalized) ==
  [f \in Files |-> IF batch[Owner[f]].status \in TerminalBatch \cup {"paused"}
                   THEN file[f] ELSE RecoveredFile(f, finalized)]

Recovered(finalized) ==
  [f \in Files |-> IF batch[Owner[f]].status \in TerminalBatch
                   THEN file[f] ELSE RecoveredFile(f, finalized)]

RecoveredBatches(F) ==
  [t \in Transfers |->
     IF \E f \in FilesOf(t) : F[f] # file[f]
     THEN Touched([batch[t] EXCEPT !.status = DerivedStatus(t, F)])
     ELSE batch[t]]

(* The rest of open: recoverInterrupted and then expire.  open awaits both  *)
(* saves, so the queue is up only once the disk holds what it recovered.   *)
Recover(finalized) ==
  LET F == Recovered(finalized)
  IN  disk' = [order |-> order, batch |-> RecoveredBatches(F), file |-> F]

Reopen(finalized) ==
  LET F == Recovered(finalized)
      B == RecoveredBatches(F)
      Due(t) == /\ B[t].status \notin TerminalBatch \cup {"absent"}
                /\ B[t].expiresAt <= now
  IN  /\ ~up
      /\ up' = TRUE
      /\ batch' = [t \in Transfers |->
                     IF Due(t) THEN [B[t] EXCEPT !.status = "expired"] ELSE B[t]]
      /\ file' = [f \in Files |->
                    IF Due(Owner[f]) /\ F[f].status \notin TerminalFile
                    THEN [F[f] EXCEPT !.status = "failed"] ELSE F[f]]
      /\ UNCHANGED <<order, retrying, claims, now, pending, crashes>>
      /\ disk' = Snapshot'

(* The process stops again between the save of recovery and that of expiry. *)
ReopenInterrupted(finalized) ==
  /\ ~up
  /\ crashes < MaxCrashes
  /\ crashes' = crashes + 1
  /\ Recover(finalized)
  /\ disk' # disk
  /\ batch' = disk'.batch /\ file' = disk'.file
  /\ UNCHANGED <<order, retrying, claims, now, pending, up>>

Finalizing == {f \in Files : Owner[f] \in Uploads /\ file[f].status = "finalizing"}

DurableNext ==
  \/ SavingStep \/ ClaimBeginStep \/ QuietStep \/ Clock
  \/ Save \/ SaveFails \/ Crash
  \/ \E finalized \in SUBSET Finalizing :
       Reopen(finalized) \/ ReopenInterrupted(finalized)

DurableSpec == DurableInit /\ [][DurableNext]_allVars
-----------------------------------------------------------------------------
SnapshotType ==
  [order : Seq(Transfers), batch : [Transfers -> BatchRecord], file : [Files -> FileRecord]]

(* The file on disk and every snapshot on its way there are queue states.  *)
DurableTypeOK ==
  /\ TypeOK
  /\ disk \in SnapshotType
  /\ pending \in Seq(SnapshotType)
  /\ up \in BOOLEAN
  /\ crashes \in Nat

(* Whatever snapshot a crash left, once open returns nothing is in flight, *)
(* in memory or in queue.json.  A file the recovery missed would keep      *)
(* claimNext from every other file for good: claimNext looks at all        *)
(* batches, the paused and the finished ones too, recovery at those that   *)
(* are not over.                                                           *)
RestartFreesTheQueue ==
  [][~up /\ up' =>
       \A f \in Files : {file'[f].status, disk'.file[f].status} \cap InFlight = {}]_allVars

(* Once the completion of a file is on disk no crash, late save or failed  *)
(* save takes it back, on disk or in memory.                               *)
CompletionIsDurable ==
  [][\A f \in Files :
       disk.file[f].status = "completed" =>
         disk'.file[f].status = "completed" /\ file'[f].status = "completed"]_allVars
=============================================================================
