---------------------------- MODULE TransferQueue ----------------------------
(***************************************************************************)
(* The in-memory state of the laptop's TransferQueue and every call that   *)
(* changes it (src/transfer/transfer-queue.ts).  A call mutates the state  *)
(* synchronously and only then awaits its save, so one call is one action; *)
(* the two calls that await in the middle, claimNext (expire, then claim)  *)
(* and retry (reset, unlink, then derive), are two actions each, and other *)
(* calls run in between.  Saving, crashing and reopening are added by      *)
(* DurableQueue.                                                           *)
(***************************************************************************)
EXTENDS Integers, Sequences

CONSTANTS
  Transfers,   \* transfer ids
  Files,       \* file ids
  Owner,       \* the transfer a file belongs to
  Position,    \* place of a file in the files array of its batch
  Size,        \* file size, in chunks
  Uploads,     \* the phone-to-laptop transfers; the others leave the laptop
  Devices,     \* device ids the relay authenticates
  NoDevice,    \* sourceDeviceId is undefined
  Lifetime,    \* sevenDaysMs, in ticks of the clock
  MaxNow,      \* bound: last instant of the clock
  MaxClaims    \* bound: claimNext calls in flight at once

ASSUME QueueAssumption ==
  /\ Owner \in [Files -> Transfers]
  /\ Position \in [Files -> Nat]
  /\ \A f, g \in Files : Owner[f] = Owner[g] /\ Position[f] = Position[g] => f = g
  /\ Size \in [Files -> Nat]
  /\ Uploads \subseteq Transfers
  /\ NoDevice \notin Devices
  /\ Lifetime \in Nat \ {0}
  /\ MaxNow \in Nat
  /\ MaxClaims \in Nat

VARIABLES
  order,       \* state.batches: transfers, oldest first
  batch,       \* batch records by transfer
  file,        \* file records by file
  retrying,    \* files whose retry call awaits the unlink of the partial file
  claims,      \* claimNext calls between their expire and their claim
  now          \* Date.now()

memory == <<order, batch, file>>
vars == <<order, batch, file, retrying, claims, now>>

InFlight == {"active", "verifying", "finalizing"}
TerminalFile == {"completed", "failed", "cancelled"}
FileStatus == InFlight \cup TerminalFile \cup {"queued", "paused", "absent"}
TerminalBatch == {"completed", "completed_with_issues", "cancelled", "expired"}
BatchStatus == TerminalBatch \cup {"queued", "active", "paused", "absent"}

\* finalPath: finalizingPath is set.
FileRecord == [status : FileStatus, confirmed : Nat, finalPath : BOOLEAN]
BatchRecord ==
  [status : BatchStatus, device : Devices \cup {NoDevice}, expiresAt : Nat]

NewFile == [status |-> "queued", confirmed |-> 0, finalPath |-> FALSE]
NoFile == [NewFile EXCEPT !.status = "absent"]
NoBatch == [status |-> "absent", device |-> NoDevice, expiresAt |-> 0]

FilesOf(t) == {f \in Files : Owner[f] = t}
Known(t) == batch[t].status # "absent"
(* Mutant: a file being verified or finalized leaves the way free. *)
SomeActive == \E f \in Files : file[f].status = "active"

SomeInFlight == \E f \in Files : file[f].status \in InFlight

(* Mutant: a paused file counts as one that has reached its end. *)
DerivedStatusPausedEnds(t, F) ==
  LET All(S) == \A f \in FilesOf(t) : F[f].status \in S
      Some(S) == \E f \in FilesOf(t) : F[f].status \in S
  IN  IF All({"completed"}) THEN "completed"
      ELSE IF All({"cancelled"}) THEN "cancelled"
      ELSE IF All(TerminalFile \cup {"paused"}) THEN "completed_with_issues"
      ELSE IF Some(InFlight) THEN "active"
      ELSE "queued"

(* deriveBatchStatus: the status the files F of transfer t give their batch. *)
DerivedStatus(t, F) ==
  LET All(S) == \A f \in FilesOf(t) : F[f].status \in S
      Some(S) == \E f \in FilesOf(t) : F[f].status \in S
  IN  IF All({"completed"}) THEN "completed"
      ELSE IF All({"cancelled"}) THEN "cancelled"
      ELSE IF All(TerminalFile) THEN "completed_with_issues"
      ELSE IF Some(InFlight) THEN "active"
      ELSE IF Some({"queued"}) THEN "queued"
      ELSE "paused"

(* A batch record whose deadline is pushed seven days ahead. *)
Touched(b) == [b EXCEPT !.expiresAt = now + Lifetime]

(* Give the files of t new records and derive the batch from them. *)
Settle(t, F) ==
  /\ file' = F
  /\ batch' = [batch EXCEPT ![t] = Touched([@ EXCEPT !.status = DerivedStatus(t, F)])]

(* Give one file a new record, touching its batch without deriving it. *)
Advance(f, record) ==
  /\ file' = [file EXCEPT ![f] = record]
  /\ batch' = [batch EXCEPT ![Owner[f]] = Touched(@)]

SettleFile(f, record) == Settle(Owner[f], [file EXCEPT ![f] = record])

(* Every file of t whose status is in From moves to status to. *)
Moved(t, From, to) ==
  [f \in Files |-> IF Owner[f] = t /\ file[f].status \in From
                   THEN [file[f] EXCEPT !.status = to] ELSE file[f]]

Static == UNCHANGED <<order, retrying, claims, now>>

Init ==
  /\ order = <<>>
  /\ batch = [t \in Transfers |-> NoBatch]
  /\ file = [f \in Files |-> NoFile]
  /\ retrying = {}
  /\ claims = 0
  /\ now = 0

-----------------------------------------------------------------------------
(* New batches *)

AddBatch(t, d) ==
  /\ ~Known(t)
  /\ order' = Append(order, t)
  /\ batch' = [batch EXCEPT ![t] =
                 [status |-> "queued", device |-> d, expiresAt |-> now + Lifetime]]
  /\ file' = [f \in Files |-> IF Owner[f] = t THEN NewFile ELSE file[f]]
  /\ UNCHANGED <<retrying, claims, now>>

Enqueue(t) == t \notin Uploads /\ AddBatch(t, NoDevice)

(* acceptOffer of a transfer the queue has not seen, from the device that   *)
(* offers it; a known one keeps its record.                                *)
AcceptOffer(t, d) == t \in Uploads /\ AddBatch(t, d)

AssociateSourceDevice(t, d) ==
  /\ Known(t)
  /\ batch[t].device = NoDevice
  /\ batch' = [batch EXCEPT ![t] = Touched([@ EXCEPT !.device = d])]
  /\ UNCHANGED file /\ Static

(* markStage and setDestinationPath: only the deadline matters here. *)
MarkStage(t) ==
  /\ Known(t)
  /\ batch' = [batch EXCEPT ![t] = Touched(@)]
  /\ UNCHANGED file /\ Static
-----------------------------------------------------------------------------
(* Claiming the next file *)

Expired(t) == Known(t) /\ batch[t].status \notin TerminalBatch
                       /\ batch[t].expiresAt <= now

Expire ==
  /\ batch' = [t \in Transfers |->
                 IF Expired(t) THEN [batch[t] EXCEPT !.status = "expired"] ELSE batch[t]]
  /\ file' = [f \in Files |->
                IF Expired(Owner[f]) /\ file[f].status \notin TerminalFile
                THEN [file[f] EXCEPT !.status = "failed"] ELSE file[f]]

(* claimNext up to the end of its await of expire. *)
ClaimBegin ==
  /\ claims < MaxClaims
  /\ claims' = claims + 1
  /\ Expire
  /\ UNCHANGED <<order, retrying, now>>

Claimable(t) ==
  /\ batch[t].status \notin TerminalBatch \cup {"paused"}
  /\ \E f \in FilesOf(t) : file[f].status = "queued"

(* Mutant: any claimable batch may go first. *)
IsNextOfAnyBatch(f) ==
  /\ file[f].status = "queued"
  /\ Claimable(Owner[f])
  /\ \A g \in FilesOf(Owner[f]) :
       file[g].status = "queued" => Position[f] <= Position[g]

(* The first queued file of the oldest claimable batch. *)
IsNext(f) ==
  /\ file[f].status = "queued"
  /\ \E i \in DOMAIN order :
       /\ order[i] = Owner[f]
       /\ Claimable(order[i])
       /\ \A k \in 1..(i - 1) : ~Claimable(order[k])
  /\ \A g \in FilesOf(Owner[f]) :
       file[g].status = "queued" => Position[f] <= Position[g]

(* The rest of claimNext: one file is in flight on the whole laptop. *)
ClaimFile(f) ==
  /\ claims > 0
  /\ ~SomeInFlight
  /\ IsNext(f)
  /\ claims' = claims - 1
  /\ file' = [file EXCEPT ![f].status = "active"]
  /\ batch' = [batch EXCEPT ![Owner[f]] = Touched([@ EXCEPT !.status = "active"])]
  /\ UNCHANGED <<order, retrying, now>>

ClaimNothing ==
  /\ claims > 0
  /\ SomeInFlight \/ ~\E f \in Files : IsNext(f)
  /\ claims' = claims - 1
  /\ UNCHANGED <<order, batch, file, retrying, now>>
-----------------------------------------------------------------------------
(* Progress of the file in flight *)

ConfirmProgress(f, offset) ==
  /\ file[f].status = "active"
  /\ offset \in file[f].confirmed..Size[f]
  /\ Advance(f, [file[f] EXCEPT !.confirmed = offset])
  /\ Static

(* Mutant: verification begins on the bytes that were reported. *)
BeginVerificationEarly(f) ==
  /\ file[f].status = "active"
  /\ SettleFile(f, [file[f] EXCEPT !.status = "verifying"])
  /\ Static

BeginVerification(f) ==
  /\ file[f].status = "active"
  /\ SettleFile(f, [file[f] EXCEPT !.status = "verifying", !.confirmed = Size[f]])
  /\ Static

BeginFinalization(f) ==
  /\ file[f].status \in {"verifying", "finalizing"}
  /\ SettleFile(f, [file[f] EXCEPT !.status = "finalizing", !.finalPath = TRUE])
  /\ Static

(* complete, once the digest of the received bytes matches the offer's. *)
Complete(f) ==
  /\ file[f].status \in InFlight
  /\ file[f].confirmed = Size[f]
  /\ SettleFile(f, [file[f] EXCEPT !.status = "completed", !.finalPath = FALSE])
  /\ Static

Fail(f) ==
  /\ file[f].status \notin TerminalFile \cup {"absent"}
  /\ SettleFile(f, [file[f] EXCEPT !.status = "failed", !.finalPath = FALSE])
  /\ Static
-----------------------------------------------------------------------------
(* Pause, resume, cancel and retry *)

PauseFile(f) ==
  /\ Known(Owner[f])
  /\ SettleFile(f, IF file[f].status \in {"queued", "active"}
                   THEN [file[f] EXCEPT !.status = "paused"] ELSE file[f])
  /\ Static

(* The batch form writes "paused" whatever the files say. *)
PauseBatch(t) ==
  /\ Known(t)
  /\ file' = Moved(t, {"queued", "active"}, "paused")
  /\ batch' = [batch EXCEPT ![t] = Touched([@ EXCEPT !.status = "paused"])]
  /\ Static

(* Mutant: the batch of the resumed file is not derived. *)
ResumeFileOnly(f) ==
  /\ Known(Owner[f])
  /\ Advance(f, IF file[f].status = "paused"
                THEN [file[f] EXCEPT !.status = "queued"] ELSE file[f])
  /\ Static

ResumeFile(f) ==
  /\ Known(Owner[f])
  /\ SettleFile(f, IF file[f].status = "paused"
                   THEN [file[f] EXCEPT !.status = "queued"] ELSE file[f])
  /\ Static

ResumeBatch(t) ==
  /\ Known(t)
  /\ Settle(t, Moved(t, {"paused"}, "queued"))
  /\ Static

(* Mutant: a failed file can be cancelled. *)
CancelUncompletedFile(f) ==
  /\ Known(Owner[f])
  /\ SettleFile(f, IF file[f].status # "completed"
                   THEN [file[f] EXCEPT !.status = "cancelled"] ELSE file[f])
  /\ Static

CancelFile(f) ==
  /\ Known(Owner[f])
  /\ SettleFile(f, IF file[f].status \notin TerminalFile
                   THEN [file[f] EXCEPT !.status = "cancelled"] ELSE file[f])
  /\ Static

CancelBatch(t) ==
  /\ Known(t)
  /\ Settle(t, Moved(t, FileStatus \ TerminalFile, "cancelled"))
  /\ Static

(* retry up to its await of the unlink: the batch is not derived yet and   *)
(* nothing is saved.  Only a received file has a partial file to unlink,   *)
(* and the only caller retries one cancelled file of a phone's offer.      *)
RetryBegin(f) ==
  /\ Owner[f] \in Uploads
  /\ f \notin retrying
  /\ file[f].status \in {"failed", "cancelled"}
  /\ file' = [file EXCEPT ![f] = NewFile]
  /\ retrying' = retrying \cup {f}
  /\ UNCHANGED <<order, batch, claims, now>>

RetryEnd(f) ==
  /\ f \in retrying
  /\ retrying' = retrying \ {f}
  /\ Settle(Owner[f], file)
  /\ UNCHANGED <<order, claims, now>>

(* retry of a file that is neither failed nor cancelled any more. *)
RetryNothing(f) ==
  /\ Known(Owner[f])
  /\ file[f].status \notin {"failed", "cancelled"}
  /\ SettleFile(f, file[f])
  /\ Static

Tick ==
  /\ now < MaxNow
  /\ now' = now + 1
  /\ UNCHANGED <<order, batch, file, retrying, claims>>
-----------------------------------------------------------------------------
FileCall(f) ==
  \/ \E offset \in 0..Size[f] : ConfirmProgress(f, offset)
  \/ BeginVerification(f) \/ BeginFinalization(f) \/ Complete(f) \/ Fail(f)
  \/ PauseFile(f) \/ ResumeFile(f) \/ CancelFile(f)
  \/ RetryEnd(f) \/ RetryNothing(f) \/ ClaimFile(f)

BatchCall(t) ==
  \/ Enqueue(t)
  \/ \E d \in Devices : AcceptOffer(t, d) \/ AssociateSourceDevice(t, d)
  \/ MarkStage(t) \/ PauseBatch(t) \/ ResumeBatch(t) \/ CancelBatch(t)

(* The calls that end in a save. *)
SavingCall == (\E f \in Files : FileCall(f)) \/ (\E t \in Transfers : BatchCall(t))

(* The steps that save nothing, or only when something expired. *)
OtherStep ==
  \/ (\E f \in Files : RetryBegin(f)) \/ ClaimBegin \/ ClaimNothing \/ Tick

Next == SavingCall \/ OtherStep

Spec == Init /\ [][Next]_vars
-----------------------------------------------------------------------------
(* Invariants *)

(* The queue's records have the shape TransferQueueSnapshot gives them.    *)
TypeOK ==
  /\ order \in Seq(Transfers)
  /\ batch \in [Transfers -> BatchRecord]
  /\ file \in [Files -> FileRecord]
  /\ retrying \subseteq Files
  /\ claims \in Nat
  /\ now \in Nat

AtMostOneInFlight(F) ==
  \A f, g \in Files : F[f].status \in InFlight /\ F[g].status \in InFlight => f = g

FullyConfirmed(F) ==
  \A f \in Files :
    /\ F[f].confirmed <= Size[f]
    /\ F[f].status \in {"verifying", "finalizing", "completed"}
         => F[f].confirmed = Size[f]

(* At most one file of all batches is in flight, whatever calls are        *)
(* interleaved with the two halves of claimNext.                           *)
OneInFlight == AtMostOneInFlight(file)

(* Every byte of a file is confirmed before it is verified, finalized or   *)
(* completed, and no offset runs past the end of its file.                 *)
CompletedIsConfirmed == FullyConfirmed(file)

(* A queued file is in a batch that claimNext looks at: no sequence of     *)
(* pauses, cancels, retries and expiries leaves it where nothing will      *)
(* ever claim it, except while its own retry is still running.             *)
QueuedIsClaimable ==
  \A f \in Files \ retrying :
    file[f].status = "queued" => batch[Owner[f]].status \in {"queued", "active"}

(* A batch reported as over has no file left to move; a batch reported as  *)
(* completed has only completed files.                                     *)
TerminalBatchIsOver ==
  \A f \in Files :
    LET status == batch[Owner[f]].status
    IN  /\ status \in TerminalBatch =>
             file[f].status \in TerminalFile \/ f \in retrying
        /\ status = "completed" => file[f].status = "completed"

(* Action properties *)

(* A file that reached its end stays there, a completed one for ever and   *)
(* the others until a retry, which starts again from the first byte.       *)
TerminalUntilRetried ==
  [][\A f \in Files :
       file[f].status \in TerminalFile /\ file'[f] # file[f]
         => file[f].status # "completed" /\ file'[f] = NewFile]_vars

(* A file is claimed ahead of another batch's queued file only when that   *)
(* batch is younger, paused, over or being retried: no overtaking.         *)
NoOvertaking ==
  [][\A f \in Files :
       file[f].status = "queued" /\ file'[f].status = "active" =>
         \A g \in Files \ retrying : \A i, k \in DOMAIN order :
           order[i] = Owner[f] /\ order[k] = Owner[g] /\ k < i =>
             \/ file[g].status # "queued"
             \/ batch[Owner[g]].status \notin {"queued", "active"}]_vars
=============================================================================
