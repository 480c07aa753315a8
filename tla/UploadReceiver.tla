---------------------------- MODULE UploadReceiver ----------------------------
(***************************************************************************)
(* The laptop's side of a phone-to-laptop transfer: the PUT handler of     *)
(* src/transfer/laptop-data-plane.ts with its progress sessions and its    *)
(* lock per file, and the control handlers of                              *)
(* src/transfer/transfer-coordinator.ts that take the same lock.  Every    *)
(* handler is a task that advances from await to await; a queue call       *)
(* changes the queue at once and then waits for its save.  The clock of    *)
(* the queue stands still here: deadlines are TransferQueue's subject, and *)
(* the timing marks a PUT saves change nothing else.                       *)
(***************************************************************************)
EXTENDS DurableQueue

CONSTANTS
  Tasks,          \* bound: handlers running at once
  Orders,         \* controls of one file that arrive
  BatchOrders,    \* whether controls of a whole batch arrive
  MaxSuffix,      \* final names finalizeWithoutOverwrite tries, 10,000
  MaxSaveFailures \* bound: saves that reject

ASSUME UploadAssumption ==
  /\ Orders \subseteq {"cancel", "pause", "resume", "disconnect"}
  /\ BatchOrders \in BOOLEAN
  /\ MaxSuffix \in Nat \ {0}
  /\ MaxSaveFailures \in Nat

VARIABLES
  task,      \* the running handlers
  lock,      \* ReceiverProgressSessions.locks: the handlers of a file, in turn
  session,   \* ReceiverProgressSessions.sessions
  partial,   \* the partial file of each file
  copies,    \* whole copies of each file under a final name
  linked,    \* the partial file is a hard link of the newest copy
  told,      \* outcomes published to the phone since the last retry
  failures

storage == <<partial, copies, linked>>
uploadVars == <<task, lock, session, partial, copies, linked, told, failures>>
everything == <<allVars, uploadVars>>

NoPartial == [there |-> FALSE, written |-> 0, synced |-> 0]
NoSession == [open |-> FALSE, accepted |-> 0, durable |-> 0]
Idle == [op |-> "none", file |-> CHOOSE f \in Files : TRUE, offset |-> 0,
         suffix |-> 0, pc |-> "idle", due |-> FALSE, wait |-> 0, broke |-> FALSE]

Unlinked(f) ==
  /\ partial' = [partial EXCEPT ![f] = NoPartial]
  /\ linked' = [linked EXCEPT ![f] = FALSE]

Terminal(f) == file[f].status \in TerminalFile
MayResume(r) == r.status \in {"queued", "active", "paused"}

UploadInit ==
  /\ DurableInit
  /\ task = [h \in Tasks |-> Idle]
  /\ lock = [f \in Files |-> <<>>]
  /\ session = [f \in Files |-> NoSession]
  /\ partial = [f \in Files |-> NoPartial]
  /\ copies = [f \in Files |-> 0]
  /\ linked = [f \in Files |-> FALSE]
  /\ told = [f \in Files |-> {}]
  /\ failures = 0
-----------------------------------------------------------------------------
(* How a handler advances *)

Ready(h, pc) == up /\ task[h].pc = pc /\ task[h].wait = 0

Goto(h, pc) == task' = [task EXCEPT ![h].pc = pc]

(* A queue call and the await of its save. *)
Await(h, call, pc) ==
  /\ Len(pending) < MaxPending
  /\ call /\ Persist
  /\ task' = [task EXCEPT ![h].pc = pc, ![h].wait = Len(pending) + 1, ![h].broke = FALSE]
  /\ UNCHANGED <<disk, up, crashes>>

(* Mutant: the handler ends without releasing the lock. *)
LeaveLocked(h) == task' = [task EXCEPT ![h] = Idle] /\ UNCHANGED lock

(* The handler ends and the next one that waits for its file enters. *)
Leave(h) ==
  /\ task' = [task EXCEPT ![h] = Idle]
  /\ lock' = [lock EXCEPT ![task[h].file] = Tail(@)]

Tell(f, outcome) == told' = [told EXCEPT ![f] = @ \cup {outcome}]
Clear(f) == session' = [session EXCEPT ![f] = NoSession]

(* publishControl, clear, and the response. *)
Announce(h, outcome) ==
  /\ Tell(task[h].file, outcome)
  /\ Clear(task[h].file)
  /\ Leave(h)

(* runExclusive joins the queue of the lock before its first await. *)
Start(h, op, f, offset) ==
  /\ up /\ task[h].pc = "idle"
  /\ task' = [task EXCEPT ![h] =
                [Idle EXCEPT !.op = op, !.file = f, !.offset = offset, !.pc = "lock"]]
  /\ lock' = [lock EXCEPT ![f] = Append(@, h)]
  /\ UNCHANGED <<allVars, session, storage, told, failures>>

Entered(h) == Ready(h, "lock") /\ Head(lock[task[h].file]) = h
-----------------------------------------------------------------------------
(* The PUT of one chunk *)

End(h) == LET f == task[h].file
          IN  IF Size[f] = 0 THEN 0 ELSE task[h].offset + 1
Last(h) == End(h) = Size[task[h].file]

StartPut(h, f) ==
  /\ Known(Owner[f]) /\ Owner[f] \in Uploads
  /\ \E offset \in 0..Size[f] :
       /\ offset < Size[f] \/ Size[f] = 0
       /\ Start(h, "put", f, offset)

(* sessionFor *)
SessionFor(f) ==
  LET fresh == [open |-> TRUE, accepted |-> file[f].confirmed, durable |-> file[f].confirmed]
  IN  IF session[f].open /\ file[f].confirmed <= session[f].accepted
      THEN session[f] ELSE fresh

(* Mutant: the offset of the request is not compared with the session's. *)
PutEnterAnywhere(h) ==
  LET f == task[h].file
  IN  /\ Entered(h) /\ task[h].op = "put"
      /\ session' = [session EXCEPT ![f] = SessionFor(f)]
      /\ IF file[f].status = "active"
         THEN Goto(h, "read") /\ UNCHANGED lock
         ELSE Leave(h)
      /\ UNCHANGED <<allVars, storage, told, failures>>

(* Only the chunk at the accepted offset of an active file gets in. *)
PutEnter(h) ==
  LET f == task[h].file
      s == SessionFor(f)
  IN  /\ Entered(h) /\ task[h].op = "put"
      /\ session' = [session EXCEPT ![f] = s]
      /\ IF task[h].offset = s.accepted /\ file[f].status = "active"
         THEN Goto(h, "read") /\ UNCHANGED lock
         ELSE Leave(h)
      /\ UNCHANGED <<allVars, storage, told, failures>>

(* A bad header, body or authentication tag. *)
PutRefuse(h) ==
  /\ Ready(h, "read")
  /\ Leave(h)
  /\ UNCHANGED <<allVars, session, storage, told, failures>>

(* The first chunk truncates, the others need the partial file.  Truncating *)
(* a partial file that is linked destroys the copy it is linked to.         *)
PutOpen(h) ==
  LET f == task[h].file
  IN  /\ Ready(h, "read")
      /\ task[h].offset = 0 \/ partial[f].there
      /\ IF task[h].offset = 0
         THEN /\ partial' = [partial EXCEPT ![f] = [NoPartial EXCEPT !.there = TRUE]]
              /\ copies' = IF linked[f] THEN [copies EXCEPT ![f] = @ - 1] ELSE copies
         ELSE UNCHANGED <<partial, copies>>
      /\ Goto(h, "opened")
      /\ UNCHANGED <<allVars, lock, session, linked, told, failures>>

PutFindsNoPartial(h) ==
  LET f == task[h].file
  IN  /\ Ready(h, "read")
      /\ task[h].offset > 0 /\ ~partial[f].there
      /\ IF Terminal(f)
         THEN Announce(h, "failed") /\ UNCHANGED allVars
         ELSE Await(h, Fail(f), "missing") /\ UNCHANGED <<lock, session, told>>
      /\ UNCHANGED <<storage, failures>>

(* Mutant: a checkpoint does not sync the file. *)
PutWriteUnsynced(h, due) ==
  LET f == task[h].file
      written == IF End(h) > partial[f].written THEN End(h) ELSE partial[f].written
  IN  /\ Ready(h, "opened")
      /\ Last(h) => due
      /\ partial' = IF partial[f].there
                    THEN [partial EXCEPT ![f].written = written] ELSE partial
      /\ task' = [task EXCEPT ![h].pc = "written", ![h].due = due]
      /\ UNCHANGED <<allVars, lock, session, copies, linked, told, failures>>

(* Write the chunk, and sync the file when a checkpoint is due. *)
PutWrite(h, due) ==
  LET f == task[h].file
      written == IF End(h) > partial[f].written THEN End(h) ELSE partial[f].written
  IN  /\ Ready(h, "opened")
      /\ Last(h) => due
      /\ partial' = IF partial[f].there
                    THEN [partial EXCEPT ![f].written = written,
                                         ![f].synced = IF due THEN written ELSE @]
                    ELSE partial
      /\ task' = [task EXCEPT ![h].pc = "written", ![h].due = due]
      /\ UNCHANGED <<allVars, lock, session, copies, linked, told, failures>>

(* A short write, an I/O error, a timing mark that is not saved, or a      *)
(* digest header that is missing or wrong: the file stays as it was.       *)
PutBreaksOff(h) ==
  /\ Ready(h, "opened") \/ Ready(h, "written")
  /\ Leave(h)
  /\ UNCHANGED <<allVars, session, storage, told, failures>>

PutConfirm(h) ==
  LET f == task[h].file
      t == task[h]
  IN  /\ Ready(h, "written")
      /\ IF ~Last(h) /\ ~t.due
           THEN /\ session' = [session EXCEPT ![f].accepted = End(h)]
                /\ Leave(h) /\ UNCHANGED allVars
         ELSE IF file[f].status # "active" \/ End(h) < file[f].confirmed
           THEN Leave(h) /\ UNCHANGED <<allVars, session>>
         ELSE /\ IF Last(h) THEN Await(h, BeginVerification(f), "verified")
                            ELSE Await(h, ConfirmProgress(f, End(h)), "confirmed")
              /\ UNCHANGED <<lock, session>>
      /\ UNCHANGED <<storage, told, failures>>

MarkCheckpoint(f, offset) ==
  session' = [session EXCEPT ![f].accepted = offset, ![f].durable = offset]

PutConfirmed(h) ==
  /\ Ready(h, "confirmed")
  /\ IF task[h].broke THEN UNCHANGED session ELSE MarkCheckpoint(task[h].file, End(h))
  /\ Leave(h)
  /\ UNCHANGED <<allVars, storage, told, failures>>
-----------------------------------------------------------------------------
(* The last chunk: verify, link under a final name, complete *)

PutVerified(h) ==
  /\ Ready(h, "verified")
  /\ IF task[h].broke
     THEN Leave(h) /\ UNCHANGED session
     ELSE MarkCheckpoint(task[h].file, End(h)) /\ Goto(h, "hash") /\ UNCHANGED lock
  /\ UNCHANGED <<allVars, storage, told, failures>>

PutHash(h) ==
  LET p == partial[task[h].file]
  IN  /\ Ready(h, "hash")
      /\ \/ p.there /\ p.written = Size[task[h].file] /\ Goto(h, "name")
         \/ ~p.there /\ Goto(h, "catch")
      /\ UNCHANGED <<allVars, lock, session, storage, told, failures>>

(* The bytes are not those the phone hashed. *)
PutHashMismatch(h) ==
  LET f == task[h].file
  IN  /\ Ready(h, "hash") /\ partial[f].there
      /\ Unlinked(f)
      /\ IF Terminal(f)
         THEN Announce(h, "failed") /\ UNCHANGED allVars
         ELSE Await(h, Fail(f), "mismatched") /\ UNCHANGED <<lock, session, told>>
      /\ UNCHANGED <<copies, failures>>

(* beginFinalization saves the name before the link is made. *)
PutName(h) ==
  LET f == task[h].file
  IN  /\ Ready(h, "name")
      /\ IF file[f].status \in {"verifying", "finalizing"}
         THEN Await(h, BeginFinalization(f), "link")
         ELSE Goto(h, "catch") /\ UNCHANGED allVars
      /\ UNCHANGED <<lock, session, storage, told, failures>>

(* Mutant: a name that is taken is taken for the link. *)
PutLinkTaken(h) ==
  LET f == task[h].file
  IN  /\ Ready(h, "link")
      /\ \/ /\ ~task[h].broke /\ partial[f].there
            /\ Goto(h, "complete")
            /\ \/ UNCHANGED <<copies, linked>>
               \/ /\ copies' = [copies EXCEPT ![f] = @ + 1]
                  /\ linked' = [linked EXCEPT ![f] = TRUE]
         \/ Goto(h, "catch") /\ UNCHANGED <<copies, linked>>
      /\ UNCHANGED <<allVars, lock, session, partial, told, failures>>

(* The name is free, or taken, or the link cannot be made.  A copy made    *)
(* before keeps the name it has.                                           *)
PutLink(h) ==
  LET f == task[h].file
  IN  /\ Ready(h, "link")
      /\ \/ /\ ~task[h].broke /\ partial[f].there /\ copies[f] < MaxSuffix
            /\ copies' = [copies EXCEPT ![f] = @ + 1]
            /\ linked' = [linked EXCEPT ![f] = TRUE]
            /\ Goto(h, "complete")
         \/ /\ ~task[h].broke /\ task[h].suffix + 1 < MaxSuffix
            /\ task' = [task EXCEPT ![h].pc = "name", ![h].suffix = @ + 1]
            /\ UNCHANGED <<copies, linked>>
         \/ Goto(h, "catch") /\ UNCHANGED <<copies, linked>>
      /\ UNCHANGED <<allVars, lock, session, partial, told, failures>>

PutComplete(h) ==
  LET f == task[h].file
  IN  /\ Ready(h, "complete")
      /\ IF file[f].status \in InFlight /\ file[f].confirmed = Size[f]
         THEN Await(h, Complete(f), "completed")
         ELSE Goto(h, "catch") /\ UNCHANGED allVars
      /\ UNCHANGED <<lock, session, storage, told, failures>>

(* Mutant: the outcome is published before the completion is saved. *)
PutCompletedUnsaved(h) ==
  /\ up /\ task[h].pc = "completed"
  /\ Unlinked(task[h].file) /\ Announce(h, "complete")
  /\ UNCHANGED <<allVars, copies, failures>>

PutCompleted(h) ==
  /\ Ready(h, "completed")
  /\ IF task[h].broke
     THEN Goto(h, "catch") /\ UNCHANGED <<lock, session, partial, linked, told>>
     ELSE Unlinked(task[h].file) /\ Announce(h, "complete")
  /\ UNCHANGED <<allVars, copies, failures>>

(* The catch around all of this.  A completion whose save rejected stands; *)
(* otherwise the copy this attempt linked is removed with the partial      *)
(* file, and the file fails.                                               *)
PutCatchCompleted(h) ==
  /\ Ready(h, "catch")
  /\ file[task[h].file].status = "completed"
  /\ Announce(h, "complete")
  /\ UNCHANGED <<allVars, storage, failures>>

(* Mutant: the file is not failed. *)
PutCatchForgets(h) ==
  LET f == task[h].file
  IN  /\ Ready(h, "catch")
      /\ file[f].status # "completed"
      /\ Unlinked(f)
      /\ Announce(h, "failed")
      /\ UNCHANGED <<allVars, copies, failures>>

PutCatch(h) ==
  LET f == task[h].file
  IN  /\ Ready(h, "catch")
      /\ file[f].status # "completed"
      /\ copies' = IF file[f].finalPath /\ linked[f] /\ partial[f].there
                   THEN [copies EXCEPT ![f] = @ - 1] ELSE copies
      /\ Unlinked(f)
      /\ IF Terminal(f)
         THEN Announce(h, "failed") /\ UNCHANGED allVars
         ELSE Await(h, Fail(f), "caught") /\ UNCHANGED <<lock, session, told>>
      /\ UNCHANGED failures

(* After the save of fail: a mismatch that is not saved is caught, the     *)
(* others end the handler with an error.                                   *)
PutFailed(h) ==
  /\ \E pc \in {"missing", "mismatched", "caught"} : Ready(h, pc)
  /\ IF ~task[h].broke THEN Announce(h, "failed")
     ELSE IF task[h].pc = "mismatched" THEN Goto(h, "catch") /\ UNCHANGED <<lock, session, told>>
     ELSE Leave(h) /\ UNCHANGED <<session, told>>
  /\ UNCHANGED <<allVars, storage, failures>>

PutStep(h) ==
  \/ PutEnter(h) \/ PutRefuse(h) \/ PutOpen(h) \/ PutFindsNoPartial(h)
  \/ (\E due \in BOOLEAN : PutWrite(h, due))
  \/ PutBreaksOff(h) \/ PutConfirm(h) \/ PutConfirmed(h)
  \/ PutVerified(h) \/ PutHash(h) \/ PutHashMismatch(h)
  \/ PutName(h) \/ PutLink(h) \/ PutComplete(h) \/ PutCompleted(h)
  \/ PutCatchCompleted(h) \/ PutCatch(h) \/ PutFailed(h)
-----------------------------------------------------------------------------
(* Controls of one file: pauseTransfer, cancelTransfer and, for the active *)
(* file of a phone that left, handleDeviceDisconnected                     *)

StartOrder(h, op, f) ==
  /\ op \in Orders \ {"resume"}
  /\ Known(Owner[f])
  /\ op = "disconnect" => file[f].status = "active" /\ batch[Owner[f]].device # NoDevice
  /\ Start(h, op, f, 0)

(* An error leaves the lock; pause and cancel then fail the file. *)
OrderFails(h) ==
  IF task[h].op = "disconnect" THEN Leave(h)
  ELSE /\ lock' = [lock EXCEPT ![task[h].file] = Tail(@)]
       /\ task' = [task EXCEPT ![h].pc = "control_failed", ![h].wait = 0]

(* checkpointAnd: what was accepted is synced and confirmed first. *)
OrderEnter(h) ==
  LET f == task[h].file
      s == session[f]
  IN  /\ Entered(h) /\ task[h].op # "put"
      /\ IF ~(s.open /\ s.accepted > s.durable)
           THEN Goto(h, "operate") /\ UNCHANGED <<allVars, lock, partial>>
         ELSE IF ~partial[f].there
           THEN OrderFails(h) /\ UNCHANGED <<allVars, partial>>
         ELSE /\ partial' = [partial EXCEPT ![f].synced = partial[f].written]
              /\ IF file[f].status = "active" /\ s.accepted >= file[f].confirmed
                 THEN /\ Await(h, ConfirmProgress(f, s.accepted), "checkpointed")
                      /\ UNCHANGED lock
                 ELSE OrderFails(h) /\ UNCHANGED allVars
      /\ UNCHANGED <<session, copies, linked, told, failures>>

OrderCheckpointed(h) ==
  LET f == task[h].file
  IN  /\ Ready(h, "checkpointed")
      /\ IF task[h].broke
         THEN OrderFails(h) /\ UNCHANGED session
         ELSE MarkCheckpoint(f, session[f].accepted) /\ Goto(h, "operate") /\ UNCHANGED lock
      /\ UNCHANGED <<allVars, storage, told, failures>>

(* Mutant: the cleanup fails the file it chose before it had the lock. *)
OrderOperatesLate(h) ==
  LET f == task[h].file
      op == task[h].op
      failed == [file[f] EXCEPT !.status = "failed"]
  IN  /\ Ready(h, "operate")
      /\ \/ op = "cancel" /\ Await(h, CancelFile(f), "operated")
         \/ op = "pause" /\ Await(h, PauseFile(f), "operated")
         \/ /\ op = "disconnect"
            /\ Await(h, SettleFile(f, failed) /\ Static, "operated")
      /\ UNCHANGED <<lock, session, storage, told, failures>>

OrderOperates(h) ==
  LET f == task[h].file
      op == task[h].op
  IN  /\ Ready(h, "operate")
      /\ \/ op = "cancel" /\ Await(h, CancelFile(f), "operated")
         \/ op = "pause" /\ Await(h, PauseFile(f), "operated")
         \/ op = "disconnect" /\ ~Terminal(f) /\ Await(h, Fail(f), "operated")
         \/ op = "disconnect" /\ Terminal(f) /\ Goto(h, "operated") /\ UNCHANGED allVars
      /\ UNCHANGED <<lock, session, storage, told, failures>>

OrderOperated(h) ==
  LET f == task[h].file
  IN  /\ Ready(h, "operated")
      /\ IF task[h].broke
           THEN OrderFails(h) /\ UNCHANGED <<session, partial, linked, told>>
         ELSE IF task[h].op = "pause"
           THEN Leave(h) /\ UNCHANGED <<session, partial, linked, told>>
         ELSE /\ Unlinked(f) /\ Clear(f) /\ Leave(h)
              /\ IF task[h].op = "disconnect" THEN Tell(f, "failed") ELSE UNCHANGED told
      /\ UNCHANGED <<allVars, copies, failures>>

(* failProgressControl, and acceptPhoneOffer for each file the disk has no *)
(* room for: without the lock, whatever the file is by then.               *)
OrderFailsFile(h) ==
  LET f == task[h].file
  IN  /\ Ready(h, "control_failed")
      /\ IF Terminal(f)
         THEN Tell(f, "failed") /\ task' = [task EXCEPT ![h] = Idle] /\ UNCHANGED allVars
         ELSE Await(h, Fail(f), "control_told") /\ UNCHANGED told
      /\ UNCHANGED <<lock, session, storage, failures>>

OrderTold(h) ==
  /\ Ready(h, "control_told")
  /\ IF task[h].broke THEN UNCHANGED told ELSE Tell(task[h].file, "failed")
  /\ task' = [task EXCEPT ![h] = Idle]
  /\ UNCHANGED <<allVars, lock, session, storage, failures>>

OrderStep(h) ==
  \/ OrderEnter(h) \/ OrderCheckpointed(h) \/ OrderOperates(h)
  \/ OrderOperated(h) \/ OrderFailsFile(h) \/ OrderTold(h)
-----------------------------------------------------------------------------
(* Calls that reach the queue without the lock *)

Unlocked(call) == up /\ Len(pending) < MaxPending /\ call /\ Persist
                  /\ UNCHANGED <<disk, up, crashes>>

(* Bytes an offer of t still needs. *)
Remaining(f) ==
  IF file[f].status = "cancelled" THEN Size[f]
  ELSE IF Terminal(f) THEN 0 ELSE Size[f] - file[f].confirmed

Offer(t) ==
  /\ \E d \in Devices : Unlocked(AcceptOffer(t, d))
  /\ UNCHANGED uploadVars

(* acceptPhoneOffer of a known transfer, which the disk has no room for:   *)
(* the files of its snapshot that have not ended are failed in turn, the   *)
(* first at once, the others after the saves of those before them.         *)
OfferWithoutSpace(h, f) ==
  LET offer == [Idle EXCEPT !.op = "offer", !.file = f]
  IN  /\ up /\ task[h].pc = "idle" /\ Known(Owner[f]) /\ ~Terminal(f)
      /\ \E g \in FilesOf(Owner[f]) : Remaining(g) > 0
      /\ \/ /\ Unlocked(Fail(f))
            /\ task' = [task EXCEPT ![h] =
                          [offer EXCEPT !.pc = "control_told", !.wait = Len(pending) + 1]]
         \/ /\ \E g \in FilesOf(Owner[f]) : Position[g] < Position[f] /\ ~Terminal(g)
            /\ task' = [task EXCEPT ![h] = [offer EXCEPT !.pc = "control_failed"]]
            /\ UNCHANGED allVars
      /\ UNCHANGED <<lock, session, storage, told, failures>>

(* An offer of a known transfer publishes what memory says of its files    *)
(* that ended, whether it is saved or not: republishPhoneProgress, and     *)
(* acceptPhoneOffer when there is no room.                                 *)
OfferTells(f) ==
  /\ up
  /\ \/ file[f].status = "completed" /\ Tell(f, "complete")
     \/ file[f].status = "failed" /\ Tell(f, "failed")
  /\ UNCHANGED <<allVars, task, lock, session, storage, failures>>

(* acceptPhoneOffer retries the cancelled files of a known transfer. *)
OfferRetries(f) ==
  /\ up /\ file[f].status = "cancelled"
  /\ RetryBegin(f)
  /\ told' = [told EXCEPT ![f] = {}]
  /\ UNCHANGED <<durable, task, lock, session, storage, failures>>

OfferRetried(f) ==
  /\ Unlocked(RetryEnd(f))
  /\ Unlinked(f)
  /\ UNCHANGED <<task, lock, session, copies, told, failures>>

Resume(f) ==
  /\ "resume" \in Orders
  /\ Unlocked(ResumeFile(f))
  /\ UNCHANGED uploadVars

(* A control of a whole batch first takes the locks of the files that are  *)
(* active; those are controls of one file.  This is the rest of the        *)
(* handler, after their awaits: any file may be active again by then.      *)
BatchOrder(t) ==
  /\ BatchOrders
  /\ Unlocked(CancelBatch(t) \/ PauseBatch(t))
  /\ UNCHANGED uploadVars

ActivateNext ==
  /\ ClaimBeginStep \/ (up /\ ClaimNothing /\ UNCHANGED durable)
       \/ \E f \in Files : Unlocked(ClaimFile(f))
  /\ UNCHANGED uploadVars

UnlockedStep ==
  \/ \E t \in Transfers : Offer(t) \/ BatchOrder(t)
  \/ \E f \in Files : OfferTells(f) \/ OfferRetries(f) \/ OfferRetried(f) \/ Resume(f)
  \/ ActivateNext
-----------------------------------------------------------------------------
(* Saves, crashes and restarts *)

Waited(rejected) ==
  task' = [h \in Tasks |->
             IF task[h].wait = 0 THEN task[h]
             ELSE [task[h] EXCEPT !.wait = @ - 1, !.broke = rejected /\ task[h].wait = 1]]

SaveStep ==
  /\ Save
  /\ Waited(FALSE)
  /\ UNCHANGED <<lock, session, storage, told, failures>>

SaveRejects ==
  /\ failures < MaxSaveFailures
  /\ failures' = failures + 1
  /\ SaveFails
  /\ Waited(TRUE)
  /\ UNCHANGED <<lock, session, storage, told>>

CrashStep ==
  /\ Crash
  /\ task' = [h \in Tasks |-> Idle]
  /\ lock' = [f \in Files |-> <<>>]
  /\ session' = [f \in Files |-> NoSession]
  /\ UNCHANGED <<storage, told, failures>>

(* Mutant: recovery does not compare the inodes. *)
NoneFinalized == {}

(* The file in flight whose partial file shares its inode with finalPath. *)
SharedInode == {f \in Finalizing : file[f].finalPath /\ linked[f] /\ partial[f].there}

(* recoverInterrupted unlinks the partial file of every file it ends. *)
Abandoned ==
  {f \in Files : /\ batch[Owner[f]].status \notin TerminalBatch
                 /\ \/ file[f].status \in {"verifying", "finalizing"}
                    \/ file[f].status = "active" /\ Size[f] > 0 /\ file[f].confirmed = Size[f]}

Restart ==
  /\ Reopen(SharedInode)
  /\ partial' = [f \in Files |-> IF f \in Abandoned THEN NoPartial ELSE partial[f]]
  /\ linked' = [f \in Files |-> linked[f] /\ f \notin Abandoned]
  /\ UNCHANGED <<task, lock, session, copies, told, failures>>

(* The process stops after the save of recovery, and maybe before the      *)
(* partial file of the file it completed is unlinked.                      *)
RestartInterrupted(kept) ==
  /\ ReopenInterrupted(SharedInode)
  /\ partial' = [f \in Files |-> IF f \in Abandoned \ kept THEN NoPartial ELSE partial[f]]
  /\ linked' = [f \in Files |-> linked[f] /\ f \notin Abandoned \ kept]
  /\ UNCHANGED <<task, lock, session, copies, told, failures>>

StartTask ==
  \E h \in Tasks, f \in Files : StartPut(h, f) \/ \E op \in Orders : StartOrder(h, op, f)

HandlerStep(h) == PutStep(h) \/ OrderStep(h)

UploadNext ==
  \/ StartTask
  \/ \E h \in Tasks : HandlerStep(h)
  \/ UnlockedStep
  \/ \E h \in Tasks, f \in Files : OfferWithoutSpace(h, f)
  \/ SaveStep \/ SaveRejects \/ CrashStep \/ Restart
  \/ \E kept \in SUBSET SharedInode : RestartInterrupted(kept)

UploadSpec == UploadInit /\ [][UploadNext]_everything

(* Promises settle and I/O returns: a handler that can move does, and the  *)
(* waiting save is made.  The code never holds a queue call back, only the *)
(* bound MaxPending does; strong fairness undoes that.                     *)
FairUploadSpec ==
  /\ UploadSpec
  /\ \A h \in Tasks : SF_everything(HandlerStep(h))
  /\ WF_everything(SaveStep)
-----------------------------------------------------------------------------
TaskRecord ==
  [op : {"none", "put", "offer"} \cup Orders, file : Files, offset : Nat,
   suffix : 0..MaxSuffix, pc : STRING,
   due : BOOLEAN, wait : 0..MaxPending, broke : BOOLEAN]

(* Every request runs at a position its handler has, and the files on disk *)
(* never hold more synced bytes than written ones.                         *)
UploadTypeOK ==
  /\ DurableTypeOK
  /\ task \in [Tasks -> TaskRecord]
  /\ lock \in [Files -> Seq(Tasks)]
  /\ session \in [Files -> [open : BOOLEAN, accepted : Nat, durable : Nat]]
  /\ partial \in [Files -> [there : BOOLEAN, written : Nat, synced : Nat]]
  /\ \A f \in Files : partial[f].synced <= partial[f].written /\ partial[f].written <= Size[f]
  /\ copies \in [Files -> Nat]
  /\ linked \in [Files -> BOOLEAN]
  /\ told \in [Files -> SUBSET {"complete", "failed"}]

(* Every byte confirmed for a file that may be resumed is synced in its    *)
(* partial file, in memory and in the snapshot a crash leaves behind:      *)
(* resuming after a restart starts at bytes that are really there.  A file *)
(* whose failure the phone was told needs nothing any more.                *)
ResumableBytesAreSynced ==
  \A f \in Files \ retrying :
    "failed" \notin told[f] =>
      /\ MayResume(file[f]) => file[f].confirmed <= partial[f].synced
      /\ MayResume(disk.file[f]) => disk.file[f].confirmed <= partial[f].synced

(* A file that is completed, in memory or on disk, has one whole copy      *)
(* under a final name.                                                     *)
CompletedIsPublishedOnce ==
  \A f \in Files :
    file[f].status = "completed" \/ disk.file[f].status = "completed" => copies[f] = 1

(* Outside the handler that ends it, a file that failed or was cancelled   *)
(* has no copy under a final name.                                         *)
FailedIsNotPublished ==
  \A f \in Files :
    up /\ file[f].status \in {"failed", "cancelled"} /\ lock[f] = <<>> => copies[f] = 0

(* What the phone was told is complete is complete, after every crash,     *)
(* every late answer and every save that rejected.                         *)
AnnouncedIsCompleted ==
  \A f \in Files : up /\ "complete" \in told[f] => file[f].status = "completed"

(* A file that is being verified or finalized has a handler that will end  *)
(* it; otherwise it would hold back every other transfer.                  *)
VerifyingHasHandler ==
  \A f \in Files :
    up /\ file[f].status \in {"verifying", "finalizing"} =>
      \E h \in Tasks : task[h].op = "put" /\ task[h].file = f /\ task[h].pc \notin {"idle", "lock"}

(* When no handler holds the file, the offset the next PUT of the active   *)
(* file has to start at is one its partial file can be resumed from.       *)
AcceptedIsWritten ==
  \A f \in Files \ retrying :
    (/\ up /\ lock[f] = <<>> /\ "failed" \notin told[f]
     /\ file[f].status = "active" /\ session[f].open)
      => session[f].accepted <= partial[f].written

(* Every request and control is answered: no lock is kept for ever.        *)
EveryTaskEnds == \A h \in Tasks : task[h].pc # "idle" ~> task[h].pc = "idle"
=============================================================================
