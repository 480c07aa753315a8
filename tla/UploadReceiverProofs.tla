------------------------- MODULE UploadReceiverProofs -------------------------
(* Proofs about UploadReceiver, for any number of transfers, files,         *)
(* handlers, restarts and saves that reject: the queue of the laptop does   *)
(* what DurableQueue says, the lock of a file admits one handler at a time, *)
(* and what the properties of its runs say of a file that is verified,      *)
(* completed, announced, resumed or failed, each under the condition named  *)
(* in its theorem.                                                          *)
EXTENDS UploadReceiver, DurableQueueProofs

(* The positions of a handler that is in the lock of its file, or waits for *)
(* it, and those after it has left with an error.                           *)
Finishing == {"verified", "hash", "name", "link", "complete", "catch"}
Receiving == {"read", "opened", "written", "confirmed"}
Ending == {"missing", "mismatched", "caught", "completed"}
PutPlaces == Finishing \cup Receiving \cup Ending
OrderPlaces == {"checkpointed", "operate", "operated"}
Working == PutPlaces \cup OrderPlaces
Outside == {"control_failed", "control_told"}

Task == [op : {"none", "put", "offer"} \cup Orders, file : Files \cup {Idle.file}, offset : Nat,
         suffix : Nat, pc : {"idle", "lock"} \cup Working \cup Outside,
         due : BOOLEAN, wait : Nat, broke : BOOLEAN]

(* What a handler is, wherever it is.                                       *)
TasksTyped ==
  /\ task \in [Tasks -> Task]
  /\ \A h \in Tasks :
       /\ task[h].pc # "idle" => task[h].file \in Files /\ task[h].op # "none"
       /\ task[h].pc \in PutPlaces => task[h].op = "put"
       /\ task[h].pc \in OrderPlaces => task[h].op \in Orders
       /\ task[h].op = "offer" => task[h].pc \in {"idle"} \cup Outside
       /\ task[h].wait <= Len(pending)
  /\ ~up => \A h \in Tasks : task[h].pc = "idle"

(* A handler is in the chain of its file from its first await to the end of *)
(* its work, once, and works only at the head of it.                        *)
LockInv ==
  /\ lock \in [Files -> Seq(Tasks)]
  /\ \A f \in Files : \A i, k \in 1..Len(lock[f]) : lock[f][i] = lock[f][k] => i = k
  /\ \A f \in Files, h \in Tasks :
       (\E i \in 1..Len(lock[f]) : lock[f][i] = h)
         <=> task[h].file = f /\ task[h].pc \in {"lock"} \cup Working
  /\ \A h \in Tasks : task[h].pc \in Working => lock[task[h].file][1] = h

TurnInv == TasksTyped /\ LockInv

(* No two handlers work on one file at the same time.                       *)
OneHandlerPerFile ==
  \A h, k \in Tasks :
    task[h].pc \in Working /\ task[k].pc \in Working /\ task[h].file = task[k].file => h = k
-----------------------------------------------------------------------------
(* The positions of a PUT before the completion of its file, and a snapshot  *)
(* in which the file is completed.                                          *)
Incomplete == {"read", "opened", "written", "confirmed"} \cup Finishing
Done(s, f) == s.file[f].status = "completed"
-----------------------------------------------------------------------------
(* Without controls of a whole batch: a copy is made of a file that is      *)
(* being finalized, and stays while the file fails or completes.            *)
Ended == {"failed", "completed"}
Fin == {"finalizing"} \cup Ended
AllFin(f) ==
  /\ file[f].status \in Fin /\ disk.file[f].status \in Fin
  /\ \A i \in DOMAIN pending : pending[i].file[f].status \in Fin

CopyInv ==
  /\ copies \in [Files -> {0, 1}] /\ linked \in [Files -> BOOLEAN]
  /\ \A f \in Files :
       /\ linked[f] => copies[f] = 1
       /\ copies[f] = 1 => AllFin(f)
       /\ copies[f] = 1 /\ file[f].status = "finalizing" /\ up =>
            \E h \in Tasks : task[h].file = f /\ task[h].pc \in {"complete", "catch"}
       /\ file[f].status = "completed" => copies[f] = 1
  /\ \A h \in Tasks :
       LET f == task[h].file
       IN  /\ task[h].pc \in Receiving \cup {"verified", "hash", "name", "link"} =>
                copies[f] = 0
           /\ task[h].pc \in {"complete", "completed"} => copies[f] = 1
           /\ task[h].pc = "link" /\ (task[h].wait # 0 \/ ~task[h].broke) =>
                /\ file[f].status \in Fin
                /\ task[h].wait = 0 => disk.file[f].status \in Fin
                /\ \A i \in DOMAIN pending :
                     task[h].wait <= i => pending[i].file[f].status \in Fin

-----------------------------------------------------------------------------
(* The handlers and the calls of the coordinator reach the queue only      *)
(* through its calls, and save as it does.                                 *)
LEMMA AwaitSaves ==
  ASSUME up, Len(pending) < MaxPending, SavingCall, Persist, UNCHANGED <<disk, up, crashes>>
  PROVE  DurableNext
BY DEF DurableNext, SavingStep

LEMMA CallsOfOneFile ==
  ASSUME DurableInv, NEW f \in Files,
         \/ Fail(f) \/ BeginVerification(f) \/ BeginFinalization(f) \/ Complete(f)
         \/ CancelFile(f) \/ PauseFile(f) \/ ResumeFile(f) \/ RetryEnd(f) \/ ClaimFile(f)
         \/ \E offset : ConfirmProgress(f, offset)
  PROVE  SavingCall
<1>1. ASSUME NEW offset, ConfirmProgress(f, offset)
      PROVE  FileCall(f)
  <2>1. file[f].confirmed \in Nat /\ Size[f] \in Nat
    BY QueueAssumption DEF DurableInv, CoreInv, TypeOK, FileRecord
  <2>2. offset \in 0..Size[f]
    BY <1>1, <2>1 DEF ConfirmProgress
  <2>3. QED
    BY <1>1, <2>2 DEF FileCall
<1>2. FileCall(f)
  BY <1>1 DEF FileCall
<1>3. QED
  BY <1>2 DEF SavingCall

LEMMA PutUsesTheQueue ==
  ASSUME DurableInv, TasksTyped, NEW h \in Tasks, PutStep(h)
  PROVE  DurableNext \/ UNCHANGED allVars
<1> DEFINE f == task[h].file
           Result == DurableNext \/ UNCHANGED allVars
<1>1. ASSUME up, f \in Files,
             \/ \E pc : \/ Await(h, Fail(f), pc) \/ Await(h, BeginVerification(f), pc)
                        \/ Await(h, BeginFinalization(f), pc) \/ Await(h, Complete(f), pc)
                        \/ \E offset : Await(h, ConfirmProgress(f, offset), pc)
      PROVE  Result
  BY <1>1, AwaitSaves, CallsOfOneFile DEF Await
<1>2. ASSUME NEW pc, Ready(h, pc), pc # "idle" PROVE up /\ f \in Files
  BY <1>2 DEF Ready, TasksTyped
<1> HIDE DEF f
<1>3. CASE PutFindsNoPartial(h)
  BY <1>1, <1>2, <1>3 DEF PutFindsNoPartial, f
<1>4. CASE PutConfirm(h)
  BY <1>1, <1>2, <1>4 DEF PutConfirm, f
<1>5. CASE PutHashMismatch(h) \/ PutName(h) \/ PutComplete(h) \/ PutCatch(h)
  BY <1>1, <1>2, <1>5 DEF PutHashMismatch, PutName, PutComplete, PutCatch, f
<1>6. CASE \/ PutEnter(h) \/ PutRefuse(h) \/ PutOpen(h)
           \/ (\E due \in BOOLEAN : PutWrite(h, due))
           \/ PutBreaksOff(h) \/ PutConfirmed(h)
           \/ PutVerified(h) \/ PutHash(h) \/ PutLink(h) \/ PutCompleted(h)
           \/ PutCatchCompleted(h) \/ PutFailed(h)
  BY <1>6 DEF PutEnter, PutRefuse, PutOpen, PutWrite, PutBreaksOff, PutConfirmed, PutVerified,
              PutHash, PutLink, PutCompleted, PutCatchCompleted, PutFailed
<1>7. QED
  BY <1>3, <1>4, <1>5, <1>6 DEF PutStep

LEMMA OrderUsesTheQueue ==
  ASSUME DurableInv, TasksTyped, NEW h \in Tasks, OrderStep(h)
  PROVE  DurableNext \/ UNCHANGED allVars
<1> DEFINE f == task[h].file
           Result == DurableNext \/ UNCHANGED allVars
<1>1. ASSUME up, f \in Files,
             \/ \E pc : \/ Await(h, Fail(f), pc) \/ Await(h, CancelFile(f), pc)
                        \/ Await(h, PauseFile(f), pc)
                        \/ \E offset : Await(h, ConfirmProgress(f, offset), pc)
      PROVE  Result
  BY <1>1, AwaitSaves, CallsOfOneFile DEF Await
<1>2. ASSUME NEW pc, Ready(h, pc), pc # "idle" PROVE up /\ f \in Files
  BY <1>2 DEF Ready, TasksTyped
<1> HIDE DEF f
<1>3. CASE OrderEnter(h)
  BY <1>1, <1>2, <1>3 DEF OrderEnter, Entered, f
<1>4. CASE OrderOperates(h)
  BY <1>1, <1>2, <1>4 DEF OrderOperates, f
<1>5. CASE OrderFailsFile(h)
  BY <1>1, <1>2, <1>5 DEF OrderFailsFile, f
<1>6. CASE OrderCheckpointed(h) \/ OrderOperated(h) \/ OrderTold(h)
  BY <1>6 DEF OrderCheckpointed, OrderOperated, OrderTold
<1>7. QED
  BY <1>3, <1>4, <1>5, <1>6 DEF OrderStep

LEMMA UnlockedUsesTheQueue ==
  ASSUME DurableInv, UnlockedStep
  PROVE  DurableNext \/ UNCHANGED allVars
<1>2. ASSUME NEW t \in Transfers, Offer(t) \/ BatchOrder(t) PROVE DurableNext
  <2>1. CASE Offer(t)
    BY <2>1, AwaitSaves DEF Offer, Unlocked, SavingCall, BatchCall
  <2>2. CASE BatchOrder(t)
    BY <2>2, AwaitSaves DEF BatchOrder, Unlocked, SavingCall, BatchCall
  <2>3. QED
    BY <1>2, <2>1, <2>2
<1>3. ASSUME NEW f \in Files, OfferRetried(f) \/ Resume(f)
      PROVE  DurableNext
  BY <1>3, AwaitSaves, CallsOfOneFile DEF OfferRetried, Resume, Unlocked
<1>4. ASSUME NEW f \in Files, OfferRetries(f) PROVE DurableNext
  BY <1>4 DEF OfferRetries, DurableNext, QuietStep
<1>5. CASE ActivateNext
  <2>1. CASE ClaimBeginStep
    BY <2>1 DEF DurableNext
  <2>2. CASE up /\ ClaimNothing /\ UNCHANGED durable
    BY <2>2 DEF DurableNext, QuietStep
  <2>3. ASSUME NEW f \in Files, Unlocked(ClaimFile(f)) PROVE DurableNext
    BY <2>3, AwaitSaves, CallsOfOneFile DEF Unlocked
  <2>4. QED
    BY <1>5, <2>1, <2>2, <2>3 DEF ActivateNext
<1>6. ASSUME NEW f \in Files, OfferTells(f) PROVE UNCHANGED allVars
  BY <1>6 DEF OfferTells
<1>7. QED
  BY <1>2, <1>3, <1>4, <1>5, <1>6 DEF UnlockedStep

(* An offer without space fails a file at once, or has yet to fail it. *)
LEMMA OffersUseTheQueue ==
  ASSUME DurableInv, NEW h \in Tasks, NEW f \in Files, OfferWithoutSpace(h, f)
  PROVE  DurableNext \/ UNCHANGED allVars
BY AwaitSaves, CallsOfOneFile DEF OfferWithoutSpace, Unlocked

LEMMA UploadStepsTheQueue ==
  ASSUME DurableInv, TasksTyped, [UploadNext]_everything
  PROVE  [DurableNext]_allVars
<1>1. ASSUME NEW h \in Tasks, HandlerStep(h) PROVE [DurableNext]_allVars
  BY <1>1, PutUsesTheQueue, OrderUsesTheQueue DEF HandlerStep
<1>2. CASE StartTask
  BY <1>2 DEF StartTask, StartPut, StartOrder, Start
<1>3. CASE SaveStep \/ SaveRejects \/ CrashStep
  BY <1>3 DEF SaveStep, SaveRejects, CrashStep, DurableNext
<1>4. SharedInode \in SUBSET Finalizing
  BY DEF SharedInode
<1>5. ASSUME NEW kept, Restart \/ RestartInterrupted(kept) PROVE DurableNext
  BY <1>4, <1>5 DEF Restart, RestartInterrupted, DurableNext
<1>6. CASE UNCHANGED everything
  BY <1>6 DEF everything
<1>7. QED
  BY <1>1, <1>2, <1>3, <1>5, <1>6, UnlockedUsesTheQueue, OffersUseTheQueue DEF UploadNext

-----------------------------------------------------------------------------
(* What a step of a handler does to the handlers and to the locks: it works *)
(* on in its turn, or leaves the lock to the next one, or ends outside.     *)
Goes(h, pc, wait, broke) ==
  /\ task' \in [Tasks -> Task]
  /\ \A k \in Tasks \ {h} : task'[k] = task[k]
  /\ task'[h].pc = pc /\ task'[h].wait = wait /\ task'[h].broke = broke
  /\ task'[h].file = task[h].file /\ task'[h].op = task[h].op

Finishes(h) ==
  /\ task' \in [Tasks -> Task]
  /\ \A k \in Tasks \ {h} : task'[k] = task[k]
  /\ task'[h] = Idle

LEMMA IdleIsTask == Idle \in Task
BY DEF Idle, Task

LEMMA OneTaskChanges ==
  ASSUME TasksTyped, NEW h \in Tasks, NEW u \in Task, task' = [task EXCEPT ![h] = u]
  PROVE  /\ task' \in [Tasks -> Task] /\ task'[h] = u
         /\ \A k \in Tasks \ {h} : task'[k] = task[k]
BY DEF TasksTyped

LEMMA GotoGoes ==
  ASSUME TasksTyped, NEW h \in Tasks, NEW pc \in {"idle", "lock"} \cup Working \cup Outside,
         Goto(h, pc)
  PROVE  Goes(h, pc, task[h].wait, task[h].broke)
<1> DEFINE u == [task[h] EXCEPT !.pc = pc]
<1>1. task \in [Tasks -> Task] /\ task' = [task EXCEPT ![h] = u]
  BY DEF TasksTyped, Goto
<1>2. /\ u \in Task /\ u.pc = pc /\ u.wait = task[h].wait /\ u.broke = task[h].broke
      /\ u.file = task[h].file /\ u.op = task[h].op
  BY <1>1 DEF Task
<1> HIDE DEF u
<1>3. QED
  BY <1>1, <1>2 DEF Goes

LEMMA AwaitGoes ==
  ASSUME TasksTyped, NEW h \in Tasks, NEW pc \in {"idle", "lock"} \cup Working \cup Outside,
         NEW n \in Nat,
         task' = [task EXCEPT ![h].pc = pc, ![h].wait = n, ![h].broke = FALSE]
  PROVE  Goes(h, pc, n, FALSE)
<1> DEFINE u == [[[task[h] EXCEPT !.pc = pc] EXCEPT !.wait = n] EXCEPT !.broke = FALSE]
<1>1. task \in [Tasks -> Task] /\ task' = [task EXCEPT ![h] = u]
  BY DEF TasksTyped
<1>2. /\ u \in Task /\ u.pc = pc /\ u.wait = n /\ u.broke = FALSE
      /\ u.file = task[h].file /\ u.op = task[h].op
  BY <1>1 DEF Task
<1> HIDE DEF u
<1>3. /\ task' \in [Tasks -> Task] /\ task'[h] = u
      /\ \A k \in Tasks \ {h} : task'[k] = task[k]
  BY <1>1, <1>2, OneTaskChanges
<1>4. QED
  BY <1>2, <1>3, Zenon DEF Goes

LEMMA IdleFinishes ==
  ASSUME TasksTyped, NEW h \in Tasks, task' = [task EXCEPT ![h] = Idle]
  PROVE  Finishes(h)
BY IdleIsTask DEF TasksTyped, Finishes

(* An error of a control leaves the lock. *)
LEMMA ErrorGoes ==
  ASSUME TasksTyped, NEW h \in Tasks, OrderFails(h)
  PROVE  /\ Finishes(h) \/ Goes(h, "control_failed", 0, task[h].broke)
         /\ lock' = [lock EXCEPT ![task[h].file] = Tail(@)]
<1>1. CASE task[h].op = "disconnect"
  BY <1>1, IdleFinishes DEF OrderFails, Leave
<1>2. CASE task[h].op # "disconnect"
  <2> DEFINE u == [[task[h] EXCEPT !.pc = "control_failed"] EXCEPT !.wait = 0]
  <2>1. /\ task \in [Tasks -> Task] /\ task' = [task EXCEPT ![h] = u]
        /\ lock' = [lock EXCEPT ![task[h].file] = Tail(@)]
    BY <1>2 DEF TasksTyped, OrderFails
  <2>2. /\ u \in Task /\ u.pc = "control_failed" /\ u.wait = 0 /\ u.broke = task[h].broke
        /\ u.file = task[h].file /\ u.op = task[h].op
    BY <2>1 DEF Task, Outside
  <2> HIDE DEF u
  <2>3. QED
    BY <2>1, <2>2 DEF Goes
<1>3. QED
  BY <1>1, <1>2

InTurn(h) == task[h].pc \in Working \/ Entered(h)

TurnEffect(h) ==
  LET f == task[h].file
      to == task'[h].pc
  IN  /\ up /\ up' = up /\ task[h].wait = 0 /\ task[h].pc # "idle" /\ f \in Files
      /\ \E n \in Nat, b \in BOOLEAN : Finishes(h) \/ Goes(h, to, n, b)
      /\ \/ /\ InTurn(h) /\ lock' = lock /\ task'[h].file = f /\ task'[h].op = task[h].op
            /\ \/ task[h].op = "put" /\ to \in PutPlaces
               \/ task[h].op # "put" /\ to \in OrderPlaces
         \/ /\ InTurn(h) /\ lock' = [lock EXCEPT ![f] = Tail(@)]
            /\ \/ to = "idle"
               \/ to = "control_failed" /\ task'[h].file = f
         \/ /\ task[h].pc \in Outside /\ lock' = lock
            /\ \/ to = "idle"
               \/ to \in Outside /\ task'[h].file = f
      /\ \/ pending' = pending /\ task'[h].wait = 0
         \/ Persist /\ task'[h].wait = Len(pending) + 1

(* The steps of a PUT. *)
LEMMA PutTurns ==
  ASSUME DurableInv, TasksTyped, NEW h \in Tasks, PutStep(h)
  PROVE  TurnEffect(h)
<1> DEFINE f == task[h].file
           t == task[h]
           n == Len(pending)
<1>0. /\ n \in Nat /\ t \in Task /\ t.wait \in Nat /\ t.broke \in BOOLEAN
      /\ 0 \in Nat /\ FALSE \in BOOLEAN /\ n + 1 \in Nat
      /\ Idle.pc = "idle" /\ Idle.wait = 0
  BY DEF DurableInv, TasksTyped, Task, Idle
<1>1. ASSUME NEW pc \in PutPlaces, Ready(h, pc)
      PROVE  /\ up /\ t.wait = 0 /\ t.pc = pc /\ t.pc # "idle" /\ f \in Files /\ InTurn(h)
             /\ t.op = "put"
  BY <1>1 DEF Ready, TasksTyped, InTurn, Working, PutPlaces, Finishing, Receiving, Ending
<1>2. ASSUME Entered(h)
      PROVE  up /\ t.wait = 0 /\ t.pc # "idle" /\ f \in Files /\ InTurn(h)
  BY <1>2 DEF Entered, Ready, TasksTyped, InTurn
<1> HIDE DEF f, t, n
<1>3. ASSUME up, t.wait = 0, t.pc # "idle", f \in Files, InTurn(h), UNCHANGED allVars,
             Leave(h)
      PROVE  TurnEffect(h)
  <2>1. Finishes(h) /\ lock' = [lock EXCEPT ![f] = Tail(@)]
    BY <1>3, IdleFinishes DEF Leave, f
  <2>2. pending' = pending /\ up' = up
    BY <1>3 DEF allVars, durable
  <2>3. QED
    BY <1>0, <1>3, <2>1, <2>2 DEF TurnEffect, Finishes, f, t
<1>4. ASSUME up, t.wait = 0, t.pc # "idle", f \in Files, InTurn(h), t.op = "put",
             UNCHANGED <<allVars, lock>>, NEW pc \in PutPlaces, Goto(h, pc)
      PROVE  TurnEffect(h)
  <2>1. Goes(h, pc, t.wait, t.broke)
    BY <1>4, GotoGoes DEF t, Working
  <2>2. pending' = pending /\ up' = up
    BY <1>4 DEF allVars, durable
  <2>3. QED
    BY <1>0, <1>4, <2>1, <2>2 DEF TurnEffect, Goes, f, t
<1>5. ASSUME up, t.wait = 0, t.pc # "idle", f \in Files, InTurn(h), t.op = "put",
             UNCHANGED lock, NEW pc \in PutPlaces, Persist, up' = up,
             task' = [task EXCEPT ![h].pc = pc, ![h].wait = n + 1, ![h].broke = FALSE]
      PROVE  TurnEffect(h)
  <2>1. Goes(h, pc, n + 1, FALSE)
    BY <1>0, <1>5, AwaitGoes DEF Working
  <2>2. QED
    BY <1>0, <1>5, <2>1 DEF TurnEffect, Goes, f, t, n
<1>6. CASE PutEnter(h)
  <2>1. Entered(h) /\ t.op = "put" /\ UNCHANGED allVars
        /\ ((Goto(h, "read") /\ UNCHANGED lock) \/ Leave(h))
    BY <1>6 DEF PutEnter, t
  <2>2. "read" \in PutPlaces
    BY DEF PutPlaces, Receiving
  <2>3. QED
    BY <1>2, <1>3, <1>4, <2>1, <2>2
<1>7. CASE PutRefuse(h)
  BY <1>1, <1>3, <1>7 DEF PutRefuse, PutPlaces, Receiving
<1>8. CASE PutOpen(h)
  BY <1>1, <1>4, <1>8 DEF PutOpen, PutPlaces, Receiving
<1>9. CASE PutFindsNoPartial(h)
  BY <1>1, <1>3, <1>5, <1>9 DEF PutFindsNoPartial, Announce, Await, PutPlaces, Receiving, Ending, n
<1>10. ASSUME NEW due \in BOOLEAN, PutWrite(h, due) PROVE TurnEffect(h)
  <2> DEFINE u == [[t EXCEPT !.pc = "written"] EXCEPT !.due = due]
  <2>1. /\ up /\ t.wait = 0 /\ t.pc = "opened" /\ f \in Files /\ InTurn(h) /\ t.op = "put"
        /\ "written" \in PutPlaces
    BY <1>1, <1>10 DEF PutWrite, PutPlaces, Receiving
  <2>2. task' = [task EXCEPT ![h] = u] /\ UNCHANGED <<lock, allVars>>
    BY <1>10 DEF PutWrite, TasksTyped, t
  <2>3. /\ u \in Task /\ u.pc = "written" /\ u.wait = t.wait /\ u.broke = t.broke
        /\ u.file = t.file /\ u.op = t.op
    BY <1>0, <2>1 DEF Task, Working
  <2> HIDE DEF u
  <2>4. /\ task' \in [Tasks -> Task] /\ task'[h] = u
        /\ \A k \in Tasks \ {h} : task'[k] = task[k]
    BY <2>2, <2>3, OneTaskChanges
  <2>5. Goes(h, "written", t.wait, t.broke)
    BY <2>3, <2>4, Zenon DEF Goes, t
  <2>6. pending' = pending /\ up' = up
    BY <2>2 DEF allVars, durable
  <2>7. QED
    BY <1>0, <2>1, <2>2, <2>5, <2>6 DEF TurnEffect, Goes, f, t
<1>11. CASE PutBreaksOff(h)
  BY <1>1, <1>3, <1>11 DEF PutBreaksOff, PutPlaces, Receiving
<1>12. CASE PutConfirm(h)
  BY <1>1, <1>3, <1>5, <1>12 DEF PutConfirm, Await, PutPlaces, Receiving, Finishing, n
<1>13. CASE PutConfirmed(h)
  BY <1>1, <1>3, <1>13 DEF PutConfirmed, PutPlaces, Receiving
<1>14. CASE PutVerified(h)
  BY <1>1, <1>3, <1>4, <1>14 DEF PutVerified, PutPlaces, Finishing
<1>15. CASE PutHash(h)
  BY <1>1, <1>4, <1>15 DEF PutHash, PutPlaces, Finishing
<1>16. CASE PutHashMismatch(h)
  BY <1>1, <1>3, <1>5, <1>16 DEF PutHashMismatch, Announce, Await, PutPlaces, Finishing, Ending, n
<1>17. CASE PutName(h)
  BY <1>1, <1>4, <1>5, <1>17 DEF PutName, Await, PutPlaces, Finishing, n
<1>18. CASE PutLink(h)
  <2>1. /\ up /\ t.wait = 0 /\ t.pc = "link" /\ f \in Files /\ InTurn(h) /\ t.op = "put"
        /\ UNCHANGED <<allVars, lock>>
    BY <1>1, <1>18 DEF PutLink, PutPlaces, Finishing
  <2>2. CASE \E pc \in {"complete", "catch"} : Goto(h, pc)
    BY <1>4, <2>1, <2>2 DEF PutPlaces, Finishing
  <2>3. CASE task' = [task EXCEPT ![h].pc = "name", ![h].suffix = @ + 1]
    <3> DEFINE next == t.suffix + 1
               u == [[t EXCEPT !.pc = "name"] EXCEPT !.suffix = next]
    <3>1. task' = [task EXCEPT ![h] = u]
      BY <2>3 DEF TasksTyped, t
    <3>2. /\ u \in Task /\ u.pc = "name" /\ u.wait = t.wait /\ u.broke = t.broke
          /\ u.file = t.file /\ u.op = t.op
      <4>1. next \in Nat /\ "name" \in Working
        BY <1>0 DEF Task, Working, PutPlaces, Finishing
      <4> HIDE DEF next
      <4>2. QED
        BY <1>0, <4>1 DEF Task
    <3> HIDE DEF u
    <3>3. /\ task' \in [Tasks -> Task] /\ task'[h] = u
          /\ \A k \in Tasks \ {h} : task'[k] = task[k]
      BY <3>1, <3>2, OneTaskChanges
    <3>4. Goes(h, "name", t.wait, t.broke)
      BY <3>2, <3>3, Zenon DEF Goes, t
    <3>5. pending' = pending /\ up' = up /\ "name" \in PutPlaces
      BY <2>1 DEF allVars, durable, PutPlaces, Finishing
    <3>6. QED
      BY <1>0, <2>1, <3>4, <3>5 DEF TurnEffect, Goes, f, t
  <2>4. QED
    BY <1>18, <2>2, <2>3 DEF PutLink
<1>19. CASE PutComplete(h)
  BY <1>1, <1>4, <1>5, <1>19 DEF PutComplete, Await, PutPlaces, Finishing, Ending, n
<1>20. CASE PutCompleted(h)
  BY <1>1, <1>3, <1>4, <1>20 DEF PutCompleted, Announce, PutPlaces, Finishing, Ending
<1>21. CASE PutCatchCompleted(h)
  BY <1>1, <1>3, <1>21 DEF PutCatchCompleted, Announce, PutPlaces, Finishing
<1>22. CASE PutCatch(h)
  BY <1>1, <1>3, <1>5, <1>22 DEF PutCatch, Announce, Await, PutPlaces, Finishing, Ending, n
<1>23. CASE PutFailed(h)
  BY <1>1, <1>3, <1>4, <1>23 DEF PutFailed, Announce, PutPlaces, Finishing, Ending
<1>24. QED
  BY <1>6, <1>7, <1>8, <1>9, <1>10, <1>11, <1>12, <1>13, <1>14, <1>15, <1>16, <1>17, <1>18,
     <1>19, <1>20, <1>21, <1>22, <1>23 DEF PutStep


(* The steps of a control. *)
LEMMA OrderTurns ==
  ASSUME DurableInv, TasksTyped, NEW h \in Tasks, OrderStep(h)
  PROVE  TurnEffect(h)
<1> DEFINE f == task[h].file
           t == task[h]
           n == Len(pending)
<1>0. /\ n \in Nat /\ t \in Task /\ t.wait \in Nat /\ t.broke \in BOOLEAN
      /\ 0 \in Nat /\ FALSE \in BOOLEAN /\ n + 1 \in Nat
      /\ Idle.pc = "idle" /\ Idle.wait = 0
  BY DEF DurableInv, TasksTyped, Task, Idle
<1>1. ASSUME NEW pc \in OrderPlaces, Ready(h, pc)
      PROVE  /\ up /\ t.wait = 0 /\ t.pc = pc /\ t.pc # "idle" /\ f \in Files /\ InTurn(h)
             /\ t.op # "put"
  BY <1>1, UploadAssumption DEF Ready, TasksTyped, InTurn, Working, OrderPlaces
<1>2. ASSUME Entered(h)
      PROVE  up /\ t.wait = 0 /\ t.pc # "idle" /\ f \in Files /\ InTurn(h)
  BY <1>2 DEF Entered, Ready, TasksTyped, InTurn
<1>3. ASSUME NEW pc \in Outside, Ready(h, pc)
      PROVE  up /\ t.wait = 0 /\ t.pc # "idle" /\ f \in Files /\ t.pc \in Outside
  BY <1>3 DEF Ready, TasksTyped, Outside
<1> HIDE DEF f, t, n
<1>4. ASSUME up, t.wait = 0, t.pc # "idle", f \in Files, InTurn(h), UNCHANGED allVars,
             Leave(h) \/ OrderFails(h)
      PROVE  TurnEffect(h)
  <2>1. /\ Finishes(h) \/ Goes(h, "control_failed", 0, t.broke)
        /\ lock' = [lock EXCEPT ![f] = Tail(@)]
    BY <1>4, IdleFinishes, ErrorGoes DEF Leave, f, t
  <2>2. pending' = pending /\ up' = up
    BY <1>4 DEF allVars, durable
  <2>3. QED
    BY <1>0, <1>4, <2>1, <2>2 DEF TurnEffect, Finishes, Goes, f, t
<1>5. ASSUME up, t.wait = 0, t.pc # "idle", f \in Files, InTurn(h), t.op # "put",
             UNCHANGED <<allVars, lock>>, NEW pc \in OrderPlaces, Goto(h, pc)
      PROVE  TurnEffect(h)
  <2>1. Goes(h, pc, t.wait, t.broke)
    BY <1>5, GotoGoes DEF t, Working
  <2>2. pending' = pending /\ up' = up
    BY <1>5 DEF allVars, durable
  <2>3. QED
    BY <1>0, <1>5, <2>1, <2>2 DEF TurnEffect, Goes, f, t
<1>6. ASSUME up, t.wait = 0, t.pc # "idle", f \in Files, InTurn(h), t.op # "put",
             UNCHANGED lock, NEW pc \in OrderPlaces, Persist, up' = up,
             task' = [task EXCEPT ![h].pc = pc, ![h].wait = n + 1, ![h].broke = FALSE]
      PROVE  TurnEffect(h)
  <2>1. Goes(h, pc, n + 1, FALSE)
    BY <1>0, <1>6, AwaitGoes DEF Working
  <2>2. QED
    BY <1>0, <1>6, <2>1 DEF TurnEffect, Goes, f, t, n
<1>7. CASE OrderEnter(h)
  <2>1. Entered(h) /\ t.op # "put"
    BY <1>7 DEF OrderEnter, t
  <2>2. \/ Goto(h, "operate") /\ UNCHANGED <<allVars, lock>>
        \/ OrderFails(h) /\ UNCHANGED allVars
        \/ /\ Persist /\ up' = up /\ UNCHANGED lock
           /\ task' = [task EXCEPT ![h].pc = "checkpointed", ![h].wait = n + 1, ![h].broke = FALSE]
    BY <1>7 DEF OrderEnter, Await, n
  <2>3. "operate" \in OrderPlaces /\ "checkpointed" \in OrderPlaces
    BY DEF OrderPlaces
  <2>4. QED
    BY <1>2, <1>4, <1>5, <1>6, <2>1, <2>2, <2>3
<1>8. CASE OrderCheckpointed(h)
  BY <1>1, <1>4, <1>5, <1>8 DEF OrderCheckpointed, OrderPlaces
<1>9. CASE OrderOperates(h)
  BY <1>1, <1>5, <1>6, <1>9 DEF OrderOperates, Await, OrderPlaces, n
<1>10. CASE OrderOperated(h)
  BY <1>1, <1>4, <1>10 DEF OrderOperated, OrderPlaces
<1>11. ASSUME up, t.wait = 0, t.pc # "idle", f \in Files, t.pc \in Outside,
              UNCHANGED <<allVars, lock>>, task' = [task EXCEPT ![h] = Idle]
       PROVE  TurnEffect(h)
  <2>1. Finishes(h)
    BY <1>11, IdleFinishes
  <2>2. pending' = pending /\ up' = up
    BY <1>11 DEF allVars, durable
  <2>3. QED
    BY <1>0, <1>11, <2>1, <2>2 DEF TurnEffect, Finishes, f, t
<1>12. CASE OrderFailsFile(h)
  <2>1. Ready(h, "control_failed") /\ "control_failed" \in Outside /\ UNCHANGED lock
    BY <1>12 DEF OrderFailsFile, Outside
  <2>2. \/ task' = [task EXCEPT ![h] = Idle] /\ UNCHANGED allVars
        \/ /\ Persist /\ up' = up
           /\ task' = [task EXCEPT ![h].pc = "control_told", ![h].wait = n + 1, ![h].broke = FALSE]
    BY <1>12 DEF OrderFailsFile, Await, n
  <2>3. CASE task' = [task EXCEPT ![h] = Idle] /\ UNCHANGED allVars
    BY <1>3, <1>11, <2>1, <2>3
  <2>4. CASE /\ Persist /\ up' = up
             /\ task' = [task EXCEPT ![h].pc = "control_told", ![h].wait = n + 1, ![h].broke = FALSE]
    <3>1. Goes(h, "control_told", n + 1, FALSE)
      BY <1>0, <2>4, AwaitGoes DEF Outside
    <3>2. QED
      BY <1>0, <1>3, <2>1, <2>4, <3>1 DEF TurnEffect, Goes, f, t, n, Outside
  <2>5. QED
    BY <2>2, <2>3, <2>4
<1>13. CASE OrderTold(h)
  BY <1>3, <1>11, <1>13 DEF OrderTold, Outside
<1>14. QED
  BY <1>7, <1>8, <1>9, <1>10, <1>12, <1>13 DEF OrderStep

-----------------------------------------------------------------------------
(* The discipline of the lock *)

(* A handler in its turn is at the head of the chain of its file.           *)
LEMMA TurnIsHead ==
  ASSUME TurnInv, NEW h \in Tasks, InTurn(h), task[h].file \in Files
  PROVE  /\ Len(lock[task[h].file]) > 0 /\ lock[task[h].file][1] = h
         /\ task[h].pc \in {"lock"} \cup Working
<1>1. task[h].pc \in {"lock"} \cup Working
  BY DEF InTurn, Entered, Ready
<1>2. PICK i \in 1..Len(lock[task[h].file]) : lock[task[h].file][i] = h
  BY <1>1 DEF TurnInv, LockInv
<1>3. lock[task[h].file] \in Seq(Tasks)
  BY DEF TurnInv, LockInv
<1>4. Len(lock[task[h].file]) > 0 /\ lock[task[h].file] # <<>>
  BY <1>2, <1>3
<1>5. lock[task[h].file][1] = h
  <2>1. CASE task[h].pc \in Working
    BY <2>1 DEF TurnInv, LockInv
  <2>2. CASE Entered(h)
    BY <1>3, <1>4, <2>2 DEF Entered
  <2>3. QED
    BY <2>1, <2>2 DEF InTurn
<1>6. QED
  BY <1>1, <1>4, <1>5

LEMMA OneHandlerWorks ==
  ASSUME TurnInv, NEW h \in Tasks, NEW k \in Tasks, task[h].file \in Files,
         InTurn(h), InTurn(k), task[h].file = task[k].file
  PROVE  h = k
BY TurnIsHead

(* A snapshot that is taken waits at the end of the tail. *)
LEMMA SnapshotsWait ==
  ASSUME DurableInv, DurableInv', pending' = pending \/ Persist
  PROVE  /\ Len(pending) \in Nat /\ Len(pending') \in Nat /\ Len(pending) <= Len(pending')
         /\ Persist => /\ Len(pending') = Len(pending) + 1
                       /\ pending'[Len(pending) + 1] = Snapshot'
                       /\ \A i \in 1..Len(pending) : pending'[i] = pending[i]
<1>1. pending \in Seq(SnapshotType) /\ Len(pending) \in Nat
  BY DEF DurableInv
<1>2. ASSUME Persist
      PROVE  /\ Len(pending') = Len(pending) + 1
             /\ pending'[Len(pending) + 1] = Snapshot'
             /\ \A i \in 1..Len(pending) : pending'[i] = pending[i]
  <2> DEFINE s == Snapshot'
  <2>1. s \in SnapshotType
    BY MemoryIsLoadable DEF DurableInv, Loadable, CoreInv, TypeOK, Snapshot, SnapshotType
  <2>2. pending' = Append(pending, s)
    BY <1>2 DEF Persist
  <2> HIDE DEF s
  <2>3. /\ Len(pending') = Len(pending) + 1 /\ pending'[Len(pending) + 1] = s
        /\ \A i \in 1..Len(pending) : pending'[i] = pending[i]
    BY <1>1, <2>1, <2>2
  <2>4. QED
    BY <2>3 DEF s
<1>3. QED
  BY <1>1, <1>2

(* The types of the handlers when one of them moves. *)
LEMMA TurnKeepsTypes ==
  ASSUME DurableInv, DurableInv', TasksTyped, NEW h \in Tasks, TurnEffect(h)
  PROVE  TasksTyped'
<1> DEFINE n == Len(pending)
<1>1. n \in Nat /\ Len(pending') \in Nat /\ n <= Len(pending') /\ task'[h].wait <= Len(pending')
  <2>1. pending' = pending \/ Persist
    BY DEF TurnEffect
  <2>2. /\ n \in Nat /\ Len(pending') \in Nat /\ n <= Len(pending')
        /\ Persist => Len(pending') = n + 1
    BY <2>1, SnapshotsWait
  <2>3. QED
    BY <2>2 DEF TurnEffect
<1> HIDE DEF n
<1>2. /\ task' \in [Tasks -> Task] /\ \A k \in Tasks \ {h} : task'[k] = task[k]
      /\ task'[h].pc # "idle" => task'[h].file \in Files /\ task'[h].op # "none"
      /\ task'[h].pc \in PutPlaces => task'[h].op = "put"
      /\ task'[h].pc \in OrderPlaces => task'[h].op \in Orders
      /\ task'[h].op = "offer" => task'[h].pc \in {"idle"} \cup Outside
      /\ up' /\ up
  <2>1. /\ task' \in [Tasks -> Task] /\ \A k \in Tasks \ {h} : task'[k] = task[k]
        /\ task'[h].pc # "idle" => task'[h].file = task[h].file /\ task'[h].op = task[h].op
    BY DEF TurnEffect, Goes, Finishes, Idle
  <2>2. up' /\ up /\ task[h].pc # "idle"
    BY DEF TurnEffect
  <2>3. /\ task[h].file \in Files /\ task[h].op # "none"
        /\ task[h].op \in {"put", "offer"} \cup Orders
        /\ task[h].op = "offer" => task[h].pc \in Outside /\ ~InTurn(h)
    <3>1. Outside \cap ({"lock"} \cup Working) = {}
      BY DEF Working, PutPlaces, OrderPlaces, Finishing, Receiving, Ending, Outside
    <3>2. QED
      BY <2>2, <3>1 DEF TasksTyped, Task, InTurn, Entered, Ready
  <2>4. /\ task'[h].pc \in PutPlaces => task'[h].op = "put"
        /\ task'[h].pc \in OrderPlaces => task'[h].op \in Orders
        /\ task'[h].op = "offer" => task'[h].pc \in {"idle"} \cup Outside
    BY <2>1, <2>3
    DEF TurnEffect, PutPlaces, OrderPlaces, Outside, Finishing, Receiving, Ending
  <2>5. QED
    BY <2>1, <2>2, <2>3, <2>4
<1>3. ASSUME NEW k \in Tasks
      PROVE  /\ task'[k].pc # "idle" => task'[k].file \in Files /\ task'[k].op # "none"
             /\ task'[k].pc \in PutPlaces => task'[k].op = "put"
             /\ task'[k].pc \in OrderPlaces => task'[k].op \in Orders
             /\ task'[k].op = "offer" => task'[k].pc \in {"idle"} \cup Outside
             /\ task'[k].wait <= Len(pending')
  <2>1. CASE k = h
    BY <1>1, <1>2, <2>1
  <2>2. CASE k # h
    <3>1. task'[k] = task[k]
      BY <1>2, <2>2
    <3>2. /\ task[k].pc # "idle" => task[k].file \in Files /\ task[k].op # "none"
          /\ task[k].pc \in PutPlaces => task[k].op = "put"
          /\ task[k].pc \in OrderPlaces => task[k].op \in Orders
          /\ task[k].op = "offer" => task[k].pc \in {"idle"} \cup Outside
          /\ task[k].wait <= n /\ task[k].wait \in Nat
      BY DEF TasksTyped, Task, n
    <3>3. task[k].wait <= Len(pending')
      BY <1>1, <3>2
    <3>4. QED
      BY <3>1, <3>2, <3>3
  <2>3. QED
    BY <2>1, <2>2
<1>4. QED
  BY <1>2, <1>3 DEF TasksTyped


(* The chains of the locks when a handler works on, or leaves. *)
LEMMA TurnKeepsLocks ==
  ASSUME TurnInv, TasksTyped', NEW h \in Tasks, TurnEffect(h)
  PROVE  LockInv'
<1> DEFINE f == task[h].file
           l == lock[f]
           Holds(k, g) == \E i \in 1..Len(lock[g]) : lock[g][i] = k
           Inside == {"lock"} \cup Working
<1>1. /\ f \in Files /\ lock \in [Files -> Seq(Tasks)] /\ l \in Seq(Tasks)
      /\ \A k \in Tasks \ {h} : task'[k] = task[k]
      /\ \A g \in Files : \A i, j \in 1..Len(lock[g]) : lock[g][i] = lock[g][j] => i = j
      /\ \A g \in Files, k \in Tasks :
           Holds(k, g) <=> task[k].file = g /\ task[k].pc \in Inside
      /\ \A k \in Tasks : task[k].pc \in Working => lock[task[k].file][1] = k
      /\ \A k \in Tasks : task[k].pc # "idle" => task[k].file \in Files
  BY DEF TurnInv, LockInv, TurnEffect, Goes, Finishes, TasksTyped
<1>2. InTurn(h) => Len(l) > 0 /\ l[1] = h /\ task[h].pc \in Inside
  BY <1>1, TurnIsHead
<1>3. /\ "idle" \notin Inside /\ "lock" \notin Working /\ Outside \cap Inside = {}
      /\ \A pc : pc \in Inside <=> pc = "lock" \/ pc \in Working
  BY DEF Working, PutPlaces, OrderPlaces, Finishing, Receiving, Ending, Outside
<1>4. PutPlaces \subseteq Inside /\ OrderPlaces \subseteq Inside
  BY DEF Working
<1> HIDE DEF f, Inside
<1>5. CASE lock' = lock
  <2>1. /\ task[h].pc \in Inside <=> task'[h].pc \in Inside
        /\ task'[h].pc \in Inside => task'[h].file = f
        /\ task'[h].pc \in Working => l[1] = h
    <3>1. CASE InTurn(h)
      <4>1. lock # [lock EXCEPT ![f] = Tail(@)]
        <5>1. Len(Tail(l)) # Len(l)
          BY <1>1, <1>2, <3>1
        <5>2. QED
          BY <1>1, <5>1
      <4>2. task[h].pc \notin Outside
        BY <1>2, <1>3, <3>1
      <4>3. /\ task'[h].pc \in PutPlaces \/ task'[h].pc \in OrderPlaces
            /\ task'[h].file = f
        BY <1>5, <4>1, <4>2 DEF TurnEffect, f
      <4>4. QED
        BY <1>2, <1>4, <3>1, <4>3
    <3>2. CASE ~InTurn(h)
      <4>1. /\ task[h].pc \in Outside
            /\ task'[h].pc = "idle" \/ task'[h].pc \in Outside
        BY <3>2 DEF TurnEffect
      <4>2. task[h].pc \notin Inside /\ task'[h].pc \notin Inside
        BY <1>3, <4>1
      <4>3. task'[h].pc \notin Working
        BY <1>3, <4>2
      <4>4. QED
        BY <4>2, <4>3
    <3>3. QED
      BY <3>1, <3>2
  <2>2. \A g \in Files, k \in Tasks :
          Holds(k, g) <=> task'[k].file = g /\ task'[k].pc \in Inside
    BY <1>1, <2>1 DEF f
  <2>3. \A k \in Tasks : task'[k].pc \in Working => lock[task'[k].file][1] = k
    BY <1>1, <1>3, <2>1
  <2>4. QED
    BY <1>1, <1>5, <2>2, <2>3 DEF LockInv, Inside
<1>6. CASE lock' = [lock EXCEPT ![f] = Tail(@)] /\ lock' # lock
  <2>1. InTurn(h) /\ task'[h].pc \notin Inside
    BY <1>3, <1>6 DEF TurnEffect, f, Outside
  <2>2. /\ Len(l) > 0 /\ l[1] = h /\ Len(l) \in Nat
        /\ lock'[f] = Tail(l) /\ lock'[f] \in Seq(Tasks) /\ Len(lock'[f]) = Len(l) - 1
        /\ \A i \in 1..Len(lock'[f]) : lock'[f][i] = l[i + 1] /\ i + 1 \in 1..Len(l)
        /\ \A g \in Files \ {f} : lock'[g] = lock[g]
        /\ lock' \in [Files -> Seq(Tasks)]
    <3>1. Len(l) > 0 /\ l[1] = h /\ l # <<>> /\ Len(l) \in Nat
      BY <1>1, <1>2, <2>1
    <3>2. /\ Tail(l) \in Seq(Tasks) /\ Len(Tail(l)) = Len(l) - 1
          /\ \A i \in 1..(Len(l) - 1) : Tail(l)[i] = l[i + 1]
      BY <1>1, <3>1
    <3>3. /\ lock'[f] = Tail(l) /\ \A g \in Files \ {f} : lock'[g] = lock[g]
          /\ lock' \in [Files -> Seq(Tasks)]
      <4>1. lock' = [lock EXCEPT ![f] = Tail(l)]
        BY <1>6
      <4>2. /\ lock'[f] = Tail(l)
            /\ \A g \in Files \ {f} : lock'[g] = lock[g]
        BY <1>1, <4>1
      <4>3. lock' \in [Files -> Seq(Tasks)]
        BY <1>1, <3>2, <4>1
      <4>4. QED
        BY <4>2, <4>3
    <3>4. QED
      BY <3>1, <3>2, <3>3
  <2>3. ASSUME NEW i \in 1..Len(lock'[f]), NEW j \in 1..Len(lock'[f]),
               lock'[f][i] = lock'[f][j]
        PROVE  i = j
    <3>1. i + 1 \in 1..Len(l) /\ j + 1 \in 1..Len(l) /\ l[i + 1] = l[j + 1]
      BY <2>2, <2>3
    <3>2. i + 1 = j + 1
      BY <1>1, <3>1
    <3>3. QED
      BY <2>2, <3>2
  <2>4. ASSUME NEW k \in Tasks
        PROVE  (\E i \in 1..Len(lock'[f]) : lock'[f][i] = k) <=> Holds(k, f) /\ k # h
    <3>1. ASSUME NEW i \in 1..Len(lock'[f]), lock'[f][i] = k
          PROVE  Holds(k, f) /\ k # h
      <4>1. i + 1 \in 1..Len(l) /\ l[i + 1] = k /\ 1 \in 1..Len(l) /\ i + 1 # 1
        BY <2>2, <3>1
      <4>2. k # h
        BY <1>1, <2>2, <4>1
      <4>3. QED
        BY <4>1, <4>2
    <3>2. ASSUME NEW i \in 1..Len(l), l[i] = k, k # h
          PROVE  \E j \in 1..Len(lock'[f]) : lock'[f][j] = k
      <4>1. i # 1 /\ i - 1 \in 1..Len(lock'[f])
        BY <2>2, <3>2
      <4>2. lock'[f][i - 1] = k
        BY <2>2, <3>2, <4>1
      <4>3. QED
        BY <4>1, <4>2
    <3>3. QED
      BY <3>1, <3>2
  <2>5. \A g \in Files, k \in Tasks :
          (\E i \in 1..Len(lock'[g]) : lock'[g][i] = k)
            <=> task'[k].file = g /\ task'[k].pc \in Inside
    <3>1. ASSUME NEW k \in Tasks
          PROVE  (\E i \in 1..Len(lock'[f]) : lock'[f][i] = k)
                   <=> task'[k].file = f /\ task'[k].pc \in Inside
      BY <1>1, <2>1, <2>4
    <3>2. ASSUME NEW g \in Files \ {f}, NEW k \in Tasks
          PROVE  (\E i \in 1..Len(lock'[g]) : lock'[g][i] = k)
                   <=> task'[k].file = g /\ task'[k].pc \in Inside
      BY <1>1, <2>1, <2>2 DEF f
    <3>3. QED
      BY <3>1, <3>2
  <2>6. ASSUME NEW k \in Tasks, task'[k].pc \in Working
        PROVE  lock'[task'[k].file][1] = k
    <3>1. k # h /\ task'[k] = task[k] /\ task[k].pc \in Working
      BY <1>1, <1>3, <2>1, <2>6
    <3>2. lock[task[k].file][1] = k /\ task[k].file \in Files
      <4>1. task[k].pc # "idle"
        BY <1>3, <3>1
      <4>2. QED
        BY <1>1, <3>1, <4>1
    <3>3. task[k].file # f
      BY <2>2, <3>1, <3>2
    <3>4. QED
      BY <2>2, <3>1, <3>2, <3>3
  <2>7. \A g \in Files : \A i, j \in 1..Len(lock'[g]) : lock'[g][i] = lock'[g][j] => i = j
    <3>1. ASSUME NEW g \in Files \ {f}
          PROVE  \A i, j \in 1..Len(lock'[g]) : lock'[g][i] = lock'[g][j] => i = j
      <4>1. lock'[g] = lock[g] /\ g \in Files
        BY <2>2, <3>1
      <4>2. QED
        BY <1>1, <4>1
    <3>2. QED
      BY <2>3, <3>1
  <2>8. QED
    BY <2>2, <2>5, <2>6, <2>7 DEF LockInv, Inside
<1>7. QED
  BY <1>5, <1>6 DEF TurnEffect, f

(* A request joins the chain of its file. *)
LEMMA StartKeepsTurns ==
  ASSUME TurnInv, NEW h \in Tasks, NEW f \in Files, NEW op \in {"put"} \cup Orders,
         NEW offset \in Nat, Start(h, op, f, offset)
  PROVE  TurnInv'
<1> DEFINE u == [[[[Idle EXCEPT !.op = op] EXCEPT !.file = f] EXCEPT !.offset = offset]
                  EXCEPT !.pc = "lock"]
           l == lock[f]
           Holds(k, g) == \E i \in 1..Len(lock[g]) : lock[g][i] = k
           Inside == {"lock"} \cup Working
<1>1. /\ task[h].pc = "idle" /\ task' = [task EXCEPT ![h] = u]
      /\ lock' = [lock EXCEPT ![f] = Append(@, h)] /\ up /\ up' = up /\ pending' = pending
  BY DEF Start, allVars, durable
<1>2. u \in Task /\ u.op = op /\ u.file = f /\ u.pc = "lock" /\ u.wait = 0
  BY DEF Task, Idle
<1>3. op \notin {"none", "offer"} /\ "lock" \notin Working /\ "idle" \notin Inside
  BY UploadAssumption DEF Working, PutPlaces, OrderPlaces, Finishing, Receiving, Ending
<1>4. Working = PutPlaces \cup OrderPlaces
  BY DEF Working
<1> HIDE DEF u, Inside
<1>5. /\ task' \in [Tasks -> Task] /\ task'[h] = u
      /\ \A k \in Tasks \ {h} : task'[k] = task[k]
  BY <1>1, <1>2, OneTaskChanges DEF TurnInv
<1>6. TasksTyped'
  <2>1. Len(pending) \in Nat
    BY DEF TurnInv, TasksTyped
  <2>2. ASSUME NEW k \in Tasks
        PROVE  /\ task'[k].pc # "idle" => task'[k].file \in Files /\ task'[k].op # "none"
               /\ task'[k].pc \in PutPlaces => task'[k].op = "put"
               /\ task'[k].pc \in OrderPlaces => task'[k].op \in Orders
               /\ task'[k].op = "offer" => task'[k].pc \in {"idle"} \cup Outside
               /\ task'[k].wait <= Len(pending')
    <3>1. CASE k = h
      BY <1>1, <1>2, <1>3, <1>4, <1>5, <2>1, <3>1
    <3>2. CASE k # h
      BY <1>1, <1>5, <3>2 DEF TurnInv, TasksTyped
    <3>3. QED
      BY <3>1, <3>2
  <2>3. QED
    BY <1>1, <1>5, <2>2 DEF TasksTyped
<1>7. /\ lock \in [Files -> Seq(Tasks)] /\ l \in Seq(Tasks) /\ Len(l) \in Nat
      /\ \A g \in Files : \A i, j \in 1..Len(lock[g]) : lock[g][i] = lock[g][j] => i = j
      /\ \A g \in Files, k \in Tasks :
           Holds(k, g) <=> task[k].file = g /\ task[k].pc \in Inside
      /\ \A k \in Tasks : task[k].pc \in Working => lock[task[k].file][1] = k
      /\ \A k \in Tasks : task[k].pc # "idle" => task[k].file \in Files
  BY DEF TurnInv, LockInv, TasksTyped, Inside
<1>8. /\ lock' \in [Files -> Seq(Tasks)] /\ lock'[f] = Append(l, h)
      /\ Len(lock'[f]) = Len(l) + 1 /\ lock'[f][Len(l) + 1] = h
      /\ \A i \in 1..Len(l) : lock'[f][i] = l[i]
      /\ \A g \in Files \ {f} : lock'[g] = lock[g]
  BY <1>1, <1>7
<1>9. \A g \in Files : ~Holds(h, g)
  BY <1>1, <1>3, <1>7
<1>10. ASSUME NEW g \in Files
       PROVE  \A i, j \in 1..Len(lock'[g]) : lock'[g][i] = lock'[g][j] => i = j
  <2>1. CASE g = f
    <3>1. \A i \in 1..Len(l) : l[i] # h
      BY <1>9
    <3>2. \A i \in 1..Len(lock'[f]) : i \in 1..Len(l) \/ i = Len(l) + 1
      BY <1>7, <1>8
    <3>3. ASSUME NEW i \in 1..Len(lock'[f]), NEW j \in 1..Len(lock'[f]),
                 lock'[f][i] = lock'[f][j]
          PROVE  i = j
      <4>1. CASE i \in 1..Len(l) /\ j \in 1..Len(l)
        <5>1. l[i] = l[j]
          BY <1>8, <3>3, <4>1
        <5>2. QED
          BY <1>7, <4>1, <5>1
      <4>2. CASE i = Len(l) + 1 \/ j = Len(l) + 1
        BY <1>8, <3>1, <3>2, <3>3, <4>2, Zenon
      <4>3. QED
        BY <3>2, <4>1, <4>2
    <3>4. QED
      BY <2>1, <3>3
  <2>2. CASE g # f
    <3>1. lock'[g] = lock[g]
      BY <1>8, <2>2
    <3>2. QED
      BY <1>7, <3>1
  <2>3. QED
    BY <2>1, <2>2
<1>11. ASSUME NEW g \in Files, NEW k \in Tasks
       PROVE  (\E i \in 1..Len(lock'[g]) : lock'[g][i] = k)
                <=> task'[k].file = g /\ task'[k].pc \in Inside
  <2>1. (\E i \in 1..Len(lock'[g]) : lock'[g][i] = k) <=> Holds(k, g) \/ (g = f /\ k = h)
    <3>1. CASE g = f
      <4>1. \A i : i \in 1..Len(lock'[f]) <=> i \in 1..Len(l) \/ i = Len(l) + 1
        BY <1>7, <1>8
      <4>2. (\E i \in 1..Len(lock'[f]) : lock'[f][i] = k) <=> (\E i \in 1..Len(l) : l[i] = k) \/ h = k
        BY <1>8, <4>1, Zenon
      <4>3. QED
        BY <3>1, <4>2
    <3>2. CASE g # f
      <4>1. lock'[g] = lock[g]
        BY <1>8, <3>2
      <4>2. QED
        BY <3>2, <4>1
    <3>3. QED
      BY <3>1, <3>2
  <2>2. CASE k = h
    BY <1>2, <1>5, <1>9, <2>1, <2>2 DEF Inside
  <2>3. CASE k # h
    BY <1>5, <1>7, <2>1, <2>3
  <2>4. QED
    BY <2>2, <2>3
<1>12. ASSUME NEW k \in Tasks, task'[k].pc \in Working
       PROVE  lock'[task'[k].file][1] = k
  <2>1. k # h /\ task'[k] = task[k]
    BY <1>2, <1>3, <1>5, <1>12
  <2>2. lock[task[k].file][1] = k /\ task[k].pc \in Inside /\ task[k].file \in Files
    BY <1>3, <1>7, <1>12, <2>1 DEF Inside
  <2>3. Len(lock[task[k].file]) > 0
    <3>1. Holds(k, task[k].file)
      BY <1>7, <2>2
    <3>2. lock[task[k].file] \in Seq(Tasks)
      BY <1>7, <2>2
    <3>3. QED
      BY <3>1, <3>2
  <2>4. lock'[task[k].file][1] = lock[task[k].file][1]
    <3>1. CASE task[k].file = f
      <4>1. 1 \in 1..Len(l)
        BY <1>7, <2>3, <3>1
      <4>2. QED
        BY <1>8, <3>1, <4>1
    <3>2. CASE task[k].file # f
      BY <1>8, <2>2, <3>2
    <3>3. QED
      BY <3>1, <3>2
  <2>5. QED
    BY <2>1, <2>2, <2>4
<1>13. LockInv'
  BY <1>8, <1>10, <1>11, <1>12 DEF LockInv, Inside
<1>14. QED
  BY <1>6, <1>13 DEF TurnInv

(* A save that is made or rejects moves the waiting handlers up. *)
LEMMA SavesKeepTurns ==
  ASSUME DurableInv, TurnInv, pending # <<>>, pending' = Tail(pending), up' = up, lock' = lock,
         NEW r \in BOOLEAN, Waited(r)
  PROVE  TurnInv'
<1>1. Len(pending) \in Nat /\ Len(pending') = Len(pending) - 1
  BY DEF DurableInv
<1>2. ASSUME NEW k \in Tasks
      PROVE  /\ task'[k] \in Task /\ task'[k].pc = task[k].pc /\ task'[k].file = task[k].file
             /\ task'[k].op = task[k].op /\ task'[k].wait <= Len(pending')
  <2>1. task[k] \in Task /\ task[k].wait \in Nat /\ task[k].wait <= Len(pending)
    BY DEF TurnInv, TasksTyped, Task
  <2>2. CASE task[k].wait = 0
    <3>1. Len(pending') \in Nat
      <4>1. Len(pending) # 0
        BY DEF DurableInv
      <4>2. QED
        BY <1>1, <4>1
    <3>2. task'[k] = task[k]
      BY <2>2 DEF Waited
    <3>3. QED
      BY <2>1, <2>2, <3>1, <3>2
  <2>3. CASE task[k].wait # 0
    <3> DEFINE n == task[k].wait - 1
               b == r /\ task[k].wait = 1
               u == [[task[k] EXCEPT !.wait = n] EXCEPT !.broke = b]
    <3>1. n \in Nat /\ n <= Len(pending') /\ b \in BOOLEAN
      BY <1>1, <2>1, <2>3
    <3>5. task'[k] = u
      BY <2>3 DEF Waited
    <3> HIDE DEF n, b
    <3>2. /\ u \in Task /\ u.wait = n /\ u.pc = task[k].pc /\ u.file = task[k].file
          /\ u.op = task[k].op
      BY <2>1, <3>1 DEF Task
    <3> HIDE DEF u
    <3>3. QED
      BY <3>1, <3>2, <3>5
  <2>4. QED
    BY <2>2, <2>3
<1>3. task' \in [Tasks -> Task]
  <2>1. task' = [k \in Tasks |-> task'[k]]
    BY DEF Waited
  <2>2. QED
    BY <1>2, <2>1
<1>4. TasksTyped'
  BY <1>2, <1>3 DEF TurnInv, TasksTyped
<1>5. LockInv'
  <2>1. LockInv /\ lock' = lock
    BY DEF TurnInv
  <2>2. /\ lock' \in [Files -> Seq(Tasks)]
        /\ \A f \in Files : \A i, k \in 1..Len(lock'[f]) : lock'[f][i] = lock'[f][k] => i = k
    BY <2>1 DEF LockInv
  <2>3. ASSUME NEW f \in Files, NEW h \in Tasks
        PROVE  (\E i \in 1..Len(lock'[f]) : lock'[f][i] = h)
                 <=> task'[h].file = f /\ task'[h].pc \in {"lock"} \cup Working
    BY <1>2, <2>1 DEF LockInv
  <2>4. ASSUME NEW h \in Tasks, task'[h].pc \in Working
        PROVE  lock'[task'[h].file][1] = h
    BY <1>2, <2>1, <2>4 DEF LockInv
  <2>5. QED
    BY <2>2, <2>3, <2>4 DEF LockInv
<1>6. QED
  BY <1>4, <1>5 DEF TurnInv

(* A crash ends every handler. *)
LEMMA CrashKeepsTurns ==
  ASSUME task' = [h \in Tasks |-> Idle], lock' = [f \in Files |-> <<>>], pending' = <<>>
  PROVE  TurnInv'
<1>1. Idle.wait = 0 /\ Idle.pc = "idle"
  BY DEF Idle
<1>2. {"idle"} \cap ({"lock"} \cup Working) = {} /\ Working = PutPlaces \cup OrderPlaces
  BY DEF Working, PutPlaces, OrderPlaces, Finishing, Receiving, Ending
<1>3. TasksTyped'
  BY <1>1, <1>2, IdleIsTask DEF TasksTyped
<1>4. LockInv'
  BY <1>1, <1>2 DEF LockInv
<1>5. QED
  BY <1>3, <1>4 DEF TurnInv

(* What happens outside the handlers leaves them as they are. *)
LEMMA OthersKeepTurns ==
  ASSUME DurableInv, DurableInv', TurnInv, UNCHANGED <<task, lock>>, pending' = pending \/ Persist,
         ~up' => ~up
  PROVE  TurnInv'
<1>1. Len(pending) \in Nat /\ Len(pending') \in Nat /\ Len(pending) <= Len(pending')
  BY SnapshotsWait
<1>2. \A h \in Tasks : task[h].wait \in Nat
  BY DEF TurnInv, TasksTyped, Task
<1>3. TasksTyped'
  BY <1>1, <1>2 DEF TurnInv, TasksTyped
<1>4. LockInv'
  BY DEF TurnInv, LockInv
<1>5. QED
  BY <1>3, <1>4 DEF TurnInv

(* An offer without space is a handler outside the locks. *)
LEMMA OffersStayOutside ==
  ASSUME TasksTyped, NEW h \in Tasks, NEW f \in Files, OfferWithoutSpace(h, f)
  PROVE  /\ up /\ up' = up /\ disk' = disk
         /\ UNCHANGED <<lock, session, partial, copies, linked, told, failures>>
         /\ task[h].pc = "idle" /\ task' \in [Tasks -> Task]
         /\ \A k \in Tasks \ {h} : task'[k] = task[k]
         /\ task'[h].op = "offer" /\ task'[h].file = f /\ task'[h].pc \in Outside
         /\ ~task'[h].broke
         /\ \/ Fail(f) /\ Persist /\ task'[h].wait = Len(pending) + 1
            \/ UNCHANGED allVars /\ task'[h].wait = 0
<1> DEFINE n == Len(pending) + 1
           offer == [[Idle EXCEPT !.op = "offer"] EXCEPT !.file = f]
           told1 == [[offer EXCEPT !.pc = "control_told"] EXCEPT !.wait = n]
           waits == [offer EXCEPT !.pc = "control_failed"]
<1>1. n \in Nat
  BY DEF TasksTyped
<1>2. /\ told1 \in Task /\ told1.op = "offer" /\ told1.file = f /\ told1.pc \in Outside
      /\ told1.wait = n /\ ~told1.broke
  BY <1>1, IdleIsTask DEF Task, Idle, Outside
<1>3. /\ waits \in Task /\ waits.op = "offer" /\ waits.file = f /\ waits.pc \in Outside
      /\ waits.wait = 0 /\ ~waits.broke
  BY IdleIsTask DEF Task, Idle, Outside
<1>4. /\ up /\ up' = up /\ disk' = disk /\ task[h].pc = "idle"
      /\ UNCHANGED <<lock, session, partial, copies, linked, told, failures>>
  BY DEF OfferWithoutSpace, Unlocked, storage, allVars, durable
<1>5. \/ Fail(f) /\ Persist /\ task' = [task EXCEPT ![h] = told1]
      \/ UNCHANGED allVars /\ task' = [task EXCEPT ![h] = waits]
  BY DEF OfferWithoutSpace, Unlocked
<1> HIDE DEF told1, waits, n
<1>6. CASE Fail(f) /\ Persist /\ task' = [task EXCEPT ![h] = told1]
  <2>1. /\ task' \in [Tasks -> Task] /\ task'[h] = told1
        /\ \A k \in Tasks \ {h} : task'[k] = task[k]
    BY <1>2, <1>6, OneTaskChanges
  <2>2. QED
    BY <1>2, <1>4, <1>6, <2>1 DEF n
<1>7. CASE UNCHANGED allVars /\ task' = [task EXCEPT ![h] = waits]
  <2>1. /\ task' \in [Tasks -> Task] /\ task'[h] = waits
        /\ \A k \in Tasks \ {h} : task'[k] = task[k]
    BY <1>3, <1>7, OneTaskChanges
  <2>2. QED
    BY <1>3, <1>4, <1>7, <2>1
<1>8. QED
  BY <1>5, <1>6, <1>7

LEMMA OffersKeepTurns ==
  ASSUME DurableInv, DurableInv', TurnInv, NEW h \in Tasks, NEW f \in Files,
         OfferWithoutSpace(h, f)
  PROVE  TurnInv'
<1>1. /\ up' /\ lock' = lock /\ task[h].pc = "idle" /\ task' \in [Tasks -> Task]
      /\ \A k \in Tasks \ {h} : task'[k] = task[k]
      /\ task'[h].op = "offer" /\ task'[h].file = f /\ task'[h].pc \in Outside
      /\ \/ Persist /\ task'[h].wait = Len(pending) + 1
         \/ pending' = pending /\ task'[h].wait = 0
  BY OffersStayOutside DEF TurnInv, allVars, durable
<1>2. /\ Len(pending) \in Nat /\ Len(pending') \in Nat /\ Len(pending) <= Len(pending')
      /\ Persist => Len(pending') = Len(pending) + 1
  BY <1>1, SnapshotsWait
<1>3. /\ Outside \cap ({"lock"} \cup Working) = {} /\ "idle" \notin {"lock"} \cup Working
      /\ Working = PutPlaces \cup OrderPlaces
  BY DEF Working, PutPlaces, OrderPlaces, Finishing, Receiving, Ending, Outside
<1>4. TasksTyped'
  <2>1. ASSUME NEW k \in Tasks
        PROVE  /\ task'[k].pc # "idle" => task'[k].file \in Files /\ task'[k].op # "none"
               /\ task'[k].pc \in PutPlaces => task'[k].op = "put"
               /\ task'[k].pc \in OrderPlaces => task'[k].op \in Orders
               /\ task'[k].op = "offer" => task'[k].pc \in {"idle"} \cup Outside
               /\ task'[k].wait <= Len(pending')
    <3>1. CASE k = h
      BY <1>1, <1>2, <1>3, <3>1
    <3>2. CASE k # h
      <4>1. task[k].wait \in Nat
        BY DEF TurnInv, TasksTyped, Task
      <4>2. QED
        BY <1>1, <1>2, <3>2, <4>1 DEF TurnInv, TasksTyped
    <3>3. QED
      BY <3>1, <3>2
  <2>2. QED
    BY <1>1, <2>1 DEF TasksTyped
<1>5. LockInv'
  <2>1. /\ lock \in [Files -> Seq(Tasks)]
        /\ \A g \in Files : \A i, k \in 1..Len(lock[g]) : lock[g][i] = lock[g][k] => i = k
    BY DEF TurnInv, LockInv
  <2>2. ASSUME NEW g \in Files, NEW k \in Tasks
        PROVE  (\E i \in 1..Len(lock[g]) : lock[g][i] = k)
                 <=> task'[k].file = g /\ task'[k].pc \in {"lock"} \cup Working
    BY <1>1, <1>3 DEF TurnInv, LockInv
  <2>3. ASSUME NEW k \in Tasks, task'[k].pc \in Working
        PROVE  lock[task'[k].file][1] = k
    <3>1. k # h
      BY <1>1, <1>3, <2>3
    <3>2. QED
      BY <1>1, <2>3, <3>1 DEF TurnInv, LockInv
  <2>4. QED
    BY <1>1, <2>1, <2>2, <2>3 DEF LockInv
<1>6. QED
  BY <1>4, <1>5 DEF TurnInv

-----------------------------------------------------------------------------
(* What every run of the laptop has: a queue that recovers, and the lock.   *)
UploadInv == DurableInv /\ InFlightIsRecovered /\ TurnInv

LEMMA InitEstablishesUploadInv == UploadInit => UploadInv
<1> SUFFICES ASSUME UploadInit PROVE UploadInv
  OBVIOUS
<1>1. DurableInv
  BY InitEstablishesDurableInv DEF UploadInit
<1>2. InFlightIsRecovered
  BY DEF UploadInit, DurableInit, Init, NoFile, NewFile, InFlight, InFlightIsRecovered, Alive,
         AliveIn, Snapshot
<1>3. Idle.wait = 0 /\ Idle.pc = "idle" /\ pending = <<>>
  BY DEF Idle, UploadInit, DurableInit
<1>4. {"idle"} \cap ({"lock"} \cup Working) = {} /\ Working = PutPlaces \cup OrderPlaces
  BY DEF Working, PutPlaces, OrderPlaces, Finishing, Receiving, Ending
<1>5. task = [h \in Tasks |-> Idle] /\ lock = [f \in Files |-> <<>>]
  BY DEF UploadInit
<1>6. TasksTyped
  BY <1>3, <1>4, <1>5, IdleIsTask DEF TasksTyped
<1>7. LockInv
  BY <1>3, <1>4, <1>5 DEF LockInv
<1>8. QED
  BY <1>1, <1>2, <1>6, <1>7 DEF UploadInv, TurnInv

(* Outside the handlers a call changes the queue and takes a snapshot. *)
LEMMA UnlockedFrame ==
  ASSUME UnlockedStep
  PROVE  /\ up /\ up' = up /\ disk' = disk /\ UNCHANGED <<task, lock, copies, failures, session>>
         /\ pending' = pending \/ Persist
<1>1. ASSUME NEW t \in Transfers, Offer(t) \/ BatchOrder(t)
      PROVE  /\ up /\ up' = up /\ disk' = disk
             /\ UNCHANGED <<task, lock, copies, failures, session>>
             /\ pending' = pending \/ Persist
  BY <1>1 DEF Offer, BatchOrder, Unlocked, uploadVars
<1>2. ASSUME NEW f \in Files,
             OfferTells(f) \/ OfferRetries(f) \/ OfferRetried(f) \/ Resume(f)
      PROVE  /\ up /\ up' = up /\ disk' = disk
             /\ UNCHANGED <<task, lock, copies, failures, session>>
             /\ pending' = pending \/ Persist
  BY <1>2 DEF OfferTells, OfferRetries, OfferRetried, Resume, Unlocked, uploadVars,
              storage, allVars, durable
<1>3. ASSUME ActivateNext
      PROVE  /\ up /\ up' = up /\ disk' = disk
             /\ UNCHANGED <<task, lock, copies, failures, session>>
             /\ pending' = pending \/ Persist
  BY <1>3 DEF ActivateNext, ClaimBeginStep, Unlocked, uploadVars, durable
<1>4. QED
  BY <1>1, <1>2, <1>3 DEF UnlockedStep

LEMMA NextKeepsUploadInv ==
  ASSUME UploadInv, [UploadNext]_everything
  PROVE  UploadInv'
<1>1. [DurableNext]_allVars
  BY UploadStepsTheQueue DEF UploadInv, TurnInv
<1>2. DurableInv /\ DurableInv' /\ InFlightIsRecovered'
  BY <1>1, NextKeepsDurableInv, NextKeepsRecoverable DEF UploadInv
<1>3. TurnInv
  BY DEF UploadInv
<1>4. CASE StartTask
  <2>1. PICK h \in Tasks, f \in Files : StartPut(h, f) \/ \E op \in Orders : StartOrder(h, op, f)
    BY <1>4 DEF StartTask
  <2>2. Size[f] \in Nat
    BY QueueAssumption
  <2>3. TurnInv'
    <3>1. ASSUME StartPut(h, f) PROVE TurnInv'
      <4>1. PICK offset \in 0..Size[f] : Start(h, "put", f, offset)
        BY <3>1 DEF StartPut
      <4>2. offset \in Nat
        BY <2>2
      <4>3. QED
        BY <1>3, <4>1, <4>2, StartKeepsTurns
    <3>2. ASSUME NEW op \in Orders, StartOrder(h, op, f) PROVE TurnInv'
      <4>1. Start(h, op, f, 0) /\ op \in {"put"} \cup Orders /\ 0 \in Nat
        BY <3>2 DEF StartOrder
      <4>2. QED
        BY <1>3, <4>1, StartKeepsTurns
    <3>3. QED
      BY <2>1, <3>1, <3>2
  <2>4. QED
    BY <1>2, <2>3 DEF UploadInv
<1>5. ASSUME NEW h \in Tasks, HandlerStep(h) PROVE UploadInv'
  <2>1. TurnEffect(h)
    BY <1>2, <1>3, <1>5, PutTurns, OrderTurns DEF HandlerStep, TurnInv
  <2>2. TasksTyped'
    BY <1>2, <1>3, <2>1, TurnKeepsTypes DEF TurnInv
  <2>3. LockInv'
    BY <1>3, <2>1, <2>2, TurnKeepsLocks
  <2>4. QED
    BY <1>2, <2>2, <2>3 DEF UploadInv, TurnInv
<1>6. CASE UnlockedStep
  BY <1>2, <1>3, <1>6, UnlockedFrame, OthersKeepTurns DEF UploadInv
<1>7. CASE SaveStep \/ SaveRejects
  <2>1. /\ pending # <<>> /\ pending' = Tail(pending) /\ up' = up /\ lock' = lock
        /\ Waited(TRUE) \/ Waited(FALSE)
    BY <1>7 DEF SaveStep, SaveRejects, Save, SaveFails
  <2>2. TurnInv'
    BY <1>2, <1>3, <2>1, SavesKeepTurns
  <2>3. QED
    BY <1>2, <2>2 DEF UploadInv
<1>8. CASE CrashStep
  BY <1>2, <1>8, CrashKeepsTurns DEF CrashStep, Crash, UploadInv
<1>9. ASSUME NEW kept, Restart \/ RestartInterrupted(kept) PROVE UploadInv'
  BY <1>2, <1>3, <1>9, OthersKeepTurns
  DEF Restart, RestartInterrupted, Reopen, ReopenInterrupted, UploadInv
<1>10. CASE UNCHANGED everything
  BY <1>2, <1>3, <1>10, OthersKeepTurns DEF everything, allVars, durable, uploadVars, UploadInv
<1>11. ASSUME NEW h \in Tasks, NEW f \in Files, OfferWithoutSpace(h, f) PROVE UploadInv'
  BY <1>2, <1>3, <1>11, OffersKeepTurns DEF UploadInv
<1>12. QED
  BY <1>4, <1>5, <1>6, <1>7, <1>8, <1>9, <1>10, <1>11 DEF UploadNext

(* The types of the handlers, the chains of their locks and a queue that    *)
(* can recover hold for any handlers, saves that reject and restarts.       *)
THEOREM UploadInvariant == UploadSpec => []UploadInv
<1>1. UploadInv /\ [UploadNext]_everything => UploadInv'
  BY NextKeepsUploadInv
<1>2. QED
  BY <1>1, InitEstablishesUploadInv, PTL DEF UploadSpec

(* The laptop's queue under the handlers, the coordinator and their saves   *)
(* is the durable queue of DurableQueue: what holds of it holds here.       *)
THEOREM UploadsImplementQueue == UploadSpec => DurableSpec
<1>1. UploadInit => DurableInit
  BY DEF UploadInit
<1>2. UploadInv /\ [UploadNext]_everything => [DurableNext]_allVars
  BY UploadStepsTheQueue DEF UploadInv, TurnInv
<1>3. QED
  BY <1>1, <1>2, UploadInvariant, PTL DEF UploadSpec, DurableSpec

(* runExclusive: a PUT and the controls of its file never work on the file  *)
(* at the same time, whatever they await in between.                        *)
THEOREM OneHandlerAtATime == UploadSpec => []OneHandlerPerFile
<1>1. Working \subseteq PutPlaces \cup OrderPlaces /\ "idle" \notin Working
  BY DEF Working, PutPlaces, OrderPlaces, Finishing, Receiving, Ending
<1>2. UploadInv => OneHandlerPerFile
  BY <1>1, OneHandlerWorks DEF UploadInv, OneHandlerPerFile, InTurn, TurnInv, TasksTyped
<1>3. QED
  BY <1>2, UploadInvariant, PTL

-----------------------------------------------------------------------------
(* What the calls of the handlers do to the files *)

Becomes(f, status) ==
  /\ file'[f].status = status
  /\ \A g \in Files \ {f} : file'[g] = file[g]

LEMMA CallsOfHandlers ==
  ASSUME CoreInv, NEW f \in Files
  PROVE  /\ \A offset : ConfirmProgress(f, offset) =>
              file[f].status = "active" /\ Becomes(f, "active")
         /\ BeginVerification(f) => file[f].status = "active" /\ Becomes(f, "verifying")
         /\ BeginFinalization(f) =>
              file[f].status \in {"verifying", "finalizing"} /\ Becomes(f, "finalizing")
         /\ Complete(f) => file[f].status \in InFlight /\ Becomes(f, "completed")
         /\ Fail(f) => file[f].status \notin TerminalFile /\ Becomes(f, "failed")
         /\ PauseFile(f) => \/ file[f].status \in {"queued", "active"} /\ Becomes(f, "paused")
                            \/ Becomes(f, file[f].status)
         /\ CancelFile(f) => \/ file[f].status \notin TerminalFile /\ Becomes(f, "cancelled")
                             \/ file[f].status \in TerminalFile /\ Becomes(f, file[f].status)
<1>1. file \in [Files -> FileRecord] /\ file[f] \in FileRecord
  BY DEF CoreInv, TypeOK
<1>2. ASSUME NEW u, NEW status, u.status = status, file' = [file EXCEPT ![f] = u]
      PROVE  Becomes(f, status)
  BY <1>1, <1>2 DEF Becomes
<1>3. ASSUME NEW offset, ConfirmProgress(f, offset)
      PROVE  file[f].status = "active" /\ Becomes(f, "active")
  BY <1>1, <1>2, <1>3 DEF ConfirmProgress, Advance, FileRecord
<1>4. ASSUME BeginVerification(f)
      PROVE  file[f].status = "active" /\ Becomes(f, "verifying")
  BY <1>1, <1>2, <1>4 DEF BeginVerification, SettleFile, Settle, FileRecord
<1>5. ASSUME BeginFinalization(f)
      PROVE  file[f].status \in {"verifying", "finalizing"} /\ Becomes(f, "finalizing")
  BY <1>1, <1>2, <1>5 DEF BeginFinalization, SettleFile, Settle, FileRecord
<1>6. ASSUME Complete(f)
      PROVE  file[f].status \in InFlight /\ Becomes(f, "completed")
  BY <1>1, <1>2, <1>6 DEF Complete, SettleFile, Settle, FileRecord
<1>7. ASSUME Fail(f)
      PROVE  file[f].status \notin TerminalFile /\ Becomes(f, "failed")
  BY <1>1, <1>2, <1>7 DEF Fail, SettleFile, Settle, FileRecord
<1>8. ASSUME PauseFile(f)
      PROVE  \/ file[f].status \in {"queued", "active"} /\ Becomes(f, "paused")
             \/ Becomes(f, file[f].status)
  <2>1. CASE file[f].status \in {"queued", "active"}
    <3>1. file' = [file EXCEPT ![f] = [file[f] EXCEPT !.status = "paused"]]
      BY <1>8, <2>1 DEF PauseFile, SettleFile, Settle
    <3>2. QED
      BY <1>1, <1>2, <2>1, <3>1 DEF FileRecord
  <2>2. CASE file[f].status \notin {"queued", "active"}
    BY <1>1, <1>8, <2>2 DEF PauseFile, SettleFile, Settle, Becomes
  <2>3. QED
    BY <2>1, <2>2
<1>9. ASSUME CancelFile(f)
      PROVE  \/ file[f].status \notin TerminalFile /\ Becomes(f, "cancelled")
             \/ file[f].status \in TerminalFile /\ Becomes(f, file[f].status)
  <2>1. CASE file[f].status \notin TerminalFile
    <3>1. file' = [file EXCEPT ![f] = [file[f] EXCEPT !.status = "cancelled"]]
      BY <1>9, <2>1 DEF CancelFile, SettleFile, Settle
    <3>2. QED
      BY <1>1, <1>2, <2>1, <3>1 DEF FileRecord
  <2>2. CASE file[f].status \in TerminalFile
    BY <1>1, <1>9, <2>2 DEF CancelFile, SettleFile, Settle, Becomes
  <2>3. QED
    BY <2>1, <2>2
<1>10. QED
  BY <1>3, <1>4, <1>5, <1>6, <1>7, <1>8, <1>9

(* Without the lock no file is verified, finalized or completed; a file     *)
(* that failed or completed stays so, and one that is finalized fails at    *)
(* most, unless the whole batch is cancelled.                               *)
LEMMA UnlockedCalls ==
  ASSUME CoreInv, UnlockedStep, NEW g \in Files
  PROVE  /\ file'[g].status \in {"verifying", "finalizing", "completed"} => file'[g] = file[g]
         /\ ~BatchOrders /\ file[g].status \in Fin => file'[g].status \in Fin
<1> DEFINE Result == /\ file'[g].status \in {"verifying", "finalizing", "completed"} =>
                          file'[g] = file[g]
                     /\ ~BatchOrders /\ file[g].status \in Fin => file'[g].status \in Fin
<1>1. file \in [Files -> FileRecord] /\ file[g] \in FileRecord
  BY DEF CoreInv, TypeOK
<1>2. CASE file'[g] = file[g]
  BY <1>2
<1>3. ASSUME NEW t \in Transfers, NEW From, NEW to, Settle(t, Moved(t, From, to)) \/ file' = Moved(t, From, to),
             BatchOrders, to \notin {"verifying", "finalizing", "completed"}
      PROVE  Result
  <2>1. file'[g] = file[g] \/ file'[g] = [file[g] EXCEPT !.status = to]
    BY <1>3 DEF Settle, Moved
  <2>2. QED
    BY <1>1, <1>3, <2>1 DEF FileRecord
<1>4. ASSUME NEW t \in Transfers, Offer(t) PROVE Result
  <2>1. ~Known(t) /\ file' = [f \in Files |-> IF Owner[f] = t THEN NewFile ELSE file[f]]
    BY <1>4 DEF Offer, Unlocked, AcceptOffer, AddBatch
  <2>2. CASE Owner[g] = t
    <3>1. file[g].status = "absent" /\ file'[g] = NewFile
      BY <2>1, <2>2 DEF CoreInv, KnownTogether, Known
    <3>2. QED
      BY <3>1 DEF NewFile, Fin, Ended
  <2>3. CASE Owner[g] # t
    BY <1>2, <2>1, <2>3
  <2>4. QED
    BY <2>2, <2>3
<1>5. ASSUME NEW t \in Transfers, BatchOrder(t) PROVE Result
  <2>1. BatchOrders /\ (CancelBatch(t) \/ PauseBatch(t))
    BY <1>5 DEF BatchOrder, Unlocked
  <2>2. QED
    BY <1>3, <2>1 DEF CancelBatch, PauseBatch
<1>6. ASSUME NEW f \in Files, OfferTells(f) PROVE Result
  BY <1>2, <1>6 DEF OfferTells, allVars, vars
<1>7. ASSUME NEW f \in Files, file[f].status = "cancelled", RetryBegin(f) PROVE Result
  <2>1. file'[f] = NewFile /\ \A k \in Files \ {f} : file'[k] = file[k]
    BY <1>1, <1>7 DEF RetryBegin
  <2>2. QED
    BY <1>2, <1>7, <2>1 DEF NewFile, Fin, Ended
<1>8. ASSUME NEW f \in Files, RetryEnd(f) PROVE Result
  BY <1>2, <1>8 DEF RetryEnd, Settle
<1>9. ASSUME NEW f \in Files, ResumeFile(f) PROVE Result
  <2> DEFINE u == IF file[f].status = "paused" THEN [file[f] EXCEPT !.status = "queued"] ELSE file[f]
  <2>1. file'[f] = u /\ \A k \in Files \ {f} : file'[k] = file[k]
    BY <1>1, <1>9 DEF ResumeFile, SettleFile, Settle
  <2>2. u = file[f] \/ (u.status = "queued" /\ file[f].status = "paused")
    BY <1>1 DEF FileRecord, CoreInv, TypeOK
  <2> HIDE DEF u
  <2>3. QED
    BY <1>2, <2>1, <2>2 DEF Fin, Ended
<1>10. ASSUME NEW f \in Files, ClaimFile(f) PROVE Result
  <2> DEFINE u == [file[f] EXCEPT !.status = "active"]
  <2>1. /\ file'[f] = u /\ \A k \in Files \ {f} : file'[k] = file[k]
        /\ file[f].status = "queued"
    BY <1>1, <1>10 DEF ClaimFile, IsNext
  <2>2. u.status = "active"
    BY <1>1 DEF FileRecord, CoreInv, TypeOK
  <2> HIDE DEF u
  <2>3. QED
    BY <1>2, <2>1, <2>2 DEF Fin, Ended
<1>11. ASSUME ClaimBegin PROVE Result
  <2> DEFINE u == [file[g] EXCEPT !.status = "failed"]
  <2>1. file'[g] = file[g] \/ file'[g] = u
    BY <1>11 DEF ClaimBegin, Expire
  <2>2. u.status = "failed"
    BY <1>1 DEF FileRecord
  <2> HIDE DEF u
  <2>3. QED
    BY <1>2, <2>1, <2>2 DEF Fin, Ended
<1>12. CASE ClaimNothing
  BY <1>2, <1>12 DEF ClaimNothing
<1>13. QED
  BY <1>4, <1>5, <1>6, <1>7, <1>8, <1>9, <1>10, <1>11, <1>12
  DEF UnlockedStep, OfferTells, OfferRetries, OfferRetried, Resume, ActivateNext,
      ClaimBeginStep, Unlocked

(* An offer without space fails its file at most. *)
LEMMA OfferCalls ==
  ASSUME CoreInv, TasksTyped, NEW h \in Tasks, NEW f \in Files, OfferWithoutSpace(h, f),
         NEW g \in Files
  PROVE  \/ file'[g] = file[g]
         \/ g = f /\ file[g].status \notin TerminalFile /\ file'[g].status = "failed"
<1>1. Fail(f) \/ UNCHANGED allVars
  BY OffersStayOutside
<1>2. Fail(f) => file[f].status \notin TerminalFile /\ Becomes(f, "failed")
  BY CallsOfHandlers
<1>3. QED
  BY <1>1, <1>2 DEF Becomes, allVars, vars

-----------------------------------------------------------------------------
(* What a step of a handler does to its file *)

At(h, pc) == task'[h].pc = pc /\ (task'[h].broke => task[h].broke)

LEMMA WhereHandlersGo ==
  ASSUME TasksTyped, NEW h \in Tasks, NEW pc \in {"idle", "lock"} \cup Working \cup Outside
  PROVE  /\ Goto(h, pc) => At(h, pc)
         /\ \A n \in Nat :
              task' = [task EXCEPT ![h].pc = pc, ![h].wait = n, ![h].broke = FALSE] => At(h, pc)
         /\ Leave(h) => At(h, "idle")
         /\ task' = [task EXCEPT ![h] = Idle] => At(h, "idle")
         /\ OrderFails(h) => At(h, "idle") \/ At(h, "control_failed")
<1>1. Idle.pc = "idle" /\ ~Idle.broke
  BY DEF Idle
<1>2. task' = [task EXCEPT ![h] = Idle] => At(h, "idle")
  BY <1>1, IdleFinishes DEF Finishes, At
<1>3. Goto(h, pc) => At(h, pc)
  BY GotoGoes DEF Goes, At
<1>4. ASSUME NEW n \in Nat,
             task' = [task EXCEPT ![h].pc = pc, ![h].wait = n, ![h].broke = FALSE]
      PROVE  At(h, pc)
  <2>1. Goes(h, pc, n, FALSE)
    BY <1>4, AwaitGoes
  <2>2. QED
    BY <2>1 DEF Goes, At
<1>5. OrderFails(h) => At(h, "idle") \/ At(h, "control_failed")
  BY <1>1, ErrorGoes DEF Finishes, Goes, At
<1>6. QED
  BY <1>2, <1>3, <1>4, <1>5 DEF Leave

HandlerEffect(h) ==
  LET f == task[h].file
      p == task[h].pc
      q == task'[h].pc
      s == file[f].status
      u == file'[f].status
  IN  /\ task'[h].broke => task[h].broke
      /\ failures' = failures /\ disk' = disk
      /\ \A g \in Files \ {f} : file'[g] = file[g]
      /\ u \in {"verifying", "finalizing"} =>
           \/ q \in Finishing
           \/ task[h].broke
           \/ u = s /\ p \notin Finishing
      /\ u = "completed" => s = "completed" \/ (p = "complete" /\ q = "completed")
      /\ q = "completed" => u = "completed" /\ Persist
      /\ q \in Incomplete => p \in Incomplete \/ s = "active" \/ task[h].broke
      /\ s \in Ended => u = s
      /\ s \in Fin => u \in Fin \/ p \in OrderPlaces

(* A step that leaves the queue alone. *)
LEMMA QuietHandlerEffect ==
  ASSUME NEW h \in Tasks, UNCHANGED <<allVars, failures>>, NEW q, At(h, q), q # "completed",
         task[h].pc \in Finishing =>
           \/ q \in Finishing
           \/ task[h].broke
           \/ file[task[h].file].status \notin {"verifying", "finalizing"},
         q \in Incomplete =>
           \/ task[h].pc \in Incomplete
           \/ file[task[h].file].status = "active"
           \/ task[h].broke
  PROVE  HandlerEffect(h)
<1>1. file' = file /\ disk' = disk /\ failures' = failures
  BY DEF allVars, vars, durable
<1>2. QED
  BY <1>1 DEF HandlerEffect, At

(* A step that fails the file. *)
LEMMA FailingHandlerEffect ==
  ASSUME CoreInv, NEW h \in Tasks, task[h].file \in Files, Fail(task[h].file),
         disk' = disk, failures' = failures,
         NEW q, At(h, q), q # "completed", q \notin Incomplete
  PROVE  HandlerEffect(h)
<1>1. /\ file[task[h].file].status \notin TerminalFile
      /\ Becomes(task[h].file, "failed")
  BY CallsOfHandlers
<1>2. QED
  BY <1>1 DEF HandlerEffect, At, Becomes, Ended, Fin, TerminalFile

LEMMA PutEffect ==
  ASSUME DurableInv, TasksTyped, NEW h \in Tasks, PutStep(h)
  PROVE  HandlerEffect(h)
<1> DEFINE f == task[h].file
           s == file[f].status
           p == task[h].pc
           n == Len(pending) + 1
           Places == {"idle", "lock"} \cup Working \cup Outside
<1>0. n \in Nat /\ CoreInv
  BY DEF DurableInv
<1>1. ASSUME NEW pc, Ready(h, pc), pc # "idle" PROVE p = pc /\ f \in Files
  BY <1>1 DEF Ready, TasksTyped
<1>2. Finishing \cup Receiving \cup Ending \cup Incomplete \subseteq Places
  BY DEF Incomplete, Working, PutPlaces, Receiving
<1>3. /\ "completed" \notin Incomplete /\ "idle" \notin Incomplete /\ "completed" \notin Finishing
      /\ \A pc \in {"missing", "mismatched", "caught"} : pc \in Places /\ pc \notin Incomplete
      /\ Finishing \subseteq Incomplete /\ Receiving \subseteq Incomplete
      /\ Receiving \cap Finishing = {} /\ Ending \cap Finishing = {}
  BY DEF Incomplete, Finishing, Working, PutPlaces, Receiving, Ending
<1>4. ASSUME NEW pc \in Places, Goto(h, pc) PROVE At(h, pc)
  BY <1>4, WhereHandlersGo DEF Places
<1>5. ASSUME NEW pc \in Places,
             task' = [task EXCEPT ![h].pc = pc, ![h].wait = n, ![h].broke = FALSE]
      PROVE  At(h, pc)
  BY <1>0, <1>5, WhereHandlersGo DEF Places
<1>6. ASSUME Leave(h) PROVE At(h, "idle")
  BY <1>6, WhereHandlersGo
<1>7. TerminalFile \cap {"verifying", "finalizing"} = {}
  BY DEF TerminalFile
<1> HIDE DEF f, s, p, n, Places
<1>8. ASSUME UNCHANGED <<allVars, failures>>, Leave(h),
             p \in Finishing => s \notin {"verifying", "finalizing"} \/ task[h].broke
      PROVE  HandlerEffect(h)
  BY <1>3, <1>6, <1>8, QuietHandlerEffect DEF s, f, p
<1>9. ASSUME UNCHANGED <<allVars, failures>>, NEW pc \in Places, Goto(h, pc), pc # "completed",
             p \in Finishing => pc \in Finishing,
             pc \in Incomplete => p \in Incomplete \/ s = "active" \/ task[h].broke
      PROVE  HandlerEffect(h)
  BY <1>4, <1>9, QuietHandlerEffect DEF s, f, p
<1>10. ASSUME f \in Files, Fail(f), disk' = disk, failures' = failures,
              NEW pc \in {"missing", "mismatched", "caught"},
              task' = [task EXCEPT ![h].pc = pc, ![h].wait = n, ![h].broke = FALSE]
       PROVE  HandlerEffect(h)
  <2>1. At(h, pc) /\ pc # "completed" /\ pc \notin Incomplete
    BY <1>3, <1>5, <1>10
  <2>2. QED
    BY <1>0, <1>10, <2>1, FailingHandlerEffect DEF f
<1>11. CASE PutEnter(h)
  <2>1. /\ UNCHANGED <<allVars, failures>>
        /\ (Goto(h, "read") /\ s = "active") \/ Leave(h)
        /\ p = "lock"
    BY <1>11 DEF PutEnter, Entered, Ready, s, f, p
  <2>2. "read" \in Places /\ "lock" \notin Finishing
    BY <1>2 DEF Receiving, Finishing
  <2>3. QED
    BY <1>8, <1>9, <2>1, <2>2
<1>12. CASE PutRefuse(h) \/ PutBreaksOff(h)
  <2>1. UNCHANGED <<allVars, failures>> /\ Leave(h) /\ p \in {"read", "opened", "written"}
    BY <1>1, <1>12 DEF PutRefuse, PutBreaksOff
  <2>2. p \notin Finishing
    BY <2>1 DEF Finishing
  <2>3. QED
    BY <1>8, <2>1, <2>2
<1>13. CASE PutOpen(h)
  BY <1>1, <1>2, <1>3, <1>9, <1>13 DEF PutOpen, Receiving
<1>14. ASSUME NEW due \in BOOLEAN, PutWrite(h, due) PROVE HandlerEffect(h)
  <2>1. UNCHANGED <<allVars, failures>> /\ p = "opened"
    BY <1>1, <1>14 DEF PutWrite
  <2>2. At(h, "written")
    <3> DEFINE u == [[task[h] EXCEPT !.pc = "written"] EXCEPT !.due = due]
    <3>1. task' = [task EXCEPT ![h] = u] /\ task \in [Tasks -> Task]
      BY <1>14 DEF PutWrite, TasksTyped
    <3>2. u.pc = "written" /\ u.broke = task[h].broke
      BY <3>1 DEF Task
    <3> HIDE DEF u
    <3>3. task'[h] = u
      BY <3>1
    <3>4. QED
      BY <3>2, <3>3 DEF At
  <2>3. p \in Incomplete /\ p \notin Finishing
    BY <2>1 DEF Incomplete, Finishing
  <2>4. QED
    BY <2>1, <2>2, <2>3, QuietHandlerEffect DEF s, f, p
<1>15. CASE PutFindsNoPartial(h)
  <2>1. p = "read" /\ f \in Files
    BY <1>1, <1>15 DEF PutFindsNoPartial
  <2>2. \/ Leave(h) /\ UNCHANGED <<allVars, failures>>
        \/ /\ Fail(f) /\ disk' = disk /\ failures' = failures
           /\ task' = [task EXCEPT ![h].pc = "missing", ![h].wait = n, ![h].broke = FALSE]
    BY <1>15 DEF PutFindsNoPartial, Announce, Await, f, n
  <2>3. p \notin Finishing
    BY <2>1 DEF Finishing
  <2>4. QED
    BY <1>8, <1>10, <2>1, <2>2, <2>3
<1>16. CASE PutConfirm(h)
  <2>1. p = "written" /\ f \in Files
    BY <1>1, <1>16 DEF PutConfirm
  <2>2. p \notin Finishing /\ p \in Incomplete /\ "confirmed" \in Places /\ "verified" \in Places
        /\ "verified" \in Finishing /\ "confirmed" \in Incomplete
    BY <1>2, <2>1 DEF Finishing, Incomplete, Receiving
  <2>3. \/ Leave(h) /\ UNCHANGED <<allVars, failures>>
        \/ /\ BeginVerification(f) /\ disk' = disk /\ failures' = failures
           /\ task' = [task EXCEPT ![h].pc = "verified", ![h].wait = n, ![h].broke = FALSE]
        \/ /\ ConfirmProgress(f, End(h)) /\ disk' = disk /\ failures' = failures
           /\ task' = [task EXCEPT ![h].pc = "confirmed", ![h].wait = n, ![h].broke = FALSE]
    BY <1>16 DEF PutConfirm, Await, f, n
  <2>4. CASE /\ BeginVerification(f) /\ disk' = disk /\ failures' = failures
             /\ task' = [task EXCEPT ![h].pc = "verified", ![h].wait = n, ![h].broke = FALSE]
    <3>1. At(h, "verified") /\ s = "active" /\ Becomes(f, "verifying")
      BY <1>0, <1>5, <2>1, <2>2, <2>4, CallsOfHandlers DEF s
    <3>2. QED
      BY <2>2, <2>4, <3>1 DEF HandlerEffect, At, Becomes, Ended, Fin, s, f, p
  <2>5. CASE /\ ConfirmProgress(f, End(h)) /\ disk' = disk /\ failures' = failures
             /\ task' = [task EXCEPT ![h].pc = "confirmed", ![h].wait = n, ![h].broke = FALSE]
    <3>1. At(h, "confirmed") /\ s = "active" /\ Becomes(f, "active")
      BY <1>0, <1>5, <2>1, <2>2, <2>5, CallsOfHandlers DEF s
    <3>2. QED
      BY <2>2, <2>5, <3>1 DEF HandlerEffect, At, Becomes, Ended, Fin, s, f, p
  <2>6. QED
    BY <1>8, <2>2, <2>3, <2>4, <2>5
<1>17. CASE PutConfirmed(h)
  <2>1. p = "confirmed" /\ Leave(h) /\ UNCHANGED <<allVars, failures>>
    BY <1>1, <1>17 DEF PutConfirmed
  <2>2. QED
    BY <1>8, <2>1 DEF Finishing
<1>18. CASE PutVerified(h)
  <2>1. /\ p = "verified" /\ UNCHANGED <<allVars, failures>>
        /\ \/ task[h].broke /\ Leave(h)
           \/ Goto(h, "hash")
    BY <1>1, <1>18 DEF PutVerified
  <2>2. "hash" \in Finishing /\ p \in Finishing /\ p \in Incomplete /\ "hash" \in Places
        /\ "hash" # "completed"
    BY <1>2, <2>1 DEF Finishing, Incomplete
  <2>3. QED
    BY <1>8, <1>9, <2>1, <2>2
<1>19. CASE PutHash(h)
  <2>1. p = "hash" /\ UNCHANGED <<allVars, failures>> /\ (Goto(h, "name") \/ Goto(h, "catch"))
    BY <1>1, <1>19 DEF PutHash
  <2>2. {p, "name", "catch"} \subseteq Finishing
    BY <2>1 DEF Finishing
  <2>3. QED
    BY <1>2, <1>3, <1>9, <2>1, <2>2
<1>20. CASE PutHashMismatch(h)
  <2>1. p = "hash" /\ f \in Files
    BY <1>1, <1>20 DEF PutHashMismatch
  <2>2. \/ Leave(h) /\ UNCHANGED <<allVars, failures>> /\ s \in TerminalFile
        \/ /\ Fail(f) /\ disk' = disk /\ failures' = failures
           /\ task' = [task EXCEPT ![h].pc = "mismatched", ![h].wait = n, ![h].broke = FALSE]
    BY <1>20 DEF PutHashMismatch, Announce, Await, Terminal, f, n, s
  <2>3. QED
    BY <1>7, <1>8, <1>10, <2>1, <2>2
<1>21. CASE PutName(h)
  <2>1. p = "name" /\ f \in Files
    BY <1>1, <1>21 DEF PutName
  <2>2. {p, "link", "catch"} \subseteq Finishing
    BY <2>1 DEF Finishing
  <2>3. \/ Goto(h, "catch") /\ UNCHANGED <<allVars, failures>>
        \/ /\ BeginFinalization(f) /\ disk' = disk /\ failures' = failures
           /\ task' = [task EXCEPT ![h].pc = "link", ![h].wait = n, ![h].broke = FALSE]
    BY <1>21 DEF PutName, Await, f, n
  <2>4. CASE /\ BeginFinalization(f) /\ disk' = disk /\ failures' = failures
             /\ task' = [task EXCEPT ![h].pc = "link", ![h].wait = n, ![h].broke = FALSE]
    <3>1. At(h, "link") /\ Becomes(f, "finalizing") /\ s \in {"verifying", "finalizing"}
      BY <1>0, <1>2, <1>5, <2>1, <2>2, <2>4, CallsOfHandlers DEF s
    <3>2. QED
      BY <1>3, <2>2, <2>4, <3>1 DEF HandlerEffect, At, Becomes, Ended, Fin, s, f, p
  <2>5. QED
    BY <1>2, <1>3, <1>9, <2>2, <2>3, <2>4
<1>22. CASE PutLink(h)
  <2>1. p = "link" /\ UNCHANGED <<allVars, failures>>
    BY <1>1, <1>22 DEF PutLink
  <2>2. {p, "complete", "catch", "name"} \subseteq Finishing
    BY <2>1 DEF Finishing
  <2>3. CASE Goto(h, "complete") \/ Goto(h, "catch")
    BY <1>2, <1>3, <1>9, <2>1, <2>2, <2>3
  <2>4. CASE task' = [task EXCEPT ![h].pc = "name", ![h].suffix = @ + 1]
    <3> DEFINE next == task[h].suffix + 1
               u == [[task[h] EXCEPT !.pc = "name"] EXCEPT !.suffix = next]
    <3>1. task' = [task EXCEPT ![h] = u] /\ task \in [Tasks -> Task]
      BY <2>4 DEF TasksTyped
    <3>2. u.pc = "name" /\ u.broke = task[h].broke
      BY <3>1 DEF Task
    <3> HIDE DEF u
    <3>3. At(h, "name")
      BY <3>1, <3>2 DEF At
    <3>4. QED
      BY <1>3, <2>1, <2>2, <3>3, QuietHandlerEffect DEF s, f, p
  <2>5. QED
    BY <1>22, <2>3, <2>4 DEF PutLink
<1>23. CASE PutComplete(h)
  <2>1. p = "complete" /\ f \in Files
    BY <1>1, <1>23 DEF PutComplete
  <2>2. {p, "catch"} \subseteq Finishing /\ "completed" \in Places
    BY <1>2, <2>1 DEF Finishing, Ending
  <2>3. \/ Goto(h, "catch") /\ UNCHANGED <<allVars, failures>>
        \/ /\ Complete(f) /\ disk' = disk /\ failures' = failures /\ Persist
           /\ task' = [task EXCEPT ![h].pc = "completed", ![h].wait = n, ![h].broke = FALSE]
    BY <1>23 DEF PutComplete, Await, f, n
  <2>4. CASE /\ Complete(f) /\ disk' = disk /\ failures' = failures /\ Persist
             /\ task' = [task EXCEPT ![h].pc = "completed", ![h].wait = n, ![h].broke = FALSE]
    <3>1. At(h, "completed") /\ Becomes(f, "completed") /\ s \in InFlight
      BY <1>0, <1>5, <2>1, <2>2, <2>4, CallsOfHandlers DEF s
    <3>2. QED
      BY <1>3, <2>1, <2>4, <3>1
      DEF HandlerEffect, At, Becomes, Ended, Fin, InFlight, s, f, p
  <2>5. QED
    BY <1>2, <1>3, <1>9, <2>2, <2>3, <2>4
<1>24. CASE PutCompleted(h)
  <2>1. /\ p = "completed" /\ UNCHANGED <<allVars, failures>>
        /\ Leave(h) \/ (task[h].broke /\ Goto(h, "catch"))
    BY <1>1, <1>24 DEF PutCompleted, Announce
  <2>2. QED
    BY <1>2, <1>3, <1>8, <1>9, <2>1 DEF Finishing
<1>25. CASE PutCatchCompleted(h)
  <2>1. UNCHANGED <<allVars, failures>> /\ Leave(h) /\ s = "completed"
    BY <1>25 DEF PutCatchCompleted, Announce, s, f
  <2>2. QED
    BY <1>8, <2>1
<1>26. CASE PutCatch(h)
  <2>1. p = "catch" /\ f \in Files
    BY <1>1, <1>26 DEF PutCatch
  <2>2. \/ Leave(h) /\ UNCHANGED <<allVars, failures>> /\ s \in TerminalFile
        \/ /\ Fail(f) /\ disk' = disk /\ failures' = failures
           /\ task' = [task EXCEPT ![h].pc = "caught", ![h].wait = n, ![h].broke = FALSE]
    BY <1>26 DEF PutCatch, Announce, Await, Terminal, f, n, s
  <2>3. QED
    BY <1>7, <1>8, <1>10, <2>1, <2>2
<1>27. CASE PutFailed(h)
  <2>1. /\ p \in Ending /\ UNCHANGED <<allVars, failures>>
        /\ Leave(h) \/ (task[h].broke /\ Goto(h, "catch"))
    BY <1>1, <1>27 DEF PutFailed, Announce, Ending
  <2>2. "catch" \in Finishing
    BY DEF Finishing
  <2>3. QED
    BY <1>2, <1>3, <1>8, <1>9, <2>1, <2>2
<1>28. QED
  BY <1>11, <1>12, <1>13, <1>14, <1>15, <1>16, <1>17, <1>18, <1>19, <1>20, <1>21, <1>22, <1>23,
     <1>24, <1>25, <1>26, <1>27 DEF PutStep

LEMMA OrderEffect ==
  ASSUME DurableInv, TasksTyped, NEW h \in Tasks, OrderStep(h)
  PROVE  HandlerEffect(h)
<1> DEFINE f == task[h].file
           s == file[f].status
           p == task[h].pc
           n == Len(pending) + 1
           Stops == {"idle"} \cup OrderPlaces \cup Outside
<1>0. n \in Nat /\ CoreInv
  BY DEF DurableInv
<1>1. ASSUME NEW pc, Ready(h, pc), pc # "idle" PROVE p = pc /\ f \in Files
  BY <1>1 DEF Ready, TasksTyped
<1>2. /\ Stops \subseteq {"idle", "lock"} \cup Working \cup Outside
      /\ \A pc \in Stops \cup {"lock"} :
           pc # "completed" /\ pc \notin Incomplete /\ pc \notin Finishing
      /\ \A pc \in {"operated", "control_told", "checkpointed", "operate", "idle",
                    "control_failed"} : pc \in Stops
  BY DEF Working, OrderPlaces, Outside, Incomplete, Finishing
<1>3. ASSUME NEW pc \in Stops, Goto(h, pc) PROVE At(h, pc)
  BY <1>2, <1>3, WhereHandlersGo
<1>4. ASSUME NEW pc \in Stops,
             task' = [task EXCEPT ![h].pc = pc, ![h].wait = n, ![h].broke = FALSE]
      PROVE  At(h, pc)
  BY <1>0, <1>2, <1>4, WhereHandlersGo
<1>5. ASSUME task' = [task EXCEPT ![h] = Idle] \/ Leave(h) \/ OrderFails(h)
      PROVE  At(h, "idle") \/ At(h, "control_failed")
  BY <1>5, WhereHandlersGo DEF Outside
<1> HIDE DEF f, s, p, n, Stops
<1>6. ASSUME UNCHANGED <<allVars, failures>>, NEW pc \in Stops, At(h, pc), p \in Stops \cup {"lock"}
      PROVE  HandlerEffect(h)
  BY <1>2, <1>6, QuietHandlerEffect DEF p
<1>7. ASSUME UNCHANGED <<allVars, failures>>, p \in Stops \cup {"lock"},
             task' = [task EXCEPT ![h] = Idle] \/ Leave(h) \/ OrderFails(h)
      PROVE  HandlerEffect(h)
  BY <1>2, <1>5, <1>6, <1>7
<1>8. ASSUME f \in Files, Fail(f), disk' = disk, failures' = failures, NEW pc \in Stops, At(h, pc)
      PROVE  HandlerEffect(h)
  BY <1>0, <1>2, <1>8, FailingHandlerEffect DEF f
<1>9. CASE OrderEnter(h)
  <2>1. p = "lock" /\ f \in Files
    BY <1>1, <1>9 DEF OrderEnter, Entered
  <2>2. \/ Goto(h, "operate") /\ UNCHANGED <<allVars, failures>>
        \/ OrderFails(h) /\ UNCHANGED <<allVars, failures>>
        \/ /\ ConfirmProgress(f, session[f].accepted) /\ disk' = disk /\ failures' = failures
           /\ task' = [task EXCEPT ![h].pc = "checkpointed", ![h].wait = n, ![h].broke = FALSE]
    BY <1>9 DEF OrderEnter, Await, f, n
  <2>3. CASE /\ ConfirmProgress(f, session[f].accepted) /\ disk' = disk /\ failures' = failures
             /\ task' = [task EXCEPT ![h].pc = "checkpointed", ![h].wait = n, ![h].broke = FALSE]
    <3>1. At(h, "checkpointed") /\ s = "active" /\ Becomes(f, "active")
      BY <1>0, <1>2, <1>4, <2>1, <2>3, CallsOfHandlers DEF s
    <3>2. "checkpointed" \notin Incomplete /\ "checkpointed" # "completed"
      BY <1>2
    <3>3. QED
      BY <2>3, <3>1, <3>2 DEF HandlerEffect, At, Becomes, Ended, Fin, s, f, p
  <2>4. QED
    BY <1>2, <1>3, <1>6, <1>7, <2>1, <2>2, <2>3
<1>10. CASE OrderCheckpointed(h)
  <2>1. /\ p = "checkpointed" /\ UNCHANGED <<allVars, failures>>
        /\ OrderFails(h) \/ Goto(h, "operate")
    BY <1>1, <1>10 DEF OrderCheckpointed
  <2>2. QED
    BY <1>2, <1>3, <1>6, <1>7, <2>1
<1>11. CASE OrderOperates(h)
  <2>1. p = "operate" /\ f \in Files /\ p \in OrderPlaces /\ failures' = failures
    BY <1>1, <1>11 DEF OrderOperates, OrderPlaces
  <2>2. \/ Goto(h, "operated") /\ UNCHANGED allVars
        \/ /\ CancelFile(f) \/ PauseFile(f) \/ Fail(f)
           /\ disk' = disk
           /\ task' = [task EXCEPT ![h].pc = "operated", ![h].wait = n, ![h].broke = FALSE]
    BY <1>11 DEF OrderOperates, Await, f, n
  <2>3. At(h, "operated") /\ "operated" \notin Incomplete /\ p \notin Finishing
    BY <1>2, <1>3, <1>4, <2>1, <2>2
  <2>4. CASE /\ CancelFile(f) /\ disk' = disk
    <3>1. \/ s \notin TerminalFile /\ Becomes(f, "cancelled")
          \/ s \in TerminalFile /\ Becomes(f, s)
      BY <1>0, <2>1, <2>4, CallsOfHandlers DEF s
    <3>2. CASE s \notin TerminalFile /\ Becomes(f, "cancelled")
      BY <2>1, <2>3, <2>4, <3>2 DEF HandlerEffect, At, Becomes, Ended, TerminalFile, s, f, p
    <3>3. CASE s \in TerminalFile /\ Becomes(f, s)
      BY <2>1, <2>3, <2>4, <3>3 DEF HandlerEffect, At, Becomes, Ended, TerminalFile, s, f, p
    <3>4. QED
      BY <3>1, <3>2, <3>3
  <2>5. CASE /\ PauseFile(f) /\ disk' = disk
    <3>1. \/ s \in {"queued", "active"} /\ Becomes(f, "paused")
          \/ Becomes(f, s)
      BY <1>0, <2>1, <2>5, CallsOfHandlers DEF s
    <3>2. QED
      BY <2>1, <2>3, <2>5, <3>1 DEF HandlerEffect, At, Becomes, Ended, s, f, p
  <2>6. QED
    BY <1>2, <1>6, <1>8, <2>1, <2>2, <2>3, <2>4, <2>5
<1>12. CASE OrderOperated(h)
  <2>1. p = "operated" /\ UNCHANGED <<allVars, failures>> /\ (OrderFails(h) \/ Leave(h))
    BY <1>1, <1>12 DEF OrderOperated
  <2>2. QED
    BY <1>2, <1>7, <2>1
<1>13. CASE OrderFailsFile(h)
  <2>1. p = "control_failed" /\ f \in Files /\ failures' = failures
    BY <1>1, <1>13 DEF OrderFailsFile
  <2>2. \/ task' = [task EXCEPT ![h] = Idle] /\ UNCHANGED allVars
        \/ /\ Fail(f) /\ disk' = disk
           /\ task' = [task EXCEPT ![h].pc = "control_told", ![h].wait = n, ![h].broke = FALSE]
    BY <1>13 DEF OrderFailsFile, Await, f, n
  <2>3. QED
    BY <1>2, <1>4, <1>7, <1>8, <2>1, <2>2
<1>14. CASE OrderTold(h)
  <2>1. /\ p = "control_told" /\ UNCHANGED <<allVars, failures>>
        /\ task' = [task EXCEPT ![h] = Idle]
    BY <1>1, <1>14 DEF OrderTold
  <2>2. QED
    BY <1>2, <1>7, <2>1
<1>15. QED
  BY <1>9, <1>10, <1>11, <1>12, <1>13, <1>14 DEF OrderStep
-----------------------------------------------------------------------------
(* Verification has its handler *)

Verified ==
  /\ failures \in Nat
  /\ failures = 0 =>
       /\ \A h \in Tasks : ~task[h].broke
       /\ \A f \in Files :
            up /\ file[f].status \in {"verifying", "finalizing"} =>
              \E h \in Tasks : task[h].file = f /\ task[h].pc \in Finishing

LEMMA HandlerKeepsVerified ==
  ASSUME UploadInv, Verified, NEW h \in Tasks, HandlerStep(h)
  PROVE  Verified'
<1>1. DurableInv /\ TasksTyped /\ TurnInv
  BY DEF UploadInv, TurnInv
<1>2. HandlerEffect(h) /\ TurnEffect(h)
  BY <1>1, PutEffect, OrderEffect, PutTurns, OrderTurns DEF HandlerStep
<1>3. SUFFICES ASSUME failures' = 0
               PROVE  /\ \A k \in Tasks : ~task'[k].broke
                      /\ \A f \in Files :
                           up' /\ file'[f].status \in {"verifying", "finalizing"} =>
                             \E k \in Tasks : task'[k].file = f /\ task'[k].pc \in Finishing
  BY <1>2 DEF Verified, HandlerEffect
<1>4. /\ failures = 0 /\ up /\ \A k \in Tasks : ~task[k].broke
      /\ \A k \in Tasks \ {h} : task'[k] = task[k]
      /\ ~task'[h].broke
      /\ \A f \in Files : file[f].status \in {"verifying", "finalizing"} =>
           \E k \in Tasks : task[k].file = f /\ task[k].pc \in Finishing
  BY <1>2, <1>3 DEF HandlerEffect, TurnEffect, Goes, Finishes, Verified
<1>5. ASSUME NEW f \in Files, file'[f].status \in {"verifying", "finalizing"}
      PROVE  \E k \in Tasks : task'[k].file = f /\ task'[k].pc \in Finishing
  <2>1. CASE f = task[h].file /\ task'[h].pc \in Finishing
    <3>1. task'[h].file = f
      BY <1>2, <2>1 DEF TurnEffect, Outside, Finishing
    <3>2. QED
      BY <2>1, <3>1
  <2>2. CASE f # task[h].file
    <3>1. file'[f] = file[f]
      BY <1>2, <2>2 DEF HandlerEffect
    <3>2. PICK k \in Tasks : task[k].file = f /\ task[k].pc \in Finishing
      BY <1>4, <1>5, <3>1
    <3>3. k # h /\ task'[k] = task[k]
      BY <1>4, <2>2, <3>2
    <3>4. QED
      BY <3>2, <3>3
  <2>3. CASE f = task[h].file /\ task'[h].pc \notin Finishing
    <3>1. file[f].status \in {"verifying", "finalizing"} /\ task[h].pc \notin Finishing
      BY <1>2, <1>4, <1>5, <2>3 DEF HandlerEffect
    <3>2. PICK k \in Tasks : task[k].file = f /\ task[k].pc \in Finishing
      BY <1>4, <3>1
    <3>3. k # h /\ task'[k] = task[k]
      BY <1>4, <3>1, <3>2
    <3>4. QED
      BY <3>2, <3>3
  <2>4. QED
    BY <2>1, <2>2, <2>3
<1>6. QED
  BY <1>4, <1>5

(* Saves leave the handlers where they are. *)
LEMMA WaitedFrame ==
  ASSUME TasksTyped, NEW r \in BOOLEAN, Waited(r), NEW h \in Tasks
  PROVE  /\ task'[h].pc = task[h].pc /\ task'[h].file = task[h].file /\ task'[h].op = task[h].op
         /\ task[h].wait = 0 => task'[h] = task[h]
         /\ task[h].wait # 0 => /\ task'[h].wait = task[h].wait - 1
                               /\ task'[h].broke = (r /\ task[h].wait = 1)
<1>1. task[h] \in Task /\ task[h].wait \in Nat
  BY DEF TasksTyped, Task
<1>2. CASE task[h].wait = 0
  BY <1>2 DEF Waited
<1>3. CASE task[h].wait # 0
  <2> DEFINE n == task[h].wait - 1
             b == r /\ task[h].wait = 1
             u == [[task[h] EXCEPT !.wait = n] EXCEPT !.broke = b]
  <2>1. task'[h] = u
    BY <1>3 DEF Waited
  <2> HIDE DEF n, b
  <2>2. u.wait = n /\ u.pc = task[h].pc /\ u.file = task[h].file /\ u.op = task[h].op /\ u.broke = b
    BY <1>1 DEF Task
  <2> HIDE DEF u
  <2>3. QED
    BY <1>3, <2>1, <2>2 DEF n, b
<1>4. QED
  BY <1>2, <1>3

LEMMA NextKeepsVerified ==
  ASSUME UploadInv, Verified, [UploadNext]_everything
  PROVE  Verified'
<1>0. DurableInv /\ CoreInv /\ InFlightIsRecovered /\ TasksTyped
  BY DEF UploadInv, TurnInv, DurableInv
<1>1. ASSUME NEW h \in Tasks, HandlerStep(h) PROVE Verified'
  BY <1>1, HandlerKeepsVerified
<1>2. CASE StartTask
  <2>1. PICK h \in Tasks : \E f \in Files : \E op, offset : Start(h, op, f, offset)
    BY <1>2 DEF StartTask, StartPut, StartOrder
  <2>8. PICK f \in Files : \E op, offset : Start(h, op, f, offset)
    BY <2>1
  <2>2. PICK op, offset : Start(h, op, f, offset)
    BY <2>8
  <2> DEFINE u == [[[[Idle EXCEPT !.op = op] EXCEPT !.file = f] EXCEPT !.offset = offset]
                    EXCEPT !.pc = "lock"]
  <2>3. /\ task[h].pc = "idle" /\ task' = [task EXCEPT ![h] = u] /\ UNCHANGED <<up, file, failures>>
    BY <2>2 DEF Start, allVars, vars, durable
  <2>4. ~u.broke
    BY DEF Idle
  <2> HIDE DEF u
  <2>5. task'[h] = u /\ \A k \in Tasks \ {h} : task'[k] = task[k]
    BY <1>0, <2>3 DEF TasksTyped
  <2>6. \A k \in Tasks : task[k].pc \in Finishing => k # h
    BY <2>3 DEF Finishing
  <2>7. QED
    BY <2>3, <2>4, <2>5, <2>6 DEF Verified
<1>3. CASE UnlockedStep
  <2>1. /\ up' = up /\ UNCHANGED <<task, failures>>
        /\ \A f \in Files : file'[f].status \in {"verifying", "finalizing"} => file'[f] = file[f]
    BY <1>0, <1>3, UnlockedFrame, UnlockedCalls
  <2>2. QED
    BY <2>1 DEF Verified
<1>4. CASE SaveStep
  <2>1. Waited(FALSE) /\ UNCHANGED <<up, file, failures>>
    BY <1>4 DEF SaveStep, Save, vars
  <2>2. \A h \in Tasks : /\ task'[h].pc = task[h].pc /\ task'[h].file = task[h].file
                         /\ task'[h].broke => task[h].broke
    BY <1>0, <2>1, WaitedFrame
  <2>3. QED
    BY <2>1, <2>2 DEF Verified
<1>5. CASE SaveRejects
  <2>1. failures' = failures + 1 /\ failures \in Nat
    BY <1>5 DEF SaveRejects, Verified
  <2>2. failures' \in Nat /\ failures' # 0
    BY <2>1
  <2>3. QED
    BY <2>2 DEF Verified
<1>6. CASE CrashStep
  <2>1. task' = [h \in Tasks |-> Idle] /\ ~up' /\ ~Idle.broke /\ failures' = failures
    BY <1>6 DEF CrashStep, Crash, Idle
  <2>2. QED
    BY <2>1 DEF Verified
<1>7. ASSUME NEW kept, Restart \/ RestartInterrupted(kept) PROVE Verified'
  <2>1. UNCHANGED <<task, failures>> /\ (Reopen(SharedInode) \/ ReopenInterrupted(SharedInode))
    BY <1>7 DEF Restart, RestartInterrupted
  <2>2. \A f \in Files : file'[f].status \notin {"verifying", "finalizing"}
    BY <1>0, <2>1, RestartEndsWhatWasInFlight DEF InFlight
  <2>3. QED
    BY <2>1, <2>2 DEF Verified
<1>8. CASE UNCHANGED everything
  BY <1>8 DEF everything, allVars, vars, durable, uploadVars, Verified
<1>9. ASSUME NEW h \in Tasks, NEW f \in Files, OfferWithoutSpace(h, f) PROVE Verified'
  <2>1. /\ up' = up /\ failures' = failures /\ task[h].pc = "idle"
        /\ \A k \in Tasks \ {h} : task'[k] = task[k]
        /\ ~task'[h].broke
    BY <1>0, <1>9, OffersStayOutside
  <2>2. \A g \in Files : file'[g].status \in {"verifying", "finalizing"} => file'[g] = file[g]
    BY <1>0, <1>9, OfferCalls
  <2>3. "idle" \notin Finishing
    BY DEF Finishing
  <2>4. QED
    BY <2>1, <2>2, <2>3 DEF Verified
<1>10. QED
  BY <1>1, <1>2, <1>3, <1>4, <1>5, <1>6, <1>7, <1>8, <1>9 DEF UploadNext

(* While no save was rejected, a file that is verified or finalized has the *)
(* handler that will end it: the claim of the next file never waits for a   *)
(* verification nobody makes.  The first rejected save can leave such a     *)
(* file behind, as the run of MCUploadWedged.cfg shows.                     *)
THEOREM VerificationHasItsHandler == UploadSpec => [](failures = 0 => VerifyingHasHandler)
<1>1. UploadInit => Verified
  <2>1. ~Idle.broke
    BY DEF Idle
  <2>2. QED
    BY <2>1 DEF UploadInit, DurableInit, Init, NoFile, NewFile, Verified
<1>2. UploadInv /\ Verified /\ [UploadNext]_everything => Verified'
  BY NextKeepsVerified
<1>3. UploadInv /\ Verified => (failures = 0 => VerifyingHasHandler)
  <2>1. Finishing \subseteq PutPlaces /\ "idle" \notin Finishing /\ "lock" \notin Finishing
    BY DEF Finishing, PutPlaces
  <2>2. QED
    BY <2>1 DEF UploadInv, TurnInv, TasksTyped, Verified, VerifyingHasHandler
<1>4. QED
  BY <1>1, <1>2, <1>3, UploadInvariant, PTL DEF UploadSpec

-----------------------------------------------------------------------------
(* What the phone is told *)

ToldTyped == told \in [Files -> SUBSET {"complete", "failed"}]

LEMMA Telling ==
  ASSUME ToldTyped, NEW f \in Files
  PROVE  /\ Tell(f, "failed") =>
              ToldTyped' /\ \A g \in Files : "complete" \in told'[g] => "complete" \in told[g]
         /\ Tell(f, "complete") =>
              ToldTyped' /\ \A g \in Files \ {f} : told'[g] = told[g]
BY DEF Tell, ToldTyped

ToldEffect(h) ==
  LET f == task[h].file
  IN  /\ ToldTyped'
      /\ \A g \in Files :
           "complete" \in told'[g] =>
             \/ "complete" \in told[g]
             \/ g = f /\ task[h].pc = "completed" /\ task[h].wait = 0 /\ ~task[h].broke
             \/ g = f /\ task[h].pc = "catch" /\ file[f].status = "completed"

LEMMA HandlersTell ==
  ASSUME ToldTyped, TasksTyped, NEW h \in Tasks, HandlerStep(h)
  PROVE  ToldEffect(h)
<1> DEFINE f == task[h].file
<1>1. ASSUME NEW pc, Ready(h, pc), pc # "idle" PROVE f \in Files
  BY <1>1 DEF Ready, TasksTyped
<1> HIDE DEF f
<1>2. ASSUME told' = told \/ (f \in Files /\ Tell(f, "failed")) PROVE ToldEffect(h)
  BY <1>2, Telling DEF ToldEffect, ToldTyped
<1>3. ASSUME f \in Files, Tell(f, "complete"),
             \/ task[h].pc = "completed" /\ task[h].wait = 0 /\ ~task[h].broke
             \/ task[h].pc = "catch" /\ file[f].status = "completed"
      PROVE  ToldEffect(h)
  BY <1>3, Telling DEF ToldEffect, f
<1>4. CASE \/ PutEnter(h) \/ PutRefuse(h) \/ PutOpen(h)
           \/ (\E due \in BOOLEAN : PutWrite(h, due))
           \/ PutBreaksOff(h) \/ PutConfirm(h) \/ PutConfirmed(h)
           \/ PutVerified(h) \/ PutHash(h) \/ PutName(h) \/ PutLink(h) \/ PutComplete(h)
           \/ OrderEnter(h) \/ OrderCheckpointed(h) \/ OrderOperates(h)
  BY <1>2, <1>4
  DEF PutEnter, PutRefuse, PutOpen, PutWrite, PutBreaksOff, PutConfirm, PutConfirmed,
      PutVerified, PutHash, PutName, PutLink, PutComplete, OrderEnter, OrderCheckpointed,
      OrderOperates
<1>5. CASE PutFindsNoPartial(h) \/ PutHashMismatch(h) \/ PutCatch(h) \/ PutFailed(h)
  BY <1>1, <1>2, <1>5
  DEF PutFindsNoPartial, PutHashMismatch, PutCatch, PutFailed, Announce, f
<1>6. CASE OrderOperated(h) \/ OrderFailsFile(h) \/ OrderTold(h)
  BY <1>1, <1>2, <1>6 DEF OrderOperated, OrderFailsFile, OrderTold, f
<1>7. CASE PutCompleted(h) \/ PutCatchCompleted(h)
  BY <1>1, <1>2, <1>3, <1>7 DEF PutCompleted, PutCatchCompleted, Announce, Ready, f
<1>8. QED
  BY <1>4, <1>5, <1>6, <1>7 DEF HandlerStep, PutStep, OrderStep

-----------------------------------------------------------------------------
(* A completed file has one copy *)

(* The positions before the link is made. *)
Before == Receiving \cup {"verified", "hash", "name", "link"}

CopyEffect(h) ==
  LET f == task[h].file
      p == task[h].pc
      q == task'[h].pc
      u == file'[f].status
  IN  /\ copies' \in [Files -> {0, 1}] /\ linked' \in [Files -> BOOLEAN]
      /\ \A g \in Files \ {f} : copies'[g] = copies[g] /\ linked'[g] = linked[g]
      /\ q = "link" => p = "name" /\ u = "finalizing" /\ Persist
      /\ u = "finalizing" => file[f].status = "finalizing" \/ p = "name"
      /\ \/ /\ copies'[f] = copies[f] /\ (linked'[f] => linked[f])
            /\ q # "complete"
            /\ q = "completed" => p = "complete"
            /\ q \in Before => p \in Before \/ file[f].status = "active"
            /\ p \in {"complete", "catch"} => q = "catch" \/ u # "finalizing"
         \/ /\ p = "link" /\ q = "complete" /\ ~task[h].broke
            /\ copies'[f] = 1 /\ UNCHANGED allVars
         \/ /\ p = "catch" /\ q \in {"idle", "caught"}
            /\ copies'[f] = 1 => copies[f] = 1
            /\ ~linked'[f] /\ u \notin {"finalizing", "completed"}

(* A step that makes no copy, removes none and does not finalize. *)
LEMMA PlainCopyEffect ==
  ASSUME CopyInv, NEW h \in Tasks, task[h].file \in Files, copies' = copies,
         linked' = linked \/ linked' = [linked EXCEPT ![task[h].file] = FALSE],
         NEW q, At(h, q), q \notin {"link", "complete"},
         file'[task[h].file].status = "finalizing" => file[task[h].file].status = "finalizing",
         q = "completed" => task[h].pc = "complete",
         q \in Before => task[h].pc \in Before \/ file[task[h].file].status = "active",
         task[h].pc \in {"complete", "catch"} =>
           q = "catch" \/ file'[task[h].file].status # "finalizing"
  PROVE  CopyEffect(h)
<1> DEFINE f == task[h].file
<1>1. /\ linked' \in [Files -> BOOLEAN] /\ \A g \in Files \ {f} : linked'[g] = linked[g]
      /\ linked'[f] => linked[f]
  <2>1. CASE linked' = linked
    BY <2>1 DEF CopyInv
  <2>2. CASE linked' = [linked EXCEPT ![f] = FALSE]
    BY <2>2 DEF CopyInv
  <2>3. QED
    BY <2>1, <2>2
<1>2. copies' \in [Files -> {0, 1}]
  BY DEF CopyInv
<1>3. QED
  BY <1>1, <1>2, Zenon DEF CopyEffect, At

LEMMA PutCopies ==
  ASSUME DurableInv, TasksTyped, CopyInv, NEW h \in Tasks, PutStep(h)
  PROVE  CopyEffect(h)
<1> DEFINE f == task[h].file
           s == file[f].status
           u == file'[f].status
           p == task[h].pc
           n == Len(pending) + 1
           Places == {"idle", "lock"} \cup Working \cup Outside
<1>0. n \in Nat /\ CoreInv
  BY DEF DurableInv
<1>1. ASSUME NEW pc, Ready(h, pc), pc # "idle" PROVE p = pc /\ f \in Files
  BY <1>1 DEF Ready, TasksTyped
<1>2. Finishing \cup Receiving \cup Ending \subseteq Places
  BY DEF Working, PutPlaces
<1>4. ASSUME NEW pc \in Places, Goto(h, pc) PROVE At(h, pc)
  BY <1>4, WhereHandlersGo DEF Places
<1>5. ASSUME NEW pc \in Places,
             task' = [task EXCEPT ![h].pc = pc, ![h].wait = n, ![h].broke = FALSE]
      PROVE  At(h, pc)
  BY <1>0, <1>5, WhereHandlersGo DEF Places
<1>6. ASSUME Leave(h) PROVE At(h, "idle")
  BY <1>6, WhereHandlersGo
<1>7. UNCHANGED allVars => file' = file
  BY DEF allVars, vars
<1>8. /\ "idle" \notin Before /\ "catch" \notin Before
      /\ \A pc \in {"missing", "mismatched", "caught", "completed"} : pc \notin Before /\ pc \in Places
      /\ \A pc \in {"read", "opened", "written", "confirmed", "verified", "hash", "name", "link",
                    "complete", "catch"} : pc \in Places
      /\ \A pc \in {"read", "opened", "written", "confirmed", "verified", "hash", "name", "link"} :
           pc \in Before
      /\ "complete" \notin Before
  BY <1>2 DEF Before, Receiving, Finishing, Ending
<1> HIDE DEF f, s, u, p, n, Places
<1> DEFINE Kept == copies' = copies /\ linked' = linked
           Unlinks == copies' = copies /\ linked' = [linked EXCEPT ![f] = FALSE]
<1>9. ASSUME f \in Files, UNCHANGED allVars, Kept \/ Unlinks, Leave(h),
             p \in {"complete", "catch"} => s # "finalizing"
      PROVE  CopyEffect(h)
  BY <1>6, <1>7, <1>8, <1>9, PlainCopyEffect DEF f, s, p
<1>10. ASSUME f \in Files, UNCHANGED allVars, Kept, NEW pc \in Places, Goto(h, pc),
              pc \notin {"link", "complete", "completed"},
              pc \in Before => p \in Before \/ s = "active",
              p \in {"complete", "catch"} => pc = "catch"
       PROVE  CopyEffect(h)
  BY <1>4, <1>7, <1>10, PlainCopyEffect DEF f, s, p
<1>11. ASSUME f \in Files, Fail(f), Kept \/ Unlinks, NEW pc \in {"missing", "mismatched", "caught"},
              task' = [task EXCEPT ![h].pc = pc, ![h].wait = n, ![h].broke = FALSE]
       PROVE  CopyEffect(h)
  <2>1. file'[f].status = "failed"
    BY <1>0, <1>11, CallsOfHandlers DEF Becomes
  <2>2. At(h, pc) /\ pc \notin Before
    BY <1>5, <1>8, <1>11
  <2>3. QED
    BY <1>11, <2>1, <2>2, PlainCopyEffect DEF f
<1>12. CASE PutEnter(h)
  <2>1. /\ UNCHANGED allVars /\ Kept
        /\ (Goto(h, "read") /\ s = "active") \/ Leave(h)
        /\ p = "lock" /\ f \in Files
    BY <1>1, <1>12 DEF PutEnter, Entered, storage, s, f
  <2>2. QED
    BY <1>8, <1>9, <1>10, <2>1
<1>13. CASE PutRefuse(h) \/ PutBreaksOff(h)
  <2>1. UNCHANGED allVars /\ Kept /\ Leave(h) /\ p \in {"read", "opened", "written"} /\ f \in Files
    BY <1>1, <1>13 DEF PutRefuse, PutBreaksOff, storage
  <2>2. QED
    BY <1>9, <2>1
<1>14. CASE PutOpen(h)
  <2>1. p = "read" /\ f \in Files /\ UNCHANGED allVars /\ Goto(h, "opened") /\ linked' = linked
    BY <1>1, <1>14 DEF PutOpen
  <2>2. copies[f] = 0 /\ ~linked[f]
    BY <2>1 DEF CopyInv, Receiving, f, p
  <2>3. copies' = copies
    BY <1>14, <2>2 DEF PutOpen, f
  <2>4. QED
    BY <1>8, <1>10, <2>1, <2>3
<1>15. ASSUME NEW due \in BOOLEAN, PutWrite(h, due) PROVE CopyEffect(h)
  <2>1. UNCHANGED allVars /\ Kept /\ p = "opened" /\ f \in Files
    BY <1>1, <1>15 DEF PutWrite
  <2>2. At(h, "written")
    <3> DEFINE r == [[task[h] EXCEPT !.pc = "written"] EXCEPT !.due = due]
    <3>1. task' = [task EXCEPT ![h] = r] /\ task \in [Tasks -> Task]
      BY <1>15 DEF PutWrite, TasksTyped
    <3>2. r.pc = "written" /\ r.broke = task[h].broke
      BY <3>1 DEF Task
    <3> HIDE DEF r
    <3>3. task'[h] = r
      BY <3>1
    <3>4. QED
      BY <3>2, <3>3 DEF At
  <2>3. QED
    BY <1>7, <1>8, <2>1, <2>2, PlainCopyEffect DEF f, p
<1>16. CASE PutFindsNoPartial(h)
  <2>1. p = "read" /\ f \in Files /\ Kept
    BY <1>1, <1>16 DEF PutFindsNoPartial, storage
  <2>2. \/ Leave(h) /\ UNCHANGED allVars
        \/ /\ Fail(f)
           /\ task' = [task EXCEPT ![h].pc = "missing", ![h].wait = n, ![h].broke = FALSE]
    BY <1>16 DEF PutFindsNoPartial, Announce, Await, f, n
  <2>3. QED
    BY <1>9, <1>11, <2>1, <2>2
<1>17. CASE PutConfirm(h)
  <2>1. p = "written" /\ f \in Files /\ Kept
    BY <1>1, <1>17 DEF PutConfirm, storage
  <2>2. \/ Leave(h) /\ UNCHANGED allVars
        \/ /\ BeginVerification(f)
           /\ task' = [task EXCEPT ![h].pc = "verified", ![h].wait = n, ![h].broke = FALSE]
        \/ /\ ConfirmProgress(f, End(h))
           /\ task' = [task EXCEPT ![h].pc = "confirmed", ![h].wait = n, ![h].broke = FALSE]
    BY <1>17 DEF PutConfirm, Await, f, n
  <2>3. CASE \/ /\ BeginVerification(f)
                /\ task' = [task EXCEPT ![h].pc = "verified", ![h].wait = n, ![h].broke = FALSE]
             \/ /\ ConfirmProgress(f, End(h))
                /\ task' = [task EXCEPT ![h].pc = "confirmed", ![h].wait = n, ![h].broke = FALSE]
    <3>1. (At(h, "verified") \/ At(h, "confirmed")) /\ file'[f].status # "finalizing"
      BY <1>0, <1>5, <1>8, <2>1, <2>3, CallsOfHandlers DEF Becomes
    <3>2. QED
      BY <1>8, <2>1, <3>1, PlainCopyEffect DEF f, p
  <2>4. QED
    BY <1>9, <2>1, <2>2, <2>3
<1>18. CASE PutConfirmed(h)
  <2>1. p = "confirmed" /\ f \in Files /\ Kept /\ Leave(h) /\ UNCHANGED allVars
    BY <1>1, <1>18 DEF PutConfirmed, storage
  <2>2. QED
    BY <1>9, <2>1
<1>19. CASE PutVerified(h)
  <2>1. p = "verified" /\ f \in Files /\ Kept /\ UNCHANGED allVars /\ (Leave(h) \/ Goto(h, "hash"))
    BY <1>1, <1>19 DEF PutVerified, storage
  <2>2. QED
    BY <1>8, <1>9, <1>10, <2>1
<1>20. CASE PutHash(h)
  <2>1. /\ p = "hash" /\ f \in Files /\ Kept /\ UNCHANGED allVars
        /\ Goto(h, "name") \/ Goto(h, "catch")
    BY <1>1, <1>20 DEF PutHash, storage
  <2>2. QED
    BY <1>8, <1>10, <2>1
<1>21. CASE PutHashMismatch(h)
  <2>1. p = "hash" /\ f \in Files /\ Unlinks
    BY <1>1, <1>21 DEF PutHashMismatch, Unlinked, f
  <2>2. \/ Leave(h) /\ UNCHANGED allVars
        \/ /\ Fail(f)
           /\ task' = [task EXCEPT ![h].pc = "mismatched", ![h].wait = n, ![h].broke = FALSE]
    BY <1>21 DEF PutHashMismatch, Announce, Await, f, n
  <2>3. QED
    BY <1>9, <1>11, <2>1, <2>2
<1>22. CASE PutName(h)
  <2>1. p = "name" /\ f \in Files /\ Kept
    BY <1>1, <1>22 DEF PutName, storage
  <2>2. \/ Goto(h, "catch") /\ UNCHANGED allVars
        \/ /\ BeginFinalization(f) /\ Persist
           /\ task' = [task EXCEPT ![h].pc = "link", ![h].wait = n, ![h].broke = FALSE]
    BY <1>22 DEF PutName, Await, f, n
  <2>3. CASE /\ BeginFinalization(f) /\ Persist
             /\ task' = [task EXCEPT ![h].pc = "link", ![h].wait = n, ![h].broke = FALSE]
    <3>1. At(h, "link") /\ file'[f].status = "finalizing"
      BY <1>0, <1>5, <1>8, <2>1, <2>3, CallsOfHandlers DEF Becomes
    <3>2. p \in Before
      BY <1>8, <2>1
    <3>3. QED
      BY <2>1, <2>3, <3>1, <3>2 DEF CopyEffect, CopyInv, At, f, p
  <2>4. QED
    BY <1>8, <1>10, <2>1, <2>2, <2>3
<1>23. CASE PutLink(h)
  <2>1. p = "link" /\ f \in Files /\ UNCHANGED allVars
    BY <1>1, <1>23 DEF PutLink
  <2>2. CASE /\ ~task[h].broke /\ copies' = [copies EXCEPT ![f] = @ + 1]
             /\ linked' = [linked EXCEPT ![f] = TRUE] /\ Goto(h, "complete")
    <3>1. copies[f] = 0 /\ copies \in [Files -> {0, 1}] /\ linked \in [Files -> BOOLEAN]
      BY <2>1 DEF CopyInv, f, p
    <3>2. /\ copies' \in [Files -> {0, 1}] /\ copies'[f] = 1
          /\ \A g \in Files \ {f} : copies'[g] = copies[g]
      BY <2>1, <2>2, <3>1
    <3>3. /\ linked' \in [Files -> BOOLEAN] /\ \A g \in Files \ {f} : linked'[g] = linked[g]
      BY <2>1, <2>2, <3>1
    <3>4. At(h, "complete") /\ file' = file
      BY <1>4, <1>7, <1>8, <2>1, <2>2
    <3>5. QED
      BY <2>1, <2>2, <3>2, <3>3, <3>4, Zenon DEF CopyEffect, At, f, p
  <2>3. CASE Goto(h, "catch") /\ Kept
    BY <1>8, <1>10, <2>1, <2>3
  <2>4. CASE task' = [task EXCEPT ![h].pc = "name", ![h].suffix = @ + 1] /\ Kept
    <3> DEFINE next == task[h].suffix + 1
               r == [[task[h] EXCEPT !.pc = "name"] EXCEPT !.suffix = next]
    <3>1. task' = [task EXCEPT ![h] = r] /\ task \in [Tasks -> Task]
      BY <2>4 DEF TasksTyped
    <3>2. r.pc = "name" /\ r.broke = task[h].broke
      BY <3>1 DEF Task
    <3> HIDE DEF r
    <3>3. At(h, "name")
      BY <3>1, <3>2 DEF At
    <3>4. QED
      BY <1>7, <1>8, <2>1, <2>4, <3>3, PlainCopyEffect DEF f, p
  <2>5. QED
    BY <1>23, <2>2, <2>3, <2>4 DEF PutLink, f
<1>24. CASE PutComplete(h)
  <2>1. p = "complete" /\ f \in Files /\ Kept
    BY <1>1, <1>24 DEF PutComplete, storage
  <2>2. \/ Goto(h, "catch") /\ UNCHANGED allVars
        \/ /\ Complete(f)
           /\ task' = [task EXCEPT ![h].pc = "completed", ![h].wait = n, ![h].broke = FALSE]
    BY <1>24 DEF PutComplete, Await, f, n
  <2>3. CASE /\ Complete(f)
             /\ task' = [task EXCEPT ![h].pc = "completed", ![h].wait = n, ![h].broke = FALSE]
    <3>1. At(h, "completed") /\ file'[f].status = "completed"
      BY <1>0, <1>5, <1>8, <2>1, <2>3, CallsOfHandlers DEF Becomes
    <3>2. QED
      BY <1>8, <2>1, <3>1, PlainCopyEffect DEF f, p
  <2>4. QED
    BY <1>8, <1>10, <2>1, <2>2, <2>3
<1>25. CASE PutCompleted(h)
  <2>1. /\ p = "completed" /\ f \in Files /\ UNCHANGED allVars
        /\ (Goto(h, "catch") /\ Kept) \/ (Leave(h) /\ Unlinks)
    BY <1>1, <1>25 DEF PutCompleted, Announce, Unlinked, f
  <2>2. QED
    BY <1>8, <1>9, <1>10, <2>1
<1>26. CASE PutCatchCompleted(h)
  <2>1. p = "catch" /\ f \in Files /\ Kept /\ UNCHANGED allVars /\ Leave(h) /\ s = "completed"
    BY <1>1, <1>26 DEF PutCatchCompleted, Announce, storage, s, f
  <2>2. QED
    BY <1>9, <2>1
<1>27. CASE PutCatch(h)
  <2>1. /\ p = "catch" /\ f \in Files /\ s # "completed"
        /\ linked' = [linked EXCEPT ![f] = FALSE]
        /\ copies' = copies \/ (linked[f] /\ copies' = [copies EXCEPT ![f] = @ - 1])
    BY <1>1, <1>27 DEF PutCatch, Unlinked, s, f
  <2>2. \/ Leave(h) /\ UNCHANGED allVars /\ s \in TerminalFile
        \/ /\ Fail(f)
           /\ task' = [task EXCEPT ![h].pc = "caught", ![h].wait = n, ![h].broke = FALSE]
    BY <1>27 DEF PutCatch, Announce, Await, Terminal, f, n, s
  <2>3. /\ copies' \in [Files -> {0, 1}]
        /\ \A g \in Files \ {f} : copies'[g] = copies[g]
        /\ copies'[f] = 1 => copies[f] = 1
    BY <2>1 DEF CopyInv
  <2>4. /\ linked' \in [Files -> BOOLEAN] /\ ~linked'[f]
        /\ \A g \in Files \ {f} : linked'[g] = linked[g]
    BY <2>1 DEF CopyInv
  <2>5. (At(h, "idle") \/ At(h, "caught")) /\ u \notin {"finalizing", "completed"}
    <3>1. CASE Leave(h) /\ UNCHANGED allVars /\ s \in TerminalFile
      BY <1>6, <1>7, <2>1, <3>1 DEF TerminalFile, s, u
    <3>2. CASE /\ Fail(f)
               /\ task' = [task EXCEPT ![h].pc = "caught", ![h].wait = n, ![h].broke = FALSE]
      BY <1>0, <1>5, <1>8, <2>1, <3>2, CallsOfHandlers DEF Becomes, u
    <3>3. QED
      BY <2>2, <3>1, <3>2
  <2>6. QED
    BY <2>1, <2>3, <2>4, <2>5, Zenon DEF CopyEffect, At, f, p, u
<1>28. CASE PutFailed(h)
  <2>1. /\ p \in {"missing", "mismatched", "caught"} /\ f \in Files /\ Kept /\ UNCHANGED allVars
        /\ Leave(h) \/ Goto(h, "catch")
    BY <1>1, <1>28 DEF PutFailed, Announce, storage
  <2>2. QED
    BY <1>8, <1>9, <1>10, <2>1
<1>29. QED
  BY <1>12, <1>13, <1>14, <1>15, <1>16, <1>17, <1>18, <1>19, <1>20, <1>21, <1>22, <1>23, <1>24,
     <1>25, <1>26, <1>27, <1>28 DEF PutStep

LEMMA OrderCopies ==
  ASSUME DurableInv, TasksTyped, CopyInv, NEW h \in Tasks, OrderStep(h)
  PROVE  CopyEffect(h)
<1> DEFINE f == task[h].file
           p == task[h].pc
           q == task'[h].pc
           Stops == {"idle"} \cup OrderPlaces \cup Outside
<1>1. HandlerEffect(h) /\ TurnEffect(h)
  BY OrderEffect, OrderTurns
<1>2. f \in Files /\ p # "idle"
  BY <1>1 DEF TurnEffect
<1>3. q \in Stops /\ p \in Stops \cup {"lock"}
  <2>1. task[h].op # "put" \/ p \in Outside
    BY UploadAssumption
    DEF OrderStep, OrderEnter, OrderCheckpointed, OrderOperates, OrderOperated, OrderFailsFile,
        OrderTold, Ready, TasksTyped, OrderPlaces, Outside
  <2>2. p \in Stops \cup {"lock"}
    BY DEF OrderStep, OrderEnter, OrderCheckpointed, OrderOperates, OrderOperated, OrderFailsFile,
           OrderTold, Entered, Ready, OrderPlaces, Outside
  <2>3. "control_failed" \in Outside
    BY DEF Outside
  <2>4. InTurn(h) => p \notin Outside
    BY DEF InTurn, Entered, Ready, Working, PutPlaces, OrderPlaces, Outside, Finishing, Receiving,
           Ending
  <2>5. QED
    BY <1>1, <2>1, <2>2, <2>3, <2>4 DEF TurnEffect
<1>4. \A pc \in Stops \cup {"lock"} :
        /\ pc \notin Finishing /\ pc \notin {"link", "complete", "completed", "catch", "name"}
        /\ pc \notin Before
  BY DEF OrderPlaces, Outside, Before, Receiving, Finishing
<1>5. /\ copies' = copies
      /\ linked' = linked \/ linked' = [linked EXCEPT ![f] = FALSE]
  BY DEF OrderStep, OrderEnter, OrderCheckpointed, OrderOperates, OrderOperated, OrderFailsFile,
         OrderTold, Unlinked, storage
<1>6. file'[f].status = "finalizing" => file[f].status = "finalizing"
  <2>1. CASE OrderOperates(h) \/ OrderFailsFile(h) \/ OrderEnter(h)
    <3>1. \/ UNCHANGED allVars \/ CancelFile(f) \/ PauseFile(f) \/ Fail(f)
          \/ ConfirmProgress(f, session[f].accepted)
      BY <2>1 DEF OrderOperates, OrderFailsFile, OrderEnter, Await
    <3>2. file'[f].status \in {file[f].status, "failed", "cancelled", "paused", "active"}
      BY <1>2, <3>1, CallsOfHandlers DEF DurableInv, Becomes, allVars, vars
    <3>3. QED
      BY <3>2
  <2>2. CASE OrderCheckpointed(h) \/ OrderOperated(h) \/ OrderTold(h)
    BY <2>2 DEF OrderCheckpointed, OrderOperated, OrderTold, allVars, vars
  <2>3. QED
    BY <2>1, <2>2 DEF OrderStep
<1>7. At(h, q)
  BY <1>1 DEF HandlerEffect, At
<1> HIDE DEF f, p, q, Stops
<1>8. QED
  BY <1>2, <1>3, <1>4, <1>5, <1>6, <1>7, PlainCopyEffect DEF f, p

(* A file stays among those that are finalized or over, with what waits.    *)
LEMMA FinStays ==
  ASSUME DurableInv, DurableInv', disk' = disk, pending' = pending \/ Persist,
         NEW f \in Files, file[f].status \in Fin => file'[f].status \in Fin
  PROVE  /\ AllFin(f) => AllFin(f)'
         /\ \A w \in Nat :
              /\ file[f].status \in Fin
              /\ \A i \in DOMAIN pending : w <= i => pending[i].file[f].status \in Fin
              => \A i \in DOMAIN pending' : w <= i => pending'[i].file[f].status \in Fin
<1> DEFINE n == Len(pending)
<1>1. /\ n \in Nat /\ DOMAIN pending = 1..n /\ DOMAIN pending' = 1..Len(pending')
      /\ Persist => /\ Len(pending') = n + 1 /\ pending'[n + 1] = Snapshot'
                    /\ \A i \in 1..n : pending'[i] = pending[i]
  BY SnapshotsWait DEF DurableInv
<1>2. CASE pending' = pending
  BY <1>2 DEF AllFin
<1>3. CASE Persist
  <2>1. \A i \in DOMAIN pending' : i \in DOMAIN pending \/ i = n + 1
    BY <1>1, <1>3
  <2>2. \A i \in DOMAIN pending : pending'[i] = pending[i]
    BY <1>1, <1>3
  <2>3. pending'[n + 1].file[f].status = file'[f].status
    BY <1>1, <1>3 DEF Snapshot
  <2>4. QED
    BY <2>1, <2>2, <2>3, Zenon DEF AllFin
<1>4. QED
  BY <1>2, <1>3

LEMMA HandlerKeepsCopies ==
  ASSUME UploadInv, UploadInv', CopyInv, NEW h \in Tasks, HandlerStep(h)
  PROVE  CopyInv'
<1> DEFINE f == task[h].file
           n == Len(pending)
           p == task[h].pc
           q == task'[h].pc
<1>1. DurableInv /\ DurableInv' /\ TasksTyped /\ TurnInv
  BY DEF UploadInv, TurnInv
<1>2. HandlerEffect(h) /\ TurnEffect(h)
  BY <1>1, PutEffect, OrderEffect, PutTurns, OrderTurns DEF HandlerStep
<1>3. CopyEffect(h)
  BY <1>1, PutCopies, OrderCopies DEF HandlerStep
<1>4. /\ \A k \in Tasks \ {h} : task'[k] = task[k]
      /\ disk' = disk /\ f \in Files /\ up /\ up' /\ task[h].wait = 0
      /\ \A g \in Files \ {f} : file'[g] = file[g] /\ copies'[g] = copies[g] /\ linked'[g] = linked[g]
      /\ (pending' = pending /\ task'[h].wait = 0) \/ (Persist /\ task'[h].wait = n + 1)
      /\ q \notin {"idle", "lock"} => task'[h].file = f
  BY <1>2, <1>3
  DEF HandlerEffect, CopyEffect, TurnEffect, Goes, Finishes, Outside, Idle
<1>5. /\ n \in Nat /\ DOMAIN pending = 1..n /\ DOMAIN pending' = 1..Len(pending')
      /\ Persist => /\ Len(pending') = n + 1 /\ pending'[n + 1] = Snapshot'
                    /\ \A i \in 1..n : pending'[i] = pending[i]
  BY <1>1, <1>4, SnapshotsWait DEF DurableInv
<1>6. /\ Before \cup {"complete", "completed", "catch"} \cup OrderPlaces \subseteq Working
      /\ "complete" \notin Before /\ "catch" \notin Before /\ "completed" \notin Before
      /\ {"idle", "lock"} \cap Working = {}
      /\ OrderPlaces \cap (Before \cup {"complete", "completed", "catch"}) = {}
      /\ "link" \in Before /\ "name" \in Before
  BY DEF Before, Working, PutPlaces, OrderPlaces, Receiving, Finishing, Ending
<1>7. /\ copies \in [Files -> {0, 1}] /\ linked \in [Files -> BOOLEAN]
      /\ \A g \in Files :
           /\ linked[g] => copies[g] = 1
           /\ copies[g] = 1 => AllFin(g)
           /\ copies[g] = 1 /\ file[g].status = "finalizing" =>
                \E k \in Tasks : task[k].file = g /\ task[k].pc \in {"complete", "catch"}
           /\ file[g].status = "completed" => copies[g] = 1
      /\ \A k \in Tasks : task[k].pc \in Before => copies[task[k].file] = 0
      /\ \A k \in Tasks : task[k].pc \in {"complete", "completed"} => copies[task[k].file] = 1
      /\ \A k \in Tasks : task[k].pc = "link" /\ (task[k].wait # 0 \/ ~task[k].broke) =>
           /\ file[task[k].file].status \in Fin
           /\ task[k].wait = 0 => disk.file[task[k].file].status \in Fin
           /\ \A i \in DOMAIN pending :
                task[k].wait <= i => pending[i].file[task[k].file].status \in Fin
  BY <1>4 DEF CopyInv, Before
<1>8. \A k \in Tasks : task[k].file = f /\ task[k].pc \in Working /\ InTurn(h) => k = h
  BY <1>1, <1>4, OneHandlerWorks DEF InTurn
<1>9. \A pc : pc \in Working /\ p = pc => InTurn(h)
  BY DEF InTurn
<1> HIDE DEF f, n, p, q
(* What is finalized or over stays so, once it has its copy. *)
<1>10. copies[f] = 1 /\ file[f].status \in Fin => file'[f].status \in Fin
  <2>1. SUFFICES ASSUME copies[f] = 1, file[f].status \in Fin, file'[f].status \notin Fin
                 PROVE  FALSE
    OBVIOUS
  <2>2. p \in OrderPlaces /\ file[f].status \notin Ended
    BY <1>2, <2>1 DEF HandlerEffect, Fin, f, p
  <2>3. PICK k \in Tasks : task[k].file = f /\ task[k].pc \in {"complete", "catch"}
    BY <1>4, <1>7, <2>1, <2>2 DEF Fin
  <2>4. k = h
    BY <1>6, <1>8, <1>9, <2>2, <2>3
  <2>5. QED
    BY <1>6, <2>2, <2>3, <2>4 DEF p
<1>11. ASSUME NEW g \in Files, file[g].status \in Fin => file'[g].status \in Fin
       PROVE  /\ AllFin(g) => AllFin(g)'
              /\ \A w \in Nat :
                   /\ file[g].status \in Fin
                   /\ \A i \in DOMAIN pending : w <= i => pending[i].file[g].status \in Fin
                   => \A i \in DOMAIN pending' : w <= i => pending'[i].file[g].status \in Fin
  BY <1>1, <1>4, <1>11, FinStays
(* The copies. *)
<1>12. ASSUME NEW g \in Files
       PROVE  /\ linked'[g] => copies'[g] = 1
              /\ copies'[g] = 1 => AllFin(g)'
              /\ copies'[g] = 1 /\ file'[g].status = "finalizing" =>
                   \E k \in Tasks : task'[k].file = g /\ task'[k].pc \in {"complete", "catch"}
              /\ file'[g].status = "completed" => copies'[g] = 1
  <2>1. CASE g # f
    <3>1. file'[g] = file[g] /\ copies'[g] = copies[g] /\ linked'[g] = linked[g]
      BY <1>4, <2>1
    <3>2. AllFin(g) => AllFin(g)'
      BY <1>11, <3>1
    <3>3. ASSUME NEW k \in Tasks, task[k].file = g PROVE task'[k] = task[k]
      BY <1>4, <2>1, <3>3 DEF f
    <3>4. QED
      BY <1>7, <3>1, <3>2, <3>3
  <2>2. CASE g = f
    <3>1. CASE /\ copies'[f] = copies[f] /\ (linked'[f] => linked[f])
               /\ p \in {"complete", "catch"} => q = "catch" \/ file'[f].status # "finalizing"
      <4>1. copies'[f] = 1 => AllFin(g)'
        <5>1. ASSUME copies[f] = 1 PROVE AllFin(g)'
          <6>1. AllFin(f) /\ (file[f].status \in Fin => file'[f].status \in Fin)
            BY <1>7, <1>10, <1>4, <5>1
          <6>2. QED
            BY <1>4, <1>11, <2>2, <6>1
        <5>2. QED
          BY <3>1, <5>1
      <4>2. copies'[f] = 1 /\ file'[f].status = "finalizing" =>
              \E k \in Tasks : task'[k].file = f /\ task'[k].pc \in {"complete", "catch"}
        <5>1. SUFFICES ASSUME copies[f] = 1, file'[f].status = "finalizing"
                       PROVE  \E k \in Tasks :
                                task'[k].file = f /\ task'[k].pc \in {"complete", "catch"}
          BY <3>1
        <5>2. p # "name"
          BY <1>6, <1>7, <5>1 DEF f, p
        <5>3. file[f].status = "finalizing"
          BY <1>3, <5>1, <5>2 DEF CopyEffect, f, p
        <5>4. PICK k \in Tasks : task[k].file = f /\ task[k].pc \in {"complete", "catch"}
          BY <1>4, <1>7, <5>1, <5>3
        <5>5. CASE k # h
          BY <1>4, <5>4, <5>5
        <5>6. CASE k = h
          <6>1. q = "catch"
            BY <3>1, <5>1, <5>4, <5>6 DEF p
          <6>2. task'[h].file = f
            BY <1>4, <6>1
          <6>3. QED
            BY <6>1, <6>2 DEF q
        <5>7. QED
          BY <5>5, <5>6
      <4>3. file'[f].status = "completed" => copies'[f] = 1
        <5>1. file'[f].status = "completed" => file[f].status = "completed" \/ p = "complete"
          BY <1>2 DEF HandlerEffect, f, p
        <5>2. p = "complete" => copies[f] = 1
          BY <1>7 DEF f, p
        <5>3. QED
          BY <1>4, <1>7, <3>1, <5>1, <5>2
      <4>4. linked'[f] => copies'[f] = 1
        BY <1>4, <1>7, <3>1
      <4>5. QED
        BY <2>2, <4>1, <4>2, <4>3, <4>4
    <3>2. CASE /\ p = "link" /\ q = "complete" /\ ~task[h].broke
               /\ copies'[f] = 1 /\ UNCHANGED allVars
      <4>1. file' = file /\ pending' = pending /\ disk' = disk
        BY <3>2 DEF allVars, vars, durable
      <4>2. AllFin(f)
        <5>1. /\ file[f].status \in Fin
              /\ task[h].wait = 0 => disk.file[f].status \in Fin
              /\ \A i \in DOMAIN pending : task[h].wait <= i => pending[i].file[f].status \in Fin
          BY <1>7, <3>2 DEF f, p
        <5>2. \A i \in DOMAIN pending : task[h].wait <= i
          BY <1>4, <1>5
        <5>3. QED
          BY <1>4, <5>1, <5>2 DEF AllFin
      <4>3. AllFin(g)'
        BY <2>2, <4>1, <4>2 DEF AllFin
      <4>4. task'[h].file = f /\ task'[h].pc = "complete"
        BY <1>4, <3>2 DEF q
      <4>5. QED
        BY <2>2, <3>2, <4>3, <4>4
    <3>3. CASE /\ p = "catch" /\ q \in {"idle", "caught"}
               /\ copies'[f] = 1 => copies[f] = 1
               /\ ~linked'[f] /\ file'[f].status \notin {"finalizing", "completed"}
      <4>1. copies'[f] = 1 => copies[f] = 1
        BY <3>3
      <4>2. ASSUME copies[f] = 1 PROVE AllFin(g)'
        <5>1. AllFin(f) /\ (file[f].status \in Fin => file'[f].status \in Fin)
          BY <1>7, <1>10, <1>4, <4>2
        <5>2. QED
          BY <1>4, <1>11, <2>2, <5>1
      <4>3. QED
        BY <2>2, <3>3, <4>1, <4>2
    <3>4. QED
      BY <1>3, <3>1, <3>2, <3>3 DEF CopyEffect, f, p, q
  <2>3. QED
    BY <2>1, <2>2
(* The handlers. *)
<1>13. ASSUME NEW k \in Tasks
       PROVE  /\ task'[k].pc \in Before => copies'[task'[k].file] = 0
              /\ task'[k].pc \in {"complete", "completed"} => copies'[task'[k].file] = 1
              /\ task'[k].pc = "link" /\ (task'[k].wait # 0 \/ ~task'[k].broke) =>
                   /\ file'[task'[k].file].status \in Fin
                   /\ task'[k].wait = 0 => disk'.file[task'[k].file].status \in Fin
                   /\ \A i \in DOMAIN pending' :
                        task'[k].wait <= i => pending'[i].file[task'[k].file].status \in Fin
  <2>1. CASE k = h
    <3>1. SUFFICES ASSUME q \in Before \cup {"complete", "completed"}
                   PROVE  /\ q \in Before => copies'[f] = 0
                          /\ q \in {"complete", "completed"} => copies'[f] = 1
                          /\ q = "link" =>
                               /\ file'[f].status \in Fin
                               /\ task'[h].wait = 0 => disk'.file[f].status \in Fin
                               /\ \A i \in DOMAIN pending' :
                                    task'[h].wait <= i => pending'[i].file[f].status \in Fin
      <4>1. q \in Before \cup {"complete", "completed"} => task'[h].file = f
        BY <1>4, <1>6
      <4>2. q = task'[h].pc
        BY DEF q
      <4>3. QED
        BY <1>6, <2>1, <3>1, <4>1, <4>2
    <3>2. ASSUME q \in Before PROVE copies'[f] = 0
      <4>1. copies'[f] = copies[f] /\ (p \in Before \/ file[f].status = "active")
        <5>1. "idle" \notin Before /\ "caught" \notin Before /\ "complete" \notin Before
          BY DEF Before, Receiving
        <5>2. QED
          BY <1>3, <3>2, <5>1 DEF CopyEffect, f, p, q
      <4>2. file[f].status = "active" => copies[f] # 1
        BY <1>4, <1>7 DEF AllFin, Fin, Ended
      <4>3. copies[f] \in {0, 1}
        BY <1>4, <1>7
      <4>4. QED
        BY <1>7, <4>1, <4>2, <4>3 DEF f, p
    <3>3. ASSUME q \in {"complete", "completed"} PROVE copies'[f] = 1
      <4>1. \/ q = "completed" /\ p = "complete" /\ copies'[f] = copies[f]
            \/ copies'[f] = 1
        BY <1>3, <3>3 DEF CopyEffect, f, p, q
      <4>2. QED
        BY <1>7, <4>1 DEF f, p
    <3>4. ASSUME q = "link"
          PROVE  /\ file'[f].status \in Fin
                 /\ task'[h].wait # 0
                 /\ \A i \in DOMAIN pending' :
                      task'[h].wait <= i => pending'[i].file[f].status \in Fin
      <4>1. file'[f].status = "finalizing" /\ Persist
        BY <1>3, <3>4 DEF CopyEffect, f, q
      <4>2. pending' # pending
        BY <1>5, <4>1
      <4>3. task'[h].wait = n + 1
        BY <1>4, <4>2
      <4>4. \A i \in DOMAIN pending' : n + 1 <= i => i = n + 1
        BY <1>5, <4>1
      <4>5. pending'[n + 1].file[f].status \in Fin
        BY <1>5, <4>1 DEF Snapshot, Fin
      <4>6. QED
        BY <1>5, <4>1, <4>3, <4>4, <4>5 DEF Fin
    <3>5. QED
      BY <3>2, <3>3, <3>4
  <2>2. CASE k # h
    <3>1. task'[k] = task[k]
      BY <1>4, <2>2
    <3>2. SUFFICES ASSUME task[k].pc \in Before \cup {"complete", "completed"}
                   PROVE  /\ copies'[task[k].file] = copies[task[k].file]
                          /\ task[k].pc = "link" /\ (task[k].wait # 0 \/ ~task[k].broke) =>
                               /\ file'[task[k].file].status \in Fin
                               /\ \A i \in DOMAIN pending' :
                                    task[k].wait <= i =>
                                      pending'[i].file[task[k].file].status \in Fin
      BY <1>4, <1>6, <1>7, <3>1, <3>2
    <3>3. task[k].pc \in Working /\ task[k].file \in Files /\ task[k].wait \in Nat
      <4>1. task[k].pc \in Working /\ task[k].pc # "idle"
        BY <1>6, <3>2
      <4>2. QED
        BY <1>1, <4>1 DEF TasksTyped, Task
    <3>4. CASE task[k].file # f
      <4>1. /\ copies'[task[k].file] = copies[task[k].file]
            /\ file'[task[k].file] = file[task[k].file]
        BY <1>4, <3>3, <3>4
      <4>2. QED
        BY <1>7, <1>11, <3>3, <4>1
    <3>5. CASE task[k].file = f
      <4>1. ~InTurn(h)
        BY <1>8, <2>2, <3>3, <3>5
      <4>2. p \notin {"link", "catch"} \cup OrderPlaces
        BY <1>6, <1>9, <4>1
      <4>3. copies'[f] = copies[f] /\ (file[f].status \in Fin => file'[f].status \in Fin)
        BY <1>2, <1>3, <4>2 DEF CopyEffect, HandlerEffect, f, p
      <4>4. QED
        BY <1>4, <1>7, <1>11, <3>3, <3>5, <4>3
    <3>6. QED
      BY <3>4, <3>5
  <2>3. QED
    BY <2>1, <2>2
<1>14. copies' \in [Files -> {0, 1}] /\ linked' \in [Files -> BOOLEAN]
  BY <1>3 DEF CopyEffect
<1>15. QED
  BY <1>12, <1>13, <1>14 DEF CopyInv, Before

(* A restart ends what has a copy, and completes nothing that has none.     *)
LEMMA RestartEndsCopied ==
  ASSUME UploadInv, CopyInv, NEW f \in Files,
         Reopen(SharedInode) \/ ReopenInterrupted(SharedInode)
  PROVE  /\ copies[f] = 1 => file'[f].status \in Ended /\ disk'.file[f].status \in Ended
         /\ file'[f].status = "completed" => copies[f] = 1
<1> DEFINE F == Recovered(SharedInode)
           B == RecoveredBatches(F)
           Due(t) == /\ B[t].status \notin TerminalBatch \cup {"absent"}
                     /\ B[t].expiresAt <= now
<1>1. file[f] \in FileRecord
  BY DEF UploadInv, DurableInv, CoreInv, TypeOK
<1>2. /\ linked[f] => copies[f] = 1
      /\ copies[f] = 1 => file[f].status \in Fin
      /\ file[f].status = "completed" => copies[f] = 1
  BY DEF CopyInv, AllFin
<1>3. file[f].status = "finalizing" => batch[Owner[f]].status \notin TerminalBatch
  BY DEF UploadInv, InFlightIsRecovered, Alive, AliveIn, Snapshot, InFlight
<1>4. F[f] = IF batch[Owner[f]].status \in TerminalBatch THEN file[f]
             ELSE RecoveredFile(f, SharedInode)
  BY DEF Recovered
<1>5. F[f] \in FileRecord
  BY <1>1, <1>4, RecoveredFileMeaning
<1>6. file[f].status \in Fin => F[f].status \in Ended
  <2>1. CASE file[f].status = "finalizing"
    <3>1. F[f] = RecoveredFile(f, SharedInode)
      BY <1>3, <1>4, <2>1
    <3>2. QED
      BY <1>1, <2>1, <3>1 DEF RecoveredFile, FileRecord, Ended
  <2>2. CASE file[f].status \in Ended
    <3>1. RecoveredFile(f, SharedInode) = file[f]
      BY <2>2 DEF RecoveredFile, Ended
    <3>2. QED
      BY <1>4, <2>2, <3>1
  <2>3. QED
    BY <2>1, <2>2 DEF Fin
<1>7. F[f].status = "completed" => copies[f] = 1
  <2>1. ASSUME F[f].status = "completed", file[f].status # "completed"
        PROVE  linked[f]
    <3>1. F[f] = RecoveredFile(f, SharedInode)
      BY <1>4, <2>1
    <3>2. f \in SharedInode
      BY <1>1, <2>1, <3>1 DEF RecoveredFile, FileRecord
    <3>3. QED
      BY <3>2 DEF SharedInode
  <2>2. QED
    BY <1>2, <2>1
<1>8. CASE Reopen(SharedInode)
  <2>1. /\ file' = [g \in Files |->
                      IF Due(Owner[g]) /\ F[g].status \notin TerminalFile
                      THEN [F[g] EXCEPT !.status = "failed"] ELSE F[g]]
        /\ disk' = Snapshot'
    BY <1>8 DEF Reopen
  <2>2. disk'.file = file'
    BY <2>1 DEF Snapshot
  <2> HIDE DEF F, B, Due
  <2>3. /\ F[f].status \in Ended => file'[f].status \in Ended
        /\ file'[f].status = "completed" => F[f].status = "completed"
    BY <1>5, <2>1 DEF FileRecord, Ended, TerminalFile
  <2>4. QED
    BY <1>2, <1>6, <1>7, <2>2, <2>3
<1>9. CASE ReopenInterrupted(SharedInode)
  <2>1. disk' = [order |-> order, batch |-> B, file |-> F] /\ file' = disk'.file
    BY <1>9 DEF ReopenInterrupted, Recover
  <2> HIDE DEF F, B
  <2>2. QED
    BY <1>2, <1>6, <1>7, <2>1
<1>10. QED
  BY <1>8, <1>9

(* When no handler runs and nothing waits to be saved, the copies are       *)
(* those of files that are over.                                            *)
LEMMA CopiesAtRest ==
  ASSUME copies \in [Files -> {0, 1}], linked \in [Files -> BOOLEAN], pending = <<>>,
         \A h \in Tasks : task[h].pc = "idle",
         \A f \in Files :
           /\ linked[f] => copies[f] = 1
           /\ copies[f] = 1 => file[f].status \in Fin /\ disk.file[f].status \in Fin
           /\ copies[f] = 1 /\ file[f].status = "finalizing" => ~up
           /\ file[f].status = "completed" => copies[f] = 1
  PROVE  CopyInv
<1>1. "idle" \notin Receiving \cup {"verified", "hash", "name", "link", "complete", "completed"}
  BY DEF Receiving
<1>2. \A f \in Files : copies[f] = 1 => AllFin(f)
  BY DEF AllFin
<1>3. QED
  BY <1>1, <1>2 DEF CopyInv

LEMMA RestartKeepsCopies ==
  ASSUME UploadInv, CopyInv, NEW kept, Restart \/ RestartInterrupted(kept)
  PROVE  CopyInv'
<1>1. /\ Reopen(SharedInode) \/ ReopenInterrupted(SharedInode)
      /\ UNCHANGED <<task, copies>> /\ ~up
  BY DEF Restart, RestartInterrupted, Reopen, ReopenInterrupted
<1>2. linked' \in [Files -> BOOLEAN] /\ \A f \in Files : linked'[f] => linked[f]
  BY DEF Restart, RestartInterrupted
<1>3. /\ pending' = <<>>
      /\ \A f \in Files : file'[f].status # "finalizing"
  BY <1>1, RestartEndsWhatWasInFlight DEF UploadInv, DurableInv, InFlight
<1>4. \A h \in Tasks : task'[h].pc = "idle"
  BY <1>1 DEF UploadInv, TurnInv, TasksTyped
<1>5. \A f \in Files :
        /\ copies[f] = 1 => file'[f].status \in Ended /\ disk'.file[f].status \in Ended
        /\ file'[f].status = "completed" => copies[f] = 1
  BY <1>1, RestartEndsCopied
<1>6. copies' \in [Files -> {0, 1}] /\ \A f \in Files : linked'[f] => copies'[f] = 1
  BY <1>1, <1>2 DEF CopyInv
<1>7. \A f \in Files : copies'[f] = 1 => file'[f].status \in Fin /\ disk'.file[f].status \in Fin
  BY <1>1, <1>5 DEF Fin
<1>8. \A f \in Files : file'[f].status = "completed" => copies'[f] = 1
  BY <1>1, <1>5
<1>9. \A f \in Files : copies'[f] = 1 /\ file'[f].status = "finalizing" => ~up'
  BY <1>3
<1> DEFINE Rest ==
      /\ copies \in [Files -> {0, 1}] /\ linked \in [Files -> BOOLEAN] /\ pending = <<>>
      /\ \A h \in Tasks : task[h].pc = "idle"
      /\ \A f \in Files :
           /\ linked[f] => copies[f] = 1
           /\ copies[f] = 1 => file[f].status \in Fin /\ disk.file[f].status \in Fin
           /\ copies[f] = 1 /\ file[f].status = "finalizing" => ~up
           /\ file[f].status = "completed" => copies[f] = 1
<1>10. Rest'
  BY <1>2, <1>3, <1>4, <1>6, <1>7, <1>8, <1>9
<1>11. QED
  BY <1>10, CopiesAtRest, PTL

(* A call without the lock unlinks at most, and fails what it ends.         *)
LEMMA UnlockedKeepsCopies ==
  ASSUME ~BatchOrders, UploadInv, UploadInv', CopyInv, UnlockedStep
  PROVE  CopyInv'
<1>1. /\ up /\ up' = up /\ disk' = disk /\ UNCHANGED <<task, copies>>
      /\ pending' = pending \/ Persist
  BY UnlockedFrame
<1>2. DurableInv /\ DurableInv' /\ CoreInv /\ TasksTyped
  BY DEF UploadInv, TurnInv, DurableInv
<1>3. linked' \in [Files -> BOOLEAN] /\ \A f \in Files : linked'[f] => linked[f]
  <2>1. CASE linked' = linked
    BY <2>1 DEF CopyInv
  <2>2. ASSUME NEW f \in Files, Unlinked(f)
        PROVE  linked' \in [Files -> BOOLEAN] /\ \A g \in Files : linked'[g] => linked[g]
    BY <2>2 DEF Unlinked, CopyInv
  <2>3. QED
    BY <2>1, <2>2
    DEF UnlockedStep, Offer, BatchOrder, OfferTells, OfferRetries, OfferRetried, Resume,
        ActivateNext, uploadVars, storage
<1>4. ASSUME NEW f \in Files
      PROVE  /\ file'[f].status \in {"finalizing", "completed"} => file'[f] = file[f]
             /\ file[f].status \in Fin => file'[f].status \in Fin
             /\ AllFin(f) => AllFin(f)'
             /\ \A w \in Nat :
                  /\ file[f].status \in Fin
                  /\ \A i \in DOMAIN pending : w <= i => pending[i].file[f].status \in Fin
                  => \A i \in DOMAIN pending' : w <= i => pending'[i].file[f].status \in Fin
  <2>1. /\ file'[f].status \in {"finalizing", "completed"} => file'[f] = file[f]
        /\ file[f].status \in Fin => file'[f].status \in Fin
    BY <1>2, UnlockedCalls
  <2>2. QED
    BY <1>1, <1>2, <2>1, FinStays
<1>5. ASSUME NEW f \in Files
      PROVE  /\ linked'[f] => copies'[f] = 1
             /\ copies'[f] = 1 => AllFin(f)'
             /\ copies'[f] = 1 /\ file'[f].status = "finalizing" /\ up' =>
                  \E h \in Tasks : task'[h].file = f /\ task'[h].pc \in {"complete", "catch"}
             /\ file'[f].status = "completed" => copies'[f] = 1
  <2>1. /\ linked[f] => copies[f] = 1
        /\ copies[f] = 1 => AllFin(f)
        /\ copies[f] = 1 /\ file[f].status = "finalizing" /\ up =>
             \E h \in Tasks : task[h].file = f /\ task[h].pc \in {"complete", "catch"}
        /\ file[f].status = "completed" => copies[f] = 1
    BY DEF CopyInv
  <2>2. task' = task /\ copies' = copies /\ up
    BY <1>1
  <2>3. linked'[f] => linked[f]
    BY <1>3
  <2>4. QED
    BY <1>4, <2>1, <2>2, <2>3
<1>6. ASSUME NEW h \in Tasks, task[h].pc = "link", task[h].wait # 0 \/ ~task[h].broke
      PROVE  /\ file'[task[h].file].status \in Fin
             /\ task[h].wait = 0 => disk'.file[task[h].file].status \in Fin
             /\ \A i \in DOMAIN pending' :
                  task[h].wait <= i => pending'[i].file[task[h].file].status \in Fin
  <2>1. task[h].file \in Files /\ task[h].wait \in Nat
    BY <1>2, <1>6 DEF TasksTyped, Task
  <2>2. /\ file[task[h].file].status \in Fin
        /\ task[h].wait = 0 => disk.file[task[h].file].status \in Fin
        /\ \A i \in DOMAIN pending :
             task[h].wait <= i => pending[i].file[task[h].file].status \in Fin
    BY <1>6 DEF CopyInv
  <2>3. QED
    BY <1>1, <1>4, <2>1, <2>2
<1>7. QED
  BY <1>1, <1>3, <1>5, <1>6 DEF CopyInv

(* An offer without space fails a file outside the locks.                   *)
LEMMA OffersKeepCopies ==
  ASSUME UploadInv, UploadInv', CopyInv, NEW h \in Tasks, NEW o \in Files,
         OfferWithoutSpace(h, o)
  PROVE  CopyInv'
<1>1. DurableInv /\ DurableInv' /\ CoreInv /\ TasksTyped
  BY DEF UploadInv, TurnInv, DurableInv
<1>2. /\ up /\ up' = up /\ disk' = disk /\ UNCHANGED <<copies, linked>>
      /\ pending' = pending \/ Persist
      /\ task[h].pc = "idle" /\ \A k \in Tasks \ {h} : task'[k] = task[k]
      /\ task'[h].pc \in Outside
  BY <1>1, OffersStayOutside DEF allVars, durable
<1>3. ASSUME NEW f \in Files
      PROVE  /\ file'[f].status \in {"finalizing", "completed"} => file'[f] = file[f]
             /\ file[f].status \in Fin => file'[f].status \in Fin
             /\ AllFin(f) => AllFin(f)'
             /\ \A w \in Nat :
                  /\ file[f].status \in Fin
                  /\ \A i \in DOMAIN pending : w <= i => pending[i].file[f].status \in Fin
                  => \A i \in DOMAIN pending' : w <= i => pending'[i].file[f].status \in Fin
  <2>1. /\ file'[f].status \in {"finalizing", "completed"} => file'[f] = file[f]
        /\ file[f].status \in Fin => file'[f].status \in Fin
    BY <1>1, OfferCalls DEF Fin, Ended
  <2>2. QED
    BY <1>1, <1>2, <2>1, FinStays
<1>4. ASSUME NEW k \in Tasks, task[k].pc \in {"complete", "catch"} PROVE task'[k] = task[k]
  BY <1>2, <1>4
<1>5. ASSUME NEW f \in Files
      PROVE  /\ linked'[f] => copies'[f] = 1
             /\ copies'[f] = 1 => AllFin(f)'
             /\ copies'[f] = 1 /\ file'[f].status = "finalizing" /\ up' =>
                  \E k \in Tasks : task'[k].file = f /\ task'[k].pc \in {"complete", "catch"}
             /\ file'[f].status = "completed" => copies'[f] = 1
  <2>1. /\ linked[f] => copies[f] = 1
        /\ copies[f] = 1 => AllFin(f)
        /\ copies[f] = 1 /\ file[f].status = "finalizing" /\ up =>
             \E k \in Tasks : task[k].file = f /\ task[k].pc \in {"complete", "catch"}
        /\ file[f].status = "completed" => copies[f] = 1
    BY DEF CopyInv
  <2>2. QED
    BY <1>2, <1>3, <1>4, <2>1
<1>6. ASSUME NEW k \in Tasks, task'[k].pc \in Before \cup {"complete", "completed"}
      PROVE  task'[k] = task[k]
  <2>1. Outside \cap (Before \cup {"complete", "completed"}) = {}
    BY DEF Outside, Before, Receiving
  <2>2. QED
    BY <1>2, <1>6, <2>1
<1>7. ASSUME NEW k \in Tasks, task[k].pc = "link", task[k].wait # 0 \/ ~task[k].broke
      PROVE  /\ file'[task[k].file].status \in Fin
             /\ task[k].wait = 0 => disk'.file[task[k].file].status \in Fin
             /\ \A i \in DOMAIN pending' :
                  task[k].wait <= i => pending'[i].file[task[k].file].status \in Fin
  <2>1. task[k].file \in Files /\ task[k].wait \in Nat
    BY <1>1, <1>7 DEF TasksTyped, Task
  <2>2. /\ file[task[k].file].status \in Fin
        /\ task[k].wait = 0 => disk.file[task[k].file].status \in Fin
        /\ \A i \in DOMAIN pending :
             task[k].wait <= i => pending[i].file[task[k].file].status \in Fin
    BY <1>7 DEF CopyInv
  <2>3. QED
    BY <1>2, <1>3, <2>1, <2>2
<1>8. ASSUME NEW k \in Tasks, task'[k].pc \in Before \cup {"complete", "completed"}
      PROVE  /\ task'[k].pc \in Before => copies'[task'[k].file] = 0
             /\ task'[k].pc \in {"complete", "completed"} => copies'[task'[k].file] = 1
             /\ task'[k].pc = "link" /\ (task'[k].wait # 0 \/ ~task'[k].broke) =>
                  /\ file'[task'[k].file].status \in Fin
                  /\ task'[k].wait = 0 => disk'.file[task'[k].file].status \in Fin
                  /\ \A i \in DOMAIN pending' :
                       task'[k].wait <= i => pending'[i].file[task'[k].file].status \in Fin
  <2>1. task'[k] = task[k]
    BY <1>6, <1>8
  <2>2. /\ task[k].pc \in Before => copies[task[k].file] = 0
        /\ task[k].pc \in {"complete", "completed"} => copies[task[k].file] = 1
    BY DEF CopyInv, Before
  <2>3. QED
    BY <1>2, <1>7, <2>1, <2>2
<1>9. copies' \in [Files -> {0, 1}] /\ linked' \in [Files -> BOOLEAN]
  BY <1>2 DEF CopyInv
<1>10. QED
  BY <1>5, <1>8, <1>9 DEF CopyInv, Before

(* A save moves a snapshot to the disk, or it is dropped.                   *)
LEMMA SavesKeepCopies ==
  ASSUME UploadInv, CopyInv, SaveStep \/ SaveRejects
  PROVE  CopyInv'
<1> DEFINE n == Len(pending)
<1>1. PICK r \in BOOLEAN : /\ Waited(r) /\ UNCHANGED <<file, up, copies, linked>>
                           /\ pending # <<>> /\ pending' = Tail(pending)
                           /\ disk' = IF r THEN disk ELSE Head(pending)
  BY DEF SaveStep, SaveRejects, Save, SaveFails, vars, storage
<1>2. pending \in Seq(SnapshotType) /\ TasksTyped
  BY DEF UploadInv, DurableInv, TurnInv
<1>3. /\ n \in Nat /\ n # 0 /\ DOMAIN pending = 1..n /\ DOMAIN pending' = 1..(n - 1)
      /\ \A i \in 1..(n - 1) : pending'[i] = pending[i + 1]
      /\ disk' = disk \/ disk' = pending[1]
      /\ ~r => disk' = pending[1]
  BY <1>1, <1>2
<1> HIDE DEF n
<1>4. ASSUME NEW i \in DOMAIN pending'
      PROVE  i + 1 \in DOMAIN pending /\ pending'[i] = pending[i + 1] /\ i \in Nat
  BY <1>3
<1>5. ASSUME NEW f \in Files, AllFin(f) PROVE AllFin(f)'
  <2>1. disk'.file[f].status \in Fin
    <3>1. 1 \in DOMAIN pending
      BY <1>3
    <3>2. QED
      BY <1>3, <1>5, <3>1 DEF AllFin
  <2>2. QED
    BY <1>1, <1>4, <1>5, <2>1 DEF AllFin
<1>6. ASSUME NEW h \in Tasks
      PROVE  /\ task'[h].pc = task[h].pc /\ task'[h].file = task[h].file
             /\ task[h].wait = 0 => task'[h] = task[h]
             /\ task[h].wait # 0 => /\ task'[h].wait = task[h].wait - 1
                                    /\ task'[h].broke = (r /\ task[h].wait = 1)
             /\ task[h].wait \in Nat /\ task[h].wait <= n
  BY <1>1, <1>2, WaitedFrame DEF TasksTyped, Task, n
<1>7. ASSUME NEW h \in Tasks, task[h].pc = "link", task'[h].wait # 0 \/ ~task'[h].broke
      PROVE  /\ file'[task[h].file].status \in Fin
             /\ task'[h].wait = 0 => disk'.file[task[h].file].status \in Fin
             /\ \A i \in DOMAIN pending' :
                  task'[h].wait <= i => pending'[i].file[task[h].file].status \in Fin
  <2> DEFINE f == task[h].file
             w == task[h].wait
  <2>1. w \in Nat /\ w <= n /\ (w # 0 \/ ~task[h].broke)
    BY <1>6, <1>7
  <2>2. /\ file[f].status \in Fin
        /\ w = 0 => disk.file[f].status \in Fin
        /\ \A i \in DOMAIN pending : w <= i => pending[i].file[f].status \in Fin
    BY <1>7, <2>1 DEF CopyInv
  <2>3. CASE w = 0
    <3>1. /\ task'[h].wait = 0
          /\ \A i \in DOMAIN pending : pending[i].file[f].status \in Fin
      BY <1>3, <1>6, <2>2, <2>3
    <3>2. AllFin(f)
      BY <2>2, <2>3, <3>1 DEF AllFin
    <3>3. disk'.file[f].status \in Fin
      BY <1>3, <2>2, <2>3, <3>1
    <3>4. QED
      BY <1>1, <1>4, <2>2, <3>1, <3>3
  <2>4. CASE w # 0
    <3>1. task'[h].wait = w - 1 /\ (w = 1 => ~r)
      BY <1>6, <1>7, <2>4
    <3> HIDE DEF f, w
    <3>2. w = 1 => disk'.file[f].status \in Fin
      BY <1>3, <2>2, <3>1
    <3>3. ASSUME NEW i \in DOMAIN pending', w - 1 <= i
          PROVE  pending'[i].file[f].status \in Fin
      <4>1. w <= i + 1
        BY <1>4, <2>1, <3>3
      <4>2. QED
        BY <1>4, <2>2, <4>1
    <3>4. w - 1 = 0 => w = 1
      BY <2>1
    <3>5. QED
      BY <1>1, <2>2, <3>1, <3>2, <3>3, <3>4 DEF f
  <2>5. QED
    BY <2>3, <2>4
<1>8. ASSUME NEW f \in Files
      PROVE  /\ linked'[f] => copies'[f] = 1
             /\ copies'[f] = 1 => AllFin(f)'
             /\ copies'[f] = 1 /\ file'[f].status = "finalizing" /\ up' =>
                  \E h \in Tasks : task'[h].file = f /\ task'[h].pc \in {"complete", "catch"}
             /\ file'[f].status = "completed" => copies'[f] = 1
  <2>1. /\ linked[f] => copies[f] = 1
        /\ copies[f] = 1 => AllFin(f)
        /\ copies[f] = 1 /\ file[f].status = "finalizing" /\ up =>
             \E h \in Tasks : task[h].file = f /\ task[h].pc \in {"complete", "catch"}
        /\ file[f].status = "completed" => copies[f] = 1
    BY DEF CopyInv
  <2>2. QED
    BY <1>1, <1>5, <1>6, <2>1
<1>9. copies' \in [Files -> {0, 1}] /\ linked' \in [Files -> BOOLEAN]
  BY <1>1 DEF CopyInv
<1>10. ASSUME NEW h \in Tasks
       PROVE  /\ task'[h].pc \in Receiving \cup {"verified", "hash", "name", "link"} =>
                   copies'[task'[h].file] = 0
              /\ task'[h].pc \in {"complete", "completed"} => copies'[task'[h].file] = 1
  BY <1>1, <1>6 DEF CopyInv
<1>11. QED
  BY <1>6, <1>7, <1>8, <1>9, <1>10 DEF CopyInv

LEMMA NextKeepsCopies ==
  ASSUME ~BatchOrders, UploadInv, UploadInv', CopyInv, [UploadNext]_everything
  PROVE  CopyInv'
<1>1. DurableInv /\ TasksTyped
  BY DEF UploadInv, TurnInv
<1>2. CASE StartTask
  <2>1. PICK h \in Tasks : \E f \in Files : \E op, offset : Start(h, op, f, offset)
    BY <1>2 DEF StartTask, StartPut, StartOrder
  <2>2. PICK f \in Files : \E op, offset : Start(h, op, f, offset)
    BY <2>1
  <2>3. PICK op, offset : Start(h, op, f, offset)
    BY <2>2
  <2> DEFINE u == [[[[Idle EXCEPT !.op = op] EXCEPT !.file = f] EXCEPT !.offset = offset]
                    EXCEPT !.pc = "lock"]
  <2>4. /\ task[h].pc = "idle" /\ task' = [task EXCEPT ![h] = u]
        /\ UNCHANGED <<disk, pending, up, file, copies, linked>>
    BY <2>3 DEF Start, allVars, vars, durable, storage
  <2>5. u.pc = "lock"
    BY DEF Idle
  <2> HIDE DEF u
  <2>6. task'[h] = u /\ \A k \in Tasks \ {h} : task'[k] = task[k]
    BY <1>1, <2>4 DEF TasksTyped
  <2>7. ASSUME NEW k \in Tasks,
               task'[k].pc \in Before \cup {"complete", "completed"}
        PROVE  task'[k] = task[k]
    BY <2>5, <2>6, <2>7 DEF Before, Receiving
  <2>8. ASSUME NEW k \in Tasks, task[k].pc \in {"complete", "catch"}
        PROVE  task'[k] = task[k]
    BY <2>4, <2>6, <2>8
  <2>9. \A g \in Files : AllFin(g) => AllFin(g)'
    BY <2>4 DEF AllFin
  <2>10. ASSUME NEW g \in Files
         PROVE  /\ linked'[g] => copies'[g] = 1
                /\ copies'[g] = 1 => AllFin(g)'
                /\ copies'[g] = 1 /\ file'[g].status = "finalizing" /\ up' =>
                     \E k \in Tasks : task'[k].file = g /\ task'[k].pc \in {"complete", "catch"}
                /\ file'[g].status = "completed" => copies'[g] = 1
    <3>1. /\ linked[g] => copies[g] = 1
          /\ copies[g] = 1 => AllFin(g)
          /\ copies[g] = 1 /\ file[g].status = "finalizing" /\ up =>
               \E k \in Tasks : task[k].file = g /\ task[k].pc \in {"complete", "catch"}
          /\ file[g].status = "completed" => copies[g] = 1
      BY DEF CopyInv
    <3>2. QED
      BY <2>4, <2>8, <2>9, <3>1
  <2>11. ASSUME NEW k \in Tasks, task'[k].pc \in Before \cup {"complete", "completed"}
         PROVE  /\ task'[k].pc \in Before => copies'[task'[k].file] = 0
                /\ task'[k].pc \in {"complete", "completed"} => copies'[task'[k].file] = 1
                /\ task'[k].pc = "link" /\ (task'[k].wait # 0 \/ ~task'[k].broke) =>
                     /\ file'[task'[k].file].status \in Fin
                     /\ task'[k].wait = 0 => disk'.file[task'[k].file].status \in Fin
                     /\ \A i \in DOMAIN pending' :
                          task'[k].wait <= i => pending'[i].file[task'[k].file].status \in Fin
    BY <2>4, <2>7, <2>11 DEF CopyInv, Before
  <2>12. copies' \in [Files -> {0, 1}] /\ linked' \in [Files -> BOOLEAN]
    BY <2>4 DEF CopyInv
  <2>13. QED
    BY <2>10, <2>11, <2>12 DEF CopyInv, Before
<1>3. ASSUME NEW h \in Tasks, HandlerStep(h) PROVE CopyInv'
  BY <1>3, HandlerKeepsCopies
<1>4. CASE UnlockedStep
  BY <1>4, UnlockedKeepsCopies
<1>5. CASE SaveStep \/ SaveRejects
  BY <1>5, SavesKeepCopies
<1>6. CASE CrashStep
  <2>1. /\ Idle.pc = "idle" /\ task' = [h \in Tasks |-> Idle]
        /\ file' = disk.file /\ disk' = disk /\ pending' = <<>> /\ ~up'
        /\ UNCHANGED <<copies, linked>>
    BY <1>6 DEF CrashStep, Crash, storage, Idle
  <2>2. "idle" \notin Before \cup {"complete", "completed"}
    BY DEF Before, Receiving
  <2>3. \A f \in Files : Done(disk, f) => file[f].status = "completed"
    BY <1>1 DEF DurableInv, Chain, Keeps, Snapshot, Done
  <2>4. \A f \in Files : AllFin(f) => AllFin(f)'
    BY <2>1 DEF AllFin
  <2>5. QED
    BY <2>1, <2>2, <2>3, <2>4 DEF CopyInv, Before, Done
<1>7. ASSUME NEW kept, Restart \/ RestartInterrupted(kept) PROVE CopyInv'
  BY <1>7, RestartKeepsCopies
<1>8. CASE UNCHANGED everything
  <2>1. UNCHANGED <<task, file, up, disk, pending, copies, linked>>
    BY <1>8 DEF everything, allVars, vars, durable, uploadVars, storage
  <2>2. QED
    BY <2>1 DEF CopyInv, AllFin
<1>9. ASSUME NEW h \in Tasks, NEW f \in Files, OfferWithoutSpace(h, f) PROVE CopyInv'
  BY <1>9, OffersKeepCopies
<1>10. QED
  BY <1>2, <1>3, <1>4, <1>5, <1>6, <1>7, <1>8, <1>9 DEF UploadNext

LEMMA InitEstablishesCopyInv == UploadInit => CopyInv
<1>1. Idle.pc = "idle"
  BY DEF Idle
<1>2. "idle" \notin Before \cup {"complete", "completed"}
  BY DEF Before, Receiving
<1>3. QED
  BY <1>1, <1>2 DEF UploadInit, DurableInit, Init, NoFile, NewFile, CopyInv, Before

(* Without controls of a whole batch, what the copies are of is invariant.  *)
LEMMA CopyInvariant == ~BatchOrders => (UploadSpec => []CopyInv)
<1> SUFFICES ASSUME ~BatchOrders PROVE UploadSpec => []CopyInv
  OBVIOUS
<1>1. UploadInv /\ UploadInv' /\ CopyInv /\ [UploadNext]_everything => CopyInv'
  BY NextKeepsCopies
<1>2. QED
  BY <1>1, InitEstablishesCopyInv, UploadInvariant, PTL DEF UploadSpec

(* Without controls of a whole batch, a file that is completed in memory or *)
(* on disk has exactly one copy under a final name: every link is made      *)
(* once, none is left by a file that goes on, and neither a crash between   *)
(* the link and the save, nor a save that rejects, nor recovery adds or     *)
(* loses one.  A cancelled batch gives up a file its handler still links:   *)
(* the retry would copy it again.                                           *)
THEOREM CompletedFilesArePublishedOnce ==
  ~BatchOrders => (UploadSpec => []CompletedIsPublishedOnce)
<1> SUFFICES ASSUME ~BatchOrders PROVE UploadSpec => []CompletedIsPublishedOnce
  OBVIOUS
<1>1. UploadInv /\ CopyInv => CompletedIsPublishedOnce
  BY DEF UploadInv, DurableInv, Chain, Keeps, Snapshot, CopyInv, CompletedIsPublishedOnce
<1>2. QED
  BY <1>1, CopyInvariant, UploadInvariant, PTL

-----------------------------------------------------------------------------
(* Without cancels: the bytes a record confirms are in the partial file.    *)

(* The statuses after the last chunk: the file never receives again.        *)
Past == {"verifying"} \cup Fin
AllPast(f) ==
  /\ file[f].status \in Past /\ disk.file[f].status \in Past
  /\ \A i \in DOMAIN pending : pending[i].file[f].status \in Past

(* The positions at which a file is past its last chunk in every snapshot.  *)
PastPlaces == {"hash", "name", "link", "complete", "catch", "completed", "mismatched"}

Intact(f) == "failed" \notin told[f]

(* A record r of f, in memory or in a snapshot, claims no more of f than    *)
(* memory does and than is synced.                                          *)
Claims(r, f) ==
  /\ r.status # "cancelled"
  /\ r.status = "absent" => r.confirmed = 0
  /\ r.confirmed <= file[f].confirmed
  /\ Intact(f) /\ MayResume(r) => r.confirmed <= partial[f].synced

ClaimInv ==
  /\ ToldTyped /\ retrying = {}
  /\ \A f \in Files :
       /\ Claims(file[f], f) /\ Claims(disk.file[f], f)
       /\ \A i \in DOMAIN pending : Claims(pending[i].file[f], f)

(* The session of a file that goes on has not accepted more than is written. *)
SessionInv ==
  /\ session \in [Files -> [open : BOOLEAN, accepted : Nat, durable : Nat]]
  /\ partial \in [Files -> [there : BOOLEAN, written : Nat, synced : Nat]]
  /\ \A f \in Files :
       /\ partial[f].synced <= partial[f].written
       /\ session[f].open => file[f].status # "absent"
       /\ session[f].open /\ Intact(f) /\ MayResume(file[f]) =>
            session[f].accepted <= partial[f].written

(* A PUT that receives its chunk at the offset the session accepts.         *)
Receives(h) ==
  LET f == task[h].file
      pc == task[h].pc
  IN  /\ pc # "idle" => file[f].status # "absent" /\ task[h].op # "resume"
      /\ pc \in {"read", "opened", "written"} =>
           /\ session[f].open /\ session[f].accepted = task[h].offset
           /\ file[f].confirmed <= task[h].offset
      /\ pc \in {"opened", "written"} => partial[f].there
      /\ pc \in {"written", "confirmed"} => End(h) <= partial[f].written
      /\ pc = "written" /\ task[h].due => End(h) <= partial[f].synced

(* A PUT after its last chunk: the snapshot it waited for, and every later  *)
(* one, says so.                                                            *)
Verifies(h) ==
  LET f == task[h].file
      pc == task[h].pc
  IN  /\ pc \in PastPlaces => AllPast(f)
      /\ pc = "verified" =>
           /\ file[f].status \in Past
           /\ \A i \in DOMAIN pending :
                task[h].wait <= i => pending[i].file[f].status \in Past
           /\ task[h].wait = 0 /\ ~task[h].broke => disk.file[f].status \in Past

BytesInv ==
  /\ ClaimInv /\ SessionInv
  /\ \A h \in Tasks : Receives(h) /\ Verifies(h)

NoCancels == "cancel" \notin Orders /\ ~BatchOrders

(* How the record of a file moves without cancels and retries.              *)
Moves(f) ==
  LET r == file[f]
      s == file'[f]
  IN  /\ r.confirmed <= s.confirmed
      /\ s.status # "cancelled"
      /\ s.status = "absent" => r.status = "absent" /\ s.confirmed = 0
      /\ r.status \in Past => s.status \in Past
      /\ MayResume(s) => MayResume(r) \/ (r.status = "absent" /\ s.confirmed = 0)

Rests(f) ==
  MayResume(file'[f]) => file'[f].confirmed = file[f].confirmed

LEMMA SameMoves ==
  ASSUME NEW f \in Files, CoreInv, Claims(file[f], f), file'[f] = file[f]
  PROVE  Moves(f) /\ Rests(f)
<1>1. file[f].confirmed \in Nat
  BY DEF CoreInv, TypeOK, FileRecord
<1>2. file[f].confirmed <= file[f].confirmed
  BY <1>1
<1>3. QED
  BY <1>2 DEF Moves, Rests, Claims

(* A record that changes its status and keeps its offset. *)
LEMMA StatusMoves ==
  ASSUME NEW f \in Files, CoreInv, Claims(file[f], f),
         file'[f].confirmed = file[f].confirmed,
         file'[f].status \in FileStatus \ {"cancelled", "absent"},
         file[f].status \in Past => file'[f].status \in Past,
         file'[f].status \in {"queued", "active", "paused"} => MayResume(file[f])
  PROVE  Moves(f) /\ Rests(f)
<1>1. file[f].confirmed \in Nat
  BY DEF CoreInv, TypeOK, FileRecord
<1>2. file[f].confirmed <= file[f].confirmed
  BY <1>1
<1>3. QED
  BY <1>2 DEF Moves, Rests, MayResume

LEMMA CallsMove ==
  ASSUME NEW f \in Files, CoreInv, \A g \in Files : Claims(file[g], g),
         file[f].status # "absent",
         \/ BeginVerification(f) \/ BeginFinalization(f) \/ Complete(f) \/ Fail(f)
         \/ PauseFile(f) \/ ResumeFile(f) \/ \E offset : ConfirmProgress(f, offset)
  PROVE  /\ retrying' = retrying
         /\ \A g \in Files : Moves(g)
         /\ \A g \in Files \ {f} : file'[g] = file[g]
         /\ (\E offset : ConfirmProgress(f, offset)) \/ Rests(f)
         /\ \A offset : ConfirmProgress(f, offset) => file'[f].confirmed = offset
         /\ Fail(f) => file'[f].confirmed = file[f].confirmed
<1>1. file \in [Files -> FileRecord] /\ file[f] \in FileRecord /\ Claims(file[f], f)
  BY DEF CoreInv, TypeOK
<1>2. Size[f] \in Nat /\ file[f].confirmed \in Nat /\ file[f].confirmed <= Size[f]
  BY <1>1, QueueAssumption DEF FileRecord, CoreInv, CompletedIsConfirmed, FullyConfirmed
<1>3. retrying' = retrying
  BY DEF BeginVerification, BeginFinalization, Complete, Fail, PauseFile, ResumeFile,
         ConfirmProgress, Static
<1>4. PICK u : file' = [file EXCEPT ![f] = u]
  BY DEF BeginVerification, BeginFinalization, Complete, Fail, PauseFile, ResumeFile,
         ConfirmProgress, SettleFile, Settle, Advance
<1>5. file'[f] = u /\ \A g \in Files \ {f} : file'[g] = file[g]
  BY <1>1, <1>4
<1>6. \A g \in Files \ {f} : Moves(g)
  BY <1>5, SameMoves
<1>7. ASSUME NEW offset, ConfirmProgress(f, offset)
      PROVE  Moves(f) /\ file'[f].confirmed = offset
  <2>1. /\ file[f].status = "active" /\ offset \in file[f].confirmed..Size[f]
        /\ file' = [file EXCEPT ![f] = [file[f] EXCEPT !.confirmed = offset]]
    BY <1>7 DEF ConfirmProgress, Advance
  <2>2. file'[f].status = "active" /\ file'[f].confirmed = offset
    BY <1>1, <2>1 DEF FileRecord
  <2>3. file[f].confirmed <= offset
    BY <1>2, <2>1
  <2>4. QED
    BY <2>1, <2>2, <2>3 DEF Moves, Past, Fin, Ended, MayResume
<1>8. ASSUME BeginVerification(f) PROVE Moves(f) /\ Rests(f)
  <2>1. /\ file[f].status = "active"
        /\ file' = [file EXCEPT ![f] = [file[f] EXCEPT !.status = "verifying", !.confirmed = Size[f]]]
    BY <1>8 DEF BeginVerification, SettleFile, Settle
  <2>2. file'[f].status = "verifying" /\ file'[f].confirmed = Size[f]
    BY <1>1, <2>1 DEF FileRecord
  <2>3. QED
    BY <1>2, <2>1, <2>2 DEF Moves, Rests, Past, Fin, Ended, MayResume
<1>9. ASSUME BeginFinalization(f) \/ Complete(f) \/ Fail(f)
      PROVE  Moves(f) /\ Rests(f) /\ file'[f].confirmed = file[f].confirmed
  <2>1. \E s \in {"finalizing", "completed", "failed"}, b \in BOOLEAN :
          file' = [file EXCEPT ![f] = [file[f] EXCEPT !.status = s, !.finalPath = b]]
    BY <1>9 DEF BeginFinalization, Complete, Fail, SettleFile, Settle
  <2>2. file'[f].status \in {"finalizing", "completed", "failed"}
        /\ file'[f].confirmed = file[f].confirmed
    BY <1>1, <2>1 DEF FileRecord
  <2>3. QED
    BY <1>1, <2>2, StatusMoves DEF Past, Fin, Ended, FileStatus, TerminalFile, InFlight
<1>10. ASSUME PauseFile(f) \/ ResumeFile(f) PROVE Moves(f) /\ Rests(f)
  <2>1. \/ file' = [file EXCEPT ![f] = file[f]]
        \/ /\ file[f].status \in {"queued", "active", "paused"}
           /\ \E s \in {"queued", "paused"} :
                file' = [file EXCEPT ![f] = [file[f] EXCEPT !.status = s]]
    BY <1>10 DEF PauseFile, ResumeFile, SettleFile, Settle
  <2>2. \/ file'[f] = file[f]
        \/ /\ file[f].status \in {"queued", "active", "paused"}
           /\ file'[f].status \in {"queued", "paused"} /\ file'[f].confirmed = file[f].confirmed
    BY <1>1, <2>1 DEF FileRecord
  <2>3. QED
    BY <1>1, <2>2, SameMoves, StatusMoves DEF Past, Fin, Ended, FileStatus, TerminalFile, MayResume
<1>11. QED
  BY <1>3, <1>5, <1>6, <1>7, <1>8, <1>9, <1>10

-----------------------------------------------------------------------------
(* Where a handler goes that is past the last chunk. *)
Advances(h) ==
  LET f == task[h].file
      to == task'[h].pc
  IN  \/ to \notin PastPlaces \cup {"verified"}
      \/ /\ to \in PastPlaces
         /\ \/ task[h].pc \in PastPlaces
            \/ task[h].pc = "verified" /\ ~task[h].broke
      \/ to = "verified" /\ BeginVerification(f) /\ Persist

LEMMA HandlersAdvance ==
  ASSUME DurableInv, TasksTyped, NEW h \in Tasks, HandlerStep(h)
  PROVE  Advances(h)
<1> DEFINE f == task[h].file
           to == task'[h].pc
           n == Len(pending) + 1
           Places == {"idle", "lock"} \cup Working \cup Outside
<1>0. n \in Nat /\ Places = {"idle", "lock"} \cup Working \cup Outside
  BY DEF DurableInv
<1>1. PastPlaces \cup {"verified"} \cup Receiving \cup Ending \cup OrderPlaces \cup Outside \cup {"idle"}
        \subseteq Places
  BY DEF PastPlaces, Working, PutPlaces, Finishing, Receiving, Ending, OrderPlaces, Outside
<1>2. ASSUME NEW pc \in Places, Goto(h, pc) PROVE to = pc
  BY <1>2, GotoGoes DEF Goes
<1>3. ASSUME NEW pc \in Places,
             task' = [task EXCEPT ![h].pc = pc, ![h].wait = n, ![h].broke = FALSE]
      PROVE  to = pc
  BY <1>0, <1>3, AwaitGoes DEF Goes
<1>4. Idle.pc = "idle"
  BY DEF Idle
<1>5. ASSUME Leave(h) \/ task' = [task EXCEPT ![h] = Idle] PROVE to = "idle"
  BY <1>4, <1>5, IdleFinishes DEF Finishes, Leave
<1>6. ASSUME OrderFails(h) PROVE to \in {"idle", "control_failed"}
  BY <1>4, <1>6, ErrorGoes DEF Finishes, Goes
<1>7. ASSUME NEW pc, Ready(h, pc) PROVE task[h].pc = pc
  BY <1>7 DEF Ready
<1>8. ASSUME to \notin PastPlaces \cup {"verified"} PROVE Advances(h)
  BY <1>8 DEF Advances
<1>9. ASSUME to \in PastPlaces,
             task[h].pc \in PastPlaces \/ (task[h].pc = "verified" /\ ~task[h].broke)
      PROVE  Advances(h)
  BY <1>9 DEF Advances
<1>10. /\ \A pc \in Receiving \cup OrderPlaces \cup Outside \cup {"idle", "missing", "caught"} :
             pc \in Places /\ pc \notin PastPlaces \cup {"verified"}
       /\ \A pc \in PastPlaces : pc \in Places
       /\ "verified" \in Places
  BY <1>1 DEF PastPlaces, Receiving, OrderPlaces, Outside, Ending
<1> HIDE DEF to, n, Places
<1>11. CASE \/ PutEnter(h) \/ PutRefuse(h) \/ PutOpen(h) \/ PutFindsNoPartial(h)
            \/ PutBreaksOff(h) \/ PutConfirmed(h) \/ PutCatchCompleted(h)
  <2>1. \E pc \in {"read", "opened", "missing", "idle"} : to = pc
    BY <1>2, <1>3, <1>5, <1>10, <1>11
    DEF PutEnter, PutRefuse, PutOpen, PutFindsNoPartial, PutBreaksOff, PutConfirmed,
        PutCatchCompleted, Await, Announce, Receiving, n
  <2>2. QED
    BY <1>8, <1>10, <2>1 DEF Receiving
<1>12. ASSUME NEW due \in BOOLEAN, PutWrite(h, due) PROVE Advances(h)
  <2> DEFINE u == [[task[h] EXCEPT !.pc = "written"] EXCEPT !.due = due]
  <2>1. task' = [task EXCEPT ![h] = u] /\ task \in [Tasks -> Task]
    BY <1>12 DEF PutWrite, TasksTyped
  <2>2. u.pc = "written"
    BY <2>1 DEF Task
  <2> HIDE DEF u
  <2>3. to = "written"
    BY <2>1, <2>2 DEF to
  <2>4. QED
    BY <1>8, <1>10, <2>3 DEF Receiving
<1>13. CASE PutConfirm(h)
  <2>1. \/ to = "idle" \/ to = "confirmed"
        \/ to = "verified" /\ BeginVerification(task[h].file) /\ Persist
    BY <1>3, <1>5, <1>10, <1>13 DEF PutConfirm, Await, Receiving, n
  <2>2. QED
    BY <1>8, <1>10, <2>1 DEF Receiving, Advances, to
<1>14. CASE PutVerified(h)
  <2>1. to = "idle" \/ (to = "hash" /\ task[h].pc = "verified" /\ ~task[h].broke)
    BY <1>2, <1>5, <1>7, <1>10, <1>14 DEF PutVerified, PastPlaces
  <2>2. QED
    BY <1>8, <1>9, <1>10, <2>1 DEF PastPlaces
<1>15. CASE \/ PutHash(h) \/ PutHashMismatch(h) \/ PutName(h) \/ PutLink(h) \/ PutComplete(h)
            \/ PutCompleted(h) \/ PutCatch(h) \/ PutFailed(h)
  <2>1. ASSUME PutLink(h) PROVE to \in {"complete", "name", "catch"}
    <3> DEFINE u == [[task[h] EXCEPT !.pc = "name"] EXCEPT !.suffix = @ + 1]
    <3>1. CASE task' = [task EXCEPT ![h] = u]
      <4>1. task \in [Tasks -> Task] /\ u.pc = "name"
        BY DEF TasksTyped, Task
      <4> HIDE DEF u
      <4>2. QED
        BY <3>1, <4>1 DEF to
    <3>2. CASE Goto(h, "complete") \/ Goto(h, "catch")
      BY <1>2, <1>10, <3>2 DEF PastPlaces
    <3>3. QED
      BY <2>1, <3>1, <3>2 DEF PutLink
  <2>2. \/ to \in {"idle", "caught"}
        \/ to \in PastPlaces /\ task[h].pc \in PastPlaces
    <3>1. CASE PutHash(h) \/ PutHashMismatch(h) \/ PutName(h)
      <4>1. CASE PutHash(h)
        <5>1. (to = "name" \/ to = "catch") /\ task[h].pc = "hash"
          BY <1>2, <1>7, <1>10, <4>1 DEF PutHash, PastPlaces
        <5>2. QED
          BY <5>1 DEF PastPlaces
      <4>2. CASE PutHashMismatch(h)
        <5>1. (to = "idle" \/ to = "mismatched") /\ task[h].pc = "hash"
          BY <1>3, <1>5, <1>7, <1>10, <4>2
          DEF PutHashMismatch, Await, Announce, PastPlaces, n
        <5>2. QED
          BY <5>1 DEF PastPlaces
      <4>3. CASE PutName(h)
        <5>1. (to = "link" \/ to = "catch") /\ task[h].pc = "name"
          BY <1>2, <1>3, <1>7, <1>10, <4>3 DEF PutName, Await, PastPlaces, n
        <5>2. QED
          BY <5>1 DEF PastPlaces
      <4>4. QED
        BY <3>1, <4>1, <4>2, <4>3
    <3>2. CASE PutLink(h)
      BY <1>7, <2>1, <3>2 DEF PutLink, PastPlaces
    <3>3. CASE PutComplete(h) \/ PutCompleted(h)
      <4>1. CASE PutComplete(h)
        <5>1. (to = "completed" \/ to = "catch") /\ task[h].pc = "complete"
          BY <1>2, <1>3, <1>7, <1>10, <4>1 DEF PutComplete, Await, PastPlaces, n
        <5>2. QED
          BY <5>1 DEF PastPlaces
      <4>2. CASE PutCompleted(h)
        <5>1. (to = "idle" \/ to = "catch") /\ task[h].pc = "completed"
          BY <1>2, <1>5, <1>7, <1>10, <4>2 DEF PutCompleted, Announce, PastPlaces
        <5>2. QED
          BY <5>1 DEF PastPlaces
      <4>3. QED
        BY <3>3, <4>1, <4>2
    <3>4. CASE PutCatch(h)
      BY <1>3, <1>5, <1>10, <3>4 DEF PutCatch, Await, Announce, n
    <3>5. CASE PutFailed(h)
      BY <1>2, <1>5, <1>10, <3>5 DEF PutFailed, Announce, Ready, PastPlaces
    <3>6. QED
      BY <1>15, <3>1, <3>2, <3>3, <3>4, <3>5
  <2>3. QED
    BY <1>8, <1>9, <1>10, <2>2
<1>16. CASE OrderStep(h)
  <2>1. \E pc \in OrderPlaces \cup Outside \cup {"idle"} : to = pc
    BY <1>2, <1>3, <1>5, <1>6, <1>10, <1>16
    DEF OrderStep, OrderEnter, OrderCheckpointed, OrderOperates, OrderOperated, OrderFailsFile,
        OrderTold, Await, OrderPlaces, Outside, n
  <2>2. QED
    BY <1>8, <1>10, <2>1
<1>17. QED
  BY <1>11, <1>12, <1>13, <1>14, <1>15, <1>16 DEF HandlerStep, PutStep

(* What a call adds to the snapshots that wait is past the last chunk when  *)
(* memory is.                                                               *)
LEMMA PastStays ==
  ASSUME DurableInv, DurableInv', NEW f \in Files, Moves(f), file[f].status \in Past,
         pending' = pending \/ Persist,
         NEW w, \A i \in DOMAIN pending : w <= i => pending[i].file[f].status \in Past
  PROVE  /\ file'[f].status \in Past
         /\ \A i \in DOMAIN pending' : w <= i => pending'[i].file[f].status \in Past
<1> DEFINE n == Len(pending)
<1>1. file'[f].status \in Past
  BY DEF Moves
<1>2. /\ n \in Nat
      /\ Persist => /\ Len(pending') = n + 1 /\ pending'[n + 1] = Snapshot'
                    /\ \A i \in 1..n : pending'[i] = pending[i]
  BY SnapshotsWait
<1>3. DOMAIN pending = 1..n /\ DOMAIN pending' = 1..Len(pending')
  BY DEF DurableInv
<1>4. CASE pending' = pending
  BY <1>1, <1>4
<1>5. ASSUME Persist, NEW i \in DOMAIN pending', w <= i
      PROVE  pending'[i].file[f].status \in Past
  <2>1. i \in 1..n \/ i = n + 1
    BY <1>2, <1>3, <1>5
  <2>2. CASE i \in 1..n
    BY <1>2, <1>3, <1>5, <2>2
  <2>3. CASE i = n + 1
    BY <1>1, <1>2, <1>5, <2>3 DEF Snapshot
  <2>4. QED
    BY <2>1, <2>2, <2>3
<1>6. QED
  BY <1>1, <1>4, <1>5

LEMMA HandlerKeepsVerifies ==
  ASSUME UploadInv, UploadInv', BytesInv, NEW h \in Tasks, HandlerStep(h),
         \A g \in Files : Moves(g)
  PROVE  \A k \in Tasks : Verifies(k)'
<1> DEFINE n == Len(pending)
           f == task[h].file
<1>1. DurableInv /\ DurableInv' /\ TasksTyped /\ TasksTyped' /\ n \in Nat
  BY DEF UploadInv, TurnInv, DurableInv
<1>2. /\ TurnEffect(h) /\ HandlerEffect(h) /\ Advances(h)
  BY <1>1, PutTurns, OrderTurns, PutEffect, OrderEffect, HandlersAdvance DEF HandlerStep
<1>3. /\ disk' = disk /\ (pending' = pending \/ Persist) /\ f \in Files
      /\ \A k \in Tasks \ {h} : task'[k] = task[k]
      /\ task[h].wait = 0 /\ task[h].pc # "idle"
      /\ task'[h].pc \in PastPlaces \cup {"verified"} => task'[h].file = f
      /\ Persist => pending' # pending /\ task'[h].wait = n + 1
  <2>1. Persist => pending' # pending
    <3>1. Persist => Len(pending') = n + 1
      BY <1>1, SnapshotsWait
    <3>2. QED
      BY <1>1, <3>1
  <2>2. "idle" \notin PastPlaces \cup {"verified"} /\ Idle.pc = "idle"
    BY DEF PastPlaces, Idle
  <2>3. QED
    BY <1>2, <2>1, <2>2 DEF TurnEffect, HandlerEffect, Goes, Finishes
<1>4. ASSUME NEW g \in Files, AllPast(g)
      PROVE  AllPast(g)'
  <2>1. \A i \in DOMAIN pending : 0 <= i => pending[i].file[g].status \in Past
    BY <1>4 DEF AllPast
  <2>2. /\ file'[g].status \in Past
        /\ \A i \in DOMAIN pending' : 0 <= i => pending'[i].file[g].status \in Past
    BY <1>1, <1>3, <1>4, <2>1, PastStays DEF AllPast
  <2>3. \A i \in DOMAIN pending' : 0 <= i
    BY <1>1 DEF DurableInv
  <2>4. QED
    BY <1>3, <1>4, <2>2, <2>3 DEF AllPast
<1>5. ASSUME NEW k \in Tasks, k # h
      PROVE  Verifies(k)'
  <2>1. task'[k] = task[k] /\ Verifies(k)
    BY <1>3, <1>5 DEF BytesInv
  <2>2. task[k].pc \in PastPlaces \cup {"verified"} => task[k].file \in Files
    BY <1>1 DEF PastPlaces, TasksTyped
  <2>3. ASSUME task[k].pc \in PastPlaces PROVE AllPast(task[k].file)'
    <3>1. task[k].file \in Files /\ AllPast(task[k].file)
      BY <2>1, <2>2, <2>3 DEF Verifies
    <3>2. PICK g \in Files : g = task[k].file
      BY <3>1
    <3>3. AllPast(g)' /\ g = task'[k].file
      BY <1>4, <2>1, <3>1, <3>2
    <3>4. QED
      BY <2>1, <3>2, <3>3
  <2>4. ASSUME task[k].pc = "verified"
        PROVE  /\ file'[task[k].file].status \in Past
               /\ \A i \in DOMAIN pending' :
                    task[k].wait <= i => pending'[i].file[task[k].file].status \in Past
               /\ task[k].wait = 0 /\ ~task[k].broke => disk'.file[task[k].file].status \in Past
    <3>1. /\ task[k].file \in Files
          /\ file[task[k].file].status \in Past
          /\ \A i \in DOMAIN pending :
               task[k].wait <= i => pending[i].file[task[k].file].status \in Past
          /\ task[k].wait = 0 /\ ~task[k].broke => disk.file[task[k].file].status \in Past
      BY <2>1, <2>2, <2>4 DEF Verifies
    <3>2. QED
      BY <1>1, <1>3, <3>1, PastStays
  <2>5. QED
    BY <2>1, <2>3, <2>4 DEF Verifies, AllPast
<1>6. Verifies(h)'
  <2>1. CASE task'[h].pc \notin PastPlaces \cup {"verified"}
    BY <2>1 DEF Verifies
  <2>2. CASE task'[h].pc \in PastPlaces
    <3>1. task[h].pc \in PastPlaces \/ (task[h].pc = "verified" /\ ~task[h].broke)
      BY <1>2, <2>2 DEF Advances, PastPlaces
    <3>2. \A i \in DOMAIN pending : 0 <= i
      BY <1>1 DEF DurableInv
    <3>3. AllPast(f)
      BY <1>3, <3>1, <3>2 DEF BytesInv, Verifies, AllPast
    <3>4. AllPast(f)' /\ f' = f
      BY <1>3, <1>4, <2>2, <3>3
    <3>5. "verified" \notin PastPlaces
      BY DEF PastPlaces
    <3>6. QED
      BY <2>2, <3>4, <3>5 DEF Verifies, AllPast
  <2>3. CASE task'[h].pc = "verified"
    <3>1. BeginVerification(f) /\ Persist
      BY <1>2, <2>3 DEF Advances, PastPlaces
    <3>2. file'[f].status = "verifying"
      BY <1>1, <1>3, <3>1, CallsOfHandlers DEF DurableInv, Becomes
    <3>3. /\ task'[h].wait = n + 1 /\ task'[h].file = f
          /\ Len(pending') = n + 1 /\ pending'[n + 1] = Snapshot'
      BY <1>1, <1>3, <2>3, <3>1, SnapshotsWait
    <3>4. \A i \in DOMAIN pending' : n + 1 <= i => i = n + 1
      BY <1>1, <3>3 DEF DurableInv
    <3>5. pending'[n + 1].file[f].status \in Past
      BY <3>2, <3>3 DEF Snapshot, Past
    <3>6. n + 1 # 0 /\ "verified" \notin PastPlaces
      BY <1>1 DEF PastPlaces
    <3>7. file'[f].status \in Past
      BY <3>2 DEF Past
    <3> HIDE DEF n, f
    <3>8. QED
      BY <2>3, <3>3, <3>4, <3>5, <3>6, <3>7 DEF Verifies
  <2>4. QED
    BY <2>1, <2>2, <2>3
<1>7. QED
  BY <1>5, <1>6

-----------------------------------------------------------------------------
(* Without cancels a handler moves the record of its file forward, and its  *)
(* offset only where it confirms one.                                       *)
FileEffect(h) ==
  LET f == task[h].file
  IN  /\ retrying' = retrying
      /\ \A g \in Files : Moves(g)
      /\ \A g \in Files \ {f} : file'[g] = file[g]
      /\ \/ Rests(f)
         \/ PutConfirm(h) /\ ConfirmProgress(f, End(h)) /\ file'[f].confirmed = End(h)
         \/ /\ OrderEnter(h) /\ ConfirmProgress(f, session[f].accepted)
            /\ file'[f].confirmed = session[f].accepted
      /\ task[h].pc \in Outside => file'[f].confirmed = file[f].confirmed

LEMMA HandlersMove ==
  ASSUME NoCancels, DurableInv, TasksTyped, ClaimInv, NEW h \in Tasks, HandlerStep(h),
         Receives(h)
  PROVE  FileEffect(h)
<1> DEFINE f == task[h].file
<1>1. CoreInv /\ \A g \in Files : Claims(file[g], g)
  BY DEF DurableInv, ClaimInv
<1>2. /\ up /\ task[h].pc # "idle" /\ f \in Files
      /\ file[f].status # "absent" /\ task[h].op # "cancel"
  <2>1. TurnEffect(h)
    BY PutTurns, OrderTurns DEF HandlerStep
  <2>2. task[h].pc # "idle" /\ up
    BY <2>1 DEF TurnEffect
  <2>3. task[h].op \in {"none", "put", "offer"} \cup Orders
    BY DEF TasksTyped, Task
  <2>4. QED
    BY <2>2, <2>3 DEF TasksTyped, Receives, NoCancels
<1>3. ASSUME file' = file, retrying' = retrying PROVE FileEffect(h)
  BY <1>1, <1>2, <1>3, SameMoves DEF FileEffect
<1>4. ASSUME BeginVerification(f) \/ BeginFinalization(f) \/ Complete(f) \/ PauseFile(f),
             task[h].pc \notin Outside
      PROVE  FileEffect(h)
  <2>1. ~\E offset : ConfirmProgress(f, offset) /\ ~Rests(f)
    <3>1. ASSUME NEW offset, ConfirmProgress(f, offset), PauseFile(f) PROVE Rests(f)
      <4>1. /\ file[f].status = "active"
            /\ file' = [file EXCEPT ![f] = [file[f] EXCEPT !.status = "paused"]]
        BY <3>1 DEF ConfirmProgress, PauseFile, SettleFile, Settle
      <4>2. file \in [Files -> FileRecord]
        BY <1>1 DEF CoreInv, TypeOK
      <4>3. file'[f].confirmed = file[f].confirmed
        BY <1>2, <4>1, <4>2 DEF FileRecord
      <4>4. QED
        BY <4>3 DEF Rests
    <3>2. ASSUME BeginVerification(f) \/ BeginFinalization(f) \/ Complete(f) PROVE Rests(f)
      <4>1. file'[f].status \in {"verifying", "finalizing", "completed"}
        BY <1>1, <1>2, <3>2, CallsOfHandlers DEF Becomes
      <4>2. QED
        BY <4>1 DEF Rests, MayResume
    <3>3. QED
      BY <1>4, <3>1, <3>2
  <2>2. QED
    BY <1>1, <1>2, <1>4, <2>1, CallsMove DEF FileEffect
<1>5. ASSUME Fail(f) PROVE FileEffect(h)
  <2>1. file'[f].status = "failed"
    BY <1>1, <1>2, <1>5, CallsOfHandlers DEF Becomes
  <2>2. Rests(f)
    BY <2>1 DEF Rests, MayResume
  <2>3. QED
    BY <1>1, <1>2, <1>5, <2>2, CallsMove DEF FileEffect
<1>6. ASSUME PutConfirm(h), ConfirmProgress(f, End(h)), task[h].pc \notin Outside
      PROVE  FileEffect(h)
  BY <1>1, <1>2, <1>6, CallsMove DEF FileEffect
<1>7. ASSUME OrderEnter(h), ConfirmProgress(f, session[f].accepted), task[h].pc \notin Outside
      PROVE  FileEffect(h)
  BY <1>1, <1>2, <1>7, CallsMove DEF FileEffect
<1>8. ASSUME NEW pc, Ready(h, pc), pc \notin Outside PROVE task[h].pc \notin Outside
  BY <1>8 DEF Ready
<1>9. "lock" \notin Outside /\ \A pc \in PutPlaces \cup OrderPlaces : pc \notin Outside
  BY DEF Outside, PutPlaces, OrderPlaces, Finishing, Receiving, Ending
<1> HIDE DEF f
<1>10. CASE PutFindsNoPartial(h)
  BY <1>3, <1>5, <1>10 DEF PutFindsNoPartial, Await, allVars, vars, f
<1>11. CASE PutConfirm(h)
  BY <1>3, <1>4, <1>6, <1>8, <1>9, <1>11
  DEF PutConfirm, Await, allVars, vars, PutPlaces, Receiving, f
<1>12. CASE PutHashMismatch(h) \/ PutCatch(h)
  BY <1>3, <1>5, <1>12 DEF PutHashMismatch, PutCatch, Await, allVars, vars, f
<1>13. CASE PutName(h) \/ PutComplete(h)
  BY <1>3, <1>4, <1>8, <1>9, <1>13
  DEF PutName, PutComplete, Await, allVars, vars, PutPlaces, Finishing, f
<1>14. CASE \/ PutEnter(h) \/ PutRefuse(h) \/ PutOpen(h)
            \/ (\E due \in BOOLEAN : PutWrite(h, due))
            \/ PutBreaksOff(h) \/ PutConfirmed(h)
            \/ PutVerified(h) \/ PutHash(h) \/ PutLink(h) \/ PutCompleted(h)
            \/ PutCatchCompleted(h) \/ PutFailed(h)
            \/ OrderCheckpointed(h) \/ OrderOperated(h) \/ OrderTold(h)
  BY <1>3, <1>14
  DEF PutEnter, PutRefuse, PutOpen, PutWrite, PutBreaksOff, PutConfirmed, PutVerified,
      PutHash, PutLink, PutCompleted, PutCatchCompleted, PutFailed, OrderCheckpointed,
      OrderOperated, OrderTold, allVars, vars
<1>15. CASE OrderEnter(h)
  BY <1>3, <1>7, <1>8, <1>9, <1>15 DEF OrderEnter, Entered, Await, allVars, vars, f
<1>16. CASE OrderOperates(h)
  BY <1>2, <1>3, <1>4, <1>5, <1>8, <1>9, <1>16
  DEF OrderOperates, Await, allVars, vars, OrderPlaces, f
<1>17. CASE OrderFailsFile(h)
  BY <1>3, <1>5, <1>17 DEF OrderFailsFile, Await, allVars, vars, f
<1>18. QED
  BY <1>10, <1>11, <1>12, <1>13, <1>14, <1>15, <1>16, <1>17 DEF HandlerStep, PutStep, OrderStep

LEMMA ToldGrows ==
  ASSUME ToldTyped, TasksTyped, NEW h \in Tasks, HandlerStep(h)
  PROVE  \A g \in Files : told[g] \subseteq told'[g]
<1> DEFINE f == task[h].file
<1>1. ASSUME NEW outcome, Tell(f, outcome) PROVE \A g \in Files : told[g] \subseteq told'[g]
  BY <1>1 DEF Tell, ToldTyped
<1>2. told' = told \/ \E outcome : Tell(f, outcome)
  BY DEF HandlerStep, PutStep, OrderStep, PutEnter, PutRefuse, PutOpen, PutFindsNoPartial, PutWrite,
         PutBreaksOff, PutConfirm, PutConfirmed, PutVerified, PutHash, PutHashMismatch, PutName,
         PutLink, PutComplete, PutCompleted, PutCatchCompleted, PutCatch, PutFailed, OrderEnter,
         OrderCheckpointed, OrderOperates, OrderOperated, OrderFailsFile, OrderTold, Announce
<1>3. QED
  BY <1>1, <1>2

(* What a handler does to the session and the partial file of its file.     *)
Sessions == [open : BOOLEAN, accepted : Nat, durable : Nat]
Partials == [there : BOOLEAN, written : Nat, synced : Nat]

BytesEffect(h) ==
  LET f == task[h].file
  IN  /\ session' \in [Files -> Sessions] /\ partial' \in [Files -> Partials]
      /\ \A g \in Files \ {f} : session'[g] = session[g] /\ partial'[g] = partial[g]
      /\ partial'[f].synced <= partial'[f].written
      /\ task[h].pc \in Outside => session'[f] = session[f] /\ partial'[f] = partial[f]
      /\ \/ partial[f].synced <= partial'[f].synced
         \/ "failed" \in told'[f] \/ file[f].confirmed = 0 \/ AllPast(f)
      /\ "failed" \notin told'[f] /\ MayResume(file'[f]) =>
           /\ file'[f].confirmed <= partial'[f].synced
           /\ session'[f].open => session'[f].accepted <= partial'[f].written

LEMMA QuietBytes ==
  ASSUME ClaimInv, SessionInv, CoreInv, NEW h \in Tasks, task[h].file \in Files,
         Moves(task[h].file), Rests(task[h].file), file[task[h].file].status # "absent",
         told[task[h].file] \subseteq told'[task[h].file], partial' = partial,
         session' = session \/ (task[h].pc \notin Outside /\ Clear(task[h].file))
  PROVE  BytesEffect(h)
<1> DEFINE f == task[h].file
<1>1. session \in [Files -> Sessions] /\ partial \in [Files -> Partials] /\ f \in Files
  BY DEF SessionInv, Sessions, Partials
<1>2. NoSession \in Sessions /\ ~NoSession.open
  BY DEF NoSession, Sessions
<1>3. /\ session' \in [Files -> Sessions]
      /\ \A g \in Files \ {f} : session'[g] = session[g]
      /\ session'[f] = session[f] \/ (task[h].pc \notin Outside /\ session'[f] = NoSession)
  BY <1>1, <1>2 DEF Clear
<1>4. partial[f].synced \in Nat /\ partial[f].synced <= partial[f].written
  BY <1>1 DEF SessionInv, Partials
<1>5. partial[f].synced <= partial'[f].synced
  BY <1>4
<1>6. ASSUME "failed" \notin told'[f], MayResume(file'[f])
      PROVE  /\ file'[f].confirmed <= partial'[f].synced
             /\ session'[f].open => session'[f].accepted <= partial'[f].written
  <2>1. Intact(f) /\ MayResume(file[f]) /\ file'[f].confirmed = file[f].confirmed
    BY <1>6 DEF Intact, Moves, Rests
  <2>2. file[f].confirmed <= partial[f].synced
    BY <1>1, <2>1 DEF ClaimInv, Claims
  <2>3. session[f].open => session[f].accepted <= partial[f].written
    BY <1>1, <2>1 DEF SessionInv
  <2>4. QED
    BY <1>2, <1>3, <2>1, <2>2, <2>3
<1>7. QED
  BY <1>1, <1>3, <1>4, <1>5, <1>6 DEF BytesEffect

(* The partial file goes with a file that is past its last chunk, or that   *)
(* the phone is told has failed.                                            *)
LEMMA UnlinkBytes ==
  ASSUME SessionInv, NEW h \in Tasks, task[h].file \in Files, task[h].pc \notin Outside,
         Unlinked(task[h].file), session' = session \/ Clear(task[h].file),
         \/ "failed" \in told'[task[h].file]
         \/ AllPast(task[h].file) /\ Moves(task[h].file)
  PROVE  BytesEffect(h)
<1> DEFINE f == task[h].file
<1>1. session \in [Files -> Sessions] /\ partial \in [Files -> Partials] /\ f \in Files
  BY DEF SessionInv, Sessions, Partials
<1>2. NoSession \in Sessions /\ NoPartial \in Partials /\ NoPartial.synced <= NoPartial.written
  BY DEF NoSession, Sessions, NoPartial, Partials
<1>3. /\ session' \in [Files -> Sessions] /\ partial' \in [Files -> Partials]
      /\ \A g \in Files \ {f} : session'[g] = session[g] /\ partial'[g] = partial[g]
      /\ partial'[f].synced <= partial'[f].written
  BY <1>1, <1>2 DEF Clear, Unlinked
<1>4. "failed" \in told'[f] \/ (AllPast(f) /\ ~MayResume(file'[f]))
  BY DEF AllPast, Moves, Past, Fin, Ended, MayResume
<1>5. QED
  BY <1>3, <1>4 DEF BytesEffect

LEMMA HandlersKeepBytes ==
  ASSUME NoCancels, UploadInv, BytesInv, NEW h \in Tasks, HandlerStep(h), FileEffect(h), ToldTyped'
  PROVE  BytesEffect(h)
<1> DEFINE f == task[h].file
           t == task[h]
           s == session[f]
           p == partial[f]
<1>1. /\ DurableInv /\ CoreInv /\ TasksTyped /\ ToldTyped /\ ClaimInv /\ SessionInv
      /\ Receives(h) /\ Verifies(h)
  BY DEF UploadInv, TurnInv, DurableInv, BytesInv, ClaimInv
<1>2. /\ t.pc # "idle" /\ f \in Files /\ t.wait = 0
      /\ file[f].status # "absent"
  <2>1. TurnEffect(h)
    BY <1>1, PutTurns, OrderTurns DEF HandlerStep
  <2>2. QED
    BY <1>1, <2>1 DEF TurnEffect, Receives
<1>3. /\ session \in [Files -> Sessions] /\ partial \in [Files -> Partials]
      /\ s \in Sessions /\ p \in Partials /\ p.synced <= p.written
      /\ s.accepted \in Nat /\ p.written \in Nat /\ p.synced \in Nat
  <2>1. session \in [Files -> Sessions] /\ partial \in [Files -> Partials]
    BY <1>1 DEF SessionInv, Sessions, Partials
  <2>2. s \in Sessions /\ p \in Partials
    BY <1>2, <2>1
  <2>3. QED
    BY <1>1, <1>2, <2>1, <2>2 DEF SessionInv, Sessions, Partials
<1>4. /\ told[f] \subseteq told'[f] /\ Moves(f)
      /\ \A g \in Files \ {f} : file'[g] = file[g]
  BY <1>1, <1>2, ToldGrows DEF FileEffect
<1>5. file' = file => Rests(f)
  BY DEF Rests
<1>6. t.pc \notin {"written", "lock"} => Rests(f)
  BY DEF FileEffect, PutConfirm, OrderEnter, Entered, Ready
<1>7. End(h) \in Nat /\ t.offset \in Nat
  BY <1>1, <1>2, QueueAssumption DEF TasksTyped, Task, End
<1>8. ASSUME partial' = partial, session' = session \/ (t.pc \notin Outside /\ Clear(f)), Rests(f)
      PROVE  BytesEffect(h)
  BY <1>1, <1>2, <1>4, <1>8, QuietBytes
<1>9. ASSUME Unlinked(f), session' = session \/ Clear(f), t.pc \notin Outside,
             AllPast(f) \/ "failed" \in told'[f]
      PROVE  BytesEffect(h)
  BY <1>1, <1>2, <1>4, <1>9, UnlinkBytes
<1>10. ASSUME t.pc \notin Outside, NEW v \in Sessions, session' = [session EXCEPT ![f] = v],
              NEW w \in Partials, partial' = [partial EXCEPT ![f] = w], w.synced <= w.written,
              p.synced <= w.synced \/ file[f].confirmed = 0,
              "failed" \notin told'[f] /\ MayResume(file'[f]) =>
                file'[f].confirmed <= w.synced /\ (v.open => v.accepted <= w.written)
       PROVE  BytesEffect(h)
  <2>1. /\ session' \in [Files -> Sessions] /\ session'[f] = v
        /\ \A g \in Files \ {f} : session'[g] = session[g]
    BY <1>2, <1>3, <1>10
  <2>2. /\ partial' \in [Files -> Partials] /\ partial'[f] = w
        /\ \A g \in Files \ {f} : partial'[g] = partial[g]
    BY <1>2, <1>3, <1>10
  <2>3. QED
    BY <1>10, <2>1, <2>2 DEF BytesEffect
<1>11. ASSUME "failed" \notin told'[f], MayResume(file'[f])
       PROVE  /\ MayResume(file[f])
              /\ file[f].confirmed <= p.synced
              /\ s.open => s.accepted <= p.written
  <2>1. Intact(f) /\ MayResume(file[f])
    BY <1>2, <1>4, <1>11 DEF Intact, Moves
  <2>2. Claims(file[f], f)
    BY <1>1, <1>2 DEF ClaimInv
  <2>3. QED
    BY <1>1, <1>2, <2>1, <2>2 DEF Claims, SessionInv
<1>12. ASSUME NEW pc \in PutPlaces \cup OrderPlaces \cup {"lock"}, Ready(h, pc)
       PROVE  t.pc = pc /\ t.pc \notin Outside
  BY <1>12 DEF Ready, Outside, PutPlaces, OrderPlaces, Finishing, Receiving, Ending
<1>13. file[f].confirmed \in Nat /\ partial[f] = p /\ session[f] = s /\ p.synced <= p.synced
  BY <1>1, <1>2, <1>3 DEF CoreInv, TypeOK, FileRecord
<1>14. /\ {"read", "opened", "written", "confirmed", "verified", "hash", "name", "link", "complete",
           "catch", "missing", "mismatched", "caught", "completed"} \subseteq PutPlaces
       /\ {"checkpointed", "operate", "operated"} \subseteq OrderPlaces
  BY DEF PutPlaces, OrderPlaces, Finishing, Receiving, Ending
<1> HIDE DEF f, t, s, p
<1>15. CASE \/ PutRefuse(h) \/ PutFindsNoPartial(h) \/ PutBreaksOff(h) \/ PutHash(h) \/ PutName(h)
            \/ PutLink(h) \/ PutComplete(h) \/ PutCatchCompleted(h) \/ PutFailed(h)
            \/ OrderOperates(h) \/ OrderFailsFile(h) \/ OrderTold(h)
  <2>1. partial' = partial /\ (session' = session \/ (t.pc \notin Outside /\ Clear(f)))
    BY <1>12, <1>14, <1>15
    DEF PutRefuse, PutFindsNoPartial, PutBreaksOff, PutHash, PutName, PutLink, PutComplete,
        PutCatchCompleted, PutFailed, OrderOperates, OrderFailsFile, OrderTold, Announce,
        storage, f
  <2>2. Rests(f)
    <3>1. CASE PutBreaksOff(h)
      BY <1>5, <3>1 DEF PutBreaksOff, allVars, vars
    <3>2. CASE ~PutBreaksOff(h)
      <4>1. t.pc \notin {"written", "lock"}
        BY <1>15, <3>2
        DEF PutRefuse, PutFindsNoPartial, PutHash, PutName, PutLink, PutComplete,
            PutCatchCompleted, PutFailed, OrderOperates, OrderFailsFile, OrderTold, Ready, t
      <4>2. QED
        BY <1>6, <4>1
    <3>3. QED
      BY <3>1, <3>2
  <2>3. QED
    BY <1>8, <2>1, <2>2
<1>16. CASE PutEnter(h)
  <2> DEFINE fresh == [open |-> TRUE, accepted |-> file[f].confirmed, durable |-> file[f].confirmed]
             v == SessionFor(f)
  <2>1. session' = [session EXCEPT ![f] = v] /\ partial' = partial /\ file' = file
    BY <1>16 DEF PutEnter, allVars, vars, storage, f
  <2>2. t.pc \notin Outside
    BY <1>12, <1>16 DEF PutEnter, Entered
  <2>3. v = s \/ v = fresh
    BY <1>13 DEF SessionFor
  <2>4. fresh \in Sessions /\ fresh.accepted = file[f].confirmed
    BY <1>13 DEF Sessions
  <2> HIDE DEF v, fresh
  <2>5. v \in Sessions
    BY <1>3, <2>3, <2>4
  <2>6. partial' = [partial EXCEPT ![f] = p]
    BY <1>3, <1>13, <2>1
  <2>7. ASSUME "failed" \notin told'[f], MayResume(file'[f])
        PROVE  file'[f].confirmed <= p.synced /\ (v.open => v.accepted <= p.written)
    <3>1. file[f].confirmed <= p.synced /\ (s.open => s.accepted <= p.written)
      BY <1>11, <2>7
    <3>2. file[f].confirmed <= p.written
      BY <1>3, <1>13, <3>1
    <3>3. QED
      BY <2>1, <2>3, <2>4, <3>1, <3>2
  <2>8. QED
    BY <1>3, <1>10, <1>13, <2>1, <2>2, <2>5, <2>6, <2>7
<1>17. CASE PutOpen(h)
  <2>1. /\ session' = session /\ file' = file /\ t.pc = "read" /\ t.pc \notin Outside
        /\ IF t.offset = 0
           THEN partial' = [partial EXCEPT ![f] = [NoPartial EXCEPT !.there = TRUE]]
           ELSE partial' = partial
    BY <1>12, <1>14, <1>17 DEF PutOpen, allVars, vars, f, t
  <2>2. CASE t.offset # 0
    BY <1>5, <1>8, <2>1, <2>2
  <2>3. CASE t.offset = 0
    <3> DEFINE w == [NoPartial EXCEPT !.there = TRUE]
    <3>1. w \in Partials /\ w.synced = 0 /\ w.written = 0
      BY DEF NoPartial, Partials
    <3>2. s.open /\ s.accepted = 0 /\ file[f].confirmed <= 0
      BY <1>1, <2>1, <2>3 DEF Receives, s, t, f
    <3>3. file[f].confirmed = 0
      BY <1>13, <3>2
    <3> HIDE DEF w
    <3>4. partial' = [partial EXCEPT ![f] = w] /\ session' = [session EXCEPT ![f] = s]
      BY <1>3, <1>13, <2>1, <2>3 DEF w
    <3>5. w.synced <= w.written /\ file'[f].confirmed <= w.synced /\ s.accepted <= w.written
      BY <2>1, <3>1, <3>2, <3>3
    <3>6. QED
      BY <1>3, <1>10, <2>1, <3>1, <3>3, <3>4, <3>5
  <2>4. QED
    BY <2>2, <2>3
<1>18. ASSUME NEW due \in BOOLEAN, PutWrite(h, due) PROVE BytesEffect(h)
  <2> DEFINE end == IF End(h) > p.written THEN End(h) ELSE p.written
             w == [p EXCEPT !.written = end, !.synced = IF due THEN end ELSE p.synced]
  <2>1. /\ session' = session /\ file' = file /\ t.pc = "opened" /\ t.pc \notin Outside
    BY <1>12, <1>14, <1>18 DEF PutWrite, allVars, vars, t
  <2>2. p.there
    BY <1>1, <2>1 DEF Receives, p, t, f
  <2>3. partial' = [partial EXCEPT ![f] = w]
    BY <1>13, <1>18, <2>2 DEF PutWrite, f, p
  <2>4. end \in Nat /\ p.written <= end /\ End(h) <= end /\ p.synced <= end
    BY <1>3, <1>7
  <2> HIDE DEF end
  <2>5. /\ w \in Partials /\ w.written = end /\ w.synced = IF due THEN end ELSE p.synced
    BY <1>3, <2>4 DEF Partials
  <2> HIDE DEF w
  <2>6. w.synced <= w.written /\ p.synced <= w.synced /\ p.written <= w.written
    BY <1>3, <2>4, <2>5
  <2>7. session' = [session EXCEPT ![f] = s]
    BY <1>3, <1>13, <2>1
  <2>8. ASSUME "failed" \notin told'[f], MayResume(file'[f])
        PROVE  file'[f].confirmed <= w.synced /\ (s.open => s.accepted <= w.written)
    <3>1. file[f].confirmed <= p.synced /\ (s.open => s.accepted <= p.written)
      BY <1>11, <2>8
    <3>2. w.synced \in Nat /\ w.written \in Nat
      BY <2>5 DEF Partials
    <3>3. QED
      BY <1>3, <1>13, <2>1, <2>6, <3>1, <3>2
  <2>9. QED
    BY <1>3, <1>10, <2>1, <2>3, <2>5, <2>6, <2>7, <2>8
<1>19. CASE PutConfirm(h)
  <2>1. partial' = partial /\ partial' = [partial EXCEPT ![f] = p]
        /\ t.pc = "written" /\ t.pc \notin Outside
    BY <1>3, <1>12, <1>13, <1>14, <1>19 DEF PutConfirm, storage, t
  <2>2. End(h) <= p.written /\ (t.due => End(h) <= p.synced)
    BY <1>1, <2>1 DEF Receives, p, t, f
  <2>3. CASE file' = file /\ session' = [session EXCEPT ![f].accepted = End(h)]
    <3> DEFINE v == [s EXCEPT !.accepted = End(h)]
    <3>1. v \in Sessions /\ v.accepted = End(h) /\ session' = [session EXCEPT ![f] = v]
      BY <1>3, <1>7, <1>13, <2>3 DEF Sessions
    <3> HIDE DEF v
    <3>2. ASSUME "failed" \notin told'[f], MayResume(file'[f])
          PROVE  file'[f].confirmed <= p.synced /\ (v.open => v.accepted <= p.written)
      BY <1>11, <2>2, <2>3, <3>1, <3>2
    <3>3. QED
      BY <1>3, <1>10, <1>13, <2>1, <3>1, <3>2
  <2>4. CASE file' = file /\ session' = session
    BY <1>5, <1>8, <2>1, <2>4
  <2>5. CASE BeginVerification(f) /\ session' = session
    <3>1. file'[f].status = "verifying"
      BY <1>1, <1>2, <2>5, CallsOfHandlers DEF Becomes
    <3>2. Rests(f)
      BY <3>1 DEF Rests, MayResume
    <3>3. QED
      BY <1>8, <2>1, <2>5, <3>2
  <2>6. CASE ConfirmProgress(f, End(h)) /\ session' = session /\ t.due
    <3>1. file'[f].confirmed = End(h)
      BY <1>1, <1>2, <2>6, CallsMove DEF ClaimInv
    <3>2. session' = [session EXCEPT ![f] = s]
      BY <1>3, <1>13, <2>6
    <3>3. ASSUME "failed" \notin told'[f], MayResume(file'[f])
          PROVE  file'[f].confirmed <= p.synced /\ (s.open => s.accepted <= p.written)
      BY <1>11, <2>2, <2>6, <3>1, <3>3
    <3>4. QED
      BY <1>3, <1>10, <1>13, <2>1, <3>2, <3>3
  <2>7. QED
    BY <1>19, <2>3, <2>4, <2>5, <2>6 DEF PutConfirm, Await, allVars, vars, f, t
<1>20. ASSUME t.pc \notin Outside, NEW a \in Nat, MarkCheckpoint(f, a), partial' = partial, Rests(f),
              "failed" \notin told'[f] /\ MayResume(file'[f]) => a <= p.written \/ (s.open /\ a = s.accepted)
       PROVE  BytesEffect(h)
  <2> DEFINE v == [s EXCEPT !.accepted = a, !.durable = a]
  <2>1. v \in Sessions /\ v.accepted = a /\ session' = [session EXCEPT ![f] = v]
    BY <1>3, <1>13, <1>20 DEF Sessions, MarkCheckpoint
  <2> HIDE DEF v
  <2>2. partial' = [partial EXCEPT ![f] = p]
    BY <1>3, <1>13, <1>20
  <2>3. ASSUME "failed" \notin told'[f], MayResume(file'[f])
        PROVE  file'[f].confirmed <= p.synced /\ (v.open => v.accepted <= p.written)
    <3>1. /\ MayResume(file[f]) /\ file[f].confirmed <= p.synced
          /\ s.open => s.accepted <= p.written
      BY <1>11, <2>3
    <3>2. file'[f].confirmed = file[f].confirmed
      BY <1>20, <2>3 DEF Rests
    <3>3. QED
      BY <1>20, <2>1, <2>3, <3>1, <3>2
  <2>4. QED
    BY <1>3, <1>10, <1>13, <1>20, <2>1, <2>2, <2>3
<1>21. CASE PutConfirmed(h)
  <2>1. /\ partial' = partial /\ file' = file /\ t.pc = "confirmed" /\ t.pc \notin Outside
        /\ session' = session \/ MarkCheckpoint(f, End(h))
    BY <1>12, <1>14, <1>21 DEF PutConfirmed, storage, allVars, vars, f
  <2>2. End(h) <= p.written
    BY <1>1, <2>1 DEF Receives, p, t, f
  <2>3. QED
    BY <1>5, <1>7, <1>8, <1>20, <2>1, <2>2
<1>22. CASE PutVerified(h)
  <2>1. /\ partial' = partial /\ file' = file /\ t.pc = "verified" /\ t.pc \notin Outside
        /\ session' = session \/ MarkCheckpoint(f, End(h))
    BY <1>12, <1>14, <1>22 DEF PutVerified, storage, allVars, vars, f
  <2>2. file[f].status \in Past
    BY <1>1, <2>1 DEF Verifies, t, f
  <2>3. ~MayResume(file'[f])
    BY <2>1, <2>2 DEF MayResume, Past, Fin, Ended
  <2>4. QED
    BY <1>5, <1>7, <1>8, <1>20, <2>1, <2>3
<1>23. CASE PutHashMismatch(h) \/ PutCompleted(h) \/ PutCatch(h)
  <2>1. /\ t.pc \in PastPlaces /\ t.pc \notin Outside
        /\ session' = session \/ Clear(f)
        /\ Unlinked(f) \/ (partial' = partial /\ file' = file)
    BY <1>12, <1>14, <1>23
    DEF PutHashMismatch, PutCompleted, PutCatch, PastPlaces, Announce, allVars, vars, f
  <2>2. AllPast(f)
    BY <1>1, <2>1 DEF Verifies, t, f
  <2>3. QED
    BY <1>5, <1>8, <1>9, <2>1, <2>2
<1>24. CASE OrderEnter(h)
  <2>1. t.pc \notin Outside /\ session' = session /\ session' = [session EXCEPT ![f] = s]
    BY <1>3, <1>12, <1>13, <1>24 DEF OrderEnter, Entered
  <2>2. CASE partial' = partial /\ file' = file
    BY <1>5, <1>8, <2>1, <2>2
  <2>3. ASSUME s.open, partial' = [partial EXCEPT ![f].synced = p.written],
               file' = file \/ ConfirmProgress(f, s.accepted)
        PROVE  BytesEffect(h)
    <3> DEFINE w == [p EXCEPT !.synced = p.written]
    <3>1. /\ w \in Partials /\ w.synced = p.written /\ w.written = p.written
          /\ partial' = [partial EXCEPT ![f] = w]
      BY <1>3, <1>13, <2>3 DEF Partials
    <3> HIDE DEF w
    <3>2. p.synced <= w.synced /\ w.synced <= w.written
      BY <1>3, <3>1
    <3>3. file'[f].confirmed = file[f].confirmed \/ file'[f].confirmed = s.accepted
      BY <1>1, <1>2, <2>3, CallsMove DEF ClaimInv
    <3>4. ASSUME "failed" \notin told'[f], MayResume(file'[f])
          PROVE  file'[f].confirmed <= w.synced /\ (s.open => s.accepted <= w.written)
      <4>1. file[f].confirmed <= p.synced /\ s.accepted <= p.written
        BY <1>11, <2>3, <3>4
      <4>2. file[f].confirmed <= p.written
        BY <1>3, <1>13, <4>1
      <4>3. QED
        BY <3>1, <3>3, <4>1, <4>2
    <3>5. QED
      BY <1>3, <1>10, <2>1, <3>1, <3>2, <3>4
  <2>4. \/ partial' = partial /\ file' = file
        \/ /\ s.open /\ partial' = [partial EXCEPT ![f].synced = p.written]
           /\ file' = file \/ ConfirmProgress(f, s.accepted)
    BY <1>13, <1>24 DEF OrderEnter, Await, allVars, vars, f, s, p
  <2>5. QED
    BY <2>2, <2>3, <2>4
<1>25. CASE OrderCheckpointed(h)
  <2>1. /\ partial' = partial /\ file' = file /\ t.pc \notin Outside
        /\ session' = session \/ MarkCheckpoint(f, s.accepted)
    BY <1>12, <1>13, <1>14, <1>25 DEF OrderCheckpointed, storage, allVars, vars, f
  <2>2. CASE session' = session
    BY <1>5, <1>8, <2>1, <2>2
  <2>3. CASE s.open /\ MarkCheckpoint(f, s.accepted)
    BY <1>3, <1>5, <1>20, <2>1, <2>3
  <2>4. CASE ~s.open /\ MarkCheckpoint(f, s.accepted)
    <3> DEFINE v == [s EXCEPT !.accepted = s.accepted, !.durable = s.accepted]
    <3>1. v \in Sessions /\ ~v.open /\ session' = [session EXCEPT ![f] = v]
      BY <1>3, <1>13, <2>4 DEF Sessions, MarkCheckpoint
    <3> HIDE DEF v
    <3>2. partial' = [partial EXCEPT ![f] = p]
      BY <1>3, <1>13, <2>1
    <3>3. "failed" \notin told'[f] /\ MayResume(file'[f]) => file'[f].confirmed <= p.synced
      BY <1>11, <2>1
    <3>4. QED
      BY <1>3, <1>10, <1>13, <2>1, <3>1, <3>2, <3>3
  <2>5. QED
    BY <2>1, <2>2, <2>3, <2>4
<1>26. CASE OrderOperated(h)
  <2>1. /\ t.pc = "operated" /\ t.pc \notin Outside /\ file' = file
        /\ \/ UNCHANGED <<session, partial>>
           \/ /\ t.op \notin {"pause"} /\ Unlinked(f) /\ Clear(f)
              /\ t.op = "disconnect" => Tell(f, "failed")
    BY <1>12, <1>14, <1>26 DEF OrderOperated, allVars, vars, f, t
  <2>2. CASE UNCHANGED <<session, partial>>
    BY <1>5, <1>8, <2>1, <2>2
  <2>3. CASE t.op = "disconnect" /\ Unlinked(f) /\ Clear(f) /\ Tell(f, "failed")
    <3>1. "failed" \in told'[f]
      BY <1>1, <1>2, <2>3 DEF Tell, ToldTyped
    <3>2. QED
      BY <1>9, <2>1, <2>3, <3>1
  <2>4. t.op \in {"pause", "disconnect"}
    <3>1. t.op \in Orders /\ t.op # "resume"
      BY <1>1, <1>2, <1>14, <2>1 DEF TasksTyped, Receives, t
    <3>2. QED
      BY <3>1, UploadAssumption DEF NoCancels
  <2>5. QED
    BY <2>1, <2>2, <2>3, <2>4
<1>27. QED
  BY <1>15, <1>16, <1>17, <1>18, <1>19, <1>21, <1>22, <1>23, <1>24, <1>25, <1>26
  DEF HandlerStep, PutStep, OrderStep

(* The steps that lead a PUT to the next place of its reception.            *)
LEMMA HandlersReceive ==
  ASSUME DurableInv, TasksTyped, NEW h \in Tasks, HandlerStep(h)
  PROVE  \/ task'[h].pc \notin Receiving
         \/ PutEnter(h) /\ task'[h].pc = "read"
         \/ PutOpen(h) /\ task'[h].pc = "opened"
         \/ (\E due \in BOOLEAN : PutWrite(h, due)) /\ task'[h].pc = "written"
         \/ PutConfirm(h) /\ task'[h].pc = "confirmed"
<1> DEFINE f == task[h].file
           to == task'[h].pc
           n == Len(pending) + 1
           Places == {"idle", "lock"} \cup Working \cup Outside
<1>0. n \in Nat
  BY DEF DurableInv
<1>1. /\ \A pc \in {"read", "opened", "confirmed"} : pc \in Places /\ pc \in Receiving
      /\ \A pc \in Finishing \cup Ending \cup OrderPlaces \cup Outside \cup {"idle"} :
           pc \in Places /\ pc \notin Receiving
  BY DEF Working, PutPlaces, Finishing, Receiving, Ending, OrderPlaces, Outside
<1>2. ASSUME NEW pc \in Places, Goto(h, pc) PROVE to = pc
  BY <1>2, GotoGoes DEF Goes
<1>3. ASSUME NEW pc \in Places,
             task' = [task EXCEPT ![h].pc = pc, ![h].wait = n, ![h].broke = FALSE]
      PROVE  to = pc
  BY <1>0, <1>3, AwaitGoes DEF Goes
<1>4. Idle.pc = "idle"
  BY DEF Idle
<1>5. ASSUME Leave(h) \/ task' = [task EXCEPT ![h] = Idle] PROVE to = "idle"
  BY <1>4, <1>5, IdleFinishes DEF Finishes, Leave
<1>6. ASSUME OrderFails(h) PROVE to \in {"idle", "control_failed"}
  BY <1>4, <1>6, ErrorGoes DEF Finishes, Goes
<1> HIDE DEF to, n, Places
<1>7. /\ {"verified", "hash", "name", "link", "complete", "catch"} = Finishing
      /\ {"missing", "mismatched", "caught", "completed"} = Ending
      /\ {"checkpointed", "operate", "operated"} = OrderPlaces
      /\ {"control_failed", "control_told"} = Outside
  BY DEF Finishing, Ending, OrderPlaces, Outside
<1>8. CASE PutEnter(h) \/ PutOpen(h)
  BY <1>1, <1>2, <1>5, <1>8 DEF PutEnter, PutOpen, to
<1>9. ASSUME NEW due \in BOOLEAN, PutWrite(h, due) PROVE to = "written"
  <2> DEFINE u == [[task[h] EXCEPT !.pc = "written"] EXCEPT !.due = due]
  <2>1. task' = [task EXCEPT ![h] = u] /\ task \in [Tasks -> Task] /\ u.pc = "written"
    BY <1>9 DEF PutWrite, TasksTyped, Task
  <2> HIDE DEF u
  <2>2. QED
    BY <2>1 DEF to
<1>10. CASE PutConfirm(h)
  <2>1. to \in {"idle", "verified", "confirmed"}
    BY <1>1, <1>3, <1>5, <1>7, <1>10 DEF PutConfirm, Await, n
  <2>2. QED
    BY <1>1, <1>7, <1>10, <2>1 DEF to
<1>11. CASE PutLink(h)
  <2> DEFINE u == [[task[h] EXCEPT !.pc = "name"] EXCEPT !.suffix = @ + 1]
  <2>1. CASE task' = [task EXCEPT ![h] = u]
    <3>1. task \in [Tasks -> Task] /\ u.pc = "name"
      BY DEF TasksTyped, Task
    <3> HIDE DEF u
    <3>2. to = "name"
      BY <2>1, <3>1 DEF to
    <3>3. QED
      BY <1>1, <1>7, <3>2 DEF to
  <2>2. CASE Goto(h, "complete") \/ Goto(h, "catch")
    BY <1>1, <1>2, <1>7, <2>2 DEF to
  <2>3. QED
    BY <1>11, <2>1, <2>2 DEF PutLink
<1>12. CASE \/ PutRefuse(h) \/ PutFindsNoPartial(h) \/ PutBreaksOff(h) \/ PutConfirmed(h)
            \/ PutVerified(h) \/ PutHash(h) \/ PutHashMismatch(h) \/ PutName(h)
  <2>1. to \in Finishing \cup Ending \cup {"idle"}
    BY <1>1, <1>2, <1>3, <1>5, <1>7, <1>12
    DEF PutRefuse, PutFindsNoPartial, PutBreaksOff, PutConfirmed, PutVerified, PutHash,
        PutHashMismatch, PutName, Await, Announce, n
  <2>2. QED
    BY <1>1, <2>1 DEF to
<1>13. CASE PutComplete(h) \/ PutCompleted(h) \/ PutCatchCompleted(h) \/ PutCatch(h) \/ PutFailed(h)
  <2>1. to \in Finishing \cup Ending \cup {"idle"}
    BY <1>1, <1>2, <1>3, <1>5, <1>7, <1>13
    DEF PutComplete, PutCompleted, PutCatchCompleted, PutCatch, PutFailed, Await, Announce, n
  <2>2. QED
    BY <1>1, <2>1 DEF to
<1>14. CASE OrderStep(h)
  <2>1. to \in OrderPlaces \cup Outside \cup {"idle"}
    BY <1>1, <1>2, <1>3, <1>5, <1>6, <1>7, <1>14
    DEF OrderStep, OrderEnter, OrderCheckpointed, OrderOperates, OrderOperated, OrderFailsFile,
        OrderTold, Await, n
  <2>2. QED
    BY <1>1, <2>1 DEF to
<1>15. QED
  BY <1>8, <1>9, <1>10, <1>11, <1>12, <1>13, <1>14 DEF HandlerStep, PutStep, to

(* What a handler is asked for stays with it while it receives.             *)
LEMMA RequestStays ==
  ASSUME TasksTyped, NEW h \in Tasks
  PROVE  /\ \A pc \in {"idle", "lock"} \cup Working \cup Outside :
              Goto(h, pc) => /\ task'[h].offset = task[h].offset /\ task'[h].due = task[h].due
                             /\ task'[h].file = task[h].file /\ task'[h].op = task[h].op
         /\ \A pc, n : task' = [task EXCEPT ![h].pc = pc, ![h].wait = n, ![h].broke = FALSE] =>
              /\ task'[h].offset = task[h].offset /\ task'[h].due = task[h].due
              /\ task'[h].file = task[h].file /\ task'[h].op = task[h].op
         /\ \A due : task' = [task EXCEPT ![h].pc = "written", ![h].due = due] =>
              /\ task'[h].offset = task[h].offset /\ task'[h].due = due
              /\ task'[h].file = task[h].file /\ task'[h].op = task[h].op
<1>1. task \in [Tasks -> Task] /\ task[h] \in Task
  BY DEF TasksTyped
<1>2. ASSUME NEW pc, Goto(h, pc)
      PROVE  /\ task'[h].offset = task[h].offset /\ task'[h].due = task[h].due
             /\ task'[h].file = task[h].file /\ task'[h].op = task[h].op
  BY <1>1, <1>2 DEF Goto, Task
<1>3. ASSUME NEW pc, NEW n,
             task' = [task EXCEPT ![h].pc = pc, ![h].wait = n, ![h].broke = FALSE]
      PROVE  /\ task'[h].offset = task[h].offset /\ task'[h].due = task[h].due
             /\ task'[h].file = task[h].file /\ task'[h].op = task[h].op
  <2> DEFINE u == [[[task[h] EXCEPT !.pc = pc] EXCEPT !.wait = n] EXCEPT !.broke = FALSE]
  <2>1. task' = [task EXCEPT ![h] = u]
    BY <1>1, <1>3
  <2>2. u.offset = task[h].offset /\ u.due = task[h].due /\ u.file = task[h].file /\ u.op = task[h].op
    BY <1>1 DEF Task
  <2> HIDE DEF u
  <2>3. QED
    BY <1>1, <2>1, <2>2
<1>4. ASSUME NEW due, task' = [task EXCEPT ![h].pc = "written", ![h].due = due]
      PROVE  /\ task'[h].offset = task[h].offset /\ task'[h].due = due
             /\ task'[h].file = task[h].file /\ task'[h].op = task[h].op
  <2> DEFINE u == [[task[h] EXCEPT !.pc = "written"] EXCEPT !.due = due]
  <2>1. task' = [task EXCEPT ![h] = u]
    BY <1>1, <1>4
  <2>2. u.offset = task[h].offset /\ u.due = due /\ u.file = task[h].file /\ u.op = task[h].op
    BY <1>1 DEF Task
  <2> HIDE DEF u
  <2>3. QED
    BY <1>1, <2>1, <2>2
<1>5. QED
  BY <1>2, <1>3, <1>4

LEMMA HandlerKeepsReceives ==
  ASSUME UploadInv, BytesInv, NEW h \in Tasks, HandlerStep(h), FileEffect(h), BytesEffect(h)
  PROVE  \A k \in Tasks : Receives(k)'
<1> DEFINE f == task[h].file
           t == task[h]
           s == session[f]
           p == partial[f]
<1>1. /\ DurableInv /\ CoreInv /\ TasksTyped /\ TurnInv /\ ClaimInv /\ SessionInv
      /\ Receives(h) /\ TurnEffect(h)
  <2>1. DurableInv /\ TasksTyped
    BY DEF UploadInv, TurnInv
  <2>2. QED
    BY <2>1, PutTurns, OrderTurns DEF UploadInv, DurableInv, BytesInv, HandlerStep
<1>2. /\ t.pc # "idle" /\ f \in Files /\ t.wait = 0 /\ t.op # "resume"
      /\ file[f].status # "absent"
      /\ InTurn(h) \/ t.pc \in Outside
  BY <1>1 DEF TurnEffect, Receives
<1>3. /\ \A k \in Tasks \ {h} : task'[k] = task[k]
      /\ task'[h].pc # "idle" => task'[h].file = f /\ task'[h].op = t.op
  BY <1>1 DEF TurnEffect, Goes, Finishes, Idle
<1>4. /\ \A g \in Files : file[g].status # "absent" => file'[g].status # "absent"
      /\ \A g \in Files \ {f} :
           file'[g] = file[g] /\ session'[g] = session[g] /\ partial'[g] = partial[g]
      /\ t.pc \in Outside => /\ session'[f] = session[f] /\ partial'[f] = partial[f]
                             /\ file'[f].confirmed = file[f].confirmed
  BY DEF FileEffect, Moves, BytesEffect
<1>5. /\ session \in [Files -> Sessions] /\ partial \in [Files -> Partials]
      /\ s \in Sessions /\ p \in Partials /\ file[f].confirmed \in Nat
      /\ s.accepted \in Nat /\ p.written \in Nat /\ p.synced \in Nat
  <2>1. session \in [Files -> Sessions] /\ partial \in [Files -> Partials]
    BY <1>1 DEF SessionInv, Sessions, Partials
  <2>2. s \in Sessions /\ p \in Partials
    BY <1>2, <2>1
  <2>3. QED
    BY <1>1, <1>2, <2>1, <2>2 DEF Sessions, Partials, CoreInv, TypeOK, FileRecord
<1>6. ASSUME NEW k \in Tasks, k # h
      PROVE  Receives(k)'
  <2>1. task'[k] = task[k] /\ Receives(k) /\ End(k)' = End(k)
    BY <1>3, <1>6 DEF BytesInv, End
  <2>2. CASE task[k].pc = "idle"
    BY <2>1, <2>2 DEF Receives
  <2>3. CASE task[k].pc # "idle"
    <3> DEFINE g == task[k].file
    <3>1. g \in Files /\ file'[g].status # "absent" /\ task[k].op # "resume"
      BY <1>1, <1>4, <2>1, <2>3 DEF TasksTyped, Receives
    <3>2. ASSUME task[k].pc \in Receiving
          PROVE  /\ session'[g] = session[g] /\ partial'[g] = partial[g]
                 /\ file'[g].confirmed = file[g].confirmed
      <4>1. CASE g # f
        BY <1>4, <3>1, <4>1
      <4>2. CASE g = f
        <5>1. InTurn(k)
          BY <3>2 DEF InTurn, Working, PutPlaces
        <5>2. ~InTurn(h)
          BY <1>1, <1>2, <1>6, <4>2, <5>1, OneHandlerWorks
        <5>3. QED
          BY <1>2, <1>4, <4>2, <5>2
      <4>3. QED
        BY <4>1, <4>2
    <3>3. {"read", "opened", "written", "confirmed"} = Receiving
      BY DEF Receiving
    <3> HIDE DEF g
    <3>4. CASE task[k].pc \in Receiving
      BY <2>1, <3>1, <3>2, <3>4 DEF Receives, g
    <3>5. CASE task[k].pc \notin Receiving
      <4>1. task[k].pc \notin {"read", "opened", "written", "confirmed"}
        BY <3>3, <3>5
      <4>2. QED
        BY <2>1, <3>1, <4>1 DEF Receives, g
    <3>6. QED
      BY <3>4, <3>5
  <2>4. QED
    BY <2>2, <2>3
<1>7. Receives(h)'
  <2>1. task'[h].pc # "idle" =>
          /\ task'[h].file = f /\ file'[f].status # "absent" /\ task'[h].op # "resume"
    BY <1>2, <1>3, <1>4
  <2>2. ASSUME NEW pc \in PutPlaces, Ready(h, pc) PROVE t.pc = pc
    BY <2>2 DEF Ready
  <2>3. /\ {"read", "opened", "written", "confirmed"} = Receiving
        /\ Receiving \subseteq PutPlaces /\ Receiving \subseteq {"idle", "lock"} \cup Working \cup Outside
    BY DEF Receiving, PutPlaces, Working
  <2>4. CASE task'[h].pc \notin Receiving
    <3>1. task'[h].pc \notin {"read", "opened", "written", "confirmed"}
      BY <2>3, <2>4
    <3>2. QED
      BY <2>1, <3>1 DEF Receives
  <2>10. ASSUME task' = [task EXCEPT ![h] = Idle] PROVE task'[h].pc = "idle"
    <3>1. Idle.pc = "idle"
      BY DEF Idle
    <3>2. QED
      BY <1>1, <2>10, <3>1, IdleFinishes DEF Finishes
  <2>5. CASE PutEnter(h) /\ task'[h].pc = "read"
    <3> DEFINE v == SessionFor(f)
    <3>1. /\ session' = [session EXCEPT ![f] = v] /\ file' = file
          /\ \/ Goto(h, "read") /\ t.offset = v.accepted
             \/ task' = [task EXCEPT ![h] = Idle]
      BY <2>5 DEF PutEnter, allVars, vars, Leave
    <3>2. Goto(h, "read") /\ t.offset = v.accepted
      BY <2>5, <2>10, <3>1
    <3>3. task'[h].offset = t.offset
      BY <1>1, <2>3, <3>2, RequestStays
    <3>4. v.open /\ file[f].confirmed <= v.accepted
      <4>1. file[f].confirmed <= file[f].confirmed
        BY <1>5
      <4>2. QED
        BY <4>1 DEF SessionFor
    <3>5. session'[f] = v
      BY <1>2, <1>5, <3>1
    <3> HIDE DEF v
    <3>6. QED
      BY <2>1, <2>5, <3>1, <3>2, <3>3, <3>4, <3>5 DEF Receives, f
  <2>6. CASE PutOpen(h) /\ task'[h].pc = "opened"
    <3>1. /\ t.pc = "read" /\ Goto(h, "opened") /\ session' = session /\ file' = file
          /\ IF t.offset = 0
             THEN partial' = [partial EXCEPT ![f] = [NoPartial EXCEPT !.there = TRUE]]
             ELSE partial' = partial /\ p.there
      BY <2>6 DEF PutOpen, Ready, allVars, vars
    <3>2. task'[h].offset = t.offset
      BY <1>1, <2>3, <3>1, RequestStays
    <3>3. /\ session[f].open /\ session[f].accepted = t.offset
          /\ file[f].confirmed <= t.offset
      BY <1>1, <3>1 DEF Receives
    <3>4. partial'[f].there
      BY <1>2, <1>5, <3>1 DEF NoPartial
    <3>5. QED
      BY <2>1, <2>6, <3>1, <3>2, <3>3, <3>4 DEF Receives, f
  <2>7. ASSUME NEW due \in BOOLEAN, PutWrite(h, due), task'[h].pc = "written"
        PROVE  Receives(h)'
    <3> DEFINE end == IF End(h) > p.written THEN End(h) ELSE p.written
    <3>1. /\ t.pc = "opened" /\ session' = session /\ file' = file
          /\ task' = [task EXCEPT ![h].pc = "written", ![h].due = due]
      BY <2>7 DEF PutWrite, Ready, allVars, vars
    <3>2. /\ p.there /\ session[f].open /\ session[f].accepted = t.offset
          /\ file[f].confirmed <= t.offset
      BY <1>1, <3>1 DEF Receives
    <3>3. partial' = [partial EXCEPT ![f].written = end, ![f].synced = IF due THEN end ELSE @]
      BY <2>7, <3>2 DEF PutWrite
    <3>4. End(h) \in Nat
      BY <1>1, <1>2, QueueAssumption DEF TasksTyped, Task, End
    <3>5. end \in Nat /\ End(h) <= end
      BY <1>5, <3>4
    <3> HIDE DEF end
    <3>6. /\ partial'[f].there /\ partial'[f].written = end /\ (due => partial'[f].synced = end)
      BY <1>2, <1>5, <3>2, <3>3 DEF Partials
    <3>7. task'[h].offset = t.offset /\ task'[h].due = due
      BY <1>1, <3>1, RequestStays
    <3>8. End(h)' = End(h)
      BY <2>1, <2>7, <3>7 DEF End
    <3>9. QED
      BY <2>1, <2>7, <3>1, <3>2, <3>5, <3>6, <3>7, <3>8 DEF Receives, f
  <2>8. CASE PutConfirm(h) /\ task'[h].pc = "confirmed"
    <3>1. t.pc = "written" /\ partial' = partial
      BY <2>8 DEF PutConfirm, Ready, storage
    <3>2. \/ task' = [task EXCEPT ![h] = Idle]
          \/ \E pc, n : task' = [task EXCEPT ![h].pc = pc, ![h].wait = n, ![h].broke = FALSE]
      <4>1. \/ task' = [task EXCEPT ![h] = Idle]
            \/ Await(h, BeginVerification(f), "verified")
            \/ Await(h, ConfirmProgress(f, End(h)), "confirmed")
        BY <2>8 DEF PutConfirm, Leave
      <4>2. ASSUME NEW pc \in {"verified", "confirmed"},
                   task' = [task EXCEPT ![h].pc = pc, ![h].wait = Len(pending) + 1, ![h].broke = FALSE]
            PROVE  \E q, n : task' = [task EXCEPT ![h].pc = q, ![h].wait = n, ![h].broke = FALSE]
        BY <4>2
      <4>3. QED
        BY <4>1, <4>2 DEF Await
    <3>3. PICK pc, n : task' = [task EXCEPT ![h].pc = pc, ![h].wait = n, ![h].broke = FALSE]
      BY <2>8, <2>10, <3>2
    <3>4. task'[h].offset = t.offset
      BY <1>1, <3>3, RequestStays
    <3>5. End(h)' = End(h)
      BY <2>1, <2>8, <3>4 DEF End
    <3>6. End(h) <= partial[f].written
      BY <1>1, <3>1 DEF Receives
    <3>7. QED
      BY <2>1, <2>8, <3>1, <3>5, <3>6 DEF Receives, f
  <2>9. QED
    BY <1>1, <2>4, <2>5, <2>6, <2>7, <2>8, HandlersReceive
<1>8. QED
  BY <1>6, <1>7

-----------------------------------------------------------------------------
(* What a record may claim after a step. *)
ClaimsNext(r, f) ==
  /\ r.status # "cancelled"
  /\ r.status = "absent" => r.confirmed = 0
  /\ r.confirmed <= file'[f].confirmed
  /\ "failed" \notin told'[f] /\ MayResume(r) => r.confirmed <= partial'[f].synced

(* A snapshot claims no more after a step than before it, while the synced  *)
(* bytes stay, or the phone was told, or nothing was confirmed.             *)
LEMMA ClaimStays ==
  ASSUME NEW f \in Files, NEW r \in FileRecord, Claims(r, f), CoreInv, CoreInv', Moves(f),
         told[f] \subseteq told'[f], partial[f] \in Partials, partial'[f] \in Partials,
         \/ partial[f].synced <= partial'[f].synced
         \/ "failed" \in told'[f] \/ file[f].confirmed = 0 \/ ~MayResume(r)
  PROVE  ClaimsNext(r, f)
<1>1. /\ file[f].confirmed \in Nat /\ file'[f].confirmed \in Nat /\ r.confirmed \in Nat
      /\ partial[f].synced \in Nat /\ partial'[f].synced \in Nat
  BY DEF CoreInv, TypeOK, FileRecord, Partials
<1>2. r.confirmed <= file[f].confirmed /\ file[f].confirmed <= file'[f].confirmed
  BY DEF Claims, Moves
<1>3. r.confirmed <= file'[f].confirmed
  BY <1>1, <1>2
<1>4. ASSUME "failed" \notin told'[f], MayResume(r)
      PROVE  r.confirmed <= partial'[f].synced
  <2>1. r.confirmed <= partial[f].synced
    BY <1>4 DEF Claims, Intact
  <2>2. CASE partial[f].synced <= partial'[f].synced
    BY <1>1, <2>1, <2>2
  <2>3. CASE file[f].confirmed = 0
    BY <1>1, <1>2, <2>3
  <2>4. QED
    BY <1>4, <2>2, <2>3
<1>5. QED
  BY <1>3, <1>4 DEF Claims, ClaimsNext

LEMMA ClaimsStay ==
  ASSUME UploadInv, UploadInv', ClaimInv, disk' = disk, pending' = pending \/ Persist,
         retrying' = retrying, ToldTyped',
         \A f \in Files : Moves(f) /\ told[f] \subseteq told'[f],
         partial \in [Files -> Partials], partial' \in [Files -> Partials],
         \A f \in Files : \/ partial[f].synced <= partial'[f].synced
                          \/ "failed" \in told'[f] \/ file[f].confirmed = 0 \/ AllPast(f),
         \A f \in Files : "failed" \notin told'[f] /\ MayResume(file'[f]) =>
                            file'[f].confirmed <= partial'[f].synced
  PROVE  ClaimInv'
<1> DEFINE n == Len(pending)
<1>1. /\ DurableInv /\ DurableInv' /\ CoreInv /\ CoreInv'
      /\ disk \in SnapshotType /\ pending \in Seq(SnapshotType) /\ n \in Nat
  BY DEF UploadInv, DurableInv, Loadable
<1>2. ASSUME NEW f \in Files, NEW r \in FileRecord, Claims(r, f), AllPast(f) => ~MayResume(r)
      PROVE  ClaimsNext(r, f)
  BY <1>1, <1>2, ClaimStays
<1>3. \A s \in Past : s \notin {"queued", "active", "paused"}
  BY DEF Past, Fin, Ended
<1>4. ASSUME NEW f \in Files PROVE ClaimsNext(disk'.file[f], f)
  <2>1. disk.file[f] \in FileRecord /\ Claims(disk.file[f], f)
    BY <1>1 DEF SnapshotType, ClaimInv
  <2>2. AllPast(f) => ~MayResume(disk.file[f])
    BY <1>3 DEF AllPast, MayResume
  <2>3. QED
    BY <1>2, <2>1, <2>2
<1>5. ASSUME NEW f \in Files PROVE ClaimsNext(file'[f], f)
  <2>1. file'[f].confirmed \in Nat
    BY <1>1 DEF CoreInv, TypeOK, FileRecord
  <2>2. file'[f].confirmed <= file'[f].confirmed
    BY <2>1
  <2>3. QED
    BY <2>2 DEF ClaimsNext, Moves
<1>6. ASSUME NEW f \in Files, NEW i \in 1..n PROVE ClaimsNext(pending[i].file[f], f)
  <2>1. i \in DOMAIN pending /\ pending[i] \in SnapshotType
    BY <1>1
  <2>2. pending[i].file[f] \in FileRecord /\ Claims(pending[i].file[f], f)
    BY <2>1 DEF SnapshotType, ClaimInv
  <2>3. AllPast(f) => ~MayResume(pending[i].file[f])
    BY <1>3, <2>1 DEF AllPast, MayResume
  <2>4. QED
    BY <1>2, <2>2, <2>3
<1>7. ASSUME NEW f \in Files, NEW i \in DOMAIN pending' PROVE ClaimsNext(pending'[i].file[f], f)
  <2>1. DOMAIN pending = 1..n
    BY <1>1
  <2>2. CASE pending' = pending
    BY <1>6, <2>1, <2>2
  <2>3. CASE Persist
    <3>1. /\ Len(pending') = n + 1 /\ pending'[n + 1] = Snapshot'
          /\ \A j \in 1..n : pending'[j] = pending[j]
      BY <1>1, <2>3, SnapshotsWait
    <3>2. i \in 1..n \/ i = n + 1
      BY <1>1, <3>1 DEF DurableInv
    <3>3. CASE i \in 1..n
      BY <1>6, <3>1, <3>3
    <3>4. CASE i = n + 1
      BY <1>5, <3>1, <3>4 DEF Snapshot
    <3>5. QED
      BY <3>2, <3>3, <3>4
  <2>4. QED
    BY <2>2, <2>3
<1>8. retrying' = {}
  BY DEF ClaimInv
<1>9. QED
  BY <1>4, <1>5, <1>7, <1>8 DEF ClaimInv, Claims, ClaimsNext, Intact

LEMMA HandlerKeepsBytesInv ==
  ASSUME NoCancels, UploadInv, UploadInv', BytesInv, NEW h \in Tasks, HandlerStep(h)
  PROVE  BytesInv'
<1> DEFINE f == task[h].file
<1>1. /\ DurableInv /\ DurableInv' /\ CoreInv /\ TasksTyped /\ ToldTyped /\ ClaimInv /\ SessionInv
      /\ Receives(h)
  BY DEF UploadInv, TurnInv, DurableInv, BytesInv, ClaimInv
<1>2. FileEffect(h) /\ ToldEffect(h) /\ \A g \in Files : told[g] \subseteq told'[g]
  BY <1>1, HandlersMove, HandlersTell, ToldGrows
<1>3. ToldTyped' /\ \A g \in Files : Moves(g)
  BY <1>2 DEF ToldEffect, FileEffect
<1>4. BytesEffect(h)
  BY <1>1, <1>2, <1>3, HandlersKeepBytes
<1>5. /\ disk' = disk /\ (pending' = pending \/ Persist) /\ f \in Files
      /\ file[f].status # "absent"
  <2>1. TurnEffect(h)
    BY <1>1, PutTurns, OrderTurns DEF HandlerStep
  <2>2. HandlerEffect(h)
    BY <1>1, PutEffect, OrderEffect DEF HandlerStep
  <2>3. QED
    BY <1>1, <2>1, <2>2 DEF TurnEffect, HandlerEffect, Receives
<1>6. partial \in [Files -> Partials]
  BY <1>1 DEF SessionInv, Partials
<1>7. /\ session' \in [Files -> Sessions] /\ partial' \in [Files -> Partials]
      /\ \A g \in Files \ {f} :
           session'[g] = session[g] /\ partial'[g] = partial[g] /\ file'[g] = file[g]
      /\ partial'[f].synced <= partial'[f].written
      /\ \/ partial[f].synced <= partial'[f].synced
         \/ "failed" \in told'[f] \/ file[f].confirmed = 0 \/ AllPast(f)
      /\ "failed" \notin told'[f] /\ MayResume(file'[f]) =>
           /\ file'[f].confirmed <= partial'[f].synced
           /\ session'[f].open => session'[f].accepted <= partial'[f].written
  BY <1>2, <1>4 DEF BytesEffect, FileEffect
<1> HIDE DEF f
<1>8. ASSUME NEW g \in Files
      PROVE  /\ \/ partial[g].synced <= partial'[g].synced
                \/ "failed" \in told'[g] \/ file[g].confirmed = 0 \/ AllPast(g)
             /\ "failed" \notin told'[g] /\ MayResume(file'[g]) =>
                  /\ file'[g].confirmed <= partial'[g].synced
                  /\ session'[g].open => session'[g].accepted <= partial'[g].written
             /\ partial'[g].synced <= partial'[g].written
             /\ session'[g].open => file'[g].status # "absent"
  <2>1. CASE g = f
    <3>1. file'[f].status # "absent"
      BY <1>3, <1>5 DEF Moves
    <3>2. QED
      BY <1>7, <2>1, <3>1
  <2>2. CASE g # f
    <3>1. session'[g] = session[g] /\ partial'[g] = partial[g] /\ file'[g] = file[g]
      BY <1>7, <2>2
    <3>2. partial[g].synced \in Nat
      BY <1>6 DEF Partials
    <3>3. partial[g].synced <= partial'[g].synced
      BY <3>1, <3>2
    <3>4. "failed" \notin told'[g] => Intact(g)
      BY <1>2 DEF Intact
    <3>5. Intact(g) /\ MayResume(file[g]) =>
            /\ file[g].confirmed <= partial[g].synced
            /\ session[g].open => session[g].accepted <= partial[g].written
      BY <1>1 DEF ClaimInv, Claims, SessionInv
    <3>6. /\ partial[g].synced <= partial[g].written
          /\ session[g].open => file[g].status # "absent"
      BY <1>1 DEF SessionInv
    <3>7. QED
      BY <3>1, <3>3, <3>4, <3>5, <3>6
  <2>3. QED
    BY <2>1, <2>2
<1>9. ClaimInv'
  BY <1>1, <1>2, <1>3, <1>5, <1>6, <1>7, <1>8, ClaimsStay DEF FileEffect
<1>10. SessionInv'
  <2>1. \A g \in Files :
          /\ partial'[g].synced <= partial'[g].written
          /\ session'[g].open => file'[g].status # "absent"
          /\ session'[g].open /\ "failed" \notin told'[g] /\ MayResume(file'[g]) =>
               session'[g].accepted <= partial'[g].written
    BY <1>8
  <2>2. QED
    BY <1>7, <2>1 DEF SessionInv, Intact, Sessions, Partials
<1>11. \A k \in Tasks : Receives(k)'
  BY <1>2, <1>4, HandlerKeepsReceives
<1>12. \A k \in Tasks : Verifies(k)'
  BY <1>3, HandlerKeepsVerifies
<1>13. QED
  BY <1>9, <1>10, <1>11, <1>12 DEF BytesInv

-----------------------------------------------------------------------------
(* Outside the handlers *)

LEMMA UnlockedMoves ==
  ASSUME NoCancels, UploadInv, ClaimInv, UnlockedStep
  PROVE  /\ retrying' = retrying /\ partial' = partial
         /\ ToldTyped' /\ \A g \in Files : told[g] \subseteq told'[g]
         /\ \A g \in Files : Moves(g) /\ file'[g].confirmed = file[g].confirmed
<1>1. CoreInv /\ ToldTyped /\ retrying = {} /\ \A g \in Files : Claims(file[g], g)
  BY DEF UploadInv, DurableInv, ClaimInv
<1>2. file \in [Files -> FileRecord]
  BY <1>1 DEF CoreInv, TypeOK
<1>3. \A f \in Files : file[f].status # "cancelled" /\ f \notin retrying
  BY <1>1 DEF Claims
<1>4. ASSUME NEW g \in Files, file'[g] = file[g]
      PROVE  Moves(g) /\ file'[g].confirmed = file[g].confirmed
  BY <1>1, <1>4, SameMoves
<1>5. ASSUME NEW g \in Files, NEW s \in FileStatus \ {"cancelled", "absent"},
             file'[g] = [file[g] EXCEPT !.status = s],
             file[g].status \in Past => s \in Past,
             s \in {"queued", "active", "paused"} => MayResume(file[g])
      PROVE  Moves(g) /\ file'[g].confirmed = file[g].confirmed
  <2>1. file'[g].status = s /\ file'[g].confirmed = file[g].confirmed
    BY <1>2, <1>5 DEF FileRecord
  <2>2. QED
    BY <1>1, <1>5, <2>1, StatusMoves
<1>6. told' = told => ToldTyped' /\ \A g \in Files : told[g] \subseteq told'[g]
  BY <1>1 DEF ToldTyped
<1>7. ASSUME NEW t \in Transfers, Offer(t)
      PROVE  /\ retrying' = retrying /\ partial' = partial /\ told' = told
             /\ \A g \in Files : Moves(g) /\ file'[g].confirmed = file[g].confirmed
  <2>1. /\ ~Known(t) /\ file' = [f \in Files |-> IF Owner[f] = t THEN NewFile ELSE file[f]]
        /\ retrying' = retrying /\ partial' = partial /\ told' = told
    BY <1>7 DEF Offer, Unlocked, AcceptOffer, AddBatch, uploadVars, storage
  <2>2. ASSUME NEW g \in Files PROVE Moves(g) /\ file'[g].confirmed = file[g].confirmed
    <3>1. CASE Owner[g] = t
      <4>1. file[g].status = "absent" /\ file'[g] = NewFile
        BY <1>1, <2>1, <3>1 DEF CoreInv, KnownTogether, Known
      <4>2. file[g].confirmed = 0 /\ file'[g].confirmed = 0 /\ file'[g].status = "queued"
        BY <1>1, <4>1 DEF Claims, NewFile
      <4>3. QED
        BY <4>1, <4>2 DEF Moves, Past, Fin, Ended
    <3>2. CASE Owner[g] # t
      BY <1>4, <2>1, <3>2
    <3>3. QED
      BY <3>1, <3>2
  <2>3. QED
    BY <2>1, <2>2
<1>8. ASSUME NEW f \in Files, OfferTells(f)
      PROVE  /\ retrying' = retrying /\ partial' = partial
             /\ ToldTyped' /\ \A g \in Files : told[g] \subseteq told'[g]
             /\ \A g \in Files : Moves(g) /\ file'[g].confirmed = file[g].confirmed
  <2>1. /\ Tell(f, "complete") \/ Tell(f, "failed")
        /\ UNCHANGED <<retrying, partial, file>>
    BY <1>8 DEF OfferTells, allVars, vars, storage
  <2>2. ToldTyped' /\ \A g \in Files : told[g] \subseteq told'[g]
    BY <1>1, <2>1 DEF Tell, ToldTyped
  <2>3. QED
    BY <1>4, <2>1, <2>2
<1>9. ASSUME NEW f \in Files, Resume(f)
      PROVE  /\ retrying' = retrying /\ partial' = partial /\ told' = told
             /\ \A g \in Files : Moves(g) /\ file'[g].confirmed = file[g].confirmed
  <2> DEFINE u == IF file[f].status = "paused" THEN [file[f] EXCEPT !.status = "queued"] ELSE file[f]
  <2>1. /\ file' = [file EXCEPT ![f] = u] /\ retrying' = retrying
        /\ partial' = partial /\ told' = told
    BY <1>9 DEF Resume, Unlocked, ResumeFile, SettleFile, Settle, Static, uploadVars, storage
  <2>2. file'[f] = u /\ \A g \in Files \ {f} : file'[g] = file[g]
    BY <1>2, <2>1
  <2>3. Moves(f) /\ file'[f].confirmed = file[f].confirmed
    <3>1. CASE file[f].status = "paused"
      <4>1. MayResume(file[f]) /\ file[f].status \notin Past /\ "queued" \in FileStatus \ {"cancelled", "absent"}
        BY <3>1 DEF MayResume, Past, Fin, Ended, FileStatus
      <4>2. file'[f] = [file[f] EXCEPT !.status = "queued"]
        BY <2>2, <3>1
      <4>3. QED
        BY <1>5, <4>1, <4>2
    <3>2. CASE file[f].status # "paused"
      BY <1>4, <2>2, <3>2
    <3>3. QED
      BY <3>1, <3>2
  <2> HIDE DEF u
  <2>4. QED
    BY <1>4, <2>1, <2>2, <2>3
<1>10. ASSUME ActivateNext
       PROVE  /\ retrying' = retrying /\ partial' = partial /\ told' = told
              /\ \A g \in Files : Moves(g) /\ file'[g].confirmed = file[g].confirmed
  <2>1. partial' = partial /\ told' = told
    BY <1>10 DEF ActivateNext, uploadVars, storage
  <2>2. CASE ClaimBegin
    <3>1. ASSUME NEW g \in Files, file'[g] = [file[g] EXCEPT !.status = "failed"]
          PROVE  Moves(g) /\ file'[g].confirmed = file[g].confirmed
      <4>1. "failed" \in Past /\ "failed" \in FileStatus \ {"cancelled", "absent"}
            /\ "failed" \notin {"queued", "active", "paused"}
        BY DEF Past, Fin, Ended, FileStatus, TerminalFile
      <4>2. QED
        BY <1>5, <3>1, <4>1
    <3>2. retrying' = retrying
          /\ \A g \in Files : file'[g] = file[g] \/ file'[g] = [file[g] EXCEPT !.status = "failed"]
      BY <2>2 DEF ClaimBegin, Expire
    <3>3. QED
      BY <1>4, <2>1, <3>1, <3>2
  <2>3. ASSUME NEW f \in Files, ClaimFile(f)
        PROVE  /\ retrying' = retrying
               /\ \A g \in Files : Moves(g) /\ file'[g].confirmed = file[g].confirmed
    <3>1. /\ file[f].status = "queued" /\ retrying' = retrying
          /\ file'[f] = [file[f] EXCEPT !.status = "active"]
          /\ \A g \in Files \ {f} : file'[g] = file[g]
      BY <1>2, <2>3 DEF ClaimFile, IsNext
    <3>2. MayResume(file[f]) /\ file[f].status \notin Past /\ "active" \in FileStatus \ {"cancelled", "absent"}
      BY <3>1 DEF MayResume, Past, Fin, Ended, FileStatus, InFlight
    <3>3. Moves(f) /\ file'[f].confirmed = file[f].confirmed
      BY <1>5, <3>1, <3>2
    <3>4. QED
      BY <1>4, <3>1, <3>3
  <2>4. CASE ClaimNothing
    BY <1>4, <2>1, <2>4 DEF ClaimNothing
  <2>5. QED
    BY <1>10, <2>1, <2>2, <2>3, <2>4 DEF ActivateNext, ClaimBeginStep, Unlocked
<1>11. /\ \A t \in Transfers : ~BatchOrder(t)
       /\ \A f \in Files : ~OfferRetries(f) /\ ~OfferRetried(f)
  BY <1>3 DEF BatchOrder, OfferRetries, OfferRetried, Unlocked, RetryEnd, NoCancels
<1>12. QED
  BY <1>6, <1>7, <1>8, <1>9, <1>10, <1>11 DEF UnlockedStep

(* A call that leaves the sessions and the partial files alone.             *)
LEMMA CallsKeepBytesInv ==
  ASSUME UploadInv, UploadInv', BytesInv,
         disk' = disk, pending' = pending \/ Persist, session' = session,
         retrying' = retrying, partial' = partial, ToldTyped',
         \A g \in Files : told[g] \subseteq told'[g],
         \A g \in Files : Moves(g) /\ file'[g].confirmed = file[g].confirmed,
         \A k \in Tasks :
           \/ task'[k] = task[k]
           \/ /\ task'[k].pc \in Outside /\ task'[k].op # "resume"
              /\ task'[k].file \in Files /\ file[task'[k].file].status # "absent"
  PROVE  BytesInv'
<1>1. /\ DurableInv /\ DurableInv' /\ TasksTyped /\ ClaimInv /\ SessionInv
      /\ \A k \in Tasks : Receives(k) /\ Verifies(k)
  BY DEF UploadInv, TurnInv, BytesInv
<1>2. disk' = disk /\ (pending' = pending \/ Persist) /\ session' = session
  OBVIOUS
<1>3. /\ retrying' = retrying /\ partial' = partial
      /\ ToldTyped' /\ \A g \in Files : told[g] \subseteq told'[g]
      /\ \A g \in Files : Moves(g) /\ file'[g].confirmed = file[g].confirmed
  OBVIOUS
<1>4. /\ partial \in [Files -> Partials] /\ session \in [Files -> Sessions]
  BY <1>1 DEF SessionInv, Partials, Sessions
<1>5. ASSUME NEW g \in Files
      PROVE  /\ partial[g].synced <= partial'[g].synced
             /\ "failed" \notin told'[g] /\ MayResume(file'[g]) =>
                  /\ file'[g].confirmed <= partial'[g].synced
                  /\ session'[g].open => session'[g].accepted <= partial'[g].written
             /\ partial'[g].synced <= partial'[g].written
             /\ session'[g].open => file'[g].status # "absent"
             /\ file[g].status # "absent" => file'[g].status # "absent"
  <2>1. partial[g].synced \in Nat
    BY <1>4 DEF Partials
  <2>2. partial[g].synced <= partial'[g].synced
    BY <1>3, <2>1
  <2>3. /\ partial[g].synced <= partial[g].written
        /\ session[g].open => file[g].status # "absent"
        /\ session[g].open /\ Intact(g) /\ MayResume(file[g]) =>
             session[g].accepted <= partial[g].written
        /\ Claims(file[g], g)
    BY <1>1 DEF SessionInv, ClaimInv
  <2>4. file[g].status # "absent" => file'[g].status # "absent"
    BY <1>3 DEF Moves
  <2>5. ASSUME "failed" \notin told'[g], MayResume(file'[g])
        PROVE  /\ file'[g].confirmed <= partial'[g].synced
               /\ session'[g].open => session'[g].accepted <= partial'[g].written
    <3>1. Intact(g) /\ file'[g].confirmed = file[g].confirmed
      BY <1>3, <2>5 DEF Intact
    <3>2. CASE MayResume(file[g])
      BY <1>2, <1>3, <2>3, <3>1, <3>2 DEF Claims
    <3>3. CASE file[g].status = "absent"
      BY <1>2, <1>3, <2>1, <2>3, <3>1, <3>3 DEF Claims
    <3>4. QED
      BY <1>3, <2>5, <3>2, <3>3 DEF Moves
  <2>6. QED
    BY <1>2, <1>3, <2>2, <2>3, <2>4, <2>5
<1>6. ClaimInv'
  BY <1>1, <1>2, <1>3, <1>4, <1>5, ClaimsStay
<1>7. SessionInv'
  <2>1. session' \in [Files -> Sessions] /\ partial' \in [Files -> Partials]
    BY <1>2, <1>3, <1>4
  <2>2. \A g \in Files :
          /\ partial'[g].synced <= partial'[g].written
          /\ session'[g].open => file'[g].status # "absent"
          /\ session'[g].open /\ "failed" \notin told'[g] /\ MayResume(file'[g]) =>
               session'[g].accepted <= partial'[g].written
    BY <1>5
  <2>3. QED
    BY <2>1, <2>2 DEF SessionInv, Intact, Sessions, Partials
<1>12. ASSUME NEW k \in Tasks, task'[k].pc \in Outside, task'[k].op # "resume",
              task'[k].file \in Files, file[task'[k].file].status # "absent"
       PROVE  Receives(k)' /\ Verifies(k)'
  <2>1. file'[task'[k].file].status # "absent"
    BY <1>5, <1>12
  <2>2. Outside \cap (PastPlaces \cup {"verified", "read", "opened", "written", "confirmed"}) = {}
    BY DEF Outside, PastPlaces
  <2>3. QED
    BY <1>12, <2>1, <2>2 DEF Receives, Verifies
<1>8. ASSUME NEW k \in Tasks, task'[k] = task[k]
      PROVE  Receives(k)'
  <2>1. task'[k] = task[k] /\ Receives(k) /\ End(k)' = End(k)
    BY <1>1, <1>8 DEF End
  <2>2. CASE task[k].pc = "idle"
    BY <2>1, <2>2 DEF Receives
  <2>3. CASE task[k].pc # "idle"
    <3> DEFINE g == task[k].file
    <3>1. g \in Files
      BY <1>1, <2>3 DEF TasksTyped
    <3>2. /\ file'[g].confirmed = file[g].confirmed /\ session'[g] = session[g]
          /\ partial'[g] = partial[g]
          /\ file[g].status # "absent" => file'[g].status # "absent"
      BY <1>2, <1>3, <1>5, <3>1
    <3> HIDE DEF g
    <3>3. QED
      BY <2>1, <2>3, <3>1, <3>2 DEF Receives, g
  <2>4. QED
    BY <2>2, <2>3
<1>9. ASSUME NEW g \in Files, file[g].status \in Past,
             NEW w, \A i \in DOMAIN pending : w <= i => pending[i].file[g].status \in Past
      PROVE  /\ file'[g].status \in Past
             /\ \A i \in DOMAIN pending' : w <= i => pending'[i].file[g].status \in Past
  BY <1>1, <1>2, <1>3, <1>9, PastStays
<1>10. ASSUME NEW k \in Tasks, task'[k] = task[k]
       PROVE  Verifies(k)'
  <2> DEFINE g == task[k].file
  <2>1. task'[k] = task[k] /\ Verifies(k)
    BY <1>1, <1>10
  <2>2. task[k].pc \in PastPlaces \cup {"verified"} => g \in Files
    BY <1>1 DEF PastPlaces, TasksTyped
  <2>3. ASSUME task[k].pc \in PastPlaces
        PROVE  /\ file'[g].status \in Past /\ disk'.file[g].status \in Past
               /\ \A i \in DOMAIN pending' : pending'[i].file[g].status \in Past
    <3>1. g \in Files /\ AllPast(g)
      BY <2>1, <2>2, <2>3 DEF Verifies
    <3>2. \A i \in DOMAIN pending : 0 <= i => pending[i].file[g].status \in Past
      BY <3>1 DEF AllPast
    <3>3. \A i \in DOMAIN pending' : 0 <= i
      BY <1>1 DEF DurableInv
    <3>4. QED
      BY <1>2, <1>9, <3>1, <3>2, <3>3 DEF AllPast
  <2>4. ASSUME task[k].pc = "verified"
        PROVE  /\ file'[g].status \in Past
               /\ \A i \in DOMAIN pending' :
                    task[k].wait <= i => pending'[i].file[g].status \in Past
               /\ task[k].wait = 0 /\ ~task[k].broke => disk'.file[g].status \in Past
    BY <1>2, <1>9, <2>1, <2>2, <2>4 DEF Verifies
  <2> HIDE DEF g
  <2>5. QED
    BY <2>1, <2>3, <2>4 DEF Verifies, AllPast, g
<1>11. QED
  BY <1>6, <1>7, <1>8, <1>10, <1>12 DEF BytesInv

LEMMA UnlockedKeepsBytesInv ==
  ASSUME NoCancels, UploadInv, UploadInv', BytesInv, UnlockedStep
  PROVE  BytesInv'
<1>1. ClaimInv
  BY DEF BytesInv
<1>2. QED
  BY <1>1, UnlockedFrame, UnlockedMoves, CallsKeepBytesInv

LEMMA OffersKeepBytesInv ==
  ASSUME UploadInv, UploadInv', BytesInv, NEW h \in Tasks, NEW f \in Files,
         OfferWithoutSpace(h, f)
  PROVE  BytesInv'
<1>1. /\ DurableInv /\ TasksTyped /\ CoreInv /\ ToldTyped /\ \A g \in Files : Claims(file[g], g)
  BY DEF UploadInv, TurnInv, DurableInv, BytesInv, ClaimInv
<1>2. /\ disk' = disk /\ UNCHANGED <<session, partial, told>>
      /\ \A k \in Tasks \ {h} : task'[k] = task[k]
      /\ task'[h].op = "offer" /\ task'[h].file = f /\ task'[h].pc \in Outside
      /\ (Fail(f) /\ Persist) \/ UNCHANGED allVars
  BY <1>1, OffersStayOutside
<1>3. file[f].status # "absent"
  BY <1>1 DEF OfferWithoutSpace, CoreInv, KnownTogether, Known
<1>4. /\ retrying' = retrying /\ (pending' = pending \/ Persist)
      /\ \A g \in Files : Moves(g) /\ file'[g].confirmed = file[g].confirmed
  <2>1. CASE Fail(f) /\ Persist
    BY <1>1, <1>3, <2>1, CallsMove
  <2>2. CASE UNCHANGED allVars
    <3>1. UNCHANGED <<retrying, pending, file>>
      BY <2>2 DEF allVars, vars, durable
    <3>2. QED
      BY <1>1, <3>1, SameMoves
  <2>3. QED
    BY <1>2, <2>1, <2>2
<1>5. ToldTyped' /\ \A g \in Files : told[g] \subseteq told'[g]
  BY <1>1, <1>2 DEF ToldTyped
<1>6. QED
  BY <1>2, <1>3, <1>4, <1>5, CallsKeepBytesInv

LEMMA StartKeepsBytesInv ==
  ASSUME UploadInv, BytesInv, StartTask
  PROVE  BytesInv'
<1>1. PICK h \in Tasks, f \in Files : StartPut(h, f) \/ \E op \in Orders : StartOrder(h, op, f)
  BY DEF StartTask
<1>2. \E op, offset : Start(h, op, f, offset) /\ op # "resume" /\ Known(Owner[f])
  <2>1. CASE StartPut(h, f)
    <3>1. "put" # "resume"
      OBVIOUS
    <3>2. QED
      BY <2>1, <3>1 DEF StartPut
  <2>2. CASE \E op \in Orders : StartOrder(h, op, f)
    BY <2>2 DEF StartOrder
  <2>3. QED
    BY <1>1, <2>1, <2>2
<1>3. PICK op : \E offset : Start(h, op, f, offset) /\ op # "resume" /\ Known(Owner[f])
  BY <1>2
<1>4. PICK offset : Start(h, op, f, offset) /\ op # "resume" /\ Known(Owner[f])
  BY <1>3
<1> DEFINE u == [[[[Idle EXCEPT !.op = op] EXCEPT !.file = f] EXCEPT !.offset = offset]
                  EXCEPT !.pc = "lock"]
<1>5. /\ task' = [task EXCEPT ![h] = u]
      /\ UNCHANGED <<disk, pending, file, retrying, session, partial, told>>
  BY <1>4 DEF Start, allVars, vars, durable, storage
<1>6. u.pc = "lock" /\ u.op = op /\ u.file = f
  BY DEF Idle
<1> HIDE DEF u
<1>7. task'[h] = u /\ \A k \in Tasks \ {h} : task'[k] = task[k]
  BY <1>5 DEF UploadInv, TurnInv, TasksTyped
<1>8. file[f].status # "absent"
  BY <1>4 DEF UploadInv, DurableInv, CoreInv, KnownTogether, Known
<1>9. "lock" \notin PastPlaces
  BY DEF PastPlaces
<1>10. Receives(h)' /\ Verifies(h)'
  BY <1>4, <1>5, <1>6, <1>7, <1>8, <1>9 DEF Receives, Verifies
<1>11. ASSUME NEW k \in Tasks \ {h} PROVE Receives(k)' /\ Verifies(k)'
  <2>1. task'[k] = task[k] /\ End(k)' = End(k) /\ Receives(k) /\ Verifies(k)
    BY <1>7, <1>11 DEF End, BytesInv
  <2>2. QED
    BY <1>5, <2>1 DEF Receives, Verifies, AllPast
<1>12. ClaimInv' /\ SessionInv'
  BY <1>5 DEF BytesInv, ClaimInv, SessionInv, Claims, Intact, ToldTyped
<1>13. QED
  BY <1>10, <1>11, <1>12 DEF BytesInv

LEMMA WaitedKeepsRequest ==
  ASSUME TasksTyped, NEW r \in BOOLEAN, Waited(r), NEW h \in Tasks
  PROVE  task'[h].offset = task[h].offset /\ task'[h].due = task[h].due
<1>1. task[h] \in Task
  BY DEF TasksTyped
<1>2. CASE task[h].wait = 0
  BY <1>2 DEF Waited
<1>3. CASE task[h].wait # 0
  <2> DEFINE n == task[h].wait - 1
             b == r /\ task[h].wait = 1
             u == [[task[h] EXCEPT !.wait = n] EXCEPT !.broke = b]
  <2>1. task'[h] = u
    BY <1>3 DEF Waited
  <2> HIDE DEF n, b
  <2>2. u.offset = task[h].offset /\ u.due = task[h].due
    BY <1>1 DEF Task
  <2> HIDE DEF u
  <2>3. QED
    BY <2>1, <2>2
<1>4. QED
  BY <1>2, <1>3

LEMMA SavesKeepBytesInv ==
  ASSUME UploadInv, BytesInv, SaveStep \/ SaveRejects
  PROVE  BytesInv'
<1> DEFINE n == Len(pending)
<1>1. PICK r \in BOOLEAN : /\ Waited(r)
                           /\ UNCHANGED <<file, retrying, session, partial, told>>
                           /\ pending # <<>> /\ pending' = Tail(pending)
                           /\ disk' = IF r THEN disk ELSE Head(pending)
  BY DEF SaveStep, SaveRejects, Save, SaveFails, vars, storage
<1>2. /\ pending \in Seq(SnapshotType) /\ TasksTyped /\ ClaimInv /\ SessionInv
      /\ \A k \in Tasks : Receives(k) /\ Verifies(k)
  BY DEF UploadInv, DurableInv, TurnInv, BytesInv
<1>3. /\ n \in Nat /\ n # 0 /\ DOMAIN pending = 1..n /\ DOMAIN pending' = 1..(n - 1)
      /\ \A i \in 1..(n - 1) : pending'[i] = pending[i + 1]
      /\ disk' = disk \/ disk' = pending[1]
      /\ ~r => disk' = pending[1]
  BY <1>1, <1>2
<1> HIDE DEF n
<1>4. ASSUME NEW i \in DOMAIN pending'
      PROVE  i + 1 \in DOMAIN pending /\ pending'[i] = pending[i + 1] /\ i \in Nat
  BY <1>3
<1>5. 1 \in DOMAIN pending
  BY <1>3
<1>6. ClaimInv'
  <2>1. ASSUME NEW f \in Files
        PROVE  /\ Claims(file[f], f) /\ Claims(disk'.file[f], f)
               /\ \A i \in DOMAIN pending' : Claims(pending'[i].file[f], f)
    <3>1. /\ Claims(file[f], f) /\ Claims(disk.file[f], f)
          /\ \A i \in DOMAIN pending : Claims(pending[i].file[f], f)
      BY <1>2 DEF ClaimInv
    <3>2. QED
      BY <1>3, <1>4, <1>5, <3>1
  <2>2. ToldTyped' /\ retrying' = {}
    BY <1>1, <1>2 DEF ClaimInv, ToldTyped
  <2>3. QED
    BY <1>1, <2>1, <2>2 DEF ClaimInv, Claims, Intact
<1>7. SessionInv'
  BY <1>1, <1>2 DEF SessionInv, Intact
<1>8. ASSUME NEW k \in Tasks
      PROVE  /\ task'[k].pc = task[k].pc /\ task'[k].file = task[k].file /\ task'[k].op = task[k].op
             /\ task'[k].offset = task[k].offset /\ task'[k].due = task[k].due
             /\ task[k].wait = 0 => task'[k] = task[k]
             /\ task[k].wait # 0 => /\ task'[k].wait = task[k].wait - 1
                                    /\ task'[k].broke = (r /\ task[k].wait = 1)
             /\ task[k].wait \in Nat /\ task[k].wait <= n
  BY <1>1, <1>2, WaitedFrame, WaitedKeepsRequest DEF TasksTyped, Task, n
<1>9. ASSUME NEW k \in Tasks PROVE Receives(k)'
  <2>1. End(k)' = End(k)
    BY <1>8 DEF End
  <2>2. QED
    BY <1>1, <1>2, <1>8, <2>1 DEF Receives
<1>10. ASSUME NEW f \in Files, AllPast(f)
       PROVE  /\ file'[f].status \in Past /\ disk'.file[f].status \in Past
              /\ \A i \in DOMAIN pending' : pending'[i].file[f].status \in Past
  BY <1>1, <1>3, <1>4, <1>5, <1>10 DEF AllPast
<1>11. ASSUME NEW k \in Tasks, task[k].pc = "verified"
       PROVE  /\ file'[task[k].file].status \in Past
              /\ \A i \in DOMAIN pending' :
                   task'[k].wait <= i => pending'[i].file[task[k].file].status \in Past
              /\ task'[k].wait = 0 /\ ~task'[k].broke => disk'.file[task[k].file].status \in Past
  <2> DEFINE f == task[k].file
             w == task[k].wait
  <2>1. w \in Nat /\ w <= n
    BY <1>8
  <2>2. /\ file[f].status \in Past
        /\ \A i \in DOMAIN pending : w <= i => pending[i].file[f].status \in Past
        /\ w = 0 /\ ~task[k].broke => disk.file[f].status \in Past
    BY <1>2, <1>11 DEF Verifies
  <2>3. CASE w = 0
    <3>1. /\ task'[k].wait = 0 /\ task'[k].broke = task[k].broke
          /\ \A i \in DOMAIN pending : pending[i].file[f].status \in Past
      BY <1>3, <1>8, <2>2, <2>3
    <3>2. QED
      BY <1>1, <1>3, <1>4, <1>5, <2>2, <2>3, <3>1
  <2>4. CASE w # 0
    <3>1. task'[k].wait = w - 1 /\ task'[k].broke = (r /\ w = 1)
      BY <1>8, <2>4
    <3> HIDE DEF f, w
    <3>2. w = 1 => pending[1].file[f].status \in Past
      BY <1>5, <2>2
    <3>3. ASSUME NEW i \in DOMAIN pending', w - 1 <= i
          PROVE  pending'[i].file[f].status \in Past
      <4>1. w <= i + 1
        BY <1>4, <2>1, <3>3
      <4>2. QED
        BY <1>4, <2>2, <4>1
    <3>4. w - 1 = 0 => w = 1
      BY <2>1
    <3>5. QED
      BY <1>1, <1>3, <2>2, <3>1, <3>2, <3>3, <3>4 DEF f
  <2>5. QED
    BY <2>3, <2>4
<1>12. ASSUME NEW k \in Tasks PROVE Verifies(k)'
  <2>1. task[k].pc \in PastPlaces => task[k].file \in Files /\ AllPast(task[k].file)
    <3>1. "idle" \notin PastPlaces
      BY DEF PastPlaces
    <3>2. QED
      BY <1>2, <3>1 DEF TasksTyped, Verifies
  <2>2. QED
    BY <1>8, <1>10, <1>11, <2>1 DEF Verifies, AllPast
<1>13. QED
  BY <1>6, <1>7, <1>9, <1>12 DEF BytesInv

(* When no handler runs and nothing waits to be saved, only the records and *)
(* the partial files count.                                                 *)

LEMMA BytesAtRest ==
  ASSUME ToldTyped, retrying = {}, pending = <<>>, SessionInv,
         \A h \in Tasks : task[h].pc = "idle",
         \A f \in Files : Claims(file[f], f) /\ Claims(disk.file[f], f)
  PROVE  BytesInv
<1>1. ClaimInv
  BY DEF ClaimInv
<1>2. "idle" \notin PastPlaces
  BY DEF PastPlaces
<1>3. \A h \in Tasks : Receives(h) /\ Verifies(h)
  BY <1>2 DEF Receives, Verifies
<1>4. QED
  BY <1>1, <1>3 DEF BytesInv

LEMMA ClosedSessions ==
  ASSUME session = [f \in Files |-> NoSession], partial \in [Files -> Partials],
         \A f \in Files : partial[f].synced <= partial[f].written
  PROVE  SessionInv
<1>1. NoSession \in Sessions /\ ~NoSession.open
  BY DEF NoSession, Sessions
<1>2. QED
  BY <1>1 DEF SessionInv, Sessions, Partials

LEMMA CrashKeepsBytesInv ==
  ASSUME UploadInv, BytesInv, CrashStep
  PROVE  BytesInv'
<1>1. /\ Idle.pc = "idle" /\ task' = [h \in Tasks |-> Idle]
      /\ session' = [f \in Files |-> NoSession]
      /\ file' = disk.file /\ disk' = disk /\ pending' = <<>> /\ retrying' = {}
      /\ UNCHANGED <<partial, told>>
  BY DEF CrashStep, Crash, storage, Idle
<1>2. DurableInv /\ ClaimInv /\ SessionInv
  BY DEF UploadInv, BytesInv
<1>3. ToldTyped'
  BY <1>1, <1>2 DEF ClaimInv, ToldTyped
<1>4. /\ partial' \in [Files -> Partials]
      /\ \A f \in Files : partial'[f].synced <= partial'[f].written
  BY <1>1, <1>2 DEF SessionInv, Partials
<1>5. ASSUME NEW f \in Files PROVE ClaimsNext(disk.file[f], f)
  <2>1. disk.file[f] \in FileRecord /\ Claims(disk.file[f], f)
    BY <1>2 DEF DurableInv, Loadable, SnapshotType, ClaimInv
  <2>2. disk.file[f].confirmed <= disk.file[f].confirmed
    BY <2>1 DEF FileRecord
  <2>3. QED
    BY <1>1, <2>1, <2>2 DEF Claims, ClaimsNext, Intact
<1> DEFINE Closed ==
      /\ session = [f \in Files |-> NoSession] /\ partial \in [Files -> Partials]
      /\ \A f \in Files : partial[f].synced <= partial[f].written
<1>6. Closed'
  BY <1>1, <1>4
<1>7. SessionInv'
  BY <1>6, ClosedSessions, PTL
<1> DEFINE Rest ==
      /\ ToldTyped /\ retrying = {} /\ pending = <<>> /\ SessionInv
      /\ \A h \in Tasks : task[h].pc = "idle"
      /\ \A f \in Files : Claims(file[f], f) /\ Claims(disk.file[f], f)
<1>8. \A f \in Files : Claims(file[f], f)' /\ Claims(disk.file[f], f)'
  BY <1>1, <1>5 DEF Claims, ClaimsNext, Intact
<1>9. Rest'
  BY <1>1, <1>3, <1>7, <1>8
<1>10. QED
  BY <1>9, BytesAtRest, PTL

(* What open makes of the record of a file: the partial files it unlinks    *)
(* are those of files that are over.                                        *)
LEMMA RestartMoves ==
  ASSUME CoreInv, NEW f \in Files, Reopen(SharedInode) \/ ReopenInterrupted(SharedInode)
  PROVE  /\ disk'.file[f] = file'[f]
         /\ file'[f].confirmed = file[f].confirmed
         /\ file'[f].status = "absent" => file[f].status = "absent"
         /\ file'[f].status = "cancelled" => file[f].status = "cancelled"
         /\ MayResume(file'[f]) => MayResume(file[f]) /\ f \notin Abandoned
<1> DEFINE F == Recovered(SharedInode)
           B == RecoveredBatches(F)
           Due(t) == /\ B[t].status \notin TerminalBatch \cup {"absent"}
                     /\ B[t].expiresAt <= now
           r == file[f]
           q == F[f]
<1>1. r \in FileRecord
  BY DEF CoreInv, TypeOK
<1>2. q = IF batch[Owner[f]].status \in TerminalBatch THEN r ELSE RecoveredFile(f, SharedInode)
  BY DEF Recovered
<1>3. /\ q \in FileRecord /\ q.confirmed = r.confirmed
      /\ q.status \in {"completed", "failed", "queued"} \/ q = r
      /\ q = r \/ r.status \in InFlight
  <2>1. CASE batch[Owner[f]].status \in TerminalBatch
    BY <1>1, <1>2, <2>1
  <2>2. CASE batch[Owner[f]].status \notin TerminalBatch
    BY <1>1, <1>2, <2>2, RecoveredFileMeaning
  <2>3. QED
    BY <2>1, <2>2
<1>4. MayResume(q) => MayResume(r) /\ f \notin Abandoned
  <2>1. CASE r.status \in {"verifying", "finalizing"} /\ batch[Owner[f]].status \notin TerminalBatch
    <3>1. q.status \in {"completed", "failed"}
      BY <1>1, <1>2, <2>1 DEF RecoveredFile, FileRecord
    <3>2. QED
      BY <3>1 DEF MayResume
  <2>2. CASE r.status \in {"verifying", "finalizing"} /\ batch[Owner[f]].status \in TerminalBatch
    BY <1>2, <2>2 DEF MayResume
  <2>3. CASE r.status = "active" /\ Size[f] > 0 /\ r.confirmed = Size[f]
             /\ batch[Owner[f]].status \notin TerminalBatch
    <3>1. q.status = "failed"
      BY <1>1, <1>2, <2>3 DEF RecoveredFile, FileRecord
    <3>2. QED
      BY <3>1 DEF MayResume
  <2>4. CASE r.status = "active"
             /\ (~(Size[f] > 0 /\ r.confirmed = Size[f]) \/ batch[Owner[f]].status \in TerminalBatch)
    BY <2>4 DEF MayResume, Abandoned
  <2>5. CASE r.status \notin InFlight
    <3>1. q = r
      BY <1>3, <2>5
    <3>2. QED
      BY <2>5, <3>1 DEF Abandoned, InFlight
  <2>6. QED
    BY <2>1, <2>2, <2>3, <2>4, <2>5 DEF InFlight
<1>5. file' = F \/ file' = [g \in Files |->
                            IF Due(Owner[g]) /\ F[g].status \notin TerminalFile
                            THEN [F[g] EXCEPT !.status = "failed"] ELSE F[g]]
  BY DEF Reopen, ReopenInterrupted, Recover
<1>6. disk'.file = file'
  <2>1. CASE Reopen(SharedInode)
    BY <2>1 DEF Reopen, Snapshot
  <2>2. CASE ReopenInterrupted(SharedInode)
    BY <2>2 DEF ReopenInterrupted
  <2>3. QED
    BY <2>1, <2>2
<1> DEFINE u == [q EXCEPT !.status = "failed"]
<1>7. file'[f] = q \/ file'[f] = u
  BY <1>5
<1>8. u.status = "failed" /\ u.confirmed = q.confirmed
  BY <1>3 DEF FileRecord
<1> HIDE DEF F, B, Due, q, u
<1>9. (file'[f].status = "failed" /\ file'[f].confirmed = r.confirmed) \/ file'[f] = q
  BY <1>3, <1>7, <1>8
<1>10. q.status \in {"absent", "cancelled"} => q = r
  BY <1>3
<1>11. CASE file'[f] = q
  BY <1>3, <1>4, <1>6, <1>10, <1>11
<1>12. CASE file'[f].status = "failed" /\ file'[f].confirmed = r.confirmed
  BY <1>6, <1>12 DEF MayResume
<1>13. QED
  BY <1>9, <1>11, <1>12

LEMMA RestartKeepsBytesInv ==
  ASSUME UploadInv, BytesInv, NEW kept, Restart \/ RestartInterrupted(kept)
  PROVE  BytesInv'
<1>1. /\ Reopen(SharedInode) \/ ReopenInterrupted(SharedInode)
      /\ UNCHANGED <<task, session, told, retrying>> /\ ~up
      /\ partial' = [f \in Files |-> IF f \in Abandoned THEN NoPartial ELSE partial[f]]
         \/ partial' = [f \in Files |-> IF f \in Abandoned \ kept THEN NoPartial ELSE partial[f]]
  BY DEF Restart, RestartInterrupted, Reopen, ReopenInterrupted
<1>2. DurableInv /\ CoreInv /\ TasksTyped /\ ClaimInv /\ SessionInv
  BY DEF UploadInv, DurableInv, TurnInv, BytesInv
<1>3. pending' = <<>>
  BY <1>1, <1>2, RestartEndsWhatWasInFlight DEF UploadInv, DurableInv
<1>4. \A h \in Tasks : task'[h].pc = "idle"
  BY <1>1 DEF UploadInv, TurnInv, TasksTyped
<1>5. NoPartial \in Partials /\ NoPartial.synced <= NoPartial.written
  BY DEF NoPartial, Partials
<1>6. partial \in [Files -> Partials] /\ session \in [Files -> Sessions]
  BY <1>2 DEF SessionInv, Partials, Sessions
<1>7. /\ partial' \in [Files -> Partials]
      /\ \A f \in Files : partial'[f] = partial[f] \/ (f \in Abandoned /\ partial'[f] = NoPartial)
  BY <1>1, <1>5, <1>6
<1>8. ASSUME NEW f \in Files
      PROVE  /\ disk'.file[f] = file'[f]
             /\ file'[f].confirmed = file[f].confirmed
             /\ file'[f].status = "absent" => file[f].status = "absent"
             /\ file'[f].status = "cancelled" => file[f].status = "cancelled"
             /\ MayResume(file'[f]) => MayResume(file[f]) /\ f \notin Abandoned
  BY <1>1, <1>2, RestartMoves
<1>9. ASSUME NEW f \in Files
      PROVE  /\ ClaimsNext(file'[f], f) /\ ClaimsNext(disk'.file[f], f)
             /\ partial'[f].synced <= partial'[f].written
             /\ session[f].open => file'[f].status # "absent"
             /\ session[f].open /\ "failed" \notin told'[f] /\ MayResume(file'[f]) =>
                  session[f].accepted <= partial'[f].written
  <2>1. /\ Claims(file[f], f)
        /\ partial[f].synced <= partial[f].written
        /\ session[f].open => file[f].status # "absent"
        /\ session[f].open /\ Intact(f) /\ MayResume(file[f]) =>
             session[f].accepted <= partial[f].written
    BY <1>2 DEF ClaimInv, SessionInv
  <2>2. file[f].confirmed <= file[f].confirmed
    <3>1. file[f].confirmed \in Nat
      BY <1>2 DEF CoreInv, TypeOK, FileRecord
    <3>2. QED
      BY <3>1
  <2>3. MayResume(file'[f]) => MayResume(file[f]) /\ partial'[f] = partial[f]
    BY <1>7, <1>8
  <2>4. ClaimsNext(file'[f], f)
    BY <1>1, <1>8, <2>1, <2>2, <2>3 DEF Claims, ClaimsNext, Intact
  <2>5. QED
    BY <1>1, <1>5, <1>7, <1>8, <2>1, <2>3, <2>4 DEF Intact
<1>10. SessionInv'
  BY <1>1, <1>6, <1>7, <1>9 DEF SessionInv, Intact, Sessions, Partials
<1>11. \A f \in Files : Claims(file[f], f)' /\ Claims(disk.file[f], f)'
  BY <1>9 DEF Claims, ClaimsNext, Intact
<1>12. ToldTyped' /\ retrying' = {}
  BY <1>1, <1>2 DEF ClaimInv, ToldTyped
<1> DEFINE Rest ==
      /\ ToldTyped /\ retrying = {} /\ pending = <<>> /\ SessionInv
      /\ \A h \in Tasks : task[h].pc = "idle"
      /\ \A f \in Files : Claims(file[f], f) /\ Claims(disk.file[f], f)
<1>13. Rest'
  BY <1>3, <1>4, <1>10, <1>11, <1>12
<1>14. QED
  BY <1>13, BytesAtRest, PTL

-----------------------------------------------------------------------------
(* The invariant, and what follows from it *)

LEMMA InitEstablishesBytesInv == UploadInit => BytesInv
<1> SUFFICES ASSUME UploadInit PROVE BytesInv
  OBVIOUS
<1>1. /\ Idle.pc = "idle" /\ task = [h \in Tasks |-> Idle] /\ pending = <<>> /\ retrying = {}
      /\ session = [f \in Files |-> NoSession] /\ partial = [f \in Files |-> NoPartial]
      /\ told = [f \in Files |-> {}]
      /\ file = [f \in Files |-> NoFile] /\ disk.file = file
  BY DEF UploadInit, DurableInit, Init, Snapshot, Idle
<1>2. NoPartial \in Partials /\ NoPartial.synced <= NoPartial.written
  BY DEF NoPartial, Partials
<1>3. SessionInv
  BY <1>1, <1>2, ClosedSessions
<1>4. NoFile.status = "absent" /\ NoFile.confirmed = 0 /\ ~MayResume(NoFile)
  BY DEF NoFile, NewFile, MayResume
<1>5. \A f \in Files : Claims(file[f], f) /\ Claims(disk.file[f], f)
  BY <1>1, <1>4 DEF Claims
<1>6. ToldTyped
  BY <1>1 DEF ToldTyped
<1>7. QED
  BY <1>1, <1>3, <1>5, <1>6, BytesAtRest

LEMMA NextKeepsBytesInv ==
  ASSUME NoCancels, UploadInv, UploadInv', BytesInv, [UploadNext]_everything
  PROVE  BytesInv'
<1>1. ASSUME NEW h \in Tasks, HandlerStep(h) PROVE BytesInv'
  BY <1>1, HandlerKeepsBytesInv
<1>2. CASE StartTask
  BY <1>2, StartKeepsBytesInv
<1>3. CASE UnlockedStep
  BY <1>3, UnlockedKeepsBytesInv
<1>4. CASE SaveStep \/ SaveRejects
  BY <1>4, SavesKeepBytesInv
<1>5. CASE CrashStep
  BY <1>5, CrashKeepsBytesInv
<1>6. ASSUME NEW kept, Restart \/ RestartInterrupted(kept) PROVE BytesInv'
  BY <1>6, RestartKeepsBytesInv
<1>7. CASE UNCHANGED everything
  <2>1. UNCHANGED <<task, file, disk, pending, retrying, session, partial, told>>
    BY <1>7 DEF everything, allVars, vars, durable, uploadVars, storage
  <2>2. \A h \in Tasks : End(h)' = End(h)
    BY <2>1 DEF End
  <2>3. ClaimInv' /\ SessionInv'
    BY <2>1 DEF BytesInv, ClaimInv, SessionInv, ToldTyped, Claims, Intact
  <2>4. \A h \in Tasks : Receives(h)' /\ Verifies(h)'
    BY <2>1, <2>2 DEF BytesInv, Receives, Verifies, AllPast
  <2>5. QED
    BY <2>3, <2>4 DEF BytesInv
<1>8. ASSUME NEW h \in Tasks, NEW f \in Files, OfferWithoutSpace(h, f) PROVE BytesInv'
  BY <1>8, OffersKeepBytesInv
<1>9. QED
  BY <1>1, <1>2, <1>3, <1>4, <1>5, <1>6, <1>7, <1>8 DEF UploadNext

(* The claims of every snapshot, the sessions and the positions of the      *)
(* handlers, without cancels.                                               *)
THEOREM BytesInvariant == NoCancels => (UploadSpec => []BytesInv)
<1> SUFFICES ASSUME NoCancels PROVE UploadSpec => []BytesInv
  OBVIOUS
<1>1. UploadInv /\ UploadInv' /\ BytesInv /\ [UploadNext]_everything => BytesInv'
  BY NextKeepsBytesInv
<1>2. QED
  BY <1>1, InitEstablishesBytesInv, UploadInvariant, PTL DEF UploadSpec

(* Without cancels, whatever crashes, restarts and saves that reject: a     *)
(* file that may be resumed, in memory or from the snapshot a crash leaves  *)
(* behind, has every byte it confirms synced in its partial file, unless    *)
(* the phone was told that it failed.  A cancel drops the partial file      *)
(* before its retry has confirmed nothing again.                            *)
THEOREM ResumableFilesAreSynced ==
  NoCancels => (UploadSpec => []ResumableBytesAreSynced)
<1> SUFFICES ASSUME NoCancels PROVE UploadSpec => []ResumableBytesAreSynced
  OBVIOUS
<1>1. UploadInv /\ BytesInv => ResumableBytesAreSynced
  <2> SUFFICES ASSUME UploadInv, BytesInv PROVE ResumableBytesAreSynced
    OBVIOUS
  <2>1. \A f \in Files : Claims(file[f], f) /\ Claims(disk.file[f], f)
    BY DEF BytesInv, ClaimInv
  <2>2. QED
    BY <2>1 DEF Claims, Intact, ResumableBytesAreSynced
<1>2. QED
  BY <1>1, BytesInvariant, UploadInvariant, PTL

(* Without cancels: once no handler holds the active file, the offset the   *)
(* next PUT has to start at is not past the end of its partial file, after  *)
(* chunks that were accepted without a checkpoint as much as after saves    *)
(* that rejected.                                                           *)
THEOREM AcceptedBytesAreWritten ==
  NoCancels => (UploadSpec => []AcceptedIsWritten)
<1> SUFFICES ASSUME NoCancels PROVE UploadSpec => []AcceptedIsWritten
  OBVIOUS
<1>1. BytesInv => AcceptedIsWritten
  BY DEF BytesInv, SessionInv, AcceptedIsWritten, Intact, MayResume
<1>2. QED
  BY <1>1, BytesInvariant, PTL

-----------------------------------------------------------------------------
(* Without controls, for batches of one file: a copy belongs to a file that *)
(* is finalized or completed, until the handler that gives it up removed it. *)
NoControls == Orders \subseteq {"resume"} /\ ~BatchOrders
SingleFiles == \A f, g \in Files : Owner[f] = Owner[g] => f = g

(* The records of a file whose copy recovery keeps, and of one that is over. *)
Named == {r \in FileRecord : r.status = "completed" \/ (r.status = "finalizing" /\ r.finalPath)}
Over == {r \in FileRecord : r.status = "completed"}

(* The record of f is in S, in memory and in whatever a crash leaves. *)
Everywhere(f, S) ==
  /\ file[f] \in S /\ disk.file[f] \in S
  /\ \A i \in DOMAIN pending : pending[i].file[f] \in S

(* So it is for the file of h from the snapshot on that h waits for.        *)
Saved(h, S) ==
  LET f == task[h].file
  IN  /\ file[f] \in S
      /\ \A i \in DOMAIN pending : task[h].wait <= i => pending[i].file[f] \in S
      /\ task[h].wait = 0 /\ ~task[h].broke => disk.file[f] \in S

(* The clock stands still: nothing is due. *)
Unexpired(B) == \A t \in Transfers : B[t].status # "absent" => B[t].expiresAt > now
DeadlinesAhead ==
  /\ Unexpired(batch) /\ Unexpired(disk.batch)
  /\ \A i \in DOMAIN pending : Unexpired(pending[i].batch)

OnlyPuts ==
  \A h \in Tasks :
    /\ task[h].pc \in {"idle", "lock", "control_told"} \cup PutPlaces
    /\ task[h].pc \in {"lock"} \cup PutPlaces =>
         task[h].op = "put" /\ Owner[task[h].file] \in Uploads

CopiesBacked ==
  \A f \in Files :
    copies[f] = 1 =>
      /\ Owner[f] \in Uploads /\ Everywhere(f, Named)
      /\ Everywhere(f, Over) \/ (linked[f] /\ partial[f].there)

PlacesSaved ==
  \A h \in Tasks :
    /\ task[h].pc = "link" => Saved(h, Named)
    /\ task[h].pc = "completed" => Saved(h, Over)

PublishInv == DeadlinesAhead /\ OnlyPuts /\ CopiesBacked /\ PlacesSaved

-----------------------------------------------------------------------------
(* Every call that changes a batch pushes its deadline. *)
LEMMA TouchedIsAhead ==
  ASSUME NEW b \in BatchRecord, now + Lifetime \in Nat
  PROVE  /\ Touched(b).expiresAt = now + Lifetime
         /\ \A s : Touched([b EXCEPT !.status = s]).expiresAt = now + Lifetime
         /\ \A d : Touched([b EXCEPT !.device = d]).expiresAt = now + Lifetime
BY DEF Touched, BatchRecord

Pushed(t) == batch'[t] = batch[t] \/ batch'[t].expiresAt = now + Lifetime

LEMMA CallsPushDeadlines ==
  ASSUME CoreInv, SavingCall \/ OtherStep, now' = now, Unexpired(batch)
  PROVE  Unexpired(batch)'
<1>0. now \in Nat /\ Lifetime \in Nat \ {0} /\ now + Lifetime \in Nat /\ now + Lifetime > now
  BY QueueAssumption DEF CoreInv, TypeOK
<1>1. batch \in [Transfers -> BatchRecord] /\ Owner \in [Files -> Transfers]
  BY QueueAssumption DEF CoreInv, TypeOK
<1>2. ASSUME NEW t \in Transfers, NEW b, batch' = [batch EXCEPT ![t] = b], b.expiresAt = now + Lifetime
      PROVE  \A u \in Transfers : Pushed(u)
  BY <1>1, <1>2 DEF Pushed
<1>3. ASSUME NEW t \in Transfers, NEW F, Settle(t, F) PROVE \A u \in Transfers : Pushed(u)
  <2> DEFINE b == Touched([batch[t] EXCEPT !.status = DerivedStatus(t, F)])
  <2>1. b.expiresAt = now + Lifetime
    BY <1>0, <1>1, TouchedIsAhead
  <2>2. batch' = [batch EXCEPT ![t] = b]
    BY <1>3 DEF Settle
  <2> HIDE DEF b
  <2>3. QED
    BY <1>2, <2>1, <2>2
<1>4. ASSUME NEW f \in Files, FileCall(f) PROVE \A u \in Transfers : Pushed(u)
  <2>1. CASE \E offset \in 0..Size[f] : ConfirmProgress(f, offset)
    <3>1. batch' = [batch EXCEPT ![Owner[f]] = Touched(@)]
      BY <2>1 DEF ConfirmProgress, Advance
    <3>2. Touched(batch[Owner[f]]).expiresAt = now + Lifetime
      BY <1>0, <1>1, TouchedIsAhead
    <3>3. QED
      BY <1>1, <1>2, <3>1, <3>2
  <2>2. CASE ClaimFile(f)
    <3> DEFINE b == Touched([batch[Owner[f]] EXCEPT !.status = "active"])
    <3>1. batch' = [batch EXCEPT ![Owner[f]] = b]
      BY <2>2 DEF ClaimFile
    <3>2. b.expiresAt = now + Lifetime
      BY <1>0, <1>1, TouchedIsAhead
    <3> HIDE DEF b
    <3>3. QED
      BY <1>1, <1>2, <3>1, <3>2
  <2>3. CASE RetryEnd(f)
    BY <1>1, <1>3, <2>3 DEF RetryEnd
  <2>4. CASE \/ BeginVerification(f) \/ BeginFinalization(f) \/ Complete(f) \/ Fail(f)
             \/ PauseFile(f) \/ ResumeFile(f) \/ CancelFile(f) \/ RetryNothing(f)
    <3>1. \E r : SettleFile(f, r)
      BY <2>4 DEF BeginVerification, BeginFinalization, Complete, Fail, PauseFile, ResumeFile,
                  CancelFile, RetryNothing
    <3>2. QED
      BY <1>1, <1>3, <3>1 DEF SettleFile
  <2>5. QED
    BY <1>4, <2>1, <2>2, <2>3, <2>4 DEF FileCall
<1>5. ASSUME NEW t \in Transfers, BatchCall(t) PROVE \A u \in Transfers : Pushed(u)
  <2>1. ASSUME NEW d, AddBatch(t, d) PROVE \A u \in Transfers : Pushed(u)
    <3> DEFINE b == [status |-> "queued", device |-> d, expiresAt |-> now + Lifetime]
    <3>1. batch' = [batch EXCEPT ![t] = b]
      BY <2>1 DEF AddBatch
    <3>2. b.expiresAt = now + Lifetime
      OBVIOUS
    <3> HIDE DEF b
    <3>3. QED
      BY <1>2, <3>1, <3>2
  <2>2. ASSUME NEW d, AssociateSourceDevice(t, d) PROVE \A u \in Transfers : Pushed(u)
    <3> DEFINE b == Touched([batch[t] EXCEPT !.device = d])
    <3>1. batch' = [batch EXCEPT ![t] = b]
      BY <2>2 DEF AssociateSourceDevice
    <3>2. b.expiresAt = now + Lifetime
      BY <1>0, <1>1, TouchedIsAhead
    <3> HIDE DEF b
    <3>3. QED
      BY <1>2, <3>1, <3>2
  <2>3. CASE MarkStage(t)
    <3>1. batch' = [batch EXCEPT ![t] = Touched(@)]
      BY <2>3 DEF MarkStage
    <3>2. Touched(batch[t]).expiresAt = now + Lifetime
      BY <1>0, <1>1, TouchedIsAhead
    <3>3. QED
      BY <1>2, <3>1, <3>2
  <2>4. CASE PauseBatch(t)
    <3> DEFINE b == Touched([batch[t] EXCEPT !.status = "paused"])
    <3>1. batch' = [batch EXCEPT ![t] = b]
      BY <2>4 DEF PauseBatch
    <3>2. b.expiresAt = now + Lifetime
      BY <1>0, <1>1, TouchedIsAhead
    <3> HIDE DEF b
    <3>3. QED
      BY <1>2, <3>1, <3>2
  <2>5. CASE ResumeBatch(t) \/ CancelBatch(t)
    BY <1>3, <2>5 DEF ResumeBatch, CancelBatch
  <2>6. QED
    BY <1>5, <2>1, <2>2, <2>3, <2>4, <2>5 DEF BatchCall, Enqueue, AcceptOffer
<1>6. CASE OtherStep
  <2>1. CASE ClaimBegin
    <3>1. \A t \in Transfers : ~Expired(t)
      BY <1>0, <1>1 DEF Expired, Known, Unexpired, BatchRecord
    <3>2. \A t \in Transfers : batch'[t] = batch[t]
      BY <2>1, <3>1 DEF ClaimBegin, Expire
    <3>3. QED
      BY <3>2 DEF Pushed, Unexpired
  <2>2. CASE (\E f \in Files : RetryBegin(f)) \/ ClaimNothing \/ Tick
    BY <2>2 DEF RetryBegin, ClaimNothing, Tick, Unexpired
  <2>3. QED
    BY <1>6, <2>1, <2>2 DEF OtherStep
<1>7. CASE \A u \in Transfers : Pushed(u)
  BY <1>0, <1>7 DEF Pushed, Unexpired
<1>8. QED
  BY <1>4, <1>5, <1>6, <1>7 DEF SavingCall

(* The steps of the uploads leave the clock alone. *)
LEMMA ClockStands ==
  ASSUME [UploadNext]_everything
  PROVE  now' = now
<1>1. ASSUME NEW f, \/ Fail(f) \/ BeginVerification(f) \/ BeginFinalization(f) \/ Complete(f)
                    \/ CancelFile(f) \/ PauseFile(f) \/ ResumeFile(f) \/ RetryEnd(f)
                    \/ RetryBegin(f) \/ ClaimFile(f)
                    \/ \E offset : ConfirmProgress(f, offset)
      PROVE  now' = now
  BY <1>1 DEF Fail, BeginVerification, BeginFinalization, Complete, CancelFile, PauseFile,
              ResumeFile, RetryEnd, RetryBegin, ClaimFile, ConfirmProgress, Static
<1>2. UNCHANGED allVars \/ UNCHANGED vars => now' = now
  BY DEF allVars, vars
<1>3. ASSUME NEW h \in Tasks, PutStep(h) PROVE now' = now
  <2>1. CASE PutFindsNoPartial(h) \/ PutConfirm(h)
    BY <1>1, <1>2, <2>1 DEF PutFindsNoPartial, PutConfirm, Await
  <2>2. CASE PutHashMismatch(h) \/ PutName(h) \/ PutComplete(h) \/ PutCatch(h)
    BY <1>1, <1>2, <2>2 DEF PutHashMismatch, PutName, PutComplete, PutCatch, Await
  <2>3. CASE \/ PutEnter(h) \/ PutRefuse(h) \/ PutOpen(h)
             \/ (\E due \in BOOLEAN : PutWrite(h, due))
             \/ PutBreaksOff(h) \/ PutConfirmed(h)
             \/ PutVerified(h) \/ PutHash(h) \/ PutLink(h) \/ PutCompleted(h)
             \/ PutCatchCompleted(h) \/ PutFailed(h)
    BY <1>2, <2>3
    DEF PutEnter, PutRefuse, PutOpen, PutWrite, PutBreaksOff, PutConfirmed, PutVerified,
        PutHash, PutLink, PutCompleted, PutCatchCompleted, PutFailed
  <2>4. QED
    BY <1>3, <2>1, <2>2, <2>3 DEF PutStep
<1>4. ASSUME NEW h \in Tasks, OrderStep(h) PROVE now' = now
  BY <1>1, <1>2, <1>4
  DEF OrderStep, OrderEnter, OrderCheckpointed, OrderOperates, OrderOperated, OrderFailsFile,
      OrderTold, Await
<1>5. CASE UnlockedStep
  <2>1. ASSUME NEW t \in Transfers, Offer(t) \/ BatchOrder(t) PROVE now' = now
    BY <2>1 DEF Offer, BatchOrder, Unlocked, AcceptOffer, AddBatch, CancelBatch, PauseBatch, Static
  <2>2. ASSUME NEW f \in Files,
               OfferTells(f) \/ OfferRetries(f) \/ OfferRetried(f) \/ Resume(f)
        PROVE  now' = now
    BY <1>1, <1>2, <2>2 DEF OfferTells, OfferRetries, OfferRetried, Resume, Unlocked
  <2>3. CASE ActivateNext
    BY <1>1, <2>3 DEF ActivateNext, ClaimBeginStep, ClaimBegin, ClaimNothing, Unlocked
  <2>4. QED
    BY <1>5, <2>1, <2>2, <2>3 DEF UnlockedStep
<1>6. CASE StartTask
  BY <1>2, <1>6 DEF StartTask, StartPut, StartOrder, Start
<1>7. CASE SaveStep \/ SaveRejects \/ CrashStep
  BY <1>2, <1>7 DEF SaveStep, SaveRejects, CrashStep, Save, SaveFails, Crash
<1>8. ASSUME NEW kept, Restart \/ RestartInterrupted(kept) PROVE now' = now
  BY <1>8 DEF Restart, RestartInterrupted, Reopen, ReopenInterrupted
<1>9. CASE UNCHANGED everything
  BY <1>2, <1>9 DEF everything
<1>10. ASSUME NEW h \in Tasks, NEW f \in Files, OfferWithoutSpace(h, f) PROVE now' = now
  BY <1>1, <1>2, <1>10 DEF OfferWithoutSpace, Unlocked
<1>11. QED
  BY <1>3, <1>4, <1>5, <1>6, <1>7, <1>8, <1>9, <1>10 DEF UploadNext, HandlerStep

LEMMA RestartPushesDeadlines ==
  ASSUME CoreInv, now' = now, Unexpired(batch), NEW finalized,
         Reopen(finalized) \/ ReopenInterrupted(finalized)
  PROVE  Unexpired(batch)' /\ disk'.batch = batch'
<1> DEFINE F == Recovered(finalized)
           B == RecoveredBatches(F)
           Due(t) == /\ B[t].status \notin TerminalBatch \cup {"absent"}
                     /\ B[t].expiresAt <= now
<1>1. /\ now \in Nat /\ Lifetime \in Nat \ {0} /\ now + Lifetime \in Nat
      /\ now + Lifetime > now /\ batch \in [Transfers -> BatchRecord]
  BY QueueAssumption DEF CoreInv, TypeOK
<1>2. ASSUME NEW t \in Transfers
      PROVE  B[t] = batch[t] \/ B[t].expiresAt = now + Lifetime
  <2>1. B[t] = batch[t] \/ B[t] = Touched([batch[t] EXCEPT !.status = DerivedStatus(t, F)])
    BY DEF RecoveredBatches
  <2>2. Touched([batch[t] EXCEPT !.status = DerivedStatus(t, F)]).expiresAt = now + Lifetime
    BY <1>1, TouchedIsAhead
  <2>3. QED
    BY <2>1, <2>2
<1> HIDE DEF F, B
<1>3. \A t \in Transfers : B[t].status # "absent" => B[t].expiresAt > now
  BY <1>1, <1>2 DEF Unexpired
<1>4. \A t \in Transfers : ~Due(t)
  <2>1. SUFFICES ASSUME NEW t \in Transfers, Due(t) PROVE FALSE
    OBVIOUS
  <2>2. B[t].status # "absent" /\ B[t].expiresAt <= now
    BY <2>1
  <2>3. (B[t] = batch[t] /\ batch[t].expiresAt \in Nat) \/ B[t].expiresAt \in Nat
    BY <1>1, <1>2 DEF BatchRecord
  <2>4. B[t].expiresAt \in Nat
    BY <2>3
  <2>5. QED
    BY <1>1, <1>3, <2>2, <2>4
<1>5. CASE Reopen(finalized)
  <2>1. /\ batch' = [t \in Transfers |->
                       IF Due(t) THEN [B[t] EXCEPT !.status = "expired"] ELSE B[t]]
        /\ disk' = Snapshot'
    BY <1>5 DEF Reopen, F, B
  <2> HIDE DEF Due
  <2>2. \A t \in Transfers : batch'[t] = B[t]
    BY <1>4, <2>1
  <2>3. disk'.batch = batch'
    BY <2>1 DEF Snapshot
  <2>4. QED
    BY <1>3, <2>2, <2>3 DEF Unexpired
<1>6. CASE ReopenInterrupted(finalized)
  <2>1. disk'.batch = B /\ batch' = disk'.batch
    BY <1>6 DEF ReopenInterrupted, Recover, F, B
  <2>2. QED
    BY <1>3, <2>1 DEF Unexpired
<1>7. QED
  BY <1>5, <1>6

LEMMA NextKeepsDeadlines ==
  ASSUME UploadInv, UploadInv', DeadlinesAhead, [UploadNext]_everything
  PROVE  DeadlinesAhead'
<1>1. DurableInv /\ DurableInv' /\ TasksTyped /\ CoreInv /\ now' = now
  BY ClockStands DEF UploadInv, TurnInv, DurableInv
<1>2. [DurableNext]_allVars
  BY <1>1, UploadStepsTheQueue
<1>3. ASSUME disk' = disk, pending' = pending \/ Persist, Unexpired(batch)'
      PROVE  DeadlinesAhead'
  <2>1. /\ Len(pending) \in Nat /\ DOMAIN pending = 1..Len(pending)
        /\ DOMAIN pending' = 1..Len(pending')
        /\ Persist => /\ Len(pending') = Len(pending) + 1
                      /\ pending'[Len(pending) + 1] = Snapshot'
                      /\ \A i \in 1..Len(pending) : pending'[i] = pending[i]
    BY <1>1, <1>3, SnapshotsWait DEF DurableInv
  <2>2. Unexpired(disk.batch)'
    BY <1>1, <1>3 DEF DeadlinesAhead, Unexpired
  <2>3. CASE pending' = pending
    BY <1>1, <1>3, <2>2, <2>3 DEF DeadlinesAhead, Unexpired
  <2>4. ASSUME Persist, NEW i \in DOMAIN pending'
        PROVE  \A t \in Transfers : pending'[i].batch[t].status # "absent" =>
                                      pending'[i].batch[t].expiresAt > now
    <3>1. i \in 1..Len(pending) \/ i = Len(pending) + 1
      BY <2>1, <2>4
    <3>2. CASE i \in 1..Len(pending)
      BY <2>1, <2>4, <3>2 DEF DeadlinesAhead, Unexpired
    <3>3. CASE i = Len(pending) + 1
      <4>1. pending'[i].batch = batch'
        BY <2>1, <2>4, <3>3 DEF Snapshot
      <4>2. QED
        BY <1>1, <1>3, <4>1 DEF Unexpired
    <3>4. QED
      BY <3>1, <3>2, <3>3
  <2>5. QED
    BY <1>1, <1>3, <2>2, <2>3, <2>4 DEF DeadlinesAhead, Unexpired
<1>4. CASE SavingStep
  BY <1>1, <1>3, <1>4, CallsPushDeadlines DEF SavingStep, DeadlinesAhead
<1>5. CASE ClaimBeginStep
  BY <1>1, <1>3, <1>5, CallsPushDeadlines DEF ClaimBeginStep, OtherStep, DeadlinesAhead
<1>6. CASE QuietStep
  BY <1>1, <1>3, <1>6, CallsPushDeadlines DEF QuietStep, OtherStep, DeadlinesAhead, durable
<1>7. CASE Clock \/ UNCHANGED allVars
  BY <1>1, <1>7 DEF Clock, Tick, allVars, vars, durable, DeadlinesAhead, Unexpired
<1>8. CASE Save \/ SaveFails
  <2>1. /\ batch' = batch /\ pending # <<>> /\ pending' = Tail(pending)
        /\ disk' = disk \/ disk' = Head(pending)
    BY <1>8 DEF Save, SaveFails, vars
  <2>2. pending \in Seq(SnapshotType)
    BY <1>1 DEF DurableInv
  <2>3. /\ Head(pending) = pending[1] /\ 1 \in DOMAIN pending
        /\ \A i \in DOMAIN pending' : i + 1 \in DOMAIN pending /\ pending'[i] = pending[i + 1]
    BY <2>1, <2>2
  <2>4. QED
    BY <1>1, <2>1, <2>3 DEF DeadlinesAhead, Unexpired
<1>9. CASE Crash
  BY <1>1, <1>9 DEF Crash, DeadlinesAhead, Unexpired
<1>10. ASSUME NEW finalized \in SUBSET Finalizing,
              Reopen(finalized) \/ ReopenInterrupted(finalized)
       PROVE  DeadlinesAhead'
  <2>1. Unexpired(batch)' /\ disk'.batch = batch'
    BY <1>1, <1>10, RestartPushesDeadlines DEF DeadlinesAhead
  <2>2. pending' = <<>>
    BY <1>1, <1>10 DEF DurableInv, Reopen, ReopenInterrupted
  <2>3. QED
    BY <1>1, <2>1, <2>2 DEF DeadlinesAhead, Unexpired
<1>11. QED
  BY <1>2, <1>4, <1>5, <1>6, <1>7, <1>8, <1>9, <1>10 DEF DurableNext

-----------------------------------------------------------------------------
(* Without controls every handler of a lock is a PUT of an upload; an offer  *)
(* without space has one more await to make.                                *)
LEMMA HandlersPut ==
  ASSUME OnlyPuts, NEW h \in Tasks, HandlerStep(h)
  PROVE  \/ /\ PutStep(h) /\ task[h].pc \in {"lock"} \cup PutPlaces
            /\ task[h].op = "put" /\ Owner[task[h].file] \in Uploads
         \/ OrderTold(h)
<1>1. /\ task[h].pc \in {"idle", "lock", "control_told"} \cup PutPlaces
      /\ task[h].pc \in {"lock"} \cup PutPlaces =>
           task[h].op = "put" /\ Owner[task[h].file] \in Uploads
  BY DEF OnlyPuts
<1>2. {"checkpointed", "operate", "operated", "control_failed", "control_told", "idle"}
        \cap ({"lock"} \cup PutPlaces) = {}
  BY DEF PutPlaces, Finishing, Receiving, Ending
<1>3. CASE task[h].pc \in {"lock"} \cup PutPlaces
  <2>1. ~OrderStep(h)
    BY <1>1, <1>2, <1>3
    DEF OrderStep, OrderEnter, OrderCheckpointed, OrderOperates, OrderOperated, OrderFailsFile,
        OrderTold, Entered, Ready
  <2>2. QED
    BY <1>1, <1>3, <2>1 DEF HandlerStep
<1>4. CASE task[h].pc \in {"idle", "control_told"}
  <2>1. ~PutStep(h)
    <3>1. ~(task[h].pc \in {"lock", "read", "opened", "written", "confirmed", "verified", "hash",
                            "name", "link", "complete", "completed", "catch", "missing",
                            "mismatched", "caught"})
      BY <1>4
    <3>2. QED
      BY <3>1
      DEF PutStep, PutEnter, PutRefuse, PutOpen, PutFindsNoPartial, PutWrite, PutBreaksOff,
          PutConfirm, PutConfirmed, PutVerified, PutHash, PutHashMismatch, PutName, PutLink,
          PutComplete, PutCompleted, PutCatchCompleted, PutCatch, PutFailed, Entered, Ready
  <2>2. OrderTold(h)
    BY <1>4, <2>1
    DEF HandlerStep, OrderStep, OrderEnter, OrderCheckpointed, OrderOperates, OrderOperated,
        OrderFailsFile, Entered, Ready
  <2>3. QED
    BY <2>2
<1>5. QED
  BY <1>1, <1>3, <1>4

(* The failure an offer told, or did not: the handler is gone.              *)
LEMMA OffersEnd ==
  ASSUME TasksTyped, NEW h \in Tasks, OrderTold(h)
  PROVE  /\ up /\ UNCHANGED allVars /\ UNCHANGED <<lock, session, partial, copies, linked>>
         /\ task'[h].pc = "idle" /\ \A k \in Tasks \ {h} : task'[k] = task[k]
         /\ told' = told \/ Tell(task[h].file, "failed")
<1>1. /\ task' = [task EXCEPT ![h] = Idle] /\ task \in [Tasks -> Task] /\ Idle.pc = "idle"
      /\ up /\ UNCHANGED <<allVars, lock, session, partial, copies, linked>>
      /\ told' = told \/ Tell(task[h].file, "failed")
  BY DEF OrderTold, Ready, storage, TasksTyped, Idle
<1>2. QED
  BY <1>1

(* For batches of one file an offer without space fails the file at once,   *)
(* and never one that is finalized or completed: that one needs no bytes.   *)
LEMMA OffersSpare ==
  ASSUME UploadInv, SingleFiles, NEW h \in Tasks, NEW f \in Files, OfferWithoutSpace(h, f)
  PROVE  /\ task'[h].pc = "control_told"
         /\ \A g \in Files : file[g].status \in {"finalizing", "completed"} => file'[g] = file[g]
<1>1. TasksTyped /\ CoreInv /\ file \in [Files -> FileRecord] /\ task \in [Tasks -> Task]
  BY DEF UploadInv, TurnInv, TasksTyped, DurableInv, CoreInv, TypeOK
<1>2. \A g \in FilesOf(Owner[f]) : g = f
  BY DEF FilesOf, SingleFiles
<1>3. Position[f] \in Nat
  BY QueueAssumption
<1> DEFINE n == Len(pending) + 1
           u == [[[[Idle EXCEPT !.op = "offer"] EXCEPT !.file = f] EXCEPT !.pc = "control_told"]
                  EXCEPT !.wait = n]
<1>4. /\ Fail(f) /\ task' = [task EXCEPT ![h] = u]
      /\ \E g \in FilesOf(Owner[f]) : Remaining(g) > 0
  <2>1. ~\E g \in FilesOf(Owner[f]) : Position[g] < Position[f] /\ ~Terminal(g)
    BY <1>2, <1>3
  <2>2. QED
    BY <2>1, Zenon DEF OfferWithoutSpace, Unlocked
<1>5. u.pc = "control_told"
  BY DEF Idle
<1> HIDE DEF u
<1>6. task'[h].pc = "control_told"
  BY <1>1, <1>4, <1>5
<1>7. Remaining(f) > 0
  BY <1>2, <1>4
<1>8. file[f].status \notin {"finalizing", "completed"}
  <2>1. file[f].status \in {"finalizing", "completed"} =>
          file[f].confirmed = Size[f] /\ Size[f] \in Nat
    BY <1>1, QueueAssumption DEF CoreInv, CompletedIsConfirmed, FullyConfirmed
  <2>2. QED
    BY <1>7, <2>1 DEF Remaining, Terminal, TerminalFile
<1>9. \A g \in Files \ {f} : file'[g] = file[g]
  BY <1>1, <1>4, CallsOfHandlers DEF Becomes
<1>10. QED
  BY <1>6, <1>8, <1>9

LEMMA StartsPut ==
  ASSUME TasksTyped, NoControls, StartTask
  PROVE  \E h \in Tasks :
           /\ task[h].pc = "idle" /\ task'[h].pc = "lock" /\ task'[h].op = "put"
           /\ Owner[task'[h].file] \in Uploads
           /\ \A k \in Tasks \ {h} : task'[k] = task[k]
           /\ UNCHANGED <<allVars, storage>>
<1>1. PICK h \in Tasks, f \in Files : StartPut(h, f) \/ \E op \in Orders : StartOrder(h, op, f)
  BY DEF StartTask
<1>2. ~\E op \in Orders : StartOrder(h, op, f)
  BY DEF NoControls, StartOrder
<1>3. PICK offset : Start(h, "put", f, offset) /\ Owner[f] \in Uploads
  BY <1>1, <1>2 DEF StartPut
<1> DEFINE u == [[[[Idle EXCEPT !.op = "put"] EXCEPT !.file = f] EXCEPT !.offset = offset]
                  EXCEPT !.pc = "lock"]
<1>4. /\ task' = [task EXCEPT ![h] = u] /\ task[h].pc = "idle"
      /\ UNCHANGED <<allVars, storage>>
  BY <1>3 DEF Start
<1>5. u.pc = "lock" /\ u.op = "put" /\ u.file = f
  BY DEF Idle
<1> HIDE DEF u
<1>6. task'[h] = u /\ \A k \in Tasks \ {h} : task'[k] = task[k]
  BY <1>4 DEF TasksTyped
<1>7. QED
  BY <1>3, <1>4, <1>5, <1>6

LEMMA PutsStayPuts ==
  ASSUME DurableInv, TasksTyped, NEW h \in Tasks, PutStep(h)
  PROVE  task'[h].pc \in {"idle"} \cup PutPlaces
<1> DEFINE to == task'[h].pc
           n == Len(pending) + 1
           Places == {"idle"} \cup PutPlaces
<1>0. n \in Nat
  BY DEF DurableInv
<1>1. Places \subseteq {"idle", "lock"} \cup Working \cup Outside
  BY DEF Working
<1>2. ASSUME NEW pc \in Places, Goto(h, pc) PROVE to \in Places
  <2>1. to = pc
    BY <1>1, <1>2, GotoGoes DEF Goes
  <2>2. QED
    BY <2>1
<1>3. ASSUME NEW pc \in Places,
             task' = [task EXCEPT ![h].pc = pc, ![h].wait = n, ![h].broke = FALSE]
      PROVE  to \in Places
  <2>1. to = pc
    BY <1>0, <1>1, <1>3, AwaitGoes DEF Goes
  <2>2. QED
    BY <2>1
<1>4. ASSUME Leave(h) PROVE to \in Places
  BY <1>4, IdleFinishes DEF Finishes, Leave, Idle
<1>5. /\ "read" \in Places /\ "opened" \in Places /\ "written" \in Places
      /\ "confirmed" \in Places /\ "verified" \in Places /\ "hash" \in Places /\ "name" \in Places
      /\ "link" \in Places /\ "complete" \in Places /\ "catch" \in Places
      /\ "missing" \in Places /\ "mismatched" \in Places /\ "caught" \in Places
      /\ "completed" \in Places
  BY DEF PutPlaces, Finishing, Receiving, Ending
<1> HIDE DEF to, n, Places
<1>6. ASSUME NEW due \in BOOLEAN, PutWrite(h, due) PROVE to \in Places
  <2> DEFINE u == [[task[h] EXCEPT !.pc = "written"] EXCEPT !.due = due]
  <2>1. task' = [task EXCEPT ![h] = u] /\ task \in [Tasks -> Task]
    BY <1>6 DEF PutWrite, TasksTyped
  <2>2. u.pc = "written"
    BY <2>1 DEF Task
  <2> HIDE DEF u
  <2>3. QED
    BY <1>5, <2>1, <2>2 DEF to
<1>7. ASSUME PutLink(h) PROVE to \in Places
  <2> DEFINE u == [[task[h] EXCEPT !.pc = "name"] EXCEPT !.suffix = @ + 1]
  <2>1. CASE task' = [task EXCEPT ![h] = u]
    <3>1. task \in [Tasks -> Task] /\ u.pc = "name"
      BY DEF TasksTyped, Task
    <3> HIDE DEF u
    <3>2. QED
      BY <1>5, <2>1, <3>1 DEF to
  <2>2. CASE Goto(h, "complete") \/ Goto(h, "catch")
    BY <1>2, <1>5, <2>2
  <2>3. QED
    BY <1>7, <2>1, <2>2 DEF PutLink
<1>8. ASSUME \/ PutEnter(h) \/ PutRefuse(h) \/ PutOpen(h) \/ PutFindsNoPartial(h)
             \/ PutBreaksOff(h) \/ PutConfirmed(h) \/ PutCatchCompleted(h)
      PROVE  to \in Places
  BY <1>2, <1>3, <1>4, <1>5, <1>8
  DEF PutEnter, PutRefuse, PutOpen, PutFindsNoPartial, PutBreaksOff, PutConfirmed,
      PutCatchCompleted, Await, Announce, n
<1>9. ASSUME PutConfirm(h) PROVE to \in Places
  BY <1>3, <1>4, <1>5, <1>9 DEF PutConfirm, Await, n
<1>10. ASSUME PutVerified(h) \/ PutHash(h) \/ PutHashMismatch(h) \/ PutName(h)
       PROVE  to \in Places
  BY <1>2, <1>3, <1>4, <1>5, <1>10
  DEF PutVerified, PutHash, PutHashMismatch, PutName, Await, Announce, n
<1>11. ASSUME PutComplete(h) \/ PutCompleted(h) \/ PutCatch(h) \/ PutFailed(h)
       PROVE  to \in Places
  BY <1>2, <1>3, <1>4, <1>5, <1>11
  DEF PutComplete, PutCompleted, PutCatch, PutFailed, Await, Announce, n
<1>12. to \in Places
  BY <1>6, <1>7, <1>8, <1>9, <1>10, <1>11 DEF PutStep
<1>13. QED
  BY <1>12 DEF to, Places

LEMMA NextKeepsOnlyPuts ==
  ASSUME UploadInv, OnlyPuts, NoControls, SingleFiles, [UploadNext]_everything
  PROVE  OnlyPuts'
<1>1. DurableInv /\ TasksTyped /\ Idle.pc = "idle"
  BY DEF UploadInv, TurnInv, Idle
<1>2. CASE StartTask
  <2>1. "lock" \notin PutPlaces
    BY DEF PutPlaces, Finishing, Receiving, Ending
  <2>2. QED
    BY <1>1, <1>2, <2>1, StartsPut DEF OnlyPuts
<1>3. ASSUME NEW h \in Tasks, HandlerStep(h) PROVE OnlyPuts'
  <2>1. CASE OrderTold(h)
    <3>1. "idle" \notin {"lock"} \cup PutPlaces
      BY DEF PutPlaces, Finishing, Receiving, Ending
    <3>2. QED
      BY <1>1, <2>1, <3>1, OffersEnd DEF OnlyPuts
  <2>2. ASSUME PutStep(h), task[h].pc \in {"lock"} \cup PutPlaces,
               task[h].op = "put", Owner[task[h].file] \in Uploads
        PROVE  OnlyPuts'
    <3>1. TurnEffect(h) /\ task'[h].pc \in {"idle"} \cup PutPlaces
      BY <1>1, <2>2, PutTurns, PutsStayPuts
    <3>2. \A k \in Tasks \ {h} : task'[k] = task[k]
      BY <3>1 DEF TurnEffect, Goes, Finishes
    <3>3. /\ "idle" \notin {"lock"} \cup PutPlaces /\ "control_failed" \notin {"idle"} \cup PutPlaces
          /\ task[h].pc \notin Outside /\ task[h].pc # "idle"
      BY <2>2 DEF Outside, PutPlaces, Finishing, Receiving, Ending
    <3>4. task'[h].pc = "idle" \/ (task'[h].file = task[h].file /\ task'[h].op = task[h].op)
      BY <3>1, <3>3 DEF TurnEffect, Goes, Finishes
    <3>5. QED
      BY <2>2, <3>1, <3>2, <3>3, <3>4 DEF OnlyPuts
  <2>3. QED
    BY <1>3, <2>1, <2>2, HandlersPut
<1>4. CASE UnlockedStep
  BY <1>4, UnlockedFrame DEF OnlyPuts
<1>5. CASE SaveStep \/ SaveRejects
  <2>1. PICK r \in BOOLEAN : Waited(r)
    BY <1>5 DEF SaveStep, SaveRejects
  <2>2. \A k \in Tasks : task'[k].pc = task[k].pc /\ task'[k].file = task[k].file /\ task'[k].op = task[k].op
    BY <1>1, <2>1, WaitedFrame
  <2>3. QED
    BY <2>2 DEF OnlyPuts
<1>6. CASE CrashStep
  <2>1. "idle" \notin {"lock"} \cup PutPlaces /\ \A h \in Tasks : task'[h].pc = "idle"
    BY <1>1, <1>6 DEF CrashStep, PutPlaces, Finishing, Receiving, Ending
  <2>2. QED
    BY <2>1 DEF OnlyPuts
<1>7. ASSUME NEW kept, Restart \/ RestartInterrupted(kept) PROVE OnlyPuts'
  BY <1>7 DEF Restart, RestartInterrupted, OnlyPuts
<1>8. CASE UNCHANGED everything
  BY <1>8 DEF everything, uploadVars, OnlyPuts
<1>9. ASSUME NEW h \in Tasks, NEW f \in Files, OfferWithoutSpace(h, f) PROVE OnlyPuts'
  <2>1. task'[h].pc = "control_told" /\ \A k \in Tasks \ {h} : task'[k] = task[k]
    BY <1>1, <1>9, OffersStayOutside, OffersSpare
  <2>2. "control_told" \notin {"lock"} \cup PutPlaces
    BY DEF PutPlaces, Finishing, Receiving, Ending
  <2>3. QED
    BY <2>1, <2>2 DEF OnlyPuts
<1>10. QED
  BY <1>2, <1>3, <1>4, <1>5, <1>6, <1>7, <1>8, <1>9 DEF UploadNext

-----------------------------------------------------------------------------
(* What a PUT does to a copy and to the records that speak of it. *)
PublishEffect(h) ==
  LET f == task[h].file
      p == task[h].pc
      Same == file'[f] = file[f] /\ partial'[f] = partial[f] /\ linked'[f] = linked[f]
  IN  /\ \A g \in Files \ {f} : partial'[g] = partial[g]
      /\ \/ copies'[f] = 0
         \/ copies[f] = 1 /\ Same
         \/ /\ p = "link" /\ ~task[h].broke /\ UNCHANGED allVars
            /\ linked'[f] /\ partial'[f].there
         \/ /\ copies[f] = 1 /\ file[f].status \in InFlight /\ file'[f].status = "completed"
            /\ partial'[f] = partial[f] /\ linked'[f] = linked[f]
         \/ copies[f] = 1 /\ p = "completed" /\ ~task[h].broke /\ UNCHANGED allVars

LEMMA PutsPublish ==
  ASSUME DurableInv, TasksTyped, CopyInv, PublishInv, NEW h \in Tasks, PutStep(h),
         partial \in [Files -> Partials]
  PROVE  PublishEffect(h)
<1> DEFINE f == task[h].file
           p == task[h].pc
           Same == file'[f] = file[f] /\ partial'[f] = partial[f] /\ linked'[f] = linked[f]
           Others == \A g \in Files \ {f} : partial'[g] = partial[g]
<1>1. ASSUME NEW pc, Ready(h, pc), pc # "idle" PROVE p = pc /\ f \in Files
  BY <1>1 DEF Ready, TasksTyped
<1>2. f \in Files => copies[f] \in {0, 1} /\ (linked[f] => copies[f] = 1)
  BY DEF CopyInv
<1>3. p \in {"read", "opened", "written", "confirmed", "verified", "hash", "name", "link"} =>
        copies[f] = 0
  BY DEF CopyInv, Receiving
<1>4. p \in {"complete", "completed"} => copies[f] = 1
  BY DEF CopyInv
<1>5. UNCHANGED allVars => file' = file
  BY DEF allVars, vars
<1>6. ASSUME Others, copies'[f] = 0 \/ (copies[f] = 1 /\ Same) PROVE PublishEffect(h)
  BY <1>6 DEF PublishEffect
<1>7. ASSUME f \in Files, UNCHANGED <<allVars, storage>> PROVE PublishEffect(h)
  <2>1. Others /\ Same /\ copies' = copies
    BY <1>5, <1>7 DEF storage
  <2>2. QED
    BY <1>2, <1>6, <1>7, <2>1
<1>8. ASSUME f \in Files, copies[f] = 0, copies' = copies,
             \/ partial' = partial
             \/ \E r : partial' = [partial EXCEPT ![f] = r]
      PROVE  PublishEffect(h)
  <2>1. Others
    BY <1>8
  <2>2. QED
    BY <1>6, <1>8, <2>1
<1> HIDE DEF f, p, Same, Others
<1>9. CASE \/ PutEnter(h) \/ PutRefuse(h) \/ PutBreaksOff(h) \/ PutConfirmed(h) \/ PutVerified(h)
           \/ PutHash(h) \/ PutCatchCompleted(h) \/ PutFailed(h)
  <2>1. f \in Files
    BY <1>1, <1>9
    DEF PutEnter, Entered, PutRefuse, PutBreaksOff, PutConfirmed, PutVerified, PutHash,
        PutCatchCompleted, PutFailed
  <2>2. UNCHANGED <<allVars, storage>>
    BY <1>9
    DEF PutEnter, PutRefuse, PutBreaksOff, PutConfirmed, PutVerified, PutHash,
        PutCatchCompleted, PutFailed
  <2>3. QED
    BY <1>7, <2>1, <2>2
<1>10. CASE PutOpen(h)
  <2>1. p = "read" /\ f \in Files
    BY <1>1, <1>10 DEF PutOpen
  <2>2. copies[f] = 0 /\ ~linked[f]
    BY <1>2, <1>3, <2>1
  <2>3. copies' = copies
    BY <1>10, <2>2 DEF PutOpen, f
  <2>4. partial' = partial \/ \E r : partial' = [partial EXCEPT ![f] = r]
    BY <1>10 DEF PutOpen, f
  <2>5. QED
    BY <1>8, <2>1, <2>2, <2>3, <2>4
<1>11. ASSUME NEW due \in BOOLEAN, PutWrite(h, due) PROVE PublishEffect(h)
  <2>1. p = "opened" /\ f \in Files
    BY <1>1, <1>11 DEF PutWrite
  <2>2. copies' = copies
    BY <1>11 DEF PutWrite
  <2>3. partial' = partial \/ \E r : partial' = [partial EXCEPT ![f] = r]
    <3> DEFINE w == IF End(h) > partial[f].written THEN End(h) ELSE partial[f].written
               r == [[partial[f] EXCEPT !.written = w] EXCEPT !.synced = IF due THEN w ELSE @]
    <3>1. partial' = partial \/ partial' = [partial EXCEPT ![f] = r]
      BY <1>11 DEF PutWrite, f
    <3> HIDE DEF r
    <3>2. QED
      BY <3>1
  <2>4. QED
    BY <1>3, <1>8, <2>1, <2>2, <2>3
<1>12. CASE PutConfirm(h) \/ PutFindsNoPartial(h) \/ PutName(h)
  <2>1. p \in {"written", "read", "name"} /\ f \in Files
    BY <1>1, <1>12 DEF PutConfirm, PutFindsNoPartial, PutName
  <2>2. copies' = copies /\ partial' = partial
    BY <1>12 DEF PutConfirm, PutFindsNoPartial, PutName, storage
  <2>3. QED
    BY <1>3, <1>8, <2>1, <2>2
<1>13. CASE PutHashMismatch(h)
  <2>1. p = "hash" /\ f \in Files
    BY <1>1, <1>13 DEF PutHashMismatch
  <2>2. copies' = copies /\ \E r : partial' = [partial EXCEPT ![f] = r]
    BY <1>13 DEF PutHashMismatch, Unlinked, f
  <2>3. QED
    BY <1>3, <1>8, <2>1, <2>2
<1>14. CASE PutLink(h)
  <2>1. p = "link" /\ f \in Files /\ UNCHANGED allVars /\ partial' = partial
    BY <1>1, <1>14 DEF PutLink
  <2>2. CASE copies' = copies
    BY <1>3, <1>8, <2>1, <2>2
  <2>3. CASE ~task[h].broke /\ partial[f].there /\ linked' = [linked EXCEPT ![f] = TRUE]
    <3>1. linked'[f] /\ partial'[f].there /\ \A g \in Files \ {f} : partial'[g] = partial[g]
      BY <2>1, <2>3 DEF CopyInv
    <3>2. QED
      BY <2>1, <2>3, <3>1 DEF PublishEffect, f, p
  <2>4. QED
    BY <1>14, <2>2, <2>3 DEF PutLink, f
<1>15. CASE PutComplete(h)
  <2>1. p = "complete" /\ f \in Files /\ partial' = partial /\ linked' = linked /\ copies' = copies
    BY <1>1, <1>15 DEF PutComplete, storage
  <2>2. CASE UNCHANGED allVars
    BY <1>7, <2>1, <2>2 DEF storage
  <2>3. CASE Complete(f)
    <3>1. file[f].status \in InFlight /\ file'[f].status = "completed"
      BY <2>1, <2>3, CallsOfHandlers DEF DurableInv, Becomes, Complete
    <3>2. copies[f] = 1
      BY <1>4, <2>1
    <3>3. QED
      BY <2>1, <3>1, <3>2 DEF PublishEffect, f
  <2>4. QED
    BY <1>15, <2>2, <2>3 DEF PutComplete, Await, f
<1>16. CASE PutCompleted(h)
  <2>1. p = "completed" /\ f \in Files /\ UNCHANGED allVars /\ copies' = copies
    BY <1>1, <1>16 DEF PutCompleted
  <2>2. CASE task[h].broke
    BY <1>7, <1>16, <2>1, <2>2 DEF PutCompleted, storage
  <2>3. CASE ~task[h].broke
    <3>1. \A g \in Files \ {f} : partial'[g] = partial[g]
      BY <1>16, <2>3 DEF PutCompleted, Unlinked, f
    <3>2. QED
      BY <1>4, <2>1, <2>3, <3>1 DEF PublishEffect, f, p
  <2>4. QED
    BY <2>2, <2>3
<1>17. CASE PutCatch(h)
  <2>1. /\ p = "catch" /\ f \in Files /\ file[f].status # "completed"
        /\ \E r : partial' = [partial EXCEPT ![f] = r]
        /\ copies' = IF file[f].finalPath /\ linked[f] /\ partial[f].there
                     THEN [copies EXCEPT ![f] = @ - 1] ELSE copies
    BY <1>1, <1>17 DEF PutCatch, Unlinked, f
  <2>2. CASE copies[f] = 0
    <3>1. copies' = copies
      BY <1>2, <2>1, <2>2
    <3>2. QED
      BY <1>8, <2>1, <2>2, <3>1
  <2>3. CASE copies[f] = 1
    <3>1. /\ file[f] \in Named /\ (Everywhere(f, Over) \/ (linked[f] /\ partial[f].there))
      BY <2>1, <2>3 DEF PublishInv, CopiesBacked, Everywhere
    <3>2. ~Everywhere(f, Over)
      BY <2>1 DEF Everywhere, Over
    <3>3. file[f].finalPath
      BY <2>1, <3>1 DEF Named
    <3>4. copies' = [copies EXCEPT ![f] = @ - 1]
      BY <2>1, <3>1, <3>2, <3>3
    <3>5. copies'[f] = 0 /\ Others
      BY <2>1, <2>3, <3>4 DEF CopyInv, Others
    <3>6. QED
      BY <1>6, <3>5
  <2>4. QED
    BY <1>2, <2>1, <2>2, <2>3
<1>18. QED
  BY <1>9, <1>10, <1>11, <1>12, <1>13, <1>14, <1>15, <1>16, <1>17 DEF PutStep

-----------------------------------------------------------------------------
(* What keeps a record in S keeps the snapshots in it. *)
LEMMA EverywhereStays ==
  ASSUME DurableInv, DurableInv', pending' = pending \/ Persist,
         NEW f \in Files, NEW S, file[f] \in S => file'[f] \in S
  PROVE  /\ \A w : /\ file[f] \in S
                   /\ \A i \in DOMAIN pending : w <= i => pending[i].file[f] \in S
                   => \A i \in DOMAIN pending' : w <= i => pending'[i].file[f] \in S
         /\ disk' = disk /\ Everywhere(f, S) =>
              /\ file'[f] \in S /\ disk'.file[f] \in S
              /\ \A i \in DOMAIN pending' : pending'[i].file[f] \in S
<1> DEFINE n == Len(pending)
<1>1. /\ n \in Nat /\ DOMAIN pending = 1..n /\ DOMAIN pending' = 1..Len(pending')
      /\ Persist => /\ Len(pending') = n + 1 /\ pending'[n + 1] = Snapshot'
                    /\ \A i \in 1..n : pending'[i] = pending[i]
  BY SnapshotsWait DEF DurableInv
<1>2. CASE pending' = pending
  BY <1>2 DEF Everywhere
<1>3. CASE Persist
  <2>1. \A i \in DOMAIN pending' : i \in DOMAIN pending \/ i = n + 1
    BY <1>1, <1>3
  <2>2. \A i \in DOMAIN pending : pending'[i] = pending[i]
    BY <1>1, <1>3
  <2>3. pending'[n + 1].file[f] = file'[f]
    BY <1>1, <1>3 DEF Snapshot
  <2>4. QED
    BY <2>1, <2>2, <2>3, Zenon DEF Everywhere
<1>4. QED
  BY <1>2, <1>3

(* A PUT at the link has saved the name it links. *)
LEMMA NameIsSaved ==
  ASSUME DurableInv, DurableInv', TasksTyped, CopyInv, NEW h \in Tasks, PutStep(h)
  PROVE  /\ task'[h].pc = "link" => file'[task[h].file] \in Named /\ Persist
         /\ task'[h].pc = "completed" => file'[task[h].file] \in Over /\ Persist
<1> DEFINE f == task[h].file
<1>1. HandlerEffect(h) /\ CopyEffect(h) /\ TurnEffect(h)
  BY PutEffect, PutCopies, PutTurns
<1>2. f \in Files /\ file'[f] \in FileRecord /\ file \in [Files -> FileRecord]
  BY <1>1 DEF TurnEffect, DurableInv, CoreInv, TypeOK
<1>3. ASSUME task'[h].pc = "completed" PROVE file'[f] \in Over /\ Persist
  BY <1>1, <1>2, <1>3 DEF HandlerEffect, Over
<1>4. ASSUME task'[h].pc = "link" PROVE file'[f] \in Named /\ Persist
  <2>1. task[h].pc = "name" /\ file'[f].status = "finalizing" /\ Persist
    BY <1>1, <1>4 DEF CopyEffect
  <2>2. PutName(h)
    BY <2>1
    DEF PutStep, PutEnter, Entered, PutRefuse, PutOpen, PutFindsNoPartial, PutWrite, PutBreaksOff,
        PutConfirm, PutConfirmed, PutVerified, PutHash, PutHashMismatch, PutLink, PutComplete,
        PutCompleted, PutCatchCompleted, PutCatch, PutFailed, Ready
  <2>3. pending' # pending
    <3>1. Len(pending') = Len(pending) + 1 /\ Len(pending) \in Nat
      BY <2>1, SnapshotsWait
    <3>2. QED
      BY <3>1
  <2>4. BeginFinalization(f)
    BY <2>2, <2>3 DEF PutName, Await, allVars, durable
  <2> DEFINE u == [[file[f] EXCEPT !.status = "finalizing"] EXCEPT !.finalPath = TRUE]
  <2>5. file' = [file EXCEPT ![f] = u]
    BY <2>4 DEF BeginFinalization, SettleFile, Settle
  <2>6. u.finalPath
    BY <1>2 DEF FileRecord
  <2> HIDE DEF u
  <2>7. file'[f].finalPath
    BY <1>2, <2>5, <2>6
  <2>8. QED
    BY <1>2, <2>1, <2>7 DEF Named
<1>5. QED
  BY <1>3, <1>4

LEMMA PutKeepsPublished ==
  ASSUME UploadInv, UploadInv', CopyInv, CopyInv', SessionInv, PublishInv,
         NEW h \in Tasks, PutStep(h), task[h].pc \in {"lock"} \cup PutPlaces,
         Owner[task[h].file] \in Uploads
  PROVE  CopiesBacked' /\ PlacesSaved'
<1> DEFINE f == task[h].file
           n == Len(pending)
<1>1. DurableInv /\ DurableInv' /\ TasksTyped /\ TurnInv /\ n \in Nat
  BY DEF UploadInv, TurnInv, DurableInv
<1>2. /\ PutStep(h) /\ CopiesBacked /\ PlacesSaved
      /\ task[h].pc \in {"lock"} \cup PutPlaces /\ Owner[task[h].file] \in Uploads
  BY DEF PublishInv
<1>3. partial \in [Files -> Partials]
  BY DEF SessionInv, Partials
<1>4. HandlerEffect(h) /\ CopyEffect(h) /\ TurnEffect(h) /\ PublishEffect(h)
  BY <1>1, <1>2, <1>3, PutEffect, PutCopies, PutTurns, PutsPublish
<1>5. /\ f \in Files /\ disk' = disk /\ (pending' = pending \/ Persist)
      /\ task[h].wait = 0 /\ \A k \in Tasks \ {h} : task'[k] = task[k]
      /\ \A g \in Files \ {f} : /\ file'[g] = file[g] /\ copies'[g] = copies[g]
                                /\ linked'[g] = linked[g] /\ partial'[g] = partial[g]
      /\ task'[h].pc \in {"link", "completed"} => task'[h].file = f
      /\ Persist => pending' # pending /\ task'[h].wait = n + 1
      /\ InTurn(h)
  <2>1. Persist => pending' # pending
    <3>1. Persist => Len(pending') = n + 1
      BY <1>1, SnapshotsWait
    <3>2. QED
      BY <1>1, <3>1
  <2>2. task[h].pc \notin Outside
    BY <1>2 DEF Outside, PutPlaces, Finishing, Receiving, Ending
  <2>3. QED
    BY <1>4, <2>1, <2>2
    DEF HandlerEffect, CopyEffect, TurnEffect, PublishEffect, Goes, Finishes, Idle
<1>6. ASSUME NEW g \in Files, NEW S, file[g] \in S => file'[g] \in S, Everywhere(g, S)
      PROVE  /\ file'[g] \in S /\ disk'.file[g] \in S
             /\ \A i \in DOMAIN pending' : pending'[i].file[g] \in S
  BY <1>1, <1>5, <1>6, EverywhereStays
<1>7. Over \subseteq Named /\ \A g \in Files : file'[g] \in FileRecord
  BY <1>1 DEF Over, Named, DurableInv, CoreInv, TypeOK
<1> HIDE DEF f, n
<1>8. ASSUME NEW g \in Files, copies'[g] = 1
      PROVE  /\ Owner[g] \in Uploads /\ Everywhere(g, Named)'
             /\ Everywhere(g, Over)' \/ (linked'[g] /\ partial'[g].there)
  <2>1. CASE /\ copies[g] = 1 /\ file'[g] = file[g]
             /\ partial'[g] = partial[g] /\ linked'[g] = linked[g]
    <3>1. /\ Owner[g] \in Uploads /\ Everywhere(g, Named)
          /\ Everywhere(g, Over) \/ (linked[g] /\ partial[g].there)
      BY <1>2, <2>1 DEF CopiesBacked
    <3>2. Everywhere(g, Named)' /\ (Everywhere(g, Over) => Everywhere(g, Over)')
      BY <1>6, <2>1, <3>1 DEF Everywhere
    <3>3. QED
      BY <2>1, <3>1, <3>2
  <2>2. CASE g # f
    BY <1>5, <1>8, <2>1, <2>2
  <2>3. CASE g = f
    <3>1. copies'[f] # 0
      BY <1>8, <2>3
    <3>2. CASE copies[f] = 1 /\ file'[f] = file[f] /\ partial'[f] = partial[f] /\ linked'[f] = linked[f]
      BY <2>1, <2>3, <3>2
    <3>3. CASE /\ task[h].pc = "link" /\ ~task[h].broke /\ UNCHANGED allVars
               /\ linked'[f] /\ partial'[f].there
      <4>1. Saved(h, Named)
        BY <1>2, <3>3 DEF PlacesSaved
      <4>2. \A i \in DOMAIN pending : 0 <= i
        BY <1>1 DEF DurableInv
      <4>3. Everywhere(f, Named)
        BY <1>5, <3>3, <4>1, <4>2 DEF Saved, Everywhere, f
      <4>4. Everywhere(g, Named)'
        BY <2>3, <3>3, <4>3 DEF Everywhere, allVars, vars, durable
      <4>5. Owner[f] \in Uploads
        BY <1>2, <3>3 DEF f
      <4>6. QED
        BY <2>3, <3>3, <4>4, <4>5
    <3>4. CASE /\ copies[f] = 1 /\ file[f].status \in InFlight /\ file'[f].status = "completed"
               /\ partial'[f] = partial[f] /\ linked'[f] = linked[f]
      <4>1. /\ Owner[f] \in Uploads /\ Everywhere(f, Named)
            /\ Everywhere(f, Over) \/ (linked[f] /\ partial[f].there)
        BY <1>2, <1>5, <3>4 DEF CopiesBacked
      <4>2. ~Everywhere(f, Over)
        BY <3>4 DEF Everywhere, Over, InFlight
      <4>3. file'[f] \in Named
        BY <1>5, <1>7, <3>4 DEF Named
      <4>4. Everywhere(g, Named)'
        BY <1>6, <2>3, <4>1, <4>3 DEF Everywhere
      <4>5. QED
        BY <2>3, <3>4, <4>1, <4>2, <4>4
    <3>5. CASE copies[f] = 1 /\ task[h].pc = "completed" /\ ~task[h].broke /\ UNCHANGED allVars
      <4>1. Saved(h, Over)
        BY <1>2, <3>5 DEF PlacesSaved
      <4>2. \A i \in DOMAIN pending : 0 <= i
        BY <1>1 DEF DurableInv
      <4>3. Everywhere(f, Over)
        BY <1>5, <3>5, <4>1, <4>2 DEF Saved, Everywhere, f
      <4>4. Everywhere(g, Over)' /\ Everywhere(g, Named)'
        BY <1>7, <2>3, <3>5, <4>3 DEF Everywhere, allVars, vars, durable
      <4>5. Owner[f] \in Uploads
        BY <1>2, <3>5 DEF f
      <4>6. QED
        BY <2>3, <4>4, <4>5
    <3>6. QED
      BY <1>4, <3>1, <3>2, <3>3, <3>4, <3>5 DEF PublishEffect, f
  <2>4. QED
    BY <2>2, <2>3
<1>9. ASSUME NEW k \in Tasks, k # h, NEW S, task[k].pc \in {"link", "completed"}, Saved(k, S)
      PROVE  Saved(k, S)'
  <2>1. task'[k] = task[k] /\ task[k].file \in Files
    BY <1>1, <1>5, <1>9 DEF TasksTyped
  <2>2. task[k].pc \in Working
    BY <1>9 DEF Working, PutPlaces, Finishing, Ending
  <2>3. task[k].file # f
    BY <1>1, <1>5, <1>9, <2>2, OneHandlerWorks DEF InTurn, f
  <2>4. file'[task[k].file] = file[task[k].file]
    BY <1>5, <2>1, <2>3
  <2>5. \A i \in DOMAIN pending' : task[k].wait <= i => pending'[i].file[task[k].file] \in S
    BY <1>1, <1>5, <1>9, <2>1, <2>4, EverywhereStays DEF Saved
  <2>6. QED
    BY <1>5, <1>9, <2>1, <2>4, <2>5 DEF Saved
<1>10. ASSUME NEW S, task'[h].pc \in {"link", "completed"}, file'[f] \in S, Persist
       PROVE  Saved(h, S)'
  <2>1. /\ task'[h].wait = n + 1 /\ task'[h].file = f
        /\ Len(pending') = n + 1 /\ pending'[n + 1] = Snapshot'
    BY <1>1, <1>5, <1>10, SnapshotsWait DEF n
  <2>2. \A i \in DOMAIN pending' : n + 1 <= i => i = n + 1
    BY <1>1, <2>1 DEF DurableInv
  <2>3. pending'[n + 1].file[f] \in S
    BY <1>10, <2>1 DEF Snapshot
  <2>4. n + 1 # 0
    BY <1>1
  <2>5. QED
    BY <1>10, <2>1, <2>2, <2>3, <2>4 DEF Saved
<1>11. CopiesBacked'
  BY <1>8 DEF CopiesBacked
<1>12. ASSUME NEW k \in Tasks
       PROVE  /\ task'[k].pc = "link" => Saved(k, Named)'
              /\ task'[k].pc = "completed" => Saved(k, Over)'
  <2>1. CASE k # h
    BY <1>2, <1>5, <1>9, <2>1 DEF PlacesSaved
  <2>2. CASE k = h
    BY <1>1, <1>2, <1>10, <2>2, NameIsSaved DEF f
  <2>3. QED
    BY <2>1, <2>2
<1>13. QED
  BY <1>11, <1>12 DEF PlacesSaved

LEMMA HandlerKeepsPublished ==
  ASSUME UploadInv, UploadInv', CopyInv, CopyInv', SessionInv, PublishInv,
         NEW h \in Tasks, HandlerStep(h)
  PROVE  CopiesBacked' /\ PlacesSaved'
<1>1. CASE OrderTold(h)
  <2>1. /\ UNCHANGED <<file, disk, pending, copies, linked, partial>>
        /\ task'[h].pc = "idle" /\ \A k \in Tasks \ {h} : task'[k] = task[k]
    BY <1>1, OffersEnd DEF UploadInv, TurnInv, allVars, vars, durable
  <2>2. QED
    BY <2>1 DEF PublishInv, CopiesBacked, PlacesSaved, Everywhere, Saved
<1>2. QED
  BY <1>1, HandlersPut, PutKeepsPublished DEF PublishInv

-----------------------------------------------------------------------------
(* The calls without the lock spare a file that is finalized or completed. *)
LEMMA UnlockedSpares ==
  ASSUME UploadInv, ClaimInv, DeadlinesAhead, NoControls, UnlockedStep
  PROVE  /\ \A g \in Files : file[g].status \in {"finalizing", "completed"} => file'[g] = file[g]
         /\ partial' = partial /\ linked' = linked
<1>1. /\ CoreInv /\ retrying = {} /\ file \in [Files -> FileRecord]
      /\ \A f \in Files : file[f].status # "cancelled"
  BY DEF UploadInv, DurableInv, CoreInv, TypeOK, ClaimInv, Claims
<1> DEFINE Spares == \A g \in Files : file[g].status \in {"finalizing", "completed"} => file'[g] = file[g]
           Kept == partial' = partial /\ linked' = linked
<1>2. ASSUME NEW f \in Files, NEW r, file' = [file EXCEPT ![f] = r],
             file[f].status \in {"finalizing", "completed"} => r = file[f]
      PROVE  Spares
  BY <1>1, <1>2
<1>3. uploadVars' = uploadVars => Kept
  BY DEF uploadVars
<1> HIDE DEF Spares, Kept
<1>4. ASSUME NEW t \in Transfers, Offer(t) \/ BatchOrder(t) PROVE Spares /\ Kept
  <2>1. Offer(t)
    BY <1>4 DEF BatchOrder, NoControls
  <2>2. ~Known(t) /\ file' = [f \in Files |-> IF Owner[f] = t THEN NewFile ELSE file[f]]
    BY <2>1 DEF Offer, Unlocked, AcceptOffer, AddBatch
  <2>3. \A g \in Files : Owner[g] = t => file[g].status = "absent"
    BY <1>1, <2>2 DEF CoreInv, KnownTogether, Known
  <2>4. Spares
    BY <2>2, <2>3 DEF Spares
  <2>5. QED
    BY <1>3, <2>1, <2>4 DEF Offer
<1>5. ASSUME NEW f \in Files, OfferTells(f) PROVE Spares /\ Kept
  BY <1>5 DEF OfferTells, storage, allVars, vars, Spares, Kept
<1>6. ASSUME NEW f \in Files, OfferRetries(f) \/ OfferRetried(f) PROVE FALSE
  BY <1>1, <1>6 DEF OfferRetries, OfferRetried, Unlocked, RetryEnd
<1>7. ASSUME NEW f \in Files, Resume(f) PROVE Spares /\ Kept
  <2> DEFINE r == IF file[f].status = "paused" THEN [file[f] EXCEPT !.status = "queued"] ELSE file[f]
  <2>1. file' = [file EXCEPT ![f] = r]
    BY <1>7 DEF Resume, Unlocked, ResumeFile, SettleFile, Settle
  <2>2. file[f].status \in {"finalizing", "completed"} => r = file[f]
    OBVIOUS
  <2> HIDE DEF r
  <2>3. QED
    BY <1>2, <1>3, <1>7, <2>1, <2>2 DEF Resume
<1>8. ASSUME ActivateNext PROVE Spares /\ Kept
  <2>1. Kept
    BY <1>3, <1>8 DEF ActivateNext
  <2>2. CASE ClaimBeginStep
    <3>1. \A t \in Transfers : ~Expired(t)
      <4>1. /\ batch \in [Transfers -> BatchRecord] /\ now \in Nat /\ Unexpired(batch)
        BY <1>1 DEF CoreInv, TypeOK, DeadlinesAhead
      <4>2. \A t \in Transfers : batch[t].expiresAt \in Nat
        BY <4>1 DEF BatchRecord
      <4>3. SUFFICES ASSUME NEW t \in Transfers, Expired(t) PROVE FALSE
        OBVIOUS
      <4>4. batch[t].status # "absent" /\ batch[t].expiresAt <= now
        BY <4>3 DEF Expired, Known
      <4>5. batch[t].expiresAt > now
        BY <4>1, <4>4 DEF Unexpired
      <4>6. batch[t].expiresAt \in Nat
        BY <4>2
      <4>7. QED
        BY <4>1, <4>4, <4>5, <4>6
    <3>2. \A g \in Files : file'[g] = file[g]
      BY <2>2, <3>1, QueueAssumption DEF ClaimBeginStep, ClaimBegin, Expire
    <3>3. QED
      BY <2>1, <3>2 DEF Spares
  <2>3. CASE ClaimNothing
    BY <2>1, <2>3 DEF ClaimNothing, Spares
  <2>4. ASSUME NEW f \in Files, ClaimFile(f) PROVE Spares
    BY <1>2, <2>4 DEF ClaimFile, IsNext
  <2>5. QED
    BY <1>8, <2>1, <2>2, <2>3, <2>4 DEF ActivateNext, Unlocked
<1>9. Spares /\ Kept
  BY <1>4, <1>5, <1>6, <1>7, <1>8 DEF UnlockedStep
<1>10. QED
  BY <1>9 DEF Spares, Kept

(* Calls that spare such a file, made by a handler outside the locks.       *)
LEMMA CallsKeepPublished ==
  ASSUME UploadInv, UploadInv', PublishInv, disk' = disk, pending' = pending \/ Persist,
         UNCHANGED <<copies, partial, linked>>,
         \A g \in Files : file[g].status \in {"finalizing", "completed"} => file'[g] = file[g],
         \A k \in Tasks : task'[k] = task[k] \/ task'[k].pc = "control_told"
  PROVE  CopiesBacked' /\ PlacesSaved'
<1>1. DurableInv /\ DurableInv' /\ TasksTyped /\ CopiesBacked /\ PlacesSaved
  BY DEF UploadInv, TurnInv, PublishInv
<1>2. /\ disk' = disk /\ (pending' = pending \/ Persist) /\ copies' = copies
      /\ partial' = partial /\ linked' = linked
      /\ \A g \in Files : file[g].status \in {"finalizing", "completed"} => file'[g] = file[g]
  OBVIOUS
<1>3. ASSUME NEW g \in Files
      PROVE  (file[g] \in Named => file'[g] \in Named) /\ (file[g] \in Over => file'[g] \in Over)
  <2>1. file[g] \in Named \/ file[g] \in Over => file[g].status \in {"finalizing", "completed"}
    BY DEF Named, Over
  <2>2. QED
    BY <1>2, <2>1
<1>4. ASSUME NEW g \in Files
      PROVE  /\ Everywhere(g, Named) => Everywhere(g, Named)'
             /\ Everywhere(g, Over) => Everywhere(g, Over)'
  BY <1>1, <1>2, <1>3, EverywhereStays DEF Everywhere
<1>5. CopiesBacked'
  BY <1>1, <1>2, <1>4 DEF CopiesBacked
<1>6. ASSUME NEW k \in Tasks, NEW S, task[k].pc # "idle", task'[k] = task[k], Saved(k, S),
             \A g \in Files : file[g] \in S => file'[g] \in S
      PROVE  Saved(k, S)'
  <2>1. task[k].file \in Files
    BY <1>1, <1>6 DEF TasksTyped
  <2>2. \A i \in DOMAIN pending' : task[k].wait <= i => pending'[i].file[task[k].file] \in S
    BY <1>1, <1>2, <1>6, <2>1, EverywhereStays DEF Saved
  <2>3. QED
    BY <1>2, <1>6, <2>1, <2>2 DEF Saved
<1>7. ASSUME NEW k \in Tasks
      PROVE  /\ task'[k].pc = "link" => Saved(k, Named)'
             /\ task'[k].pc = "completed" => Saved(k, Over)'
  BY <1>1, <1>2, <1>3, <1>6 DEF PlacesSaved
<1>8. QED
  BY <1>5, <1>7 DEF PlacesSaved

LEMMA UnlockedKeepsPublished ==
  ASSUME UploadInv, UploadInv', ClaimInv, PublishInv, NoControls, UnlockedStep
  PROVE  CopiesBacked' /\ PlacesSaved'
<1>1. DeadlinesAhead
  BY DEF PublishInv
<1>2. QED
  BY <1>1, UnlockedFrame, UnlockedSpares, CallsKeepPublished

LEMMA OffersKeepPublished ==
  ASSUME UploadInv, UploadInv', PublishInv, SingleFiles, NEW h \in Tasks, NEW f \in Files,
         OfferWithoutSpace(h, f)
  PROVE  CopiesBacked' /\ PlacesSaved'
<1>1. TasksTyped
  BY DEF UploadInv, TurnInv
<1>2. /\ disk' = disk /\ (pending' = pending \/ Persist) /\ UNCHANGED <<copies, partial, linked>>
      /\ \A k \in Tasks \ {h} : task'[k] = task[k]
  BY <1>1, OffersStayOutside DEF allVars, durable
<1>3. QED
  BY <1>2, OffersSpare, CallsKeepPublished

LEMMA SavesKeepPublished ==
  ASSUME UploadInv, CopiesBacked, PlacesSaved, SaveStep \/ SaveRejects
  PROVE  CopiesBacked' /\ PlacesSaved'
<1> DEFINE n == Len(pending)
<1>1. PICK r \in BOOLEAN : /\ Waited(r)
                           /\ UNCHANGED <<file, copies, partial, linked>>
                           /\ pending # <<>> /\ pending' = Tail(pending)
                           /\ disk' = IF r THEN disk ELSE Head(pending)
  BY DEF SaveStep, SaveRejects, Save, SaveFails, vars, storage
<1>2. pending \in Seq(SnapshotType) /\ TasksTyped
  BY DEF UploadInv, DurableInv, TurnInv
<1>3. /\ n \in Nat /\ n # 0 /\ DOMAIN pending = 1..n /\ DOMAIN pending' = 1..(n - 1)
      /\ \A i \in 1..(n - 1) : pending'[i] = pending[i + 1]
      /\ disk' = disk \/ disk' = pending[1]
      /\ ~r => disk' = pending[1]
  BY <1>1, <1>2
<1> HIDE DEF n
<1>4. ASSUME NEW i \in DOMAIN pending'
      PROVE  i + 1 \in DOMAIN pending /\ pending'[i] = pending[i + 1] /\ i \in Nat
  BY <1>3
<1>5. 1 \in DOMAIN pending
  BY <1>3
<1>6. ASSUME NEW f \in Files, NEW S, Everywhere(f, S) PROVE Everywhere(f, S)'
  BY <1>1, <1>3, <1>4, <1>5, <1>6 DEF Everywhere
<1>7. CopiesBacked'
  BY <1>1, <1>6 DEF CopiesBacked
<1>8. ASSUME NEW k \in Tasks, NEW S, Saved(k, S) PROVE Saved(k, S)'
  <2> DEFINE f == task[k].file
             w == task[k].wait
  <2>1. /\ task'[k].file = f
        /\ w = 0 => task'[k] = task[k]
        /\ w # 0 => task'[k].wait = w - 1 /\ task'[k].broke = (r /\ w = 1)
        /\ w \in Nat /\ w <= n
    BY <1>1, <1>2, WaitedFrame DEF TasksTyped, Task, n
  <2>2. /\ file[f] \in S
        /\ \A i \in DOMAIN pending : w <= i => pending[i].file[f] \in S
        /\ w = 0 /\ ~task[k].broke => disk.file[f] \in S
    BY <1>8 DEF Saved
  <2>3. CASE w = 0
    <3>1. \A i \in DOMAIN pending : pending[i].file[f] \in S
      BY <1>3, <2>2, <2>3
    <3>2. task'[k] = task[k]
      BY <2>1, <2>3
    <3>3. QED
      BY <1>1, <1>3, <1>4, <1>5, <2>2, <2>3, <3>1, <3>2 DEF Saved
  <2>4. CASE w # 0
    <3>1. task'[k].wait = w - 1 /\ task'[k].broke = (r /\ w = 1) /\ task'[k].file = f
      BY <2>1, <2>4
    <3> HIDE DEF f, w
    <3>2. w = 1 => pending[1].file[f] \in S
      BY <1>5, <2>2
    <3>3. ASSUME NEW i \in DOMAIN pending', w - 1 <= i
          PROVE  pending'[i].file[f] \in S
      <4>1. w <= i + 1
        BY <1>4, <2>1, <3>3
      <4>2. QED
        BY <1>4, <2>2, <4>1
    <3>4. w - 1 = 0 => w = 1
      BY <2>1
    <3>5. QED
      BY <1>1, <1>3, <2>2, <3>1, <3>2, <3>3, <3>4 DEF Saved
  <2>5. QED
    BY <2>3, <2>4
<1>9. \A k \in Tasks : task'[k].pc = task[k].pc
  BY <1>1, <1>2, WaitedFrame
<1>10. QED
  BY <1>7, <1>8, <1>9 DEF PlacesSaved


(* Recovery completes the file in flight whose copy shares its inode, and   *)
(* leaves a file that is over as it is.                                     *)
LEMMA RestartCompletesCopied ==
  ASSUME UploadInv, UploadInv', CopiesBacked, NEW f \in Files, copies[f] = 1, ~up,
         Reopen(SharedInode) \/ ReopenInterrupted(SharedInode)
  PROVE  file'[f] \in Over /\ disk'.file[f] \in Over
<1> DEFINE F == Recovered(SharedInode)
           B == RecoveredBatches(F)
           Due(t) == /\ B[t].status \notin TerminalBatch \cup {"absent"}
                     /\ B[t].expiresAt <= now
<1>1. file[f] \in FileRecord /\ pending = <<>> /\ disk.file = file
  BY DEF UploadInv, DurableInv, CoreInv, TypeOK, Snapshot
<1>2. /\ Owner[f] \in Uploads /\ file[f] \in Named
      /\ file[f] \in Over \/ (linked[f] /\ partial[f].there)
  BY <1>1 DEF CopiesBacked, Everywhere
<1>3. file[f].status = "finalizing" => batch[Owner[f]].status \notin TerminalBatch
  BY DEF UploadInv, InFlightIsRecovered, Alive, AliveIn, Snapshot, InFlight
<1>4. F[f] = IF batch[Owner[f]].status \in TerminalBatch THEN file[f]
             ELSE RecoveredFile(f, SharedInode)
  BY DEF Recovered
<1>5. F[f].status = "completed"
  <2>1. CASE file[f] \in Over
    <3>1. RecoveredFile(f, SharedInode) = file[f] /\ file[f].status = "completed"
      BY <2>1 DEF RecoveredFile, Over
    <3>2. QED
      BY <1>4, <3>1
  <2>2. CASE file[f] \notin Over
    <3>1. file[f].status = "finalizing" /\ file[f].finalPath /\ linked[f] /\ partial[f].there
      BY <1>2, <2>2 DEF Named, Over
    <3>2. f \in SharedInode
      BY <1>2, <3>1 DEF SharedInode, Finalizing
    <3>3. F[f] = [file[f] EXCEPT !.status = "completed", !.finalPath = FALSE]
      BY <1>3, <1>4, <3>1, <3>2 DEF RecoveredFile
    <3>4. QED
      BY <1>1, <3>3 DEF FileRecord
  <2>3. QED
    BY <2>1, <2>2
<1>6. file'[f].status = "completed" /\ disk'.file[f] = file'[f]
  <2>1. CASE Reopen(SharedInode)
    <3>1. /\ file' = [g \in Files |->
                        IF Due(Owner[g]) /\ F[g].status \notin TerminalFile
                        THEN [F[g] EXCEPT !.status = "failed"] ELSE F[g]]
          /\ disk' = Snapshot'
      BY <2>1 DEF Reopen
    <3>2. disk'.file = file'
      BY <3>1 DEF Snapshot
    <3> HIDE DEF F, B, Due
    <3>3. file'[f] = F[f]
      BY <1>5, <3>1 DEF TerminalFile
    <3>4. QED
      BY <1>5, <3>2, <3>3
  <2>2. CASE ReopenInterrupted(SharedInode)
    <3>1. disk' = [order |-> order, batch |-> B, file |-> F] /\ file' = disk'.file
      BY <2>2 DEF ReopenInterrupted, Recover
    <3> HIDE DEF F, B
    <3>2. QED
      BY <1>5, <3>1
  <2>3. QED
    BY <2>1, <2>2
<1>7. file'[f] \in FileRecord
  BY DEF UploadInv, DurableInv, CoreInv, TypeOK
<1>8. QED
  BY <1>6, <1>7 DEF Over

LEMMA RestartKeepsPublished ==
  ASSUME UploadInv, UploadInv', CopiesBacked, NEW kept, Restart \/ RestartInterrupted(kept)
  PROVE  CopiesBacked' /\ PlacesSaved'
<1>1. /\ Reopen(SharedInode) \/ ReopenInterrupted(SharedInode)
      /\ UNCHANGED <<task, copies>> /\ ~up
  BY DEF Restart, RestartInterrupted, Reopen, ReopenInterrupted
<1>2. pending' = <<>>
  BY <1>1, RestartEndsWhatWasInFlight DEF UploadInv, DurableInv
<1>3. \A h \in Tasks : task'[h].pc = "idle"
  BY <1>1 DEF UploadInv, TurnInv, TasksTyped
<1>4. \A f \in Files : copies'[f] = 1 => file'[f] \in Over /\ disk'.file[f] \in Over
  BY <1>1, RestartCompletesCopied
<1>5. Over \subseteq Named /\ DOMAIN pending' = {}
  BY <1>2 DEF Over, Named
<1>6. CopiesBacked'
  BY <1>1, <1>4, <1>5 DEF CopiesBacked, Everywhere
<1>7. QED
  BY <1>3, <1>6 DEF PlacesSaved

LEMMA NextKeepsPublishInv ==
  ASSUME NoControls, SingleFiles, UploadInv, UploadInv', BytesInv, CopyInv, CopyInv', PublishInv,
         [UploadNext]_everything
  PROVE  PublishInv'
<1>1. /\ DurableInv /\ TasksTyped /\ ClaimInv /\ SessionInv
      /\ DeadlinesAhead /\ OnlyPuts /\ CopiesBacked /\ PlacesSaved
  BY DEF UploadInv, TurnInv, BytesInv, PublishInv
<1>2. DeadlinesAhead' /\ OnlyPuts'
  BY <1>1, NextKeepsDeadlines, NextKeepsOnlyPuts
<1>3. ASSUME NEW h \in Tasks, HandlerStep(h) PROVE CopiesBacked' /\ PlacesSaved'
  BY <1>1, <1>3, HandlerKeepsPublished
<1>4. ASSUME StartTask PROVE CopiesBacked' /\ PlacesSaved'
  <2>1. PICK h \in Tasks :
          /\ task'[h].pc = "lock"
          /\ \A k \in Tasks \ {h} : task'[k] = task[k]
          /\ UNCHANGED <<allVars, storage>>
    BY <1>1, <1>4, StartsPut
  <2>2. UNCHANGED <<file, disk, pending, copies, linked, partial>>
    BY <2>1 DEF allVars, vars, durable, storage
  <2>3. CopiesBacked'
    BY <1>1, <2>2 DEF CopiesBacked, Everywhere
  <2>4. PlacesSaved'
    BY <1>1, <2>1, <2>2 DEF PlacesSaved, Saved
  <2>5. QED
    BY <2>3, <2>4
<1>5. ASSUME UnlockedStep PROVE CopiesBacked' /\ PlacesSaved'
  BY <1>1, <1>5, UnlockedKeepsPublished
<1>6. ASSUME SaveStep \/ SaveRejects PROVE CopiesBacked' /\ PlacesSaved'
  BY <1>1, <1>6, SavesKeepPublished
<1>7. ASSUME CrashStep PROVE CopiesBacked' /\ PlacesSaved'
  <2>1. /\ Idle.pc = "idle" /\ task' = [h \in Tasks |-> Idle]
        /\ file' = disk.file /\ disk' = disk /\ pending' = <<>>
        /\ UNCHANGED <<copies, linked, partial>>
    BY <1>7 DEF CrashStep, Crash, storage, Idle
  <2>2. DOMAIN pending' = {} /\ \A h \in Tasks : task'[h].pc = "idle"
    BY <2>1
  <2>3. \A f \in Files : \A S : Everywhere(f, S) => Everywhere(f, S)'
    BY <2>1, <2>2 DEF Everywhere
  <2>4. CopiesBacked'
    BY <1>1, <2>1, <2>3 DEF CopiesBacked
  <2>5. QED
    BY <2>2, <2>4 DEF PlacesSaved
<1>8. ASSUME NEW kept, Restart \/ RestartInterrupted(kept) PROVE CopiesBacked' /\ PlacesSaved'
  BY <1>1, <1>8, RestartKeepsPublished
<1>9. ASSUME UNCHANGED everything PROVE CopiesBacked' /\ PlacesSaved'
  <2>1. UNCHANGED <<task, file, disk, pending, copies, linked, partial>>
    BY <1>9 DEF everything, allVars, vars, durable, uploadVars, storage
  <2>2. QED
    BY <1>1, <2>1 DEF CopiesBacked, PlacesSaved, Everywhere, Saved
<1>10. ASSUME NEW h \in Tasks, NEW f \in Files, OfferWithoutSpace(h, f)
       PROVE  CopiesBacked' /\ PlacesSaved'
  BY <1>10, OffersKeepPublished
<1>11. CopiesBacked' /\ PlacesSaved'
  BY <1>3, <1>4, <1>5, <1>6, <1>7, <1>8, <1>9, <1>10 DEF UploadNext
<1>12. QED
  BY <1>2, <1>11 DEF PublishInv

LEMMA InitEstablishesPublishInv == UploadInit => PublishInv
<1> SUFFICES ASSUME UploadInit PROVE PublishInv
  OBVIOUS
<1>1. /\ Idle.pc = "idle" /\ task = [h \in Tasks |-> Idle] /\ pending = <<>>
      /\ copies = [f \in Files |-> 0]
      /\ \A t \in Transfers : batch[t].status = "absent"
      /\ disk.batch = batch
  BY DEF UploadInit, DurableInit, Init, Snapshot, Idle, NoBatch
<1>2. DOMAIN pending = {} /\ \A h \in Tasks : task[h].pc = "idle"
  BY <1>1
<1>3. DeadlinesAhead
  BY <1>1, <1>2 DEF DeadlinesAhead, Unexpired
<1>4. OnlyPuts /\ PlacesSaved
  <2>1. "idle" \notin {"lock"} \cup PutPlaces
    BY DEF PutPlaces, Finishing, Receiving, Ending
  <2>2. QED
    BY <1>2, <2>1 DEF OnlyPuts, PlacesSaved
<1>5. CopiesBacked
  BY <1>1 DEF CopiesBacked
<1>6. QED
  BY <1>3, <1>4, <1>5 DEF PublishInv

(* Without controls, for batches of one file: a copy belongs to a file that *)
(* memory, the disk and every snapshot between call finalized with its name *)
(* or completed, and until all of them call it completed recovery finds the *)
(* partial file of the same inode beside it.  No deadline passes, since no  *)
(* step of the receiver moves the clock.                                    *)
THEOREM PublishInvariant ==
  NoControls /\ SingleFiles => (UploadSpec => []PublishInv)
<1> SUFFICES ASSUME NoControls, SingleFiles PROVE UploadSpec => []PublishInv
  OBVIOUS
<1>1. UploadSpec => []BytesInv /\ []CopyInv
  BY BytesInvariant, CopyInvariant DEF NoControls, NoCancels
<1>2. /\ UploadInv /\ UploadInv' /\ BytesInv /\ CopyInv /\ CopyInv' /\ PublishInv
      /\ [UploadNext]_everything
      => PublishInv'
  BY NextKeepsPublishInv
<1>3. QED
  BY <1>1, <1>2, InitEstablishesPublishInv, UploadInvariant, PTL DEF UploadSpec

(* Without controls, for batches of one file: a file that failed has no     *)
(* copy in the download directory once the handler that failed it is out of *)
(* the lock, whatever crashes between the link and the save that completes  *)
(* it, and whichever save rejects.                                          *)
THEOREM FailedFilesAreNotPublished ==
  NoControls /\ SingleFiles => (UploadSpec => []FailedIsNotPublished)
<1> SUFFICES ASSUME NoControls, SingleFiles PROVE UploadSpec => []FailedIsNotPublished
  OBVIOUS
<1>1. UploadSpec => []CopyInv
  BY CopyInvariant DEF NoControls
<1>2. CopyInv /\ PublishInv => FailedIsNotPublished
  <2> SUFFICES ASSUME CopyInv, PublishInv, NEW f \in Files, copies[f] # 0,
                      file[f].status \in {"failed", "cancelled"}
               PROVE  FALSE
    BY DEF FailedIsNotPublished
  <2>1. copies[f] = 1
    BY DEF CopyInv
  <2>2. file[f] \in Named
    BY <2>1 DEF PublishInv, CopiesBacked, Everywhere
  <2>3. QED
    BY <2>2 DEF Named
<1>3. QED
  BY <1>1, <1>2, PublishInvariant, PTL

-----------------------------------------------------------------------------
(* What was announced has its copy, and is completed while the laptop runs: *)
(* after a crash that lost the completion, recovery finds it again.         *)
AnnouncedInv ==
  \A f \in Files :
    "complete" \in told[f] => copies[f] = 1 /\ (up => file[f].status = "completed")

LEMMA PutKeepsAnnouncedInv ==
  ASSUME UploadInv, ClaimInv, CopyInv, CopyInv', PublishInv, AnnouncedInv,
         NEW h \in Tasks, PutStep(h)
  PROVE  AnnouncedInv'
<1> DEFINE f == task[h].file
<1>1. DurableInv /\ TasksTyped /\ ToldTyped /\ HandlerStep(h) /\ PlacesSaved
  BY DEF HandlerStep, UploadInv, TurnInv, ClaimInv, PublishInv
<1>2. HandlerEffect(h) /\ TurnEffect(h) /\ ToldEffect(h)
  BY <1>1, PutEffect, PutTurns, HandlersTell
<1>3. up /\ f \in Files
  BY <1>2 DEF TurnEffect
<1>4. ASSUME NEW g \in Files, file[g].status = "completed"
      PROVE  copies'[g] = 1 /\ file'[g].status = "completed"
  <2>1. file'[g].status = "completed"
    BY <1>2, <1>4 DEF HandlerEffect, Ended
  <2>2. QED
    BY <2>1 DEF CopyInv
<1>5. task[h].pc = "completed" => file[f].status = "completed"
  BY <1>1 DEF PlacesSaved, Saved, Over
<1>6. ASSUME NEW g \in Files, "complete" \in told'[g] PROVE file[g].status = "completed"
  BY <1>2, <1>3, <1>5, <1>6 DEF ToldEffect, AnnouncedInv
<1>7. QED
  BY <1>4, <1>6 DEF AnnouncedInv

LEMMA HandlerKeepsAnnouncedInv ==
  ASSUME UploadInv, ClaimInv, CopyInv, CopyInv', PublishInv, AnnouncedInv,
         NEW h \in Tasks, HandlerStep(h)
  PROVE  AnnouncedInv'
<1>1. CASE OrderTold(h)
  <2>1. /\ UNCHANGED <<file, up, copies>>
        /\ told' = told \/ Tell(task[h].file, "failed")
    BY <1>1, OffersEnd DEF UploadInv, TurnInv, allVars, vars, durable
  <2>2. task[h].file \in Files
    BY <1>1 DEF UploadInv, TurnInv, TasksTyped, OrderTold, Ready
  <2>3. ToldTyped /\ "complete" \notin {"failed"}
    BY DEF ClaimInv
  <2>4. \A g \in Files : "complete" \in told'[g] => "complete" \in told[g]
    BY <2>1, <2>2, <2>3, Telling
  <2>5. QED
    BY <2>1, <2>4 DEF AnnouncedInv
<1>2. QED
  BY <1>1, HandlersPut, PutKeepsAnnouncedInv DEF PublishInv

(* The calls without the lock announce the completion that memory holds. *)
LEMMA UnlockedAnnounces ==
  ASSUME ToldTyped, UnlockedStep, NEW g \in Files, "complete" \in told'[g]
  PROVE  "complete" \in told[g] \/ file[g].status = "completed"
<1>1. CASE told' = told
  BY <1>1
<1>2. ASSUME NEW f \in Files, Tell(f, "failed") \/ told' = [told EXCEPT ![f] = {}]
      PROVE  "complete" \in told[g]
  BY <1>2, Telling DEF ToldTyped
<1>3. ASSUME NEW f \in Files, Tell(f, "complete"), file[f].status = "completed"
      PROVE  "complete" \in told[g] \/ file[g].status = "completed"
  BY <1>3 DEF Tell, ToldTyped
<1>4. QED
  BY <1>1, <1>2, <1>3
  DEF UnlockedStep, Offer, BatchOrder, OfferTells, OfferRetries, OfferRetried, Resume,
      ActivateNext, uploadVars

LEMMA NextKeepsAnnouncedInv ==
  ASSUME NoControls, SingleFiles, UploadInv, UploadInv', BytesInv, CopyInv, CopyInv', PublishInv,
         AnnouncedInv, [UploadNext]_everything
  PROVE  AnnouncedInv'
<1>1. /\ DurableInv /\ DurableInv' /\ TasksTyped /\ ClaimInv /\ ToldTyped
      /\ DeadlinesAhead /\ CopiesBacked
  BY DEF UploadInv, TurnInv, BytesInv, ClaimInv, PublishInv
<1>2. ASSUME UNCHANGED <<told, copies>>, up' => up, \A g \in Files : file'[g] = file[g] \/ ~up'
      PROVE  AnnouncedInv'
  BY <1>2 DEF AnnouncedInv
<1>3. ASSUME NEW h \in Tasks, HandlerStep(h) PROVE AnnouncedInv'
  BY <1>1, <1>3, HandlerKeepsAnnouncedInv
<1>4. CASE StartTask
  <2>1. \E h \in Tasks, f \in Files : \E op, offset : Start(h, op, f, offset)
    BY <1>4 DEF StartTask, StartPut, StartOrder
  <2>2. UNCHANGED <<told, copies, up, file>>
    BY <2>1 DEF Start, allVars, vars, durable, storage
  <2>3. QED
    BY <1>2, <2>2
<1>5. CASE UnlockedStep
  <2>1. /\ up /\ copies' = copies
        /\ \A g \in Files : file[g].status = "completed" => file'[g] = file[g]
    BY <1>1, <1>5, UnlockedFrame, UnlockedSpares
  <2>2. QED
    BY <1>1, <1>5, <2>1, UnlockedAnnounces DEF AnnouncedInv, CopyInv
<1>6. CASE SaveStep \/ SaveRejects
  <2>1. UNCHANGED <<told, copies, file, up>>
    BY <1>6 DEF SaveStep, SaveRejects, Save, SaveFails, vars, storage
  <2>2. QED
    BY <1>2, <2>1
<1>7. CASE CrashStep
  <2>1. UNCHANGED <<told, copies>> /\ ~up'
    BY <1>7 DEF CrashStep, Crash, storage
  <2>2. QED
    BY <1>2, <2>1
<1>8. ASSUME NEW kept, Restart \/ RestartInterrupted(kept) PROVE AnnouncedInv'
  <2>1. /\ Reopen(SharedInode) \/ ReopenInterrupted(SharedInode)
        /\ UNCHANGED <<told, copies>> /\ ~up
    BY <1>8 DEF Restart, RestartInterrupted, Reopen, ReopenInterrupted
  <2>2. \A f \in Files : copies[f] = 1 => file'[f] \in Over
    BY <1>1, <2>1, RestartCompletesCopied
  <2>3. QED
    BY <2>1, <2>2 DEF AnnouncedInv, Over
<1>9. CASE UNCHANGED everything
  <2>1. UNCHANGED <<told, copies, file, up>>
    BY <1>9 DEF everything, allVars, vars, durable, uploadVars, storage
  <2>2. QED
    BY <1>2, <2>1
<1>10. ASSUME NEW h \in Tasks, NEW f \in Files, OfferWithoutSpace(h, f) PROVE AnnouncedInv'
  <2>1. /\ up /\ UNCHANGED <<told, copies>>
        /\ \A g \in Files : file[g].status = "completed" => file'[g] = file[g]
    BY <1>1, <1>10, OffersStayOutside, OffersSpare
  <2>2. QED
    BY <2>1 DEF AnnouncedInv
<1>11. QED
  BY <1>3, <1>4, <1>5, <1>6, <1>7, <1>8, <1>9, <1>10 DEF UploadNext

(* Without controls, for batches of one file, and now with saves that      *)
(* reject: what the phone was told is complete is complete whenever the    *)
(* laptop runs.  A completion whose save rejected, or is still to come when *)
(* an offer is answered, is announced too; what it is linked to stays, so  *)
(* the next start completes the file again.                                *)
THEOREM AnnouncedFilesStayComplete ==
  NoControls /\ SingleFiles => (UploadSpec => []AnnouncedIsCompleted)
<1> SUFFICES ASSUME NoControls, SingleFiles PROVE UploadSpec => []AnnouncedIsCompleted
  OBVIOUS
<1>1. UploadSpec => []BytesInv /\ []CopyInv /\ []PublishInv
  BY BytesInvariant, CopyInvariant, PublishInvariant DEF NoControls, NoCancels
<1>2. UploadInit => AnnouncedInv
  BY DEF UploadInit, AnnouncedInv
<1>3. /\ UploadInv /\ UploadInv' /\ BytesInv /\ CopyInv /\ CopyInv' /\ PublishInv /\ AnnouncedInv
      /\ [UploadNext]_everything
      => AnnouncedInv'
  BY NextKeepsAnnouncedInv
<1>4. AnnouncedInv => AnnouncedIsCompleted
  BY DEF AnnouncedInv, AnnouncedIsCompleted
<1>5. QED
  BY <1>1, <1>2, <1>3, <1>4, UploadInvariant, PTL DEF UploadSpec
=============================================================================
