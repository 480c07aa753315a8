----------------------------- MODULE PhoneSender -----------------------------
(***************************************************************************)
(* The phone's PhoneTransferSender                                         *)
(* (app/lib/src/transfer/phone_transfer_sender.dart) with the laptop it    *)
(* sends to: the queue of TransferQueue, driven by the handlers of         *)
(* src/transfer.  A batch has one run at a time, which prepares its files, *)
(* waits for its turn and sends them; the user cancels and retries, and    *)
(* the app restarts.  Every write to the history is the whole batch, from  *)
(* the copy its writer holds.  Writes take effect in the order they are    *)
(* made; the awaits at which another of the phone's calls comes between    *)
(* are the ends of actions here.                                           *)
(*                                                                         *)
(* PhoneToLaptop adds the network and the laptop, and puts them together.  *)
(***************************************************************************)
EXTENDS TransferQueue, SequencesExt

CONSTANTS
  None,        \* no transfer
  Attempts,    \* reconnectBackoff.length, 3
  Service,     \* the foreground service keeps a connection of its own
  MaxTroubles  \* bound: losses, refusals, deleted sources, cancels, retries, kills

ASSUME SenderAssumption ==
  /\ Uploads = Transfers
  /\ None \notin Transfers /\ Devices # {}
  /\ \A t \in Transfers :
       /\ IsFiniteSet(FilesOf(t))
       /\ {Position[f] : f \in FilesOf(t)} = 1..Cardinality(FilesOf(t))
  /\ Attempts \in Nat
  /\ Service \in BOOLEAN
  /\ MaxTroubles \in Nat

VARIABLES
  stored,     \* the history: the status of each file
  kept,       \* the history: the status of each batch
  created,    \* the batches, oldest first
  missing,    \* files whose source is gone
  run,        \* _preparationRuns: the run of each batch
  local,      \* the batch of _runPreparation, file by file
  sending,    \* the batch of _send, file by file
  token,      \* _preparationTokens
  handle,     \* _activeTransferCancellations
  cancelled,  \* _cancelledFiles
  registered, \* _sendTurnCompleters: the turns not completed yet
  pred,       \* _sendPredecessors, when not completed yet
  tail,       \* _sendTail, when not completed yet
  cancelling, \* a cancelBatch under way
  resuming,   \* a resumePending under way: the batches it loaded
  session,    \* the _TransferSession of each run
  leaked,     \* batches that left a session open which nothing refers to
  inbox,      \* _TransferControlInbox of the session
  wire,       \* controls on their way to the laptop
  request,    \* the PUT a run waits for
  late,       \* PUTs that nobody waits for, on their way
  calls,      \* the laptop's calls of activateNext still to be made
  caller,     \* the known transfer whose offer the laptop is handling
  leaving,    \* files the laptop is failing because the phone is gone
  reported,   \* the laptop has noticed that the phone is gone
  troubles

history == <<stored, kept, created>>
turns == <<registered, pred, tail>>
flags == <<token, handle, cancelled>>
copies == <<run, local, sending>>
network == <<session, leaked, inbox, wire, request, late>>
laptop == <<vars, calls, caller, leaving, reported>>
senderVars == <<history, turns, flags, copies, network, laptop,
                cancelling, resuming, missing, troubles>>

PhoneTerminal == {"completed", "failed", "cancelled"}
PhoneFileStatus ==
  PhoneTerminal \cup {"absent", "preparing", "queued", "connecting", "active", "waiting"}
PhoneBatchStatus ==
  PhoneTerminal \cup {"absent", "preparing", "queued", "active", "waiting", "issues"}

\* first: the acceptance a file's upload starts with; swap: its session is not
\* yet the one the cancellation handle knows.
NoRun == [pc |-> "idle", at |-> 0, offset |-> 0, tries |-> 0, puts |-> 0,
          status |-> "absent", first |-> TRUE, terminalOnly |-> FALSE, swap |-> FALSE]
NoRequest == [at |-> 0, reply |-> "none", confirmed |-> 0]
NoCancel == [pc |-> "idle", transfer |-> None, todo |-> {},
             copy |-> [f \in Files |-> "absent"], status |-> "absent"]
NoResume == [pc |-> "idle", batches |-> <<>>, files |-> [f \in Files |-> "absent"],
             status |-> [t \in Transfers |-> "absent"]]

Count(t) == Cardinality(FilesOf(t))
FileAt(t, i) == CHOOSE f \in FilesOf(t) : Position[f] = i
Over(status) == status \in PhoneTerminal

(* Only a batch being prepared or sent is resumed. *)
Unfinished == {"preparing", "queued", "active"}

SenderInit ==
  /\ Init
  /\ stored = [f \in Files |-> "absent"] /\ local = stored /\ sending = stored
  /\ kept = [t \in Transfers |-> "absent"]
  /\ created = <<>> /\ missing = {}
  /\ run = [t \in Transfers |-> NoRun]
  /\ token = [f \in Files |-> "none"] /\ handle = token
  /\ cancelled = {} /\ registered = {}
  /\ pred = [t \in Transfers |-> None] /\ tail = None
  /\ cancelling = NoCancel /\ resuming = NoResume
  /\ session = [t \in Transfers |-> "none"] /\ leaked = {}
  /\ inbox = [t \in Transfers |-> <<>>] /\ wire = inbox
  /\ request = [t \in Transfers |-> NoRequest] /\ late = {}
  /\ calls = 0 /\ caller = None /\ leaving = {} /\ reported = TRUE
  /\ troubles = 0
-----------------------------------------------------------------------------
(* The history *)

(* upsert of batch t from the copy F. *)
Write(t, F, status) ==
  /\ stored' = [f \in Files |-> IF Owner[f] = t THEN F[f] ELSE stored[f]]
  /\ kept' = [kept EXCEPT ![t] = status]
  /\ UNCHANGED created

(* _deriveBatchStatus *)
PhoneBatchOf(t, F) ==
  LET Some(S) == \E f \in FilesOf(t) : F[f] \in S
      All(s) == \A f \in FilesOf(t) : F[f] = s
  IN  IF Some({"connecting", "active"}) THEN "active"
      ELSE IF Some({"preparing"}) THEN "preparing"
      ELSE IF Some({"waiting"}) THEN "waiting"
      ELSE IF Some({"queued"}) THEN "queued"
      ELSE IF All("completed") THEN "completed"
      ELSE IF Some({"completed"}) THEN "issues"
      ELSE IF All("cancelled") THEN "cancelled"
      ELSE "failed"
-----------------------------------------------------------------------------
(* Turns *)

(* Mutant: the turn is the tail before its predecessor is read.            *)
RegisterTurnTailFirst(t) ==
  IF t \in registered THEN UNCHANGED turns
  ELSE /\ registered' = registered \cup {t}
       /\ tail' = t
       /\ pred' = [pred EXCEPT ![t] = tail']

RegisterTurn(t) ==
  IF t \in registered THEN UNCHANGED turns
  ELSE /\ registered' = registered \cup {t}
       /\ pred' = [pred EXCEPT ![t] = tail]
       /\ tail' = t

CompleteTurn(t) ==
  /\ registered' = registered \ {t}
  /\ pred' = [u \in Transfers |-> IF u = t \/ pred[u] = t THEN None ELSE pred[u]]
  /\ tail' = IF tail = t THEN None ELSE tail

(* _schedulePreparation: a batch that has a run keeps it. *)
Schedule(t, F, status) ==
  IF run[t].pc # "idle" THEN UNCHANGED copies
  ELSE /\ run' = [run EXCEPT ![t] = [NoRun EXCEPT !.pc = "connect", !.status = status]]
       /\ local' = [f \in Files |-> IF Owner[f] = t THEN F[f] ELSE local[f]]
       /\ UNCHANGED sending
-----------------------------------------------------------------------------
(* How a run advances *)

At(t, pc) == run[t].pc = pc
Current(t) == FileAt(t, run[t].at)
Goto(t, pc) == run' = [run EXCEPT ![t].pc = pc]

OnPhone == UNCHANGED <<laptop, troubles, missing, cancelling, resuming>>

(* The run is over; a session that was prepared and not used stays open. *)
EndRun(t) ==
  /\ run' = [run EXCEPT ![t] = NoRun]
  /\ local' = [f \in Files |-> IF Owner[f] = t THEN "absent" ELSE local[f]]
  /\ sending' = [f \in Files |-> IF Owner[f] = t THEN "absent" ELSE sending[f]]
  /\ CompleteTurn(t)

Leak(t) ==
  /\ leaked' = IF session[t] = "up" THEN leaked \cup {t} ELSE leaked
  /\ session' = [session EXCEPT ![t] = "none"]
  /\ inbox' = [inbox EXCEPT ![t] = <<>>]
  /\ UNCHANGED <<wire, request, late>>

(* _TransferSession.close *)
CloseSession(t) ==
  /\ session' = [session EXCEPT ![t] = "none"]
  /\ inbox' = [inbox EXCEPT ![t] = <<>>]
  /\ request' = [request EXCEPT ![t] = NoRequest]
  /\ UNCHANGED <<leaked, wire, late>>

(* The finally of one file's preparation. *)
Forget(f) ==
  /\ token' = [token EXCEPT ![f] = "none"]
  /\ cancelled' = cancelled \ {f}
  /\ UNCHANGED handle

(* Every file that has not come to its end fails. *)
Failed(F) == [f \in Files |-> IF Over(F[f]) THEN F[f] ELSE "failed"]

(* An error in _runPreparation outside _send. *)
FailPreparation(t) ==
  /\ Write(t, Failed(local), "failed")
  /\ EndRun(t) /\ Leak(t)

(* _connectSession, and activateNext of the laptop's connect handler. *)
Opened(t) ==
  /\ session' = [session EXCEPT ![t] = "up"]
  /\ inbox' = [inbox EXCEPT ![t] = <<>>]
  /\ request' = [request EXCEPT ![t] = NoRequest]
  /\ calls' = calls + 1
  /\ reported' = FALSE
  /\ UNCHANGED <<leaked, late, vars, caller, leaving>>

Trouble == troubles < MaxTroubles /\ troubles' = troubles + 1
-----------------------------------------------------------------------------
(* _runPreparation up to _send *)

Connects(t) ==
  /\ At(t, "connect")
  /\ Opened(t)
  /\ Goto(t, "prepare")
  /\ UNCHANGED <<history, turns, flags, local, sending, wire, troubles, missing, cancelling, resuming>>

(* No connection within ten seconds, or the network is not allowed. *)
ConnectFails(t) ==
  /\ At(t, "connect")
  /\ Trouble
  /\ FailPreparation(t)
  /\ UNCHANGED <<flags, laptop, missing, cancelling, resuming>>

NextSource(t) == {i \in (run[t].at + 1)..Count(t) : ~Over(local[FileAt(t, i)])}
First(S) == CHOOSE i \in S : \A j \in S : i <= j

PrepareFile(t) ==
  LET f == FileAt(t, First(NextSource(t)))
  IN  /\ At(t, "prepare") /\ NextSource(t) # {}
      /\ IF f \in cancelled
         THEN /\ run' = [run EXCEPT ![t].pc = "undo"]
              /\ UNCHANGED <<history, token, local>>
         ELSE /\ run' = [run EXCEPT ![t].pc = "probe", ![t].at = First(NextSource(t))]
              /\ local' = [local EXCEPT ![f] = IF @ = "active" THEN "connecting" ELSE @]
              /\ Write(t, local', run[t].status)
              /\ token' = [token EXCEPT ![f] = "live"]
      /\ UNCHANGED <<turns, handle, cancelled, sending, network>> /\ OnPhone

(* The probe, the hash and the copies made on the way write the batch      *)
(* without looking at the token.                                           *)
Probe(t) ==
  LET f == Current(t)
  IN  /\ At(t, "probe") /\ f \notin missing
      /\ Goto(t, "probed")
      /\ Write(t, local, run[t].status)
      /\ UNCHANGED <<turns, flags, local, sending, network>> /\ OnPhone

(* A source the reader no longer finds: the file waits for it. *)
ProbeMissing(t) ==
  LET f == Current(t)
  IN  /\ At(t, "probe") /\ f \in missing
      /\ Goto(t, "prepare")
      /\ local' = [local EXCEPT ![f] = "waiting"]
      /\ Write(t, local', run[t].status)
      /\ Forget(f)
      /\ UNCHANGED <<turns, sending, network>> /\ OnPhone

(* A file beyond the limit, or a source that fails otherwise. *)
ProbeFails(t) ==
  /\ At(t, "probe")
  /\ Trouble
  /\ FailPreparation(t)
  /\ Forget(Current(t))
  /\ UNCHANGED <<laptop, missing, cancelling, resuming>>

(* PreparationCancelled from a check of the token. *)
PreparationCancelled(t) ==
  /\ At(t, "probe") \/ At(t, "probed")
  /\ token[Current(t)] = "cancelled"
  /\ Goto(t, "undo")
  /\ Forget(Current(t))
  /\ UNCHANGED <<history, turns, local, sending, network>> /\ OnPhone

(* The last check, and the write of the prepared file. *)
FilePrepared(t) ==
  LET f == Current(t)
  IN  /\ At(t, "probed") /\ token[f] = "live"
      /\ Goto(t, "saved")
      /\ local' = [local EXCEPT ![f] = "queued"]
      /\ Write(t, local', run[t].status)
      /\ UNCHANGED <<turns, flags, sending, network>> /\ OnPhone

(* The finally, once the write is there. *)
FileSaved(t) ==
  /\ At(t, "saved")
  /\ Goto(t, "prepare")
  /\ Forget(Current(t))
  /\ UNCHANGED <<history, turns, local, sending, network>> /\ OnPhone

Blocked(t) ==
  /\ At(t, "prepare") /\ NextSource(t) = {}
  /\ \E f \in FilesOf(t) : local[f] = "waiting"
  /\ Write(t, local, "waiting")
  /\ EndRun(t) /\ Leak(t)
  /\ UNCHANGED flags /\ OnPhone

Prepared(t) ==
  /\ At(t, "prepare") /\ NextSource(t) = {}
  /\ \A f \in FilesOf(t) : local[f] # "waiting"
  /\ run' = [run EXCEPT ![t].pc = "turn", ![t].at = 0, ![t].status = "queued"]
  /\ Write(t, local, "queued")
  /\ UNCHANGED <<turns, flags, local, sending, network>> /\ OnPhone

(* PreparationCancelled: the batch as it is stored now is loaded, and each *)
(* of its files that has not come to its end is cancelled in that copy.    *)
Undo(t) ==
  /\ At(t, "undo")
  /\ run' = [run EXCEPT ![t].pc = "undone", ![t].at = 0, ![t].status = kept[t]]
  /\ local' = [f \in Files |-> IF Owner[f] = t THEN stored[f] ELSE local[f]]
  /\ UNCHANGED <<history, turns, flags, sending, network>> /\ OnPhone

UndoFile(t) ==
  LET F == [local EXCEPT ![FileAt(t, First(NextSource(t)))] = "cancelled"]
  IN  /\ At(t, "undone") /\ NextSource(t) # {}
      /\ run' = [run EXCEPT ![t].at = First(NextSource(t))]
      /\ Write(t, F, PhoneBatchOf(t, F))
      /\ UNCHANGED <<turns, flags, local, sending, network>> /\ OnPhone

Undone(t) ==
  /\ At(t, "undone") /\ NextSource(t) = {}
  /\ EndRun(t) /\ Leak(t)
  /\ UNCHANGED <<history, flags>> /\ OnPhone

PrepareStep(t) ==
  \/ Connects(t) \/ PrepareFile(t) \/ Probe(t) \/ ProbeMissing(t)
  \/ PreparationCancelled(t) \/ FilePrepared(t) \/ FileSaved(t)
  \/ Blocked(t) \/ Prepared(t) \/ Undo(t) \/ UndoFile(t) \/ Undone(t)
-----------------------------------------------------------------------------
(* _send *)

(* _replaceFile of file f of a run's batch. *)
Replace(t, f, status) ==
  /\ sending' = [sending EXCEPT ![f] = status]
  /\ Write(t, sending', run[t].status)

NoHandles(t) == [f \in Files |-> IF Owner[f] = t THEN "none" ELSE handle[f]]

(* PreparationCancelled out of _send, which closes the session it knows.   *)
AbortSend(t) ==
  /\ Goto(t, "undo")
  /\ handle' = NoHandles(t)
  /\ IF run[t].swap THEN Leak(t) ELSE CloseSession(t)
  /\ UNCHANGED <<history, turns, token, cancelled, local, sending>>

(* Another error: _send writes its own copy, and _runPreparation then the  *)
(* copy it gave to _send, where no file is completed yet.                  *)
SendFails(t) ==
  IF run[t].at > 0 /\ Current(t) \in cancelled THEN AbortSend(t)
  ELSE /\ Write(t, Failed(local), "failed")
       /\ handle' = NoHandles(t)
       /\ CloseSession(t) /\ EndRun(t)
       /\ UNCHANGED <<token, cancelled>>

(* The predecessor's turn is over; the first file counts as active. *)
TakeTurn(t) ==
  /\ At(t, "turn") /\ pred[t] = None
  /\ run' = [run EXCEPT ![t].pc = "offer", ![t].status = "active"]
  /\ sending' = [f \in Files |->
                   IF Owner[f] # t THEN sending[f]
                   ELSE IF Position[f] = 1 THEN "connecting" ELSE local[f]]
  /\ Write(t, sending', "active")
  /\ UNCHANGED <<turns, flags, local, network>> /\ OnPhone

Controls(t, messages) ==
  wire' = [wire EXCEPT ![t] = IF session[t] = "up" THEN @ \o messages ELSE @]

Offer == [kind |-> "offer"]

SendOffer(t) ==
  /\ At(t, "offer")
  /\ run' = [run EXCEPT ![t].pc = "file", ![t].at = 1]
  /\ Write(t, sending, "active")
  /\ Controls(t, <<Offer>>)
  /\ UNCHANGED <<turns, flags, local, sending, session, leaked, inbox, request, late>>
  /\ OnPhone

BeginFile(t) ==
  LET f == Current(t)
  IN  /\ At(t, "file") /\ run[t].at <= Count(t)
      /\ CASE sending[f] = "completed" ->
                /\ run' = [run EXCEPT ![t].at = @ + 1]
                /\ UNCHANGED <<history, turns, flags, local, sending, network>>
           [] sending[f] # "completed" /\ f \in cancelled -> AbortSend(t)
           [] OTHER ->
                /\ Goto(t, "handle")
                /\ Replace(t, f, "connecting")
                /\ UNCHANGED <<turns, flags, local, network>>
      /\ OnPhone

(* From here a cancel goes to the laptop. *)
Handle(t) ==
  LET f == Current(t)
  IN  /\ At(t, "handle")
      /\ handle' = [handle EXCEPT ![f] = "ready"]
      /\ Replace(t, f, "active")
      /\ run' = [run EXCEPT ![t].pc = "accept", ![t].tries = Attempts, ![t].puts = Attempts,
                            ![t].first = TRUE, ![t].terminalOnly = FALSE, ![t].swap = FALSE]
      /\ UNCHANGED <<turns, token, cancelled, local, network>> /\ OnPhone

(* What _waitForAcceptance looks for in the inbox. *)
Answers(t) ==
  {i \in DOMAIN inbox[t] :
     /\ inbox[t][i].file = Current(t)
     /\ run[t].terminalOnly => inbox[t][i].kind # "accept"}

TakeAnswer(t) ==
  LET f == Current(t)
      i == First(Answers(t))
      m == inbox[t][i]
      fresh == run[t].first \/ run[t].terminalOnly \/ m.offset > run[t].offset
  IN  /\ At(t, "accept") /\ session[t] # "none" /\ Answers(t) # {}
      /\ CASE m.kind = "failed" -> SendFails(t)
           [] m.kind # "failed" /\ run[t].first /\ f \in cancelled -> AbortSend(t)
           [] m.kind = "accept" /\ run[t].first /\ f \in missing -> SendFails(t)
           [] OTHER ->
                /\ run' = [run EXCEPT ![t].pc = IF m.kind = "complete" THEN "sent" ELSE "put",
                                      ![t].offset = m.offset,
                                      ![t].puts = IF fresh THEN Attempts ELSE @,
                                      ![t].first = FALSE, ![t].terminalOnly = FALSE,
                                      ![t].swap = FALSE]
                /\ Replace(t, f, "active")
                /\ inbox' = [inbox EXCEPT ![t] = RemoveAt(@, i)]
                /\ UNCHANGED <<turns, flags, local, session, leaked, wire, request, late>>
      /\ OnPhone

(* The wait ends with an error that reconnecting may cure: the session is   *)
(* lost, or nothing came in time.                                          *)
LoseAnswer(t) ==
  /\ At(t, "accept")
  /\ IF Current(t) \in cancelled THEN AbortSend(t)
     ELSE /\ Goto(t, "reconnect")
          /\ CloseSession(t)
          /\ UNCHANGED <<history, turns, flags, local, sending>>

(* One round of _acceptWithReconnect: a new session, and the offer again. *)
Reconnect(t) ==
  /\ At(t, "reconnect")
  /\ Current(t) \notin cancelled /\ run[t].tries > 0
  /\ Opened(t)
  /\ wire' = [wire EXCEPT ![t] = Append(@, Offer)]
  /\ run' = [run EXCEPT ![t].pc = "accept", ![t].tries = @ - 1, ![t].swap = TRUE]
  /\ UNCHANGED <<history, turns, flags, local, sending, troubles, missing, cancelling, resuming>>

ReconnectFails(t) ==
  /\ At(t, "reconnect")
  /\ Current(t) \notin cancelled /\ run[t].tries > 0
  /\ Trouble
  /\ run' = [run EXCEPT ![t].tries = @ - 1]
  /\ UNCHANGED <<history, turns, flags, local, sending, network, laptop, missing,
                 cancelling, resuming>>

StopReconnecting(t) ==
  /\ At(t, "reconnect")
  /\ Current(t) \in cancelled \/ run[t].tries = 0
  /\ SendFails(t)
  /\ OnPhone

(* The upload loop asks nobody whether the file is cancelled. *)
Put(t) ==
  LET f == Current(t)
  IN  /\ At(t, "put")
      /\ IF run[t].offset = Size[f] /\ Size[f] > 0
           THEN /\ Goto(t, "sent")
                /\ UNCHANGED <<history, turns, flags, local, sending, network>>
         ELSE IF session[t] = "closed" THEN SendFails(t)
         ELSE /\ Goto(t, "putting")
              /\ request' = [request EXCEPT ![t] =
                               [at |-> run[t].offset, reply |-> "asked", confirmed |-> 0]]
              /\ UNCHANGED <<history, turns, flags, local, sending, session, leaked,
                             inbox, wire, late>>
      /\ OnPhone

Answered(t, reply) == At(t, "putting") /\ request[t].reply = reply

NoMoreRequest(t) == request' = [request EXCEPT ![t] = NoRequest]

PutOk(t) ==
  LET f == Current(t)
      r == request[t]
  IN  /\ Answered(t, "ok")
      /\ run' = [run EXCEPT ![t].pc = IF r.confirmed = Size[f] THEN "sent" ELSE "put",
                            ![t].offset = r.confirmed, ![t].puts = Attempts]
      /\ Replace(t, f, "active")
      /\ NoMoreRequest(t)
      /\ UNCHANGED <<turns, flags, local, session, leaked, inbox, wire, late>> /\ OnPhone

(* Mutant: an upload that is at its end at the laptop counts as sent.      *)
PutConflictEnds(t) ==
  LET c == request[t].confirmed
  IN  /\ Answered(t, "conflict")
      /\ IF c <= run[t].offset THEN SendFails(t)
         ELSE /\ run' = [run EXCEPT ![t].pc = IF c = Size[Current(t)] THEN "sent" ELSE "put",
                                    ![t].offset = c, ![t].puts = Attempts]
              /\ Replace(t, Current(t), "active")
              /\ NoMoreRequest(t)
              /\ UNCHANGED <<turns, flags, local, session, leaked, inbox, wire, late>>
      /\ OnPhone

(* offset_not_confirmed: go on at the laptop's offset, which must be ahead;*)
(* at the end of the file only the outcome is missing.                     *)
PutConflict(t) ==
  LET f == Current(t)
      c == request[t].confirmed
  IN  /\ Answered(t, "conflict")
      /\ CASE c <= run[t].offset -> SendFails(t)
           [] c = Size[f] /\ c > run[t].offset ->
                /\ run' = [run EXCEPT ![t].pc = "accept", ![t].terminalOnly = TRUE,
                                      ![t].tries = Attempts]
                /\ NoMoreRequest(t)
                /\ UNCHANGED <<history, turns, flags, local, sending, session, leaked,
                               inbox, wire, late>>
           [] OTHER ->
                /\ run' = [run EXCEPT ![t].pc = "put", ![t].offset = c, ![t].puts = Attempts]
                /\ Replace(t, f, "active")
                /\ NoMoreRequest(t)
                /\ UNCHANGED <<turns, flags, local, session, leaked, inbox, wire, late>>
      /\ OnPhone

PutRefused(t) == Answered(t, "refused") /\ SendFails(t) /\ OnPhone

(* A transient error: connect again, and offer the batch again. *)
PutGone(t) ==
  /\ Answered(t, "lost")
  /\ IF run[t].puts = 0 THEN SendFails(t)
     ELSE /\ run' = [run EXCEPT ![t].pc = "reconnect", ![t].puts = @ - 1, ![t].tries = Attempts]
          /\ CloseSession(t)
          /\ UNCHANGED <<history, turns, flags, local, sending>>
  /\ OnPhone

FileSent(t) ==
  LET f == Current(t)
  IN  /\ At(t, "sent")
      /\ Replace(t, f, "completed")
      /\ handle' = [handle EXCEPT ![f] = "none"]
      /\ run' = [run EXCEPT ![t].pc = "file", ![t].at = @ + 1, ![t].offset = 0]
      /\ UNCHANGED <<turns, token, cancelled, local, network>> /\ OnPhone

FinishBatch(t) ==
  /\ At(t, "file") /\ run[t].at > Count(t)
  /\ Write(t, sending, "completed")
  /\ handle' = NoHandles(t)
  /\ CloseSession(t) /\ EndRun(t)
  /\ UNCHANGED <<token, cancelled>> /\ OnPhone

SendStep(t) ==
  \/ TakeTurn(t) \/ SendOffer(t) \/ BeginFile(t) \/ Handle(t) \/ TakeAnswer(t)
  \/ Reconnect(t) \/ StopReconnecting(t)
  \/ Put(t) \/ PutOk(t) \/ PutConflict(t) \/ PutRefused(t) \/ PutGone(t)
  \/ FileSent(t) \/ FinishBatch(t)
-----------------------------------------------------------------------------
(* cancelBatch: cancelFile for each file that had not come to its end, one *)
(* after the other, each on a copy of the batch it loads again             *)

CancelStep == UNCHANGED <<turns, copies, laptop, missing, resuming>>

NextToCancel == CHOOSE f \in cancelling.todo :
                  \A g \in cancelling.todo : Position[f] <= Position[g]
Doomed == cancelling.todo # {}

(* The screen offers it for every batch it does not show as over. *)
CancelBegins(t) ==
  /\ cancelling.pc = "idle"
  /\ kept[t] \notin PhoneTerminal \cup {"absent", "issues"}
  /\ Trouble
  /\ cancelling' = [NoCancel EXCEPT !.pc = "read", !.transfer = t,
                                    !.todo = {f \in FilesOf(t) : ~Over(stored[f])}]
  /\ CancelStep /\ UNCHANGED <<history, flags, network>>

CancelReads ==
  LET t == cancelling.transfer
  IN  /\ cancelling.pc = "read"
      /\ cancelling' = IF ~Doomed THEN NoCancel
                       ELSE [cancelling EXCEPT
                               !.pc = "act", !.status = kept[t],
                               !.copy = [f \in Files |-> IF Owner[f] = t THEN stored[f] ELSE "absent"]]
      /\ CancelStep /\ UNCHANGED <<history, flags, network, troubles>>

CancelGoes(pc) ==
  cancelling' = IF pc = "read"
                THEN [cancelling EXCEPT !.pc = pc, !.todo = @ \ {NextToCancel}]
                ELSE [cancelling EXCEPT !.pc = pc]

(* A file that is being sent is left to its run; the others are cancelled  *)
(* here.  Either way the copy is written first.                            *)
CancelActs ==
  LET f == NextToCancel
      c == cancelling.copy
  IN  /\ cancelling.pc = "act"
      /\ CASE Over(c[f]) \/ (c[f] = "active" /\ handle[f] = "none") ->
                CancelGoes("read") /\ UNCHANGED history
           [] c[f] = "active" /\ handle[f] # "none" ->
                CancelGoes("ask") /\ Write(cancelling.transfer, c, cancelling.status)
           [] OTHER ->
                /\ cancelling' = [cancelling EXCEPT !.pc = "mark", !.copy[f] = "preparing"]
                /\ Write(cancelling.transfer, cancelling'.copy, cancelling.status)
      /\ CancelStep /\ UNCHANGED <<flags, network, troubles>>

Cancelled == cancelled' = cancelled \cup {NextToCancel}

(* sendCancel on the session the handle knows, once: the message is sealed *)
(* in its own time and the session closed at once, so it may not leave.    *)
CancelAsks ==
  LET f == NextToCancel
      t == cancelling.transfer
      holds == session[t] \in {"up", "down"} /\ ~run[t].swap /\ handle[f] = "ready"
      asked == holds /\ request[t].reply = "asked"
  IN  /\ cancelling.pc = "ask"
      /\ Cancelled
      /\ CancelGoes("read")
      /\ handle' = [handle EXCEPT ![f] = IF @ = "ready" THEN "used" ELSE @]
      /\ session' = IF holds THEN [session EXCEPT ![t] = "closed"] ELSE session
      /\ \/ holds /\ Controls(t, <<[kind |-> "cancel", file |-> f]>>)
         \/ UNCHANGED wire
      /\ late' = IF asked THEN late \cup {[file |-> f, at |-> request[t].at]} ELSE late
      /\ request' = IF holds /\ request[t].reply \in {"asked", "held"}
                    THEN [request EXCEPT ![t].reply = "lost"] ELSE request
      /\ UNCHANGED <<history, token, leaked, inbox, troubles>> /\ CancelStep

CancelMarks ==
  LET f == NextToCancel
  IN  /\ cancelling.pc = "mark"
      /\ Cancelled
      /\ token' = [token EXCEPT ![f] = IF @ = "live" THEN "cancelled" ELSE @]
      /\ cancelling' = [cancelling EXCEPT !.pc = "finish", !.copy[f] = "cancelled"]
      /\ Write(cancelling.transfer, cancelling'.copy, cancelling.status)
      /\ UNCHANGED <<handle, network, troubles>> /\ CancelStep

CancelFinishes ==
  LET t == cancelling.transfer
  IN  /\ cancelling.pc = "finish"
      /\ Write(t, cancelling.copy, PhoneBatchOf(t, cancelling.copy))
      /\ CancelGoes("read")
      /\ CancelStep /\ UNCHANGED <<flags, network, troubles>>

CancelNext == CancelReads \/ CancelActs \/ CancelAsks \/ CancelMarks \/ CancelFinishes
-----------------------------------------------------------------------------
(* enqueue, retry, and the sources the user deletes *)

PhoneEnqueue(t) ==
  /\ kept[t] = "absent"
  /\ stored' = [f \in Files |-> IF Owner[f] = t THEN "preparing" ELSE stored[f]]
  /\ kept' = [kept EXCEPT ![t] = "preparing"]
  /\ created' = Append(created, t)
  /\ RegisterTurn(t)
  /\ Schedule(t, stored', "preparing")
  /\ UNCHANGED <<flags, network, cancelling, resuming, laptop, troubles, missing>>

(* The screen offers it for a batch that failed, was cancelled, has issues *)
(* or waits for a source.  A source that is gone ends the call after the   *)
(* turn is registered and before anything runs.                            *)
Retry(t) ==
  LET reset == [f \in Files |-> IF Owner[f] = t /\ stored[f] # "completed"
                                THEN "preparing" ELSE stored[f]]
      todo == {f \in FilesOf(t) : reset[f] = "preparing"}
      gone == todo \cap missing
  IN  /\ kept[t] \in {"failed", "cancelled", "issues", "waiting"}
      /\ Trouble
      /\ Write(t, reset, "preparing")
      /\ RegisterTurn(t)
      /\ cancelled' = cancelled \ {f \in todo : \A g \in gone : Position[f] <= Position[g]}
      /\ IF gone = {} THEN Schedule(t, reset, "preparing") ELSE UNCHANGED copies
      /\ UNCHANGED <<token, handle, network, laptop, missing, cancelling, resuming>>

Vanish(f) ==
  /\ f \notin missing
  /\ Trouble
  /\ missing' = missing \cup {f}
  /\ UNCHANGED <<history, turns, flags, copies, network, laptop,
                 cancelling, resuming>>
-----------------------------------------------------------------------------
(* The app is killed and started again: resumePending takes the batches    *)
(* that are under way, oldest first, each with the copy loaded at first    *)

(* The laptop keeps what is on its way to it, or some of it is lost. *)
Kill ==
  /\ Trouble
  /\ resuming' = [NoResume EXCEPT !.pc = "load"]
  /\ run' = [t \in Transfers |-> NoRun]
  /\ token' = [f \in Files |-> "none"] /\ handle' = token' /\ cancelled' = {}
  /\ registered' = {} /\ pred' = [t \in Transfers |-> None] /\ tail' = None
  /\ cancelling' = NoCancel
  /\ session' = [t \in Transfers |-> "none"] /\ leaked' = {}
  /\ inbox' = [t \in Transfers |-> <<>>]
  /\ wire' \in {wire, inbox'}
  /\ late' = late \cup {[file |-> Current(t), at |-> request[t].at] :
                          t \in {u \in Transfers : request[u].reply = "asked"}}
  /\ request' = [t \in Transfers |-> NoRequest]
  /\ local' = [f \in Files |-> "absent"] /\ sending' = local'
  /\ UNCHANGED <<history, laptop, missing>>

ResumeStep == UNCHANGED <<flags, network, laptop, troubles, missing, cancelling>>

ResumeLoads ==
  /\ resuming.pc = "load"
  /\ resuming' = [pc |-> "next", files |-> stored, status |-> kept,
                  batches |-> SelectSeq(created, LAMBDA t : kept[t] \in Unfinished)]
  /\ ResumeStep /\ UNCHANGED <<history, turns, copies>>

(* A batch all of whose files came to their end is left as it is. *)
ResumeNext ==
  LET t == Head(resuming.batches)
      F == resuming.files
      todo == {f \in FilesOf(t) : ~Over(F[f])}
  IN  /\ resuming.pc = "next" /\ resuming.batches # <<>>
      /\ CASE todo = {} ->
                /\ resuming' = [resuming EXCEPT !.batches = Tail(@)]
                /\ UNCHANGED <<history, turns, copies>>
           [] todo # {} /\ todo \cap missing # {} ->
                /\ Write(t, Failed(F), "failed")
                /\ resuming' = [resuming EXCEPT !.batches = Tail(@)]
                /\ UNCHANGED <<turns, copies>>
           [] OTHER ->
                /\ RegisterTurn(t)
                /\ Schedule(t, F, resuming.status[t])
                /\ resuming' = [resuming EXCEPT !.pc = "run"]
                /\ UNCHANGED history
      /\ ResumeStep

(* One batch is resumed when the one before it is over. *)
ResumeWaits ==
  /\ resuming.pc = "run" /\ At(Head(resuming.batches), "idle")
  /\ resuming' = [resuming EXCEPT !.pc = "next", !.batches = Tail(@)]
  /\ ResumeStep /\ UNCHANGED <<history, turns, copies>>

ResumeEnds ==
  /\ resuming.pc = "next" /\ resuming.batches = <<>>
  /\ resuming' = NoResume
  /\ ResumeStep /\ UNCHANGED <<history, turns, copies>>

Resume == ResumeLoads \/ ResumeNext \/ ResumeWaits \/ ResumeEnds
=============================================================================
