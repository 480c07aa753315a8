---------------------------- MODULE PhoneToLaptop ----------------------------
(***************************************************************************)
(* The phone's sender of PhoneSender, the network, and the laptop it sends *)
(* to: the queue of TransferQueue driven by the handlers of                *)
(* src/transfer/transfer-coordinator.ts and of the upload side of          *)
(* src/transfer/laptop-data-plane.ts.                                      *)
(*                                                                         *)
(* The laptop takes one control at a time here, and a PUT in one step but  *)
(* for the verification of a whole file: what its handlers do between      *)
(* their awaits is the subject of UploadReceiver.  Each batch has a        *)
(* session, and what the laptop publishes is kept for the session of the   *)
(* batch it is about.  The clock stands still, and the laptop stays up.    *)
(***************************************************************************)
EXTENDS PhoneSender

Device == CHOOSE d \in Devices : TRUE

Phone == UNCHANGED <<history, turns, flags, copies, cancelling, resuming, missing>>

Said(kind, f, offset) == [kind |-> kind, file |-> f, offset |-> offset]

(* publishControl reaches the sessions that are up. *)
Publish(t, messages) ==
  inbox' = [inbox EXCEPT ![t] = IF session[t] = "up" THEN @ \o messages ELSE @]

Silent == UNCHANGED network

(* Between two controls. *)
Quiet == calls = 0 /\ caller = None
-----------------------------------------------------------------------------
(* Controls *)

Takes(t, kind) == wire[t] # <<>> /\ Head(wire[t]).kind = kind /\ Quiet
Taken(t) == wire' = [wire EXCEPT ![t] = Tail(@)]

TakeNewOffer(t) ==
  /\ Takes(t, "offer") /\ ~Known(t)
  /\ AcceptOffer(t, Device)
  /\ calls' = calls + 1
  /\ Taken(t)
  /\ UNCHANGED <<caller, leaving, reported, session, leaked, inbox, request, late, troubles>>
  /\ Phone

(* A file that is too large answers for its batch, a full disk file by file. *)
RejectOffer(t) ==
  /\ Takes(t, "offer") /\ ~Known(t)
  /\ Trouble
  /\ \/ \E f \in FilesOf(t) : Publish(t, <<Said("failed", f, 0)>>)
     \/ Publish(t, [i \in 1..Count(t) |-> Said("failed", FileAt(t, i), 0)])
  /\ Taken(t)
  /\ UNCHANGED <<laptop, session, leaked, request, late>> /\ Phone

TakeKnownOffer(t) ==
  /\ Takes(t, "offer") /\ Known(t)
  /\ caller' = t
  /\ Taken(t)
  /\ UNCHANGED <<vars, calls, leaving, reported, session, leaked, inbox, request, late, troubles>>
  /\ Phone

(* The cancelled files of a batch that is offered again are retried, in turn. *)
RetryCancelled ==
  /\ caller # None
  /\ \/ \E f \in FilesOf(caller) :
          /\ retrying = {} /\ file[f].status = "cancelled"
          /\ \A g \in FilesOf(caller) :
               file[g].status = "cancelled" => Position[f] <= Position[g]
          /\ RetryBegin(f)
     \/ \E f \in FilesOf(caller) : RetryEnd(f)
  /\ UNCHANGED <<calls, caller, leaving, reported, troubles>> /\ Silent /\ Phone

(* republishPhoneProgress of the files of t, when nothing or something was *)
(* claimed.  A run looks for its current file in what it was sent, so the  *)
(* order of the files does not matter.                                     *)
HasNews(f, claimed) ==
  LET r == file[f]
  IN  \/ r.status \in {"completed", "failed"}
      \/ r.status = "active" /\ ~claimed /\ (Size[f] = 0 \/ r.confirmed < Size[f])

News(f) ==
  CASE file[f].status = "completed" -> Said("complete", f, Size[f])
    [] file[f].status = "failed" -> Said("failed", f, 0)
    [] OTHER -> Said("accept", f, file[f].confirmed)

Republished(t, claimed) ==
  LET files == SetToSeq({f \in FilesOf(t) : HasNews(f, claimed)})
  IN  [i \in DOMAIN files |-> News(files[i])]

(* activateNext, for the offer of known batch c, which republishes, or for *)
(* anything else that calls it.                                            *)
Activates(c) ==
  /\ \/ /\ c # None /\ c = caller /\ retrying = {}
        /\ \A f \in FilesOf(c) : file[f].status # "cancelled"
        /\ caller' = None /\ UNCHANGED calls
     \/ /\ c = None /\ calls > 0
        /\ calls' = calls - 1 /\ UNCHANGED caller
  /\ UNCHANGED <<leaving, reported, session, leaked, wire, request, late, troubles>>
  /\ Phone

Told(t, c, claimed) == IF t = c THEN Republished(t, claimed) ELSE <<>>

(* claimNext takes a file, and its phone is told.  Both halves of the call *)
(* are one step: nothing expires while the clock stands still.             *)
ActivateFile(f) ==
  LET Accept(t) == IF t = Owner[f] THEN <<Said("accept", f, file[f].confirmed)>> ELSE <<>>
  IN  /\ ~SomeInFlight /\ IsNext(f)
      /\ file' = [file EXCEPT ![f].status = "active"]
      /\ batch' = [batch EXCEPT ![Owner[f]] = Touched([@ EXCEPT !.status = "active"])]
      /\ UNCHANGED <<order, retrying, claims, now>>
      /\ \E c \in Transfers \cup {None} :
           /\ Activates(c)
           /\ inbox' = [t \in Transfers |->
                          IF session[t] = "up" THEN inbox[t] \o Accept(t) \o Told(t, c, TRUE)
                                               ELSE inbox[t]]

ActivateNothing ==
  /\ SomeInFlight \/ ~\E f \in Files : IsNext(f)
  /\ UNCHANGED vars
  /\ \E c \in Transfers \cup {None} :
       /\ Activates(c)
       /\ inbox' = [t \in Transfers |->
                      IF session[t] = "up" THEN inbox[t] \o Told(t, c, FALSE) ELSE inbox[t]]

(* cancelTransfer waits for the lock of the file. *)
TakeCancel(t) ==
  LET f == Head(wire[t]).file
  IN  /\ Takes(t, "cancel")
      /\ IF Known(t) THEN /\ file[f].status # "verifying"
                          /\ CancelFile(f) /\ calls' = calls + 1
                     ELSE UNCHANGED <<vars, calls>>
      /\ Taken(t)
      /\ UNCHANGED <<caller, leaving, reported, session, leaked, inbox, request, late, troubles>>
      /\ Phone
-----------------------------------------------------------------------------
(* PUTs *)

(* What a PUT of chunk o does to its file, and the answer it gets. *)
Upload(f, o, reply, confirmed) ==
  LET end == IF Size[f] = 0 THEN 0 ELSE o + 1
  IN  /\ file[f].status # "verifying"
      /\ \/ /\ ~Known(Owner[f])
            /\ reply = "refused" /\ confirmed = 0 /\ UNCHANGED vars
         \/ /\ Known(Owner[f]) /\ o # file[f].confirmed
            /\ reply = "conflict" /\ confirmed = file[f].confirmed /\ UNCHANGED vars
         \/ /\ Known(Owner[f]) /\ o = file[f].confirmed /\ file[f].status # "active"
            /\ reply = "refused" /\ confirmed = 0 /\ UNCHANGED vars
         \/ /\ o = file[f].confirmed /\ file[f].status = "active" /\ end < Size[f]
            /\ ConfirmProgress(f, end)
            /\ reply = "ok" /\ confirmed = end
         \/ /\ o = file[f].confirmed /\ file[f].status = "active" /\ end = Size[f]
            /\ BeginVerification(f)
            /\ reply = "held" /\ confirmed = end

Replies == {"refused", "conflict", "ok", "held"}
Handled == UNCHANGED <<calls, caller, leaving, reported, session, leaked, inbox, wire, troubles>>

AnswerPut(t) ==
  /\ request[t].reply = "asked"
  /\ \E reply \in Replies, c \in 0..Size[Current(t)] :
       /\ Upload(Current(t), request[t].at, reply, c)
       /\ request' = [request EXCEPT ![t].reply = reply, ![t].confirmed = c]
  /\ UNCHANGED late /\ Handled /\ Phone

(* A PUT that nobody waits for any more. *)
TakeLate(p) ==
  /\ \E reply \in Replies, c \in 0..Size[p.file] : Upload(p.file, p.at, reply, c)
  /\ late' = late \ {p}
  /\ UNCHANGED request /\ Handled /\ Phone

(* Mutant: the request that began the verification is not answered.        *)
OutcomeUnanswered(f, kind, Replied) ==
  /\ Publish(Owner[f], <<Said(kind, f, Size[f])>>)
  /\ calls' = calls + 1
  /\ UNCHANGED <<caller, leaving, reported, session, leaked, wire, request, late>> /\ Phone

Outcome(f, kind, Replied) ==
  LET t == Owner[f]
  IN  /\ Publish(t, <<Said(kind, f, Size[f])>>)
      /\ \E reply \in Replied :
           request' = IF request[t].reply = "held" /\ Current(t) = f
                      THEN [request EXCEPT ![t].reply = reply] ELSE request
      /\ calls' = calls + 1
      /\ UNCHANGED <<caller, leaving, reported, session, leaked, wire, late>> /\ Phone

VerifyEnds(f) ==
  /\ file[f].status = "verifying"
  /\ Complete(f)
  /\ Outcome(f, "complete", {"ok"})
  /\ UNCHANGED troubles

(* The digests differ, or the disk fails. *)
VerifyFails(f) ==
  /\ file[f].status = "verifying"
  /\ Trouble
  /\ Fail(f)
  /\ Outcome(f, "failed", {"refused", "lost"})
-----------------------------------------------------------------------------
(* handleDeviceDisconnected, once no socket of the phone is left *)

DeviceGone ==
  /\ ~Service /\ ~reported /\ leaked = {}
  /\ \A t \in Transfers : session[t] # "up"
  /\ reported' = TRUE
  /\ leaving' = leaving \cup {f \in Files : file[f].status = "active"}
  /\ UNCHANGED <<vars, calls, caller, troubles>> /\ Silent /\ Phone

(* The lock of the file first; an end it came to meanwhile stands. *)
FailLeaving(f) ==
  /\ f \in leaving /\ file[f].status # "verifying"
  /\ leaving' = leaving \ {f}
  /\ IF file[f].status \in TerminalFile
     THEN UNCHANGED <<vars, inbox>>
     ELSE Fail(f) /\ Publish(Owner[f], <<Said("failed", f, 0)>>)
  /\ UNCHANGED <<calls, caller, reported, session, leaked, wire, request, late, troubles>>
  /\ Phone

LaptopStep ==
  \/ (\E t \in Transfers : TakeNewOffer(t) \/ TakeKnownOffer(t) \/ TakeCancel(t) \/ AnswerPut(t))
  \/ RetryCancelled \/ ActivateNothing
  \/ (\E f \in Files : ActivateFile(f) \/ VerifyEnds(f) \/ FailLeaving(f))
  \/ (\E p \in late : TakeLate(p))
  \/ DeviceGone
-----------------------------------------------------------------------------
(* The network *)

(* Sessions go down; what the laptop had not read is lost or not. *)
NetworkLost ==
  /\ Trouble
  /\ \E S \in SUBSET {t \in Transfers : session[t] = "up"} :
       /\ S # {}
       /\ session' = [t \in Transfers |-> IF t \in S THEN "down" ELSE session[t]]
       /\ wire' \in {wire, [t \in Transfers |-> IF t \in S THEN <<>> ELSE wire[t]]}
  /\ leaked' \in {leaked, {}}
  /\ UNCHANGED <<inbox, request, late, laptop>> /\ Phone

(* A PUT is lost, or its answer, or the phone gives up waiting for it. *)
PutLost(t) ==
  /\ request[t].reply \in {"asked", "held", "ok"}
  /\ Trouble
  /\ request' = [request EXCEPT ![t].reply = "lost"]
  /\ late' \in {late} \cup
       (IF request[t].reply = "asked"
        THEN {late \cup {[file |-> Current(t), at |-> request[t].at]}} ELSE {})
  /\ UNCHANGED <<session, leaked, inbox, wire, laptop>> /\ Phone

(* The laptop has nothing more to say to batch t. *)
NothingComes(t) ==
  /\ Answers(t) = {} /\ wire[t] = <<>> /\ Quiet
  /\ \A f \in FilesOf(t) : file[f].status # "verifying" /\ f \notin leaving

Timeout(t) ==
  /\ At(t, "accept")
  /\ session[t] # "up" \/ NothingComes(t)
  /\ LoseAnswer(t) /\ OnPhone

(* The answer takes longer than the phone waits. *)
Slow(t) ==
  /\ At(t, "accept") /\ session[t] = "up" /\ ~NothingComes(t)
  /\ Trouble
  /\ LoseAnswer(t)
  /\ UNCHANGED <<laptop, missing, cancelling, resuming>>
-----------------------------------------------------------------------------
RunStep(t) == PrepareStep(t) \/ SendStep(t) \/ Timeout(t)

FaultStep ==
  \/ NetworkLost
  \/ (\E f \in Files : VerifyFails(f))
  \/ (\E t \in Transfers :
        \/ ConnectFails(t) \/ ProbeFails(t) \/ ReconnectFails(t)
        \/ RejectOffer(t) \/ PutLost(t) \/ Slow(t))

UserStep ==
  \/ (\E t \in Transfers : PhoneEnqueue(t) \/ CancelBegins(t) \/ Retry(t))
  \/ (\E f \in Files : Vanish(f))
  \/ Kill

SendNext ==
  \/ (\E t \in Transfers : RunStep(t))
  \/ CancelNext \/ Resume \/ LaptopStep \/ FaultStep \/ UserStep

(* What the event loops of the two processes run: a callback that is due   *)
(* is run.  Nothing makes the network fail or the user act.                *)
SendFairness ==
  /\ \A t \in Transfers : WF_senderVars(RunStep(t))
  /\ WF_senderVars(CancelNext) /\ WF_senderVars(Resume)
  /\ WF_senderVars(LaptopStep)

SendSpec == SenderInit /\ [][SendNext]_senderVars /\ SendFairness
-----------------------------------------------------------------------------
(* The records of the phone, the network and the laptop's calls have their *)
(* shape; the laptop's queue has the type TransferQueue gives it.          *)
SenderTypeOK ==
  LET Chunks == 0..Cardinality(Files) + 1
      Control(m) ==
        m = Offer \/ (m.kind = "cancel" /\ m.file \in Files)
      Answer(m) ==
        m.kind \in {"accept", "complete", "failed"} /\ m.file \in Files /\ m.offset \in Nat
  IN  /\ TypeOK
      /\ stored \in [Files -> PhoneFileStatus] /\ kept \in [Transfers -> PhoneBatchStatus]
      /\ local \in [Files -> PhoneFileStatus] /\ sending \in [Files -> PhoneFileStatus]
      /\ missing \subseteq Files /\ cancelled \subseteq Files /\ leaving \subseteq Files
      /\ \A t \in Transfers :
           run[t].at \in Chunks /\ run[t].tries \in 0..Attempts /\ run[t].puts \in 0..Attempts
      /\ token \in [Files -> {"none", "live", "cancelled"}]
      /\ handle \in [Files -> {"none", "ready", "used"}]
      /\ registered \subseteq Transfers /\ tail \in registered \cup {None}
      /\ pred \in [Transfers -> registered \cup {None}]
      /\ session \in [Transfers -> {"none", "up", "down", "closed"}]
      /\ leaked \subseteq Transfers
      /\ \A t \in Transfers :
           /\ \A i \in DOMAIN wire[t] : Control(wire[t][i])
           /\ \A i \in DOMAIN inbox[t] : Answer(inbox[t][i])
      /\ calls \in Nat /\ caller \in Transfers \cup {None}

(* What the phone's history calls completed has arrived: the laptop        *)
(* verified and published every byte of the file, and all the files of a   *)
(* completed batch - after lost answers, repeated offers, cancels, retries *)
(* and restarts too.                                                       *)
SentIsReceived ==
  /\ \A f \in Files : stored[f] = "completed" => file[f].status = "completed"
  /\ \A t \in Transfers :
       kept[t] = "completed" => \A f \in FilesOf(t) : file[f].status = "completed"

(* One batch is offered and sent at a time: the turns of _registerSendTurn *)
(* make the batches FIFO.                                                  *)
Sends(t) ==
  run[t].pc \in {"offer", "file", "handle", "accept", "reconnect", "put", "putting", "sent"}
OneSender == \A t, u \in Transfers : Sends(t) /\ Sends(u) => t = u

(* A run does not wait for ever, for an answer, a turn, a reconnection or  *)
(* a PUT, whatever was lost, cancelled or restarted; except behind a turn  *)
(* that a retry registered for a batch it then did not run.                *)
EveryRunEnds ==
  \A t \in Transfers :
    []<>(At(t, "idle") \/ \E u \in registered : At(u, "idle"))

(* A batch nobody disturbs is sent to its end: prepared, offered, accepted *)
(* file by file, uploaded and verified.                                    *)
Undisturbed ==
  \A t \in Transfers :
    []<>(kept[t] \in {"absent", "completed"} \/ troubles > 0)

(* A batch that the history shows as under way has somebody working on it: *)
(* its run, its cancel or the resumption of the app.                       *)
NothingForgotten ==
  \A t \in Transfers :
    kept[t] \in Unfinished => ~At(t, "idle") \/ cancelling.transfer = t \/ resuming.pc # "idle"

(* No file stays in flight on the laptop for ever.                         *)
Freed == \A f \in Files : []<>(file[f].status # "active")
=============================================================================
