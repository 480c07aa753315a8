---------------------------- MODULE PhoneDownload ----------------------------
(***************************************************************************)
(* A laptop-to-phone transfer: the laptop's TransferCoordinator and the    *)
(* GET handler of its data plane (src/transfer), and the phone's           *)
(* PhoneTransferReceiver (app/lib/src/transfer/phone_transfer_receiver).   *)
(* Offers and the phone's controls travel on the WebSocket in order; every *)
(* GET is a request of its own, which may overtake them.                   *)
(*                                                                         *)
(* The laptop is one event loop: a handler changes the queue, waits for    *)
(* its save and goes on in a microtask, before the next event is taken.    *)
(***************************************************************************)
EXTENDS DurableQueue, FiniteSets

CONSTANTS
  Limited,     \* the files beyond the lowest receive limit the user sets
  MayPause,    \* whether receiving can be off, metered or without a folder
  MaxWire,     \* bound: controls on their way to the laptop
  MaxDrops     \* bound: connections lost, and requests that fail

ASSUME DownloadAssumption ==
  /\ Uploads = {}
  /\ \A t \in Transfers :
       /\ IsFiniteSet(FilesOf(t)) /\ FilesOf(t) # {}
       /\ {Position[f] : f \in FilesOf(t)} = 1..Cardinality(FilesOf(t))
  /\ Limited \subseteq Files
  /\ MayPause \in BOOLEAN
  /\ MaxWire \in Nat \ {0}
  /\ MaxDrops \in Nat

VARIABLES
  after,     \* what follows each save in pending
  ready,     \* continuations whose save is done
  link,      \* "up"; "half": gone, but the Relay has not noticed; "down"
  wire,      \* the phone's controls on their way
  erred,     \* the Relay answered a control with an error
  inbox,     \* offers that wait in the receiver's _serial
  phone,     \* the offer being received: its files, in turn
  request,   \* the GET whose answer has not been used
  partial,   \* the chunks in the partial file of each file
  saved,     \* copies published under the final name
  discarded, \* files whose bytes had the wrong digest
  drops,
  disturbed  \* a connection was lost, an error sent or the laptop restarted

laptopVars == <<after, ready>>
phoneVars == <<inbox, phone, request, partial, saved, discarded>>
downloadVars == <<laptopVars, phoneVars, link, wire, erred, drops, disturbed>>
everything == <<allVars, downloadVars>>

NoRequest == [at |-> 0, reply |-> "none"]
Resting == [pc |-> "idle", transfer |-> CHOOSE t \in Transfers : TRUE, at |-> 1, offset |-> 0]

Then(do, f, offset) == [do |-> do, file |-> f, offset |-> offset]
Nothing == Then("nothing", CHOOSE f \in Files : TRUE, 0)
Activate == [Nothing EXCEPT !.do = "activate"]

DownloadInit ==
  /\ DurableInit
  /\ after = <<>> /\ ready = <<>>
  /\ link = "down" /\ wire = <<>> /\ erred = FALSE
  /\ inbox = <<>> /\ phone = Resting /\ request = NoRequest
  /\ partial = [f \in Files |-> <<>>]
  /\ saved = [f \in Files |-> 0]
  /\ discarded = {}
  /\ drops = 0 /\ disturbed = FALSE
-----------------------------------------------------------------------------
(* The laptop's event loop *)

(* A new event is taken once the microtasks of the last one are done. *)
NextEvent == up /\ ready = <<>> /\ claims = 0

(* A queue call, and what its caller does once the save is done. *)
Saving(call, then) ==
  /\ Len(pending) < MaxPending
  /\ call
  /\ Persist
  /\ after' = Append(after, then)
  /\ UNCHANGED <<disk, up, crashes>>

SaveDone ==
  /\ NextEvent
  /\ Save
  /\ after' = Tail(after)
  /\ ready' = IF Head(after).do = "nothing" THEN ready ELSE Append(ready, Head(after))
  /\ UNCHANGED <<phoneVars, link, wire, erred, drops, disturbed>>

(* publishControl of an offer: only a phone that is there hears it. *)
Publish(t) == inbox' = IF link = "up" THEN Append(inbox, t) ELSE inbox

(* The error that answers a control the coordinator threw on. *)
Throw ==
  /\ erred' = (erred \/ link = "up")
  /\ disturbed' = TRUE
  /\ UNCHANGED <<allVars, after>>
Quiet == UNCHANGED <<erred, disturbed>>

(* acceptReceiverOffset.  The phone always sends maxChunkBytes, so the     *)
(* offset is confirmed even when it is the one the laptop knows.           *)
AcceptReceiverOffset(f, offset) ==
  IF file[f].status = "active" /\ offset \in file[f].confirmed..Size[f]
  THEN Saving(ConfirmProgress(f, offset), Nothing) /\ Quiet
  ELSE Throw

(* activateNext up to the await of expire; nothing expires here. *)
ActivateNext == ClaimBegin /\ UNCHANGED <<durable, after>>

Continue ==
  /\ up /\ ready # <<>> /\ claims = 0
  /\ LET next == Head(ready)
     IN  \/ next.do = "activate" /\ ActivateNext /\ Quiet /\ UNCHANGED inbox
         \/ /\ next.do = "accept"
            /\ AcceptReceiverOffset(next.file, next.offset)
            /\ UNCHANGED inbox
         \/ /\ next.do = "offer"
            /\ Publish(Owner[next.file])
            /\ Quiet /\ UNCHANGED <<allVars, after>>
  /\ ready' = Tail(ready)
  /\ UNCHANGED <<phone, request, partial, saved, discarded, link, wire, drops>>

(* The rest of claimNext; the offer goes out once the claim is saved. *)
Claim ==
  /\ up
  /\ \/ \E f \in Files : Saving(ClaimFile(f), Then("offer", f, 0))
     \/ ClaimNothing /\ UNCHANGED <<durable, after>>
  /\ UNCHANGED <<ready, phoneVars, link, wire, erred, drops, disturbed>>

(* enqueueLaptopEntries, for a batch that fits in one offer. *)
EnqueueLaptopEntries(t) ==
  /\ NextEvent
  /\ Saving(Enqueue(t), Activate)
  /\ UNCHANGED <<ready, phoneVars, link, wire, erred, drops, disturbed>>
-----------------------------------------------------------------------------
(* handleControl: the control that arrives next *)

Arrived(kind) == NextEvent /\ link # "down" /\ wire # <<>> /\ Head(wire).kind = kind

Handled == wire' = Tail(wire) /\ UNCHANGED <<ready, phoneVars, link, drops>>

(* The device is saved with the batch first, if it is not there yet. *)
HandleAccept ==
  LET m == Head(wire)
      t == Owner[m.file]
  IN  /\ Arrived("accept")
      /\ IF batch[t].device = NoDevice
         THEN /\ \E d \in Devices :
                   Saving(AssociateSourceDevice(t, d), Then("accept", m.file, m.offset))
              /\ Quiet
         ELSE AcceptReceiverOffset(m.file, m.offset)
      /\ Handled

HandleProgress ==
  LET m == Head(wire)
  IN  /\ Arrived("progress")
      /\ AcceptReceiverOffset(m.file, m.offset)
      /\ Handled

HandleComplete ==
  LET f == Head(wire).file
  IN  /\ Arrived("complete")
      /\ IF file[f].status \in InFlight /\ file[f].confirmed = Size[f]
         THEN Saving(Complete(f), Activate) /\ Quiet
         ELSE Throw
      /\ Handled

HandleFailed ==
  LET f == Head(wire).file
  IN  /\ Arrived("failed")
      /\ IF file[f].status \in TerminalFile
         THEN ActivateNext ELSE Saving(Fail(f), Activate)
      /\ Quiet
      /\ Handled

(* pauseTransfer; a download has no progress session to checkpoint. *)
HandlePause ==
  /\ Arrived("pause")
  /\ Saving(PauseFile(Head(wire).file), Activate)
  /\ Quiet
  /\ Handled

HandleControl ==
  HandleAccept \/ HandleProgress \/ HandleComplete \/ HandleFailed \/ HandlePause
-----------------------------------------------------------------------------
(* The GET handler *)

(* lookup: the file is in the queue, with a batch of this direction. *)
Lookup(f) == Known(Owner[f]) /\ Owner[f] \notin Uploads

(* Mutant: any offset within the file is served. *)
ServedAnywhere(f, offset) == Lookup(f) /\ (Size[f] > 0 => offset < Size[f])

(* A chunk is served at the confirmed offset only, whatever the status of  *)
(* the file.                                                               *)
Served(f, offset) ==
  /\ Lookup(f)
  /\ offset = file[f].confirmed
  /\ Size[f] > 0 => offset < Size[f]

FileAt(t, i) == CHOOSE f \in FilesOf(t) : Position[f] = i
Current == FileAt(phone.transfer, phone.at)

AnswerGet ==
  /\ NextEvent
  /\ request.reply = "asked"
  /\ request' = [request EXCEPT !.reply =
                   IF Served(Current, request.at) THEN "chunk" ELSE "refused"]
  /\ UNCHANGED <<allVars, laptopVars, inbox, phone, partial, saved, discarded>>
  /\ UNCHANGED <<link, wire, erred, drops, disturbed>>

(* The source changed or is gone, or the request timed out. *)
GetFails ==
  /\ request.reply = "asked"
  /\ drops < MaxDrops
  /\ drops' = drops + 1
  /\ disturbed' = TRUE
  /\ request' = [request EXCEPT !.reply = "refused"]
  /\ UNCHANGED <<allVars, laptopVars, inbox, phone, partial, saved, discarded>>
  /\ UNCHANGED <<link, wire, erred>>
-----------------------------------------------------------------------------
(* The phone's receiver: one offer at a time, its files in turn *)

At(pc) == phone.pc = pc

(* A control the receiver sends; without a connection it goes nowhere. *)
Send(kind, f, offset) ==
  IF link # "up" THEN UNCHANGED wire
  ELSE /\ Len(wire) < MaxWire
       /\ wire' = Append(wire, [kind |-> kind, file |-> f, offset |-> offset])

Goto(pc) == phone' = [phone EXCEPT !.pc = pc]
NextFile ==
  phone' = IF phone.at = Cardinality(FilesOf(phone.transfer))
           THEN Resting
           ELSE [phone EXCEPT !.pc = "file", !.at = @ + 1, !.offset = 0]

OnPhone == UNCHANGED <<allVars, laptopVars, link, discarded, erred, drops, disturbed>>

TakeOffer ==
  /\ At("idle") /\ inbox # <<>>
  /\ phone' = [Resting EXCEPT !.pc = "file", !.transfer = Head(inbox)]
  /\ inbox' = Tail(inbox)
  /\ UNCHANGED <<wire, request, partial, saved>> /\ OnPhone

(* Receiving is off, the network is metered or the folder is gone: every   *)
(* file of the offer is paused.                                            *)
PauseOffer ==
  LET t == Head(inbox)
      pause(i) == [kind |-> "pause", file |-> FileAt(t, i), offset |-> 0]
  IN  /\ MayPause
      /\ At("idle") /\ inbox # <<>>
      /\ wire' = wire \o [i \in 1..Cardinality(FilesOf(t)) |-> pause(i)]
      /\ Len(wire') <= MaxWire
      /\ inbox' = Tail(inbox)
      /\ UNCHANGED <<phone, request, partial, saved>> /\ OnPhone

(* The limit is a setting, read for every offer. *)
RejectFile ==
  /\ At("file") /\ Current \in Limited
  /\ Send("failed", Current, 0)
  /\ NextFile
  /\ UNCHANGED <<inbox, request, partial, saved>> /\ OnPhone

(* Receiving resumes at the length of the partial file. *)
AcceptFile ==
  LET offset == Len(partial[Current])
  IN  /\ At("file")
      /\ Send("accept", Current, offset)
      /\ phone' = [phone EXCEPT !.pc = "fetch", !.offset = offset]
      /\ UNCHANGED <<inbox, request, partial, saved>> /\ OnPhone

Ask(offset) == request' = [at |-> offset, reply |-> "asked"]

(* The loop: go on with the chunk asked for in advance, if it is the one   *)
(* that comes next, or ask for it now; or leave, with every byte there.    *)
Fetch ==
  LET f == Current
  IN  /\ At("fetch")
      /\ IF Size[f] = 0 \/ phone.offset < Size[f]
         THEN /\ IF request.reply # "none" /\ request.at = phone.offset
                 THEN UNCHANGED request ELSE Ask(phone.offset)
              /\ Goto("wait")
         ELSE Goto("hash") /\ UNCHANGED request
      /\ UNCHANGED <<inbox, wire, partial, saved>> /\ OnPhone

(* The next chunk is asked for before this one is written and confirmed.   *)
ReceiveChunk ==
  LET following == phone.offset + 1
  IN  /\ At("wait") /\ request.reply = "chunk"
      /\ IF following < Size[Current] THEN Ask(following) ELSE request' = NoRequest
      /\ Goto("write")
      /\ UNCHANGED <<inbox, wire, partial, saved>> /\ OnPhone

(* Mutant: a chunk that was not written counts as received. *)
WriteChunkLost ==
  LET f == Current
      offset == IF Size[f] = 0 THEN 0 ELSE phone.offset + 1
  IN  /\ At("write")
      /\ Send("progress", f, offset)
      /\ phone' = [phone EXCEPT !.offset = offset,
                                !.pc = IF offset < Size[f] THEN "fetch" ELSE "hash"]
      /\ UNCHANGED <<inbox, request, partial, saved>> /\ OnPhone

WriteChunk ==
  LET f == Current
      offset == IF Size[f] = 0 THEN 0 ELSE phone.offset + 1
  IN  /\ At("write")
      /\ Send("progress", f, offset)
      /\ partial' = IF Size[f] = 0 THEN partial
                    ELSE [partial EXCEPT ![f] = Append(@, phone.offset)]
      /\ phone' = [phone EXCEPT !.offset = offset,
                                !.pc = IF offset < Size[f] THEN "fetch" ELSE "hash"]
      /\ UNCHANGED <<inbox, request, saved>> /\ OnPhone

(* Mutant: the laptop is not told. *)
FailFileQuietly ==
  /\ At("wait") /\ request.reply = "refused"
  /\ request' = NoRequest
  /\ NextFile
  /\ UNCHANGED <<inbox, wire, partial, saved>> /\ OnPhone

(* receive_failed: the receiver goes on with the next file. *)
FailFile ==
  /\ At("wait") /\ request.reply = "refused"
  /\ Send("failed", Current, 0)
  /\ request' = NoRequest
  /\ NextFile
  /\ UNCHANGED <<inbox, partial, saved>> /\ OnPhone

(* The disk is full, or the bytes do not decrypt. *)
WriteFails ==
  /\ At("write")
  /\ drops < MaxDrops
  /\ drops' = drops + 1
  /\ disturbed' = TRUE
  /\ Send("failed", Current, 0)
  /\ request' = NoRequest
  /\ NextFile
  /\ UNCHANGED <<allVars, laptopVars, link, erred, inbox, partial, saved, discarded>>

(* Mutant: the file is announced before it is published. *)
VerifyAnnounced ==
  /\ At("hash")
  /\ Send("complete", Current, 0)
  /\ Goto("publish")
  /\ UNCHANGED <<inbox, request, partial, saved>> /\ OnPhone

(* The digest of the partial file is that of the offer. *)
Verify ==
  /\ At("hash")
  /\ partial[Current] = [n \in 1..Size[Current] |-> n - 1]
  /\ Goto("publish")
  /\ UNCHANGED <<inbox, wire, request, partial, saved>> /\ OnPhone

(* The bytes come to nothing: the source changed between the check of its  *)
(* date and the read of a chunk, and the digest differs, or the platform   *)
(* does not publish the file.                                              *)
SpoilFile ==
  LET f == Current
  IN  /\ \/ At("hash") /\ Size[f] > 0
         \/ At("publish")
      /\ drops < MaxDrops
      /\ drops' = drops + 1
      /\ disturbed' = TRUE
      /\ discarded' = discarded \cup {f}
      /\ partial' = [partial EXCEPT ![f] = <<>>]
      /\ Send("failed", f, 0)
      /\ IF link = "up" THEN NextFile ELSE phone' = Resting
      /\ UNCHANGED <<allVars, laptopVars, link, erred, inbox, request, saved>>

(* _finalize and publish: the partial file becomes the received file. *)
PublishFile ==
  /\ At("publish")
  /\ saved' = [saved EXCEPT ![Current] = @ + 1]
  /\ partial' = [partial EXCEPT ![Current] = <<>>]
  /\ Goto("published")
  /\ UNCHANGED <<inbox, wire, request>> /\ OnPhone

(* A receiver disposed meanwhile records the file, says nothing and ends.  *)
CompleteFile ==
  /\ At("published")
  /\ Send("complete", Current, 0)
  /\ IF link = "up" THEN NextFile ELSE phone' = Resting
  /\ UNCHANGED <<inbox, request, partial, saved>> /\ OnPhone

PhoneStep ==
  \/ TakeOffer \/ RejectFile \/ AcceptFile \/ Fetch \/ ReceiveChunk \/ WriteChunk
  \/ FailFile \/ Verify \/ PublishFile \/ CompleteFile
-----------------------------------------------------------------------------
(* Connections *)

(* dispose: the receiver stops at its next check, but for a publication    *)
(* under way; its queue of offers and its requests are gone.               *)
Dispose ==
  /\ phone' = IF phone.pc \in {"publish", "published"} THEN phone
              ELSE Resting
  /\ request' = NoRequest
  /\ inbox' = <<>>
  /\ erred' = FALSE
  /\ UNCHANGED <<partial, saved, discarded>>

(* The network drops the connection; the controls under way may be lost. *)
Drop ==
  /\ link = "up"
  /\ drops < MaxDrops
  /\ drops' = drops + 1
  /\ disturbed' = TRUE
  /\ link' = "half"
  /\ wire' \in {wire, <<>>}
  /\ Dispose
  /\ UNCHANGED <<allVars, laptopVars>>

(* An error from the Relay counts as being offline: the phone hangs up and *)
(* connects anew.                                                          *)
HangUp ==
  /\ link = "up" /\ erred
  /\ link' = "half"
  /\ Dispose
  /\ UNCHANGED <<allVars, laptopVars, wire, drops, disturbed>>

(* handleDeviceDisconnected: the close arrives, or the socket is reaped.   *)
NoticeDisconnect ==
  LET left == {f \in Files : file[f].status = "active" /\ batch[Owner[f]].device # NoDevice}
  IN  /\ NextEvent
      /\ link = "half"
      /\ link' = "down"
      /\ wire' = <<>>
      /\ IF left = {} THEN UNCHANGED <<allVars, after>>
         ELSE Saving(Fail(CHOOSE f \in left : TRUE), Nothing)
      /\ UNCHANGED <<ready, phoneVars, erred, drops, disturbed>>

(* Mutant: nothing is offered again. *)
NothingUnaccepted == {}

(* The unaccepted offer handleDeviceConnected repeats. *)
Unaccepted ==
  {t \in Transfers : /\ batch[t].device = NoDevice
                     /\ \E f \in FilesOf(t) : file[f].status = "active"}

(* The phone authenticates.  The close of an older socket of the same      *)
(* device is not reported once it has: the laptop never learns it was away. *)
Connect ==
  /\ NextEvent
  /\ link # "up" /\ At("idle")
  /\ link' = "up"
  /\ wire' = <<>>
  /\ IF Unaccepted # {}
     THEN inbox' = Append(inbox, CHOOSE t \in Unaccepted : TRUE) /\ UNCHANGED <<allVars, after>>
     ELSE ActivateNext /\ UNCHANGED inbox
  /\ UNCHANGED <<ready, phone, request, partial, saved, discarded, erred, drops, disturbed>>

(* The laptop's process stops: its connection and its saves go with it. *)
LaptopCrash ==
  /\ Crash
  /\ after' = <<>> /\ ready' = <<>>
  /\ link' = "down" /\ wire' = <<>>
  /\ disturbed' = TRUE
  /\ Dispose
  /\ UNCHANGED drops

(* cli.ts: open the queue, then start, which activates the next file. *)
LaptopRestart ==
  /\ Reopen({})
  /\ ready' = <<Activate>>
  /\ UNCHANGED <<after, phoneVars, link, wire, erred, drops, disturbed>>

LaptopStep ==
  \/ SaveDone \/ Continue \/ Claim \/ HandleControl \/ AnswerGet \/ LaptopRestart

Fault == GetFails \/ WriteFails \/ SpoilFile \/ Drop \/ LaptopCrash

DownloadNext ==
  \/ \E t \in Transfers : EnqueueLaptopEntries(t)
  \/ LaptopStep \/ PhoneStep \/ PauseOffer
  \/ HangUp \/ NoticeDisconnect \/ Connect
  \/ Fault

DownloadSpec == DownloadInit /\ [][DownloadNext]_everything

(* Both event loops run, messages arrive, and the phone reconnects.  The   *)
(* code never holds a queue call back, only the bounds do.                 *)
FairDownloadSpec ==
  /\ DownloadSpec
  /\ WF_everything(SaveDone) /\ WF_everything(Continue) /\ WF_everything(Claim)
  /\ SF_everything(HandleControl) /\ SF_everything(AnswerGet)
  /\ WF_everything(LaptopRestart)
  /\ WF_everything(PhoneStep)
  /\ WF_everything(HangUp) /\ SF_everything(Connect)
-----------------------------------------------------------------------------
Controls == {"accept", "progress", "complete", "failed", "pause"}

(* The receiver, its requests and the controls have the shape they have.  *)
DownloadTypeOK ==
  /\ DurableTypeOK
  /\ Len(after) = Len(pending)
  /\ link \in {"up", "half", "down"}
  /\ wire \in Seq([kind : Controls, file : Files, offset : Nat])
  /\ inbox \in Seq(Transfers)
  /\ request \in [at : Nat, reply : {"none", "asked", "chunk", "refused"}]
  /\ partial \in [Files -> Seq(Nat)]
  /\ saved \in [Files -> Nat]

(* The laptop never counts a byte as confirmed that the phone does not     *)
(* hold, whatever was lost, sent twice or saved before a restart, but for  *)
(* a file whose bytes were thrown away because their digest was wrong.     *)
ConfirmedIsHeld ==
  \A f \in Files \ discarded : file[f].confirmed <= Len(partial[f]) \/ saved[f] > 0

(* What the laptop records as completed the phone has published, through   *)
(* every restart, repeated offer and late control.                         *)
CompletedIsSaved ==
  \A f \in Files : file[f].status = "completed" => saved[f] > 0

(* Without a lost connection, an error or a restart no claimed file stays  *)
(* active for ever: it reaches an end, or the phone pauses it.             *)
ClaimedEnds == \A f \in Files : []<>(file[f].status # "active" \/ disturbed)

(* A claimed file of a batch no phone has accepted is offered to a phone   *)
(* in the end, through any lost connection and restart.                    *)
UnacceptedIsOffered ==
  \A f \in Files : []<>(file[f].status # "active" \/ batch[Owner[f]].device # NoDevice)

(* The download implements the promise of FileDelivery, with the laptop's  *)
(* record being the one on its disk.                                       *)
Delivery ==
  INSTANCE FileDelivery WITH
    held <- partial, copies <- saved,
    recorded <- {f \in Files : disk.file[f].status = "completed"}

DeliversFiles == Delivery!Spec

(* A chunk asked for in an undisturbed session is not refused.             *)
PrefetchIsServed == request.reply = "refused" => disturbed

(* A download survives a lost connection: its file does not stay claimed   *)
(* for ever.                                                               *)
SurvivesWifiLoss == \A f \in Files : []<>(file[f].status # "active")
=============================================================================
