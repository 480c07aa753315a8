# Vidyut: specifications, model checking and proofs

Vidyut joins an Android phone and a Linux laptop. A Relay (Bun/TypeScript, `src/relay`,
`src/transfer`) runs on the laptop, a Flutter app (`app/lib`) with a foreground service runs on
the phone. Two things cross: a *clipboard pool* where the latest payload wins, and *file
transfers* in both directions that survive disconnects and restarts. This directory models the
parts whose correctness hangs on the order of events, checks them with TLC and proves
the central ones with TLAPS.

Paths below are relative to the root of the repository; line numbers are those of the commit
the models were written from.

## 1. The system

| Part | State it keeps | Operations | Talks to |
|---|---|---|---|
| TransferQueue (`src/transfer/transfer-queue.ts`) | batches in order, files, `persistTail`, `queue.json` | enqueue, acceptOffer, claimNext, confirmProgress, beginVerification, beginFinalization, complete, fail, pause, resume, cancel, retry, expire, open | called by the coordinator and the data plane |
| Data plane (`src/transfer/laptop-data-plane.ts`) | one lock and one progress session per received file, partial files, final files | PUT of a chunk, GET of a chunk, local enqueue | queue, coordinator, file system |
| Coordinator (`src/transfer/transfer-coordinator.ts`) | the device connections | offers, acks, pause, resume, cancel, retry, connect, disconnect, activateNext | queue, locks of the data plane, Relay |
| PhoneTransferSender (`app/lib/src/transfer/phone_transfer_sender.dart`) | the history, one run per batch with its copies of the batch, turns, preparation tokens, cancellation handles | enqueue, prepare, take a turn, send, reconnect, cancel, retry, resume after a restart | PUT, control messages on a connection of its own, history |
| PhoneTransferReceiver (`.../phone_transfer_receiver.dart`) | one chain of receives, partial files | offer, download, finalize, dispose | GET, control messages, history |
| Relay server (`src/relay/relay.ts`) | sockets with their proof and sealed counters, the heartbeat | open, auth, publish, ack, control, broadcast, close, kick | phone, pool, coordinator |
| Settings (`src/relay/config.ts`, `shared-folders.ts`, `control-plane.ts`, `cli.ts`) | the secret and the folders in use, `relay.json` | start, rotate the secret, add or remove a folder | control plane, Relay server |
| RelayConnection (`app/lib/src/shared/relay_connection.dart`) | challenge, sealer, inbound and outbound chains | start, publish, send, close | Relay server, service controller |
| ServiceRelayController (`app/lib/src/foreground/service_relay_controller.dart`) | generation, timers, status, the connection and what is attached to it | sync, teardown, reconnect, watchdog, screen on, network available, stop | RelayConnection, receivers, pushers |
| PayloadPool, ClipboardSync (`src/relay/payload-pool.ts`, `clipboard-sync.ts`, `clipboard.ts`) | the current payload and its order stamp, the record of the last incoming write, the queue of the clipboard tools | publish, watch, read, write, pause | Wayland clipboard, Relay server |
| ScreenshotPushController (`app/lib/src/push/screenshot_push_controller.dart`) | the shot in processing, the one that waits, the frame held until its answer, the last stamp | event, read, encrypt, publish, republish, ack, rejection, clear | observer, RelayConnection |
| PayloadReceiver and the auto-send (`app/lib/src/receive/payload_receiver.dart`, `service_relay_controller.dart`, `clipboard_autosend`) | the frame last handled, the text last written | handle, receive, write, auto-read, share | RelayConnection, Android clipboard, a session per share |

What makes it hard:

* **Interleaving.** Everything on the laptop is one event loop, but nearly every operation awaits:
  a save, an fsync, an unlink, a link, a lock. Between two awaits any other handler runs. The queue
  has no lock; the per-file lock of the data plane covers PUTs and most controls, not all of them.
* **Crashes.** The queue's file holds whatever snapshot was saved last. The partial file, the
  final file and the snapshot are three things that change one after the other.
* **Failure.** A save may reject after memory has changed; a connection may break with a
  chunk, a confirmation or a completion in flight.
* **Echoes.** Both sides watch a clipboard they also write. Each has one record of its last write to
  tell the echo from a copy, and every stage between the two is asynchronous.
* **Timeouts.** On the phone a platform call may never return. Bounds end the wait, not the call,
  and a watchdog replaces a pass that may still wake up.

What has to be true, per component:

* *Queue*: one file moves at a time, in order; a file that is over stays over; nothing is
  verified before it is whole; no file is left where nothing will claim it; a restart recovers
  from whatever snapshot it finds; a saved completion stands.
* *Upload side*: a completed file has one copy, a failed one has none; what the phone was told is
  true; confirmed bytes are on disk; a file that is being verified has a handler; no lock is kept.
* *Service controller*: one connection at a time, of the newest pairing; an abandoned pass changes
  nothing; "connected" is never shown with nothing behind it; the phone reconnects.
* *Phone sender*: what the history calls completed is on the laptop; a batch nobody disturbs is sent; no run waits
  for ever, whatever was lost, cancelled or restarted.
* *Download side*: the laptop counts no byte the phone does not hold and records no file the phone has not
  published; a file that was recorded is not published again; a claimed file comes to an end.
* *Sessions and settings*: an honest session is never refused as forged; a secret that was rotated away opens nothing;
  the coordinator's view of the phone agrees with the sockets; what the Relay runs with is what its next start finds;
  dead and unproven sockets go.
* *Screenshots*: no shot waits without a worker; the held frame is neither lost nor held for ever; a
  stale frame never displaces a newer copy; auto-push off means off.
* *Clipboard*: no side sends back what it was sent; the phone takes a laptop copy once, and ends
  up with the newest.

`PROJECT.json` lists every component, modelled or not and why, and every hazard with the line
where it bites.

## 2. Modules

| Module | Models | Extends |
|---|---|---|
| `TransferQueue` | the queue's memory and every call that changes it | |
| `DurableQueue` | snapshots, the chain of saves, crashes, `open` with its recovery and expiry | `TransferQueue` |
| `UploadReceiver` | PUT handlers, locks, sessions, partial and final files, the controls that take the lock and those that do not | `DurableQueue` |
| `FileDelivery` | what a download promises: the chunks held, the copies published, the files recorded | |
| `PhoneDownload` | a download end to end: the coordinator and the GET handler on the laptop, the phone's receiver, the wire between them, drops and restarts | `DurableQueue`, `FileDelivery` by `INSTANCE` |
| `PhoneSender` | the phone's sender: history, preparation, turns, the upload loop with its reconnections, cancel, retry, restart | `TransferQueue` |
| `PhoneToLaptop` | the sender with the network and the laptop: offers, acceptances, PUTs, verification, disconnects | `PhoneSender` |
| `RelaySettings` | the secret, the shared folders, `relay.json` and the two requests that change them | |
| `RelaySession` | both ends of the phone's connections: handshake, seals, heartbeat, kick, what the coordinator is told | `RelaySettings` |
| `ServiceRelay` | sync passes, teardowns, timers, the connections they build | |
| `ScreenshotPush` | the phone's screenshot pipeline and its held frame, the connection it sees, the Relay's publish handler, the pool by order stamp | |
| `ClipboardSync` | both clipboards, the laptop's watcher and writer, the pool's two listeners, the replay, the phone's receiver and auto-send, both pauses | |
| `ScreenshotPushProofs` | three inductive invariants of `ScreenshotPush` and its theorems | `ScreenshotPush`, `TLAPS` |
| `RelaySessionProofs` | the inductive invariants of `RelaySettings` and `RelaySession`, the refinement between them, the counters of the seals, and their theorems | `RelaySession`, `TLAPS` |
| `DurableQueueProofs` | the inductive invariant of `TransferQueue` and its theorems; then what every snapshot is, waiting, on disk or in memory, across crashes | `DurableQueue`, `TLAPS` |
| `UploadReceiverProofs` | the lock, the refinement of `DurableQueue`, and five invariants of `UploadReceiver`: the handler of a verification, the copies, the bytes, the copies of failed files, what is announced | `UploadReceiver`, `DurableQueueProofs` |
| `PhoneDownloadProofs` | the inductive invariant of `PhoneDownload`: every claim about a chunk, wherever it is, is backed by the phone's disk; the refinement of `FileDelivery`, step by step | `PhoneDownload`, `DurableQueueProofs` |
| `PhoneToLaptopProofs` | the inductive invariant of the sender with the network and the laptop, and its theorem: what the phone calls completed was received | `PhoneToLaptop`, `TLAPS` |
| `ServiceRelayProofs` | three inductive invariants of `ServiceRelay` and its theorems | `ServiceRelay`, `TLAPS` |
| `ClipboardSyncProofs` | three inductive invariants of `ClipboardSync` and its theorems: types, what was handled, echoes | `ClipboardSync`, `TLAPS` |
| `MC*` | instances for TLC | |

### TransferQueue

The code mutates `state.batches` synchronously and only then awaits `persist`, so one call is one
action. Two calls await in the middle and are two actions each: `claimNext` awaits `expire`
(`ClaimBegin`) before it looks for a file (`ClaimFile`, `ClaimNothing`); `retry` resets
the file (`RetryBegin`), awaits the unlink of the partial file and then derives the batch
(`RetryEnd`). Other calls run in between. `deriveBatchStatus` and `touch` are part of every action
whose call ends with them (`Settle`, `SettleFile`, `Advance`).

`batch` and `file` are the records of the snapshot, by id; `order` is the order of the `batches`
array; `Position` is that of the `files` array. Sizes and offsets count chunks. `finalPath` says whether
`finalizingPath` is set. Names, digests and timings are left out: `complete` is guarded by a
digest that matches. `retry` is called by `acceptPhoneOffer` only, for one cancelled file of a
phone's offer; the model allows a failed file too, which the code of `retry` does.

### DurableQueue

`persist` takes its snapshot when it is called, and appends the save to `persistTail`: `Persist`
puts the new snapshot on `pending` in the very step that changed memory. `Save` writes the oldest
(the code renames a complete temporary file, so a save happens or does not), `SaveFails` drops it,
`Crash` drops them all and loads `disk`, `Reopen` does what `open` does: `recoverInterrupted`, its save,
`expire`, its save. `ReopenInterrupted` is a crash between these two saves. Whether the partial file
of a file found finalizing shares its inode with the final path is a parameter of recovery here;
`UploadReceiver` knows the answer.

### UploadReceiver

A handler is a `task` with a position `pc` and the number of saves it waits for. `lock[f]` is the
chain of `runExclusive`; a handler enters when it is first. A PUT goes `lock → read → opened →
written → confirmed`, or for the last chunk `→ verified → hash → name → link → complete →
completed`, with `catch` for the error path; each arrow is an await. Pause, cancel and disconnect
(`op`) go through `checkpointAnd`: they sync and confirm what was accepted, operate and clean up,
and fail the file without the lock when that throws. `Offer`, `OfferTells`, `OfferWithoutSpace`, `OfferRetries`, `Resume`,
`BatchOrder` and `ActivateNext` reach the queue without any lock, as in the code. An offer of a known transfer
publishes the completions and failures that memory has (`OfferTells`: `republishPhoneProgress`, and `acceptPhoneOffer` when there is
no room), whether their save is made, pending or rejected. `OfferWithoutSpace` fails the files of the offer's snapshot, the first at
once and each further one after the save of the one before, and tells each failure after its own save.

On disk there are, per file, a partial file (`there`, `written`, `synced`), the number of whole
`copies` under final names, and whether the partial file is a hard `link` of the newest one. `told` is what was
published to the phone since the file was last retried. A PUT may claim any offset: the phone's
side is left open, so nothing depends on a well-behaved phone.

### FileDelivery and PhoneDownload

`PhoneDownload` joins the queue with its snapshots to the laptop's coordinator (`HandleAccept` to `HandlePause`,
`Connect`, `NoticeDisconnect`), the GET of a chunk (`Served`, `AnswerGet`) and the phone's receiver (`TakeOffer` to
`CompleteFile`). The laptop is one event loop: a handler that saves leaves in `after` what its caller does
once the save is done; `SaveDone` moves that to `ready`, and no event is taken before `ready` is empty
(`NextEvent`). That is what keeps the coordinator's steps in order, and the only thing that does.

The phone's controls travel in `wire`, in order; a GET is a request of its own and may overtake them or be overtaken.
`request` is the one GET whose answer has not been used, the prefetch included: `ReceiveChunk` asks for the next
chunk before `WriteChunk` stores this one and sends its confirmation. `link` is `"half"` when the phone has lost a
connection the Relay still believes in. `Dispose` ends a receiver at its next check, but for a publication
under way, which ends by itself. `partial` and `saved` are the phone's disk, `disk` the laptop's.

`FileDelivery` says the same without wires, saves or connections: the chunks of a file come in order, a
copy is published of a whole file only, a recorded file has been published, and is not published again unless it
has one chunk or none (section 5 says how that happens). `DeliversFiles` is its `Spec` with `held <- partial`, `copies <- saved` and `recorded` the
files that are completed *on the laptop's disk*; TLC checks that every step of `PhoneDownload` is a step of
it or leaves its variables.

### PhoneSender and PhoneToLaptop

`run[t]` is the one `_runPreparation` of a batch: `connect → prepare → probe → probed → saved` per file, `turn` until its
predecessor's turn is over, then `_send`: `offer → file → handle → accept → put → putting → sent` per file, with `reconnect`
for `_acceptWithReconnect`, and `undo → undone` when a preparation was cancelled. Each arrow is an await.

The code passes whole batches about and writes them whole. The model keeps each copy: `stored` and `kept` are the
history, `local` is the `batch` of `_runPreparation`, `sending` that of `_send`, `cancelling.copy` the one of
`cancelFile`, `resuming.files` those of `resumePending`. `Write` is an `upsert` from one of them, so a stale copy takes
back what another one wrote, as it does in the code. `token`, `handle` and `cancelled` are the three ways in which a cancel reaches a run.

A run has a `session` of its own, with an `inbox` for what the laptop publishes and a `wire` of offers and cancels. `session` is `"down"`
when the connection is lost, `"closed"` after a cancel closed it. `leaked` are sessions nobody closes. A PUT is `asked`, then `held`
while the laptop verifies, then answered or lost; one that nobody waits for any more goes on in `late`.

The laptop is the queue of `TransferQueue` with the handlers of the coordinator and of the PUT route. It takes one control at
a time and a PUT in one step but for the verification: what the handlers do between their awaits is the subject of
`UploadReceiver`, and so are full disks on a known batch. `calls` are the calls of `activateNext` still to be made, `caller` is the known batch
whose offer is being handled, `leaving` are the files `handleDeviceDisconnected` is failing. `Service` says whether the foreground service
keeps the phone connected besides.

Abstracted: `republishPhoneProgress` goes through the files in the order of the batch, `Republished` in some fixed order (the sender looks for what it
awaits by file); progress is in the history with every chunk (the code writes every 4 MiB and at the end), a source that
vanishes is noticed by the next probe or when a file is opened, and a message of one session may be delayed past those of another
without bound. Pausing, and the retry of the Activity screen, are not modelled.

### RelaySettings and RelaySession

A request of the control plane changes memory, awaits its write of `relay.json` and takes effect, or takes its
change back. `writeRelayConfig` truncates the file (`OpenFile`), writes its text (`WriteFile`) and sets its mode, so that
`Torn` is what a stop in between leaves, and two writes under way at once may mix. `WriteFails` is any of the three failing: the last
leaves the new text in the file. A rotation hands over `config` itself,
which is turned into text when the write starts; a folder change hands over a copy made when it was called. `crossed` is a history
variable: a rotation began while such a copy was still to be written. One request of each kind is under way at a time; two at once are
a rotation and a folder change.

`RelaySession` adds the sockets. `CheckProof` and `Authenticate` are the two sides of the await of the proof: `checking` is the
secret it is checked against. `seal` is a key and two counters; a message is sealed under the sender's
count and opens under the receiver's (`Verdict`); `publish` and `payload` travel unsealed and count for nothing.
`socket.send` may drop an acknowledgement or a broadcast under backpressure, which the code does not look at
(`Receive`, `Broadcast`): the counter has moved on, and the connection is in `dropped`. `Closed` keeps the check that is under way, since the code goes on after it whatever became of the socket. `told` is the
last of `onDeviceConnected` and `onDeviceDisconnected`. `Cut` is a link that breaks without telling either end; the
heartbeat finds out. The phone opens one connection after the other, as `ServiceRelay` shows it does.

A step of `RelaySession` is a step of `RelaySettings` or leaves the settings alone; that is proved
(`SessionsImplementSettings`), so what holds of the settings alone holds with the sessions.

### ServiceRelay

`_sync` takes a generation (`owner`) and sets `_syncing`; a pass is at `teardown`, `settings`, `prepare` (the
clipboard pause and the watchers), `pairing` or `publish`. A teardown is a process of its own, since
a bound that runs out ends the wait and not the teardown, and `stop` starts one without a pass. A pass ends early in one of three ways, and each
costs a fault. `TimesOut` is a bound that runs out: `_sync` catches that and schedules the next pass. `Throws` is
anything else thrown by an await after the teardown: `_sync` does not catch it, so nothing is scheduled. And an event that is
`stalled` finds the pass over its 45 s: a pass is bounded by several bounds of 10 s each, and a frozen process runs no timer at all, which
is how it gets there. The watchdog replaces such a pass; the screen and the network may give it up and put none in its place (`Abandon`). A connection is a number with a
socket, the pairing it was built from, whether its receiver is disposed and whether a file is being
received. Delays are left out, so the backoff is a timer that may fire at any time.

`lost` and `overrun` are history variables. `lost`: the last pass to end was thrown out of, or given up, and left neither a timer nor a pass. If the status
then says connected, or the phone had no pairing when it was last looked up, the watchdog does nothing either (`Silenced`) until the next event. `overrun`: a
connection was built while a teardown that outlasted its bound was still running. `dispose` waits for a publication that nothing
bounds, and that teardown then closes whatever it finds in the fields.

### ScreenshotPush

The controller outlives the connections. `processing` is `_process` at its two awaits (read with
its retries, encrypt), `waiting` and `pending` are the slots of depth 1. A shot is its number, which
is the nonce of its frame too, so a verbatim republish is recognised by the pool as in the code. `link` is the
connection and the pass that rebuilds it: `torn`, `reconciled` (`_reconcileScreenshotWatcher`
ran), `connecting` (`attachSession`), `greeted` (the hello names the cap), `up`, and `refused`, `lost` or
`unreached` until the next teardown. Errors of the Relay take the connection offline, as
`_handleMessage` does.

The phone's clock is the laptop's plus `skew`. A publish carries the frame's stamp and the send time;
the Relay maps the stamp onto its own clock (`OrderTs`), transit included. `Tick` is the resolution at which two captures
are told apart, and a message is under way for at most `MaxTransit` ticks. What was sent on a connection that
ended may still arrive (`late`); answers on it do not. `LaptopCopies` stands for the laptop's
watcher, which is the subject of the other module. A retry costs a fault, delays are left out.

`answered` and `spared` are history variables: the shots the Relay answered for, and the one shot
that was in processing when the toggle went off, which the code lets through.

### ClipboardSync

A copy is a number, and a frame a copy, its origin and a stamp. `changes` are the reports of
`wl-paste --watch` not yet taken by the watch loop, which reads a chunk that may carry several; `tail` is
`exclusive` of `clipboard.ts`, shared by reads and writes; `incoming` is `lastIncoming` while its
window lasts (`WindowEnds`); `decrypting` are the `writeIncoming` nobody waits for. `Publish` is `PayloadPool.publish` with both listeners.
`Authenticate` and `LetIn` are the two sides of the await in `authenticate`, which has the payload by value.

On the phone, `Deliver` is the filter of the stream (`_shouldHandleFrame`), `receiving` the receives side by
side, `PhoneWrites` a write with the echo record; a change of the clipboard is a denial in the log, which
launches the read activity when the throttle allows, which reads what is there *then*; `AutoReadText` compares it with
the record and publishes through a session of its own (`sharing`, then `sent`).

Assumptions on timing, which the code makes too: a text that was read reaches the service in less than the
400 ms of the throttle, and the answer of a write comes before a text read after it. Copies differ in content. One clock
stamps both sides, without ties; skewed clocks are the subject of `ScreenshotPush`.

`crossed` is a history variable: a write met a change of that clipboard still to be read, a second
payload was recorded over the first, or the window ran out before the echo was read. `missed` says the phone was let in
with a payload older than the pool's. `made` and `seen` record where copies were made and what this phone process handled.

## 3. Runs

Twelve runs: eleven that pass, and one that shows where the code does not do what a document of it says. Section 5 lists further
configurations that TLC finds violated; they are kept beside the runs.

| Run | Instance | What it shows |
|---|---|---|
| `queue` | one upload of one chunk, a download of two empty files, one `claimNext` at a time, a clock of two instants | all queue invariants and action properties under every order of calls |
| `durable_queue` | one upload of one file, two snapshots waiting, two crashes, clock to 2 | whatever a crash left, nothing is in flight once `open` returns; completions are durable |
| `uploads` | one file of two chunks, two handlers, cancels and disconnects, whole-batch controls, one crash | a file being verified has its handler; what was told is true although a clean-up chose its file before |
| `upload_saves` | two handlers, two failing saves, two snapshots waiting, repeated offers, two crashes | one copy of a completed file, none of a failed one, what was told is true, every handler ends |
| `upload_pauses` | two handlers, pause, resume, disconnect, one failing save, two snapshots waiting, one crash | confirmed bytes are synced, accepted bytes are written |
| `service_relay` | two passes, two teardowns, two connections, two pairings, two faults, one request, all three triggers | the controller's invariants and that it settles |
| `screenshot_push` | three screenshots, the second over the cap, a phone two ticks ahead, three instants, two faults, one toggle or pause | the slots, the held frame, the order of the pool, the toggle; the held frame is settled |
| `clipboard_sync` | two copies, two faults, two pauses, eight stamps (without a crossing five are enough) | no echo without a crossing, a copy is applied once, the phone has handled the newest in the end |
| `phone_download` | two batches to one phone, a file of two chunks and an empty one, one lost connection or failure, one restart of the laptop | what is confirmed is held, what is completed is saved, the refinement of `FileDelivery`; a claimed file ends when nothing is disturbed, and one no phone accepted is offered in the end |
| `phone_sender` | one batch of one file of two chunks, one reconnection per loss, two troubles of any kind, no connection of the service | what is completed has arrived, every run ends, an undisturbed batch is sent |
| `relay_session` | two connections of one phone, two requests that may overlap, one failed write or stop; one message each way on the first connection and one of the Relay on the second, dropped or not | no honest session is refused, the coordinator is told the truth, a retired secret is out unless the rotation crossed a folder change, dead sockets go |
| `download_prefetch_fails` | one batch of two files, no fault | *finding*: the prefetched chunk is refused |

### Bounds

* Two handlers, two passes, two claims are what a race needs; the third only waits. `Conns`, `Passes` and
  `Downs` are reused when free, so the bound is on what exists at once, not on what ever existed.
* Two chunks give a first, a last and an offset that is neither 0 nor the size; empty and one-chunk
  files are in `queue`.
* `MaxPending = 2` is a save in progress and one behind it: every order of two snapshots and a
  crash. Where it is 1 a handler waits for the save in progress; the runs with 2 keep the orders few.
* `MaxClaims = 1` in `queue`: the first half of `claimNext` leaves nothing behind but the call itself, so a
  second pending call enables nothing the first does not. The theorems hold for any number.
* The clock needs one deadline that passes (`Lifetime = 1`), in `durable_queue` also one set after a restart.
* `MaxSuffix = 2` stands for the 10,000 names `finalizeWithoutOverwrite` tries: a name that is free and
  one that is taken.
* `MaxFaults = 2` in `service_relay`: a timeout of the pass that mends a first fault is reached.
* `service_relay` has `CONSTRAINT Unspoiled`, that is `~overrun`. `overrun` never becomes false again, three of the four
  properties except every state with it, and `AbandonedBuildsNothing` is proved without any hypothesis; so nothing that is checked is lost.
* `uploads` takes states that differ by the names of the two handlers for one (`MCSymmetry`): nothing depends on the names, and the run has no liveness.
* The runs of `UploadReceiver` have one file. `MCUploadBatch.cfg` has a batch of two, one in hand and one behind it, with disconnects and
  offers without room: `CompletedIsPublishedOnce` and `AnnouncedIsCompleted` hold there too.
* Three screenshots put one in each of the three slots. Two ticks and a transit of one let a frame be
  held longer than a message travels, and a skew of two is more than either.
* Two copies are one from each side, or two in a row, in either order; every echo needs a stamp of its own, and
  eight are more than two copies, their echoes and the echoes of those use up without a crossing.
* `MaxFaults = 2` in both: the second fault hits the recovery from the first. `MaxPauses = 2` is a pause and its end.
* `durable_queue` has two snapshots waiting and two crashes, so the second crash meets a queue that was recovered.
* `phone_download`: a chunk to lose and one to prefetch, and an empty file, whose loop differs. `MaxWire = 2` is a
  confirmation with the completion behind it; a control that finds the wire full waits, which only delays the
  phone. One drop and one crash in either order reach the second offer, the second accept and the resumption at the partial
  file. One snapshot waits at a time here: with two, `durable_queue` has the orders, and the coordinator's continuations are in order anyway.
  A batch of this run has one file; `MCDownloadBatch` has two.
* `phone_sender`: two chunks are an offset to resume from; two troubles are a loss and a loss, cancel or kill in its recovery,
  or a cancel and its retry. One reconnection (`Attempts = 1`, the code: 3) is one that fails or succeeds; more of the same follow. The clock
  stands still and the laptop stays up, which `durable_queue` and `uploads` vary. With two batches the liveness is too large for TLC:
  `MCSenderTurns.cfg` checks `SentIsReceived` and `OneSender` of two batches, with an empty file among them, and one trouble.
* `relay_session`: two connections are the old socket and the new one. `Patience = 1` heartbeat of silence (the
  code: 90 s at one per 30 s): only that it is finite matters. `MaxTalk = 1` gives a message under way in each direction on top of the
  acknowledgement and the broadcast; counters that differ by one differ. Two requests are a rotation and the change it may meet,
  or one after the other; two connections are one on the old secret and one whose proof is under check. Two constraints keep their product small:
  beside two requests there is no heartbeat, broken link or talk after the handshake (`QuietBesideTwo`), and on the second
  connection only the Relay talks, and loses a message on one of the two (`FewWords`). Talk and heartbeats are not about secrets and requests not about
  counters, and the theorems of section 4 hold without either constraint; for `OnlyLiveSocketsStay` every timer is there beside one request.

Deadlock is checked in every run but those of `ScreenshotPush` and `ClipboardSync`, which may stop when nobody copies any
more, of `PhoneDownload` and `PhoneToLaptop`, which are done when every file is, of `RelaySession`, which stops once all connections, requests and faults
are used, and of `ServiceRelay`, where a phone that was stopped, or connected with
all faults used, has nothing left to do.

The runs of `UploadReceiver` differ in what they exclude, and why: with cancels and two snapshots
waiting, a crash can find a snapshot older than an unlink that was made (`ResumableBytesAreSynced` is checked, and proved, without
cancels); batch controls are in `uploads` only, because the code leaves partial files of paused files behind on a
cancel of a whole batch, and a crash can then leave a copy. A disconnect together with a rejected save is in `upload_pauses` only, and `FailedIsNotPublished` in
`upload_saves` only, with one file: outside of that the code breaks `AnnouncedIsCompleted` and `FailedIsNotPublished` (section 5). These are listed as hazards with the line.

Each module's type invariant (`TypeOK`, `DurableTypeOK`, `UploadTypeOK`, `RelayTypeOK`, `PushTypeOK`, `ClipTypeOK`, `DownloadTypeOK`, `SenderTypeOK` (on `MCSenderTurns.cfg`),
`SessionTypeOK` with `SettingsTypeOK`) was checked by TLC on the instance of its run. Those of `TransferQueue`, `DurableQueue`,
`PhoneDownload`, `ServiceRelay`, `ScreenshotPush`, `RelaySettings` and `RelaySession` are proved as well, as parts of the invariants of section 4.

### Fairness

* `FairUploadSpec`: each handler advances and the first waiting save is made. Promises settle and file
  operations return, which is what the event loop and the kernel give. Fairness of a handler is strong because
  the bound on pending saves, which the code does not have, may disable a step again and again.
  `Crash` and failing saves are not fair, nothing needs them.
* `FairSpec` of `ServiceRelay`: the UI's command arrives, timers fire, the watchdog ticks, the awaits of passes and teardowns
  return, a publication ends; a bound that runs out, an exception and a stall are faults, which are not fair. `AuthOk` is strongly fair while no pass runs: a laptop
  that is there answers before the next tick of the watchdog often enough. Faults and requests are bounded, as
  "once they end" says.
* `FairDownloadSpec`: both event loops run, saves end, messages arrive while the link is up, a Relay that stopped is
  started again (systemd does), and the phone reconnects. `HandleControl`, `AnswerGet` and `Connect` are strongly fair: the
  bound on pending saves disables them again and again, which the code does not. Faults are not fair.
* `SendFairness`: a run, a cancel, a resumption and the laptop advance when they can: both are event loops, whose due
  callbacks run. A wait ends by its timeout once the laptop has nothing more to say to it (`Timeout`); that a wait ends while the
  laptop is at work is a trouble (`Slow`), and troubles are not fair.
* `FairSessionSpec`: the proof check of a socket ends, the timer of an unproven socket and the heartbeat fire, and a close that was sent
  arrives. Nothing is assumed of the phone.
* `FairSpec` of `ScreenshotPush`: reads and encryption end, passes run on, messages on a connection that stays up arrive, and the laptop
  lets the phone in sooner or later. Drops and failed reads are bounded by `MaxFaults`.
* `FairSpec` of `ClipboardSync`: the phone tries again until it is let in (the reconnect timer of
  `ServiceRelay`), and what is sent on a connection that stays up is delivered. Nothing is assumed of the clipboards.

## 4. Proofs

### The queue

`DurableQueueProofs` proves first, of `TransferQueue` and for any transfers, files, sizes, devices, lifetime and number of
concurrent claims:

* `TypeCorrect`, `OneFileInFlight`, `CompletedFilesAreConfirmed`, `NoQueuedFileIsStranded`, `OverMeansOver`: the
  five invariants of the run `queue`.
* `QueueInvariant`: their strengthening `IInv`.
* `EndedFilesStay` and `OldestTransferFirst`: its two action properties.

The only assumption is `QueueAssumption` (owners and positions are functions of files, positions in
a batch are distinct, sizes and the clock are natural numbers).

None of the last three is inductive alone. That a queued file is in a batch that is looked at needs the
batch's status to follow from its files, but `retry` breaks this for a while, `PauseBatch` writes
a status of its own and `expire` another one. The argument: a status is *derived* by `deriveBatchStatus`, whose
meaning (`DerivedStatusMeaning`) gives all that is needed about its own batch; an action
that does not derive either only touches the deadline or moves files and batch together
(`PauseBatch`, `Expire`, `ClaimFile`); a file that was reset but not derived is in `retrying`,
which the invariant excepts. `IInv` adds that a file is absent exactly when its batch is
(`KnownTogether`), without which a call on an unknown transfer could derive it. `OneInFlight` is kept because
`ClaimFile` looks at all files in the step that claims, and no other action
brings a file into flight. There is one lemma per action or family of actions (`SettleFileKeepsIInv` covers the nine that give one
file a new record), and `NextKeepsIInv` splits on `Next`.

### The screenshot pipeline

`ScreenshotPushProofs` proves every property of the run `screenshot_push` but the liveness one, for any
number of shots, any skew of the clocks and any bounds: `PushTypesCorrect`, `WaitingShotHasWorker`,
`HeldFrameIsKept`, `HeldShotsStayOff` and `NewerCopyIsKept`. The only assumption is `PushAssumption` (the kinds of the constants).

* *What waits, and what is held.* `PushInvariant` (`IInv`): the held shot is older than the one in processing, which is
  older than the one that waits (`SlotsInOrder`), and a stamp names one shot (`StampsNameShots`). Without the order,
  a frame that takes the slot could be an older one. The second part is why an ack clears the right frame: every
  stamp under way was given before the one of the frame being encrypted (`Given`), since `Stamp` is strictly
  increasing; so a new hold shares its stamp with nothing on the wire, and an ack with the stamp of the held frame
  says its own shot was answered for.
* *Auto-push off.* `OffHoldsLittle`: without the watcher nothing waits, and what is held or in processing is at most the
  shot that was in processing when it went off. `SendsOnlyThese` names the two steps that send.
* *The pool's order.* `TransitIsShort`: what is under way has been for at most `MaxTransit`, and so the pool's order
  is behind its payload by no more. The skew cancels out of the difference, which is the point of `orderTs`.

The last two invariants are proved under `IInv`, which gives them the types and the shots' numbers.

### The settings and the sessions

`RelaySessionProofs` is for any folders, any number of connections, requests, failed writes and restarts, and any talk. It assumes
`SettingsAssumption` and `SessionAssumption` (the kinds of the constants).

* *Settings.* `SettledIsSaved` (no run checks it: it excepts the writes that overlap or fail, which is where the code goes wrong) compares memory and file when nothing is under way, so it says nothing of the steps between.
  `SavedInv` adds what a request has made of the file at each of its positions: with no overlap and no failure the file is
  `config` until a write opens it, torn until it is written, and then the content of that request, which is
  `config` or becomes it when the request ends. `SettingsAreSaved` follows.
* *Refinement.* `SessionsImplementSettings`: `SessionSpec => SettingsSpec`, from `SessionStepsSettings`. It carries
  `SettledIsSaved` over to the whole (`SessionsSaveSettings`).
* *Gone is gone.* `SessionInv` adds the types of sockets, seals and messages and that a connection not opened yet is
  untouched (`Fresh`): a close reports the phone as gone only if no authenticated socket is left, every other step that
  adds one also tells the coordinator, and a socket that reopened could break that.
* *Retired secrets.* `RetiredSecretsAreOut` is for requests that overlap or not, and any failures and restarts. The property is about the time before a rotation
  begins between a folder change and its write (`~crossed`), which is the exception the code makes. The invariant (`SecretsInv` and `AllCurrent`) says that every open socket's
  secret is the one in use, or the one being replaced while a rotation is under way; `KickDevices` closes them all in
  the step that retires it, and a proof under check then was checked against a secret whose socket is
  closed. That a rotation issues a *new* secret (`issued`) is why a retired one never comes back, and that `config`, the file and every text on its way there hold
  none but the current one or one that is still to be used is why no restart brings it back. `MCRotationUndone.cfg` has the counterexample that `crossed` excepts.
* *Honest sessions.* `HonestSessionsAreNotRefused`: the Relay never takes the phone's message for a forgery, and the phone the Relay's only on a connection
  whose socket dropped one. `InOrder` and `UpTo` are about one direction
  of one connection: the sealed messages under way are exactly the numbers from the reader's counter up to the writer's, in
  order, because a message is counted and sent in one step and opened and counted in one; `publish` and `payload` travel between them and
  count for nothing. `Agree` says which of the three stages both ends are in (`Handshaking`, `HalfPaired`, `Conversing`), that is
  which end already has the key: the laptop first, whose acknowledgement is the first sealed message. The verdict on the first
  message under way is then never a refusal.

### The snapshots of the queue

`DurableQueueProofs` proves for any transfers, files and sizes, any number of snapshots that wait, and any number of crashes and
rejected saves, under `QueueAssumption` and `DurableAssumption`:

* `DurableInvariant` and, from it, `DurableTypeCorrect`.
* `CompletionSurvives` (`CompletionIsDurable`).
* `RecoveryReachesEveryFile`: a file in flight, in memory or in any snapshot, is in a batch that is not over. `recoverInterrupted` skips batches that are
  over, so without this a file could stay verifying for ever.
* `RestartsFreeTheQueue` (`RestartFreesTheQueue`), from it: once `open` returns nothing is in flight, in memory or on disk, whatever the crash left and
  wherever an earlier recovery was stopped.

The queue's own invariant `IInv` is not what a restart has. `retry` resets a file, awaits, and derives the batch; a snapshot taken
by another call in between has a queued file in a batch that is over, and after a crash nothing is in
`retrying` to except it. So `DurableInvariant` splits `IInv`: a part `CoreInv` (types, one file in flight, a completed file
is confirmed, a file is there when its batch is), which holds of every snapshot and is what `open` needs, and the rest, which
is *not* carried across a crash: `QueuedIsClaimable` and `TerminalBatchIsOver` are theorems of `TransferQueue` only. That a completion
is durable is a statement about a chain: `disk`, the snapshots that wait in their order and memory are such that
what one has completed the next has (`Retry` never applies to a completed file), so a save never takes a completion
back, whatever saves before it were dropped.

### Uploads

`UploadReceiverProofs` is for any transfers, files of any number of chunks, any number of handlers and snapshots that wait, and any
crashes, under the assumptions of the three modules it is about. A rejected save is possible everywhere, up to any number of them, unless the
theorem says otherwise.

* *The queue below.* `UploadsImplementQueue`: `UploadSpec => DurableSpec`. Every handler reaches the queue through its calls only, saves in the step of
  the call, and recovers the files whose inode it finds. What `DurableQueueProofs` says of the queue thus holds here.
* *The lock.* `UploadInvariant` and `OneHandlerAtATime`. `LockInv` says that the chain of a file has exactly the handlers that
  wait for it or work on it, each once, and that a handler works at its head only. It is kept because a handler joins at the end, leaves
  by `Tail` from the head, and `control_failed`, the one place that goes on after an error, is outside. Nothing below holds without it: every argument about a file
  looks at one handler.
* *A verification has its handler.* `VerificationHasItsHandler` assumes that no save was rejected so far (`failures = 0`). A file becomes
  verifying or finalizing by the call of a PUT that is then at one of the positions `Finishing`; whoever else could move the file needs
  the lock or ends it (`UnlockedCalls`). After a crash recovery reaches it. With one rejected save it is false: `MCUploadWedged.cfg`.
* *One copy.* `CompletedFilesArePublishedOnce` assumes `~BatchOrders` and allows rejected saves: a cancel of a whole batch does not take
  the lock of a file that is being finalized, and section 5 tells what follows. `CopyInv` has the reasons. There is no copy while a
  handler is before the link. While there is one, the file is finalized, failed or completed in memory, on disk and in every
  snapshot that waits (`AllFin`), since the name is saved before the link is made, so whatever a crash falls back to, recovery finds a file it compares
  inodes for or one that is over. A copy of a file that is finalized has a handler that completes or removes it, or the process is down; and a partial file that is a link is one
  of a file with a copy, so recovery completes no file that has none.
* *Bytes.* `ResumableFilesAreSynced` and `AcceptedBytesAreWritten` assume `NoCancels` and allow any crashes and rejected saves. `BytesInv`
  is about everyone who may speak of a file's bytes. The record of it in memory, on disk and in every snapshot that waits claims no
  more than memory does, and, while the file may be resumed from that record, no more than is synced (`ClaimInv`): whichever of them a
  crash leaves, the bytes are there. An open session of such a file accepts no more than is written (`SessionInv`). A PUT has its place
  in between: it receives at the offset the session accepts, its chunk is written before it is accepted and synced before it is
  confirmed (`Receives`), all of which needs the lock. The other half is about when bytes may go. A partial file is truncated when nothing of it
  is confirmed, and is removed or linked only by a PUT past its last chunk, which waited for the snapshot that says so, or after the phone was told that the file
  failed: then no record on disk or on its way there may be resumed any more (`Verifies`). The hypothesis is necessary: a retry
  removes the partial file before its own snapshot is on disk, so a crash finds the snapshot of before it (section 5).
* *Failed files.* `FailedFilesAreNotPublished` assumes `NoControls` and `SingleFiles` (batches of one file, as in the run `upload_saves`)
  and allows any number of batches, crashes and rejected saves. `CopyInv` leaves a copied file failed or completed; the point is that it cannot be failed, so
  `PublishInv` says where the record of a file with a copy is: memory, disk and every snapshot that waits call it finalized with its name, or
  completed (`Named`), and as long as one of them does not call it completed the file in progress is there, linked to the copy (`CopiesBacked`). Whatever a
  crash leaves, recovery therefore completes the file (`RestartCompletesCopied`). A PUT has waited for the snapshot with the name before it links, and for
  the one with the completion before it removes the file in progress (`PlacesSaved`); if that save rejects, its `catch` removes the copy
  while the file is finalized, and keeps it when it is completed. That nobody else fails the file meanwhile needs the hypotheses: an offer without room
  fails a file that has bytes to come, which with one file is not the one being finalized (`UnlockedSpares`); and no deadline passes,
  since the receiver's steps leave the clock alone (`DeadlinesAhead`), so expiry is outside this theorem. With two files in a batch, or with controls, it is false (section 5).
* *Announced is complete.* `AnnouncedFilesStayComplete`, under the hypotheses of the item before and with any number of rejected saves. The `catch`
  of a PUT announces a completion whose save rejected, and an offer announces whatever memory calls completed; the disk may then still call the file finalized. `AnnouncedInv` says what saves it: an announced file has its
  copy, so by `CopiesBacked` it is linked as long as the disk lags behind, and the next start completes it again.

### Downloads

`PhoneDownloadProofs` is for any transfers, files of any number of chunks, any drops, failures and
restarts, under `QueueAssumption`, `DurableAssumption` and `DownloadAssumption` (the files of a transfer are finitely many, at
positions 1, 2, ..., as `enqueue` numbers them).

* `ConfirmedChunksAreHeld`, `CompletedFilesAreSaved`, and `DownloadTypeCorrect`. The two properties compare the laptop's
  disk and the phone's; the invariant (`HeldInv`) has to say the same of everything in between. `Held(f, n)` is that the phone
  has `n` chunks of `f` (or has published it, or has thrown its bytes away, neither of which is undone), and `Backed` that the records of a snapshot claim
  no more than that. Memory and every snapshot are backed (`QueueInv`), so are the confirmations and completions on the wire and
  the continuations in `after` and `ready` (`MessageInv`), and the phone's receiver is at a position its partial file allows (`PhoneInv`). A
  crash of the laptop then needs no argument: whatever it falls back to was backed already.
* `PhoneDeliversFiles`: `DownloadSpec => DeliversFiles`. The step of `FileDelivery` that is hard to allow is
  `Publish`: a file of two chunks or more that the laptop has recorded is never published again, although offers are repeated
  and reports of an earlier reception may still be on their way. `OnceInv` is why: the phone gets its second chunk only once the laptop has confirmed
  the first, so when it announces the file, either the laptop is past the first chunk, or it knows of none, hears of exactly one at
  no time before the announcement, and refuses that. A file of one chunk needs no confirmation to be announced; TLC has
  the behaviour that publishes it twice (section 5).

### The sender

`PhoneToLaptopProofs` proves `SentArrives`: `SendSpec => []SentIsReceived`, for any devices, batches, files of any number of chunks (none
included), number of attempts and troubles, with every offer repeated, PUT answered late or never, cancel, retry and restart the model has. What the
phone's history calls completed, file or batch, is completed on the laptop. It needs no fairness, and two assumptions: `QueueAssumption`
and `SenderAssumption` (there is a device; a batch has finitely many files, at positions 1, 2, ..., as the sender numbers them).

The phone never asks whether a file has arrived. It concludes it, from an answer to an offer or from the confirmed offset of
a PUT, and then passes copies of that conclusion about. The invariant (`SentInv`) is that the claim is true at every place it can be:

* *in an answer* (`InboxInv`): one that says "complete" is right. It stays so while it waits, since a file completed on the laptop
  stays completed (each step's lemma shows that `Done` only grows). One that accepts a file accepts it before its end, because a file
  that is queued on the laptop has nothing confirmed (`LaptopInv`); the sender would otherwise go to a PUT with nothing to send;
* *in a run* (`RunOK`): the files before the current one are done, so that "no more files" means all of them. A run at `put` is
  not at the end of a file, and a reply "ok" with the size of the file as its offset comes after the verification, so `sent` needs a
  completed file;
* *in the copies* (`HistoryInv`, `CopiesInv`, `CancelInv`, `ResumeInv`): the history and the batches that `_runPreparation`, `_send`,
  `cancelFile` and `resumePending` hold. They overwrite one another whole and may be stale, so none may claim more than another; a
  stale copy loses completions and never invents one.

There is one lemma per action of the sender and of the laptop, and `NextKeeps` splits on `Next`.

### The service controller

`ServiceRelayProofs` is for any number of passes, teardowns, connections and pairings, and any faults and requests.

* `RelayTypeCorrect` and `AbandonedPassesBuildNothing` have no hypothesis beyond `RelayAssumption`.
* `OneConnectionIsOpen` and `ShownStatusIsTrue` (`ReportedIsLive`) have no other one either: awaits run into their bounds, throw or stall, teardowns outlast theirs, and all three triggers
  give passes up. What the code does not keep is excepted in the properties, by what happened and not by an assumption: both speak of the time before a connection is built beside a
  running teardown (`overrun`, `MCLateTeardown.cfg`), and `ReportedIsLive` excepts a pass that ended with nothing behind it (`lost`, `MCScreenOn.cfg`).

`RelayInv` has four parts that hold until the service is stopped (`stop` does not wait for the pass that runs) or overrun. `TeardownInv` is about ownership: a
pass in its teardown is the owner, `_syncing` says that the owner is on its way, and one teardown runs at a time, the owner's.
`ConnInv` says that an open socket is that of `connection`, that a pass builds only where nothing is left, and that a
teardown about to end finds every socket closed: only one that overran can meet an open one. `StatusInv` says that "connected" is the state of the socket that is
listened to, and is gone before a pass publishes. `MendInv` is the part that excepts `lost`: with no pass and no timer on its
way, "connected" has a connection behind it.

### The clipboards

`ClipboardSyncProofs` proves for any number of copies, frames, faults and pauses, under `ClipboardAssumption`:

* `ClipTypesHold` from `TypeInv`, which adds what `ClipTypeOK` does not say: a frame under way was stamped and is of a copy
  that was made, only the laptop's frames go to the phone and only the phone's are written on the laptop, at most one read
  is queued, and whoever waits for a read waits for something that was copied.
* `CopiesAreAppliedOnce` (`AppliedOnce`). The phone compares a payload with the *last* one handled only, so what is needed
  is an order (`HandledInv`): what was handled is not younger than the pool, than the frame `authenticate` has taken or than
  those under way, which are themselves in order. A payload that is not the last handled is then younger than all that were.
  The case that made the invariant longer is the restart of the Relay: the pool is empty then and takes any stamp, so
  whatever may be published next (a share that is connected, a frame being encrypted) has to be younger still. It is,
  because the restart ends both.
* `EchoesNeedCrossing` (`EchoNeedsCrossing`), from `EchoInv`. While nothing crossed, a copy of the phone on the laptop's clipboard that is
  not yet read has its record, and is one change, still reported or being read and never both (`LaptopEcho`); a write still queued is the one recorded, and what is read before it was made here. On the phone
  (`PhoneEcho`) a copy of the laptop is on its way to the auto-send at most once, as a denial, a launched activity or a text, and the
  record is there until that one comes. Both sides need the other's: the record is right only if the frames are (`Sided`).
  The proof never uses the throttle. What it does use of the phone is that the write's answer comes before a text
  read after it, as the model assumes.

### What is not proved

Every safety property that a passing run checks is stated by a theorem. Those of `UploadReceiver` have the hypotheses named above, outside
of which section 5 shows or tells how they fail. Only model-checked: all liveness, which is out of the prover's reach together with `ENABLED`:
`EveryTaskEnds`, `HeldIsSettled`, `SettlesOnNewestPairing`, `PhoneCatchesUp`, `ClaimedEnds`, `UnacceptedIsOffered`, `OnlyLiveSocketsStay`,
`EveryRunEnds` and `Undisturbed`.

## 5. Findings

The run whose property states what a document says, and which TLC finds violated:

* `download_prefetch_fails`: the phone asks for the next chunk when the body of this one is read, and confirms this one only
  once it is written. The laptop serves the confirmed offset and nothing else, so unless the confirmation overtakes the request
  the file fails with nothing disturbed. `docs/adr/0029-faster-phone-transfers.md:22-23` has downloads ask for the next range while the current one is written.

Configurations that are not among the runs, each of which TLC finds violated as well:

* `MCScreenOn.cfg` (`ScreenOnReconnects`): `_onScreenOn` and `_onNetworkAvailable` give a stalled pass up and return without a new one when the last status is still
  connected, as it is when the pass tore the connection down and stalled before it built the next. The watchdog then does nothing either, since it
  believes the same status. The comment on the trigger (`service_relay_controller.dart:255-256`) has it reconnect at once if not connected.
* `MCLateTeardown.cfg` (`LateCompletionsAreNoOps`): a teardown that outlasted its bound looks at no generation. It goes on after the next pass has built its
  connection, closes that one and forgets it. The comment on giving a pass up (`:303-304`) says its late completions become no-ops.
* `MCRotationUndone.cfg` (`ReplacedSecretIsOut`): a folder change copies `config` when it is called (`cli.ts:89`), a rotation
  replaces the secret in it; if the folder write ends last, `relay.json` has the secret that was rotated away, and the next start uses it.
  `docs/adr/0020-rotate-pairing-secret.md:6-8` says the secret is replaced and every phone must pair again.
* `MCSecretKept.cfg` (`SecretIsKept`): a rotation whose write rejects takes back the secret in use (`control-plane.ts:213`), not `config` and not what the file holds by then. If the text was written
  (the `chmod` behind it fails), or a later folder change writes `config`, the next start has the secret nobody paired with. `README.md:70` says the secret does not rotate across restarts.
* `MCSendersCross.cfg` (`OneSender` with the service's connection and two troubles): turns are not chained. A batch that ends
  without sending completes its own turn, which frees its successor whatever is ahead of it; the batch enqueued next, or the retry
  of that one, finds a tail that is over and sends at once, next to the batch that is being sent. `docs/specs/file-sharing.md:52` says batches are FIFO,
  `docs/adr/0008` strictly so. `MCSenderTurns.cfg` shows that one trouble without that connection is not enough.
* `MCCancelUndone.cfg` (`NothingForgotten`, one cancel of a batch of two files): the cancel and the run that undoes the preparation
  write from copies older than each other's writes, so the batch is left as `preparing` with nobody working on it until the app restarts.
* `MCLaptopHeld.cfg` (`Freed` with the service's connection, one trouble): a file the laptop has claimed for a phone that gave up, or whose
  cancel did not leave, stays active as long as the phone is connected, and every other file waits behind it.
* `MCUploadWedged.cfg` (`VerifyingHasHandler` with one failing save): `beginVerification` is outside the `try`
  (`laptop-data-plane.ts`), so if its save rejects the file stays verifying, and `claimNext` waits for it until the Relay restarts.
* `MCPausedShot.cfg` (`PausedHoldsShots`): the clipboard pause is looked at when a screenshot is taken, not when its held
  frame is sent, so a shot taken offline goes out during a pause.
* `MCOwnWrite.cfg` (`OwnWriteStays`): the echo record is cleared by the first read that matches. A copy of the user and a
  write of the phone's payload that cross give two reports and two reads of the same text, and the second is published.
* `MCWifiLoss.cfg` (`SurvivesWifiLoss`): an accepted download whose connection was lost can stay claimed for ever. When the phone is
  back before the Relay has noticed, the close of the old socket is not reported (`relay.ts`, another socket of the device is
  there), nothing fails the file and nothing offers it again, since only batches without a device are; after a restart of the laptop the same
  file is queued, claimed and offered, but never after a silent reconnect. The next file waits behind it. `docs/specs/file-sharing.md:162-163`
  lists Wi-Fi loss during a transfer among what is tested.

Behaviours of the code met while modelling that have no run of their own, because no document
rules them out in so many words, or because a hazard with a note says enough:

* *Queue.* `retry` sets its file to queued before an await and derives the batch after it: a save of any
  other call in between plus a crash leaves a queued file in a cancelled batch, never claimed and never expired.
  The unlink of a retry is not under the lock of the file.
* *Upload.* `handleUploadLocked` opens a session before it looks at the status, so a PUT that waited behind a
  cancel recreates the session the cancel cleared; after a retry the 409 names an offset whose bytes are gone. The
  disconnect cleanup may publish a failure after the completion.
* *Upload, retried.* A cancel of a whole batch takes the locks of active files only. One that finds a file in finalization
  cancels it under its handler (`transfer-coordinator.ts:527-541`); if the process stops before the handler has cleaned up, the offer of
  the phone retries the file, the unlink of the retry removes the partial file and not the copy it is linked to, and the second upload
  makes a second copy. `CompletedIsPublishedOnce` needs `BatchOrders = FALSE` for that reason. `FailedIsNotPublished` is
  about batches of one file: with two, an offer for which the disk has no room fails the file that is being finalized, which
  clears `finalizingPath`, and the handler's `catch` then leaves its copy.
* *Upload, combined.* With cancels of the whole batch and failing saves, or a disconnect and a failing save, `FailedIsNotPublished`
  and `AnnouncedIsCompleted` fail: the clean-up of the control fails a file that a handler has just published; or, the save of a completion having
  rejected, an offer or the `catch` announces it, the clean-up of a disconnect removes the partial file, and after a crash recovery finds nothing linked and fails
  the file. The runs keep these apart.
* *Download, twice.* A phone that connects while the save of a claim is pending is offered the batch by `handleDeviceConnected`, and
  again when that save is done (`transfer-coordinator.ts:48-68`, `:252-262`). The second offer may reach the phone after it has received and
  confirmed the file, and `phone_transfer_receiver.dart` does not skip what it has received. A file of two chunks or more is then refused by the
  laptop at its first confirmation; one of a single chunk is published a second time.
* *Download.* An offer of several files that is repeated starts at the first: what completed is gone through
  again, `accept` at 0 of a completed file is refused (`RangeError`), the refusal is an error to the phone, and an error takes it offline;
  an empty file is received twice. Nobody sends `transfer_resume` for a download (`docs/specs/file-sharing.md:57-58` has the phone resume).
  A confirmation is sent before the chunk is flushed.
* *Sender.* A later file that fails writes the batch of before `_send`, so files that were completed become failed
  (`docs/specs/file-sharing.md:53` and `:130` have partial success); files the laptop recorded as failed are never retried by it. A cancel
  between the last look at the token and the write of the prepared file is lost; one while the session is down never reaches the laptop, and
  the upload loop looks at no cancel; a batch cancelled in its turn still sends its offer and nothing after it (`:56` has
  the cancellation propagate to both devices). A kill between the writes of a cancel leaves the batch `preparing` for ever. A resumed batch sends
  its cancelled and failed files as well. A retry whose source is gone keeps its turn, and later batches wait for it for ever; a retry
  while the old run is ending starts nothing. The session of a preparation that fails is never closed. A connection that fails during the preparation fails
  the batch (`:65` has it queued).
* *Settings and sessions.* Two rotations at once, the first failing, restore a secret the
  second replaced (read in the code; the model has one rotation at a time). A sealed message that the Relay's socket drops under backpressure makes the phone take the next one for a forgery. A socket that closes while its proof is checked is reported as there when the check ends (`relay.ts:599`), and
  nothing reports it gone; the next connection mends it.
* *Service.* An exception other than a timeout from settings, pairing or a watcher ends a pass with nothing scheduled (`service_relay_controller.dart:574`); if the status
  still says connected, or the last pass found no pairing, only a new event of the phone or the user starts another. `stop` is not looked at by a running pass.
* *Screenshots.* `payload_too_large` names no frame and clears whatever is held. A frame held when the pairing
  changes stays encrypted with the old secret. A message of a dead connection that arrives late has its transit added to its stamp, so an
  older shot may displace a newer one.
* *Clipboard.* A phone let in while a copy is published is in neither the broadcast nor the replay (`missed`), and has
  the older payload until the next copy or reconnect (`docs/PRD.md:101` says late joiners are current). With three copies that
  keep crossing, echo chains get longer. Payloads are decrypted side by side, so an older one may be written last; a phone payload may be written over a
  laptop copy not yet read. A copy made during the phone's pause while the phone is offline is applied when it reconnects
  after the pause. A phone copy within 400 ms of another read activity is not read. `wl-paste --watch` is not started again when it exits.

## 6. Not modelled

`PROJECT.json` says for every component what is left out and why. In short:

* *Windows taken as one step*: a run of the sender that fails writes its batch and ends in one step (`SendFails`, `FailPreparation`; in the code, a retry
  between the last write and the end starts nothing), and `PhoneEnqueue` is two writes, a callback and the start of the run (a throw of the second or the third
  leaves the turn registered and no run). No property rests on either.
* *Of the uploads*: the failures that `failProgressControl` records for the active files of a batch whose own control was rejected, and two offers of the same
  transfer whose stale snapshots meet in their retries.
* *Of the settings*: more than one request of each kind at a time.
* *Of the phone's sender*: pausing by settings, digests and sizes of sources, the plugin that reads them, the journal of
  progress texts. `UploadReceiver` admits any request of it, so what the laptop promises does not rest on it.
* *Pure functions of one request*: wire formats, the authentication of HTTP requests, sealed chunks. They have tests, no state.
* *Views*: the Flutter screens, the desktop shell, telemetry, setup status, the browser of shared folders. They read.
* *One-shot I/O*: update checker, discovery, QR codes, start-up, Android plugins. Their events are inputs of the models.

## 7. Plan

The plan of the proofs is done: what the passing runs check and the prover can reach is proved. What would come next:

* Expiry in `PublishInv`: a deadline that passes while a file is being finalized, which no run has, since `UploadReceiver` does not move the clock.
* Hypotheses between `NoControls` and all controls: which of them each theorem on uploads really needs, beyond the failures section 5 tells.
