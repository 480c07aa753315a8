---------------------------- MODULE ScreenshotPush ----------------------------
(***************************************************************************)
(* How a screenshot gets from the phone's observer into the laptop's pool  *)
(* (app/lib/src/push/screenshot_push_controller.dart, with the part of the *)
(* service controller that starts, stops and attaches it, and the relay's  *)
(* publish handler).  The controller outlives the connections: one shot is *)
(* read and encrypted, one waits, and one encrypted frame is held until    *)
(* the relay answers for it.                                               *)
(*                                                                         *)
(* A shot is its number in the order of capture, which is also the nonce   *)
(* of its frame; what the picture shows is left out.  One tick of the      *)
(* clock stands for the time two captures are told apart by.               *)
(***************************************************************************)
EXTENDS Integers, Sequences

CONSTANTS
  Shots,       \* bound: the screenshots taken, 1..n
  Oversized,   \* those over the cap of this relay, under the default cap
  Attempts,    \* readAttempts
  Skews,       \* the phone's clock minus the laptop's, possible values
  MaxTime,     \* bound: ticks of the clock
  MaxTransit,  \* the ticks a message may be on its way
  MaxFaults,   \* bound: drops and failed reads
  MaxAsks      \* bound: toggles, pauses and resumes

ASSUME PushAssumption ==
  /\ Shots \subseteq Nat \ {0} /\ Oversized \subseteq Shots
  /\ Attempts \in Nat \ {0}
  /\ Skews \subseteq Int
  /\ MaxTime \in Nat /\ MaxTransit \in Nat /\ MaxFaults \in Nat /\ MaxAsks \in Nat

VARIABLES
  autoPush,    \* autoPushScreenshots, as stored
  paused,      \* the phone's clipboard pause
  command,     \* a sync command of the UI is on its way
  watching,    \* _screenshotWatching
  link,        \* the connection and the sync pass that rebuilds it
  attached,    \* a session was attached once, so _pairingSecret is set
  taken,       \* the number of the last screenshot
  processing,  \* the shot being read or encrypted
  waiting,     \* _waiting
  lastFrameTs, \* _lastFrameTs
  pending,     \* _pending
  uplink,      \* publishes under way on this connection
  late,        \* publishes under way on a connection that is gone
  downlink,    \* the relay's answers under way on this connection
  pool,        \* the pool's payload and its order stamp
  now, skew,   \* the laptop's clock, and what the phone's adds to it
  answered,    \* ghost: the shots the relay answered for
  spared,      \* ghost: the shot in processing when the toggle went off
  faults, asks

settings == <<autoPush, paused, command>>
pipeline == <<processing, waiting, lastFrameTs>>
wires == <<uplink, late, downlink>>
clock == <<now, skew>>
ghosts == <<answered, spared>>
budget == <<faults, asks>>
vars == <<settings, watching, link, attached, taken, pipeline, pending, wires, pool,
          clock, ghosts, budget>>

NoShot == [shot |-> 0, ts |-> 0]
Idle == [shot |-> 0, ts |-> 0, step |-> "idle", tries |-> 0]

Init ==
  /\ autoPush \in BOOLEAN /\ paused = FALSE /\ command = FALSE
  /\ watching = FALSE
  /\ link = "torn"      \* start() runs the first pass
  /\ attached = FALSE
  /\ taken = 0
  /\ processing = Idle /\ waiting = NoShot /\ lastFrameTs = 0
  /\ pending = NoShot
  /\ uplink = <<>> /\ late = <<>> /\ downlink = <<>>
  /\ pool = [shot |-> 0, ts |-> 0, order |-> 0]
  /\ now = 0 /\ skew \in Skews
  /\ answered = {} /\ spared = 0
  /\ faults = 0 /\ asks = 0

Ask == asks < MaxAsks /\ asks' = asks + 1 /\ UNCHANGED faults
Fault == faults < MaxFaults /\ faults' = faults + 1 /\ UNCHANGED asks
-----------------------------------------------------------------------------
(* What the user does *)

Toggle ==
  /\ Ask
  /\ autoPush' = ~autoPush /\ command' = TRUE
  /\ UNCHANGED <<paused, watching, link, attached, taken, pipeline, pending, wires, pool,
                 clock, ghosts>>

PauseOrResume ==
  /\ Ask
  /\ paused' = ~paused
  /\ UNCHANGED <<autoPush, command, watching, link, attached, taken, pipeline, pending,
                 wires, pool, clock, ghosts>>

(* The cap in force: the relay's own from its hello to the teardown. *)
TooLarge(s) == s \in Oversized /\ link \in {"greeted", "up", "refused", "lost"}

(* The pipeline's start on shot e; without a secret the shot is dropped. *)
Take(e) ==
  IF e.shot = 0 \/ ~attached
  THEN Idle
  ELSE [shot |-> e.shot, ts |-> e.ts, step |-> "read", tries |-> 1]

(* handleEvent: while a shot is processed, the newest other one waits.  One *)
(* that is too large is left out, unless its size is not known yet.        *)
HandleEvent(e) ==
  \/ TooLarge(e.shot) /\ UNCHANGED <<processing, waiting>>
  \/ processing = Idle /\ processing' = Take(e) /\ UNCHANGED waiting
  \/ processing # Idle /\ waiting' = e /\ UNCHANGED processing

(* The user takes a screenshot; only a watcher that runs reports it. *)
Capture ==
  /\ taken + 1 \in Shots
  /\ taken' = taken + 1
  /\ IF watching /\ ~paused
     THEN HandleEvent([shot |-> taken + 1, ts |-> now + skew])
     ELSE UNCHANGED <<processing, waiting>>
  /\ UNCHANGED <<settings, watching, link, attached, lastFrameTs, pending, wires, pool,
                 clock, ghosts, budget>>
-----------------------------------------------------------------------------
(* The pipeline *)

(* Mutant: a shot that cannot be read ends the pipeline. *)
FinishAlone == processing' = Idle /\ UNCHANGED waiting

(* The finally of _process: the shot that waited is handled next. *)
Finish ==
  /\ waiting' = NoShot
  /\ \/ processing' = Take(waiting)
     \/ TooLarge(waiting.shot) /\ processing' = Idle

ReadFails ==
  /\ processing.step = "read"
  /\ Fault
  /\ IF processing.tries < Attempts
     THEN processing' = [processing EXCEPT !.tries = @ + 1] /\ UNCHANGED waiting
     ELSE Finish
  /\ UNCHANGED <<settings, watching, link, attached, taken, lastFrameTs, pending, wires,
                 pool, clock, ghosts>>

(* Mutant: two shots of a burst may get the same stamp. *)
StampAsDetected(ts) == ts

(* Strictly increasing, also for shots of the same tick. *)
Stamp(ts) == IF ts <= lastFrameTs THEN lastFrameTs + 1 ELSE ts

Read ==
  /\ processing.step = "read"
  /\ IF TooLarge(processing.shot)
     THEN Finish /\ UNCHANGED lastFrameTs
     ELSE /\ lastFrameTs' = Stamp(processing.ts)
          /\ processing' = [processing EXCEPT !.ts = Stamp(processing.ts), !.step = "encrypt"]
          /\ UNCHANGED waiting
  /\ UNCHANGED <<settings, watching, link, attached, taken, pending, wires, pool, clock,
                 ghosts, budget>>

(* connection.publish stamps the send time of the phone's clock. *)
Sent(f) == Append(uplink, [shot |-> f.shot, ts |-> f.ts, sentAt |-> now + skew])

(* A shot another one waits behind is not published.  Else its frame takes *)
(* the slot, over an older one the relay has not answered for, and goes    *)
(* out when there is a connection.                                         *)
Encrypted ==
  /\ processing.step = "encrypt"
  /\ IF waiting # NoShot
     THEN UNCHANGED <<pending, uplink>>
     ELSE /\ pending' = [shot |-> processing.shot, ts |-> processing.ts]
          /\ uplink' = IF link = "up" THEN Sent(processing) ELSE uplink
  /\ Finish
  /\ UNCHANGED <<settings, watching, link, attached, taken, lastFrameTs, late, downlink,
                 pool, clock, ghosts, budget>>
-----------------------------------------------------------------------------
(* The connection and the sync pass *)

(* What was sent on a connection that ends may still get to the relay; the *)
(* relay's answers on it may not get to the phone.  Bound: one connection  *)
(* that is gone has messages under way.                                    *)
Cut ==
  /\ late' = (IF late = <<>> THEN uplink ELSE late)
  /\ uplink' = <<>> /\ downlink' = <<>>

CutAll == uplink' = <<>> /\ downlink' = <<>> /\ UNCHANGED late

Drop ==
  /\ Fault
  /\ link \in {"connecting", "greeted", "up"}
  /\ link' = IF link = "connecting" THEN "unreached" ELSE "lost"
  /\ Cut \/ CutAll
  /\ UNCHANGED <<settings, watching, attached, taken, pipeline, pending, pool, clock, ghosts>>

(* The pass that a command, a loss or an error of the relay asks for. *)
Teardown ==
  /\ link \notin {"torn", "reconciled"}
  /\ command \/ link \in {"unreached", "lost", "refused"}
  /\ link' = "torn" /\ command' = FALSE
  /\ Cut
  /\ UNCHANGED <<autoPush, paused, watching, attached, taken, pipeline, pending, pool,
                 clock, ghosts, budget>>

(* Mutant: turned off, the watcher stops, and the frame stays held. *)
ReconcileKeepsHold ==
  /\ link = "torn" /\ link' = "reconciled"
  /\ watching' = autoPush
  /\ spared' = IF autoPush THEN 0 ELSE IF watching THEN processing.shot ELSE spared
  /\ UNCHANGED <<settings, attached, taken, pipeline, pending, wires, pool, clock, answered,
                 budget>>

(* _reconcileScreenshotWatcher: turned off, what is held or waits is       *)
(* cleared; the shot being processed goes on.                              *)
Reconcile ==
  /\ link = "torn" /\ link' = "reconciled"
  /\ watching' = autoPush
  /\ spared' = IF autoPush THEN 0 ELSE IF watching THEN processing.shot ELSE spared
  /\ IF autoPush THEN UNCHANGED <<pending, waiting>> ELSE pending' = NoShot /\ waiting' = NoShot
  /\ UNCHANGED <<settings, attached, taken, processing, lastFrameTs, wires, pool, clock,
                 answered, budget>>

Attach ==
  /\ link = "reconciled" /\ link' = "connecting"
  /\ attached' = TRUE
  /\ UNCHANGED <<settings, watching, taken, pipeline, pending, wires, pool, clock, ghosts,
                 budget>>

(* The relay's hello, which names its cap. *)
Hello ==
  /\ link = "connecting" /\ link' = "greeted"
  /\ UNCHANGED <<settings, watching, attached, taken, pipeline, pending, wires, pool, clock,
                 ghosts, budget>>

(* Mutant: only a new screenshot is sent. *)
ConnectedSilent ==
  /\ link = "greeted" /\ link' = "up"
  /\ UNCHANGED <<settings, watching, attached, taken, pipeline, pending, wires, pool, clock,
                 ghosts, budget>>

(* _onStatus(connected): the held frame goes out as it is. *)
Connected ==
  /\ link = "greeted" /\ link' = "up"
  /\ uplink' = IF pending = NoShot THEN uplink ELSE Sent(pending)
  /\ UNCHANGED <<settings, watching, attached, taken, pipeline, pending, late, downlink,
                 pool, clock, ghosts, budget>>

(* _onAck clears the frame it names; a rejection, which names none, clears *)
(* whatever is held and takes the connection offline.                      *)
HearAnswer ==
  /\ link \in {"up", "refused"} /\ downlink # <<>>
  /\ downlink' = Tail(downlink)
  /\ IF Head(downlink).kind = "ack"
     THEN /\ pending' = IF Head(downlink).ts = pending.ts THEN NoShot ELSE pending
          /\ UNCHANGED link
     ELSE pending' = NoShot /\ link' = "refused"
  /\ UNCHANGED <<settings, watching, attached, taken, pipeline, uplink, late, pool, clock,
                 ghosts, budget>>
-----------------------------------------------------------------------------
(* The relay *)

(* Mutant: the phone's stamp is compared as it is. *)
OrderAsStamped(m) == m.ts

(* The stamp on the laptop's clock, the transit included. *)
OrderTs(m) == m.ts + (now - m.sentAt)

(* PayloadPool.publish, without the listeners. *)
Publish(m) ==
  IF pool.shot = m.shot \/ OrderTs(m) < pool.order
  THEN UNCHANGED pool
  ELSE pool' = [shot |-> m.shot, ts |-> m.ts, order |-> OrderTs(m)]

(* A frame over the cap is refused, any other is answered for, taken or    *)
(* stale.                                                                  *)
Answer(m) ==
  IF m.shot \in Oversized
  THEN [kind |-> "too_large", ts |-> 0]
  ELSE [kind |-> "ack", ts |-> m.ts]

Judge(m) ==
  IF m.shot \in Oversized
  THEN UNCHANGED <<pool, answered>>
  ELSE Publish(m) /\ answered' = answered \cup {m.shot}

RelayReceives ==
  /\ uplink # <<>>
  /\ uplink' = Tail(uplink)
  /\ Judge(Head(uplink))
  /\ downlink' = Append(downlink, Answer(Head(uplink)))
  /\ UNCHANGED <<settings, watching, link, attached, taken, pipeline, pending, late, clock,
                 spared, budget>>

RelayReceivesLate ==
  /\ late # <<>>
  /\ late' = Tail(late)
  /\ Judge(Head(late))
  /\ UNCHANGED <<settings, watching, link, attached, taken, pipeline, pending, uplink,
                 downlink, clock, spared, budget>>

(* A copy made on the laptop, published at once: the clipboard watcher is  *)
(* not part of this module.                                                *)
LaptopCopies ==
  /\ now >= pool.order
  /\ pool' = [shot |-> 0, ts |-> now, order |-> now]
  /\ UNCHANGED <<settings, watching, link, attached, taken, pipeline, pending, wires, clock,
                 ghosts, budget>>

UnderWay == {uplink[i] : i \in DOMAIN uplink} \cup {late[i] : i \in DOMAIN late}

Tick ==
  /\ now < MaxTime
  /\ \A m \in UnderWay : now + skew - m.sentAt < MaxTransit
  /\ now' = now + 1
  /\ UNCHANGED <<settings, watching, link, attached, taken, pipeline, pending, wires, pool,
                 skew, ghosts, budget>>
-----------------------------------------------------------------------------
Next ==
  \/ Toggle \/ PauseOrResume \/ Capture
  \/ ReadFails \/ Read \/ Encrypted
  \/ Drop \/ Teardown \/ Reconcile \/ Attach \/ Hello \/ Connected \/ HearAnswer
  \/ RelayReceives \/ RelayReceivesLate \/ LaptopCopies
  \/ Tick

Spec == Init /\ [][Next]_vars

(* Reads and encryption end, sync passes run on, messages arrive, and the  *)
(* laptop lets the phone in sooner or later.                               *)
Fairness ==
  /\ WF_vars(Read) /\ WF_vars(Encrypted)
  /\ WF_vars(Teardown) /\ WF_vars(Reconcile) /\ WF_vars(Attach) /\ WF_vars(Hello)
  /\ WF_vars(Connected)
  /\ WF_vars(RelayReceives) /\ WF_vars(RelayReceivesLate) /\ WF_vars(HearAnswer)

FairSpec == Spec /\ Fairness
-----------------------------------------------------------------------------
Frame == [shot : Shots \cup {0}, ts : Int]
Message == [shot : Shots, ts : Int, sentAt : Int]
Reply == [kind : {"ack", "too_large"}, ts : Int]
Work == [shot : Shots \cup {0}, ts : Int, step : {"idle", "read", "encrypt"}, tries : Nat]

(* The fields have their types, and nothing is under way on a connection   *)
(* that is not there.                                                      *)
PushTypeOK ==
  /\ autoPush \in BOOLEAN /\ paused \in BOOLEAN /\ command \in BOOLEAN
  /\ watching \in BOOLEAN /\ attached \in BOOLEAN
  /\ link \in {"torn", "reconciled", "connecting", "greeted", "up", "refused", "lost", "unreached"}
  /\ taken \in Nat /\ lastFrameTs \in Int
  /\ processing \in Work /\ waiting \in Frame /\ pending \in Frame
  /\ uplink \in Seq(Message) /\ late \in Seq(Message) /\ downlink \in Seq(Reply)
  /\ uplink # <<>> \/ downlink # <<>> => link \in {"up", "refused"}
  /\ pool \in [shot : Shots \cup {0}, ts : Int, order : Int]
  /\ now \in 0..MaxTime /\ skew \in Skews
  /\ answered \subseteq Shots /\ spared \in Shots \cup {0}
  /\ faults \in 0..MaxFaults /\ asks \in 0..MaxAsks

(* A screenshot waits only behind one that is processed, and behind an     *)
(* older one: no failed read or superseded frame leaves the slot stranded  *)
(* with nobody to take it (the finally of _process).                       *)
WaitingHasWorker ==
  waiting # NoShot => processing # Idle /\ processing.shot < waiting.shot

(* The held frame gives way only to a newer screenshot, to the toggle, to  *)
(* a rejection, or once the relay has answered for this very shot: an ack  *)
(* for another one, a drop or a reconnect never loses it (_onAck).         *)
HeldUntilAnswered ==
  [][pending # NoShot /\ pending' # pending =>
       \/ pending'.shot > pending.shot
       \/ pending' = NoShot /\ link = "torn" /\ ~autoPush
       \/ pending' = NoShot /\ link' = "refused"
       \/ pending' = NoShot /\ pending.shot \in answered]_vars

(* What a clock of its own says of a payload of the pool. *)
Made(p) == IF p.shot = 0 THEN p.ts ELSE p.ts - skew

(* The pool goes back in time by no more than a message may be on its way: *)
(* neither a phone clock that runs ahead nor a frame that was held while   *)
(* the phone was offline pushes out what was copied after it (publish's    *)
(* orderTs).                                                               *)
NewerCopyStays ==
  [][pool' # pool => Made(pool) <= Made(pool') + MaxTransit]_vars

(* Once the service has turned auto-push off, nothing it held and nothing  *)
(* that waited goes out, on this connection or after a reconnect: at most  *)
(* the one shot that was being read or encrypted then (clearPending).      *)
HeldStaysOff ==
  [][Len(uplink') > Len(uplink) =>
       watching \/ uplink'[Len(uplink')].shot = spared]_vars

(* Every frame that is held is answered for, replaced or cleared in the    *)
(* end, drops, rejections and reconnects notwithstanding.                  *)
HeldIsSettled == pending # NoShot ~> pending = NoShot

(* What docs/USAGE.md says of the phone's pause: screenshots are not sent  *)
(* while it lasts.  Here of a frame held when the connection comes back.   *)
PausedHoldsShots ==
  [][link = "greeted" /\ link' = "up" /\ paused => uplink' = <<>>]_vars
=============================================================================
