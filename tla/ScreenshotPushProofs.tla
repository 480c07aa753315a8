------------------------- MODULE ScreenshotPushProofs -------------------------
(* Proofs about ScreenshotPush for any number of screenshots, any caps,    *)
(* clocks and bounds.                                                      *)
EXTENDS ScreenshotPush, TLAPS

(* A held shot is older than the one in processing, which is older than    *)
(* the one that waits, and none is younger than the last one taken.        *)
SlotsInOrder ==
  /\ processing.shot = 0 <=> processing = Idle
  /\ processing # Idle => processing.step # "idle"
  /\ waiting.shot = 0 <=> waiting = NoShot
  /\ pending.shot = 0 <=> pending = NoShot
  /\ processing.shot <= taken /\ waiting.shot <= taken /\ pending.shot <= taken
  /\ pending # NoShot /\ processing # Idle => pending.shot < processing.shot

(* A stamp given before that of the frame being encrypted.                 *)
Given(ts) ==
  /\ ts <= lastFrameTs
  /\ processing.step = "encrypt" => ts < processing.ts

(* A stamp names one shot: a publish with the stamp of the held frame is   *)
(* of that frame, and an ack with it says the relay has answered for it.   *)
StampsNameShots ==
  /\ processing.step = "encrypt" => processing.ts <= lastFrameTs
  /\ pending # NoShot => Given(pending.ts)
  /\ \A i \in DOMAIN uplink :
       /\ Given(uplink[i].ts)
       /\ pending # NoShot /\ uplink[i].ts = pending.ts => uplink[i].shot = pending.shot
  /\ \A i \in DOMAIN downlink : downlink[i].kind = "ack" =>
       /\ Given(downlink[i].ts)
       /\ pending # NoShot /\ downlink[i].ts = pending.ts => pending.shot \in answered

IInv == PushTypeOK /\ WaitingHasWorker /\ SlotsInOrder /\ StampsNameShots
-----------------------------------------------------------------------------
(* The elements of a queue after a message joins or leaves it.             *)
LEMMA Joined ==
  ASSUME NEW S, NEW q \in Seq(S), NEW e \in S
  PROVE  /\ Append(q, e) \in Seq(S)
         /\ Append(q, e) # <<>>
         /\ \A i \in DOMAIN Append(q, e) :
              \/ Append(q, e)[i] = e
              \/ i \in DOMAIN q /\ Append(q, e)[i] = q[i]
  OBVIOUS

LEMMA Left ==
  ASSUME NEW S, NEW q \in Seq(S), q # <<>>
  PROVE  /\ Head(q) \in S /\ Tail(q) \in Seq(S)
         /\ 1 \in DOMAIN q /\ Head(q) = q[1]
         /\ \A i \in DOMAIN Tail(q) : i + 1 \in DOMAIN q /\ Tail(q)[i] = q[i + 1]
  OBVIOUS

(* What is published is a message.                                         *)
LEMMA Published ==
  ASSUME PushTypeOK, NEW s \in Shots, NEW t \in Int
  PROVE  [shot |-> s, ts |-> t, sentAt |-> now + skew] \in Message
  BY PushAssumption DEF PushTypeOK, Message

(* What the pipeline starts with: nothing, or the shot it was given.       *)
LEMMA TakeStarts ==
  ASSUME NEW e \in Frame
  PROVE  /\ Take(e) \in Work
         /\ \/ Take(e) = Idle
            \/ /\ Take(e) # Idle /\ Take(e).step = "read"
               /\ Take(e).shot = e.shot /\ e.shot # 0
  BY DEF Take, Frame, Work, Idle

(* Another try is for the same shot.                                       *)
LEMMA NextTry ==
  ASSUME NEW w \in Work
  PROVE  LET u == [w EXCEPT !.tries = @ + 1] IN
         u \in Work /\ u.shot = w.shot /\ u.ts = w.ts /\ u.step = w.step
  BY DEF Work

(* When a shot is done with, the one that waited is started, or none is.   *)
LEMMA FinishStarts ==
  ASSUME PushTypeOK, Finish
  PROVE  /\ processing' \in Work /\ waiting' = NoShot
         /\ \/ processing' = Idle
            \/ /\ processing' # Idle /\ processing'.step = "read"
               /\ processing'.shot = waiting.shot /\ waiting.shot # 0
<1>1. waiting \in Frame
  BY DEF PushTypeOK
<1>2. Idle \in Work
  BY DEF Idle, Work
<1>3. QED
  BY <1>1, <1>2, TakeStarts DEF Finish
-----------------------------------------------------------------------------
(* The fields keep their types, step by step.                              *)
LEMMA AsksAndCapturesKeepTypes ==
  ASSUME IInv, Toggle \/ PauseOrResume \/ Capture
  PROVE  PushTypeOK'
<1> USE PushAssumption DEF IInv
<1>1. CASE Toggle
  BY <1>1 DEF Toggle, Ask, PushTypeOK, pipeline, wires, clock, ghosts
<1>2. CASE PauseOrResume
  BY <1>2 DEF PauseOrResume, Ask, PushTypeOK, pipeline, wires, clock, ghosts
<1>3. CASE Capture
  <2> DEFINE e == [shot |-> taken + 1, ts |-> now + skew]
  <2>1. e \in Frame /\ taken' \in Nat
    BY <1>3 DEF Capture, PushTypeOK, Frame
  <2>2. processing' \in Work /\ waiting' \in Frame
    BY <1>3, <2>1, TakeStarts DEF Capture, HandleEvent, PushTypeOK
  <2>3. QED
    BY <1>3, <2>1, <2>2 DEF Capture, PushTypeOK, settings, wires, clock, ghosts, budget
<1>4. QED
  BY <1>1, <1>2, <1>3

LEMMA PipelineKeepsTypes ==
  ASSUME IInv, ReadFails \/ Read \/ Encrypted
  PROVE  PushTypeOK'
<1> USE PushAssumption DEF IInv
<1>1. NoShot \in Frame
  BY DEF NoShot, Frame
<1>2. CASE ReadFails
  <2>1. processing' \in Work /\ waiting' \in Frame
    <3>1. [processing EXCEPT !.tries = @ + 1] \in Work
      BY NextTry DEF PushTypeOK
    <3>2. QED
      BY <1>1, <1>2, <3>1, FinishStarts DEF ReadFails, PushTypeOK
  <2>2. /\ Fault
        /\ UNCHANGED <<settings, watching, link, attached, taken, lastFrameTs, pending, wires,
                       pool, clock, ghosts>>
    BY <1>2 DEF ReadFails
  <2>3. QED
    BY <2>1, <2>2 DEF Fault, PushTypeOK, settings, wires, clock, ghosts
<1>3. CASE Read
  <2>1. Stamp(processing.ts) \in Int
    BY DEF Stamp, PushTypeOK, Work
  <2>2. processing' \in Work /\ waiting' \in Frame /\ lastFrameTs' \in Int
    BY <1>1, <1>3, <2>1, FinishStarts DEF Read, PushTypeOK, Work
  <2>3. QED
    BY <1>3, <2>2 DEF Read, PushTypeOK, settings, wires, clock, ghosts, budget
<1>4. CASE Encrypted
  <2>1. processing' \in Work /\ waiting' \in Frame
    BY <1>1, <1>4, FinishStarts DEF Encrypted
  <2>2. pending' \in Frame
    BY <1>4 DEF Encrypted, PushTypeOK, Work, Frame
  <2>3. uplink' \in Seq(Message) /\ (uplink' # <<>> => uplink # <<>> \/ link = "up")
    <3> DEFINE m == [shot |-> processing.shot, ts |-> processing.ts, sentAt |-> now + skew]
    <3>1. m \in Message
      BY <1>4 DEF Encrypted, PushTypeOK, SlotsInOrder, Work, Message, Idle
    <3>2. Append(uplink, m) \in Seq(Message)
      BY <3>1, Joined DEF PushTypeOK
    <3>3. \/ uplink' = uplink
          \/ link = "up" /\ uplink' = Append(uplink, m)
      BY <1>4 DEF Encrypted, Sent
    <3>4. QED
      BY <3>2, <3>3 DEF PushTypeOK
  <2>4. QED
    BY <1>4, <2>1, <2>2, <2>3
    DEF Encrypted, PushTypeOK, settings, clock, ghosts, budget
<1>5. QED
  BY <1>2, <1>3, <1>4

LEMMA ConnectionKeepsTypes ==
  ASSUME IInv,
         Drop \/ Teardown \/ Reconcile \/ Attach \/ Hello \/ Connected \/ HearAnswer
  PROVE  PushTypeOK'
<1> USE PushAssumption DEF IInv
<1>1. NoShot \in Frame
  BY DEF NoShot, Frame
<1>2. CASE Drop
  <2>1. uplink' = <<>> /\ downlink' = <<>> /\ late' \in {uplink, late}
    BY <1>2 DEF Drop, Cut, CutAll
  <2>2. uplink' \in Seq(Message) /\ downlink' \in Seq(Reply) /\ late' \in Seq(Message)
    BY <2>1 DEF PushTypeOK
  <2>3. QED
    BY <1>2, <2>1, <2>2 DEF Drop, Fault, PushTypeOK, settings, pipeline, clock, ghosts
<1>3. CASE Teardown
  <2>1. uplink' = <<>> /\ downlink' = <<>> /\ late' \in {uplink, late}
    BY <1>3 DEF Teardown, Cut
  <2>2. uplink' \in Seq(Message) /\ downlink' \in Seq(Reply) /\ late' \in Seq(Message)
    BY <2>1 DEF PushTypeOK
  <2>3. QED
    BY <1>3, <2>1, <2>2 DEF Teardown, PushTypeOK, pipeline, clock, ghosts, budget
<1>4. CASE Reconcile
  BY <1>1, <1>4 DEF Reconcile, PushTypeOK, settings, wires, clock, budget, Work
<1>5. CASE Attach
  BY <1>5 DEF Attach, PushTypeOK, settings, pipeline, wires, clock, ghosts, budget
<1>6. CASE Hello
  BY <1>6 DEF Hello, PushTypeOK, settings, pipeline, wires, clock, ghosts, budget
<1>7. CASE Connected
  <2> DEFINE m == [shot |-> pending.shot, ts |-> pending.ts, sentAt |-> now + skew]
  <2>1. pending # NoShot => m \in Message
    BY DEF PushTypeOK, SlotsInOrder, Frame, Message
  <2>2. uplink' \in Seq(Message)
    BY <1>7, <2>1, Joined DEF Connected, Sent, PushTypeOK
  <2>3. QED
    BY <1>7, <2>2 DEF Connected, PushTypeOK, settings, pipeline, clock, ghosts, budget
<1>8. CASE HearAnswer
  <2>1. downlink' \in Seq(Reply) /\ pending' \in Frame /\ link' \in {"up", "refused"}
    BY <1>1, <1>8, Left DEF HearAnswer, PushTypeOK
  <2>2. QED
    BY <1>8, <2>1 DEF HearAnswer, PushTypeOK, settings, pipeline, clock, ghosts, budget
<1>9. QED
  BY <1>2, <1>3, <1>4, <1>5, <1>6, <1>7, <1>8

LEMMA JudgeKeepsTypes ==
  ASSUME PushTypeOK, NEW m \in Message, Judge(m)
  PROVE  /\ pool' \in [shot : Shots \cup {0}, ts : Int, order : Int]
         /\ answered' \subseteq Shots
         /\ Answer(m) \in Reply
<1>1. OrderTs(m) \in Int
  BY PushAssumption DEF OrderTs, PushTypeOK, Message
<1>2. QED
  BY <1>1 DEF Judge, Publish, Answer, Reply, PushTypeOK, Message

LEMMA RelayKeepsTypes ==
  ASSUME IInv, RelayReceives \/ RelayReceivesLate \/ LaptopCopies \/ Tick
  PROVE  PushTypeOK'
<1> USE PushAssumption DEF IInv
<1>1. CASE RelayReceives
  <2> DEFINE m == Head(uplink)
  <2>1. m \in Message /\ Tail(uplink) \in Seq(Message)
    BY <1>1, Left DEF RelayReceives, PushTypeOK
  <2>2. /\ pool' \in [shot : Shots \cup {0}, ts : Int, order : Int]
        /\ answered' \subseteq Shots
        /\ downlink' \in Seq(Reply)
    BY <1>1, <2>1, JudgeKeepsTypes, Joined DEF RelayReceives, PushTypeOK
  <2>3. QED
    BY <1>1, <2>1, <2>2
    DEF RelayReceives, PushTypeOK, settings, pipeline, clock, budget
<1>2. CASE RelayReceivesLate
  <2> DEFINE m == Head(late)
  <2>1. m \in Message /\ Tail(late) \in Seq(Message)
    BY <1>2, Left DEF RelayReceivesLate, PushTypeOK
  <2>2. /\ pool' \in [shot : Shots \cup {0}, ts : Int, order : Int]
        /\ answered' \subseteq Shots
    BY <1>2, <2>1, JudgeKeepsTypes DEF RelayReceivesLate
  <2>3. QED
    BY <1>2, <2>1, <2>2
    DEF RelayReceivesLate, PushTypeOK, settings, pipeline, clock, budget
<1>3. CASE LaptopCopies
  BY <1>3 DEF LaptopCopies, PushTypeOK, settings, pipeline, wires, clock, ghosts, budget
<1>4. CASE Tick
  BY <1>4 DEF Tick, PushTypeOK, settings, pipeline, wires, ghosts, budget
<1>5. QED
  BY <1>1, <1>2, <1>3, <1>4
-----------------------------------------------------------------------------
(* A step that leaves the slots, the stamps and the live connection alone  *)
(* keeps the invariant.                                                    *)
LEMMA QuietStepKeepsIInv ==
  ASSUME IInv, PushTypeOK', UNCHANGED <<taken, pipeline, pending, uplink, downlink, answered>>
  PROVE  IInv'
  BY DEF IInv, pipeline, WaitingHasWorker, SlotsInOrder, StampsNameShots, Given

(* The numbers in the slots.                                               *)
LEMMA SlotNumbers ==
  ASSUME IInv
  PROVE  /\ taken \in Nat /\ lastFrameTs \in Int
         /\ processing.shot \in Nat /\ processing.ts \in Int
         /\ waiting.shot \in Nat
         /\ pending.shot \in Nat /\ pending.ts \in Int
         /\ Idle.shot = 0 /\ NoShot.shot = 0
         /\ Idle.step = "idle"
<1>1. processing \in Work /\ waiting \in Frame /\ pending \in Frame
  BY DEF IInv, PushTypeOK
<1>2. \A n \in Shots \cup {0} : n \in Nat
  BY PushAssumption
<1>3. taken \in Nat /\ lastFrameTs \in Int
  BY DEF IInv, PushTypeOK
<1>4. QED
  BY <1>1, <1>2, <1>3 DEF Work, Frame, Idle, NoShot

(* The numbers on the wire.                                                *)
LEMMA WireNumbers ==
  ASSUME PushTypeOK
  PROVE  /\ \A i \in DOMAIN uplink : uplink[i].ts \in Int
         /\ \A i \in DOMAIN downlink : downlink[i].ts \in Int
<1>1. uplink \in Seq(Message) /\ downlink \in Seq(Reply)
  BY DEF PushTypeOK
<1>2. /\ \A i \in DOMAIN uplink : uplink[i] \in Message
      /\ \A i \in DOMAIN downlink : downlink[i] \in Reply
  BY <1>1
<1>3. QED
  BY <1>2 DEF Message, Reply

(* A new screenshot is younger than whatever the slots hold.               *)
LEMMA CaptureKeepsIInv ==
  ASSUME IInv, PushTypeOK', Capture
  PROVE  IInv'
<1> DEFINE e == [shot |-> taken + 1, ts |-> now + skew]
<1>1. e \in Frame /\ e.shot = taken + 1 /\ e # NoShot
  BY PushAssumption DEF IInv, Capture, PushTypeOK, Frame, NoShot
<1>2. /\ taken' = taken + 1 /\ taken \in Nat
      /\ UNCHANGED <<lastFrameTs, pending, uplink, downlink, answered>>
  BY DEF IInv, PushTypeOK, Capture, wires, ghosts
<1>3. \/ UNCHANGED <<processing, waiting>>
      \/ processing = Idle /\ processing' = Take(e) /\ UNCHANGED waiting
      \/ processing # Idle /\ waiting' = e /\ UNCHANGED processing
  BY DEF Capture, HandleEvent
<1>4. \/ processing' = processing
      \/ processing = Idle /\ processing' = Idle
      \/ /\ processing = Idle /\ processing' # Idle
         /\ processing'.step = "read" /\ processing'.shot = taken + 1
  BY <1>1, <1>3, TakeStarts
<1>5. \/ waiting' = waiting
      \/ processing # Idle /\ waiting' # NoShot /\ waiting'.shot = taken + 1
  BY <1>1, <1>3
<1>6. WaitingHasWorker'
  <2>1. WaitingHasWorker /\ SlotsInOrder
    BY DEF IInv
  <2>2. QED
    BY <1>2, <1>3, <1>4, <1>5, <2>1, SlotNumbers DEF WaitingHasWorker, SlotsInOrder
<1>7. SlotsInOrder'
  <2>1. SlotsInOrder
    BY DEF IInv
  <2>2. QED
    BY <1>2, <1>4, <1>5, <2>1, SlotNumbers DEF SlotsInOrder
<1>8. StampsNameShots'
  <2>1. StampsNameShots
    BY DEF IInv
  <2>2. QED
    BY <1>2, <1>4, <2>1, SlotNumbers DEF StampsNameShots, Given
<1>9. QED
  BY <1>6, <1>7, <1>8 DEF IInv

(* Moving on to the shot that waited, or to none, keeps the slots in       *)
(* order: whatever is held is older than the shot that is done with.       *)
LEMMA FinishKeepsOrder ==
  ASSUME IInv, processing # Idle, Finish, UNCHANGED taken,
         pending'.shot <= processing.shot, pending'.shot \in Nat,
         pending'.shot = 0 <=> pending' = NoShot
  PROVE  WaitingHasWorker' /\ SlotsInOrder'
<1>1. waiting' = NoShot /\ NoShot.shot = 0
  BY FinishStarts DEF IInv, NoShot
<1>2. \/ processing' = Idle
      \/ /\ processing' # Idle /\ processing'.step = "read"
         /\ processing'.shot = waiting.shot /\ waiting.shot # 0
  BY FinishStarts DEF IInv
<1>3. /\ processing.shot \in Nat /\ waiting.shot \in Nat /\ taken \in Nat
      /\ processing.shot <= taken /\ waiting.shot <= taken
      /\ waiting.shot # 0 => processing.shot < waiting.shot
  <2>1. WaitingHasWorker /\ SlotsInOrder
    BY DEF IInv
  <2>2. QED
    BY <2>1, SlotNumbers DEF WaitingHasWorker, SlotsInOrder
<1>4. Idle.shot = 0
  BY DEF Idle
<1>5. WaitingHasWorker'
  BY <1>1 DEF WaitingHasWorker
<1>6. SlotsInOrder'
  BY <1>1, <1>2, <1>3, <1>4 DEF SlotsInOrder
<1>7. QED
  BY <1>5, <1>6

(* A failed read ends the shot or is tried again; no stamp is given.       *)
LEMMA ReadFailsKeepsIInv ==
  ASSUME IInv, PushTypeOK', ReadFails
  PROVE  IInv'
<1>1. /\ processing # Idle /\ processing.step = "read"
      /\ UNCHANGED <<taken, lastFrameTs, pending, uplink, downlink, answered>>
  BY DEF ReadFails, Idle, wires, ghosts
<1>2. WaitingHasWorker /\ SlotsInOrder /\ StampsNameShots
  BY DEF IInv
<1>3. CASE processing.tries < Attempts
  <2>1. /\ processing'.shot = processing.shot /\ processing'.step = "read"
        /\ UNCHANGED waiting
    BY <1>3, NextTry DEF ReadFails, IInv, PushTypeOK
  <2>2. processing' # Idle
    BY <2>1 DEF Idle
  <2>3. WaitingHasWorker' /\ SlotsInOrder' /\ StampsNameShots'
    BY <1>1, <1>2, <2>1, <2>2 DEF WaitingHasWorker, SlotsInOrder, StampsNameShots, Given
  <2>4. QED
    BY <2>3 DEF IInv
<1>4. CASE ~(processing.tries < Attempts)
  <2>1. Finish
    BY <1>4 DEF ReadFails
  <2>2. pending'.shot <= processing.shot
    BY <1>1, <1>2, SlotNumbers DEF SlotsInOrder
  <2>3. WaitingHasWorker' /\ SlotsInOrder'
    BY <1>1, <1>2, <2>1, <2>2, FinishKeepsOrder, SlotNumbers DEF SlotsInOrder
  <2>4. processing'.step # "encrypt"
    BY <2>1, FinishStarts, SlotNumbers DEF IInv
  <2>5. StampsNameShots'
    BY <1>1, <1>2, <2>4 DEF StampsNameShots, Given
  <2>6. QED
    BY <2>3, <2>5 DEF IInv
<1>5. QED
  BY <1>3, <1>4

(* The stamp given on reading is above all stamps given before.            *)
LEMMA ReadKeepsIInv ==
  ASSUME IInv, PushTypeOK', Read
  PROVE  IInv'
<1>1. /\ processing # Idle /\ processing.step = "read"
      /\ UNCHANGED <<taken, pending, uplink, downlink, answered>>
  BY DEF Read, Idle, wires, ghosts
<1>2. WaitingHasWorker /\ SlotsInOrder /\ StampsNameShots
  BY DEF IInv
<1>3. CASE TooLarge(processing.shot)
  <2>1. Finish /\ UNCHANGED lastFrameTs
    BY <1>3 DEF Read
  <2>2. pending'.shot <= processing.shot
    BY <1>1, <1>2, SlotNumbers DEF SlotsInOrder
  <2>3. WaitingHasWorker' /\ SlotsInOrder'
    BY <1>1, <1>2, <2>1, <2>2, FinishKeepsOrder, SlotNumbers DEF SlotsInOrder
  <2>4. processing'.step # "encrypt"
    BY <2>1, FinishStarts, SlotNumbers DEF IInv
  <2>5. StampsNameShots'
    BY <1>1, <1>2, <2>1, <2>4 DEF StampsNameShots, Given
  <2>6. QED
    BY <2>3, <2>5 DEF IInv
<1>4. CASE ~TooLarge(processing.shot)
  <2> DEFINE t == Stamp(processing.ts)
  <2>1. t \in Int /\ t > lastFrameTs
    BY SlotNumbers DEF Stamp
  <2>2. /\ lastFrameTs' = t
        /\ processing' = [processing EXCEPT !.ts = t, !.step = "encrypt"]
        /\ UNCHANGED waiting
    BY <1>4 DEF Read
  <2>3. /\ processing'.shot = processing.shot /\ processing'.ts = t
        /\ processing'.step = "encrypt"
    <3>1. processing \in Work
      BY DEF IInv, PushTypeOK
    <3>2. QED
      BY <2>2, <3>1 DEF Work
  <2>4. processing' # Idle
    BY <2>3 DEF Idle
  <2>5. WaitingHasWorker' /\ SlotsInOrder'
    BY <1>1, <1>2, <2>2, <2>3, <2>4 DEF WaitingHasWorker, SlotsInOrder
  <2> HIDE DEF t
  <2>6. \A s \in Int : s <= lastFrameTs => s <= t /\ s < t
    BY <2>1, SlotNumbers
  <2>7. \A s \in Int : Given(s) => Given(s)'
    BY <2>2, <2>3, <2>6 DEF Given
  <2>8. PushTypeOK
    BY DEF IInv
  <2>9. StampsNameShots'
    BY <1>1, <1>2, <2>1, <2>2, <2>3, <2>7, <2>8, SlotNumbers, WireNumbers DEF StampsNameShots
  <2>10. QED
    BY <2>5, <2>9 DEF IInv
<1>5. QED
  BY <1>3, <1>4

(* The frame that takes the slot has the last stamp given, which nothing   *)
(* on the wire has yet.                                                    *)
LEMMA EncryptedKeepsIInv ==
  ASSUME IInv, PushTypeOK', Encrypted
  PROVE  IInv'
<1>1. /\ processing # Idle /\ processing.step = "encrypt" /\ Finish
      /\ UNCHANGED <<taken, lastFrameTs, downlink, answered>>
  BY DEF Encrypted, Idle, ghosts
<1>2. WaitingHasWorker /\ SlotsInOrder /\ StampsNameShots /\ PushTypeOK
  BY DEF IInv
<1>3. processing'.step # "encrypt"
  BY <1>1, FinishStarts, SlotNumbers DEF IInv
<1>4. CASE waiting # NoShot
  <2>1. UNCHANGED <<pending, uplink>>
    BY <1>4 DEF Encrypted
  <2>2. pending'.shot <= processing.shot
    BY <1>1, <1>2, <2>1, SlotNumbers DEF SlotsInOrder
  <2>3. WaitingHasWorker' /\ SlotsInOrder'
    BY <1>1, <1>2, <2>1, <2>2, FinishKeepsOrder, SlotNumbers DEF SlotsInOrder
  <2>4. StampsNameShots'
    BY <1>1, <1>2, <1>3, <2>1 DEF StampsNameShots, Given
  <2>5. QED
    BY <2>3, <2>4 DEF IInv
<1>5. CASE waiting = NoShot
  <2> DEFINE m == [shot |-> processing.shot, ts |-> processing.ts, sentAt |-> now + skew]
  <2>1. /\ pending' = [shot |-> processing.shot, ts |-> processing.ts]
        /\ uplink' = Append(uplink, m) \/ uplink' = uplink
    BY <1>5 DEF Encrypted, Sent
  <2>2. pending'.shot = processing.shot /\ pending'.ts = processing.ts
    BY <2>1
  <2>3. processing.shot # 0 /\ pending' # NoShot
    BY <1>1, <1>2, <2>2, SlotNumbers DEF SlotsInOrder
  <2>4. WaitingHasWorker' /\ SlotsInOrder'
    BY <1>1, <2>2, <2>3, FinishKeepsOrder, SlotNumbers
  <2>5. ASSUME NEW i \in DOMAIN uplink'
        PROVE  \/ uplink'[i].ts = processing.ts /\ uplink'[i].shot = processing.shot
               \/ i \in DOMAIN uplink /\ uplink'[i] = uplink[i]
    <3>1. m \in Message
      <4>1. processing \in Work
        BY <1>2 DEF PushTypeOK
      <4>2. QED
        BY <1>2, <2>3, <4>1, Published DEF Work
    <3>2. uplink \in Seq(Message)
      BY <1>2 DEF PushTypeOK
    <3>3. QED
      BY <2>1, <2>5, <3>1, <3>2, Joined
  <2>6. /\ \A i \in DOMAIN uplink : uplink[i].ts < processing.ts
        /\ \A i \in DOMAIN downlink :
             downlink[i].kind = "ack" => downlink[i].ts < processing.ts
        /\ processing.ts <= lastFrameTs
    BY <1>1, <1>2 DEF StampsNameShots, Given
  <2>7. StampsNameShots'
    BY <1>1, <1>2, <1>3, <2>2, <2>5, <2>6, SlotNumbers, WireNumbers DEF StampsNameShots, Given
  <2>8. QED
    BY <2>4, <2>7 DEF IInv
<1>6. QED
  BY <1>4, <1>5

(* Turned off, the slots are emptied; otherwise nothing moves.             *)
LEMMA ReconcileKeepsIInv ==
  ASSUME IInv, PushTypeOK', Reconcile
  PROVE  IInv'
<1>1. /\ UNCHANGED <<taken, processing, lastFrameTs, uplink, downlink, answered>>
      /\ \/ UNCHANGED <<pending, waiting>>
         \/ pending' = NoShot /\ waiting' = NoShot
  BY DEF Reconcile, wires
<1>2. WaitingHasWorker /\ SlotsInOrder /\ StampsNameShots
  BY DEF IInv
<1>3. WaitingHasWorker' /\ SlotsInOrder'
  BY <1>1, <1>2, SlotNumbers DEF WaitingHasWorker, SlotsInOrder
<1>4. StampsNameShots'
  BY <1>1, <1>2 DEF StampsNameShots, Given
<1>5. QED
  BY <1>3, <1>4 DEF IInv

(* On the wire: a step may lose or judge messages, publish the held frame  *)
(* again or let go of it.                                                  *)
LEMMA WireStepKeepsIInv ==
  ASSUME IInv, PushTypeOK', UNCHANGED <<taken, pipeline>>,
         pending' \in {pending, NoShot}, answered \subseteq answered',
         \A i \in DOMAIN uplink' :
           \/ \E j \in DOMAIN uplink : uplink'[i] = uplink[j]
           \/ /\ pending # NoShot
              /\ uplink'[i].ts = pending.ts /\ uplink'[i].shot = pending.shot,
         \A i \in DOMAIN downlink' : downlink'[i].kind = "ack" =>
           \/ \E j \in DOMAIN downlink : downlink'[i] = downlink[j]
           \/ /\ Given(downlink'[i].ts)
              /\ pending # NoShot /\ downlink'[i].ts = pending.ts => pending.shot \in answered'
  PROVE  IInv'
<1>1. UNCHANGED <<processing, waiting, lastFrameTs>>
  BY DEF pipeline
<1>2. WaitingHasWorker /\ SlotsInOrder /\ StampsNameShots
  BY DEF IInv
<1>3. WaitingHasWorker' /\ SlotsInOrder'
  BY <1>1, <1>2, SlotNumbers DEF WaitingHasWorker, SlotsInOrder
<1>4. \A i \in DOMAIN uplink' :
        /\ Given(uplink'[i].ts)
        /\ pending # NoShot /\ uplink'[i].ts = pending.ts => uplink'[i].shot = pending.shot
  BY <1>2 DEF StampsNameShots
<1>5. \A i \in DOMAIN downlink' : downlink'[i].kind = "ack" =>
        /\ Given(downlink'[i].ts)
        /\ pending # NoShot /\ downlink'[i].ts = pending.ts => pending.shot \in answered'
  BY <1>2 DEF StampsNameShots
<1>6. StampsNameShots'
  BY <1>1, <1>2, <1>4, <1>5 DEF StampsNameShots, Given
<1>7. QED
  BY <1>3, <1>6 DEF IInv

LEMMA ConnectionKeepsIInv ==
  ASSUME IInv, PushTypeOK', Drop \/ Teardown \/ Connected \/ HearAnswer
  PROVE  IInv'
<1>1. PushTypeOK
  BY DEF IInv
<1>2. CASE Drop \/ Teardown
  <2>1. uplink' = <<>> /\ downlink' = <<>> /\ UNCHANGED <<taken, pipeline, pending, answered>>
    BY <1>2 DEF Drop, Teardown, Cut, CutAll, ghosts
  <2>2. QED
    BY <2>1, WireStepKeepsIInv
<1>3. CASE Connected
  <2> DEFINE m == [shot |-> pending.shot, ts |-> pending.ts, sentAt |-> now + skew]
  <2>1. /\ UNCHANGED <<taken, pipeline, pending, downlink, answered>>
        /\ \/ uplink' = uplink
           \/ pending # NoShot /\ uplink' = Append(uplink, m)
    BY <1>3 DEF Connected, Sent, ghosts
  <2>2. pending # NoShot => m \in Message
    <3>1. pending \in Frame /\ SlotsInOrder
      BY <1>1 DEF IInv, PushTypeOK
    <3>2. QED
      BY <1>1, <3>1, Published DEF SlotsInOrder, Frame
  <2>3. uplink \in Seq(Message)
    BY <1>1 DEF PushTypeOK
  <2>4. ASSUME NEW i \in DOMAIN uplink'
        PROVE  \/ \E j \in DOMAIN uplink : uplink'[i] = uplink[j]
               \/ /\ pending # NoShot
                  /\ uplink'[i].ts = pending.ts /\ uplink'[i].shot = pending.shot
    <3>1. CASE uplink' = uplink
      BY <2>4, <3>1
    <3>2. CASE pending # NoShot /\ uplink' = Append(uplink, m)
      <4>1. \/ uplink'[i] = m
            \/ i \in DOMAIN uplink /\ uplink'[i] = uplink[i]
        BY <2>2, <2>3, <2>4, <3>2, Joined
      <4>2. m.ts = pending.ts /\ m.shot = pending.shot
        OBVIOUS
      <4>3. QED
        BY <3>2, <4>1, <4>2
    <3>3. QED
      BY <2>1, <3>1, <3>2
  <2>5. QED
    BY <2>1, <2>4, WireStepKeepsIInv
<1>4. CASE HearAnswer
  <2>1. /\ UNCHANGED <<taken, pipeline, uplink, answered>>
        /\ downlink # <<>> /\ downlink' = Tail(downlink)
        /\ pending' \in {pending, NoShot}
    BY <1>4 DEF HearAnswer, ghosts
  <2>2. ASSUME NEW i \in DOMAIN downlink'
        PROVE  \E j \in DOMAIN downlink : downlink'[i] = downlink[j]
    <3>1. downlink \in Seq(Reply)
      BY <1>1 DEF PushTypeOK
    <3>2. i + 1 \in DOMAIN downlink /\ downlink'[i] = downlink[i + 1]
      BY <2>1, <2>2, <3>1, Left
    <3>3. QED
      BY <3>2
  <2>3. QED
    BY <2>1, <2>2, WireStepKeepsIInv
<1>5. QED
  BY <1>2, <1>3, <1>4

LEMMA RelayKeepsIInv ==
  ASSUME IInv, PushTypeOK', RelayReceives \/ RelayReceivesLate
  PROVE  IInv'
<1>1. PushTypeOK /\ StampsNameShots
  BY DEF IInv
<1>2. CASE RelayReceives
  <2> DEFINE m == Head(uplink)
             a == Answer(m)
  <2>1. /\ UNCHANGED <<taken, pipeline, pending>>
        /\ uplink # <<>> /\ uplink' = Tail(uplink) /\ downlink' = Append(downlink, a)
        /\ Judge(m)
    BY <1>2 DEF RelayReceives
  <2>2. /\ m \in Message /\ 1 \in DOMAIN uplink /\ m = uplink[1]
        /\ \A i \in DOMAIN uplink' : \E j \in DOMAIN uplink : uplink'[i] = uplink[j]
    BY <1>1, <2>1, Left DEF PushTypeOK
  <2>3. /\ a \in Reply
        /\ answered \subseteq answered'
        /\ a.kind = "ack" => a.ts = m.ts /\ m.shot \in answered'
    BY <1>1, <2>1, <2>2, JudgeKeepsTypes DEF Judge, Answer
  <2>4. a.kind = "ack" =>
          /\ Given(a.ts)
          /\ pending # NoShot /\ a.ts = pending.ts => pending.shot \in answered'
    BY <1>1, <2>2, <2>3 DEF StampsNameShots
  <2> HIDE DEF a, m
  <2>5. ASSUME NEW i \in DOMAIN downlink'
        PROVE  \/ downlink'[i] = a
               \/ \E j \in DOMAIN downlink : downlink'[i] = downlink[j]
    <3>1. downlink \in Seq(Reply)
      BY <1>1 DEF PushTypeOK
    <3>2. QED
      BY <2>1, <2>3, <2>5, <3>1, Joined
  <2>6. QED
    BY <2>1, <2>2, <2>3, <2>4, <2>5, WireStepKeepsIInv
<1>3. CASE RelayReceivesLate
  <2>1. /\ UNCHANGED <<taken, pipeline, pending, uplink, downlink>>
        /\ answered \subseteq answered'
    BY <1>3 DEF RelayReceivesLate, Judge
  <2>2. QED
    BY <2>1, WireStepKeepsIInv
<1>4. QED
  BY <1>2, <1>3

LEMMA InitIInv ==
  ASSUME Init
  PROVE  IInv
<1> USE PushAssumption
<1>1. PushTypeOK
  <2>1. processing \in Work /\ waiting \in Frame /\ pending \in Frame
    BY DEF Init, Work, Frame, NoShot, Idle
  <2>2. uplink \in Seq(Message) /\ late \in Seq(Message) /\ downlink \in Seq(Reply)
    BY DEF Init
  <2>3. pool \in [shot : Shots \cup {0}, ts : Int, order : Int]
    BY DEF Init
  <2>4. /\ now \in 0..MaxTime /\ skew \in Skews /\ taken \in Nat /\ lastFrameTs \in Int
        /\ faults \in 0..MaxFaults /\ asks \in 0..MaxAsks
    BY DEF Init
  <2>5. /\ answered \subseteq Shots /\ spared \in Shots \cup {0}
        /\ uplink = <<>> /\ downlink = <<>>
    BY DEF Init
  <2>6. /\ autoPush \in BOOLEAN /\ paused \in BOOLEAN /\ command \in BOOLEAN
        /\ watching \in BOOLEAN /\ attached \in BOOLEAN /\ link = "torn"
    BY DEF Init
  <2>7. QED
    BY <2>1, <2>2, <2>3, <2>4, <2>5, <2>6 DEF PushTypeOK
<1> USE DEF Init, NoShot, Idle
<1>2. WaitingHasWorker /\ SlotsInOrder
  BY DEF WaitingHasWorker, SlotsInOrder
<1>3. StampsNameShots
  BY DEF StampsNameShots
<1>4. QED
  BY <1>1, <1>2, <1>3 DEF IInv

LEMMA NextKeepsIInv ==
  ASSUME IInv, [Next]_vars
  PROVE  IInv'
<1>1. CASE UNCHANGED vars
  <2>1. PushTypeOK'
    BY <1>1 DEF IInv, PushTypeOK, vars, settings, pipeline, wires, clock, ghosts, budget
  <2>2. QED
    BY <1>1, <2>1, QuietStepKeepsIInv DEF vars, wires, ghosts
<1>2. CASE Toggle \/ PauseOrResume
  <2>1. UNCHANGED <<taken, pipeline, pending, uplink, downlink, answered>>
    BY <1>2 DEF Toggle, PauseOrResume, wires, ghosts
  <2>2. QED
    BY <1>2, <2>1, AsksAndCapturesKeepTypes, QuietStepKeepsIInv
<1>3. CASE Capture
  BY <1>3, AsksAndCapturesKeepTypes, CaptureKeepsIInv
<1>4. CASE ReadFails
  BY <1>4, PipelineKeepsTypes, ReadFailsKeepsIInv
<1>5. CASE Read
  BY <1>5, PipelineKeepsTypes, ReadKeepsIInv
<1>6. CASE Encrypted
  BY <1>6, PipelineKeepsTypes, EncryptedKeepsIInv
<1>7. CASE Drop \/ Teardown \/ Connected \/ HearAnswer
  BY <1>7, ConnectionKeepsTypes, ConnectionKeepsIInv
<1>8. CASE Reconcile
  BY <1>8, ConnectionKeepsTypes, ReconcileKeepsIInv
<1>9. CASE Attach \/ Hello
  <2>1. UNCHANGED <<taken, pipeline, pending, uplink, downlink, answered>>
    BY <1>9 DEF Attach, Hello, wires, ghosts
  <2>2. QED
    BY <1>9, <2>1, ConnectionKeepsTypes, QuietStepKeepsIInv
<1>10. CASE RelayReceives \/ RelayReceivesLate
  BY <1>10, RelayKeepsTypes, RelayKeepsIInv
<1>11. CASE LaptopCopies \/ Tick
  <2>1. UNCHANGED <<taken, pipeline, pending, uplink, downlink, answered>>
    BY <1>11 DEF LaptopCopies, Tick, wires, ghosts
  <2>2. QED
    BY <1>11, <2>1, RelayKeepsTypes, QuietStepKeepsIInv
<1>12. QED
  BY <1>1, <1>2, <1>3, <1>4, <1>5, <1>6, <1>7, <1>8, <1>9, <1>10, <1>11 DEF Next
-----------------------------------------------------------------------------
(* The slots stay in order, and a stamp names one shot, whatever is lost,  *)
(* late or answered twice.                                                 *)
THEOREM PushInvariant == Spec => []IInv
  BY InitIInv, NextKeepsIInv, PTL DEF Spec

(* The fields have their types, and nothing is under way on a connection   *)
(* that is not there.                                                      *)
THEOREM PushTypesCorrect == Spec => []PushTypeOK
<1>1. IInv => PushTypeOK
  BY DEF IInv
<1>2. QED
  BY <1>1, PushInvariant, PTL

(* A screenshot waits only behind one that is processed, and an older one: *)
(* the finally of _process hands the slot on, however the shot ends.       *)
THEOREM WaitingShotHasWorker == Spec => []WaitingHasWorker
<1>1. IInv => WaitingHasWorker
  BY DEF IInv
<1>2. QED
  BY <1>1, PushInvariant, PTL

(* The held frame gives way only to a newer screenshot, the toggle, a      *)
(* rejection or the relay's answer for this very shot, for any number of   *)
(* shots, drops and clock readings: a stamp names one shot (_onAck).       *)
THEOREM HeldFrameIsKept == Spec => HeldUntilAnswered
<1> DEFINE Kept ==
      pending # NoShot /\ pending' # pending =>
        \/ pending'.shot > pending.shot
        \/ pending' = NoShot /\ link = "torn" /\ ~autoPush
        \/ pending' = NoShot /\ link' = "refused"
        \/ pending' = NoShot /\ pending.shot \in answered
<1>1. ASSUME IInv, Next
      PROVE  Kept
  <2> SUFFICES ASSUME pending # NoShot, pending' # pending
               PROVE  Kept
    OBVIOUS
  <2>1. CASE Encrypted
    <3>1. pending'.shot = processing.shot /\ processing # Idle
      BY <2>1 DEF Encrypted, Idle
    <3>2. QED
      BY <3>1, <1>1, SlotNumbers DEF IInv, SlotsInOrder
  <2>2. CASE Reconcile
    BY <2>2 DEF Reconcile
  <2>3. CASE HearAnswer
    <3>1. CASE Head(downlink).kind = "ack"
      <4>1. Head(downlink).ts = pending.ts /\ pending' = NoShot /\ downlink # <<>>
        BY <2>3, <3>1 DEF HearAnswer
      <4>2. 1 \in DOMAIN downlink /\ Head(downlink) = downlink[1]
        <5>1. downlink \in Seq(Reply)
          BY <1>1 DEF IInv, PushTypeOK
        <5>2. QED
          BY <4>1, <5>1, Left
      <4>3. pending.shot \in answered
        BY <1>1, <3>1, <4>1, <4>2 DEF IInv, StampsNameShots
      <4>4. QED
        BY <4>1, <4>3
    <3>2. CASE Head(downlink).kind # "ack"
      BY <2>3, <3>2 DEF HearAnswer
    <3>3. QED
      BY <3>1, <3>2
  <2>4. CASE ~Encrypted /\ ~Reconcile /\ ~HearAnswer
    BY <1>1, <2>4
    DEF Next, Toggle, PauseOrResume, Capture, ReadFails, Read, Drop, Teardown, Attach, Hello,
        Connected, RelayReceives, RelayReceivesLate, LaptopCopies, Tick
  <2>5. QED
    BY <2>1, <2>2, <2>3, <2>4
<1>2. ASSUME IInv, [Next]_vars
      PROVE  [Kept]_vars
  BY <1>1, <1>2
<1> HIDE DEF Kept
<1>3. Spec => [][Kept]_vars
  BY <1>2, PushInvariant, PTL DEF Spec
<1>4. QED
  BY <1>3 DEF Kept, HeldUntilAnswered
-----------------------------------------------------------------------------
(* With the watcher off nothing waits, and what is held or in processing   *)
(* is at most the shot that was in processing when it went off.            *)
OffHoldsLittle ==
  ~watching =>
    /\ waiting = NoShot
    /\ pending.shot \in {0, spared}
    /\ processing.shot \in {0, spared}

LEMMA FinishWhenOff ==
  ASSUME IInv, OffHoldsLittle, ~watching, Finish
  PROVE  waiting' = NoShot /\ processing'.shot = 0
<1>1. waiting = NoShot
  BY DEF OffHoldsLittle
<1>2. Take(waiting) = Idle
  BY <1>1 DEF Take, NoShot
<1>3. QED
  BY <1>2 DEF Finish, Idle

LEMMA NextKeepsOff ==
  ASSUME IInv, OffHoldsLittle, [Next]_vars
  PROVE  OffHoldsLittle'
<1>1. CASE Reconcile
  <2>1. CASE autoPush
    BY <1>1, <2>1 DEF Reconcile, OffHoldsLittle
  <2>2. CASE ~autoPush
    <3>1. pending' = NoShot /\ waiting' = NoShot /\ processing' = processing
      BY <1>1, <2>2 DEF Reconcile
    <3>2. processing.shot \in {0, spared'}
      BY <1>1, <2>2 DEF Reconcile, OffHoldsLittle
    <3>3. QED
      BY <3>1, <3>2 DEF OffHoldsLittle, NoShot
  <2>3. QED
    BY <2>1, <2>2
<1>2. ASSUME ~Reconcile
      PROVE  watching' = watching /\ spared' = spared
  BY <1>2 DEF Next, vars, ghosts, Toggle, PauseOrResume, Capture, ReadFails, Read, Encrypted,
              Drop, Teardown, Attach, Hello, Connected, HearAnswer, RelayReceives,
              RelayReceivesLate, LaptopCopies, Tick
<1>3. SUFFICES ASSUME ~Reconcile, ~watching
               PROVE  OffHoldsLittle'
  BY <1>1, <1>2 DEF OffHoldsLittle
<1>4. UNCHANGED <<watching, spared>>
  BY <1>2, <1>3
<1>5. CASE ReadFails
  <2>1. CASE processing.tries < Attempts
    <3>1. processing \in Work
      BY DEF IInv, PushTypeOK
    <3>2. processing'.shot = processing.shot /\ UNCHANGED <<waiting, pending>>
      BY <1>5, <2>1, <3>1, NextTry DEF ReadFails
    <3>3. QED
      BY <1>3, <1>4, <3>2 DEF OffHoldsLittle
  <2>2. CASE ~(processing.tries < Attempts)
    BY <1>3, <1>4, <1>5, <2>2, FinishWhenOff DEF ReadFails, OffHoldsLittle
  <2>3. QED
    BY <2>1, <2>2
<1>6. CASE Read
  <2>1. CASE TooLarge(processing.shot)
    BY <1>3, <1>4, <1>6, <2>1, FinishWhenOff DEF Read, OffHoldsLittle
  <2>2. CASE ~TooLarge(processing.shot)
    <3>1. processing \in Work
      BY DEF IInv, PushTypeOK
    <3>2. processing'.shot = processing.shot /\ UNCHANGED <<waiting, pending>>
      BY <1>6, <2>2, <3>1 DEF Read, Work
    <3>3. QED
      BY <1>3, <1>4, <3>2 DEF OffHoldsLittle
  <2>3. QED
    BY <2>1, <2>2
<1>7. CASE Encrypted
  <2>1. Finish /\ (pending' = pending \/ pending'.shot = processing.shot)
    BY <1>7 DEF Encrypted
  <2>2. QED
    BY <1>3, <1>4, <2>1, FinishWhenOff DEF OffHoldsLittle
<1>8. CASE HearAnswer
  <2>1. UNCHANGED <<processing, waiting>> /\ (pending' = pending \/ pending' = NoShot)
    BY <1>8 DEF HearAnswer, pipeline
  <2>2. QED
    BY <1>3, <1>4, <2>1 DEF OffHoldsLittle, NoShot
<1>9. CASE ~ReadFails /\ ~Read /\ ~Encrypted /\ ~HearAnswer
  <2>1. UNCHANGED <<processing, waiting, pending>>
    BY <1>3, <1>9 DEF Next, vars, pipeline, Toggle, PauseOrResume, Capture, Drop, Teardown,
                      Attach, Hello, Connected, RelayReceives, RelayReceivesLate, LaptopCopies,
                      Tick
  <2>2. QED
    BY <1>3, <1>4, <2>1 DEF OffHoldsLittle
<1>10. QED
  BY <1>5, <1>6, <1>7, <1>8, <1>9

(* Only a frame that is finished or held again is sent, and it joins the   *)
(* end of what is under way.                                               *)
LEMMA SendsOnlyThese ==
  ASSUME IInv, [Next]_vars, Len(uplink') > Len(uplink)
  PROVE  \/ Encrypted /\ processing.shot # 0 /\ uplink'[Len(uplink')].shot = processing.shot
         \/ Connected /\ pending.shot # 0 /\ uplink'[Len(uplink')].shot = pending.shot
<1>1. uplink \in Seq(Message) /\ Len(uplink) \in Nat
  BY DEF IInv, PushTypeOK
<1>2. CASE Encrypted
  <2> DEFINE m == [shot |-> processing.shot, ts |-> processing.ts, sentAt |-> now + skew]
  <2>1. uplink' = Append(uplink, m)
    BY <1>1, <1>2 DEF Encrypted, Sent
  <2>2. m.shot = processing.shot
    OBVIOUS
  <2> HIDE DEF m
  <2>3. uplink'[Len(uplink')] = m
    BY <1>1, <2>1
  <2>4. processing.shot # 0
    BY <1>2 DEF Encrypted, IInv, SlotsInOrder, Idle
  <2>5. QED
    BY <1>2, <2>2, <2>3, <2>4
<1>3. CASE Connected
  <2> DEFINE m == [shot |-> pending.shot, ts |-> pending.ts, sentAt |-> now + skew]
  <2>1. uplink' = Append(uplink, m) /\ pending # NoShot
    BY <1>1, <1>3 DEF Connected, Sent
  <2>2. m.shot = pending.shot
    OBVIOUS
  <2> HIDE DEF m
  <2>3. uplink'[Len(uplink')] = m
    BY <1>1, <2>1
  <2>4. pending.shot # 0
    BY <2>1 DEF IInv, SlotsInOrder
  <2>5. QED
    BY <1>3, <2>2, <2>3, <2>4
<1>4. CASE ~Encrypted /\ ~Connected
  <2>1. \/ uplink' = uplink
        \/ uplink' = <<>>
        \/ uplink # <<>> /\ uplink' = Tail(uplink)
    BY <1>4 DEF Next, vars, wires, Cut, CutAll, Toggle, PauseOrResume, Capture, ReadFails,
                Read, Drop, Teardown, Reconcile, Attach, Hello, HearAnswer, RelayReceives,
                RelayReceivesLate, LaptopCopies, Tick
  <2>2. Len(uplink') <= Len(uplink)
    BY <1>1, <2>1
  <2>3. QED
    BY <1>1, <2>2
<1>5. QED
  BY <1>2, <1>3, <1>4

(* Once auto-push is off, only the shot that was in processing then is     *)
(* ever sent, for any number of shots and reconnects (clearPending).       *)
THEOREM HeldShotsStayOff == Spec => HeldStaysOff
<1> DEFINE Sends == Len(uplink') > Len(uplink) =>
                      watching \/ uplink'[Len(uplink')].shot = spared
<1>1. Init => OffHoldsLittle
  BY DEF Init, OffHoldsLittle, Idle, NoShot
<1>2. Spec => []OffHoldsLittle
  BY <1>1, NextKeepsOff, PushInvariant, PTL DEF Spec
<1>3. ASSUME IInv, OffHoldsLittle, [Next]_vars
      PROVE  [Sends]_vars
  BY <1>3, SendsOnlyThese DEF OffHoldsLittle
<1> HIDE DEF Sends
<1>4. Spec => [][Sends]_vars
  BY <1>2, <1>3, PushInvariant, PTL DEF Spec
<1>5. QED
  BY <1>4 DEF Sends, HeldStaysOff
-----------------------------------------------------------------------------
(* The time a message has been on its way.                                 *)
Transit(m) == now + skew - m.sentAt

(* What is under way has not been for too long, and the pool's order is    *)
(* behind its payload by no more than that.                                *)
TransitIsShort ==
  /\ \A i \in DOMAIN uplink : Transit(uplink[i]) \in 0..MaxTransit
  /\ \A i \in DOMAIN late : Transit(late[i]) \in 0..MaxTransit
  /\ pool.order - Made(pool) \in 0..MaxTransit

(* The relay takes a message, or leaves the pool as it is.                 *)
LEMMA JudgeMovesPool ==
  ASSUME IInv, TransitIsShort, NEW m \in Message, Transit(m) \in 0..MaxTransit,
         Judge(m), UNCHANGED clock
  PROVE  /\ pool'.order - Made(pool)' \in 0..MaxTransit
         /\ pool' # pool => Made(pool) <= Made(pool)' + MaxTransit
<1> USE PushAssumption
<1>1. /\ now \in Int /\ skew \in Int /\ MaxTransit \in Int
      /\ pool.order \in Int /\ pool.ts \in Int
  BY DEF IInv, PushTypeOK
<1>2. m.shot # 0 /\ m.ts \in Int /\ m.sentAt \in Int
  BY DEF Message
<1>3. CASE UNCHANGED pool
  BY <1>3 DEF TransitIsShort, Made, clock
<1>4. CASE ~UNCHANGED pool
  <2>1. /\ pool' = [shot |-> m.shot, ts |-> m.ts, order |-> OrderTs(m)]
        /\ ~(OrderTs(m) < pool.order)
    BY <1>4 DEF Judge, Publish
  <2>2. pool'.shot # 0 /\ pool'.ts = m.ts /\ pool'.order = OrderTs(m)
    BY <1>2, <2>1
  <2>3. Made(pool)' = m.ts - skew
    BY <2>2 DEF Made, clock
  <2>4. OrderTs(m) = Made(pool)' + Transit(m) /\ Made(pool)' \in Int /\ Transit(m) \in Int
    BY <1>1, <1>2, <2>3 DEF OrderTs, Transit
  <2>5. Made(pool) \in Int
    BY <1>1 DEF Made
  <2>6. QED
    BY <1>1, <2>1, <2>2, <2>4, <2>5 DEF TransitIsShort
<1>5. QED
  BY <1>3, <1>4

(* What is sent now has not been on its way at all.                        *)
LEMMA SentIsFresh ==
  ASSUME IInv, TransitIsShort, NEW f, uplink' = Sent(f),
         [shot |-> f.shot, ts |-> f.ts, sentAt |-> now + skew] \in Message,
         UNCHANGED <<late, pool, clock>>
  PROVE  TransitIsShort'
<1> USE PushAssumption
<1> DEFINE m == [shot |-> f.shot, ts |-> f.ts, sentAt |-> now + skew]
<1>1. now \in Int /\ skew \in Int /\ uplink \in Seq(Message)
  BY DEF IInv, PushTypeOK
<1>2. m \in Message /\ uplink' = Append(uplink, m) /\ m.sentAt = now + skew
  BY DEF Sent
<1>3. Transit(m) \in 0..MaxTransit
  BY <1>1, <1>2 DEF Transit
<1> HIDE DEF m
<1>4. ASSUME NEW i \in DOMAIN uplink'
      PROVE  Transit(uplink'[i]) \in 0..MaxTransit
  BY <1>1, <1>2, <1>3, <1>4, Joined DEF TransitIsShort
<1>5. QED
  BY <1>4 DEF TransitIsShort, Transit, Made, clock

(* The pool's next payload is made no earlier than the transit before it.  *)
PoolSteps == pool' # pool => Made(pool) <= Made(pool)' + MaxTransit

LEMMA NextKeepsTransit ==
  ASSUME IInv, TransitIsShort, [Next]_vars
  PROVE  TransitIsShort' /\ PoolSteps
<1> USE PushAssumption
<1>1. /\ now \in Int /\ skew \in Int /\ pool.order \in Int /\ pool.ts \in Int
      /\ uplink \in Seq(Message) /\ late \in Seq(Message)
  BY DEF IInv, PushTypeOK
<1>2. CASE Encrypted
  <2>1. processing \in Work /\ processing.shot # 0
    BY <1>2 DEF Encrypted, IInv, PushTypeOK, SlotsInOrder, Idle
  <2>2. processing.shot \in Shots /\ processing.ts \in Int
    BY <2>1 DEF Work
  <2>3. [shot |-> processing.shot, ts |-> processing.ts, sentAt |-> now + skew] \in Message
    BY <2>2, Published DEF IInv
  <2>4. UNCHANGED <<late, pool, clock>> /\ (uplink' = uplink \/ uplink' = Sent(processing))
    BY <1>2 DEF Encrypted
  <2>5. CASE uplink' = uplink
    BY <2>4, <2>5 DEF TransitIsShort, Transit, Made, PoolSteps, clock
  <2>6. CASE uplink' = Sent(processing)
    BY <2>3, <2>4, <2>6, SentIsFresh DEF PoolSteps
  <2>7. QED
    BY <2>4, <2>5, <2>6
<1>3. CASE Connected
  <2>1. UNCHANGED <<late, pool, clock>>
    BY <1>3 DEF Connected
  <2>2. CASE pending = NoShot
    BY <1>3, <2>1, <2>2 DEF Connected, TransitIsShort, Transit, Made, PoolSteps, clock
  <2>3. CASE pending # NoShot
    <3>1. pending \in Frame /\ pending.shot # 0
      BY <2>3 DEF IInv, PushTypeOK, SlotsInOrder
    <3>2. pending.shot \in Shots /\ pending.ts \in Int
      BY <3>1 DEF Frame
    <3>3. [shot |-> pending.shot, ts |-> pending.ts, sentAt |-> now + skew] \in Message
      BY <3>2, Published DEF IInv
    <3>4. uplink' = Sent(pending)
      BY <1>3, <2>3 DEF Connected
    <3>5. QED
      BY <2>1, <3>3, <3>4, SentIsFresh DEF PoolSteps
  <2>4. QED
    BY <2>2, <2>3
<1>4. CASE RelayReceives
  <2>1. /\ uplink # <<>> /\ uplink' = Tail(uplink) /\ Judge(Head(uplink))
        /\ UNCHANGED <<late, clock>>
    BY <1>4 DEF RelayReceives
  <2>2. /\ Head(uplink) \in Message /\ Transit(Head(uplink)) \in 0..MaxTransit
        /\ \A i \in DOMAIN uplink' : i + 1 \in DOMAIN uplink /\ uplink'[i] = uplink[i + 1]
    BY <1>1, <2>1, Left DEF TransitIsShort
  <2>3. pool'.order - Made(pool)' \in 0..MaxTransit /\ PoolSteps
    BY <2>1, <2>2, JudgeMovesPool DEF PoolSteps
  <2>4. QED
    BY <2>1, <2>2, <2>3 DEF TransitIsShort, Transit, clock
<1>5. CASE RelayReceivesLate
  <2>1. /\ late # <<>> /\ late' = Tail(late) /\ Judge(Head(late))
        /\ UNCHANGED <<uplink, clock>>
    BY <1>5 DEF RelayReceivesLate
  <2>2. /\ Head(late) \in Message /\ Transit(Head(late)) \in 0..MaxTransit
        /\ \A i \in DOMAIN late' : i + 1 \in DOMAIN late /\ late'[i] = late[i + 1]
    BY <1>1, <2>1, Left DEF TransitIsShort
  <2>3. pool'.order - Made(pool)' \in 0..MaxTransit /\ PoolSteps
    BY <2>1, <2>2, JudgeMovesPool DEF PoolSteps
  <2>4. QED
    BY <2>1, <2>2, <2>3 DEF TransitIsShort, Transit, clock
<1>6. CASE LaptopCopies
  <2>1. /\ now >= pool.order /\ pool' = [shot |-> 0, ts |-> now, order |-> now]
        /\ UNCHANGED <<uplink, late, clock>>
    BY <1>6 DEF LaptopCopies, wires
  <2>2. pool'.order = now /\ Made(pool)' = now
    BY <2>1 DEF Made
  <2>3. Made(pool) \in Int
    BY <1>1 DEF Made
  <2>4. pool'.order - Made(pool)' \in 0..MaxTransit /\ PoolSteps
    BY <1>1, <2>1, <2>2, <2>3 DEF TransitIsShort, PoolSteps
  <2>5. QED
    BY <2>1, <2>4 DEF TransitIsShort, Transit, clock
<1>7. CASE Tick
  <2>1. /\ now' = now + 1 /\ UNCHANGED <<uplink, late, pool, skew>>
        /\ \A m \in UnderWay : Transit(m) < MaxTransit
    BY <1>7 DEF Tick, wires, Transit
  <2>2. ASSUME NEW m \in Message, Transit(m) \in 0..MaxTransit, Transit(m) < MaxTransit
        PROVE  (now + 1) + skew - m.sentAt \in 0..MaxTransit
    BY <1>1, <2>2 DEF Transit, Message
  <2>3. ASSUME NEW i \in DOMAIN uplink
        PROVE  (now + 1) + skew - uplink[i].sentAt \in 0..MaxTransit
    <3>1. uplink[i] \in Message /\ uplink[i] \in UnderWay
      BY <1>1, <2>3 DEF UnderWay
    <3>2. QED
      BY <2>1, <2>2, <3>1 DEF TransitIsShort
  <2>4. ASSUME NEW i \in DOMAIN late
        PROVE  (now + 1) + skew - late[i].sentAt \in 0..MaxTransit
    <3>1. late[i] \in Message /\ late[i] \in UnderWay
      BY <1>1, <2>4 DEF UnderWay
    <3>2. QED
      BY <2>1, <2>2, <3>1 DEF TransitIsShort
  <2>5. QED
    BY <2>1, <2>3, <2>4 DEF TransitIsShort, Transit, Made, PoolSteps
<1>8. CASE ~Encrypted /\ ~Connected /\ ~RelayReceives /\ ~RelayReceivesLate /\ ~LaptopCopies /\ ~Tick
  <2>1. /\ UNCHANGED <<pool, now, skew>>
        /\ uplink' \in {uplink, <<>>} /\ late' \in {uplink, late}
    BY <1>8 DEF Next, vars, wires, clock, Cut, CutAll, Toggle, PauseOrResume, Capture, ReadFails,
                Read, Drop, Teardown, Reconcile, Attach, Hello, HearAnswer
  <2>2. QED
    BY <2>1 DEF TransitIsShort, Transit, Made, PoolSteps
<1>9. QED
  BY <1>2, <1>3, <1>4, <1>5, <1>6, <1>7, <1>8

(* The pool goes back in time by no more than a message may be on its way, *)
(* for any clocks and any number of messages (publish's orderTs).          *)
THEOREM NewerCopyIsKept == Spec => NewerCopyStays
<1> DEFINE Steps == pool' # pool => Made(pool) <= Made(pool') + MaxTransit
<1>1. Init => TransitIsShort
  <2>1. ASSUME Init
        PROVE  /\ DOMAIN uplink = {} /\ DOMAIN late = {}
               /\ pool.order = 0 /\ Made(pool) = 0
    BY <2>1 DEF Init, Made
  <2>2. QED
    BY <2>1, PushAssumption DEF TransitIsShort
<1>2. Spec => []TransitIsShort
  BY <1>1, NextKeepsTransit, PushInvariant, PTL DEF Spec
<1>3. ASSUME IInv, TransitIsShort, [Next]_vars
      PROVE  [Steps]_vars
  <2>1. skew' = skew
    BY <1>3 DEF Next, vars, clock, Toggle, PauseOrResume, Capture, ReadFails, Read, Encrypted,
                Drop, Teardown, Reconcile, Attach, Hello, Connected, HearAnswer, RelayReceives,
                RelayReceivesLate, LaptopCopies, Tick
  <2>2. Made(pool') = Made(pool)'
    BY <2>1 DEF Made
  <2>3. QED
    BY <1>3, <2>2, NextKeepsTransit DEF PoolSteps
<1> HIDE DEF Steps
<1>4. Spec => [][Steps]_vars
  BY <1>2, <1>3, PushInvariant, PTL DEF Spec
<1>5. QED
  BY <1>4 DEF Steps, NewerCopyStays
=============================================================================
