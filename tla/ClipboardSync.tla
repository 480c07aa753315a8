----------------------------- MODULE ClipboardSync -----------------------------
(***************************************************************************)
(* The shared clipboard: what is copied on the laptop or on the phone goes *)
(* through the relay's pool to the other one, and neither side may send    *)
(* back what it was sent.  The laptop's side is clipboard-sync.ts on top   *)
(* of clipboard.ts and payload-pool.ts, the relay's the publish handler    *)
(* and authenticate of relay.ts, the phone's _shouldHandleFrame, the       *)
(* payload receiver and the auto-send of service_relay_controller.dart.    *)
(*                                                                         *)
(* A copy is its number; what was copied is left out, and no two copies    *)
(* are of the same text.  One clock stamps the frames of both sides (the   *)
(* mapping of the phone's clock is in ScreenshotPush), and no two frames   *)
(* are stamped in the same millisecond.                                    *)
(***************************************************************************)
EXTENDS Naturals, Sequences, FiniteSets

CONSTANTS
  MaxCopies,   \* bound: copies of the user, on both sides
  MaxStamps,   \* bound: frames stamped
  MaxFaults,   \* bound: drops, failures, restarts
  MaxPauses    \* bound: pauses and resumes, on both sides

ASSUME ClipboardAssumption ==
  MaxCopies \in Nat /\ MaxStamps \in Nat /\ MaxFaults \in Nat /\ MaxPauses \in Nat

VARIABLES
  clip,        \* the laptop's clipboard
  changes,     \* changes wl-paste --watch has not been read for
  watcher,     \* the watch callback under way
  tail,        \* the clipboard tools' queue, one at a time
  incoming,    \* lastIncoming, within its window
  decrypting,  \* phone frames writeIncoming decrypts
  lpaused,     \* the laptop's ClipboardPause
  pool,        \* the pool's current frame
  link,        \* the phone's main connection
  captured,    \* pool.current as handed to authenticate
  toPhone,     \* payloads under way on it
  pclip,       \* the phone's clipboard
  handled,     \* _lastHandledFrame
  receiving,   \* laptop frames being decrypted and saved
  record,      \* _lastReceivedClipboardWrite
  denied,      \* a denial line of logcat is not yet seen
  throttled,   \* a read activity was launched less than LAUNCH_THROTTLE_MS ago
  launched,    \* a read activity waits for the focus
  reads,       \* texts on their way to _onAutoReadText
  sharing,     \* per copy, publishes waiting for their session
  sent,        \* frames of connected share sessions
  ppaused,     \* the phone's clipboard pause
  made,        \* ghost: where each copy was made
  seen,        \* ghost: stamps of the frames handled by this phone process
  missed,      \* ghost: the phone was let in with an older payload
  crossed,     \* ghost: a write's record was lost, or the write met another change
  stamps, faults, pauses

laptop == <<clip, changes, watcher, tail, incoming, decrypting>>
wire == <<link, captured, toPhone>>
guard == <<handled, record>>
autoSend == <<denied, throttled, launched, reads>>
phone == <<pclip, guard, receiving, autoSend>>
shares == <<sharing, sent>>
pausing == <<lpaused, ppaused, pauses>>
ghosts == <<made, seen, missed, crossed>>
vars == <<laptop, pool, wire, phone, shares, pausing, ghosts, stamps, faults>>

Copies == 1..MaxCopies
Nothing == [copy |-> 0, origin |-> "laptop", ts |-> 0]
READ == 0     \* a read in the tools' queue; a write is the copy it writes
Watching == [pc |-> "idle", frame |-> Nothing]

Init ==
  /\ clip = 0 /\ changes = 0 /\ watcher = Watching /\ tail = <<>>
  /\ incoming = 0 /\ decrypting = {}
  /\ pool = Nothing
  /\ link = "down" /\ captured = Nothing /\ toPhone = <<>>
  /\ pclip = 0 /\ handled = 0 /\ receiving = {} /\ record = 0
  /\ denied = FALSE /\ throttled = FALSE /\ launched = FALSE /\ reads = <<>>
  /\ sharing = [c \in Copies |-> 0] /\ sent = {}
  /\ lpaused = FALSE /\ ppaused = FALSE /\ pauses = 0
  /\ made = <<>> /\ seen = {} /\ missed = FALSE /\ crossed = FALSE
  /\ stamps = 0 /\ faults = 0

Fault == faults < MaxFaults /\ faults' = faults + 1
Stamp == stamps < MaxStamps /\ stamps' = stamps + 1

Copied(side) ==
  /\ Len(made) < MaxCopies
  /\ made' = Append(made, side)
  /\ UNCHANGED <<seen, missed, crossed>>
-----------------------------------------------------------------------------
(* The pool *)

(* PayloadPool.publish and its two listeners: the relay's broadcast to the *)
(* devices let in, and the laptop's writer, which takes the phone's.       *)
Publish(f) ==
  IF f.ts < pool.ts
  THEN UNCHANGED <<pool, toPhone, decrypting, missed>>
  ELSE /\ pool' = f
       /\ missed' = FALSE
       /\ toPhone' = IF link = "up" /\ f.origin = "laptop" THEN Append(toPhone, f) ELSE toPhone
       /\ decrypting' = IF f.origin = "phone" /\ ~lpaused THEN decrypting \cup {f} ELSE decrypting
-----------------------------------------------------------------------------
(* The laptop *)

LaptopCopies ==
  /\ Copied("laptop")
  /\ clip' = Len(made) + 1 /\ changes' = changes + 1
  /\ UNCHANGED <<watcher, tail, incoming, decrypting, pool, wire, phone, shares, pausing,
                 stamps, faults>>

(* The watch loop: one chunk may report several changes, and the next is   *)
(* read when this callback has returned.                                   *)
WatchFires ==
  /\ watcher.pc = "idle" /\ changes > 0
  /\ \E n \in 1..changes : changes' = changes - n
  /\ IF lpaused
     THEN UNCHANGED <<watcher, tail>>
     ELSE watcher' = [watcher EXCEPT !.pc = "reading"] /\ tail' = Append(tail, READ)
  /\ UNCHANGED <<clip, incoming, decrypting, pool, wire, phone, shares, pausing, ghosts,
                 stamps, faults>>

TakesRead == tail # <<>> /\ Head(tail) = READ /\ tail' = Tail(tail)
TakesWrite == tail # <<>> /\ Head(tail) # READ /\ tail' = Tail(tail)

(* The content of the last incoming write is that write echoing back. *)
IsEcho == incoming = clip

ReadsEcho ==
  /\ TakesRead /\ IsEcho
  /\ incoming' = 0 /\ watcher' = Watching
  /\ UNCHANGED <<clip, changes, decrypting, pool, wire, phone, shares, pausing, ghosts, stamps,
                 faults>>

ReadsCopy ==
  /\ TakesRead /\ ~IsEcho
  /\ Stamp
  /\ watcher' = [pc |-> "encrypting",
                 frame |-> [copy |-> clip, origin |-> "laptop", ts |-> stamps + 1]]
  /\ UNCHANGED <<clip, changes, incoming, decrypting, pool, wire, phone, shares, pausing,
                 ghosts, faults>>

WatcherPublishes ==
  /\ watcher.pc = "encrypting"
  /\ watcher' = Watching
  /\ Publish(watcher.frame)
  /\ UNCHANGED <<clip, changes, tail, incoming, link, captured, phone, shares, pausing, made,
                 seen, crossed, stamps, faults>>

(* writeIncoming, once decrypted: recorded before the write is queued.     *)
(* Payloads are decrypted each in its own time.                            *)
Decrypted ==
  \E f \in decrypting :
    /\ decrypting' = decrypting \ {f}
    /\ incoming' = f.copy
    /\ tail' = Append(tail, f.copy)
    /\ crossed' = (crossed \/ incoming # 0)
    /\ UNCHANGED <<clip, changes, watcher, pool, wire, phone, shares, pausing, made, seen,
                   missed, stamps, faults>>

Writes ==
  /\ TakesWrite
  /\ clip' = Head(tail) /\ changes' = changes + 1
  /\ crossed' = (crossed \/ changes > 0 \/ watcher.pc = "reading")
  /\ UNCHANGED <<watcher, incoming, decrypting, pool, wire, phone, shares, pausing, made, seen,
                 missed, stamps, faults>>

(* A tool that hangs is killed after its time.  A write that failed clears *)
(* the record it left, if it is still there.                               *)
ReadFails ==
  /\ TakesRead /\ Fault
  /\ watcher' = Watching
  /\ UNCHANGED <<clip, changes, incoming, decrypting, pool, wire, phone, shares, pausing,
                 ghosts, stamps>>

WriteFails ==
  /\ TakesWrite /\ Fault
  /\ incoming' = IF incoming = Head(tail) THEN 0 ELSE incoming
  /\ UNCHANGED <<clip, changes, watcher, decrypting, pool, wire, phone, shares, pausing, ghosts,
                 stamps>>

(* echoWindowMs goes by with the echo not yet read. *)
WindowEnds ==
  /\ incoming # 0 /\ Fault
  /\ incoming' = 0
  /\ crossed' = TRUE
  /\ UNCHANGED <<clip, changes, watcher, tail, decrypting, pool, wire, phone, shares, pausing,
                 made, seen, missed, stamps>>

LaptopPausesOrResumes ==
  /\ pauses < MaxPauses /\ pauses' = pauses + 1
  /\ lpaused' = ~lpaused
  /\ UNCHANGED <<laptop, pool, wire, phone, shares, ppaused, ghosts, stamps, faults>>

(* Mutant: the report at the start is taken for a copy. *)
RestartUnprimed ==
  /\ Fault
  /\ changes' = (IF clip = 0 THEN 0 ELSE 1)
  /\ watcher' = Watching /\ tail' = <<>> /\ incoming' = 0 /\ decrypting' = {}
  /\ pool' = Nothing /\ lpaused' = FALSE
  /\ link' = "down" /\ captured' = Nothing /\ toPhone' = <<>>
  /\ missed' = FALSE /\ sent' = {}
  /\ UNCHANGED <<clip, phone, sharing, ppaused, pauses, made, seen, crossed, stamps>>

(* The service starts anew: the pool was in memory only, and the first     *)
(* report of wl-paste --watch, which covers what changed before, is not    *)
(* taken for a copy.                                                       *)
RelayRestarts ==
  /\ Fault
  /\ changes' = 0 /\ watcher' = Watching /\ tail' = <<>> /\ incoming' = 0 /\ decrypting' = {}
  /\ pool' = Nothing /\ lpaused' = FALSE
  /\ link' = "down" /\ captured' = Nothing /\ toPhone' = <<>>
  /\ missed' = FALSE /\ sent' = {}
  /\ UNCHANGED <<clip, phone, sharing, ppaused, pauses, made, seen, crossed, stamps>>
-----------------------------------------------------------------------------
(* The phone's connection *)

(* authenticate takes pool.current with its call, then awaits the proof.   *)
Authenticate ==
  /\ link = "down" /\ link' = "proving"
  /\ captured' = pool
  /\ UNCHANGED <<laptop, pool, toPhone, phone, shares, pausing, ghosts, stamps, faults>>

(* Mutant: the phone waits for the next copy. *)
LetInSilent ==
  /\ link = "proving" /\ link' = "up"
  /\ missed' = FALSE /\ captured' = Nothing
  /\ UNCHANGED <<laptop, pool, toPhone, phone, shares, pausing, made, seen, crossed, stamps,
                 faults>>

(* The proof is right: from here on the device is in the broadcasts, and   *)
(* the payload taken before is sent to it (the phone drops its own).       *)
LetIn ==
  /\ link = "proving" /\ link' = "up"
  /\ toPhone' = IF captured # Nothing /\ captured.origin = "laptop" THEN <<captured>> ELSE <<>>
  /\ missed' = (captured # pool)
  /\ captured' = Nothing
  /\ UNCHANGED <<laptop, pool, phone, shares, pausing, made, seen, crossed, stamps, faults>>

Drop ==
  /\ Fault
  /\ link # "down" /\ link' = "down"
  /\ captured' = Nothing /\ toPhone' = <<>>
  /\ UNCHANGED <<laptop, pool, phone, shares, pausing, ghosts, stamps>>
-----------------------------------------------------------------------------
(* The phone *)

(* Mutant: left off while paused, a frame is not taken for handled. *)
HandledUnlessPaused(f) == handled' = IF ppaused THEN handled ELSE f.ts

Handled(f) == handled' = f.ts

(* _shouldHandleFrame: the replay after a reconnect was handled before. *)
Deliver ==
  /\ toPhone # <<>> /\ toPhone' = Tail(toPhone)
  /\ LET f == Head(toPhone) IN
     IF f.ts = handled
     THEN UNCHANGED <<handled, receiving, seen>>
     ELSE /\ Handled(f)
          /\ receiving' = IF ppaused THEN receiving ELSE receiving \cup {f}
          /\ seen' = seen \cup {f.ts}
  /\ UNCHANGED <<laptop, pool, link, captured, pclip, record, autoSend, shares, pausing, made,
                 missed, crossed, stamps, faults>>

(* A change of the clipboard is denied to the listener in the background:  *)
(* the denial is what the log watcher waits for.                           *)
PhoneCopies ==
  /\ Copied("phone")
  /\ pclip' = Len(made) + 1 /\ denied' = TRUE
  /\ UNCHANGED <<laptop, pool, wire, guard, receiving, throttled, launched, reads, shares,
                 pausing, stamps, faults>>

(* The receiver's write and the record of it: the write's answer comes     *)
(* before any text read after it.  Frames are received in their own time.  *)
PhoneWrites ==
  \E f \in receiving :
    /\ receiving' = receiving \ {f}
    /\ pclip' = f.copy /\ record' = f.copy /\ denied' = TRUE
    /\ crossed' = (crossed \/ record # 0 \/ denied \/ launched)
    /\ UNCHANGED <<laptop, pool, wire, handled, throttled, launched, reads, shares, pausing,
                   made, seen, missed, stamps, faults>>

(* The device blocks the write: the text stays in its notification. *)
PhoneWriteFails ==
  \E f \in receiving :
    /\ Fault
    /\ receiving' = receiving \ {f}
    /\ UNCHANGED <<laptop, pool, wire, pclip, guard, autoSend, shares, pausing, ghosts, stamps>>

(* onDenial launches the read activity, one at a time and not too often. *)
Denial ==
  /\ denied /\ denied' = FALSE
  /\ IF throttled THEN UNCHANGED <<throttled, launched>> ELSE throttled' = TRUE /\ launched' = TRUE
  /\ UNCHANGED <<laptop, pool, wire, pclip, guard, receiving, reads, shares, pausing, ghosts,
                 stamps, faults>>

(* A text that was read gets to the service in less than the throttle. *)
ThrottleEnds ==
  /\ throttled /\ reads = <<>> /\ throttled' = FALSE
  /\ UNCHANGED <<laptop, pool, wire, pclip, guard, receiving, denied, launched, reads, shares,
                 pausing, ghosts, stamps, faults>>

ActivityReads ==
  /\ launched /\ launched' = FALSE
  /\ reads' = Append(reads, pclip)
  /\ UNCHANGED <<laptop, pool, wire, pclip, guard, receiving, denied, throttled, shares, pausing,
                 ghosts, stamps, faults>>

(* _onAutoReadText *)
AutoReadText ==
  /\ reads # <<>> /\ reads' = Tail(reads)
  /\ LET c == Head(reads) IN
     /\ record' = IF c = record THEN 0 ELSE record
     /\ sharing' = IF c = record \/ ppaused THEN sharing ELSE [sharing EXCEPT ![c] = @ + 1]
  /\ UNCHANGED <<laptop, pool, wire, pclip, handled, receiving, denied, throttled, launched,
                 sent, pausing, ghosts, stamps, faults>>

(* SharePublisher.publish: a session of its own, stamped once connected;   *)
(* two of them run side by side.                                           *)
ShareConnects ==
  \E c \in Copies :
    /\ sharing[c] > 0 /\ sharing' = [sharing EXCEPT ![c] = @ - 1]
    /\ Stamp
    /\ sent' = sent \cup {[copy |-> c, origin |-> "phone", ts |-> stamps + 1]}
    /\ UNCHANGED <<laptop, pool, wire, phone, pausing, ghosts, faults>>

ShareFails ==
  \E c \in Copies :
    /\ Fault
    /\ sharing[c] > 0 /\ sharing' = [sharing EXCEPT ![c] = @ - 1]
    /\ UNCHANGED <<laptop, pool, wire, phone, sent, pausing, ghosts, stamps>>

ShareArrives ==
  \E f \in sent :
    /\ sent' = sent \ {f}
    /\ Publish(f)
    /\ UNCHANGED <<clip, changes, watcher, tail, incoming, link, captured, phone, sharing,
                   pausing, made, seen, crossed, stamps, faults>>

PhonePausesOrResumes ==
  /\ pauses < MaxPauses /\ pauses' = pauses + 1
  /\ ppaused' = ~ppaused
  /\ UNCHANGED <<laptop, pool, wire, phone, shares, lpaused, ghosts, stamps, faults>>

(* The phone's process dies and the service starts anew: the pause is      *)
(* stored, what was handled and written is not, and the log watcher reads  *)
(* from now on.                                                            *)
PhoneRestarts ==
  /\ Fault
  /\ handled' = 0 /\ record' = 0 /\ receiving' = {} /\ reads' = <<>>
  /\ sharing' = [c \in Copies |-> 0]
  /\ link' = "down" /\ captured' = Nothing /\ toPhone' = <<>>
  /\ seen' = {}
  /\ denied' = FALSE /\ launched' = FALSE /\ throttled' = FALSE
  /\ UNCHANGED <<laptop, pool, pclip, sent, pausing, made, missed, crossed, stamps>>
-----------------------------------------------------------------------------
Next ==
  \/ LaptopCopies \/ WatchFires \/ ReadsEcho \/ ReadsCopy \/ WatcherPublishes
  \/ Decrypted \/ Writes \/ ReadFails \/ WriteFails \/ WindowEnds
  \/ LaptopPausesOrResumes \/ RelayRestarts
  \/ Authenticate \/ LetIn \/ Drop \/ Deliver
  \/ PhoneCopies \/ PhoneWrites \/ PhoneWriteFails
  \/ Denial \/ ThrottleEnds \/ ActivityReads \/ AutoReadText
  \/ ShareConnects \/ ShareFails \/ ShareArrives
  \/ PhonePausesOrResumes \/ PhoneRestarts

Spec == Init /\ [][Next]_vars

(* The phone tries again until it is let in, and messages arrive. *)
Fairness == WF_vars(Authenticate) /\ WF_vars(LetIn) /\ WF_vars(Deliver)

FairSpec == Spec /\ Fairness
-----------------------------------------------------------------------------
Frame == [copy : 0..MaxCopies, origin : {"laptop", "phone"}, ts : 0..MaxStamps]

(* The fields have their types, a read is queued just while the watcher    *)
(* waits for it, and payloads are under way only on a connection let in.   *)
ClipTypeOK ==
  /\ clip \in 0..MaxCopies /\ changes \in Nat
  /\ watcher \in [pc : {"idle", "reading", "encrypting"}, frame : Frame]
  /\ tail \in Seq(0..MaxCopies) /\ incoming \in 0..MaxCopies /\ decrypting \subseteq Frame
  /\ watcher.pc = "reading" <=> \E i \in DOMAIN tail : tail[i] = READ
  /\ pool \in Frame /\ captured \in Frame /\ toPhone \in Seq(Frame)
  /\ link \in {"down", "proving", "up"}
  /\ captured # Nothing => link = "proving"
  /\ toPhone # <<>> => link = "up"
  /\ pclip \in 0..MaxCopies /\ record \in 0..MaxCopies /\ handled \in 0..MaxStamps
  /\ receiving \subseteq Frame /\ reads \in Seq(Copies)
  /\ denied \in BOOLEAN /\ throttled \in BOOLEAN /\ launched \in BOOLEAN
  /\ sharing \in [Copies -> Nat] /\ sent \subseteq Frame
  /\ lpaused \in BOOLEAN /\ ppaused \in BOOLEAN /\ pauses \in 0..MaxPauses
  /\ made \in Seq({"laptop", "phone"}) /\ seen \subseteq 0..MaxStamps
  /\ missed \in BOOLEAN /\ crossed \in BOOLEAN
  /\ stamps \in 0..MaxStamps /\ faults \in 0..MaxFaults

(* A frame is of a copy made on the side it comes from. *)
OnItsSide(f) == f = Nothing \/ made[f.copy] = f.origin

(* Neither side sends back what it was sent, however the two clipboards,   *)
(* the tools' queue, drops, failures and restarts interleave, as long as   *)
(* no write met a change of that clipboard which was still to be read, no  *)
(* second payload was recorded over the first, and the echo was read       *)
(* within its window (lastIncoming, _lastReceivedClipboardWrite).          *)
EchoNeedsCrossing ==
  ~crossed => \A f \in {pool, watcher.frame} \cup sent \cup receiving : OnItsSide(f)

(* One process of the phone takes a laptop copy at most once: the replay   *)
(* after a reconnect neither brings back what the pause left off nor       *)
(* writes over what was copied on the phone since (_shouldHandleFrame).    *)
AppliedOnce == [][\A f \in receiving' \ receiving : f.ts \notin seen]_vars

(* In the end the phone has handled the laptop copy in the pool, through   *)
(* drops and restarts of either side, unless it was let in with an older   *)
(* one while this one was published (authenticate's currentPayload).       *)
PhoneCatchesUp ==
  <>[](pool # Nothing /\ pool.origin = "laptop" => missed \/ handled = pool.ts)

(* What tests/clipboard-sync.test.ts says of the laptop's own write: the   *)
(* same bytes, so it is not republished.                                   *)
OwnWriteStays == \A f \in {pool, watcher.frame} : f.origin = "laptop" => OnItsSide(f)
=============================================================================
