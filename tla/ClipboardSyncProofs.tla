-------------------------- MODULE ClipboardSyncProofs --------------------------
(* Proofs about ClipboardSync, for any number of copies, frames, faults and *)
(* pauses: neither side sends back what it was sent while no write crossed  *)
(* a change, and the phone takes no frame twice.                            *)
EXTENDS ClipboardSync, TLAPS

Sides == {"laptop", "phone"}

(* A frame that was stamped, of a copy that was made.                       *)
MadeFrame == [copy : 1..Len(made), origin : Sides, ts : 1..stamps]

MadeTypes ==
  /\ made \in Seq(Sides) /\ Len(made) <= MaxCopies
  /\ stamps \in 0..MaxStamps /\ faults \in 0..MaxFaults /\ pauses \in 0..MaxPauses
  /\ lpaused \in BOOLEAN /\ ppaused \in BOOLEAN
  /\ missed \in BOOLEAN /\ crossed \in BOOLEAN

(* One read at a time is in the tools' queue, that of the watcher, and a    *)
(* change was reported before it.                                           *)
LaptopTypes ==
  /\ changes \in Nat /\ clip \in 0..Len(made) /\ incoming \in 0..Len(made)
  /\ watcher \in [pc : {"idle", "reading", "encrypting"}, frame : MadeFrame \cup {Nothing}]
  /\ watcher.pc = "encrypting" => watcher.frame # Nothing /\ watcher.frame.origin = "laptop"
  /\ watcher.pc # "encrypting" => watcher.frame = Nothing
  /\ tail \in Seq(0..Len(made))
  /\ watcher.pc = "reading" <=> \E i \in DOMAIN tail : tail[i] = READ
  /\ \A i, k \in DOMAIN tail : tail[i] = READ /\ tail[k] = READ => i = k
  /\ changes > 0 \/ watcher.pc = "reading" => clip # 0

(* Only the laptop's frames are sent to the phone, and only the phone's are *)
(* written on the laptop.                                                   *)
PoolTypes ==
  /\ pool \in MadeFrame \cup {Nothing} /\ captured \in MadeFrame \cup {Nothing}
  /\ toPhone \in Seq(MadeFrame)
  /\ \A i \in DOMAIN toPhone : toPhone[i].origin = "laptop"
  /\ sent \subseteq MadeFrame /\ decrypting \subseteq MadeFrame /\ receiving \subseteq MadeFrame
  /\ \A f \in sent \cup decrypting : f.origin = "phone"
  /\ \A f \in receiving : f.origin = "laptop"
  /\ link \in {"down", "proving", "up"}
  /\ captured # Nothing => link = "proving"
  /\ toPhone # <<>> => link = "up"

PhoneTypes ==
  /\ pclip \in 0..Len(made) /\ record \in 0..Len(made)
  /\ handled \in 0..stamps /\ seen \subseteq 0..stamps
  /\ denied \in BOOLEAN /\ launched \in BOOLEAN /\ throttled \in BOOLEAN
  /\ denied \/ launched => pclip # 0
  /\ reads \in Seq(1..Len(made))
  /\ sharing \in [Copies -> Nat]
  /\ \A c \in Copies : sharing[c] > 0 => c <= Len(made)

TypeInv == MadeTypes /\ LaptopTypes /\ PoolTypes /\ PhoneTypes
-----------------------------------------------------------------------------
(* Sequences *)

LEMMA AppendElements ==
  ASSUME NEW S, NEW s \in Seq(S), NEW x \in S
  PROVE  LET t == Append(s, x)
             n == Len(s) + 1
         IN  /\ t \in Seq(S) /\ n \in DOMAIN t /\ t[n] = x /\ n \notin DOMAIN s
             /\ \A i \in DOMAIN s : i \in DOMAIN t /\ t[i] = s[i] /\ i < n
             /\ \A i \in DOMAIN t : i \in DOMAIN s \/ i = n
OBVIOUS

LEMMA TailElements ==
  ASSUME NEW S, NEW s \in Seq(S), s # <<>>
  PROVE  LET t == Tail(s)
         IN  /\ t \in Seq(S) /\ Head(s) = s[1] /\ 1 \in DOMAIN s /\ s[1] \in S
             /\ \A i \in DOMAIN t : i \in Nat /\ i >= 1 /\ i + 1 \in DOMAIN s /\ t[i] = s[i + 1]
             /\ \A i \in DOMAIN s : i = 1 \/ (i - 1 \in DOMAIN t /\ t[i - 1] = s[i])
OBVIOUS

LEMMA LargerSeq ==
  ASSUME NEW S, NEW T, S \subseteq T, NEW s \in Seq(S)
  PROVE  s \in Seq(T)
OBVIOUS

(* What was made and stamped stays. *)
Grows ==
  /\ made \in Seq(Sides) /\ made' \in Seq(Sides)
  /\ Len(made) \in Nat /\ Len(made') \in Nat /\ Len(made) <= Len(made')
  /\ \A c \in 1..Len(made) : made'[c] = made[c]
  /\ stamps \in Nat /\ stamps' \in Nat /\ stamps <= stamps'
  /\ \A f \in MadeFrame : f \in MadeFrame'
  /\ \A s \in Seq(MadeFrame) : s \in Seq(MadeFrame')
  /\ \A s \in Seq(0..Len(made)) : s \in Seq(0..Len(made'))
  /\ \A s \in Seq(1..Len(made)) : s \in Seq(1..Len(made'))

LEMMA Growth ==
  ASSUME MadeTypes, stamps' = stamps \/ Stamp, made' = made \/ \E side \in Sides : Copied(side)
  PROVE  /\ Grows
         /\ made' \in Seq(Sides) /\ Len(made') <= MaxCopies /\ stamps' \in 0..MaxStamps
<1> DEFINE n == Len(made)
           m == Len(made')
<1>1. /\ made' \in Seq(Sides) /\ n \in Nat /\ m \in Nat /\ n <= m /\ m <= MaxCopies
      /\ \A c \in 1..n : made'[c] = made[c]
  <2>1. CASE made' = made
    BY <2>1 DEF MadeTypes
  <2>2. ASSUME NEW side \in Sides, Copied(side)
        PROVE  /\ made' \in Seq(Sides) /\ n \in Nat /\ m \in Nat /\ n <= m /\ m <= MaxCopies
               /\ \A c \in 1..n : made'[c] = made[c]
    <3>1. made' = Append(made, side) /\ n < MaxCopies /\ made \in Seq(Sides)
      BY <2>2 DEF Copied, MadeTypes
    <3>2. m = n + 1 /\ n \in Nat /\ made' \in Seq(Sides) /\ \A c \in 1..n : made'[c] = made[c]
      BY <3>1
    <3>3. QED
      BY <3>1, <3>2, ClipboardAssumption
  <2>3. QED
    BY <2>1, <2>2
<1>2. stamps' \in 0..MaxStamps /\ stamps \in Nat /\ stamps <= stamps'
  BY ClipboardAssumption DEF MadeTypes, Stamp
<1>3. 1..n \subseteq 1..m /\ 0..n \subseteq 0..m /\ 1..stamps \subseteq 1..stamps' /\ stamps' \in Nat
  BY <1>1, <1>2
<1> DEFINE F == [copy : 1..n, origin : Sides, ts : 1..stamps]
           G == [copy : 1..m, origin : Sides, ts : 1..stamps']
<1>4. F \subseteq G
  BY <1>3
<1> HIDE DEF F, G, n, m
<1>5. /\ \A s \in Seq(F) : s \in Seq(G)
      /\ \A s \in Seq(0..n) : s \in Seq(0..m)
      /\ \A s \in Seq(1..n) : s \in Seq(1..m)
  BY <1>3, <1>4, LargerSeq
<1>6. QED
  BY <1>1, <1>2, <1>3, <1>4, <1>5 DEF Grows, MadeFrame, MadeTypes, F, G, n, m
-----------------------------------------------------------------------------
(* What a step leaves alone keeps its type. *)
LEMMA LaptopTypesStay ==
  ASSUME LaptopTypes, Grows, UNCHANGED <<clip, changes, watcher, tail, incoming>>
  PROVE  LaptopTypes'
<1>1. /\ changes' \in Nat /\ clip' \in 0..Len(made') /\ incoming' \in 0..Len(made')
      /\ tail' \in Seq(0..Len(made'))
  BY DEF LaptopTypes, Grows
<1>2. watcher' \in [pc : {"idle", "reading", "encrypting"}, frame : MadeFrame' \cup {Nothing}]
  BY DEF LaptopTypes, Grows
<1>3. QED
  BY <1>1, <1>2 DEF LaptopTypes

LEMMA PoolTypesStay ==
  ASSUME PoolTypes, Grows,
         UNCHANGED <<pool, captured, toPhone, sent, decrypting, receiving, link>>
  PROVE  PoolTypes'
<1>1. pool' \in MadeFrame' \cup {Nothing} /\ captured' \in MadeFrame' \cup {Nothing}
  BY DEF PoolTypes, Grows
<1>2. toPhone' \in Seq(MadeFrame')
  BY DEF PoolTypes, Grows
<1>3. sent' \subseteq MadeFrame' /\ decrypting' \subseteq MadeFrame' /\ receiving' \subseteq MadeFrame'
  BY DEF PoolTypes, Grows
<1>4. QED
  BY <1>1, <1>2, <1>3 DEF PoolTypes

LEMMA PhoneTypesStay ==
  ASSUME PhoneTypes, Grows,
         UNCHANGED <<pclip, record, handled, seen, denied, launched, throttled, reads, sharing>>
  PROVE  PhoneTypes'
<1>1. /\ pclip' \in 0..Len(made') /\ record' \in 0..Len(made')
      /\ handled' \in 0..stamps' /\ seen' \subseteq 0..stamps'
  BY DEF PhoneTypes, Grows
<1>2. reads' \in Seq(1..Len(made'))
  BY DEF PhoneTypes, Grows
<1>3. \A c \in Copies : sharing'[c] > 0 => c <= Len(made')
  BY DEF PhoneTypes, Grows, Copies
<1>4. QED
  BY <1>1, <1>2, <1>3 DEF PhoneTypes

(* The tools' queue: a read or a write is taken from its head, or joins it. *)
LEMMA ReadIsTaken ==
  ASSUME LaptopTypes, TakesRead
  PROVE  /\ watcher.pc = "reading" /\ clip # 0
         /\ tail' \in Seq(0..Len(made))
         /\ \A i \in DOMAIN tail' : i + 1 \in DOMAIN tail /\ tail'[i] = tail[i + 1] /\ tail'[i] # READ
<1>1. tail \in Seq(0..Len(made)) /\ tail # <<>> /\ tail' = Tail(tail) /\ Head(tail) = READ
  BY DEF LaptopTypes, TakesRead
<1>2. /\ tail' \in Seq(0..Len(made)) /\ tail[1] = READ /\ 1 \in DOMAIN tail
      /\ \A i \in DOMAIN tail' : i \in Nat /\ i >= 1 /\ i + 1 \in DOMAIN tail /\ tail'[i] = tail[i + 1]
  BY <1>1, TailElements
<1>3. watcher.pc = "reading" /\ clip # 0
  BY <1>2 DEF LaptopTypes
<1>4. ASSUME NEW i \in DOMAIN tail' PROVE tail'[i] # READ
  BY <1>2 DEF LaptopTypes
<1>5. QED
  BY <1>2, <1>3, <1>4

LEMMA WriteIsTaken ==
  ASSUME LaptopTypes, TakesWrite
  PROVE  /\ Head(tail) = tail[1] /\ 1 \in DOMAIN tail /\ tail[1] # READ
         /\ Head(tail) \in 0..Len(made)
         /\ tail' \in Seq(0..Len(made))
         /\ \A i \in DOMAIN tail' : /\ i \in Nat /\ i >= 1
                                    /\ i + 1 \in DOMAIN tail /\ tail'[i] = tail[i + 1]
         /\ watcher.pc = "reading" <=> \E i \in DOMAIN tail' : tail'[i] = READ
         /\ \A i, k \in DOMAIN tail' : tail'[i] = READ /\ tail'[k] = READ => i = k
<1>1. tail \in Seq(0..Len(made)) /\ tail # <<>> /\ tail' = Tail(tail) /\ Head(tail) # READ
  BY DEF LaptopTypes, TakesWrite
<1>2. /\ tail' \in Seq(0..Len(made)) /\ tail[1] # READ /\ 1 \in DOMAIN tail /\ Head(tail) = tail[1]
      /\ tail[1] \in 0..Len(made)
      /\ \A i \in DOMAIN tail' : i \in Nat /\ i >= 1 /\ i + 1 \in DOMAIN tail /\ tail'[i] = tail[i + 1]
      /\ \A i \in DOMAIN tail : i = 1 \/ (i - 1 \in DOMAIN tail' /\ tail'[i - 1] = tail[i])
  BY <1>1, TailElements
<1>3. watcher.pc = "reading" <=> \E i \in DOMAIN tail' : tail'[i] = READ
  <2>1. watcher.pc = "reading" <=> \E i \in DOMAIN tail : tail[i] = READ
    BY DEF LaptopTypes
  <2>2. QED
    BY <1>2, <2>1
<1>4. ASSUME NEW i \in DOMAIN tail', NEW k \in DOMAIN tail', tail'[i] = READ, tail'[k] = READ
      PROVE  i = k
  <2>1. i + 1 = k + 1
    BY <1>2, <1>4 DEF LaptopTypes
  <2>2. QED
    BY <1>2, <2>1
<1>5. QED
  BY <1>2, <1>3, <1>4

LEMMA WriteIsQueued ==
  ASSUME LaptopTypes, NEW c \in 0..Len(made), c # READ, tail' = Append(tail, c)
  PROVE  /\ tail' \in Seq(0..Len(made))
         /\ \A i \in DOMAIN tail' : \/ i \in DOMAIN tail /\ tail'[i] = tail[i]
                                    \/ i = Len(tail) + 1 /\ tail'[i] = c
         /\ watcher.pc = "reading" <=> \E i \in DOMAIN tail' : tail'[i] = READ
         /\ \A i, k \in DOMAIN tail' : tail'[i] = READ /\ tail'[k] = READ => i = k
<1>1. tail \in Seq(0..Len(made))
  BY DEF LaptopTypes
<1>2. /\ tail' \in Seq(0..Len(made)) /\ tail'[Len(tail) + 1] = c
      /\ \A i \in DOMAIN tail : i \in DOMAIN tail' /\ tail'[i] = tail[i]
      /\ \A i \in DOMAIN tail' : i \in DOMAIN tail \/ i = Len(tail) + 1
  BY <1>1, AppendElements
<1>3. QED
  BY <1>2 DEF LaptopTypes

LEMMA ReadIsQueued ==
  ASSUME LaptopTypes, watcher.pc # "reading", tail' = Append(tail, READ)
  PROVE  /\ tail' \in Seq(0..Len(made))
         /\ \A i \in DOMAIN tail' : \/ i \in DOMAIN tail /\ tail'[i] = tail[i]
                                    \/ tail'[i] = READ
         /\ \E i \in DOMAIN tail' : tail'[i] = READ
         /\ \A i, k \in DOMAIN tail' : tail'[i] = READ /\ tail'[k] = READ => i = k
<1>1. tail \in Seq(0..Len(made)) /\ READ \in 0..Len(made) /\ ~\E i \in DOMAIN tail : tail[i] = READ
  BY DEF LaptopTypes, READ
<1>2. /\ tail' \in Seq(0..Len(made)) /\ tail'[Len(tail) + 1] = READ /\ Len(tail) + 1 \in DOMAIN tail'
      /\ \A i \in DOMAIN tail : i \in DOMAIN tail' /\ tail'[i] = tail[i]
      /\ \A i \in DOMAIN tail' : i \in DOMAIN tail \/ i = Len(tail) + 1
  BY <1>1, AppendElements
<1>3. QED
  BY <1>1, <1>2

LEMMA FrameParts ==
  ASSUME NEW f \in MadeFrame
  PROVE  /\ f.copy \in 1..Len(made) /\ f.origin \in Sides /\ f.ts \in 1..stamps /\ f # Nothing
         /\ f.copy # 0
<1>1. f.ts # 0
  BY DEF MadeFrame
<1>2. f # Nothing
  BY <1>1 DEF Nothing
<1>3. QED
  BY <1>2 DEF MadeFrame

(* A frame is published, or one that is younger is there.                   *)
LEMMA PublishMeans ==
  ASSUME MadeTypes, PoolTypes, NEW f \in MadeFrame, Publish(f)
  PROVE  /\ pool' = pool \/ (pool' = f /\ f.ts >= pool.ts)
         /\ \/ toPhone' = toPhone
            \/ toPhone' = Append(toPhone, f) /\ link = "up" /\ f.origin = "laptop" /\ pool' = f
         /\ \/ decrypting' = decrypting
            \/ decrypting' = decrypting \cup {f} /\ f.origin = "phone"
         /\ missed' \in BOOLEAN
<1>1. f.ts \in Nat /\ pool.ts \in Nat
  BY FrameParts DEF PoolTypes, MadeTypes, MadeFrame, Nothing
<1>2. CASE f.ts < pool.ts
  BY <1>2 DEF Publish, MadeTypes
<1>3. CASE ~(f.ts < pool.ts)
  <2>1. f.ts >= pool.ts
    BY <1>1, <1>3
  <2>2. QED
    BY <1>3, <2>1 DEF Publish
<1>4. QED
  BY <1>2, <1>3

LEMMA PublishKeepsTypes ==
  ASSUME MadeTypes, PoolTypes, NEW f \in MadeFrame, Publish(f),
         UNCHANGED <<link, captured, receiving, made, stamps>>,
         sent' \subseteq sent
  PROVE  PoolTypes'
<1>1. /\ pool' \in {pool, f}
      /\ \/ toPhone' = toPhone
         \/ toPhone' = Append(toPhone, f) /\ link = "up" /\ f.origin = "laptop"
      /\ \/ decrypting' = decrypting
         \/ decrypting' = decrypting \cup {f} /\ f.origin = "phone"
  BY PublishMeans
<1>2. MadeFrame' = MadeFrame
  BY DEF MadeFrame
<1>3. /\ toPhone' \in Seq(MadeFrame) /\ (toPhone' # <<>> => link = "up")
      /\ \A i \in DOMAIN toPhone' : toPhone'[i].origin = "laptop"
  <2>1. CASE toPhone' = toPhone
    BY <2>1 DEF PoolTypes
  <2>2. CASE toPhone' = Append(toPhone, f) /\ link = "up" /\ f.origin = "laptop"
    <3>1. toPhone \in Seq(MadeFrame)
      BY DEF PoolTypes
    <3>2. /\ toPhone' \in Seq(MadeFrame)
          /\ \A i \in DOMAIN toPhone' : (i \in DOMAIN toPhone /\ toPhone'[i] = toPhone[i]) \/ toPhone'[i] = f
      BY <2>2, <3>1, AppendElements
    <3>3. QED
      BY <2>2, <3>2 DEF PoolTypes
  <2>3. QED
    BY <1>1, <2>1, <2>2
<1>4. decrypting' \subseteq MadeFrame /\ \A g \in decrypting' : g.origin = "phone"
  BY <1>1 DEF PoolTypes
<1>5. pool' \in MadeFrame \cup {Nothing} /\ captured' \in MadeFrame \cup {Nothing}
  BY <1>1 DEF PoolTypes
<1>6. QED
  BY <1>2, <1>3, <1>4, <1>5 DEF PoolTypes

LEMMA InitEstablishesTypes == Init => TypeInv
<1> SUFFICES ASSUME Init PROVE TypeInv
  OBVIOUS
<1>0. /\ \A S : <<>> \in Seq(S)
      /\ DOMAIN <<>> = {}
  OBVIOUS
<1>1. MadeTypes
  <2>1. made \in Seq(Sides) /\ Len(made) = 0
    <3>1. made = <<>>
      BY DEF Init
    <3>2. QED
      BY <3>1
  <2>2. Len(made) <= MaxCopies
    BY <2>1, ClipboardAssumption
  <2>3. stamps \in 0..MaxStamps /\ faults \in 0..MaxFaults /\ pauses \in 0..MaxPauses
    BY ClipboardAssumption DEF Init
  <2>4. lpaused \in BOOLEAN /\ ppaused \in BOOLEAN /\ missed \in BOOLEAN /\ crossed \in BOOLEAN
    BY DEF Init
  <2>5. QED
    BY <2>1, <2>2, <2>3, <2>4 DEF MadeTypes
<1>2. LaptopTypes
  <2> DEFINE W == [pc : {"idle", "reading", "encrypting"}, frame : MadeFrame \cup {Nothing}]
  <2>1. Watching \in W /\ Watching.pc = "idle" /\ Watching.frame = Nothing
    BY DEF Watching
  <2> HIDE DEF W
  <2>2. Len(made) = 0 /\ 0 \in 0..0
    BY DEF Init
  <2>3. /\ changes = 0 /\ clip = 0 /\ incoming = 0 /\ watcher = Watching
        /\ tail = <<>> /\ tail \in Seq(0..0) /\ DOMAIN tail = {}
    BY <1>0 DEF Init
  <2>4. /\ changes \in Nat /\ clip \in 0..Len(made) /\ incoming \in 0..Len(made)
        /\ tail \in Seq(0..Len(made)) /\ watcher \in W
    BY <2>1, <2>2, <2>3
  <2>5. /\ watcher.pc = "encrypting" => watcher.frame # Nothing /\ watcher.frame.origin = "laptop"
        /\ watcher.pc # "encrypting" => watcher.frame = Nothing
        /\ watcher.pc # "reading" /\ ~(changes > 0)
    BY <2>1, <2>3
  <2>6. QED
    BY <2>3, <2>4, <2>5 DEF LaptopTypes, W
<1>3. PoolTypes
  <2>1. toPhone = <<>> /\ sent = {} /\ decrypting = {} /\ receiving = {} /\ link = "down"
        /\ pool = Nothing /\ captured = Nothing
    BY DEF Init
  <2>2. toPhone \in Seq(MadeFrame) /\ DOMAIN toPhone = {}
    BY <1>0, <2>1
  <2> HIDE DEF MadeFrame
  <2>3. QED
    BY <2>1, <2>2 DEF PoolTypes
<1>4. PhoneTypes
  <2>1. Len(made) = 0 /\ reads \in Seq(1..Len(made))
    <3>1. made = <<>> /\ reads = <<>>
      BY DEF Init
    <3>2. QED
      BY <3>1
  <2>2. sharing \in [Copies -> Nat] /\ \A c \in Copies : sharing[c] = 0
    BY DEF Init
  <2>3. /\ pclip \in 0..0 /\ record \in 0..0 /\ handled \in 0..0 /\ stamps = 0
        /\ seen \subseteq 0..0
    BY DEF Init
  <2>4. denied \in BOOLEAN /\ launched \in BOOLEAN /\ throttled \in BOOLEAN /\ ~(denied \/ launched)
    BY DEF Init
  <2>5. \A c \in Copies : sharing[c] > 0 => c <= Len(made)
    BY <2>2
  <2>6. QED
    BY <2>1, <2>2, <2>3, <2>4, <2>5 DEF PhoneTypes
<1>5. QED
  BY <1>1, <1>2, <1>3, <1>4 DEF TypeInv

(* The steps of the laptop's clipboard. *)
LaptopStep ==
  LaptopCopies \/ WatchFires \/ ReadsEcho \/ ReadsCopy \/ Writes \/ ReadFails \/ WriteFails
    \/ WindowEnds \/ Decrypted \/ WatcherPublishes

LEMMA LaptopKeepsTypes ==
  ASSUME TypeInv, Grows, LaptopStep
  PROVE  LaptopTypes'
<1>1. MadeTypes /\ LaptopTypes /\ PoolTypes
  BY DEF TypeInv
<1>2. /\ 0..Len(made) \subseteq 0..Len(made') /\ Len(made) \in Nat
      /\ \A s \in Seq(0..Len(made)) : s \in Seq(0..Len(made'))
      /\ MadeFrame \subseteq MadeFrame'
  BY DEF Grows
<1>3. /\ changes \in Nat /\ clip \in 0..Len(made) /\ incoming \in 0..Len(made)
      /\ watcher \in [pc : {"idle", "reading", "encrypting"}, frame : MadeFrame' \cup {Nothing}]
      /\ tail \in Seq(0..Len(made))
      /\ Watching \in [pc : {"idle", "reading", "encrypting"}, frame : MadeFrame' \cup {Nothing}]
      /\ Watching.pc = "idle" /\ Watching.frame = Nothing
  BY <1>1, <1>2 DEF LaptopTypes, Watching
<1>4. CASE LaptopCopies
  <2>1. made' = Append(made, "laptop") /\ made \in Seq(Sides) /\ "laptop" \in Sides
        /\ clip' = Len(made) + 1 /\ changes' = changes + 1
        /\ UNCHANGED <<watcher, tail, incoming>>
    BY <1>1, <1>4 DEF LaptopCopies, Copied, MadeTypes, Sides
  <2>2. Len(made') = Len(made) + 1
    BY <2>1
  <2>3. clip' \in 0..Len(made') /\ clip' # 0 /\ changes' \in Nat
    BY <1>2, <1>3, <2>1, <2>2
  <2>4. QED
    BY <1>1, <1>2, <1>3, <2>1, <2>3 DEF LaptopTypes
<1>5. CASE WatchFires
  <2>1. /\ watcher.pc = "idle" /\ changes > 0 /\ changes' \in Nat
        /\ UNCHANGED <<clip, incoming>>
    BY <1>3, <1>5 DEF WatchFires
  <2>2. CASE lpaused
    BY <1>1, <1>2, <1>3, <1>5, <2>1, <2>2 DEF WatchFires, LaptopTypes
  <2>3. CASE ~lpaused
    <3> DEFINE w == [watcher EXCEPT !.pc = "reading"]
    <3>1. watcher' = w /\ tail' = Append(tail, READ)
      BY <1>5, <2>3 DEF WatchFires
    <3>2. w.pc = "reading" /\ w.frame = watcher.frame
          /\ w \in [pc : {"idle", "reading", "encrypting"}, frame : MadeFrame' \cup {Nothing}]
      BY <1>3
    <3> HIDE DEF w
    <3>3. /\ tail' \in Seq(0..Len(made)) /\ \E i \in DOMAIN tail' : tail'[i] = READ
          /\ \A i, k \in DOMAIN tail' : tail'[i] = READ /\ tail'[k] = READ => i = k
      BY <1>1, <2>1, <3>1, ReadIsQueued
    <3>4. clip # 0 /\ watcher.frame = Nothing
      BY <1>1, <2>1 DEF LaptopTypes
    <3>5. QED
      BY <1>2, <1>3, <2>1, <3>1, <3>2, <3>3, <3>4 DEF LaptopTypes
  <2>4. QED
    BY <2>2, <2>3
<1>6. CASE ReadsEcho \/ ReadFails
  <2>1. /\ TakesRead /\ watcher' = Watching /\ UNCHANGED <<clip, changes>>
        /\ incoming' \in {0, incoming}
    BY <1>6 DEF ReadsEcho, ReadFails
  <2>2. tail' \in Seq(0..Len(made)) /\ (\A i \in DOMAIN tail' : tail'[i] # READ) /\ clip # 0
    BY <1>1, <2>1, ReadIsTaken
  <2>3. incoming' \in 0..Len(made)
    BY <1>2, <1>3, <2>1
  <2>4. QED
    BY <1>2, <1>3, <2>1, <2>2, <2>3 DEF LaptopTypes
<1>7. CASE ReadsCopy
  <2> DEFINE f == [copy |-> clip, origin |-> "laptop", ts |-> stamps + 1]
             w == [pc |-> "encrypting", frame |-> f]
  <2>1. /\ TakesRead /\ watcher' = w /\ UNCHANGED <<clip, changes, incoming, made>>
        /\ stamps' = stamps + 1 /\ stamps \in Nat
    BY <1>1, <1>7 DEF ReadsCopy, Stamp, ghosts, MadeTypes
  <2>2. tail' \in Seq(0..Len(made)) /\ (\A i \in DOMAIN tail' : tail'[i] # READ) /\ clip # 0
    BY <1>1, <2>1, ReadIsTaken
  <2>3. clip \in 1..Len(made) /\ stamps + 1 \in 1..stamps'
    BY <1>2, <1>3, <2>1, <2>2
  <2>4. f \in MadeFrame' /\ f.origin = "laptop" /\ f # Nothing
    <3>1. f \in MadeFrame' /\ f.origin = "laptop" /\ f.ts = stamps + 1 /\ stamps + 1 # 0
      BY <2>1, <2>3 DEF MadeFrame, Sides
    <3>2. QED
      BY <3>1 DEF Nothing
  <2> HIDE DEF f
  <2>5. w \in [pc : {"idle", "reading", "encrypting"}, frame : MadeFrame' \cup {Nothing}]
        /\ w.pc = "encrypting" /\ w.frame = f
    BY <2>4
  <2> HIDE DEF w
  <2>6. QED
    BY <1>2, <1>3, <2>1, <2>2, <2>4, <2>5 DEF LaptopTypes
<1>8. CASE Writes \/ WriteFails
  <2>1. TakesWrite /\ UNCHANGED watcher
    BY <1>8 DEF Writes, WriteFails
  <2>2. /\ tail[1] # READ /\ Head(tail) = tail[1] /\ Head(tail) \in 0..Len(made)
        /\ tail' \in Seq(0..Len(made))
        /\ watcher.pc = "reading" <=> \E i \in DOMAIN tail' : tail'[i] = READ
        /\ \A i, k \in DOMAIN tail' : tail'[i] = READ /\ tail'[k] = READ => i = k
    BY <1>1, <2>1, WriteIsTaken
  <2>3. /\ clip' \in {clip, Head(tail)} /\ changes' \in {changes, changes + 1}
        /\ incoming' \in {0, incoming}
        /\ (changes' = changes /\ clip' = clip) \/ clip' = Head(tail)
    BY <1>8 DEF Writes, WriteFails
  <2>4. clip' \in 0..Len(made) /\ changes' \in Nat /\ incoming' \in 0..Len(made)
    <3>1. clip' \in 0..Len(made)
      BY <1>3, <2>2, <2>3
    <3>2. changes' \in Nat
      BY <1>3, <2>3
    <3>3. incoming' \in 0..Len(made)
      <4>1. 0 \in 0..Len(made)
        BY <1>2
      <4>2. QED
        BY <1>3, <2>3, <4>1
    <3>4. QED
      BY <3>1, <3>2, <3>3
  <2>5. changes' > 0 \/ watcher.pc = "reading" => clip' # 0
    BY <1>1, <2>2, <2>3 DEF LaptopTypes, READ
  <2>6. QED
    BY <1>1, <1>2, <1>3, <2>1, <2>2, <2>4, <2>5 DEF LaptopTypes
<1>9. CASE WindowEnds
  <2>1. incoming' = 0 /\ UNCHANGED <<clip, changes, watcher, tail>>
    BY <1>9 DEF WindowEnds
  <2>2. QED
    BY <1>1, <1>2, <1>3, <2>1 DEF LaptopTypes
<1>10. CASE Decrypted
  <2>1. PICK f \in decrypting : /\ incoming' = f.copy /\ tail' = Append(tail, f.copy)
                                /\ UNCHANGED <<clip, changes, watcher>>
    BY <1>10 DEF Decrypted
  <2>2. f \in MadeFrame
    BY <1>1 DEF PoolTypes
  <2>3. f.copy \in 1..Len(made)
    BY <2>2, FrameParts
  <2>4. f.copy \in 0..Len(made) /\ f.copy # READ
    BY <1>2, <2>3 DEF READ
  <2>5. /\ tail' \in Seq(0..Len(made))
        /\ watcher.pc = "reading" <=> \E i \in DOMAIN tail' : tail'[i] = READ
        /\ \A i, k \in DOMAIN tail' : tail'[i] = READ /\ tail'[k] = READ => i = k
    BY <1>1, <2>1, <2>4, WriteIsQueued
  <2>6. QED
    BY <1>1, <1>2, <1>3, <2>1, <2>4, <2>5 DEF LaptopTypes
<1>11. CASE WatcherPublishes
  <2>1. /\ watcher.pc = "encrypting" /\ watcher' = Watching
        /\ UNCHANGED <<clip, changes, tail, incoming>>
    BY <1>11 DEF WatcherPublishes
  <2>2. QED
    BY <1>1, <1>2, <1>3, <2>1 DEF LaptopTypes
<1>12. QED
  BY <1>4, <1>5, <1>6, <1>7, <1>8, <1>9, <1>10, <1>11 DEF LaptopStep

LEMMA PoolKeepsTypes ==
  ASSUME TypeInv, Grows, Next
  PROVE  PoolTypes'
<1>1. MadeTypes /\ LaptopTypes /\ PoolTypes
  BY DEF TypeInv
<1>2. /\ MadeFrame \subseteq MadeFrame'
      /\ \A s \in Seq(MadeFrame) : s \in Seq(MadeFrame')
      /\ Nothing \notin MadeFrame
  BY FrameParts DEF Grows
<1>3. CASE \/ LaptopCopies \/ WatchFires \/ ReadsEcho \/ ReadsCopy \/ Writes \/ ReadFails
           \/ WriteFails \/ WindowEnds \/ LaptopPausesOrResumes
  <2>1. UNCHANGED <<pool, captured, toPhone, sent, decrypting, receiving, link>>
    BY <1>3 DEF LaptopCopies, WatchFires, ReadsEcho, ReadsCopy, Writes, ReadFails, WriteFails,
         WindowEnds, LaptopPausesOrResumes, wire, phone, shares, laptop
  <2>2. QED
    BY <1>1, <2>1, PoolTypesStay
<1>4. CASE \/ PhoneCopies \/ Denial \/ ThrottleEnds \/ ActivityReads \/ AutoReadText
           \/ ShareFails \/ PhonePausesOrResumes
  <2>1. UNCHANGED <<pool, captured, toPhone, sent, decrypting, receiving, link>>
    BY <1>4 DEF PhoneCopies, Denial, ThrottleEnds, ActivityReads, AutoReadText,
         ShareFails, PhonePausesOrResumes, wire, phone, shares, laptop
  <2>2. QED
    BY <1>1, <2>1, PoolTypesStay
<1>5. CASE WatcherPublishes
  <2>1. watcher.frame \in MadeFrame
    BY <1>1, <1>5 DEF WatcherPublishes, LaptopTypes
  <2>2. Publish(watcher.frame) /\ UNCHANGED <<link, captured, receiving, made, stamps, sent>>
    BY <1>5 DEF WatcherPublishes, phone, shares
  <2>3. QED
    BY <1>1, <2>1, <2>2, PublishKeepsTypes
<1>6. CASE ShareArrives
  <2>1. PICK f \in sent : /\ Publish(f) /\ sent' = sent \ {f}
                          /\ UNCHANGED <<link, captured, receiving, made, stamps>>
    BY <1>6 DEF ShareArrives, phone
  <2>2. f \in MadeFrame
    BY <1>1 DEF PoolTypes
  <2>3. QED
    BY <1>1, <2>1, <2>2, PublishKeepsTypes
<1>7. CASE Decrypted \/ PhoneWrites \/ PhoneWriteFails
  <2>1. /\ decrypting' \subseteq decrypting /\ receiving' \subseteq receiving
        /\ UNCHANGED <<pool, captured, toPhone, sent, link>>
    BY <1>7 DEF Decrypted, PhoneWrites, PhoneWriteFails, wire, phone, shares, laptop
  <2>2. /\ pool' \in MadeFrame' \cup {Nothing} /\ captured' \in MadeFrame' \cup {Nothing}
        /\ toPhone' \in Seq(MadeFrame')
        /\ sent' \subseteq MadeFrame' /\ decrypting' \subseteq MadeFrame' /\ receiving' \subseteq MadeFrame'
    BY <1>1, <1>2, <2>1 DEF PoolTypes
  <2>3. QED
    BY <1>1, <2>1, <2>2 DEF PoolTypes
<1>8. CASE RelayRestarts \/ Drop \/ PhoneRestarts
  <2>1. /\ pool' \in {pool, Nothing} /\ captured' = Nothing /\ toPhone' = <<>> /\ link' = "down"
        /\ sent' \subseteq sent /\ decrypting' \subseteq decrypting /\ receiving' \subseteq receiving
    BY <1>8 DEF RelayRestarts, Drop, PhoneRestarts, phone, shares, laptop
  <2>2. toPhone' \in Seq(MadeFrame') /\ DOMAIN toPhone' = {}
    BY <2>1
  <2>3. pool' \in MadeFrame' \cup {Nothing} /\ captured' \in MadeFrame' \cup {Nothing}
    BY <1>1, <1>2, <2>1 DEF PoolTypes
  <2>4. sent' \subseteq MadeFrame' /\ decrypting' \subseteq MadeFrame' /\ receiving' \subseteq MadeFrame'
    BY <1>1, <1>2, <2>1 DEF PoolTypes
  <2>5. QED
    BY <1>1, <2>1, <2>2, <2>3, <2>4 DEF PoolTypes
<1>9. CASE Authenticate
  <2>1. /\ captured' = pool /\ link' = "proving"
        /\ UNCHANGED <<pool, toPhone, sent, decrypting, receiving>>
        /\ toPhone = <<>>
    BY <1>1, <1>9 DEF Authenticate, laptop, phone, shares, PoolTypes
  <2>2. /\ pool' \in MadeFrame' \cup {Nothing} /\ captured' \in MadeFrame' \cup {Nothing}
        /\ toPhone' \in Seq(MadeFrame')
        /\ sent' \subseteq MadeFrame' /\ decrypting' \subseteq MadeFrame' /\ receiving' \subseteq MadeFrame'
    BY <1>1, <1>2, <2>1 DEF PoolTypes
  <2>3. QED
    BY <1>1, <2>1, <2>2 DEF PoolTypes
<1>10. CASE LetIn
  <2>1. /\ captured' = Nothing /\ link' = "up"
        /\ UNCHANGED <<pool, sent, decrypting, receiving>>
        /\ toPhone' = IF captured # Nothing /\ captured.origin = "laptop" THEN <<captured>> ELSE <<>>
    BY <1>10 DEF LetIn, laptop, phone, shares
  <2>2. toPhone' \in Seq(MadeFrame) /\ \A i \in DOMAIN toPhone' : toPhone'[i].origin = "laptop"
    <3>1. CASE captured # Nothing /\ captured.origin = "laptop"
      <4>1. toPhone' = <<captured>> /\ captured \in MadeFrame
        BY <1>1, <2>1, <3>1 DEF PoolTypes
      <4> HIDE DEF MadeFrame
      <4>2. toPhone' \in Seq(MadeFrame) /\ \A i \in DOMAIN toPhone' : toPhone'[i] = captured
        BY <4>1
      <4>3. QED
        BY <3>1, <4>2
    <3>2. CASE ~(captured # Nothing /\ captured.origin = "laptop")
      <4>1. toPhone' = <<>>
        BY <2>1, <3>2
      <4>2. QED
        BY <4>1
    <3>3. QED
      BY <3>1, <3>2
  <2>3. /\ pool' \in MadeFrame' \cup {Nothing} /\ captured' \in MadeFrame' \cup {Nothing}
        /\ toPhone' \in Seq(MadeFrame')
        /\ sent' \subseteq MadeFrame' /\ decrypting' \subseteq MadeFrame' /\ receiving' \subseteq MadeFrame'
    BY <1>1, <1>2, <2>1, <2>2 DEF PoolTypes
  <2>4. QED
    BY <1>1, <2>1, <2>2, <2>3 DEF PoolTypes
<1>11. CASE Deliver
  <2>1. /\ toPhone # <<>> /\ toPhone' = Tail(toPhone) /\ receiving' \subseteq receiving \cup {Head(toPhone)}
        /\ UNCHANGED <<pool, captured, sent, decrypting, link>>
    BY <1>11 DEF Deliver, laptop, shares
  <2>2. toPhone \in Seq(MadeFrame) /\ \A i \in DOMAIN toPhone : toPhone[i].origin = "laptop"
    BY <1>1 DEF PoolTypes
  <2>3. /\ toPhone' \in Seq(MadeFrame) /\ Head(toPhone) = toPhone[1] /\ 1 \in DOMAIN toPhone
        /\ toPhone[1] \in MadeFrame
        /\ \A i \in DOMAIN toPhone' : i + 1 \in DOMAIN toPhone /\ toPhone'[i] = toPhone[i + 1]
    BY <2>1, <2>2, TailElements
  <2>4. /\ Head(toPhone) \in MadeFrame /\ Head(toPhone).origin = "laptop"
        /\ \A i \in DOMAIN toPhone' : toPhone'[i].origin = "laptop"
    BY <2>2, <2>3
  <2>5. /\ pool' \in MadeFrame' \cup {Nothing} /\ captured' \in MadeFrame' \cup {Nothing}
        /\ toPhone' \in Seq(MadeFrame')
        /\ sent' \subseteq MadeFrame' /\ decrypting' \subseteq MadeFrame' /\ receiving' \subseteq MadeFrame'
    BY <1>1, <1>2, <2>1, <2>3, <2>4 DEF PoolTypes
  <2>6. QED
    BY <1>1, <2>1, <2>4, <2>5 DEF PoolTypes
<1>12. CASE ShareConnects
  <2>1. PICK c \in Copies : /\ sharing[c] > 0 /\ stamps' = stamps + 1 /\ UNCHANGED made
                            /\ sent' = sent \cup {[copy |-> c, origin |-> "phone", ts |-> stamps + 1]}
                            /\ UNCHANGED <<pool, captured, toPhone, decrypting, receiving, link>>
    BY <1>12 DEF ShareConnects, Stamp, laptop, wire, phone, ghosts
  <2> DEFINE f == [copy |-> c, origin |-> "phone", ts |-> stamps + 1]
  <2>2. f \in MadeFrame' /\ f.origin = "phone"
    <3>1. c \in 1..Len(made') /\ stamps + 1 \in 1..stamps'
      BY <2>1 DEF TypeInv, PhoneTypes, MadeTypes, Copies
    <3>2. QED
      BY <3>1 DEF MadeFrame, Sides
  <2>3. sent' = sent \cup {f}
    BY <2>1
  <2> HIDE DEF f
  <2>4. /\ pool' \in MadeFrame' \cup {Nothing} /\ captured' \in MadeFrame' \cup {Nothing}
        /\ toPhone' \in Seq(MadeFrame')
        /\ sent' \subseteq MadeFrame' /\ decrypting' \subseteq MadeFrame' /\ receiving' \subseteq MadeFrame'
    BY <1>1, <1>2, <2>1, <2>2, <2>3 DEF PoolTypes
  <2>5. QED
    BY <1>1, <2>1, <2>2, <2>3, <2>4 DEF PoolTypes
<1>13. QED
  BY <1>3, <1>4, <1>5, <1>6, <1>7, <1>8, <1>9, <1>10, <1>11, <1>12 DEF Next

LEMMA PhoneKeepsTypes ==
  ASSUME TypeInv, Grows, Next
  PROVE  PhoneTypes'
<1>1. MadeTypes /\ PoolTypes /\ PhoneTypes
  BY DEF TypeInv
<1>2. /\ Len(made) \in Nat /\ Len(made') \in Nat /\ Len(made) <= Len(made')
      /\ stamps \in Nat /\ stamps' \in Nat /\ stamps <= stamps'
      /\ \A s \in Seq(1..Len(made)) : s \in Seq(1..Len(made'))
  BY DEF Grows
<1>3. /\ pclip \in 0..Len(made') /\ record \in 0..Len(made')
      /\ handled \in 0..stamps' /\ seen \subseteq 0..stamps'
      /\ reads \in Seq(1..Len(made')) /\ reads \in Seq(1..Len(made))
      /\ sharing \in [Copies -> Nat]
      /\ \A c \in Copies : sharing[c] > 0 => c <= Len(made')
      /\ denied \in BOOLEAN /\ launched \in BOOLEAN /\ throttled \in BOOLEAN
  <2>1. /\ pclip \in 0..Len(made') /\ record \in 0..Len(made')
        /\ handled \in 0..stamps' /\ seen \subseteq 0..stamps'
    BY <1>1, <1>2 DEF PhoneTypes
  <2>2. reads \in Seq(1..Len(made')) /\ reads \in Seq(1..Len(made))
    BY <1>1, <1>2 DEF PhoneTypes
  <2>3. sharing \in [Copies -> Nat] /\ \A c \in Copies : sharing[c] > 0 => c <= Len(made')
    BY <1>1, <1>2 DEF PhoneTypes, Copies
  <2>4. denied \in BOOLEAN /\ launched \in BOOLEAN /\ throttled \in BOOLEAN
    BY <1>1 DEF PhoneTypes
  <2>5. QED
    BY <2>1, <2>2, <2>3, <2>4
<1>4. CASE \/ LaptopStep \/ LaptopPausesOrResumes \/ RelayRestarts \/ Authenticate \/ LetIn \/ Drop
           \/ PhoneWriteFails \/ ShareArrives \/ PhonePausesOrResumes
  <2>1. UNCHANGED <<pclip, record, handled, denied, launched, throttled, reads, sharing>>
        /\ seen' = seen
    BY <1>4 DEF LaptopStep, LaptopCopies, WatchFires, ReadsEcho, ReadsCopy, Writes, ReadFails,
         WriteFails, WindowEnds, Decrypted, WatcherPublishes, LaptopPausesOrResumes, RelayRestarts,
         Authenticate, LetIn, Drop, PhoneWriteFails, ShareArrives, PhonePausesOrResumes, Copied,
         phone, guard, autoSend, shares, ghosts
  <2>2. QED
    BY <1>1, <2>1, PhoneTypesStay
<1>5. CASE Deliver
  <2>1. /\ toPhone # <<>>
        /\ handled' \in {handled, Head(toPhone).ts} /\ seen' \subseteq seen \cup {Head(toPhone).ts}
        /\ UNCHANGED <<pclip, record, denied, launched, throttled, reads, sharing>>
    BY <1>5 DEF Deliver, Handled, autoSend, shares
  <2>2. Head(toPhone) \in MadeFrame
    <3>1. toPhone \in Seq(MadeFrame)
      BY <1>1 DEF PoolTypes
    <3>2. QED
      BY <2>1, <3>1, TailElements
  <2>3. Head(toPhone).ts \in 0..stamps'
    BY <1>2, <2>2, FrameParts
  <2>4. QED
    BY <1>1, <1>3, <2>1, <2>3 DEF PhoneTypes
<1>6. CASE PhoneCopies
  <2>1. /\ made' = Append(made, "phone") /\ pclip' = Len(made) + 1 /\ denied' = TRUE
        /\ UNCHANGED <<record, handled, launched, throttled, reads, sharing>> /\ seen' = seen
    BY <1>6 DEF PhoneCopies, Copied, guard, shares
  <2>2. Len(made') = Len(made) + 1
    BY <1>1, <2>1 DEF MadeTypes
  <2>3. pclip' \in 0..Len(made') /\ pclip' # 0
    BY <1>2, <2>1, <2>2
  <2>4. QED
    BY <1>3, <2>1, <2>3 DEF PhoneTypes
<1>7. CASE PhoneWrites
  <2>1. PICK f \in receiving : /\ pclip' = f.copy /\ record' = f.copy /\ denied' = TRUE
                               /\ UNCHANGED <<handled, launched, throttled, reads, sharing>> /\ seen' = seen
    BY <1>7 DEF PhoneWrites, shares
  <2>2. f \in MadeFrame
    BY <1>1 DEF PoolTypes
  <2>3. f.copy \in 0..Len(made') /\ f.copy # 0
    BY <1>2, <2>2, FrameParts
  <2>4. QED
    BY <1>3, <2>1, <2>3 DEF PhoneTypes
<1>8. CASE Denial \/ ThrottleEnds
  <2>1. UNCHANGED <<pclip, record, handled, reads, sharing>> /\ seen' = seen
    BY <1>8 DEF Denial, ThrottleEnds, guard, shares, ghosts
  <2>2. /\ denied' \in {denied, FALSE} /\ throttled' \in {throttled, TRUE, FALSE}
        /\ launched' = launched \/ (denied /\ launched' = TRUE)
    BY <1>8 DEF Denial, ThrottleEnds
  <2>3. denied' \in BOOLEAN /\ launched' \in BOOLEAN /\ throttled' \in BOOLEAN
    BY <1>3, <2>2
  <2>4. denied' \/ launched' => pclip # 0
    BY <1>1, <2>2 DEF PhoneTypes
  <2>5. QED
    BY <1>3, <2>1, <2>3, <2>4 DEF PhoneTypes
<1>9. CASE ActivityReads
  <2>1. /\ launched /\ launched' = FALSE /\ reads' = Append(reads, pclip)
        /\ UNCHANGED <<pclip, record, handled, denied, throttled, sharing>> /\ seen' = seen
    BY <1>9 DEF ActivityReads, guard, shares, ghosts
  <2>2. pclip # 0
    BY <1>1, <2>1 DEF PhoneTypes
  <2>3. pclip \in 1..Len(made')
    BY <1>2, <1>3, <2>2
  <2>4. reads' \in Seq(1..Len(made'))
    BY <1>3, <2>1, <2>3, AppendElements
  <2>5. QED
    BY <1>3, <2>1, <2>2, <2>4 DEF PhoneTypes
<1>10. CASE AutoReadText
  <2> DEFINE c == Head(reads)
  <2>1. /\ reads # <<>> /\ reads' = Tail(reads) /\ record' \in {record, 0}
        /\ sharing' = sharing \/ sharing' = [sharing EXCEPT ![c] = @ + 1]
        /\ UNCHANGED <<pclip, handled, denied, launched, throttled, made>> /\ seen' = seen
    BY <1>10 DEF AutoReadText, ghosts
  <2>2. reads' \in Seq(1..Len(made)) /\ c = reads[1] /\ reads[1] \in 1..Len(made)
    BY <1>3, <2>1, TailElements
  <2>3. c <= Len(made) /\ c \in Nat
    BY <1>2, <2>2
  <2> HIDE DEF c
  <2>4. sharing' \in [Copies -> Nat] /\ \A d \in Copies : sharing'[d] > 0 => sharing[d] > 0 \/ d = c
    BY <1>3, <2>1
  <2>5. \A d \in Copies : sharing'[d] > 0 => d <= Len(made')
    BY <1>3, <2>1, <2>3, <2>4
  <2>6. reads' \in Seq(1..Len(made')) /\ record' \in 0..Len(made')
    BY <1>2, <1>3, <2>1, <2>2
  <2>7. QED
    BY <1>1, <1>3, <2>1, <2>4, <2>5, <2>6 DEF PhoneTypes
<1>11. CASE ShareConnects \/ ShareFails
  <2>1. PICK c \in Copies :
          /\ sharing[c] > 0 /\ sharing' = [sharing EXCEPT ![c] = @ - 1]
          /\ UNCHANGED <<pclip, record, handled, denied, launched, throttled, reads>> /\ seen' = seen
    BY <1>11 DEF ShareConnects, ShareFails, phone, guard, autoSend, ghosts
  <2>2. sharing' \in [Copies -> Nat] /\ \A d \in Copies : sharing'[d] > 0 => sharing[d] > 0
    BY <1>3, <2>1
  <2>3. QED
    BY <1>1, <1>3, <2>1, <2>2 DEF PhoneTypes
<1>12. CASE PhoneRestarts
  <2>1. /\ handled' = 0 /\ record' = 0 /\ reads' = <<>> /\ seen' = {}
        /\ sharing' = [c \in Copies |-> 0] /\ pclip' = pclip
    BY <1>12 DEF PhoneRestarts
  <2>2. ~denied' /\ ~launched' /\ denied' \in BOOLEAN /\ launched' \in BOOLEAN /\ throttled' \in BOOLEAN
    BY <1>12 DEF PhoneRestarts
  <2>3. reads' \in Seq(1..Len(made'))
    BY <2>1
  <2>4. sharing' \in [Copies -> Nat] /\ \A c \in Copies : sharing'[c] = 0
    BY <2>1
  <2>5. handled' \in 0..stamps' /\ record' \in 0..Len(made')
    BY <1>2, <2>1
  <2>6. QED
    BY <1>3, <2>1, <2>2, <2>3, <2>4, <2>5 DEF PhoneTypes
<1>13. QED
  BY <1>4, <1>5, <1>6, <1>7, <1>8, <1>9, <1>10, <1>11, <1>12 DEF Next, LaptopStep

LEMMA NextGrows ==
  ASSUME MadeTypes, Next
  PROVE  /\ stamps' = stamps \/ Stamp
         /\ made' = made \/ \E side \in Sides : Copied(side)
         /\ faults' = faults \/ Fault
         /\ pauses' = pauses \/ (pauses < MaxPauses /\ pauses' = pauses + 1)
<1>1. CASE LaptopCopies \/ PhoneCopies
  BY <1>1 DEF LaptopCopies, PhoneCopies, pausing, Sides
<1>2. CASE ReadsCopy \/ ShareConnects
  BY <1>2 DEF ReadsCopy, ShareConnects, pausing, ghosts
<1>3. CASE \/ WatchFires \/ ReadsEcho \/ WatcherPublishes \/ Decrypted \/ Writes \/ Authenticate
           \/ LetIn \/ Deliver \/ PhoneWrites \/ Denial \/ ThrottleEnds \/ ActivityReads
           \/ AutoReadText \/ ShareArrives
  BY <1>3 DEF WatchFires, ReadsEcho, WatcherPublishes, Decrypted, Writes, Authenticate,
       LetIn, Deliver, PhoneWrites, Denial, ThrottleEnds, ActivityReads,
       AutoReadText, ShareArrives, pausing, ghosts
<1>4. CASE \/ ReadFails \/ WriteFails \/ WindowEnds \/ RelayRestarts \/ Drop \/ PhoneWriteFails
           \/ ShareFails \/ PhoneRestarts
  BY <1>4 DEF ReadFails, WriteFails, WindowEnds, RelayRestarts, Drop, PhoneWriteFails, ShareFails,
       PhoneRestarts, pausing, ghosts
<1>5. CASE LaptopPausesOrResumes \/ PhonePausesOrResumes
  BY <1>5 DEF LaptopPausesOrResumes, PhonePausesOrResumes, ghosts
<1>6. QED
  BY <1>1, <1>2, <1>3, <1>4, <1>5 DEF Next

LEMMA FlagsStay ==
  ASSUME TypeInv, Next
  PROVE  lpaused' \in BOOLEAN /\ ppaused' \in BOOLEAN /\ missed' \in BOOLEAN /\ crossed' \in BOOLEAN
<1>1. /\ MadeTypes /\ PoolTypes /\ lpaused \in BOOLEAN /\ ppaused \in BOOLEAN
      /\ missed \in BOOLEAN /\ crossed \in BOOLEAN
  BY DEF TypeInv, MadeTypes
<1>2. CASE WatcherPublishes
  <2>1. watcher.frame \in MadeFrame
    BY <1>2 DEF TypeInv, WatcherPublishes, LaptopTypes
  <2>2. missed' \in BOOLEAN
    BY <1>1, <1>2, <2>1, PublishMeans DEF WatcherPublishes
  <2>3. QED
    BY <1>1, <1>2, <2>2 DEF WatcherPublishes, pausing
<1>3. CASE ShareArrives
  <2>1. PICK f \in sent : Publish(f) /\ UNCHANGED <<pausing, crossed>>
    BY <1>3 DEF ShareArrives
  <2>2. f \in MadeFrame
    BY <1>1 DEF PoolTypes
  <2>3. missed' \in BOOLEAN
    BY <1>1, <2>1, <2>2, PublishMeans
  <2>4. QED
    BY <1>1, <2>1, <2>3 DEF pausing
<1>4. CASE \/ LaptopCopies \/ WatchFires \/ ReadsEcho \/ ReadsCopy \/ ReadFails \/ WriteFails
           \/ Authenticate \/ Drop \/ Deliver \/ PhoneCopies \/ PhoneWriteFails \/ Denial
           \/ ThrottleEnds \/ ActivityReads \/ AutoReadText \/ ShareConnects \/ ShareFails \/ PhoneRestarts
  <2>1. UNCHANGED <<lpaused, ppaused, missed, crossed>>
    BY <1>4 DEF LaptopCopies, WatchFires, ReadsEcho, ReadsCopy, ReadFails, WriteFails,
         Authenticate, Drop, Deliver, PhoneCopies, PhoneWriteFails, Denial,
         ThrottleEnds, ActivityReads, AutoReadText, ShareConnects, ShareFails, PhoneRestarts,
         Copied, pausing, ghosts
  <2>2. QED
    BY <1>1, <2>1
<1>5. CASE Decrypted
  <2>1. UNCHANGED <<lpaused, ppaused, missed>> /\ crossed' \in BOOLEAN
    BY <1>5 DEF Decrypted, pausing
  <2>2. QED
    BY <1>1, <2>1
<1>6. CASE Writes \/ WindowEnds
  <2>1. UNCHANGED <<lpaused, ppaused, missed>> /\ crossed' \in BOOLEAN
    BY <1>6 DEF Writes, WindowEnds, pausing
  <2>2. QED
    BY <1>1, <2>1
<1>7. CASE PhoneWrites
  <2>1. UNCHANGED <<lpaused, ppaused, missed>> /\ crossed' \in BOOLEAN
    BY <1>7 DEF PhoneWrites, pausing
  <2>2. QED
    BY <1>1, <2>1
<1>8. CASE LetIn
  <2>1. UNCHANGED <<lpaused, ppaused, crossed>> /\ missed' \in BOOLEAN
    BY <1>8 DEF LetIn, pausing
  <2>2. QED
    BY <1>1, <2>1
<1>9. CASE LaptopPausesOrResumes \/ PhonePausesOrResumes \/ RelayRestarts
  <2>1. UNCHANGED crossed /\ (missed' = missed \/ missed' = FALSE)
        /\ (lpaused' = lpaused \/ lpaused' = ~lpaused \/ lpaused' = FALSE)
        /\ (ppaused' = ppaused \/ ppaused' = ~ppaused)
    BY <1>9 DEF LaptopPausesOrResumes, PhonePausesOrResumes, RelayRestarts, ghosts
  <2>2. QED
    BY <1>1, <2>1
<1>10. QED
  BY <1>2, <1>3, <1>4, <1>5, <1>6, <1>7, <1>8, <1>9 DEF Next

LEMMA NextKeepsTypes == TypeInv /\ [Next]_vars => TypeInv'
<1> SUFFICES ASSUME TypeInv, [Next]_vars PROVE TypeInv'
  OBVIOUS
<1>1. MadeTypes /\ LaptopTypes /\ PoolTypes /\ PhoneTypes
  BY DEF TypeInv
<1>2. CASE Next
  <2>1. /\ stamps' = stamps \/ Stamp
        /\ made' = made \/ \E side \in Sides : Copied(side)
        /\ faults' = faults \/ Fault
        /\ pauses' = pauses \/ (pauses < MaxPauses /\ pauses' = pauses + 1)
    BY <1>1, <1>2, NextGrows
  <2>2. Grows /\ made' \in Seq(Sides) /\ Len(made') <= MaxCopies /\ stamps' \in 0..MaxStamps
    BY <1>1, <2>1, Growth
  <2>3. faults' \in 0..MaxFaults /\ pauses' \in 0..MaxPauses
    BY <1>1, <2>1, ClipboardAssumption DEF MadeTypes, Fault
  <2>4. lpaused' \in BOOLEAN /\ ppaused' \in BOOLEAN /\ missed' \in BOOLEAN /\ crossed' \in BOOLEAN
    BY <1>2, FlagsStay
  <2>5. MadeTypes'
    BY <2>2, <2>3, <2>4 DEF MadeTypes
  <2>6. LaptopTypes'
    <3>1. CASE LaptopStep
      BY <2>2, <3>1, LaptopKeepsTypes
    <3>2. CASE RelayRestarts
      <4>1. changes' = 0 /\ watcher' = Watching /\ tail' = <<>> /\ incoming' = 0 /\ clip' = clip
        BY <3>2 DEF RelayRestarts
      <4>2. tail' \in Seq(0..Len(made')) /\ DOMAIN tail' = {}
        BY <4>1
      <4>3. clip' \in 0..Len(made') /\ incoming' \in 0..Len(made')
        BY <1>1, <2>2, <4>1 DEF LaptopTypes, Grows
      <4>4. /\ watcher' \in [pc : {"idle", "reading", "encrypting"}, frame : MadeFrame' \cup {Nothing}]
            /\ watcher'.pc = "idle" /\ watcher'.frame = Nothing
        BY <4>1 DEF Watching
      <4>5. QED
        BY <4>1, <4>2, <4>3, <4>4 DEF LaptopTypes
    <3>3. CASE ~(LaptopStep \/ RelayRestarts)
      <4>1. UNCHANGED <<clip, changes, watcher, tail, incoming>>
        BY <1>2, <3>3 DEF Next, LaptopStep, LaptopPausesOrResumes, Authenticate, LetIn, Drop, Deliver,
             PhoneCopies, PhoneWrites, PhoneWriteFails, Denial, ThrottleEnds, ActivityReads,
             AutoReadText, ShareConnects, ShareFails, ShareArrives, PhonePausesOrResumes,
             PhoneRestarts, laptop
      <4>2. QED
        BY <1>1, <2>2, <4>1, LaptopTypesStay
    <3>4. QED
      BY <3>1, <3>2, <3>3
  <2>7. PoolTypes' /\ PhoneTypes'
    BY <1>2, <2>2, PoolKeepsTypes, PhoneKeepsTypes
  <2>8. QED
    BY <2>5, <2>6, <2>7 DEF TypeInv
<1>3. CASE UNCHANGED vars
  <2>1. UNCHANGED <<clip, changes, watcher, tail, incoming, decrypting, pool, link, captured,
                    toPhone, pclip, handled, record, receiving, denied, throttled, launched, reads,
                    sharing, sent, lpaused, ppaused, pauses, made, seen, missed, crossed, stamps, faults>>
    BY <1>3 DEF vars, laptop, wire, guard, autoSend, phone, shares, pausing, ghosts
  <2>2. Grows
    BY <1>1, <2>1, Growth
  <2>3. LaptopTypes' /\ PoolTypes' /\ PhoneTypes'
    BY <1>1, <2>1, <2>2, LaptopTypesStay, PoolTypesStay, PhoneTypesStay
  <2>4. MadeTypes'
    BY <1>1, <2>1 DEF MadeTypes
  <2>5. QED
    BY <2>3, <2>4 DEF TypeInv
<1>4. QED
  BY <1>2, <1>3

LEMMA TypesMeanTypeOK == TypeInv => ClipTypeOK
<1> SUFFICES ASSUME TypeInv PROVE ClipTypeOK
  OBVIOUS
<1>1. MadeTypes /\ LaptopTypes /\ PoolTypes /\ PhoneTypes
  BY DEF TypeInv
<1>2. /\ Len(made) \in Nat /\ Len(made) <= MaxCopies /\ MaxCopies \in Nat
      /\ stamps \in Nat /\ stamps <= MaxStamps /\ MaxStamps \in Nat
  BY <1>1, ClipboardAssumption DEF MadeTypes
<1>3. /\ 0..Len(made) \subseteq 0..MaxCopies /\ 1..Len(made) \subseteq Copies
      /\ 0..stamps \subseteq 0..MaxStamps
  BY <1>2 DEF Copies
<1>4. MadeFrame \subseteq Frame /\ Nothing \in Frame
  BY <1>2 DEF MadeFrame, Frame, Sides, Nothing
<1> HIDE DEF MadeFrame, Frame, Nothing
<1>5. /\ \A s \in Seq(MadeFrame) : s \in Seq(Frame)
      /\ \A s \in Seq(0..Len(made)) : s \in Seq(0..MaxCopies)
      /\ \A s \in Seq(1..Len(made)) : s \in Seq(Copies)
  BY <1>3, <1>4, LargerSeq
<1>6. /\ clip \in 0..MaxCopies /\ changes \in Nat
      /\ tail \in Seq(0..MaxCopies) /\ incoming \in 0..MaxCopies
      /\ watcher.pc = "reading" <=> \E i \in DOMAIN tail : tail[i] = READ
  BY <1>1, <1>3, <1>5 DEF LaptopTypes
<1>7. watcher \in [pc : {"idle", "reading", "encrypting"}, frame : Frame]
  BY <1>1, <1>4 DEF LaptopTypes
<1>8. /\ pool \in Frame /\ captured \in Frame /\ toPhone \in Seq(Frame)
      /\ link \in {"down", "proving", "up"}
      /\ captured # Nothing => link = "proving"
      /\ toPhone # <<>> => link = "up"
      /\ sent \subseteq Frame /\ decrypting \subseteq Frame /\ receiving \subseteq Frame
  BY <1>1, <1>4, <1>5 DEF PoolTypes
<1>9. /\ pclip \in 0..MaxCopies /\ record \in 0..MaxCopies /\ handled \in 0..MaxStamps
      /\ reads \in Seq(Copies) /\ sharing \in [Copies -> Nat] /\ seen \subseteq 0..MaxStamps
  BY <1>1, <1>3, <1>5 DEF PhoneTypes
<1>10. denied \in BOOLEAN /\ throttled \in BOOLEAN /\ launched \in BOOLEAN
  BY <1>1 DEF PhoneTypes
<1>11. QED
  BY <1>1, <1>6, <1>7, <1>8, <1>9, <1>10 DEF ClipTypeOK, MadeTypes, Sides

(* The fields keep their types, a read is queued just while the watcher    *)
(* waits for it, and payloads are under way only on a connection let in.   *)
THEOREM ClipTypesHold == Spec => []ClipTypeOK
<1>1. Spec => []TypeInv
  BY InitEstablishesTypes, NextKeepsTypes, PTL DEF Spec
<1>2. QED
  BY <1>1, TypesMeanTypeOK, PTL

-----------------------------------------------------------------------------
(* What the phone has handled is not younger than the pool's frame, nor     *)
(* than any that is under way to it; those are in the order of their        *)
(* stamps.  While the pool is empty, whatever may be published next is      *)
(* younger still.                                                           *)
HandledInv ==
  /\ seen \subseteq 0..handled
  /\ pool # Nothing => handled <= pool.ts
  /\ pool = Nothing => /\ \A f \in sent : handled < f.ts
                       /\ watcher.pc = "encrypting" => handled < watcher.frame.ts
  /\ captured # Nothing => pool # Nothing /\ handled <= captured.ts /\ captured.ts <= pool.ts
  /\ \A i \in DOMAIN toPhone : /\ pool # Nothing
                               /\ handled <= toPhone[i].ts /\ toPhone[i].ts <= pool.ts
  /\ \A i, k \in DOMAIN toPhone : i < k => toPhone[i].ts <= toPhone[k].ts

LEMMA HandledStays ==
  ASSUME HandledInv, UNCHANGED <<handled, seen, pool, captured, toPhone>>,
         sent' \subseteq sent, watcher'.pc = "encrypting" => watcher' = watcher
  PROVE  HandledInv'
BY DEF HandledInv

LEMMA StampsAreNats ==
  ASSUME TypeInv
  PROVE  /\ handled \in Nat /\ stamps \in Nat /\ handled <= stamps
         /\ \A f \in MadeFrame \cup {Nothing} : f.ts \in Nat
         /\ pool.ts \in Nat /\ captured.ts \in Nat /\ watcher.frame.ts \in Nat
         /\ \A i \in DOMAIN toPhone : toPhone[i].ts \in Nat /\ toPhone[i] \in MadeFrame
<1>1. /\ pool \in MadeFrame \cup {Nothing} /\ captured \in MadeFrame \cup {Nothing}
      /\ watcher.frame \in MadeFrame \cup {Nothing}
      /\ toPhone \in Seq(MadeFrame)
  BY DEF TypeInv, PoolTypes, LaptopTypes
<1>2. handled \in Nat /\ stamps \in Nat /\ handled <= stamps
  BY DEF TypeInv, PhoneTypes, MadeTypes
<1>3. \A f \in MadeFrame \cup {Nothing} : f.ts \in Nat
  BY <1>2 DEF MadeFrame, Nothing
<1> HIDE DEF MadeFrame
<1>4. \A i \in DOMAIN toPhone : toPhone[i] \in MadeFrame
  BY <1>1
<1>5. QED
  BY <1>1, <1>2, <1>3, <1>4

LEMMA PublishKeepsHandled ==
  ASSUME TypeInv, HandledInv, NEW f \in MadeFrame, Publish(f), pool = Nothing => handled < f.ts,
         UNCHANGED <<handled, seen, captured>>,
         sent' \subseteq sent, watcher'.pc = "encrypting" => watcher' = watcher
  PROVE  HandledInv'
<1>1. /\ pool' = pool \/ (pool' = f /\ f.ts >= pool.ts)
      /\ \/ toPhone' = toPhone
         \/ toPhone' = Append(toPhone, f) /\ pool' = f
  BY PublishMeans DEF TypeInv
<1>2. /\ handled \in Nat /\ f.ts \in Nat /\ pool.ts \in Nat /\ captured.ts \in Nat /\ f # Nothing
      /\ \A i \in DOMAIN toPhone : toPhone[i].ts \in Nat
      /\ toPhone \in Seq(MadeFrame)
  BY StampsAreNats, FrameParts DEF TypeInv, PoolTypes
<1>3. pool' # Nothing => handled <= pool'.ts
  <2>1. CASE pool' = pool
    BY <2>1 DEF HandledInv
  <2>2. CASE pool' = f /\ f.ts >= pool.ts
    BY <1>2, <2>2 DEF HandledInv
  <2>3. QED
    BY <1>1, <2>1, <2>2
<1>4. pool # Nothing => pool' # Nothing /\ pool.ts <= pool'.ts /\ pool'.ts \in Nat
  BY <1>1, <1>2
<1>5. pool' = Nothing => pool = Nothing
  BY <1>1, <1>2
<1>6. captured' # Nothing => pool' # Nothing /\ handled' <= captured'.ts /\ captured'.ts <= pool'.ts
  BY <1>2, <1>4 DEF HandledInv
<1>7. \A i \in DOMAIN toPhone : /\ pool' # Nothing
                                /\ handled <= toPhone[i].ts /\ toPhone[i].ts <= pool'.ts
  BY <1>2, <1>4 DEF HandledInv
<1>8. /\ \A i \in DOMAIN toPhone' : /\ pool' # Nothing
                                    /\ handled <= toPhone'[i].ts /\ toPhone'[i].ts <= pool'.ts
      /\ \A i, k \in DOMAIN toPhone' : i < k => toPhone'[i].ts <= toPhone'[k].ts
  <2>1. CASE toPhone' = toPhone
    BY <1>7, <2>1 DEF HandledInv
  <2>2. CASE toPhone' = Append(toPhone, f) /\ pool' = f
    <3> DEFINE n == Len(toPhone) + 1
    <3>1. /\ toPhone'[n] = f
          /\ \A i \in DOMAIN toPhone : toPhone'[i] = toPhone[i] /\ i < n
          /\ \A i \in DOMAIN toPhone' : i \in DOMAIN toPhone \/ i = n
          /\ n \in Nat
      BY <1>2, <2>2, AppendElements
    <3> HIDE DEF n
    <3>2. handled <= f.ts /\ pool' # Nothing /\ f.ts <= pool'.ts
      BY <1>2, <1>3, <2>2
    <3>3. \A i \in DOMAIN toPhone' : handled <= toPhone'[i].ts /\ toPhone'[i].ts <= pool'.ts
      BY <1>7, <3>1, <3>2
    <3>4. ASSUME NEW i \in DOMAIN toPhone', NEW k \in DOMAIN toPhone', i < k
          PROVE  toPhone'[i].ts <= toPhone'[k].ts
      <4>1. CASE k \in DOMAIN toPhone
        <5>1. i # n
          <6>1. k < n /\ i \in Nat /\ k \in Nat
            BY <1>2, <2>2, <3>1, <4>1
          <6>2. QED
            BY <3>1, <3>4, <6>1
        <5>2. QED
          BY <3>1, <3>4, <4>1, <5>1 DEF HandledInv
      <4>2. CASE k = n
        <5>1. i \in DOMAIN toPhone
          <6>1. n \in Nat /\ i < n
            BY <3>1, <3>4, <4>2
          <6>2. QED
            BY <3>1, <6>1
        <5>2. QED
          BY <1>7, <2>2, <3>1, <4>2, <5>1
      <4>3. QED
        BY <3>1, <4>1, <4>2
    <3>5. QED
      BY <3>2, <3>3, <3>4
  <2>3. QED
    BY <1>1, <2>1, <2>2
<1>9. seen' \subseteq 0..handled'
  BY DEF HandledInv
<1>10. pool' = Nothing => /\ \A g \in sent' : handled' < g.ts
                          /\ watcher'.pc = "encrypting" => handled' < watcher'.frame.ts
  BY <1>5 DEF HandledInv
<1>11. QED
  BY <1>3, <1>6, <1>8, <1>9, <1>10 DEF HandledInv

LEMMA DeliverKeepsHandled ==
  ASSUME TypeInv, HandledInv, Deliver
  PROVE  /\ HandledInv'
         /\ \A f \in receiving' \ receiving : f.ts \notin seen
<1> DEFINE f == Head(toPhone)
<1>1. /\ toPhone # <<>> /\ toPhone' = Tail(toPhone)
      /\ \/ f.ts = handled /\ UNCHANGED <<handled, receiving, seen>>
         \/ /\ f.ts # handled /\ handled' = f.ts /\ seen' = seen \cup {f.ts}
            /\ receiving' \subseteq receiving \cup {f}
      /\ UNCHANGED <<pool, captured, sent, watcher>>
  BY DEF Deliver, Handled, laptop, shares
<1>2. toPhone \in Seq(MadeFrame) /\ captured = Nothing
  BY <1>1 DEF TypeInv, PoolTypes
<1>3. /\ f = toPhone[1] /\ 1 \in DOMAIN toPhone
      /\ \A i \in DOMAIN toPhone' : i \in Nat /\ i >= 1 /\ i + 1 \in DOMAIN toPhone /\ toPhone'[i] = toPhone[i + 1]
  BY <1>1, <1>2, TailElements
<1>4. /\ handled \in Nat /\ pool.ts \in Nat /\ f.ts \in Nat
      /\ \A i \in DOMAIN toPhone : toPhone[i].ts \in Nat
  BY <1>3, StampsAreNats
<1>5. handled <= f.ts /\ f.ts <= pool.ts /\ pool # Nothing
  BY <1>3 DEF HandledInv
<1>6. \A i \in DOMAIN toPhone' : toPhone'[i].ts \in Nat /\ f.ts <= toPhone'[i].ts /\ toPhone'[i].ts <= pool.ts
  <2>1. ASSUME NEW i \in DOMAIN toPhone'
        PROVE  toPhone'[i].ts \in Nat /\ f.ts <= toPhone'[i].ts /\ toPhone'[i].ts <= pool.ts
    <3>1. i + 1 \in DOMAIN toPhone /\ 1 < i + 1 /\ toPhone'[i] = toPhone[i + 1]
      BY <1>3
    <3>2. QED
      BY <1>3, <1>4, <3>1 DEF HandledInv
  <2>2. QED
    BY <2>1
<1>7. \A i, k \in DOMAIN toPhone' : i < k => toPhone'[i].ts <= toPhone'[k].ts
  <2>1. ASSUME NEW i \in DOMAIN toPhone', NEW k \in DOMAIN toPhone', i < k
        PROVE  toPhone'[i].ts <= toPhone'[k].ts
    <3>1. i + 1 < k + 1
      BY <1>3, <2>1
    <3>2. QED
      BY <1>3, <3>1 DEF HandledInv
  <2>2. QED
    BY <2>1
<1> HIDE DEF f
<1>8. CASE f.ts = handled /\ UNCHANGED <<handled, receiving, seen>>
  <2>1. HandledInv'
    BY <1>1, <1>2, <1>5, <1>6, <1>7, <1>8 DEF HandledInv
  <2>2. QED
    BY <1>8, <2>1
<1>9. CASE /\ f.ts # handled /\ handled' = f.ts /\ seen' = seen \cup {f.ts}
           /\ receiving' \subseteq receiving \cup {f}
  <2>1. seen' \subseteq 0..handled' /\ f.ts \notin seen
    <3> DEFINE t == f.ts
    <3>1. t \in Nat /\ handled < t /\ handled' = t /\ seen' = seen \cup {t}
      BY <1>4, <1>5, <1>9
    <3> HIDE DEF t
    <3>2. \A s \in seen : s \in 0..t /\ s # t
      BY <1>4, <3>1 DEF HandledInv
    <3>3. seen' \subseteq 0..t /\ t \notin seen
      BY <3>1, <3>2
    <3>4. QED
      BY <3>1, <3>3 DEF t
  <2>2. HandledInv'
    BY <1>1, <1>2, <1>5, <1>6, <1>7, <1>9, <2>1 DEF HandledInv
  <2>3. QED
    BY <1>9, <2>1, <2>2
<1>10. QED
  BY <1>1, <1>8, <1>9

LEMMA NextKeepsHandled == TypeInv /\ HandledInv /\ [Next]_vars => HandledInv'
<1> SUFFICES ASSUME TypeInv, HandledInv, [Next]_vars PROVE HandledInv'
  OBVIOUS
<1>1. /\ handled \in Nat /\ stamps \in Nat /\ handled <= stamps /\ pool.ts \in Nat
      /\ captured.ts \in Nat
  BY StampsAreNats
<1>2. CASE \/ LaptopCopies \/ ReadsEcho \/ Decrypted \/ Writes \/ ReadFails \/ WriteFails
           \/ WindowEnds \/ WatchFires \/ LaptopPausesOrResumes
  <2>1. UNCHANGED <<handled, seen, pool, captured, toPhone, sent>>
    BY <1>2 DEF LaptopCopies, ReadsEcho, Decrypted, Writes, ReadFails, WriteFails, WindowEnds,
         WatchFires, LaptopPausesOrResumes, Copied, wire, phone, guard, shares, ghosts
  <2>2. watcher'.pc = "encrypting" => watcher' = watcher
    <3>1. CASE WatchFires
      <4>1. watcher' = watcher \/ watcher' = [watcher EXCEPT !.pc = "reading"]
        BY <3>1 DEF WatchFires
      <4>2. watcher \in [pc : {"idle", "reading", "encrypting"}, frame : MadeFrame \cup {Nothing}]
        BY DEF TypeInv, LaptopTypes
      <4> HIDE DEF MadeFrame
      <4>3. QED
        BY <4>1, <4>2
    <3>2. CASE ~WatchFires
      <4>1. watcher' = watcher \/ watcher' = Watching
        BY <1>2, <3>2 DEF LaptopCopies, ReadsEcho, Decrypted, Writes, ReadFails, WriteFails,
             WindowEnds, LaptopPausesOrResumes, laptop
      <4>2. QED
        BY <4>1 DEF Watching
    <3>3. QED
      BY <3>1, <3>2
  <2>3. QED
    BY <2>1, <2>2, HandledStays
<1>3. CASE ReadsCopy
  <2> DEFINE f == [copy |-> clip, origin |-> "laptop", ts |-> stamps + 1]
  <2>1. /\ watcher' = [pc |-> "encrypting", frame |-> f]
        /\ UNCHANGED <<handled, seen, pool, captured, toPhone, sent>>
    BY <1>3 DEF ReadsCopy, wire, phone, guard, shares, ghosts
  <2>2. watcher'.frame.ts = stamps + 1 /\ handled < stamps + 1
    BY <1>1, <2>1
  <2>3. QED
    BY <2>1, <2>2 DEF HandledInv
<1>4. CASE WatcherPublishes
  <2>1. watcher.frame \in MadeFrame
    BY <1>4 DEF WatcherPublishes, TypeInv, LaptopTypes
  <2>2. /\ Publish(watcher.frame) /\ UNCHANGED <<handled, seen, captured, sent>>
        /\ watcher' = Watching /\ watcher.pc = "encrypting"
    BY <1>4 DEF WatcherPublishes, phone, guard, shares
  <2>3. pool = Nothing => handled < watcher.frame.ts
    BY <2>2 DEF HandledInv
  <2>4. watcher'.pc # "encrypting"
    BY <2>2 DEF Watching
  <2>5. QED
    BY <2>1, <2>2, <2>3, <2>4, PublishKeepsHandled
<1>5. CASE ShareArrives
  <2>1. PICK f \in sent : /\ Publish(f) /\ sent' = sent \ {f}
                          /\ UNCHANGED <<handled, seen, captured, watcher>>
    BY <1>5 DEF ShareArrives, phone, guard
  <2>2. f \in MadeFrame
    BY DEF TypeInv, PoolTypes
  <2>3. pool = Nothing => handled < f.ts
    BY DEF HandledInv
  <2>4. QED
    BY <2>1, <2>2, <2>3, PublishKeepsHandled
<1>6. CASE RelayRestarts \/ Drop
  <2>1. /\ UNCHANGED <<handled, seen>> /\ captured' = Nothing /\ DOMAIN toPhone' = {}
        /\ \/ pool' = Nothing /\ sent' = {} /\ watcher' = Watching
           \/ UNCHANGED <<pool, sent, watcher>>
    BY <1>6 DEF RelayRestarts, Drop, laptop, phone, guard, shares, ghosts
  <2>2. Watching.pc # "encrypting"
    BY DEF Watching
  <2>3. QED
    BY <2>1, <2>2 DEF HandledInv
<1>7. CASE Authenticate
  <2>1. /\ captured' = pool
        /\ UNCHANGED <<handled, seen, pool, toPhone, sent, watcher>>
    BY <1>7 DEF Authenticate, laptop, phone, guard, shares, ghosts
  <2>2. QED
    BY <1>1, <2>1 DEF HandledInv
<1>8. CASE LetIn
  <2>1. /\ captured' = Nothing /\ UNCHANGED <<handled, seen, pool, sent, watcher>>
        /\ \/ toPhone' = <<captured>> /\ captured # Nothing
           \/ toPhone' = <<>>
    BY <1>8 DEF LetIn, laptop, phone, guard, shares
  <2>2. \A i \in DOMAIN toPhone' : /\ pool # Nothing
                                   /\ handled <= toPhone'[i].ts /\ toPhone'[i].ts <= pool.ts
    <3>1. CASE toPhone' = <<captured>> /\ captured # Nothing
      <4>1. \A i \in DOMAIN toPhone' : toPhone'[i] = captured
        BY <3>1
      <4>2. QED
        BY <3>1, <4>1 DEF HandledInv
    <3>2. CASE toPhone' = <<>>
      BY <3>2
    <3>3. QED
      BY <2>1, <3>1, <3>2
  <2>3. \A i, k \in DOMAIN toPhone' : ~(i < k)
    BY <2>1
  <2>4. QED
    BY <2>1, <2>2, <2>3 DEF HandledInv
<1>9. CASE Deliver
  BY <1>9, DeliverKeepsHandled
<1>10. CASE \/ PhoneCopies \/ PhoneWrites \/ PhoneWriteFails \/ Denial \/ ThrottleEnds
            \/ ActivityReads \/ AutoReadText \/ ShareFails \/ PhonePausesOrResumes
  <2>1. UNCHANGED <<handled, seen, pool, captured, toPhone, sent, watcher>>
    BY <1>10 DEF PhoneCopies, PhoneWrites, PhoneWriteFails, Denial, ThrottleEnds,
         ActivityReads, AutoReadText, ShareFails, PhonePausesOrResumes, Copied, laptop, wire,
         phone, guard, shares, ghosts
  <2>2. QED
    BY <2>1, HandledStays
<1>11. CASE ShareConnects
  <2>1. PICK c \in Copies : /\ sent' = sent \cup {[copy |-> c, origin |-> "phone", ts |-> stamps + 1]}
                            /\ UNCHANGED <<handled, seen, pool, captured, toPhone, watcher>>
    BY <1>11 DEF ShareConnects, laptop, wire, phone, guard, ghosts
  <2>2. pool = Nothing => \A f \in sent' : handled < f.ts
    BY <1>1, <2>1 DEF HandledInv
  <2>3. QED
    BY <2>1, <2>2 DEF HandledInv
<1>12. CASE PhoneRestarts
  <2>1. /\ handled' = 0 /\ seen' = {} /\ captured' = Nothing /\ DOMAIN toPhone' = {}
        /\ UNCHANGED <<pool, sent, watcher>>
    BY <1>12 DEF PhoneRestarts, laptop
  <2>2. /\ \A f \in sent : 0 < f.ts
        /\ watcher.pc = "encrypting" => 0 < watcher.frame.ts
    <3>1. /\ sent \subseteq MadeFrame
          /\ watcher.pc = "encrypting" => watcher.frame \in MadeFrame
      BY DEF TypeInv, PoolTypes, LaptopTypes
    <3>2. \A f \in MadeFrame : 0 < f.ts
      BY <1>1 DEF MadeFrame
    <3>3. QED
      BY <3>1, <3>2
  <2>3. QED
    BY <1>1, <2>1, <2>2 DEF HandledInv
<1>13. CASE UNCHANGED vars
  <2>1. UNCHANGED <<handled, seen, pool, captured, toPhone, sent, watcher>>
    BY <1>13 DEF vars, laptop, wire, guard, phone, shares, ghosts
  <2>2. QED
    BY <2>1, HandledStays
<1>14. QED
  BY <1>2, <1>3, <1>4, <1>5, <1>6, <1>7, <1>8, <1>9, <1>10, <1>11, <1>12, <1>13 DEF Next

LEMMA InitEstablishesHandled == Init => HandledInv
<1> SUFFICES ASSUME Init PROVE HandledInv
  OBVIOUS
<1>1. /\ seen = {} /\ pool = Nothing /\ sent = {} /\ watcher = Watching /\ captured = Nothing
      /\ toPhone = <<>>
  BY DEF Init
<1>2. watcher.pc # "encrypting" /\ DOMAIN toPhone = {}
  BY <1>1 DEF Watching
<1>3. QED
  BY <1>1, <1>2 DEF HandledInv

LEMMA OnlyDeliverReceives ==
  ASSUME Next, ~Deliver
  PROVE  receiving' \subseteq receiving
BY DEF Next, LaptopCopies, WatchFires, ReadsEcho, ReadsCopy, WatcherPublishes, Decrypted, Writes,
  ReadFails, WriteFails, WindowEnds, LaptopPausesOrResumes, RelayRestarts, Authenticate, LetIn,
  Drop, PhoneCopies, PhoneWrites, PhoneWriteFails, Denial, ThrottleEnds, ActivityReads,
  AutoReadText, ShareConnects, ShareFails, ShareArrives, PhonePausesOrResumes, PhoneRestarts, phone

(* One process of the phone takes a laptop copy at most once: the replay   *)
(* after a reconnect neither brings back what the pause left off nor       *)
(* writes over what was copied on the phone since (_shouldHandleFrame).    *)
THEOREM CopiesAreAppliedOnce == Spec => AppliedOnce
<1>1. TypeInv /\ HandledInv /\ [Next]_vars => [\A f \in receiving' \ receiving : f.ts \notin seen]_vars
  <2> SUFFICES ASSUME TypeInv, HandledInv, Next
               PROVE  \A f \in receiving' \ receiving : f.ts \notin seen
    OBVIOUS
  <2>1. CASE Deliver
    BY <2>1, DeliverKeepsHandled
  <2>2. CASE ~Deliver
    BY <2>2, OnlyDeliverReceives
  <2>3. QED
    BY <2>1, <2>2
<1>2. QED
  BY <1>1, InitEstablishesTypes, NextKeepsTypes, InitEstablishesHandled, NextKeepsHandled, PTL
  DEF Spec, AppliedOnce

-----------------------------------------------------------------------------
From(c, side) == c # 0 /\ made[c] = side

(* A change of the laptop's clipboard is still to be read.                  *)
Unread == changes > 0 \/ watcher.pc = "reading"

Frames ==
  {pool, captured, watcher.frame} \cup sent \cup decrypting \cup receiving
    \cup {toPhone[i] : i \in DOMAIN toPhone}

(* While a copy of the phone is on the laptop's clipboard and not yet read, *)
(* its record is there, and it is one change; a write that is still queued  *)
(* is the one recorded, and what is to be read meanwhile was made here.     *)
LaptopEcho ==
  /\ From(clip, "phone") /\ Unread =>
       incoming = clip /\ changes <= 1 /\ ~(changes > 0 /\ watcher.pc = "reading")
  /\ \A i \in DOMAIN tail : tail[i] # READ => incoming = tail[i] /\ From(tail[i], "phone")
  /\ \A i \in DOMAIN tail : tail[i] # READ /\ Unread => From(clip, "laptop")
  /\ \A i, k \in DOMAIN tail : tail[i] # READ /\ tail[k] # READ => i = k

(* While a copy of the laptop is on the phone's clipboard and a denial or a *)
(* launched read is about it, its record is there and it is read once; a    *)
(* text of the laptop that was read is the one recorded.                    *)
PhoneEcho ==
  /\ record # 0 => From(record, "laptop")
  /\ From(pclip, "laptop") /\ (denied \/ launched) =>
       /\ record = pclip /\ ~(denied /\ launched)
       /\ \A i \in DOMAIN reads : From(reads[i], "phone")
  /\ \A i \in DOMAIN reads : From(reads[i], "laptop") => reads[i] = record
  /\ \A i, k \in DOMAIN reads : From(reads[i], "laptop") /\ From(reads[k], "laptop") => i = k
  /\ \A c \in Copies : sharing[c] > 0 => From(c, "phone")

Sided == \A f \in Frames : OnItsSide(f)

EchoInv == ~crossed => LaptopEcho /\ PhoneEcho /\ Sided

LEMMA FromStays ==
  ASSUME Grows, NEW c \in 0..Len(made), NEW side
  PROVE  (c # 0 /\ made'[c] = side) <=> From(c, side)
<1>1. c # 0 => c \in 1..Len(made)
  BY DEF Grows
<1>2. QED
  BY <1>1 DEF Grows, From

LEMMA SidesAreTwo ==
  ASSUME TypeInv, NEW c \in 1..Len(made)
  PROVE  /\ From(c, "laptop") \/ From(c, "phone")
         /\ ~(From(c, "laptop") /\ From(c, "phone"))
<1>1. made[c] \in Sides /\ c # 0
  BY DEF TypeInv, MadeTypes
<1>2. QED
  BY <1>1 DEF From, Sides

LEMMA FramesAreTyped == TypeInv => Frames \subseteq MadeFrame \cup {Nothing}
<1> SUFFICES ASSUME TypeInv PROVE Frames \subseteq MadeFrame \cup {Nothing}
  OBVIOUS
<1>1. /\ pool \in MadeFrame \cup {Nothing} /\ captured \in MadeFrame \cup {Nothing}
      /\ watcher.frame \in MadeFrame \cup {Nothing}
      /\ sent \subseteq MadeFrame /\ decrypting \subseteq MadeFrame /\ receiving \subseteq MadeFrame
      /\ toPhone \in Seq(MadeFrame)
  BY DEF TypeInv, PoolTypes, LaptopTypes
<1> HIDE DEF MadeFrame
<1>2. {toPhone[i] : i \in DOMAIN toPhone} \subseteq MadeFrame
  BY <1>1
<1>3. QED
  BY <1>1, <1>2 DEF Frames

LEMMA SidedStays ==
  ASSUME TypeInv, Grows, Sided, NEW f \in Frames \cup {Nothing}
  PROVE  OnItsSide(f)'
<1>1. CASE f = Nothing
  BY <1>1 DEF OnItsSide
<1>2. CASE f # Nothing
  <2>1. f \in MadeFrame /\ made[f.copy] = f.origin
    BY <1>2, FramesAreTyped DEF Sided, OnItsSide
  <2>2. f.copy \in 1..Len(made)
    BY <2>1, FrameParts
  <2>3. QED
    BY <2>1, <2>2 DEF OnItsSide, Grows
<1>3. QED
  BY <1>1, <1>2

LEMMA FewerFrames ==
  ASSUME TypeInv, Grows, Sided, Frames' \subseteq Frames \cup {Nothing}
  PROVE  Sided'
BY SidedStays DEF Sided

LEMMA LaptopEchoStays ==
  ASSUME TypeInv, Grows, LaptopEcho, UNCHANGED <<clip, tail, incoming>>,
         changes' \in Nat, changes' <= changes, watcher'.pc = "reading" => watcher.pc = "reading"
  PROVE  LaptopEcho'
<1>1. /\ clip \in 0..Len(made)
      /\ \A i \in DOMAIN tail : tail[i] \in 0..Len(made)
  BY DEF TypeInv, LaptopTypes
<1>2. \A side \in Sides :
        /\ From(clip, side)' <=> From(clip, side)
        /\ \A i \in DOMAIN tail' : From(tail[i], side)' <=> From(tail[i], side)
  BY <1>1, FromStays DEF From
<1>3. "phone" \in Sides /\ "laptop" \in Sides
  BY DEF Sides
<1>4. changes \in Nat
  BY DEF TypeInv, LaptopTypes
<1>5. Unread' => Unread
  BY <1>4 DEF Unread
<1>6. /\ changes <= 1 => changes' <= 1
      /\ ~(changes > 0 /\ watcher.pc = "reading") => ~(changes' > 0 /\ watcher'.pc = "reading")
  BY <1>4
<1>7. From(clip, "phone")' /\ Unread' =>
        incoming' = clip' /\ changes' <= 1 /\ ~(changes' > 0 /\ watcher'.pc = "reading")
  BY <1>2, <1>3, <1>5, <1>6 DEF LaptopEcho
<1>8. QED
  BY <1>2, <1>3, <1>5, <1>7 DEF LaptopEcho

LEMMA PhoneEchoStays ==
  ASSUME TypeInv, Grows, PhoneEcho, UNCHANGED <<pclip, record, reads, denied, launched>>,
         \A c \in Copies : sharing'[c] > 0 => sharing[c] > 0
  PROVE  PhoneEcho'
<1>1. /\ pclip \in 0..Len(made) /\ record \in 0..Len(made)
      /\ \A i \in DOMAIN reads : reads[i] \in 0..Len(made)
      /\ \A c \in Copies : sharing[c] > 0 => c \in 0..Len(made)
  <2>1. reads \in Seq(1..Len(made)) /\ Len(made) \in Nat
    BY DEF TypeInv, PhoneTypes, MadeTypes
  <2>2. QED
    BY <2>1 DEF TypeInv, PhoneTypes, Copies
<1>2. \A side \in Sides :
        /\ From(pclip, side)' <=> From(pclip, side)
        /\ From(record, side)' <=> From(record, side)
        /\ \A i \in DOMAIN reads' : From(reads[i], side)' <=> From(reads[i], side)
        /\ \A c \in Copies : sharing[c] > 0 => (From(c, side)' <=> From(c, side))
  BY <1>1, FromStays DEF From
<1>3. "phone" \in Sides /\ "laptop" \in Sides
  BY DEF Sides
<1>4. QED
  BY <1>2, <1>3 DEF PhoneEcho

(* What the queue holds once its head is taken, or another joins it.        *)
LEMMA FewerWrites ==
  ASSUME TypeInv, LaptopEcho, tail # <<>>, tail' = Tail(tail)
  PROVE  /\ \A i \in DOMAIN tail' : /\ i + 1 \in DOMAIN tail /\ i + 1 # 1 /\ 1 \in DOMAIN tail
                                    /\ tail'[i] = tail[i + 1] /\ tail'[i] \in 0..Len(made)
         /\ \A i \in DOMAIN tail' : tail'[i] # READ => incoming = tail'[i] /\ From(tail'[i], "phone")
         /\ \A i, k \in DOMAIN tail' : tail'[i] # READ /\ tail'[k] # READ => i = k
         /\ Head(tail) # READ => \A i \in DOMAIN tail' : tail'[i] = READ
         /\ Head(tail) = tail[1] /\ 1 \in DOMAIN tail
<1>1. tail \in Seq(0..Len(made))
  BY DEF TypeInv, LaptopTypes
<1>2. /\ Head(tail) = tail[1] /\ 1 \in DOMAIN tail /\ tail' \in Seq(0..Len(made))
      /\ \A i \in DOMAIN tail' : i \in Nat /\ i >= 1 /\ i + 1 \in DOMAIN tail /\ tail'[i] = tail[i + 1]
  BY <1>1, TailElements
<1>3. \A i \in DOMAIN tail' : /\ i + 1 \in DOMAIN tail /\ i + 1 # 1 /\ 1 \in DOMAIN tail
                              /\ tail'[i] = tail[i + 1] /\ tail'[i] \in 0..Len(made)
  BY <1>2
<1>4. \A i \in DOMAIN tail' : tail'[i] # READ => incoming = tail'[i] /\ From(tail'[i], "phone")
  BY <1>3 DEF LaptopEcho
<1>5. ASSUME NEW i \in DOMAIN tail', NEW k \in DOMAIN tail', tail'[i] # READ, tail'[k] # READ
      PROVE  i = k
  <2>1. i + 1 = k + 1
    BY <1>3, <1>5 DEF LaptopEcho
  <2>2. QED
    BY <1>2, <2>1
<1>6. Head(tail) # READ => \A i \in DOMAIN tail' : tail'[i] = READ
  BY <1>2, <1>3 DEF LaptopEcho
<1>7. QED
  BY <1>2, <1>3, <1>4, <1>5, <1>6

LEMMA LaptopKeepsEcho ==
  ASSUME TypeInv, Grows, LaptopEcho, PhoneEcho, Sided, LaptopStep, ~crossed'
  PROVE  LaptopEcho'
<1>1. /\ MadeTypes /\ changes \in Nat /\ clip \in 0..Len(made) /\ incoming \in 0..Len(made)
      /\ Len(made) \in Nat /\ tail \in Seq(0..Len(made))
      /\ Unread => clip \in 1..Len(made)
  <2>1. MadeTypes /\ changes \in Nat /\ clip \in 0..Len(made) /\ incoming \in 0..Len(made)
        /\ tail \in Seq(0..Len(made)) /\ (Unread => clip # 0)
    BY DEF TypeInv, LaptopTypes, Unread
  <2>2. QED
    BY <2>1 DEF Grows
<1>2. CASE LaptopCopies
  <2>1. /\ made' = Append(made, "laptop") /\ made \in Seq(Sides)
        /\ clip' = Len(made) + 1 /\ UNCHANGED <<watcher, tail, incoming>>
    BY <1>1, <1>2 DEF LaptopCopies, Copied, MadeTypes
  <2>2. made'[clip'] = "laptop" /\ clip' # 0
    BY <1>1, <2>1
  <2>3. From(clip, "laptop")' /\ ~From(clip, "phone")'
    BY <2>2 DEF From
  <2>4. ASSUME NEW i \in DOMAIN tail', tail'[i] # READ
        PROVE  incoming' = tail'[i] /\ From(tail[i], "phone")'
    <3>1. incoming = tail[i] /\ From(tail[i], "phone") /\ tail[i] \in 0..Len(made)
      BY <1>1, <2>1, <2>4 DEF LaptopEcho
    <3>2. made'[tail[i]] = "phone" /\ tail[i] # 0
      BY <3>1, FromStays DEF From
    <3>3. QED
      BY <2>1, <3>1, <3>2 DEF From
  <2>5. QED
    BY <2>1, <2>3, <2>4 DEF LaptopEcho
<1>3. CASE WatchFires
  <2>1. /\ UNCHANGED <<clip, incoming, made>> /\ changes > 0 /\ watcher.pc = "idle"
        /\ changes' \in Nat /\ changes' < changes
    BY <1>1, <1>3 DEF WatchFires, ghosts
  <2>2. CASE lpaused
    <3>1. UNCHANGED <<watcher, tail>> /\ changes' <= changes
      BY <1>1, <1>3, <2>1, <2>2 DEF WatchFires
    <3>2. QED
      BY <2>1, <3>1, LaptopEchoStays
  <2>3. CASE ~lpaused
    <3>1. tail' = Append(tail, READ)
      BY <1>3, <2>3 DEF WatchFires
    <3>2. /\ \A i \in DOMAIN tail : i \in DOMAIN tail' /\ tail'[i] = tail[i]
          /\ \A i \in DOMAIN tail' : tail'[i] # READ => i \in DOMAIN tail
      <4>1. READ \in 0..Len(made)
        BY <1>1 DEF READ
      <4>2. QED
        BY <1>1, <3>1, <4>1, AppendElements
    <3>3. Unread
      BY <2>1 DEF Unread
    <3>4. From(clip, "phone")' => incoming' = clip' /\ changes' = 0
      BY <1>1, <2>1, <3>3 DEF LaptopEcho, From
    <3>5. From(clip, "phone")' /\ Unread' =>
            incoming' = clip' /\ changes' <= 1 /\ ~(changes' > 0 /\ watcher'.pc = "reading")
      BY <2>1, <3>4
    <3>6. \A i \in DOMAIN tail' : tail'[i] # READ => incoming' = tail'[i] /\ From(tail[i], "phone")'
      BY <2>1, <3>2 DEF LaptopEcho, From
    <3>7. \A i \in DOMAIN tail' : tail'[i] # READ => From(clip, "laptop")'
      BY <2>1, <3>2, <3>3 DEF LaptopEcho, From
    <3>8. \A i, k \in DOMAIN tail' : tail'[i] # READ /\ tail'[k] # READ => i = k
      BY <3>2 DEF LaptopEcho
    <3>9. QED
      BY <3>5, <3>6, <3>7, <3>8 DEF LaptopEcho
  <2>4. QED
    BY <2>2, <2>3
<1>4. CASE ReadsEcho \/ ReadsCopy \/ ReadFails
  <2>1. /\ TakesRead /\ UNCHANGED <<clip, changes, made>>
        /\ watcher'.pc # "reading"
        /\ incoming' = incoming \/ (incoming = clip /\ incoming' = 0)
    BY <1>4 DEF ReadsEcho, ReadsCopy, ReadFails, IsEcho, Watching, ghosts
  <2>2. /\ watcher.pc = "reading" /\ tail # <<>> /\ tail' = Tail(tail) /\ Unread
    BY <2>1, ReadIsTaken DEF TakesRead, TypeInv, Unread
  <2>3. /\ \A i \in DOMAIN tail' : /\ i + 1 \in DOMAIN tail /\ tail'[i] = tail[i + 1]
                                    /\ tail'[i] \in 0..Len(made)
        /\ \A i \in DOMAIN tail' : tail'[i] # READ => incoming = tail'[i] /\ From(tail'[i], "phone")
        /\ \A i, k \in DOMAIN tail' : tail'[i] # READ /\ tail'[k] # READ => i = k
    BY <2>2, FewerWrites
  <2>4. From(clip, "phone") => changes' = 0
    BY <1>1, <2>1, <2>2 DEF LaptopEcho
  <2>5. ~(From(clip, "phone")' /\ Unread')
    BY <2>1, <2>4 DEF From, Unread
  <2>6. \A i \in DOMAIN tail' : tail'[i] # READ => From(clip, "laptop")
    BY <2>2, <2>3 DEF LaptopEcho
  <2>7. \A i \in DOMAIN tail' : tail'[i] # READ => incoming # clip
    BY <2>3, <2>6 DEF From
  <2>8. \A i \in DOMAIN tail' : tail'[i] # READ => incoming' = tail'[i] /\ From(tail[i], "phone")'
    BY <2>1, <2>3, <2>7 DEF From
  <2>9. \A i \in DOMAIN tail' : tail'[i] # READ => From(clip, "laptop")'
    BY <2>1, <2>6 DEF From
  <2>10. QED
    BY <2>3, <2>5, <2>8, <2>9 DEF LaptopEcho
<1>5. CASE WatcherPublishes
  <2>1. UNCHANGED <<clip, tail, incoming, changes>> /\ watcher'.pc # "reading"
    BY <1>5 DEF WatcherPublishes, Watching
  <2>2. changes' \in Nat /\ changes' <= changes
    BY <1>1, <2>1
  <2>3. QED
    BY <2>1, <2>2, LaptopEchoStays
<1>6. CASE Decrypted
  <2>1. PICK f \in decrypting : /\ incoming' = f.copy /\ tail' = Append(tail, f.copy)
                                /\ incoming = 0
                                /\ UNCHANGED <<clip, changes, watcher, made>>
    BY <1>6 DEF Decrypted
  <2>2. f \in MadeFrame /\ f.origin = "phone" /\ f \in Frames
    BY DEF TypeInv, PoolTypes, Frames
  <2>3. /\ f.copy \in 1..Len(made) /\ f # Nothing
    BY <2>2, FrameParts
  <2>4. f.copy \in 0..Len(made) /\ f.copy # 0
    BY <1>1, <2>3
  <2>5. made[f.copy] = "phone"
    BY <2>2, <2>3 DEF Sided, OnItsSide
  <2>6. \A i \in DOMAIN tail : tail[i] = READ
    BY <2>1 DEF LaptopEcho, From
  <2>7. ~(From(clip, "phone") /\ Unread)
    BY <2>1 DEF LaptopEcho, From
  <2>8. Unread => From(clip, "laptop")
    BY <1>1, <2>7, SidesAreTwo
  <2>9. /\ tail'[Len(tail) + 1] = f.copy
        /\ \A i \in DOMAIN tail : i \in DOMAIN tail' /\ tail'[i] = tail[i]
        /\ \A i \in DOMAIN tail' : i \in DOMAIN tail \/ i = Len(tail) + 1
    BY <1>1, <2>1, <2>4, AppendElements
  <2>10. \A i \in DOMAIN tail' : tail'[i] # READ => i = Len(tail) + 1
    BY <2>6, <2>9
  <2>11. \A i \in DOMAIN tail' : tail'[i] # READ => incoming' = tail'[i] /\ From(tail[i], "phone")'
    BY <2>1, <2>4, <2>5, <2>9, <2>10 DEF From
  <2>12. /\ ~(From(clip, "phone")' /\ Unread')
         /\ Unread' => From(clip, "laptop")'
    BY <2>1, <2>7, <2>8 DEF From, Unread
  <2>13. QED
    BY <2>10, <2>11, <2>12 DEF LaptopEcho
<1>7. CASE Writes \/ WriteFails
  <2>1. /\ tail # <<>> /\ Head(tail) # READ /\ tail' = Tail(tail) /\ UNCHANGED <<watcher, made>>
    BY <1>7 DEF Writes, WriteFails, TakesWrite, ghosts
  <2>2. /\ \A i \in DOMAIN tail' : tail'[i] = READ
        /\ Head(tail) = tail[1] /\ 1 \in DOMAIN tail
    BY <2>1, FewerWrites
  <2>3. /\ incoming = Head(tail) /\ From(Head(tail), "phone") /\ (Unread => From(clip, "laptop"))
    BY <2>1, <2>2 DEF LaptopEcho
  <2>4. CASE Writes
    <3>1. /\ clip' = Head(tail) /\ changes' = changes + 1 /\ ~(changes > 0)
          /\ watcher.pc # "reading" /\ incoming' = incoming
      BY <2>4 DEF Writes
    <3>2. changes' = 1 /\ incoming' = clip' /\ watcher'.pc # "reading"
      BY <1>1, <2>1, <2>3, <3>1
    <3>3. QED
      BY <2>2, <3>2 DEF LaptopEcho
  <2>5. CASE WriteFails
    <3>1. UNCHANGED <<clip, changes>>
      BY <2>5 DEF WriteFails
    <3>2. ~(From(clip, "phone")' /\ Unread')
      BY <2>1, <2>3, <3>1 DEF From, Unread
    <3>3. QED
      BY <2>2, <3>2 DEF LaptopEcho
  <2>6. QED
    BY <1>7, <2>4, <2>5
<1>8. CASE WindowEnds
  BY <1>8 DEF WindowEnds
<1>9. QED
  BY <1>2, <1>3, <1>4, <1>5, <1>6, <1>7, <1>8 DEF LaptopStep

(* The steps of the phone's clipboard. *)
PhoneStep ==
  PhoneCopies \/ PhoneWrites \/ Denial \/ ActivityReads \/ AutoReadText \/ ShareConnects
    \/ ShareFails \/ PhoneRestarts

LEMMA PhoneKeepsEcho ==
  ASSUME TypeInv, Grows, PhoneEcho, Sided, PhoneStep, ~crossed'
  PROVE  PhoneEcho'
<1>1. /\ MadeTypes /\ Len(made) \in Nat /\ reads \in Seq(1..Len(made))
      /\ pclip \in 0..Len(made) /\ record \in 0..Len(made)
      /\ (denied \/ launched => pclip \in 1..Len(made))
      /\ sharing \in [Copies -> Nat]
  <2>1. MadeTypes /\ reads \in Seq(1..Len(made)) /\ pclip \in 0..Len(made) /\ record \in 0..Len(made)
        /\ (denied \/ launched => pclip # 0) /\ sharing \in [Copies -> Nat]
    BY DEF TypeInv, PhoneTypes
  <2>2. QED
    BY <2>1 DEF Grows
<1>2. \A i \in DOMAIN reads : reads[i] \in 1..Len(made)
  BY <1>1
<1>3. CASE PhoneCopies
  <2>1. /\ made' = Append(made, "phone") /\ made \in Seq(Sides) /\ pclip' = Len(made) + 1
        /\ UNCHANGED <<record, reads, launched, sharing>>
    BY <1>1, <1>3 DEF PhoneCopies, Copied, MadeTypes, guard, shares
  <2>2. made'[pclip'] = "phone"
    BY <1>1, <2>1
  <2>3. ~From(pclip, "laptop")'
    BY <2>2 DEF From
  <2>4. From(record, "laptop")' <=> From(record, "laptop")
    BY <1>1, <2>1, FromStays DEF From
  <2>5. \A i \in DOMAIN reads' : From(reads[i], "laptop")' <=> From(reads[i], "laptop")
    <3>1. \A i \in DOMAIN reads : reads[i] \in 0..Len(made)
      BY <1>1, <1>2
    <3>2. QED
      BY <2>1, <3>1, FromStays DEF From
  <2>6. \A c \in Copies : sharing'[c] > 0 => From(c, "phone")'
    <3>1. \A c \in Copies : sharing[c] > 0 => c \in 0..Len(made)
      BY <1>1 DEF TypeInv, PhoneTypes, Copies
    <3>2. QED
      BY <2>1, <3>1, FromStays DEF PhoneEcho, From
  <2>7. QED
    BY <2>1, <2>3, <2>4, <2>5, <2>6 DEF PhoneEcho
<1>4. CASE PhoneWrites
  <2>1. PICK f \in receiving : /\ pclip' = f.copy /\ record' = f.copy
                               /\ record = 0 /\ ~denied /\ ~launched
                               /\ UNCHANGED <<reads, launched, sharing, made>>
    BY <1>4 DEF PhoneWrites, shares
  <2>2. f \in MadeFrame /\ f.origin = "laptop" /\ f \in Frames
    BY DEF TypeInv, PoolTypes, Frames
  <2>3. f.copy # 0 /\ made[f.copy] = "laptop"
    BY <2>2, FrameParts DEF Sided, OnItsSide
  <2>4. \A i \in DOMAIN reads : ~From(reads[i], "laptop")
    BY <2>1 DEF PhoneEcho, From
  <2>5. \A i \in DOMAIN reads : From(reads[i], "phone")
    BY <1>2, <2>4, SidesAreTwo
  <2>6. \A i \in DOMAIN reads' : ~From(reads[i], "laptop")' /\ From(reads[i], "phone")'
    BY <2>1, <2>4, <2>5 DEF From
  <2>7. From(record, "laptop")'
    BY <2>1, <2>3 DEF From
  <2>8. \A c \in Copies : sharing'[c] > 0 => From(c, "phone")'
    BY <2>1 DEF PhoneEcho, From
  <2>9. QED
    BY <2>1, <2>6, <2>7, <2>8 DEF PhoneEcho
<1>5. CASE Denial
  <2>1. /\ denied /\ ~denied' /\ UNCHANGED <<pclip, record, reads, sharing, made>>
        /\ launched' = launched \/ launched' = TRUE
    BY <1>5 DEF Denial, guard, shares, ghosts
  <2>2. From(pclip, "laptop")' => /\ record' = pclip'
                                  /\ \A i \in DOMAIN reads' : From(reads[i], "phone")'
    BY <2>1 DEF PhoneEcho, From
  <2>3. QED
    BY <2>1, <2>2 DEF PhoneEcho, From
<1>6. CASE ActivityReads
  <2>1. /\ launched /\ ~launched' /\ reads' = Append(reads, pclip)
        /\ UNCHANGED <<pclip, record, denied, sharing, made>>
    BY <1>6 DEF ActivityReads, guard, shares, ghosts
  <2> DEFINE n == Len(reads) + 1
  <2>2. /\ reads'[n] = pclip /\ pclip \in 1..Len(made)
        /\ \A i \in DOMAIN reads : i \in DOMAIN reads' /\ reads'[i] = reads[i]
        /\ \A i \in DOMAIN reads' : i \in DOMAIN reads \/ i = n
    BY <1>1, <2>1, AppendElements
  <2> HIDE DEF n
  <2>3. CASE From(pclip, "laptop")
    <3>1. record = pclip /\ ~denied /\ \A i \in DOMAIN reads : From(reads[i], "phone")
      BY <2>1, <2>3 DEF PhoneEcho
    <3>2. \A i \in DOMAIN reads : ~From(reads[i], "laptop")
      BY <1>2, <3>1, SidesAreTwo
    <3>3. \A i \in DOMAIN reads' : From(reads'[i], "laptop") => i = n /\ reads'[i] = record
      BY <2>2, <3>1, <3>2
    <3>4. QED
      BY <2>1, <3>1, <3>3 DEF PhoneEcho, From
  <2>4. CASE ~From(pclip, "laptop")
    <3>1. \A i \in DOMAIN reads' : From(reads'[i], "laptop") => i \in DOMAIN reads /\ reads'[i] = reads[i]
      BY <2>2, <2>4
    <3>2. \A i \in DOMAIN reads' : From(reads'[i], "laptop") => reads'[i] = record
      BY <3>1 DEF PhoneEcho
    <3>3. \A i, k \in DOMAIN reads' : From(reads'[i], "laptop") /\ From(reads'[k], "laptop") => i = k
      BY <3>1 DEF PhoneEcho
    <3>4. QED
      BY <2>1, <2>4, <3>2, <3>3 DEF PhoneEcho, From
  <2>5. QED
    BY <2>3, <2>4
<1>7. CASE AutoReadText
  <2> DEFINE c == Head(reads)
  <2>1. /\ reads # <<>> /\ reads' = Tail(reads)
        /\ record' = IF c = record THEN 0 ELSE record
        /\ \/ sharing' = sharing
           \/ c # record /\ sharing' = [sharing EXCEPT ![c] = @ + 1]
        /\ UNCHANGED <<pclip, denied, launched, made>>
    BY <1>7 DEF AutoReadText, ghosts
  <2>2. /\ c = reads[1] /\ 1 \in DOMAIN reads /\ c \in 1..Len(made)
        /\ \A i \in DOMAIN reads' : i \in Nat /\ i >= 1 /\ i + 1 \in DOMAIN reads /\ reads'[i] = reads[i + 1]
    BY <1>1, <2>1, TailElements
  <2>3. From(c, "laptop") => c = record
    BY <2>2 DEF PhoneEcho
  <2>4. \A i \in DOMAIN reads' : From(reads'[i], "laptop") => reads'[i] = record /\ ~From(c, "laptop")
    <3>1. \A i \in DOMAIN reads' : i + 1 # 1 /\ i + 1 \in DOMAIN reads /\ reads'[i] = reads[i + 1]
      BY <2>2
    <3>2. QED
      BY <2>2, <3>1 DEF PhoneEcho
  <2>5. \A i, k \in DOMAIN reads' : From(reads'[i], "laptop") /\ From(reads'[k], "laptop") => i = k
    <3>1. \A i, k \in DOMAIN reads' : i + 1 = k + 1 => i = k
      BY <2>2
    <3>2. QED
      BY <2>2, <3>1 DEF PhoneEcho
  <2>6. c # 0 /\ (c = record => From(c, "laptop"))
    BY <2>2 DEF PhoneEcho
  <2> HIDE DEF c
  <2>7. record' # 0 => From(record', "laptop")
    BY <2>1 DEF PhoneEcho
  <2>8. From(pclip, "laptop") /\ (denied \/ launched) =>
          /\ record' = pclip /\ ~(denied /\ launched)
          /\ \A i \in DOMAIN reads' : From(reads'[i], "phone")
    <3>1. ASSUME From(pclip, "laptop"), denied \/ launched
          PROVE  /\ record' = pclip /\ ~(denied /\ launched)
                 /\ \A i \in DOMAIN reads' : From(reads'[i], "phone")
      <4>1. record = pclip /\ ~(denied /\ launched) /\ \A i \in DOMAIN reads : From(reads[i], "phone")
        BY <3>1 DEF PhoneEcho
      <4>2. From(c, "phone")
        BY <2>2, <4>1
      <4>3. c # record
        BY <2>2, <2>6, <4>2, SidesAreTwo
      <4>4. QED
        BY <2>1, <2>2, <4>1, <4>3
    <3>2. QED
      BY <3>1
  <2>9. \A i \in DOMAIN reads' : From(reads'[i], "laptop") => reads'[i] = record'
    BY <2>1, <2>4, <2>6
  <2>10. \A d \in Copies : sharing'[d] > 0 => From(d, "phone")
    <3>1. CASE sharing' = sharing
      BY <3>1 DEF PhoneEcho
    <3>2. CASE c # record /\ sharing' = [sharing EXCEPT ![c] = @ + 1]
      <4>1. From(c, "phone")
        BY <2>2, <2>3, <3>2, SidesAreTwo
      <4>2. \A d \in Copies : d = c \/ sharing'[d] = sharing[d]
        BY <1>1, <3>2
      <4>3. QED
        BY <4>1, <4>2 DEF PhoneEcho
    <3>3. QED
      BY <2>1, <3>1, <3>2
  <2>11. QED
    BY <2>1, <2>5, <2>7, <2>8, <2>9, <2>10 DEF PhoneEcho, From
<1>8. CASE ShareConnects \/ ShareFails
  <2>1. PICK c \in Copies : /\ sharing[c] > 0 /\ sharing' = [sharing EXCEPT ![c] = @ - 1]
                            /\ UNCHANGED <<pclip, record, reads, denied, launched>>
    BY <1>8 DEF ShareConnects, ShareFails, phone, guard, autoSend
  <2>2. \A d \in Copies : sharing'[d] > 0 => sharing[d] > 0
    BY <1>1, <2>1
  <2>3. QED
    BY <2>1, <2>2, PhoneEchoStays
<1>9. CASE PhoneRestarts
  <2>1. /\ record' = 0 /\ DOMAIN reads' = {} /\ sharing' = [c \in Copies |-> 0]
        /\ ~denied' /\ ~launched'
    BY <1>9 DEF PhoneRestarts
  <2>2. \A c \in Copies : ~(sharing'[c] > 0)
    BY <2>1
  <2>3. QED
    BY <2>1, <2>2 DEF PhoneEcho
<1>10. QED
  BY <1>3, <1>4, <1>5, <1>6, <1>7, <1>8, <1>9 DEF PhoneStep

(* No step but the two that stamp a frame brings another frame.             *)
LEMMA NoOtherFrames ==
  ASSUME TypeInv, Next
  PROVE  \/ Frames' \subseteq Frames \cup {Nothing}
         \/ ReadsCopy \/ ShareConnects
<1> DEFINE F == Frames \cup {Nothing}
<1>1. /\ toPhone \in Seq(MadeFrame) /\ pool \in F /\ captured \in F /\ watcher.frame \in F
      /\ sent \subseteq F /\ decrypting \subseteq F /\ receiving \subseteq F
      /\ \A i \in DOMAIN toPhone : toPhone[i] \in F
      /\ Watching.frame \in F
  BY DEF TypeInv, PoolTypes, Frames, Watching
<1>2. ASSUME {pool', captured', watcher'.frame} \subseteq F, sent' \subseteq F, decrypting' \subseteq F,
             receiving' \subseteq F, \A i \in DOMAIN toPhone' : toPhone'[i] \in F
      PROVE  Frames' \subseteq F
  BY <1>2 DEF Frames
<1> HIDE DEF F
<1>3. CASE \/ LaptopCopies \/ ReadsEcho \/ Decrypted \/ Writes \/ ReadFails \/ WriteFails
           \/ WindowEnds \/ LaptopPausesOrResumes
  <2>1. UNCHANGED <<pool, captured, toPhone, sent, receiving>> /\ decrypting' \subseteq decrypting
        /\ (watcher' = watcher \/ watcher' = Watching)
    BY <1>3 DEF LaptopCopies, ReadsEcho, Decrypted, Writes, ReadFails, WriteFails, WindowEnds,
         LaptopPausesOrResumes, wire, phone, shares, laptop
  <2>2. QED
    BY <1>1, <1>2, <2>1 DEF F
<1>4. CASE WatchFires
  <2>1. UNCHANGED <<pool, captured, toPhone, sent, receiving, decrypting>>
        /\ (watcher' = watcher \/ watcher' = [watcher EXCEPT !.pc = "reading"])
    BY <1>4 DEF WatchFires, wire, phone, shares
  <2>2. watcher'.frame = watcher.frame
    <3>1. watcher \in [pc : {"idle", "reading", "encrypting"}, frame : MadeFrame \cup {Nothing}]
      BY DEF TypeInv, LaptopTypes
    <3> HIDE DEF MadeFrame
    <3>2. QED
      BY <2>1, <3>1
  <2>3. QED
    BY <1>1, <1>2, <2>1, <2>2 DEF F
<1>5. ASSUME NEW f \in MadeFrame, f \in F, Publish(f), UNCHANGED <<captured, receiving>>,
             sent' \subseteq sent, watcher' = watcher \/ watcher' = Watching
      PROVE  Frames' \subseteq F
  <2>1. /\ pool' = pool \/ pool' = f
        /\ toPhone' = toPhone \/ toPhone' = Append(toPhone, f)
        /\ decrypting' = decrypting \/ decrypting' = decrypting \cup {f}
    BY <1>5, PublishMeans DEF TypeInv
  <2>2. \A i \in DOMAIN toPhone' : toPhone'[i] \in F
    <3>1. CASE toPhone' = toPhone
      BY <1>1, <3>1
    <3>2. CASE toPhone' = Append(toPhone, f)
      <4>1. \A i \in DOMAIN toPhone' : (i \in DOMAIN toPhone /\ toPhone'[i] = toPhone[i]) \/ toPhone'[i] = f
        BY <1>1, <3>2, AppendElements
      <4>2. QED
        BY <1>1, <1>5, <4>1
    <3>3. QED
      BY <2>1, <3>1, <3>2
  <2>3. QED
    BY <1>1, <1>2, <1>5, <2>1, <2>2
<1>6. CASE WatcherPublishes
  <2>1. watcher.frame \in MadeFrame
    BY <1>6 DEF TypeInv, WatcherPublishes, LaptopTypes
  <2>2. /\ Publish(watcher.frame) /\ UNCHANGED <<captured, receiving, sent>>
        /\ watcher' = Watching
    BY <1>6 DEF WatcherPublishes, phone, shares
  <2>3. QED
    BY <1>1, <1>5, <2>1, <2>2 DEF F
<1>7. CASE ShareArrives
  <2>1. PICK f \in sent : /\ Publish(f) /\ sent' = sent \ {f}
                          /\ UNCHANGED <<captured, receiving, watcher>>
    BY <1>7 DEF ShareArrives, phone
  <2>2. f \in MadeFrame
    BY DEF TypeInv, PoolTypes
  <2>3. QED
    BY <1>1, <1>5, <2>1, <2>2 DEF F
<1>8. CASE RelayRestarts \/ Drop \/ PhoneRestarts
  <2>1. /\ pool' \in {pool, Nothing} /\ captured' = Nothing /\ DOMAIN toPhone' = {}
        /\ sent' \subseteq sent /\ decrypting' \subseteq decrypting /\ receiving' \subseteq receiving
        /\ (watcher' = watcher \/ watcher' = Watching)
    BY <1>8 DEF RelayRestarts, Drop, PhoneRestarts, phone, shares, laptop
  <2>2. QED
    BY <1>1, <1>2, <2>1 DEF F
<1>9. CASE Authenticate
  <2>1. /\ captured' = pool
        /\ UNCHANGED <<pool, toPhone, sent, decrypting, receiving, watcher>>
    BY <1>9 DEF Authenticate, laptop, phone, shares
  <2>2. QED
    BY <1>1, <1>2, <2>1 DEF F
<1>10. CASE LetIn
  <2>1. /\ captured' = Nothing /\ UNCHANGED <<pool, sent, decrypting, receiving, watcher>>
        /\ toPhone' = <<captured>> \/ toPhone' = <<>>
    BY <1>10 DEF LetIn, laptop, phone, shares
  <2>2. \A i \in DOMAIN toPhone' : toPhone'[i] = captured
    BY <2>1
  <2>3. QED
    BY <1>1, <1>2, <2>1, <2>2 DEF F
<1>11. CASE Deliver
  <2>1. /\ toPhone # <<>> /\ toPhone' = Tail(toPhone) /\ receiving' \subseteq receiving \cup {Head(toPhone)}
        /\ UNCHANGED <<pool, captured, sent, decrypting, watcher>>
    BY <1>11 DEF Deliver, laptop, shares
  <2>2. /\ Head(toPhone) = toPhone[1] /\ 1 \in DOMAIN toPhone
        /\ \A i \in DOMAIN toPhone' : i + 1 \in DOMAIN toPhone /\ toPhone'[i] = toPhone[i + 1]
    BY <1>1, <2>1, TailElements
  <2>3. QED
    BY <1>1, <1>2, <2>1, <2>2 DEF F
<1>12. CASE \/ PhoneCopies \/ PhoneWrites \/ PhoneWriteFails \/ Denial \/ ThrottleEnds
            \/ ActivityReads \/ AutoReadText \/ ShareFails \/ PhonePausesOrResumes
  <2>1. UNCHANGED <<pool, captured, toPhone, sent, decrypting, watcher>> /\ receiving' \subseteq receiving
    BY <1>12 DEF PhoneCopies, PhoneWrites, PhoneWriteFails, Denial, ThrottleEnds,
         ActivityReads, AutoReadText, ShareFails, PhonePausesOrResumes, laptop, wire,
         phone, shares
  <2>2. QED
    BY <1>1, <1>2, <2>1 DEF F
<1>13. QED
  BY <1>3, <1>4, <1>6, <1>7, <1>8, <1>9, <1>10, <1>11, <1>12 DEF Next, F

LEMMA NextKeepsSides ==
  ASSUME TypeInv, Grows, Next, LaptopEcho, PhoneEcho, Sided
  PROVE  Sided'
<1>1. CASE Frames' \subseteq Frames \cup {Nothing}
  BY <1>1, FewerFrames
<1>2. CASE ReadsCopy
  <2>0. PICK f : f = [copy |-> clip, origin |-> "laptop", ts |-> stamps + 1]
    OBVIOUS
  <2>1. /\ TakesRead /\ incoming # clip /\ watcher' = [pc |-> "encrypting", frame |-> f]
        /\ UNCHANGED <<made, pool, captured, toPhone, sent, decrypting, receiving>>
    BY <2>0, <1>2 DEF ReadsCopy, IsEcho, ghosts, wire, phone, shares
  <2>2. watcher.pc = "reading" /\ clip # 0
    BY <2>1, ReadIsTaken DEF TypeInv
  <2>3. clip \in 1..Len(made)
    BY <2>2 DEF TypeInv, LaptopTypes, MadeTypes
  <2>4. From(clip, "laptop")
    BY <2>1, <2>2, <2>3, SidesAreTwo DEF LaptopEcho, Unread
  <2>5. Frames' \subseteq Frames \cup {f}
    BY <2>1 DEF Frames
  <2>6. OnItsSide(f)'
    BY <2>0, <2>1, <2>4 DEF OnItsSide, From
  <2>7. QED
    BY <2>5, <2>6, SidedStays DEF Sided
<1>3. CASE ShareConnects
  <2>1. PICK c \in Copies : /\ sharing[c] > 0
                            /\ sent' = sent \cup {[copy |-> c, origin |-> "phone", ts |-> stamps + 1]}
                            /\ UNCHANGED <<made, pool, captured, toPhone, decrypting, receiving, watcher>>
    BY <1>3 DEF ShareConnects, laptop, wire, phone, ghosts
  <2>0. PICK f : f = [copy |-> c, origin |-> "phone", ts |-> stamps + 1]
    OBVIOUS
  <2>2. From(c, "phone")
    BY <2>1 DEF PhoneEcho
  <2>3. Frames' \subseteq Frames \cup {f}
    BY <2>0, <2>1 DEF Frames
  <2>4. OnItsSide(f)'
    BY <2>0, <2>1, <2>2 DEF OnItsSide, From
  <2>5. QED
    BY <2>3, <2>4, SidedStays DEF Sided
<1>4. QED
  BY <1>1, <1>2, <1>3, NoOtherFrames

LEMMA CrossedStays ==
  ASSUME Next, crossed
  PROVE  crossed'
<1>1. CASE Decrypted \/ Writes \/ WindowEnds \/ PhoneWrites
  BY <1>1 DEF Decrypted, Writes, WindowEnds, PhoneWrites
<1>2. CASE ~(Decrypted \/ Writes \/ WindowEnds \/ PhoneWrites)
  <2>1. crossed' = crossed
    BY <1>2 DEF Next, LaptopCopies, WatchFires, ReadsEcho, ReadsCopy, WatcherPublishes, ReadFails,
      WriteFails, LaptopPausesOrResumes, RelayRestarts, Authenticate, LetIn, Drop, Deliver,
      PhoneCopies, PhoneWriteFails, Denial, ThrottleEnds, ActivityReads, AutoReadText,
      ShareConnects, ShareFails, ShareArrives, PhonePausesOrResumes, PhoneRestarts, Copied, ghosts
  <2>2. QED
    BY <2>1
<1>3. QED
  BY <1>1, <1>2

LEMMA NextKeepsEcho == TypeInv /\ EchoInv /\ [Next]_vars => EchoInv'
<1> SUFFICES ASSUME TypeInv, EchoInv, [Next]_vars, ~crossed'
             PROVE  LaptopEcho' /\ PhoneEcho' /\ Sided'
  BY DEF EchoInv
<1>1. CASE Next
  <2>1. LaptopEcho /\ PhoneEcho /\ Sided
    BY <1>1, CrossedStays DEF EchoInv
  <2>2. Grows
    BY <1>1, NextGrows, Growth DEF TypeInv
  <2>3. Sided'
    BY <1>1, <2>1, <2>2, NextKeepsSides
  <2>4. LaptopEcho'
    <3>1. CASE LaptopStep
      BY <2>1, <2>2, <3>1, LaptopKeepsEcho
    <3>2. CASE RelayRestarts
      <4>1. changes' = 0 /\ watcher'.pc # "reading" /\ DOMAIN tail' = {}
        BY <3>2 DEF RelayRestarts, Watching
      <4>2. ~Unread'
        BY <4>1 DEF Unread
      <4>3. QED
        BY <4>1, <4>2 DEF LaptopEcho
    <3>3. CASE ~(LaptopStep \/ RelayRestarts)
      <4>1. UNCHANGED <<clip, changes, watcher, tail, incoming>>
        BY <1>1, <3>3 DEF Next, LaptopStep, LaptopPausesOrResumes, Authenticate, LetIn, Drop, Deliver,
             PhoneCopies, PhoneWrites, PhoneWriteFails, Denial, ThrottleEnds, ActivityReads,
             AutoReadText, ShareConnects, ShareFails, ShareArrives, PhonePausesOrResumes,
             PhoneRestarts, laptop
      <4>2. changes' \in Nat /\ changes' <= changes
        BY <4>1 DEF TypeInv, LaptopTypes
      <4>3. QED
        BY <2>1, <2>2, <4>1, <4>2, LaptopEchoStays
    <3>4. QED
      BY <3>1, <3>2, <3>3
  <2>5. PhoneEcho'
    <3>1. CASE PhoneStep
      BY <2>1, <2>2, <3>1, PhoneKeepsEcho
    <3>2. CASE ~PhoneStep
      <4>1. UNCHANGED <<pclip, record, reads, denied, launched, sharing>>
        BY <1>1, <3>2 DEF Next, PhoneStep, LaptopCopies, WatchFires, ReadsEcho, ReadsCopy,
             WatcherPublishes, Decrypted, Writes, ReadFails, WriteFails, WindowEnds,
             LaptopPausesOrResumes, RelayRestarts, Authenticate, LetIn, Drop, Deliver,
             PhoneWriteFails, ThrottleEnds, ShareArrives, PhonePausesOrResumes, phone, guard,
             autoSend, shares
      <4>2. QED
        BY <2>1, <2>2, <4>1, PhoneEchoStays
    <3>3. QED
      BY <3>1, <3>2
  <2>6. QED
    BY <2>3, <2>4, <2>5
<1>2. CASE UNCHANGED vars
  <2>1. UNCHANGED <<clip, changes, watcher, tail, incoming, decrypting, pool, captured,
                    toPhone, pclip, record, receiving, denied, launched, reads,
                    sharing, sent, made, crossed>>
    BY <1>2 DEF vars, laptop, wire, guard, autoSend, phone, shares, ghosts
  <2>2. LaptopEcho /\ PhoneEcho /\ Sided
    BY <2>1 DEF EchoInv
  <2>3. LaptopEcho'
    BY <2>1, <2>2 DEF LaptopEcho, From, Unread
  <2>4. PhoneEcho'
    BY <2>1, <2>2 DEF PhoneEcho, From
  <2>5. Sided'
    BY <2>1, <2>2 DEF Sided, OnItsSide, Frames
  <2>6. QED
    BY <2>3, <2>4, <2>5
<1>3. QED
  BY <1>1, <1>2

LEMMA InitEstablishesEcho == Init => EchoInv
<1> SUFFICES ASSUME Init PROVE LaptopEcho /\ PhoneEcho /\ Sided
  BY DEF EchoInv
<1>1. /\ clip = 0 /\ tail = <<>> /\ pclip = 0 /\ record = 0 /\ reads = <<>>
      /\ sharing = [c \in Copies |-> 0]
      /\ pool = Nothing /\ captured = Nothing /\ watcher.frame = Nothing
      /\ sent = {} /\ decrypting = {} /\ receiving = {} /\ toPhone = <<>>
  BY DEF Init, Watching
<1>2. DOMAIN tail = {} /\ DOMAIN reads = {} /\ DOMAIN toPhone = {}
  BY <1>1
<1>3. LaptopEcho
  BY <1>1, <1>2 DEF LaptopEcho, From
<1>4. \A c \in Copies : ~(sharing[c] > 0)
  BY <1>1
<1>5. PhoneEcho
  BY <1>1, <1>2, <1>4 DEF PhoneEcho, From
<1>6. Sided
  BY <1>1, <1>2 DEF Sided, Frames, OnItsSide
<1>7. QED
  BY <1>3, <1>5, <1>6

(* Neither side sends back what it was sent, however the two clipboards,   *)
(* the tools' queue, drops, failures and restarts interleave, as long as   *)
(* no write met a change of that clipboard which was still to be read, no  *)
(* second payload was recorded over the first, and the echo was read       *)
(* within its window (lastIncoming, _lastReceivedClipboardWrite).          *)
THEOREM EchoesNeedCrossing == Spec => []EchoNeedsCrossing
<1>1. EchoInv => EchoNeedsCrossing
  BY DEF EchoInv, EchoNeedsCrossing, Sided, Frames
<1>2. QED
  BY <1>1, InitEstablishesTypes, NextKeepsTypes, InitEstablishesEcho, NextKeepsEcho, PTL DEF Spec
=============================================================================
