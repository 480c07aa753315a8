-------------------------- MODULE PhoneDownloadProofs --------------------------
(* Proofs about PhoneDownload, for any number of transfers, files of any    *)
(* size, connections lost and restarts: what the laptop knows of a file is  *)
(* backed by the phone, and the download implements FileDelivery.           *)
EXTENDS PhoneDownload, DurableQueueProofs, FiniteSetTheorems, Functions

(* Whether the phone holds n chunks of f, has published it, or has thrown   *)
(* its bytes away.  None of this is ever undone but by the next.            *)
Held(f, n) == f \in discarded \/ saved[f] > 0 \/ n <= Len(partial[f])

(* What a snapshot says of the files is backed by the phone.                *)
Backed(F) ==
  \A f \in Files : /\ Held(f, F[f].confirmed)
                   /\ F[f].status = "completed" => saved[f] > 0
                   /\ F[f].status = "absent" => F[f].confirmed = 0

(* The same of what the laptop's handlers still have to do, and of the      *)
(* controls on their way.                                                   *)
BackedThens ==
  {d \in [do : {"nothing", "activate", "accept", "offer"},
          file : Files \cup {Nothing.file}, offset : Nat] :
     /\ d.do \in {"accept", "offer"} => d.file \in Files
     /\ d.do = "accept" => Held(d.file, d.offset)}

BackedControls ==
  {m \in [kind : Controls, file : Files, offset : Nat] :
     /\ m.kind \in {"accept", "progress"} => Held(m.file, m.offset)
     /\ m.kind = "complete" => saved[m.file] > 0}

(* Between one snapshot and the next at most one file is completed, and the *)
(* last one completed what memory did.                                      *)
Done(s) == {f \in Files : s.file[f].status = "completed"}
OneMore(s, u) == \A f, g \in Done(u) \ Done(s) : f = g
Newest == IF pending = <<>> THEN disk ELSE pending[Len(pending)]
StepByStep ==
  /\ pending # <<>> => OneMore(disk, pending[1])
  /\ \A i \in DOMAIN pending :
       i + 1 \in DOMAIN pending => OneMore(pending[i], pending[i + 1])
  /\ Done(Newest) = Done(Snapshot)

QueueInv ==
  /\ DurableInv
  /\ Backed(file) /\ Backed(disk.file)
  /\ \A i \in DOMAIN pending : Backed(pending[i].file)
  /\ StepByStep

MessageInv ==
  /\ after \in Seq(BackedThens) /\ ready \in Seq(BackedThens)
  /\ Len(after) = Len(pending)
  /\ wire \in Seq(BackedControls)
  /\ inbox \in Seq(Transfers)
  /\ link \in {"up", "half", "down"}

Fetching == {"fetch", "wait", "write"}
Steps == Fetching \cup {"idle", "file", "hash", "publish", "published"}

PhoneShape ==
  /\ phone \in [pc : Steps, transfer : Transfers \cup {Resting.transfer}, at : Nat, offset : Nat]
  /\ phone.pc # "idle" => /\ phone.transfer \in Transfers
                          /\ phone.at \in 1..Cardinality(FilesOf(phone.transfer))
  /\ request \in [at : Nat, reply : {"none", "asked", "chunk", "refused"}]
  /\ partial \in [Files -> Seq(Nat)]
  /\ saved \in [Files -> Nat]
  /\ discarded \subseteq Files

(* A partial file is a prefix of its file, and the receiver knows where it  *)
(* ends.  A request is for the chunk that comes next.                       *)
PhoneInv ==
  /\ PhoneShape
  /\ \A f \in Files : /\ Len(partial[f]) <= Size[f]
                      /\ \A n \in 1..Len(partial[f]) : partial[f][n] = n - 1
  /\ phone.pc \in Fetching => phone.offset = Len(partial[Current])
  /\ phone.pc \in {"wait", "write"} => Size[Current] = 0 \/ phone.offset < Size[Current]
  /\ phone.pc \in {"hash", "publish"} => Len(partial[Current]) = Size[Current]
  /\ phone.pc = "published" => partial[Current] = <<>> /\ saved[Current] > 0
  /\ request.reply # "none" =>
       /\ phone.pc \in Fetching
       /\ request.at = IF phone.pc = "write" THEN phone.offset + 1 ELSE phone.offset
       /\ phone.pc = "write" \/ Size[Current] # 0 => request.at < Size[Current]

HeldInv == QueueInv /\ MessageInv /\ PhoneInv
-----------------------------------------------------------------------------
LEMMA WiderSeq ==
  ASSUME NEW S, NEW T, S \subseteq T, NEW s \in Seq(S)
  PROVE  s \in Seq(T)
<1>1. Len(s) \in Nat /\ DOMAIN s = 1..Len(s) /\ \A i \in 1..Len(s) : s[i] \in T
  OBVIOUS
<1>2. s = [i \in 1..Len(s) |-> s[i]]
  OBVIOUS
<1>3. QED
  BY <1>1, <1>2

(* The positions of the files of a batch are 1..n, so an offer has a file   *)
(* at each of its places.                                                   *)
LEMMA FileAtPlace ==
  ASSUME NEW t \in Transfers, NEW i \in 1..Cardinality(FilesOf(t))
  PROVE  FileAt(t, i) \in Files /\ Owner[FileAt(t, i)] = t /\ Position[FileAt(t, i)] = i
<1>1. PICK f \in FilesOf(t) : Position[f] = i
  BY DownloadAssumption
<1>2. FileAt(t, i) \in FilesOf(t) /\ Position[FileAt(t, i)] = i
  BY <1>1 DEF FileAt
<1>3. QED
  BY <1>2 DEF FilesOf

LEMMA CurrentIsAFile ==
  ASSUME PhoneShape, phone.pc # "idle"
  PROVE  Current \in Files
BY FileAtPlace DEF PhoneShape, Current

(* What a step of the phone leaves of the files: nothing is given up.       *)
Grows ==
  /\ partial' \in [Files -> Seq(Nat)] /\ saved' \in [Files -> Nat]
  /\ discarded \subseteq discarded' /\ discarded' \subseteq Files
  /\ \A f \in Files :
       /\ saved[f] > 0 => saved'[f] > 0
       /\ f \in discarded' \/ saved'[f] > 0 \/ Len(partial[f]) <= Len(partial'[f])

LEMMA HeldGrows ==
  ASSUME PhoneShape, Grows
  PROVE  /\ \A f \in Files, n \in Nat : Held(f, n) => Held(f, n)'
         /\ BackedThens \subseteq BackedThens'
         /\ BackedControls \subseteq BackedControls'
<1>1. ASSUME NEW f \in Files, NEW n \in Nat, Held(f, n) PROVE Held(f, n)'
  BY <1>1 DEF Held, Grows, PhoneShape
<1>2. \A f \in Files : saved[f] > 0 => saved'[f] > 0
  BY DEF Grows
<1>3. BackedThens \subseteq BackedThens'
  BY <1>1 DEF BackedThens
<1>4. BackedControls \subseteq BackedControls'
  BY <1>1, <1>2 DEF BackedControls
<1>5. QED
  BY <1>1, <1>3, <1>4

LEMMA BackedGrows ==
  ASSUME PhoneShape, Grows, NEW F \in [Files -> FileRecord], Backed(F)
  PROVE  \A f \in Files : /\ Held(f, F[f].confirmed)'
                          /\ F[f].status = "completed" => saved'[f] > 0
                          /\ F[f].status = "absent" => F[f].confirmed = 0
<1>1. \A f \in Files : F[f].confirmed \in Nat
  BY DEF FileRecord
<1>2. \A f \in Files : saved[f] > 0 => saved'[f] > 0
  BY DEF Grows
<1>3. QED
  BY <1>1, <1>2, HeldGrows DEF Backed, Held

LEMMA StillGrows ==
  ASSUME PhoneShape, UNCHANGED <<partial, saved, discarded>>
  PROVE  Grows
BY DEF PhoneShape, Grows
-----------------------------------------------------------------------------
(* The queue: the snapshots one by one.                                     *)
LEMMA SnapshotsHaveFiles ==
  ASSUME DurableInv
  PROVE  /\ file \in [Files -> FileRecord] /\ disk.file \in [Files -> FileRecord]
         /\ pending \in Seq(SnapshotType)
         /\ \A i \in DOMAIN pending : pending[i].file \in [Files -> FileRecord]
<1>1. disk \in SnapshotType /\ pending \in Seq(SnapshotType) /\ TypeOK
  BY DEF DurableInv, Loadable, CoreInv
<1>2. \A i \in DOMAIN pending : pending[i] \in SnapshotType
  BY <1>1
<1>3. QED
  BY <1>1, <1>2 DEF SnapshotType, TypeOK

(* Nothing but the phone moves.                                             *)
LEMMA QueueWaits ==
  ASSUME QueueInv, PhoneShape, Grows, UNCHANGED allVars
  PROVE  QueueInv'
<1>1. DurableInv'
  BY NextKeepsDurableInv DEF QueueInv
<1>2. file' = file /\ disk' = disk /\ pending' = pending /\ Snapshot' = Snapshot
  BY DEF allVars, vars, durable, Snapshot
<1>3. Backed(file)' /\ Backed(disk.file)' /\ \A i \in DOMAIN pending' : Backed(pending[i].file)'
  BY <1>2, BackedGrows, SnapshotsHaveFiles DEF QueueInv, Backed
<1>4. StepByStep'
  BY <1>2 DEF QueueInv, StepByStep, Newest, OneMore, Done
<1>5. QED
  BY <1>1, <1>3, <1>4, <1>2 DEF QueueInv

(* A call that claims, fails, pauses or adds files confirms no byte.        *)
Calm ==
  \A f \in Files :
    /\ file'[f].confirmed = file[f].confirmed
    /\ file'[f].status = "completed" <=> file[f].status = "completed"
    /\ file'[f].status = "absent" => file[f].status = "absent"

PhoneRests == UNCHANGED <<partial, saved, discarded>>

LEMMA QueueIsQuiet ==
  ASSUME QueueInv, PhoneRests, up, [Next]_vars, UNCHANGED durable, Calm
  PROVE  QueueInv'
<1>1. CoreInv' /\ Keeps(Snapshot, Snapshot')
  BY QueueSteps DEF QueueInv
<1>2. UNCHANGED <<disk, pending, up, crashes>> /\ up' \in BOOLEAN
  BY DEF durable, QueueInv, DurableInv
<1>3. DurableInv'
  BY <1>1, <1>2, QuietChain DEF QueueInv
<1>4. Backed(file)' /\ Backed(disk.file)' /\ \A i \in DOMAIN pending' : Backed(pending[i].file)'
  BY <1>2 DEF QueueInv, Backed, Held, PhoneRests, Calm
<1>5. Done(Snapshot') = Done(Snapshot)
  BY DEF Done, Snapshot, Calm
<1>6. StepByStep'
  BY <1>2, <1>5 DEF QueueInv, StepByStep, Newest, OneMore, Done, Snapshot
<1>7. QED
  BY <1>2, <1>3, <1>4, <1>6 DEF QueueInv

(* A call that saves adds the newest snapshot.                              *)
LEMMA QueueSaves ==
  ASSUME QueueInv, PhoneRests, SavingStep, Backed(file'), OneMore(Snapshot, Snapshot')
  PROVE  QueueInv'
<1> DEFINE n == Len(pending)
           s == Snapshot'
<1>1. DurableInv'
  BY NextKeepsDurableInv DEF QueueInv, DurableNext
<1>2. /\ pending \in Seq(SnapshotType) /\ pending' = Append(pending, s)
      /\ disk' = disk /\ s.file = file'
  BY SnapshotsHaveFiles DEF QueueInv, SavingStep, Persist, Snapshot
<1> HIDE DEF s
<1>3. /\ n \in Nat /\ DOMAIN pending = 1..n /\ DOMAIN pending' = 1..(n + 1)
      /\ pending'[n + 1] = s /\ pending' # <<>> /\ Len(pending') = n + 1
      /\ \A i \in 1..n : pending'[i] = pending[i]
      /\ pending = <<>> <=> n = 0
  BY <1>2
<1>4. Backed(file)' /\ Backed(disk.file)' /\ \A i \in DOMAIN pending' : Backed(pending[i].file)'
  <2>1. \A i \in 1..n : Backed(pending[i].file)
    BY <1>3 DEF QueueInv
  <2>2. Backed(file') /\ Backed(disk.file) /\ Backed(s.file)
    BY <1>2 DEF QueueInv
  <2>3. \A i \in DOMAIN pending' : Backed(pending'[i].file)
    BY <1>3, <2>1, <2>2
  <2>4. QED
    BY <1>2, <2>2, <2>3 DEF Backed, Held, PhoneRests
<1>5. OneMore(Newest, s)
  BY DEF QueueInv, StepByStep, OneMore, s
<1>6. OneMore(disk, pending'[1])
  BY <1>3, <1>5 DEF QueueInv, StepByStep, Newest
<1>7. ASSUME NEW i \in 1..(n + 1), i + 1 \in 1..(n + 1)
      PROVE  OneMore(pending'[i], pending'[i + 1])
  <2>1. i \in 1..n
    BY <1>3, <1>7
  <2>2. CASE i = n
    BY <1>3, <1>5, <2>1, <2>2 DEF Newest
  <2>3. CASE i # n
    <3>0. n \in Nat /\ DOMAIN pending = 1..n
      BY <1>3
    <3>1. i \in DOMAIN pending /\ i + 1 \in DOMAIN pending
      <4> HIDE DEF n
      <4>1. i + 1 \in 1..n
        BY <2>1, <2>3, <3>0
      <4>2. QED
        BY <2>1, <3>0, <4>1, Zenon
    <3>2. OneMore(pending[i], pending[i + 1])
      BY <3>1 DEF QueueInv, StepByStep
    <3>3. pending'[i] = pending[i] /\ pending'[i + 1] = pending[i + 1]
      BY <1>3, <3>1
    <3>4. QED
      BY <3>2, <3>3, Zenon
  <2>4. QED
    BY <2>2, <2>3
<1>8. Done(pending'[n + 1]) = Done(Snapshot')
  BY <1>3 DEF s
<1>9. StepByStep'
  BY <1>2, <1>3, <1>6, <1>7, <1>8 DEF StepByStep, Newest, OneMore, Done, Snapshot
<1>10. QED
  BY <1>1, <1>4, <1>9 DEF QueueInv

(* The oldest snapshot reaches the disk.                                    *)
LEMMA SaveIsDone ==
  ASSUME QueueInv, PhoneRests, Save
  PROVE  QueueInv' /\ OneMore(disk, disk')
<1> DEFINE n == Len(pending)
<1>1. DurableInv'
  BY NextKeepsDurableInv DEF QueueInv, DurableNext
<1>2. /\ pending \in Seq(SnapshotType) /\ pending # <<>> /\ pending' = Tail(pending)
      /\ disk' = Head(pending) /\ file' = file /\ Snapshot' = Snapshot
  BY SnapshotsHaveFiles DEF QueueInv, Save, vars, Snapshot
<1>3. /\ n \in Nat \ {0} /\ DOMAIN pending = 1..n /\ DOMAIN pending' = 1..(n - 1)
      /\ disk' = pending[1] /\ Len(pending') = n - 1
      /\ \A i \in 1..(n - 1) : i + 1 \in 1..n /\ pending'[i] = pending[i + 1]
      /\ pending' = <<>> <=> n = 1
  <2>1. /\ n \in Nat \ {0} /\ DOMAIN pending = 1..n /\ DOMAIN pending' = 1..(n - 1)
        /\ disk' = pending[1] /\ Len(pending') = n - 1 /\ pending' \in Seq(SnapshotType)
    BY <1>2
  <2>2. \A i \in 1..(n - 1) : i + 1 \in 1..n /\ pending'[i] = pending[i + 1]
    BY <1>2
  <2>3. pending' = <<>> <=> n = 1
    BY <2>1
  <2>4. QED
    BY <2>1, <2>2, <2>3
<1>4. OneMore(disk, disk')
  BY <1>2, <1>3 DEF QueueInv, StepByStep
<1>5. Backed(file)' /\ Backed(disk.file)' /\ \A i \in DOMAIN pending' : Backed(pending[i].file)'
  <2>1. \A i \in 1..n : Backed(pending[i].file)
    BY <1>3 DEF QueueInv
  <2>2. Backed(file') /\ Backed(disk'.file) /\ \A i \in DOMAIN pending' : Backed(pending'[i].file)
    BY <1>2, <1>3, <2>1 DEF QueueInv
  <2>3. QED
    BY <2>2 DEF Backed, Held, PhoneRests
<1>6. \A i \in 1..n : i + 1 \in 1..n => OneMore(pending[i], pending[i + 1])
  BY <1>3 DEF QueueInv, StepByStep
<1>7. pending' # <<>> => OneMore(disk', pending'[1])
  BY <1>3, <1>6
<1>8. ASSUME NEW i \in DOMAIN pending', i + 1 \in DOMAIN pending'
      PROVE  OneMore(pending'[i], pending'[i + 1])
  BY <1>3, <1>6, <1>8
<1>9. Newest' = Newest
  BY <1>2, <1>3 DEF Newest
<1>10. StepByStep'
  BY <1>2, <1>7, <1>8, <1>9 DEF QueueInv, StepByStep, OneMore, Done, Snapshot
<1>11. QED
  BY <1>1, <1>4, <1>5, <1>10 DEF QueueInv

(* Loading the disk, and a recovery that confirms nothing.                  *)
LEMMA QueueCrashes ==
  ASSUME QueueInv, PhoneRests, Crash
  PROVE  QueueInv'
<1>1. DurableInv'
  BY NextKeepsDurableInv DEF QueueInv, DurableNext
<1>2. file' = disk.file /\ disk' = disk /\ pending' = <<>> /\ Snapshot'.file = disk.file
  BY DEF Crash, Snapshot
<1>3. Backed(file)' /\ Backed(disk.file)' /\ \A i \in DOMAIN pending' : Backed(pending[i].file)'
  BY <1>2 DEF QueueInv, Backed, Held, PhoneRests
<1>4. StepByStep'
  <2>1. DOMAIN pending' = {} /\ Newest' = disk
    BY <1>2 DEF Newest
  <2>2. QED
    BY <1>2, <2>1 DEF StepByStep, Done
<1>5. QED
  BY <1>1, <1>3, <1>4 DEF QueueInv

(* No file of this direction is finalized, so open completes none.          *)
LEMMA ReopenIsCalm ==
  ASSUME DurableInv, Reopen({})
  PROVE  Calm
<1> DEFINE F == Recovered({})
<1>1. ASSUME NEW f \in Files
      PROVE  /\ F[f].confirmed = file[f].confirmed
             /\ F[f].status = "completed" <=> file[f].status = "completed"
             /\ F[f].status = "absent" => file[f].status = "absent"
  <2>1. file[f] \in FileRecord
    BY SnapshotsHaveFiles
  <2>2. F[f] = file[f] \/ F[f] = RecoveredFile(f, {})
    BY DEF Recovered
  <2> HIDE DEF F
  <2> DEFINE q == RecoveredFile(f, {})
  <2>3. /\ q.confirmed = file[f].confirmed
        /\ q.status \in {"completed", "failed", "queued"} \/ q = file[f]
        /\ q = file[f] \/ file[f].status \in InFlight
    BY <2>1, RecoveredFileMeaning
  <2>4. q.status = "completed" => file[f].status = "completed"
    BY <2>1 DEF RecoveredFile, FileRecord
  <2> HIDE DEF q
  <2>5. QED
    BY <2>2, <2>3, <2>4 DEF q, InFlight
<1>2. \A f \in Files : \/ file'[f] = F[f]
                       \/ /\ F[f].status \notin TerminalFile /\ F[f].status # "absent"
                          /\ file'[f] = [F[f] EXCEPT !.status = "failed"]
  <2>1. CoreInv /\ RecoversTo(F, RecoveredBatches(F))
    BY RecoveryMeaning DEF DurableInv
  <2>2. \A f \in Files : F[f].status = "absent" =>
            RecoveredBatches(F)[Owner[f]].status = "absent"
    BY <2>1, QueueAssumption DEF RecoversTo, CoreInv, KnownTogether
  <2> HIDE DEF F
  <2>3. QED
    BY <2>2 DEF Reopen, F
<1>3. \A f \in Files : F[f] \in FileRecord
  BY RecoveryMeaning DEF DurableInv, RecoversTo
<1> HIDE DEF F
<1>4. ASSUME NEW f \in Files
      PROVE  /\ file'[f].confirmed = F[f].confirmed
             /\ file'[f].status = "completed" <=> F[f].status = "completed"
             /\ file'[f].status = "absent" => F[f].status = "absent"
  BY <1>2, <1>3 DEF FileRecord, TerminalFile
<1>5. QED
  BY <1>1, <1>4 DEF Calm

LEMMA QueueReopens ==
  ASSUME QueueInv, PhoneRests, Reopen({})
  PROVE  QueueInv' /\ Done(disk') = Done(disk)
<1>1. DurableInv'
  BY NextKeepsDurableInv DEF QueueInv, DurableNext
<1>2. Calm /\ pending = <<>> /\ pending' = <<>> /\ disk = Snapshot /\ disk' = Snapshot'
  BY ReopenIsCalm DEF QueueInv, DurableInv, Reopen
<1>3. Backed(file)' /\ disk'.file = file' /\ DOMAIN pending' = {}
  BY <1>2 DEF QueueInv, Backed, Held, PhoneRests, Calm, Snapshot
<1>4. Done(disk') = Done(disk)
  BY <1>2 DEF Done, Calm, Snapshot
<1>5. StepByStep' /\ Backed(disk.file)'
  BY <1>2, <1>3 DEF StepByStep, Newest, Done, Backed, Held
<1>6. QED
  BY <1>1, <1>3, <1>4, <1>5 DEF QueueInv
-----------------------------------------------------------------------------
(* The queue calls of a download                                            *)

(* The call of a file that gets the record r.                               *)
LEMMA OneFileChanges ==
  ASSUME CoreInv, NEW f \in Files, NEW r, SettleFile(f, r)
  PROVE  file'[f] = r /\ \A g \in Files \ {f} : file'[g] = file[g]
BY DEF SettleFile, Settle, CoreInv, TypeOK

LEMMA CalmFile ==
  ASSUME CoreInv, NEW f \in Files, NEW r, SettleFile(f, r),
         r.confirmed = file[f].confirmed, r.status # "absent" \/ r = file[f],
         r.status = "completed" <=> file[f].status = "completed"
  PROVE  Calm
BY OneFileChanges DEF Calm

(* The calls of a download that confirm no byte and complete no file.       *)
CalmCall(f, t, d) ==
  \/ Enqueue(t) \/ (d \in Devices /\ AssociateSourceDevice(t, d)) \/ Fail(f) \/ PauseFile(f) \/ ClaimFile(f)

LEMMA CalmCalls ==
  ASSUME QueueInv, NEW f \in Files, NEW t \in Transfers, NEW d,
         CalmCall(f, t, d)
  PROVE  Calm
<1>1. CoreInv /\ file \in [Files -> FileRecord] /\ file[f] \in FileRecord
  BY SnapshotsHaveFiles DEF QueueInv, DurableInv
<1>2. CASE Enqueue(t)
  <2>1. \A g \in Files : \/ file'[g] = file[g]
                         \/ /\ file[g].status = "absent" /\ file'[g] = NewFile
    BY <1>1, <1>2 DEF Enqueue, AddBatch, Known, CoreInv, KnownTogether
  <2>2. \A g \in Files : file[g].status = "absent" => file[g].confirmed = 0
    BY DEF QueueInv, Backed
  <2>3. QED
    BY <2>1, <2>2 DEF Calm, NewFile
<1>3. CASE Fail(f)
  <2> DEFINE r == [file[f] EXCEPT !.status = "failed", !.finalPath = FALSE]
  <2>1. r.confirmed = file[f].confirmed /\ r.status = "failed"
    BY <1>1 DEF FileRecord
  <2>2. SettleFile(f, r) /\ file[f].status # "completed"
    BY <1>3 DEF Fail, TerminalFile
  <2> HIDE DEF r
  <2>3. QED
    BY <1>1, <2>1, <2>2, CalmFile
<1>4. CASE PauseFile(f)
  <2> DEFINE r == IF file[f].status \in {"queued", "active"}
                  THEN [file[f] EXCEPT !.status = "paused"] ELSE file[f]
  <2>1. /\ r.confirmed = file[f].confirmed
        /\ r = file[f] \/ (r.status = "paused" /\ file[f].status \in {"queued", "active"})
    BY <1>1 DEF FileRecord
  <2>2. SettleFile(f, r)
    BY <1>4 DEF PauseFile
  <2> HIDE DEF r
  <2>3. QED
    BY <1>1, <2>1, <2>2, CalmFile
<1>5. CASE ClaimFile(f)
  <2> DEFINE r == [file[f] EXCEPT !.status = "active"]
  <2>1. r.confirmed = file[f].confirmed /\ r.status = "active"
    BY <1>1 DEF FileRecord
  <2>2. /\ file'[f] = r /\ \A g \in Files \ {f} : file'[g] = file[g]
        /\ file[f].status = "queued"
    BY <1>1, <1>5 DEF ClaimFile, IsNext
  <2> HIDE DEF r
  <2>3. QED
    BY <2>1, <2>2 DEF Calm
<1>6. CASE AssociateSourceDevice(t, d)
  BY <1>6 DEF AssociateSourceDevice, Calm
<1>7. QED
  BY <1>2, <1>3, <1>4, <1>5, <1>6 DEF CalmCall

(* The two others.                                                          *)
Confirms(f, offset) ==
  /\ file'[f].confirmed = offset /\ file[f].confirmed <= offset
  /\ file'[f].status = file[f].status /\ file[f].status = "active"
  /\ \A g \in Files \ {f} : file'[g] = file[g]

Completes(f) ==
  /\ file'[f].confirmed = file[f].confirmed /\ file'[f].status = "completed"
  /\ \A g \in Files \ {f} : file'[g] = file[g]

(* A queue call whose snapshot joins the tail.                              *)
Saved(call) == up /\ Len(pending) < MaxPending /\ call /\ Persist
               /\ UNCHANGED <<disk, up, crashes>>

LEMMA CalmSaves ==
  ASSUME QueueInv, PhoneRests, NEW f \in Files, NEW t \in Transfers, NEW d,
         Saved(CalmCall(f, t, d))
  PROVE  QueueInv' /\ Calm
<1>1. Calm
  BY CalmCalls DEF Saved
<1>2. SavingStep
  BY DEF Saved, CalmCall, SavingStep, SavingCall, FileCall, BatchCall
<1>3. Backed(file') /\ OneMore(Snapshot, Snapshot')
  BY <1>1 DEF QueueInv, Backed, Calm, OneMore, Done, Snapshot
<1>4. QED
  BY <1>1, <1>2, <1>3, QueueSaves

LEMMA ConfirmSaves ==
  ASSUME QueueInv, PhoneRests, NEW f \in Files, NEW offset \in Nat, Held(f, offset),
         Saved(ConfirmProgress(f, offset))
  PROVE  QueueInv' /\ Confirms(f, offset)
<1>1. file \in [Files -> FileRecord] /\ file[f] \in FileRecord
  BY SnapshotsHaveFiles DEF QueueInv
<1>2. /\ file[f].status = "active" /\ offset \in file[f].confirmed..Size[f]
      /\ file' = [file EXCEPT ![f] = [file[f] EXCEPT !.confirmed = offset]]
  BY DEF Saved, ConfirmProgress, Advance
<1>3. /\ file[f].confirmed \in Nat /\ Size[f] \in Nat /\ offset \in 0..Size[f]
      /\ file[f].confirmed <= offset
  <2>1. file[f].confirmed \in Nat /\ Size[f] \in Nat
    BY <1>1, QueueAssumption DEF FileRecord
  <2>2. QED
    BY <1>2, <2>1
<1>4. Confirms(f, offset)
  BY <1>1, <1>2, <1>3 DEF Confirms, FileRecord
<1>5. SavingStep
  BY <1>3 DEF Saved, SavingStep, SavingCall, FileCall
<1>6. Backed(file')
  BY <1>2, <1>4 DEF QueueInv, Backed, Confirms
<1>7. OneMore(Snapshot, Snapshot')
  BY <1>4 DEF OneMore, Done, Snapshot, Confirms
<1>8. QED
  BY <1>4, <1>5, <1>6, <1>7, QueueSaves

LEMMA CompleteSaves ==
  ASSUME QueueInv, PhoneRests, NEW f \in Files, saved[f] > 0, Saved(Complete(f))
  PROVE  QueueInv' /\ Completes(f)
<1>1. file[f] \in FileRecord /\ CoreInv
  BY SnapshotsHaveFiles DEF QueueInv, DurableInv
<1> DEFINE r == [file[f] EXCEPT !.status = "completed", !.finalPath = FALSE]
<1>2. r.confirmed = file[f].confirmed /\ r.status = "completed"
  BY <1>1 DEF FileRecord
<1>3. SettleFile(f, r)
  BY DEF Saved, Complete
<1> HIDE DEF r
<1>4. Completes(f)
  BY <1>1, <1>2, <1>3, OneFileChanges DEF Completes
<1>5. SavingStep
  BY DEF Saved, SavingStep, SavingCall, FileCall
<1>6. Backed(file')
  BY <1>4 DEF QueueInv, Backed, Completes, Held
<1>7. OneMore(Snapshot, Snapshot')
  BY <1>4 DEF OneMore, Done, Snapshot, Completes
<1>8. QED
  BY <1>4, <1>5, <1>6, <1>7, QueueSaves

(* activateNext and the end of a claim that finds nothing.                  *)
LEMMA QuietClaims ==
  ASSUME QueueInv, PhoneRests, up, UNCHANGED durable, ClaimBegin \/ ClaimNothing
  PROVE  QueueInv' /\ Calm
<1>1. Calm
  <2>1. ASSUME NEW g \in Files
        PROVE  \/ file'[g] = file[g]
               \/ /\ file[g].status \notin TerminalFile
                  /\ file'[g] = [file[g] EXCEPT !.status = "failed"]
    BY DEF ClaimBegin, Expire, ClaimNothing
  <2>2. QED
    BY <2>1, SnapshotsHaveFiles DEF QueueInv, Calm, FileRecord, TerminalFile
<1>2. [Next]_vars
  BY DEF Next, OtherStep
<1>3. QED
  BY <1>1, <1>2, QueueIsQuiet
-----------------------------------------------------------------------------
(* The laptop's steps                                                       *)

LEMMA SameBacking ==
  ASSUME PhoneRests
  PROVE  BackedThens' = BackedThens /\ BackedControls' = BackedControls
BY DEF PhoneRests, BackedThens, BackedControls, Held

LEMMA SimpleThens ==
  ASSUME NEW f \in Files
  PROVE  /\ Nothing \in BackedThens /\ Activate \in BackedThens
         /\ Then("offer", f, 0) \in BackedThens
         /\ \A offset \in Nat : Held(f, offset) => Then("accept", f, offset) \in BackedThens
BY DEF Nothing, Activate, Then, BackedThens

LEMMA ActivateIsBacked == Activate \in BackedThens /\ Nothing \in BackedThens
BY DEF Nothing, Activate, Then, BackedThens

(* What follows a save joins the tail with its snapshot.                    *)
LEMMA ThenJoins ==
  ASSUME DurableInv, after \in Seq(BackedThens), Len(after) = Len(pending), PhoneRests,
         NEW d \in BackedThens, after' = Append(after, d), Persist
  PROVE  after' \in Seq(BackedThens') /\ Len(after') = Len(pending')
<1>1. pending \in Seq(SnapshotType)
  BY SnapshotsHaveFiles
<1>2. after' \in Seq(BackedThens) /\ Len(after') = Len(pending')
  BY <1>1 DEF Persist
<1>3. QED
  BY <1>2, SameBacking

(* The receiver and its request stay, but for the answer.                   *)
LEMMA PhoneWaits ==
  ASSUME PhoneInv, PhoneRests, UNCHANGED phone,
         NEW r \in {"chunk", "refused"},
         \/ request' = request
         \/ request.reply # "none" /\ request' = [request EXCEPT !.reply = r]
  PROVE  PhoneInv'
<1>1. /\ request' \in [at : Nat, reply : {"none", "asked", "chunk", "refused"}]
      /\ request'.at = request.at
      /\ request'.reply # "none" => request.reply # "none"
  BY DEF PhoneInv, PhoneShape
<1>2. PhoneShape'
  BY <1>1 DEF PhoneInv, PhoneShape, PhoneRests, Resting
<1>3. Current' = Current
  BY DEF Current, FileAt
<1>4. QED
  BY <1>1, <1>2, <1>3 DEF PhoneInv, PhoneRests

LEMMA PhoneDisposed ==
  ASSUME PhoneInv, Dispose
  PROVE  PhoneInv' /\ PhoneRests
<1>1. PhoneRests /\ request' = NoRequest
  BY DEF Dispose, PhoneRests
<1>2. /\ Resting \in [pc : Steps, transfer : Transfers \cup {Resting.transfer}, at : Nat,
                      offset : Nat]
      /\ Resting.pc = "idle"
      /\ request' \in [at : Nat, reply : {"none", "asked", "chunk", "refused"}]
      /\ request'.reply = "none"
  BY <1>1 DEF Resting, Steps, NoRequest
<1>3. CASE phone' = phone /\ phone.pc \in {"publish", "published"}
  <2>1. PhoneShape'
    BY <1>1, <1>2, <1>3 DEF PhoneInv, PhoneShape, PhoneRests, Resting
  <2>2. Current' = Current
    BY <1>3 DEF Current, FileAt
  <2>3. QED
    BY <1>1, <1>2, <1>3, <2>1, <2>2 DEF PhoneInv, PhoneRests
<1>4. CASE phone' = Resting
  <2>1. PhoneShape'
    BY <1>1, <1>2, <1>4 DEF PhoneInv, PhoneShape, PhoneRests, Resting
  <2>2. phone'.pc = "idle"
    BY <1>2, <1>4
  <2>3. QED
    BY <1>1, <1>2, <2>1, <2>2 DEF PhoneInv, PhoneRests, Fetching
<1>5. QED
  BY <1>3, <1>4 DEF Dispose

LEMMA QueueStays ==
  ASSUME QueueInv, PhoneInv, PhoneRests, UNCHANGED allVars
  PROVE  QueueInv' /\ Calm /\ pending' = pending
<1>1. QueueInv'
  BY StillGrows, QueueWaits DEF PhoneInv, PhoneRests
<1>2. QED
  BY <1>1 DEF Calm, allVars, vars, durable

LEMMA TransfersHaveFiles ==
  ASSUME NEW t \in Transfers
  PROVE  \E f \in Files : Owner[f] = t
BY DownloadAssumption DEF FilesOf

LEMMA EnqueueHeld ==
  ASSUME HeldInv, NEW t \in Transfers, EnqueueLaptopEntries(t)
  PROVE  HeldInv' /\ Calm
<1>1. PICK f \in Files : Owner[f] = t
  BY TransfersHaveFiles
<1>2. /\ up /\ PhoneRests /\ UNCHANGED <<phone, request, ready, inbox, wire, link>>
      /\ Saved(CalmCall(f, t, NoDevice)) /\ after' = Append(after, Activate)
  BY DEF EnqueueLaptopEntries, NextEvent, Saving, Saved, CalmCall, phoneVars, PhoneRests
<1>3. QueueInv' /\ Calm
  BY <1>2, CalmSaves DEF HeldInv
<1>4. after' \in Seq(BackedThens') /\ Len(after') = Len(pending')
  BY <1>2, ActivateIsBacked, ThenJoins DEF HeldInv, QueueInv, MessageInv, Saved
<1>5. MessageInv'
  BY <1>2, <1>4, SameBacking DEF HeldInv, MessageInv
<1>6. PhoneInv'
  BY <1>2, PhoneWaits DEF HeldInv
<1>7. QED
  BY <1>3, <1>5, <1>6 DEF HeldInv

LEMMA SaveDoneHeld ==
  ASSUME HeldInv, SaveDone
  PROVE  HeldInv' /\ OneMore(disk, disk')
<1>1. /\ PhoneRests /\ UNCHANGED <<phone, request, inbox, wire, link>>
      /\ Save /\ pending # <<>> /\ pending' = Tail(pending) /\ after' = Tail(after)
      /\ ready' = ready \/ ready' = Append(ready, Head(after))
  BY DEF SaveDone, Save, phoneVars, PhoneRests
<1>2. QueueInv' /\ OneMore(disk, disk')
  BY <1>1, SaveIsDone DEF HeldInv
<1>3. /\ after \in Seq(BackedThens) /\ ready \in Seq(BackedThens)
      /\ pending \in Seq(SnapshotType) /\ Len(after) = Len(pending)
  BY SnapshotsHaveFiles DEF HeldInv, QueueInv, MessageInv
<1>4. /\ after' \in Seq(BackedThens) /\ Len(after') = Len(pending')
      /\ ready' \in Seq(BackedThens)
  <2>1. after # <<>>
    BY <1>1, <1>3
  <2>2. Head(after) \in BackedThens
    BY <1>3, <2>1
  <2>3. after' \in Seq(BackedThens) /\ Len(after') = Len(pending')
    BY <1>1, <1>3, <2>1
  <2>4. Append(ready, Head(after)) \in Seq(BackedThens)
    BY <1>3, <2>2, AppendProperties
  <2>5. QED
    BY <1>1, <1>3, <2>3, <2>4
<1>5. MessageInv'
  BY <1>1, <1>4, SameBacking DEF HeldInv, MessageInv
<1>6. PhoneInv'
  BY <1>1, PhoneWaits DEF HeldInv
<1>7. QED
  BY <1>2, <1>5, <1>6 DEF HeldInv

(* An offset that is confirmed or refused.                                  *)
LEMMA AcceptOffset ==
  ASSUME HeldInv, PhoneRests, up, NEW f \in Files, NEW offset \in Nat, Held(f, offset),
         AcceptReceiverOffset(f, offset)
  PROVE  /\ QueueInv' /\ after' \in Seq(BackedThens') /\ Len(after') = Len(pending')
         /\ \/ Confirms(f, offset) /\ after' = Append(after, Nothing)
            \/ Calm /\ after' = after
<1>1. CASE file[f].status = "active" /\ offset \in file[f].confirmed..Size[f]
  <2>1. Saved(ConfirmProgress(f, offset)) /\ after' = Append(after, Nothing)
    BY <1>1 DEF AcceptReceiverOffset, Saving, Saved
  <2>2. QueueInv' /\ Confirms(f, offset)
    BY <2>1, ConfirmSaves DEF HeldInv
  <2>3. after' \in Seq(BackedThens') /\ Len(after') = Len(pending')
    BY <2>1, ActivateIsBacked, ThenJoins DEF HeldInv, QueueInv, MessageInv, Saved
  <2>4. QED
    BY <2>1, <2>2, <2>3
<1>2. CASE ~(file[f].status = "active" /\ offset \in file[f].confirmed..Size[f])
  <2>1. UNCHANGED allVars /\ after' = after
    BY <1>2 DEF AcceptReceiverOffset, Throw
  <2>2. QueueInv' /\ Calm /\ pending' = pending
    BY <2>1, QueueStays DEF HeldInv
  <2>3. QED
    BY <2>1, <2>2, SameBacking DEF HeldInv, MessageInv
<1>3. QED
  BY <1>1, <1>2

(* A claim that starts: the queue saves nothing.                            *)
LEMMA ActivateNextHeld ==
  ASSUME HeldInv, PhoneRests, up, ActivateNext
  PROVE  /\ QueueInv' /\ after' \in Seq(BackedThens') /\ Len(after') = Len(pending')
         /\ Calm /\ after' = after
<1>1. QueueInv' /\ Calm
  BY QuietClaims DEF ActivateNext, HeldInv
<1>2. after' = after /\ pending' = pending
  BY DEF ActivateNext, durable
<1>3. QED
  BY <1>1, <1>2, SameBacking DEF HeldInv, MessageInv

LEMMA ContinueHeld ==
  ASSUME HeldInv, Continue
  PROVE  HeldInv'
<1> DEFINE d == Head(ready)
<1>1. /\ PhoneRests /\ UNCHANGED <<phone, request, wire, link>>
      /\ up /\ ready # <<>> /\ ready' = Tail(ready)
  BY DEF Continue, PhoneRests
<1>2. /\ ready \in Seq(BackedThens) /\ d \in BackedThens /\ ready' \in Seq(BackedThens)
      /\ inbox \in Seq(Transfers)
  BY <1>1 DEF HeldInv, MessageInv
<1>3. /\ QueueInv' /\ after' \in Seq(BackedThens') /\ Len(after') = Len(pending')
      /\ inbox' \in Seq(Transfers)
  <2>1. CASE d.do = "activate" /\ ActivateNext /\ UNCHANGED inbox
    BY <1>1, <1>2, <2>1, ActivateNextHeld
  <2>2. CASE d.do = "accept" /\ AcceptReceiverOffset(d.file, d.offset) /\ UNCHANGED inbox
    <3>1. d.file \in Files /\ d.offset \in Nat /\ Held(d.file, d.offset)
      BY <1>2, <2>2 DEF BackedThens
    <3>2. QED
      BY <1>1, <1>2, <2>2, <3>1, AcceptOffset
  <2>3. CASE d.do = "offer" /\ Publish(Owner[d.file]) /\ UNCHANGED <<allVars, after>>
    <3>1. Owner[d.file] \in Transfers
      BY <1>2, <2>3, QueueAssumption DEF BackedThens
    <3>2. inbox' \in Seq(Transfers)
      BY <1>2, <2>3, <3>1 DEF Publish
    <3>3. QueueInv' /\ pending' = pending
      BY <1>1, <2>3, QueueStays DEF HeldInv
    <3>4. QED
      BY <1>1, <2>3, <3>2, <3>3, SameBacking DEF HeldInv, MessageInv
  <2>4. QED
    BY <2>1, <2>2, <2>3 DEF Continue
<1>4. MessageInv'
  BY <1>1, <1>2, <1>3, SameBacking DEF HeldInv, MessageInv
<1>5. PhoneInv'
  BY <1>1, PhoneWaits DEF HeldInv
<1>6. QED
  BY <1>3, <1>4, <1>5 DEF HeldInv

LEMMA ClaimHeld ==
  ASSUME HeldInv, Claim
  PROVE  HeldInv' /\ Calm
<1>1. /\ PhoneRests /\ UNCHANGED <<phone, request, ready, inbox, wire, link>> /\ up
  BY DEF Claim, phoneVars, PhoneRests
<1>2. QueueInv' /\ Calm /\ after' \in Seq(BackedThens') /\ Len(after') = Len(pending')
  <2>1. ASSUME NEW f \in Files, Saving(ClaimFile(f), Then("offer", f, 0))
        PROVE  QueueInv' /\ Calm /\ after' \in Seq(BackedThens') /\ Len(after') = Len(pending')
    <3>1. /\ Saved(CalmCall(f, Owner[f], NoDevice)) /\ Owner[f] \in Transfers
          /\ after' = Append(after, Then("offer", f, 0)) /\ Persist
      BY <1>1, <2>1, QueueAssumption DEF Saving, Saved, CalmCall
    <3>2. QueueInv' /\ Calm
      BY <1>1, <3>1, CalmSaves DEF HeldInv
    <3>3. QED
      BY <1>1, <3>1, <3>2, SimpleThens, ThenJoins DEF HeldInv, QueueInv, MessageInv
  <2>2. CASE ClaimNothing /\ UNCHANGED <<durable, after>>
    <3>1. QueueInv' /\ Calm /\ pending' = pending /\ after' = after
      BY <1>1, <2>2, QuietClaims DEF HeldInv, durable
    <3>2. QED
      BY <1>1, <3>1, SameBacking DEF HeldInv, MessageInv
  <2>3. QED
    BY <2>1, <2>2 DEF Claim
<1>3. MessageInv'
  BY <1>1, <1>2, SameBacking DEF HeldInv, MessageInv
<1>4. PhoneInv'
  BY <1>1, PhoneWaits DEF HeldInv
<1>5. QED
  BY <1>2, <1>3, <1>4 DEF HeldInv

(* The control that is handled leaves the wire.                             *)
LEMMA ControlArrives ==
  ASSUME HeldInv, NEW kind \in Controls, Arrived(kind), Handled
  PROVE  /\ PhoneRests /\ UNCHANGED <<phone, request, ready, inbox, link>> /\ up
         /\ Head(wire) \in BackedControls /\ Head(wire).kind = kind
         /\ Head(wire).file \in Files /\ Owner[Head(wire).file] \in Transfers
         /\ Head(wire).offset \in Nat
         /\ wire' = Tail(wire) /\ wire' \in Seq(BackedControls)
         /\ MessageInv' <=> after' \in Seq(BackedThens') /\ Len(after') = Len(pending')
         /\ PhoneInv'
<1>1. /\ wire \in Seq(BackedControls) /\ wire # <<>> /\ wire' = Tail(wire)
      /\ PhoneRests /\ UNCHANGED <<phone, request, ready, inbox, link>> /\ up
      /\ Head(wire).kind = kind
  BY DEF HeldInv, MessageInv, Arrived, Handled, NextEvent, phoneVars, PhoneRests
<1>2. Head(wire) \in BackedControls /\ wire' \in Seq(BackedControls)
  BY <1>1
<1>3. Head(wire).file \in Files /\ Head(wire).offset \in Nat
  BY <1>2 DEF BackedControls
<1>4. PhoneInv'
  BY <1>1, PhoneWaits DEF HeldInv
<1>5. MessageInv' <=> after' \in Seq(BackedThens') /\ Len(after') = Len(pending')
  BY <1>1, <1>2, SameBacking DEF HeldInv, MessageInv
<1>6. QED
  BY <1>1, <1>2, <1>3, <1>4, <1>5, QueueAssumption

(* What a handled control does to the files.                                *)
LEMMA AcceptHeld ==
  ASSUME HeldInv, HandleAccept
  PROVE  /\ HeldInv'
         /\ LET m == Head(wire)
            IN  \/ Calm /\ after' = Append(after, Then("accept", m.file, m.offset))
                \/ Confirms(m.file, m.offset) /\ after' = Append(after, Nothing)
                \/ Calm /\ after' = after
<1> DEFINE m == Head(wire)
<1>1. Arrived("accept") /\ Handled /\ "accept" \in Controls
  BY DEF HandleAccept, Controls
<1>2. /\ PhoneRests /\ up /\ m \in BackedControls /\ m.kind = "accept"
      /\ m.file \in Files /\ Owner[m.file] \in Transfers /\ m.offset \in Nat
      /\ MessageInv' <=> after' \in Seq(BackedThens') /\ Len(after') = Len(pending')
      /\ PhoneInv'
  BY <1>1, ControlArrives
<1>3. Held(m.file, m.offset)
  BY <1>2 DEF BackedControls
<1>4. CASE batch[Owner[m.file]].device = NoDevice
  <2>1. PICK d \in Devices :
          Saving(AssociateSourceDevice(Owner[m.file], d), Then("accept", m.file, m.offset))
    BY <1>4 DEF HandleAccept
  <2>2. /\ Saved(CalmCall(m.file, Owner[m.file], d))
        /\ after' = Append(after, Then("accept", m.file, m.offset))
    BY <1>2, <2>1 DEF Saving, Saved, CalmCall
  <2>3. QueueInv' /\ Calm
    BY <1>2, <2>2, CalmSaves DEF HeldInv
  <2>4. Then("accept", m.file, m.offset) \in BackedThens
    BY <1>2, <1>3, SimpleThens
  <2>5. after' \in Seq(BackedThens') /\ Len(after') = Len(pending')
    BY <1>2, <2>2, <2>4, ThenJoins DEF HeldInv, QueueInv, MessageInv, Saved
  <2>6. QED
    BY <1>2, <2>2, <2>3, <2>5 DEF HeldInv
<1>5. CASE batch[Owner[m.file]].device # NoDevice
  <2>1. AcceptReceiverOffset(m.file, m.offset)
    BY <1>5 DEF HandleAccept
  <2>2. QED
    BY <1>2, <1>3, <2>1, AcceptOffset DEF HeldInv
<1>6. QED
  BY <1>4, <1>5

LEMMA ProgressHeld ==
  ASSUME HeldInv, HandleProgress
  PROVE  /\ HeldInv'
         /\ LET m == Head(wire)
            IN  \/ Confirms(m.file, m.offset) /\ after' = Append(after, Nothing)
                \/ Calm /\ after' = after
<1> DEFINE m == Head(wire)
<1>1. Arrived("progress") /\ Handled /\ "progress" \in Controls
      /\ AcceptReceiverOffset(m.file, m.offset)
  BY DEF HandleProgress, Controls
<1>2. /\ PhoneRests /\ up /\ m \in BackedControls /\ m.kind = "progress"
      /\ m.file \in Files /\ m.offset \in Nat
      /\ MessageInv' <=> after' \in Seq(BackedThens') /\ Len(after') = Len(pending')
      /\ PhoneInv'
  BY <1>1, ControlArrives
<1>3. Held(m.file, m.offset)
  BY <1>2 DEF BackedControls
<1>4. QED
  BY <1>1, <1>2, <1>3, AcceptOffset DEF HeldInv

LEMMA CompleteHeld ==
  ASSUME HeldInv, HandleComplete
  PROVE  /\ HeldInv'
         /\ \/ Completes(Head(wire).file) /\ after' = Append(after, Activate)
            \/ Calm /\ after' = after
<1> DEFINE f == Head(wire).file
<1>1. Arrived("complete") /\ Handled /\ "complete" \in Controls
  BY DEF HandleComplete, Controls
<1>2. /\ PhoneRests /\ up /\ Head(wire) \in BackedControls /\ Head(wire).kind = "complete"
      /\ f \in Files
      /\ MessageInv' <=> after' \in Seq(BackedThens') /\ Len(after') = Len(pending')
      /\ PhoneInv'
  BY <1>1, ControlArrives
<1>3. saved[f] > 0
  BY <1>2 DEF BackedControls
<1>4. CASE Saving(Complete(f), Activate)
  <2>1. Saved(Complete(f)) /\ after' = Append(after, Activate)
    BY <1>2, <1>4 DEF Saving, Saved
  <2>2. QueueInv' /\ Completes(f)
    BY <1>2, <1>3, <2>1, CompleteSaves DEF HeldInv
  <2>3. after' \in Seq(BackedThens') /\ Len(after') = Len(pending')
    BY <1>2, <2>1, ActivateIsBacked, ThenJoins DEF HeldInv, QueueInv, MessageInv, Saved
  <2>4. QED
    BY <1>2, <2>1, <2>2, <2>3 DEF HeldInv
<1>5. CASE Throw
  <2>1. QueueInv' /\ Calm /\ pending' = pending /\ after' = after
    BY <1>2, <1>5, QueueStays DEF HeldInv, Throw
  <2>2. QED
    BY <1>2, <2>1, SameBacking DEF HeldInv, MessageInv
<1>6. QED
  BY <1>4, <1>5 DEF HandleComplete

LEMMA EndHeld ==
  ASSUME HeldInv, HandleFailed \/ HandlePause
  PROVE  HeldInv' /\ Calm /\ after' \in {after, Append(after, Activate)}
<1> DEFINE f == Head(wire).file
<1>1. PICK kind \in {"failed", "pause"} : Arrived(kind) /\ Handled
  BY DEF HandleFailed, HandlePause
<1>2. /\ PhoneRests /\ up
      /\ f \in Files /\ Owner[f] \in Transfers
      /\ MessageInv' <=> after' \in Seq(BackedThens') /\ Len(after') = Len(pending')
      /\ PhoneInv'
  BY <1>1, ControlArrives DEF Controls
<1>3. CASE ActivateNext
  BY <1>2, <1>3, ActivateNextHeld DEF HeldInv
<1>4. CASE Saving(Fail(f), Activate) \/ Saving(PauseFile(f), Activate)
  <2>1. Saved(CalmCall(f, Owner[f], NoDevice)) /\ after' = Append(after, Activate)
    BY <1>2, <1>4 DEF Saving, Saved, CalmCall
  <2>2. QueueInv' /\ Calm
    BY <1>2, <2>1, CalmSaves DEF HeldInv
  <2>3. after' \in Seq(BackedThens') /\ Len(after') = Len(pending')
    BY <1>2, <2>1, ActivateIsBacked, ThenJoins DEF HeldInv, QueueInv, MessageInv, Saved
  <2>4. QED
    BY <1>2, <2>1, <2>2, <2>3 DEF HeldInv
<1>5. QED
  BY <1>3, <1>4 DEF HandleFailed, HandlePause

LEMMA AnswerHeld ==
  ASSUME HeldInv, AnswerGet \/ GetFails
  PROVE  HeldInv' /\ Calm
<1>1. /\ PhoneRests /\ UNCHANGED <<allVars, after, ready, inbox, wire, link, phone>>
      /\ \E r \in {"chunk", "refused"} :
           request.reply # "none" /\ request' = [request EXCEPT !.reply = r]
  BY DEF AnswerGet, GetFails, PhoneRests, laptopVars
<1>2. QueueInv' /\ Calm /\ pending' = pending
  BY <1>1, QueueStays DEF HeldInv
<1>3. MessageInv'
  BY <1>1, <1>2, SameBacking DEF HeldInv, MessageInv
<1>4. PhoneInv'
  BY <1>1, PhoneWaits DEF HeldInv
<1>5. QED
  BY <1>2, <1>3, <1>4 DEF HeldInv
-----------------------------------------------------------------------------
(* Connections lost and found, crashes and restarts                         *)

LEMMA EmptySequence ==
  ASSUME NEW S
  PROVE  <<>> \in Seq(S) /\ Len(<<>>) = 0
OBVIOUS

LEMMA HangUpHeld ==
  ASSUME HeldInv, Drop \/ HangUp
  PROVE  HeldInv' /\ Calm
<1>1. /\ Dispose /\ UNCHANGED <<allVars, after, ready>> /\ inbox' = <<>>
      /\ wire' = wire \/ wire' = <<>>
      /\ link' = "half"
  BY DEF Drop, HangUp, Dispose, laptopVars
<1>2. PhoneInv' /\ PhoneRests
  BY <1>1, PhoneDisposed DEF HeldInv
<1>3. QueueInv' /\ Calm /\ pending' = pending
  BY <1>1, <1>2, QueueStays DEF HeldInv
<1>4. MessageInv'
  BY <1>1, <1>2, <1>3, SameBacking, EmptySequence DEF HeldInv, MessageInv
<1>5. QED
  BY <1>2, <1>3, <1>4 DEF HeldInv

LEMMA NoticeHeld ==
  ASSUME HeldInv, NoticeDisconnect
  PROVE  HeldInv' /\ Calm /\ after' \in {after, Append(after, Nothing)}
<1> DEFINE left == {f \in Files : file[f].status = "active" /\ batch[Owner[f]].device # NoDevice}
           f == CHOOSE g \in left : TRUE
<1>1. /\ PhoneRests /\ up /\ UNCHANGED <<phone, request, ready, inbox>>
      /\ wire' = <<>> /\ link' = "down"
  BY DEF NoticeDisconnect, NextEvent, phoneVars, PhoneRests
<1>2. /\ QueueInv' /\ Calm /\ after' \in Seq(BackedThens') /\ Len(after') = Len(pending')
      /\ after' \in {after, Append(after, Nothing)}
  <2>1. CASE left = {}
    <3>1. UNCHANGED <<allVars, after>>
      BY <2>1 DEF NoticeDisconnect
    <3>2. QueueInv' /\ Calm /\ pending' = pending
      BY <1>1, <3>1, QueueStays DEF HeldInv
    <3>3. QED
      BY <1>1, <3>1, <3>2, SameBacking DEF HeldInv, MessageInv
  <2>2. CASE left # {}
    <3>1. f \in Files /\ Saving(Fail(f), Nothing)
      BY <2>2 DEF NoticeDisconnect
    <3>2. Owner[f] \in Transfers
      BY <3>1, QueueAssumption
    <3> HIDE DEF f, left
    <3>3. Saved(CalmCall(f, Owner[f], NoDevice)) /\ after' = Append(after, Nothing)
      BY <1>1, <3>1 DEF Saving, Saved, CalmCall
    <3>4. QueueInv' /\ Calm
      BY <1>1, <3>1, <3>2, <3>3, CalmSaves DEF HeldInv
    <3>5. after' \in Seq(BackedThens') /\ Len(after') = Len(pending')
      BY <1>1, <3>3, ActivateIsBacked, ThenJoins DEF HeldInv, QueueInv, MessageInv, Saved
    <3>6. QED
      BY <3>3, <3>4, <3>5
  <2>3. QED
    BY <2>1, <2>2
<1>3. MessageInv'
  BY <1>1, <1>2, SameBacking, EmptySequence DEF HeldInv, MessageInv
<1>4. PhoneInv'
  BY <1>1, PhoneWaits DEF HeldInv
<1>5. QED
  BY <1>2, <1>3, <1>4 DEF HeldInv

LEMMA ConnectHeld ==
  ASSUME HeldInv, Connect
  PROVE  HeldInv' /\ Calm
<1>1. /\ PhoneRests /\ up /\ UNCHANGED <<phone, request, ready>>
      /\ wire' = <<>> /\ link' = "up"
  BY DEF Connect, NextEvent, PhoneRests
<1>2. /\ QueueInv' /\ Calm /\ after' \in Seq(BackedThens') /\ Len(after') = Len(pending')
      /\ inbox' \in Seq(Transfers)
  <2>1. CASE Unaccepted # {}
    <3>1. /\ inbox' = Append(inbox, CHOOSE t \in Unaccepted : TRUE) /\ UNCHANGED <<allVars, after>>
          /\ (CHOOSE t \in Unaccepted : TRUE) \in Transfers
      BY <2>1 DEF Connect, Unaccepted
    <3>2. QueueInv' /\ Calm /\ pending' = pending
      BY <1>1, <3>1, QueueStays DEF HeldInv
    <3>3. QED
      BY <1>1, <3>1, <3>2, SameBacking DEF HeldInv, MessageInv
  <2>2. CASE ActivateNext /\ UNCHANGED inbox
    BY <1>1, <2>2, ActivateNextHeld DEF HeldInv, MessageInv
  <2>3. QED
    BY <2>1, <2>2 DEF Connect
<1>3. MessageInv'
  BY <1>1, <1>2, SameBacking, EmptySequence DEF HeldInv, MessageInv
<1>4. PhoneInv'
  BY <1>1, PhoneWaits DEF HeldInv
<1>5. QED
  BY <1>2, <1>3, <1>4 DEF HeldInv

LEMMA CrashHeld ==
  ASSUME HeldInv, LaptopCrash
  PROVE  HeldInv'
<1>1. /\ Crash /\ Dispose /\ after' = <<>> /\ ready' = <<>> /\ link' = "down" /\ wire' = <<>>
      /\ inbox' = <<>> /\ pending' = <<>>
  BY DEF LaptopCrash, Dispose, Crash
<1>2. PhoneInv' /\ PhoneRests
  BY <1>1, PhoneDisposed DEF HeldInv
<1>3. QueueInv'
  BY <1>1, <1>2, QueueCrashes DEF HeldInv
<1>4. MessageInv'
  BY <1>1, EmptySequence DEF MessageInv
<1>5. QED
  BY <1>2, <1>3, <1>4 DEF HeldInv

LEMMA RestartHeld ==
  ASSUME HeldInv, LaptopRestart
  PROVE  HeldInv' /\ Calm /\ Done(disk') = Done(disk)
<1>1. /\ PhoneRests /\ UNCHANGED <<phone, request, inbox, wire, link, after, pending>>
      /\ Reopen({}) /\ ready' = <<Activate>>
  BY DEF LaptopRestart, Reopen, phoneVars, PhoneRests
<1>2. QueueInv' /\ Calm /\ Done(disk') = Done(disk)
  BY <1>1, QueueReopens, ReopenIsCalm DEF HeldInv, QueueInv
<1>3. ready' \in Seq(BackedThens)
  BY <1>1, ActivateIsBacked
<1>4. MessageInv'
  BY <1>1, <1>2, <1>3, SameBacking DEF HeldInv, MessageInv
<1>5. PhoneInv'
  BY <1>1, PhoneWaits DEF HeldInv
<1>6. QED
  BY <1>2, <1>4, <1>5 DEF HeldInv
-----------------------------------------------------------------------------
(* The phone's steps                                                        *)

PhoneRecord ==
  [pc : Steps, transfer : Transfers \cup {Resting.transfer}, at : Nat, offset : Nat]
OnAFile(p) == p.transfer \in Transfers /\ p.at \in 1..Cardinality(FilesOf(p.transfer))

LEMMA RestingIsIdle == Resting \in PhoneRecord /\ Resting.pc = "idle"
BY DEF Resting, PhoneRecord, Steps

(* The laptop hears of a step of the phone through its controls alone.      *)
LEMMA LaptopWaits ==
  ASSUME HeldInv, Grows, UNCHANGED <<allVars, laptopVars, link>>,
         wire' \in Seq(BackedControls'), inbox' \in Seq(Transfers)
  PROVE  QueueInv' /\ MessageInv'
<1>1. PhoneShape /\ pending' = pending
  BY DEF HeldInv, PhoneInv, allVars, durable
<1>2. QueueInv'
  BY <1>1, QueueWaits DEF HeldInv
<1>3. BackedThens \subseteq BackedThens'
  BY <1>1, HeldGrows
<1>4. after \in Seq(BackedThens') /\ ready \in Seq(BackedThens')
  BY <1>3, WiderSeq DEF HeldInv, MessageInv
<1>5. QED
  BY <1>1, <1>2, <1>4 DEF HeldInv, MessageInv, laptopVars

LEMMA WireStays ==
  ASSUME HeldInv, Grows, wire' = wire
  PROVE  wire' \in Seq(BackedControls')
<1>1. BackedControls \subseteq BackedControls'
  BY HeldGrows DEF HeldInv, PhoneInv
<1>2. QED
  BY <1>1, WiderSeq DEF HeldInv, MessageInv

LEMMA SendIsBacked ==
  ASSUME HeldInv, Grows, NEW kind \in Controls, NEW f \in Files, NEW offset \in Nat,
         Send(kind, f, offset),
         kind \in {"accept", "progress"} =>
           f \in discarded' \/ saved'[f] > 0 \/ offset <= Len(partial'[f]),
         kind = "complete" => saved'[f] > 0
  PROVE  wire' \in Seq(BackedControls')
<1> DEFINE m == [kind |-> kind, file |-> f, offset |-> offset]
<1>1. wire \in Seq(BackedControls')
  <2>1. BackedControls \subseteq BackedControls'
    BY HeldGrows DEF HeldInv, PhoneInv
  <2>2. QED
    BY <2>1, WiderSeq DEF HeldInv, MessageInv
<1>2. m \in BackedControls'
  BY DEF BackedControls, Held
<1>3. wire' = wire \/ wire' = Append(wire, m)
  BY DEF Send
<1> HIDE DEF m
<1>4. QED
  BY <1>1, <1>2, <1>3, AppendProperties

(* The receiver goes on with the file it is at.                             *)
LEMMA SameFile ==
  ASSUME PhoneShape, phone.pc # "idle", NEW pc \in Steps \ {"idle"}, NEW offset \in Nat,
         phone' = [phone EXCEPT !.pc = pc, !.offset = offset]
  PROVE  /\ phone' \in PhoneRecord /\ OnAFile(phone') /\ phone'.pc = pc /\ phone'.offset = offset
         /\ Current' = Current /\ Current \in Files
<1>1. /\ phone' \in PhoneRecord /\ phone'.pc = pc /\ phone'.offset = offset
      /\ phone'.transfer = phone.transfer /\ phone'.at = phone.at
  BY DEF PhoneShape, PhoneRecord
<1>2. OnAFile(phone')
  BY <1>1 DEF PhoneShape, OnAFile
<1>3. Current' = Current
  BY <1>1 DEF Current, FileAt
<1>4. QED
  BY <1>1, <1>2, <1>3, CurrentIsAFile

(* The same when only the step changes.                                     *)
LEMMA SameOffset ==
  ASSUME PhoneShape, phone.pc # "idle", NEW pc \in Steps \ {"idle"}, Goto(pc)
  PROVE  /\ phone' \in PhoneRecord /\ OnAFile(phone') /\ phone'.pc = pc
         /\ phone'.offset = phone.offset /\ phone.offset \in Nat
         /\ Current' = Current /\ Current \in Files
<1>1. /\ phone.offset \in Nat
      /\ phone' = [phone EXCEPT !.pc = pc, !.offset = phone.offset]
  BY DEF PhoneShape, Goto
<1>2. QED
  BY <1>1, SameFile

(* The receiver leaves its file.                                            *)
LEMMA LeavesFile ==
  ASSUME PhoneShape, phone.pc # "idle", NextFile \/ phone' = Resting
  PROVE  /\ phone' \in PhoneRecord /\ phone'.pc \in {"idle", "file"}
         /\ phone'.pc # "idle" => OnAFile(phone')
<1> DEFINE n == Cardinality(FilesOf(phone.transfer))
<1>1. phone \in PhoneRecord /\ OnAFile(phone)
  BY DEF PhoneShape, PhoneRecord, OnAFile
<1>2. n \in Nat
  BY <1>1, DownloadAssumption, FS_CardinalityType DEF OnAFile
<1>3. CASE phone' = Resting
  BY <1>3, RestingIsIdle
<1>4. CASE phone.at # n /\ phone' = [phone EXCEPT !.pc = "file", !.at = phone.at + 1, !.offset = 0]
  <2>1. /\ phone.at \in 1..n /\ phone.at + 1 \in 1..n
    BY <1>1, <1>2, <1>4 DEF OnAFile
  <2>2. phone.at + 1 \in Nat /\ "file" \in Steps
    BY <1>2, <2>1 DEF Steps
  <2>3. /\ phone' \in PhoneRecord /\ phone'.pc = "file"
        /\ phone'.at = phone.at + 1 /\ phone'.transfer = phone.transfer
    BY <1>1, <1>4, <2>2 DEF PhoneRecord
  <2>4. QED
    BY <1>1, <2>1, <2>3 DEF OnAFile
<1>5. QED
  BY <1>3, <1>4 DEF NextFile

(* Every partial file is a prefix of its file.                              *)
Prefixes(p) ==
  \A f \in Files : Len(p[f]) <= Size[f] /\ \A n \in 1..Len(p[f]) : p[f][n] = n - 1

LEMMA BetweenFiles ==
  ASSUME PhoneInv, Grows, Prefixes(partial'), phone' \in PhoneRecord,
         phone'.pc \in {"idle", "file"}, phone'.pc # "idle" => OnAFile(phone'),
         request' = NoRequest \/ (request' = request /\ request.reply = "none")
  PROVE  PhoneInv'
<1>1. /\ request' \in [at : Nat, reply : {"none", "asked", "chunk", "refused"}]
      /\ request'.reply = "none"
  BY DEF NoRequest, PhoneInv, PhoneShape
<1>2. PhoneShape'
  BY <1>1 DEF PhoneShape, Grows, OnAFile, PhoneRecord, Resting
<1>3. phone'.pc \notin Fetching \cup {"hash", "publish", "published"}
  BY DEF Fetching
<1>4. QED
  BY <1>1, <1>2, <1>3 DEF PhoneInv, Prefixes, Fetching

(* A step within a file that leaves the files alone.                        *)
LEMMA WithinFile ==
  ASSUME PhoneInv, Grows, Prefixes(partial'), phone' \in PhoneRecord, OnAFile(phone'),
         NEW f \in Files, Current' = f,
         phone'.pc \in Fetching => phone'.offset = Len(partial'[f]),
         phone'.pc \in {"wait", "write"} => Size[f] = 0 \/ phone'.offset < Size[f],
         phone'.pc \in {"hash", "publish"} => Len(partial'[f]) = Size[f],
         phone'.pc = "published" => partial'[f] = <<>> /\ saved'[f] > 0,
         request' \in [at : Nat, reply : {"none", "asked", "chunk", "refused"}],
         request'.reply # "none" =>
           /\ phone'.pc \in Fetching
           /\ request'.at = IF phone'.pc = "write" THEN phone'.offset + 1 ELSE phone'.offset
           /\ phone'.pc = "write" \/ Size[f] # 0 => request'.at < Size[f]
  PROVE  PhoneInv'
<1>1. PhoneShape'
  BY DEF PhoneShape, Grows, OnAFile, PhoneRecord, Resting
<1>2. QED
  BY <1>1 DEF PhoneInv, Prefixes

LEMMA PrefixesStay ==
  ASSUME PhoneInv, PhoneRests
  PROVE  Grows /\ Prefixes(partial')
BY StillGrows DEF PhoneInv, PhoneRests, Prefixes

LEMMA TakeOfferHeld ==
  ASSUME HeldInv, TakeOffer
  PROVE  HeldInv'
<1> DEFINE t == Head(inbox)
<1>1. /\ inbox \in Seq(Transfers) /\ inbox # <<>> /\ inbox' = Tail(inbox)
      /\ wire' = wire /\ PhoneRests /\ UNCHANGED <<allVars, laptopVars, link, request>>
      /\ phone' = [Resting EXCEPT !.pc = "file", !.transfer = t] /\ phone.pc = "idle"
  BY DEF TakeOffer, OnPhone, PhoneRests, HeldInv, MessageInv, At
<1>2. inbox' \in Seq(Transfers) /\ t \in Transfers
  BY <1>1
<1>3. Grows /\ Prefixes(partial')
  BY <1>1, PrefixesStay DEF HeldInv
<1>4. phone' \in PhoneRecord /\ phone'.pc = "file" /\ OnAFile(phone')
  <2>1. phone' \in PhoneRecord /\ phone'.pc = "file" /\ phone'.transfer = t /\ phone'.at = 1
    BY <1>1, <1>2 DEF PhoneRecord, Resting, Steps
  <2>2. IsFiniteSet(FilesOf(t)) /\ FilesOf(t) # {}
    BY <1>2, DownloadAssumption
  <2>3. Cardinality(FilesOf(t)) \in Nat /\ Cardinality(FilesOf(t)) # 0
    BY <2>2, FS_CardinalityType, FS_EmptySet
  <2>4. QED
    BY <1>2, <2>1, <2>3 DEF OnAFile
<1>5. request.reply = "none"
  BY <1>1 DEF HeldInv, PhoneInv, Fetching
<1>6. PhoneInv'
  BY <1>1, <1>3, <1>4, <1>5, BetweenFiles DEF HeldInv
<1>7. QED
  BY <1>1, <1>2, <1>3, <1>6, WireStays, LaptopWaits DEF HeldInv

LEMMA PauseOfferHeld ==
  ASSUME HeldInv, PauseOffer
  PROVE  HeldInv'
<1> DEFINE t == Head(inbox)
           n == Cardinality(FilesOf(t))
           pause(i) == [kind |-> "pause", file |-> FileAt(t, i), offset |-> 0]
           pauses == [i \in 1..n |-> pause(i)]
<1>1. /\ inbox \in Seq(Transfers) /\ inbox # <<>> /\ inbox' = Tail(inbox)
      /\ PhoneRests /\ UNCHANGED <<allVars, laptopVars, link, request, phone>>
      /\ wire' = wire \o pauses /\ wire \in Seq(BackedControls)
  BY DEF PauseOffer, OnPhone, PhoneRests, HeldInv, MessageInv
<1>2. inbox' \in Seq(Transfers) /\ t \in Transfers
  BY <1>1
<1>3. n \in Nat
  BY <1>2, DownloadAssumption, FS_CardinalityType
<1>4. \A i \in 1..n : pause(i) \in BackedControls
  <2>1. ASSUME NEW i \in 1..n PROVE FileAt(t, i) \in Files
    BY <1>2, FileAtPlace
  <2>2. QED
    BY <2>1 DEF BackedControls, Controls
<1> HIDE DEF pause
<1>5. pauses \in Seq(BackedControls)
  BY <1>3, <1>4
<1> HIDE DEF pauses
<1>6. wire' \in Seq(BackedControls)
  BY <1>1, <1>5
<1>7. Grows
  BY <1>1, PrefixesStay DEF HeldInv
<1>8. PhoneInv'
  BY <1>1, PhoneWaits DEF HeldInv
<1>9. QED
  BY <1>1, <1>2, <1>6, <1>7, <1>8, SameBacking, LaptopWaits DEF HeldInv

(* A file that is given up, and one that is announced.                      *)
LEMMA EndsFileHeld ==
  ASSUME HeldInv, phone.pc # "idle", Grows, Prefixes(partial'),
         UNCHANGED <<allVars, laptopVars, link, inbox>>,
         NEW kind \in {"failed", "complete"}, Send(kind, Current, 0),
         kind = "complete" => saved'[Current] > 0,
         NextFile \/ phone' = Resting,
         request' = NoRequest \/ (request' = request /\ request.reply = "none")
  PROVE  HeldInv'
<1>1. Current \in Files /\ PhoneShape /\ inbox' \in Seq(Transfers)
  BY CurrentIsAFile DEF HeldInv, PhoneInv, MessageInv
<1>2. wire' \in Seq(BackedControls')
  BY <1>1, SendIsBacked DEF Controls
<1>3. PhoneInv'
  BY <1>1, LeavesFile, BetweenFiles DEF HeldInv
<1>4. QED
  BY <1>1, <1>2, <1>3, LaptopWaits DEF HeldInv

LEMMA GivesUpHeld ==
  ASSUME HeldInv, RejectFile \/ FailFile \/ WriteFails
  PROVE  HeldInv'
<1>1. /\ phone.pc # "idle" /\ Send("failed", Current, 0) /\ NextFile /\ PhoneRests
      /\ UNCHANGED <<allVars, laptopVars, link, inbox>>
      /\ \/ request' = NoRequest
         \/ request' = request /\ phone.pc = "file"
  BY DEF RejectFile, FailFile, WriteFails, OnPhone, PhoneRests, At
<1>2. phone.pc = "file" => request.reply = "none"
  BY DEF HeldInv, PhoneInv, Fetching
<1>3. Grows /\ Prefixes(partial')
  BY <1>1, PrefixesStay DEF HeldInv
<1>4. "failed" \in {"failed", "complete"} /\ "failed" # "complete"
  OBVIOUS
<1>5. QED
  BY <1>1, <1>2, <1>3, <1>4, EndsFileHeld

LEMMA AcceptFileHeld ==
  ASSUME HeldInv, AcceptFile
  PROVE  HeldInv'
<1> DEFINE f == Current
           n == Len(partial[f])
<1>1. /\ phone.pc = "file" /\ Send("accept", f, n) /\ PhoneRests
      /\ phone' = [phone EXCEPT !.pc = "fetch", !.offset = n]
      /\ UNCHANGED <<allVars, laptopVars, link, inbox, request>>
  BY DEF AcceptFile, OnPhone, PhoneRests, At
<1>2. PhoneShape /\ request.reply = "none"
  BY <1>1 DEF HeldInv, PhoneInv, Fetching
<1>3. f \in Files
  BY <1>1, <1>2, CurrentIsAFile
<1>4. n \in Nat
  BY <1>2, <1>3 DEF PhoneShape
<1>5. /\ phone' \in PhoneRecord /\ OnAFile(phone') /\ phone'.pc = "fetch" /\ phone'.offset = n
      /\ Current' = f
  BY <1>1, <1>2, <1>4, SameFile DEF Steps, Fetching
<1>6. Grows /\ Prefixes(partial') /\ partial' = partial
  BY <1>1, PrefixesStay DEF HeldInv, PhoneRests
<1>7. n <= Len(partial'[f])
  BY <1>4, <1>6
<1> HIDE DEF f, n
<1>8. wire' \in Seq(BackedControls')
  BY <1>1, <1>3, <1>4, <1>6, <1>7, SendIsBacked DEF Controls
<1>9. PhoneInv'
  <2>1. /\ phone'.offset = Len(partial'[f]) /\ request'.reply = "none"
        /\ request' \in [at : Nat, reply : {"none", "asked", "chunk", "refused"}]
    BY <1>1, <1>2, <1>5, <1>6 DEF PhoneShape, n
  <2>2. QED
    BY <1>3, <1>5, <1>6, <2>1, WithinFile DEF HeldInv
<1>10. QED
  BY <1>1, <1>6, <1>8, <1>9, LaptopWaits DEF HeldInv, MessageInv

LEMMA FetchHeld ==
  ASSUME HeldInv, Fetch
  PROVE  HeldInv'
<1> DEFINE f == Current
<1>1. /\ phone.pc = "fetch" /\ PhoneRests
      /\ UNCHANGED <<allVars, laptopVars, link, wire, inbox>>
      /\ \/ /\ Size[f] = 0 \/ phone.offset < Size[f]
            /\ \/ request' = [at |-> phone.offset, reply |-> "asked"]
               \/ request' = request /\ request.at = phone.offset
            /\ Goto("wait")
         \/ /\ ~(Size[f] = 0 \/ phone.offset < Size[f])
            /\ Goto("hash") /\ request' = request
  BY DEF Fetch, Ask, OnPhone, PhoneRests, At
<1>2. PhoneShape /\ Grows /\ Prefixes(partial') /\ partial' = partial
  BY <1>1, PrefixesStay DEF HeldInv, PhoneInv, PhoneRests
<1>3. f \in Files
  BY <1>1, <1>2, CurrentIsAFile
<1>4. /\ phone.offset = Len(partial[f]) /\ Len(partial[f]) \in 0..Size[f]
      /\ Size[f] \in Nat
      /\ request.reply # "none" => /\ request.at = phone.offset
                                   /\ Size[f] # 0 => request.at < Size[f]
  <2>1. Len(partial[f]) \in Nat /\ Size[f] \in Nat
    BY <1>2, <1>3, QueueAssumption DEF PhoneShape
  <2>2. QED
    BY <1>1, <1>3, <2>1 DEF HeldInv, PhoneInv, Fetching
<1>5. PICK pc \in {"wait", "hash"} :
        /\ phone' \in PhoneRecord /\ OnAFile(phone') /\ phone'.pc = pc /\ Goto(pc)
        /\ phone'.offset = phone.offset /\ phone.offset \in Nat /\ Current' = f
  BY <1>1, <1>2, SameOffset DEF Steps, Fetching
<1>6. request' \in [at : Nat, reply : {"none", "asked", "chunk", "refused"}]
  BY <1>1, <1>2, <1>5 DEF PhoneShape
<1>7. pc = "wait" \/ pc = "hash"
  BY <1>5
<1>8. pc = "wait" <=> Size[f] = 0 \/ phone.offset < Size[f]
  <2>1. Goto("hash") => phone'.pc = "hash"
    BY <1>2 DEF Goto, PhoneShape
  <2>2. Goto("wait") => phone'.pc = "wait"
    BY <1>2 DEF Goto, PhoneShape
  <2>3. QED
    BY <1>1, <1>5, <2>1, <2>2
<1> HIDE DEF f
<1>9. PhoneInv'
  <2>1. CASE pc = "wait"
    <3>1. request'.reply # "none" =>
            request'.at = phone'.offset /\ (Size[f] # 0 => request'.at < Size[f])
      BY <1>1, <1>4, <1>5, <1>8, <2>1
    <3>2. QED
      BY <1>2, <1>3, <1>4, <1>5, <1>6, <1>8, <2>1, <3>1, WithinFile DEF HeldInv, Fetching
  <2>2. CASE pc = "hash"
    <3>1. request'.reply = "none" /\ Len(partial'[f]) = Size[f]
      BY <1>1, <1>2, <1>4, <1>8, <2>2
    <3>2. QED
      BY <1>2, <1>3, <1>5, <1>6, <2>2, <3>1, WithinFile DEF HeldInv, Fetching
  <2>3. QED
    BY <1>7, <2>1, <2>2
<1>10. QED
  BY <1>1, <1>2, <1>9, WireStays, LaptopWaits DEF HeldInv, MessageInv

LEMMA ReceiveChunkHeld ==
  ASSUME HeldInv, ReceiveChunk
  PROVE  HeldInv'
<1> DEFINE f == Current
           following == phone.offset + 1
<1>1. /\ phone.pc = "wait" /\ PhoneRests /\ Goto("write") /\ request.reply = "chunk"
      /\ UNCHANGED <<allVars, laptopVars, link, wire, inbox>>
      /\ \/ following < Size[f] /\ request' = [at |-> following, reply |-> "asked"]
         \/ request' = NoRequest
  BY DEF ReceiveChunk, Ask, OnPhone, PhoneRests, At
<1>2. PhoneShape /\ Grows /\ Prefixes(partial') /\ partial' = partial
  BY <1>1, PrefixesStay DEF HeldInv, PhoneInv, PhoneRests
<1>3. f \in Files
  BY <1>1, <1>2, CurrentIsAFile
<1>4. /\ phone' \in PhoneRecord /\ OnAFile(phone') /\ phone'.pc = "write"
      /\ phone'.offset = phone.offset /\ phone.offset \in Nat /\ Current' = f
  BY <1>1, <1>2, SameOffset DEF Steps, Fetching
<1>5. phone.offset = Len(partial[f]) /\ (Size[f] = 0 \/ phone.offset < Size[f])
  BY <1>1 DEF HeldInv, PhoneInv, Fetching
<1>6. /\ request' \in [at : Nat, reply : {"none", "asked", "chunk", "refused"}]
      /\ request'.reply # "none" => request'.at = phone'.offset + 1 /\ request'.at < Size[f]
  BY <1>1, <1>4 DEF NoRequest
<1> HIDE DEF f, following
<1>7. PhoneInv'
  BY <1>2, <1>3, <1>4, <1>5, <1>6, WithinFile DEF HeldInv, Fetching
<1>8. QED
  BY <1>1, <1>2, <1>7, WireStays, LaptopWaits DEF HeldInv, MessageInv

(* The chunk joins the partial file, which stays a prefix of the file.      *)
LEMMA WriteChunkHeld ==
  ASSUME HeldInv, WriteChunk
  PROVE  HeldInv'
<1> DEFINE f == Current
           n == Len(partial[f])
           offset == IF Size[f] = 0 THEN 0 ELSE phone.offset + 1
           pc == IF offset < Size[f] THEN "fetch" ELSE "hash"
<1>1. /\ phone.pc = "write" /\ Send("progress", f, offset)
      /\ phone' = [phone EXCEPT !.pc = pc, !.offset = offset]
      /\ partial' = IF Size[f] = 0 THEN partial
                    ELSE [partial EXCEPT ![f] = Append(partial[f], phone.offset)]
      /\ UNCHANGED <<allVars, laptopVars, link, inbox, request, saved, discarded>>
  BY DEF WriteChunk, OnPhone, At
<1>2. PhoneShape
  BY DEF HeldInv, PhoneInv
<1>3. f \in Files
  BY <1>1, <1>2, CurrentIsAFile
<1>4. /\ Size[f] \in Nat /\ n \in Nat /\ n <= Size[f] /\ phone.offset = n /\ phone.offset \in Nat
      /\ Size[f] = 0 \/ n < Size[f]
      /\ partial[f] \in Seq(Nat)
      /\ \A i \in 1..n : partial[f][i] = i - 1
      /\ request.reply # "none" => request.at = n + 1 /\ n + 1 < Size[f]
  <2>1. /\ Size[f] \in Nat /\ partial[f] \in Seq(Nat) /\ n \in Nat
    BY <1>2, <1>3, QueueAssumption DEF PhoneShape
  <2>2. QED
    BY <1>1, <1>3, <2>1 DEF HeldInv, PhoneInv, Fetching
<1>5. /\ offset \in Nat /\ pc \in {"fetch", "hash"}
      /\ Size[f] # 0 => offset = n + 1 /\ offset <= Size[f]
  BY <1>4
<1>6. /\ phone' \in PhoneRecord /\ OnAFile(phone') /\ phone'.pc = pc /\ phone'.offset = offset
      /\ Current' = f
  BY <1>1, <1>2, <1>5, SameFile DEF Steps, Fetching
<1> HIDE DEF f
<1>7. /\ partial' \in [Files -> Seq(Nat)]
      /\ \A g \in Files \ {f} : partial'[g] = partial[g]
      /\ Size[f] = 0 => partial'[f] = partial[f]
      /\ Size[f] # 0 => partial'[f] = Append(partial[f], n)
  <2>1. Append(partial[f], n) \in Seq(Nat)
    BY <1>2, <1>3, <1>4 DEF PhoneShape
  <2>2. QED
    BY <1>1, <1>2, <1>3, <1>4, <2>1 DEF PhoneShape
<1>8. /\ Len(partial'[f]) = offset
      /\ \A i \in 1..offset : partial'[f][i] = i - 1
  <2>1. CASE Size[f] = 0
    BY <1>4, <1>7, <2>1
  <2>2. CASE Size[f] # 0
    <3>1. partial[f] \in Seq(Nat) /\ partial'[f] = Append(partial[f], n) /\ offset = n + 1
      BY <1>4, <1>5, <1>7, <2>2
    <3>2. Len(partial'[f]) = n + 1 /\ partial'[f][n + 1] = n
      BY <3>1, AppendProperties
    <3>3. \A i \in 1..n : partial'[f][i] = partial[f][i]
      BY <3>1, AppendProperties
    <3>4. ASSUME NEW i \in 1..(n + 1) PROVE partial'[f][i] = i - 1
      <4>1. CASE i = n + 1
        BY <1>4, <3>2, <4>1
      <4>2. CASE i \in 1..n
        BY <1>4, <3>3, <4>2
      <4>3. QED
        BY <1>4, <4>1, <4>2
    <3>5. QED
      BY <3>1, <3>2, <3>4
  <2>3. QED
    BY <2>1, <2>2
<1>9. offset <= Size[f] /\ n <= offset
  BY <1>4, <1>5
<1> HIDE DEF offset
<1>10. Grows /\ Prefixes(partial')
  <2>1. ASSUME NEW g \in Files
        PROVE  /\ Len(partial[g]) <= Len(partial'[g]) /\ Len(partial'[g]) <= Size[g]
               /\ \A i \in 1..Len(partial'[g]) : partial'[g][i] = i - 1
    <3>1. CASE g = f
      BY <1>8, <1>9, <3>1
    <3>2. CASE g # f
      <4>1. partial'[g] = partial[g] /\ Len(partial[g]) \in Nat
        BY <1>2, <1>7, <3>2 DEF PhoneShape
      <4>2. QED
        BY <4>1 DEF HeldInv, PhoneInv
    <3>3. QED
      BY <3>1, <3>2
  <2>2. QED
    BY <1>1, <1>2, <1>7, <2>1 DEF Grows, Prefixes, PhoneShape
<1>11. offset <= Len(partial'[f])
  BY <1>5, <1>8 DEF offset
<1>12. wire' \in Seq(BackedControls')
  <2>1. Send("progress", f, offset)
    BY <1>1 DEF f
  <2>2. QED
    BY <1>3, <1>5, <1>10, <1>11, <2>1, SendIsBacked DEF Controls
<1>13. PhoneInv'
  <2>1. /\ pc = "fetch" => offset < Size[f]
        /\ pc = "hash" => offset = Size[f]
        /\ request.reply # "none" => pc = "fetch" /\ request.at = offset
    BY <1>4, <1>5, <1>9 DEF offset
  <2>2. /\ request' = request
        /\ request' \in [at : Nat, reply : {"none", "asked", "chunk", "refused"}]
    BY <1>1, <1>2 DEF PhoneShape
  <2> HIDE DEF pc
  <2>3. QED
    BY <1>3, <1>5, <1>6, <1>8, <1>10, <2>1, <2>2, WithinFile DEF HeldInv, Fetching
<1>14. QED
  BY <1>1, <1>10, <1>12, <1>13, LaptopWaits DEF HeldInv, MessageInv

LEMMA VerifyHeld ==
  ASSUME HeldInv, Verify
  PROVE  HeldInv'
<1> DEFINE f == Current
<1>1. /\ phone.pc = "hash" /\ Goto("publish") /\ PhoneRests
      /\ UNCHANGED <<allVars, laptopVars, link, wire, inbox, request>>
  BY DEF Verify, OnPhone, PhoneRests, At
<1>2. PhoneShape /\ Grows /\ Prefixes(partial') /\ partial' = partial /\ request.reply = "none"
  BY <1>1, PrefixesStay DEF HeldInv, PhoneInv, PhoneRests, Fetching
<1>3. /\ phone' \in PhoneRecord /\ OnAFile(phone') /\ phone'.pc = "publish"
      /\ Current' = f /\ f \in Files
  BY <1>1, <1>2, SameOffset DEF Steps, Fetching
<1>4. Len(partial'[f]) = Size[f]
  BY <1>1, <1>2 DEF HeldInv, PhoneInv
<1>5. request' = request /\ request \in [at : Nat, reply : {"none", "asked", "chunk", "refused"}]
  BY <1>1, <1>2 DEF PhoneShape
<1> HIDE DEF f
<1>6. PhoneInv'
  BY <1>2, <1>3, <1>4, <1>5, WithinFile DEF HeldInv, Fetching
<1>7. QED
  BY <1>1, <1>2, <1>6, WireStays, LaptopWaits DEF HeldInv, MessageInv

(* The partial file is gone: published or thrown away.                      *)
LEMMA PartialGoes ==
  ASSUME PhoneInv, NEW f \in Files, partial' = [partial EXCEPT ![f] = <<>>],
         \/ discarded' = discarded \cup {f} /\ saved' = saved
         \/ discarded' = discarded /\ saved' = [saved EXCEPT ![f] = saved[f] + 1]
  PROVE  /\ Grows /\ Prefixes(partial') /\ partial'[f] = <<>>
         /\ f \in discarded' \/ saved'[f] > 0
<1>1. /\ partial \in [Files -> Seq(Nat)] /\ saved \in [Files -> Nat] /\ discarded \subseteq Files
      /\ Size[f] \in Nat
  BY QueueAssumption DEF PhoneInv, PhoneShape
<1>2. /\ partial' \in [Files -> Seq(Nat)] /\ partial'[f] = <<>>
      /\ \A g \in Files \ {f} : partial'[g] = partial[g]
  <2>1. <<>> \in Seq(Nat)
    BY EmptySequence
  <2>2. QED
    BY <1>1, <2>1
<1>3. /\ saved' \in [Files -> Nat] /\ discarded \subseteq discarded' /\ discarded' \subseteq Files
      /\ \A g \in Files : saved[g] > 0 => saved'[g] > 0
      /\ f \in discarded' \/ saved'[f] > 0
  <2>1. CASE discarded' = discarded \cup {f} /\ saved' = saved
    BY <1>1, <2>1
  <2>2. CASE discarded' = discarded /\ saved' = [saved EXCEPT ![f] = saved[f] + 1]
    <3>1. saved[f] \in Nat /\ saved[f] + 1 \in Nat /\ saved[f] + 1 > 0
      BY <1>1
    <3>2. saved'[f] = saved[f] + 1 /\ \A g \in Files \ {f} : saved'[g] = saved[g]
      BY <1>1, <2>2
    <3>3. saved' \in [Files -> Nat]
      BY <1>1, <2>2, <3>1
    <3>4. QED
      BY <1>1, <2>2, <3>1, <3>2, <3>3
  <2>3. QED
    BY <2>1, <2>2
<1>4. \A g \in Files : g \in discarded' \/ saved'[g] > 0 \/ Len(partial[g]) <= Len(partial'[g])
  <2>1. \A g \in Files : Len(partial[g]) \in Nat
    BY <1>1
  <2>2. QED
    BY <1>2, <1>3, <2>1
<1>5. Prefixes(partial')
  <2>1. Len(partial'[f]) = 0
    BY <1>2, EmptySequence
  <2>2. \A g \in Files \ {f} : /\ Len(partial'[g]) <= Size[g]
                               /\ \A n \in 1..Len(partial'[g]) : partial'[g][n] = n - 1
    BY <1>2 DEF PhoneInv
  <2>3. Len(partial'[f]) <= Size[f] /\ \A n \in 1..Len(partial'[f]) : partial'[f][n] = n - 1
    BY <1>1, <2>1
  <2>4. QED
    BY <2>2, <2>3 DEF Prefixes
<1>6. QED
  BY <1>2, <1>3, <1>4, <1>5 DEF Grows

LEMMA SpoilFileHeld ==
  ASSUME HeldInv, SpoilFile
  PROVE  HeldInv'
<1>1. /\ phone.pc \in {"hash", "publish"}
      /\ discarded' = discarded \cup {Current} /\ saved' = saved
      /\ partial' = [partial EXCEPT ![Current] = <<>>]
      /\ UNCHANGED <<allVars, laptopVars, link, inbox, request>>
  BY DEF SpoilFile, At
<1>2. phone.pc # "idle" /\ request.reply = "none" /\ PhoneShape
  BY <1>1 DEF HeldInv, PhoneInv, Fetching
<1>3. Grows /\ Prefixes(partial')
  BY <1>1, <1>2, CurrentIsAFile, PartialGoes DEF HeldInv
<1>4. "failed" \in {"failed", "complete"} /\ "failed" # "complete"
  OBVIOUS
<1>5. Send("failed", Current, 0) /\ (NextFile \/ phone' = Resting)
  BY DEF SpoilFile
<1>6. QED
  BY <1>1, <1>2, <1>3, <1>4, <1>5, EndsFileHeld

LEMMA PublishFileHeld ==
  ASSUME HeldInv, PublishFile
  PROVE  HeldInv'
<1> DEFINE f == Current
<1>1. /\ phone.pc = "publish" /\ Goto("published")
      /\ saved' = [saved EXCEPT ![f] = saved[f] + 1] /\ discarded' = discarded
      /\ partial' = [partial EXCEPT ![f] = <<>>]
      /\ UNCHANGED <<allVars, laptopVars, link, wire, inbox, request>>
  BY DEF PublishFile, OnPhone, At
<1>2. PhoneShape /\ request.reply = "none"
  BY <1>1 DEF HeldInv, PhoneInv, Fetching
<1>3. /\ phone' \in PhoneRecord /\ OnAFile(phone') /\ phone'.pc = "published"
      /\ Current' = f /\ f \in Files
  BY <1>1, <1>2, SameOffset DEF Steps, Fetching
<1>4. /\ Grows /\ Prefixes(partial') /\ partial'[f] = <<>> /\ saved'[f] > 0
  <2>1. Grows /\ Prefixes(partial') /\ partial'[f] = <<>>
    BY <1>1, <1>3, PartialGoes DEF HeldInv
  <2>2. saved'[f] > 0
    BY <1>1, <1>2, <1>3 DEF PhoneShape
  <2>3. QED
    BY <2>1, <2>2
<1>5. request' = request /\ request \in [at : Nat, reply : {"none", "asked", "chunk", "refused"}]
  BY <1>1, <1>2 DEF PhoneShape
<1> HIDE DEF f
<1>6. PhoneInv'
  BY <1>2, <1>3, <1>4, <1>5, WithinFile DEF HeldInv, Fetching
<1>7. QED
  BY <1>1, <1>4, <1>6, WireStays, LaptopWaits DEF HeldInv, MessageInv

LEMMA CompleteFileHeld ==
  ASSUME HeldInv, CompleteFile
  PROVE  HeldInv'
<1>1. /\ phone.pc = "published" /\ PhoneRests
      /\ Send("complete", Current, 0) /\ (NextFile \/ phone' = Resting)
      /\ UNCHANGED <<allVars, laptopVars, link, inbox, request>>
  BY DEF CompleteFile, OnPhone, PhoneRests, At
<1>2. request.reply = "none" /\ saved[Current] > 0
  BY <1>1 DEF HeldInv, PhoneInv, Fetching
<1>3. Grows /\ Prefixes(partial') /\ saved'[Current] > 0
  BY <1>1, <1>2, PrefixesStay DEF HeldInv, PhoneRests
<1>4. "complete" \in {"failed", "complete"} /\ phone.pc # "idle"
  BY <1>1
<1>5. QED
  BY <1>1, <1>2, <1>3, <1>4, EndsFileHeld
-----------------------------------------------------------------------------
LEMMA StartHeld == DownloadInit => HeldInv
<1> SUFFICES ASSUME DownloadInit PROVE HeldInv
  OBVIOUS
<1>1. DurableInv /\ file = [f \in Files |-> NoFile] /\ disk = Snapshot /\ pending = <<>>
  BY InitEstablishesDurableInv DEF DownloadInit, DurableInit, Init
<1>2. partial \in [Files -> Seq(Nat)] /\ saved \in [Files -> Nat] /\ discarded = {}
  BY EmptySequence DEF DownloadInit
<1>3. \A f \in Files : file[f].confirmed = 0 /\ file[f].status = "absent"
  BY <1>1 DEF NoFile, NewFile
<1>4. Backed(file)
  <2>1. \A f \in Files : Len(partial[f]) \in Nat
    BY <1>2
  <2>2. QED
    BY <1>3, <2>1 DEF Backed, Held
<1>5. QueueInv
  <2>1. disk.file = file /\ DOMAIN pending = {} /\ Newest = Snapshot
    BY <1>1 DEF Snapshot, Newest
  <2>2. QED
    BY <1>1, <1>4, <2>1 DEF QueueInv, StepByStep
<1>6. MessageInv
  BY <1>1, EmptySequence DEF DownloadInit, MessageInv
<1>7. PhoneInv
  <2>1. /\ phone = Resting /\ request = NoRequest
        /\ \A f \in Files : partial[f] = <<>> /\ Len(partial[f]) = 0 /\ Size[f] \in Nat
    BY QueueAssumption, EmptySequence DEF DownloadInit
  <2>2. request \in [at : Nat, reply : {"none", "asked", "chunk", "refused"}]
        /\ request.reply = "none"
    BY <2>1 DEF NoRequest
  <2>3. PhoneShape
    BY <1>2, <2>1, <2>2, RestingIsIdle DEF PhoneShape, PhoneRecord
  <2>4. \A f \in Files : /\ Len(partial[f]) <= Size[f]
                         /\ \A n \in 1..Len(partial[f]) : partial[f][n] = n - 1
    BY <2>1
  <2>5. QED
    BY <2>1, <2>2, <2>3, <2>4, RestingIsIdle DEF PhoneInv, Fetching
<1>8. QED
  BY <1>5, <1>6, <1>7 DEF HeldInv

LEMMA NextKeepsHeld ==
  ASSUME HeldInv, [DownloadNext]_everything
  PROVE  HeldInv'
<1>1. ASSUME NEW t \in Transfers, EnqueueLaptopEntries(t) PROVE HeldInv'
  BY <1>1, EnqueueHeld
<1>2. CASE LaptopStep
  BY <1>2, SaveDoneHeld, ContinueHeld, ClaimHeld, AcceptHeld, ProgressHeld, CompleteHeld, EndHeld,
     AnswerHeld, RestartHeld DEF LaptopStep, HandleControl
<1>3. CASE PhoneStep \/ PauseOffer
  BY <1>3, TakeOfferHeld, GivesUpHeld, AcceptFileHeld, FetchHeld, ReceiveChunkHeld,
     WriteChunkHeld, VerifyHeld, PublishFileHeld, CompleteFileHeld, PauseOfferHeld DEF PhoneStep
<1>4. CASE HangUp \/ NoticeDisconnect \/ Connect
  BY <1>4, HangUpHeld, NoticeHeld, ConnectHeld
<1>5. CASE Fault
  BY <1>5, AnswerHeld, GivesUpHeld, SpoilFileHeld, HangUpHeld, CrashHeld DEF Fault
<1>6. CASE UNCHANGED everything
  <2>1. PhoneRests /\ UNCHANGED <<allVars, laptopVars, link, wire, inbox, phone, request>>
    BY <1>6 DEF everything, downloadVars, phoneVars, PhoneRests
  <2>2. Grows
    BY <2>1, PrefixesStay DEF HeldInv
  <2>3. PhoneInv'
    BY <2>1, PhoneWaits DEF HeldInv
  <2>4. QED
    BY <2>1, <2>2, <2>3, WireStays, LaptopWaits DEF HeldInv, MessageInv
<1>7. QED
  BY <1>1, <1>2, <1>3, <1>4, <1>5, <1>6 DEF DownloadNext

(* Every snapshot, continuation and control agrees with what the phone      *)
(* holds, in every reachable state.                                         *)
THEOREM DownloadInvariant == DownloadSpec => []HeldInv
<1>1. HeldInv /\ [DownloadNext]_everything => HeldInv'
  BY NextKeepsHeld
<1>2. QED
  BY <1>1, StartHeld, PTL DEF DownloadSpec

(* The laptop never counts a chunk as confirmed that the phone does not     *)
(* hold: acceptReceiverOffset takes only offsets the receiver sent after    *)
(* its writes, and no restart, save or repeated offer loses one.            *)
THEOREM ConfirmedChunksAreHeld == DownloadSpec => []ConfirmedIsHeld
<1>1. HeldInv => ConfirmedIsHeld
  <2> SUFFICES ASSUME HeldInv, NEW f \in Files \ discarded
               PROVE  file[f].confirmed <= Len(partial[f]) \/ saved[f] > 0
    BY DEF ConfirmedIsHeld
  <2>1. Held(f, file[f].confirmed)
    BY DEF HeldInv, QueueInv, Backed
  <2>2. QED
    BY <2>1 DEF Held
<1>2. QED
  BY <1>1, DownloadInvariant, PTL

(* What the laptop records as completed the phone has published: complete   *)
(* takes only the control the receiver sends after its publication.         *)
THEOREM CompletedFilesAreSaved == DownloadSpec => []CompletedIsSaved
<1>1. HeldInv => CompletedIsSaved
  BY DEF HeldInv, QueueInv, Backed, CompletedIsSaved
<1>2. QED
  BY <1>1, DownloadInvariant, PTL

(* The receiver, its requests and the controls keep their shape.            *)
THEOREM DownloadTypeCorrect == DownloadSpec => []DownloadTypeOK
<1>1. HeldInv => DownloadTypeOK
  <2> SUFFICES ASSUME HeldInv PROVE DownloadTypeOK
    OBVIOUS
  <2>1. DurableTypeOK
    BY DEF HeldInv, QueueInv, DurableInv, DurableTypeOK, CoreInv, Loadable
  <2>2. wire \in Seq([kind : Controls, file : Files, offset : Nat])
    <3>1. BackedControls \subseteq [kind : Controls, file : Files, offset : Nat]
      BY DEF BackedControls
    <3>2. QED
      BY <3>1, WiderSeq DEF HeldInv, MessageInv
  <2>3. QED
    BY <2>1, <2>2 DEF HeldInv, MessageInv, PhoneInv, PhoneShape, DownloadTypeOK
<1>2. QED
  BY <1>1, DownloadInvariant, PTL

-----------------------------------------------------------------------------
(* The refinement of FileDelivery.  The step that is not obvious is         *)
(* Publish: the phone never publishes again a file of two or more chunks    *)
(* that the laptop has recorded as completed, although offers are repeated  *)
(* and reports of an earlier reception may still be on their way.           *)

Receives(f) == phone.pc # "idle" /\ Current = f
Published(f) == phone.pc = "published" /\ Current = f

(* The chunks of f the phone has got, written or not.                       *)
Writing(f) == IF Receives(f) /\ phone.pc = "write" THEN 1 ELSE 0
Fetched(f) == IF Receives(f) /\ request.reply = "chunk" THEN 1 ELSE 0
Got(f) == Len(partial[f]) + Writing(f) + Fetched(f)

(* The phone is beyond the first chunk of f.                                *)
Beyond(f) == Got(f) >= 2 \/ Published(f)

(* A report, on its way or waiting for a save, that the phone holds one     *)
(* chunk of f.                                                              *)
ReportsOne(m, f) == m.kind \in {"accept", "progress"} /\ m.file = f /\ m.offset = 1
Waits(d, f) == d.do = "accept" /\ d.file = f /\ d.offset = 1
WaitsOne(f) == \E d \in Range(after) \cup Range(ready) : Waits(d, f)
Announces(m, f) == m.kind = "complete" /\ m.file = f

(* The phone fetches its second chunk of f only once the laptop has         *)
(* confirmed the first.  So when it announces f either the laptop is past   *)
(* the first chunk, or it knows of none and never hears of exactly one      *)
(* before the announcement, which it then refuses.                          *)
Once(f) ==
  /\ Beyond(f) =>
       \/ file[f].confirmed >= 1
       \/ ~WaitsOne(f) /\ \A i \in DOMAIN wire : ~ReportsOne(wire[i], f)
  /\ Receives(f) /\ request.reply = "chunk" /\ Got(f) >= 2 => file[f].confirmed >= 1
  /\ file[f].status = "completed" => ~Beyond(f)
  /\ \A k \in DOMAIN wire : Announces(wire[k], f) =>
       /\ ~Beyond(f)
       /\ \/ file[f].confirmed >= 1 /\ Got(f) = 0
          \/ /\ file[f].confirmed # 1 /\ ~WaitsOne(f)
             /\ \A i \in 1..(k - 1) : ~ReportsOne(wire[i], f)

Long == {f \in Files : Size[f] >= 2}
OnceInv == \A f \in Long : Once(f)
-----------------------------------------------------------------------------
LEMMA RangeOfAppend ==
  ASSUME NEW S, NEW s \in Seq(S), NEW e \in S
  PROVE  Range(Append(s, e)) = Range(s) \cup {e}
<1> DEFINE n == Len(s)
           u == Append(s, e)
<1>1. /\ n \in Nat /\ DOMAIN s = 1..n /\ u \in Seq(S) /\ Len(u) = n + 1 /\ u[n + 1] = e
      /\ \A i \in 1..n : u[i] = s[i]
  BY AppendProperties
<1>2. DOMAIN u = 1..(n + 1)
  BY <1>1
<1> HIDE DEF n, u
<1>3. \A i \in 1..(n + 1) : i \in 1..n \/ i = n + 1
  BY <1>1
<1>4. 1..n \subseteq 1..(n + 1) /\ n + 1 \in 1..(n + 1)
  BY <1>1
<1>5. Range(u) \subseteq Range(s) \cup {e}
  BY <1>1, <1>2, <1>3 DEF Range
<1>6. Range(s) \cup {e} \subseteq Range(u)
  BY <1>1, <1>2, <1>4 DEF Range
<1>7. QED
  BY <1>5, <1>6 DEF u

LEMMA TailOf ==
  ASSUME NEW S, NEW s \in Seq(S), s # <<>>
  PROVE  /\ Len(s) \in Nat \ {0} /\ DOMAIN s = 1..Len(s) /\ DOMAIN Tail(s) = 1..(Len(s) - 1)
         /\ Head(s) = s[1] /\ 1 \in DOMAIN s
         /\ \A i \in DOMAIN Tail(s) : i + 1 \in DOMAIN s /\ Tail(s)[i] = s[i + 1]
         /\ Range(Tail(s)) \subseteq Range(s) /\ Head(s) \in Range(s)
<1>1. /\ Len(s) \in Nat \ {0} /\ DOMAIN s = 1..Len(s) /\ DOMAIN Tail(s) = 1..(Len(s) - 1)
      /\ Head(s) = s[1] /\ 1 \in DOMAIN s
  BY HeadTailProperties
<1>2. \A i \in DOMAIN Tail(s) : i + 1 \in DOMAIN s /\ Tail(s)[i] = s[i + 1]
  BY <1>1, HeadTailProperties
<1>3. QED
  BY <1>1, <1>2 DEF Range

LEMMA EmptyRange == Range(<<>>) = {}
BY DEF Range

LEMMA GotIsNatural ==
  ASSUME PhoneShape, NEW f \in Files
  PROVE  /\ Len(partial[f]) \in Nat /\ Writing(f) \in {0, 1} /\ Fetched(f) \in {0, 1}
         /\ Got(f) \in Nat /\ Got(f) >= Len(partial[f])
<1>1. Len(partial[f]) \in Nat
  BY DEF PhoneShape
<1>2. Writing(f) \in {0, 1} /\ Fetched(f) \in {0, 1}
  BY DEF Writing, Fetched
<1>3. QED
  BY <1>1, <1>2 DEF Got

LEMMA ConfirmedIsNatural ==
  ASSUME QueueInv, NEW f \in Files
  PROVE  file[f].confirmed \in Nat
BY SnapshotsHaveFiles DEF QueueInv, FileRecord
-----------------------------------------------------------------------------
(* The laptop's steps                                                       *)

Left == wire # <<>> /\ wire' = Tail(wire)

(* What a step of the laptop does to what it knows of f: it confirms one    *)
(* chunk only when it was reported, and completes f when it is announced.   *)
Heard(f) == WaitsOne(f) \/ (Left /\ ReportsOne(Head(wire), f))

LaptopEffect(f) ==
  /\ UNCHANGED <<partial, phone, request>>
  /\ wire' = wire \/ wire' = <<>> \/ Left
  /\ \/ file'[f].confirmed = file[f].confirmed
     \/ /\ file[f].confirmed <= file'[f].confirmed
        /\ file'[f].confirmed = 1 => Heard(f)
  /\ file'[f].status = "completed" =>
       file[f].status = "completed" \/ (Left /\ Announces(Head(wire), f))
  /\ WaitsOne(f)' => Heard(f)

LEMMA PhoneIsTheSame ==
  ASSUME UNCHANGED <<partial, phone, request>>, NEW f
  PROVE  /\ (Receives(f)' <=> Receives(f)) /\ (Beyond(f)' <=> Beyond(f))
         /\ Got(f)' = Got(f) /\ request' = request
<1>1. Current' = Current
  BY DEF Current, FileAt
<1>2. (Receives(f)' <=> Receives(f)) /\ (Published(f)' <=> Published(f))
  BY <1>1 DEF Receives, Published
<1>3. Writing(f)' = Writing(f) /\ Fetched(f)' = Fetched(f)
  BY <1>2 DEF Writing, Fetched
<1>4. Got(f)' = Got(f)
  BY <1>3 DEF Got
<1>5. QED
  BY <1>2, <1>4 DEF Beyond

LEMMA LaptopKeepsOnce ==
  ASSUME HeldInv, HeldInv', NEW f \in Files, Once(f), LaptopEffect(f)
  PROVE  Once(f)'
<1>1. /\ file[f].confirmed \in Nat /\ file'[f].confirmed \in Nat
      /\ wire \in Seq(BackedControls)
  BY DEF HeldInv, MessageInv, QueueInv, DurableInv, CoreInv, TypeOK, FileRecord
<1>2. /\ (Receives(f)' <=> Receives(f)) /\ (Beyond(f)' <=> Beyond(f))
      /\ Got(f)' = Got(f) /\ request' = request
  BY PhoneIsTheSame DEF LaptopEffect
<1>3. file[f].confirmed <= file'[f].confirmed
  BY <1>1 DEF LaptopEffect
(* Where a control that is left was.                                        *)
<1>4. ASSUME NEW k \in DOMAIN wire'
      PROVE  \E j \in DOMAIN wire : /\ wire'[k] = wire[j] /\ j \in Nat
                                    /\ Left => j > 1
                                    /\ \A i \in 1..(k - 1) :
                                         \E h \in 1..(j - 1) : wire'[i] = wire[h]
  <2>1. CASE wire' = wire
    <3>1. k \in Nat /\ k \in DOMAIN wire /\ \A i \in 1..(k - 1) : wire'[i] = wire[i]
      BY <1>1, <1>4, <2>1
    <3>2. ~Left
      <4>1. Left => Len(wire') = Len(wire) - 1
        BY <1>1, HeadTailProperties DEF Left
      <4>2. QED
        BY <1>1, <2>1, <4>1
    <3>3. QED
      BY <2>1, <3>1, <3>2
  <2>2. CASE wire' = <<>>
    BY <1>4, <2>2
  <2>3. CASE Left
    <3>1. /\ Len(wire) \in Nat \ {0} /\ DOMAIN wire = 1..Len(wire)
          /\ DOMAIN wire' = 1..(Len(wire) - 1)
          /\ \A i \in DOMAIN wire' : i + 1 \in DOMAIN wire /\ wire'[i] = wire[i + 1]
      BY <1>1, <2>3, TailOf DEF Left
    <3>2. /\ k \in Nat /\ k + 1 > 1 /\ k + 1 \in DOMAIN wire /\ wire'[k] = wire[k + 1]
          /\ k + 1 \in Nat
      BY <1>4, <3>1
    <3>3. ASSUME NEW i \in 1..(k - 1)
          PROVE  i + 1 \in 1..((k + 1) - 1) /\ wire'[i] = wire[i + 1]
      <4>1. i \in DOMAIN wire'
        BY <1>4, <3>1, <3>2
      <4>2. QED
        BY <3>1, <3>2, <4>1
    <3>4. QED
      BY <3>2, <3>3
  <2>4. QED
    BY <2>1, <2>2, <2>3 DEF LaptopEffect
<1>5. Left => 1 \in DOMAIN wire /\ Head(wire) = wire[1]
  BY <1>1, TailOf DEF Left
<1>6. Beyond(f)' => \/ file'[f].confirmed >= 1
                    \/ ~WaitsOne(f)' /\ \A i \in DOMAIN wire' : ~ReportsOne(wire'[i], f)
  <2>1. CASE file[f].confirmed >= 1
    BY <1>1, <1>3, <2>1
  <2>2. CASE ~WaitsOne(f) /\ \A i \in DOMAIN wire : ~ReportsOne(wire[i], f)
    <3>1. ~Heard(f)
      BY <1>5, <2>2 DEF Heard
    <3>2. \A i \in DOMAIN wire' : ~ReportsOne(wire'[i], f)
      BY <1>4, <2>2
    <3>3. QED
      BY <3>1, <3>2 DEF LaptopEffect
  <2>3. QED
    BY <1>2, <2>1, <2>2 DEF Once
<1>7. Receives(f)' /\ request'.reply = "chunk" /\ Got(f)' >= 2 => file'[f].confirmed >= 1
  BY <1>1, <1>2, <1>3 DEF Once
<1>8. file'[f].status = "completed" => ~Beyond(f)'
  BY <1>2, <1>5 DEF Once, LaptopEffect
<1>9. ASSUME NEW k \in DOMAIN wire', Announces(wire'[k], f)
      PROVE  /\ ~Beyond(f)'
             /\ \/ file'[f].confirmed >= 1 /\ Got(f)' = 0
                \/ /\ file'[f].confirmed # 1 /\ ~WaitsOne(f)'
                   /\ \A i \in 1..(k - 1) : ~ReportsOne(wire'[i], f)
  <2>1. PICK j \in DOMAIN wire : /\ wire'[k] = wire[j] /\ j \in Nat
                                 /\ Left => j > 1
                                 /\ \A i \in 1..(k - 1) :
                                      \E h \in 1..(j - 1) : wire'[i] = wire[h]
    BY <1>4
  <2>2. /\ ~Beyond(f)
        /\ \/ file[f].confirmed >= 1 /\ Got(f) = 0
           \/ /\ file[f].confirmed # 1 /\ ~WaitsOne(f)
              /\ \A i \in 1..(j - 1) : ~ReportsOne(wire[i], f)
    BY <1>9, <2>1 DEF Once
  <2>3. CASE file[f].confirmed >= 1 /\ Got(f) = 0
    BY <1>1, <1>2, <1>3, <2>2, <2>3
  <2>4. CASE /\ file[f].confirmed # 1 /\ ~WaitsOne(f)
             /\ \A i \in 1..(j - 1) : ~ReportsOne(wire[i], f)
    <3>1. ~Heard(f)
      <4>1. Left => 1 \in 1..(j - 1)
        BY <2>1
      <4>2. QED
        BY <1>5, <2>4, <4>1 DEF Heard
    <3>2. file'[f].confirmed # 1 /\ ~WaitsOne(f)'
      BY <2>4, <3>1 DEF LaptopEffect
    <3>3. \A i \in 1..(k - 1) : ~ReportsOne(wire'[i], f)
      BY <2>1, <2>4
    <3>4. QED
      BY <1>2, <2>2, <3>2, <3>3
  <2>5. QED
    BY <2>2, <2>3, <2>4
<1>10. QED
  BY <1>6, <1>7, <1>8, <1>9 DEF Once

(* The two halves of an effect: on the file, and on what waits.             *)
FileEffect(f) ==
  /\ \/ file'[f].confirmed = file[f].confirmed
     \/ /\ file[f].confirmed <= file'[f].confirmed
        /\ file'[f].confirmed = 1 => Heard(f)
  /\ file'[f].status = "completed" =>
       file[f].status = "completed" \/ (Left /\ Announces(Head(wire), f))

LEMMA CalmEffect ==
  ASSUME Calm, NEW f \in Files
  PROVE  FileEffect(f)
BY DEF Calm, FileEffect

LEMMA ConfirmEffect ==
  ASSUME NEW f \in Files, NEW g \in Files, NEW offset, Confirms(g, offset),
         g = f /\ offset = 1 => Heard(f)
  PROVE  FileEffect(f)
BY DEF Confirms, FileEffect

LEMMA CompleteEffect ==
  ASSUME NEW f \in Files, NEW g \in Files, Completes(g), Left, Announces(Head(wire), g)
  PROVE  FileEffect(f)
BY DEF Completes, FileEffect, Announces

LEMMA WaitsEffect ==
  ASSUME NEW f \in Files, FileEffect(f), UNCHANGED <<partial, phone, request>>,
         wire' = wire \/ wire' = <<>> \/ Left,
         NEW d, Range(after') \cup Range(ready') \subseteq Range(after) \cup Range(ready) \cup {d},
         Waits(d, f) => Left /\ ReportsOne(Head(wire), f)
  PROVE  LaptopEffect(f)
<1>1. WaitsOne(f)' => Heard(f)
  BY DEF WaitsOne, Heard
<1>2. QED
  BY <1>1 DEF LaptopEffect, FileEffect

LEMMA TheyDoNotWait ==
  ASSUME NEW f, NEW g
  PROVE  ~Waits(Activate, f) /\ ~Waits(Nothing, f) /\ ~Waits(Then("offer", g, 0), f)
BY DEF Waits, Activate, Nothing, Then

(* A call saves and something follows it, or nothing is saved.              *)
LEMMA AfterGrows ==
  ASSUME HeldInv, NEW d \in BackedThens, after' = after \/ after' = Append(after, d),
         ready' = ready \/ (ready # <<>> /\ ready' = Tail(ready))
  PROVE  Range(after') \cup Range(ready') \subseteq Range(after) \cup Range(ready) \cup {d}
<1>1. after \in Seq(BackedThens) /\ ready \in Seq(BackedThens)
  BY DEF HeldInv, MessageInv
<1>2. Range(after') \subseteq Range(after) \cup {d}
  BY <1>1, RangeOfAppend
<1>3. Range(ready') \subseteq Range(ready)
  BY <1>1, TailOf
<1>4. QED
  BY <1>2, <1>3

LEMMA QuietLaptopEffect ==
  ASSUME HeldInv, NEW f \in Files, FileEffect(f), UNCHANGED <<partial, phone, request>>,
         wire' = wire \/ wire' = <<>> \/ Left,
         NEW d \in BackedThens, after' = after \/ after' = Append(after, d), ~Waits(d, f),
         ready' = ready \/ (ready # <<>> /\ ready' = Tail(ready))
  PROVE  LaptopEffect(f)
BY AfterGrows, WaitsEffect

LEMMA EnqueueEffect ==
  ASSUME HeldInv, NEW t \in Transfers, EnqueueLaptopEntries(t), NEW f \in Files
  PROVE  LaptopEffect(f)
<1>1. /\ UNCHANGED <<partial, phone, request, wire, ready>> /\ after' = Append(after, Activate)
  BY DEF EnqueueLaptopEntries, Saving, phoneVars
<1>2. FileEffect(f)
  BY EnqueueHeld, CalmEffect
<1>3. QED
  BY <1>1, <1>2, ActivateIsBacked, TheyDoNotWait, QuietLaptopEffect

LEMMA SaveDoneEffect ==
  ASSUME HeldInv, SaveDone, NEW f \in Files
  PROVE  LaptopEffect(f)
<1>1. /\ UNCHANGED <<partial, phone, request, wire, file>>
      /\ after' = Tail(after) /\ pending # <<>>
      /\ ready' = ready \/ ready' = Append(ready, Head(after))
  BY DEF SaveDone, Save, phoneVars, vars
<1>2. FileEffect(f)
  BY <1>1 DEF FileEffect
<1>3. after \in Seq(BackedThens) /\ ready \in Seq(BackedThens) /\ after # <<>>
  <2>1. after \in Seq(BackedThens) /\ ready \in Seq(BackedThens) /\ Len(after) = Len(pending)
    BY DEF HeldInv, MessageInv
  <2>2. pending \in Seq(SnapshotType)
    BY SnapshotsHaveFiles DEF HeldInv, QueueInv
  <2>3. QED
    BY <1>1, <2>1, <2>2
<1>4. /\ Head(after) \in BackedThens /\ Range(after') \subseteq Range(after)
      /\ Head(after) \in Range(after)
  BY <1>1, <1>3, TailOf
<1>5. Range(ready') \subseteq Range(ready) \cup {Head(after)}
  <2> DEFINE d == Head(after)
  <2>1. d \in BackedThens
    BY <1>4
  <2>2. ready' = ready \/ ready' = Append(ready, d)
    BY <1>1
  <2> HIDE DEF d
  <2>3. Range(Append(ready, d)) = Range(ready) \cup {d}
    BY <1>3, <2>1, RangeOfAppend
  <2>4. QED
    BY <2>2, <2>3 DEF d
<1>6. WaitsOne(f)' => WaitsOne(f)
  BY <1>4, <1>5 DEF WaitsOne
<1>7. QED
  BY <1>1, <1>2, <1>6 DEF LaptopEffect, FileEffect, Heard

LEMMA ContinueEffect ==
  ASSUME HeldInv, Continue, NEW f \in Files
  PROVE  LaptopEffect(f)
<1> DEFINE d == Head(ready)
<1>1. /\ UNCHANGED <<partial, phone, request, wire>> /\ PhoneRests
      /\ up /\ ready # <<>> /\ ready' = Tail(ready)
  BY DEF Continue, PhoneRests
<1>2. ready \in Seq(BackedThens) /\ d \in BackedThens /\ d \in Range(ready)
  BY <1>1, TailOf DEF HeldInv, MessageInv
<1>3. FileEffect(f) /\ (after' = after \/ after' = Append(after, Nothing))
  <2>1. CASE d.do = "activate" /\ ActivateNext
    BY <1>1, <2>1, ActivateNextHeld, CalmEffect
  <2>2. CASE d.do = "accept" /\ AcceptReceiverOffset(d.file, d.offset)
    <3>1. d.file \in Files /\ d.offset \in Nat /\ Held(d.file, d.offset)
      BY <1>2, <2>2 DEF BackedThens
    <3>2. \/ Confirms(d.file, d.offset) /\ after' = Append(after, Nothing)
          \/ Calm /\ after' = after
      BY <1>1, <2>2, <3>1, AcceptOffset
    <3>3. d.file = f /\ d.offset = 1 => Heard(f)
      BY <1>2, <2>2 DEF Waits, WaitsOne, Heard
    <3>4. QED
      BY <3>1, <3>2, <3>3, CalmEffect, ConfirmEffect
  <2>3. CASE UNCHANGED <<allVars, after>>
    BY <2>3 DEF FileEffect, allVars, vars
  <2>4. QED
    BY <2>1, <2>2, <2>3 DEF Continue
<1>4. QED
  BY <1>1, <1>3, ActivateIsBacked, TheyDoNotWait, QuietLaptopEffect

LEMMA ClaimEffect ==
  ASSUME HeldInv, Claim, NEW f \in Files
  PROVE  LaptopEffect(f)
<1>1. /\ UNCHANGED <<partial, phone, request, wire, ready>>
      /\ after' = after \/ \E g \in Files : after' = Append(after, Then("offer", g, 0))
  BY DEF Claim, Saving, phoneVars
<1>2. PICK d \in BackedThens : (after' = after \/ after' = Append(after, d)) /\ ~Waits(d, f)
  BY <1>1, SimpleThens, ActivateIsBacked, TheyDoNotWait
<1>3. FileEffect(f)
  BY ClaimHeld, CalmEffect
<1>4. QED
  BY <1>1, <1>2, <1>3, QuietLaptopEffect

LEMMA ControlEffect ==
  ASSUME HeldInv, HandleControl, NEW f \in Files
  PROVE  LaptopEffect(f)
<1> DEFINE m == Head(wire)
<1>1. /\ UNCHANGED <<partial, phone, request, ready>> /\ Left /\ m \in BackedControls
      /\ m.file \in Files /\ m.offset \in Nat
  <2>1. PICK kind \in Controls : Arrived(kind) /\ Handled
    BY DEF HandleControl, HandleAccept, HandleProgress, HandleComplete, HandleFailed, HandlePause,
       Controls
  <2>2. QED
    BY <2>1, ControlArrives DEF Arrived, Left, PhoneRests
<1>2. CASE HandleAccept
  <2>1. m.kind = "accept"
    BY <1>2 DEF HandleAccept, Arrived
  <2>2. CASE Calm /\ after' = Append(after, Then("accept", m.file, m.offset))
    <3> DEFINE d == Then("accept", m.file, m.offset)
    <3>1. d \in BackedThens
      BY <1>1, <2>1, SimpleThens DEF BackedControls
    <3>2. Waits(d, f) => ReportsOne(m, f)
      BY <2>1 DEF Waits, Then, ReportsOne
    <3> HIDE DEF d
    <3>3. Range(after') \cup Range(ready') \subseteq Range(after) \cup Range(ready) \cup {d}
      BY <1>1, <2>2, <3>1, AfterGrows DEF d
    <3>4. QED
      BY <1>1, <2>2, <3>2, <3>3, CalmEffect, WaitsEffect
  <2>3. CASE \/ Confirms(m.file, m.offset) /\ after' = Append(after, Nothing)
             \/ Calm /\ after' = after
    <3>1. m.file = f /\ m.offset = 1 => Heard(f)
      BY <1>1, <2>1 DEF ReportsOne, Heard
    <3>2. FileEffect(f)
      BY <1>1, <2>3, <3>1, CalmEffect, ConfirmEffect
    <3>3. QED
      BY <1>1, <2>3, <3>2, ActivateIsBacked, TheyDoNotWait, QuietLaptopEffect
  <2>4. QED
    BY <1>2, <2>2, <2>3, AcceptHeld
<1>3. CASE HandleProgress
  <2>1. m.kind = "progress"
    BY <1>3 DEF HandleProgress, Arrived
  <2>2. \/ Confirms(m.file, m.offset) /\ after' = Append(after, Nothing)
        \/ Calm /\ after' = after
    BY <1>3, ProgressHeld
  <2>3. m.file = f /\ m.offset = 1 => Heard(f)
    BY <1>1, <2>1 DEF ReportsOne, Heard
  <2>4. FileEffect(f)
    BY <1>1, <2>2, <2>3, CalmEffect, ConfirmEffect
  <2>5. QED
    BY <1>1, <2>2, <2>4, ActivateIsBacked, TheyDoNotWait, QuietLaptopEffect
<1>4. CASE HandleComplete
  <2>1. Announces(m, m.file)
    BY <1>4 DEF HandleComplete, Arrived, Announces
  <2>2. \/ Completes(m.file) /\ after' = Append(after, Activate)
        \/ Calm /\ after' = after
    BY <1>4, CompleteHeld
  <2>3. FileEffect(f)
    BY <1>1, <2>1, <2>2, CalmEffect, CompleteEffect
  <2>4. QED
    BY <1>1, <2>2, <2>3, ActivateIsBacked, TheyDoNotWait, QuietLaptopEffect
<1>5. CASE HandleFailed \/ HandlePause
  <2>1. Calm /\ (after' = after \/ after' = Append(after, Activate))
    BY <1>5, EndHeld
  <2>2. QED
    BY <1>1, <2>1, CalmEffect, ActivateIsBacked, TheyDoNotWait, QuietLaptopEffect
<1>6. QED
  BY <1>2, <1>3, <1>4, <1>5 DEF HandleControl

LEMMA ConnectionEffect ==
  ASSUME HeldInv, NoticeDisconnect \/ Connect, NEW f \in Files
  PROVE  LaptopEffect(f)
<1>1. UNCHANGED <<partial, phone, request, ready>> /\ wire' = <<>>
  BY DEF NoticeDisconnect, Connect, phoneVars
<1>2. Calm /\ (after' = after \/ after' = Append(after, Nothing))
  BY NoticeHeld, ConnectHeld DEF Connect, ActivateNext
<1>3. QED
  BY <1>1, <1>2, CalmEffect, ActivateIsBacked, TheyDoNotWait, QuietLaptopEffect

LEMMA RestartEffect ==
  ASSUME HeldInv, LaptopRestart, NEW f \in Files
  PROVE  LaptopEffect(f)
<1>1. UNCHANGED <<partial, phone, request, wire, after>> /\ ready' = <<Activate>>
  BY DEF LaptopRestart, phoneVars
<1>2. FileEffect(f)
  BY RestartHeld, CalmEffect
<1>3. Range(ready') = {Activate}
  BY <1>1 DEF Range
<1>4. QED
  BY <1>1, <1>2, <1>3, TheyDoNotWait, WaitsEffect
-----------------------------------------------------------------------------
(* Answers, and the phone's steps                                           *)

(* A chunk is served only at the offset that is confirmed.                  *)
LEMMA AnswerKeepsOnce ==
  ASSUME HeldInv, HeldInv', NEW f \in Long, Once(f), AnswerGet \/ GetFails
  PROVE  Once(f)'
<1>1. /\ UNCHANGED <<partial, phone, wire, after, ready, file>>
      /\ request.reply = "asked" /\ request'.at = request.at
      /\ request'.reply \in {"chunk", "refused"}
      /\ request'.reply = "chunk" => Served(Current, request.at)
      /\ request \in [at : Nat, reply : {"none", "asked", "chunk", "refused"}]
  BY DEF AnswerGet, GetFails, allVars, vars, laptopVars, HeldInv, PhoneInv, PhoneShape
<1>2. f \in Files /\ Size[f] \in Nat /\ Size[f] >= 2 /\ PhoneShape /\ file[f].confirmed \in Nat
  BY QueueAssumption, ConfirmedIsNatural DEF Long, HeldInv, PhoneInv
<1>3. /\ Receives(f)' <=> Receives(f)
      /\ Published(f)' <=> Published(f)
      /\ WaitsOne(f)' <=> WaitsOne(f)
      /\ Writing(f)' = Writing(f)
  <2>1. Current' = Current
    BY <1>1 DEF Current, FileAt
  <2>2. (Receives(f)' <=> Receives(f)) /\ (Published(f)' <=> Published(f))
    BY <1>1, <2>1 DEF Receives, Published
  <2>3. WaitsOne(f)' <=> WaitsOne(f)
    BY <1>1 DEF WaitsOne
  <2>4. Writing(f)' = Writing(f)
    BY <1>1, <2>2 DEF Writing
  <2>5. QED
    BY <2>2, <2>3, <2>4
<1>4. Fetched(f) = 0 /\ Got(f) = Len(partial[f]) + Writing(f) /\ Len(partial[f]) \in Nat
  <2>1. Fetched(f) = 0
    BY <1>1 DEF Fetched
  <2>2. QED
    BY <1>2, <2>1, GotIsNatural DEF Got
<1>5. CASE Receives(f) /\ request'.reply = "chunk"
  <2>1. Got(f)' = Got(f) + 1
    <3>1. Fetched(f)' = 1
      BY <1>3, <1>5 DEF Fetched
    <3>2. Got(f)' = Len(partial[f]) + Writing(f) + 1
      BY <1>1, <1>3, <3>1 DEF Got
    <3>3. QED
      BY <1>2, <1>4, <3>2, GotIsNatural
  <2>2. Got(f) = request.at
    <3>1. Writing(f) = IF phone.pc = "write" THEN 1 ELSE 0
      BY <1>5 DEF Writing
    <3>2. /\ Current = f /\ phone.pc \in Fetching /\ phone.offset = Len(partial[f])
          /\ request.at = IF phone.pc = "write" THEN phone.offset + 1 ELSE phone.offset
      BY <1>1, <1>5 DEF HeldInv, PhoneInv, Receives
    <3>3. CASE phone.pc = "write"
      BY <1>4, <3>1, <3>2, <3>3
    <3>4. CASE phone.pc # "write"
      BY <1>4, <3>1, <3>2, <3>4
    <3>5. QED
      BY <3>3, <3>4
  <2>3. Got(f) = file[f].confirmed /\ Got(f) < Size[f] /\ Got(f) \in Nat
    BY <1>1, <1>2, <1>5, <2>2, GotIsNatural DEF Served, Receives
  <2>4. ~Published(f)
    BY <1>1 DEF Published, HeldInv, PhoneInv, Fetching
  <2>5. file[f].status # "completed"
    <3>1. file[f].status = "completed" => file[f].confirmed = Size[f]
      BY <1>2 DEF HeldInv, QueueInv, DurableInv, CoreInv, CompletedIsConfirmed, FullyConfirmed
    <3>2. QED
      BY <1>2, <2>3, <3>1
  <2>6. Beyond(f)' => file[f].confirmed >= 1
    <3>1. Beyond(f)' => Got(f)' >= 2
      BY <1>3, <2>4 DEF Beyond
    <3>2. QED
      BY <1>2, <2>1, <2>3, <3>1
  <2>7. ASSUME NEW k \in DOMAIN wire, Announces(wire[k], f)
        PROVE  /\ file[f].confirmed = 0 /\ ~WaitsOne(f) /\ ~Beyond(f)'
               /\ \A i \in 1..(k - 1) : ~ReportsOne(wire[i], f)
    <3>1. /\ ~Beyond(f)
          /\ \/ file[f].confirmed >= 1 /\ Got(f) = 0
             \/ /\ file[f].confirmed # 1 /\ ~WaitsOne(f)
                /\ \A i \in 1..(k - 1) : ~ReportsOne(wire[i], f)
      BY <2>7 DEF Once
    <3>2. ~(file[f].confirmed >= 1 /\ Got(f) = 0)
      BY <2>3
    <3>3. file[f].confirmed = 0
      BY <1>2, <2>3, <3>1, <3>2 DEF Beyond
    <3>4. ~Beyond(f)'
      BY <2>6, <3>3
    <3>5. QED
      BY <3>1, <3>2, <3>3, <3>4
  <2>8. file'[f] = file[f] /\ wire' = wire
    BY <1>1
  <2>9. QED
    BY <1>2, <1>3, <2>5, <2>6, <2>7, <2>8 DEF Once, Beyond
<1>6. CASE ~(Receives(f) /\ request'.reply = "chunk")
  <2>1. Fetched(f)' = 0
    BY <1>3, <1>6 DEF Fetched
  <2>2. Got(f)' = Got(f)
    BY <1>1, <1>3, <1>4, <2>1 DEF Got
  <2>3. Beyond(f)' <=> Beyond(f)
    BY <1>3, <2>2 DEF Beyond
  <2>4. file'[f] = file[f] /\ wire' = wire
    BY <1>1
  <2>5. QED
    BY <1>3, <1>6, <2>2, <2>3, <2>4 DEF Once
<1>7. QED
  BY <1>5, <1>6

(* What a step of the phone does: the chunks it has got are no more than    *)
(* they were, and a control it sends says so.                               *)
Fewer(f) ==
  /\ Got(f)' <= Got(f)
  /\ Published(f)' => Beyond(f)
  /\ Receives(f)' /\ request'.reply = "chunk" =>
       Receives(f) /\ request.reply = "chunk" /\ Got(f)' = Got(f)

Says(m, f) ==
  /\ ReportsOne(m, f) => file[f].confirmed >= 1 \/ ~Beyond(f)'
  /\ Announces(m, f) => Beyond(f) /\ ~Beyond(f)' /\ Got(f)' = 0

LEMMA FewerIsNotBeyond ==
  ASSUME PhoneShape, PhoneShape', NEW f \in Files, Fewer(f)
  PROVE  Beyond(f)' => Beyond(f)
<1>1. Got(f) \in Nat /\ Got(f)' \in Nat
  <2>1. Got(f) \in Nat
    BY GotIsNatural
  <2>2. Len(partial'[f]) \in Nat /\ Writing(f)' \in {0, 1} /\ Fetched(f)' \in {0, 1}
    BY DEF PhoneShape, Writing, Fetched
  <2>3. QED
    BY <2>1, <2>2 DEF Got
<1>2. QED
  BY <1>1 DEF Fewer, Beyond

(* The controls that were there keep their places, and what is new is said. *)
WireGrows(f) ==
  \A k \in DOMAIN wire' :
    IF k \in DOMAIN wire THEN wire'[k] = wire[k]
    ELSE Says(wire'[k], f) /\ (Announces(wire'[k], f) => k = Len(wire) + 1)

LEMMA SendGrowsWire ==
  ASSUME HeldInv, NEW f \in Files, NEW m, Says(m, f),
         wire' = wire \/ wire' = <<>> \/ wire' = Append(wire, m)
  PROVE  WireGrows(f)
<1> DEFINE n == Len(wire)
<1>1. wire \in Seq(BackedControls) /\ n \in Nat /\ DOMAIN wire = 1..n
  BY DEF HeldInv, MessageInv
<1>2. CASE wire' = wire
  BY <1>2 DEF WireGrows
<1>3. CASE wire' = <<>>
  BY <1>3 DEF WireGrows
<1>4. CASE wire' = Append(wire, m)
  <2>1. DOMAIN wire' = 1..(n + 1) /\ wire'[n + 1] = m /\ \A i \in 1..n : wire'[i] = wire[i]
    BY <1>1, <1>4
  <2>2. \A k \in 1..(n + 1) : k \in 1..n \/ k = n + 1
    BY <1>1
  <2>3. QED
    BY <1>1, <2>1, <2>2 DEF WireGrows
<1>5. QED
  BY <1>2, <1>3, <1>4

LEMMA PhoneKeepsOnce ==
  ASSUME HeldInv, HeldInv', NEW f \in Files, Once(f), Fewer(f),
         UNCHANGED <<file, after, ready>>, WireGrows(f)
  PROVE  Once(f)'
<1> DEFINE n == Len(wire)
<1>1. /\ wire \in Seq(BackedControls) /\ n \in Nat /\ DOMAIN wire = 1..n
      /\ wire' \in Seq(BackedControls') /\ DOMAIN wire' = 1..Len(wire') /\ Len(wire') \in Nat
      /\ file[f].confirmed \in Nat /\ PhoneShape /\ PhoneShape'
  BY ConfirmedIsNatural DEF HeldInv, MessageInv, PhoneInv
<1>2. Got(f) \in Nat /\ Got(f)' \in Nat /\ (Beyond(f)' => Beyond(f))
  <2>1. Got(f) \in Nat
    BY <1>1, GotIsNatural
  <2>2. Len(partial'[f]) \in Nat /\ Writing(f)' \in {0, 1} /\ Fetched(f)' \in {0, 1}
    BY <1>1 DEF PhoneShape, Writing, Fetched
  <2>3. QED
    BY <1>1, <2>1, <2>2, FewerIsNotBeyond DEF Got
<1>3. (WaitsOne(f)' <=> WaitsOne(f)) /\ file' = file
  BY DEF WaitsOne
<1>4. Beyond(f)' => \/ file[f].confirmed >= 1
                    \/ ~WaitsOne(f) /\ \A i \in DOMAIN wire' : ~ReportsOne(wire'[i], f)
  BY <1>2 DEF Once, Says, WireGrows
<1>5. Receives(f)' /\ request'.reply = "chunk" /\ Got(f)' >= 2 => file[f].confirmed >= 1
  BY DEF Once, Fewer
<1>6. file[f].status = "completed" => ~Beyond(f)'
  BY <1>2 DEF Once
<1>7. ASSUME NEW k \in DOMAIN wire', Announces(wire'[k], f)
      PROVE  /\ ~Beyond(f)'
             /\ \/ file[f].confirmed >= 1 /\ Got(f)' = 0
                \/ /\ file[f].confirmed # 1 /\ ~WaitsOne(f)
                   /\ \A i \in 1..(k - 1) : ~ReportsOne(wire'[i], f)
  <2>1. CASE k \in DOMAIN wire
    <3>1. /\ ~Beyond(f)
          /\ \/ file[f].confirmed >= 1 /\ Got(f) = 0
             \/ /\ file[f].confirmed # 1 /\ ~WaitsOne(f)
                /\ \A i \in 1..(k - 1) : ~ReportsOne(wire[i], f)
      BY <1>7, <2>1 DEF Once, WireGrows
    <3>2. \A i \in 1..(k - 1) : wire'[i] = wire[i]
      <4>1. ASSUME NEW i \in 1..(k - 1) PROVE i \in DOMAIN wire /\ i \in DOMAIN wire'
        BY <1>1, <1>7, <2>1
      <4>2. QED
        BY <4>1 DEF WireGrows
    <3>3. Got(f) = 0 => Got(f)' = 0
      BY <1>2 DEF Fewer
    <3>4. QED
      BY <1>2, <3>1, <3>2, <3>3
  <2>2. CASE k \notin DOMAIN wire
    <3>1. Beyond(f) /\ ~Beyond(f)' /\ Got(f)' = 0 /\ k = n + 1
      BY <1>7, <2>2 DEF Says, WireGrows
    <3>2. \/ file[f].confirmed >= 1
          \/ ~WaitsOne(f) /\ \A i \in DOMAIN wire : ~ReportsOne(wire[i], f)
      BY <3>1 DEF Once
    <3>3. ASSUME NEW i \in 1..(k - 1) PROVE i \in DOMAIN wire /\ wire'[i] = wire[i]
      <4>1. i \in DOMAIN wire /\ i \in DOMAIN wire'
        BY <1>1, <1>7, <3>1
      <4>2. QED
        BY <4>1 DEF WireGrows
    <3>4. QED
      BY <1>1, <3>1, <3>2, <3>3
  <2>3. QED
    BY <2>1, <2>2
<1>8. QED
  BY <1>3, <1>4, <1>5, <1>6, <1>7 DEF Once

(* A step after which no chunk is in hand but those of the partial files.   *)
LEMMA NothingInHand ==
  ASSUME PhoneShape, NEW f \in Files, PhoneShape',
         phone'.pc # "write", request'.reply # "chunk",
         Len(partial'[f]) <= Len(partial[f]), Published(f)' => Beyond(f)
  PROVE  Fewer(f) /\ Got(f)' = Len(partial'[f])
<1>1. Len(partial'[f]) \in Nat /\ Got(f) \in Nat /\ Got(f) >= Len(partial[f])
      /\ Len(partial[f]) \in Nat
  BY GotIsNatural DEF PhoneShape
<1>2. Writing(f)' = 0 /\ Fetched(f)' = 0
  BY DEF Writing, Fetched
<1>3. Got(f)' = Len(partial'[f])
  BY <1>1, <1>2 DEF Got
<1>4. QED
  BY <1>1, <1>3 DEF Fewer

LEMMA SendAppends ==
  ASSUME NEW kind, NEW g, NEW offset, Send(kind, g, offset)
  PROVE  \/ wire' = wire
         \/ wire' = Append(wire, [kind |-> kind, file |-> g, offset |-> offset])
BY DEF Send

(* A control that neither reports nor announces.                            *)
LEMMA OtherKindsSayNothing ==
  ASSUME NEW f, NEW g, NEW kind \in {"failed", "pause"}, NEW offset
  PROVE  Says([kind |-> kind, file |-> g, offset |-> offset], f)
BY DEF Says, ReportsOne, Announces

(* The receiver waits between two offers or two files, or leaves one.       *)
LEMMA LeavesKeepsOnce ==
  ASSUME HeldInv, HeldInv', NEW f \in Files, Once(f), UNCHANGED <<file, after, ready>>,
         phone'.pc # "write", request'.reply # "chunk",
         Published(f)' => Beyond(f),
         partial' = partial \/ \E h \in Files : partial' = [partial EXCEPT ![h] = <<>>],
         NEW g,
         wire' = wire \/ wire' = <<>> \/ Send("failed", g, 0)
  PROVE  Once(f)'
<1>1. PhoneShape /\ PhoneShape'
  BY DEF HeldInv, PhoneInv
<1>2. Len(partial'[f]) <= Len(partial[f])
  <2>1. Len(partial[f]) \in Nat /\ Len(<<>>) = 0 /\ partial \in [Files -> Seq(Nat)]
    BY <1>1, EmptySequence DEF PhoneShape
  <2>2. partial'[f] = partial[f] \/ partial'[f] = <<>>
    BY <2>1
  <2>3. QED
    BY <2>1, <2>2
<1>3. Fewer(f)
  BY <1>1, <1>2, NothingInHand
<1>4. WireGrows(f)
  BY OtherKindsSayNothing, SendAppends, SendGrowsWire
<1>5. QED
  BY <1>3, <1>4, PhoneKeepsOnce

LEMMA FileIsLeftOnce ==
  ASSUME HeldInv, HeldInv', NEW f \in Files, Once(f),
         RejectFile \/ FailFile \/ WriteFails \/ SpoilFile
  PROVE  Once(f)'
<1>1. /\ UNCHANGED <<file, after, ready>> /\ Send("failed", Current, 0)
      /\ phone.pc # "idle" /\ (NextFile \/ phone' = Resting)
      /\ partial' = partial \/ partial' = [partial EXCEPT ![Current] = <<>>]
      /\ request' = NoRequest \/ (request' = request /\ phone.pc \notin Fetching)
  BY DEF RejectFile, FailFile, WriteFails, SpoilFile, OnPhone, At, allVars, vars, laptopVars,
     Fetching
<1>2. PhoneShape /\ Current \in Files /\ request'.reply # "chunk"
  BY <1>1, CurrentIsAFile DEF HeldInv, PhoneInv, NoRequest
<1>3. phone'.pc \in {"idle", "file"}
  BY <1>1, <1>2, LeavesFile
<1>4. ~Published(f)' /\ phone'.pc # "write"
  BY <1>3 DEF Published
<1>5. QED
  BY <1>1, <1>2, <1>4, LeavesKeepsOnce

LEMMA ConnectionLostOnce ==
  ASSUME HeldInv, HeldInv', NEW f \in Files, Once(f), Drop \/ HangUp
  PROVE  Once(f)'
<1>1. /\ UNCHANGED <<file, after, ready, partial>> /\ request' = NoRequest
      /\ wire' = wire \/ wire' = <<>>
      /\ phone' = Resting \/ (phone' = phone /\ phone.pc \in {"publish", "published"})
  BY DEF Drop, HangUp, Dispose, allVars, vars, laptopVars
<1>2. request'.reply # "chunk" /\ phone'.pc # "write"
  BY <1>1, RestingIsIdle DEF NoRequest
<1>3. Published(f)' => Beyond(f)
  <2>1. phone' = phone => Current' = Current
    BY DEF Current, FileAt
  <2>2. QED
    BY <1>1, <2>1, RestingIsIdle DEF Published, Beyond
<1>4. QED
  BY <1>1, <1>2, <1>3, LeavesKeepsOnce

LEMMA QuietPhoneOnce ==
  ASSUME HeldInv, HeldInv', NEW f \in Files, Once(f), TakeOffer \/ Verify
  PROVE  Once(f)'
<1>1. /\ UNCHANGED <<file, after, ready, partial, wire, request>>
      /\ phone.pc \in {"idle", "hash"}
      /\ phone' = [Resting EXCEPT !.pc = "file", !.transfer = Head(inbox)] \/ Goto("publish")
  BY DEF TakeOffer, Verify, OnPhone, At, allVars, vars, laptopVars
<1>2. request'.reply # "chunk"
  BY <1>1 DEF HeldInv, PhoneInv, Fetching
<1>3. phone'.pc \in {"file", "publish"}
  BY <1>1, RestingIsIdle DEF Goto, PhoneRecord, HeldInv, PhoneInv, PhoneShape
<1>4. phone'.pc # "write" /\ ~Published(f)'
  BY <1>3 DEF Published
<1>5. QED
  BY <1>1, <1>2, <1>4, LeavesKeepsOnce

LEMMA PauseOfferOnce ==
  ASSUME HeldInv, HeldInv', NEW f \in Files, Once(f), PauseOffer
  PROVE  Once(f)'
<1> DEFINE t == Head(inbox)
           n == Cardinality(FilesOf(t))
           pause(i) == [kind |-> "pause", file |-> FileAt(t, i), offset |-> 0]
           pauses == [i \in 1..n |-> pause(i)]
<1>1. /\ UNCHANGED <<file, after, ready, partial, request, phone>>
      /\ phone.pc = "idle" /\ wire' = wire \o pauses
      /\ inbox \in Seq(Transfers) /\ inbox # <<>> /\ wire \in Seq(BackedControls)
  BY DEF PauseOffer, OnPhone, At, allVars, vars, laptopVars, HeldInv, MessageInv
<1>2. n \in Nat
  <2>1. t \in Transfers
    BY <1>1
  <2>2. QED
    BY <2>1, DownloadAssumption, FS_CardinalityType
<1>3. \A i \in 1..n : Says(pauses[i], f)
  BY OtherKindsSayNothing
<1>4. \A i \in 1..n : ~Announces(pauses[i], f)
  BY DEF Announces
<1>5. DOMAIN pauses = 1..n
  OBVIOUS
<1> HIDE DEF n, pauses
<1>6. /\ Len(wire) \in Nat /\ DOMAIN wire = 1..Len(wire)
      /\ pauses \in Seq(Range(pauses)) /\ Len(pauses) = n
  <2>1. \A i \in 1..n : pauses[i] \in Range(pauses)
    BY <1>5 DEF Range
  <2>2. pauses = [i \in 1..n |-> pauses[i]]
    BY DEF pauses
  <2>3. pauses \in Seq(Range(pauses)) /\ Len(pauses) = n
    BY <1>2, <2>1, <2>2
  <2>4. QED
    BY <1>1, <2>3
<1>7. ASSUME NEW k \in DOMAIN wire'
      PROVE  \/ k \in DOMAIN wire /\ wire'[k] = wire[k]
             \/ k \notin DOMAIN wire /\ \E i \in 1..n : wire'[k] = pauses[i]
  <2> DEFINE S == BackedControls \cup Range(pauses)
  <2>0. wire \in Seq(S) /\ pauses \in Seq(S)
    BY <1>1, <1>6, WiderSeq
  <2> HIDE DEF S
  <2>1. /\ DOMAIN wire' = 1..(Len(wire) + n)
        /\ \A i \in 1..(Len(wire) + n) :
             wire'[i] = IF i <= Len(wire) THEN wire[i] ELSE pauses[i - Len(wire)]
    <3>1. /\ wire \o pauses \in Seq(S) /\ Len(wire \o pauses) = Len(wire) + Len(pauses)
          /\ \A i \in 1..(Len(wire) + Len(pauses)) :
               (wire \o pauses)[i] = IF i <= Len(wire) THEN wire[i] ELSE pauses[i - Len(wire)]
      BY <2>0, ConcatProperties
    <3>2. DOMAIN (wire \o pauses) = 1..(Len(wire) + Len(pauses))
      BY <3>1
    <3>3. QED
      BY <1>1, <1>6, <3>1, <3>2
  <2>2. CASE k <= Len(wire)
    <3>1. k \in 1..Len(wire)
      BY <1>2, <1>6, <1>7, <2>1, <2>2
    <3>2. wire'[k] = wire[k]
      BY <1>7, <2>1, <2>2
    <3>3. QED
      BY <1>6, <3>1, <3>2
  <2>3. CASE ~(k <= Len(wire))
    <3>1. k - Len(wire) \in 1..n /\ k \notin 1..Len(wire)
      BY <1>2, <1>6, <1>7, <2>1, <2>3
    <3>2. wire'[k] = pauses[k - Len(wire)]
      BY <1>7, <2>1, <2>3
    <3>3. QED
      BY <1>6, <3>1, <3>2
  <2>4. QED
    BY <2>2, <2>3
<1>8. WireGrows(f)
  BY <1>3, <1>4, <1>7 DEF WireGrows
<1>9. Fewer(f)
  <2>1. PhoneShape /\ PhoneShape' /\ request'.reply # "chunk" /\ phone'.pc # "write"
        /\ ~Published(f)'
    BY <1>1 DEF HeldInv, PhoneInv, Fetching, Published
  <2>2. Len(partial'[f]) <= Len(partial[f])
    BY <1>1, <2>1 DEF PhoneShape
  <2>3. QED
    BY <2>1, <2>2, NothingInHand
<1>10. QED
  BY <1>1, <1>8, <1>9, PhoneKeepsOnce

(* The offset a file is accepted at may be one chunk, but no more is in     *)
(* hand then.                                                               *)
LEMMA AcceptFileOnce ==
  ASSUME HeldInv, HeldInv', NEW f \in Files, Once(f), AcceptFile
  PROVE  Once(f)'
<1> DEFINE n == Len(partial[Current])
           m == [kind |-> "accept", file |-> Current, offset |-> n]
<1>1. /\ UNCHANGED <<file, after, ready, partial, request>> /\ phone.pc = "file"
      /\ phone' = [phone EXCEPT !.pc = "fetch", !.offset = n]
      /\ wire' = wire \/ wire' = Append(wire, m)
  BY SendAppends DEF AcceptFile, OnPhone, At, allVars, vars, laptopVars
<1>2. PhoneShape /\ PhoneShape' /\ request'.reply # "chunk" /\ phone'.pc = "fetch"
  BY <1>1 DEF HeldInv, PhoneInv, PhoneShape, Fetching
<1>3. ~Published(f)' /\ Len(partial'[f]) <= Len(partial[f]) /\ Len(partial[f]) \in Nat
  BY <1>1, <1>2 DEF Published, PhoneShape
<1>4. Fewer(f) /\ Got(f)' = Len(partial[f])
  BY <1>1, <1>2, <1>3, NothingInHand
<1>5. Says(m, f)
  <2>1. ReportsOne(m, f) => Got(f)' = 1
    BY <1>4 DEF ReportsOne
  <2>2. ReportsOne(m, f) => ~Beyond(f)'
    BY <1>3, <2>1 DEF Beyond
  <2>3. ~Announces(m, f)
    BY DEF Announces
  <2>4. QED
    BY <2>2, <2>3 DEF Says
<1> HIDE DEF m
<1>6. WireGrows(f)
  BY <1>1, <1>5, SendGrowsWire
<1>7. QED
  BY <1>1, <1>4, <1>6, PhoneKeepsOnce

(* A file is announced only after it was published, with no chunk in hand.  *)
LEMMA CompleteFileOnce ==
  ASSUME HeldInv, HeldInv', NEW f \in Files, Once(f), CompleteFile
  PROVE  Once(f)'
<1> DEFINE m == [kind |-> "complete", file |-> Current, offset |-> 0]
<1>1. /\ UNCHANGED <<file, after, ready, partial, request>> /\ phone.pc = "published"
      /\ NextFile \/ phone' = Resting
      /\ wire' = wire \/ wire' = Append(wire, m)
  BY SendAppends DEF CompleteFile, OnPhone, At, allVars, vars, laptopVars
<1>2. PhoneShape /\ PhoneShape' /\ request'.reply # "chunk" /\ partial[Current] = <<>>
  BY <1>1 DEF HeldInv, PhoneInv, Fetching
<1>3. phone'.pc \in {"idle", "file"}
  BY <1>1, <1>2, LeavesFile
<1>4. ~Published(f)' /\ Len(partial'[f]) <= Len(partial[f]) /\ phone'.pc # "write"
  BY <1>1, <1>2, <1>3 DEF Published, PhoneShape
<1>5. Fewer(f) /\ Got(f)' = Len(partial[f])
  BY <1>1, <1>2, <1>4, NothingInHand
<1>6. Says(m, f)
  <2>1. ~ReportsOne(m, f)
    BY DEF ReportsOne
  <2>2. Announces(m, f) => Published(f) /\ Got(f)' = 0
    BY <1>1, <1>2, <1>5, EmptySequence DEF Announces, Published
  <2>3. Announces(m, f) => Beyond(f) /\ ~Beyond(f)'
    BY <1>4, <2>2 DEF Beyond
  <2>4. QED
    BY <2>1, <2>2, <2>3 DEF Says
<1> HIDE DEF m
<1>7. WireGrows(f)
  BY <1>1, <1>6, SendGrowsWire
<1>8. QED
  BY <1>1, <1>5, <1>7, PhoneKeepsOnce

(* A whole file of two chunks or more is beyond its first chunk.            *)
LEMMA WholeIsBeyond ==
  ASSUME HeldInv, NEW f \in Long, phone.pc \in {"hash", "publish"}, Current = f
  PROVE  Beyond(f)
<1>1. f \in Files /\ Size[f] \in Nat /\ Size[f] >= 2 /\ PhoneShape
  BY QueueAssumption DEF Long, HeldInv, PhoneInv
<1>2. Len(partial[f]) = Size[f]
  BY DEF HeldInv, PhoneInv
<1>3. QED
  BY <1>1, <1>2, GotIsNatural DEF Beyond

LEMMA PublishFileOnce ==
  ASSUME HeldInv, HeldInv', NEW f \in Long, Once(f), PublishFile
  PROVE  Once(f)'
<1>1. /\ UNCHANGED <<file, after, ready, request, wire>> /\ phone.pc = "publish"
      /\ partial' = [partial EXCEPT ![Current] = <<>>] /\ Goto("published")
  BY DEF PublishFile, OnPhone, At, allVars, vars, laptopVars
<1>2. /\ PhoneShape /\ request'.reply # "chunk" /\ Current \in Files /\ Current' = Current
      /\ phone'.pc = "published" /\ f \in Files
  BY <1>1, SameOffset DEF HeldInv, PhoneInv, Fetching, Steps, Long
<1>3. Published(f)' => Beyond(f)
  BY <1>1, <1>2, WholeIsBeyond DEF Published
<1>4. QED
  BY <1>1, <1>2, <1>3, LeavesKeepsOnce

(* The receiver goes on with its file.                                      *)
LEMMA StillReceives ==
  ASSUME phone.pc # "idle", phone'.pc # "idle", Current' = Current, NEW f
  PROVE  Receives(f)' <=> Receives(f)
BY DEF Receives

LEMMA FetchOnce ==
  ASSUME HeldInv, HeldInv', NEW f \in Files, Once(f), Fetch
  PROVE  Once(f)'
<1>1. /\ UNCHANGED <<file, after, ready, partial, wire>> /\ phone.pc = "fetch"
      /\ Goto("wait") \/ Goto("hash")
      /\ request' = request \/ request'.reply = "asked"
  BY DEF Fetch, Ask, OnPhone, At, allVars, vars, laptopVars
<1>2. PhoneShape
  BY DEF HeldInv, PhoneInv
<1>3. phone'.pc \in {"wait", "hash"} /\ Current' = Current
  BY <1>1, <1>2, SameOffset DEF Steps, Fetching
<1>4. (Receives(f)' <=> Receives(f)) /\ ~Published(f)'
  BY <1>1, <1>3, StillReceives DEF Published
<1>5. Writing(f)' = 0 /\ Writing(f) = 0
  BY <1>1, <1>3 DEF Writing
<1>6. /\ Fetched(f)' <= Fetched(f) /\ Fetched(f) \in {0, 1} /\ Fetched(f)' \in {0, 1}
      /\ request'.reply = "chunk" => Fetched(f)' = Fetched(f)
  BY <1>1, <1>4 DEF Fetched
<1>7. Len(partial[f]) \in Nat /\ partial' = partial
  BY <1>1, <1>2, GotIsNatural
<1>8. Got(f)' <= Got(f) /\ (request'.reply = "chunk" => Got(f)' = Got(f))
  BY <1>5, <1>6, <1>7 DEF Got
<1>9. Fewer(f)
  BY <1>1, <1>4, <1>8 DEF Fewer
<1>10. WireGrows(f)
  BY <1>1 DEF WireGrows
<1>11. QED
  BY <1>1, <1>9, <1>10, PhoneKeepsOnce

LEMMA ReceiveChunkOnce ==
  ASSUME HeldInv, HeldInv', NEW f \in Files, Once(f), ReceiveChunk
  PROVE  Once(f)'
<1>1. /\ UNCHANGED <<file, after, ready, partial, wire>> /\ phone.pc = "wait"
      /\ Goto("write") /\ request.reply = "chunk" /\ request'.reply # "chunk"
  BY DEF ReceiveChunk, Ask, NoRequest, OnPhone, At, allVars, vars, laptopVars
<1>2. PhoneShape
  BY DEF HeldInv, PhoneInv
<1>3. phone'.pc = "write" /\ Current' = Current
  BY <1>1, <1>2, SameOffset DEF Steps, Fetching
<1>4. (Receives(f)' <=> Receives(f)) /\ ~Published(f)'
  BY <1>1, <1>3, StillReceives DEF Published
<1>5. Writing(f)' = Fetched(f) /\ Writing(f) = 0 /\ Fetched(f)' = 0 /\ Fetched(f) \in {0, 1}
  BY <1>1, <1>3, <1>4 DEF Writing, Fetched
<1>6. Len(partial[f]) \in Nat /\ partial' = partial
  BY <1>1, <1>2, GotIsNatural
<1>7. Got(f)' <= Got(f)
  BY <1>5, <1>6 DEF Got
<1>8. Fewer(f)
  BY <1>1, <1>4, <1>7 DEF Fewer
<1>9. WireGrows(f)
  BY <1>1 DEF WireGrows
<1>10. QED
  BY <1>1, <1>8, <1>9, PhoneKeepsOnce

(* A first chunk is reported when it is all the phone has got, or when the  *)
(* laptop has served the second and so confirmed the first.                 *)
LEMMA WriteChunkOnce ==
  ASSUME HeldInv, HeldInv', NEW f \in Long, Once(f), WriteChunk
  PROVE  Once(f)'
<1> DEFINE g == Current
           offset == IF Size[g] = 0 THEN 0 ELSE phone.offset + 1
           pc == IF offset < Size[g] THEN "fetch" ELSE "hash"
           m == [kind |-> "progress", file |-> g, offset |-> offset]
<1>1. /\ UNCHANGED <<file, after, ready, request>> /\ phone.pc = "write"
      /\ phone' = [phone EXCEPT !.pc = pc, !.offset = offset]
      /\ partial' = IF Size[g] = 0 THEN partial
                    ELSE [partial EXCEPT ![g] = Append(partial[g], phone.offset)]
      /\ wire' = wire \/ wire' = Append(wire, m)
  BY SendAppends DEF WriteChunk, OnPhone, At, allVars, vars, laptopVars
<1>2. /\ PhoneShape /\ f \in Files /\ Size[f] \in Nat /\ Size[f] >= 2 /\ Len(partial[f]) \in Nat
      /\ partial[f] \in Seq(Nat)
  <2>1. PhoneShape /\ f \in Files /\ Size[f] \in Nat /\ Size[f] >= 2
    BY QueueAssumption DEF HeldInv, PhoneInv, Long
  <2>2. partial[f] \in Seq(Nat)
    BY <2>1 DEF PhoneShape
  <2>3. QED
    BY <2>1, <2>2
<1>3. g \in Files /\ phone.offset \in Nat
  BY <1>1, <1>2, CurrentIsAFile DEF PhoneShape
<1>4. phone'.pc \in {"fetch", "hash"} /\ Current' = g
  <2>1. pc \in {"fetch", "hash"} /\ offset \in Nat
    BY <1>3
  <2>2. QED
    BY <1>1, <1>2, <2>1, SameFile DEF Steps, Fetching
<1>5. (Receives(f)' <=> Receives(f)) /\ ~Published(f)' /\ (Receives(f) <=> g = f)
  BY <1>1, <1>4, StillReceives DEF Published, Receives
<1>6. Fetched(f)' = Fetched(f) /\ Writing(f)' = 0 /\ Fetched(f) \in {0, 1}
  BY <1>1, <1>4, <1>5 DEF Fetched, Writing
<1>7. CASE g = f
  <2>1. Writing(f) = 1
    BY <1>1, <1>5, <1>7 DEF Writing
  <2>2. Len(partial'[f]) = Len(partial[f]) + 1
    <3>1. partial'[f] = Append(partial[f], phone.offset)
      BY <1>1, <1>2, <1>7 DEF PhoneShape
    <3>2. QED
      BY <1>2, <1>3, <3>1, AppendProperties
  <2>3. Got(f)' = Got(f)
    BY <1>2, <1>6, <2>1, <2>2 DEF Got
  <2>4. phone.offset = Len(partial[f])
    BY <1>1, <1>7 DEF HeldInv, PhoneInv, Fetching
  <2>5. Fewer(f)
    BY <1>1, <1>2, <1>5, <2>3, GotIsNatural DEF Fewer
  <2>6. Says(m, f)
    <3>1. ASSUME ReportsOne(m, f) PROVE file[f].confirmed >= 1 \/ ~Beyond(f)'
      <4>1. Len(partial[f]) = 0
        BY <1>2, <1>3, <1>7, <2>4, <3>1 DEF ReportsOne
      <4>2. CASE request.reply = "chunk"
        <5>1. Fetched(f) = 1 /\ Receives(f)
          BY <1>5, <1>7, <4>2 DEF Fetched
        <5>2. Got(f) = 2
          BY <2>1, <4>1, <5>1 DEF Got
        <5>3. QED
          BY <4>2, <5>1, <5>2 DEF Once
      <4>3. CASE request.reply # "chunk"
        <5>1. Fetched(f) = 0
          BY <4>3 DEF Fetched
        <5>2. Got(f) = 1
          BY <2>1, <4>1, <5>1 DEF Got
        <5>3. QED
          BY <1>5, <2>3, <5>2 DEF Beyond
      <4>4. QED
        BY <4>2, <4>3
    <3>2. ~Announces(m, f)
      BY DEF Announces
    <3>3. QED
      BY <3>1, <3>2 DEF Says
  <2> HIDE DEF m
  <2>7. WireGrows(f)
    BY <1>1, <1>2, <2>6, SendGrowsWire
  <2>8. QED
    BY <1>1, <1>2, <2>5, <2>7, PhoneKeepsOnce
<1>8. CASE g # f
  <2>1. partial'[f] = partial[f]
    BY <1>1, <1>2, <1>8 DEF PhoneShape
  <2>2. Writing(f) = 0
    BY <1>5, <1>8 DEF Writing
  <2>3. Got(f)' = Got(f)
    BY <1>6, <2>1, <2>2 DEF Got
  <2>4. Fewer(f)
    BY <1>2, <1>5, <1>8, <2>3, GotIsNatural DEF Fewer
  <2>5. Says(m, f)
    BY <1>8 DEF Says, ReportsOne, Announces
  <2> HIDE DEF m
  <2>6. WireGrows(f)
    BY <1>1, <1>2, <2>5, SendGrowsWire
  <2>7. QED
    BY <1>1, <1>2, <2>4, <2>6, PhoneKeepsOnce
<1>9. QED
  BY <1>7, <1>8

(* A crash takes the messages, and no completion that is on disk.           *)
LEMMA CrashOnce ==
  ASSUME HeldInv, HeldInv', NEW f \in Files, Once(f), LaptopCrash
  PROVE  Once(f)'
<1>1. /\ file' = disk.file /\ partial' = partial /\ request' = NoRequest
      /\ after' = <<>> /\ ready' = <<>> /\ wire' = <<>>
      /\ phone' = Resting \/ (phone' = phone /\ phone.pc \in {"publish", "published"})
  BY DEF LaptopCrash, Crash, Dispose
<1>2. /\ request'.reply # "chunk" /\ phone'.pc # "write" /\ PhoneShape /\ PhoneShape'
  BY <1>1, RestingIsIdle DEF NoRequest, HeldInv, PhoneInv
<1>3. Published(f)' => Beyond(f)
  <2>1. phone' = phone => Current' = Current
    BY DEF Current, FileAt
  <2>2. QED
    BY <1>1, <2>1, RestingIsIdle DEF Published, Beyond
<1>4. Beyond(f)' => Beyond(f)
  <2>1. Len(partial'[f]) <= Len(partial[f])
    BY <1>1, <1>2, GotIsNatural
  <2>2. QED
    BY <1>2, <1>3, <2>1, NothingInHand, FewerIsNotBeyond
<1>5. disk.file[f].status = "completed" => file[f].status = "completed"
  BY DEF HeldInv, QueueInv, DurableInv, Chain, Keeps, Snapshot
<1>6. ~WaitsOne(f)' /\ DOMAIN wire' = {}
  BY <1>1, EmptyRange DEF WaitsOne
<1>7. file'[f].status = "completed" => ~Beyond(f)'
  BY <1>1, <1>4, <1>5 DEF Once
<1>8. QED
  BY <1>2, <1>6, <1>7 DEF Once
-----------------------------------------------------------------------------
LEMMA StartsOnce == DownloadInit => OnceInv
<1> SUFFICES ASSUME DownloadInit, NEW f \in Long PROVE Once(f)
  BY DEF OnceInv
<1>1. f \in Files /\ file[f].status = "absent"
  BY DEF Long, DownloadInit, DurableInit, Init, NoFile, NewFile
<1>2. /\ phone = Resting /\ partial[f] = <<>> /\ wire = <<>> /\ after = <<>> /\ ready = <<>>
      /\ request.reply = "none"
  BY <1>1 DEF DownloadInit, NoRequest
<1>3. Got(f) = 0 /\ ~Published(f) /\ ~Receives(f)
  BY <1>2, RestingIsIdle, EmptySequence DEF Got, Writing, Fetched, Receives, Published
<1>4. ~Beyond(f) /\ DOMAIN wire = {}
  BY <1>2, <1>3 DEF Beyond
<1>5. QED
  BY <1>1, <1>2, <1>3, <1>4 DEF Once

LEMMA NextKeepsOnce ==
  ASSUME HeldInv, OnceInv, [DownloadNext]_everything
  PROVE  OnceInv'
<1> SUFFICES ASSUME NEW f \in Long PROVE Once(f)'
  BY DEF OnceInv, Long
<1>1. HeldInv' /\ Once(f) /\ f \in Files
  BY NextKeepsHeld DEF OnceInv, Long
<1>2. ASSUME NEW t \in Transfers, EnqueueLaptopEntries(t) PROVE Once(f)'
  BY <1>1, <1>2, EnqueueEffect, LaptopKeepsOnce
<1>3. CASE LaptopStep
  <2>1. CASE AnswerGet
    BY <1>1, <2>1, AnswerKeepsOnce
  <2>2. CASE ~AnswerGet
    BY <1>1, <1>3, <2>2, SaveDoneEffect, ContinueEffect, ClaimEffect, ControlEffect, RestartEffect,
       LaptopKeepsOnce DEF LaptopStep
  <2>3. QED
    BY <2>1, <2>2
<1>4. CASE PhoneStep \/ PauseOffer
  BY <1>1, <1>4, QuietPhoneOnce, FileIsLeftOnce, AcceptFileOnce, FetchOnce, ReceiveChunkOnce,
     WriteChunkOnce, PublishFileOnce, CompleteFileOnce, PauseOfferOnce DEF PhoneStep
<1>5. CASE NoticeDisconnect \/ Connect
  BY <1>1, <1>5, ConnectionEffect, LaptopKeepsOnce
<1>6. CASE Fault \/ HangUp
  BY <1>1, <1>6, AnswerKeepsOnce, FileIsLeftOnce, ConnectionLostOnce, CrashOnce DEF Fault
<1>7. CASE UNCHANGED everything
  <2>1. LaptopEffect(f)
    BY <1>7 DEF everything, downloadVars, laptopVars, phoneVars, allVars, vars, LaptopEffect,
       WaitsOne, Heard
  <2>2. QED
    BY <1>1, <2>1, LaptopKeepsOnce
<1>8. QED
  BY <1>2, <1>3, <1>4, <1>5, <1>6, <1>7 DEF DownloadNext
-----------------------------------------------------------------------------
(* The refinement, step by step                                             *)

LEMMA DeliveryStutters ==
  ASSUME UNCHANGED <<partial, saved>>, Done(disk') = Done(disk)
  PROVE  UNCHANGED Delivery!vars
BY DEF Delivery!vars, Done

LEMMA StartDelivers == DownloadInit => Delivery!Init
<1> SUFFICES ASSUME DownloadInit PROVE Delivery!Init
  OBVIOUS
<1>1. disk.file = [f \in Files |-> NoFile]
  BY DEF DownloadInit, DurableInit, Init, Snapshot
<1>2. \A f \in Files : disk.file[f].status # "completed"
  BY <1>1 DEF NoFile, NewFile
<1>3. QED
  BY <1>2 DEF DownloadInit, Delivery!Init

(* A save that brings a completion to disk records its file; the phone has  *)
(* published it by then.                                                    *)
LEMMA SaveDoneDelivers ==
  ASSUME HeldInv, SaveDone
  PROVE  [Delivery!Next]_(Delivery!vars)
<1>1. HeldInv' /\ OneMore(disk, disk')
  BY SaveDoneHeld
<1>2. UNCHANGED <<partial, saved>>
  BY DEF SaveDone, phoneVars
<1>3. Done(disk) \subseteq Done(disk')
  <2>1. Keeps(disk, disk')
    BY NextKeepsDurableInv DEF HeldInv, QueueInv, SaveDone, DurableNext
  <2>2. QED
    BY <2>1 DEF Keeps, Done
<1>4. CASE Done(disk') = Done(disk)
  BY <1>2, <1>4, DeliveryStutters
<1>5. CASE Done(disk') # Done(disk)
  <2>1. PICK f \in Done(disk') : f \notin Done(disk)
    BY <1>3, <1>5
  <2>2. Done(disk') = Done(disk) \cup {f}
    BY <1>1, <1>3, <2>1 DEF OneMore
  <2>3. f \in Files /\ saved[f] > 0
    BY <1>1, <1>2, <2>1 DEF HeldInv, QueueInv, Backed, Done
  <2>4. Delivery!Record(f)
    BY <1>2, <2>2, <2>3 DEF Delivery!Record, Done
  <2>5. QED
    BY <2>3, <2>4 DEF Delivery!Next
<1>6. QED
  BY <1>4, <1>5

LEMMA WriteChunkDelivers ==
  ASSUME HeldInv, WriteChunk
  PROVE  [Delivery!Next]_(Delivery!vars)
<1> DEFINE f == Current
<1>1. /\ UNCHANGED <<disk, saved>> /\ phone.pc = "write"
      /\ partial' = IF Size[f] = 0 THEN partial
                    ELSE [partial EXCEPT ![f] = Append(partial[f], phone.offset)]
  BY DEF WriteChunk, OnPhone, At, allVars, durable
<1>2. f \in Files /\ phone.offset = Len(partial[f]) /\ (Size[f] = 0 \/ phone.offset < Size[f])
  BY <1>1, CurrentIsAFile DEF HeldInv, PhoneInv, Fetching
<1>3. CASE Size[f] = 0
  BY <1>1, <1>3, DeliveryStutters
<1>4. CASE Size[f] # 0
  <2>1. Delivery!Receive(f)
    BY <1>1, <1>2, <1>4 DEF Delivery!Receive
  <2>2. QED
    BY <1>2, <2>1 DEF Delivery!Next
<1>5. QED
  BY <1>3, <1>4

LEMMA SpoilFileDelivers ==
  ASSUME HeldInv, SpoilFile
  PROVE  [Delivery!Next]_(Delivery!vars)
<1>1. /\ UNCHANGED <<disk, saved>> /\ phone.pc \in {"hash", "publish"}
      /\ partial' = [partial EXCEPT ![Current] = <<>>]
  BY DEF SpoilFile, At, allVars, durable
<1>2. Current \in Files /\ Len(partial[Current]) = Size[Current]
  BY <1>1, CurrentIsAFile DEF HeldInv, PhoneInv
<1>3. Delivery!Discard(Current)
  BY <1>1, <1>2 DEF Delivery!Discard
<1>4. QED
  BY <1>2, <1>3 DEF Delivery!Next

(* The phone holds the whole file, and if the laptop has recorded it as     *)
(* completed the file has one chunk at most.                                *)
LEMMA PublishFileDelivers ==
  ASSUME HeldInv, OnceInv, PublishFile
  PROVE  [Delivery!Next]_(Delivery!vars)
<1> DEFINE f == Current
<1>1. /\ UNCHANGED disk /\ phone.pc = "publish"
      /\ partial' = [partial EXCEPT ![f] = <<>>]
      /\ saved' = [saved EXCEPT ![f] = saved[f] + 1]
  BY DEF PublishFile, OnPhone, At, allVars, durable
<1>2. /\ f \in Files /\ PhoneShape /\ Len(partial[f]) = Size[f] /\ partial[f] \in Seq(Nat)
      /\ Size[f] \in Nat /\ \A n \in 1..Len(partial[f]) : partial[f][n] = n - 1
  <2>1. f \in Files /\ PhoneShape
    BY <1>1, CurrentIsAFile DEF HeldInv, PhoneInv
  <2>2. partial[f] \in Seq(Nat) /\ Size[f] \in Nat
    BY <2>1, QueueAssumption DEF PhoneShape
  <2>3. Len(partial[f]) = Size[f] /\ \A n \in 1..Len(partial[f]) : partial[f][n] = n - 1
    BY <1>1, <2>1 DEF HeldInv, PhoneInv
  <2>4. QED
    BY <2>1, <2>2, <2>3
<1>3. partial[f] = Delivery!Whole(f)
  <2>1. partial[f] = [n \in 1..Len(partial[f]) |-> partial[f][n]]
    BY <1>2
  <2>2. \A n \in 1..Size[f] : partial[f][n] = n - 1
    BY <1>2
  <2> HIDE DEF f
  <2>3. QED
    BY <1>2, <2>1, <2>2 DEF Delivery!Whole
<1>4. disk.file[f].status = "completed" => Size[f] <= 1
  <2>1. disk.file[f].status = "completed" => file[f].status = "completed"
    BY <1>2 DEF HeldInv, QueueInv, DurableInv, Chain, Keeps, Snapshot
  <2>2. f \in Long => Beyond(f) /\ Once(f)
    BY <1>1, WholeIsBeyond DEF OnceInv
  <2>3. f \in Long \/ Size[f] <= 1
    BY <1>2 DEF Long
  <2>4. QED
    BY <2>1, <2>2, <2>3 DEF Once
<1>5. Delivery!Publish(f)
  BY <1>1, <1>2, <1>3, <1>4 DEF Delivery!Publish
<1>6. QED
  BY <1>2, <1>5 DEF Delivery!Next

LEMMA OtherStepsStutter ==
  ASSUME HeldInv, [DownloadNext]_everything,
         ~(SaveDone \/ WriteChunk \/ SpoilFile \/ PublishFile)
  PROVE  UNCHANGED Delivery!vars
<1> DEFINE Same == UNCHANGED <<partial, saved, disk>>
<1>1. ASSUME NEW t \in Transfers, EnqueueLaptopEntries(t) PROVE Same
  BY <1>1 DEF EnqueueLaptopEntries, Saving, phoneVars
<1>2. ASSUME Continue \/ Claim \/ AnswerGet PROVE Same
  BY <1>2 DEF Continue, Claim, AnswerGet, Saving, ActivateNext, AcceptReceiverOffset, Throw,
     phoneVars, allVars, durable
<1>3. ASSUME HandleControl PROVE Same
  BY <1>3 DEF HandleControl, HandleAccept, HandleProgress, HandleComplete, HandleFailed,
     HandlePause, Handled, Saving, ActivateNext, AcceptReceiverOffset, Throw, phoneVars, allVars,
     durable
<1>4. CASE LaptopRestart
  <2>1. Done(disk') = Done(disk) /\ UNCHANGED <<partial, saved>>
    BY <1>4, RestartHeld DEF LaptopRestart, phoneVars
  <2>2. QED
    BY <2>1, DeliveryStutters
<1>5. ASSUME \/ TakeOffer \/ RejectFile \/ AcceptFile \/ Fetch \/ ReceiveChunk
             \/ FailFile \/ Verify \/ CompleteFile \/ PauseOffer
      PROVE  Same
  BY <1>5 DEF TakeOffer, RejectFile, AcceptFile, Fetch, ReceiveChunk, FailFile, Verify,
     CompleteFile, PauseOffer, OnPhone, allVars, durable
<1>6. ASSUME HangUp \/ NoticeDisconnect \/ Connect PROVE Same
  BY <1>6 DEF HangUp, NoticeDisconnect, Connect, Dispose, Saving, ActivateNext, phoneVars,
     allVars, durable
<1>7. ASSUME GetFails \/ WriteFails \/ Drop \/ LaptopCrash PROVE Same
  BY <1>7 DEF GetFails, WriteFails, Drop, LaptopCrash, Crash, Dispose, allVars, durable
<1>8. ASSUME UNCHANGED everything PROVE Same
  BY <1>8 DEF everything, downloadVars, phoneVars, allVars, durable
<1>9. Same \/ LaptopRestart
  BY <1>1, <1>2, <1>3, <1>5, <1>6, <1>7, <1>8
     DEF DownloadNext, LaptopStep, PhoneStep, Fault
<1>10. QED
  BY <1>4, <1>9, DeliveryStutters DEF Done

(* The download keeps the promise of FileDelivery: the phone extends what   *)
(* it holds by the chunk that comes next, publishes whole files only, and   *)
(* the laptop records a file only when it is published, after which a file  *)
(* of two chunks or more is not published again, through lost connections,  *)
(* repeated offers, stale reports and restarts.                             *)
THEOREM PhoneDeliversFiles == DownloadSpec => DeliversFiles
<1>1. HeldInv /\ OnceInv /\ [DownloadNext]_everything => [Delivery!Next]_(Delivery!vars)
  BY SaveDoneDelivers, WriteChunkDelivers, SpoilFileDelivers, PublishFileDelivers,
     OtherStepsStutter
<1>2. DownloadInit => HeldInv /\ OnceInv /\ Delivery!Init
  BY StartHeld, StartsOnce, StartDelivers
<1>3. HeldInv /\ OnceInv /\ [DownloadNext]_everything => HeldInv' /\ OnceInv'
  BY NextKeepsHeld, NextKeepsOnce
<1>4. QED
  BY <1>1, <1>2, <1>3, PTL DEF DownloadSpec, DeliversFiles, Delivery!Spec
=============================================================================
