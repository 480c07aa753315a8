------------------------- MODULE PhoneToLaptopProofs -------------------------
(* Proofs about PhoneToLaptop, and so about PhoneSender, for any batches,  *)
(* sizes, numbers of attempts and troubles: what the phone calls completed *)
(* has been received.  The claim travels: from the laptop's queue into an  *)
(* answer or the reply to a PUT, from there into the copy of the batch a   *)
(* run holds, from there into the history and the copies that cancels and  *)
(* restarts take of it.  The invariant is that it is true everywhere.      *)
EXTENDS PhoneToLaptop, FiniteSetTheorems, WellFoundedInduction, TLAPS

Done(f) == file[f].status = "completed"
Received(t) == \A f \in FilesOf(t) : Done(f)

(* A copy of file statuses, and one of batch statuses, that claim nothing  *)
(* that is not so.                                                         *)
Copy(F) ==
  /\ F \in [Files -> PhoneFileStatus]
  /\ \A f \in Files : F[f] = "completed" => Done(f)
BatchCopy(S) ==
  /\ S \in [Transfers -> PhoneBatchStatus]
  /\ \A t \in Transfers : S[t] = "completed" => Received(t)

(* The laptop's queue: the files of a batch come with the batch, and a     *)
(* file that waits to be claimed starts at its first byte.                 *)
LaptopInv ==
  /\ file \in [Files -> FileRecord] /\ batch \in [Transfers -> BatchRecord]
  /\ now \in Nat
  /\ \A f \in Files :
       /\ ~Known(Owner[f]) => file[f].status = "absent"
       /\ file[f].status = "queued" => file[f].confirmed = 0

HistoryInv == Copy(stored) /\ BatchCopy(kept)
CopiesInv == Copy(local) /\ Copy(sending)

(* An answer that says "complete" is right, and one that accepts a file    *)
(* accepts it before its end.                                              *)
GoodAnswers ==
  {m \in [kind : {"accept", "complete", "failed"}, file : Files, offset : Nat] :
     /\ m.kind = "complete" => Done(m.file)
     /\ m.kind = "accept" => m.offset < Size[m.file] \/ Size[m.file] = 0}

InboxInv == inbox \in [Transfers -> Seq(GoodAnswers)]

(* What is on its way to the laptop names files. *)
NetworkInv ==
  /\ wire \in [Transfers -> Seq([kind : {"offer"}] \cup [kind : {"cancel"}, file : Files])]
  /\ late \subseteq [file : Files, at : Nat]

\* Where a run is at one of its files.
FilePcs == {"handle", "accept", "reconnect", "put", "putting", "sent"}
RunPcs ==
  FilePcs \cup {"idle", "connect", "prepare", "probe", "probed", "saved", "undo", "undone",
                "turn", "offer", "file"}

RunRecord ==
  [pc : RunPcs, at : Nat, offset : Nat, tries : Int, puts : Int, status : PhoneBatchStatus,
   first : BOOLEAN, terminalOnly : BOOLEAN, swap : BOOLEAN]
RequestRecord ==
  [at : Nat, reply : Replies \cup {"none", "asked", "lost"}, confirmed : Nat]

(* A run r whose request is q: the files before its current one are done.  *)
RunOK(t, r, q) ==
  LET f == FileAt(t, r.at)
  IN  /\ r.pc \in FilePcs \cup {"file"} =>
           r.at > 0 /\ \A g \in FilesOf(t) : Position[g] < r.at => Done(g)
      /\ r.pc \in FilePcs => r.at <= Count(t)
      /\ q.reply \in {"asked", "held"} => r.pc = "putting"
      /\ r.pc = "sent" => Done(f)
      /\ r.pc = "put" => r.offset # Size[f] \/ Size[f] = 0
      /\ r.pc = "putting" /\ q.reply = "ok" => q.confirmed # Size[f] \/ Done(f)
      /\ r.status = "completed" => Received(t)

RunsInv ==
  /\ run \in [Transfers -> RunRecord] /\ request \in [Transfers -> RequestRecord]
  /\ \A t \in Transfers : RunOK(t, run[t], request[t])

CancelPcs == {"idle", "read", "act", "ask", "mark", "finish"}

CancelRecord ==
  [pc : CancelPcs, transfer : Transfers \cup {None}, todo : SUBSET Files,
   copy : [Files -> PhoneFileStatus], status : PhoneBatchStatus]

(* A cancel c under way knows its batch and has a file left to cancel, and *)
(* what it will write is so.                                               *)
CancelOK(c) ==
  /\ c \in CancelRecord
  /\ c.pc # "idle" => c.transfer \in Transfers
  /\ c.pc \notin {"idle", "read"} => c.todo # {}
  /\ Copy(c.copy)
  /\ c.status = "completed" => Received(c.transfer)

CancelInv == CancelOK(cancelling)

ResumeInv ==
  /\ DOMAIN resuming = {"pc", "batches", "files", "status"}
  /\ Copy(resuming.files) /\ BatchCopy(resuming.status)

SentInv ==
  /\ LaptopInv /\ HistoryInv /\ CopiesInv /\ InboxInv /\ NetworkInv /\ RunsInv
  /\ CancelInv /\ ResumeInv

-----------------------------------------------------------------------------
(* Lemmas about the operators                                              *)

LEMMA FirstIsLeast ==
  ASSUME NEW S, S \subseteq Nat, S # {}
  PROVE  First(S) \in S /\ \A j \in S : First(S) <= j
<1> DEFINE R == {ss \in Nat \X Nat : ss[1] < ss[2]}
<1>1. R = OpToRel(<, Nat)
  BY DEF OpToRel
<1>2. IsWellFoundedOn(R, Nat)
  BY <1>1, NatLessThanWellFounded
<1>3. \A i, j \in S : j < i => <<j, i>> \in R
  OBVIOUS
<1> HIDE DEF R
<1>4. PICK i \in S : \A j \in S : ~(<<j, i>> \in R)
  BY <1>2, WFMin
<1>5. ASSUME NEW j \in S
      PROVE  i <= j
  <2>1. ~(j < i)
    BY <1>3, <1>4
  <2>2. i \in Nat /\ j \in Nat
    OBVIOUS
  <2>3. QED
    BY <2>1, <2>2
<1>6. QED
  BY <1>5 DEF First

(* The files of a batch are at the positions 1, 2, ...                     *)
LEMMA FilesByPosition ==
  ASSUME NEW t \in Transfers
  PROVE  /\ Count(t) \in Nat
         /\ \A f \in FilesOf(t) : Position[f] \in 1..Count(t)
         /\ \A i \in 1..Count(t) :
              /\ FileAt(t, i) \in FilesOf(t) /\ Position[FileAt(t, i)] = i
              /\ \A f \in FilesOf(t) : Position[f] = i => f = FileAt(t, i)
<1>1. Count(t) \in Nat
  BY SenderAssumption, FS_CardinalityType DEF Count
<1>2. {Position[f] : f \in FilesOf(t)} = 1..Count(t)
  BY SenderAssumption DEF Count
<1>3. \A f, g \in FilesOf(t) : Position[f] = Position[g] => f = g
  BY QueueAssumption DEF FilesOf
<1>4. ASSUME NEW i \in 1..Count(t)
      PROVE  FileAt(t, i) \in FilesOf(t) /\ Position[FileAt(t, i)] = i
  BY <1>2, <1>4 DEF FileAt
<1>5. QED
  BY <1>1, <1>2, <1>3, <1>4

(* SetToSeq lists the set, all of it and nothing else.                     *)
LEMMA ListedSet ==
  ASSUME NEW S, IsFiniteSet(S)
  PROVE  SetToSeq(S) \in Seq(S)
<1>1. Cardinality(S) \in Nat /\ ExistsBijection(1..Cardinality(S), S)
  BY FS_CardinalityType
<1>2. PICK f : f \in [1..Cardinality(S) -> S] /\ IsInjective(f)
  BY <1>1 DEF ExistsBijection, Bijection, Injection, IsInjective
<1>3. SetToSeq(S) \in [1..Cardinality(S) -> S]
  BY <1>2 DEF SetToSeq
<1>4. QED
  BY <1>1, <1>3

(* A batch status "completed" says that all the files are.                 *)
LEMMA CompletedBatch ==
  ASSUME NEW t \in Transfers, NEW F, Copy(F), PhoneBatchOf(t, F) = "completed"
  PROVE  Received(t)
BY DEF PhoneBatchOf, Copy, Received, FilesOf

LEMMA BatchStatusType ==
  ASSUME NEW t, NEW F
  PROVE  PhoneBatchOf(t, F) \in PhoneBatchStatus
BY DEF PhoneBatchOf, PhoneBatchStatus, PhoneTerminal
-----------------------------------------------------------------------------
(* What does not change stays true while files are only ever completed.    *)

Grows == \A f \in Files : Done(f) => Done(f)'

LEMMA AnswersGrow ==
  ASSUME Grows
  PROVE  /\ GoodAnswers \subseteq GoodAnswers'
         /\ \A s \in Seq(GoodAnswers) : s \in Seq(GoodAnswers')
<1>1. GoodAnswers \subseteq GoodAnswers'
  BY DEF Grows, GoodAnswers
<1>2. QED
  BY <1>1

LEMMA Rest ==
  ASSUME SentInv, Grows
  PROVE  /\ UNCHANGED history => HistoryInv'
         /\ UNCHANGED <<local, sending>> => CopiesInv'
         /\ UNCHANGED inbox => InboxInv'
         /\ UNCHANGED <<run, request>> => RunsInv'
         /\ UNCHANGED cancelling => CancelInv'
         /\ UNCHANGED resuming => ResumeInv'
<1>1. \A t : Received(t) => Received(t)'
  BY DEF Grows, Received, FilesOf
<1>2. UNCHANGED history => HistoryInv'
  BY <1>1 DEF SentInv, HistoryInv, history, Copy, BatchCopy, Grows
<1>3. UNCHANGED <<local, sending>> => CopiesInv'
  BY DEF SentInv, CopiesInv, Copy, Grows
<1>4. UNCHANGED inbox => InboxInv'
  BY AnswersGrow DEF SentInv, InboxInv
<1>5. UNCHANGED cancelling => CancelInv'
  BY <1>1 DEF SentInv, CancelInv, CancelOK, Copy, Grows
<1>6. UNCHANGED resuming => ResumeInv'
  BY <1>1 DEF SentInv, ResumeInv, Copy, BatchCopy, Grows
<1>7. ASSUME UNCHANGED <<run, request>>
      PROVE  RunsInv'
  <2>1. ASSUME NEW t \in Transfers
        PROVE  RunOK(t, run[t], request[t])'
    <3>0. PICK f : f = FileAt(t, run[t].at)
      OBVIOUS
    <3>1. RunOK(t, run[t], request[t]) /\ run[t] \in RunRecord
      BY DEF SentInv, RunsInv
    <3>2. run[t].pc \in FilePcs => f \in FilesOf(t)
      BY <3>0, <3>1, FilesByPosition DEF RunOK, RunRecord, FilePcs
    <3>3. run[t].pc \in FilePcs => (Done(f) => Done(f)')
      BY <3>2 DEF Grows, FilesOf
    <3>4. run[t]' = run[t] /\ request[t]' = request[t]
      BY <1>7
    <3>5. \A g \in FilesOf(t) : Done(g) => Done(g)'
      BY DEF Grows, FilesOf
    <3>6. QED
      BY <1>1, <3>0, <3>1, <3>3, <3>4, <3>5 DEF RunOK, FilesOf, FilePcs, Count, FileAt
  <2>2. QED
    BY <1>7, <2>1 DEF SentInv, RunsInv
<1>8. QED
  BY <1>2, <1>3, <1>4, <1>5, <1>6, <1>7

-----------------------------------------------------------------------------
(* The calls of the laptop's queue: a completed file stays completed.      *)

LEMMA TouchedRecord ==
  ASSUME LaptopInv, NEW b \in BatchRecord, NEW s \in BatchStatus
  PROVE  /\ Touched([b EXCEPT !.status = s]) \in BatchRecord
         /\ Touched([b EXCEPT !.status = s]).status = s
<1>1. [b EXCEPT !.status = s] \in BatchRecord /\ [b EXCEPT !.status = s].status = s
  BY DEF BatchRecord
<1>2. now + Lifetime \in Nat
  BY QueueAssumption DEF LaptopInv
<1>3. QED
  BY <1>1, <1>2 DEF Touched, BatchRecord

LEMMA SettledBatch ==
  ASSUME LaptopInv, NEW t \in Transfers, NEW F, Settle(t, F)
  PROVE  /\ batch' \in [Transfers -> BatchRecord] /\ batch'[t].status # "absent"
         /\ \A u \in Transfers \ {t} : batch'[u] = batch[u]
<1>1. DerivedStatus(t, F) \in BatchStatus \ {"absent"}
  BY DEF DerivedStatus, BatchStatus, TerminalBatch
<1>2. PICK b : b = Touched([batch[t] EXCEPT !.status = DerivedStatus(t, F)])
  OBVIOUS
<1>3. b \in BatchRecord /\ b.status = DerivedStatus(t, F)
  BY <1>1, <1>2, TouchedRecord DEF LaptopInv
<1>4. batch' = [batch EXCEPT ![t] = b]
  BY <1>2 DEF Settle
<1>5. QED
  BY <1>1, <1>3, <1>4 DEF LaptopInv

LEMMA FileSettles ==
  ASSUME LaptopInv, NEW f \in Files, NEW r \in FileRecord, Known(Owner[f]),
         SettleFile(f, r), UNCHANGED now,
         r.status = "queued" => r.confirmed = 0, Done(f) => r.status = "completed"
  PROVE  LaptopInv' /\ Grows
<1>1. Owner[f] \in Transfers
  BY QueueAssumption
<1>2. /\ batch' \in [Transfers -> BatchRecord] /\ batch'[Owner[f]].status # "absent"
      /\ \A u \in Transfers \ {Owner[f]} : batch'[u] = batch[u]
  BY <1>1, SettledBatch DEF SettleFile
<1>3. file' = [file EXCEPT ![f] = r]
  BY DEF SettleFile, Settle
<1>4. Grows
  BY <1>3 DEF LaptopInv, Grows, Done
<1>5. file' \in [Files -> FileRecord] /\ now' \in Nat
  BY <1>3 DEF LaptopInv
<1>6. ASSUME NEW g \in Files
      PROVE  /\ ~Known(Owner[g])' => file'[g].status = "absent"
             /\ file'[g].status = "queued" => file'[g].confirmed = 0
  <2>1. ~Known(Owner[g])' => Owner[g] # Owner[f] /\ ~Known(Owner[g])
    BY <1>2, QueueAssumption DEF Known
  <2>2. QED
    BY <1>3, <2>1 DEF LaptopInv
<1>7. QED
  BY <1>2, <1>4, <1>5, <1>6 DEF LaptopInv

LEMMA BatchAdded ==
  ASSUME LaptopInv, NEW t \in Transfers, AcceptOffer(t, Device)
  PROVE  LaptopInv' /\ Grows
<1>1. NewFile \in FileRecord /\ NewFile.status = "queued" /\ NewFile.confirmed = 0
  BY DEF NewFile, FileRecord, FileStatus
<1>2. Device \in Devices
  BY SenderAssumption DEF Device
<1>3. PICK b : b = [status |-> "queued", device |-> Device, expiresAt |-> now + Lifetime]
  OBVIOUS
<1>4. b \in BatchRecord /\ b.status # "absent"
  BY <1>2, <1>3, QueueAssumption DEF LaptopInv, BatchRecord, BatchStatus
<1>5. batch' = [batch EXCEPT ![t] = b] /\ now' = now /\ ~Known(t)
  BY <1>3 DEF AcceptOffer, AddBatch
<1>6. file' = [g \in Files |-> IF Owner[g] = t THEN NewFile ELSE file[g]]
  BY DEF AcceptOffer, AddBatch
<1>7. Grows
  BY <1>5, <1>6 DEF Grows, Done, LaptopInv
<1>8. file' \in [Files -> FileRecord] /\ batch' \in [Transfers -> BatchRecord] /\ now' \in Nat
  BY <1>1, <1>4, <1>5, <1>6 DEF LaptopInv
<1>9. ASSUME NEW g \in Files
      PROVE  /\ ~Known(Owner[g])' => file'[g].status = "absent"
             /\ file'[g].status = "queued" => file'[g].confirmed = 0
  <2>1. ~Known(Owner[g])' => Owner[g] # t /\ ~Known(Owner[g])
    BY <1>4, <1>5, QueueAssumption DEF Known, LaptopInv
  <2>2. QED
    BY <1>1, <1>6, <2>1 DEF LaptopInv
<1>10. QED
  BY <1>7, <1>8, <1>9 DEF LaptopInv

(* cancel, fail, complete and beginVerification *)
LEMMA FileEnds ==
  ASSUME LaptopInv, NEW f \in Files,
         CancelFile(f) \/ Fail(f) \/ Complete(f) \/ BeginVerification(f)
  PROVE  LaptopInv' /\ Grows
<1>1. /\ file[f] \in FileRecord /\ Size[f] \in Nat
      /\ {"cancelled", "failed", "completed", "verifying"} \subseteq FileStatus
  BY QueueAssumption DEF LaptopInv, FileStatus, TerminalFile, InFlight
<1>2. UNCHANGED now
  BY DEF CancelFile, Fail, Complete, BeginVerification, Static
<1>3. file[f].status # "absent" => Known(Owner[f])
  BY DEF LaptopInv
<1>4. CASE CancelFile(f)
  <2>1. PICK q : q = [file[f] EXCEPT !.status = "cancelled"]
    OBVIOUS
  <2>2. q \in FileRecord /\ q.status = "cancelled"
    BY <1>1, <2>1 DEF FileRecord
  <2>3. CASE file[f].status \in TerminalFile
    <3>1. SettleFile(f, file[f]) /\ Known(Owner[f])
      BY <1>4, <2>3 DEF CancelFile
    <3>2. file[f].status = "queued" => file[f].confirmed = 0
      BY DEF LaptopInv
    <3>3. QED
      BY <1>1, <1>2, <3>1, <3>2, FileSettles DEF Done
  <2>4. CASE file[f].status \notin TerminalFile
    <3>1. SettleFile(f, q) /\ Known(Owner[f]) /\ ~Done(f)
      BY <1>4, <2>1, <2>4 DEF CancelFile, Done, TerminalFile
    <3>2. QED
      BY <1>2, <2>2, <3>1, FileSettles
  <2>5. QED
    BY <2>3, <2>4
<1>5. CASE Fail(f)
  <2>1. PICK q : q = [file[f] EXCEPT !.status = "failed", !.finalPath = FALSE]
    OBVIOUS
  <2>2. q \in FileRecord /\ q.status = "failed"
    BY <1>1, <2>1 DEF FileRecord
  <2>3. SettleFile(f, q) /\ Known(Owner[f]) /\ ~Done(f)
    BY <1>3, <1>5, <2>1 DEF Fail, Done, TerminalFile
  <2>4. QED
    BY <1>2, <2>2, <2>3, FileSettles
<1>6. CASE Complete(f)
  <2>1. PICK q : q = [file[f] EXCEPT !.status = "completed", !.finalPath = FALSE]
    OBVIOUS
  <2>2. q \in FileRecord /\ q.status = "completed"
    BY <1>1, <2>1 DEF FileRecord
  <2>3. SettleFile(f, q) /\ Known(Owner[f])
    BY <1>3, <1>6, <2>1 DEF Complete, InFlight
  <2>4. QED
    BY <1>2, <2>2, <2>3, FileSettles
<1>7. CASE BeginVerification(f)
  <2>1. PICK q : q = [file[f] EXCEPT !.status = "verifying", !.confirmed = Size[f]]
    OBVIOUS
  <2>2. q \in FileRecord /\ q.status = "verifying"
    BY <1>1, <2>1 DEF FileRecord
  <2>3. SettleFile(f, q) /\ Known(Owner[f]) /\ ~Done(f)
    BY <1>3, <1>7, <2>1 DEF BeginVerification, Done
  <2>4. QED
    BY <1>2, <2>2, <2>3, FileSettles
<1>8. QED
  BY <1>4, <1>5, <1>6, <1>7

LEMMA CompletedIsDone ==
  ASSUME LaptopInv, NEW f \in Files, Complete(f)
  PROVE  Done(f)'
<1>1. PICK q : q = [file[f] EXCEPT !.status = "completed", !.finalPath = FALSE]
  OBVIOUS
<1>2. q.status = "completed"
  BY <1>1 DEF LaptopInv, FileRecord
<1>3. file' = [file EXCEPT ![f] = q]
  BY <1>1 DEF Complete, SettleFile, Settle
<1>4. QED
  BY <1>2, <1>3 DEF Done, LaptopInv

LEMMA FileConfirms ==
  ASSUME LaptopInv, NEW f \in Files, NEW n \in Nat, ConfirmProgress(f, n)
  PROVE  LaptopInv' /\ Grows
<1>0. PICK r : r = [file[f] EXCEPT !.confirmed = n]
  OBVIOUS
<1>1. file' = [file EXCEPT ![f] = r] /\ r \in FileRecord /\ r.status = "active"
  BY <1>0 DEF ConfirmProgress, Advance, LaptopInv, FileRecord
<1>2. Owner[f] \in Transfers /\ batch[Owner[f]] \in BatchRecord /\ now + Lifetime \in Nat
  BY QueueAssumption DEF LaptopInv
<1>3. PICK b : b = Touched(batch[Owner[f]])
  OBVIOUS
<1>4. b \in BatchRecord /\ b.status = batch[Owner[f]].status
  BY <1>2, <1>3 DEF Touched, BatchRecord
<1>5. batch' = [batch EXCEPT ![Owner[f]] = b] /\ now' = now
  BY <1>3 DEF ConfirmProgress, Advance, Static
<1>6. \A t \in Transfers : Known(t)' <=> Known(t)
  BY <1>2, <1>4, <1>5 DEF Known, LaptopInv
<1>7. Grows /\ file[f].status = "active"
  BY <1>1 DEF Grows, Done, LaptopInv, ConfirmProgress
<1>8. file' \in [Files -> FileRecord] /\ batch' \in [Transfers -> BatchRecord] /\ now' \in Nat
  BY <1>1, <1>2, <1>4, <1>5 DEF LaptopInv
<1>9. ASSUME NEW g \in Files
      PROVE  /\ ~Known(Owner[g])' => file'[g].status = "absent"
             /\ file'[g].status = "queued" => file'[g].confirmed = 0
  BY <1>1, <1>6, <1>7, QueueAssumption DEF LaptopInv
<1>10. QED
  BY <1>7, <1>8, <1>9 DEF LaptopInv

(* retry: the offer of a known batch starts a cancelled file again.        *)
LEMMA FileRetried ==
  ASSUME LaptopInv, NEW f \in Files, RetryBegin(f) \/ RetryEnd(f)
  PROVE  LaptopInv' /\ Grows
<1>1. CASE RetryBegin(f)
  <2>1. NewFile \in FileRecord /\ NewFile.status = "queued" /\ NewFile.confirmed = 0
    BY DEF NewFile, FileRecord, FileStatus
  <2>2. file' = [file EXCEPT ![f] = NewFile] /\ batch' = batch /\ now' = now
    BY <1>1 DEF RetryBegin
  <2>3. file[f].status \in {"failed", "cancelled"}
    BY <1>1 DEF RetryBegin
  <2>4. Grows
    BY <2>2, <2>3 DEF Grows, Done, LaptopInv
  <2>5. QED
    BY <2>1, <2>2, <2>3, <2>4 DEF LaptopInv, Known
<1>2. CASE RetryEnd(f)
  <2>1. Owner[f] \in Transfers
    BY QueueAssumption
  <2>2. file' = file /\ now' = now
    BY <1>2 DEF RetryEnd, Settle
  <2>3. /\ batch' \in [Transfers -> BatchRecord] /\ batch'[Owner[f]].status # "absent"
        /\ \A u \in Transfers \ {Owner[f]} : batch'[u] = batch[u]
    BY <1>2, <2>1, SettledBatch DEF RetryEnd
  <2>4. \A t \in Transfers : ~Known(t)' => ~Known(t)
    BY <2>1, <2>3 DEF Known
  <2>5. QED
    BY <2>2, <2>3, <2>4, QueueAssumption DEF LaptopInv, Grows, Done
<1>3. QED
  BY <1>1, <1>2

-----------------------------------------------------------------------------
(* The laptop's handlers                                                   *)

Unmoved == UNCHANGED <<history, local, sending, run, cancelling, resuming>>

LEMMA PhoneUnmoved ==
  ASSUME Phone
  PROVE  Unmoved
BY DEF Phone, Unmoved, history, copies

(* What a handler has to leave true.                                       *)
LEMMA HandlerDone ==
  ASSUME SentInv, Unmoved, LaptopInv', Grows, InboxInv', NetworkInv', RunsInv'
  PROVE  SentInv'
<1>1. HistoryInv' /\ CopiesInv' /\ CancelInv' /\ ResumeInv'
  BY Rest DEF Unmoved
<1>2. QED
  BY <1>1 DEF SentInv

LEMMA Published ==
  ASSUME SentInv, Grows, NEW t \in Transfers, NEW s \in Seq(GoodAnswers'), Publish(t, s)
  PROVE  InboxInv'
<1>1. \A u \in Transfers : inbox[u] \in Seq(GoodAnswers')
  BY AnswersGrow DEF SentInv, InboxInv
<1>2. PICK q : q = IF session[t] = "up" THEN inbox[t] \o s ELSE inbox[t]
  OBVIOUS
<1>3. q \in Seq(GoodAnswers')
  BY <1>1, <1>2
<1>4. inbox' = [inbox EXCEPT ![t] = q]
  BY <1>2 DEF Publish
<1>5. QED
  BY <1>1, <1>3, <1>4 DEF SentInv, InboxInv

(* An answer about a file, as the laptop publishes it.                     *)
LEMMA FailedSaid ==
  ASSUME NEW f \in Files
  PROVE  Said("failed", f, 0) \in GoodAnswers' /\ Said("failed", f, 0) \in GoodAnswers
BY DEF Said, GoodAnswers

(* What is answered to a request that its run waits for.                   *)
LEMMA RequestsMove ==
  ASSUME SentInv, Grows, UNCHANGED run, request' \in [Transfers -> RequestRecord],
         \A t \in Transfers :
           \/ request'[t] = request[t]
           \/ /\ request[t].reply = "asked" \/ run[t].pc = "putting"
                 \/ request'[t].reply \notin {"asked", "held"}
              /\ request'[t].reply = "ok" =>
                   request'[t].confirmed # Size[Current(t)] \/ Done(Current(t))'
  PROVE  RunsInv'
<1>1. \A t : Received(t) => Received(t)'
  BY DEF Grows, Received, FilesOf
<1>2. ASSUME NEW t \in Transfers
      PROVE  RunOK(t, run[t], request[t])'
  <2>0. PICK f : f = FileAt(t, run[t].at)
    OBVIOUS
  <2>1. RunOK(t, run[t], request[t]) /\ run[t] \in RunRecord
    BY DEF SentInv, RunsInv
  <2>2. run[t].pc \in FilePcs => f \in FilesOf(t)
    BY <2>0, <2>1, FilesByPosition DEF RunOK, RunRecord, FilePcs
  <2>3. run[t].pc \in FilePcs => (Done(f) => Done(f)')
    BY <2>2 DEF Grows, FilesOf
  <2>4. run'[t] = run[t]
    OBVIOUS
  <2>5. \A g \in FilesOf(t) : Done(g) => Done(g)'
    BY DEF Grows, FilesOf
  <2>6. \/ request'[t] = request[t]
        \/ /\ request'[t].reply \in {"asked", "held"} => run[t].pc = "putting"
           /\ request'[t].reply = "ok" => request'[t].confirmed # Size[f] \/ Done(f)'
    BY <2>0, <2>1 DEF Current, RunOK, Done
  <2>7. QED
    BY <1>1, <2>0, <2>1, <2>3, <2>4, <2>5, <2>6 DEF RunOK, FilesOf, FilePcs, Count, FileAt
<1>3. QED
  BY <1>2 DEF SentInv, RunsInv

(* A control was read.                                                     *)
LEMMA ControlTaken ==
  ASSUME SentInv, NEW t \in Transfers, wire[t] # <<>>, Taken(t), UNCHANGED late
  PROVE  NetworkInv'
BY DEF SentInv, NetworkInv, Taken

LEMMA NetworkRests ==
  ASSUME SentInv, UNCHANGED <<wire, late>>
  PROVE  NetworkInv'
BY DEF SentInv, NetworkInv

LEMMA LaptopRests ==
  ASSUME SentInv, UNCHANGED vars
  PROVE  LaptopInv' /\ Grows
BY DEF SentInv, LaptopInv, vars, Grows, Done, Known

LEMMA TakeNewOfferSteps ==
  ASSUME SentInv, NEW t \in Transfers, TakeNewOffer(t)
  PROVE  SentInv'
<1>1. LaptopInv' /\ Grows
  BY BatchAdded DEF SentInv, TakeNewOffer
<1>2. Unmoved
  BY PhoneUnmoved DEF TakeNewOffer
<1>3. InboxInv' /\ RunsInv'
  BY <1>1, <1>2, Rest DEF TakeNewOffer, Unmoved
<1>4. NetworkInv'
  BY ControlTaken DEF TakeNewOffer, Takes
<1>5. QED
  BY <1>1, <1>2, <1>3, <1>4, HandlerDone

LEMMA RejectOfferSteps ==
  ASSUME SentInv, NEW t \in Transfers, RejectOffer(t)
  PROVE  SentInv'
<1>1. UNCHANGED vars /\ UNCHANGED request
  BY DEF RejectOffer, laptop
<1>2. LaptopInv' /\ Grows
  BY <1>1, LaptopRests
<1>3. Unmoved
  BY PhoneUnmoved DEF RejectOffer
<1>4. RunsInv'
  BY <1>1, <1>2, <1>3, Rest DEF Unmoved
<1>5. InboxInv'
  <2>1. CASE \E f \in FilesOf(t) : Publish(t, <<Said("failed", f, 0)>>)
    <3>1. PICK f \in FilesOf(t) : Publish(t, <<Said("failed", f, 0)>>)
      BY <2>1
    <3>2. Said("failed", f, 0) \in GoodAnswers'
      BY FailedSaid DEF FilesOf
    <3>3. <<Said("failed", f, 0)>> \in Seq(GoodAnswers')
      BY <3>2
    <3>4. QED
      BY <1>2, <3>1, <3>3, Published
  <2>2. CASE Publish(t, [i \in 1..Count(t) |-> Said("failed", FileAt(t, i), 0)])
    <3>1. PICK s : s = [i \in 1..Count(t) |-> Said("failed", FileAt(t, i), 0)]
      OBVIOUS
    <3>2. \A i \in 1..Count(t) : FileAt(t, i) \in Files
      BY FilesByPosition DEF FilesOf
    <3>3. \A i \in 1..Count(t) : s[i] \in GoodAnswers'
      BY <3>1, <3>2, FailedSaid
    <3>4. s \in Seq(GoodAnswers')
      BY <3>1, <3>3, FilesByPosition
    <3>5. QED
      BY <1>2, <2>2, <3>1, <3>4, Published
  <2>3. QED
    BY <2>1, <2>2 DEF RejectOffer
<1>6. NetworkInv'
  BY ControlTaken DEF RejectOffer, Takes
<1>7. QED
  BY <1>2, <1>3, <1>4, <1>5, <1>6, HandlerDone

LEMMA KnownOfferSteps ==
  ASSUME SentInv, (\E t \in Transfers : TakeKnownOffer(t)) \/ RetryCancelled \/ DeviceGone
  PROVE  SentInv'
<1>1. CASE \E t \in Transfers : TakeKnownOffer(t)
  <2>1. PICK t \in Transfers : TakeKnownOffer(t)
    BY <1>1
  <2>2. LaptopInv' /\ Grows /\ Unmoved
    BY <2>1, LaptopRests, PhoneUnmoved DEF TakeKnownOffer
  <2>3. InboxInv' /\ RunsInv'
    BY <2>1, <2>2, Rest DEF TakeKnownOffer, Unmoved
  <2>4. NetworkInv'
    BY <2>1, ControlTaken DEF TakeKnownOffer, Takes
  <2>5. QED
    BY <2>2, <2>3, <2>4, HandlerDone
<1>2. CASE RetryCancelled
  <2>1. PICK f \in Files : RetryBegin(f) \/ RetryEnd(f)
    BY <1>2 DEF RetryCancelled, FilesOf
  <2>2. LaptopInv' /\ Grows
    BY <2>1, FileRetried DEF SentInv
  <2>3. Unmoved /\ UNCHANGED network
    BY <1>2, PhoneUnmoved DEF RetryCancelled, Silent
  <2>4. InboxInv' /\ RunsInv' /\ NetworkInv'
    BY <2>2, <2>3, Rest, NetworkRests DEF Unmoved, network
  <2>5. QED
    BY <2>2, <2>3, <2>4, HandlerDone
<1>3. CASE DeviceGone
  <2>1. LaptopInv' /\ Grows /\ Unmoved /\ UNCHANGED network
    BY <1>3, LaptopRests, PhoneUnmoved DEF DeviceGone, Silent
  <2>2. InboxInv' /\ RunsInv' /\ NetworkInv'
    BY <2>1, Rest, NetworkRests DEF Unmoved, network
  <2>3. QED
    BY <2>1, <2>2, HandlerDone
<1>4. QED
  BY <1>1, <1>2, <1>3

(* What republishPhoneProgress says is so.                                 *)
LEMMA NewsIsGood ==
  ASSUME SentInv, NEW f \in Files, NEW claimed, HasNews(f, claimed)
  PROVE  News(f) \in GoodAnswers
<1>1. file[f] \in FileRecord /\ Size[f] \in Nat
  BY QueueAssumption DEF SentInv, LaptopInv
<1>2. file[f].confirmed \in Nat
  BY <1>1 DEF FileRecord
<1>3. CASE file[f].status = "completed"
  BY <1>1, <1>3 DEF News, Said, GoodAnswers, Done
<1>4. CASE file[f].status = "failed"
  BY <1>4 DEF News, Said, GoodAnswers
<1>5. CASE file[f].status \notin {"completed", "failed"}
  <2>1. file[f].confirmed < Size[f] \/ Size[f] = 0
    BY <1>5 DEF HasNews
  <2>2. News(f) = Said("accept", f, file[f].confirmed)
    BY <1>5 DEF News
  <2>3. QED
    BY <1>2, <2>1, <2>2 DEF Said, GoodAnswers
<1>6. QED
  BY <1>3, <1>4, <1>5

LEMMA RepublishedIsGood ==
  ASSUME SentInv, NEW t \in Transfers, NEW claimed
  PROVE  Republished(t, claimed) \in Seq(GoodAnswers)
<1>1. PICK S : S = {f \in FilesOf(t) : HasNews(f, claimed)}
  OBVIOUS
<1>2. IsFiniteSet(S)
  BY <1>1, SenderAssumption, FS_Subset
<1>3. PICK files : files = SetToSeq(S)
  OBVIOUS
<1>4. files \in Seq(S)
  BY <1>2, <1>3, ListedSet
<1>5. Republished(t, claimed) = [i \in DOMAIN files |-> News(files[i])]
  BY <1>1, <1>3 DEF Republished
<1>6. \A f \in S : News(f) \in GoodAnswers
  BY <1>1, NewsIsGood DEF FilesOf
<1>7. Len(files) \in Nat /\ DOMAIN files = 1..Len(files) /\ \A i \in 1..Len(files) : files[i] \in S
  BY <1>4
<1>8. QED
  BY <1>5, <1>6, <1>7

LEMMA ToldIsGood ==
  ASSUME SentInv, Grows, NEW t \in Transfers, NEW c, NEW claimed
  PROVE  Told(t, c, claimed) \in Seq(GoodAnswers')
<1>1. Republished(t, claimed) \in Seq(GoodAnswers)
  BY RepublishedIsGood
<1>2. QED
  BY <1>1, AnswersGrow DEF Told

(* activateNext: a file it claims is accepted at its first byte.           *)
LEMMA ClaimedFile ==
  ASSUME LaptopInv, NEW f \in Files, file[f].status = "queued",
         file' = [file EXCEPT ![f].status = "active"],
         batch' = [batch EXCEPT ![Owner[f]] = Touched([@ EXCEPT !.status = "active"])],
         UNCHANGED now
  PROVE  LaptopInv' /\ Grows
<1>1. PICK q : q = [file[f] EXCEPT !.status = "active"]
  OBVIOUS
<1>2. q \in FileRecord /\ q.status = "active" /\ "active" \in FileStatus \cap BatchStatus
  BY <1>1 DEF LaptopInv, FileRecord, FileStatus, InFlight, BatchStatus
<1>3. file' = [file EXCEPT ![f] = q]
  BY <1>1
<1>4. Owner[f] \in Transfers /\ batch[Owner[f]] \in BatchRecord
  BY QueueAssumption DEF LaptopInv
<1>5. PICK b : b = Touched([batch[Owner[f]] EXCEPT !.status = "active"])
  OBVIOUS
<1>6. b \in BatchRecord /\ b.status = "active"
  BY <1>2, <1>4, <1>5, TouchedRecord
<1>7. batch' = [batch EXCEPT ![Owner[f]] = b]
  BY <1>5
<1>8. Grows
  BY <1>3 DEF LaptopInv, Grows, Done
<1>9. file' \in [Files -> FileRecord] /\ batch' \in [Transfers -> BatchRecord] /\ now' \in Nat
  BY <1>2, <1>3, <1>6, <1>7 DEF LaptopInv
<1>10. ASSUME NEW g \in Files
       PROVE  /\ ~Known(Owner[g])' => file'[g].status = "absent"
              /\ file'[g].status = "queued" => file'[g].confirmed = 0
  <2>1. ~Known(Owner[g])' => Owner[g] # Owner[f] /\ ~Known(Owner[g])
    BY <1>6, <1>7, QueueAssumption DEF Known, LaptopInv
  <2>2. QED
    BY <1>2, <1>3, <2>1 DEF LaptopInv
<1>11. QED
  BY <1>8, <1>9, <1>10 DEF LaptopInv

LEMMA Joined ==
  ASSUME NEW S, NEW a \in Seq(S), NEW b \in Seq(S)
  PROVE  a \o b \in Seq(S)
OBVIOUS

LEMMA ActivateFileSteps ==
  ASSUME SentInv, NEW f \in Files, ActivateFile(f)
  PROVE  SentInv'
<1>1. file[f].status = "queued" /\ UNCHANGED now
  BY DEF ActivateFile, IsNext
<1>2. LaptopInv' /\ Grows
  BY <1>1, ClaimedFile DEF ActivateFile, SentInv
<1>3. PICK c \in Transfers \cup {None} :
        /\ Activates(c)
        /\ inbox' = [t \in Transfers |->
             IF session[t] = "up"
             THEN inbox[t] \o (IF t = Owner[f] THEN <<Said("accept", f, file[f].confirmed)>> ELSE <<>>)
                     \o Told(t, c, TRUE)
             ELSE inbox[t]]
  BY DEF ActivateFile
<1>4. Unmoved /\ UNCHANGED <<wire, request, late>>
  BY <1>3, PhoneUnmoved DEF Activates
<1>5. RunsInv' /\ NetworkInv'
  BY <1>2, <1>4, Rest, NetworkRests DEF Unmoved
<1>6. InboxInv'
  <2>1. Said("accept", f, file[f].confirmed) \in GoodAnswers'
    <3>1. file[f].confirmed = 0 /\ Size[f] \in Nat
      BY <1>1, QueueAssumption DEF SentInv, LaptopInv
    <3>2. 0 < Size[f] \/ Size[f] = 0
      BY <3>1
    <3>3. QED
      BY <3>1, <3>2 DEF Said, GoodAnswers
  <2>2. ASSUME NEW t \in Transfers
        PROVE  inbox'[t] \in Seq(GoodAnswers')
    <3>1. inbox[t] \in Seq(GoodAnswers')
      BY <1>2, AnswersGrow DEF SentInv, InboxInv
    <3>2. PICK a : a = IF t = Owner[f] THEN <<Said("accept", f, file[f].confirmed)>> ELSE <<>>
      OBVIOUS
    <3>3. a \in Seq(GoodAnswers')
      BY <2>1, <3>2
    <3>4. PICK b : b = Told(t, c, TRUE)
      OBVIOUS
    <3>5. b \in Seq(GoodAnswers')
      BY <1>2, <3>4, ToldIsGood
    <3>6. inbox'[t] = inbox[t] \o a \o b \/ inbox'[t] = inbox[t]
      BY <1>3, <3>2, <3>4
    <3>7. QED
      BY <3>1, <3>3, <3>5, <3>6, Joined
  <2>3. QED
    BY <1>3, <2>2 DEF InboxInv
<1>7. QED
  BY <1>2, <1>4, <1>5, <1>6, HandlerDone

LEMMA ActivateNothingSteps ==
  ASSUME SentInv, ActivateNothing
  PROVE  SentInv'
<1>1. LaptopInv' /\ Grows
  BY LaptopRests DEF ActivateNothing
<1>2. PICK c \in Transfers \cup {None} :
        /\ Activates(c)
        /\ inbox' = [t \in Transfers |->
                       IF session[t] = "up" THEN inbox[t] \o Told(t, c, FALSE) ELSE inbox[t]]
  BY DEF ActivateNothing
<1>3. Unmoved /\ UNCHANGED <<wire, request, late>>
  BY <1>2, PhoneUnmoved DEF Activates
<1>4. RunsInv' /\ NetworkInv'
  BY <1>1, <1>3, Rest, NetworkRests DEF Unmoved
<1>5. ASSUME NEW t \in Transfers
      PROVE  inbox'[t] \in Seq(GoodAnswers')
  <2>1. inbox[t] \in Seq(GoodAnswers')
    BY <1>1, AnswersGrow DEF SentInv, InboxInv
  <2>2. PICK b : b = Told(t, c, FALSE)
    OBVIOUS
  <2>3. b \in Seq(GoodAnswers')
    BY <1>1, <2>2, ToldIsGood
  <2>4. inbox'[t] = inbox[t] \o b \/ inbox'[t] = inbox[t]
    BY <1>2, <2>2
  <2>5. QED
    BY <2>1, <2>3, <2>4, Joined
<1>6. QED
  BY <1>1, <1>2, <1>3, <1>4, <1>5, HandlerDone DEF InboxInv

LEMMA TakeCancelSteps ==
  ASSUME SentInv, NEW t \in Transfers, TakeCancel(t)
  PROVE  SentInv'
<1>1. PICK f : f = Head(wire[t]).file
  OBVIOUS
<1>2. f \in Files
  <2>1. /\ wire[t] \in Seq([kind : {"offer"}] \cup [kind : {"cancel"}, file : Files])
        /\ wire[t] # <<>> /\ Head(wire[t]).kind = "cancel"
    BY DEF TakeCancel, Takes, SentInv, NetworkInv
  <2>2. PICK m : m = Head(wire[t])
    OBVIOUS
  <2>3. m \in [kind : {"offer"}] \cup [kind : {"cancel"}, file : Files] /\ m.kind = "cancel"
    BY <2>1, <2>2
  <2>4. m \notin [kind : {"offer"}]
    BY <2>3
  <2>5. m \in [kind : {"cancel"}, file : Files]
    BY <2>3, <2>4
  <2>6. m.file \in Files
    BY <2>5
  <2>7. QED
    BY <1>1, <2>2, <2>6
<1>3. CancelFile(f) \/ UNCHANGED vars
  BY <1>1 DEF TakeCancel
<1>4. LaptopInv' /\ Grows
  BY <1>2, <1>3, FileEnds, LaptopRests DEF SentInv
<1>5. Unmoved /\ UNCHANGED <<inbox, request, late>>
  BY PhoneUnmoved DEF TakeCancel
<1>6. InboxInv' /\ RunsInv'
  BY <1>4, <1>5, Rest DEF Unmoved
<1>7. NetworkInv'
  BY <1>5, ControlTaken DEF TakeCancel, Takes
<1>8. QED
  BY <1>4, <1>5, <1>6, <1>7, HandlerDone

(* A PUT: only a chunk that is not the last one is answered at once, and   *)
(* with an offset before the end.                                          *)
LEMMA Uploaded ==
  ASSUME SentInv, NEW f \in Files, NEW o \in Nat, NEW reply, NEW c, Upload(f, o, reply, c)
  PROVE  /\ LaptopInv' /\ Grows
         /\ reply \in Replies /\ (reply = "ok" => c # Size[f])
<1>1. PICK end : end = IF Size[f] = 0 THEN 0 ELSE o + 1
  OBVIOUS
<1>2. end \in Nat /\ Size[f] \in Nat
  BY <1>1, QueueAssumption
<1>3. \/ UNCHANGED vars /\ reply \in {"refused", "conflict"}
      \/ ConfirmProgress(f, end) /\ end < Size[f] /\ reply = "ok" /\ c = end
      \/ BeginVerification(f) /\ reply = "held"
  BY <1>1 DEF Upload
<1>4. CASE UNCHANGED vars /\ reply \in {"refused", "conflict"}
  BY <1>4, LaptopRests DEF Replies
<1>5. CASE ConfirmProgress(f, end) /\ end < Size[f] /\ reply = "ok" /\ c = end
  <2>1. LaptopInv' /\ Grows
    BY <1>2, <1>5, FileConfirms DEF SentInv
  <2>2. QED
    BY <1>2, <1>5, <2>1 DEF Replies
<1>6. CASE BeginVerification(f) /\ reply = "held"
  BY <1>6, FileEnds DEF SentInv, Replies
<1>7. QED
  BY <1>3, <1>4, <1>5, <1>6

(* A run that waits for a PUT is at one of its files.                      *)
LEMMA RunsFile ==
  ASSUME SentInv, NEW t \in Transfers, run[t].pc \in FilePcs \/ request[t].reply \in {"asked", "held"}
  PROVE  /\ Current(t) \in FilesOf(t) /\ Current(t) \in Files
         /\ run[t].at \in 1..Count(t) /\ Position[Current(t)] = run[t].at
<1>1. RunOK(t, run[t], request[t]) /\ run[t] \in RunRecord
  BY DEF SentInv, RunsInv
<1>2. run[t].pc \in FilePcs
  BY <1>1 DEF RunOK, FilePcs
<1>3. run[t].at \in 1..Count(t)
  BY <1>1, <1>2, FilesByPosition DEF RunOK, RunRecord
<1>4. QED
  BY <1>3, FilesByPosition DEF Current, FilesOf

LEMMA AnswerPutSteps ==
  ASSUME SentInv, NEW t \in Transfers, AnswerPut(t)
  PROVE  SentInv'
<1>1. PICK f : f = Current(t)
  OBVIOUS
<1>2. f \in Files /\ Size[f] \in Nat /\ request[t] \in RequestRecord /\ request[t].at \in Nat
  BY <1>1, RunsFile, QueueAssumption DEF AnswerPut, SentInv, RunsInv, RequestRecord
<1>3. PICK reply \in Replies, c \in 0..Size[f] :
        /\ Upload(f, request[t].at, reply, c)
        /\ request' = [request EXCEPT ![t].reply = reply, ![t].confirmed = c]
  BY <1>1 DEF AnswerPut
<1>4. LaptopInv' /\ Grows /\ (reply = "ok" => c # Size[f]) /\ c \in Nat
  BY <1>2, <1>3, Uploaded
<1>5. Unmoved /\ UNCHANGED <<inbox, wire, late>>
  BY PhoneUnmoved DEF AnswerPut, Handled
<1>6. InboxInv' /\ NetworkInv'
  BY <1>4, <1>5, Rest, NetworkRests
<1>7. PICK q : q = [request[t] EXCEPT !.reply = reply, !.confirmed = c]
  OBVIOUS
<1>8. q \in RequestRecord /\ q.reply = reply /\ q.confirmed = c
  BY <1>2, <1>4, <1>7 DEF RequestRecord
<1>9. request' = [request EXCEPT ![t] = q]
  BY <1>3, <1>7
<1>10. RunsInv'
  <2>1. request' \in [Transfers -> RequestRecord]
    BY <1>8, <1>9 DEF SentInv, RunsInv
  <2>2. request'[t].reply = "ok" => request'[t].confirmed # Size[f]
    BY <1>4, <1>8, <1>9 DEF SentInv, RunsInv
  <2>3. \A u \in Transfers \ {t} : request'[u] = request[u]
    BY <1>9 DEF SentInv, RunsInv
  <2>4. UNCHANGED run
    BY <1>5 DEF Unmoved
  <2>5. QED
    BY <1>1, <1>4, <2>1, <2>2, <2>3, <2>4, RequestsMove DEF AnswerPut
<1>11. QED
  BY <1>4, <1>5, <1>6, <1>10, HandlerDone

LEMMA TakeLateSteps ==
  ASSUME SentInv, NEW p \in late, TakeLate(p)
  PROVE  SentInv'
<1>1. p.file \in Files /\ p.at \in Nat
  BY DEF SentInv, NetworkInv
<1>2. LaptopInv' /\ Grows
  BY <1>1, Uploaded DEF TakeLate
<1>3. Unmoved /\ UNCHANGED <<inbox, wire, request>>
  BY PhoneUnmoved DEF TakeLate, Handled
<1>4. InboxInv' /\ RunsInv'
  BY <1>2, <1>3, Rest DEF Unmoved
<1>5. NetworkInv'
  BY <1>3 DEF TakeLate, SentInv, NetworkInv
<1>6. QED
  BY <1>2, <1>3, <1>4, <1>5, HandlerDone

(* The end of a verification: what is said and replied is what it found.   *)
LEMMA OutcomeSteps ==
  ASSUME SentInv, NEW f \in Files, LaptopInv', Grows, NEW kind, NEW Replied,
         Outcome(f, kind, Replied),
         \/ kind = "complete" /\ Replied = {"ok"} /\ Done(f)'
         \/ kind = "failed" /\ Replied = {"refused", "lost"}
  PROVE  SentInv'
<1>1. PICK t : t = Owner[f]
  OBVIOUS
<1>2. t \in Transfers /\ Size[f] \in Nat
  BY <1>1, QueueAssumption
<1>3. Said(kind, f, Size[f]) \in GoodAnswers'
  BY <1>2 DEF Said, GoodAnswers
<1>4. PICK s : s = <<Said(kind, f, Size[f])>>
  OBVIOUS
<1>5. s \in Seq(GoodAnswers') /\ Publish(t, s)
  BY <1>1, <1>3, <1>4 DEF Outcome
<1>6. InboxInv'
  BY <1>2, <1>5, Published
<1>7. Unmoved /\ UNCHANGED <<wire, late>>
  BY PhoneUnmoved DEF Outcome
<1>8. NetworkInv'
  BY <1>7, NetworkRests
<1>9. PICK reply \in Replied :
        request' = IF request[t].reply = "held" /\ Current(t) = f
                   THEN [request EXCEPT ![t].reply = reply] ELSE request
  BY <1>1 DEF Outcome
<1>10. RunsInv'
  <2>1. UNCHANGED run
    BY <1>7 DEF Unmoved
  <2>2. CASE request[t].reply = "held" /\ Current(t) = f
    <3>0. reply \in {"ok", "refused", "lost"}
      BY <1>9
    <3>1. PICK q : q = [request[t] EXCEPT !.reply = reply]
      OBVIOUS
    <3>2. q \in RequestRecord /\ q.reply = reply
      BY <1>2, <3>0, <3>1 DEF SentInv, RunsInv, RequestRecord, Replies
    <3>3. request' = [request EXCEPT ![t] = q]
      BY <1>9, <2>2, <3>1
    <3>4. request' \in [Transfers -> RequestRecord]
      BY <3>2, <3>3 DEF SentInv, RunsInv
    <3>5. request'[t].reply = reply /\ \A u \in Transfers \ {t} : request'[u] = request[u]
      BY <1>2, <3>2, <3>3 DEF SentInv, RunsInv
    <3>6. reply \notin {"asked", "held"} /\ (reply = "ok" => Done(f)')
      BY <1>9
    <3>7. Done(f)' => Done(Current(t))'
      BY <2>1, <2>2 DEF Current
    <3>8. QED
      BY <2>1, <3>4, <3>5, <3>6, <3>7, RequestsMove
  <2>3. CASE ~(request[t].reply = "held" /\ Current(t) = f)
    BY <1>9, <2>1, <2>3, Rest
  <2>4. QED
    BY <2>2, <2>3
<1>11. QED
  BY <1>6, <1>7, <1>8, <1>10, HandlerDone

LEMMA VerificationSteps ==
  ASSUME SentInv, NEW f \in Files, VerifyEnds(f) \/ VerifyFails(f)
  PROVE  SentInv'
<1>1. CASE VerifyEnds(f)
  <2>1. LaptopInv' /\ Grows /\ Done(f)'
    BY <1>1, FileEnds, CompletedIsDone DEF VerifyEnds, SentInv
  <2>2. Outcome(f, "complete", {"ok"})
    BY <1>1 DEF VerifyEnds
  <2>3. QED
    BY <2>1, <2>2, OutcomeSteps
<1>2. CASE VerifyFails(f)
  <2>1. LaptopInv' /\ Grows
    BY <1>2, FileEnds DEF VerifyFails, SentInv
  <2>2. Outcome(f, "failed", {"refused", "lost"})
    BY <1>2 DEF VerifyFails
  <2>3. QED
    BY <2>1, <2>2, OutcomeSteps
<1>3. QED
  BY <1>1, <1>2

LEMMA FailLeavingSteps ==
  ASSUME SentInv, NEW f \in Files, FailLeaving(f)
  PROVE  SentInv'
<1>1. Unmoved /\ UNCHANGED <<wire, request, late>>
  BY PhoneUnmoved DEF FailLeaving
<1>2. LaptopInv' /\ Grows
  BY FileEnds, LaptopRests DEF FailLeaving, SentInv
<1>3. RunsInv' /\ NetworkInv'
  BY <1>1, <1>2, Rest, NetworkRests DEF Unmoved
<1>4. InboxInv'
  <2>1. CASE UNCHANGED inbox
    BY <1>2, <2>1, Rest
  <2>2. CASE Publish(Owner[f], <<Said("failed", f, 0)>>)
    <3>1. Said("failed", f, 0) \in GoodAnswers' /\ Owner[f] \in Transfers
      BY FailedSaid, QueueAssumption
    <3>2. PICK s : s = <<Said("failed", f, 0)>>
      OBVIOUS
    <3>3. s \in Seq(GoodAnswers')
      BY <3>1, <3>2
    <3>4. QED
      BY <1>2, <2>2, <3>1, <3>2, <3>3, Published
  <2>3. QED
    BY <2>1, <2>2 DEF FailLeaving
<1>5. QED
  BY <1>1, <1>2, <1>3, <1>4, HandlerDone

-----------------------------------------------------------------------------
(* The network                                                             *)

LEMMA PutLostSteps ==
  ASSUME SentInv, NEW t \in Transfers, PutLost(t)
  PROVE  SentInv'
<1>1. UNCHANGED vars /\ Unmoved /\ UNCHANGED <<inbox, wire>>
  BY PhoneUnmoved DEF PutLost, laptop
<1>2. LaptopInv' /\ Grows
  BY <1>1, LaptopRests
<1>3. InboxInv'
  BY <1>1, <1>2, Rest
<1>4. NetworkInv'
  <2>1. request[t].reply = "asked" => Current(t) \in Files
    BY RunsFile
  <2>2. request[t].at \in Nat
    BY DEF SentInv, RunsInv, RequestRecord
  <2>3. QED
    BY <1>1, <2>1, <2>2 DEF PutLost, SentInv, NetworkInv
<1>5. RunsInv'
  <2>1. PICK q : q = [request[t] EXCEPT !.reply = "lost"]
    OBVIOUS
  <2>2. q \in RequestRecord /\ q.reply = "lost"
    BY <2>1 DEF SentInv, RunsInv, RequestRecord
  <2>3. request' = [request EXCEPT ![t] = q]
    BY <2>1 DEF PutLost
  <2>4. /\ request' \in [Transfers -> RequestRecord] /\ request'[t].reply = "lost"
        /\ \A u \in Transfers \ {t} : request'[u] = request[u]
    BY <2>2, <2>3 DEF SentInv, RunsInv
  <2>5. QED
    BY <1>1, <1>2, <2>4, RequestsMove DEF Unmoved
<1>6. QED
  BY <1>1, <1>2, <1>3, <1>4, <1>5, HandlerDone

LEMMA NetworkLostSteps ==
  ASSUME SentInv, NetworkLost
  PROVE  SentInv'
<1>1. UNCHANGED vars /\ Unmoved /\ UNCHANGED <<inbox, request, late>>
  BY PhoneUnmoved DEF NetworkLost, laptop
<1>2. LaptopInv' /\ Grows
  BY <1>1, LaptopRests
<1>3. InboxInv' /\ RunsInv'
  BY <1>1, <1>2, Rest DEF Unmoved
<1>4. NetworkInv'
  <2>1. PICK S : wire' \in {wire, [t \in Transfers |-> IF t \in S THEN <<>> ELSE wire[t]]}
    BY DEF NetworkLost
  <2>2. \A t \in Transfers :
          <<>> \in Seq([kind : {"offer"}] \cup [kind : {"cancel"}, file : Files])
    OBVIOUS
  <2>3. QED
    BY <1>1, <2>1, <2>2 DEF SentInv, NetworkInv
<1>5. QED
  BY <1>1, <1>2, <1>3, <1>4, HandlerDone

-----------------------------------------------------------------------------
(* The phone: its own steps leave the laptop's queue alone                 *)

Frozen == UNCHANGED vars

LEMMA CopyChanges ==
  ASSUME NEW F, Copy(F), NEW f, NEW s \in PhoneFileStatus, f \in Files /\ s = "completed" => Done(f)
  PROVE  Copy([F EXCEPT ![f] = s])
BY DEF Copy

(* The files of one batch from one copy, the others from another.          *)
LEMMA CopyMixes ==
  ASSUME NEW F, Copy(F), NEW G, Copy(G), NEW t
  PROVE  Copy([f \in Files |-> IF Owner[f] = t THEN F[f] ELSE G[f]])
BY DEF Copy

LEMMA CopyCleared ==
  ASSUME NEW G, Copy(G), NEW t, NEW s \in PhoneFileStatus \ {"completed"}
  PROVE  Copy([f \in Files |-> IF Owner[f] = t THEN s ELSE G[f]])
BY DEF Copy

LEMMA CopyFails ==
  ASSUME NEW F, Copy(F)
  PROVE  Copy(Failed(F))
BY DEF Copy, Failed, PhoneFileStatus, PhoneTerminal

(* A copy is as good after the step as before it.                          *)
LEMMA StillCopies ==
  ASSUME Frozen, NEW F, Copy(F)
  PROVE  Copy(F)'
BY DEF Frozen, vars, Copy, Done

LEMMA StillReceived ==
  ASSUME Frozen
  PROVE  /\ \A t : Received(t)' <=> Received(t)
         /\ \A f : Done(f)' <=> Done(f)
         /\ GoodAnswers' = GoodAnswers
BY DEF Frozen, vars, Received, Done, GoodAnswers, FilesOf

LEMMA CopiesWritten ==
  ASSUME Frozen, NEW F, NEW G, Copy(F), Copy(G), local' = F, sending' = G
  PROVE  CopiesInv'
BY DEF Frozen, vars, CopiesInv, Copy, Done

LEMMA Written ==
  ASSUME SentInv, Frozen, NEW t, NEW F, Copy(F), NEW s \in PhoneBatchStatus,
         t \in Transfers /\ s = "completed" => Received(t), Write(t, F, s)
  PROVE  HistoryInv'
<1>1. Copy(stored) /\ BatchCopy(kept)
  BY DEF SentInv, HistoryInv
<1>2. PICK G : G = [f \in Files |-> IF Owner[f] = t THEN F[f] ELSE stored[f]]
  OBVIOUS
<1>3. Copy(G)
  BY <1>1, <1>2, CopyMixes
<1>4. stored' = G
  BY <1>2 DEF Write
<1>5. Copy(stored)'
  BY <1>3, <1>4, StillReceived DEF Copy
<1>6. PICK S : S = [kept EXCEPT ![t] = s]
  OBVIOUS
<1>7. BatchCopy(S)
  BY <1>1, <1>6 DEF BatchCopy
<1>8. kept' = S
  BY <1>6 DEF Write
<1>9. BatchCopy(kept)'
  BY <1>7, <1>8, StillReceived DEF BatchCopy
<1>10. QED
  BY <1>5, <1>9 DEF HistoryInv

(* A run moves: r is its record after the step, q its request.             *)
LEMMA RunMoves ==
  ASSUME SentInv, Frozen, NEW t \in Transfers, NEW r \in RunRecord, NEW q \in RequestRecord,
         RunOK(t, r, q), run' = [run EXCEPT ![t] = r], request' = [request EXCEPT ![t] = q]
  PROVE  RunsInv'
<1>1. /\ run' \in [Transfers -> RunRecord] /\ request' \in [Transfers -> RequestRecord]
      /\ run'[t] = r /\ request'[t] = q
      /\ \A u \in Transfers \ {t} : run'[u] = run[u] /\ request'[u] = request[u]
  BY DEF SentInv, RunsInv
<1>2. ASSUME NEW u \in Transfers
      PROVE  RunOK(u, run[u], request[u])'
  <2>1. PICK x, y : x = run'[u] /\ y = request'[u]
    OBVIOUS
  <2>2. RunOK(u, x, y)
    BY <1>1, <2>1 DEF SentInv, RunsInv
  <2>3. PICK f : f = FileAt(u, x.at)
    OBVIOUS
  <2>4. QED
    BY <2>1, <2>2, <2>3, StillReceived DEF RunOK, FilesOf, Count, FileAt
<1>3. QED
  BY <1>1, <1>2 DEF RunsInv

(* Away from its files a run claims nothing but its batch status.          *)
LEMMA NotAtAFile ==
  ASSUME NEW t \in Transfers, NEW r, NEW q, r.pc \notin FilePcs \cup {"file"},
         q.reply \notin {"asked", "held"}, r.status = "completed" => Received(t)
  PROVE  RunOK(t, r, q)
BY DEF RunOK, FilePcs

LEMMA NoRunOK ==
  ASSUME NEW t \in Transfers, NEW q \in RequestRecord, q.reply \notin {"asked", "held"}
  PROVE  /\ NoRun \in RunRecord /\ NoRequest \in RequestRecord
         /\ RunOK(t, NoRun, q) /\ RunOK(t, NoRun, NoRequest)
<1>1. NoRun \in RunRecord /\ NoRequest \in RequestRecord
  BY DEF NoRun, NoRequest, RunRecord, RequestRecord, RunPcs, PhoneBatchStatus
<1>2. NoRun.pc = "idle" /\ NoRun.status = "absent" /\ NoRequest.reply = "none"
  BY DEF NoRun, NoRequest
<1>3. RunOK(t, NoRun, q) /\ RunOK(t, NoRun, NoRequest)
  BY <1>2, NotAtAFile DEF FilePcs
<1>4. QED
  BY <1>1, <1>3

LEMMA FrozenLaptop ==
  ASSUME SentInv, Frozen
  PROVE  LaptopInv' /\ Grows
BY LaptopRests DEF Frozen

(* What a step of a run has to leave true.                                 *)
LEMMA RunStepDone ==
  ASSUME SentInv, Frozen, UNCHANGED <<cancelling, resuming>>,
         HistoryInv', CopiesInv', InboxInv', NetworkInv', RunsInv'
  PROVE  SentInv'
BY FrozenLaptop, Rest DEF SentInv

LEMMA OnPhoneFrozen ==
  ASSUME OnPhone
  PROVE  Frozen /\ UNCHANGED <<cancelling, resuming>>
BY DEF OnPhone, Frozen, laptop

LEMMA Untouched ==
  ASSUME SentInv, Frozen
  PROVE  /\ UNCHANGED history => HistoryInv'
         /\ UNCHANGED <<local, sending>> => CopiesInv'
         /\ UNCHANGED inbox => InboxInv'
         /\ UNCHANGED <<wire, late>> => NetworkInv'
         /\ UNCHANGED <<run, request>> => RunsInv'
         /\ UNCHANGED network => InboxInv' /\ NetworkInv' /\ UNCHANGED request
BY FrozenLaptop, Rest, NetworkRests DEF network

LEMMA InboxCleared ==
  ASSUME SentInv, Frozen, NEW t, inbox' = [inbox EXCEPT ![t] = <<>>]
  PROVE  InboxInv'
<1>1. inbox \in [Transfers -> Seq(GoodAnswers')] /\ <<>> \in Seq(GoodAnswers')
  BY StillReceived DEF SentInv, InboxInv
<1>2. QED
  BY <1>1 DEF InboxInv

LEMMA RequestOver ==
  ASSUME SentInv, NEW t \in Transfers, run[t].pc # "putting"
  PROVE  request[t].reply \notin {"asked", "held"}
BY DEF SentInv, RunsInv, RunOK

(* The request of a batch after its session is closed, left or opened.     *)
LEMMA SessionOver ==
  ASSUME SentInv, Frozen, NEW t \in Transfers, CloseSession(t) \/ Leak(t)
  PROVE  /\ InboxInv' /\ NetworkInv'
         /\ request[t].reply \notin {"asked", "held"} =>
              \E q \in RequestRecord :
                q.reply \notin {"asked", "held"} /\ request' = [request EXCEPT ![t] = q]
<1>1. InboxInv' /\ NetworkInv'
  BY InboxCleared, Untouched DEF CloseSession, Leak
<1>2. CASE CloseSession(t)
  BY <1>1, <1>2 DEF CloseSession, NoRequest, RequestRecord
<1>3. CASE Leak(t)
  <2>1. request[t] \in RequestRecord /\ request' = [request EXCEPT ![t] = request[t]]
    BY <1>3 DEF Leak, SentInv, RunsInv
  <2>2. QED
    BY <1>1, <2>1
<1>4. QED
  BY <1>2, <1>3

(* A run that ends leaves nothing behind.                                  *)
LEMMA RunEnds ==
  ASSUME SentInv, Frozen, NEW t \in Transfers, EndRun(t),
         request[t].reply \notin {"asked", "held"} \/ CloseSession(t),
         CloseSession(t) \/ Leak(t)
  PROVE  CopiesInv' /\ InboxInv' /\ NetworkInv' /\ RunsInv'
<1>1. CopiesInv'
  <2>1. PICK F : F = [f \in Files |-> IF Owner[f] = t THEN "absent" ELSE local[f]]
    OBVIOUS
  <2>2. PICK G : G = [f \in Files |-> IF Owner[f] = t THEN "absent" ELSE sending[f]]
    OBVIOUS
  <2>3. "absent" \in PhoneFileStatus \ {"completed"}
    BY DEF PhoneFileStatus
  <2>4. Copy(F) /\ Copy(G)
    BY <2>1, <2>2, <2>3, CopyCleared DEF SentInv, CopiesInv
  <2>5. QED
    BY <2>1, <2>2, <2>4, CopiesWritten DEF EndRun
<1>2. InboxInv' /\ NetworkInv'
  BY SessionOver
<1>3. run' = [run EXCEPT ![t] = NoRun]
  BY DEF EndRun
<1>4. CASE CloseSession(t)
  <2>1. request' = [request EXCEPT ![t] = NoRequest]
    BY <1>4 DEF CloseSession
  <2>2. NoRequest \in RequestRecord /\ NoRequest.reply = "none"
    BY DEF NoRequest, RequestRecord
  <2>3. NoRun \in RunRecord /\ RunOK(t, NoRun, NoRequest)
    BY <2>2, NoRunOK
  <2>4. QED
    BY <1>1, <1>2, <1>3, <2>1, <2>2, <2>3, RunMoves
<1>5. CASE ~CloseSession(t)
  <2>1. PICK q \in RequestRecord :
          q.reply \notin {"asked", "held"} /\ request' = [request EXCEPT ![t] = q]
    BY <1>5, SessionOver
  <2>2. NoRun \in RunRecord /\ RunOK(t, NoRun, q)
    BY <2>1, NoRunOK
  <2>3. QED
    BY <1>1, <1>2, <1>3, <2>1, <2>2, RunMoves
<1>6. QED
  BY <1>4, <1>5

(* An error writes that the files failed which had not come to their end.  *)
LEMMA FailureWritten ==
  ASSUME SentInv, Frozen, NEW t \in Transfers, Write(t, Failed(local), "failed")
  PROVE  HistoryInv'
<1>1. PICK F : F = Failed(local)
  OBVIOUS
<1>2. Copy(F)
  BY <1>1, CopyFails DEF SentInv, CopiesInv
<1>3. "failed" \in PhoneBatchStatus
  BY DEF PhoneBatchStatus, PhoneTerminal
<1>4. QED
  BY <1>1, <1>2, <1>3, Written

LEMMA FailPreparationSteps ==
  ASSUME SentInv, Frozen, UNCHANGED <<cancelling, resuming>>, NEW t \in Transfers,
         FailPreparation(t), run[t].pc # "putting"
  PROVE  SentInv'
<1>1. HistoryInv'
  BY FailureWritten DEF FailPreparation
<1>2. CopiesInv' /\ InboxInv' /\ NetworkInv' /\ RunsInv'
  BY RunEnds, RequestOver DEF FailPreparation
<1>3. QED
  BY <1>1, <1>2, RunStepDone

LEMMA AbortSendSteps ==
  ASSUME SentInv, Frozen, UNCHANGED <<cancelling, resuming>>, NEW t \in Transfers,
         AbortSend(t), request[t].reply \notin {"asked", "held"}
  PROVE  SentInv'
<1>1. HistoryInv' /\ CopiesInv'
  BY Untouched DEF AbortSend
<1>2. CloseSession(t) \/ Leak(t)
  BY DEF AbortSend
<1>3. InboxInv' /\ NetworkInv'
  BY <1>2, SessionOver
<1>4. PICK q \in RequestRecord :
        q.reply \notin {"asked", "held"} /\ request' = [request EXCEPT ![t] = q]
  BY <1>2, SessionOver
<1>5. PICK r : r = [run[t] EXCEPT !.pc = "undo"]
  OBVIOUS
<1>6. r \in RunRecord /\ r.pc = "undo" /\ r.status = run[t].status
  BY <1>5 DEF SentInv, RunsInv, RunRecord, RunPcs
<1>7. run[t].status = "completed" => Received(t)
  BY DEF SentInv, RunsInv, RunOK
<1>8. RunOK(t, r, q)
  BY <1>4, <1>6, <1>7, NotAtAFile DEF FilePcs
<1>9. run' = [run EXCEPT ![t] = r]
  BY <1>5 DEF AbortSend, Goto
<1>10. RunsInv'
  BY <1>4, <1>6, <1>8, <1>9, RunMoves
<1>11. QED
  BY <1>1, <1>3, <1>10, RunStepDone

LEMMA SendFailsSteps ==
  ASSUME SentInv, Frozen, UNCHANGED <<cancelling, resuming>>, NEW t \in Transfers,
         SendFails(t), request[t].reply \notin {"asked", "held"}
  PROVE  SentInv'
<1>1. CASE AbortSend(t)
  BY <1>1, AbortSendSteps
<1>2. CASE ~AbortSend(t)
  <2>1. Write(t, Failed(local), "failed") /\ CloseSession(t) /\ EndRun(t)
    BY <1>2 DEF SendFails
  <2>2. HistoryInv'
    BY <2>1, FailureWritten
  <2>3. CopiesInv' /\ InboxInv' /\ NetworkInv' /\ RunsInv'
    BY <2>1, RunEnds
  <2>4. QED
    BY <2>2, <2>3, RunStepDone
<1>3. QED
  BY <1>1, <1>2

-----------------------------------------------------------------------------
(* Preparation                                                             *)

LEMMA RunPrepares ==
  ASSUME SentInv, Frozen, NEW t \in Transfers, NEW r \in RunRecord,
         r.pc \notin FilePcs \cup {"file"}, r.status = "completed" => Received(t),
         run' = [run EXCEPT ![t] = r], run[t].pc # "putting", UNCHANGED request
  PROVE  RunsInv'
<1>1. PICK q : q = request[t]
  OBVIOUS
<1>2. q \in RequestRecord /\ q.reply \notin {"asked", "held"}
  BY <1>1, RequestOver DEF SentInv, RunsInv
<1>3. request' = [request EXCEPT ![t] = q]
  BY <1>1 DEF SentInv, RunsInv
<1>4. RunOK(t, r, q)
  BY <1>2, NotAtAFile
<1>5. QED
  BY <1>2, <1>3, <1>4, RunMoves

PreparingPcs == RunPcs \ (FilePcs \cup {"file"})

LEMMA RunGoes ==
  ASSUME SentInv, Frozen, NEW t \in Transfers, NEW pc \in PreparingPcs,
         Goto(t, pc), run[t].pc # "putting", UNCHANGED request
  PROVE  RunsInv'
<1>1. PICK r : r = [run[t] EXCEPT !.pc = pc]
  OBVIOUS
<1>2. r \in RunRecord /\ r.pc = pc /\ r.status = run[t].status
  BY <1>1 DEF SentInv, RunsInv, RunRecord, PreparingPcs
<1>3. run[t].status = "completed" => Received(t)
  BY DEF SentInv, RunsInv, RunOK
<1>4. run' = [run EXCEPT ![t] = r]
  BY <1>1 DEF Goto
<1>5. QED
  BY <1>2, <1>3, <1>4, RunPrepares DEF PreparingPcs

(* The status a run writes is as good as the copy it writes.               *)
LEMMA RunStatus ==
  ASSUME SentInv, NEW t \in Transfers
  PROVE  /\ run[t].status \in PhoneBatchStatus
         /\ run[t].status = "completed" => Received(t)
BY DEF SentInv, RunsInv, RunOK, RunRecord

(* A preparing run puts file f of its copy at s and writes the batch.      *)
LEMMA LocalWritten ==
  ASSUME SentInv, Frozen, NEW t \in Transfers, NEW f, NEW s \in PhoneFileStatus,
         f \in Files /\ s = "completed" => Done(f),
         local' = [local EXCEPT ![f] = s], sending' = sending,
         Write(t, local', run[t].status)
  PROVE  HistoryInv' /\ CopiesInv'
<1>1. PICK F : F = [local EXCEPT ![f] = s]
  OBVIOUS
<1>2. Copy(F) /\ Copy(sending)
  BY <1>1, CopyChanges DEF SentInv, CopiesInv
<1>3. local' = F /\ Write(t, F, run[t].status)
  BY <1>1
<1>4. HistoryInv'
  BY <1>2, <1>3, RunStatus, Written
<1>5. CopiesInv'
  BY <1>2, <1>3, CopiesWritten
<1>6. QED
  BY <1>4, <1>5

LEMMA ConnectSteps ==
  ASSUME SentInv, NEW t \in Transfers, Connects(t) \/ ConnectFails(t)
  PROVE  SentInv'
<1>1. CASE Connects(t)
  <2>1. Frozen /\ UNCHANGED <<history, local, sending, wire, late, cancelling, resuming>>
    BY <1>1 DEF Connects, Opened, Frozen
  <2>2. HistoryInv' /\ CopiesInv' /\ NetworkInv'
    BY <2>1, Untouched
  <2>3. InboxInv'
    BY <1>1, <2>1, InboxCleared DEF Connects, Opened
  <2>4. PICK r : r = [run[t] EXCEPT !.pc = "prepare"]
    OBVIOUS
  <2>5. r \in RunRecord /\ r.pc = "prepare" /\ r.status = run[t].status
    BY <2>4 DEF SentInv, RunsInv, RunRecord, RunPcs
  <2>6. NoRequest \in RequestRecord /\ NoRequest.reply = "none"
    BY DEF NoRequest, RequestRecord
  <2>7. RunOK(t, r, NoRequest)
    BY <2>5, <2>6, RunStatus, NotAtAFile DEF FilePcs
  <2>8. run' = [run EXCEPT ![t] = r] /\ request' = [request EXCEPT ![t] = NoRequest]
    BY <1>1, <2>4 DEF Connects, Goto, Opened
  <2>9. RunsInv'
    BY <2>1, <2>5, <2>6, <2>7, <2>8, RunMoves
  <2>10. QED
    BY <2>1, <2>2, <2>3, <2>9, RunStepDone
<1>2. CASE ConnectFails(t)
  <2>1. Frozen /\ UNCHANGED <<cancelling, resuming>>
    BY <1>2 DEF ConnectFails, Frozen, laptop
  <2>2. FailPreparation(t) /\ run[t].pc # "putting"
    BY <1>2 DEF ConnectFails, At
  <2>3. QED
    BY <2>1, <2>2, FailPreparationSteps
<1>3. QED
  BY <1>1, <1>2

LEMMA NextSourceLeast ==
  ASSUME SentInv, NEW t \in Transfers, NextSource(t) # {}
  PROVE  First(NextSource(t)) \in Nat
<1>1. run[t].at \in Nat /\ Count(t) \in Nat
  BY FilesByPosition DEF SentInv, RunsInv, RunRecord
<1>2. NextSource(t) \subseteq Nat
  BY <1>1 DEF NextSource
<1>3. QED
  BY <1>2, FirstIsLeast

LEMMA PrepareFileSteps ==
  ASSUME SentInv, NEW t \in Transfers, PrepareFile(t)
  PROVE  SentInv'
<1>1. Frozen /\ UNCHANGED <<cancelling, resuming>>
  BY OnPhoneFrozen DEF PrepareFile
<1>2. InboxInv' /\ NetworkInv' /\ UNCHANGED request /\ sending' = sending
  BY <1>1, Untouched DEF PrepareFile
<1>3. run[t].pc # "putting" /\ NextSource(t) # {}
  BY DEF PrepareFile, At
<1>4. PICK f : f = FileAt(t, First(NextSource(t)))
  OBVIOUS
<1>5. CASE f \in cancelled
  <2>1. Goto(t, "undo") /\ UNCHANGED <<history, local>>
    BY <1>4, <1>5 DEF PrepareFile, Goto
  <2>2. HistoryInv' /\ CopiesInv'
    BY <1>1, <1>2, <2>1, Untouched
  <2>3. RunsInv'
    BY <1>1, <1>2, <1>3, <2>1, RunGoes DEF PreparingPcs, RunPcs, FilePcs
  <2>4. QED
    BY <1>1, <1>2, <2>2, <2>3, RunStepDone
<1>6. CASE f \notin cancelled
  <2>1. PICK i : i = First(NextSource(t))
    OBVIOUS
  <2>2. PICK r : r = [run[t] EXCEPT !.pc = "probe", !.at = i]
    OBVIOUS
  <2>3. r \in RunRecord /\ r.pc = "probe" /\ r.status = run[t].status
    BY <1>3, <2>1, <2>2, NextSourceLeast DEF SentInv, RunsInv, RunRecord, RunPcs
  <2>4. run' = [run EXCEPT ![t] = r]
    BY <1>4, <1>6, <2>1, <2>2 DEF PrepareFile
  <2>5. RunsInv'
    BY <1>1, <1>2, <1>3, <2>3, <2>4, RunStatus, RunPrepares DEF FilePcs
  <2>6. PICK s : s = IF local[f] = "active" THEN "connecting" ELSE local[f]
    OBVIOUS
  <2>7. local' = [local EXCEPT ![f] = s] /\ Write(t, local', run[t].status)
    BY <1>4, <1>6, <2>6 DEF PrepareFile
  <2>8. CASE f \in Files
    <3>1. s \in PhoneFileStatus /\ (s = "completed" => Done(f))
      BY <2>6, <2>8 DEF SentInv, CopiesInv, Copy, PhoneFileStatus
    <3>2. HistoryInv' /\ CopiesInv'
      BY <1>1, <1>2, <2>7, <3>1, LocalWritten
    <3>3. QED
      BY <1>1, <1>2, <2>5, <3>2, RunStepDone
  <2>9. CASE f \notin Files
    <3>1. local' = local /\ Copy(local)
      BY <2>7, <2>9 DEF SentInv, CopiesInv, Copy
    <3>2. HistoryInv'
      BY <1>1, <2>7, <3>1, RunStatus, Written
    <3>3. CopiesInv'
      BY <1>1, <1>2, <3>1, Untouched
    <3>4. QED
      BY <1>1, <1>2, <2>5, <3>2, <3>3, RunStepDone
  <2>10. QED
    BY <2>8, <2>9
<1>7. QED
  BY <1>5, <1>6

(* The steps that move a run on within its preparation.                    *)
LEMMA ProbeSteps ==
  ASSUME SentInv, NEW t \in Transfers,
         \/ Probe(t) \/ ProbeMissing(t) \/ FilePrepared(t)
         \/ PreparationCancelled(t) \/ FileSaved(t)
  PROVE  SentInv'
<1>1. Frozen /\ UNCHANGED <<cancelling, resuming>> /\ UNCHANGED network
  BY OnPhoneFrozen DEF Probe, ProbeMissing, FilePrepared, PreparationCancelled, FileSaved
<1>2. InboxInv' /\ NetworkInv' /\ UNCHANGED request
  BY <1>1, Untouched
<1>3. RunsInv'
  <2>1. PICK pc \in PreparingPcs : Goto(t, pc)
    <3>1. {"probed", "prepare", "saved", "undo"} \subseteq PreparingPcs
      BY DEF PreparingPcs, RunPcs, FilePcs
    <3>2. QED
      BY <3>1 DEF Probe, ProbeMissing, FilePrepared, PreparationCancelled, FileSaved
  <2>2. run[t].pc # "putting"
    BY DEF Probe, ProbeMissing, FilePrepared, PreparationCancelled, FileSaved, At
  <2>3. QED
    BY <1>1, <1>2, <2>1, <2>2, RunGoes
<1>4. HistoryInv' /\ CopiesInv'
  <2>1. CASE Probe(t)
    <3>1. UNCHANGED <<local, sending>> /\ Write(t, local, run[t].status) /\ Copy(local)
      BY <2>1 DEF Probe, SentInv, CopiesInv
    <3>2. QED
      BY <1>1, <3>1, RunStatus, Written, Untouched
  <2>2. CASE ProbeMissing(t) \/ FilePrepared(t)
    <3>1. PICK f : f = Current(t)
      OBVIOUS
    <3>2. PICK s \in {"waiting", "queued"} :
            local' = [local EXCEPT ![f] = s] /\ Write(t, local', run[t].status)
      BY <2>2, <3>1 DEF ProbeMissing, FilePrepared
    <3>3. s \in PhoneFileStatus /\ s # "completed"
      BY DEF PhoneFileStatus
    <3>4. sending' = sending
      BY <2>2 DEF ProbeMissing, FilePrepared
    <3>5. QED
      BY <1>1, <3>2, <3>3, <3>4, LocalWritten
  <2>3. CASE PreparationCancelled(t) \/ FileSaved(t)
    BY <1>1, <2>3, Untouched DEF PreparationCancelled, FileSaved
  <2>4. QED
    BY <2>1, <2>2, <2>3
<1>5. QED
  BY <1>1, <1>2, <1>3, <1>4, RunStepDone

LEMMA ProbeFailsSteps ==
  ASSUME SentInv, NEW t \in Transfers, ProbeFails(t)
  PROVE  SentInv'
<1>1. Frozen /\ UNCHANGED <<cancelling, resuming>>
  BY DEF ProbeFails, Frozen, laptop
<1>2. FailPreparation(t) /\ run[t].pc # "putting"
  BY DEF ProbeFails, At
<1>3. QED
  BY <1>1, <1>2, FailPreparationSteps

(* A preparation that waits for a source, and one that was undone.         *)
LEMMA PreparationEnds ==
  ASSUME SentInv, NEW t \in Transfers, Blocked(t) \/ Undone(t)
  PROVE  SentInv'
<1>1. Frozen /\ UNCHANGED <<cancelling, resuming>>
  BY OnPhoneFrozen DEF Blocked, Undone
<1>2. EndRun(t) /\ Leak(t) /\ run[t].pc # "putting"
  BY DEF Blocked, Undone, At
<1>3. CopiesInv' /\ InboxInv' /\ NetworkInv' /\ RunsInv'
  BY <1>1, <1>2, RequestOver, RunEnds
<1>4. HistoryInv'
  <2>1. CASE Blocked(t)
    <3>1. Write(t, local, "waiting") /\ Copy(local) /\ "waiting" \in PhoneBatchStatus
      BY <2>1 DEF Blocked, SentInv, CopiesInv, PhoneBatchStatus
    <3>2. QED
      BY <1>1, <3>1, Written
  <2>2. CASE Undone(t)
    BY <1>1, <2>2, Untouched DEF Undone
  <2>3. QED
    BY <2>1, <2>2
<1>5. QED
  BY <1>1, <1>3, <1>4, RunStepDone

LEMMA PreparedSteps ==
  ASSUME SentInv, NEW t \in Transfers, Prepared(t)
  PROVE  SentInv'
<1>1. Frozen /\ UNCHANGED <<cancelling, resuming>> /\ UNCHANGED network
  BY OnPhoneFrozen DEF Prepared
<1>2. InboxInv' /\ NetworkInv' /\ UNCHANGED request
  BY <1>1, Untouched
<1>3. PICK r : r = [run[t] EXCEPT !.pc = "turn", !.at = 0, !.status = "queued"]
  OBVIOUS
<1>4. r \in RunRecord /\ r.pc = "turn" /\ r.status = "queued"
  BY <1>3 DEF SentInv, RunsInv, RunRecord, RunPcs, PhoneBatchStatus
<1>5. run' = [run EXCEPT ![t] = r] /\ run[t].pc # "putting"
  BY <1>3 DEF Prepared, At
<1>6. RunsInv'
  BY <1>1, <1>2, <1>4, <1>5, RunPrepares DEF FilePcs
<1>7. UNCHANGED <<local, sending>> /\ Write(t, local, "queued") /\ Copy(local)
  BY DEF Prepared, SentInv, CopiesInv
<1>8. HistoryInv' /\ CopiesInv'
  BY <1>1, <1>7, Written, Untouched DEF PhoneBatchStatus
<1>9. QED
  BY <1>1, <1>2, <1>6, <1>8, RunStepDone

(* A cancelled preparation goes on with the batch as it is stored.         *)
LEMMA UndoSteps ==
  ASSUME SentInv, NEW t \in Transfers, Undo(t)
  PROVE  SentInv'
<1>1. Frozen /\ UNCHANGED <<cancelling, resuming>> /\ UNCHANGED network
  BY OnPhoneFrozen DEF Undo
<1>2. InboxInv' /\ NetworkInv' /\ UNCHANGED request /\ HistoryInv'
  BY <1>1, Untouched DEF Undo
<1>3. PICK r : r = [run[t] EXCEPT !.pc = "undone", !.at = 0, !.status = kept[t]]
  OBVIOUS
<1>4. kept[t] \in PhoneBatchStatus /\ (kept[t] = "completed" => Received(t))
  BY DEF SentInv, HistoryInv, BatchCopy
<1>5. r \in RunRecord /\ r.pc = "undone" /\ r.status = kept[t]
  BY <1>3, <1>4 DEF SentInv, RunsInv, RunRecord, RunPcs
<1>6. run' = [run EXCEPT ![t] = r] /\ run[t].pc # "putting"
  BY <1>3 DEF Undo, At
<1>7. RunsInv'
  BY <1>1, <1>2, <1>4, <1>5, <1>6, RunPrepares DEF FilePcs
<1>8. PICK F : F = [f \in Files |-> IF Owner[f] = t THEN stored[f] ELSE local[f]]
  OBVIOUS
<1>9. Copy(F) /\ Copy(sending)
  BY <1>8, CopyMixes DEF SentInv, CopiesInv, HistoryInv
<1>10. local' = F /\ sending' = sending
  BY <1>8 DEF Undo
<1>11. CopiesInv'
  BY <1>1, <1>9, <1>10, CopiesWritten
<1>12. QED
  BY <1>1, <1>2, <1>7, <1>11, RunStepDone

LEMMA UndoFileSteps ==
  ASSUME SentInv, NEW t \in Transfers, UndoFile(t)
  PROVE  SentInv'
<1>1. Frozen /\ UNCHANGED <<cancelling, resuming>> /\ UNCHANGED network
  BY OnPhoneFrozen DEF UndoFile
<1>2. InboxInv' /\ NetworkInv' /\ UNCHANGED request /\ CopiesInv'
  BY <1>1, Untouched DEF UndoFile
<1>3. PICK i : i = First(NextSource(t))
  OBVIOUS
<1>4. i \in Nat
  BY <1>3, NextSourceLeast DEF UndoFile
<1>5. PICK r : r = [run[t] EXCEPT !.at = i]
  OBVIOUS
<1>6. r \in RunRecord /\ r.pc = run[t].pc /\ r.status = run[t].status
  BY <1>4, <1>5 DEF SentInv, RunsInv, RunRecord
<1>7. run' = [run EXCEPT ![t] = r] /\ run[t].pc = "undone"
  BY <1>3, <1>5 DEF UndoFile, At
<1>8. RunsInv'
  BY <1>1, <1>2, <1>6, <1>7, RunStatus, RunPrepares DEF FilePcs
<1>9. PICK F : F = [local EXCEPT ![FileAt(t, i)] = "cancelled"]
  OBVIOUS
<1>10. Copy(F)
  <2>1. "cancelled" \in PhoneFileStatus /\ Copy(local)
    BY DEF PhoneFileStatus, PhoneTerminal, SentInv, CopiesInv
  <2>2. QED
    BY <1>9, <2>1, CopyChanges
<1>11. PICK s : s = PhoneBatchOf(t, F)
  OBVIOUS
<1>12. s \in PhoneBatchStatus /\ (s = "completed" => Received(t))
  BY <1>10, <1>11, BatchStatusType, CompletedBatch
<1>13. Write(t, F, s)
  BY <1>3, <1>9, <1>11 DEF UndoFile
<1>14. HistoryInv'
  BY <1>1, <1>10, <1>12, <1>13, Written
<1>15. QED
  BY <1>1, <1>2, <1>8, <1>14, RunStepDone

LEMMA PrepareSteps ==
  ASSUME SentInv, NEW t \in Transfers, PrepareStep(t)
  PROVE  SentInv'
BY ConnectSteps, PrepareFileSteps, ProbeSteps, PreparationEnds, PreparedSteps,
   UndoSteps, UndoFileSteps DEF PrepareStep

-----------------------------------------------------------------------------
(* Sending                                                                 *)

(* A run goes on with the file it is at.                                   *)
LEMMA SameFile ==
  ASSUME SentInv, NEW t \in Transfers, NEW r, NEW q,
         run[t].pc \in FilePcs \/ (run[t].pc = "file" /\ run[t].at <= Count(t)),
         r.pc \in FilePcs, r.at = run[t].at, r.status = run[t].status,
         q.reply \in {"asked", "held"} => r.pc = "putting",
         r.pc = "sent" => Done(Current(t)),
         r.pc = "put" => r.offset # Size[Current(t)] \/ Size[Current(t)] = 0,
         r.pc = "putting" /\ q.reply = "ok" =>
           q.confirmed # Size[Current(t)] \/ Done(Current(t))
  PROVE  RunOK(t, r, q)
<1>1. RunOK(t, run[t], request[t])
  BY DEF SentInv, RunsInv
<1>2. FileAt(t, r.at) = Current(t)
  BY DEF Current
<1>3. PICK f : f = Current(t)
  OBVIOUS
<1>4. QED
  BY <1>1, <1>2, <1>3 DEF RunOK

(* The file a run is at is done: the run goes on with the next one.        *)
LEMMA NextFile ==
  ASSUME SentInv, NEW t \in Transfers, NEW r, NEW q, run[t].pc \in FilePcs \cup {"file"},
         run[t].at \in 1..Count(t), Done(Current(t)),
         r.pc = "file", r.at = run[t].at + 1, r.status = run[t].status,
         q.reply \notin {"asked", "held"}
  PROVE  RunOK(t, r, q)
<1>1. /\ \A g \in FilesOf(t) : Position[g] < run[t].at => Done(g)
      /\ run[t].status = "completed" => Received(t)
  BY DEF SentInv, RunsInv, RunOK
<1>2. ASSUME NEW g \in FilesOf(t), Position[g] < r.at
      PROVE  Done(g)
  <2>1. Position[g] \in Nat /\ run[t].at \in Nat
    BY FilesByPosition
  <2>2. CASE Position[g] = run[t].at
    <3>1. g = Current(t)
      BY <2>2, FilesByPosition DEF Current
    <3>2. QED
      BY <3>1
  <2>3. CASE Position[g] # run[t].at
    <3>1. Position[g] < run[t].at
      BY <1>2, <2>1, <2>3
    <3>2. QED
      BY <1>1, <3>1
  <2>4. QED
    BY <2>2, <2>3
<1>3. r.at > 0
  OBVIOUS
<1>4. QED
  BY <1>1, <1>2, <1>3 DEF RunOK, FilePcs

(* Sending writes the status of one file into the copy it sends by.        *)
LEMMA Replaced ==
  ASSUME SentInv, Frozen, NEW t \in Transfers, NEW f, NEW s \in PhoneFileStatus,
         f \in Files /\ s = "completed" => Done(f), Replace(t, f, s), local' = local
  PROVE  HistoryInv' /\ CopiesInv'
<1>1. PICK F : F = [sending EXCEPT ![f] = s]
  OBVIOUS
<1>2. Copy(F) /\ Copy(local)
  BY <1>1, CopyChanges DEF SentInv, CopiesInv
<1>3. sending' = F /\ Write(t, F, run[t].status)
  BY <1>1 DEF Replace
<1>4. HistoryInv'
  BY <1>2, <1>3, RunStatus, Written
<1>5. CopiesInv'
  BY <1>2, <1>3, CopiesWritten
<1>6. QED
  BY <1>4, <1>5

ControlMessages == [kind : {"offer"}] \cup [kind : {"cancel"}, file : Files]

LEMMA ControlsSent ==
  ASSUME SentInv, NEW t, NEW m \in ControlMessages, Controls(t, <<m>>)
  PROVE  wire' \in [Transfers -> Seq(ControlMessages)]
<1>1. wire \in [Transfers -> Seq(ControlMessages)]
  BY DEF SentInv, NetworkInv, ControlMessages
<1>2. PICK w : w = IF session[t] = "up" THEN wire[t] \o <<m>> ELSE wire[t]
  OBVIOUS
<1>3. wire' = [wire EXCEPT ![t] = w]
  BY <1>2 DEF Controls
<1>4. t \in Transfers => w \in Seq(ControlMessages)
  BY <1>1, <1>2
<1>5. QED
  BY <1>1, <1>3, <1>4

LEMMA TakeTurnSteps ==
  ASSUME SentInv, NEW t \in Transfers, TakeTurn(t)
  PROVE  SentInv'
<1>1. Frozen /\ UNCHANGED <<cancelling, resuming>> /\ UNCHANGED network
  BY OnPhoneFrozen DEF TakeTurn
<1>2. InboxInv' /\ NetworkInv' /\ UNCHANGED request
  BY <1>1, Untouched
<1>3. PICK r : r = [run[t] EXCEPT !.pc = "offer", !.status = "active"]
  OBVIOUS
<1>4. r \in RunRecord /\ r.pc = "offer" /\ r.status = "active"
  BY <1>3 DEF SentInv, RunsInv, RunRecord, RunPcs, PhoneBatchStatus
<1>5. run' = [run EXCEPT ![t] = r] /\ run[t].pc # "putting"
  BY <1>3 DEF TakeTurn, At
<1>6. RunsInv'
  BY <1>1, <1>2, <1>4, <1>5, RunPrepares DEF FilePcs
<1>7. PICK F : F = [f \in Files |-> IF Owner[f] # t THEN sending[f]
                                    ELSE IF Position[f] = 1 THEN "connecting" ELSE local[f]]
  OBVIOUS
<1>8. Copy(F) /\ Copy(local)
  BY <1>7 DEF SentInv, CopiesInv, Copy, PhoneFileStatus
<1>9. sending' = F /\ local' = local /\ Write(t, F, "active")
  BY <1>7 DEF TakeTurn
<1>10. HistoryInv' /\ CopiesInv'
  BY <1>1, <1>8, <1>9, Written, CopiesWritten DEF PhoneBatchStatus
<1>11. QED
  BY <1>1, <1>2, <1>6, <1>10, RunStepDone

LEMMA SendOfferSteps ==
  ASSUME SentInv, NEW t \in Transfers, SendOffer(t)
  PROVE  SentInv'
<1>1. Frozen /\ UNCHANGED <<cancelling, resuming>>
  BY OnPhoneFrozen DEF SendOffer
<1>2. UNCHANGED <<local, sending, inbox, request, late>>
  BY DEF SendOffer
<1>3. CopiesInv' /\ InboxInv'
  BY <1>1, <1>2, Untouched
<1>4. HistoryInv'
  BY <1>1, Written DEF SendOffer, SentInv, CopiesInv, PhoneBatchStatus
<1>5. NetworkInv'
  <2>1. Offer \in ControlMessages
    BY DEF Offer, ControlMessages
  <2>2. wire' \in [Transfers -> Seq(ControlMessages)]
    BY <2>1, ControlsSent DEF SendOffer
  <2>3. QED
    BY <1>2, <2>2 DEF SentInv, NetworkInv, ControlMessages
<1>6. RunsInv'
  <2>1. PICK r : r = [run[t] EXCEPT !.pc = "file", !.at = 1]
    OBVIOUS
  <2>2. r \in RunRecord /\ r.pc = "file" /\ r.at = 1 /\ r.status = run[t].status
    BY <2>1 DEF SentInv, RunsInv, RunRecord, RunPcs
  <2>3. run' = [run EXCEPT ![t] = r] /\ run[t].pc # "putting"
    BY <2>1 DEF SendOffer, At
  <2>4. PICK q : q = request[t]
    OBVIOUS
  <2>5. /\ q \in RequestRecord /\ q.reply \notin {"asked", "held"}
        /\ request' = [request EXCEPT ![t] = q]
    BY <1>2, <2>3, <2>4, RequestOver DEF SentInv, RunsInv
  <2>6. \A g \in FilesOf(t) : ~(Position[g] < 1)
    BY FilesByPosition
  <2>7. RunOK(t, r, q)
    BY <2>2, <2>5, <2>6, RunStatus DEF RunOK, FilePcs
  <2>8. QED
    BY <1>1, <2>2, <2>3, <2>5, <2>7, RunMoves
<1>7. QED
  BY <1>1, <1>3, <1>4, <1>5, <1>6, RunStepDone

LEMMA BeginFileSteps ==
  ASSUME SentInv, NEW t \in Transfers, BeginFile(t)
  PROVE  SentInv'
<1>1. Frozen /\ UNCHANGED <<cancelling, resuming>>
  BY OnPhoneFrozen DEF BeginFile
<1>2. run[t].pc = "file" /\ run[t].at <= Count(t)
  BY DEF BeginFile, At
<1>3. run[t].at \in 1..Count(t)
  <2>1. run[t].at \in Nat /\ run[t].at > 0
    BY <1>2 DEF SentInv, RunsInv, RunOK, RunRecord
  <2>2. QED
    BY <1>2, <2>1, FilesByPosition
<1>4. PICK f : f = Current(t)
  OBVIOUS
<1>5. f \in Files
  BY <1>3, <1>4, FilesByPosition DEF Current, FilesOf
<1>6. request[t].reply \notin {"asked", "held"}
  BY <1>2, RequestOver
<1>7. PICK q : q = request[t]
  OBVIOUS
<1>8. q \in RequestRecord /\ q.reply \notin {"asked", "held"}
  BY <1>6, <1>7 DEF SentInv, RunsInv
<1>9. CASE sending[f] = "completed"
  <2>1. UNCHANGED <<history, local, sending>> /\ UNCHANGED network
    BY <1>4, <1>9 DEF BeginFile
  <2>2. HistoryInv' /\ CopiesInv' /\ InboxInv' /\ NetworkInv' /\ UNCHANGED request
    BY <1>1, <2>1, Untouched
  <2>3. PICK r : r = [run[t] EXCEPT !.at = @ + 1]
    OBVIOUS
  <2>4. r \in RunRecord /\ r.pc = "file" /\ r.at = run[t].at + 1 /\ r.status = run[t].status
    BY <1>2, <2>3 DEF SentInv, RunsInv, RunRecord
  <2>5. Done(Current(t))
    BY <1>4, <1>5, <1>9 DEF SentInv, CopiesInv, Copy
  <2>6. RunOK(t, r, q)
    BY <1>2, <1>3, <1>8, <2>4, <2>5, NextFile
  <2>7. run' = [run EXCEPT ![t] = r] /\ request' = [request EXCEPT ![t] = q]
    BY <1>4, <1>7, <1>9, <2>2, <2>3 DEF BeginFile, SentInv, RunsInv
  <2>8. RunsInv'
    BY <1>1, <1>8, <2>4, <2>6, <2>7, RunMoves
  <2>9. QED
    BY <1>1, <2>2, <2>8, RunStepDone
<1>10. CASE sending[f] # "completed" /\ f \in cancelled
  <2>1. AbortSend(t)
    BY <1>4, <1>10 DEF BeginFile
  <2>2. QED
    BY <1>1, <1>6, <2>1, AbortSendSteps
<1>11. CASE sending[f] # "completed" /\ f \notin cancelled
  <2>1. Goto(t, "handle") /\ Replace(t, f, "connecting") /\ UNCHANGED local /\ UNCHANGED network
    BY <1>4, <1>11 DEF BeginFile
  <2>2. InboxInv' /\ NetworkInv' /\ UNCHANGED request
    BY <1>1, <2>1, Untouched
  <2>3. "connecting" \in PhoneFileStatus
    BY DEF PhoneFileStatus
  <2>4. HistoryInv' /\ CopiesInv'
    BY <1>1, <2>1, <2>3, Replaced
  <2>5. PICK r : r = [run[t] EXCEPT !.pc = "handle"]
    OBVIOUS
  <2>6. r \in RunRecord /\ r.pc = "handle" /\ r.at = run[t].at /\ r.status = run[t].status
    BY <2>5 DEF SentInv, RunsInv, RunRecord, RunPcs, FilePcs
  <2>7. RunOK(t, r, q)
    BY <1>2, <1>8, <2>6, SameFile DEF FilePcs
  <2>8. run' = [run EXCEPT ![t] = r] /\ request' = [request EXCEPT ![t] = q]
    BY <1>7, <2>1, <2>2, <2>5 DEF Goto, SentInv, RunsInv
  <2>9. RunsInv'
    BY <1>1, <1>8, <2>6, <2>7, <2>8, RunMoves
  <2>10. QED
    BY <1>1, <2>2, <2>4, <2>9, RunStepDone
<1>12. QED
  BY <1>9, <1>10, <1>11

LEMMA HandleSteps ==
  ASSUME SentInv, NEW t \in Transfers, Handle(t)
  PROVE  SentInv'
<1>1. Frozen /\ UNCHANGED <<cancelling, resuming>> /\ UNCHANGED network
  BY OnPhoneFrozen DEF Handle
<1>2. InboxInv' /\ NetworkInv' /\ UNCHANGED request
  BY <1>1, Untouched
<1>3. "active" \in PhoneFileStatus /\ Replace(t, Current(t), "active") /\ UNCHANGED local
  BY DEF Handle, PhoneFileStatus
<1>4. HistoryInv' /\ CopiesInv'
  BY <1>1, <1>3, Replaced
<1>5. PICK q : q = request[t]
  OBVIOUS
<1>6. run[t].pc = "handle"
  BY DEF Handle, At
<1>7. q \in RequestRecord /\ q.reply \notin {"asked", "held"}
  BY <1>5, <1>6, RequestOver DEF SentInv, RunsInv
<1>8. PICK r : r = [run[t] EXCEPT !.pc = "accept", !.tries = Attempts, !.puts = Attempts,
                                  !.first = TRUE, !.terminalOnly = FALSE, !.swap = FALSE]
  OBVIOUS
<1>9. r \in RunRecord /\ r.pc = "accept" /\ r.at = run[t].at /\ r.status = run[t].status
  <2>1. run[t] \in RunRecord /\ Attempts \in Int
    BY SenderAssumption DEF SentInv, RunsInv
  <2>2. "accept" \in RunPcs
    BY DEF RunPcs, FilePcs
  <2>3. QED
    BY <1>8, <2>1, <2>2 DEF RunRecord
<1>10. RunOK(t, r, q)
  BY <1>6, <1>7, <1>9, SameFile DEF FilePcs
<1>11. run' = [run EXCEPT ![t] = r] /\ request' = [request EXCEPT ![t] = q]
  BY <1>2, <1>5, <1>8 DEF Handle, SentInv, RunsInv
<1>12. RunsInv'
  BY <1>1, <1>7, <1>9, <1>10, <1>11, RunMoves
<1>13. QED
  BY <1>1, <1>2, <1>4, <1>12, RunStepDone

(* What a run finds in its inbox is about its file, and good.              *)
LEMMA AnswerFound ==
  ASSUME SentInv, NEW t \in Transfers, Answers(t) # {}
  PROVE  /\ First(Answers(t)) \in DOMAIN inbox[t]
         /\ inbox[t][First(Answers(t))] \in GoodAnswers
         /\ inbox[t][First(Answers(t))].file = Current(t)
         /\ RemoveAt(inbox[t], First(Answers(t))) \in Seq(GoodAnswers)
<1>1. PICK s : s = inbox[t]
  OBVIOUS
<1>2. s \in Seq(GoodAnswers)
  BY <1>1 DEF SentInv, InboxInv
<1>3. DOMAIN s = 1..Len(s) /\ Len(s) \in Nat
  BY <1>2
<1>4. Answers(t) \subseteq DOMAIN s
  BY <1>1 DEF Answers
<1>5. Answers(t) \subseteq Nat
  BY <1>3, <1>4
<1>6. PICK i : i = First(Answers(t))
  OBVIOUS
<1>7. i \in Answers(t)
  BY <1>5, <1>6, FirstIsLeast
<1>8. i \in 1..Len(s) /\ s[i] \in GoodAnswers
  BY <1>2, <1>3, <1>4, <1>7
<1>9. s[i].file = Current(t)
  BY <1>1, <1>7 DEF Answers
<1>10. RemoveAt(s, i) \in Seq(GoodAnswers)
  <2>1. SubSeq(s, 1, i - 1) \in Seq(GoodAnswers) /\ SubSeq(s, i + 1, Len(s)) \in Seq(GoodAnswers)
    BY <1>2, <1>8
  <2>2. QED
    BY <2>1, Joined DEF RemoveAt
<1>11. QED
  BY <1>1, <1>3, <1>6, <1>8, <1>9, <1>10

LEMMA TakeAnswerSteps ==
  ASSUME SentInv, NEW t \in Transfers, TakeAnswer(t)
  PROVE  SentInv'
<1>1. Frozen /\ UNCHANGED <<cancelling, resuming>>
  BY OnPhoneFrozen DEF TakeAnswer
<1>2. run[t].pc = "accept" /\ Answers(t) # {}
  BY DEF TakeAnswer, At
<1>3. request[t].reply \notin {"asked", "held"}
  BY <1>2, RequestOver
<1>4. PICK i : i = First(Answers(t))
  OBVIOUS
<1>5. PICK m : m = inbox[t][i]
  OBVIOUS
<1>6. m \in GoodAnswers /\ m.file = Current(t) /\ RemoveAt(inbox[t], i) \in Seq(GoodAnswers)
  BY <1>2, <1>4, <1>5, AnswerFound
<1>7. PICK fresh : fresh = (run[t].first \/ run[t].terminalOnly \/ m.offset > run[t].offset)
  OBVIOUS
<1>8. \/ SendFails(t)
      \/ AbortSend(t)
      \/ /\ m.kind # "failed"
         /\ run' = [run EXCEPT ![t].pc = IF m.kind = "complete" THEN "sent" ELSE "put",
                               ![t].offset = m.offset,
                               ![t].puts = IF fresh THEN Attempts ELSE @,
                               ![t].first = FALSE, ![t].terminalOnly = FALSE,
                               ![t].swap = FALSE]
         /\ Replace(t, Current(t), "active")
         /\ inbox' = [inbox EXCEPT ![t] = RemoveAt(@, i)]
         /\ UNCHANGED <<local, wire, request, late>>
  BY <1>4, <1>5, <1>7 DEF TakeAnswer
<1>9. CASE SendFails(t)
  BY <1>1, <1>3, <1>9, SendFailsSteps
<1>10. CASE AbortSend(t)
  BY <1>1, <1>3, <1>10, AbortSendSteps
<1>11. CASE /\ m.kind # "failed"
            /\ run' = [run EXCEPT ![t].pc = IF m.kind = "complete" THEN "sent" ELSE "put",
                                  ![t].offset = m.offset,
                                  ![t].puts = IF fresh THEN Attempts ELSE @,
                                  ![t].first = FALSE, ![t].terminalOnly = FALSE,
                                  ![t].swap = FALSE]
            /\ Replace(t, Current(t), "active")
            /\ inbox' = [inbox EXCEPT ![t] = RemoveAt(@, i)]
            /\ UNCHANGED <<local, wire, request, late>>
  <2>1. "active" \in PhoneFileStatus
    BY DEF PhoneFileStatus
  <2>2. HistoryInv' /\ CopiesInv' /\ NetworkInv'
    BY <1>1, <1>11, <2>1, Replaced, Untouched
  <2>3. InboxInv'
    <3>1. PICK s : s = RemoveAt(inbox[t], i)
      OBVIOUS
    <3>2. inbox' = [inbox EXCEPT ![t] = s] /\ s \in Seq(GoodAnswers)
      BY <1>6, <1>11, <3>1
    <3>3. QED
      BY <1>1, <3>2, StillReceived DEF SentInv, InboxInv
  <2>4. PICK pc : pc = IF m.kind = "complete" THEN "sent" ELSE "put"
    OBVIOUS
  <2>5. PICK puts : puts = IF fresh THEN Attempts ELSE run[t].puts
    OBVIOUS
  <2>6. PICK r : r = [run[t] EXCEPT !.pc = pc, !.offset = m.offset, !.puts = puts,
                                    !.first = FALSE, !.terminalOnly = FALSE, !.swap = FALSE]
    OBVIOUS
  <2>7. run' = [run EXCEPT ![t] = r]
    BY <1>11, <2>4, <2>5, <2>6
  <2>8. /\ m.offset \in Nat /\ Current(t) \in Files
        /\ m.kind = "complete" => Done(Current(t))
        /\ m.kind # "complete" => m.offset < Size[Current(t)] \/ Size[Current(t)] = 0
    BY <1>6, <1>11 DEF GoodAnswers
  <2>9. /\ r \in RunRecord /\ r.pc = pc /\ r.at = run[t].at
        /\ r.status = run[t].status /\ r.offset = m.offset
    <3>1. run[t] \in RunRecord /\ Attempts \in Int
      BY SenderAssumption DEF SentInv, RunsInv
    <3>2. pc \in RunPcs
      BY <2>4 DEF RunPcs, FilePcs
    <3>3. puts \in Int
      BY <2>5, <3>1 DEF RunRecord
    <3>4. QED
      BY <2>6, <2>8, <3>1, <3>2, <3>3 DEF RunRecord
  <2>10. PICK q : q = request[t]
    OBVIOUS
  <2>11. /\ q \in RequestRecord /\ q.reply \notin {"asked", "held"}
         /\ request' = [request EXCEPT ![t] = q]
    BY <1>3, <1>11, <2>10 DEF SentInv, RunsInv
  <2>12. r.pc = "put" => r.offset # Size[Current(t)] \/ Size[Current(t)] = 0
    BY <2>4, <2>8, <2>9, QueueAssumption
  <2>13. r.pc \in {"sent", "put"} /\ (r.pc = "sent" => Done(Current(t)))
    BY <2>4, <2>8, <2>9
  <2>14. RunOK(t, r, q)
    BY <1>2, <2>9, <2>11, <2>12, <2>13, SameFile DEF FilePcs
  <2>15. RunsInv'
    BY <1>1, <2>7, <2>9, <2>11, <2>14, RunMoves
  <2>16. QED
    BY <1>1, <2>2, <2>3, <2>15, RunStepDone
<1>12. QED
  BY <1>8, <1>9, <1>10, <1>11

(* A run closes its session and connects again.                            *)
LEMMA RunReconnects ==
  ASSUME SentInv, Frozen, UNCHANGED <<cancelling, resuming>>, NEW t \in Transfers,
         run[t].pc \in FilePcs, NEW r \in RunRecord,
         r.pc = "reconnect", r.at = run[t].at, r.status = run[t].status,
         run' = [run EXCEPT ![t] = r], CloseSession(t), UNCHANGED <<history, local, sending>>
  PROVE  SentInv'
<1>1. HistoryInv' /\ CopiesInv' /\ InboxInv' /\ NetworkInv'
  BY Untouched, SessionOver
<1>2. NoRequest \in RequestRecord /\ NoRequest.reply = "none"
  BY DEF NoRequest, RequestRecord
<1>3. RunOK(t, r, NoRequest)
  BY <1>2, SameFile DEF FilePcs
<1>4. request' = [request EXCEPT ![t] = NoRequest]
  BY DEF CloseSession
<1>5. RunsInv'
  BY <1>2, <1>3, <1>4, RunMoves
<1>6. QED
  BY <1>1, <1>5, RunStepDone

LEMMA LoseAnswerSteps ==
  ASSUME SentInv, NEW t \in Transfers, Timeout(t) \/ Slow(t)
  PROVE  SentInv'
<1>1. Frozen /\ UNCHANGED <<cancelling, resuming>> /\ LoseAnswer(t)
  BY OnPhoneFrozen DEF Timeout, Slow, Frozen, laptop
<1>2. run[t].pc = "accept"
  BY <1>1 DEF LoseAnswer, At
<1>3. CASE AbortSend(t)
  BY <1>1, <1>2, <1>3, RequestOver, AbortSendSteps
<1>4. CASE ~AbortSend(t)
  <2>1. Goto(t, "reconnect") /\ CloseSession(t) /\ UNCHANGED <<history, local, sending>>
    BY <1>1, <1>4 DEF LoseAnswer
  <2>2. PICK r : r = [run[t] EXCEPT !.pc = "reconnect"]
    OBVIOUS
  <2>3. r \in RunRecord /\ r.pc = "reconnect" /\ r.at = run[t].at /\ r.status = run[t].status
    BY <2>2 DEF SentInv, RunsInv, RunRecord, RunPcs, FilePcs
  <2>4. run' = [run EXCEPT ![t] = r] /\ run[t].pc \in FilePcs
    BY <1>2, <2>1, <2>2 DEF Goto, FilePcs
  <2>5. QED
    BY <1>1, <2>1, <2>3, <2>4, RunReconnects
<1>5. QED
  BY <1>3, <1>4

LEMMA ReconnectSteps ==
  ASSUME SentInv, NEW t \in Transfers,
         Reconnect(t) \/ ReconnectFails(t) \/ StopReconnecting(t)
  PROVE  SentInv'
<1>0. run[t].pc = "reconnect" /\ request[t].reply \notin {"asked", "held"}
  <2>1. run[t].pc = "reconnect"
    BY DEF Reconnect, ReconnectFails, StopReconnecting, At
  <2>2. QED
    BY <2>1, RequestOver
<1>1. CASE Reconnect(t)
  <2>1. Frozen /\ UNCHANGED <<history, local, sending, late, cancelling, resuming>>
    BY <1>1 DEF Reconnect, Opened, Frozen
  <2>2. HistoryInv' /\ CopiesInv'
    BY <2>1, Untouched
  <2>3. InboxInv'
    BY <1>1, <2>1, InboxCleared DEF Reconnect, Opened
  <2>4. NetworkInv'
    <3>1. wire \in [Transfers -> Seq(ControlMessages)] /\ Offer \in ControlMessages
      BY DEF SentInv, NetworkInv, ControlMessages, Offer
    <3>2. wire' = [wire EXCEPT ![t] = Append(@, Offer)]
      BY <1>1 DEF Reconnect
    <3>3. wire' \in [Transfers -> Seq(ControlMessages)]
      BY <3>1, <3>2
    <3>4. QED
      BY <2>1, <3>3 DEF SentInv, NetworkInv, ControlMessages
  <2>5. PICK r : r = [run[t] EXCEPT !.pc = "accept", !.tries = @ - 1, !.swap = TRUE]
    OBVIOUS
  <2>6. r \in RunRecord /\ r.pc = "accept" /\ r.at = run[t].at /\ r.status = run[t].status
    <3>1. run[t] \in RunRecord /\ run[t].tries - 1 \in Int
      BY DEF SentInv, RunsInv, RunRecord
    <3>2. "accept" \in RunPcs
      BY DEF RunPcs, FilePcs
    <3>3. QED
      BY <2>5, <3>1, <3>2 DEF RunRecord
  <2>7. NoRequest \in RequestRecord /\ NoRequest.reply = "none"
    BY DEF NoRequest, RequestRecord
  <2>8. RunOK(t, r, NoRequest)
    BY <1>0, <2>6, <2>7, SameFile DEF FilePcs
  <2>9. run' = [run EXCEPT ![t] = r] /\ request' = [request EXCEPT ![t] = NoRequest]
    BY <1>1, <2>5 DEF Reconnect, Opened
  <2>10. RunsInv'
    BY <2>1, <2>6, <2>7, <2>8, <2>9, RunMoves
  <2>11. QED
    BY <2>1, <2>2, <2>3, <2>4, <2>10, RunStepDone
<1>2. CASE ReconnectFails(t)
  <2>1. /\ Frozen /\ UNCHANGED <<cancelling, resuming>>
        /\ UNCHANGED <<history, local, sending>> /\ UNCHANGED network
    BY <1>2 DEF ReconnectFails, laptop, Frozen
  <2>2. HistoryInv' /\ CopiesInv' /\ InboxInv' /\ NetworkInv' /\ UNCHANGED request
    BY <2>1, Untouched
  <2>3. PICK r : r = [run[t] EXCEPT !.tries = @ - 1]
    OBVIOUS
  <2>4. /\ r \in RunRecord /\ r.pc = "reconnect"
        /\ r.at = run[t].at /\ r.status = run[t].status
    BY <1>0, <2>3 DEF SentInv, RunsInv, RunRecord
  <2>5. PICK q : q = request[t]
    OBVIOUS
  <2>6. q \in RequestRecord /\ request' = [request EXCEPT ![t] = q]
    BY <2>2, <2>5 DEF SentInv, RunsInv
  <2>7. RunOK(t, r, q)
    BY <1>0, <2>4, <2>5, SameFile DEF FilePcs
  <2>8. run' = [run EXCEPT ![t] = r]
    BY <1>2, <2>3 DEF ReconnectFails
  <2>9. RunsInv'
    BY <2>1, <2>4, <2>6, <2>7, <2>8, RunMoves
  <2>10. QED
    BY <2>1, <2>2, <2>9, RunStepDone
<1>3. CASE StopReconnecting(t)
  BY <1>0, <1>3, OnPhoneFrozen, SendFailsSteps DEF StopReconnecting
<1>4. QED
  BY <1>1, <1>2, <1>3

(* A run goes on with its file, and writes that it is active or nothing.   *)
LEMMA RunGoesOn ==
  ASSUME SentInv, Frozen, UNCHANGED <<cancelling, resuming>>, NEW t \in Transfers,
         run[t].pc \in FilePcs, NEW r \in RunRecord, NEW q \in RequestRecord,
         run' = [run EXCEPT ![t] = r], request' = [request EXCEPT ![t] = q],
         UNCHANGED <<local, inbox, wire, late>>,
         Replace(t, Current(t), "active") \/ UNCHANGED <<history, sending>>,
         RunOK(t, r, q)
  PROVE  SentInv'
<1>1. "active" \in PhoneFileStatus
  BY DEF PhoneFileStatus
<1>2. HistoryInv' /\ CopiesInv' /\ InboxInv' /\ NetworkInv'
  BY <1>1, Replaced, Untouched
<1>3. RunsInv'
  BY RunMoves
<1>4. QED
  BY <1>2, <1>3, RunStepDone

LEMMA PutSteps ==
  ASSUME SentInv, NEW t \in Transfers, Put(t)
  PROVE  SentInv'
<1>1. Frozen /\ UNCHANGED <<cancelling, resuming>>
  BY OnPhoneFrozen DEF Put
<1>2. run[t].pc = "put" /\ run[t].offset \in Nat
  BY DEF Put, At, SentInv, RunsInv, RunRecord
<1>3. request[t].reply \notin {"asked", "held"}
  BY <1>2, RequestOver
<1>4. ~(run[t].offset = Size[Current(t)] /\ Size[Current(t)] > 0)
  <2>1. run[t].offset # Size[Current(t)] \/ Size[Current(t)] = 0
    BY <1>2 DEF SentInv, RunsInv, RunOK, Current
  <2>2. QED
    BY <2>1
<1>5. CASE SendFails(t)
  BY <1>1, <1>3, <1>5, SendFailsSteps
<1>6. CASE ~SendFails(t)
  <2>1. PICK q : q = [at |-> run[t].offset, reply |-> "asked", confirmed |-> 0]
    OBVIOUS
  <2>2. q \in RequestRecord /\ q.reply = "asked"
    BY <1>2, <2>1 DEF RequestRecord
  <2>3. /\ Goto(t, "putting") /\ request' = [request EXCEPT ![t] = q]
        /\ UNCHANGED <<history, local, sending, inbox, wire, late>>
    BY <1>4, <1>6, <2>1 DEF Put
  <2>4. PICK r : r = [run[t] EXCEPT !.pc = "putting"]
    OBVIOUS
  <2>5. r \in RunRecord /\ r.pc = "putting" /\ r.at = run[t].at /\ r.status = run[t].status
    BY <2>4 DEF SentInv, RunsInv, RunRecord, RunPcs, FilePcs
  <2>6. RunOK(t, r, q)
    BY <1>2, <2>2, <2>5, SameFile DEF FilePcs
  <2>7. run' = [run EXCEPT ![t] = r] /\ run[t].pc \in FilePcs
    BY <1>2, <2>3, <2>4 DEF Goto, FilePcs
  <2>8. QED
    BY <1>1, <2>2, <2>3, <2>5, <2>6, <2>7, RunGoesOn
<1>7. QED
  BY <1>5, <1>6

LEMMA PutOkSteps ==
  ASSUME SentInv, NEW t \in Transfers, PutOk(t)
  PROVE  SentInv'
<1>1. Frozen /\ UNCHANGED <<cancelling, resuming>>
  BY OnPhoneFrozen DEF PutOk
<1>2. run[t].pc = "putting" /\ request[t].reply = "ok"
  BY DEF PutOk, Answered, At
<1>3. PICK c : c = request[t].confirmed
  OBVIOUS
<1>4. c \in Nat /\ (c # Size[Current(t)] \/ Done(Current(t)))
  BY <1>2, <1>3 DEF SentInv, RunsInv, RunOK, RequestRecord, Current
<1>5. PICK pc : pc = IF c = Size[Current(t)] THEN "sent" ELSE "put"
  OBVIOUS
<1>6. PICK r : r = [run[t] EXCEPT !.pc = pc, !.offset = c, !.puts = Attempts]
  OBVIOUS
<1>7. /\ r \in RunRecord /\ r.pc = pc /\ r.offset = c
      /\ r.at = run[t].at /\ r.status = run[t].status
  <2>1. run[t] \in RunRecord /\ Attempts \in Int
    BY SenderAssumption DEF SentInv, RunsInv
  <2>2. pc \in RunPcs
    BY <1>5 DEF RunPcs, FilePcs
  <2>3. QED
    BY <1>4, <1>6, <2>1, <2>2 DEF RunRecord
<1>8. NoRequest \in RequestRecord /\ NoRequest.reply = "none"
  BY DEF NoRequest, RequestRecord
<1>9. /\ pc \in {"sent", "put"} /\ (pc = "sent" => Done(Current(t)))
      /\ pc = "put" => c # Size[Current(t)]
  BY <1>4, <1>5
<1>10. RunOK(t, r, NoRequest)
  BY <1>2, <1>7, <1>8, <1>9, SameFile DEF FilePcs
<1>11. run' = [run EXCEPT ![t] = r] /\ request' = [request EXCEPT ![t] = NoRequest]
  BY <1>3, <1>5, <1>6 DEF PutOk, NoMoreRequest
<1>12. Replace(t, Current(t), "active") /\ UNCHANGED <<local, inbox, wire, late>>
  BY DEF PutOk
<1>13. run[t].pc \in FilePcs
  BY <1>2 DEF FilePcs
<1>14. QED
  BY <1>1, <1>7, <1>8, <1>10, <1>11, <1>12, <1>13, RunGoesOn

LEMMA PutConflictSteps ==
  ASSUME SentInv, NEW t \in Transfers, PutConflict(t)
  PROVE  SentInv'
<1>1. Frozen /\ UNCHANGED <<cancelling, resuming>>
  BY OnPhoneFrozen DEF PutConflict
<1>2. run[t].pc = "putting" /\ request[t].reply = "conflict" /\ run[t].pc \in FilePcs
  BY DEF PutConflict, Answered, At, FilePcs
<1>3. PICK c : c = request[t].confirmed
  OBVIOUS
<1>4. c \in Nat /\ run[t] \in RunRecord /\ Attempts \in Int
  BY <1>3, SenderAssumption DEF SentInv, RunsInv, RequestRecord
<1>5. run[t].offset \in Nat /\ Size[Current(t)] \in Nat
  BY <1>2, <1>4, RunsFile, QueueAssumption DEF RunRecord
<1>6. NoRequest \in RequestRecord /\ NoRequest.reply = "none"
  BY DEF NoRequest, RequestRecord
<1>7. \/ SendFails(t)
      \/ /\ run' = [run EXCEPT ![t].pc = "accept", ![t].terminalOnly = TRUE,
                               ![t].tries = Attempts]
         /\ NoMoreRequest(t)
         /\ UNCHANGED <<history, local, sending, inbox, wire, late>>
      \/ /\ c # Size[Current(t)]
         /\ run' = [run EXCEPT ![t].pc = "put", ![t].offset = c, ![t].puts = Attempts]
         /\ Replace(t, Current(t), "active")
         /\ NoMoreRequest(t)
         /\ UNCHANGED <<local, inbox, wire, late>>
  <2>1. CASE c <= run[t].offset
    BY <1>3, <2>1 DEF PutConflict
  <2>2. CASE ~(c <= run[t].offset) /\ c = Size[Current(t)]
    <3>1. c > run[t].offset
      BY <1>4, <1>5, <2>2
    <3>2. QED
      BY <1>3, <2>2, <3>1 DEF PutConflict
  <2>3. CASE ~(c <= run[t].offset) /\ c # Size[Current(t)]
    BY <1>3, <2>3 DEF PutConflict
  <2>4. QED
    BY <2>1, <2>2, <2>3
<1>8. CASE SendFails(t)
  BY <1>1, <1>2, <1>8, SendFailsSteps
<1>9. CASE /\ run' = [run EXCEPT ![t].pc = "accept", ![t].terminalOnly = TRUE,
                                 ![t].tries = Attempts]
           /\ NoMoreRequest(t)
           /\ UNCHANGED <<history, local, sending, inbox, wire, late>>
  <2>1. PICK r : r = [run[t] EXCEPT !.pc = "accept", !.terminalOnly = TRUE, !.tries = Attempts]
    OBVIOUS
  <2>2. r \in RunRecord /\ r.pc = "accept" /\ r.at = run[t].at /\ r.status = run[t].status
    <3>1. "accept" \in RunPcs
      BY DEF RunPcs, FilePcs
    <3>2. QED
      BY <1>4, <2>1, <3>1 DEF RunRecord
  <2>3. RunOK(t, r, NoRequest)
    BY <1>2, <1>6, <2>2, SameFile DEF FilePcs
  <2>4. run' = [run EXCEPT ![t] = r] /\ request' = [request EXCEPT ![t] = NoRequest]
    BY <1>9, <2>1 DEF NoMoreRequest
  <2>5. QED
    BY <1>1, <1>2, <1>6, <1>9, <2>2, <2>3, <2>4, RunGoesOn
<1>10. CASE /\ c # Size[Current(t)]
            /\ run' = [run EXCEPT ![t].pc = "put", ![t].offset = c, ![t].puts = Attempts]
            /\ Replace(t, Current(t), "active")
            /\ NoMoreRequest(t)
            /\ UNCHANGED <<local, inbox, wire, late>>
  <2>1. PICK r : r = [run[t] EXCEPT !.pc = "put", !.offset = c, !.puts = Attempts]
    OBVIOUS
  <2>2. /\ r \in RunRecord /\ r.pc = "put" /\ r.offset = c
        /\ r.at = run[t].at /\ r.status = run[t].status
    <3>1. "put" \in RunPcs
      BY DEF RunPcs, FilePcs
    <3>2. QED
      BY <1>4, <2>1, <3>1 DEF RunRecord
  <2>3. RunOK(t, r, NoRequest)
    BY <1>2, <1>6, <1>10, <2>2, SameFile DEF FilePcs
  <2>4. run' = [run EXCEPT ![t] = r] /\ request' = [request EXCEPT ![t] = NoRequest]
    BY <1>10, <2>1 DEF NoMoreRequest
  <2>5. QED
    BY <1>1, <1>2, <1>6, <1>10, <2>2, <2>3, <2>4, RunGoesOn
<1>11. QED
  BY <1>7, <1>8, <1>9, <1>10

LEMMA PutEndsSteps ==
  ASSUME SentInv, NEW t \in Transfers, PutRefused(t) \/ PutGone(t)
  PROVE  SentInv'
<1>1. Frozen /\ UNCHANGED <<cancelling, resuming>>
  BY OnPhoneFrozen DEF PutRefused, PutGone
<1>2. run[t].pc \in FilePcs /\ request[t].reply \in {"refused", "lost"}
  BY DEF PutRefused, PutGone, Answered, At, FilePcs
<1>3. CASE SendFails(t)
  BY <1>1, <1>2, <1>3, SendFailsSteps
<1>4. CASE ~SendFails(t)
  <2>1. /\ run' = [run EXCEPT ![t].pc = "reconnect", ![t].puts = @ - 1, ![t].tries = Attempts]
        /\ CloseSession(t) /\ UNCHANGED <<history, local, sending>>
    BY <1>4 DEF PutRefused, PutGone
  <2>2. PICK r : r = [run[t] EXCEPT !.pc = "reconnect", !.puts = @ - 1, !.tries = Attempts]
    OBVIOUS
  <2>3. r \in RunRecord /\ r.pc = "reconnect" /\ r.at = run[t].at /\ r.status = run[t].status
    <3>1. run[t] \in RunRecord /\ run[t].puts - 1 \in Int /\ Attempts \in Int
      BY SenderAssumption DEF SentInv, RunsInv, RunRecord
    <3>2. "reconnect" \in RunPcs
      BY DEF RunPcs, FilePcs
    <3>3. QED
      BY <2>2, <3>1, <3>2 DEF RunRecord
  <2>4. run' = [run EXCEPT ![t] = r]
    BY <2>1, <2>2
  <2>5. QED
    BY <1>1, <1>2, <2>1, <2>3, <2>4, RunReconnects
<1>5. QED
  BY <1>3, <1>4

LEMMA FileSentSteps ==
  ASSUME SentInv, NEW t \in Transfers, FileSent(t)
  PROVE  SentInv'
<1>1. Frozen /\ UNCHANGED <<cancelling, resuming>> /\ UNCHANGED network
  BY OnPhoneFrozen DEF FileSent
<1>2. InboxInv' /\ NetworkInv' /\ UNCHANGED request
  BY <1>1, Untouched
<1>3. run[t].pc = "sent"
  BY DEF FileSent, At
<1>4. Done(Current(t)) /\ run[t].pc \in FilePcs
  BY <1>3 DEF SentInv, RunsInv, RunOK, Current, FilePcs
<1>5. "completed" \in PhoneFileStatus /\ Replace(t, Current(t), "completed") /\ UNCHANGED local
  BY DEF FileSent, PhoneFileStatus, PhoneTerminal
<1>6. HistoryInv' /\ CopiesInv'
  BY <1>1, <1>4, <1>5, Replaced
<1>7. PICK q : q = request[t]
  OBVIOUS
<1>8. /\ q \in RequestRecord /\ q.reply \notin {"asked", "held"}
      /\ request' = [request EXCEPT ![t] = q]
  BY <1>2, <1>3, <1>7, RequestOver DEF SentInv, RunsInv
<1>9. PICK r : r = [run[t] EXCEPT !.pc = "file", !.at = @ + 1, !.offset = 0]
  OBVIOUS
<1>10. r \in RunRecord /\ r.pc = "file" /\ r.at = run[t].at + 1 /\ r.status = run[t].status
  <2>1. run[t] \in RunRecord /\ run[t].at + 1 \in Nat
    BY DEF SentInv, RunsInv, RunRecord
  <2>2. "file" \in RunPcs
    BY DEF RunPcs
  <2>3. QED
    BY <1>9, <2>1, <2>2 DEF RunRecord
<1>11. run[t].at \in 1..Count(t)
  BY <1>4, RunsFile
<1>12. RunOK(t, r, q)
  BY <1>4, <1>8, <1>10, <1>11, NextFile
<1>13. run' = [run EXCEPT ![t] = r]
  BY <1>9 DEF FileSent
<1>14. RunsInv'
  BY <1>1, <1>8, <1>10, <1>12, <1>13, RunMoves
<1>15. QED
  BY <1>1, <1>2, <1>6, <1>14, RunStepDone

LEMMA FinishBatchSteps ==
  ASSUME SentInv, NEW t \in Transfers, FinishBatch(t)
  PROVE  SentInv'
<1>1. Frozen /\ UNCHANGED <<cancelling, resuming>>
  BY OnPhoneFrozen DEF FinishBatch
<1>2. Received(t)
  <2>1. run[t].pc = "file" /\ run[t].at > Count(t) /\ run[t].at \in Nat
    BY DEF FinishBatch, At, SentInv, RunsInv, RunRecord
  <2>2. \A g \in FilesOf(t) : Position[g] < run[t].at => Done(g)
    BY <2>1 DEF SentInv, RunsInv, RunOK
  <2>3. \A g \in FilesOf(t) : Position[g] < run[t].at
    BY <2>1, FilesByPosition
  <2>4. QED
    BY <2>2, <2>3 DEF Received
<1>3. HistoryInv'
  <2>1. Write(t, sending, "completed") /\ Copy(sending) /\ "completed" \in PhoneBatchStatus
    BY DEF FinishBatch, SentInv, CopiesInv, PhoneBatchStatus, PhoneTerminal
  <2>2. QED
    BY <1>1, <1>2, <2>1, Written
<1>4. CopiesInv' /\ InboxInv' /\ NetworkInv' /\ RunsInv'
  BY <1>1, RunEnds DEF FinishBatch
<1>5. QED
  BY <1>1, <1>3, <1>4, RunStepDone

LEMMA SendSteps ==
  ASSUME SentInv, NEW t \in Transfers, SendStep(t)
  PROVE  SentInv'
BY TakeTurnSteps, SendOfferSteps, BeginFileSteps, HandleSteps, TakeAnswerSteps,
   ReconnectSteps, PutSteps, PutOkSteps, PutConflictSteps, PutEndsSteps,
   FileSentSteps, FinishBatchSteps DEF SendStep

-----------------------------------------------------------------------------
(* Cancels                                                                 *)

LEMMA CancelStepDone ==
  ASSUME SentInv, CancelStep, HistoryInv', InboxInv', NetworkInv', RunsInv', CancelInv'
  PROVE  SentInv'
<1>1. Frozen /\ UNCHANGED <<local, sending, resuming>>
  BY DEF CancelStep, Frozen, laptop, copies
<1>2. LaptopInv' /\ Grows /\ CopiesInv' /\ ResumeInv'
  BY <1>1, FrozenLaptop, Rest
<1>3. QED
  BY <1>2 DEF SentInv

LEMMA CancelFrozen ==
  ASSUME CancelStep
  PROVE  Frozen /\ run' = run
BY DEF CancelStep, Frozen, laptop, copies

LEMMA CancelKept ==
  ASSUME Frozen, NEW c, CancelOK(c), cancelling' = c
  PROVE  CancelInv'
BY StillReceived DEF CancelInv, CancelOK, Copy

LEMMA NoCancelOK ==
  /\ CancelOK(NoCancel)
  /\ NoCancel.copy \in [Files -> PhoneFileStatus] /\ NoCancel.status \in PhoneBatchStatus
  /\ Copy(NoCancel.copy) /\ NoCancel.status # "completed"
<1>1. PICK F : F = [f \in Files |-> "absent"]
  OBVIOUS
<1>2. Copy(F)
  BY <1>1 DEF Copy, PhoneFileStatus
<1>3. /\ NoCancel.copy = F /\ NoCancel.status = "absent" /\ NoCancel.pc = "idle"
      /\ NoCancel.todo = {} /\ NoCancel.transfer = None
  BY <1>1 DEF NoCancel
<1>4. NoCancel \in CancelRecord
  BY <1>1, <1>2 DEF NoCancel, CancelRecord, CancelPcs, PhoneBatchStatus, Copy
<1>5. QED
  BY <1>2, <1>3, <1>4 DEF CancelOK, Copy, PhoneBatchStatus

LEMMA CancelBeginsSteps ==
  ASSUME SentInv, NEW t \in Transfers, CancelBegins(t)
  PROVE  SentInv'
<1>1. CancelStep /\ Frozen /\ run' = run /\ UNCHANGED history /\ UNCHANGED network
  BY CancelFrozen DEF CancelBegins
<1>2. HistoryInv' /\ InboxInv' /\ NetworkInv' /\ RunsInv'
  BY <1>1, Untouched
<1>3. PICK todo : todo = {f \in FilesOf(t) : ~Over(stored[f])}
  OBVIOUS
<1>4. PICK c : c = [NoCancel EXCEPT !.pc = "read", !.transfer = t, !.todo = todo]
  OBVIOUS
<1>5. todo \subseteq Files
  BY <1>3 DEF FilesOf
<1>6. NoCancel \in CancelRecord
  BY NoCancelOK DEF CancelOK
<1>7. /\ c \in CancelRecord /\ c.pc = "read" /\ c.transfer = t
      /\ c.copy = NoCancel.copy /\ c.status = NoCancel.status
  BY <1>4, <1>5, <1>6 DEF CancelRecord, CancelPcs
<1>8. CancelOK(c)
  BY <1>7, NoCancelOK DEF CancelOK
<1>9. cancelling' = c
  BY <1>3, <1>4 DEF CancelBegins
<1>10. CancelInv'
  BY <1>1, <1>8, <1>9, CancelKept
<1>11. QED
  BY <1>1, <1>2, <1>10, CancelStepDone

LEMMA CancelReadsSteps ==
  ASSUME SentInv, CancelReads
  PROVE  SentInv'
<1>1. CancelStep /\ Frozen /\ run' = run /\ UNCHANGED history /\ UNCHANGED network
  BY CancelFrozen DEF CancelReads
<1>2. HistoryInv' /\ InboxInv' /\ NetworkInv' /\ RunsInv'
  BY <1>1, Untouched
<1>3. PICK t : t = cancelling.transfer
  OBVIOUS
<1>4. t \in Transfers /\ cancelling \in CancelRecord /\ cancelling.pc = "read"
  BY <1>3 DEF CancelReads, SentInv, CancelInv, CancelOK
<1>5. CASE ~Doomed
  BY <1>1, <1>2, <1>5, NoCancelOK, CancelKept, CancelStepDone DEF CancelReads
<1>6. CASE Doomed
  <2>1. PICK F : F = [f \in Files |-> IF Owner[f] = t THEN stored[f] ELSE "absent"]
    OBVIOUS
  <2>2. Copy(F) /\ kept[t] \in PhoneBatchStatus /\ (kept[t] = "completed" => Received(t))
    BY <1>4, <2>1 DEF SentInv, HistoryInv, Copy, BatchCopy, PhoneFileStatus
  <2>3. PICK c : c = [cancelling EXCEPT !.pc = "act", !.status = kept[t], !.copy = F]
    OBVIOUS
  <2>4. /\ c \in CancelRecord /\ c.pc = "act" /\ c.transfer = t /\ c.copy = F
        /\ c.status = kept[t] /\ c.todo = cancelling.todo
    BY <1>3, <1>4, <2>2, <2>3 DEF CancelRecord, CancelPcs, Copy
  <2>5. CancelOK(c)
    BY <1>4, <1>6, <2>2, <2>4 DEF CancelOK, Doomed
  <2>6. cancelling' = c
    BY <1>3, <1>6, <2>1, <2>3 DEF CancelReads
  <2>7. QED
    BY <1>1, <1>2, <2>5, <2>6, CancelKept, CancelStepDone
<1>7. QED
  BY <1>5, <1>6

(* CancelGoes takes the file it was at off the list, or goes on with it.   *)
LEMMA CancelMoves ==
  ASSUME SentInv, Frozen, cancelling.pc # "idle", cancelling.todo # {},
         CancelGoes("read") \/ CancelGoes("ask")
  PROVE  CancelInv'
<1>1. CancelOK(cancelling)
  BY DEF SentInv, CancelInv
<1>2. CASE CancelGoes("read")
  <2>1. PICK c : c = [cancelling EXCEPT !.pc = "read", !.todo = @ \ {NextToCancel}]
    OBVIOUS
  <2>2. /\ c \in CancelRecord /\ c.pc = "read" /\ c.transfer = cancelling.transfer
        /\ c.copy = cancelling.copy /\ c.status = cancelling.status
    BY <1>1, <2>1 DEF CancelOK, CancelRecord, CancelPcs
  <2>3. CancelOK(c)
    BY <1>1, <2>2 DEF CancelOK
  <2>4. cancelling' = c
    BY <1>2, <2>1 DEF CancelGoes
  <2>5. QED
    BY <2>3, <2>4, CancelKept
<1>3. CASE CancelGoes("ask")
  <2>1. PICK c : c = [cancelling EXCEPT !.pc = "ask"]
    OBVIOUS
  <2>2. /\ c \in CancelRecord /\ c.pc = "ask" /\ c.transfer = cancelling.transfer
        /\ c.copy = cancelling.copy /\ c.status = cancelling.status /\ c.todo = cancelling.todo
    BY <1>1, <2>1 DEF CancelOK, CancelRecord, CancelPcs
  <2>3. CancelOK(c)
    BY <1>1, <2>2 DEF CancelOK
  <2>4. cancelling' = c
    BY <1>3, <2>1 DEF CancelGoes
  <2>5. QED
    BY <2>3, <2>4, CancelKept
<1>4. QED
  BY <1>2, <1>3

(* A cancel marks its file f in its copy, and writes the copy.             *)
LEMMA CancelWrites ==
  ASSUME SentInv, Frozen, cancelling.pc \in {"act", "mark"},
         NEW pc \in {"mark", "finish"}, NEW f, NEW s \in {"preparing", "cancelled"},
         cancelling' = [cancelling EXCEPT !.pc = pc, !.copy[f] = s],
         Write(cancelling.transfer, cancelling'.copy, cancelling.status)
  PROVE  HistoryInv' /\ CancelInv'
<1>1. CancelOK(cancelling) /\ cancelling.transfer \in Transfers /\ cancelling.todo # {}
  BY DEF SentInv, CancelInv, CancelOK
<1>2. PICK F : F = [cancelling.copy EXCEPT ![f] = s]
  OBVIOUS
<1>3. s \in PhoneFileStatus /\ s # "completed" /\ pc \in CancelPcs \ {"idle", "read"}
  BY DEF PhoneFileStatus, PhoneTerminal, CancelPcs
<1>4. Copy(F)
  BY <1>1, <1>2, <1>3, CopyChanges DEF CancelOK
<1>5. PICK c : c = [cancelling EXCEPT !.pc = pc, !.copy = F]
  OBVIOUS
<1>6. /\ c \in CancelRecord /\ c.pc = pc /\ c.transfer = cancelling.transfer
      /\ c.copy = F /\ c.status = cancelling.status /\ c.todo = cancelling.todo
  BY <1>1, <1>3, <1>4, <1>5 DEF CancelOK, CancelRecord, Copy
<1>7. CancelOK(c)
  BY <1>1, <1>4, <1>6 DEF CancelOK
<1>8. cancelling' = c
  BY <1>2, <1>5
<1>9. CancelInv'
  BY <1>7, <1>8, CancelKept
<1>10. Write(cancelling.transfer, F, cancelling.status)
  BY <1>6, <1>8
<1>11. HistoryInv'
  BY <1>1, <1>4, <1>10, Written DEF CancelOK, CancelRecord
<1>12. QED
  BY <1>9, <1>11

LEMMA NextIsDoomed ==
  ASSUME cancelling.todo \subseteq Files, cancelling.todo # {}
  PROVE  NextToCancel \in cancelling.todo
<1>1. PICK S : S = {Position[f] : f \in cancelling.todo}
  OBVIOUS
<1>2. S \subseteq Nat /\ S # {}
  BY <1>1, QueueAssumption
<1>3. First(S) \in S /\ \A j \in S : First(S) <= j
  BY <1>2, FirstIsLeast
<1>4. PICK f \in cancelling.todo : Position[f] = First(S)
  BY <1>1, <1>3
<1>5. \A g \in cancelling.todo : Position[f] <= Position[g]
  BY <1>1, <1>3, <1>4
<1>6. QED
  BY <1>4, <1>5 DEF NextToCancel

LEMMA CancelActsSteps ==
  ASSUME SentInv, CancelActs \/ CancelMarks
  PROVE  SentInv'
<1>1. CancelStep /\ Frozen /\ run' = run /\ UNCHANGED network
  BY CancelFrozen DEF CancelActs, CancelMarks
<1>2. InboxInv' /\ NetworkInv' /\ RunsInv'
  BY <1>1, Untouched
<1>3. cancelling.pc \in {"act", "mark"} /\ cancelling.todo # {} /\ CancelOK(cancelling)
  BY DEF CancelActs, CancelMarks, SentInv, CancelInv, CancelOK
<1>4. \/ CancelGoes("read") /\ UNCHANGED history
      \/ CancelGoes("ask") /\ Write(cancelling.transfer, cancelling.copy, cancelling.status)
      \/ \E pc \in {"mark", "finish"}, f \in {NextToCancel}, s \in {"preparing", "cancelled"} :
           /\ cancelling' = [cancelling EXCEPT !.pc = pc, !.copy[f] = s]
           /\ Write(cancelling.transfer, cancelling'.copy, cancelling.status)
  BY DEF CancelActs, CancelMarks
<1>5. CASE CancelGoes("read") /\ UNCHANGED history
  <2>1. HistoryInv' /\ CancelInv'
    BY <1>1, <1>3, <1>5, Untouched, CancelMoves
  <2>2. QED
    BY <1>1, <1>2, <2>1, CancelStepDone
<1>6. CASE CancelGoes("ask") /\ Write(cancelling.transfer, cancelling.copy, cancelling.status)
  <2>1. CancelInv'
    BY <1>1, <1>3, <1>6, CancelMoves
  <2>2. HistoryInv'
    BY <1>1, <1>3, <1>6, Written DEF CancelOK, CancelRecord
  <2>3. QED
    BY <1>1, <1>2, <2>1, <2>2, CancelStepDone
<1>7. CASE \E pc \in {"mark", "finish"}, f \in {NextToCancel}, s \in {"preparing", "cancelled"} :
             /\ cancelling' = [cancelling EXCEPT !.pc = pc, !.copy[f] = s]
             /\ Write(cancelling.transfer, cancelling'.copy, cancelling.status)
  <2>1. HistoryInv' /\ CancelInv'
    BY <1>1, <1>3, <1>7, CancelWrites
  <2>2. QED
    BY <1>1, <1>2, <2>1, CancelStepDone
<1>8. QED
  BY <1>4, <1>5, <1>6, <1>7

LEMMA CancelAsksSteps ==
  ASSUME SentInv, CancelAsks
  PROVE  SentInv'
<1>1. CancelStep /\ Frozen /\ run' = run /\ UNCHANGED <<history, inbox>>
  BY CancelFrozen DEF CancelAsks
<1>2. HistoryInv' /\ InboxInv'
  BY <1>1, Untouched
<1>3. PICK t : t = cancelling.transfer
  OBVIOUS
<1>4. /\ t \in Transfers /\ cancelling.todo # {} /\ cancelling.todo \subseteq Files
      /\ cancelling.pc = "ask"
  BY <1>3 DEF CancelAsks, SentInv, CancelInv, CancelOK, CancelRecord
<1>5. CancelInv'
  BY <1>1, <1>4, CancelMoves DEF CancelAsks
<1>6. PICK f : f = NextToCancel
  OBVIOUS
<1>7. f \in Files
  BY <1>4, <1>6, NextIsDoomed
<1>8. request[t] \in RequestRecord /\ request[t].at \in Nat
  BY <1>4 DEF SentInv, RunsInv, RequestRecord
<1>9. NetworkInv'
  <2>1. PICK m : m = [kind |-> "cancel", file |-> f]
    OBVIOUS
  <2>2. m \in ControlMessages
    BY <1>7, <2>1 DEF ControlMessages
  <2>3. Controls(t, <<m>>) \/ UNCHANGED wire
    BY <1>3, <1>6, <2>1 DEF CancelAsks
  <2>4. wire' \in [Transfers -> Seq(ControlMessages)]
    BY <2>2, <2>3, ControlsSent DEF SentInv, NetworkInv, ControlMessages
  <2>5. late' = late \/ late' = late \cup {[file |-> f, at |-> request[t].at]}
    BY <1>3, <1>6 DEF CancelAsks
  <2>6. late' \subseteq [file : Files, at : Nat]
    BY <1>7, <1>8, <2>5 DEF SentInv, NetworkInv
  <2>7. QED
    BY <2>4, <2>6 DEF NetworkInv, ControlMessages
<1>10. RunsInv'
  <2>1. request' = request \/ request' = [request EXCEPT ![t].reply = "lost"]
    BY <1>3 DEF CancelAsks
  <2>2. PICK q : q = [request[t] EXCEPT !.reply = "lost"]
    OBVIOUS
  <2>3. q \in RequestRecord /\ q.reply = "lost"
    BY <1>8, <2>2 DEF RequestRecord
  <2>4. CASE request' = request
    BY <1>1, <2>4, Untouched
  <2>5. CASE request' = [request EXCEPT ![t] = q]
    <3>1. /\ request' \in [Transfers -> RequestRecord] /\ request'[t].reply = "lost"
          /\ \A u \in Transfers \ {t} : request'[u] = request[u]
      BY <1>4, <2>3, <2>5 DEF SentInv, RunsInv
    <3>2. QED
      BY <1>1, <3>1, FrozenLaptop, RequestsMove
  <2>6. QED
    BY <2>1, <2>2, <2>4, <2>5
<1>11. QED
  BY <1>1, <1>2, <1>5, <1>9, <1>10, CancelStepDone

LEMMA CancelFinishesSteps ==
  ASSUME SentInv, CancelFinishes
  PROVE  SentInv'
<1>1. CancelStep /\ Frozen /\ run' = run /\ UNCHANGED network
  BY CancelFrozen DEF CancelFinishes
<1>2. InboxInv' /\ NetworkInv' /\ RunsInv'
  BY <1>1, Untouched
<1>3. CancelOK(cancelling) /\ cancelling.pc = "finish"
  BY DEF CancelFinishes, SentInv, CancelInv
<1>4. cancelling.transfer \in Transfers /\ cancelling.todo # {} /\ Copy(cancelling.copy)
  BY <1>3 DEF CancelOK
<1>5. CancelInv'
  BY <1>1, <1>3, <1>4, CancelMoves DEF CancelFinishes
<1>6. PICK s : s = PhoneBatchOf(cancelling.transfer, cancelling.copy)
  OBVIOUS
<1>7. s \in PhoneBatchStatus /\ (s = "completed" => Received(cancelling.transfer))
  BY <1>4, <1>6, BatchStatusType, CompletedBatch
<1>8. Write(cancelling.transfer, cancelling.copy, s)
  BY <1>6 DEF CancelFinishes
<1>9. HistoryInv'
  BY <1>1, <1>4, <1>7, <1>8, Written
<1>10. QED
  BY <1>1, <1>2, <1>5, <1>9, CancelStepDone

LEMMA CancelSteps ==
  ASSUME SentInv, CancelNext
  PROVE  SentInv'
BY CancelReadsSteps, CancelActsSteps, CancelAsksSteps, CancelFinishesSteps DEF CancelNext

-----------------------------------------------------------------------------
(* The user, and the restart of the app                                    *)

LEMMA Scheduled ==
  ASSUME SentInv, Frozen, NEW t, NEW F, Copy(F), NEW s,
         t \in Transfers => s \in PhoneBatchStatus /\ (s = "completed" => Received(t)),
         Schedule(t, F, s), UNCHANGED request
  PROVE  CopiesInv' /\ RunsInv'
<1>1. CASE UNCHANGED copies
  BY <1>1, Untouched DEF copies
<1>2. CASE ~UNCHANGED copies
  <2>1. /\ run[t].pc = "idle" /\ sending' = sending
        /\ run' = [run EXCEPT ![t] = [NoRun EXCEPT !.pc = "connect", !.status = s]]
        /\ local' = [f \in Files |-> IF Owner[f] = t THEN F[f] ELSE local[f]]
    BY <1>2 DEF Schedule
  <2>2. PICK G : G = [f \in Files |-> IF Owner[f] = t THEN F[f] ELSE local[f]]
    OBVIOUS
  <2>3. Copy(G) /\ Copy(sending)
    BY <2>2, CopyMixes DEF SentInv, CopiesInv
  <2>4. CopiesInv'
    BY <2>1, <2>2, <2>3, CopiesWritten
  <2>5. PICK r : r = [NoRun EXCEPT !.pc = "connect", !.status = s]
    OBVIOUS
  <2>6. run' = [run EXCEPT ![t] = r]
    BY <2>1, <2>5
  <2>7. CASE t \in Transfers
    <3>1. r \in RunRecord /\ r.pc = "connect" /\ r.status = s
      <4>1. NoRequest \in RequestRecord /\ NoRequest.reply = "none"
        BY DEF NoRequest, RequestRecord
      <4>2. NoRun \in RunRecord
        BY <2>7, <4>1, NoRunOK
      <4>3. "connect" \in RunPcs /\ s \in PhoneBatchStatus
        BY <2>7 DEF RunPcs
      <4>4. QED
        BY <2>5, <4>2, <4>3 DEF RunRecord
    <3>2. RunsInv'
      BY <2>1, <2>6, <2>7, <3>1, RunPrepares DEF FilePcs
    <3>3. QED
      BY <2>4, <3>2
  <2>8. CASE t \notin Transfers
    <3>1. run' = run
      BY <2>6, <2>8 DEF SentInv, RunsInv
    <3>2. QED
      BY <2>4, <3>1, Untouched
  <2>9. QED
    BY <2>7, <2>8
<1>3. QED
  BY <1>1, <1>2

LEMMA EnqueueSteps ==
  ASSUME SentInv, NEW t \in Transfers, PhoneEnqueue(t)
  PROVE  SentInv'
<1>1. Frozen /\ UNCHANGED <<cancelling, resuming>> /\ UNCHANGED network
  BY DEF PhoneEnqueue, Frozen, laptop
<1>2. InboxInv' /\ NetworkInv' /\ UNCHANGED request
  BY <1>1, Untouched
<1>3. PICK F : F = [f \in Files |-> IF Owner[f] = t THEN "preparing" ELSE stored[f]]
  OBVIOUS
<1>4. Copy(F)
  BY <1>3 DEF SentInv, HistoryInv, Copy, PhoneFileStatus
<1>5. stored' = F /\ Schedule(t, F, "preparing") /\ kept' = [kept EXCEPT ![t] = "preparing"]
  BY <1>3 DEF PhoneEnqueue
<1>6. "preparing" \in PhoneBatchStatus
  BY DEF PhoneBatchStatus
<1>7. CopiesInv' /\ RunsInv'
  BY <1>1, <1>2, <1>4, <1>5, <1>6, Scheduled
<1>8. HistoryInv'
  <2>1. Copy(stored)'
    BY <1>4, <1>5, StillReceived, <1>1 DEF Copy
  <2>2. BatchCopy(kept)'
    BY <1>1, <1>5, <1>6, StillReceived DEF SentInv, HistoryInv, BatchCopy
  <2>3. QED
    BY <2>1, <2>2 DEF HistoryInv
<1>9. QED
  BY <1>1, <1>2, <1>7, <1>8, RunStepDone

LEMMA RetrySteps ==
  ASSUME SentInv, NEW t \in Transfers, Retry(t)
  PROVE  SentInv'
<1>1. Frozen /\ UNCHANGED <<cancelling, resuming>> /\ UNCHANGED network
  BY DEF Retry, Frozen, laptop
<1>2. InboxInv' /\ NetworkInv' /\ UNCHANGED request
  BY <1>1, Untouched
<1>3. PICK F : F = [f \in Files |-> IF Owner[f] = t /\ stored[f] # "completed"
                                    THEN "preparing" ELSE stored[f]]
  OBVIOUS
<1>4. Copy(F)
  BY <1>3 DEF SentInv, HistoryInv, Copy, PhoneFileStatus
<1>5. Write(t, F, "preparing") /\ (Schedule(t, F, "preparing") \/ UNCHANGED copies)
  BY <1>3 DEF Retry
<1>6. "preparing" \in PhoneBatchStatus
  BY DEF PhoneBatchStatus
<1>7. HistoryInv'
  BY <1>1, <1>4, <1>5, <1>6, Written
<1>8. CopiesInv' /\ RunsInv'
  <2>1. CASE Schedule(t, F, "preparing")
    BY <1>1, <1>2, <1>4, <1>6, <2>1, Scheduled
  <2>2. CASE UNCHANGED copies
    BY <1>1, <1>2, <2>2, Untouched DEF copies
  <2>3. QED
    BY <1>5, <2>1, <2>2
<1>9. QED
  BY <1>1, <1>2, <1>7, <1>8, RunStepDone

LEMMA VanishSteps ==
  ASSUME SentInv, NEW f \in Files, Vanish(f)
  PROVE  SentInv'
<1>1. /\ Frozen /\ UNCHANGED <<cancelling, resuming>>
      /\ UNCHANGED history /\ UNCHANGED copies /\ UNCHANGED network
  BY DEF Vanish, Frozen, laptop
<1>2. HistoryInv' /\ CopiesInv' /\ InboxInv' /\ NetworkInv' /\ RunsInv'
  BY <1>1, Untouched DEF copies
<1>3. QED
  BY <1>1, <1>2, RunStepDone

LEMMA NothingResumes ==
  Copy(NoResume.files) /\ BatchCopy(NoResume.status)
BY DEF NoResume, Copy, BatchCopy, PhoneFileStatus, PhoneBatchStatus

(* The laptop keeps what it has; the phone keeps its history.              *)
LEMMA KillSteps ==
  ASSUME SentInv, Kill
  PROVE  SentInv'
<1>1. Frozen /\ UNCHANGED history
  BY DEF Kill, Frozen, laptop
<1>2. LaptopInv' /\ HistoryInv'
  BY <1>1, FrozenLaptop, Untouched
<1>3. CopiesInv'
  <2>1. PICK F : F = [f \in Files |-> "absent"]
    OBVIOUS
  <2>2. Copy(F)
    BY <2>1 DEF Copy, PhoneFileStatus
  <2>3. local' = F /\ sending' = F
    BY <2>1 DEF Kill
  <2>4. QED
    BY <1>1, <2>2, <2>3, CopiesWritten
<1>4. InboxInv' /\ inbox' = [t \in Transfers |-> <<>>]
  BY DEF Kill, InboxInv
<1>5. NetworkInv'
  <2>1. wire' \in [Transfers -> Seq(ControlMessages)]
    <3>1. wire' = wire \/ wire' = [t \in Transfers |-> <<>>]
      BY DEF Kill
    <3>2. wire \in [Transfers -> Seq(ControlMessages)] /\ <<>> \in Seq(ControlMessages)
      BY DEF SentInv, NetworkInv, ControlMessages
    <3>3. QED
      BY <3>1, <3>2
  <2>2. \A t \in Transfers : request[t].reply = "asked" => Current(t) \in Files
    BY RunsFile
  <2>3. \A t \in Transfers : request[t].at \in Nat
    BY DEF SentInv, RunsInv, RequestRecord
  <2>4. late' \subseteq [file : Files, at : Nat]
    BY <2>2, <2>3 DEF Kill, SentInv, NetworkInv
  <2>5. QED
    BY <2>1, <2>4 DEF NetworkInv, ControlMessages
<1>6. RunsInv'
  <2>1. run' = [t \in Transfers |-> NoRun] /\ request' = [t \in Transfers |-> NoRequest]
    BY DEF Kill
  <2>2. NoRequest \in RequestRecord /\ NoRequest.reply = "none"
    BY DEF NoRequest, RequestRecord
  <2>3. \A t \in Transfers : NoRun \in RunRecord
    BY <2>2, NoRunOK
  <2>4. NoRun.pc = "idle" /\ NoRun.status = "absent"
    BY DEF NoRun
  <2>5. ASSUME NEW t \in Transfers
        PROVE  RunOK(t, run[t], request[t])'
    <3>1. run'[t] = NoRun /\ request'[t] = NoRequest
      BY <2>1
    <3>2. QED
      BY <2>2, <2>4, <3>1 DEF RunOK, FilePcs
  <2>6. QED
    BY <2>1, <2>2, <2>3, <2>5 DEF RunsInv
<1>7. CancelInv'
  BY <1>1, NoCancelOK, CancelKept DEF Kill
<1>8. ResumeInv'
  <2>1. PICK c : c = [NoResume EXCEPT !.pc = "load"]
    OBVIOUS
  <2>2. /\ DOMAIN c = {"pc", "batches", "files", "status"}
        /\ c.files = NoResume.files /\ c.status = NoResume.status
    BY <2>1 DEF NoResume
  <2>3. Copy(c.files) /\ BatchCopy(c.status) /\ resuming' = c
    BY <2>1, <2>2, NothingResumes DEF Kill
  <2>4. QED
    BY <1>1, <2>2, <2>3, StillReceived DEF ResumeInv, Copy, BatchCopy
<1>9. QED
  BY <1>2, <1>3, <1>4, <1>5, <1>6, <1>7, <1>8 DEF SentInv

(* resumePending goes by the copy it loaded at first.                      *)
LEMMA ResumeSteps ==
  ASSUME SentInv, Resume
  PROVE  SentInv'
<1>1. Frozen /\ cancelling' = cancelling /\ UNCHANGED network
  BY DEF Resume, ResumeLoads, ResumeNext, ResumeWaits, ResumeEnds, ResumeStep, Frozen, laptop
<1>2. LaptopInv' /\ InboxInv' /\ NetworkInv' /\ UNCHANGED request
  BY <1>1, FrozenLaptop, Untouched
<1>3. CancelInv'
  BY <1>1, FrozenLaptop, Rest
<1>4. /\ DOMAIN resuming = {"pc", "batches", "files", "status"}
      /\ Copy(resuming.files) /\ BatchCopy(resuming.status)
  BY DEF SentInv, ResumeInv
<1>5. ResumeInv'
  <2>1. \/ /\ resuming' = [pc |-> "next", files |-> stored, status |-> kept,
                           batches |-> SelectSeq(created, LAMBDA t : kept[t] \in Unfinished)]
        \/ resuming' = NoResume
        \/ /\ DOMAIN resuming' = DOMAIN resuming
           /\ resuming'.files = resuming.files /\ resuming'.status = resuming.status
    <3>1. CASE ResumeLoads
      BY <3>1 DEF ResumeLoads
    <3>2. CASE ResumeNext
      <4>1. \/ resuming' = [resuming EXCEPT !.batches = Tail(@)]
            \/ resuming' = [resuming EXCEPT !.pc = "run"]
        BY <3>2 DEF ResumeNext
      <4>2. QED
        BY <1>4, <4>1
    <3>3. CASE ResumeWaits
      BY <1>4, <3>3 DEF ResumeWaits
    <3>4. CASE ResumeEnds
      BY <3>4 DEF ResumeEnds
    <3>5. QED
      BY <3>1, <3>2, <3>3, <3>4 DEF Resume
  <2>2. /\ DOMAIN resuming' = {"pc", "batches", "files", "status"}
        /\ Copy(resuming'.files) /\ BatchCopy(resuming'.status)
    <3>1. Copy(stored) /\ BatchCopy(kept)
      BY DEF SentInv, HistoryInv
    <3>2. DOMAIN NoResume = {"pc", "batches", "files", "status"}
      BY DEF NoResume
    <3>3. QED
      BY <1>4, <2>1, <3>1, <3>2, NothingResumes
  <2>3. QED
    BY <1>1, <2>2, StillReceived DEF ResumeInv, Copy, BatchCopy
<1>6. HistoryInv' /\ CopiesInv' /\ RunsInv'
  <2>1. PICK t : t = Head(resuming.batches)
    OBVIOUS
  <2>2. PICK F : F = resuming.files
    OBVIOUS
  <2>3. \/ UNCHANGED history /\ UNCHANGED copies
        \/ Write(t, Failed(F), "failed") /\ UNCHANGED copies
        \/ Schedule(t, F, resuming.status[t]) /\ UNCHANGED history
    BY <2>1, <2>2 DEF Resume, ResumeLoads, ResumeNext, ResumeWaits, ResumeEnds
  <2>4. CASE UNCHANGED history /\ UNCHANGED copies
    BY <1>1, <1>2, <2>4, Untouched DEF copies
  <2>5. CASE Write(t, Failed(F), "failed") /\ UNCHANGED copies
    <3>1. PICK G : G = Failed(F)
      OBVIOUS
    <3>2. Copy(G) /\ "failed" \in PhoneBatchStatus
      BY <1>4, <2>2, <3>1, CopyFails DEF PhoneBatchStatus, PhoneTerminal
    <3>3. HistoryInv'
      BY <1>1, <2>5, <3>1, <3>2, Written
    <3>4. QED
      BY <1>1, <1>2, <2>5, <3>3, Untouched DEF copies
  <2>6. CASE Schedule(t, F, resuming.status[t]) /\ UNCHANGED history
    <3>1. PICK s : s = resuming.status[t]
      OBVIOUS
    <3>2. t \in Transfers => s \in PhoneBatchStatus /\ (s = "completed" => Received(t))
      BY <1>4, <3>1 DEF BatchCopy
    <3>3. Copy(F) /\ Schedule(t, F, s)
      BY <1>4, <2>2, <2>6, <3>1
    <3>4. CopiesInv' /\ RunsInv'
      BY <1>1, <1>2, <3>2, <3>3, Scheduled
    <3>5. QED
      BY <1>1, <2>6, <3>4, Untouched
  <2>7. QED
    BY <2>3, <2>4, <2>5, <2>6
<1>7. QED
  BY <1>2, <1>3, <1>5, <1>6 DEF SentInv
-----------------------------------------------------------------------------
(* The theorem                                                             *)

LEMMA InitEstablishes ==
  ASSUME SenderInit
  PROVE  SentInv
<1>1. LaptopInv
  <2>1. NoFile \in FileRecord /\ NoFile.status = "absent"
    BY DEF NoFile, NewFile, FileRecord, FileStatus
  <2>2. NoBatch \in BatchRecord /\ NoBatch.status = "absent"
    BY DEF NoBatch, BatchRecord, BatchStatus
  <2>3. QED
    BY <2>1, <2>2 DEF SenderInit, Init, LaptopInv
<1>2. HistoryInv /\ CopiesInv
  BY DEF SenderInit, HistoryInv, CopiesInv, Copy, BatchCopy, PhoneFileStatus, PhoneBatchStatus
<1>3. InboxInv /\ NetworkInv
  BY DEF SenderInit, InboxInv, NetworkInv
<1>4. RunsInv
  <2>1. NoRequest \in RequestRecord /\ NoRequest.reply = "none"
    BY DEF NoRequest, RequestRecord
  <2>2. \A t \in Transfers : NoRun \in RunRecord /\ RunOK(t, NoRun, NoRequest)
    BY <2>1, NoRunOK
  <2>3. run = [t \in Transfers |-> NoRun] /\ request = [t \in Transfers |-> NoRequest]
    BY DEF SenderInit
  <2>4. QED
    BY <2>1, <2>2, <2>3 DEF RunsInv
<1>5. CancelInv
  BY NoCancelOK DEF SenderInit, CancelInv
<1>6. ResumeInv
  <2>1. resuming = NoResume
    BY DEF SenderInit
  <2>2. DOMAIN NoResume = {"pc", "batches", "files", "status"}
    BY DEF NoResume
  <2>3. QED
    BY <2>1, <2>2, NothingResumes DEF ResumeInv
<1>7. QED
  BY <1>1, <1>2, <1>3, <1>4, <1>5, <1>6 DEF SentInv

LEMMA StutterKeeps ==
  ASSUME SentInv, UNCHANGED senderVars
  PROVE  SentInv'
<1>1. /\ Frozen /\ UNCHANGED history /\ UNCHANGED copies /\ UNCHANGED network
      /\ UNCHANGED <<cancelling, resuming>>
  BY DEF senderVars, Frozen, laptop
<1>2. HistoryInv' /\ CopiesInv' /\ InboxInv' /\ NetworkInv' /\ RunsInv'
  BY <1>1, Untouched DEF copies
<1>3. QED
  BY <1>1, <1>2, RunStepDone

LEMMA NextKeeps ==
  ASSUME SentInv, SendNext
  PROVE  SentInv'
<1>1. ASSUME NEW t \in Transfers, RunStep(t)
      PROVE  SentInv'
  BY <1>1, PrepareSteps, SendSteps, LoseAnswerSteps DEF RunStep
<1>2. ASSUME LaptopStep
      PROVE  SentInv'
  BY <1>2, TakeNewOfferSteps, KnownOfferSteps, TakeCancelSteps, AnswerPutSteps,
     ActivateNothingSteps, ActivateFileSteps, VerificationSteps, FailLeavingSteps,
     TakeLateSteps DEF LaptopStep
<1>3. ASSUME FaultStep
      PROVE  SentInv'
  BY <1>3, NetworkLostSteps, VerificationSteps, ConnectSteps, ProbeFailsSteps,
     ReconnectSteps, RejectOfferSteps, PutLostSteps, LoseAnswerSteps DEF FaultStep
<1>4. ASSUME UserStep
      PROVE  SentInv'
  BY <1>4, EnqueueSteps, CancelBeginsSteps, RetrySteps, VanishSteps, KillSteps DEF UserStep
<1>5. QED
  BY <1>1, <1>2, <1>3, <1>4, CancelSteps, ResumeSteps DEF SendNext

(* What the phone's history calls completed has arrived and was verified   *)
(* on the laptop, whatever was lost, repeated, cancelled, retried or       *)
(* killed on the way: the history of PhoneTransferSender against the       *)
(* queue of the laptop.                                                    *)
THEOREM SentArrives == SendSpec => []SentIsReceived
<1>1. SenderInit => SentInv
  BY InitEstablishes
<1>2. SentInv /\ [SendNext]_senderVars => SentInv'
  BY NextKeeps, StutterKeeps
<1>3. SentInv => SentIsReceived
  BY DEF SentInv, HistoryInv, Copy, BatchCopy, SentIsReceived, Done, Received
<1>4. QED
  BY <1>1, <1>2, <1>3, PTL DEF SendSpec
=============================================================================
