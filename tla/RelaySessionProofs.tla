-------------------------- MODULE RelaySessionProofs --------------------------
(* Proofs about RelaySettings and RelaySession for any folders, any number *)
(* of requests, failed writes and restarts, and any connections.           *)
EXTENDS RelaySession, SequenceTheorems, TLAPS

(* What a request that is under way has made of the file, and what the     *)
(* file and memory agree on: what SettledIsSaved misses to be inductive.   *)
Rotation == request["rotate"]
Change == request["folders"]
OneRequest == Rotation.pc = "idle" \/ Change.pc = "idle"
Changed(content) == [secret |-> content.secret, folders |-> Change.next]

SavedInv ==
  /\ ~up => Rotation.pc = "idle" /\ Change.pc = "idle"
  /\ up /\ ~mixed =>
       /\ OneRequest
       /\ config = [secret |-> value, folders |-> folders]
       /\ Rotation.pc = "idle" /\ Change.pc \in {"idle", "called"} => file = config
       /\ Rotation.pc = "opened" => file = Torn /\ Rotation.content = config
       /\ Rotation.pc = "written" => file = config
       /\ Change.pc \in {"called", "opened"} => Change.content = Changed(config)
       /\ Change.pc = "opened" => file = Torn
       /\ Change.pc = "written" => file = Changed(config)

SettingsInv == SettingsTypeOK /\ SavedInv
-----------------------------------------------------------------------------
(* The records of the requests: what a request is set to is what it is.    *)
LEMMA IdleIsTyped ==
  /\ Idle = [pc |-> "idle", previous |-> 0, next |-> {}, content |-> Torn]
  /\ Torn = [secret |-> 0, folders |-> Folders] /\ Torn \in Content
  /\ NoFile = [secret |-> 0, folders |-> {}] /\ NoFile \in Content
  /\ Kinds = {"rotate", "folders"}
BY DEF Idle, Torn, NoFile, Content, Kinds

LEMMA NewRequests ==
  ASSUME NEW v, NEW n, NEW c
  PROVE  /\ [Idle EXCEPT !.pc = "called", !.previous = v]
              = [pc |-> "called", previous |-> v, next |-> {}, content |-> Torn]
         /\ [Idle EXCEPT !.pc = "called", !.next = n, !.content = c]
              = [pc |-> "called", previous |-> 0, next |-> n, content |-> c]
<1> DEFINE called == [pc |-> "called", previous |-> 0, next |-> {}, content |-> Torn]
           moved == [pc |-> "called", previous |-> 0, next |-> n, content |-> Torn]
<1>1. ASSUME NEW i, i = [pc |-> "idle", previous |-> 0, next |-> {}, content |-> Torn]
      PROVE  [i EXCEPT !.pc = "called"] = called
  BY <1>1
<1>2. ASSUME NEW i, i = called
      PROVE  /\ [i EXCEPT !.previous = v]
                  = [pc |-> "called", previous |-> v, next |-> {}, content |-> Torn]
             /\ [i EXCEPT !.next = n] = moved
  BY <1>2
<1>3. ASSUME NEW i, i = moved
      PROVE  [i EXCEPT !.content = c]
               = [pc |-> "called", previous |-> 0, next |-> n, content |-> c]
  BY <1>3
<1>4. ASSUME NEW i, i = [pc |-> "idle", previous |-> 0, next |-> {}, content |-> Torn]
      PROVE  /\ [i EXCEPT !.pc = "called", !.previous = v]
                  = [[i EXCEPT !.pc = "called"] EXCEPT !.previous = v]
             /\ [i EXCEPT !.pc = "called", !.next = n, !.content = c]
                  = [[[i EXCEPT !.pc = "called"] EXCEPT !.next = n] EXCEPT !.content = c]
  BY <1>4
<1> HIDE DEF called, moved
<1>5. Idle = [pc |-> "idle", previous |-> 0, next |-> {}, content |-> Torn]
  BY DEF Idle
<1>6. QED
  BY <1>1, <1>2, <1>3, <1>4, <1>5

Record == [pc : {"idle", "called", "opened", "written"}, previous : Nat,
           next : SUBSET Folders, content : Content]

LEMMA InitSettings == SettingsInit => SettingsInv
<1> SUFFICES ASSUME SettingsInit PROVE SettingsInv
  OBVIOUS
<1>1. Idle \in Record /\ Idle.pc = "idle"
  BY IdleIsTyped DEF Record
<1>2. SettingsTypeOK
  BY <1>1, IdleIsTyped DEF SettingsInit, SettingsTypeOK, Record, Content
<1>3. SavedInv
  BY <1>1, IdleIsTyped DEF SettingsInit, SavedInv, Rotation, Change
<1>4. QED
  BY <1>2, <1>3 DEF SettingsInv

(* The start loads what the file holds, or creates it.                     *)
LEMMA StartKeepsSettings == SettingsInv /\ Start => SettingsInv'
<1> SUFFICES ASSUME SettingsInv, Start PROVE SettingsInv'
  OBVIOUS
<1>1. /\ SettingsTypeOK /\ ~up /\ request' = request
      /\ Rotation.pc = "idle" /\ Change.pc = "idle"
  BY DEF SettingsInv, SavedInv, Start
<1>2. /\ config' \in Content /\ config' = file'
      /\ config' = [secret |-> value', folders |-> folders']
      /\ value' \in Nat /\ folders' \in SUBSET Folders /\ issued' \in Nat
  BY <1>1, IdleIsTyped DEF Start, NewSecret, SettingsTypeOK, Content
<1>3. SettingsTypeOK'
  BY <1>1, <1>2 DEF SettingsTypeOK, Start
<1>4. Rotation'.pc = "idle" /\ Change'.pc = "idle"
  BY <1>1 DEF Rotation, Change
<1>5. SavedInv'
  BY <1>2, <1>4 DEF SavedInv, OneRequest, Start
<1>6. QED
  BY <1>3, <1>5 DEF SettingsInv

LEMMA RotateKeepsSettings == SettingsInv /\ Rotate => SettingsInv'
<1> SUFFICES ASSUME SettingsInv, Rotate PROVE SettingsInv'
  OBVIOUS
<1> DEFINE r == [pc |-> "called", previous |-> value, next |-> {}, content |-> Torn]
<1>1. r = [Idle EXCEPT !.pc = "called", !.previous = value]
  BY NewRequests
<1>2. /\ SettingsTypeOK /\ SavedInv /\ up /\ up'
      /\ Rotation.pc = "idle"
      /\ requests' \in Nat
  BY DEF SettingsInv, Rotate, Rotation, Counted, SettingsTypeOK
<1>3. r \in Record
  BY <1>2, IdleIsTyped DEF Record, SettingsTypeOK
<1>4. request \in [Kinds -> Record] /\ request' = [request EXCEPT !["rotate"] = r]
  BY <1>1, <1>2 DEF Rotate, SettingsTypeOK, Record
<1> HIDE DEF r
<1>5. request' \in [Kinds -> Record] /\ Rotation' = r /\ Change' = Change
  BY <1>3, <1>4, IdleIsTyped DEF Rotation, Change
<1>6. r.pc = "called"
  BY DEF r
<1>7. /\ value' \in Nat /\ config' \in Content
      /\ config' = [secret |-> value', folders |-> config.folders]
      /\ UNCHANGED <<folders, file>>
  BY <1>2 DEF Rotate, NewSecret, SettingsTypeOK, Content
<1>8. SettingsTypeOK'
  BY <1>2, <1>5, <1>7 DEF SettingsTypeOK, Record, Rotate
<1>9. ~mixed' => ~mixed /\ Change.pc = "idle"
  BY <1>2, IdleIsTyped DEF Rotate, Busy, Change
<1>10. SavedInv'
  BY <1>2, <1>5, <1>6, <1>7, <1>9 DEF SavedInv, OneRequest
<1>11. QED
  BY <1>8, <1>10 DEF SettingsInv

LEMMA ChangeKeepsSettings == SettingsInv /\ ChangeFolders => SettingsInv'
<1> SUFFICES ASSUME SettingsInv, ChangeFolders PROVE SettingsInv'
  OBVIOUS
<1>1. PICK f \in Folders :
        request' = [request EXCEPT !["folders"] =
          [Idle EXCEPT !.pc = "called", !.next = AddedOrRemoved(f),
                       !.content = [config EXCEPT !.folders = AddedOrRemoved(f)]]]
  BY DEF ChangeFolders
<1> DEFINE next == AddedOrRemoved(f)
           content == [secret |-> config.secret, folders |-> next]
           r == [pc |-> "called", previous |-> 0, next |-> next, content |-> content]
<1>2. /\ SettingsTypeOK /\ SavedInv /\ up /\ up'
      /\ Change.pc = "idle" /\ requests' \in Nat
      /\ UNCHANGED <<value, config, folders, file, issued>>
  BY DEF SettingsInv, ChangeFolders, Change, Counted, SettingsTypeOK
<1>3. next \in SUBSET Folders /\ content \in Content
  BY <1>2 DEF SettingsTypeOK, AddedOrRemoved, Content
<1>4. [config EXCEPT !.folders = next] = content
  BY <1>2 DEF SettingsTypeOK, Content
<1> HIDE DEF content
<1>5. request' = [request EXCEPT !["folders"] = r]
  BY <1>1, <1>4, NewRequests
<1>6. r \in Record
  BY <1>3 DEF Record
<1>7. r.pc = "called" /\ r.content = content /\ r.next = next
  OBVIOUS
<1> HIDE DEF r
<1>8. request \in [Kinds -> Record]
  BY <1>2 DEF SettingsTypeOK, Record
<1>9. request' \in [Kinds -> Record] /\ Change' = r /\ Rotation' = Rotation
  BY <1>5, <1>6, <1>8, IdleIsTyped DEF Rotation, Change
<1>10. SettingsTypeOK'
  BY <1>2, <1>9 DEF SettingsTypeOK, Record
<1>11. ~mixed' => ~mixed /\ Rotation.pc = "idle"
  BY IdleIsTyped DEF ChangeFolders, Busy, Rotation
<1>12. Changed(config)' = content
  BY <1>2, <1>7, <1>9 DEF Changed, content
<1>13. SavedInv'
  BY <1>2, <1>7, <1>9, <1>11, <1>12 DEF SavedInv, OneRequest
<1>14. QED
  BY <1>10, <1>13 DEF SettingsInv

(* A request whose pc is set stays a record, and the rest of it stays.     *)
LEMMA MovedRequest ==
  ASSUME NEW w \in Record, NEW p \in {"idle", "called", "opened", "written"}
  PROVE  /\ [w EXCEPT !.pc = p] \in Record
         /\ [w EXCEPT !.pc = p].pc = p
         /\ [w EXCEPT !.pc = p].next = w.next
         /\ [w EXCEPT !.pc = p].content = w.content
BY DEF Record

LEMMA OpenKeepsSettings ==
  ASSUME NEW k \in Kinds PROVE SettingsInv /\ OpenFile(k) => SettingsInv'
<1> SUFFICES ASSUME SettingsInv, OpenFile(k) PROVE SettingsInv'
  OBVIOUS
<1> DEFINE c == IF k = "rotate" THEN config ELSE request[k].content
           r == [request[k] EXCEPT !.pc = "opened", !.content = c]
<1>1. /\ SettingsTypeOK /\ SavedInv /\ request[k].pc = "called" /\ file' = Torn
      /\ UNCHANGED <<value, config, folders, issued, up, mixed, requests>>
      /\ request \in [Kinds -> Record]
  BY DEF SettingsInv, OpenFile, SettingsTypeOK, Record
<1>2. request[k] \in Record /\ c \in Content
  BY <1>1 DEF SettingsTypeOK, Record
<1>3. request' = [request EXCEPT ![k] = r]
  BY DEF OpenFile
<1> HIDE DEF c
<1>4. r \in Record /\ r.pc = "opened" /\ r.content = c /\ r.next = request[k].next
  BY <1>2 DEF Record
<1> HIDE DEF r
<1>5. request' \in [Kinds -> Record]
  BY <1>1, <1>3, <1>4
<1>6. SettingsTypeOK'
  <2>1. file' \in Content
    BY <1>1, IdleIsTyped
  <2>2. QED
    BY <1>1, <1>5, <2>1 DEF SettingsTypeOK, Record
<1>7. CASE k = "rotate"
  <2>1. Rotation' = r /\ Change' = Change /\ Rotation.pc = "called" /\ c = config
    BY <1>1, <1>3, <1>7, IdleIsTyped DEF Rotation, Change, c
  <2>2. SavedInv'
    BY <1>1, <1>4, <2>1 DEF SavedInv, OneRequest
  <2>3. QED
    BY <1>6, <2>2 DEF SettingsInv
<1>8. CASE k = "folders"
  <2>1. /\ Change' = r /\ Rotation' = Rotation /\ Change.pc = "called"
        /\ c = Change.content /\ r.next = Change.next
    BY <1>1, <1>3, <1>4, <1>8, IdleIsTyped DEF Rotation, Change, c
  <2>2. Changed(config)' = Changed(config)
    BY <1>1, <2>1 DEF Changed
  <2>3. SavedInv'
    BY <1>1, <1>4, <2>1, <2>2 DEF SavedInv, OneRequest
  <2>4. QED
    BY <1>6, <2>3 DEF SettingsInv
<1>9. QED
  BY <1>7, <1>8, IdleIsTyped

LEMMA WriteKeepsSettings ==
  ASSUME NEW k \in Kinds PROVE SettingsInv /\ WriteFile(k) => SettingsInv'
<1> SUFFICES ASSUME SettingsInv, WriteFile(k) PROVE SettingsInv'
  OBVIOUS
<1> DEFINE r == [request[k] EXCEPT !.pc = "written"]
<1>1. /\ SettingsTypeOK /\ SavedInv /\ request[k].pc = "opened"
      /\ UNCHANGED <<value, config, folders, issued, up, mixed, requests>>
      /\ request \in [Kinds -> Record]
      /\ request' = [request EXCEPT ![k] = r]
  BY DEF SettingsInv, WriteFile, SettingsTypeOK, Record
<1>2. request[k] \in Record /\ request[k].content \in Content
  BY <1>1 DEF Record
<1>3. /\ r \in Record /\ r.pc = "written"
      /\ r.next = request[k].next /\ r.content = request[k].content
  BY <1>2, MovedRequest
<1> HIDE DEF r
<1>4. request' \in [Kinds -> Record]
  BY <1>1, <1>3
<1>5. file' \in Content /\ (file = Torn => file' = request[k].content)
  BY <1>1, <1>2, IdleIsTyped DEF WriteFile, SettingsTypeOK
<1>6. SettingsTypeOK'
  BY <1>1, <1>4, <1>5 DEF SettingsTypeOK, Record
<1>7. CASE k = "rotate"
  <2>1. /\ Rotation' = r /\ Change' = Change /\ Rotation.pc = "opened"
        /\ file = Torn => file' = Rotation.content
    BY <1>1, <1>5, <1>7, IdleIsTyped DEF Rotation, Change
  <2>2. SavedInv'
    BY <1>1, <1>3, <2>1 DEF SavedInv, OneRequest
  <2>3. QED
    BY <1>6, <2>2 DEF SettingsInv
<1>8. CASE k = "folders"
  <2>1. /\ Change' = r /\ Rotation' = Rotation /\ Change.pc = "opened"
        /\ file = Torn => file' = Change.content
        /\ r.next = Change.next
    BY <1>1, <1>3, <1>5, <1>8, IdleIsTyped DEF Rotation, Change
  <2>2. Changed(config)' = Changed(config)
    BY <1>1, <2>1 DEF Changed
  <2>3. SavedInv'
    BY <1>1, <1>3, <2>1, <2>2 DEF SavedInv, OneRequest
  <2>4. QED
    BY <1>6, <2>3 DEF SettingsInv
<1>9. QED
  BY <1>7, <1>8, IdleIsTyped

(* A request that ends leaves an idle record.                              *)
LEMMA EndedRequest ==
  ASSUME SettingsTypeOK, NEW k \in Kinds, request' = [request EXCEPT ![k] = Idle]
  PROVE  /\ request' \in [Kinds -> Record]
         /\ k = "rotate" => Rotation'.pc = "idle" /\ Change' = Change
         /\ k = "folders" => Change'.pc = "idle" /\ Rotation' = Rotation
<1>1. Idle \in Record /\ Idle.pc = "idle"
  BY IdleIsTyped DEF Record
<1>2. request \in [Kinds -> Record]
  BY DEF SettingsTypeOK, Record
<1>3. QED
  BY <1>1, <1>2, IdleIsTyped DEF Rotation, Change

LEMMA RotatedKeepsSettings == SettingsInv /\ Rotated => SettingsInv'
<1> SUFFICES ASSUME SettingsInv, Rotated PROVE SettingsInv'
  OBVIOUS
<1>1. /\ SettingsTypeOK /\ SavedInv /\ Rotation.pc = "written"
      /\ UNCHANGED <<value, config, folders, file, issued, up, mixed, requests>>
  BY DEF SettingsInv, Rotated, Rotation
<1>2. request' \in [Kinds -> Record] /\ Rotation'.pc = "idle" /\ Change' = Change
  BY <1>1, EndedRequest, IdleIsTyped DEF Rotated
<1>3. SettingsTypeOK'
  BY <1>1, <1>2 DEF SettingsTypeOK, Record
<1>4. SavedInv'
  BY <1>1, <1>2 DEF SavedInv, OneRequest, Changed
<1>5. QED
  BY <1>3, <1>4 DEF SettingsInv

LEMMA FoldersKeepSettings == SettingsInv /\ FoldersChanged => SettingsInv'
<1> SUFFICES ASSUME SettingsInv, FoldersChanged PROVE SettingsInv'
  OBVIOUS
<1>1. /\ SettingsTypeOK /\ SavedInv /\ Change.pc = "written"
      /\ config' = [config EXCEPT !.folders = Change.next]
      /\ folders' = Change.next
      /\ UNCHANGED <<value, file, issued, up, mixed, requests>>
  BY DEF SettingsInv, FoldersChanged, Change
<1>2. request' \in [Kinds -> Record] /\ Change'.pc = "idle" /\ Rotation' = Rotation
  BY <1>1, EndedRequest, IdleIsTyped DEF FoldersChanged
<1>3. Change.next \in SUBSET Folders
  BY <1>1, IdleIsTyped DEF SettingsTypeOK, Change
<1>4. config' = Changed(config) /\ config' \in Content
  BY <1>1, <1>3 DEF SettingsTypeOK, Content, Changed
<1>5. SettingsTypeOK'
  BY <1>1, <1>2, <1>3, <1>4 DEF SettingsTypeOK, Record
<1>6. Changed(config) = [secret |-> config.secret, folders |-> Change.next]
  BY DEF Changed
<1>7. ASSUME up, ~mixed
      PROVE  /\ config' = [secret |-> value, folders |-> Change.next]
             /\ file = config' /\ Rotation.pc = "idle"
  BY <1>1, <1>4, <1>6, <1>7 DEF SavedInv, OneRequest
<1>8. SavedInv'
  BY <1>1, <1>2, <1>7 DEF SavedInv, OneRequest
<1>9. QED
  BY <1>5, <1>8 DEF SettingsInv

LEMMA FailureKeepsSettings ==
  ASSUME NEW k \in Kinds PROVE SettingsInv /\ WriteFails(k) => SettingsInv'
<1> SUFFICES ASSUME SettingsInv, WriteFails(k) PROVE SettingsInv'
  OBVIOUS
<1>1. /\ SettingsTypeOK /\ SavedInv /\ request[k].pc \in {"called", "opened", "written"}
      /\ mixed' = (mixed \/ k = "rotate" \/ request[k].pc \in {"opened", "written"})
      /\ value' = IF k = "rotate" THEN request[k].previous ELSE value
      /\ UNCHANGED <<config, folders, file, issued, up, requests>>
  BY DEF SettingsInv, WriteFails, Fault
<1>2. /\ request' \in [Kinds -> Record]
      /\ k = "rotate" => Rotation'.pc = "idle" /\ Change' = Change
      /\ k = "folders" => Change'.pc = "idle" /\ Rotation' = Rotation
  BY <1>1, EndedRequest DEF WriteFails
<1>3. value' \in Nat
  BY <1>1 DEF SettingsTypeOK
<1>4. SettingsTypeOK'
  BY <1>1, <1>2, <1>3 DEF SettingsTypeOK, Record
<1>5. request["folders"] = Change /\ request["rotate"] = Rotation
  BY DEF Change, Rotation
<1>6. SavedInv'
  BY <1>1, <1>2, <1>5, IdleIsTyped DEF SavedInv, OneRequest
<1>7. QED
  BY <1>4, <1>6 DEF SettingsInv

LEMMA StopKeepsSettings == SettingsInv /\ Stop => SettingsInv'
<1> SUFFICES ASSUME SettingsInv, Stop PROVE SettingsInv'
  OBVIOUS
<1>1. /\ SettingsTypeOK /\ ~up'
      /\ UNCHANGED <<value, config, folders, file, issued, requests>>
      /\ request' = [k \in Kinds |-> Idle]
  BY DEF SettingsInv, Stop, Fault
<1>2. Idle \in Record /\ Idle.pc = "idle"
  BY IdleIsTyped DEF Record
<1>3. /\ request' \in [Kinds -> Record]
      /\ Rotation'.pc = "idle" /\ Change'.pc = "idle"
  BY <1>1, <1>2, IdleIsTyped DEF Rotation, Change
<1>4. SettingsTypeOK'
  BY <1>1, <1>3 DEF SettingsTypeOK, Record
<1>5. SavedInv'
  BY <1>1, <1>3 DEF SavedInv
<1>6. QED
  BY <1>4, <1>5 DEF SettingsInv

LEMMA NextKeepsSettings == SettingsInv /\ [SettingsNext]_settings => SettingsInv'
<1> SUFFICES ASSUME SettingsInv, [SettingsNext]_settings PROVE SettingsInv'
  OBVIOUS
<1>1. CASE UNCHANGED settings
  BY <1>1 DEF settings, SettingsInv, SettingsTypeOK, SavedInv, OneRequest, Changed,
              Rotation, Change
<1>2. CASE SettingsNext
  BY <1>2, StartKeepsSettings, RotateKeepsSettings, ChangeKeepsSettings,
     OpenKeepsSettings, WriteKeepsSettings, RotatedKeepsSettings, FoldersKeepSettings,
     FailureKeepsSettings, StopKeepsSettings DEF SettingsNext, SettingsStep
<1>3. QED
  BY <1>1, <1>2

LEMMA InvariantMeansSaved == SettingsInv => SettledIsSaved
<1> SUFFICES ASSUME SettingsInv, up, ~Busy, ~mixed
             PROVE  file = [secret |-> value, folders |-> folders]
  BY DEF SettledIsSaved
<1>1. Rotation.pc = "idle" /\ Change.pc = "idle"
  BY IdleIsTyped DEF Busy, Rotation, Change
<1>2. QED
  BY <1>1 DEF SettingsInv, SavedInv

(* Whatever requests, failures and restarts came before: when the Relay    *)
(* runs, no request is under way and no write since its start failed or    *)
(* met another, relay.json holds the secret and the folders in use.        *)
THEOREM SettingsAreSaved == SettingsSpec => []SettledIsSaved
<1>1. QED
  BY InitSettings, NextKeepsSettings, InvariantMeansSaved, PTL DEF SettingsSpec
-----------------------------------------------------------------------------
(* Every step of the sessions is a step of the settings or leaves them.    *)
LEMMA SessionStepsSettings == SessionNext => [SettingsNext]_settings
<1> SUFFICES ASSUME SessionNext PROVE [SettingsNext]_settings
  OBVIOUS
<1>1. CASE \E c \in Conns : Open(c) \/ RelayStep(c) \/ PhoneStep(c) \/ Cut(c)
  <2>1. PICK c \in Conns : Open(c) \/ RelayStep(c) \/ PhoneStep(c) \/ Cut(c)
    BY <1>1
  <2>2. CASE Open(c) \/ Cut(c)
    BY <2>2 DEF Open, Cut
  <2>3. CASE RelayStep(c)
    BY <2>3 DEF RelayStep, CheckProof, Authenticate, AuthTimeout, Receive, CloseArrives,
                Pong, OnRelay
  <2>4. CASE PhoneStep(c)
    BY <2>4 DEF PhoneStep, HandleHello, HandleAuthOk, HandleMessage, PhoneCloses,
                PhoneSends, OnPhone
  <2>5. QED
    BY <2>1, <2>2, <2>3, <2>4
<1>2. CASE Broadcast("control") \/ Heartbeat \/ Pair
  BY <1>2 DEF Broadcast, Heartbeat, Pair, OnRelay, OnPhone
<1>3. CASE KickDevices
  BY <1>3 DEF KickDevices, SettingsNext
<1>4. CASE RelayStops
  BY <1>4 DEF RelayStops, SettingsNext
<1>5. CASE OtherSettings
  BY <1>5 DEF OtherSettings, SettingsNext
<1>6. QED
  BY <1>1, <1>2, <1>3, <1>4, <1>5 DEF SessionNext

(* The sessions implement the settings they run on.                        *)
THEOREM SessionsImplementSettings == SessionSpec => SettingsSpec
<1>1. SessionInit => SettingsInit
  BY DEF SessionInit
<1>2. [SessionNext]_everything => [SettingsNext]_settings
  BY SessionStepsSettings DEF everything
<1>3. QED
  BY <1>1, <1>2, PTL DEF SessionSpec, SettingsSpec
-----------------------------------------------------------------------------
(* Types                                                                   *)
Seals == [key : Nat, sent : Nat, received : Nat]
States == {"new", "open", "closed"}
Reasons == {"none", "seal_failed", "seal_required", "relay_unverified"}
Messages == [kind : {"hello", "auth", "auth_ok", "payload", "publish", "ack", "control",
                     "sealed"}, key : Nat, n : Nat]
Sockets == [state : States, authenticated : BOOLEAN, checking : Nat, secret : Nat,
            seal : Seals, said : Nat, idle : Nat, why : Reasons]
Ends == [state : States, seal : Seals, said : Nat, why : Reasons]

(* All but the counters of a socket. *)
Same(s, t) ==
  /\ s.state = t.state /\ s.authenticated = t.authenticated
  /\ s.checking = t.checking /\ s.secret = t.secret
  /\ s.seal = t.seal /\ s.why = t.why

Typed ==
  /\ value \in Nat
  /\ socket \in [Conns -> Sockets]
  /\ end \in [Conns -> Ends]
  /\ link \in [Conns -> {"none", "up", "cut"}]
  /\ toPhone \in [Conns -> Seq(Messages)]
  /\ toRelay \in [Conns -> Seq(Messages)]
  /\ phoneSecret \in Nat
  /\ told \in {"none", "here", "gone"}
  /\ retired \subseteq Nat

(* What the helpers of the sealer return.                                  *)
LEMMA SealTypes ==
  ASSUME NEW q \in Seals, NEW m \in Messages, NEW key \in Nat,
         NEW kind \in {"hello", "auth", "auth_ok", "payload", "publish", "ack", "control",
                       "sealed"}
  PROVE  /\ Sealer(key) \in Seals /\ NoSeal \in Seals
         /\ AfterSeal(q, kind) \in Seals /\ AfterOpen(q, m) \in Seals
         /\ Sealed(q, kind) \in Messages
         /\ Plain(kind) \in Messages /\ Keyed(kind, key) \in Messages
         /\ Verdict(q, m) \in {"fine", "seal_failed", "seal_required"}
BY DEF Seals, Messages, Sealer, NoSeal, AfterSeal, AfterOpen, Sealed, Plain, Keyed, Verdict

(* A closed socket, as Close, the heartbeat and the rest of authenticate   *)
(* leave it.                                                               *)
LEMMA ClosedSocket ==
  ASSUME Typed, NEW c \in Conns, NEW why \in Reasons
  PROVE  /\ NewSocket \in Sockets /\ Closed(c) \in Sockets
         /\ Closed(c).state = "closed" /\ ~Closed(c).authenticated
         /\ Closed(c).checking = socket[c].checking
         /\ socket[c].checking # 0 => Closed(c).secret = socket[c].secret
         /\ Closed(c).seal = NoSeal /\ Closed(c).why = "none"
         /\ LET s == [Closed(c) EXCEPT !.why = why]
            IN  /\ s \in Sockets /\ s.state = "closed" /\ ~s.authenticated
                /\ s.checking = socket[c].checking
                /\ s.checking # 0 => s.secret = socket[c].secret
                /\ s.seal = NoSeal /\ s.why = why
         /\ LET s == [NewSocket EXCEPT !.state = "closed"]
            IN  /\ s \in Sockets /\ s.state = "closed" /\ ~s.authenticated
                /\ s.checking = 0 /\ s.why = "none"
         /\ LET s == [NewSocket EXCEPT !.state =
                        IF socket[c].state = "new" THEN "new" ELSE "closed"]
            IN  /\ s \in Sockets /\ s.state # "open" /\ ~s.authenticated
                /\ s.checking = 0 /\ s.why = "none"
<1>1. socket[c] \in Sockets
  BY DEF Typed
<1>2. NoSeal \in Seals
  BY DEF NoSeal, Sealer, Seals
<1>3. NewSocket \in Sockets
  BY <1>2 DEF NewSocket, Sockets, States, Reasons
<1>4. QED
  BY <1>1, <1>2, <1>3 DEF NewSocket, Closed, Sockets, States, Reasons

LEMMA CloseEffect ==
  ASSUME Typed, NEW gone \in SUBSET Devices, NEW why \in Reasons, Close(gone, why)
  PROVE  /\ socket' \in [Conns -> Sockets] /\ toRelay' \in [Conns -> Seq(Messages)]
         /\ told' \in {"none", "here", "gone"}
         /\ \A c \in gone :
              /\ socket'[c].state = "closed" /\ ~socket'[c].authenticated
              /\ socket'[c].checking = socket[c].checking
              /\ socket'[c].checking # 0 => socket'[c].secret = socket[c].secret
              /\ socket'[c].seal = NoSeal /\ socket'[c].why = why
              /\ toRelay'[c] = <<>>
         /\ \A c \in Conns \ gone : socket'[c] = socket[c] /\ toRelay'[c] = toRelay[c]
         /\ NotifyDeviceDisconnected(gone)
<1>1. gone \subseteq Conns
  BY DEF Devices
<1> DEFINE s(c) == [Closed(c) EXCEPT !.why = why]
<1>2. \A c \in gone :
        /\ s(c) \in Sockets /\ s(c).state = "closed" /\ ~s(c).authenticated
        /\ s(c).checking = socket[c].checking
        /\ s(c).checking # 0 => s(c).secret = socket[c].secret
        /\ s(c).seal = NoSeal /\ s(c).why = why
  BY <1>1, ClosedSocket
<1>3. socket' = [c \in Conns |-> IF c \in gone THEN s(c) ELSE socket[c]]
  BY DEF Close
<1> HIDE DEF s
<1>4. /\ socket' \in [Conns -> Sockets]
      /\ \A c \in gone : socket'[c] = s(c)
      /\ \A c \in Conns \ gone : socket'[c] = socket[c]
  BY <1>1, <1>2, <1>3 DEF Typed
<1>5. /\ toRelay' \in [Conns -> Seq(Messages)]
      /\ \A c \in gone : toRelay'[c] = <<>>
      /\ \A c \in Conns \ gone : toRelay'[c] = toRelay[c]
  BY <1>1 DEF Close, Typed
<1>6. told' \in {"none", "here", "gone"} /\ NotifyDeviceDisconnected(gone)
  BY DEF Close, NotifyDeviceDisconnected, Typed
<1>7. QED
  BY <1>2, <1>4, <1>5, <1>6

LEMMA HeartbeatEffect ==
  ASSUME Typed, Heartbeat
  PROVE  \E gone \in SUBSET Devices :
         /\ socket' \in [Conns -> Sockets] /\ toRelay' \in [Conns -> Seq(Messages)]
         /\ told' \in {"none", "here", "gone"}
         /\ \A c \in gone :
              /\ socket'[c].state = "closed" /\ ~socket'[c].authenticated
              /\ socket'[c].checking = socket[c].checking
              /\ socket'[c].checking # 0 => socket'[c].secret = socket[c].secret
              /\ socket'[c].seal = NoSeal /\ socket'[c].why = "none"
              /\ toRelay'[c] = <<>>
         /\ \A c \in Conns \ gone :
              /\ toRelay'[c] = toRelay[c]
              /\ Same(socket'[c], socket[c])
         /\ NotifyDeviceDisconnected(gone)
<1> DEFINE gone == {c \in Devices : socket[c].idle >= Patience}
           pinged(c) == [socket[c] EXCEPT !.idle = @ + 1]
<1>1. gone \subseteq Devices /\ Devices \subseteq Conns
  BY DEF Devices
<1>2. \A c \in Conns : /\ Closed(c) \in Sockets
                       /\ Closed(c).state = "closed" /\ ~Closed(c).authenticated
                       /\ Closed(c).checking = socket[c].checking
                       /\ socket[c].checking # 0 => Closed(c).secret = socket[c].secret
                       /\ Closed(c).seal = NoSeal /\ Closed(c).why = "none"
  BY ClosedSocket DEF Reasons
<1>3. ASSUME NEW c \in Conns
      PROVE  /\ pinged(c) \in Sockets
             /\ Same(pinged(c), socket[c])
  <2>1. socket[c] \in Sockets
    BY DEF Typed
  <2>2. QED
    BY <2>1 DEF Sockets, Same
<1>4. /\ socket' = [c \in Conns |-> IF c \in gone THEN Closed(c)
                                    ELSE IF c \in Devices THEN pinged(c) ELSE socket[c]]
      /\ toRelay' = [c \in Conns |-> IF c \in gone THEN <<>> ELSE toRelay[c]]
      /\ NotifyDeviceDisconnected(gone)
  BY DEF Heartbeat
<1> HIDE DEF gone, pinged
<1>5. /\ socket' \in [Conns -> Sockets]
      /\ \A c \in gone : socket'[c] = Closed(c)
      /\ \A c \in Conns \ gone : Same(socket'[c], socket[c])
  <2>1. \A c \in Conns : pinged(c) \in Sockets /\ Same(pinged(c), socket[c])
    BY <1>3
  <2>2. \A c \in Conns : Same(socket[c], socket[c])
    BY DEF Same
  <2>3. QED
    BY <1>1, <1>2, <1>4, <2>1, <2>2 DEF Typed
<1>6. /\ toRelay' \in [Conns -> Seq(Messages)]
      /\ \A c \in gone : toRelay'[c] = <<>>
      /\ \A c \in Conns \ gone : toRelay'[c] = toRelay[c]
  BY <1>1, <1>4 DEF Typed
<1>7. told' \in {"none", "here", "gone"}
  BY <1>4 DEF NotifyDeviceDisconnected, Typed
<1>8. QED
  BY <1>1, <1>2, <1>3, <1>4, <1>5, <1>6, <1>7

(* One queue: what is taken and what is put leaves it a queue.             *)
LEMMA QueueTypes ==
  ASSUME NEW q \in [Conns -> Seq(Messages)], NEW c \in Conns, NEW m \in Messages
  PROVE  /\ q[c] # <<>> => Head(q[c]) \in Messages /\ Tail(q[c]) \in Seq(Messages)
         /\ Append(q[c], m) \in Seq(Messages) /\ <<m>> \in Seq(Messages)
         /\ q[c] \o <<m>> \in Seq(Messages)
OBVIOUS

LEMMA OpenEffect ==
  ASSUME Typed, NEW c \in Conns, Open(c)
  PROVE  /\ socket' \in [Conns -> Sockets] /\ socket[c].state = "new"
         /\ socket'[c] = [socket[c] EXCEPT !.state = "open"]
         /\ socket'[c].state = "open"
         /\ socket'[c].authenticated = socket[c].authenticated
         /\ socket'[c].checking = socket[c].checking
         /\ socket'[c].secret = socket[c].secret
         /\ socket'[c].seal = socket[c].seal /\ socket'[c].why = socket[c].why
         /\ \A d \in Conns \ {c} : socket'[d] = socket[d]
<1>1. socket[c] \in Sockets /\ socket[c].state = "new"
  BY DEF Typed, Open
<1>2. [socket[c] EXCEPT !.state = "open"] \in Sockets
  BY <1>1 DEF Sockets, States
<1>3. socket' = [socket EXCEPT ![c].state = "open"]
  BY DEF Open
<1>4. QED
  BY <1>1, <1>2, <1>3 DEF Typed, Sockets

LEMMA CheckEffect ==
  ASSUME Typed, NEW c \in Conns, CheckProof(c)
  PROVE  /\ socket' \in [Conns -> Sockets]
         /\ c \in Devices /\ ~socket[c].authenticated /\ link[c] = "up"
         /\ toRelay[c] # <<>> /\ Head(toRelay[c]).kind = "auth"
         /\ socket'[c].state = "open" /\ ~socket'[c].authenticated
         /\ socket'[c].checking = value /\ socket'[c].secret = Head(toRelay[c]).key
         /\ socket'[c].seal = socket[c].seal /\ socket'[c].why = socket[c].why
         /\ \A d \in Conns \ {c} : socket'[d] = socket[d]
         /\ toRelay' = [toRelay EXCEPT ![c] = Tail(@)]
<1> DEFINE s == [socket[c] EXCEPT !.idle = 0, !.checking = value,
                                  !.secret = Head(toRelay[c]).key]
<1>1. /\ c \in Devices /\ link[c] = "up" /\ toRelay[c] # <<>>
      /\ Head(toRelay[c]).kind = "auth" /\ c \notin Authenticated
      /\ socket' = [socket EXCEPT ![c] = s] /\ toRelay' = [toRelay EXCEPT ![c] = Tail(@)]
  BY DEF CheckProof, Message, Take
<1>2. ~socket[c].authenticated /\ socket[c].state = "open"
  BY <1>1 DEF Authenticated, Devices
<1>3. Head(toRelay[c]) \in Messages /\ socket[c] \in Sockets /\ value \in Nat
  BY <1>1, QueueTypes DEF Typed
<1>4. Head(toRelay[c]).key \in Nat
  BY <1>3 DEF Messages
<1>5. /\ s \in Sockets /\ s.state = "open" /\ ~s.authenticated
      /\ s.checking = value /\ s.secret = Head(toRelay[c]).key
      /\ s.seal = socket[c].seal /\ s.why = socket[c].why
  BY <1>2, <1>3, <1>4 DEF Sockets
<1> HIDE DEF s
<1>6. QED
  BY <1>1, <1>2, <1>5 DEF Typed

(* authenticate with a proof that holds: what is posted, and the socket,   *)
(* open or not.                                                            *)
LEMMA AuthenticateEffect ==
  ASSUME Typed, NEW c \in Conns, Authenticate(c), ProofHolds(socket[c])
  PROVE  /\ socket' \in [Conns -> Sockets] /\ told' = "here" /\ toRelay' = toRelay
         /\ socket[c].checking # 0 /\ socket'[c].checking = 0
         /\ socket[c].secret = socket[c].checking
         /\ socket'[c].state = socket[c].state /\ socket'[c].why = socket[c].why
         /\ socket[c].state = "open" =>
              /\ socket'[c].authenticated /\ socket'[c].secret = socket[c].secret
              /\ socket'[c].seal = Sealer(socket[c].checking)
         /\ socket[c].state # "open" =>
              /\ socket'[c].authenticated = socket[c].authenticated
              /\ socket'[c].seal = socket[c].seal
         /\ \A d \in Conns \ {c} : socket'[d] = socket[d]
         /\ Post(c, <<Keyed("auth_ok", socket[c].checking), Plain("payload")>>)
<1> DEFINE s == socket[c]
           opened == [s EXCEPT !.checking = 0, !.authenticated = TRUE,
                               !.seal = Sealer(s.checking)]
           shut == [s EXCEPT !.checking = 0, !.secret = 0]
<1>1. /\ s.checking # 0 /\ told' = "here" /\ toRelay' = toRelay
      /\ socket' = [socket EXCEPT ![c] = IF s.state = "open" THEN opened ELSE shut]
      /\ Post(c, <<Keyed("auth_ok", s.checking), Plain("payload")>>)
  BY DEF Authenticate
<1>2. s \in Sockets /\ s.secret = s.checking
  BY DEF Typed, ProofHolds
<1>3. Sealer(s.checking) \in Seals
  BY <1>2 DEF Sealer, Seals, Sockets
<1>4. /\ opened \in Sockets /\ opened.checking = 0 /\ opened.authenticated
      /\ opened.seal = Sealer(s.checking) /\ opened.secret = s.secret
      /\ opened.state = s.state /\ opened.why = s.why
  BY <1>2, <1>3 DEF Sockets
<1>5. /\ shut \in Sockets /\ shut.checking = 0 /\ shut.authenticated = s.authenticated
      /\ shut.seal = s.seal /\ shut.state = s.state /\ shut.why = s.why
  BY <1>2 DEF Sockets
<1> HIDE DEF opened, shut
<1>6. QED
  BY <1>1, <1>2, <1>4, <1>5 DEF Typed

LEMMA RejectEffect ==
  ASSUME Typed, NEW c \in Conns, Authenticate(c), ~ProofHolds(socket[c])
  PROVE  /\ socket' \in [Conns -> Sockets] /\ told' = told /\ toPhone' = toPhone
         /\ toRelay' \in [Conns -> Seq(Messages)]
         /\ socket[c].checking # 0 /\ socket'[c].checking = 0
         /\ socket'[c].state # "open"
         /\ socket'[c].state = "new" => socket[c].state = "new"
         /\ c \in Devices =>
              /\ ~socket'[c].authenticated /\ socket'[c].why = "none"
              /\ toRelay'[c] = <<>>
         /\ c \notin Devices =>
              /\ socket'[c].authenticated = socket[c].authenticated
              /\ socket'[c].why = socket[c].why /\ socket'[c].seal = socket[c].seal
              /\ toRelay'[c] = toRelay[c]
         /\ \A d \in Conns \ {c} : socket'[d] = socket[d] /\ toRelay'[d] = toRelay[d]
<1> DEFINE closed == [NewSocket EXCEPT !.state = "closed"]
           shut == [socket[c] EXCEPT !.checking = 0, !.secret = 0]
<1>1. ProofRejected(c) /\ socket[c].checking # 0
  BY DEF Authenticate
<1>2. /\ socket' = [socket EXCEPT ![c] = IF c \in Devices THEN closed ELSE shut]
      /\ toRelay' = IF c \in Devices THEN [toRelay EXCEPT ![c] = <<>>] ELSE toRelay
      /\ told' = told /\ toPhone' = toPhone
  BY <1>1 DEF ProofRejected
<1>3. /\ closed \in Sockets /\ closed.state = "closed" /\ ~closed.authenticated
      /\ closed.checking = 0 /\ closed.why = "none"
  BY ClosedSocket DEF Reasons
<1>4. /\ shut \in Sockets /\ shut.state = socket[c].state /\ shut.checking = 0
      /\ shut.authenticated = socket[c].authenticated
      /\ shut.why = socket[c].why /\ shut.seal = socket[c].seal
  BY DEF Typed, Sockets
<1>5. c \in Devices <=> socket[c].state = "open"
  BY DEF Devices
<1> HIDE DEF closed, shut
<1>6. QED
  BY <1>1, <1>2, <1>3, <1>4, <1>5 DEF Typed

LEMMA ReceiveEffect ==
  ASSUME Typed, NEW c \in Conns, Receive(c), Verdict(socket[c].seal, Head(toRelay[c])) = "fine"
  PROVE  LET m == Head(toRelay[c])
             opened == AfterOpen(socket[c].seal, m)
         IN  /\ socket' \in [Conns -> Sockets] /\ told' = told
             /\ m \in Messages /\ toRelay[c] # <<>> /\ c \in Authenticated
             /\ socket'[c].state = "open" /\ socket'[c].authenticated
             /\ socket'[c].checking = socket[c].checking
             /\ socket'[c].secret = socket[c].secret /\ socket'[c].why = socket[c].why
             /\ m.kind = "publish" => /\ socket'[c].seal = AfterSeal(opened, "ack")
                                      /\ \/ /\ Post(c, <<Sealed(opened, "ack")>>)
                                            /\ dropped' = dropped
                                         \/ toPhone' = toPhone /\ dropped' = dropped \cup {c}
             /\ m.kind # "publish" => /\ socket'[c].seal = opened
                                      /\ toPhone' = toPhone /\ dropped' = dropped
             /\ \A d \in Conns \ {c} : socket'[d] = socket[d]
             /\ toRelay' = [toRelay EXCEPT ![c] = Tail(@)]
<1> DEFINE m == Head(toRelay[c])
           opened == AfterOpen(socket[c].seal, m)
           acked == [socket[c] EXCEPT !.idle = 0, !.seal = AfterSeal(opened, "ack")]
           taken == [socket[c] EXCEPT !.idle = 0, !.seal = opened]
<1>1. /\ c \in Authenticated /\ c \in Devices /\ toRelay[c] # <<>> /\ told' = told
      /\ toRelay' = [toRelay EXCEPT ![c] = Tail(@)]
      /\ IF m.kind = "publish"
         THEN /\ socket' = [socket EXCEPT ![c] = acked]
              /\ \/ Post(c, <<Sealed(opened, "ack")>>) /\ dropped' = dropped
                 \/ toPhone' = toPhone /\ dropped' = dropped \cup {c}
         ELSE /\ socket' = [socket EXCEPT ![c] = taken]
              /\ toPhone' = toPhone /\ dropped' = dropped
  BY DEF Receive, Message, Take
<1>2. /\ socket[c] \in Sockets /\ m \in Messages
      /\ socket[c].state = "open" /\ socket[c].authenticated
  BY <1>1, QueueTypes DEF Typed, Authenticated, Devices
<1>3. socket[c].seal \in Seals
  BY <1>2 DEF Sockets
<1>4. opened \in Seals
  BY <1>2, <1>3 DEF AfterOpen, Seals
<1>5. AfterSeal(opened, "ack") \in Seals
  BY <1>4 DEF AfterSeal, Seals
<1> HIDE DEF m, opened
<1>6. /\ acked \in Sockets /\ acked.state = "open" /\ acked.authenticated
      /\ acked.checking = socket[c].checking /\ acked.secret = socket[c].secret
      /\ acked.why = socket[c].why /\ acked.seal = AfterSeal(opened, "ack")
  BY <1>2, <1>5 DEF Sockets
<1>7. /\ taken \in Sockets /\ taken.state = "open" /\ taken.authenticated
      /\ taken.checking = socket[c].checking /\ taken.secret = socket[c].secret
      /\ taken.why = socket[c].why /\ taken.seal = opened
  BY <1>2, <1>4 DEF Sockets
<1> HIDE DEF acked, taken
<1>8. QED
  BY <1>1, <1>2, <1>6, <1>7 DEF Typed, m, opened

LEMMA BroadcastEffect ==
  ASSUME Typed, Broadcast("control")
  PROVE  /\ socket' \in [Conns -> Sockets] /\ told' = told /\ toRelay' = toRelay
         /\ \A c \in Conns :
              /\ socket'[c].state = socket[c].state
              /\ socket'[c].authenticated = socket[c].authenticated
              /\ socket'[c].checking = socket[c].checking
              /\ socket'[c].secret = socket[c].secret /\ socket'[c].why = socket[c].why
              /\ socket'[c].seal = IF c \in Authenticated
                                   THEN AfterSeal(socket[c].seal, "control")
                                   ELSE socket[c].seal
<1> DEFINE s(c) == [socket[c] EXCEPT !.seal = AfterSeal(@, "control"), !.said = @ + 1]
<1>1. /\ socket' = [c \in Conns |-> IF c \in Authenticated THEN s(c) ELSE socket[c]]
      /\ told' = told /\ toRelay' = toRelay
  BY DEF Broadcast
<1>2. ASSUME NEW c \in Conns
      PROVE  /\ s(c) \in Sockets /\ s(c).state = socket[c].state
             /\ s(c).authenticated = socket[c].authenticated
             /\ s(c).checking = socket[c].checking
             /\ s(c).secret = socket[c].secret /\ s(c).why = socket[c].why
             /\ s(c).seal = AfterSeal(socket[c].seal, "control")
  <2>1. socket[c] \in Sockets
    BY DEF Typed
  <2>2. socket[c].seal \in Seals
    BY <2>1 DEF Sockets
  <2>3. AfterSeal(socket[c].seal, "control") \in Seals
    BY <2>2 DEF AfterSeal, Seals
  <2> DEFINE q == AfterSeal(socket[c].seal, "control")
             w == socket[c]
  <2>4. s(c) = [w EXCEPT !.seal = q, !.said = w.said + 1]
    OBVIOUS
  <2>5. w \in Sockets /\ q \in Seals /\ w.said + 1 \in Nat
    BY <2>1, <2>3 DEF Sockets
  <2> HIDE DEF q, w
  <2>6. LET v == [w EXCEPT !.seal = q, !.said = w.said + 1]
        IN  /\ v \in Sockets /\ v.state = w.state
            /\ v.authenticated = w.authenticated /\ v.checking = w.checking
            /\ v.secret = w.secret /\ v.why = w.why /\ v.seal = q
    BY <2>5 DEF Sockets
  <2> HIDE DEF s
  <2>7. QED
    BY <2>4, <2>6 DEF q, w
<1> HIDE DEF s
<1>3. QED
  BY <1>1, <1>2 DEF Typed

LEMMA PongEffect ==
  ASSUME Typed, NEW c \in Conns, Pong(c)
  PROVE  /\ socket' \in [Conns -> Sockets] /\ told' = told
         /\ \A d \in Conns : Same(socket'[d], socket[d])
<1> DEFINE s == [socket[c] EXCEPT !.idle = 0]
<1>1. s \in Sockets /\ Same(s, socket[c]) /\ \A d \in Conns : Same(socket[d], socket[d])
  BY DEF Typed, Sockets, Same
<1>2. socket' = [socket EXCEPT ![c] = s] /\ told' = told
  BY DEF Pong
<1> HIDE DEF s
<1>3. QED
  BY <1>1, <1>2 DEF Typed

LEMMA StopEffect ==
  ASSUME Typed, RelayStops
  PROVE  /\ socket' \in [Conns -> Sockets] /\ told' = "none"
         /\ toRelay' \in [Conns -> Seq(Messages)] /\ value' = value
         /\ \A c \in Conns : /\ socket'[c].state # "open" /\ ~socket'[c].authenticated
                             /\ socket'[c].checking = 0 /\ socket'[c].why = "none"
                             /\ socket'[c].state = "new" => socket[c].state = "new"
                             /\ toRelay'[c] = <<>>
<1> DEFINE s(c) == [NewSocket EXCEPT !.state =
                      IF socket[c].state = "new" THEN "new" ELSE "closed"]
<1>1. \A c \in Conns : /\ s(c) \in Sockets /\ s(c).state # "open" /\ ~s(c).authenticated
                       /\ s(c).checking = 0 /\ s(c).why = "none"
  BY ClosedSocket DEF Reasons
<1>2. \A c \in Conns : s(c).state = "new" => socket[c].state = "new"
  BY DEF NewSocket
<1>3. /\ socket' = [c \in Conns |-> s(c)] /\ told' = "none" /\ value' = value
      /\ toRelay' = [c \in Conns |-> <<>>]
  BY DEF RelayStops, Stop
<1> HIDE DEF s
<1>4. QED
  BY <1>1, <1>2, <1>3

LEMMA PostTypes ==
  ASSUME Typed, NEW c \in Conns, NEW ms \in Seq(Messages), Post(c, ms)
  PROVE  toPhone' \in [Conns -> Seq(Messages)]
<1>1. toPhone[c] \o ms \in Seq(Messages) /\ toPhone[c] \in Seq(Messages)
  BY DEF Typed
<1> DEFINE q == IF link[c] = "up" /\ end[c].state = "open" /\ socket[c].state = "open"
                THEN toPhone[c] \o ms ELSE toPhone[c]
<1>2. toPhone' = [toPhone EXCEPT ![c] = q] /\ q \in Seq(Messages)
  BY <1>1 DEF Post
<1> HIDE DEF q
<1>3. QED
  BY <1>2 DEF Typed

LEMMA ToRelayTypes ==
  ASSUME Typed, NEW c \in Conns, NEW m \in Messages, ToRelay(c, m)
  PROVE  toRelay' \in [Conns -> Seq(Messages)]
<1>1. Append(toRelay[c], m) \in Seq(Messages) /\ toRelay[c] \in Seq(Messages)
  BY QueueTypes DEF Typed
<1> DEFINE q == IF link[c] = "up" /\ socket[c].state = "open"
                THEN Append(toRelay[c], m) ELSE toRelay[c]
<1>2. toRelay' = [toRelay EXCEPT ![c] = q] /\ q \in Seq(Messages)
  BY <1>1 DEF ToRelay
<1> HIDE DEF q
<1>3. QED
  BY <1>2 DEF Typed

LEMMA TakenTypes ==
  ASSUME NEW q \in [Conns -> Seq(Messages)], NEW c \in Conns, q[c] # <<>>
  PROVE  [q EXCEPT ![c] = Tail(@)] \in [Conns -> Seq(Messages)]
<1>1. Tail(q[c]) \in Seq(Messages)
  OBVIOUS
<1>2. QED
  BY <1>1

(* The records of the phone's end.                                         *)
LEMMA EndRecords ==
  ASSUME NEW e \in Ends, NEW q \in Seals, NEW why \in Reasons
  PROVE  /\ LET x == [e EXCEPT !.seal = q]
            IN  x \in Ends /\ x.state = e.state /\ x.seal = q /\ x.why = e.why
         /\ LET x == [e EXCEPT !.seal = q, !.said = e.said + 1]
            IN  x \in Ends /\ x.state = e.state /\ x.seal = q /\ x.why = e.why
         /\ LET x == [e EXCEPT !.state = "open"]
            IN  x \in Ends /\ x.state = "open" /\ x.seal = e.seal /\ x.why = e.why
         /\ LET x == [NewEnd EXCEPT !.state = "closed", !.why = why]
            IN  x \in Ends /\ x.state = "closed" /\ x.seal = NoSeal /\ x.why = why
         /\ LET x == [NewEnd EXCEPT !.state = "closed"]
            IN  x \in Ends /\ x.state = "closed" /\ x.seal = NoSeal /\ x.why = "none"
<1>1. NoSeal \in Seals
  BY DEF NoSeal, Sealer, Seals
<1>2. e.said + 1 \in Nat
  BY DEF Ends
<1>3. QED
  BY <1>1, <1>2 DEF Ends, NewEnd, States, Reasons

LEMMA RefuseEffect ==
  ASSUME Typed, NEW c \in Conns, NEW why \in Reasons, Refuse(c, why)
  PROVE  /\ end' \in [Conns -> Ends]
         /\ end'[c].state = "closed" /\ end'[c].why = why
         /\ \A d \in Conns \ {c} : end'[d] = end[d]
<1> DEFINE e == [NewEnd EXCEPT !.state = "closed", !.why = why]
<1>1. end[c] \in Ends /\ NoSeal \in Seals
  BY DEF Typed, NoSeal, Sealer, Seals
<1>2. e \in Ends /\ e.state = "closed" /\ e.why = why
  BY <1>1, EndRecords
<1>3. end' = [end EXCEPT ![c] = e]
  BY DEF Refuse
<1> HIDE DEF e
<1>4. QED
  BY <1>2, <1>3 DEF Typed

LEMMA AuthOkEffect ==
  ASSUME Typed, NEW c \in Conns, HandleAuthOk(c), RelayProofHolds(Head(toPhone[c]))
  PROVE  /\ end' \in [Conns -> Ends]
         /\ end'[c].state = end[c].state /\ end'[c].why = end[c].why
         /\ end'[c].seal = Sealer(Head(toPhone[c]).key)
         /\ \A d \in Conns \ {c} : end'[d] = end[d]
<1> DEFINE q == Sealer(Head(toPhone[c]).key)
           e == [end[c] EXCEPT !.seal = q]
<1>1. end[c] \in Ends /\ Head(toPhone[c]) \in Messages
  BY QueueTypes DEF HandleAuthOk, Answer, Typed
<1>2. q \in Seals
  BY <1>1 DEF Messages, Sealer, Seals
<1>3. end' = [end EXCEPT ![c] = e]
  BY <1>1 DEF HandleAuthOk
<1> HIDE DEF q
<1>4. e \in Ends /\ e.state = end[c].state /\ e.why = end[c].why /\ e.seal = q
  BY <1>1, <1>2 DEF Ends
<1> HIDE DEF e
<1>5. QED
  BY <1>3, <1>4 DEF Typed, q

LEMMA MessageEffect ==
  ASSUME Typed, NEW c \in Conns, HandleMessage(c),
         Verdict(end[c].seal, Head(toPhone[c])) = "fine"
  PROVE  /\ end' \in [Conns -> Ends]
         /\ end'[c].state = end[c].state /\ end'[c].why = end[c].why
         /\ end'[c].seal = AfterOpen(end[c].seal, Head(toPhone[c]))
         /\ \A d \in Conns \ {c} : end'[d] = end[d]
<1> DEFINE q == AfterOpen(end[c].seal, Head(toPhone[c]))
           e == [end[c] EXCEPT !.seal = q]
<1>1. end[c] \in Ends /\ Head(toPhone[c]) \in Messages
  BY QueueTypes DEF HandleMessage, Answer, Typed
<1>2. end[c].seal \in Seals
  BY <1>1 DEF Ends
<1>3. q \in Seals
  BY <1>2 DEF AfterOpen, Seals
<1>4. end' = [end EXCEPT ![c] = e]
  BY <1>1 DEF HandleMessage
<1> HIDE DEF q
<1>5. e \in Ends /\ e.state = end[c].state /\ e.why = end[c].why /\ e.seal = q
  BY <1>1, <1>3 DEF Ends
<1> HIDE DEF e
<1>6. QED
  BY <1>4, <1>5 DEF Typed, q

LEMMA SendEffect ==
  ASSUME Typed, NEW c \in Conns, NEW kind \in {"control", "publish"}, PhoneSends(c, kind)
  PROVE  /\ end' \in [Conns -> Ends]
         /\ end'[c].state = end[c].state /\ end'[c].why = end[c].why
         /\ end'[c].seal = AfterSeal(end[c].seal, kind)
         /\ \A d \in Conns \ {c} : end'[d] = end[d]
         /\ Sealed(end[c].seal, kind) \in Messages
         /\ ToRelay(c, Sealed(end[c].seal, kind))
         /\ end[c].state = "open" /\ end[c].seal.key # 0 /\ toPhone' = toPhone
<1> DEFINE q == AfterSeal(end[c].seal, kind)
           w == end[c]
           e == [w EXCEPT !.seal = q, !.said = w.said + 1]
<1>1. w \in Ends
  BY DEF Typed
<1>2. w.seal \in Seals /\ w.said + 1 \in Nat
  BY <1>1 DEF Ends
<1>3. q \in Seals /\ Sealed(w.seal, kind) \in Messages
  BY <1>2 DEF AfterSeal, Seals, Sealed, Plain, Messages
<1>4. /\ end' = [end EXCEPT ![c] = e] /\ toPhone' = toPhone
      /\ ToRelay(c, Sealed(w.seal, kind)) /\ w.state = "open" /\ w.seal.key # 0
  BY DEF PhoneSends
<1> HIDE DEF q, w
<1>5. e \in Ends /\ e.state = w.state /\ e.why = w.why /\ e.seal = q
  BY <1>1, <1>2, <1>3 DEF Ends
<1> HIDE DEF e
<1>6. QED
  BY <1>3, <1>4, <1>5 DEF Typed, q, w

LEMMA PhoneTypes ==
  ASSUME Typed, NEW c \in Conns, PhoneStep(c)
  PROVE  /\ end' \in [Conns -> Ends]
         /\ toPhone' \in [Conns -> Seq(Messages)]
         /\ toRelay' \in [Conns -> Seq(Messages)]
         /\ UNCHANGED <<settings, socket, link, told, retired, phoneSecret>>
<1>1. CASE HandleHello(c)
  <2>1. Keyed("auth", phoneSecret) \in Messages
    BY DEF Typed, Keyed, Messages
  <2>2. QED
    BY <1>1, <2>1, ToRelayTypes, TakenTypes DEF HandleHello, Answer, OnPhone, Typed
<1>2. CASE HandleAuthOk(c)
  <2>1. end' \in [Conns -> Ends]
    BY <1>2, AuthOkEffect, RefuseEffect DEF HandleAuthOk, Reasons
  <2>2. QED
    BY <1>2, <2>1, TakenTypes DEF HandleAuthOk, Answer, OnPhone, Typed
<1>3. CASE HandleMessage(c)
  <2>1. Verdict(end[c].seal, Head(toPhone[c])) \in Reasons \cup {"fine"}
    BY DEF Verdict, Reasons
  <2>2. end' \in [Conns -> Ends]
    BY <1>3, <2>1, MessageEffect, RefuseEffect DEF HandleMessage
  <2>3. QED
    BY <1>3, <2>2, TakenTypes DEF HandleMessage, Answer, OnPhone, Typed
<1>4. CASE PhoneCloses(c)
  <2>1. end' \in [Conns -> Ends]
    BY <1>4, RefuseEffect DEF PhoneCloses, Reasons
  <2>2. toPhone' = [toPhone EXCEPT ![c] = <<>>] /\ <<>> \in Seq(Messages)
    BY <1>4 DEF PhoneCloses
  <2>3. toPhone' \in [Conns -> Seq(Messages)]
    BY <2>2 DEF Typed
  <2>4. QED
    BY <1>4, <2>1, <2>3 DEF PhoneCloses, OnPhone, Typed
<1>5. ASSUME NEW kind \in {"control", "publish"}, PhoneSends(c, kind)
      PROVE  /\ end' \in [Conns -> Ends]
             /\ toPhone' \in [Conns -> Seq(Messages)]
             /\ toRelay' \in [Conns -> Seq(Messages)]
             /\ UNCHANGED <<settings, socket, link, told, retired, phoneSecret>>
  BY <1>5, SendEffect, ToRelayTypes DEF PhoneSends, OnPhone, Typed
<1>6. QED
  BY <1>1, <1>2, <1>3, <1>4, <1>5 DEF PhoneStep

LEMMA InitTypes == SessionInit => Typed
<1> SUFFICES ASSUME SessionInit PROVE Typed
  OBVIOUS
<1>1. NewSocket \in Sockets /\ NewEnd \in Ends
  BY DEF NewSocket, NewEnd, Sockets, Ends, NoSeal, Sealer, Seals, States, Reasons
<1>2. socket = [c \in Conns |-> NewSocket] /\ end = [c \in Conns |-> NewEnd]
  BY DEF SessionInit
<1>3. socket \in [Conns -> Sockets] /\ end \in [Conns -> Ends]
  BY <1>1, <1>2
<1>4. toPhone \in [Conns -> Seq(Messages)] /\ toRelay \in [Conns -> Seq(Messages)]
  BY DEF SessionInit
<1>5. QED
  BY <1>3, <1>4 DEF SessionInit, SettingsInit, Typed

(* What the Relay's steps on one connection leave typed.                   *)
LEMMA RelayTypes ==
  ASSUME Typed, NEW c \in Conns, RelayStep(c)
  PROVE  /\ socket' \in [Conns -> Sockets]
         /\ toPhone' \in [Conns -> Seq(Messages)]
         /\ toRelay' \in [Conns -> Seq(Messages)]
         /\ told' \in {"none", "here", "gone"}
         /\ UNCHANGED <<settings, end, link, phoneSecret, retired>>
<1>1. CASE CheckProof(c)
  <2>1. toRelay[c] # <<>> /\ toRelay' = [toRelay EXCEPT ![c] = Tail(@)]
    BY <1>1, CheckEffect
  <2>2. toRelay' \in [Conns -> Seq(Messages)]
    BY <2>1, QueueTypes DEF Typed
  <2>3. QED
    BY <1>1, <2>2, CheckEffect DEF CheckProof, OnRelay, Typed
<1>2. CASE Authenticate(c)
  <2>1. CASE ProofHolds(socket[c])
    <3>1. socket[c].checking \in Nat
      BY DEF Typed, Sockets
    <3>2. <<Keyed("auth_ok", socket[c].checking), Plain("payload")>> \in Seq(Messages)
      BY <3>1 DEF Keyed, Plain, Messages
    <3>3. toPhone' \in [Conns -> Seq(Messages)]
      BY <1>2, <2>1, <3>2, AuthenticateEffect, PostTypes
    <3>4. QED
      BY <1>2, <2>1, <3>3, AuthenticateEffect DEF Authenticate, OnRelay, Typed
  <2>2. CASE ~ProofHolds(socket[c])
    BY <1>2, <2>2, RejectEffect DEF Authenticate, OnRelay, Typed
  <2>3. QED
    BY <2>1, <2>2
<1>3. CASE AuthTimeout(c) \/ CloseArrives(c)
  <2>1. Close({c}, "none") /\ {c} \in SUBSET Devices /\ toPhone' = toPhone /\ OnRelay
    BY <1>3 DEF AuthTimeout, CloseArrives
  <2>2. QED
    BY <2>1, CloseEffect DEF OnRelay, Typed, Reasons
<1>4. CASE Receive(c)
  <2>1. CASE Verdict(socket[c].seal, Head(toRelay[c])) = "fine"
    <3>1. Head(toRelay[c]) \in Messages /\ toRelay[c] # <<>>
      BY <1>4, <2>1, ReceiveEffect
    <3>2. socket[c].seal \in Seals
      BY DEF Typed, Sockets
    <3>3. <<Sealed(AfterOpen(socket[c].seal, Head(toRelay[c])), "ack")>> \in Seq(Messages)
      <4>1. AfterOpen(socket[c].seal, Head(toRelay[c])) \in Seals
        BY <3>2 DEF AfterOpen, Seals
      <4> DEFINE q == AfterOpen(socket[c].seal, Head(toRelay[c]))
      <4>2. Sealed(q, "ack") \in Messages
        BY <4>1 DEF Sealed, Plain, Messages, Seals
      <4>3. QED
        BY <4>2
    <3>4. toPhone' \in [Conns -> Seq(Messages)]
      BY <1>4, <2>1, <3>3, ReceiveEffect, PostTypes DEF Typed
    <3>5. toRelay' \in [Conns -> Seq(Messages)]
      <4>1. toRelay' = [toRelay EXCEPT ![c] = Tail(@)]
        BY <1>4, <2>1, ReceiveEffect
      <4>2. QED
        BY <3>1, <4>1, QueueTypes DEF Typed
    <3>6. QED
      BY <1>4, <2>1, <3>4, <3>5, ReceiveEffect DEF Receive, OnRelay, Typed
  <2>2. CASE Verdict(socket[c].seal, Head(toRelay[c])) # "fine"
    <3>1. Verdict(socket[c].seal, Head(toRelay[c])) \in Reasons
      BY <2>2 DEF Verdict, Reasons
    <3>2. /\ Close({c}, Verdict(socket[c].seal, Head(toRelay[c])))
          /\ {c} \in SUBSET Devices /\ toPhone' = toPhone /\ OnRelay
      BY <1>4, <2>2 DEF Receive, Message
    <3>3. QED
      BY <3>1, <3>2, CloseEffect DEF OnRelay, Typed
  <2>3. QED
    BY <2>1, <2>2
<1>5. CASE Pong(c)
  BY <1>5, PongEffect DEF Pong, OnRelay, Typed
<1>6. QED
  BY <1>1, <1>2, <1>3, <1>4, <1>5 DEF RelayStep

LEMMA TypesKept ==
  ASSUME SettingsInv, SettingsInv', Typed, [SessionNext]_everything PROVE Typed'
<1>1. value' \in Nat
  BY DEF SettingsInv, SettingsTypeOK
<1>2. CASE UNCHANGED everything
  BY <1>2 DEF everything, session, settings, Typed
<1>3. ASSUME NEW c \in Conns, Open(c) PROVE Typed'
  <2>1. end' \in [Conns -> Ends]
    BY <1>3 DEF Open, Typed, Ends, States
  <2>2. <<Plain("hello")>> \in Seq(Messages)
    BY DEF Plain, Messages
  <2>3. toPhone' \in [Conns -> Seq(Messages)]
    BY <1>3, <2>2 DEF Open, Typed
  <2>4. QED
    BY <1>1, <1>3, <2>1, <2>3, OpenEffect DEF Open, Typed
<1>4. ASSUME NEW c \in Conns, RelayStep(c) PROVE Typed'
  BY <1>1, <1>4, RelayTypes DEF Typed
<1>5. ASSUME NEW c \in Conns, PhoneStep(c) PROVE Typed'
  BY <1>1, <1>5, PhoneTypes DEF Typed
<1>6. ASSUME NEW c \in Conns, Cut(c) PROVE Typed'
  BY <1>1, <1>6 DEF Cut, Typed
<1>7. CASE Broadcast("control")
  <2>1. ASSUME NEW c \in Conns
        PROVE  Append(toPhone[c], Sealed(socket[c].seal, "control")) \in Seq(Messages)
    <3>1. socket[c].seal \in Seals
      BY DEF Typed, Sockets
    <3>2. Sealed(socket[c].seal, "control") \in Messages
      BY <3>1 DEF Sealed, Plain, Messages, Seals
    <3>3. QED
      BY <3>2, QueueTypes DEF Typed
  <2>2. toPhone' \in [Conns -> Seq(Messages)]
    BY <1>7, <2>1 DEF Broadcast, Typed
  <2>3. QED
    BY <1>1, <1>7, <2>2, BroadcastEffect DEF Broadcast, OnRelay, Typed
<1>8. CASE Heartbeat
  BY <1>1, <1>8, HeartbeatEffect DEF Heartbeat, OnRelay, Typed
<1>9. CASE KickDevices
  <2>1. request["rotate"].previous \in Nat
    BY IdleIsTyped DEF SettingsInv, SettingsTypeOK
  <2>2. Close(Devices, "none")
    BY <1>9 DEF KickDevices
  <2>3. retired' \subseteq Nat
    BY <1>9, <2>1 DEF KickDevices, Typed
  <2>4. UNCHANGED <<end, link, toPhone, phoneSecret>>
    BY <1>9 DEF KickDevices
  <2>5. /\ socket' \in [Conns -> Sockets] /\ toRelay' \in [Conns -> Seq(Messages)]
        /\ told' \in {"none", "here", "gone"}
    BY <2>2, CloseEffect DEF Reasons
  <2>6. QED
    BY <1>1, <2>3, <2>4, <2>5 DEF Typed
<1>10. CASE Pair
  <2>1. end' = [c \in Conns |-> IF end[c].state = "open"
                               THEN [NewEnd EXCEPT !.state = "closed"] ELSE end[c]]
    BY <1>10 DEF Pair
  <2>2. [NewEnd EXCEPT !.state = "closed"] \in Ends
    BY DEF NewEnd, NoSeal, Sealer, Seals, Ends, States, Reasons
  <2>3. end' \in [Conns -> Ends]
    BY <2>1, <2>2 DEF Typed
  <2>4. toPhone' \in [Conns -> Seq(Messages)]
    BY <1>10 DEF Pair
  <2>5. phoneSecret' \in Nat
    BY <1>10 DEF Pair, Typed
  <2>6. UNCHANGED <<socket, link, toRelay, told, retired>>
    BY <1>10 DEF Pair, OnPhone
  <2>7. QED
    BY <1>1, <2>3, <2>4, <2>5, <2>6 DEF Typed
<1>11. CASE RelayStops
  BY <1>1, <1>11, StopEffect DEF RelayStops, Typed
<1>12. CASE OtherSettings
  BY <1>1, <1>12 DEF OtherSettings, session, Typed
<1>13. QED
  BY <1>2, <1>3, <1>4, <1>5, <1>6, <1>7, <1>8, <1>9, <1>10, <1>11, <1>12 DEF SessionNext

-----------------------------------------------------------------------------
(* What the coordinator knows.  A step that authenticates nothing and says *)
(* nothing keeps it right, and so does one that closes sockets and says so. *)
LEMMA NothingNewKeepsGone ==
  ASSUME GoneIsGone, told' = told \/ told' # "gone",
         \A c \in Conns : socket'[c].state = "open" /\ socket'[c].authenticated =>
                          socket[c].state = "open" /\ socket[c].authenticated
  PROVE  GoneIsGone'
<1>1. Authenticated' \subseteq Authenticated
  BY DEF Authenticated, Devices
<1>2. QED
  BY <1>1 DEF GoneIsGone

LEMMA ClosingKeepsGone ==
  ASSUME GoneIsGone, NEW gone \in SUBSET Devices, NotifyDeviceDisconnected(gone),
         \A c \in gone : socket'[c].state = "closed",
         \A c \in Conns \ gone : /\ socket'[c].state = socket[c].state
                                 /\ socket'[c].authenticated = socket[c].authenticated
  PROVE  GoneIsGone'
<1>1. Authenticated' = Authenticated \ gone
  BY DEF Authenticated, Devices
<1>2. CASE Authenticated \subseteq gone
  BY <1>1, <1>2 DEF GoneIsGone
<1>3. CASE ~(Authenticated \subseteq gone)
  BY <1>1, <1>3 DEF GoneIsGone, NotifyDeviceDisconnected
<1>4. QED
  BY <1>2, <1>3

(* A connection that was never opened has nothing.                         *)
Untouched(c) ==
  /\ ~socket[c].authenticated /\ socket[c].checking = 0
  /\ socket[c].seal = NoSeal /\ socket[c].why = "none"
  /\ end[c] = NewEnd /\ link[c] = "none"
  /\ toPhone[c] = <<>> /\ toRelay[c] = <<>>

Fresh == \A c \in Conns : socket[c].state = "new" => Untouched(c)

LEMMA InitFresh == SessionInit => Fresh
BY DEF SessionInit, Fresh, Untouched, NewSocket

LEMMA FreshKept ==
  ASSUME Typed, Fresh, [SessionNext]_everything PROVE Fresh'
<1> SUFFICES ASSUME NEW d \in Conns, socket'[d].state = "new" PROVE Untouched(d)'
  BY DEF Fresh
<1> DEFINE Kept == /\ Same(socket'[d], socket[d]) /\ end'[d] = end[d] /\ link'[d] = link[d]
                   /\ toPhone'[d] = toPhone[d] /\ toRelay'[d] = toRelay[d]
<1>1. ASSUME Kept PROVE Untouched(d)'
  BY <1>1 DEF Fresh, Untouched, Same
<1>2. Same(socket[d], socket[d]) /\ (socket[d].state = "new" => Untouched(d))
  BY DEF Same, Fresh
<1> HIDE DEF Kept
<1>3. CASE UNCHANGED everything
  BY <1>1, <1>2, <1>3 DEF everything, session, Kept
<1>4. ASSUME NEW c \in Conns, Open(c) PROVE Kept
  <2>1. c # d
    BY <1>4, OpenEffect
  <2>2. end'[d] = end[d] /\ link'[d] = link[d] /\ toPhone'[d] = toPhone[d]
        /\ toRelay' = toRelay
    BY <1>4, <2>1 DEF Open, Typed
  <2>3. QED
    BY <1>2, <1>4, <2>1, <2>2, OpenEffect DEF Kept
<1>5. ASSUME NEW c \in Conns, RelayStep(c) PROVE Kept
  <2>1. UNCHANGED <<end, link>>
    BY <1>5 DEF RelayStep, CheckProof, Authenticate, AuthTimeout, Receive, CloseArrives,
                Pong, OnRelay
  <2>2. CASE CheckProof(c)
    BY <1>2, <2>1, <2>2, CheckEffect, ZenonT(60) DEF CheckProof, Kept, Typed
  <2>3. CASE Authenticate(c)
    <3>1. CASE ProofHolds(socket[c])
      <4>1. c # d
        BY <1>2, <2>3, <3>1, AuthenticateEffect DEF Untouched
      <4>2. toPhone'[d] = toPhone[d]
        BY <2>3, <3>1, <4>1, AuthenticateEffect, ZenonT(60) DEF Post, Typed
      <4>3. QED
        BY <1>2, <2>1, <2>3, <3>1, <4>1, <4>2, AuthenticateEffect DEF Kept
    <3>2. CASE ~ProofHolds(socket[c])
      <4>1. c # d
        BY <1>2, <2>3, <3>2, RejectEffect DEF Untouched
      <4>2. QED
        BY <1>2, <2>1, <2>3, <3>2, <4>1, RejectEffect DEF Kept
    <3>3. QED
      BY <3>1, <3>2
  <2>4. CASE AuthTimeout(c) \/ CloseArrives(c)
    <3>1. Close({c}, "none") /\ {c} \in SUBSET Devices /\ toPhone' = toPhone
      BY <2>4 DEF AuthTimeout, CloseArrives
    <3>2. c # d
      BY <3>1, CloseEffect DEF Reasons
    <3>3. QED
      BY <1>2, <2>1, <3>1, <3>2, CloseEffect DEF Kept, Reasons
  <2>5. CASE Receive(c)
    <3>1. CASE Verdict(socket[c].seal, Head(toRelay[c])) = "fine"
      <4>1. c # d
        BY <2>5, <3>1, ReceiveEffect
      <4>2. toPhone'[d] = toPhone[d]
        BY <2>5, <3>1, <4>1, ReceiveEffect DEF Post, Typed
      <4>3. toRelay'[d] = toRelay[d]
        BY <2>5, <3>1, <4>1, ReceiveEffect DEF Typed
      <4>4. QED
        BY <1>2, <2>1, <2>5, <3>1, <4>1, <4>2, <4>3, ReceiveEffect DEF Kept
    <3>2. CASE Verdict(socket[c].seal, Head(toRelay[c])) # "fine"
      <4>1. Verdict(socket[c].seal, Head(toRelay[c])) \in Reasons
        BY <3>2 DEF Verdict, Reasons
      <4>2. /\ Close({c}, Verdict(socket[c].seal, Head(toRelay[c])))
            /\ {c} \in SUBSET Devices /\ toPhone' = toPhone
        BY <2>5, <3>2 DEF Receive, Message
      <4>3. c # d
        BY <4>1, <4>2, CloseEffect
      <4>4. QED
        BY <1>2, <2>1, <4>1, <4>2, <4>3, CloseEffect DEF Kept
    <3>3. QED
      BY <3>1, <3>2
  <2>6. CASE Pong(c)
    BY <2>1, <2>6, PongEffect DEF Pong, Kept
  <2>7. QED
    BY <1>5, <2>2, <2>3, <2>4, <2>5, <2>6 DEF RelayStep
<1>6. ASSUME NEW c \in Conns, PhoneStep(c) PROVE Kept
  <2>1. end[c].state = "open" /\ UNCHANGED <<socket, link>>
    BY <1>6 DEF PhoneStep, HandleHello, HandleAuthOk, HandleMessage, PhoneCloses,
                PhoneSends, Answer, OnPhone
  <2>2. c # d
    BY <1>2, <2>1 DEF Untouched, NewEnd
  <2>3. end'[d] = end[d] /\ toPhone'[d] = toPhone[d] /\ toRelay'[d] = toRelay[d]
    BY <1>6, <2>2 DEF PhoneStep, HandleHello, HandleAuthOk, HandleMessage, PhoneCloses,
                      PhoneSends, Answer, ToRelay, Refuse, Typed
  <2>4. QED
    BY <1>2, <2>1, <2>3 DEF Kept
<1>7. ASSUME NEW c \in Conns, Cut(c) PROVE Kept
  <2>1. c # d
    BY <1>7 DEF Cut, Devices
  <2>2. QED
    BY <1>2, <1>7, <2>1 DEF Cut, Typed, Kept
<1>8. ASSUME Broadcast("control") PROVE Kept
  <2>1. socket[d].state = "new" /\ d \notin Authenticated
    BY <1>8, BroadcastEffect DEF Authenticated, Devices
  <2>2. QED
    BY <1>8, <2>1, BroadcastEffect DEF Broadcast, OnRelay, Kept, Same
<1>9. ASSUME Heartbeat PROVE Kept
  <2>1. PICK gone \in SUBSET Devices :
          /\ \A c \in gone : socket'[c].state = "closed"
          /\ \A c \in Conns \ gone :
               toRelay'[c] = toRelay[c] /\ Same(socket'[c], socket[c])
    BY <1>9, HeartbeatEffect
  <2>2. UNCHANGED <<end, link, toPhone>>
    BY <1>9 DEF Heartbeat, OnRelay
  <2>3. QED
    BY <2>1, <2>2 DEF Kept
<1>10. ASSUME KickDevices PROVE Kept
  <2>1. Close(Devices, "none") /\ UNCHANGED <<end, link, toPhone>>
    BY <1>10 DEF KickDevices
  <2>2. d \notin Devices
    BY <2>1, CloseEffect DEF Reasons
  <2>3. QED
    BY <1>2, <2>1, <2>2, CloseEffect DEF Kept, Reasons
<1>11. ASSUME Pair PROVE Kept
  <2>1. socket'[d] = socket[d] /\ link'[d] = link[d] /\ toRelay'[d] = toRelay[d]
    BY <1>11 DEF Pair, OnPhone
  <2>2. end[d].state = "new" /\ toPhone[d] = <<>>
    BY <1>2, <2>1 DEF Untouched, NewEnd
  <2>3. QED
    BY <1>2, <1>11, <2>1, <2>2 DEF Pair, Kept
<1>12. CASE RelayStops
  <2>1. /\ ~socket'[d].authenticated /\ socket'[d].checking = 0
        /\ socket'[d].why = "none" /\ toRelay'[d] = <<>>
        /\ socket[d].state = "new"
    BY <1>12, StopEffect
  <2>2. socket'[d].seal = NoSeal
    BY <1>12 DEF RelayStops, NewSocket
  <2>3. UNCHANGED <<end, link, toPhone>>
    BY <1>12 DEF RelayStops
  <2>4. QED
    BY <1>2, <2>1, <2>2, <2>3 DEF Untouched
<1>13. ASSUME OtherSettings PROVE Kept
  BY <1>2, <1>13 DEF OtherSettings, session, Kept
<1>14. QED
  BY <1>1, <1>3, <1>4, <1>5, <1>6, <1>7, <1>8, <1>9, <1>10, <1>11, <1>12, <1>13
  DEF SessionNext

LEMMA GoneKept ==
  ASSUME Typed, Fresh, GoneIsGone, [SessionNext]_everything PROVE GoneIsGone'
<1>1. CASE socket' = socket /\ (told' = told \/ told' # "gone")
  BY <1>1, NothingNewKeepsGone
<1>2. CASE UNCHANGED everything
  BY <1>1, <1>2 DEF everything, session
<1>3. ASSUME NEW c \in Conns, Open(c) PROVE GoneIsGone'
  <2>1. told' = told /\ ~socket'[c].authenticated
    BY <1>3, OpenEffect DEF Open, Fresh, Untouched
  <2>2. QED
    BY <1>3, <2>1, OpenEffect, NothingNewKeepsGone
<1>4. ASSUME NEW c \in Conns, RelayStep(c) PROVE GoneIsGone'
  <2>1. CASE CheckProof(c)
    <3>1. told' = told
      BY <2>1 DEF CheckProof
    <3>2. QED
      BY <2>1, <3>1, CheckEffect, NothingNewKeepsGone
  <2>2. CASE Authenticate(c)
    <3>1. CASE ProofHolds(socket[c])
      BY <2>2, <3>1, AuthenticateEffect DEF GoneIsGone
    <3>2. CASE ~ProofHolds(socket[c])
      BY <2>2, <3>2, RejectEffect, NothingNewKeepsGone
    <3>3. QED
      BY <3>1, <3>2
  <2>3. CASE AuthTimeout(c) \/ CloseArrives(c)
    <3>1. Close({c}, "none") /\ {c} \in SUBSET Devices
      BY <2>3 DEF AuthTimeout, CloseArrives
    <3>2. QED
      BY <3>1, CloseEffect, ClosingKeepsGone DEF Reasons
  <2>4. CASE Receive(c)
    <3>1. CASE Verdict(socket[c].seal, Head(toRelay[c])) = "fine"
      <4>1. /\ told' = told /\ \A d \in Conns \ {c} : socket'[d] = socket[d]
            /\ socket[c].state = "open" /\ socket[c].authenticated
        BY <2>4, <3>1, ReceiveEffect DEF Authenticated, Devices
      <4>2. QED
        BY <4>1, NothingNewKeepsGone
    <3>2. CASE Verdict(socket[c].seal, Head(toRelay[c])) # "fine"
      <4>1. Verdict(socket[c].seal, Head(toRelay[c])) \in Reasons
        BY <3>2 DEF Verdict, Reasons
      <4>2. /\ Close({c}, Verdict(socket[c].seal, Head(toRelay[c])))
            /\ {c} \in SUBSET Devices
        BY <2>4, <3>2 DEF Receive, Message
      <4>3. /\ socket'[c].state = "closed" /\ NotifyDeviceDisconnected({c})
            /\ \A d \in Conns \ {c} : socket'[d] = socket[d]
        BY <4>1, <4>2, CloseEffect
      <4>4. QED
        BY <4>2, <4>3, ClosingKeepsGone
    <3>3. QED
      BY <3>1, <3>2
  <2>5. CASE Pong(c)
    BY <2>5, PongEffect, NothingNewKeepsGone DEF Same
  <2>6. QED
    BY <1>4, <2>1, <2>2, <2>3, <2>4, <2>5 DEF RelayStep
<1>5. ASSUME NEW c \in Conns, PhoneStep(c) PROVE GoneIsGone'
  BY <1>1, <1>5, PhoneTypes
<1>6. ASSUME NEW c \in Conns, Cut(c) PROVE GoneIsGone'
  BY <1>1, <1>6 DEF Cut
<1>7. CASE Broadcast("control")
  BY <1>7, BroadcastEffect, NothingNewKeepsGone
<1>8. CASE Heartbeat
  <2>1. PICK gone \in SUBSET Devices :
          /\ \A c \in gone : socket'[c].state = "closed"
          /\ \A c \in Conns \ gone : Same(socket'[c], socket[c])
          /\ NotifyDeviceDisconnected(gone)
    BY <1>8, HeartbeatEffect
  <2>2. QED
    BY <2>1, ClosingKeepsGone DEF Same
<1>9. CASE KickDevices
  <2>1. Close(Devices, "none")
    BY <1>9 DEF KickDevices
  <2>2. QED
    BY <2>1, CloseEffect, ClosingKeepsGone DEF Reasons
<1>10. CASE Pair
  BY <1>1, <1>10 DEF Pair, OnPhone
<1>11. CASE RelayStops
  BY <1>11, StopEffect DEF GoneIsGone
<1>12. CASE OtherSettings
  BY <1>1, <1>12 DEF OtherSettings, session
<1>13. QED
  BY <1>2, <1>3, <1>4, <1>5, <1>6, <1>7, <1>8, <1>9, <1>10, <1>11, <1>12 DEF SessionNext

SessionInv == SettingsInv /\ Typed /\ Fresh /\ GoneIsGone

LEMMA SessionInvKept == SessionInv /\ [SessionNext]_everything => SessionInv'
<1> SUFFICES ASSUME SessionInv, [SessionNext]_everything PROVE SessionInv'
  OBVIOUS
<1>1. [SettingsNext]_settings
  BY SessionStepsSettings DEF everything
<1>2. SettingsInv'
  BY <1>1, NextKeepsSettings DEF SessionInv
<1>3. QED
  BY <1>2, TypesKept, FreshKept, GoneKept DEF SessionInv

LEMMA SessionInvHolds == SessionSpec => []SessionInv
<1>1. SessionInit => SessionInv
  BY InitSettings, InitTypes, InitFresh DEF SessionInit, SessionInv, GoneIsGone
<1>2. QED
  BY <1>1, SessionInvKept, PTL DEF SessionSpec

(* Whatever closes, breaks, rotates or restarts, and whichever check of a  *)
(* proof ends late: a coordinator that was last told its phone is gone has *)
(* no authenticated socket of it.                                          *)
THEOREM GoneMeansGone == SessionSpec => []GoneIsGone
<1>1. SessionInv => GoneIsGone
  BY DEF SessionInv
<1>2. QED
  BY <1>1, SessionInvHolds, PTL

(* The same of the Relay with its sessions: the settings in use are those  *)
(* of relay.json.                                                          *)
THEOREM SessionsSaveSettings == SessionSpec => []SettledIsSaved
<1>1. QED
  BY SessionsImplementSettings, SettingsAreSaved, PTL

-----------------------------------------------------------------------------
(* Rotation: the secret that goes is in no variable any more when the       *)
(* rotation succeeds, and no secret comes back, as long as no rotation      *)
(* begins between a change of the folders and its write.                    *)
Issued(s) == s <= issued /\ s \notin retired
Secret(s) == s > 0 /\ Issued(s)
Unwritten(r) == r.pc \in {"called", "opened"}

SecretsInv ==
  /\ retired \subseteq 1..issued
  /\ Issued(value) /\ Issued(config.secret) /\ Issued(file.secret)
  /\ up => value > 0 /\ config.secret > 0
  /\ file.secret > 0 \/ file \in {NoFile, Torn}
  /\ Rotation.pc # "idle" => /\ config.secret = value
                             /\ 0 < Rotation.previous /\ Rotation.previous < value
                             /\ Rotation.previous \notin retired
  /\ Rotation.pc \in {"opened", "written"} => Rotation.content.secret = value
  /\ Rotation.pc = "written" => file.secret \in {value, 0}
  /\ Unwritten(Change) => Secret(Change.content.secret)
  /\ Unwritten(Change) /\ Rotation.pc # "idle" => Change.content.secret = value

LEMMA InitSecrets == SessionInit => SecretsInv
<1> SUFFICES ASSUME SessionInit PROVE SecretsInv
  OBVIOUS
<1>1. /\ value = 0 /\ issued = 0 /\ config.secret = 0 /\ file.secret = 0 /\ file = NoFile
      /\ ~up /\ retired = {} /\ Rotation.pc = "idle" /\ Change.pc = "idle"
  BY IdleIsTyped DEF SessionInit, SettingsInit, Rotation, Change
<1>2. QED
  BY <1>1 DEF SecretsInv, Issued, Unwritten

(* The secrets stay what they are as long as no number of theirs changes.  *)
LEMMA StartKeepsSecrets ==
  ASSUME SettingsInv, SecretsInv, retired' = retired, Start PROVE SecretsInv'
<1>1. /\ Rotation.pc = "idle" /\ Change.pc = "idle" /\ request' = request
      /\ value \in Nat /\ issued \in Nat /\ file \in Content
      /\ file # Torn
  BY DEF SettingsInv, SettingsTypeOK, SavedInv, Start
<1>2. Rotation'.pc = "idle" /\ Change'.pc = "idle"
  BY <1>1 DEF Rotation, Change
<1>3. CASE file = NoFile
  <2>1. /\ issued' = issued + 1 /\ config'.secret = issued + 1 /\ value' = issued + 1
        /\ file'.secret = issued + 1
    BY <1>3 DEF Start, NewSecret
  <2>2. QED
    BY <1>1, <1>2, <2>1 DEF SecretsInv, Issued, Unwritten
<1>4. CASE file # NoFile
  <2>1. /\ issued' = issued /\ config' = file /\ file' = file /\ value' = file.secret
        /\ file.secret > 0
    BY <1>1, <1>4 DEF Start, SecretsInv
  <2>2. QED
    BY <1>1, <1>2, <2>1 DEF SecretsInv, Issued, Unwritten
<1>5. QED
  BY <1>3, <1>4

LEMMA RotateKeepsSecrets ==
  ASSUME ~crossed', SettingsInv, SecretsInv, retired' = retired, Rotate
  PROVE  SecretsInv'
<1> DEFINE r == [pc |-> "called", previous |-> value, next |-> {}, content |-> Torn]
<1>1. /\ value \in Nat /\ issued \in Nat /\ up /\ up'
      /\ request \in [Kinds -> Record] /\ config \in Content
  BY DEF SettingsInv, SettingsTypeOK, Rotate, Record
<1>2. ~Unwritten(Change)
  BY DEF Rotate, BeginsRotation, Unwritten, Change
<1>3. request' = [request EXCEPT !["rotate"] = r]
  BY NewRequests DEF Rotate
<1>4. r.pc = "called" /\ r.previous = value
  OBVIOUS
<1> HIDE DEF r
<1>5. Rotation' = r /\ Change' = Change
  BY <1>1, <1>3, IdleIsTyped DEF Rotation, Change
<1>6. /\ issued' = issued + 1 /\ value' = issued + 1 /\ config'.secret = issued + 1
      /\ file' = file
  BY <1>1 DEF Rotate, NewSecret, Content
<1>7. file.secret \in Nat /\ value > 0 /\ value <= issued
  BY <1>1 DEF SettingsInv, SettingsTypeOK, Content, SecretsInv, Issued
<1>8. QED
  BY <1>1, <1>2, <1>4, <1>5, <1>6, <1>7 DEF SecretsInv, Issued, Unwritten

LEMMA ChangeKeepsSecrets ==
  ASSUME SettingsInv, SecretsInv, retired' = retired, ChangeFolders
  PROVE  SecretsInv'
<1>1. PICK f \in Folders :
        request' = [request EXCEPT !["folders"] =
          [Idle EXCEPT !.pc = "called", !.next = AddedOrRemoved(f),
                       !.content = [config EXCEPT !.folders = AddedOrRemoved(f)]]]
  BY DEF ChangeFolders
<1> DEFINE content == [config EXCEPT !.folders = AddedOrRemoved(f)]
           r == [pc |-> "called", previous |-> 0, next |-> AddedOrRemoved(f),
                 content |-> content]
<1>2. /\ up /\ up' /\ request \in [Kinds -> Record] /\ config \in Content
      /\ UNCHANGED <<value, config, folders, file, issued>>
  BY DEF SettingsInv, SettingsTypeOK, ChangeFolders, Record
<1>3. content.secret = config.secret
  BY <1>2 DEF Content
<1> HIDE DEF content
<1>5. request' = [request EXCEPT !["folders"] = r]
  BY <1>1, NewRequests DEF content
<1>6. r.pc = "called" /\ r.content = content
  OBVIOUS
<1> HIDE DEF r
<1>7. Change' = r /\ Rotation' = Rotation
  BY <1>2, <1>5, IdleIsTyped DEF Rotation, Change
<1>8. QED
  BY <1>2, <1>3, <1>6, <1>7 DEF SecretsInv, Issued, Secret, Unwritten

LEMMA OpenKeepsSecrets ==
  ASSUME SettingsInv, SecretsInv, retired' = retired, NEW k \in Kinds, OpenFile(k)
  PROVE  SecretsInv'
<1> DEFINE c == IF k = "rotate" THEN config ELSE request[k].content
           r == [request[k] EXCEPT !.pc = "opened", !.content = c]
<1>1. /\ request[k].pc = "called" /\ request \in [Kinds -> Record] /\ file' = Torn
      /\ UNCHANGED <<value, config, folders, issued, up>>
      /\ request' = [request EXCEPT ![k] = r]
      /\ value \in Nat /\ issued \in Nat
  BY DEF SettingsInv, SettingsTypeOK, OpenFile, Record
<1>2. r.pc = "opened" /\ r.content = c /\ r.previous = request[k].previous
  BY <1>1 DEF Record
<1> HIDE DEF r, c
<1>3. Torn.secret = 0 /\ 0 \notin retired
  BY IdleIsTyped DEF SecretsInv
<1>4. CASE k = "rotate"
  <2>1. /\ Rotation' = r /\ Change' = Change /\ Rotation.pc = "called" /\ c = config
        /\ r.previous = Rotation.previous
    BY <1>1, <1>2, <1>4, IdleIsTyped DEF Rotation, Change, c
  <2>2. QED
    BY <1>1, <1>2, <1>3, <2>1 DEF SecretsInv, Issued, Secret, Unwritten
<1>5. CASE k = "folders"
  <2>1. /\ Change' = r /\ Rotation' = Rotation /\ Change.pc = "called"
        /\ c = Change.content
    BY <1>1, <1>5, IdleIsTyped DEF Rotation, Change, c
  <2>2. QED
    BY <1>1, <1>2, <1>3, <2>1 DEF SecretsInv, Issued, Secret, Unwritten
<1>6. QED
  BY <1>4, <1>5, IdleIsTyped

LEMMA WriteKeepsSecrets ==
  ASSUME SettingsInv, SecretsInv, retired' = retired, NEW k \in Kinds, WriteFile(k)
  PROVE  SecretsInv'
<1> DEFINE r == [request[k] EXCEPT !.pc = "written"]
<1>1. /\ request[k].pc = "opened" /\ request \in [Kinds -> Record]
      /\ UNCHANGED <<value, config, folders, issued, up>>
      /\ request' = [request EXCEPT ![k] = r]
      /\ value \in Nat /\ issued \in Nat
      /\ file' \in {request[k].content, Torn}
      /\ Torn.secret = 0 /\ 0 \notin retired
  BY IdleIsTyped DEF SettingsInv, SettingsTypeOK, WriteFile, Record, SecretsInv
<1>2. /\ r.pc = "written" /\ r.content = request[k].content
      /\ r.previous = request[k].previous
  BY <1>1 DEF Record
<1> HIDE DEF r
<1>3. CASE k = "rotate"
  <2>1. /\ Rotation' = r /\ Change' = Change /\ Rotation.pc = "opened"
        /\ r.previous = Rotation.previous /\ r.content = Rotation.content
        /\ file' \in {Rotation.content, Torn}
        /\ Rotation.previous \in Nat
    BY <1>1, <1>2, <1>3, IdleIsTyped DEF Rotation, Change, Record
  <2>2. Rotation.content.secret = value /\ value > 0
    BY <1>1, <2>1 DEF SecretsInv
  <2>3. QED
    BY <1>1, <1>2, <2>1, <2>2 DEF SecretsInv, Issued, Secret, Unwritten
<1>4. CASE k = "folders"
  <2>1. /\ Change' = r /\ Rotation' = Rotation /\ Change.pc = "opened"
        /\ r.content = Change.content
        /\ file' \in {Change.content, Torn}
    BY <1>1, <1>2, <1>4, IdleIsTyped DEF Rotation, Change
  <2>2. /\ Secret(Change.content.secret)
        /\ Rotation.pc # "idle" => Change.content.secret = value
    BY <2>1 DEF SecretsInv, Unwritten
  <2>3. QED
    BY <1>1, <1>2, <2>1, <2>2 DEF SecretsInv, Issued, Secret, Unwritten
<1>5. QED
  BY <1>3, <1>4, IdleIsTyped

LEMMA EndKeepsSecrets ==
  ASSUME SettingsInv, SecretsInv, retired' = retired,
         FoldersChanged \/ (\E k \in Kinds : WriteFails(k)) \/ Stop
  PROVE  SecretsInv'
<1>1. SettingsTypeOK /\ value \in Nat /\ issued \in Nat /\ config \in Content
  BY DEF SettingsInv, SettingsTypeOK
<1>2. CASE FoldersChanged
  <2>1. /\ Change.pc = "written" /\ config'.secret = config.secret
        /\ UNCHANGED <<value, file, issued, up>>
        /\ request' = [request EXCEPT !["folders"] = Idle]
    BY <1>1, <1>2 DEF FoldersChanged, Change, Content
  <2>2. Change'.pc = "idle" /\ Rotation' = Rotation
    BY <1>1, <2>1, EndedRequest, IdleIsTyped
  <2>3. QED
    BY <1>1, <2>1, <2>2 DEF SecretsInv, Issued, Unwritten
<1>3. ASSUME NEW k \in Kinds, WriteFails(k) PROVE SecretsInv'
  <2>1. /\ request[k].pc \in {"called", "opened", "written"}
        /\ value' = IF k = "rotate" THEN request[k].previous ELSE value
        /\ UNCHANGED <<config, folders, file, issued, up>>
        /\ request' = [request EXCEPT ![k] = Idle]
    BY <1>3 DEF WriteFails
  <2>2. CASE k = "rotate"
    <3>1. Rotation'.pc = "idle" /\ Change' = Change
      BY <1>1, <2>1, <2>2, EndedRequest
    <3>2. Rotation.pc # "idle" /\ value' = Rotation.previous /\ Rotation.previous \in Nat
      BY <1>1, <2>1, <2>2, IdleIsTyped DEF Rotation, SettingsTypeOK
    <3>3. QED
      BY <1>1, <2>1, <3>1, <3>2 DEF SecretsInv, Issued, Secret, Unwritten
  <2>3. CASE k = "folders"
    <3>1. Change'.pc = "idle" /\ Rotation' = Rotation
      BY <1>1, <2>1, <2>3, EndedRequest
    <3>2. QED
      BY <1>1, <2>1, <2>3, <3>1 DEF SecretsInv, Issued, Secret, Unwritten
  <2>4. QED
    BY <2>2, <2>3, IdleIsTyped
<1>4. CASE Stop
  <2>1. /\ ~up' /\ UNCHANGED <<value, config, folders, file, issued>>
        /\ Rotation'.pc = "idle" /\ Change'.pc = "idle"
    BY <1>4, IdleIsTyped DEF Stop, Rotation, Change
  <2>2. QED
    BY <1>1, <2>1 DEF SecretsInv, Issued, Unwritten
<1>5. QED
  BY <1>2, <1>3, <1>4

(* The rotation succeeds: what it replaced is retired, and held nowhere.   *)
LEMMA RetireKeepsSecrets ==
  ASSUME SettingsInv, SecretsInv, Rotated,
         retired' = retired \cup {request["rotate"].previous}
  PROVE  SecretsInv'
<1>1. /\ Rotation.pc = "written" /\ SettingsTypeOK
      /\ UNCHANGED <<value, config, folders, file, issued, up>>
      /\ request' = [request EXCEPT !["rotate"] = Idle]
      /\ retired' = retired \cup {Rotation.previous}
      /\ value \in Nat /\ issued \in Nat
  BY DEF SettingsInv, SettingsTypeOK, Rotated, Rotation
<1>2. Rotation'.pc = "idle" /\ Change' = Change
  BY <1>1, EndedRequest, IdleIsTyped
<1>3. Rotation.previous \in Nat
  BY <1>1, IdleIsTyped DEF SettingsTypeOK, Rotation
<1>4. /\ file.secret \in {value, 0} /\ config.secret = value
      /\ 0 < Rotation.previous /\ Rotation.previous < value /\ value <= issued
      /\ Unwritten(Change) => Change.content.secret = value
  BY <1>1 DEF SecretsInv, Issued
<1>5. retired' \subseteq 1..issued'
  <2>1. Rotation.previous \in 1..issued
    BY <1>1, <1>3, <1>4
  <2>2. retired \subseteq 1..issued /\ issued' = issued
    BY <1>1 DEF SecretsInv
  <2>3. QED
    BY <1>1, <2>1, <2>2
<1>6. /\ Issued(value)' /\ Issued(config.secret)' /\ Issued(file.secret)'
  BY <1>1, <1>3, <1>4 DEF SecretsInv, Issued
<1>7. QED
  BY <1>1, <1>2, <1>4, <1>5, <1>6 DEF SecretsInv, Secret, Unwritten

(* No open socket stands on a retired secret, or is about to.              *)
Current(c) ==
  socket[c].state = "open" =>
    /\ socket[c].checking \notin retired
    /\ socket[c].authenticated => socket[c].secret \notin retired

AllCurrent == \A c \in Conns : Current(c)

LEMMA SecretsKept ==
  ASSUME SettingsInv, SecretsInv, ~crossed', [SessionNext]_everything
  PROVE  SecretsInv'
<1>1. CASE UNCHANGED settings /\ retired' = retired
  BY <1>1 DEF settings, SecretsInv, Issued, Secret, Unwritten, Rotation, Change
<1>2. CASE OtherSettings
  BY <1>2, StartKeepsSecrets, RotateKeepsSecrets, ChangeKeepsSecrets, OpenKeepsSecrets,
     WriteKeepsSecrets, EndKeepsSecrets DEF OtherSettings, SettingsStep, session
<1>3. CASE RelayStops
  BY <1>3, EndKeepsSecrets DEF RelayStops
<1>4. CASE KickDevices
  BY <1>4, RetireKeepsSecrets DEF KickDevices
<1>5. ASSUME NEW c \in Conns, Open(c) \/ RelayStep(c) \/ PhoneStep(c) \/ Cut(c)
      PROVE  UNCHANGED settings /\ retired' = retired
  BY <1>5 DEF Open, Cut, RelayStep, CheckProof, Authenticate, AuthTimeout, Receive,
     CloseArrives, Pong, OnRelay, PhoneStep, HandleHello, HandleAuthOk, HandleMessage,
     PhoneCloses, PhoneSends, OnPhone
<1>6. CASE Broadcast("control") \/ Heartbeat \/ Pair
  BY <1>1, <1>6 DEF Broadcast, Heartbeat, Pair, OnRelay, OnPhone
<1>7. QED
  BY <1>1, <1>2, <1>3, <1>4, <1>5, <1>6 DEF SessionNext, everything, session

LEMMA CurrentKept ==
  ASSUME SettingsInv, Typed, Fresh, SecretsInv, AllCurrent, [SessionNext]_everything
  PROVE  AllCurrent'
<1> SUFFICES ASSUME NEW d \in Conns PROVE Current(d)'
  BY DEF AllCurrent
<1>1. Current(d) /\ 0 \notin retired /\ value \notin retired
  BY DEF AllCurrent, SecretsInv, Issued
<1>2. ASSUME retired' = retired, Same(socket'[d], socket[d]) PROVE Current(d)'
  BY <1>1, <1>2 DEF Current, Same
<1>3. Same(socket[d], socket[d])
  BY DEF Same
<1>4. ASSUME socket'[d].state # "open" PROVE Current(d)'
  BY <1>4 DEF Current
<1>5. CASE socket'[d] = socket[d] /\ retired' = retired
  BY <1>2, <1>3, <1>5
<1>6. ASSUME NEW c \in Conns, Open(c) PROVE Current(d)'
  <2>1. retired' = retired
    BY <1>6 DEF Open
  <2>2. CASE c = d
    <3>1. /\ socket'[d].checking = socket[d].checking
          /\ socket'[d].authenticated = socket[d].authenticated
          /\ socket[d].state = "new"
      BY <1>6, <2>2, OpenEffect
    <3>2. socket[d].checking = 0 /\ ~socket[d].authenticated
      BY <3>1 DEF Fresh, Untouched
    <3>3. QED
      BY <1>1, <2>1, <3>1, <3>2 DEF Current
  <2>3. QED
    BY <1>5, <1>6, <2>1, <2>2, OpenEffect, ZenonT(60)
<1>7. ASSUME NEW c \in Conns, RelayStep(c) PROVE Current(d)'
  <2>1. retired' = retired
    BY <1>7, RelayTypes
  <2>2. CASE CheckProof(c)
    <3>1. CASE c = d
      BY <1>1, <2>1, <2>2, <3>1, CheckEffect DEF Current
    <3>2. QED
      BY <1>5, <2>1, <2>2, <3>1, CheckEffect
  <2>3. CASE Authenticate(c)
    <3>1. CASE ProofHolds(socket[c])
      <4>1. CASE c = d
        BY <1>1, <2>1, <2>3, <3>1, <4>1, AuthenticateEffect DEF Current
      <4>2. QED
        BY <1>5, <2>1, <2>3, <3>1, <4>1, AuthenticateEffect
    <3>2. CASE ~ProofHolds(socket[c])
      <4>1. CASE c = d
        BY <1>4, <2>3, <3>2, <4>1, RejectEffect
      <4>2. QED
        BY <1>5, <2>1, <2>3, <3>2, <4>1, RejectEffect
    <3>3. QED
      BY <3>1, <3>2
  <2>4. CASE AuthTimeout(c) \/ CloseArrives(c)
    <3>1. Close({c}, "none") /\ {c} \in SUBSET Devices
      BY <2>4 DEF AuthTimeout, CloseArrives
    <3>2. QED
      BY <1>4, <1>5, <2>1, <3>1, CloseEffect DEF Reasons
  <2>5. CASE Receive(c)
    <3>1. CASE Verdict(socket[c].seal, Head(toRelay[c])) = "fine"
      <4>1. CASE c = d
        <5>1. /\ socket'[d].checking = socket[d].checking
              /\ socket'[d].secret = socket[d].secret
              /\ socket[d].state = "open" /\ socket[d].authenticated
          BY <2>5, <3>1, <4>1, ReceiveEffect DEF Authenticated, Devices
        <5>2. QED
          BY <1>1, <2>1, <5>1 DEF Current
      <4>2. CASE c # d
        <5>1. socket'[d] = socket[d]
          BY <2>5, <3>1, <4>2, ReceiveEffect
        <5>2. QED
          BY <1>5, <2>1, <5>1
      <4>3. QED
        BY <4>1, <4>2
    <3>2. CASE Verdict(socket[c].seal, Head(toRelay[c])) # "fine"
      <4>1. Verdict(socket[c].seal, Head(toRelay[c])) \in Reasons
        BY <3>2 DEF Verdict, Reasons
      <4>2. /\ Close({c}, Verdict(socket[c].seal, Head(toRelay[c])))
            /\ {c} \in SUBSET Devices
        BY <2>5, <3>2 DEF Receive, Message
      <4>3. /\ socket'[c].state = "closed"
            /\ \A x \in Conns \ {c} : socket'[x] = socket[x]
        BY <4>1, <4>2, CloseEffect
      <4>4. QED
        BY <1>4, <1>5, <2>1, <4>3
    <3>3. QED
      BY <3>1, <3>2
  <2>6. CASE Pong(c)
    BY <1>2, <2>1, <2>6, PongEffect
  <2>7. QED
    BY <1>7, <2>2, <2>3, <2>4, <2>5, <2>6 DEF RelayStep
<1>8. ASSUME NEW c \in Conns, PhoneStep(c) PROVE Current(d)'
  BY <1>5, <1>8, PhoneTypes
<1>9. CASE Broadcast("control")
  <2>1. retired' = retired
    BY <1>9 DEF Broadcast, OnRelay
  <2>2. QED
    BY <1>1, <1>9, <2>1, BroadcastEffect DEF Current
<1>10. CASE Heartbeat
  <2>1. PICK gone \in SUBSET Devices :
          /\ \A c \in gone : socket'[c].state = "closed"
          /\ \A c \in Conns \ gone : Same(socket'[c], socket[c])
    BY <1>10, HeartbeatEffect
  <2>2. retired' = retired
    BY <1>10 DEF Heartbeat, OnRelay
  <2>3. QED
    BY <1>2, <1>4, <2>1, <2>2
<1>11. CASE KickDevices
  <2>1. Close(Devices, "none")
    BY <1>11 DEF KickDevices
  <2>2. socket'[d].state # "open"
    BY <2>1, CloseEffect DEF Devices, Reasons
  <2>3. QED
    BY <1>4, <2>2
<1>12. CASE RelayStops
  BY <1>4, <1>12, StopEffect
<1>13. CASE UNCHANGED everything \/ Pair \/ OtherSettings \/ \E c \in Conns : Cut(c)
  BY <1>5, <1>13 DEF everything, Pair, OnPhone, OtherSettings, session, Cut
<1>14. QED
  BY <1>6, <1>7, <1>8, <1>9, <1>10, <1>11, <1>12, <1>13 DEF SessionNext

LEMMA CrossedStays == [SettingsNext]_settings => (crossed => crossed')
BY DEF SettingsNext, SettingsStep, Start, Rotate, BeginsRotation, Rotated, Stop, WriteFails,
       ChangeFolders, FoldersChanged, OpenFile, WriteFile, settings

(* A secret that a rotation replaced is of no use any more: no socket is    *)
(* authenticated by it, whatever overlaps, fails or restarts and whichever  *)
(* proofs are being checked, unless a rotation ever began between a change  *)
(* of the folders and its write.                                            *)
THEOREM RetiredSecretsAreOut == SessionSpec => []RetiredSecretIsOut
<1> DEFINE I == ~crossed => SecretsInv /\ AllCurrent
<1>1. SessionInit => I
  BY InitSecrets DEF SessionInit, AllCurrent, Current, NewSocket
<1>2. SessionInv /\ I /\ [SessionNext]_everything => I'
  <2> SUFFICES ASSUME SessionInv, I, [SessionNext]_everything, ~crossed'
               PROVE  SecretsInv' /\ AllCurrent'
    OBVIOUS
  <2>1. ~crossed
    BY SessionStepsSettings, CrossedStays DEF everything
  <2>2. QED
    BY <2>1, SecretsKept, CurrentKept DEF SessionInv
<1>3. I => RetiredSecretIsOut
  BY DEF AllCurrent, Current, RetiredSecretIsOut, ReplacedSecretIsOut, Authenticated, Devices
<1>4. QED
  BY <1>1, <1>2, <1>3, SessionInvHolds, PTL DEF SessionSpec
-----------------------------------------------------------------------------
(* The Relay and its phone never refuse each other's sealed messages        *)
(* (HonestSessionsHold), for any number of connections, messages, rotations *)
(* and restarts.                                                            *)

(* The sealed messages of a queue are the next ones to be opened, in order: *)
(* from is the number the reader expects.                                  *)
InOrder(q, key, from) ==
  /\ \A i \in 1..Len(q) : q[i].kind = "sealed" =>
       /\ q[i].key = key /\ from <= q[i].n
       /\ \A x \in from..(q[i].n - 1) :
            \E j \in 1..(i - 1) : q[j].kind = "sealed" /\ q[j].n = x
  /\ \A i, j \in 1..Len(q) :
       i < j /\ q[i].kind = "sealed" /\ q[j].kind = "sealed" => q[i].n < q[j].n

(* They are all the writer sealed, up to the number it will use next.      *)
UpTo(q, from, to) ==
  /\ from <= to
  /\ \A i \in 1..Len(q) : q[i].kind = "sealed" => q[i].n < to
  /\ \A x \in from..(to - 1) : \E j \in 1..Len(q) : q[j].kind = "sealed" /\ q[j].n = x

(* Nothing but sealed messages and payloads. *)
Talk(q) == \A i \in 1..Len(q) : q[i].kind \in {"sealed", "payload", "publish"}
-----------------------------------------------------------------------------
(* Queues of sealed messages: what reading and writing one leaves.         *)

LEMMA TailFacts ==
  ASSUME NEW q \in Seq(Messages), q # <<>>
  PROVE  /\ Tail(q) \in Seq(Messages)
         /\ Len(q) \in Nat /\ Len(q) > 0 /\ Len(Tail(q)) = Len(q) - 1
         /\ Head(q) = q[1]
         /\ \A i \in 1..(Len(q) - 1) : Tail(q)[i] = q[i + 1]
         /\ \A i \in 1..Len(q) : q[i] \in Messages
  OBVIOUS

LEMMA AppendFacts ==
  ASSUME NEW q \in Seq(Messages), NEW m \in Messages
  PROVE  /\ Append(q, m) \in Seq(Messages)
         /\ Len(q) \in Nat /\ Len(Append(q, m)) = Len(q) + 1
         /\ Append(q, m)[Len(q) + 1] = m
         /\ \A i \in 1..Len(q) : Append(q, m)[i] = q[i] /\ q[i] \in Messages
  OBVIOUS

LEMMA EmptyQueue ==
  ASSUME NEW key, NEW from \in Nat
  PROVE  Talk(<<>>) /\ InOrder(<<>>, key, from) /\ UpTo(<<>>, from, from)
<1>1. Len(<<>>) = 0
  OBVIOUS
<1>2. QED
  BY <1>1 DEF Talk, InOrder, UpTo

(* The head of a queue in order opens, and what is left is in order.       *)
LEMMA SealedHead ==
  ASSUME NEW q \in Seq(Messages), q # <<>>, NEW key, NEW from \in Nat,
         InOrder(q, key, from), Head(q).kind = "sealed"
  PROVE  /\ Head(q).key = key /\ Head(q).n = from
         /\ InOrder(Tail(q), key, from + 1)
         /\ \A to \in Nat : UpTo(q, from, to) => UpTo(Tail(q), from + 1, to)
<1> DEFINE t == Tail(q)
           n == Len(q)
<1>1. /\ n \in Nat /\ n > 0 /\ Len(t) = n - 1
      /\ q[1].kind = "sealed" /\ Head(q) = q[1]
      /\ \A i \in 1..(n - 1) : t[i] = q[i + 1]
      /\ \A i \in 1..n : q[i] \in Messages
  BY TailFacts
<1>2. \A i \in 1..n : q[i].n \in Nat
  BY <1>1 DEF Messages
<1>3. q[1].key = key /\ from <= q[1].n
  BY <1>1 DEF InOrder
<1>4. q[1].n = from
  <2>1. ASSUME from < q[1].n PROVE FALSE
    <3>1. from \in from..(q[1].n - 1)
      BY <1>1, <1>2, <2>1
    <3>2. \E j \in 1..(1 - 1) : q[j].kind = "sealed" /\ q[j].n = from
      BY <1>1, <3>1 DEF InOrder
    <3>3. QED
      BY <3>2
  <2>2. QED
    BY <1>1, <1>2, <1>3, <2>1
<1> HIDE DEF t, n
<1>5. ASSUME NEW i \in 1..(n - 1), t[i].kind = "sealed"
      PROVE  /\ t[i].key = key /\ from + 1 <= t[i].n
             /\ \A x \in (from + 1)..(t[i].n - 1) :
                  \E j \in 1..(i - 1) : t[j].kind = "sealed" /\ t[j].n = x
  <2>1. /\ i + 1 \in 1..n /\ 1 \in 1..n /\ 1 < i + 1
        /\ t[i] = q[i + 1] /\ q[i + 1].kind = "sealed" /\ t[i].n \in Nat
    BY <1>1, <1>2, <1>5
  <2>2. q[i + 1].key = key /\ q[1].n < q[i + 1].n
    BY <1>1, <2>1 DEF InOrder, n
  <2>3. ASSUME NEW x \in (from + 1)..(t[i].n - 1)
        PROVE  \E j \in 1..(i - 1) : t[j].kind = "sealed" /\ t[j].n = x
    <3>1. x \in from..(q[i + 1].n - 1)
      BY <2>1
    <3>2. PICK j \in 1..((i + 1) - 1) : q[j].kind = "sealed" /\ q[j].n = x
      BY <2>1, <3>1 DEF InOrder, n
    <3>3. j # 1
      BY <1>4, <3>2
    <3>4. j - 1 \in 1..(i - 1) /\ t[j - 1] = q[j]
      BY <1>1, <3>2, <3>3
    <3>5. QED
      BY <3>2, <3>4
  <2>4. QED
    BY <1>4, <2>1, <2>2, <2>3
<1>6. ASSUME NEW i \in 1..(n - 1), NEW j \in 1..(n - 1), i < j,
             t[i].kind = "sealed", t[j].kind = "sealed"
      PROVE  t[i].n < t[j].n
  <2>1. i + 1 \in 1..n /\ j + 1 \in 1..n /\ i + 1 < j + 1 /\ t[i] = q[i + 1] /\ t[j] = q[j + 1]
    BY <1>1, <1>6
  <2>2. QED
    BY <1>6, <2>1 DEF InOrder, n
<1>7. InOrder(t, key, from + 1)
  BY <1>1, <1>5, <1>6 DEF InOrder
<1>8. ASSUME NEW to \in Nat, UpTo(q, from, to) PROVE UpTo(t, from + 1, to)
  <2>1. from + 1 <= to
    BY <1>1, <1>4, <1>8 DEF UpTo, n
  <2>2. ASSUME NEW i \in 1..(n - 1), t[i].kind = "sealed" PROVE t[i].n < to
    <3>1. i + 1 \in 1..n /\ t[i] = q[i + 1]
      BY <1>1
    <3>2. QED
      BY <1>8, <2>2, <3>1 DEF UpTo, n
  <2>3. ASSUME NEW x \in (from + 1)..(to - 1)
        PROVE  \E j \in 1..(n - 1) : t[j].kind = "sealed" /\ t[j].n = x
    <3>1. PICK j \in 1..n : q[j].kind = "sealed" /\ q[j].n = x
      BY <1>8 DEF UpTo, n
    <3>2. j # 1
      BY <1>4, <3>1
    <3>3. j - 1 \in 1..(n - 1) /\ t[j - 1] = q[j]
      BY <1>1, <3>1, <3>2
    <3>4. QED
      BY <3>1, <3>3
  <2>4. QED
    BY <1>1, <2>1, <2>2, <2>3 DEF UpTo
<1>9. QED
  BY <1>1, <1>3, <1>4, <1>7, <1>8 DEF t

LEMMA PlainHead ==
  ASSUME NEW q \in Seq(Messages), q # <<>>, NEW key, NEW from \in Nat,
         InOrder(q, key, from), Head(q).kind # "sealed"
  PROVE  /\ InOrder(Tail(q), key, from)
         /\ \A to \in Nat : UpTo(q, from, to) => UpTo(Tail(q), from, to)
<1> DEFINE t == Tail(q)
           n == Len(q)
<1>1. /\ n \in Nat /\ n > 0 /\ Len(t) = n - 1
      /\ q[1].kind # "sealed"
      /\ \A i \in 1..(n - 1) : t[i] = q[i + 1]
      /\ \A i \in 1..n : q[i] \in Messages
  BY TailFacts
<1> HIDE DEF t, n
<1>5. ASSUME NEW i \in 1..(n - 1), t[i].kind = "sealed"
      PROVE  /\ t[i].key = key /\ from <= t[i].n
             /\ \A x \in from..(t[i].n - 1) :
                  \E j \in 1..(i - 1) : t[j].kind = "sealed" /\ t[j].n = x
  <2>1. i + 1 \in 1..n /\ t[i] = q[i + 1] /\ q[i + 1].kind = "sealed"
    BY <1>1, <1>5
  <2>2. q[i + 1].key = key /\ from <= q[i + 1].n
    BY <1>1, <2>1 DEF InOrder, n
  <2>3. ASSUME NEW x \in from..(t[i].n - 1)
        PROVE  \E j \in 1..(i - 1) : t[j].kind = "sealed" /\ t[j].n = x
    <3>2. PICK j \in 1..((i + 1) - 1) : q[j].kind = "sealed" /\ q[j].n = x
      BY <2>1 DEF InOrder, n
    <3>3. j # 1
      BY <1>1, <3>2
    <3>4. j - 1 \in 1..(i - 1) /\ t[j - 1] = q[j]
      BY <1>1, <3>2, <3>3
    <3>5. QED
      BY <3>2, <3>4
  <2>4. QED
    BY <2>1, <2>2, <2>3
<1>6. ASSUME NEW i \in 1..(n - 1), NEW j \in 1..(n - 1), i < j,
             t[i].kind = "sealed", t[j].kind = "sealed"
      PROVE  t[i].n < t[j].n
  <2>1. i + 1 \in 1..n /\ j + 1 \in 1..n /\ i + 1 < j + 1 /\ t[i] = q[i + 1] /\ t[j] = q[j + 1]
    BY <1>1, <1>6
  <2>2. QED
    BY <1>6, <2>1 DEF InOrder, n
<1>7. InOrder(t, key, from)
  BY <1>1, <1>5, <1>6 DEF InOrder
<1>8. ASSUME NEW to \in Nat, UpTo(q, from, to) PROVE UpTo(t, from, to)
  <2>2. ASSUME NEW i \in 1..(n - 1), t[i].kind = "sealed" PROVE t[i].n < to
    <3>1. i + 1 \in 1..n /\ t[i] = q[i + 1]
      BY <1>1
    <3>2. QED
      BY <1>8, <2>2, <3>1 DEF UpTo, n
  <2>3. ASSUME NEW x \in from..(to - 1)
        PROVE  \E j \in 1..(n - 1) : t[j].kind = "sealed" /\ t[j].n = x
    <3>1. PICK j \in 1..n : q[j].kind = "sealed" /\ q[j].n = x
      BY <1>8 DEF UpTo, n
    <3>2. j # 1
      BY <1>1, <3>1
    <3>3. j - 1 \in 1..(n - 1) /\ t[j - 1] = q[j]
      BY <1>1, <3>1, <3>2
    <3>4. QED
      BY <3>1, <3>3
  <2>4. QED
    BY <1>1, <1>8, <2>2, <2>3 DEF UpTo
<1>9. QED
  BY <1>7, <1>8 DEF t

(* A message sealed next, or one that is not sealed, joins a queue.        *)
LEMMA Joins ==
  ASSUME NEW q \in Seq(Messages), NEW m \in Messages, NEW key, NEW from \in Nat, NEW to \in Nat,
         InOrder(q, key, from), UpTo(q, from, to),
         m.kind = "sealed" => m.key = key /\ m.n = to
  PROVE  /\ InOrder(Append(q, m), key, from)
         /\ UpTo(Append(q, m), from, IF m.kind = "sealed" THEN to + 1 ELSE to)
<1> DEFINE a == Append(q, m)
           n == Len(q)
           next == IF m.kind = "sealed" THEN to + 1 ELSE to
<1>1. /\ n \in Nat /\ Len(a) = n + 1 /\ a[n + 1] = m
      /\ \A i \in 1..n : a[i] = q[i] /\ q[i] \in Messages
      /\ \A i \in 1..(n + 1) : i \in 1..n \/ i = n + 1
  BY AppendFacts
<1>2. \A i \in 1..n : q[i].n \in Nat
  BY <1>1 DEF Messages
<1>3. from <= to /\ \A i \in 1..n : q[i].kind = "sealed" => q[i].n < to
  BY DEF UpTo
<1>4. \A x \in from..(to - 1) : \E j \in 1..n : q[j].kind = "sealed" /\ q[j].n = x
  BY DEF UpTo
<1> HIDE DEF a, n
<1>5. ASSUME NEW i \in 1..(n + 1), a[i].kind = "sealed"
      PROVE  /\ a[i].key = key /\ from <= a[i].n
             /\ \A x \in from..(a[i].n - 1) :
                  \E j \in 1..(i - 1) : a[j].kind = "sealed" /\ a[j].n = x
  <2>1. CASE i \in 1..n
    <3>1. a[i] = q[i] /\ \A j \in 1..(i - 1) : a[j] = q[j]
      BY <1>1, <2>1
    <3>2. /\ q[i].key = key /\ from <= q[i].n
          /\ \A x \in from..(q[i].n - 1) :
               \E j \in 1..(i - 1) : q[j].kind = "sealed" /\ q[j].n = x
      BY <1>5, <2>1, <3>1 DEF InOrder, n
    <3>3. QED
      BY <3>1, <3>2
  <2>2. CASE i = n + 1
    <3>1. a[i] = m /\ i - 1 = n /\ \A j \in 1..n : a[j] = q[j]
      BY <1>1, <2>2
    <3>2. QED
      BY <1>3, <1>4, <1>5, <3>1
  <2>3. QED
    BY <1>1, <2>1, <2>2
<1>6. ASSUME NEW i \in 1..(n + 1), NEW j \in 1..(n + 1), i < j,
             a[i].kind = "sealed", a[j].kind = "sealed"
      PROVE  a[i].n < a[j].n
  <2>1. i \in 1..n /\ a[i] = q[i]
    BY <1>1, <1>6
  <2>2. CASE j \in 1..n
    BY <1>1, <1>6, <2>1, <2>2 DEF InOrder, n
  <2>3. CASE j = n + 1
    BY <1>1, <1>3, <1>6, <2>1, <2>3
  <2>4. QED
    BY <1>1, <2>2, <2>3
<1>7. InOrder(a, key, from)
  BY <1>1, <1>5, <1>6 DEF InOrder
<1>8. UpTo(a, from, next)
  <2>1. next \in Nat /\ from <= next
    BY <1>3
  <2>2. ASSUME NEW i \in 1..(n + 1), a[i].kind = "sealed" PROVE a[i].n < next
    BY <1>1, <1>2, <1>3, <2>2
  <2>3. ASSUME NEW x \in from..(next - 1)
        PROVE  \E j \in 1..(n + 1) : a[j].kind = "sealed" /\ a[j].n = x
    <3>1. CASE x \in from..(to - 1)
      BY <1>1, <1>4, <3>1
    <3>2. CASE x = to /\ m.kind = "sealed"
      <4>1. n + 1 \in 1..(n + 1)
        BY <1>1
      <4>2. QED
        BY <1>1, <3>2, <4>1
    <3>3. QED
      BY <1>3, <3>1, <3>2
  <2>4. QED
    BY <1>1, <2>1, <2>2, <2>3 DEF UpTo
<1>9. QED
  BY <1>7, <1>8 DEF a

(* One side reads: what it takes opens, and the rest is still in order for *)
(* the sealer it is left with.                                             *)
LEMMA Reads ==
  ASSUME NEW q \in Seq(Messages), q # <<>>, NEW r \in Seals, r.key # 0, Talk(q),
         InOrder(q, r.key, r.received)
  PROVE  LET m == Head(q)
             s == AfterOpen(r, m)
         IN  /\ Verdict(r, m) = "fine"
             /\ s \in Seals /\ s.key = r.key /\ s.sent = r.sent
             /\ Talk(Tail(q)) /\ InOrder(Tail(q), s.key, s.received)
             /\ \A to \in Nat : UpTo(q, r.received, to) => UpTo(Tail(q), s.received, to)
<1> DEFINE m == Head(q)
           s == AfterOpen(r, m)
<1>1. r.key \in Nat /\ r.sent \in Nat /\ r.received \in Nat
  BY DEF Seals
<1>2. m \in Messages /\ m.kind \in {"sealed", "payload", "publish"}
  BY TailFacts DEF Talk
<1>3. Talk(Tail(q))
  <2>1. ASSUME NEW i \in 1..Len(Tail(q))
        PROVE  Tail(q)[i].kind \in {"sealed", "payload", "publish"}
    <3>1. i + 1 \in 1..Len(q) /\ Tail(q)[i] = q[i + 1]
      BY TailFacts
    <3>2. QED
      BY <3>1 DEF Talk
  <2>2. QED
    BY <2>1 DEF Talk
<1>4. CASE m.kind = "sealed"
  <2>1. /\ m.key = r.key /\ m.n = r.received
        /\ InOrder(Tail(q), r.key, r.received + 1)
        /\ \A to \in Nat : UpTo(q, r.received, to) => UpTo(Tail(q), r.received + 1, to)
    BY <1>1, <1>4, SealedHead
  <2>2. s \in Seals /\ s.key = r.key /\ s.sent = r.sent /\ s.received = r.received + 1
    BY <1>1, <1>4 DEF AfterOpen, Seals
  <2>3. Verdict(r, m) = "fine"
    BY <1>4, <2>1 DEF Verdict, Opens, TravelsUnsealed
  <2>4. QED
    BY <1>3, <2>1, <2>2, <2>3
<1>5. CASE m.kind # "sealed"
  <2>1. /\ InOrder(Tail(q), r.key, r.received)
        /\ \A to \in Nat : UpTo(q, r.received, to) => UpTo(Tail(q), r.received, to)
    BY <1>1, <1>5, PlainHead
  <2>2. s = r
    BY <1>5 DEF AfterOpen
  <2>3. Verdict(r, m) = "fine"
    BY <1>2, <1>5 DEF Verdict, TravelsUnsealed
  <2>4. QED
    BY <1>3, <2>1, <2>2, <2>3
<1>6. QED
  BY <1>4, <1>5

(* Where messages were dropped, a sealed one may not open.                 *)
LEMMA ReadsAny ==
  ASSUME NEW q \in Seq(Messages), q # <<>>, NEW r \in Seals, Talk(q)
  PROVE  LET m == Head(q)
             s == AfterOpen(r, m)
         IN  /\ Verdict(r, m) \in {"fine", "seal_failed"}
             /\ s \in Seals /\ s.key = r.key /\ s.sent = r.sent /\ Talk(Tail(q))
<1> DEFINE m == Head(q)
           s == AfterOpen(r, m)
<1>1. r.key \in Nat /\ r.sent \in Nat /\ r.received \in Nat
  BY DEF Seals
<1>2. m \in Messages /\ m.kind \in {"sealed", "payload", "publish"}
  BY TailFacts DEF Talk
<1>3. Talk(Tail(q))
  <2>1. ASSUME NEW i \in 1..Len(Tail(q))
        PROVE  Tail(q)[i].kind \in {"sealed", "payload", "publish"}
    <3>1. i + 1 \in 1..Len(q) /\ Tail(q)[i] = q[i + 1]
      BY TailFacts
    <3>2. QED
      BY <3>1 DEF Talk
  <2>2. QED
    BY <2>1 DEF Talk
<1>4. Verdict(r, m) \in {"fine", "seal_failed"}
  BY <1>2 DEF Verdict, TravelsUnsealed
<1>5. s \in Seals /\ s.key = r.key /\ s.sent = r.sent
  BY <1>1 DEF AfterOpen, Seals
<1>6. QED
  BY <1>3, <1>4, <1>5

(* One side writes: the queue goes on in order, and holds all it sealed.   *)
LEMMA TalksOn ==
  ASSUME NEW q \in Seq(Messages), NEW w \in Seals, w.key # 0, Talk(q),
         NEW kind \in {"control", "publish", "ack"}
  PROVE  LET a == Append(q, Sealed(w, kind))
         IN  a \in Seq(Messages) /\ a # <<>> /\ Talk(a)
<1> DEFINE m == Sealed(w, kind)
           a == Append(q, m)
<1>1. w.key \in Nat /\ w.sent \in Nat
  BY DEF Seals
<1>2. m \in Messages /\ m.kind \in {"sealed", "payload", "publish"}
  BY <1>1 DEF Sealed, TravelsUnsealed, Plain, Messages
<1> HIDE DEF m
<1>3. a \in Seq(Messages) /\ a # <<>>
  BY <1>2
<1>4. Talk(a)
  <2>1. ASSUME NEW i \in 1..Len(a) PROVE a[i].kind \in {"sealed", "payload", "publish"}
    <3>1. i \in 1..Len(q) \/ i = Len(q) + 1
      BY <1>2, AppendFacts
    <3>2. CASE i \in 1..Len(q)
      BY <1>2, <3>2, AppendFacts DEF Talk
    <3>3. CASE i = Len(q) + 1
      BY <1>2, <3>3, AppendFacts
    <3>4. QED
      BY <3>1, <3>2, <3>3
  <2>2. QED
    BY <2>1 DEF Talk
<1>5. QED
  BY <1>3, <1>4 DEF m

LEMMA Writes ==
  ASSUME NEW q \in Seq(Messages), NEW w \in Seals, w.key # 0, NEW from \in Nat, Talk(q),
         InOrder(q, w.key, from), UpTo(q, from, w.sent),
         NEW kind \in {"control", "publish", "ack"}
  PROVE  LET a == Append(q, Sealed(w, kind))
             v == AfterSeal(w, kind)
         IN  /\ v \in Seals /\ v.key = w.key /\ v.received = w.received
             /\ a \in Seq(Messages) /\ a # <<>> /\ Talk(a)
             /\ InOrder(a, w.key, from) /\ UpTo(a, from, v.sent)
<1> DEFINE m == Sealed(w, kind)
           v == AfterSeal(w, kind)
           a == Append(q, m)
<1>1. w.key \in Nat /\ w.sent \in Nat /\ w.received \in Nat
  BY DEF Seals
<1>2. /\ m \in Messages /\ m.kind \in {"sealed", "payload", "publish"}
      /\ m.kind = "sealed" => m.key = w.key /\ m.n = w.sent
  BY <1>1 DEF Sealed, TravelsUnsealed, Plain, Messages
<1>3. /\ v \in Seals /\ v.key = w.key /\ v.received = w.received
      /\ v.sent = IF m.kind = "sealed" THEN w.sent + 1 ELSE w.sent
  BY <1>1 DEF AfterSeal, Seals, Sealed, TravelsUnsealed, Plain
<1> HIDE DEF m, v
<1>4. InOrder(a, w.key, from) /\ UpTo(a, from, v.sent)
  BY <1>1, <1>2, <1>3, Joins
<1>5. a \in Seq(Messages) /\ a # <<>> /\ Talk(a)
  BY TalksOn DEF m
<1>6. QED
  BY <1>3, <1>4, <1>5 DEF m, v

(* What the Relay posts once the proof holds.                              *)
LEMMA Admission ==
  ASSUME NEW key \in Nat
  PROVE  LET q == <<Keyed("auth_ok", key), Plain("payload")>>
         IN  /\ q # <<>> /\ Head(q) = Keyed("auth_ok", key)
             /\ Talk(Tail(q)) /\ InOrder(Tail(q), key, 0) /\ UpTo(Tail(q), 0, 0)
<1> DEFINE m == Plain("payload")
           q == <<Keyed("auth_ok", key), m>>
<1>1. m \in Messages /\ m.kind = "payload"
  BY DEF Plain, Messages
<1> HIDE DEF m
<1>2. q # <<>> /\ Head(q) = Keyed("auth_ok", key) /\ Tail(q) = Append(<<>>, m)
  OBVIOUS
<1>3. <<>> \in Seq(Messages) /\ InOrder(<<>>, key, 0) /\ UpTo(<<>>, 0, 0)
  BY EmptyQueue
<1>4. InOrder(Append(<<>>, m), key, 0) /\ UpTo(Append(<<>>, m), 0, 0)
  <2>1. m.kind # "sealed"
    BY <1>1
  <2>2. QED
    BY <1>1, <1>3, <2>1, Joins
<1>5. Talk(Append(<<>>, m))
  BY <1>1 DEF Talk
<1>6. QED
  BY <1>2, <1>4, <1>5 DEF m
-----------------------------------------------------------------------------
(* The invariant                                                           *)

(* What the phone has still to read, by how far the handshake is.          *)
Greeted(c) == toPhone[c] = <<Plain("hello")>> /\ end[c].seal = NoSeal
Waiting(c) == toPhone[c] = <<>> /\ end[c].seal = NoSeal
Admitted(c) ==
  /\ end[c].seal = NoSeal /\ phoneSecret # 0
  /\ toPhone[c] # <<>> /\ Head(toPhone[c]) = Keyed("auth_ok", phoneSecret)
  /\ Talk(Tail(toPhone[c]))
  /\ c \notin dropped => InOrder(Tail(toPhone[c]), phoneSecret, 0)
Paired(c) ==
  /\ end[c].seal.key = phoneSecret /\ phoneSecret # 0
  /\ Talk(toPhone[c])
  /\ c \notin dropped => InOrder(toPhone[c], phoneSecret, end[c].seal.received)

PhoneHolds(c) ==
  end[c].state = "open" /\ link[c] = "up" =>
    Greeted(c) \/ Waiting(c) \/ Admitted(c) \/ Paired(c)

(* What the Relay has still to read.                                       *)
Silent(c) ==
  ~socket[c].authenticated /\ socket[c].checking = 0 /\ toRelay[c] = <<>>
Proving(c) ==
  /\ ~socket[c].authenticated /\ socket[c].checking = 0
  /\ \E k \in Nat : /\ toRelay[c] = <<Keyed("auth", k)>>
                    /\ end[c].state = "open" => k = phoneSecret
Checking(c) ==
  /\ ~socket[c].authenticated /\ socket[c].checking # 0 /\ toRelay[c] = <<>>
  /\ end[c].state = "open" => socket[c].secret = phoneSecret
Proven(c) ==
  /\ socket[c].authenticated /\ socket[c].checking = 0 /\ socket[c].seal.key # 0
  /\ Talk(toRelay[c])
  /\ InOrder(toRelay[c], socket[c].seal.key, socket[c].seal.received)

RelayHolds(c) ==
  socket[c].state = "open" /\ link[c] = "up" =>
    Silent(c) \/ Proving(c) \/ Checking(c) \/ Proven(c)

(* How far both are, and that neither has lost a sealed message, but for    *)
(* those that the Relay's socket dropped.                                  *)
Handshaking(c) ==
  \/ Greeted(c) /\ Silent(c)
  \/ Waiting(c) /\ (Silent(c) \/ Proving(c) \/ Checking(c))

HalfPaired(c) ==
  /\ Admitted(c) /\ Proven(c)
  /\ socket[c].seal.key = phoneSecret /\ socket[c].seal.received = 0
  /\ toRelay[c] = <<>>
  /\ c \notin dropped => UpTo(Tail(toPhone[c]), 0, socket[c].seal.sent)

Conversing(c) ==
  /\ Paired(c) /\ Proven(c) /\ socket[c].seal.key = phoneSecret
  /\ c \notin dropped => UpTo(toPhone[c], end[c].seal.received, socket[c].seal.sent)
  /\ UpTo(toRelay[c], socket[c].seal.received, end[c].seal.sent)

Both(c) == socket[c].state = "open" /\ end[c].state = "open" /\ link[c] = "up"
Agree(c) == Both(c) => Handshaking(c) \/ HalfPaired(c) \/ Conversing(c)

NothingUnderWay(c) == link[c] # "up" => toPhone[c] = <<>> /\ toRelay[c] = <<>>

NoneRefused(c) ==
  /\ socket[c].why \notin {"seal_failed", "seal_required"}
  /\ end[c].why \notin {"seal_required", "relay_unverified"}
  /\ end[c].why = "seal_failed" => c \in dropped

Honest(c) ==
  PhoneHolds(c) /\ RelayHolds(c) /\ Agree(c) /\ NothingUnderWay(c) /\ NoneRefused(c)

HonestInv == \A c \in Conns : Honest(c)
-----------------------------------------------------------------------------
(* Steps that do not touch a connection, or take one of its ends away.     *)

LEMMA Rests ==
  ASSUME NEW c \in Conns, Honest(c), Same(socket'[c], socket[c]), end'[c] = end[c],
         link'[c] = link[c], toPhone'[c] = toPhone[c], toRelay'[c] = toRelay[c],
         phoneSecret' = phoneSecret, c \in dropped' <=> c \in dropped
  PROVE  Honest(c)'
BY DEF Honest, PhoneHolds, RelayHolds, Agree, NothingUnderWay, NoneRefused, Both,
       Handshaking, HalfPaired, Conversing, Greeted, Waiting, Admitted, Paired,
       Silent, Proving, Checking, Proven, Same

LEMMA SocketGoes ==
  ASSUME NEW c \in Conns, Honest(c), socket'[c].state # "open",
         socket'[c].why \notin {"seal_failed", "seal_required"},
         toRelay'[c] = toRelay[c] \/ toRelay'[c] = <<>>,
         end'[c] = end[c], link'[c] = link[c], toPhone'[c] = toPhone[c],
         phoneSecret' = phoneSecret, c \in dropped' <=> c \in dropped
  PROVE  Honest(c)'
BY DEF Honest, PhoneHolds, RelayHolds, Agree, NothingUnderWay, NoneRefused, Both,
       Greeted, Waiting, Admitted, Paired

LEMMA EndGoes ==
  ASSUME NEW c \in Conns, Honest(c), end'[c].state # "open",
         end'[c].why \notin {"seal_required", "relay_unverified"},
         end'[c].why = "seal_failed" => c \in dropped,
         toPhone'[c] = toPhone[c] \/ toPhone'[c] = <<>>,
         socket'[c] = socket[c], link'[c] = link[c], toRelay'[c] = toRelay[c],
         dropped' = dropped
  PROVE  Honest(c)'
BY DEF Honest, PhoneHolds, RelayHolds, Agree, NothingUnderWay, NoneRefused, Both,
       Silent, Proving, Checking, Proven

LEMMA InitHonest == SessionInit => HonestInv
BY DEF SessionInit, HonestInv, Honest, PhoneHolds, RelayHolds, Agree, NothingUnderWay,
       NoneRefused, Both, NewSocket, NewEnd
-----------------------------------------------------------------------------
(* The steps of one connection                                             *)

LEMMA OpenHonest ==
  ASSUME Typed, Fresh, HonestInv, NEW c \in Conns, Open(c)
  PROVE  HonestInv'
<1>1. ASSUME NEW d \in Conns, d # c PROVE Honest(d)'
  <2>1. /\ socket'[d] = socket[d] /\ end'[d] = end[d] /\ link'[d] = link[d]
        /\ toPhone'[d] = toPhone[d] /\ toRelay'[d] = toRelay[d] /\ phoneSecret' = phoneSecret
        /\ dropped' = dropped
    BY <1>1 DEF Open, Typed
  <2>2. Honest(d) /\ Same(socket'[d], socket[d])
    BY <2>1 DEF HonestInv, Same
  <2>3. QED
    BY <2>1, <2>2, Rests
<1>2. Honest(c)'
  <2>1. /\ Untouched(c) /\ socket'[c].authenticated = socket[c].authenticated
        /\ socket'[c].checking = socket[c].checking /\ socket'[c].why = socket[c].why
    BY OpenEffect DEF Fresh
  <2>2. /\ end'[c] = [end[c] EXCEPT !.state = "open"] /\ end[c] \in Ends /\ NewEnd \in Ends
        /\ link'[c] = "up" /\ toPhone'[c] = <<Plain("hello")>> /\ toRelay'[c] = toRelay[c]
        /\ dropped' = dropped
    BY <2>1 DEF Open, Typed, Untouched
  <2>3. end'[c].seal = NoSeal /\ end'[c].why = "none"
    <3>1. NoSeal \in Seals
      BY SealTypes DEF NoSeal, Sealer, Seals
    <3>2. end'[c].seal = end[c].seal /\ end'[c].why = end[c].why
      BY <2>2 DEF Ends
    <3>3. QED
      BY <2>1, <3>2 DEF Untouched, NewEnd
  <2>4. Greeted(c)' /\ Silent(c)'
    BY <2>1, <2>2, <2>3 DEF Greeted, Silent, Untouched
  <2>5. QED
    BY <2>1, <2>2, <2>3, <2>4 DEF Honest, PhoneHolds, RelayHolds, Agree, NothingUnderWay,
                                  NoneRefused, Handshaking, Untouched
<1>3. QED
  BY <1>1, <1>2 DEF HonestInv

(* The proof that waits on the socket of a phone is made with the phone's  *)
(* secret of now: a phone that scans another code connects anew.           *)
LEMMA CheckHonest ==
  ASSUME Typed, NEW c \in Conns, Honest(c), CheckProof(c)
  PROVE  Honest(c)'
<1>1. /\ socket[c].state = "open" /\ ~socket[c].authenticated /\ link[c] = "up"
      /\ toRelay[c] # <<>>
      /\ socket'[c].state = "open" /\ ~socket'[c].authenticated
      /\ socket'[c].secret = Head(toRelay[c]).key /\ socket'[c].why = socket[c].why
      /\ toRelay' = [toRelay EXCEPT ![c] = Tail(@)]
  BY CheckEffect DEF Devices
<1>2. UNCHANGED <<end, link, toPhone, phoneSecret, dropped>>
  BY DEF CheckProof, OnRelay
<1>3. Proving(c)
  BY <1>1 DEF Honest, RelayHolds, Silent, Checking, Proven
<1>4. PICK k \in Nat : /\ toRelay[c] = <<Keyed("auth", k)>>
                       /\ end[c].state = "open" => k = phoneSecret
  BY <1>3 DEF Proving
<1>5. /\ toRelay'[c] = <<>>
      /\ end[c].state = "open" => socket'[c].secret = phoneSecret
  BY <1>1, <1>4 DEF Keyed, Typed
<1>6. Silent(c)' \/ Checking(c)'
  BY <1>1, <1>2, <1>5 DEF Silent, Checking
<1>7. Both(c) => Waiting(c)
  BY <1>1, <1>3, <1>4 DEF Honest, Agree, Handshaking, HalfPaired, Conversing, Silent, Proving,
                         Proven
<1>8. Waiting(c) => Waiting(c)'
  BY <1>2 DEF Waiting
<1>9. PhoneHolds(c)'
  BY <1>2 DEF Honest, PhoneHolds, Greeted, Waiting, Admitted, Paired
<1>10. QED
  BY <1>1, <1>2, <1>6, <1>7, <1>8, <1>9
    DEF Honest, RelayHolds, Agree, NothingUnderWay, NoneRefused, Both, Handshaking

LEMMA AuthenticateHonest ==
  ASSUME Typed, NEW c \in Conns, Honest(c), Authenticate(c)
  PROVE  Honest(c)'
<1>0. UNCHANGED <<end, link, phoneSecret, dropped>>
  BY DEF Authenticate, OnRelay
<1>1. CASE ~ProofHolds(socket[c])
  <2>1. /\ toPhone' = toPhone /\ socket'[c].state # "open"
        /\ socket'[c].why = "none" \/ socket'[c].why = socket[c].why
        /\ toRelay'[c] = toRelay[c] \/ toRelay'[c] = <<>>
    BY <1>1, RejectEffect
  <2>2. socket'[c].why \notin {"seal_failed", "seal_required"}
    BY <2>1 DEF Honest, NoneRefused
  <2>3. QED
    BY <1>0, <2>1, <2>2, SocketGoes
<1>2. CASE ProofHolds(socket[c]) /\ socket[c].state # "open"
  <2>1. /\ toRelay' = toRelay /\ socket'[c].state = socket[c].state
        /\ socket'[c].why = socket[c].why
        /\ Post(c, <<Keyed("auth_ok", socket[c].checking), Plain("payload")>>)
    BY <1>2, AuthenticateEffect
  <2>2. toPhone'[c] = toPhone[c]
    BY <1>2, <2>1 DEF Post, Typed
  <2>3. socket'[c].why \notin {"seal_failed", "seal_required"}
    BY <2>1 DEF Honest, NoneRefused
  <2>4. QED
    BY <1>0, <1>2, <2>1, <2>2, <2>3, SocketGoes
<1>3. CASE ProofHolds(socket[c]) /\ socket[c].state = "open"
  <2> DEFINE key == socket[c].checking
             q == <<Keyed("auth_ok", key), Plain("payload")>>
  <2>1. /\ toRelay' = toRelay /\ socket'[c].state = "open"
        /\ socket'[c].authenticated /\ socket'[c].checking = 0
        /\ socket'[c].seal = Sealer(key) /\ socket'[c].why = socket[c].why
        /\ socket[c].secret = key /\ key # 0 /\ Post(c, q)
    BY <1>3, AuthenticateEffect
  <2>2. key \in Nat
    BY DEF Typed, Sockets
  <2>3. /\ q # <<>> /\ Head(q) = Keyed("auth_ok", key)
        /\ Talk(Tail(q)) /\ InOrder(Tail(q), key, 0) /\ UpTo(Tail(q), 0, 0)
    BY <2>2, Admission
  <2>4. /\ socket'[c].seal.key = key /\ socket'[c].seal.sent = 0
        /\ socket'[c].seal.received = 0
    BY <2>1 DEF Sealer
  <2>5. Talk(<<>>) /\ InOrder(<<>>, key, 0)
    BY EmptyQueue
  <2>6. q \in Seq(Messages)
    BY <2>2 DEF Keyed, Plain, Messages
  <2> HIDE DEF q, key
  <2>7. CASE link[c] = "up" /\ end[c].state = "open"
    <3>1. Handshaking(c) \/ HalfPaired(c) \/ Conversing(c)
      BY <1>3, <2>7 DEF Honest, Agree, Both
    <3>2. Waiting(c) /\ Checking(c)
      BY <2>1, <3>1 DEF Handshaking, HalfPaired, Conversing, Silent, Proving, Proven, key
    <3>3. toPhone[c] = <<>> /\ end[c].seal = NoSeal /\ toRelay[c] = <<>> /\ key = phoneSecret
      BY <2>1, <2>7, <3>2 DEF Waiting, Checking
    <3>4. toPhone'[c] = q
      BY <1>3, <2>1, <2>6, <2>7, <3>3 DEF Post, Typed
    <3>5. Proven(c)'
      BY <2>1, <2>4, <2>5, <3>3 DEF Proven
    <3>6. Admitted(c)'
      BY <1>0, <2>1, <2>3, <3>3, <3>4 DEF Admitted
    <3>7. HalfPaired(c)'
      BY <1>0, <2>1, <2>3, <2>4, <3>3, <3>4, <3>5, <3>6 DEF HalfPaired
    <3>8. QED
      BY <1>0, <2>1, <2>7, <3>5, <3>6, <3>7
        DEF Honest, PhoneHolds, RelayHolds, Agree, NothingUnderWay, NoneRefused
  <2>8. CASE link[c] = "up" /\ end[c].state # "open"
    <3>1. toPhone'[c] = toPhone[c]
      BY <2>1, <2>8 DEF Post, Typed
    <3>2. Checking(c)
      BY <1>3, <2>1, <2>8 DEF Honest, RelayHolds, Silent, Proving, Proven, key
    <3>3. Proven(c)'
      BY <2>1, <2>4, <2>5, <3>2 DEF Proven, Checking
    <3>4. QED
      BY <1>0, <2>1, <2>8, <3>1, <3>3
        DEF Honest, PhoneHolds, RelayHolds, Agree, NothingUnderWay, NoneRefused, Both
  <2>9. CASE link[c] # "up"
    <3>1. toPhone'[c] = toPhone[c]
      BY <2>1, <2>9 DEF Post, Typed
    <3>2. QED
      BY <1>0, <2>1, <2>9, <3>1
        DEF Honest, PhoneHolds, RelayHolds, Agree, NothingUnderWay, NoneRefused, Both
  <2>10. QED
    BY <2>7, <2>8, <2>9
<1>4. QED
  BY <1>1, <1>2, <1>3

(* Whatever an authenticated socket reads opens.                           *)
LEMMA ReceivedOpens ==
  ASSUME Typed, NEW c \in Conns, Honest(c), Receive(c)
  PROVE  LET r == socket[c].seal
             s == AfterOpen(r, Head(toRelay[c]))
             q == Tail(toRelay[c])
         IN  /\ Verdict(r, Head(toRelay[c])) = "fine"
             /\ Both(c) => Conversing(c)
             /\ s \in Seals /\ s.key = r.key /\ s.key # 0 /\ s.sent = r.sent
             /\ socket[c].checking = 0
             /\ Talk(q) /\ InOrder(q, s.key, s.received)
             /\ \A to \in Nat : UpTo(toRelay[c], r.received, to) => UpTo(q, s.received, to)
<1>1. /\ socket[c].state = "open" /\ socket[c].authenticated /\ link[c] = "up"
      /\ toRelay[c] # <<>>
  BY DEF Receive, Message, Authenticated, Devices
<1>2. Proven(c)
  BY <1>1 DEF Honest, RelayHolds, Silent, Proving, Checking
<1>3. toRelay[c] \in Seq(Messages) /\ socket[c].seal \in Seals
  BY DEF Typed, Sockets
<1>4. Both(c) => Conversing(c)
  BY <1>1 DEF Honest, Agree, Handshaking, HalfPaired, Silent, Proving, Checking
<1>5. /\ socket[c].seal.key # 0 /\ Talk(toRelay[c]) /\ socket[c].checking = 0
      /\ InOrder(toRelay[c], socket[c].seal.key, socket[c].seal.received)
  BY <1>2 DEF Proven
<1>6. QED
  BY <1>1, <1>3, <1>4, <1>5, Reads

(* A message that joins a queue joins it at the end.                       *)
LEMMA PostIsAppend ==
  ASSUME Typed, NEW c \in Conns, NEW m \in Messages, Post(c, <<m>>)
  PROVE  toPhone' = [toPhone EXCEPT ![c] = IF Both(c) THEN Append(toPhone[c], m) ELSE toPhone[c]]
<1>1. toPhone[c] \in Seq(Messages)
  BY DEF Typed
<1>2. toPhone[c] \o <<m>> = Append(toPhone[c], m)
  BY <1>1
<1>3. QED
  BY <1>2 DEF Post, Both

LEMMA ReceiveHonest ==
  ASSUME Typed, NEW c \in Conns, Honest(c), Receive(c)
  PROVE  Honest(c)'
<1> DEFINE m == Head(toRelay[c])
           r == socket[c].seal
           s == AfterOpen(r, m)
           q == Tail(toRelay[c])
<1>1. /\ Verdict(r, m) = "fine"
      /\ Both(c) => Conversing(c)
      /\ s \in Seals /\ s.key = r.key /\ s.key # 0 /\ s.sent = r.sent
      /\ socket[c].checking = 0 /\ Talk(q) /\ InOrder(q, s.key, s.received)
      /\ \A to \in Nat : UpTo(toRelay[c], r.received, to) => UpTo(q, s.received, to)
  BY ReceivedOpens
<1>2. /\ socket'[c].state = "open" /\ socket'[c].authenticated
      /\ socket'[c].checking = socket[c].checking /\ socket'[c].why = socket[c].why
      /\ m.kind = "publish" => /\ socket'[c].seal = AfterSeal(s, "ack")
                               /\ \/ Post(c, <<Sealed(s, "ack")>>) /\ dropped' = dropped
                                  \/ toPhone' = toPhone /\ dropped' = dropped \cup {c}
      /\ m.kind # "publish" => /\ socket'[c].seal = s
                               /\ toPhone' = toPhone /\ dropped' = dropped
      /\ toRelay' = [toRelay EXCEPT ![c] = Tail(@)]
  BY <1>1, ReceiveEffect
<1>3. /\ socket[c].state = "open" /\ socket[c].authenticated /\ link[c] = "up"
      /\ UNCHANGED <<end, link, phoneSecret>>
  BY DEF Receive, Message, Authenticated, Devices, OnRelay
<1>4. toRelay'[c] = q
  BY <1>2 DEF Typed
<1>5. toPhone[c] \in Seq(Messages) /\ end[c].seal \in Seals /\ toRelay[c] \in Seq(Messages)
  BY DEF Typed, Ends
<1>6. end[c].seal.received \in Nat /\ end[c].seal.sent \in Nat
  BY <1>5 DEF Seals
<1>7. /\ c \in dropped => c \in dropped'
      /\ c \in dropped' /\ c \notin dropped => toPhone' = toPhone
  BY <1>2
<1> HIDE DEF m, s, q
<1>8. /\ socket'[c].seal.key = s.key /\ socket'[c].seal.received = s.received
  <2>1. AfterSeal(s, "ack").key = s.key /\ AfterSeal(s, "ack").received = s.received
    BY <1>1 DEF AfterSeal, Seals
  <2>2. QED
    BY <1>2, <2>1
<1>9. Proven(c)'
  BY <1>1, <1>2, <1>4, <1>8 DEF Proven
<1>10. CASE end[c].state # "open"
  <2>1. toPhone'[c] = toPhone[c]
    <3>1. CASE m.kind = "publish"
      <4>1. Sealed(s, "ack") \in Messages
        BY <1>1, SealTypes DEF Sealed, Plain, TravelsUnsealed, Messages, Seals
      <4>2. QED
        BY <1>2, <1>10, <3>1, <4>1, PostIsAppend DEF Both, Typed
    <3>2. QED
      BY <1>2, <3>1
  <2>2. QED
    BY <1>2, <1>3, <1>9, <1>10, <1>7, <2>1
      DEF Honest, PhoneHolds, RelayHolds, Agree, NothingUnderWay, NoneRefused, Both
<1>11. CASE end[c].state = "open"
  <2>1. Conversing(c)
    BY <1>1, <1>3, <1>11 DEF Both
  <2>2. /\ end[c].seal.key = phoneSecret /\ phoneSecret # 0
        /\ r.key = phoneSecret /\ Talk(toPhone[c])
        /\ c \notin dropped => /\ InOrder(toPhone[c], phoneSecret, end[c].seal.received)
                               /\ UpTo(toPhone[c], end[c].seal.received, r.sent)
        /\ UpTo(toRelay[c], r.received, end[c].seal.sent)
    BY <2>1 DEF Conversing, Paired
  <2>3. UpTo(q, s.received, end[c].seal.sent)
    BY <1>1, <1>6, <2>2
  <2>4. /\ Talk(toPhone'[c])
        /\ c \notin dropped' =>
             /\ InOrder(toPhone'[c], phoneSecret, end[c].seal.received)
             /\ UpTo(toPhone'[c], end[c].seal.received, socket'[c].seal.sent)
    <3>1. CASE m.kind = "publish" /\ Post(c, <<Sealed(s, "ack")>>) /\ dropped' = dropped
      <4> DEFINE a == Append(toPhone[c], Sealed(s, "ack"))
      <4>1. /\ Talk(a)
            /\ c \notin dropped => /\ InOrder(a, s.key, end[c].seal.received)
                                   /\ UpTo(a, end[c].seal.received, AfterSeal(s, "ack").sent)
        BY <1>1, <1>5, <1>6, <2>2, Writes, TalksOn
      <4>2. Sealed(s, "ack") \in Messages
        BY <1>1 DEF Sealed, Plain, TravelsUnsealed, Messages, Seals
      <4>3. toPhone'[c] = a
        BY <1>3, <1>11, <3>1, <4>2, PostIsAppend DEF Both, Typed
      <4> HIDE DEF a
      <4>4. QED
        BY <1>1, <1>2, <2>2, <3>1, <4>1, <4>3
    <3>2. CASE toPhone' = toPhone /\ dropped' = dropped \cup {c}
      BY <2>2, <3>2
    <3>3. CASE m.kind # "publish"
      BY <1>1, <1>2, <2>2, <3>3
    <3>4. QED
      BY <1>2, <3>1, <3>2, <3>3
  <2>5. Paired(c)'
    BY <1>3, <2>2, <2>4 DEF Paired
  <2>6. Conversing(c)'
    BY <1>1, <1>3, <1>4, <1>8, <1>9, <2>2, <2>3, <2>4, <2>5 DEF Conversing
  <2>7. QED
    BY <1>2, <1>3, <1>9, <1>11, <1>7, <2>5, <2>6
      DEF Honest, PhoneHolds, RelayHolds, Agree, NothingUnderWay, NoneRefused
<1>12. QED
  BY <1>10, <1>11

(* A broadcast seals one message for every authenticated socket.           *)
LEMMA BroadcastHonest ==
  ASSUME Typed, NEW c \in Conns, Honest(c), Broadcast("control")
  PROVE  Honest(c)'
<1> DEFINE r == socket[c].seal
           m == Sealed(r, "control")
<1>1. /\ UNCHANGED <<end, link, phoneSecret, toRelay>>
      /\ \/ /\ c \in dropped' <=> c \in dropped
            /\ toPhone'[c] = IF c \in Authenticated /\ link[c] = "up" /\ end[c].state = "open"
                             THEN Append(toPhone[c], m) ELSE toPhone[c]
         \/ c \in Authenticated /\ c \in dropped' /\ toPhone'[c] = toPhone[c]
  BY DEF Broadcast, OnRelay
<1>2. /\ socket'[c].state = socket[c].state
      /\ socket'[c].authenticated = socket[c].authenticated
      /\ socket'[c].checking = socket[c].checking
      /\ socket'[c].secret = socket[c].secret /\ socket'[c].why = socket[c].why
      /\ socket'[c].seal = IF c \in Authenticated THEN AfterSeal(r, "control") ELSE r
  BY BroadcastEffect
<1>3. c \in Authenticated <=> socket[c].state = "open" /\ socket[c].authenticated
  BY DEF Authenticated, Devices
<1>4. r \in Seals /\ toPhone[c] \in Seq(Messages) /\ end[c].seal \in Seals
  BY DEF Typed, Sockets, Ends
<1>5. end[c].seal.received \in Nat
  BY <1>4 DEF Seals
<1>6. m \in Messages
  BY <1>4 DEF Sealed, Plain, TravelsUnsealed, Messages, Seals
<1>7. AfterSeal(r, "control").key = r.key /\ AfterSeal(r, "control").received = r.received
  BY <1>4 DEF AfterSeal, Seals
<1> HIDE DEF m
<1>8. CASE c \notin Authenticated
  <2>1. Same(socket'[c], socket[c]) /\ toPhone'[c] = toPhone[c]
    BY <1>1, <1>2, <1>8 DEF Same
  <2>2. c \in dropped' <=> c \in dropped
    BY <1>1, <1>8
  <2>3. QED
    BY <1>1, <2>1, <2>2, Rests
<1>9. CASE c \in Authenticated /\ ~Both(c)
  <2>1. toPhone'[c] = toPhone[c] /\ ~Both(c)'
    BY <1>1, <1>2, <1>3, <1>9 DEF Both
  <2>2. socket'[c].seal.key = r.key /\ socket'[c].seal.received = r.received
    BY <1>2, <1>7
  <2>3. PhoneHolds(c)' /\ RelayHolds(c)'
    BY <1>1, <1>2, <2>1, <2>2
      DEF Honest, PhoneHolds, RelayHolds, Greeted, Waiting, Admitted, Paired, Silent, Proving,
          Checking, Proven
  <2>4. c \in dropped => c \in dropped'
    BY <1>1
  <2>5. QED
    BY <1>1, <1>2, <2>1, <2>3, <2>4 DEF Honest, Agree, NothingUnderWay, NoneRefused
<1>10. CASE c \in Authenticated /\ Both(c) /\ c \in dropped' /\ toPhone'[c] = toPhone[c]
  <2>1. /\ Both(c)' /\ socket'[c].seal.key = r.key /\ socket'[c].seal.received = r.received
    BY <1>1, <1>2, <1>7, <1>10 DEF Both
  <2>2. HalfPaired(c) \/ Conversing(c)
    BY <1>3, <1>10 DEF Honest, Agree, Handshaking, Silent, Proving, Checking
  <2>3. Proven(c) => Proven(c)'
    BY <1>1, <1>2, <2>1 DEF Proven
  <2>4. (Admitted(c) => Admitted(c)') /\ (Paired(c) => Paired(c)')
    BY <1>1, <1>10 DEF Admitted, Paired
  <2>5. HalfPaired(c)' \/ Conversing(c)'
    BY <1>1, <1>10, <2>1, <2>2, <2>3, <2>4 DEF HalfPaired, Conversing
  <2>6. QED
    BY <1>1, <1>2, <1>10, <2>1, <2>5
      DEF Honest, PhoneHolds, RelayHolds, Agree, NothingUnderWay, NoneRefused, Both, HalfPaired,
          Conversing
<1>11. CASE /\ c \in Authenticated /\ Both(c) /\ (c \in dropped' <=> c \in dropped)
            /\ toPhone'[c] = Append(toPhone[c], m)
  <2>1. /\ Both(c)' /\ socket'[c].seal = AfterSeal(r, "control")
    BY <1>1, <1>2, <1>11 DEF Both
  <2>2. HalfPaired(c) \/ Conversing(c)
    BY <1>3, <1>11 DEF Honest, Agree, Handshaking, Silent, Proving, Checking
  <2>3. CASE Conversing(c)
    <3>1. /\ r.key = phoneSecret /\ r.key # 0 /\ Talk(toPhone[c])
          /\ c \notin dropped => /\ InOrder(toPhone[c], r.key, end[c].seal.received)
                                 /\ UpTo(toPhone[c], end[c].seal.received, r.sent)
      BY <2>3 DEF Conversing, Paired
    <3>2. /\ Talk(toPhone'[c])
          /\ c \notin dropped' =>
               /\ InOrder(toPhone'[c], r.key, end[c].seal.received)
               /\ UpTo(toPhone'[c], end[c].seal.received, socket'[c].seal.sent)
      <4> DEFINE a == Append(toPhone[c], Sealed(r, "control"))
      <4>1. toPhone'[c] = a
        BY <1>11 DEF m
      <4>2. Talk(a)
        BY <1>4, <3>1, TalksOn
      <4>3. CASE c \in dropped'
        BY <4>1, <4>2, <4>3
      <4>4. CASE c \notin dropped'
        <5>1. c \notin dropped
          BY <1>11, <4>4
        <5>2. /\ InOrder(a, r.key, end[c].seal.received)
              /\ UpTo(a, end[c].seal.received, AfterSeal(r, "control").sent)
          BY <1>4, <1>5, <3>1, <5>1, Writes
        <5>3. QED
          BY <2>1, <4>1, <4>2, <5>2
      <4>5. QED
        BY <4>3, <4>4
    <3>3. Paired(c)' /\ Proven(c)'
      BY <1>1, <1>2, <1>7, <1>11, <2>1, <2>3, <3>1, <3>2 DEF Paired, Proven, Conversing
    <3>4. Conversing(c)'
      BY <1>1, <1>7, <1>11, <2>1, <2>3, <3>1, <3>2, <3>3 DEF Conversing
    <3>5. QED
      BY <1>1, <1>2, <1>11, <2>1, <3>3, <3>4
        DEF Honest, PhoneHolds, RelayHolds, Agree, NothingUnderWay, NoneRefused, Both
  <2>4. CASE HalfPaired(c)
    <3> DEFINE t == Tail(toPhone[c])
    <3>1. /\ r.key = phoneSecret /\ r.key # 0 /\ Talk(t)
          /\ toPhone[c] # <<>> /\ t \in Seq(Messages)
          /\ c \notin dropped => InOrder(t, r.key, 0) /\ UpTo(t, 0, r.sent)
      BY <1>4, <2>4 DEF HalfPaired, Admitted
    <3>2. /\ Talk(Append(t, m))
          /\ c \notin dropped' => /\ InOrder(Append(t, m), r.key, 0)
                                  /\ UpTo(Append(t, m), 0, socket'[c].seal.sent)
      BY <1>4, <1>11, <2>1, <3>1, Writes, TalksOn DEF m
    <3>3. /\ toPhone'[c] # <<>> /\ Head(toPhone'[c]) = Head(toPhone[c])
          /\ Tail(toPhone'[c]) = Append(t, m)
      BY <1>4, <1>6, <1>11, <3>1
    <3> HIDE DEF t
    <3>4. Admitted(c)' /\ Proven(c)'
      BY <1>1, <1>2, <1>7, <2>1, <2>4, <3>1, <3>2, <3>3 DEF Admitted, Proven, HalfPaired
    <3>5. HalfPaired(c)'
      BY <1>1, <1>7, <2>1, <2>4, <3>1, <3>2, <3>3, <3>4 DEF HalfPaired
    <3>6. QED
      BY <1>1, <1>2, <1>11, <2>1, <3>4, <3>5
        DEF Honest, PhoneHolds, RelayHolds, Agree, NothingUnderWay, NoneRefused, Both
  <2>5. QED
    BY <2>2, <2>3, <2>4
<1>12. QED
  BY <1>1, <1>8, <1>9, <1>11, <1>10 DEF Both

(* How far the handshake is shows in the kind of the next message.         *)
LEMMA PhoneTurns ==
  ASSUME Typed, NEW c \in Conns, Honest(c), end[c].state = "open", link[c] = "up",
         toPhone[c] # <<>>
  PROVE  LET kind == Head(toPhone[c]).kind
         IN  \/ Greeted(c) /\ kind = "hello"
             \/ Admitted(c) /\ kind = "auth_ok"
             \/ Paired(c) /\ kind \in {"sealed", "payload", "publish"}
<1>1. Greeted(c) \/ Admitted(c) \/ Paired(c)
  BY DEF Honest, PhoneHolds, Waiting
<1>2. Greeted(c) => Head(toPhone[c]).kind = "hello"
  BY DEF Greeted, Plain
<1>3. Admitted(c) => Head(toPhone[c]).kind = "auth_ok"
  BY DEF Admitted, Keyed
<1>4. Paired(c) => Head(toPhone[c]).kind \in {"sealed", "payload", "publish"}
  <2>1. toPhone[c] \in Seq(Messages)
    BY DEF Typed
  <2>2. Head(toPhone[c]) = toPhone[c][1] /\ 1 \in 1..Len(toPhone[c])
    BY <2>1
  <2>3. QED
    BY <2>2 DEF Paired, Talk
<1>5. QED
  BY <1>1, <1>2, <1>3, <1>4

LEMMA HelloHonest ==
  ASSUME Typed, NEW c \in Conns, Honest(c), HandleHello(c)
  PROVE  Honest(c)'
<1>1. /\ end[c].state = "open" /\ link[c] = "up"
      /\ toPhone[c] # <<>> /\ Head(toPhone[c]).kind = "hello"
      /\ toPhone'[c] = Tail(toPhone[c])
      /\ toRelay'[c] = IF socket[c].state = "open"
                       THEN Append(toRelay[c], Keyed("auth", phoneSecret)) ELSE toRelay[c]
      /\ UNCHANGED <<end, socket, link, phoneSecret, dropped>>
  BY DEF HandleHello, Answer, ToRelay, OnPhone, Typed
<1>2. Greeted(c) /\ ~Admitted(c) /\ ~Paired(c)
  <2>1. Greeted(c)
    BY <1>1, PhoneTurns
  <2>2. ~Admitted(c)
    BY <1>1 DEF Admitted, Keyed
  <2>3. Head(toPhone[c]) = toPhone[c][1] /\ 1 \in 1..Len(toPhone[c])
    BY <1>1 DEF Typed
  <2>4. ~Paired(c)
    BY <1>1, <2>3 DEF Paired, Talk
  <2>5. QED
    BY <2>1, <2>2, <2>4
<1>3. Waiting(c)'
  BY <1>1, <1>2 DEF Greeted, Waiting
<1>4. CASE socket[c].state # "open"
  BY <1>1, <1>3, <1>4 DEF Honest, PhoneHolds, RelayHolds, Agree, NothingUnderWay, NoneRefused,
                          Both
<1>5. CASE socket[c].state = "open"
  <2>1. Silent(c)
    BY <1>1, <1>2, <1>5 DEF Honest, Agree, Both, Handshaking, HalfPaired, Conversing, Greeted,
                            Waiting
  <2>2. toRelay'[c] = <<Keyed("auth", phoneSecret)>> /\ phoneSecret \in Nat
    BY <1>1, <1>5, <2>1 DEF Silent, Typed
  <2>3. Proving(c)'
    BY <1>1, <2>1, <2>2 DEF Silent, Proving
  <2>4. QED
    BY <1>1, <1>3, <1>5, <2>3
      DEF Honest, PhoneHolds, RelayHolds, Agree, NothingUnderWay, NoneRefused, Handshaking
<1>6. QED
  BY <1>4, <1>5

(* The Relay's proof holds: it was made with the secret the phone proved.  *)
LEMMA AuthOkHonest ==
  ASSUME Typed, NEW c \in Conns, Honest(c), HandleAuthOk(c)
  PROVE  Honest(c)'
<1>1. /\ end[c].state = "open" /\ link[c] = "up"
      /\ toPhone[c] # <<>> /\ Head(toPhone[c]).kind = "auth_ok"
      /\ toPhone'[c] = Tail(toPhone[c])
      /\ UNCHANGED <<socket, link, toRelay, phoneSecret, dropped>>
  BY DEF HandleAuthOk, Answer, OnPhone, Typed
<1>2. Admitted(c) /\ ~Greeted(c) /\ ~Waiting(c) /\ ~Paired(c)
  BY <1>1, PhoneTurns DEF Greeted, Waiting, Admitted, Paired, Plain, Talk, NoSeal, Sealer
<1>3. Head(toPhone[c]).key = phoneSecret /\ phoneSecret # 0
  BY <1>2 DEF Admitted, Keyed
<1>4. /\ end'[c].state = "open" /\ end'[c].why = end[c].why
      /\ end'[c].seal = Sealer(phoneSecret)
  BY <1>1, <1>3, AuthOkEffect DEF RelayProofHolds
<1>5. /\ end'[c].seal.key = phoneSecret /\ end'[c].seal.sent = 0
      /\ end'[c].seal.received = 0
  BY <1>4 DEF Sealer
<1>6. Paired(c)'
  BY <1>1, <1>2, <1>3, <1>5 DEF Admitted, Paired
<1>7. CASE socket[c].state # "open"
  BY <1>1, <1>4, <1>6, <1>7 DEF Honest, PhoneHolds, RelayHolds, Agree, NothingUnderWay,
                                NoneRefused, Both
<1>8. CASE socket[c].state = "open"
  <2>1. HalfPaired(c)
    BY <1>1, <1>2, <1>8 DEF Honest, Agree, Both, Handshaking, Conversing
  <2>2. /\ toRelay[c] = <<>> /\ socket[c].seal.received = 0 /\ socket[c].seal.key = phoneSecret
        /\ c \notin dropped => UpTo(Tail(toPhone[c]), 0, socket[c].seal.sent)
        /\ Proven(c)
    BY <2>1 DEF HalfPaired
  <2>3. Proven(c)'
    BY <1>1, <2>2 DEF Proven
  <2>4. UpTo(<<>>, 0, 0)
    BY EmptyQueue
  <2>5. Conversing(c)'
    BY <1>1, <1>5, <1>6, <2>2, <2>3, <2>4 DEF Conversing
  <2>6. QED
    BY <1>1, <1>4, <1>6, <1>8, <2>3, <2>5
      DEF Honest, PhoneHolds, RelayHolds, Agree, NothingUnderWay, NoneRefused
<1>9. QED
  BY <1>7, <1>8

LEMMA MessageHonest ==
  ASSUME Typed, NEW c \in Conns, Honest(c), HandleMessage(c)
  PROVE  Honest(c)'
<1> DEFINE m == Head(toPhone[c])
           r == end[c].seal
           s == AfterOpen(r, m)
           q == Tail(toPhone[c])
<1>1. /\ end[c].state = "open" /\ link[c] = "up"
      /\ toPhone[c] # <<>> /\ m.kind \notin {"hello", "auth_ok"}
      /\ toPhone'[c] = q
      /\ UNCHANGED <<socket, link, toRelay, phoneSecret, dropped>>
  BY DEF HandleMessage, Answer, OnPhone, Typed
<1>2. Paired(c) /\ ~Greeted(c) /\ ~Waiting(c) /\ ~Admitted(c)
  BY <1>1, PhoneTurns DEF Greeted, Waiting, Admitted, Plain, Keyed
<1>3. /\ r.key = phoneSecret /\ phoneSecret # 0 /\ Talk(toPhone[c])
      /\ c \notin dropped => InOrder(toPhone[c], r.key, r.received)
  BY <1>2 DEF Paired
<1>4. toPhone[c] \in Seq(Messages) /\ r \in Seals
  BY DEF Typed, Ends
<1>5. /\ s \in Seals /\ s.key = r.key /\ s.sent = r.sent /\ Talk(q)
      /\ Verdict(r, m) \in {"fine", "seal_failed"}
      /\ c \notin dropped =>
           /\ Verdict(r, m) = "fine" /\ InOrder(q, s.key, s.received)
           /\ \A to \in Nat : UpTo(toPhone[c], r.received, to) => UpTo(q, s.received, to)
  <2>1. c \notin dropped =>
          /\ Verdict(r, m) = "fine" /\ InOrder(q, s.key, s.received)
          /\ \A to \in Nat : UpTo(toPhone[c], r.received, to) => UpTo(q, s.received, to)
    BY <1>1, <1>3, <1>4, Reads
  <2>2. /\ s \in Seals /\ s.key = r.key /\ s.sent = r.sent /\ Talk(q)
        /\ Verdict(r, m) \in {"fine", "seal_failed"}
    BY <1>1, <1>3, <1>4, ReadsAny
  <2>3. QED
    BY <2>1, <2>2
<1>6. CASE Verdict(r, m) # "fine"
  <2>1. Refuse(c, "seal_failed") /\ c \in dropped
    BY <1>5, <1>6 DEF HandleMessage
  <2>2. end'[c].state = "closed" /\ end'[c].why = "seal_failed"
    BY <2>1, RefuseEffect DEF Reasons
  <2>3. QED
    BY <1>1, <2>1, <2>2 DEF Honest, PhoneHolds, RelayHolds, Agree, NothingUnderWay, NoneRefused,
                            Both, Silent, Proving, Checking, Proven
<1>7. CASE Verdict(r, m) = "fine"
  <2>1. end'[c].state = "open" /\ end'[c].why = end[c].why /\ end'[c].seal = s
    BY <1>1, <1>7, MessageEffect
  <2> HIDE DEF m, s, q
  <2>2. Paired(c)'
    BY <1>1, <1>3, <1>5, <2>1 DEF Paired
  <2>3. CASE socket[c].state # "open"
    BY <1>1, <2>1, <2>2, <2>3 DEF Honest, PhoneHolds, RelayHolds, Agree, NothingUnderWay,
                                  NoneRefused, Both
  <2>4. CASE socket[c].state = "open"
    <3>1. Conversing(c)
      BY <1>1, <1>2, <2>4 DEF Honest, Agree, Both, Handshaking, HalfPaired
    <3>2. socket[c].seal.sent \in Nat
      BY DEF Typed, Sockets, Seals
    <3>3. Proven(c)'
      BY <1>1, <3>1 DEF Conversing, Proven
    <3>4. Conversing(c)'
      BY <1>1, <1>3, <1>5, <2>1, <2>2, <3>1, <3>2, <3>3 DEF Conversing
    <3>5. QED
      BY <1>1, <2>1, <2>2, <2>4, <3>3, <3>4
        DEF Honest, PhoneHolds, RelayHolds, Agree, NothingUnderWay, NoneRefused
  <2>5. QED
    BY <2>3, <2>4
<1>8. QED
  BY <1>6, <1>7

LEMMA SendHonest ==
  ASSUME Typed, NEW c \in Conns, Honest(c), NEW kind \in {"control", "publish"},
         PhoneSends(c, kind)
  PROVE  Honest(c)'
<1> DEFINE w == end[c].seal
           v == AfterSeal(w, kind)
           a == Append(toRelay[c], Sealed(w, kind))
<1>1. /\ end'[c].state = "open" /\ end'[c].why = end[c].why /\ end'[c].seal = v
      /\ end[c].state = "open" /\ w.key # 0 /\ toPhone' = toPhone
      /\ ToRelay(c, Sealed(w, kind))
  BY SendEffect
<1>2. /\ UNCHANGED <<socket, link, phoneSecret, dropped>>
      /\ toRelay'[c] = IF link[c] = "up" /\ socket[c].state = "open" THEN a ELSE toRelay[c]
  BY <1>1 DEF PhoneSends, OnPhone, ToRelay, Typed
<1>3. toRelay[c] \in Seq(Messages) /\ w \in Seals /\ socket[c].seal \in Seals
  BY DEF Typed, Ends, Sockets
<1>4. v.key = w.key /\ v.received = w.received
  BY <1>3 DEF AfterSeal, Seals
<1>5. ~Greeted(c) /\ ~Waiting(c) /\ ~Admitted(c)
  BY <1>1 DEF Greeted, Waiting, Admitted, NoSeal, Sealer
<1> HIDE DEF v, a
<1>6. Paired(c) => Paired(c)'
  BY <1>1, <1>2, <1>4 DEF Paired
<1>7. CASE ~(link[c] = "up" /\ socket[c].state = "open")
  <2>1. toRelay'[c] = toRelay[c]
    BY <1>2, <1>7
  <2>2. QED
    BY <1>1, <1>2, <1>5, <1>6, <1>7, <2>1
      DEF Honest, PhoneHolds, RelayHolds, Agree, NothingUnderWay, NoneRefused, Both
<1>8. CASE link[c] = "up" /\ socket[c].state = "open"
  <2>1. Conversing(c)
    BY <1>1, <1>5, <1>8 DEF Honest, Agree, Both, Handshaking, HalfPaired
  <2>2. /\ w.key = phoneSecret /\ socket[c].seal.key = phoneSecret
        /\ Talk(toRelay[c]) /\ InOrder(toRelay[c], w.key, socket[c].seal.received)
        /\ UpTo(toRelay[c], socket[c].seal.received, w.sent)
        /\ Paired(c) /\ Proven(c)
    BY <2>1 DEF Conversing, Paired, Proven
  <2>3. socket[c].seal.received \in Nat
    BY <1>3 DEF Seals
  <2>4. /\ Talk(a) /\ InOrder(a, w.key, socket[c].seal.received)
        /\ UpTo(a, socket[c].seal.received, v.sent)
    BY <1>1, <1>3, <2>2, <2>3, Writes DEF a, v
  <2>5. toRelay'[c] = a
    BY <1>2, <1>8
  <2>6. Proven(c)'
    BY <1>2, <2>2, <2>4, <2>5 DEF Proven
  <2>7. Conversing(c)'
    BY <1>1, <1>2, <1>4, <1>6, <2>1, <2>2, <2>4, <2>5, <2>6 DEF Conversing
  <2>8. QED
    BY <1>1, <1>2, <1>6, <1>8, <2>2, <2>6, <2>7
      DEF Honest, PhoneHolds, RelayHolds, Agree, NothingUnderWay, NoneRefused
<1>9. QED
  BY <1>7, <1>8

LEMMA CutHonest ==
  ASSUME Typed, NEW c \in Conns, Honest(c), Cut(c)
  PROVE  Honest(c)'
<1>1. /\ link'[c] = "cut" /\ toPhone'[c] = <<>> /\ toRelay'[c] = <<>>
      /\ UNCHANGED <<socket, end, dropped>>
  BY DEF Cut, Typed
<1>2. QED
  BY <1>1 DEF Honest, PhoneHolds, RelayHolds, Agree, NothingUnderWay, NoneRefused, Both
-----------------------------------------------------------------------------
(* All the steps                                                           *)

(* The steps of one connection leave the others.                           *)
LEMMA OthersRest ==
  ASSUME Typed, NEW c \in Conns, NEW d \in Conns, c # d, Honest(d),
         RelayStep(c) \/ PhoneStep(c) \/ Cut(c)
  PROVE  Honest(d)'
<1> DEFINE Kept == /\ Same(socket'[d], socket[d]) /\ end'[d] = end[d] /\ link'[d] = link[d]
                   /\ toPhone'[d] = toPhone[d] /\ toRelay'[d] = toRelay[d]
                   /\ phoneSecret' = phoneSecret /\ (d \in dropped' <=> d \in dropped)
<1>1. Same(socket[d], socket[d])
  BY DEF Same
<1> HIDE DEF Kept
<1>2. ASSUME RelayStep(c) PROVE Kept
  <2>1. UNCHANGED <<end, link, phoneSecret>> /\ (d \in dropped' <=> d \in dropped)
    BY <1>2, RelayTypes DEF RelayStep, CheckProof, Authenticate, AuthTimeout, CloseArrives,
                            Receive, Pong
  <2>2. CASE CheckProof(c)
    <3>1. toPhone' = toPhone
      BY <2>2 DEF CheckProof
    <3>2. socket'[d] = socket[d] /\ toRelay' = [toRelay EXCEPT ![c] = Tail(@)]
      BY <2>2, CheckEffect
    <3>3. toRelay'[d] = toRelay[d]
      BY <3>2 DEF Typed
    <3>4. QED
      BY <1>1, <2>1, <3>1, <3>2, <3>3 DEF Kept
  <2>3. CASE Authenticate(c)
    <3>1. CASE ProofHolds(socket[c])
      <4>1. toPhone'[d] = toPhone[d]
        BY <2>3, <3>1, AuthenticateEffect DEF Post, Typed
      <4>2. QED
        BY <1>1, <2>1, <2>3, <3>1, <4>1, AuthenticateEffect DEF Kept
    <3>2. CASE ~ProofHolds(socket[c])
      BY <1>1, <2>1, <2>3, <3>2, RejectEffect DEF Kept
    <3>3. QED
      BY <3>1, <3>2
  <2>4. ASSUME NEW why \in Reasons, Close({c}, why), {c} \in SUBSET Devices, toPhone' = toPhone
        PROVE  Kept
    <3>1. \A x \in Conns \ {c} : socket'[x] = socket[x] /\ toRelay'[x] = toRelay[x]
      BY <2>4, CloseEffect
    <3>2. QED
      BY <1>1, <2>1, <2>4, <3>1 DEF Kept
  <2>5. CASE AuthTimeout(c) \/ CloseArrives(c)
    <3>1. Close({c}, "none") /\ {c} \in SUBSET Devices /\ toPhone' = toPhone
      BY <2>5 DEF AuthTimeout, CloseArrives
    <3>2. QED
      BY <2>4, <3>1 DEF Reasons
  <2>6. CASE Receive(c)
    <3>1. CASE Verdict(socket[c].seal, Head(toRelay[c])) = "fine"
      <4>1. toPhone'[d] = toPhone[d]
        <5>1. toPhone' = toPhone \/ \E ms : Post(c, ms)
          BY <2>6, <3>1 DEF Receive
        <5>2. QED
          BY <5>1 DEF Post, Typed
      <4>2. socket'[d] = socket[d] /\ toRelay' = [toRelay EXCEPT ![c] = Tail(@)]
        BY <2>6, <3>1, ReceiveEffect
      <4>3. toRelay'[d] = toRelay[d]
        BY <4>2 DEF Typed
      <4>4. QED
        BY <1>1, <2>1, <4>1, <4>2, <4>3 DEF Kept
    <3>2. CASE Verdict(socket[c].seal, Head(toRelay[c])) # "fine"
      <4>1. Verdict(socket[c].seal, Head(toRelay[c])) \in Reasons
        BY <3>2 DEF Verdict, Reasons
      <4>2. /\ Close({c}, Verdict(socket[c].seal, Head(toRelay[c])))
            /\ {c} \in SUBSET Devices /\ toPhone' = toPhone
        BY <2>6, <3>2 DEF Receive, Message
      <4>3. QED
        BY <2>4, <4>1, <4>2
    <3>3. QED
      BY <3>1, <3>2
  <2>7. CASE Pong(c)
    BY <2>1, <2>7, PongEffect DEF Pong, Kept
  <2>8. QED
    BY <1>2, <2>2, <2>3, <2>5, <2>6, <2>7 DEF RelayStep
<1>3. ASSUME PhoneStep(c) PROVE Kept
  <2>1. UNCHANGED <<socket, link, phoneSecret, dropped>>
    BY <1>3, PhoneTypes DEF PhoneStep, HandleHello, HandleAuthOk, HandleMessage, PhoneCloses,
                            PhoneSends, OnPhone
  <2>2. end'[d] = end[d] /\ toPhone'[d] = toPhone[d] /\ toRelay'[d] = toRelay[d]
    BY <1>3 DEF PhoneStep, HandleHello, HandleAuthOk, HandleMessage, PhoneCloses,
                PhoneSends, Answer, ToRelay, Refuse, Typed
  <2>3. QED
    BY <1>1, <2>1, <2>2 DEF Kept
<1>4. ASSUME Cut(c) PROVE Kept
  BY <1>1, <1>4 DEF Cut, Typed, Kept
<1>5. QED
  BY <1>2, <1>3, <1>4, Rests DEF Kept

LEMMA RelayStepHonest ==
  ASSUME Typed, NEW c \in Conns, Honest(c), RelayStep(c)
  PROVE  Honest(c)'
<1>1. UNCHANGED <<end, link, phoneSecret>>
  BY RelayTypes
<1>2. CASE AuthTimeout(c) \/ CloseArrives(c)
  <2>1. Close({c}, "none") /\ {c} \in SUBSET Devices /\ toPhone' = toPhone
        /\ dropped' = dropped
    BY <1>2 DEF AuthTimeout, CloseArrives
  <2>2. socket'[c].state = "closed" /\ socket'[c].why = "none" /\ toRelay'[c] = <<>>
    BY <2>1, CloseEffect DEF Reasons
  <2>3. QED
    BY <1>1, <2>1, <2>2, SocketGoes
<1>3. CASE Pong(c)
  <2>1. toPhone' = toPhone /\ toRelay' = toRelay /\ Same(socket'[c], socket[c])
        /\ dropped' = dropped
    BY <1>3, PongEffect DEF Pong
  <2>2. QED
    BY <1>1, <2>1, Rests
<1>4. QED
  BY <1>2, <1>3, CheckHonest, AuthenticateHonest, ReceiveHonest DEF RelayStep

LEMMA PhoneStepHonest ==
  ASSUME Typed, NEW c \in Conns, Honest(c), PhoneStep(c)
  PROVE  Honest(c)'
<1>1. CASE PhoneCloses(c)
  <2>1. /\ end'[c].state = "closed" /\ end'[c].why = "none" /\ toPhone'[c] = <<>>
        /\ UNCHANGED <<socket, link, toRelay, dropped>>
    BY <1>1, RefuseEffect DEF PhoneCloses, OnPhone, Typed, Reasons
  <2>2. QED
    BY <2>1, EndGoes
<1>2. QED
  BY <1>1, HelloHonest, AuthOkHonest, MessageHonest, SendHonest DEF PhoneStep

LEMMA HonestKept ==
  ASSUME Typed, Fresh, HonestInv, [SessionNext]_everything
  PROVE  HonestInv'
<1>1. \A c \in Conns : Honest(c)
  BY DEF HonestInv
<1>2. ASSUME NEW c \in Conns, RelayStep(c) \/ PhoneStep(c) \/ Cut(c)
      PROVE  HonestInv'
  <2>1. Honest(c)'
    BY <1>1, <1>2, RelayStepHonest, PhoneStepHonest, CutHonest
  <2>2. ASSUME NEW d \in Conns, d # c PROVE Honest(d)'
    BY <1>1, <1>2, <2>2, OthersRest
  <2>3. QED
    BY <2>1, <2>2 DEF HonestInv
<1>3. ASSUME NEW d \in Conns, Heartbeat \/ KickDevices PROVE Honest(d)'
  <2>1. UNCHANGED <<end, link, toPhone, phoneSecret, dropped>>
    BY <1>3 DEF Heartbeat, KickDevices, OnRelay
  <2>2. PICK gone \in SUBSET Devices :
          /\ \A c \in gone : /\ socket'[c].state = "closed" /\ socket'[c].why = "none"
                             /\ toRelay'[c] = <<>>
          /\ \A c \in Conns \ gone : toRelay'[c] = toRelay[c] /\ Same(socket'[c], socket[c])
    <3>1. CASE Heartbeat
      BY <3>1, HeartbeatEffect
    <3>2. CASE KickDevices
      <4>1. Close(Devices, "none")
        BY <3>2 DEF KickDevices
      <4>2. "none" \in Reasons /\ Devices \in SUBSET Devices
        BY DEF Reasons
      <4>3. /\ \A c \in Devices : /\ socket'[c].state = "closed" /\ socket'[c].why = "none"
                                  /\ toRelay'[c] = <<>>
            /\ \A c \in Conns \ Devices : socket'[c] = socket[c] /\ toRelay'[c] = toRelay[c]
        BY <4>1, <4>2, CloseEffect, ZenonT(60)
      <4>4. \A c \in Conns \ Devices : toRelay'[c] = toRelay[c] /\ Same(socket'[c], socket[c])
        BY <4>3 DEF Same
      <4>5. QED
        BY <4>2, <4>3, <4>4
    <3>3. QED
      BY <1>3, <3>1, <3>2
  <2>3. CASE d \in gone
    BY <1>1, <2>1, <2>2, <2>3, SocketGoes
  <2>4. CASE d \notin gone
    BY <1>1, <2>1, <2>2, <2>4, Rests
  <2>5. QED
    BY <2>3, <2>4
<1>4. ASSUME NEW d \in Conns, Pair PROVE Honest(d)'
  <2>1. /\ end'[d] = IF end[d].state = "open"
                     THEN [NewEnd EXCEPT !.state = "closed"] ELSE end[d]
        /\ toPhone'[d] = <<>> /\ UNCHANGED <<socket, link, toRelay, dropped>>
    BY <1>4 DEF Pair, OnPhone
  <2>2. [NewEnd EXCEPT !.state = "closed"].state = "closed"
        /\ [NewEnd EXCEPT !.state = "closed"].why = "none"
    BY DEF NewEnd
  <2>3. /\ end[d].why \notin {"seal_required", "relay_unverified"}
        /\ end[d].why = "seal_failed" => d \in dropped
    BY <1>1 DEF Honest, NoneRefused
  <2>4. QED
    BY <1>1, <2>1, <2>2, <2>3, EndGoes
<1>5. ASSUME NEW d \in Conns, RelayStops PROVE Honest(d)'
  <2>1. UNCHANGED <<end, link, toPhone, phoneSecret, dropped>>
    BY <1>5 DEF RelayStops
  <2>2. QED
    BY <1>1, <1>5, <2>1, StopEffect, SocketGoes
<1>6. ASSUME NEW d \in Conns, OtherSettings \/ UNCHANGED everything PROVE Honest(d)'
  <2>1. UNCHANGED session
    BY <1>6 DEF OtherSettings, everything
  <2>2. Same(socket'[d], socket[d])
    BY <2>1 DEF session, Same
  <2>3. QED
    BY <1>1, <2>1, <2>2, Rests DEF session
<1>7. ASSUME Broadcast("control") PROVE HonestInv'
  BY <1>1, <1>7, BroadcastHonest DEF HonestInv
<1>8. CASE Heartbeat \/ KickDevices \/ Pair \/ RelayStops \/ OtherSettings
             \/ UNCHANGED everything
  BY <1>3, <1>4, <1>5, <1>6, <1>8 DEF HonestInv
<1>9. QED
  BY <1>2, <1>7, <1>8, OpenHonest DEF SessionNext

(* However the secret rotates, connections break and the Relay restarts,   *)
(* neither end of a session ever takes the other's message for a forgery,  *)
(* but the phone, on a connection whose socket dropped one.                *)
THEOREM HonestSessionsAreNotRefused == SessionSpec => []HonestSessionsHold
<1>1. SessionSpec => []HonestInv
  <2>1. SessionInit => HonestInv
    BY InitHonest
  <2>2. SessionInv /\ HonestInv /\ [SessionNext]_everything => HonestInv'
    BY HonestKept DEF SessionInv
  <2>3. QED
    BY <2>1, <2>2, SessionInvHolds, PTL DEF SessionSpec
<1>2. HonestInv => HonestSessionsHold
  BY DEF HonestInv, Honest, NoneRefused, HonestSessionsHold
<1>3. QED
  BY <1>1, <1>2, PTL
=============================================================================
