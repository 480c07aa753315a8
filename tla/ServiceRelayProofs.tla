-------------------------- MODULE ServiceRelayProofs --------------------------
(***************************************************************************)
(* Proofs about ServiceRelay, for any number of passes, teardowns,         *)
(* connections and pairings, however long awaits and teardowns take and    *)
(* whoever gives a pass up: the types of its fields; that no socket        *)
(* outlives the connection the controller knows of, and that the status it *)
(* shows is true or its last pass was lost, until a connection is built    *)
(* while a teardown still runs; and that an abandoned pass never puts a    *)
(* connection in place.                                                    *)
(***************************************************************************)
EXTENDS ServiceRelay, TLAPS

(* An idle pass and an idle teardown can be taken. *)
LEMMA IdleChosen ==
  /\ IdlePasses # {} => (CHOOSE p \in IdlePasses : TRUE) \in IdlePasses
  /\ IdleDowns # {} => (CHOOSE d \in IdleDowns : TRUE) \in IdleDowns
OBVIOUS

(* Beginning a teardown keeps the types of the control state. *)
LEMMA BeginTyped ==
  ASSUME RelayTypeOK, NEW p \in Passes, NEW d \in Downs, Begin(p, d)
  PROVE  /\ pass' \in [Passes -> PassRecord]
         /\ owner' \in Passes \cup {NoPass}
         /\ lost' \in BOOLEAN /\ syncing' \in BOOLEAN
         /\ down' \in [Downs -> DownRecord]
<1>1. [pc |-> "teardown", down |-> {d}] \in PassRecord
  BY DEF PassRecord
<1>2. pass' \in [Passes -> PassRecord]
  BY <1>1 DEF RelayTypeOK, Begin
<1>3. down[d] \in DownRecord
  BY DEF RelayTypeOK
<1>4. [down[d] EXCEPT !.pc = "begin"] \in DownRecord
  BY <1>3 DEF DownRecord
<1>5. down' \in [Downs -> DownRecord]
  BY <1>4 DEF RelayTypeOK, Begin
<1> QED
  BY <1>2, <1>5 DEF Begin

(* So does any pass that is taken, ... *)
LEMMA BeginAnyTyped ==
  ASSUME RelayTypeOK, BeginAny
  PROVE  /\ pass' \in [Passes -> PassRecord]
         /\ owner' \in Passes \cup {NoPass}
         /\ lost' \in BOOLEAN /\ syncing' \in BOOLEAN
         /\ down' \in [Downs -> DownRecord]
<1>1. PICK p \in Passes, d \in Downs : Begin(p, d)
  BY IdleChosen DEF BeginAny, IdlePasses, IdleDowns
<1> QED
  BY <1>1, BeginTyped

(* ... a request for a pass ... *)
LEMMA SyncTyped ==
  ASSUME RelayTypeOK, NEW stalled, Sync(stalled)
  PROVE  /\ pass' \in [Passes -> PassRecord]
         /\ owner' \in Passes \cup {NoPass}
         /\ lost' \in BOOLEAN /\ syncing' \in BOOLEAN /\ resync' \in BOOLEAN
         /\ down' \in [Downs -> DownRecord]
<1>1. CASE syncing /\ ~stalled
  BY <1>1 DEF Sync, RelayTypeOK
<1>2. CASE ~(syncing /\ ~stalled)
  BY <1>2, BeginAnyTyped DEF Sync, RelayTypeOK
<1> QED
  BY <1>1, <1>2

(* ... and the end of a pass. *)
LEMMA EndTyped ==
  ASSUME RelayTypeOK, NEW p \in Passes, NEW threw \in BOOLEAN, End(p, threw)
  PROVE  /\ pass' \in [Passes -> PassRecord]
         /\ owner' \in Passes \cup {NoPass}
         /\ lost' \in BOOLEAN /\ syncing' \in BOOLEAN /\ resync' \in BOOLEAN
         /\ down' \in [Downs -> DownRecord]
<1>1. CASE owner = p /\ resync
  <2>1. PICK d \in Downs : Begin(p, d)
    BY <1>1, IdleChosen DEF End, IdleDowns
  <2>2. resync' = FALSE
    BY <1>1 DEF End
  <2> QED
    BY <2>1, <2>2, BeginTyped
<1>2. CASE ~(owner = p /\ resync)
  <2>1. IdlePass \in PassRecord
    BY DEF IdlePass, PassRecord
  <2>2. pass' \in [Passes -> PassRecord]
    BY <1>2, <2>1 DEF End, RelayTypeOK
  <2> QED
    BY <1>2, <2>2 DEF End, RelayTypeOK
<1> QED
  BY <1>1, <1>2

(* A fault or a request is counted up to its bound. *)
LEMMA BudgetTyped ==
  ASSUME RelayTypeOK, Ask \/ Fault
  PROVE  faults' \in 0..MaxFaults /\ asks' \in 0..MaxAsks
BY RelayAssumption DEF Ask, Fault, RelayTypeOK

(* What asks for a pass keeps the types. *)
LEMMA AskingTyped ==
  ASSUME RelayTypeOK,
         \/ \E v \in Pairings \cup {NoPairing} : SavePairing(v)
         \/ SyncCommand \/ TimerFires
         \/ \E stalled \in BOOLEAN : ScreenOn(stalled) \/ NetworkAvailable(stalled)
         \/ WatchdogAbandons \/ WatchdogRevives
  PROVE  RelayTypeOK'
<1>1. ASSUME NEW v \in Pairings \cup {NoPairing}, SavePairing(v)
      PROVE  RelayTypeOK'
  BY <1>1, BudgetTyped DEF SavePairing, RelayTypeOK, control, fields
<1>2. CASE SyncCommand
  BY <1>2, SyncTyped DEF SyncCommand, RelayTypeOK, fields, budget
<1>3. CASE TimerFires
  <2>1. CASE stopped
    BY <1>3, <2>1, ZenonT(60) DEF TimerFires, RelayTypeOK, control, budget
  <2>2. CASE ~stopped
    <3>1. Sync(FALSE)
      BY <1>3, <2>2 DEF TimerFires
    <3> QED
      BY <1>3, <3>1, SyncTyped DEF TimerFires, RelayTypeOK, budget
  <2> QED
    BY <2>1, <2>2
<1>4. ASSUME NEW stalled \in BOOLEAN, Comes(stalled)
      PROVE  faults' \in 0..MaxFaults /\ asks' \in 0..MaxAsks
  BY <1>4, BudgetTyped DEF Comes
<1>5. ASSUME NEW stalled \in BOOLEAN, ScreenOn(stalled)
      PROVE  RelayTypeOK'
  <2>1. faults' \in 0..MaxFaults /\ asks' \in 0..MaxAsks
    BY <1>4, <1>5 DEF ScreenOn
  <2>2. CASE lastStatus = "connected"
    BY <1>5, <2>1, <2>2, ZenonT(60) DEF ScreenOn, Abandon, RelayTypeOK, control, fields
  <2>3. CASE lastStatus # "connected"
    BY <1>5, <2>1, <2>3, SyncTyped DEF ScreenOn, RelayTypeOK, fields
  <2> QED
    BY <2>2, <2>3
<1>6. ASSUME NEW stalled \in BOOLEAN, NetworkAvailable(stalled)
      PROVE  RelayTypeOK'
  <2>1. faults' \in 0..MaxFaults /\ asks' \in 0..MaxAsks
    BY <1>4, <1>6 DEF NetworkAvailable
  <2>2. CASE lastStatus = "offline" /\ (stalled \/ ~syncing)
    BY <1>6, <2>1, <2>2, BeginAnyTyped DEF NetworkAvailable, RelayTypeOK, fields
  <2>3. CASE ~(lastStatus = "offline" /\ (stalled \/ ~syncing))
    <3>1. \/ Abandon
          \/ UNCHANGED <<control, down>>
      BY <1>6, <2>3 DEF NetworkAvailable
    <3>2. UNCHANGED <<fields, session, pairing, command, overrun>>
      BY <1>6 DEF NetworkAvailable
    <3>3. CASE Abandon
      <4>1. /\ UNCHANGED <<pass, resync, down>>
            /\ owner' \in Passes \cup {NoPass}
            /\ syncing' \in BOOLEAN /\ lost' \in BOOLEAN
        BY <3>3 DEF Abandon
      <4> QED
        BY <2>1, <3>2, <4>1, ZenonT(60) DEF RelayTypeOK, fields
    <3>4. CASE UNCHANGED <<control, down>>
      <4>1. /\ UNCHANGED <<pass, resync, down>>
            /\ owner' \in Passes \cup {NoPass}
            /\ syncing' \in BOOLEAN /\ lost' \in BOOLEAN
        BY <3>4 DEF control, RelayTypeOK
      <4> QED
        BY <2>1, <3>2, <4>1, ZenonT(60) DEF RelayTypeOK, fields
    <3> QED
      BY <3>1, <3>3, <3>4
  <2> QED
    BY <2>2, <2>3
<1>7. CASE WatchdogAbandons
  <2>1. faults' \in 0..MaxFaults /\ asks' \in 0..MaxAsks
    BY <1>4, <1>7 DEF WatchdogAbandons
  <2> QED
    BY <1>7, <2>1, BeginAnyTyped DEF WatchdogAbandons, RelayTypeOK, fields
<1>8. CASE WatchdogRevives
  BY <1>8, BeginAnyTyped DEF WatchdogRevives, RelayTypeOK, fields, budget
<1> QED
  BY <1>1, <1>2, <1>3, <1>5, <1>6, <1>7, <1>8

(* The connection the controller knows of was built. *)
KnownIsBuilt == conn \in Conns => session[conn].socket # "none"

(* The steps of a teardown keep the types. *)
LEMMA TeardownTyped ==
  ASSUME RelayTypeOK, KnownIsBuilt, NEW d \in Downs, TeardownStep(d)
  PROVE  RelayTypeOK'
<1>1. down[d] \in DownRecord /\ \A c \in Conns : session[c] \in SessionRecord
  BY DEF RelayTypeOK
<1>2. CASE Cancel(d)
  <2> DEFINE Begun == [pc |-> "dispose", target |-> receiver,
                       again |-> receiver # NoConn /\ session[receiver].disposed]
  <2>1. Begun.again \in BOOLEAN
    <3>1. CASE receiver = NoConn
      BY <3>1, Zenon
    <3>2. CASE receiver # NoConn
      <4>1. session[receiver].disposed \in BOOLEAN
        BY <1>1, <3>2 DEF RelayTypeOK, SessionRecord
      <4> QED
        BY <3>2, <4>1, Zenon
    <3> QED
      BY <3>1, <3>2
  <2>2. Begun \in DownRecord
    BY <2>1 DEF RelayTypeOK, DownRecord
  <2>3. down' \in [Downs -> DownRecord]
    BY <1>2, <2>2 DEF Cancel, RelayTypeOK
  <2>4. \A c \in Conns : [session[c] EXCEPT !.disposed = TRUE] \in SessionRecord
    BY <1>1 DEF SessionRecord
  <2>5. session' \in [Conns -> SessionRecord]
    BY <1>1, <1>2, <2>4 DEF Cancel, RelayTypeOK
  <2>6. \A c \in Conns : session'[c].socket # "none" => session'[c].pairing # NoPairing
    BY <1>1, <1>2 DEF Cancel, RelayTypeOK, SessionRecord
  <2> QED
    BY <1>2, <2>3, <2>5, <2>6, ZenonT(60) DEF Cancel, RelayTypeOK, control, budget
<1>3. CASE Disposed(d)
  <2>1. [IdleDown EXCEPT !.pc = "close"] \in DownRecord
    BY DEF IdleDown, DownRecord
  <2>2. down' \in [Downs -> DownRecord]
    BY <1>3, <2>1 DEF Disposed, RelayTypeOK
  <2>3. \A c \in Conns : [session[c] EXCEPT !.socket = "closed"] \in SessionRecord
    BY <1>1 DEF SessionRecord
  <2>4. session' \in [Conns -> SessionRecord]
    BY <1>1, <1>3, <2>3 DEF Disposed, RelayTypeOK
  <2>5. \A c \in Conns : session'[c].socket # "none" => session'[c].pairing # NoPairing
    BY <1>1, <1>3 DEF Disposed, RelayTypeOK, SessionRecord, KnownIsBuilt
  <2> QED
    BY <1>3, <2>2, <2>4, <2>5 DEF Disposed, RelayTypeOK, control, budget
<1>4. CASE Closed(d)
  <2>1. IdleDown \in DownRecord
    BY DEF IdleDown, DownRecord
  <2>2. down' \in [Downs -> DownRecord]
    BY <1>4, <2>1 DEF Closed, RelayTypeOK
  <2>3. [pc |-> "settings", down |-> {}] \in PassRecord
    BY DEF PassRecord
  <2>4. pass' \in [Passes -> PassRecord]
    BY <1>4, <2>3 DEF Closed, RelayTypeOK
  <2> QED
    BY <1>4, <2>2, <2>4 DEF Closed, RelayTypeOK, budget
<1> QED
  BY <1>2, <1>3, <1>4 DEF TeardownStep

(* A pass that goes on with its loading keeps the types. *)
LEMMA MoveTyped ==
  ASSUME RelayTypeOK, NEW p \in Passes, NEW pc \in {"prepare", "pairing", "publish"},
         pass' = [pass EXCEPT ![p].pc = pc]
  PROVE  pass' \in [Passes -> PassRecord]
<1>1. [pass[p] EXCEPT !.pc = pc] \in PassRecord
  BY DEF RelayTypeOK, PassRecord
<1> QED
  BY <1>1 DEF RelayTypeOK

(* A connection that is built has a socket and a pairing. *)
LEMMA BuildTyped ==
  ASSUME RelayTypeOK, NEW c \in Conns, Build(c), pairing # NoPairing
  PROVE  /\ session' \in [Conns -> SessionRecord]
         /\ \A x \in Conns : session'[x].socket # "none" => session'[x].pairing # NoPairing
         /\ session'[c].socket = "connecting" /\ conn' = c /\ statusSub' = c
         /\ \A x \in Conns \ {c} : session'[x] = session[x]
<1> DEFINE Built == [NoSession EXCEPT !.socket = "connecting", !.pairing = pairing]
<1>1. /\ Built \in SessionRecord
      /\ Built.socket = "connecting" /\ Built.pairing = pairing
  BY DEF NoSession, SessionRecord, RelayTypeOK
<1>2. session' = [session EXCEPT ![c] = Built] /\ conn' = c /\ statusSub' = c
  BY DEF Build
<1> HIDE DEF Built
<1> QED
  BY <1>1, <1>2 DEF RelayTypeOK

(* The steps of a pass keep the types. *)
LEMMA PassTyped ==
  ASSUME RelayTypeOK, NEW p \in Passes, PassStep(p) \/ TimesOut(p) \/ Throws(p)
  PROVE  RelayTypeOK'
<1>1. CASE LoadSettings(p)
  <2>1. CASE owner = p
    BY <1>1, <2>1, MoveTyped DEF LoadSettings, RelayTypeOK, fields, budget
  <2>2. CASE owner # p
    BY <1>1, <2>2, EndTyped, ZenonT(60) DEF LoadSettings, RelayTypeOK, fields, budget
  <2> QED
    BY <2>1, <2>2
<1>2. CASE Prepare(p)
  <2>1. pass' \in [Passes -> PassRecord]
    BY <1>2, MoveTyped DEF Prepare
  <2> QED
    BY <1>2, <2>1 DEF Prepare, RelayTypeOK, fields, budget
<1>3. CASE LoadNoPairing(p)
  BY <1>3, MoveTyped, ZenonT(60) DEF LoadNoPairing, RelayTypeOK, budget
<1>4. CASE OfflinePublished(p)
  BY <1>4, EndTyped, ZenonT(60) DEF OfflinePublished, RelayTypeOK, fields, budget
<1>5. CASE Connect(p)
  <2>1. PICK c \in Conns : Build(c)
    BY <1>5 DEF Connect
  <2>2. /\ session' \in [Conns -> SessionRecord]
        /\ \A x \in Conns : session'[x].socket # "none" => session'[x].pairing # NoPairing
    BY <1>5, <2>1, BuildTyped DEF Connect
  <2>3. /\ conn' \in Conns /\ statusSub' \in Conns /\ receiver' \in Conns
        /\ unpaired' \in BOOLEAN /\ lastStatus' = "searching" /\ overrun' \in BOOLEAN
    BY <2>1 DEF Build, RelayTypeOK
  <2> QED
    BY <1>5, <2>2, <2>3, EndTyped, ZenonT(60) DEF Connect, RelayTypeOK, budget
<1>6. CASE AbandonedReturns(p)
  BY <1>6, EndTyped, ZenonT(60) DEF AbandonedReturns, RelayTypeOK, fields, budget
<1>7. CASE TimesOut(p)
  BY <1>7, EndTyped, BudgetTyped DEF TimesOut, RelayTypeOK
<1>8. CASE Throws(p)
  BY <1>8, EndTyped, BudgetTyped, ZenonT(60) DEF Throws, RelayTypeOK, fields
<1> QED
  BY <1>1, <1>2, <1>3, <1>4, <1>5, <1>6, <1>7, <1>8 DEF PassStep

(* A record of the sessions with one field replaced. *)
LEMMA SocketTyped ==
  ASSUME RelayTypeOK, NEW c \in Conns, session[c].socket # "none",
         NEW socket \in {"up", "down", "refused"}, Socket(c, socket)
  PROVE  /\ session' \in [Conns -> SessionRecord]
         /\ \A x \in Conns : session'[x].socket # "none" => session'[x].pairing # NoPairing
<1> DEFINE Moved == [session[c] EXCEPT !.socket = socket]
<1>1. /\ Moved \in SessionRecord
      /\ Moved.socket = socket /\ Moved.pairing = session[c].pairing
  BY DEF RelayTypeOK, SessionRecord
<1>2. session' = [session EXCEPT ![c] = Moved]
  BY DEF Socket
<1> HIDE DEF Moved
<1> QED
  BY <1>1, <1>2 DEF RelayTypeOK

(* A status that is reported has its type. *)
LEMMA ReportTyped ==
  ASSUME RelayTypeOK, NEW c, NEW status \in {"connected", "offline"}, Report(c, status)
  PROVE  timer' \in BOOLEAN /\ lastStatus' \in {"offline", "searching", "connected"}
BY DEF Report, RelayTypeOK

(* What a connection reports keeps the types. *)
LEMMA EventTyped ==
  ASSUME RelayTypeOK, NEW c \in Conns,
         AuthOk(c) \/ Drop(c) \/ Refuse(c) \/ ReceiveBegins(c) \/ ReceiveEnds(c)
  PROVE  RelayTypeOK'
<1>1. CASE AuthOk(c)
  <2>1. /\ session' \in [Conns -> SessionRecord]
        /\ \A x \in Conns : session'[x].socket # "none" => session'[x].pairing # NoPairing
    BY <1>1, SocketTyped DEF AuthOk
  <2> QED
    BY <1>1, <2>1, ReportTyped DEF AuthOk, RelayTypeOK, control, budget
<1>2. CASE Drop(c)
  <2>1. /\ session' \in [Conns -> SessionRecord]
        /\ \A x \in Conns : session'[x].socket # "none" => session'[x].pairing # NoPairing
    BY <1>2, SocketTyped DEF Drop, Open
  <2> QED
    BY <1>2, <2>1, ReportTyped, BudgetTyped DEF Drop, RelayTypeOK, control
<1>3. CASE Refuse(c)
  <2>1. /\ session' \in [Conns -> SessionRecord]
        /\ \A x \in Conns : session'[x].socket # "none" => session'[x].pairing # NoPairing
    BY <1>3, SocketTyped DEF Refuse
  <2> QED
    BY <1>3, <2>1, ReportTyped, BudgetTyped DEF Refuse, RelayTypeOK, control
<1>4. ASSUME NEW busy \in BOOLEAN, session' = [session EXCEPT ![c].busy = busy]
      PROVE  /\ session' \in [Conns -> SessionRecord]
             /\ \A x \in Conns : session'[x].socket # "none" => session'[x].pairing # NoPairing
  BY <1>4 DEF RelayTypeOK, SessionRecord
<1>5. CASE ReceiveBegins(c) \/ ReceiveEnds(c)
  BY <1>4, <1>5, ZenonT(60) DEF ReceiveBegins, ReceiveEnds, RelayTypeOK, control, fields, budget
<1> QED
  BY <1>1, <1>2, <1>3, <1>5

(* The stop keeps the types. *)
LEMMA StopTyped ==
  ASSUME RelayTypeOK, Stop
  PROVE  RelayTypeOK'
<1>1. PICK d \in Downs : down' = [down EXCEPT ![d].pc = "begin"]
  BY IdleChosen DEF Stop, IdleDowns
<1>2. [down[d] EXCEPT !.pc = "begin"] \in DownRecord
  BY DEF RelayTypeOK, DownRecord
<1>3. down' \in [Downs -> DownRecord]
  BY <1>1, <1>2 DEF RelayTypeOK
<1> QED
  BY <1>3 DEF Stop, RelayTypeOK, control, budget

(* Only a pass that connects makes another connection known, and no socket *)
(* is unmade.                                                              *)
LEMMA NextKeepsBuilt ==
  ASSUME RelayTypeOK, KnownIsBuilt, Next
  PROVE  KnownIsBuilt'
<1> USE DEF KnownIsBuilt
<1>0. NoConn \notin Conns
  BY RelayAssumption
<1>1. ASSUME UNCHANGED <<conn, session>>
      PROVE  KnownIsBuilt'
  BY <1>1
<1>2. CASE \/ \E v \in Pairings \cup {NoPairing} : SavePairing(v)
           \/ SyncCommand \/ TimerFires
           \/ \E stalled \in BOOLEAN : ScreenOn(stalled) \/ NetworkAvailable(stalled)
           \/ WatchdogAbandons \/ WatchdogRevives \/ Stop
  <2>1. UNCHANGED <<conn, session>>
    BY <1>2 DEF SavePairing, SyncCommand, TimerFires, ScreenOn, NetworkAvailable,
                WatchdogAbandons, WatchdogRevives, Stop, fields
  <2> QED
    BY <1>1, <2>1
<1>3. ASSUME NEW d \in Downs, TeardownStep(d)
      PROVE  KnownIsBuilt'
  <2>1. CASE Cancel(d)
    BY <2>1 DEF Cancel, RelayTypeOK, SessionRecord
  <2>2. CASE Disposed(d)
    BY <2>2 DEF Disposed, RelayTypeOK, SessionRecord
  <2>3. CASE Closed(d)
    BY <1>0, <2>3 DEF Closed
  <2> QED
    BY <1>3, <2>1, <2>2, <2>3 DEF TeardownStep
<1>4. ASSUME NEW p \in Passes, PassStep(p) \/ TimesOut(p) \/ Throws(p)
      PROVE  KnownIsBuilt'
  <2>1. CASE Connect(p)
    BY <2>1, BuildTyped DEF Connect
  <2>2. CASE ~Connect(p)
    <3>1. UNCHANGED <<conn, session>>
      BY <1>4, <2>2 DEF PassStep, LoadSettings, Prepare, LoadNoPairing, OfflinePublished,
                        AbandonedReturns, TimesOut, Throws, fields
    <3> QED
      BY <1>1, <3>1
  <2> QED
    BY <2>1, <2>2
<1>5. ASSUME NEW c \in Conns,
             AuthOk(c) \/ Drop(c) \/ Refuse(c) \/ ReceiveBegins(c) \/ ReceiveEnds(c)
      PROVE  KnownIsBuilt'
  <2>1. conn' = conn
    BY <1>5 DEF AuthOk, Drop, Refuse, ReceiveBegins, ReceiveEnds, fields
  <2>2. ASSUME NEW socket \in {"up", "down", "refused"}, Socket(c, socket)
        PROVE  KnownIsBuilt'
    BY <2>1, <2>2 DEF Socket, RelayTypeOK, SessionRecord
  <2>3. ASSUME NEW busy \in BOOLEAN, session' = [session EXCEPT ![c].busy = busy]
        PROVE  KnownIsBuilt'
    BY <2>1, <2>3 DEF RelayTypeOK, SessionRecord
  <2> QED
    BY <1>5, <2>2, <2>3 DEF AuthOk, Drop, Refuse, ReceiveBegins, ReceiveEnds
<1> QED
  BY <1>2, <1>3, <1>4, <1>5 DEF Next

(* Every step keeps the types. *)
LEMMA NextTyped ==
  ASSUME RelayTypeOK, KnownIsBuilt, Next
  PROVE  RelayTypeOK'
BY AskingTyped, TeardownTyped, PassTyped, EventTyped, StopTyped DEF Next

(* The fields have their types at the start. *)
LEMMA InitTyped ==
  ASSUME Init
  PROVE  RelayTypeOK /\ KnownIsBuilt
<1>1. /\ IdlePass \in PassRecord
      /\ IdleDown \in DownRecord
      /\ NoSession \in SessionRecord /\ NoSession.socket = "none"
  BY DEF IdlePass, PassRecord, IdleDown, DownRecord, NoSession, SessionRecord
<1>2. /\ pass \in [Passes -> PassRecord]
      /\ down \in [Downs -> DownRecord]
      /\ session \in [Conns -> SessionRecord]
      /\ \A c \in Conns : session[c].socket = "none"
  BY <1>1 DEF Init
<1>3. faults \in 0..MaxFaults /\ asks \in 0..MaxAsks
  BY RelayAssumption DEF Init
<1>4. RelayTypeOK
  BY <1>2, <1>3 DEF Init, RelayTypeOK
<1>5. KnownIsBuilt
  BY RelayAssumption DEF Init, KnownIsBuilt
<1> QED
  BY <1>4, <1>5

(* A step that changes nothing keeps them. *)
LEMMA StutterTyped ==
  ASSUME RelayTypeOK, KnownIsBuilt, UNCHANGED vars
  PROVE  RelayTypeOK' /\ KnownIsBuilt'
BY DEF vars, control, fields, budget, RelayTypeOK, KnownIsBuilt

(* The fields have their types in every state, and a connection that was   *)
(* built keeps the pairing it was built from.                              *)
THEOREM RelayTypeCorrect == Spec => []RelayTypeOK
<1>1. Init => RelayTypeOK /\ KnownIsBuilt
  BY InitTyped
<1>2. RelayTypeOK /\ KnownIsBuilt /\ [Next]_vars => (RelayTypeOK /\ KnownIsBuilt)'
  <2> SUFFICES ASSUME RelayTypeOK, KnownIsBuilt, [Next]_vars
               PROVE  (RelayTypeOK /\ KnownIsBuilt)'
    OBVIOUS
  <2>1. CASE Next
    BY <2>1, NextTyped, NextKeepsBuilt
  <2>2. CASE UNCHANGED vars
    BY <2>2, StutterTyped
  <2> QED
    BY <2>1, <2>2
<1> QED
  BY <1>1, <1>2, PTL DEF Spec

-----------------------------------------------------------------------------
(* The pass of the generation has torn the old connection down. *)
Builds == owner \in Passes /\ pass[owner].pc \in Loading

(* A pass in its teardown waits for one that runs, and _syncing says that  *)
(* the pass of the generation is on its way.                               *)
PassInv ==
  /\ \A p \in Passes : pass[p].pc = "teardown" =>
       \E d \in Downs : pass[p].down = {d} /\ down[d].pc # "idle"
  /\ \A p \in Passes : pass[p].pc # "teardown" => pass[p].down = {}
  /\ syncing <=> owner \in Passes /\ pass[owner].pc # "idle"
  /\ \A d \in Downs : down[d].pc = "idle" => down[d].target = NoConn

(* A teardown that is about to begin is that of the generation. *)
StartInv ==
  \A d \in Downs : down[d].pc = "begin" =>
    /\ owner \in Passes /\ pass[owner].pc = "teardown" /\ pass[owner].down = {d}
    /\ down[d].target = NoConn

(* The connection of the controller is the only open one and the only one  *)
(* it listens to; a pass builds where nothing is left, and every teardown, *)
(* the late ones too, has stopped listening and ends when nothing is open. *)
ConnInv ==
  /\ \A c \in Conns : session[c].socket \in Open => c = conn
  /\ statusSub \in {conn, NoConn}
  /\ Builds => conn = NoConn /\ statusSub = NoConn
  /\ \A d \in Downs : down[d].pc \in {"dispose", "close"} => statusSub = NoConn
  /\ \A d \in Downs : down[d].pc = "close" => \A c \in Conns : session[c].socket \notin Open

(* The status is that of the connection the controller listens to. *)
StatusInv ==
  /\ lastStatus = "connected" /\ statusSub # NoConn => session[statusSub].socket = "up"
  /\ Builds /\ pass[owner].pc = "publish" => lastStatus # "connected"

(* "Connected" with no connection is on its way to be mended, or lost. *)
MendInv ==
  ~syncing /\ ~timer /\ lastStatus = "connected" =>
    lost \/ (conn # NoConn /\ statusSub = conn)

(* A step that leaves the connections alone: what is known of them stays,  *)
(* if the teardowns do no more than begin and a pass only stops building.  *)
ConnStays ==
  /\ UNCHANGED <<conn, statusSub, session>>
  /\ Builds' => Builds
  /\ \A d \in Downs : down'[d].pc \in {"dispose", "close"} => down'[d].pc = down[d].pc

LEMMA StaysKeepsConn ==
  ASSUME ConnInv, ConnStays
  PROVE  ConnInv'
BY DEF ConnInv, ConnStays

(* A pass of the generation is on its way before and after it moves on. *)
LEMMA StatusStays ==
  ASSUME StatusInv, UNCHANGED <<statusSub, session, lastStatus>>,
         Builds' /\ pass'[owner'].pc = "publish" => Builds /\ pass[owner].pc = "publish"
  PROVE  StatusInv'
BY DEF StatusInv

(* When the event loop is free, and nothing was stopped, no teardown is    *)
(* about to begin.                                                         *)
LEMMA FreeMeansBegun ==
  ASSUME StartInv, Free
  PROVE  \A d \in Downs : down[d].pc # "begin"
BY DEF StartInv, Free

(* Nor is one when the pass of the generation waits. *)
LEMMA HangingMeansBegun ==
  ASSUME StartInv, owner \in Passes, Hangs(owner)
  PROVE  \A d \in Downs : down[d].pc # "begin"
<1> SUFFICES ASSUME NEW d \in Downs, down[d].pc = "begin"
             PROVE  FALSE
  OBVIOUS
<1>1. /\ pass[owner].pc = "teardown" /\ pass[owner].down = {d}
      /\ down[d].target = NoConn
  BY DEF StartInv
<1>2. ~Held(d)
  BY <1>1 DEF Held
<1> QED
  BY <1>1, <1>2 DEF Hangs, Loading

(* What a step that asks for a pass, abandons one or ends one may do to    *)
(* the control state.                                                      *)
AskMoves ==
  /\ PassInv' /\ StartInv'
  /\ Builds' => Builds /\ owner' = owner /\ pass'[owner'] = pass[owner]
  /\ \A d \in Downs : down'[d].pc \in {down[d].pc, "begin"}

(* What is known of the connections and the status stays. *)
LEMMA AskKeeps ==
  ASSUME AskMoves, ConnInv, StatusInv, UNCHANGED <<conn, statusSub, session, lastStatus>>
  PROVE  ConnInv' /\ StatusInv'
<1>1. ConnStays
  BY DEF AskMoves, ConnStays
<1> QED
  BY <1>1, StaysKeepsConn, StatusStays DEF AskMoves

(* Beginning a pass. *)
LEMMA BeginMoves ==
  ASSUME RelayTypeOK, PassInv, \A d \in Downs : down[d].pc # "begin",
         NEW p \in Passes, NEW d \in Downs, down[d].pc = "idle", Begin(p, d)
  PROVE  AskMoves /\ syncing' /\ ~Builds'
<1>1. /\ owner' = p /\ syncing' = TRUE
      /\ pass'[p].pc = "teardown" /\ pass'[p].down = {d}
      /\ \A q \in Passes : q # p => pass'[q] = pass[q]
      /\ down'[d].pc = "begin" /\ down'[d].target = down[d].target
      /\ \A e \in Downs : e # d => down'[e] = down[e]
  BY DEF Begin, RelayTypeOK, PassRecord, DownRecord
<1>2. PassInv'
  <2>1. ASSUME NEW q \in Passes, pass'[q].pc = "teardown"
        PROVE  \E e \in Downs : pass'[q].down = {e} /\ down'[e].pc # "idle"
    BY <1>1, <2>1 DEF PassInv
  <2>2. \A q \in Passes : pass'[q].pc # "teardown" => pass'[q].down = {}
    BY <1>1 DEF PassInv
  <2>3. \A e \in Downs : down'[e].pc = "idle" => down'[e].target = NoConn
    BY <1>1 DEF PassInv
  <2> QED
    BY <1>1, <2>1, <2>2, <2>3 DEF PassInv
<1>3. StartInv'
  BY <1>1 DEF StartInv, PassInv
<1>4. ~Builds'
  BY <1>1 DEF Builds, Loading
<1> QED
  BY <1>1, <1>2, <1>3, <1>4 DEF AskMoves

LEMMA BeginAnyMoves ==
  ASSUME RelayTypeOK, PassInv, \A d \in Downs : down[d].pc # "begin", BeginAny
  PROVE  AskMoves /\ syncing'
<1>1. PICK p \in Passes, d \in Downs : down[d].pc = "idle" /\ Begin(p, d)
  BY IdleChosen DEF BeginAny, IdlePasses, IdleDowns
<1> QED
  BY <1>1, BeginMoves

(* Asking while a pass runs only leaves a mark. *)
LEMMA ControlStays ==
  ASSUME PassInv, StartInv, UNCHANGED <<pass, owner, syncing, down>>
  PROVE  AskMoves
<1>1. PassInv'
  BY DEF PassInv
<1>2. StartInv'
  BY DEF StartInv
<1> QED
  BY <1>1, <1>2 DEF AskMoves, Builds

(* A pass that is given up goes on without the generation. *)
LEMMA AbandonMoves ==
  ASSUME PassInv, \A d \in Downs : down[d].pc # "begin", Abandon
  PROVE  AskMoves /\ lost'
<1>1. /\ owner' = NoPass /\ syncing' = FALSE /\ lost' = TRUE
      /\ UNCHANGED <<pass, resync, down>>
  BY DEF Abandon
<1>2. NoPass \notin Passes
  BY RelayAssumption
<1>3. PassInv'
  BY <1>1, <1>2 DEF PassInv
<1>4. StartInv'
  BY <1>1 DEF StartInv
<1> QED
  BY <1>1, <1>2, <1>3, <1>4 DEF AskMoves, Builds

(* A request for a pass, in time or to a pass that has stalled. *)
LEMMA SyncMoves ==
  ASSUME RelayTypeOK, PassInv, StartInv, \A d \in Downs : down[d].pc # "begin",
         NEW stalled \in BOOLEAN, Sync(stalled)
  PROVE  AskMoves /\ syncing'
<1>1. CASE syncing /\ ~stalled
  BY <1>1, ControlStays DEF Sync
<1>2. CASE ~(syncing /\ ~stalled)
  BY <1>2, BeginAnyMoves DEF Sync
<1> QED
  BY <1>1, <1>2

(* A pass that ends either begins anew or goes idle; only the pass of the  *)
(* generation takes the flag with it.                                      *)
LEMMA EndMoves ==
  ASSUME RelayTypeOK, PassInv, StartInv, NEW p \in Passes, NEW threw \in BOOLEAN,
         Hangs(p), End(p, threw)
  PROVE  /\ AskMoves
         /\ owner # p => UNCHANGED <<owner, syncing, lost>>
         /\ owner = p => ~Builds' /\ (threw => syncing' \/ lost')
<1>1. CASE owner = p /\ resync
  <2>1. PICK d \in Downs : down[d].pc = "idle" /\ Begin(p, d)
    BY <1>1, IdleChosen DEF End, IdleDowns
  <2> QED
    BY <1>1, <2>1, BeginMoves, HangingMeansBegun
<1>2. CASE ~(owner = p /\ resync)
  <2>1. /\ pass' = [pass EXCEPT ![p] = IdlePass]
        /\ syncing' = (syncing /\ owner # p)
        /\ lost' = (lost \/ (threw /\ owner = p))
        /\ UNCHANGED <<owner, resync, down>>
    BY <1>2 DEF End
  <2>2. /\ pass'[p].pc = "idle" /\ pass'[p].down = {}
        /\ \A q \in Passes : q # p => pass'[q] = pass[q]
    BY <2>1 DEF RelayTypeOK, IdlePass
  <2>3. PassInv'
    <3>1. \A q \in Passes : pass'[q].pc = "teardown" =>
            \E d \in Downs : pass'[q].down = {d} /\ down'[d].pc # "idle"
      BY <2>1, <2>2 DEF PassInv
    <3>2. \A q \in Passes : pass'[q].pc # "teardown" => pass'[q].down = {}
      BY <2>2 DEF PassInv
    <3>3. syncing' <=> owner' \in Passes /\ pass'[owner'].pc # "idle"
      BY <2>1, <2>2, ZenonT(60) DEF PassInv
    <3> QED
      BY <2>1, <3>1, <3>2, <3>3 DEF PassInv
  <2>4. StartInv'
    <3>1. CASE owner = p
      <4>1. \A d \in Downs : down[d].pc # "begin"
        BY <3>1, HangingMeansBegun
      <4> QED
        BY <2>1, <4>1 DEF StartInv
    <3>2. CASE owner # p
      BY <2>1, <2>2, <3>2 DEF StartInv
    <3> QED
      BY <3>1, <3>2
  <2>5. Builds' => Builds /\ owner # p /\ pass'[owner'] = pass[owner]
    BY <2>1, <2>2 DEF Builds, Loading
  <2>6. owner # p => UNCHANGED <<owner, syncing, lost>>
    BY <2>1 DEF RelayTypeOK
  <2> QED
    BY <2>1, <2>3, <2>4, <2>5, <2>6 DEF AskMoves
<1> QED
  BY <1>1, <1>2

(* What asks for a pass moves nothing but the control state; and it leaves *)
(* a pass on its way, or says that one was lost.                           *)
LEMMA AskingMoves ==
  ASSUME RelayTypeOK, PassInv, StartInv, ~stopped,
         \/ \E v \in Pairings \cup {NoPairing} : SavePairing(v)
         \/ SyncCommand \/ TimerFires
         \/ \E stalled \in BOOLEAN : ScreenOn(stalled) \/ NetworkAvailable(stalled)
         \/ WatchdogAbandons \/ WatchdogRevives
  PROVE  /\ AskMoves
         /\ UNCHANGED <<conn, statusSub, session, lastStatus, stopped, overrun>>
         /\ syncing' \/ lost' \/ UNCHANGED <<syncing, timer, lost>>
<1>0. UNCHANGED <<conn, statusSub, session, lastStatus, stopped, overrun>>
  BY DEF SavePairing, SyncCommand, TimerFires, ScreenOn, NetworkAvailable,
         WatchdogAbandons, WatchdogRevives, fields
<1>1. ASSUME NEW v \in Pairings \cup {NoPairing}, SavePairing(v)
      PROVE  AskMoves /\ UNCHANGED <<syncing, timer, lost>>
  BY <1>1, ControlStays DEF SavePairing, control, fields
<1>2. CASE SyncCommand
  BY <1>0, <1>2, SyncMoves, FreeMeansBegun DEF SyncCommand
<1>3. CASE TimerFires
  BY <1>0, <1>3, SyncMoves, FreeMeansBegun DEF TimerFires
<1>4. ASSUME NEW stalled \in BOOLEAN, Comes(stalled)
      PROVE  \A d \in Downs : down[d].pc # "begin"
  BY <1>4, FreeMeansBegun DEF Comes
<1>5. ASSUME NEW stalled \in BOOLEAN, ScreenOn(stalled)
      PROVE  AskMoves /\ (syncing' \/ lost' \/ UNCHANGED <<syncing, timer, lost>>)
  <2>1. (\A d \in Downs : down[d].pc # "begin") /\ timer' = timer
    BY <1>4, <1>5 DEF ScreenOn, fields
  <2>2. CASE lastStatus # "connected"
    BY <1>5, <2>1, <2>2, SyncMoves DEF ScreenOn
  <2>3. CASE lastStatus = "connected" /\ stalled
    BY <1>5, <2>1, <2>3, AbandonMoves DEF ScreenOn
  <2>4. CASE lastStatus = "connected" /\ ~stalled
    BY <1>5, <2>1, <2>4, ControlStays DEF ScreenOn, control
  <2> QED
    BY <2>2, <2>3, <2>4
<1>6. ASSUME NEW stalled \in BOOLEAN, NetworkAvailable(stalled)
      PROVE  AskMoves /\ (syncing' \/ lost' \/ UNCHANGED <<syncing, timer, lost>>)
  <2>1. (\A d \in Downs : down[d].pc # "begin") /\ timer' = timer
    BY <1>4, <1>6 DEF NetworkAvailable, fields
  <2>2. CASE lastStatus = "offline" /\ (stalled \/ ~syncing)
    BY <1>6, <2>1, <2>2, BeginAnyMoves DEF NetworkAvailable
  <2>3. CASE ~(lastStatus = "offline" /\ (stalled \/ ~syncing)) /\ stalled
    BY <1>6, <2>1, <2>3, AbandonMoves DEF NetworkAvailable
  <2>4. CASE ~(lastStatus = "offline" /\ (stalled \/ ~syncing)) /\ ~stalled
    BY <1>6, <2>1, <2>4, ControlStays DEF NetworkAvailable, control
  <2> QED
    BY <2>2, <2>3, <2>4
<1>7. CASE WatchdogAbandons
  BY <1>0, <1>4, <1>7, BeginAnyMoves DEF WatchdogAbandons
<1>8. CASE WatchdogRevives
  BY <1>0, <1>8, BeginAnyMoves, FreeMeansBegun DEF WatchdogRevives
<1> QED
  BY <1>0, <1>1, <1>2, <1>3, <1>5, <1>6, <1>7, <1>8

(* The three facts about the connections. *)
LinkInv == ConnInv /\ StatusInv /\ MendInv

(* The steps of a teardown, of a late one too: it stops listening, closes  *)
(* the connection the controller knows of, which is the only open one, and *)
(* forgets it.                                                             *)
LEMMA TeardownKeeps ==
  ASSUME RelayTypeOK, PassInv, StartInv, NEW d \in Downs, TeardownStep(d)
  PROVE  PassInv' /\ StartInv' /\ (LinkInv => LinkInv')
<1>1. UNCHANGED <<owner, syncing, lost, lastStatus>>
  BY DEF TeardownStep, Cancel, Disposed, Closed, control
<1>2. CASE Cancel(d)
  <2>1. /\ down[d].pc = "begin" /\ down'[d].pc = "dispose"
        /\ \A e \in Downs : e # d => down'[e] = down[e]
        /\ pass' = pass /\ statusSub' = NoConn /\ conn' = conn
    BY <1>2 DEF Cancel, RelayTypeOK, control
  <2>2. \A c \in Conns : session'[c].socket = session[c].socket
    BY <1>2 DEF Cancel, RelayTypeOK, SessionRecord
  <2>3. PassInv' /\ StartInv'
    BY <1>1, <2>1 DEF PassInv, StartInv
  <2>4. syncing /\ ~Builds
    BY <2>1 DEF StartInv, PassInv, Builds, Loading
  <2>5. ~Builds' /\ syncing'
    BY <1>1, <2>1, <2>4 DEF Builds
  <2>6. ConnInv => ConnInv'
    BY <2>1, <2>2, <2>5 DEF ConnInv
  <2>7. StatusInv' /\ MendInv'
    BY <2>1, <2>5 DEF StatusInv, MendInv
  <2> QED
    BY <2>3, <2>6, <2>7 DEF LinkInv
<1>3. CASE Disposed(d)
  <2>1. /\ down[d].pc = "dispose" /\ down'[d].pc = "close"
        /\ \A e \in Downs : e # d => down'[e] = down[e]
        /\ pass' = pass /\ statusSub' = statusSub /\ conn' = conn /\ timer' = timer
    BY <1>3 DEF Disposed, RelayTypeOK, IdleDown, control
  <2>2. ConnInv => statusSub = NoConn /\ \A c \in Conns : session'[c].socket \notin Open
    BY <1>3 DEF Disposed, ConnInv, RelayTypeOK, SessionRecord, Open
  <2>3. PassInv' /\ StartInv'
    BY <1>1, <2>1 DEF PassInv, StartInv
  <2>4. Builds' <=> Builds
    BY <1>1, <2>1 DEF Builds
  <2>5. ConnInv => ConnInv'
    BY <2>1, <2>2, <2>4 DEF ConnInv
  <2>6. ConnInv /\ StatusInv => StatusInv'
    BY <1>1, <2>1, <2>2, <2>4 DEF StatusInv
  <2>7. MendInv => MendInv'
    BY <1>1, <2>1 DEF MendInv
  <2> QED
    BY <2>3, <2>5, <2>6, <2>7 DEF LinkInv
<1>4. CASE Closed(d)
  <2>1. /\ down[d].pc = "close" /\ down'[d].pc = "idle" /\ down'[d].target = NoConn
        /\ \A e \in Downs : e # d => down'[e] = down[e]
        /\ statusSub' = statusSub /\ conn' = NoConn /\ session' = session /\ timer' = timer
        /\ pass' = [p \in Passes |-> IF pass[p].down = {d}
                                     THEN [pc |-> "settings", down |-> {}] ELSE pass[p]]
    BY <1>4 DEF Closed, RelayTypeOK, IdleDown
  <2>2. /\ \A p \in Passes : pass[p].down = {d} =>
              pass'[p].pc = "settings" /\ pass'[p].down = {} /\ pass[p].pc = "teardown"
        /\ \A p \in Passes : pass[p].down # {d} => pass'[p] = pass[p]
    BY <2>1 DEF PassInv
  <2>3. PassInv'
    <3>1. ASSUME NEW p \in Passes, pass'[p].pc = "teardown"
          PROVE  \E e \in Downs : pass'[p].down = {e} /\ down'[e].pc # "idle"
      <4>1. pass[p].down # {d} /\ pass'[p] = pass[p]
        BY <2>2, <3>1
      <4>2. PICK e \in Downs : pass[p].down = {e} /\ down[e].pc # "idle"
        BY <3>1, <4>1 DEF PassInv
      <4> QED
        BY <2>1, <4>1, <4>2
    <3>2. \A p \in Passes : pass'[p].pc # "teardown" => pass'[p].down = {}
      BY <2>2 DEF PassInv
    <3>3. syncing' <=> owner' \in Passes /\ pass'[owner'].pc # "idle"
      BY <1>1, <2>2 DEF PassInv
    <3>4. \A e \in Downs : down'[e].pc = "idle" => down'[e].target = NoConn
      BY <2>1 DEF PassInv
    <3> QED
      BY <3>1, <3>2, <3>3, <3>4 DEF PassInv
  <2>4. StartInv'
    BY <1>1, <2>1, <2>2 DEF StartInv
  <2>5. ConnInv => statusSub = NoConn /\ \A c \in Conns : session[c].socket \notin Open
    BY <2>1 DEF ConnInv
  <2>6. ConnInv => ConnInv'
    BY <2>1, <2>5 DEF ConnInv
  <2>7. Builds' /\ pass'[owner'].pc = "publish" => Builds /\ pass[owner].pc = "publish"
    BY <1>1, <2>2 DEF Builds
  <2>8. StatusInv => StatusInv'
    BY <1>1, <2>1, <2>7 DEF StatusInv
  <2>9. ConnInv /\ MendInv => MendInv'
    BY <1>1, <2>1, <2>5 DEF MendInv
  <2> QED
    BY <2>3, <2>4, <2>6, <2>8, <2>9 DEF LinkInv
<1> QED
  BY <1>2, <1>3, <1>4 DEF TeardownStep

(* A pass that goes on with its loading. *)
LEMMA LoadingMoves ==
  ASSUME RelayTypeOK, PassInv, StartInv, NEW p \in Passes, pass[p].pc \in Loading,
         NEW pc \in Loading, pass' = [pass EXCEPT ![p].pc = pc],
         UNCHANGED <<owner, syncing, down>>
  PROVE  /\ PassInv' /\ StartInv' /\ (Builds' => Builds)
         /\ pass'[p].pc = pc /\ \A q \in Passes : q # p => pass'[q] = pass[q]
<1>1. /\ pass'[p].pc = pc /\ pass'[p].down = pass[p].down
      /\ \A q \in Passes : q # p => pass'[q] = pass[q]
  BY DEF RelayTypeOK, PassRecord
<1>2. PassInv'
  BY <1>1 DEF PassInv, Loading
<1>3. StartInv'
  BY <1>1 DEF StartInv, Loading
<1>4. Builds' => Builds
  BY <1>1 DEF Builds
<1> QED
  BY <1>1, <1>2, <1>3, <1>4

(* A pass that ends with the connections as they are, in whichever way,    *)
(* when what is shown is not a stale "connected" that nothing mends.       *)
LEMMA EndKeeps ==
  ASSUME RelayTypeOK, PassInv, StartInv, NEW p \in Passes, NEW threw \in BOOLEAN,
         Hangs(p), End(p, threw), UNCHANGED <<conn, statusSub, session, lastStatus>>,
         owner # p => timer' = timer,
         owner = p => threw \/ timer' \/ lastStatus # "connected"
  PROVE  PassInv' /\ StartInv' /\ (LinkInv => LinkInv')
<1>1. /\ AskMoves
      /\ owner # p => UNCHANGED <<owner, syncing, lost>>
      /\ owner = p /\ threw => syncing' \/ lost'
  BY EndMoves
<1>2. ConnInv /\ StatusInv => ConnInv' /\ StatusInv'
  BY <1>1, AskKeeps
<1>3. MendInv => MendInv'
  BY <1>1 DEF MendInv
<1> QED
  BY <1>1, <1>2, <1>3 DEF AskMoves, LinkInv

(* The steps of a pass after its teardown, and the ends it can come to. *)
LEMMA PassKeeps ==
  ASSUME RelayTypeOK, PassInv, StartInv, ~stopped, NEW p \in Passes,
         PassStep(p) \/ TimesOut(p) \/ Throws(p)
  PROVE  PassInv' /\ StartInv' /\ (LinkInv /\ ~overrun' => LinkInv')
<1>1. CASE LoadSettings(p) /\ owner = p
  <2>1. /\ pass[p].pc \in Loading /\ "prepare" \in Loading
        /\ pass' = [pass EXCEPT ![p].pc = "prepare"]
        /\ UNCHANGED <<owner, syncing, down>>
        /\ UNCHANGED <<conn, statusSub, session, lastStatus, timer, lost>>
    BY <1>1 DEF LoadSettings, Loading, fields
  <2>2. /\ PassInv' /\ StartInv' /\ (Builds' => Builds)
        /\ pass'[p].pc = "prepare"
    BY <2>1, LoadingMoves
  <2>3. ConnInv => ConnInv'
    BY <2>1, <2>2, StaysKeepsConn DEF ConnStays
  <2>4. StatusInv => StatusInv'
    BY <1>1, <2>1, <2>2, StatusStays
  <2> QED
    BY <2>1, <2>2, <2>3, <2>4 DEF LinkInv, MendInv
<1>2. CASE LoadSettings(p) /\ owner # p
  BY <1>2, EndKeeps DEF LoadSettings, Loading, Hangs, fields
<1>3. CASE Prepare(p)
  <2>1. /\ pass[p].pc \in Loading /\ "pairing" \in Loading
        /\ pass' = [pass EXCEPT ![p].pc = "pairing"]
        /\ UNCHANGED <<owner, syncing, down>>
        /\ UNCHANGED <<conn, statusSub, session, lastStatus, timer, lost>>
    BY <1>3 DEF Prepare, Loading, fields
  <2>2. /\ PassInv' /\ StartInv' /\ (Builds' => Builds)
        /\ pass'[p].pc = "pairing" /\ \A q \in Passes : q # p => pass'[q] = pass[q]
    BY <2>1, LoadingMoves
  <2>3. Builds' /\ pass'[owner'].pc = "publish" => Builds /\ pass[owner].pc = "publish"
    BY <2>1, <2>2 DEF Builds
  <2>4. ConnInv => ConnInv'
    BY <2>1, <2>2, StaysKeepsConn DEF ConnStays
  <2>5. StatusInv => StatusInv'
    BY <2>1, <2>3, StatusStays
  <2> QED
    BY <2>1, <2>2, <2>4, <2>5 DEF LinkInv, MendInv
<1>4. CASE LoadNoPairing(p)
  <2>1. /\ pass[p].pc \in Loading /\ "publish" \in Loading
        /\ pass' = [pass EXCEPT ![p].pc = "publish"]
        /\ UNCHANGED <<owner, syncing, down>>
        /\ UNCHANGED <<conn, statusSub, session>>
        /\ lastStatus' = "offline"
    BY <1>4 DEF LoadNoPairing, Loading
  <2>2. PassInv' /\ StartInv' /\ (Builds' => Builds)
    BY <2>1, LoadingMoves
  <2>3. ConnInv => ConnInv'
    BY <2>1, <2>2, StaysKeepsConn DEF ConnStays
  <2>4. StatusInv' /\ MendInv'
    BY <2>1 DEF StatusInv, MendInv
  <2> QED
    BY <2>2, <2>3, <2>4 DEF LinkInv
<1>5. CASE OfflinePublished(p)
  <2>1. /\ pass[p].pc = "publish" /\ Hangs(p) /\ End(p, FALSE)
        /\ UNCHANGED <<conn, statusSub, session, lastStatus, timer>>
    BY <1>5 DEF OfflinePublished, Hangs, Loading, fields
  <2>2. AskMoves /\ (owner # p => UNCHANGED <<owner, syncing, lost>>)
    BY <2>1, EndMoves
  <2>3. StatusInv /\ owner = p => lastStatus # "connected"
    BY <2>1 DEF StatusInv, Builds, Loading
  <2>4. CASE owner # p
    BY <2>1, <2>4, EndKeeps
  <2>5. CASE owner = p
    <3>1. LinkInv => LinkInv'
      BY <2>1, <2>2, <2>3, <2>5, AskKeeps DEF LinkInv, MendInv
    <3> QED
      BY <2>2, <3>1 DEF AskMoves
  <2> QED
    BY <2>4, <2>5
<1>6. CASE Connect(p)
  <2>1. Hangs(p) /\ owner = p /\ Builds /\ End(p, FALSE) /\ pairing # NoPairing
    BY <1>6 DEF Connect, Loading, Hangs, Builds
  <2>2. AskMoves /\ ~Builds'
    BY <2>1, EndMoves
  <2>3. PICK c \in Conns : Build(c)
    BY <1>6 DEF Connect
  <2>4. /\ conn' = c /\ statusSub' = c /\ lastStatus' = "searching"
        /\ \A x \in Conns \ {c} : session'[x] = session[x]
        /\ overrun' = (overrun \/ \E d \in Downs : down[d].pc # "idle")
    BY <2>1, <2>3, BuildTyped DEF Build
  <2>5. ASSUME ConnInv, ~overrun'
        PROVE  ConnInv'
    <3>1. \A d \in Downs : down'[d].pc \in {"idle", "begin"}
      BY <2>2, <2>4, <2>5 DEF AskMoves
    <3>2. \A x \in Conns : session[x].socket \notin Open
      BY <2>1, <2>5, RelayAssumption DEF ConnInv
    <3> QED
      BY <2>2, <2>4, <3>1, <3>2 DEF ConnInv
  <2>6. StatusInv' /\ MendInv'
    BY <2>4 DEF StatusInv, MendInv
  <2> QED
    BY <2>2, <2>5, <2>6 DEF AskMoves, LinkInv
<1>7. CASE AbandonedReturns(p)
  BY <1>7, EndKeeps DEF AbandonedReturns, Loading, Hangs, fields
<1>8. CASE TimesOut(p)
  <2>1. /\ Hangs(p) /\ End(p, FALSE)
        /\ UNCHANGED <<conn, statusSub, session, lastStatus>>
        /\ timer' = (timer \/ (owner = p /\ ~stopped))
    BY <1>8 DEF TimesOut
  <2>2. /\ owner = p => timer'
        /\ owner # p => timer' = timer
    BY <2>1 DEF RelayTypeOK
  <2> QED
    BY <2>1, <2>2, EndKeeps
<1>9. CASE Throws(p)
  BY <1>9, EndKeeps DEF Throws, Hangs, fields
<1> QED
  BY <1>1, <1>2, <1>3, <1>4, <1>5, <1>6, <1>7, <1>8, <1>9 DEF PassStep

(* What a connection reports: only the one that is listened to is heard, *)
(* and bad news set the timer.                                           *)
LEMMA EventKeeps ==
  ASSUME RelayTypeOK, PassInv, StartInv, ~stopped, NEW c \in Conns,
         AuthOk(c) \/ Drop(c) \/ Refuse(c) \/ ReceiveBegins(c) \/ ReceiveEnds(c)
  PROVE  PassInv' /\ StartInv' /\ (LinkInv => LinkInv')
<1>1. UNCHANGED <<pass, owner, syncing, lost, down, conn, statusSub>>
  BY DEF AuthOk, Drop, Refuse, ReceiveBegins, ReceiveEnds, fields, control
<1>2. PassInv' /\ StartInv' /\ (Builds' <=> Builds)
  BY <1>1 DEF PassInv, StartInv, Builds
<1>3. ASSUME \A x \in Conns : session'[x].socket \in Open => session[x].socket \in Open, ConnInv
      PROVE  ConnInv'
  BY <1>1, <1>2, <1>3 DEF ConnInv
<1>4. CASE ReceiveBegins(c) \/ ReceiveEnds(c)
  <2>1. \A x \in Conns : session'[x].socket = session[x].socket
    BY <1>4 DEF ReceiveBegins, ReceiveEnds, RelayTypeOK, SessionRecord
  <2>2. UNCHANGED <<lastStatus, timer>>
    BY <1>4 DEF ReceiveBegins, ReceiveEnds, fields
  <2>3. LinkInv => StatusInv' /\ MendInv'
    BY <1>1, <1>2, <2>1, <2>2, RelayAssumption
    DEF LinkInv, StatusInv, MendInv, Builds, RelayTypeOK
  <2> QED
    BY <1>2, <1>3, <2>1, <2>3 DEF LinkInv
<1>5. ASSUME NEW socket \in {"up", "down", "refused"}, Socket(c, socket),
             socket \in Open => session[c].socket \in Open
      PROVE  /\ ConnInv => ConnInv'
             /\ session'[c].socket = socket
             /\ \A x \in Conns : x # c => session'[x] = session[x]
  <2>1. /\ session'[c].socket = socket
        /\ \A x \in Conns : x # c => session'[x] = session[x]
    BY <1>5 DEF Socket, RelayTypeOK, SessionRecord
  <2> QED
    BY <1>3, <1>5, <2>1
<1>6. CASE AuthOk(c)
  <2>1. /\ ConnInv => ConnInv'
        /\ session'[c].socket = "up"
        /\ \A x \in Conns : x # c => session'[x] = session[x]
    BY <1>5, <1>6 DEF AuthOk, Open
  <2>2. CASE statusSub = c
    <3>1. ConnInv => c = conn /\ conn # NoConn
      BY <2>2, RelayAssumption DEF ConnInv
    <3>2. lastStatus' = "connected" /\ (ConnInv => ~Builds)
      BY <1>6, <2>2, RelayAssumption DEF AuthOk, Report, ConnInv
    <3> QED
      BY <1>1, <1>2, <2>1, <2>2, <3>1, <3>2 DEF LinkInv, StatusInv, MendInv
  <2>3. CASE statusSub # c
    <3>1. UNCHANGED <<lastStatus, timer>>
      BY <1>6, <2>3 DEF AuthOk, Report
    <3> QED
      BY <1>1, <1>2, <2>1, <2>3, <3>1, RelayAssumption
      DEF LinkInv, StatusInv, MendInv, Builds, RelayTypeOK
  <2> QED
    BY <2>2, <2>3
<1>7. CASE Drop(c) \/ Refuse(c)
  <2>1. /\ ConnInv => ConnInv'
        /\ \A x \in Conns : x # c => session'[x] = session[x]
    BY <1>5, <1>7 DEF Drop, Refuse, Open
  <2>2. CASE statusSub = c
    <3>1. lastStatus' = "offline"
      BY <1>7, <2>2 DEF Drop, Refuse, Report
    <3> QED
      BY <1>2, <2>1, <3>1 DEF LinkInv, StatusInv, MendInv
  <2>3. CASE statusSub # c
    <3>1. UNCHANGED <<lastStatus, timer>>
      BY <1>7, <2>3 DEF Drop, Refuse, Report
    <3> QED
      BY <1>1, <1>2, <2>1, <2>3, <3>1, RelayAssumption
      DEF LinkInv, StatusInv, MendInv, Builds, RelayTypeOK
  <2> QED
    BY <2>2, <2>3
<1> QED
  BY <1>4, <1>6, <1>7

(* What holds until the service is stopped, and what holds as long as no   *)
(* connection was built while a teardown still ran.                        *)
RelayInv ==
  /\ RelayTypeOK /\ KnownIsBuilt
  /\ ~stopped => PassInv /\ StartInv
  /\ ~stopped /\ ~overrun => LinkInv

(* Only a pass that connects can find a teardown running. *)
LEMMA OverrunStays ==
  ASSUME RelayTypeOK, Next
  PROVE  (stopped => stopped') /\ (overrun => overrun')
<1>1. CASE \E p \in Passes : Connect(p)
  <2>1. PICK p \in Passes, c \in Conns : Connect(p) /\ Build(c)
    BY <1>1 DEF Connect
  <2>2. stopped' = stopped /\ overrun' = (overrun \/ \E d \in Downs : down[d].pc # "idle")
    BY <2>1 DEF Connect, Build
  <2> QED
    BY <2>2
<1>2. ASSUME Stop
      PROVE  stopped' /\ overrun' = overrun
  BY <1>2 DEF Stop
<1>3. ASSUME ~Stop, ~\E p \in Passes : Connect(p)
      PROVE  UNCHANGED <<stopped, overrun>>
  BY <1>3 DEF Next, SavePairing, SyncCommand, TimerFires, ScreenOn, NetworkAvailable,
              WatchdogAbandons, WatchdogRevives, TeardownStep, Cancel, Disposed, Closed,
              PassStep, LoadSettings, Prepare, LoadNoPairing, OfflinePublished,
              AbandonedReturns, TimesOut, Throws, AuthOk, Drop, Refuse, ReceiveBegins,
              ReceiveEnds, fields
<1> QED
  BY <1>1, <1>2, <1>3

(* Every step keeps the invariant. *)
LEMMA NextKeepsRelay ==
  ASSUME RelayInv, Next
  PROVE  RelayInv'
<1>1. RelayTypeOK' /\ KnownIsBuilt'
  BY NextTyped, NextKeepsBuilt DEF RelayInv
<1> DEFINE Kept == PassInv' /\ StartInv' /\ (LinkInv /\ ~overrun' => LinkInv')
<1>2. ASSUME ~stopped'
      PROVE  PassInv' /\ StartInv' /\ (~overrun' => LinkInv')
  <2>1. ~Stop
    BY <1>2 DEF Stop
  <2>2. ~stopped /\ (overrun => overrun')
    BY <1>2, OverrunStays DEF RelayInv
  <2>3. RelayTypeOK /\ PassInv /\ StartInv /\ (~overrun => LinkInv)
    BY <2>2 DEF RelayInv
  <2>4. CASE \/ \E v \in Pairings \cup {NoPairing} : SavePairing(v)
             \/ SyncCommand \/ TimerFires
             \/ \E stalled \in BOOLEAN : ScreenOn(stalled) \/ NetworkAvailable(stalled)
             \/ WatchdogAbandons \/ WatchdogRevives
    <3>1. /\ AskMoves
          /\ UNCHANGED <<conn, statusSub, session, lastStatus, stopped, overrun>>
          /\ syncing' \/ lost' \/ UNCHANGED <<syncing, timer, lost>>
      BY <2>2, <2>3, <2>4, AskingMoves
    <3>2. LinkInv => ConnInv' /\ StatusInv'
      BY <3>1, AskKeeps DEF LinkInv
    <3>3. LinkInv => MendInv'
      BY <3>1 DEF LinkInv, MendInv
    <3> QED
      BY <2>2, <2>3, <3>1, <3>2, <3>3 DEF AskMoves, LinkInv
  <2>5. ASSUME NEW d \in Downs, TeardownStep(d)
        PROVE  Kept
    BY <2>3, <2>5, TeardownKeeps
  <2>6. ASSUME NEW p \in Passes, PassStep(p) \/ TimesOut(p) \/ Throws(p)
        PROVE  Kept
    BY <2>2, <2>3, <2>6, PassKeeps
  <2>7. ASSUME NEW c \in Conns,
               AuthOk(c) \/ Drop(c) \/ Refuse(c) \/ ReceiveBegins(c) \/ ReceiveEnds(c)
        PROVE  Kept
    BY <2>2, <2>3, <2>7, EventKeeps
  <2>8. CASE Kept
    BY <2>2, <2>3, <2>8
  <2> HIDE DEF Kept
  <2> QED
    BY <2>1, <2>4, <2>5, <2>6, <2>7, <2>8 DEF Next
<1> QED
  BY <1>1, <1>2 DEF RelayInv

(* The invariant holds in every state. *)
THEOREM RelayInvariant == Spec => []RelayInv
<1>1. Init => RelayInv
  <2> SUFFICES ASSUME Init
               PROVE  RelayInv
    OBVIOUS
  <2>1. RelayTypeOK /\ KnownIsBuilt
    BY InitTyped
  <2>2. /\ \A p \in Passes : pass[p].pc = "idle" /\ pass[p].down = {}
        /\ \A d \in Downs : down[d].pc = "idle" /\ down[d].target = NoConn
        /\ \A c \in Conns : session[c].socket = "none"
        /\ owner \notin Passes /\ syncing = FALSE
        /\ statusSub = NoConn /\ conn = NoConn /\ lastStatus = "offline"
    BY RelayAssumption DEF Init, IdlePass, IdleDown, NoSession
  <2>3. PassInv /\ StartInv
    BY <2>2 DEF PassInv, StartInv
  <2>4. ConnInv
    BY <2>2 DEF ConnInv, Builds, Open
  <2>5. StatusInv /\ MendInv
    BY <2>2 DEF StatusInv, MendInv
  <2> QED
    BY <2>1, <2>3, <2>4, <2>5 DEF RelayInv, LinkInv
<1>2. RelayInv /\ [Next]_vars => RelayInv'
  <2> SUFFICES ASSUME RelayInv, [Next]_vars
               PROVE  RelayInv'
    OBVIOUS
  <2>1. CASE Next
    BY <2>1, NextKeepsRelay
  <2>2. CASE UNCHANGED vars
    <3>1. RelayTypeOK' /\ KnownIsBuilt'
      BY <2>2, StutterTyped DEF RelayInv
    <3>2. PassInv /\ StartInv => PassInv' /\ StartInv'
      BY <2>2 DEF vars, control, PassInv, StartInv
    <3>3. LinkInv => LinkInv'
      BY <2>2 DEF vars, control, fields, LinkInv, ConnInv, StatusInv, MendInv, Builds
    <3>4. (stopped' <=> stopped) /\ (overrun' <=> overrun)
      BY <2>2 DEF vars, fields
    <3> QED
      BY <3>1, <3>2, <3>3, <3>4 DEF RelayInv
  <2> QED
    BY <2>1, <2>2
<1> QED
  BY <1>1, <1>2, PTL DEF Spec

(* No socket outlives the connection the controller knows of, however long *)
(* awaits and teardowns take and whoever gives a pass up, until a          *)
(* connection is built while a teardown still runs: what was left behind   *)
(* is closed before the next pass builds.                                  *)
THEOREM OneConnectionIsOpen == Spec => []OneOpenConnection
<1>1. RelayInv => OneOpenConnection
  BY DEF RelayInv, LinkInv, ConnInv, OneOpenConnection
<1> QED
  BY <1>1, RelayInvariant, PTL

(* "Connected" is shown only while it is true or already being mended, or  *)
(* when the last pass to end left neither a timer nor a pass behind it:    *)
(* nothing else makes the shown status stale, up to the same point.        *)
THEOREM ShownStatusIsTrue == Spec => []ReportedIsLive
<1>1. RelayInv => ReportedIsLive
  BY DEF RelayInv, LinkInv, StatusInv, MendInv, ReportedIsLive
<1> QED
  BY <1>1, RelayInvariant, PTL

(* A pass that was given up never puts its connection in place, however    *)
(* long teardowns and other awaits take.                                   *)
THEOREM AbandonedPassesBuildNothing == Spec => AbandonedBuildsNothing
<1> DEFINE Builder == conn' \notin {conn, NoConn} =>
             \E p \in Passes : pass[p].pc = "pairing" /\ owner = p /\ pass'[p] # pass[p]
<1>1. RelayTypeOK /\ [Next]_vars => [Builder]_vars
  <2> SUFFICES ASSUME RelayTypeOK, Next, conn' \notin {conn, NoConn}
               PROVE  \E p \in Passes :
                        pass[p].pc = "pairing" /\ owner = p /\ pass'[p] # pass[p]
    OBVIOUS
  <2>1. PICK p \in Passes : Connect(p)
    BY DEF Next, SavePairing, SyncCommand, TimerFires, ScreenOn, NetworkAvailable,
           WatchdogAbandons, WatchdogRevives, TeardownStep, Cancel, Disposed, Closed,
           PassStep, LoadSettings, Prepare, LoadNoPairing, OfflinePublished,
           AbandonedReturns, TimesOut, Throws, AuthOk, Drop, Refuse, ReceiveBegins, ReceiveEnds,
           Stop, fields
  <2>2. pass'[p].pc \in {"teardown", "idle"}
    BY <2>1 DEF Connect, End, Begin, IdlePass, RelayTypeOK
  <2> QED
    BY <2>1, <2>2 DEF Connect
<1> QED
  BY <1>1, RelayTypeCorrect, PTL DEF Spec, AbandonedBuildsNothing
=============================================================================
