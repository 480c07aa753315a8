----------------------------- MODULE ServiceRelay -----------------------------
(***************************************************************************)
(* How the phone's foreground service keeps one connection to the laptop   *)
(* (app/lib/src/foreground/service_relay_controller.dart).  A sync pass    *)
(* tears the old connection down and builds a new one; timers, the screen, *)
(* the network, the watchdog and the UI ask for passes.  Every await is    *)
(* bounded, and a bound that runs out ends the pass, not the call it was   *)
(* waiting for: a teardown goes on by itself and writes the fields of the  *)
(* controller when it ends.  Delays are left out, so the backoff is one    *)
(* timer that may fire at any time.                                        *)
(***************************************************************************)
EXTENDS Naturals

CONSTANTS
  Passes,       \* bound: sync passes running at once
  Downs,        \* bound: teardowns running at once
  Conns,        \* bound: connections that are in use at once, numbers
  Pairings,     \* pairings the user may save
  NoPass, NoConn, NoPairing,
  MaxFaults,    \* bound: drops, refusals, timeouts, exceptions and stalls
  MaxAsks       \* bound: pairings saved, screens on and networks back

ASSUME RelayAssumption ==
  /\ NoPass \notin Passes /\ NoConn \notin Conns /\ NoPairing \notin Pairings
  /\ Conns \subseteq Nat
  /\ MaxFaults \in Nat /\ MaxAsks \in Nat

VARIABLES
  pass,        \* where each sync pass is
  owner,       \* the pass that holds _syncGeneration
  syncing,     \* _syncing
  resync,      \* _resyncRequested
  down,        \* where each teardown is
  timer,       \* _reconnectTimer is set
  lastStatus,  \* _lastStatus
  unpaired,    \* _unpaired
  stopped,     \* _stopped
  conn,        \* _connection
  statusSub,   \* the connection _statusSubscription listens to
  receiver,    \* the connection of _transferReceiver
  session,     \* the connections: socket, pairing, and their receiver's work
  pairing,     \* the stored pairing
  command,     \* a sync command of the UI is on its way
  lost,        \* history: the last pass to end left neither a timer nor a pass
  overrun,     \* history: a connection was built while a teardown still ran
  faults, asks

control == <<pass, owner, syncing, resync, lost>>
fields == <<timer, lastStatus, unpaired, stopped, conn, statusSub, receiver>>
budget == <<faults, asks>>
vars == <<control, down, fields, session, pairing, command, overrun, budget>>

Open == {"connecting", "up", "refused"}
NoSession == [socket |-> "none", pairing |-> NoPairing, busy |-> FALSE, disposed |-> FALSE]
IdlePass == [pc |-> "idle", down |-> {}]
IdleDown == [pc |-> "idle", target |-> NoConn, again |-> FALSE]

Init ==
  /\ pass = [p \in Passes |-> IdlePass]
  /\ owner = NoPass
  /\ syncing = FALSE /\ resync = FALSE
  /\ down = [d \in Downs |-> IdleDown]
  /\ timer = FALSE
  /\ lastStatus = "offline"
  /\ unpaired = FALSE /\ stopped = FALSE
  /\ conn = NoConn /\ statusSub = NoConn /\ receiver = NoConn
  /\ session = [c \in Conns |-> NoSession]
  /\ pairing \in Pairings \cup {NoPairing}
  /\ command = TRUE     \* start() runs the first pass
  /\ lost = FALSE /\ overrun = FALSE
  /\ faults = 0 /\ asks = 0

(* The awaits of a pass after its teardown. *)
Loading == {"settings", "prepare", "pairing", "publish"}

(* Disposing waits for the receive that runs, but only the first time. *)
Held(d) ==
  down[d].target # NoConn /\ ~down[d].again /\ session[down[d].target].busy

(* The pass is in an await that can take as long as its bound, or longer   *)
(* when the process was frozen.                                            *)
Hangs(p) ==
  \/ pass[p].pc \in Loading
  \/ pass[p].pc = "teardown" /\ \E d \in pass[p].down : Held(d) \/ down[d].pc = "close"

(* A pass begins its teardown in one go: no event comes in between. *)
Free == \A p \in Passes : \A d \in pass[p].down : down[d].pc # "begin"

Ask == asks < MaxAsks /\ asks' = asks + 1 /\ UNCHANGED faults
Fault == faults < MaxFaults /\ faults' = faults + 1 /\ UNCHANGED asks
-----------------------------------------------------------------------------
(* _sync *)

(* Pass p takes the generation and begins its teardown d. *)
Begin(p, d) ==
  /\ down' = [down EXCEPT ![d].pc = "begin"]
  /\ pass' = [pass EXCEPT ![p] = [pc |-> "teardown", down |-> {d}]]
  /\ owner' = p
  /\ syncing' = TRUE /\ lost' = FALSE

IdlePasses == {p \in Passes : pass[p].pc = "idle"}
IdleDowns == {d \in Downs : down[d].pc = "idle"}

(* Which idle one is taken is only a name. *)
BeginAny ==
  /\ IdlePasses # {} /\ IdleDowns # {}
  /\ Begin(CHOOSE p \in IdlePasses : TRUE, CHOOSE d \in IdleDowns : TRUE)

(* While a pass runs, another one is only asked for; a stalled pass is     *)
(* abandoned by losing the generation.                                     *)
Sync(stalled) ==
  IF syncing /\ ~stalled
  THEN resync' = TRUE /\ UNCHANGED <<pass, owner, syncing, lost, down>>
  ELSE BeginAny /\ UNCHANGED resync

(* Mutant: a request made while the pass ran is forgotten. *)
EndForgets(p, threw) ==
  /\ pass' = [pass EXCEPT ![p] = IdlePass]
  /\ resync' = (resync /\ owner # p)
  /\ syncing' = (syncing /\ owner # p)
  /\ lost' = (lost \/ (threw /\ owner = p))
  /\ UNCHANGED <<owner, down>>

(* The finally of _sync: only the pass that holds the generation clears    *)
(* the flag, and runs another pass if one was asked for.  A pass that      *)
(* threw leaves nothing else behind.                                       *)
End(p, threw) ==
  \/ /\ owner = p /\ resync
     /\ resync' = FALSE
     /\ IdleDowns # {}
     /\ Begin(p, CHOOSE d \in IdleDowns : TRUE)
  \/ /\ ~(owner = p /\ resync)
     /\ pass' = [pass EXCEPT ![p] = IdlePass]
     /\ syncing' = (syncing /\ owner # p)
     /\ lost' = (lost \/ (threw /\ owner = p))
     /\ UNCHANGED <<owner, resync, down>>

(* _abandonStalledSync with no new pass behind it. *)
Abandon ==
  /\ owner' = NoPass /\ syncing' = FALSE /\ lost' = TRUE
  /\ UNCHANGED <<pass, resync, down>>
-----------------------------------------------------------------------------
(* What asks for a pass *)

SavePairing(v) ==
  /\ Ask
  /\ pairing' = v /\ command' = TRUE
  /\ UNCHANGED <<control, down, fields, session, overrun>>

SyncCommand ==
  /\ Free
  /\ command /\ command' = FALSE
  /\ Sync(FALSE)
  /\ UNCHANGED <<fields, session, pairing, overrun, budget>>

TimerFires ==
  /\ Free
  /\ timer /\ timer' = FALSE
  /\ IF stopped THEN UNCHANGED <<control, down>> ELSE Sync(FALSE)
  /\ UNCHANGED <<lastStatus, unpaired, stopped, conn, statusSub, receiver,
                 session, pairing, command, overrun, budget>>

(* The event comes in time, or finds a pass that has stalled. *)
Comes(stalled) ==
  /\ Free /\ ~stopped
  /\ IF stalled THEN syncing /\ Hangs(owner) /\ Fault ELSE Ask

ScreenOn(stalled) ==
  /\ Comes(stalled)
  /\ IF lastStatus = "connected"
     THEN IF stalled THEN Abandon ELSE UNCHANGED <<control, down>>
     ELSE Sync(stalled)
  /\ UNCHANGED <<fields, session, pairing, command, overrun>>

NetworkAvailable(stalled) ==
  /\ Comes(stalled)
  /\ IF lastStatus = "offline" /\ (stalled \/ ~syncing)
       THEN BeginAny /\ UNCHANGED resync
     ELSE IF stalled THEN Abandon
     ELSE UNCHANGED <<control, down>>
  /\ UNCHANGED <<fields, session, pairing, command, overrun>>

WatchdogAbandons ==
  /\ Comes(TRUE)
  /\ BeginAny
  /\ UNCHANGED <<resync, fields, session, pairing, command, overrun>>

(* Disconnected with nothing scheduled to fix it. *)
WatchdogRevives ==
  /\ Free
  /\ ~stopped /\ ~syncing /\ ~timer /\ ~unpaired
  /\ lastStatus # "connected"
  /\ BeginAny
  /\ UNCHANGED <<resync, fields, session, pairing, command, overrun, budget>>
-----------------------------------------------------------------------------
(* _teardown *)

(* Cancel the timer and the subscriptions, dispose the receiver.  Disposing *)
(* one that was disposed before returns at once.                            *)
Cancel(d) ==
  /\ down[d].pc = "begin"
  /\ timer' = FALSE /\ statusSub' = NoConn
  /\ down' = [down EXCEPT ![d] =
                [pc |-> "dispose", target |-> receiver,
                 again |-> receiver # NoConn /\ session[receiver].disposed]]
  /\ session' = [c \in Conns |->
                   IF c = receiver THEN [session[c] EXCEPT !.disposed = TRUE] ELSE session[c]]
  /\ UNCHANGED <<control, lastStatus, unpaired, stopped, conn, receiver,
                 pairing, command, overrun, budget>>

(* Mutant: a connection that has reported offline is taken for closed. *)
DisposedWhenOnline(d) ==
  /\ down[d].pc = "dispose"
  /\ ~Held(d)
  /\ receiver' = NoConn
  /\ session' = [c \in Conns |-> IF c = conn /\ lastStatus # "offline"
                                 THEN [session[c] EXCEPT !.socket = "closed"] ELSE session[c]]
  /\ down' = [down EXCEPT ![d] = [IdleDown EXCEPT !.pc = "close"]]
  /\ UNCHANGED <<control, timer, lastStatus, unpaired, stopped, conn, statusSub,
                 pairing, command, overrun, budget>>

(* The receive that ran has ended.  Closing applies to the connection the   *)
(* field holds now, and no event of its socket is heard from then on.       *)
Disposed(d) ==
  /\ down[d].pc = "dispose"
  /\ ~Held(d)
  /\ receiver' = NoConn
  /\ session' = [c \in Conns |->
                   IF c = conn THEN [session[c] EXCEPT !.socket = "closed"] ELSE session[c]]
  /\ down' = [down EXCEPT ![d] = [IdleDown EXCEPT !.pc = "close"]]
  /\ UNCHANGED <<control, timer, lastStatus, unpaired, stopped, conn, statusSub,
                 pairing, command, overrun, budget>>

Closed(d) ==
  /\ down[d].pc = "close"
  /\ conn' = NoConn
  /\ down' = [down EXCEPT ![d] = IdleDown]
  /\ pass' = [p \in Passes |-> IF pass[p].down = {d}
                               THEN [pc |-> "settings", down |-> {}] ELSE pass[p]]
  /\ UNCHANGED <<owner, syncing, resync, lost, timer, lastStatus, unpaired, stopped,
                 statusSub, receiver, session, pairing, command, overrun, budget>>

TeardownStep(d) == Cancel(d) \/ Disposed(d) \/ Closed(d)
-----------------------------------------------------------------------------
(* The rest of _syncOnce *)

LoadSettings(p) ==
  /\ pass[p].pc = "settings"
  /\ IF owner = p
     THEN /\ pass' = [pass EXCEPT ![p].pc = "prepare"]
          /\ UNCHANGED <<owner, syncing, resync, lost, down>>
     ELSE End(p, FALSE)
  /\ UNCHANGED <<fields, session, pairing, command, overrun, budget>>

(* The clipboard pause and the watchers, which span connections. *)
Prepare(p) ==
  /\ pass[p].pc = "prepare"
  /\ pass' = [pass EXCEPT ![p].pc = "pairing"]
  /\ UNCHANGED <<owner, syncing, resync, lost, down, fields, session, pairing, command,
                 overrun, budget>>

LoadNoPairing(p) ==
  /\ pass[p].pc = "pairing" /\ owner = p
  /\ pairing = NoPairing
  /\ unpaired' = TRUE /\ lastStatus' = "offline"
  /\ pass' = [pass EXCEPT ![p].pc = "publish"]
  /\ UNCHANGED <<owner, syncing, resync, lost, down, timer, stopped, conn, statusSub, receiver,
                 session, pairing, command, overrun, budget>>

OfflinePublished(p) ==
  /\ pass[p].pc = "publish"
  /\ End(p, FALSE)
  /\ UNCHANGED <<fields, session, pairing, command, overrun, budget>>

(* Connections nothing refers to any more can stand for a new one. *)
Unused == {c \in Conns : /\ session[c].socket \notin Open /\ ~session[c].busy
                         /\ c \notin {conn, statusSub, receiver}
                         /\ \A d \in Downs : down[d].target # c}

Build(c) ==
  /\ c \in Unused /\ \A x \in Unused : c <= x
  /\ session' = [session EXCEPT ![c] =
                   [NoSession EXCEPT !.socket = "connecting", !.pairing = pairing]]
  /\ conn' = c /\ statusSub' = c /\ receiver' = c
  /\ unpaired' = FALSE /\ lastStatus' = "searching"
  /\ overrun' = (overrun \/ \E d \in Downs : down[d].pc # "idle")

(* Mutant: the generation is not looked at after the pairing is loaded. *)
ConnectUnchecked(p) ==
  /\ pass[p].pc = "pairing"
  /\ pairing # NoPairing
  /\ \E c \in Conns : Build(c)
  /\ End(p, FALSE)
  /\ UNCHANGED <<timer, stopped, pairing, command, budget>>

(* Build the connection, listen to it and start it, all in one go. *)
Connect(p) ==
  /\ pass[p].pc = "pairing" /\ owner = p
  /\ pairing # NoPairing
  /\ \E c \in Conns : Build(c)
  /\ End(p, FALSE)
  /\ UNCHANGED <<timer, stopped, pairing, command, budget>>

AbandonedReturns(p) ==
  /\ pass[p].pc = "pairing" /\ owner # p
  /\ End(p, FALSE)
  /\ UNCHANGED <<fields, session, pairing, command, overrun, budget>>

(* Mutant: the next try is not scheduled. *)
TimesOutForGood(p) ==
  /\ Hangs(p)
  /\ Fault
  /\ End(p, FALSE)
  /\ UNCHANGED <<fields, session, pairing, command, overrun>>

(* An await runs into its bound.  The pass of the generation schedules the *)
(* next one; a pass asked for meanwhile starts at once.                    *)
TimesOut(p) ==
  /\ Hangs(p)
  /\ Fault
  /\ timer' = (timer \/ (owner = p /\ ~stopped))
  /\ End(p, FALSE)
  /\ UNCHANGED <<lastStatus, unpaired, stopped, conn, statusSub, receiver,
                 session, pairing, command, overrun>>

(* An await throws anything else.  Only a timeout is caught: the pass ends, *)
(* and a next one comes only if it was asked for meanwhile.  The steps of a *)
(* teardown guard themselves.                                               *)
Throws(p) ==
  /\ pass[p].pc \in Loading
  /\ Fault
  /\ End(p, TRUE)
  /\ UNCHANGED <<fields, session, pairing, command, overrun>>

PassStep(p) ==
  \/ LoadSettings(p) \/ Prepare(p) \/ LoadNoPairing(p) \/ OfflinePublished(p)
  \/ Connect(p) \/ AbandonedReturns(p)
-----------------------------------------------------------------------------
(* What a connection reports *)

(* Offline schedules the next pass, unless one is scheduled already. *)
Report(c, status) ==
  /\ Free
  /\ IF statusSub = c
     THEN /\ lastStatus' = status
          /\ timer' = (timer \/ (status = "offline" /\ ~stopped))
     ELSE UNCHANGED <<lastStatus, timer>>

Socket(c, socket) == session' = [session EXCEPT ![c].socket = socket]

AuthOk(c) ==
  /\ session[c].socket = "connecting"
  /\ Socket(c, "up") /\ Report(c, "connected")
  /\ UNCHANGED <<control, down, unpaired, stopped, conn, statusSub, receiver,
                 pairing, command, overrun, budget>>

Drop(c) ==
  /\ Fault
  /\ session[c].socket \in Open
  /\ Socket(c, "down") /\ Report(c, "offline")
  /\ UNCHANGED <<control, down, unpaired, stopped, conn, statusSub, receiver,
                 pairing, command, overrun>>

(* An error of the relay, or a message that cannot be trusted: the socket  *)
(* stays open until the teardown.                                          *)
Refuse(c) ==
  /\ Fault
  /\ session[c].socket \in {"connecting", "up"}
  /\ Socket(c, "refused") /\ Report(c, "offline")
  /\ UNCHANGED <<control, down, unpaired, stopped, conn, statusSub, receiver,
                 pairing, command, overrun>>

(* A file comes in; its hash and its publication outlive the connection.   *)
ReceiveBegins(c) ==
  /\ session[c].socket = "up" /\ ~session[c].disposed /\ ~session[c].busy
  /\ session' = [session EXCEPT ![c].busy = TRUE]
  /\ UNCHANGED <<control, down, fields, pairing, command, overrun, budget>>

ReceiveEnds(c) ==
  /\ session[c].busy
  /\ session' = [session EXCEPT ![c].busy = FALSE]
  /\ UNCHANGED <<control, down, fields, pairing, command, overrun, budget>>

(* stop: its teardown waits for no pass, and no pass looks at the flag. *)
Stop ==
  /\ ~stopped /\ stopped' = TRUE
  /\ IdleDowns # {}
  /\ down' = [down EXCEPT ![CHOOSE d \in IdleDowns : TRUE].pc = "begin"]
  /\ UNCHANGED <<control, timer, lastStatus, unpaired, conn, statusSub, receiver,
                 session, pairing, command, overrun, budget>>

Next ==
  \/ \E v \in Pairings \cup {NoPairing} : SavePairing(v)
  \/ SyncCommand \/ TimerFires
  \/ \E stalled \in BOOLEAN : ScreenOn(stalled) \/ NetworkAvailable(stalled)
  \/ WatchdogAbandons \/ WatchdogRevives
  \/ \E d \in Downs : TeardownStep(d)
  \/ \E p \in Passes : PassStep(p) \/ TimesOut(p) \/ Throws(p)
  \/ \E c \in Conns : AuthOk(c) \/ Drop(c) \/ Refuse(c) \/ ReceiveBegins(c) \/ ReceiveEnds(c)
  \/ Stop

Spec == Init /\ [][Next]_vars

(* Timers fire, awaits return or run into their bounds, messages of the UI *)
(* arrive.  The laptop answers a handshake sooner than the watchdog's next *)
(* minute is over, at least once when it is tried again and again.         *)
Fairness ==
  /\ WF_vars(SyncCommand) /\ WF_vars(TimerFires) /\ WF_vars(WatchdogRevives)
  /\ \A d \in Downs : WF_vars(TeardownStep(d))
  /\ \A p \in Passes : WF_vars(PassStep(p))
  /\ \A c \in Conns : SF_vars(~syncing /\ AuthOk(c)) /\ WF_vars(ReceiveEnds(c))

FairSpec == Spec /\ Fairness
-----------------------------------------------------------------------------
PassRecord ==
  [pc : {"idle", "teardown", "settings", "prepare", "pairing", "publish"},
   down : SUBSET Downs]
DownRecord ==
  [pc : {"idle", "begin", "dispose", "close"}, target : Conns \cup {NoConn},
   again : BOOLEAN]
SessionRecord ==
  [socket : {"none", "connecting", "up", "refused", "down", "closed"},
   pairing : Pairings \cup {NoPairing}, busy : BOOLEAN, disposed : BOOLEAN]

(* The fields have their types, and a connection that was built has the    *)
(* pairing it was built from.                                              *)
RelayTypeOK ==
  /\ pass \in [Passes -> PassRecord]
  /\ owner \in Passes \cup {NoPass}
  /\ syncing \in BOOLEAN /\ resync \in BOOLEAN
  /\ down \in [Downs -> DownRecord]
  /\ timer \in BOOLEAN /\ unpaired \in BOOLEAN /\ stopped \in BOOLEAN /\ command \in BOOLEAN
  /\ lost \in BOOLEAN /\ overrun \in BOOLEAN
  /\ lastStatus \in {"offline", "searching", "connected"}
  /\ conn \in Conns \cup {NoConn}
  /\ statusSub \in Conns \cup {NoConn}
  /\ receiver \in Conns \cup {NoConn}
  /\ session \in [Conns -> SessionRecord]
  /\ \A c \in Conns : session[c].socket # "none" => session[c].pairing # NoPairing
  /\ pairing \in Pairings \cup {NoPairing}
  /\ faults \in 0..MaxFaults /\ asks \in 0..MaxAsks

(* No socket outlives the connection the controller knows of, whatever was *)
(* given up, and when: until a connection is built while a teardown that   *)
(* outlasted its pass still runs, and then closes or forgets what it finds. *)
OneOpenConnection ==
  ~stopped /\ ~overrun => \A c \in Conns : session[c].socket \in Open => c = conn

(* "Connected" is shown only while it is true, or while something is       *)
(* already on its way to mend it: a stale one would silence the screen,    *)
(* the network and the watchdog alike.  The passes that leave one behind   *)
(* are those that end with neither a timer nor a pass after them: thrown   *)
(* out of by anything but a timeout, or given up by the screen or the      *)
(* network while the old status still said connected.                      *)
ReportedIsLive ==
  ~stopped /\ ~overrun /\ lastStatus = "connected" /\ ~syncing /\ ~timer /\ ~command =>
    \/ lost
    \/ conn # NoConn /\ statusSub = conn /\ session[conn].socket = "up"

(* A pass that was abandoned never puts its connection in place.           *)
AbandonedBuildsNothing ==
  [][conn' \notin {conn, NoConn} =>
       \E p \in Passes : pass[p].pc = "pairing" /\ owner = p /\ pass'[p] # pass[p]]_vars

(* The watchdog does not look: nothing but a new event starts a pass.      *)
Silenced == lost /\ (lastStatus = "connected" \/ unpaired)

(* Once faults and requests end, the phone is connected with the newest    *)
(* pairing, and offline without one: no request for a pass gets lost, and  *)
(* what was given up is taken up again.  It stays where it is only when the *)
(* last pass was lost behind a status the watchdog leaves alone, or when a *)
(* teardown ran on past the building of a connection.                      *)
SettlesOnNewestPairing ==
  <>[](\/ stopped \/ overrun \/ Silenced
       \/ pairing = NoPairing /\ conn = NoConn /\ lastStatus = "offline"
       \/ /\ conn # NoConn /\ session[conn].socket = "up"
          /\ session[conn].pairing = pairing /\ lastStatus = "connected")

(* Screen-on reconnects at once if the phone is not connected, as its      *)
(* comment says.                                                           *)
ScreenOnReconnects ==
  [][(\E stalled \in BOOLEAN : ScreenOn(stalled)) /\ conn = NoConn => syncing']_vars

(* The late completions of a pass that was retired are no-ops, as the      *)
(* comment on retiring it says: a connection is closed only by a teardown  *)
(* that began after it was built.                                          *)
LateCompletionsAreNoOps ==
  [][\A c \in Conns : session[c].socket \in Open /\ session'[c].socket = "closed" =>
       stopped \/ session[c].disposed]_vars
=============================================================================
