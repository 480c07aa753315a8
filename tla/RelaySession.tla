----------------------------- MODULE RelaySession -----------------------------
(***************************************************************************)
(* The sessions between a phone and the Relay: the Relay's sockets         *)
(* (src/relay/relay), the handshake that proves the pairing secret both    *)
(* ways and the sealed control messages that follow it                     *)
(* (src/shared/session-seal, src/relay/auth), and the phone's end          *)
(* (app/lib/src/shared/relay_connection).  The secret rotates meanwhile,   *)
(* connections break without either side being told, the heartbeat reaps   *)
(* what is left of them, and the coordinator hears who is there.           *)
(***************************************************************************)
EXTENDS RelaySettings, Sequences

CONSTANTS
  MaxConns,    \* bound: the phone's connections, one after the other
  Patience,    \* heartbeats a silent socket survives
  MaxTalk      \* bound: messages sent on a connection, each way

ASSUME SessionAssumption ==
  Patience \in Nat \ {0} /\ MaxConns \in Nat /\ MaxTalk \in Nat

Conns == 1..MaxConns

VARIABLES
  socket,      \* the Relay's end of each connection
  end,         \* the phone's end of each connection
  link,        \* "none", "up", or "cut": bytes no longer arrive
  toPhone, toRelay,
  phoneSecret, \* the secret the phone has scanned
  told,        \* what the coordinator was last told of the phone
  dropped,     \* connections on which a message of the Relay was dropped
  retired      \* secrets a successful rotation has replaced

session == <<socket, end, link, toPhone, toRelay, phoneSecret, told, dropped, retired>>
everything == <<settings, session>>

Sealer(key) == [key |-> key, sent |-> 0, received |-> 0]
NoSeal == Sealer(0)    \* no key is 0
NewSocket == [state |-> "new", authenticated |-> FALSE, checking |-> 0, secret |-> 0,
              seal |-> NoSeal, said |-> 0, idle |-> 0, why |-> "none"]
NewEnd == [state |-> "new", seal |-> NoSeal, said |-> 0, why |-> "none"]

SessionInit ==
  /\ SettingsInit
  /\ socket = [c \in Conns |-> NewSocket]
  /\ end = [c \in Conns |-> NewEnd]
  /\ link = [c \in Conns |-> "none"]
  /\ toPhone = [c \in Conns |-> <<>>] /\ toRelay = [c \in Conns |-> <<>>]
  /\ phoneSecret = 0 /\ told = "none" /\ dropped = {} /\ retired = {}

Devices == {c \in Conns : socket[c].state = "open"}
Authenticated == {c \in Devices : socket[c].authenticated}
-----------------------------------------------------------------------------
(* SessionSealer *)

Plain(kind) == [kind |-> kind, key |-> 0, n |-> 0]
Keyed(kind, key) == [kind |-> kind, key |-> key, n |-> 0]

(* Messages that carry their own encryption. *)
TravelsUnsealed(kind) == kind \in {"publish", "payload"}

Sealed(seal, kind) ==
  IF seal.key = 0 \/ TravelsUnsealed(kind) THEN Plain(kind)
  ELSE [kind |-> "sealed", key |-> seal.key, n |-> seal.sent]

AfterSeal(seal, kind) ==
  IF seal.key = 0 \/ TravelsUnsealed(kind) THEN seal ELSE [seal EXCEPT !.sent = @ + 1]

Opens(seal, m) == m.key = seal.key /\ m.n = seal.received

(* verifyPairingProof and verifyRelayProof: a proof made with one secret    *)
(* holds for that secret only.                                             *)
ProofHolds(s) == s.secret = s.checking
RelayProofHolds(m) == m.key = phoneSecret

(* What a side makes of the message it takes, as the code it ends with.    *)
Verdict(seal, m) ==
  IF seal.key = 0 \/ TravelsUnsealed(m.kind) THEN "fine"
  ELSE IF m.kind # "sealed" THEN "seal_required"
  ELSE IF Opens(seal, m) THEN "fine" ELSE "seal_failed"

AfterOpen(seal, m) ==
  IF m.kind = "sealed" THEN [seal EXCEPT !.received = @ + 1] ELSE seal
-----------------------------------------------------------------------------
(* The Relay's sockets *)

(* Mutant: a socket's close is reported whatever else is open. *)
NotifyEachClose(gone) ==
  told' = IF \E c \in gone : socket[c].authenticated THEN "gone" ELSE told

(* notifyDeviceDisconnected, for sockets that leave devices: silent for    *)
(* one that never authenticated, and while another of the device is there. *)
NotifyDeviceDisconnected(gone) ==
  told' = IF /\ \E c \in gone : socket[c].authenticated
             /\ Authenticated \subseteq gone
          THEN "gone" ELSE told

(* What a socket held is of no use once it is closed, but for a check that *)
(* is under way.                                                           *)
Closed(c) ==
  [NewSocket EXCEPT !.state = "closed", !.checking = socket[c].checking,
                    !.secret = IF socket[c].checking = 0 THEN 0 ELSE socket[c].secret]

(* socket.close and terminate: devices loses the sockets, and the device   *)
(* is reported.                                                            *)
Close(gone, why) ==
  /\ socket' = [c \in Conns |->
                  IF c \in gone THEN [Closed(c) EXCEPT !.why = why] ELSE socket[c]]
  /\ toRelay' = [c \in Conns |-> IF c \in gone THEN <<>> ELSE toRelay[c]]
  /\ NotifyDeviceDisconnected(gone)

OnRelay == up /\ UNCHANGED <<settings, end, link, phoneSecret, retired>>

Message(c) == c \in Devices /\ link[c] = "up" /\ toRelay[c] # <<>>
Take(c) == toRelay' = [toRelay EXCEPT ![c] = Tail(@)]

(* A phone, or something else, connects: open greets it. *)
Open(c) ==
  /\ up /\ phoneSecret # 0
  /\ socket[c].state = "new"
  /\ \A d \in Conns : end[d].state # "open" /\ (d < c => end[d].state = "closed")
  /\ socket' = [socket EXCEPT ![c].state = "open"]
  /\ end' = [end EXCEPT ![c].state = "open"]
  /\ link' = [link EXCEPT ![c] = "up"]
  /\ toPhone' = [toPhone EXCEPT ![c] = <<Plain("hello")>>]
  /\ UNCHANGED <<settings, toRelay, phoneSecret, told, dropped, retired>>

(* message on a socket that is not authenticated, for auth: the proof is    *)
(* checked against the secret of now, and the check is awaited.            *)
CheckProof(c) ==
  /\ Message(c) /\ c \notin Authenticated
  /\ Head(toRelay[c]).kind = "auth"
  /\ Take(c)
  /\ socket' = [socket EXCEPT ![c] =
       [@ EXCEPT !.idle = 0, !.checking = value, !.secret = Head(toRelay[c]).key]]
  /\ UNCHANGED <<toPhone, told, dropped>> /\ OnRelay

(* What the Relay sends arrives in order, as long as the link is there.    *)
(* send does not look whether the socket took it: one whose buffer is full *)
(* drops the message, and its counter has moved on (Receive, Broadcast).   *)
Post(c, messages) ==
  toPhone' = [toPhone EXCEPT ![c] =
    IF link[c] = "up" /\ end[c].state = "open" /\ socket[c].state = "open"
    THEN @ \o messages ELSE @]

ProofRejected(c) ==
  /\ IF c \in Devices
     THEN /\ socket' = [socket EXCEPT ![c] = [NewSocket EXCEPT !.state = "closed"]]
          /\ toRelay' = [toRelay EXCEPT ![c] = <<>>]
     ELSE /\ socket' = [socket EXCEPT ![c] = [@ EXCEPT !.checking = 0, !.secret = 0]]
          /\ UNCHANGED toRelay
  /\ UNCHANGED <<toPhone, told>>

(* Mutant: the keys are derived from the secret of now. *)
AuthenticateAnew(c) ==
  LET s == socket[c]
  IN  /\ s.checking # 0
      /\ IF ~ProofHolds(s) THEN ProofRejected(c)
         ELSE /\ socket' = [socket EXCEPT ![c] =
                              IF s.state = "open"
                              THEN [s EXCEPT !.checking = 0, !.authenticated = TRUE,
                                             !.seal = Sealer(value)]
                              ELSE [s EXCEPT !.checking = 0, !.secret = 0]]
              /\ Post(c, <<Keyed("auth_ok", value), Plain("payload")>>)
              /\ told' = "here"
              /\ UNCHANGED toRelay
      /\ UNCHANGED dropped /\ OnRelay

(* The rest of authenticate.  It does not look whether the socket is still *)
(* open: one closed meanwhile is reported as connected all the same.       *)
Authenticate(c) ==
  LET s == socket[c]
  IN  /\ s.checking # 0
      /\ IF ~ProofHolds(s) THEN ProofRejected(c)
         ELSE /\ socket' = [socket EXCEPT ![c] =
                              IF s.state = "open"
                              THEN [s EXCEPT !.checking = 0, !.authenticated = TRUE,
                                             !.seal = Sealer(s.checking)]
                              ELSE [s EXCEPT !.checking = 0, !.secret = 0]]
              /\ Post(c, <<Keyed("auth_ok", s.checking), Plain("payload")>>)
              /\ told' = "here"
              /\ UNCHANGED toRelay
      /\ UNCHANGED dropped /\ OnRelay

(* Mutant: the timer is not set. *)
NeverTimesOut(c) == FALSE /\ UNCHANGED everything

(* The timer set in open. *)
AuthTimeout(c) ==
  /\ c \in Devices \ Authenticated
  /\ Close({c}, "none")
  /\ UNCHANGED <<toPhone, dropped>> /\ OnRelay

(* message on an authenticated socket.  A published payload is             *)
(* acknowledged; browse results and errors are answers like that one.      *)
Receive(c) ==
  LET m == Head(toRelay[c])
      opened == AfterOpen(socket[c].seal, m)
      verdict == Verdict(socket[c].seal, m)
  IN  /\ Message(c) /\ c \in Authenticated
      /\ IF verdict # "fine" THEN Close({c}, verdict) /\ UNCHANGED <<toPhone, dropped>>
         ELSE /\ Take(c)
              /\ IF m.kind = "publish"
                 THEN /\ socket' = [socket EXCEPT ![c] =
                                      [@ EXCEPT !.idle = 0, !.seal = AfterSeal(opened, "ack")]]
                      /\ \/ Post(c, <<Sealed(opened, "ack")>>) /\ UNCHANGED dropped
                         \/ dropped' = dropped \cup {c} /\ UNCHANGED toPhone
                 ELSE /\ socket' = [socket EXCEPT ![c] = [@ EXCEPT !.idle = 0, !.seal = opened]]
                      /\ UNCHANGED <<toPhone, dropped>>
              /\ UNCHANGED told
      /\ OnRelay

(* broadcast, of a control or the health, to every authenticated socket.   *)
Broadcast(kind) ==
  /\ Authenticated # {}
  /\ \A c \in Authenticated : socket[c].said < MaxTalk
  /\ socket' = [c \in Conns |->
       IF c \in Authenticated
       THEN [socket[c] EXCEPT !.seal = AfterSeal(@, kind), !.said = @ + 1] ELSE socket[c]]
  /\ \E lost \in SUBSET Authenticated :
       /\ toPhone' = [c \in Conns |->
            IF c \in Authenticated \ lost /\ link[c] = "up" /\ end[c].state = "open"
            THEN Append(toPhone[c], Sealed(socket[c].seal, kind)) ELSE toPhone[c]]
       /\ dropped' = dropped \cup lost
  /\ UNCHANGED <<toRelay, told>> /\ OnRelay

(* close: the phone's close arrives. *)
CloseArrives(c) ==
  /\ c \in Devices /\ link[c] = "up" /\ end[c].state = "closed"
  /\ Close({c}, "none")
  /\ UNCHANGED <<toPhone, dropped>> /\ OnRelay

(* pong and ping: the phone's platform answers while the link is up. *)
Pong(c) ==
  /\ c \in Devices /\ link[c] = "up" /\ end[c].state = "open"
  /\ socket[c].idle > 0
  /\ socket' = [socket EXCEPT ![c].idle = 0]
  /\ UNCHANGED <<toPhone, toRelay, told, dropped>> /\ OnRelay

(* The heartbeat: sockets silent for too long are reaped, and pinged else. *)
Heartbeat ==
  LET stale == {c \in Devices : socket[c].idle >= Patience}
  IN  /\ Devices # {}
      /\ socket' = [c \in Conns |-> IF c \in stale THEN Closed(c)
                                    ELSE IF c \in Devices
                                    THEN [socket[c] EXCEPT !.idle = @ + 1] ELSE socket[c]]
      /\ toRelay' = [c \in Conns |-> IF c \in stale THEN <<>> ELSE toRelay[c]]
      /\ NotifyDeviceDisconnected(stale)
      /\ UNCHANGED <<toPhone, dropped>> /\ OnRelay

(* Mutant: only sockets that have authenticated are closed. *)
KickAuthenticated ==
  /\ Rotated
  /\ Close(Authenticated, "none")
  /\ retired' = retired \cup {request["rotate"].previous}
  /\ UNCHANGED <<end, link, toPhone, phoneSecret, dropped>>

(* kickDevices, once the rotation is saved. *)
KickDevices ==
  /\ Rotated
  /\ Close(Devices, "none")
  /\ retired' = retired \cup {request["rotate"].previous}
  /\ UNCHANGED <<end, link, toPhone, phoneSecret, dropped>>
-----------------------------------------------------------------------------
(* The phone's end: one message at a time *)

OnPhone == UNCHANGED <<settings, socket, link, told, dropped, retired>>

Answer(c, kind) ==
  /\ end[c].state = "open" /\ link[c] = "up"
  /\ toPhone[c] # <<>> /\ Head(toPhone[c]).kind = kind
  /\ toPhone' = [toPhone EXCEPT ![c] = Tail(@)]

ToRelay(c, message) ==
  toRelay' = [toRelay EXCEPT ![c] =
    IF link[c] = "up" /\ socket[c].state = "open" THEN Append(@, message) ELSE @]

HandleHello(c) ==
  /\ Answer(c, "hello")
  /\ ToRelay(c, Keyed("auth", phoneSecret))
  /\ UNCHANGED <<end, phoneSecret>> /\ OnPhone

Refuse(c, why) == end' = [end EXCEPT ![c] = [NewEnd EXCEPT !.state = "closed", !.why = why]]

(* _verifyRelay: the Relay has to prove the secret, too. *)
HandleAuthOk(c) ==
  LET m == Head(toPhone[c])
  IN  /\ Answer(c, "auth_ok")
      /\ IF RelayProofHolds(m) THEN end' = [end EXCEPT ![c].seal = Sealer(m.key)]
         ELSE Refuse(c, "relay_unverified")
      /\ UNCHANGED <<toRelay, phoneSecret>> /\ OnPhone

HandleMessage(c) ==
  LET m == Head(toPhone[c])
      verdict == Verdict(end[c].seal, m)
  IN  /\ Answer(c, m.kind) /\ m.kind \notin {"hello", "auth_ok"}
      /\ IF verdict = "fine" THEN end' = [end EXCEPT ![c].seal = AfterOpen(@, m)]
         ELSE Refuse(c, verdict)
      /\ UNCHANGED <<toRelay, phoneSecret>> /\ OnPhone

(* A control or a payload of the phone's, sent in order. *)
PhoneSends(c, kind) ==
  LET e == end[c]
  IN  /\ e.state = "open" /\ e.seal.key # 0
      /\ e.said < MaxTalk
      /\ end' = [end EXCEPT ![c] =
                   [e EXCEPT !.seal = AfterSeal(e.seal, kind), !.said = e.said + 1]]
      /\ ToRelay(c, Sealed(e.seal, kind))
      /\ UNCHANGED <<toPhone, phoneSecret>> /\ OnPhone

(* The close arrives, the phone's own keep-alive runs out, or the          *)
(* controller takes the connection down.                                   *)
PhoneCloses(c) ==
  /\ end[c].state = "open"
  /\ Refuse(c, "none")
  /\ toPhone' = [toPhone EXCEPT ![c] = <<>>]
  /\ UNCHANGED <<toRelay, phoneSecret>> /\ OnPhone

(* The user scans the code the Relay shows; the connection starts over. *)
Pair ==
  /\ up /\ phoneSecret # value
  /\ phoneSecret' = value
  /\ end' = [c \in Conns |-> IF end[c].state = "open"
                             THEN [NewEnd EXCEPT !.state = "closed"] ELSE end[c]]
  /\ toPhone' = [c \in Conns |-> <<>>]
  /\ UNCHANGED toRelay /\ OnPhone

(* The network breaks: what is under way is lost and nobody is told. *)
Cut(c) ==
  /\ c \in Devices /\ link[c] = "up"
  /\ link' = [link EXCEPT ![c] = "cut"]
  /\ toPhone' = [toPhone EXCEPT ![c] = <<>>] /\ toRelay' = [toRelay EXCEPT ![c] = <<>>]
  /\ UNCHANGED <<settings, socket, end, phoneSecret, told, dropped, retired>>

(* The Relay stops: its sockets go, and what it was told. *)
RelayStops ==
  /\ Stop
  /\ socket' = [c \in Conns |-> [NewSocket EXCEPT !.state =
                  IF socket[c].state = "new" THEN "new" ELSE "closed"]]
  /\ toRelay' = [c \in Conns |-> <<>>]
  /\ told' = "none"
  /\ UNCHANGED <<end, link, toPhone, phoneSecret, dropped, retired>>

OtherSettings ==
  /\ \/ Start \/ Rotate \/ SettingsStep
     \/ \E k \in Kinds : WriteFails(k)
  /\ UNCHANGED session

RelayStep(c) ==
  CheckProof(c) \/ Authenticate(c) \/ AuthTimeout(c) \/ Receive(c)
    \/ CloseArrives(c) \/ Pong(c)

PhoneStep(c) ==
  \/ HandleHello(c) \/ HandleAuthOk(c) \/ HandleMessage(c) \/ PhoneCloses(c)
  \/ \E kind \in {"control", "publish"} : PhoneSends(c, kind)

SessionNext ==
  \/ \E c \in Conns : Open(c) \/ RelayStep(c) \/ PhoneStep(c) \/ Cut(c)
  \/ Broadcast("control")
  \/ Heartbeat \/ KickDevices \/ Pair
  \/ RelayStops \/ OtherSettings

SessionSpec == SessionInit /\ [][SessionNext]_everything

(* The Relay's timers run, its checks end, and a close arrives. *)
FairSessionSpec ==
  /\ SessionSpec
  /\ \A c \in Conns : /\ WF_everything(Authenticate(c)) /\ WF_everything(AuthTimeout(c))
                      /\ WF_everything(CloseArrives(c))
  /\ WF_everything(Heartbeat)
-----------------------------------------------------------------------------
(* The ends, the links and what travels have the shape they have. *)
SessionTypeOK ==
  /\ SettingsTypeOK
  /\ \A c \in Conns : /\ socket[c].state \in {"new", "open", "closed"}
                      /\ end[c].state \in {"new", "open", "closed"}
  /\ link \in [Conns -> {"none", "up", "cut"}]
  /\ told \in {"none", "here", "gone"}
  /\ phoneSecret \in Nat /\ retired \subseteq Nat /\ dropped \subseteq Conns

(* A session of a phone and its Relay is never refused as forged: both     *)
(* sides count the same sealed messages and derive the same key, however   *)
(* the secret rotates during the handshake and messages cross.  The Relay   *)
(* never refuses the phone; the phone refuses only what comes after a      *)
(* message that the Relay's socket dropped.                                *)
HonestSessionsHold ==
  \A c \in Conns :
    /\ socket[c].why \notin {"seal_failed", "seal_required"}
    /\ end[c].why \notin {"seal_required", "relay_unverified"}
    /\ end[c].why = "seal_failed" => c \in dropped

(* Once a rotation has succeeded no open socket stands on the secret it    *)
(* replaced, not even one whose proof was being checked.                   *)
ReplacedSecretIsOut == \A c \in Authenticated : socket[c].secret \notin retired

(* It is so through every change of the folders, failed write and restart  *)
(* meanwhile, unless a rotation ever began before the write of a change of *)
(* the folders that holds the secret of then.                              *)
RetiredSecretIsOut == ~crossed => ReplacedSecretIsOut

(* After the coordinator was told that the phone is gone, no socket of it  *)
(* is authenticated until it is told the contrary.                         *)
GoneIsGone == told = "gone" => Authenticated = {}

(* A socket stays in devices only while it is authenticated and its phone  *)
(* is there: what never proves the secret, and what is left of a lost      *)
(* connection, goes in the end.                                            *)
OnlyLiveSocketsStay ==
  \A c \in Conns :
    []<>(c \in Devices => /\ socket[c].authenticated
                          /\ link[c] = "up" /\ end[c].state = "open")
=============================================================================
