---------------------------- MODULE RelaySettings ----------------------------
(***************************************************************************)
(* The Relay's settings while it runs: the pairing secret and the shared   *)
(* folders, changed over the control plane (src/relay/control-plane,       *)
(* shared-folders), kept in one file (src/relay/config) and wired together *)
(* in src/relay/cli.  A request changes memory, waits for its write of the *)
(* file and then takes effect, or takes its change back; two requests may  *)
(* be under way at once, and a write is not atomic.                        *)
(***************************************************************************)
EXTENDS Naturals

CONSTANTS
  Folders,      \* the folders that can be shared
  MayOverlap,   \* bound: whether two requests can be under way at once
  MaxRequests,  \* bound: requests
  MaxFaults     \* bound: failed writes and stops of the process

ASSUME SettingsAssumption == Folders # {} /\ MayOverlap \in BOOLEAN /\ {MaxRequests, MaxFaults} \subseteq Nat

VARIABLES
  value,     \* the secret in use: pairingSecret.value
  config,    \* cli.ts's config, which the writes take their content from
  folders,   \* the folders served: SharedFolders.folders, LaptopBrowser.folders
  file,      \* relay.json
  request,   \* the request of each kind that is under way
  issued,    \* secrets created so far
  up,        \* the process runs
  mixed,     \* writes overlapped, or one failed or was cut short
  crossed,   \* a rotation began while a change of the folders was to be written
  requests, faults

settings == <<value, config, folders, file, request, issued, up, mixed, crossed, requests, faults>>

Kinds == {"rotate", "folders"}
Content == [secret : Nat, folders : SUBSET Folders]
NoFile == [secret |-> 0, folders |-> {}]       \* no secret is 0
Torn == [secret |-> 0, folders |-> Folders]    \* cut short or mixed: not JSON
Idle == [pc |-> "idle", previous |-> 0, next |-> {}, content |-> Torn]

SettingsInit ==
  /\ value = 0 /\ issued = 0
  /\ config = [secret |-> 0, folders |-> {}] /\ folders = {}
  /\ file = NoFile
  /\ request = [k \in Kinds |-> Idle]
  /\ up = FALSE /\ mixed = FALSE /\ crossed = FALSE
  /\ requests = 0 /\ faults = 0

Fault == faults < MaxFaults /\ faults' = faults + 1 /\ UNCHANGED requests

(* createPairingSecret: a secret nobody has seen before. *)
NewSecret == issued + 1

Busy == \E k \in Kinds : request[k].pc # "idle"
Counted ==
  /\ Busy => MayOverlap
  /\ requests < MaxRequests
  /\ requests' = requests + 1
  /\ UNCHANGED faults

(* The copy of config that a change of the folders writes is made when it   *)
(* begins: a rotation that comes before it is written is not in it.        *)
BeginsRotation ==
  crossed' = (crossed \/ request["folders"].pc \in {"called", "opened"})
-----------------------------------------------------------------------------
(* loadOrCreateRelayConfig: the file is read, or made with a new secret and *)
(* the default folders.  One that is not JSON stops the start.             *)
Start ==
  /\ ~up /\ file # Torn
  /\ up' = TRUE
  /\ issued' = IF file = NoFile THEN NewSecret ELSE issued
  /\ config' = IF file = NoFile THEN [secret |-> issued', folders |-> Folders] ELSE file
  /\ file' = config'
  /\ value' = config'.secret /\ folders' = config'.folders
  /\ mixed' = FALSE
  /\ UNCHANGED <<request, crossed, requests, faults>>

(* rotatePairingSecret up to the await of persistPairingSecret, which sets *)
(* config.pairingSecret and starts the write.                              *)
Rotate ==
  /\ up /\ request["rotate"].pc = "idle"
  /\ Counted
  /\ issued' = NewSecret
  /\ value' = issued'
  /\ config' = [config EXCEPT !.secret = issued']
  /\ request' = [request EXCEPT !["rotate"] = [Idle EXCEPT !.pc = "called", !.previous = value]]
  /\ mixed' = (mixed \/ Busy) /\ BeginsRotation
  /\ UNCHANGED <<folders, file, up>>

(* SharedFolders.add takes a folder that is not shared, remove one that is; *)
(* anything else is refused and changes nothing.                           *)
AddedOrRemoved(f) == IF f \in folders THEN folders \ {f} ELSE folders \cup {f}

(* changeSharedFolders up to the await of persist: the write gets a copy   *)
(* of config as it is now.                                                 *)
ChangeFolders ==
  /\ up /\ request["folders"].pc = "idle"
  /\ Counted
  /\ \E f \in Folders :
       LET next == AddedOrRemoved(f)
       IN  request' = [request EXCEPT !["folders"] =
             [Idle EXCEPT !.pc = "called", !.next = next,
                          !.content = [config EXCEPT !.folders = next]]]
  /\ mixed' = (mixed \/ Busy)
  /\ UNCHANGED <<value, config, folders, file, issued, up, crossed>>

(* writeRelayConfig after its mkdir: writeFile gets its text and truncates *)
(* the file.  A rotation hands over config itself, read only now.          *)
OpenFile(k) ==
  /\ request[k].pc = "called"
  /\ LET text == IF k = "rotate" THEN config ELSE request[k].content
     IN  request' = [request EXCEPT ![k] = [@ EXCEPT !.pc = "opened", !.content = text]]
  /\ file' = Torn
  /\ UNCHANGED <<value, config, folders, issued, up, mixed, crossed, requests, faults>>

(* The text is written over what another write has put there since: a      *)
(* longer one shows through at the end.                                    *)
WriteFile(k) ==
  /\ request[k].pc = "opened"
  /\ file' \in {request[k].content} \cup (IF file # Torn THEN {Torn} ELSE {})
  /\ request' = [request EXCEPT ![k].pc = "written"]
  /\ UNCHANGED <<value, config, folders, issued, up, mixed, crossed, requests, faults>>

(* The rotation took effect; the caller closes every socket. *)
Rotated ==
  /\ request["rotate"].pc = "written"
  /\ request' = [request EXCEPT !["rotate"] = Idle]
  /\ UNCHANGED <<value, config, folders, file, issued, up, mixed, crossed, requests, faults>>

(* apply and the answer, once the folders are saved. *)
FoldersChanged ==
  LET next == request["folders"].next
  IN  /\ request["folders"].pc = "written"
      /\ config' = [config EXCEPT !.folders = next]
      /\ folders' = next
      /\ request' = [request EXCEPT !["folders"] = Idle]
      /\ UNCHANGED <<value, file, issued, up, mixed, crossed, requests, faults>>

(* The file cannot be opened, the disk is full, or chmod fails once the     *)
(* text is there.  A rotation takes the secret in use back, but not that   *)
(* of config, nor what the file holds by then.                             *)
WriteFails(k) ==
  /\ request[k].pc \in {"called", "opened", "written"}
  /\ Fault
  /\ value' = IF k = "rotate" THEN request[k].previous ELSE value
  /\ request' = [request EXCEPT ![k] = Idle]
  /\ mixed' = (mixed \/ k = "rotate" \/ request[k].pc \in {"opened", "written"})
  /\ UNCHANGED <<config, folders, file, issued, up, crossed>>

(* The process stops, with its requests. *)
Stop ==
  /\ up
  /\ Fault
  /\ up' = FALSE
  /\ request' = [k \in Kinds |-> Idle]
  /\ UNCHANGED <<value, config, folders, file, issued, mixed, crossed>>

SettingsStep ==
  \/ ChangeFolders \/ FoldersChanged
  \/ \E k \in Kinds : OpenFile(k) \/ WriteFile(k)

SettingsNext ==
  \/ Start \/ Rotate \/ Rotated \/ Stop \/ SettingsStep
  \/ \E k \in Kinds : WriteFails(k)

SettingsSpec == SettingsInit /\ [][SettingsNext]_settings
-----------------------------------------------------------------------------
(* The settings have the shape they have. *)
SettingsTypeOK ==
  /\ value \in Nat /\ issued \in Nat /\ requests \in Nat
  /\ config \in Content /\ folders \in SUBSET Folders
  /\ file \in Content
  /\ request \in [Kinds -> [pc : {"idle", "called", "opened", "written"}, previous : Nat,
                            next : SUBSET Folders, content : Content]]

(* Once no request is under way, what the Relay runs with is what its next *)
(* start will find, whatever was changed, refused and restarted before,    *)
(* but for writes that overlapped, failed or were cut short since it       *)
(* started.                                                                *)
SettledIsSaved ==
  up /\ ~Busy /\ ~mixed => file = [secret |-> value, folders |-> folders]

(* What README.md says of a restart: the secret the Relay runs with is the  *)
(* one its next start finds, but for a file that is not readable.          *)
SecretIsKept == up /\ ~Busy => file.secret \in {value, 0}
=============================================================================
