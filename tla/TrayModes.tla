------------------------------- MODULE TrayModes -------------------------------
(***************************************************************************)
(* Switching modes from the tray or its command line (src/app/             *)
(* tray_main.cpp): a client unmaps or maps the network drive of the user's *)
(* session, has the service (ServiceHost) move the cache volume and apply  *)
(* the mode, and saves the mode once more.                                 *)
(*                                                                         *)
(* The tray and a command run beside it are two clients of one service,    *)
(* one drive mapping and one config file, and nothing keeps them apart.    *)
(***************************************************************************)
EXTENDS ServiceHost

CONSTANTS
  Clients,       \* processes that switch modes: the tray, and commands
  MaxRequests    \* bound: modes requested and settings saved by the user

ASSUME RequestsAssumption == MaxRequests \in Nat

VARIABLES
  tray,       \* where each client is in switching modes, see Places
  want,       \* the mode it requested
  trayConfig, \* the configuration it loaded last, with that mode
  net,        \* the source share is mapped to "N" in the user's session
  requests,   \* modes requested and settings saved so far
  told,       \* history: the last success reported, of a switch no other overlapped;
              \* or the client making one
  contended,  \* history: a half-saved file was loaded, to be saved again, or the
              \* user saved between a program's load and its save
  crossed,    \* history: a mode was sent while another client had yet to save its own
  undriven,   \* history: the switch of "told" could not map or unmap the drive
  edits       \* the version of the settings the user saved last

clientVars == <<tray, want, trayConfig>>
ghostVars  == <<told, contended, crossed, undriven>>
trayVars   == <<clientVars, net, requests, ghostVars, edits>>
vars       == <<hostVars, trayVars>>

Places == {"idle", "load", "send", "sent", "map", "persist", "truncate", "write"}
Report == [mode : Modes, switched : BOOLEAN]

(* A client is told from None and from what is reported. *)
ASSUME ClientsAssumption ==
  /\ None \notin Clients /\ None \notin Report
  /\ Clients \cap Report = {}

TrayInit ==
  /\ Init
  /\ tray = [c \in Clients |-> "idle"]
  /\ want = [c \in Clients |-> None]
  /\ trayConfig = [c \in Clients |-> None]
  /\ net \in BOOLEAN /\ (net => mount["N"] = None) /\ (file.mode = "monitor" => net)
  /\ requests = 0
  /\ told = None /\ contended = FALSE /\ crossed = FALSE /\ undriven = FALSE
  /\ edits = 1

-----------------------------------------------------------------------------

(* infer_current_mode, for a config without a mode. *)
Inferred ==
  CASE net /\ Sourced(file) -> "monitor"
    [] ~net /\ mount["N"] # None /\ mount["K"] = None -> "serve"
    [] OTHER -> "disabled"

CurrentMode == IF file.mode = None THEN Inferred ELSE file.mode

Move(c, from, to) == tray[c] = from /\ tray' = [tray EXCEPT ![c] = to]

Others(c) == Clients \ {c}
Alone(c) == target = None /\ \A d \in Others(c) : tray[d] = "idle"
Quiet == ctl = "idle" /\ \A c \in Clients : tray[c] = "idle"

(* The mode is the current one already: nothing is done. *)
RequestActive(c, mode) ==
  /\ tray[c] = "idle" /\ requests < MaxRequests /\ mode = CurrentMode
  /\ requests' = requests + 1
  /\ told' = IF Alone(c) THEN [mode |-> mode, switched |-> FALSE] ELSE None
  /\ UNCHANGED <<hostVars, clientVars, net, contended, crossed, undriven, edits>>

Request(c, mode) ==
  /\ requests < MaxRequests /\ mode # CurrentMode
  /\ Move(c, "idle", "load")
  /\ want' = [want EXCEPT ![c] = mode]
  /\ requests' = requests + 1 /\ told' = IF Alone(c) THEN c ELSE None
  /\ undriven' = FALSE
  /\ UNCHANGED <<hostVars, trayConfig, net, contended, crossed, edits>>

LoadConfig(c) ==
  /\ Move(c, "load", "send")
  /\ trayConfig' = [trayConfig EXCEPT ![c] = [file EXCEPT !.mode = want[c]]]
  /\ UNCHANGED <<hostVars, want, requests, told, contended, crossed, edits>>

(* Fault: the network drive stays where it is. *)
FaultyPrepare(c) == LoadConfig(c) /\ UNCHANGED <<net, undriven>>

(* Serve mode unmaps the network drive before anything else ... *)
Prepare(c) ==
  /\ LoadConfig(c)
  /\ net' = (net /\ want[c] # "serve") /\ UNCHANGED undriven

(* ... and does not look whether it could. *)
UnmapFails(c) ==
  /\ "net" \in Failures /\ net /\ want[c] = "serve"
  /\ LoadConfig(c)
  /\ undriven' = (told = c) /\ UNCHANGED net

Unsaved == {"map", "persist", "truncate", "write"}

(* send_mode: ControlService delivers the control and waits for it; the    *)
(* SCM has a service handle one control at a time.                         *)
Send(c) ==
  /\ \A d \in Clients : tray[d] # "sent"
  /\ Move(c, "send", "sent") /\ ModeControl(want[c])
  /\ contended' = (contended \/ file = Empty)
  /\ crossed' = (crossed \/ \E d \in Others(c) : tray[d] \in Unsaved)
  /\ UNCHANGED <<want, trayConfig, net, requests, told, undriven, edits>>

(* Fault: the mode stays requested. *)
FaultyFail(c) ==
  /\ trayConfig' = [trayConfig EXCEPT ![c] = None]
  /\ told' = None
  /\ UNCHANGED <<want, net, requests, contended, crossed, undriven, edits>>

Fail(c) ==
  /\ want' = [want EXCEPT ![c] = None] /\ trayConfig' = [trayConfig EXCEPT ![c] = None]
  /\ told' = None
  /\ UNCHANGED <<net, requests, contended, crossed, undriven, edits>>

(* The service is not running, or is stopping. *)
SendFails(c) ==
  /\ Move(c, "send", "idle") /\ status # "running"
  /\ Fail(c) /\ UNCHANGED hostVars

TakeAnswer ==
  /\ answer' = None
  /\ UNCHANGED <<fileVars, status, workVars, liveVars, ctl, target, ctlConfig,
                 overtaken, cut, torn>>

AnsweredNo(c) ==
  /\ Move(c, "sent", "idle") /\ answer = FALSE
  /\ TakeAnswer /\ Fail(c)

AnsweredYes(c) ==
  /\ Move(c, "sent", "map") /\ answer = TRUE
  /\ TakeAnswer
  /\ UNCHANGED <<want, trayConfig, net, requests, ghostVars, edits>>

(* Monitor mode maps the network drive to a letter that is free ... *)
MapDrive(c) ==
  /\ Move(c, "map", "persist")
  /\ want[c] = "monitor" /\ ~net => Sourced(trayConfig[c])
  /\ net' = (net \/ (want[c] = "monitor" /\ mount["N"] = None))
  /\ UNCHANGED <<hostVars, want, trayConfig, requests, ghostVars, edits>>

(* ... and does not look whether it could. *)
MapFails(c) ==
  /\ Move(c, "map", "persist")
  /\ want[c] = "monitor" /\ ~net /\ ("net" \in Failures \/ ~Sourced(trayConfig[c]))
  /\ undriven' = (told = c)
  /\ UNCHANGED <<hostVars, want, trayConfig, net, requests, told, contended, crossed, edits>>

(* Fault: what was loaded before the service was asked is saved. *)
FaultyPersistLoad(c) ==
  /\ Move(c, "persist", "truncate")
  /\ UNCHANGED <<hostVars, want, trayConfig, net, requests, ghostVars, edits>>

(* persist_mode: load, then truncate and write. *)
PersistLoad(c) ==
  /\ Move(c, "persist", "truncate")
  /\ trayConfig' = [trayConfig EXCEPT ![c] = [file EXCEPT !.mode = want[c]]]
  /\ contended' = (contended \/ file = Empty)
  /\ UNCHANGED <<hostVars, want, net, requests, told, crossed, undriven, edits>>

KeepHost ==
  UNCHANGED <<mount, status, workVars, liveVars, ctlVars, overtaken, cut>>

PersistTruncate(c) ==
  /\ Move(c, "truncate", "write")
  /\ file' = Empty
  /\ KeepHost
  /\ UNCHANGED <<torn, want, trayConfig, net, requests, ghostVars, edits>>

(* The client is done, and reports success. *)
Persisted(c) ==
  /\ Move(c, "write", "idle")
  /\ want' = [want EXCEPT ![c] = None]
  /\ trayConfig' = [trayConfig EXCEPT ![c] = None]
  /\ told' = IF told = c THEN [mode |-> want[c], switched |-> TRUE] ELSE None
  /\ KeepHost
  /\ UNCHANGED <<net, requests, contended, crossed, undriven, edits>>

PersistWrite(c) == Persisted(c) /\ file' = trayConfig[c] /\ UNCHANGED torn

(* The writes are not checked: the file stays empty. *)
PersistWriteFails(c) ==
  /\ "write" \in Failures
  /\ Persisted(c)
  /\ torn' = TRUE /\ UNCHANGED file

(* The client is killed, or has thrown because the file cannot be opened;  *)
(* the service goes on with what was asked of it.                          *)
ClientDies(c) ==
  /\ "kill" \in Failures
  /\ tray[c] # "idle" /\ Move(c, tray[c], "idle")
  /\ torn' = (torn \/ tray[c] = "write")
  /\ Fail(c) /\ KeepHost /\ UNCHANGED file

ClientStep(c) ==
  \/ \E mode \in Modes : RequestActive(c, mode) \/ Request(c, mode)
  \/ Prepare(c) \/ UnmapFails(c) \/ Send(c) \/ SendFails(c) \/ AnsweredNo(c) \/ AnsweredYes(c)
  \/ MapDrive(c) \/ MapFails(c) \/ PersistLoad(c) \/ PersistTruncate(c)
  \/ PersistWrite(c) \/ PersistWriteFails(c) \/ ClientDies(c)

(* A program has loaded a configuration that it has yet to save. *)
Rewriting ==
  \/ ctl \in {"move", "assign", "save", "write"}
  \/ \E c \in Clients : tray[c] \in {"truncate", "write"}

(* The user, whom the tray gave the config file to edit, saves it. *)
EditSettings ==
  /\ edits < MaxEdits /\ requests < MaxRequests /\ file # Empty
  /\ requests' = requests + 1
  /\ edits' = edits + 1
  /\ file' = [file EXCEPT !.settings = edits + 1]
  /\ contended' = (contended \/ Rewriting)
  /\ KeepHost
  /\ UNCHANGED <<torn, clientVars, net, told, crossed, undriven>>

Next ==
  \/ \E c \in Clients : ClientStep(c)
  \/ HostStep /\ UNCHANGED trayVars
  \/ EditSettings

Spec == TrayInit /\ [][Next]_vars

-----------------------------------------------------------------------------
(* Properties.                                                             *)

TypeOK ==
  /\ HostTypeOK
  /\ tray \in [Clients -> Places] /\ want \in [Clients -> Modes \cup {None}]
  /\ trayConfig \in [Clients -> Config \cup {None}]
  /\ \A c \in Clients : want[c] = None <=> tray[c] = "idle"
  /\ net \in BOOLEAN /\ requests \in 0..MaxRequests
  /\ told \in Report \cup Clients \cup {None}
  /\ contended \in BOOLEAN /\ crossed \in BOOLEAN /\ undriven \in BOOLEAN
  /\ edits \in 1..MaxEdits

(* Once the service waits, the pipeline does what the saved mode says:      *)
(* events are taken and the scheduler runs if and only if it enables       *)
(* caching ("caching runs only in Monitor mode, so Disabled and Serve      *)
(* pause the scheduler and stop new events from being scheduled",          *)
(* win_service_host.h), unless no mode is saved because a save left the    *)
(* file empty, the start was overtaken (the mode was saved while           *)
(* run_worker was loading the config or on its way to applying it) or the  *)
(* requests of two clients crossed, the later one saving last.             *)
ModeInForce ==
  pc = "wait" /\ Quiet /\ file # Empty /\ ~overtaken /\ ~crossed =>
    /\ caching <=> Enables(file.mode)
    /\ scheduler = PauseTo(file.mode)

(* While the service caches, the cache volume is on the letter the copies  *)
(* go to, unless it has lost its letter to a failed assignment, the        *)
(* process died in the middle of a switch, a start was overtaken, or the   *)
(* requests of two clients crossed: the mode saved is then one the service *)
(* has left, and its next start takes it up without moving a volume.       *)
HasLetter == mount["N"] # None \/ mount["K"] # None
CacheReachable ==
  pc = "wait" /\ Quiet /\ caching /\ HasLetter /\ ~overtaken /\ ~cut /\ ~crossed =>
    mount["K"] # None

(* The settings the user saved last survive every rewriting of the config  *)
(* file (of persist_mode: "Writes a mode into the config file, preserving  *)
(* all other settings"), but for three ways to lose them: a program was    *)
(* killed, or could not write, once it had emptied the file; a program     *)
(* loaded, to save it again, a file another had emptied; or the user saved *)
(* while a program held what it had loaded before.                         *)
SettingsKept ==
  ~torn /\ ~contended =>
    file.settings = edits \/ ctl = "write" \/ \E c \in Clients : tray[c] = "write"

(* What README.md's table of operating modes promises of the cache volume  *)
(* and of the network drive.                                               *)
Lettered(mode) ==
  (mode = "monitor" => mount["K"] # None) /\ (mode = "serve" => mount["N"] # None)
Driven(mode) == (mode = "monitor" => net) /\ (mode = "serve" => ~net)

(* A mode the tray reports as switched to is the one presented, until the  *)
(* next request, whatever becomes of the service: the cache volume is on   *)
(* its letter unless it has lost them all to a failed assignment, and the  *)
(* network drive is as the mode has it unless Windows refused to map or    *)
(* unmap it, which the tray does not look at and reports as success.       *)
SwitchPresented ==
  told # None /\ Quiet =>
    (told.switched =>
      /\ HasLetter => Lettered(told.mode)
      /\ ~undriven => Driven(told.mode))

(* README.md, of --monitor-mode: "Switches to Monitor mode: maps the       *)
(* source UNC to source_presentation_letter and mounts the cache volume at *)
(* cache_letter", exit code 0 on success.                                  *)
ModePresented ==
  told # None /\ Quiet => (HasLetter /\ ~cut => Lettered(told.mode) /\ Driven(told.mode))

=============================================================================
