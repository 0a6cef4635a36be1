---------------------------- MODULE TrayModesProofs ----------------------------
(***************************************************************************)
(* Mode switches, for any number of clients and requests and any failures: *)
(* the service does what the saved mode says, the cache volume is where    *)
(* the mode wants it, the settings survive and a reported switch is there. *)
(***************************************************************************)
EXTENDS TrayModes, TLAPS

(* A client has loaded a configuration once it has got past loading. *)
Loaded == \A c \in Clients : tray[c] \notin {"idle", "load"} => trayConfig[c] # None
TypeInv == TypeOK /\ Loaded

-----------------------------------------------------------------------------
(* The service alone.                                                      *)

(* scheduler_ is set exactly from Publish to Unpublish, or to the end of a *)
(* worker that failed.                                                     *)
Pointer ==
  /\ pc \in {"off", "load", "open", "stop", "done"} => ~published
  /\ pc \in {"flag", "pause", "source", "wait"} => published
PointerInv == TypeInv /\ Pointer

(* A stop is signalled once, when the service no longer accepts controls.  *)
Signalled ==
  /\ stopEvent => ctl = "idle" /\ status # "running"
  /\ ctl = "signal" => status # "running"
  /\ pc = "off" => ~stopEvent /\ ctl = "idle" /\ status = "stopped"

-----------------------------------------------------------------------------
(* The service and its clients.                                            *)

Engaged == Unsaved \cup {"sent"}

(* A mode control in progress is that of the client that waits for its     *)
(* answer, if it is still there; unless requests crossed, no other client  *)
(* has yet to save.                                                        *)
Exchange ==
  /\ target # None => answer = None /\ ctlConfig.mode = target
  /\ \A c \in Clients : target # None /\ tray[c] = "sent" => want[c] = target
  /\ \A c, d \in Clients : tray[c] = "sent" /\ tray[d] = "sent" => c = d
  /\ ~crossed =>
       /\ target # None => \A c \in Clients : tray[c] \notin Unsaved
       /\ \A c, d \in Clients : tray[c] \in Engaged /\ tray[d] \in Engaged => c = d

(* The service has saved the mode this client requested, or has tried to,  *)
(* and the client has not.                                                 *)
Settled(c) ==
  \/ tray[c] \in Unsaved
  \/ tray[c] = "sent" /\ (ctl \in {"flag", "pause"} \/ answer = TRUE)

(* From the service's save to the client's, the file holds the mode that   *)
(* was requested, or is empty: while one of them writes it, or because a   *)
(* write failed.                                                           *)
Saving ==
  /\ \A c \in Clients : tray[c] \in {"truncate", "write"} => trayConfig[c].mode = want[c]
  /\ ~crossed =>
       /\ ctl = "write" => file = Empty
       /\ ctl \in {"flag", "pause"} => file = Empty \/ file.mode = target
       /\ \A c \in Clients :
            /\ Settled(c) => file = Empty \/ file.mode = want[c]
            /\ tray[c] = "write" => file = Empty

(* The mode a client is about to save, or the one in the file; none while   *)
(* a save that did not finish leaves the file empty.                       *)
Held(mode) ==
  \/ \E c \in Clients : Settled(c) /\ want[c] = mode
  \/ (\A c \in Clients : ~Settled(c)) /\ file # Empty /\ file.mode = mode

(* The flag, the pause and the loaded configuration each follow the held   *)
(* mode, but for the steps in which a switch has saved and not yet applied. *)
InForce ==
  ~overtaken /\ ~crossed => \A mode \in Modes \cup {None} : Held(mode) =>
    /\ pc \in {"open", "flag", "pause"} /\ ctl # "write" => config.mode = mode
    /\ pc \in {"pause", "source", "wait"} /\ ctl \notin {"write", "flag"} => caching = Enables(mode)
    /\ pc \in {"source", "wait"} /\ ctl \notin {"write", "flag", "pause"} => scheduler = PauseTo(mode)

(* The cache volume has one letter at most; it has the cache letter if the *)
(* held mode, or the one about to be saved, caches, and if the service     *)
(* does or is going to.                                                    *)
Moving == {"assign", "save", "write"}

Volume ==
  /\ mount["N"] = None \/ mount["K"] = None
  /\ ctl = "assign" => ~HasLetter
  /\ ctl \in {"save", "write", "flag", "pause"} /\ HasLetter => Lettered(target)
  /\ ~cut /\ ~crossed /\ ctl \notin Moving /\ HasLetter =>
       \A mode \in Modes \cup {None} : Held(mode) /\ Enables(mode) => mount["K"] # None

Reach ==
  ~cut /\ ~crossed /\ ~overtaken /\ ctl \notin Moving /\ HasLetter =>
    /\ pc \in {"open", "flag"} /\ Enables(config.mode) => mount["K"] # None
    /\ pc \in {"pause", "source", "wait"} /\ ctl # "flag" /\ caching => mount["K"] # None

SwitchInv == PointerInv /\ Exchange /\ Saving /\ InForce /\ Volume /\ Reach

-----------------------------------------------------------------------------
(* The settings.                                                           *)

(* Whatever is saved was loaded from a file that was whole, and is still   *)
(* what the user saved last.                                               *)
Whole ==
  ~contended =>
    /\ file = Empty \/ file.settings = edits
    /\ ctl \in {"move", "assign", "save", "write"} => ctlConfig.settings = edits
    /\ \A c \in Clients : tray[c] \in {"truncate", "write"} => trayConfig[c].settings = edits
    /\ file = Empty => torn \/ ctl = "write" \/ \E c \in Clients : tray[c] = "write"

-----------------------------------------------------------------------------
(* One switch that no other overlaps.                                      *)

Placed(mode) == HasLetter => Lettered(mode)
Mapped(mode) == mode = "monitor" /\ ~undriven => net

(* The drive and the volume as far as the switch has got.                  *)
Switching(c) ==
  /\ tray[c] # "idle" /\ \A d \in Others(c) : tray[d] = "idle"
  /\ target # None => tray[c] = "sent"
  /\ tray[c] # "load" /\ want[c] = "serve" /\ ~undriven => ~net
  /\ tray[c] \in Unsaved \/ (tray[c] = "sent" /\ answer = TRUE) => Placed(want[c])
  /\ tray[c] \in {"persist", "truncate", "write"} => Mapped(want[c])

Presented ==
  /\ \A c \in Clients : told = c => Switching(c)
  /\ told \in Report =>
       /\ target = None /\ \A c \in Clients : tray[c] = "idle"
       /\ told.switched => Placed(told.mode) /\ (~undriven => Driven(told.mode))

-----------------------------------------------------------------------------
(* Types of the service's state.                                           *)

LEMMA ConfigTypes ==
  /\ Empty \in Config /\ Empty.mode = None /\ Empty.settings = 0
  /\ \A f \in Config, mode \in Modes :
       /\ [f EXCEPT !.mode = mode] \in Config /\ [f EXCEPT !.mode = mode] # None
       /\ [f EXCEPT !.mode = mode].mode = mode /\ [f EXCEPT !.mode = mode].settings = f.settings
BY NoneAssumption, EditsAssumption DEF Empty, Config

LEMMA PauseTypes == \A mode : PauseTo(mode) \in {"running", "paused"} /\ Enables(mode) \in BOOLEAN
BY DEF PauseTo, Enables

LEMMA WorkerTypes ==
  ASSUME HostTypeOK, WorkerStep
  PROVE  HostTypeOK'
<1>. USE DEF HostTypeOK, Goto, fileVars, workVars, liveVars, ctlVars
<1>1. CASE Load
  <2>1. overtaken' \in BOOLEAN
    BY <1>1 DEF Load
  <2>. QED
    BY <1>1, <2>1, NoneAssumption DEF Load
<1>8. CASE OpenThrows
  BY <1>8, NoneAssumption DEF OpenThrows
<1>2. CASE Publish
  BY <1>2, NoneAssumption DEF Publish
<1>3. CASE ApplyFlag
  BY <1>3, PauseTypes DEF ApplyFlag
<1>4. CASE ApplyPause
  BY <1>4, PauseTypes, NoneAssumption DEF ApplyPause
<1>5. CASE StartSource \/ SourceThrows
  BY <1>5 DEF StartSource, SourceThrows
<1>6. CASE Unpublish
  BY <1>6 DEF Unpublish
<1>9. CASE StopScheduler
  BY <1>9 DEF StopScheduler
<1>10. CASE ReportStopped
  BY <1>10 DEF ReportStopped
<1>7. CASE ProcessEnds
  BY <1>7 DEF ProcessEnds, Gone
<1>. QED
  BY <1>1, <1>2, <1>3, <1>4, <1>5, <1>6, <1>7, <1>8, <1>9, <1>10 DEF WorkerStep

LEMMA LostTypes ==
  ASSUME HostTypeOK, Lost, UNCHANGED fileVars
  PROVE  HostTypeOK'
BY DEF HostTypeOK, Lost, Gone, fileVars

LEMMA HandlerTypes ==
  ASSUME HostTypeOK, HandlerStep
  PROVE  HostTypeOK'
<1>. USE DEF HostTypeOK, KeepWork, fileVars, workVars, liveVars, ctlVars
<1>1. CASE ReportStopping
  BY <1>1 DEF ReportStopping
<1>8. CASE SignalStop
  <2>1. stopEvent' \in BOOLEAN
    BY <1>8 DEF SignalStop
  <2>. QED
    BY <1>8, <2>1 DEF SignalStop
<1>2. CASE Refuse \/ AssignFails
  <2>1. /\ answer' \in BOOLEAN /\ ctl' = "idle" /\ target' = None /\ ctlConfig' = None
        /\ UNCHANGED <<fileVars, status, workVars, liveVars, overtaken, cut, torn>>
    BY <1>2 DEF Refuse, AssignFails
  <2>. QED
    BY <2>1
<1>9. CASE StayPut
  BY <1>9 DEF StayPut
<1>3. CASE RemoveMount \/ AssignMount
  <2>1. mount' \in [{"N", "K"} -> {"cache", None}]
    BY <1>3 DEF RemoveMount, AssignMount, From, Onto
  <2>. QED
    BY <1>3, <2>1 DEF RemoveMount, AssignMount
<1>4. CASE Truncate
  BY <1>4, ConfigTypes DEF Truncate
<1>10. CASE Write \/ WriteFails
  <2>1. overtaken' \in BOOLEAN
    BY <1>10 DEF Write, WriteFails, Overtake
  <2>2. file' \in Config /\ torn' \in BOOLEAN
    BY <1>10 DEF Write, WriteFails
  <2>. QED
    BY <1>10, <2>1, <2>2 DEF Write, WriteFails
<1>5. CASE SwitchFlag
  BY <1>5, PauseTypes DEF SwitchFlag
<1>6. CASE SwitchPause
  BY <1>6, PauseTypes, NoneAssumption DEF SwitchPause, Answered
<1>7. CASE SwitchDangling
  BY <1>7, LostTypes DEF SwitchDangling, Answered
<1>. QED
  BY <1>1, <1>2, <1>3, <1>4, <1>5, <1>6, <1>7, <1>8, <1>9, <1>10 DEF HandlerStep

LEMMA HostTypes ==
  ASSUME HostTypeOK, HostStep
  PROVE  HostTypeOK'
<1>1. CASE StartService \/ StopControl
  BY <1>1 DEF HostTypeOK, StartService, StopControl, Accepts, Goto, KeepWork, fileVars, workVars, liveVars,
     ctlVars
<1>2. CASE Crash
  BY <1>2, LostTypes DEF Crash
<1>. QED
  BY <1>1, <1>2, WorkerTypes, HandlerTypes DEF HostStep

-----------------------------------------------------------------------------
(* Types of the clients' state.                                            *)

LEMMA InitTypes == TrayInit => TypeInv
<1>. SUFFICES ASSUME TrayInit PROVE TypeInv
  OBVIOUS
<1>1. HostTypeOK
  <2>1. file \in Config
    BY EditsAssumption DEF TrayInit, Init, Config
  <2>2. mount \in [{"N", "K"} -> {"cache", None}]
    BY DEF TrayInit, Init
  <2>. QED
    BY <2>1, <2>2, NoneAssumption DEF TrayInit, Init, HostTypeOK
<1>2. tray \in [Clients -> Places] /\ want \in [Clients -> Modes \cup {None}]
      /\ trayConfig \in [Clients -> Config \cup {None}] /\ requests \in 0..MaxRequests /\ edits \in 1..MaxEdits
  BY RequestsAssumption, EditsAssumption DEF TrayInit, Places
<1>. QED
  BY <1>1, <1>2 DEF TrayInit, TypeInv, TypeOK, Loaded

(* A switch that fails leaves the client as it was. *)
LEMMA FailTypes ==
  ASSUME TypeInv, HostTypeOK', NEW c \in Clients, NEW from, Move(c, from, "idle"), Fail(c)
  PROVE  TypeInv'
BY NoneAssumption DEF TypeInv, TypeOK, Loaded, Move, Fail, Places

LEMMA ClientTypes ==
  ASSUME TypeInv, NEW c \in Clients, ClientStep(c)
  PROVE  TypeInv'
<1>. USE DEF Move, clientVars, ghostVars
<1>1. ASSUME UNCHANGED hostVars PROVE HostTypeOK'
  BY <1>1 DEF TypeInv, TypeOK, HostTypeOK, hostVars, fileVars, workVars, liveVars, ctlVars
<1>2. ASSUME NEW mode \in Modes, RequestActive(c, mode) PROVE TypeInv'
  <2>1. requests' \in 0..MaxRequests /\ told' \in Report \cup {None}
    BY <1>2, RequestsAssumption DEF RequestActive, TypeInv, TypeOK, Report
  <2>. QED
    BY <1>1, <1>2, <2>1 DEF RequestActive, TypeInv, TypeOK, Loaded
<1>3. ASSUME NEW mode \in Modes, Request(c, mode) PROVE TypeInv'
  <2>1. requests' \in 0..MaxRequests
    BY <1>3, RequestsAssumption DEF Request, TypeInv, TypeOK
  <2>. QED
    BY <1>1, <1>3, <2>1, NoneAssumption DEF Request, TypeInv, TypeOK, Loaded, Places
<1>4. ASSUME [file EXCEPT !.mode = want[c]] \in Config, Prepare(c) \/ UnmapFails(c) PROVE TypeInv'
  <2>1. LoadConfig(c) /\ net' \in BOOLEAN /\ undriven' \in BOOLEAN
    BY <1>4 DEF Prepare, UnmapFails, TypeInv, TypeOK
  <2>. QED
    BY <1>1, <1>4, <2>1, NoneAssumption DEF LoadConfig, TypeInv, TypeOK, Loaded, Places
<1>5. CASE Send(c)
  <2>1. want[c] \in Modes /\ file \in Config
    BY <1>5 DEF Send, TypeInv, TypeOK, HostTypeOK
  <2>2. HostTypeOK'
    BY <1>5, <2>1, ConfigTypes, NoneAssumption
    DEF Send, ModeControl, Accepts, KeepWork, TypeInv, TypeOK, HostTypeOK, fileVars, workVars, liveVars
  <2>. QED
    BY <1>5, <2>2 DEF Send, TypeInv, TypeOK, Loaded, Places
<1>6. CASE SendFails(c)
  BY <1>1, <1>6, FailTypes DEF SendFails
<1>7. TakeAnswer => HostTypeOK'
  BY DEF TakeAnswer, TypeInv, TypeOK, HostTypeOK, fileVars, workVars, liveVars
<1>8. CASE AnsweredNo(c)
  BY <1>7, <1>8, FailTypes DEF AnsweredNo
<1>9. CASE AnsweredYes(c)
  BY <1>7, <1>9 DEF AnsweredYes, TypeInv, TypeOK, Loaded, Places
<1>10. CASE MapDrive(c) \/ MapFails(c)
  <2>1. net' \in BOOLEAN /\ undriven' \in BOOLEAN
    BY <1>10 DEF MapDrive, MapFails, TypeInv, TypeOK
  <2>. QED
    BY <1>1, <1>10, <2>1 DEF MapDrive, MapFails, TypeInv, TypeOK, Loaded, Places
<1>11. ASSUME [file EXCEPT !.mode = want[c]] \in Config, PersistLoad(c) PROVE TypeInv'
  BY <1>1, <1>11, NoneAssumption DEF PersistLoad, TypeInv, TypeOK, Loaded, Places
<1>12. ASSUME KeepHost, file' \in Config, torn' \in BOOLEAN PROVE HostTypeOK'
  BY <1>12 DEF KeepHost, TypeInv, TypeOK, HostTypeOK, workVars, liveVars, ctlVars
<1>13. CASE PersistTruncate(c)
  <2>1. torn' \in BOOLEAN /\ file' \in Config
    BY <1>13, ConfigTypes DEF PersistTruncate, TypeInv, TypeOK, HostTypeOK
  <2>. QED
    BY <1>12, <1>13, <2>1 DEF PersistTruncate, TypeInv, TypeOK, Loaded, Places
<1>14. CASE PersistWrite(c) \/ PersistWriteFails(c)
  <2>1. Persisted(c) /\ trayConfig[c] \in Config /\ want[c] \in Modes
    BY <1>14 DEF PersistWrite, PersistWriteFails, Persisted, TypeInv, TypeOK, Loaded
  <2>2. told' \in Report \cup {None}
    BY <2>1 DEF Persisted, Report
  <2>3. file' \in Config /\ torn' \in BOOLEAN
    BY <1>14, <2>1 DEF PersistWrite, PersistWriteFails, TypeInv, TypeOK, HostTypeOK
  <2>. QED
    BY <1>12, <2>1, <2>2, <2>3, NoneAssumption DEF Persisted, TypeInv, TypeOK, Loaded, Places
<1>16. CASE ClientDies(c)
  <2>1. file' \in Config /\ torn' \in BOOLEAN /\ KeepHost
    BY <1>16 DEF ClientDies, TypeInv, TypeOK, HostTypeOK
  <2>. QED
    BY <1>12, <1>16, <2>1, FailTypes DEF ClientDies
<1>15. LoadConfig(c) \/ PersistLoad(c) => [file EXCEPT !.mode = want[c]] \in Config
  <2>1. LoadConfig(c) \/ PersistLoad(c) => want[c] \in Modes /\ file \in Config
    BY DEF LoadConfig, PersistLoad, TypeInv, TypeOK, HostTypeOK
  <2>. QED
    BY <2>1, ConfigTypes
<1>. QED
  BY <1>2, <1>3, <1>4, <1>5, <1>6, <1>8, <1>9, <1>10, <1>11, <1>13, <1>14, <1>15, <1>16
  DEF ClientStep, Prepare, UnmapFails

(* The user's edit touches the settings in the file and nothing else. *)
LEMMA EditLeaves ==
  ASSUME TypeInv, EditSettings
  PROVE  /\ UNCHANGED <<mount, status, workVars, liveVars, ctlVars, overtaken, cut, torn>>
         /\ UNCHANGED <<clientVars, net, told, crossed, undriven>>
         /\ file # Empty /\ file' # Empty /\ file'.mode = file.mode
         /\ file' \in Config /\ edits' = edits + 1 /\ file'.settings = edits'
         /\ edits' \in 1..MaxEdits
<1>1. edits \in 1..MaxEdits /\ file \in Config /\ edits < MaxEdits /\ edits' = edits + 1
      /\ file' = [file EXCEPT !.settings = edits']
  BY DEF EditSettings, TypeInv, TypeOK, HostTypeOK
<1>2. edits' \in 1..MaxEdits /\ edits' # 0 /\ edits' \in 0..MaxEdits
  BY <1>1, EditsAssumption
<1>3. file' \in Config /\ file'.mode = file.mode /\ file'.settings = edits'
  BY <1>1, <1>2 DEF Config
<1>. QED
  BY <1>1, <1>2, <1>3 DEF EditSettings, KeepHost, Empty

LEMMA StepTypes == TypeInv /\ [Next]_vars => TypeInv'
<1>1. TypeInv /\ HostStep /\ UNCHANGED trayVars => TypeInv'
  BY HostTypes DEF TypeInv, TypeOK, Loaded, trayVars, clientVars, ghostVars
<1>3. TypeInv /\ EditSettings => TypeInv'
  <2>. SUFFICES ASSUME TypeInv, EditSettings PROVE TypeInv'
    OBVIOUS
  <2>1. edits' \in 1..MaxEdits /\ requests' \in 0..MaxRequests
    BY EditLeaves, RequestsAssumption DEF TypeInv, TypeOK, EditSettings
  <2>2. HostTypeOK'
    BY EditLeaves DEF TypeInv, TypeOK, HostTypeOK, workVars, liveVars, ctlVars
  <2>3. contended' \in BOOLEAN
    BY DEF EditSettings, TypeInv, TypeOK
  <2>. QED
    BY <2>1, <2>2, <2>3, EditLeaves DEF TypeInv, TypeOK, Loaded, clientVars
<1>2. TypeInv /\ UNCHANGED vars => TypeInv'
  BY DEF TypeInv, TypeOK, HostTypeOK, Loaded, vars, hostVars, fileVars, workVars, liveVars, ctlVars, trayVars,
     clientVars, ghostVars
<1>. QED
  BY <1>1, <1>2, <1>3, ClientTypes DEF Next

(* Types; how far the service's two threads have got tells what is set.    *)
THEOREM TypeCorrect == Spec => []TypeOK
<1>1. TypeInv => TypeOK
  BY DEF TypeInv
<1>. QED
  BY InitTypes, StepTypes, <1>1, PTL DEF Spec

-----------------------------------------------------------------------------
(* The service alone.                                                      *)

(* Clients touch neither the service's threads nor the volume: a control   *)
(* is accepted, an answer taken, the file saved.                           *)
LEMMA ClientsLeave ==
  ASSUME NEW c \in Clients, ClientStep(c)
  PROVE  /\ UNCHANGED <<mount, status, workVars, liveVars, overtaken, cut>>
         /\ UNCHANGED <<ctl, target, ctlConfig>> \/ Send(c)
<1>. USE DEF hostVars, fileVars, ctlVars
<1>1. CASE \E mode \in Modes : RequestActive(c, mode) \/ Request(c, mode)
  BY <1>1 DEF RequestActive, Request
<1>2. CASE Prepare(c) \/ UnmapFails(c) \/ SendFails(c) \/ MapDrive(c) \/ MapFails(c) \/ PersistLoad(c)
  BY <1>2 DEF Prepare, UnmapFails, LoadConfig, SendFails, MapDrive, MapFails, PersistLoad
<1>3. CASE Send(c)
  BY <1>3 DEF Send, ModeControl, KeepWork
<1>4. CASE AnsweredNo(c) \/ AnsweredYes(c)
  BY <1>4 DEF AnsweredNo, AnsweredYes, TakeAnswer
<1>5. CASE PersistTruncate(c) \/ PersistWrite(c) \/ PersistWriteFails(c) \/ ClientDies(c)
  BY <1>5 DEF PersistTruncate, PersistWrite, PersistWriteFails, Persisted, ClientDies, KeepHost
<1>. QED
  BY <1>1, <1>2, <1>3, <1>4, <1>5 DEF ClientStep

LEMMA LostGone == Lost => Gone
BY DEF Lost

LEMMA StepPointer == PointerInv /\ [Next]_vars => Pointer'
<1>. SUFFICES ASSUME PointerInv, [Next]_vars PROVE Pointer'
  OBVIOUS
<1>. USE DEF PointerInv, Pointer, workVars, liveVars
<1>1. CASE \E c \in Clients : ClientStep(c)
  BY <1>1, ClientsLeave
<1>2. CASE WorkerStep
  BY <1>2 DEF WorkerStep, Goto, Load, OpenThrows, Publish, ApplyFlag, ApplyPause, StartSource, SourceThrows,
     Unpublish, StopScheduler, ReportStopped, ProcessEnds, Gone
<1>3. CASE HandlerStep
  <2>1. UNCHANGED <<pc, published>> \/ Lost
    BY <1>3 DEF HandlerStep, ReportStopping, SignalStop, Refuse, StayPut, RemoveMount, AssignMount, AssignFails,
       Truncate, Write, WriteFails, SwitchFlag, SwitchPause, SwitchDangling, KeepWork
  <2>. QED
    BY <2>1, LostGone DEF Gone
<1>4. CASE StartService \/ StopControl \/ Crash
  BY <1>4, LostGone DEF StartService, Goto, StopControl, KeepWork, Crash, Gone
<1>5. CASE UNCHANGED vars
  BY <1>5 DEF vars, hostVars
<1>6. CASE EditSettings
  BY <1>6, EditLeaves DEF TypeInv, TypeOK
<1>. QED
  BY <1>1, <1>2, <1>3, <1>4, <1>5, <1>6 DEF Next, HostStep

LEMMA PointerInvariant == Spec => []PointerInv
<1>1. TrayInit => PointerInv
  BY InitTypes DEF PointerInv, Pointer, TrayInit, Init
<1>2. PointerInv /\ [Next]_vars => PointerInv'
  BY StepTypes, StepPointer DEF PointerInv
<1>. QED
  BY <1>1, <1>2, PTL DEF Spec

(* The control thread finds a dangling pointer only after a start that      *)
(* threw: on every other way down Unpublish comes first.                   *)
THEOREM PointerGuarded == Spec => []PointerAlive
<1>1. PointerInv => PointerAlive
  <2>. SUFFICES ASSUME PointerInv, published, scheduler = None PROVE pc \in {"failed", "ended"}
    BY DEF PointerAlive
  <2>. QED
    BY DEF PointerInv, Pointer, TypeInv, TypeOK, HostTypeOK
<1>. QED
  BY PointerInvariant, <1>1, PTL

LEMMA StepSignalled ==
  ASSUME TypeInv, Signalled, [Next]_vars
  PROVE  Signalled'
<1>. USE DEF Signalled, workVars, liveVars, ctlVars
<1>1. ASSUME NEW c \in Clients, ClientStep(c) PROVE Signalled'
  BY <1>1, ClientsLeave DEF Send, ModeControl, Accepts, KeepWork
<1>2. CASE WorkerStep
  BY <1>2 DEF WorkerStep, Goto, Load, OpenThrows, Publish, ApplyFlag, ApplyPause, StartSource, SourceThrows,
     Unpublish, StopScheduler, ReportStopped, ProcessEnds, Gone
<1>3. CASE ReportStopping \/ SignalStop
  BY <1>3 DEF ReportStopping, SignalStop
<1>4. CASE Refuse \/ StayPut \/ RemoveMount \/ AssignMount \/ AssignFails \/ Truncate
  BY <1>4 DEF Refuse, StayPut, RemoveMount, AssignMount, AssignFails, Truncate, KeepWork
<1>5. CASE Write \/ WriteFails \/ SwitchFlag \/ SwitchPause \/ SwitchDangling
  BY <1>5, LostGone DEF Write, WriteFails, SwitchFlag, SwitchPause, SwitchDangling, Answered, KeepWork, Gone
<1>6. CASE StartService \/ StopControl \/ Crash
  BY <1>6, LostGone DEF StartService, Goto, StopControl, Accepts, KeepWork, Crash, Gone
<1>7. CASE UNCHANGED vars
  BY <1>7 DEF vars, hostVars
<1>8. CASE EditSettings
  BY <1>8, EditLeaves DEF TypeInv, TypeOK
<1>. QED
  BY <1>1, <1>2, <1>3, <1>4, <1>5, <1>6, <1>7, <1>8 DEF Next, HostStep, HandlerStep

(* SERVICE_STOPPED is the last word of a service whose stop was signalled:  *)
(* the dispatcher reports the pending stop before it signals it, and        *)
(* accepts nothing between that and the end of the process.                *)
THEOREM StopReportedLast == Spec => StoppedIsFinal
<1>1. TrayInit => Signalled
  BY DEF TrayInit, Init, Signalled
<1>2. TypeInv /\ Signalled /\ [Next]_vars => Signalled'
  BY StepSignalled
<1>3. ASSUME TypeInv, Signalled, [Next]_vars, status = "stopped", pc # "off", status' # "stopped"
      PROVE  ~stopEvent
  <2>1. (\A c \in Clients : ~ClientStep(c)) /\ ~EditSettings
    BY <1>3, ClientsLeave, EditLeaves DEF TypeInv, TypeOK
  <2>2. ReportStopping
    BY <1>3, <2>1
    DEF Next, HostStep, WorkerStep, HandlerStep, Goto, Load, OpenThrows, Publish, ApplyFlag, ApplyPause,
        StartSource, SourceThrows, Unpublish, StopScheduler, ReportStopped, ProcessEnds, Gone, Lost, Crash,
        SignalStop, Refuse, StayPut, RemoveMount, AssignMount, AssignFails, Truncate, Write, WriteFails,
        SwitchFlag, SwitchPause, SwitchDangling, StartService, StopControl, KeepWork, vars, hostVars
  <2>. QED
    BY <1>3, <2>2 DEF ReportStopping, Signalled
<1>4. TypeInv /\ Signalled /\ [Next]_vars => [status = "stopped" /\ pc # "off" /\ status' # "stopped" => ~stopEvent]_hostVars
  BY <1>3
<1>. QED
  BY InitTypes, StepTypes, <1>1, <1>2, <1>4, PTL DEF Spec, StoppedIsFinal

-----------------------------------------------------------------------------
(* The service and its clients.                                            *)

LEMMA OthersKept ==
  ASSUME TypeInv, NEW c \in Clients, ClientStep(c), NEW d \in Clients \ {c}
  PROVE  tray'[d] = tray[d] /\ want'[d] = want[d] /\ trayConfig'[d] = trayConfig[d]
<1>1. tray \in [Clients -> Places] /\ want \in [Clients -> Modes \cup {None}]
      /\ trayConfig \in [Clients -> Config \cup {None}]
  BY DEF TypeInv, TypeOK
<1>. QED
  BY <1>1 DEF ClientStep, RequestActive, Request, Prepare, UnmapFails, LoadConfig, Send, SendFails, AnsweredNo,
     AnsweredYes, Fail, MapDrive, MapFails, PersistLoad, PersistTruncate, PersistWrite, PersistWriteFails,
     Persisted, ClientDies, Move, clientVars

(* The service ends a mode control or leaves it as it is. *)
LEMMA TargetKept ==
  ASSUME HostStep
  PROVE  target' = None \/ UNCHANGED <<target, ctlConfig, answer>>
<1>. USE DEF ctlVars
<1>1. CASE WorkerStep
  BY <1>1 DEF WorkerStep, Goto, Load, OpenThrows, Publish, ApplyFlag, ApplyPause, StartSource, SourceThrows,
     Unpublish, StopScheduler, ReportStopped, ProcessEnds, Gone
<1>2. CASE HandlerStep
  BY <1>2, LostGone DEF HandlerStep, ReportStopping, SignalStop, Refuse, StayPut, RemoveMount, AssignMount,
     AssignFails, Truncate, Write, WriteFails, SwitchFlag, SwitchPause, SwitchDangling, Answered, Gone
<1>3. CASE StartService \/ StopControl \/ Crash
  BY <1>3, LostGone DEF StartService, StopControl, Crash, Gone
<1>. QED
  BY <1>1, <1>2, <1>3 DEF HostStep

(* A client's other steps neither send nor touch a control in progress.    *)
LEMMA NotSent ==
  ASSUME TypeInv, Exchange, NEW c \in Clients, ClientStep(c), ~Send(c)
  PROVE  /\ UNCHANGED <<target, ctlConfig, crossed>>
         /\ target # None => answer' = None
         /\ tray'[c] # "sent"
         /\ tray'[c] \in Unsaved => tray[c] \in Unsaved \/ (tray[c] = "sent" /\ answer = TRUE)
<1>. USE DEF Unsaved, Move
<1>1. tray \in [Clients -> Places]
  BY DEF TypeInv, TypeOK
<1>2. UNCHANGED <<target, ctlConfig>>
  BY ClientsLeave
<1>3. crossed' = crossed /\ tray'[c] # "sent"
  BY <1>1
  DEF ClientStep, RequestActive, Request, Prepare, UnmapFails, LoadConfig, SendFails, AnsweredNo, AnsweredYes,
      Fail, MapDrive, MapFails, PersistLoad, PersistTruncate, PersistWrite, PersistWriteFails, Persisted,
      ClientDies, clientVars, ghostVars, Places
<1>4. tray'[c] \in Unsaved => tray[c] \in Unsaved \/ (tray[c] = "sent" /\ answer = TRUE)
  BY <1>1
  DEF ClientStep, RequestActive, Request, Prepare, UnmapFails, LoadConfig, SendFails, AnsweredNo, AnsweredYes,
      MapDrive, MapFails, PersistLoad, PersistTruncate, PersistWrite, PersistWriteFails, Persisted,
      ClientDies, clientVars, Places
<1>5. TakeAnswer => answer' = None
  BY DEF TakeAnswer
<1>6. ~TakeAnswer => answer' = answer
  BY
  DEF ClientStep, RequestActive, Request, Prepare, UnmapFails, LoadConfig, SendFails, AnsweredNo, AnsweredYes,
      MapDrive, MapFails, PersistLoad, PersistTruncate, PersistWrite, PersistWriteFails, Persisted,
      ClientDies, KeepHost, hostVars, ctlVars
<1>. QED
  BY <1>2, <1>3, <1>4, <1>5, <1>6 DEF Exchange

LEMMA StepExchange ==
  ASSUME TypeInv, Exchange, [Next]_vars
  PROVE  Exchange'
<1>. USE DEF Exchange, Engaged, Unsaved
<1>1. CASE HostStep /\ UNCHANGED trayVars
  BY <1>1, TargetKept DEF trayVars, clientVars, ghostVars
<1>2. ASSUME NEW c \in Clients, ClientStep(c) PROVE Exchange'
  <2>1. tray \in [Clients -> Places] /\ want \in [Clients -> Modes \cup {None}] /\ crossed \in BOOLEAN
    BY DEF TypeInv, TypeOK
  <2>2. CASE Send(c)
    <3>1. target' = want[c] /\ answer' = None /\ ctlConfig' = [file EXCEPT !.mode = want[c]]
      BY <2>2 DEF Send, ModeControl
    <3>2. want[c] \in Modes /\ file \in Config
      BY <2>1, <2>2 DEF Send, Move, TypeInv, TypeOK, HostTypeOK
    <3>3. ctlConfig'.mode = target'
      BY <3>1, <3>2, ConfigTypes
    <3>4. \A d \in Clients : tray[d] # "sent" /\ tray' = [tray EXCEPT ![c] = "sent"] /\ want' = want
      BY <2>2 DEF Send, Move
    <3>5. ~crossed' => ~crossed /\ \A d \in Clients \ {c} : tray[d] \notin Unsaved
      BY <2>2 DEF Send, Others
    <3>. QED
      BY <2>1, <3>1, <3>3, <3>4, <3>5
  <2>3. CASE ~Send(c)
    <3>1. target # None => answer # TRUE
      BY NoneAssumption
    <3>2. tray'[c] \in Engaged => tray[c] \in Engaged
      BY <1>2, <2>3, NotSent
    <3>3. ~crossed /\ target # None => tray'[c] \notin Unsaved
      BY <1>2, <2>3, <3>1, NotSent
    <3>4. \A d \in Clients : d # c => tray'[d] = tray[d] /\ want'[d] = want[d]
      BY <1>2, OthersKept
    <3>5. /\ UNCHANGED <<target, ctlConfig, crossed>> /\ tray'[c] # "sent"
          /\ (target # None => answer' = None)
      BY <1>2, <2>3, NotSent
    <3>. QED
      BY <3>2, <3>3, <3>4, <3>5
  <2>. QED
    BY <2>2, <2>3
<1>3. CASE UNCHANGED vars
  BY <1>3 DEF vars, hostVars, ctlVars, trayVars, clientVars, ghostVars
<1>4. CASE EditSettings
  BY <1>4, EditLeaves DEF TypeInv, TypeOK, ctlVars, clientVars
<1>. QED
  BY <1>1, <1>2, <1>3, <1>4 DEF Next

(* What the service's other steps make of a switch, but for those of       *)
(* saving.                                                                 *)
LEMMA SwitchGoesOn ==
  ASSUME HostStep, ~Truncate, ~Write, ~WriteFails
  PROVE  /\ file' = file /\ (ctl' = "write" => ctl = "write")
         /\ ctl' \in {"flag", "pause"} => ctl \in {"flag", "pause"} /\ target' = target
         /\ answer' = TRUE => answer = TRUE \/ ctl = "pause"
<1>. USE DEF fileVars, ctlVars
<1>1. CASE WorkerStep \/ StartService \/ StopControl
  BY <1>1 DEF WorkerStep, Goto, Load, OpenThrows, Publish, ApplyFlag, ApplyPause, StartSource, SourceThrows,
     Unpublish, StopScheduler, ReportStopped, ProcessEnds, Gone, StartService, StopControl
<1>2. CASE ReportStopping \/ SignalStop \/ Refuse \/ StayPut \/ RemoveMount \/ AssignMount \/ AssignFails
             \/ SwitchFlag \/ SwitchPause
  BY <1>2 DEF ReportStopping, SignalStop, Refuse, StayPut, RemoveMount, AssignMount, AssignFails, SwitchFlag,
     SwitchPause, Answered
<1>3. CASE SwitchDangling \/ Crash
  <2>1. UNCHANGED file /\ (Gone \/ (SwitchDangling /\ ctl' = "idle"))
    BY <1>3, LostGone DEF SwitchDangling, Crash, Answered
  <2>2. SwitchDangling \/ answer' = answer \/ answer' = FALSE
    BY <1>3 DEF Crash, Lost
  <2>. QED
    BY <2>1, <2>2 DEF SwitchDangling, Gone
<1>. QED
  BY <1>1, <1>2, <1>3 DEF HostStep, HandlerStep

(* A save of the service: the client it saves for waits, if it is still    *)
(* there, and no other is about to save.                                   *)
LEMMA HostSaves ==
  ASSUME TypeInv, Exchange, Truncate \/ Write \/ WriteFails, UNCHANGED trayVars
  PROVE  /\ target # None /\ answer = None /\ UNCHANGED <<target, ctlConfig, answer, tray, want>>
         /\ ctlConfig.mode = target
         /\ ~crossed => \A c \in Clients : tray[c] \notin Unsaved
<1>1. target # None /\ UNCHANGED <<target, ctlConfig, answer>>
  BY DEF Truncate, Write, WriteFails, TypeInv, TypeOK, HostTypeOK
<1>. QED
  BY <1>1 DEF Exchange, trayVars, clientVars

(* In any other step the service settles nothing that was not settled.     *)
LEMMA SettledBefore ==
  ASSUME TypeInv, Exchange, HostStep, ~Write, ~WriteFails, UNCHANGED trayVars, NEW c \in Clients, Settled(c)'
  PROVE  Settled(c)
<1>. USE DEF Settled, trayVars, clientVars
<1>1. CASE Truncate
  BY <1>1, HostSaves, NoneAssumption DEF Truncate
<1>2. CASE ~Truncate
  BY <1>2, SwitchGoesOn
<1>. QED
  BY <1>1, <1>2

LEMMA HostSaving ==
  ASSUME TypeInv, Exchange, Saving, HostStep, UNCHANGED trayVars
  PROVE  Saving'
<1>1. UNCHANGED <<tray, want, trayConfig, crossed>>
  BY DEF trayVars, clientVars, ghostVars
<1>2. CASE Truncate
  <2>1. file' = Empty /\ ctl' = "write"
    BY <1>2 DEF Truncate
  <2>. QED
    BY <1>1, <2>1 DEF Saving
<1>3. CASE Write \/ WriteFails
  <2>1. ctl' = "flag" /\ (~crossed => file' = Empty \/ file'.mode = target)
    BY <1>3, HostSaves DEF Write, WriteFails, Saving, fileVars
  <2>2. ASSUME NEW c \in Clients, ~crossed, tray[c] \notin Unsaved, Settled(c)'
        PROVE  file' = Empty \/ file'.mode = want[c]
    <3>1. tray[c] = "sent"
      BY <1>1, <2>2 DEF Settled
    <3>2. want[c] = target
      BY <1>3, <3>1, HostSaves DEF Exchange
    <3>. QED
      BY <2>1, <2>2, <3>2
  <2>3. ~crossed => \A c \in Clients : tray[c] \notin Unsaved
    BY <1>3, HostSaves
  <2>4. target' = target
    BY <1>3, HostSaves
  <2>. QED
    BY <1>1, <2>1, <2>2, <2>3, <2>4 DEF Saving, Unsaved
<1>4. CASE ~Truncate /\ ~Write /\ ~WriteFails
  <2>1. file' = file /\ (ctl' = "write" => ctl = "write")
        /\ (ctl' \in {"flag", "pause"} => ctl \in {"flag", "pause"} /\ target' = target)
    BY <1>4, SwitchGoesOn
  <2>2. \A c \in Clients : Settled(c)' => Settled(c)
    BY <1>4, SettledBefore
  <2>. QED
    BY <1>1, <2>1, <2>2 DEF Saving
<1>. QED
  BY <1>2, <1>3, <1>4

(* A client's step: it settles nothing that was not settled, and leaves a  *)
(* settled file as it is or empty, until it saves.                         *)
LEMMA ClientSettled ==
  ASSUME TypeInv, Exchange, NEW c \in Clients, ClientStep(c), NEW d \in Clients, Settled(d)'
  PROVE  Settled(d)
<1>. USE DEF Settled, Unsaved
<1>1. UNCHANGED <<ctl, target>> \/ Send(c)
  BY ClientsLeave
<1>2. tray \in [Clients -> Places]
  BY DEF TypeInv, TypeOK
<1>3. CASE Send(c)
  <2>1. tray' = [tray EXCEPT ![c] = "sent"] /\ answer' = None /\ ctl' = "move"
    BY <1>3 DEF Send, Move, ModeControl
  <2>. QED
    BY <1>2, <2>1, NoneAssumption
<1>4. CASE ~Send(c)
  <2>1. CASE d = c
    BY <1>4, <2>1, NotSent
  <2>2. CASE d # c
    <3>1. tray'[d] = tray[d]
      BY <2>2, OthersKept
    <3>2. answer' = TRUE => answer = TRUE
      BY <1>4, NoneAssumption
      DEF ClientStep, RequestActive, Request, Prepare, UnmapFails, LoadConfig, SendFails, AnsweredNo, AnsweredYes,
          TakeAnswer, MapDrive, MapFails, PersistLoad, PersistTruncate, PersistWrite, PersistWriteFails,
          Persisted, ClientDies, KeepHost, hostVars, ctlVars
    <3>. QED
      BY <1>1, <1>4, <3>1, <3>2
  <2>. QED
    BY <2>1, <2>2
<1>. QED
  BY <1>3, <1>4

(* But for truncating and writing, clients leave the file alone.           *)
LEMMA FileKept ==
  ASSUME NEW c \in Clients, ClientStep(c), ~PersistTruncate(c), ~PersistWrite(c)
  PROVE  file' = file
BY
DEF ClientStep, RequestActive, Request, Prepare, UnmapFails, LoadConfig, Send, ModeControl, SendFails, AnsweredNo,
    AnsweredYes, TakeAnswer, MapDrive, MapFails, PersistLoad, PersistWriteFails, ClientDies, hostVars, fileVars

(* A mode that is still wanted is what was wanted.                         *)
LEMMA WantKept ==
  ASSUME TypeInv, NEW c \in Clients, ClientStep(c), NEW d \in Clients, tray'[d] \notin {"idle", "load"}
  PROVE  want'[d] = want[d] /\ tray[d] # "idle"
<1>1. tray \in [Clients -> Places]
  BY DEF TypeInv, TypeOK
<1>2. CASE d = c
  BY <1>1, <1>2
  DEF ClientStep, RequestActive, Request, Prepare, UnmapFails, LoadConfig, Send, SendFails, AnsweredNo, AnsweredYes,
      MapDrive, MapFails, PersistLoad, PersistTruncate, PersistWrite, PersistWriteFails, Persisted, ClientDies,
      Move, clientVars, TypeInv, TypeOK
<1>3. CASE d # c
  BY <1>3, OthersKept
<1>. QED
  BY <1>2, <1>3

LEMMA ClientSaving ==
  ASSUME TypeInv, Exchange, Saving, NEW c \in Clients, ClientStep(c)
  PROVE  Saving'
<1>1. tray \in [Clients -> Places] /\ want \in [Clients -> Modes \cup {None}] /\ crossed \in BOOLEAN
      /\ trayConfig \in [Clients -> Config \cup {None}] /\ file \in Config
  BY DEF TypeInv, TypeOK, HostTypeOK
<1>2. ASSUME NEW d \in Clients, tray'[d] \in {"truncate", "write"} PROVE trayConfig'[d].mode = want'[d]
  <2>1. CASE d # c
    BY <1>2, <2>1, OthersKept DEF Saving
  <2>2. CASE PersistLoad(c) /\ d = c
    <3>1. want[c] \in Modes /\ trayConfig'[c] = [file EXCEPT !.mode = want[c]] /\ want' = want
      BY <1>1, <2>2 DEF PersistLoad, Move, TypeInv, TypeOK
    <3>. QED
      BY <1>1, <2>2, <3>1, ConfigTypes
  <2>3. CASE ~PersistLoad(c) /\ d = c
    <3>1. tray[c] = "truncate" /\ UNCHANGED <<want, trayConfig>>
      BY <1>1, <1>2, <2>3
      DEF ClientStep, RequestActive, Request, Prepare, UnmapFails, LoadConfig, Send, SendFails, AnsweredNo,
          AnsweredYes, MapDrive, MapFails, PersistTruncate, PersistWrite, PersistWriteFails, Persisted,
          ClientDies, Move, clientVars
    <3>. QED
      BY <2>3, <3>1 DEF Saving
  <2>. QED
    BY <2>1, <2>2, <2>3
<1>3. (~crossed' => ~crossed) /\ (UNCHANGED <<ctl, target>> \/ Send(c))
  <2>1. CASE Send(c)
    BY <1>1, <2>1 DEF Send
  <2>2. CASE ~Send(c)
    BY <2>2, NotSent, ClientsLeave
  <2>. QED
    BY <2>1, <2>2
<1>4. Send(c) => ctl' = "move"
  BY DEF Send, ModeControl
<1>5. \A d \in Clients : Settled(d)' => Settled(d) /\ want'[d] = want[d]
  BY ClientSettled, WantKept DEF Settled, Unsaved
<1>6. CASE PersistTruncate(c)
  <2>1. file' = Empty
    BY <1>6 DEF PersistTruncate
  <2>. QED
    BY <1>2, <1>3, <1>4, <2>1 DEF Saving
<1>7. CASE PersistWrite(c)
  (* No other client is engaged, and the service is not switching. *)
  <2>1. tray[c] = "write" /\ tray' = [tray EXCEPT ![c] = "idle"]
    BY <1>7 DEF PersistWrite, Persisted, Move
  <2>2. ~crossed => target = None /\ \A d \in Clients \ {c} : tray[d] \notin Engaged
    BY <2>1 DEF Exchange, Engaged, Unsaved
  <2>3. ~crossed => ctl \notin {"write", "flag", "pause"}
    BY <2>2 DEF TypeInv, TypeOK, HostTypeOK
  <2>4. ~crossed => \A d \in Clients : tray'[d] \notin Engaged
    BY <1>1, <2>1, <2>2 DEF Engaged, Unsaved
  <2>5. ~crossed => \A d \in Clients : ~Settled(d)' /\ tray'[d] # "write"
    BY <2>4 DEF Settled, Engaged, Unsaved
  <2>. QED
    BY <1>2, <1>3, <1>4, <2>3, <2>5 DEF Saving
<1>8. CASE ~PersistTruncate(c) /\ ~PersistWrite(c)
  <2>1. file' = file
    BY <1>8, FileKept
  <2>2. \A d \in Clients : tray'[d] = "write" => tray[d] = "write"
    <3>1. \A d \in Clients \ {c} : tray'[d] = tray[d]
      BY OthersKept
    <3>2. tray'[c] # "write"
      BY <1>1, <1>8
      DEF ClientStep, RequestActive, Request, Prepare, UnmapFails, LoadConfig, Send, SendFails, AnsweredNo,
          AnsweredYes, MapDrive, MapFails, PersistLoad, PersistWriteFails, Persisted, ClientDies, Move, clientVars
    <3>. QED
      BY <3>1, <3>2
  <2>. QED
    BY <1>2, <1>3, <1>4, <1>5, <2>1, <2>2 DEF Saving
<1>. QED
  BY <1>6, <1>7, <1>8

LEMMA StepSaving ==
  ASSUME TypeInv, Exchange, Saving, [Next]_vars
  PROVE  Saving'
<1>1. CASE UNCHANGED vars
  BY <1>1 DEF Saving, Settled, vars, hostVars, fileVars, ctlVars, trayVars, clientVars, ghostVars
<1>2. CASE EditSettings
  <2>1. UNCHANGED <<ctl, target, answer, tray, want, trayConfig, crossed>> /\ file # Empty /\ file'.mode = file.mode
    BY <1>2, EditLeaves DEF TypeInv, TypeOK, ctlVars, clientVars
  <2>. QED
    BY <2>1 DEF Saving, Settled
<1>. QED
  BY <1>1, <1>2, HostSaving, ClientSaving DEF Next

-----------------------------------------------------------------------------
(* What the pipeline does, and what the saved mode says.                   *)

(* A client's steps hold no mode that was not held: what it saves is what   *)
(* was held for it, and when it dies the file has it, or is empty.         *)
LEMMA HeldKept ==
  ASSUME TypeInv, Exchange, Saving, NEW c \in Clients, ClientStep(c), ~crossed', NEW mode, Held(mode)'
  PROVE  Held(mode) /\ ~crossed
<1>1. tray \in [Clients -> Places] /\ crossed \in BOOLEAN
  BY DEF TypeInv, TypeOK
<1>2. ~crossed
  <2>1. CASE Send(c)
    BY <1>1, <2>1 DEF Send
  <2>2. CASE ~Send(c)
    BY <2>2, NotSent
  <2>. QED
    BY <2>1, <2>2
<1>3. \A d \in Clients : Settled(d)' => Settled(d) /\ want'[d] = want[d]
  BY ClientSettled, WantKept DEF Settled, Unsaved
<1>4. CASE \E d \in Clients : Settled(d)' /\ want'[d] = mode
  BY <1>2, <1>3, <1>4 DEF Held
<1>5. CASE (\A d \in Clients : ~Settled(d)') /\ file' # Empty /\ file'.mode = mode
  <2>1. CASE PersistTruncate(c)
    BY <1>5, <2>1 DEF PersistTruncate
  <2>2. CASE PersistWrite(c)
    <3>1. file' = trayConfig[c] /\ tray[c] = "write"
      BY <2>2 DEF PersistWrite, Persisted, Move
    <3>2. trayConfig[c].mode = want[c] /\ Settled(c)
      BY <3>1 DEF Saving, Settled, Unsaved
    <3>. QED
      BY <1>2, <1>5, <3>1, <3>2 DEF Held
  <2>3. CASE ~PersistTruncate(c) /\ ~PersistWrite(c)
    <3>1. file # Empty /\ file.mode = mode
      BY <1>5, <2>3, FileKept
    <3>2. ASSUME NEW d \in Clients, Settled(d) PROVE want[d] = mode
      BY <1>2, <3>1, <3>2 DEF Saving
    <3>. QED
      BY <1>2, <3>1, <3>2 DEF Held
  <2>. QED
    BY <2>1, <2>2, <2>3
<1>. QED
  BY <1>4, <1>5 DEF Held

(* Nor do the service's, but for its save.                                 *)
LEMMA HostHeld ==
  ASSUME TypeInv, Exchange, Saving, HostStep, ~Write, ~WriteFails, UNCHANGED trayVars, ~crossed, NEW mode, Held(mode)'
  PROVE  Held(mode)
<1>1. UNCHANGED <<tray, want>>
  BY DEF trayVars, clientVars
<1>2. \A d \in Clients : Settled(d)' => Settled(d)
  BY SettledBefore
<1>3. CASE \E d \in Clients : Settled(d)' /\ want'[d] = mode
  BY <1>1, <1>2, <1>3 DEF Held
<1>4. CASE (\A d \in Clients : ~Settled(d)') /\ file' # Empty /\ file'.mode = mode
  <2>1. ~Truncate
    BY <1>4 DEF Truncate
  <2>2. file # Empty /\ file.mode = mode
    BY <1>4, <2>1, SwitchGoesOn
  <2>3. ASSUME NEW d \in Clients, Settled(d) PROVE want[d] = mode
    BY <2>2, <2>3 DEF Saving
  <2>. QED
    BY <2>2, <2>3 DEF Held
<1>. QED
  BY <1>3, <1>4 DEF Held

(* Once the service has saved, or has tried to, only its mode is held.     *)
LEMMA SavedHeld ==
  ASSUME TypeInv, Exchange, Saving, Write \/ WriteFails, UNCHANGED trayVars, ~crossed, NEW mode, Held(mode)'
  PROVE  mode = target
<1>1. /\ target # None /\ ctlConfig.mode = target /\ UNCHANGED <<tray, want>>
      /\ \A c \in Clients : tray[c] \notin Unsaved
  BY HostSaves
<1>2. ASSUME NEW c \in Clients, Settled(c)' PROVE want[c] = target
  <2>1. tray[c] = "sent"
    BY <1>1, <1>2 DEF Settled
  <2>. QED
    BY <1>1, <2>1 DEF Exchange
<1>3. file' # Empty => file'.mode = target
  BY <1>1 DEF Write, WriteFails, Saving, fileVars
<1>. QED
  BY <1>1, <1>2, <1>3 DEF Held

LEMMA EditHeld ==
  ASSUME TypeInv, EditSettings, NEW mode, Held(mode)'
  PROVE  Held(mode)
<1>1. UNCHANGED <<ctl, answer, tray, want>> /\ file # Empty /\ file'.mode = file.mode
  BY EditLeaves DEF ctlVars, clientVars
<1>2. \A c \in Clients : Settled(c)' <=> Settled(c)
  BY <1>1 DEF Settled
<1>. QED
  BY <1>1, <1>2 DEF Held

LEMMA ClientInForce ==
  ASSUME TypeInv, Exchange, Saving, InForce, NEW c \in Clients, ClientStep(c)
  PROVE  InForce'
<1>1. UNCHANGED <<pc, config, caching, scheduler, overtaken>> /\ (ctl' = ctl \/ ctl = "idle")
  BY ClientsLeave DEF Send, ModeControl, Accepts, workVars, liveVars
<1>2. ASSUME ~overtaken', ~crossed', NEW mode \in Modes \cup {None}, Held(mode)'
      PROVE  Held(mode) /\ ~crossed /\ ~overtaken
  BY <1>1, <1>2, HeldKept
<1>. QED
  BY <1>1, <1>2 DEF InForce

(* While the service switches, the mode it switches to is held.            *)
LEMMA SwitchHeld ==
  ASSUME TypeInv, Exchange, Saving, ~crossed, ctl \in {"flag", "pause"}, NEW mode, Held(mode)
  PROVE  mode = target
<1>1. target # None /\ (file # Empty => file.mode = target)
  BY DEF TypeInv, TypeOK, HostTypeOK, Saving
<1>2. ASSUME NEW c \in Clients, Settled(c) PROVE want[c] = target
  BY <1>1, <1>2 DEF Exchange, Settled
<1>. QED
  BY <1>1, <1>2 DEF Held

LEMMA WorkerInForce ==
  ASSUME PointerInv, Exchange, Saving, InForce, WorkerStep, UNCHANGED trayVars
  PROVE  InForce'
<1>. USE DEF InForce, Goto, trayVars, clientVars, ghostVars, fileVars, workVars, liveVars, ctlVars
<1>1. ASSUME ~crossed, NEW mode, Held(mode)' PROVE Held(mode)
  <2>1. HostStep /\ ~Write /\ ~WriteFails
    BY DEF HostStep, WorkerStep, Load, OpenThrows, Publish, ApplyFlag, ApplyPause, StartSource, SourceThrows,
       Unpublish, StopScheduler, ReportStopped, ProcessEnds, Gone, Write, WriteFails
  <2>. QED
    BY <1>1, <2>1, HostHeld DEF PointerInv
<1>2. CASE Load
  (* The file was whole, so it holds the mode. *)
  <2>1. ASSUME ~overtaken', ~crossed, NEW mode, Held(mode) PROVE config'.mode = mode
    <3>1. file # Empty /\ config' = file
      BY <1>2, <2>1 DEF Load
    <3>. QED
      BY <2>1, <3>1 DEF Held, Saving
  <2>2. pc' = "open" /\ crossed' = crossed
    BY <1>2 DEF Load
  <2>. QED
    BY <1>1, <2>1, <2>2
<1>3. CASE Publish
  BY <1>1, <1>3 DEF Publish
<1>4. CASE ApplyFlag
  BY <1>1, <1>4 DEF ApplyFlag
<1>5. CASE ApplyPause
  BY <1>1, <1>5 DEF ApplyPause
<1>6. CASE StartSource
  BY <1>1, <1>6 DEF StartSource
<1>7. CASE OpenThrows \/ SourceThrows \/ Unpublish \/ StopScheduler \/ ReportStopped \/ ProcessEnds
  <2>1. pc' \notin {"open", "flag", "pause", "source", "wait"}
    BY <1>7 DEF OpenThrows, SourceThrows, Unpublish, StopScheduler, ReportStopped, ProcessEnds, Gone
  <2>. QED
    BY <2>1
<1>. QED
  BY <1>2, <1>3, <1>4, <1>5, <1>6, <1>7 DEF WorkerStep

LEMMA HandlerInForce ==
  ASSUME PointerInv, Exchange, Saving, InForce, UNCHANGED trayVars,
         HandlerStep \/ StartService \/ StopControl \/ Crash
  PROVE  InForce'
<1>. USE DEF InForce, KeepWork, trayVars, clientVars, ghostVars, fileVars, workVars, liveVars, ctlVars
<1>1. TypeInv
  BY DEF PointerInv
<1>2. ASSUME ~Write, ~WriteFails, ~crossed, NEW mode, Held(mode)' PROVE Held(mode)
  BY <1>1, <1>2, HostHeld DEF HostStep
<1>3. CASE Truncate
  BY <1>3 DEF Truncate
<1>4. CASE Write \/ WriteFails
  <2>1. overtaken \in BOOLEAN
    BY <1>1 DEF TypeInv, TypeOK, HostTypeOK
  <2>2. ctl' = "flag" /\ pc' = pc /\ (~overtaken' => pc \notin {"open", "flag", "pause"})
    BY <1>4, <2>1 DEF Write, WriteFails, Overtake
  <2>. QED
    BY <2>2
<1>5. CASE SwitchFlag
  <2>1. ctl = "flag" /\ ctl' = "pause" /\ caching' = Enables(target)
        /\ UNCHANGED <<file, pc, config, overtaken, crossed>> /\ ~Write /\ ~WriteFails
    BY <1>5 DEF SwitchFlag, Write, WriteFails
  <2>. QED
    BY <1>1, <1>2, <2>1, SwitchHeld
<1>6. CASE SwitchPause
  <2>1. ctl = "pause" /\ ctl' = "idle" /\ UNCHANGED <<file, pc, config, caching, overtaken, crossed>>
        /\ ~Write /\ ~WriteFails
    BY <1>6 DEF SwitchPause, Answered, Write, WriteFails
  <2>2. pc \in {"source", "wait"} => scheduler' = PauseTo(target)
    BY <1>6 DEF SwitchPause, PointerInv, Pointer
  <2>. QED
    BY <1>1, <1>2, <2>1, <2>2, SwitchHeld
<1>7. CASE SwitchDangling \/ Crash \/ StartService
  <2>1. pc' \notin {"open", "flag", "pause", "source", "wait"}
    BY <1>1, <1>7, LostGone
    DEF SwitchDangling, Crash, StartService, Goto, Gone, PointerInv, Pointer, TypeInv, TypeOK, HostTypeOK
  <2>. QED
    BY <2>1
<1>8. CASE ReportStopping \/ SignalStop \/ StopControl \/ Refuse \/ StayPut \/ RemoveMount \/ AssignMount
             \/ AssignFails
  <2>1. /\ UNCHANGED <<file, pc, config, caching, scheduler, overtaken, crossed>>
        /\ ctl \notin {"write", "flag", "pause"} /\ ~Write /\ ~WriteFails
    BY <1>8 DEF ReportStopping, SignalStop, StopControl, Accepts, Refuse, StayPut, RemoveMount, AssignMount,
       AssignFails, Write, WriteFails
  <2>. QED
    BY <1>2, <2>1
<1>. QED
  BY <1>3, <1>4, <1>5, <1>6, <1>7, <1>8 DEF HandlerStep

LEMMA StepInForce ==
  ASSUME PointerInv, Exchange, Saving, InForce, [Next]_vars
  PROVE  InForce'
<1>1. CASE UNCHANGED vars
  BY <1>1 DEF InForce, Held, Settled, vars, hostVars, fileVars, workVars, liveVars, ctlVars, trayVars, clientVars,
     ghostVars
<1>2. CASE EditSettings
  <2>1. UNCHANGED <<pc, config, caching, scheduler, ctl, overtaken, crossed>>
    BY <1>2, EditLeaves DEF PointerInv, TypeInv, TypeOK, workVars, liveVars, ctlVars
  <2>2. \A mode : Held(mode)' => Held(mode)
    BY <1>2, EditHeld DEF PointerInv, TypeInv, TypeOK
  <2>. QED
    BY <2>1, <2>2 DEF InForce
<1>. QED
  BY <1>1, <1>2, WorkerInForce, HandlerInForce, ClientInForce DEF Next, HostStep, PointerInv

-----------------------------------------------------------------------------
(* Where the cache volume is.                                              *)

LEMMA ClientVolume ==
  ASSUME TypeInv, Exchange, Saving, Volume, NEW c \in Clients, ClientStep(c)
  PROVE  Volume'
<1>1. UNCHANGED <<mount, cut>>
  BY ClientsLeave
<1>2. UNCHANGED <<ctl, target>> \/ (ctl = "idle" /\ ctl' = "move")
  BY ClientsLeave DEF Send, ModeControl, Accepts
<1>3. ASSUME NEW mode, ~crossed', Held(mode)' PROVE Held(mode) /\ ~crossed
  BY <1>3, HeldKept
<1>. QED
  BY <1>1, <1>2, <1>3 DEF Volume, HasLetter, Lettered, Moving

(* Of the service's steps only those of a switch move the volume. *)
LEMMA HostVolume ==
  ASSUME TypeInv, Exchange, Saving, Volume, HostStep, UNCHANGED trayVars
  PROVE  Volume'
<1>. USE DEF Volume, HasLetter, Lettered, Moving, KeepWork, trayVars, clientVars, ghostVars, fileVars, workVars,
     liveVars, ctlVars
<1>1. ASSUME ~Write, ~WriteFails, ~crossed, NEW mode, Held(mode)' PROVE Held(mode)
  BY <1>1, HostHeld
<1>2. CASE WorkerStep
  <2>1. /\ UNCHANGED <<mount, cut, crossed>> /\ (UNCHANGED <<ctl, target>> \/ (ctl = "idle" /\ ctl' = "idle"))
        /\ ~Write /\ ~WriteFails
    BY <1>2 DEF WorkerStep, Load, OpenThrows, Publish, ApplyFlag, ApplyPause, StartSource, SourceThrows,
       Unpublish, StopScheduler, ReportStopped, ProcessEnds, Gone, Write, WriteFails
  <2>. QED
    BY <1>1, <2>1
<1>3. CASE StartService \/ StopControl \/ ReportStopping \/ SignalStop \/ Refuse
  <2>1. /\ UNCHANGED <<mount, cut, crossed>> /\ ~Write /\ ~WriteFails
        /\ ctl' \in {"idle", "stop", "signal"} /\ ctl \in {"idle", "stop", "signal", "move"}
    BY <1>3 DEF StartService, StopControl, Accepts, ReportStopping, SignalStop, Refuse, Write, WriteFails
  <2>. QED
    BY <1>1, <2>1
<1>4. CASE StayPut
  BY <1>4 DEF StayPut, MoveNeeded
<1>5. CASE RemoveMount
  BY <1>5 DEF RemoveMount, From, Onto, TypeInv, TypeOK, HostTypeOK
<1>6. CASE AssignMount
  <2>1. mount["N"] = None /\ mount["K"] = None /\ mount \in [{"N", "K"} -> {"cache", None}]
    BY <1>6 DEF AssignMount, TypeInv, TypeOK, HostTypeOK
  <2>. QED
    BY <1>6, <2>1 DEF AssignMount, Onto
<1>7. CASE AssignFails \/ Truncate \/ SwitchFlag \/ SwitchPause
  <2>1. ~Write /\ ~WriteFails
    BY <1>7 DEF AssignFails, Truncate, SwitchFlag, SwitchPause, Write, WriteFails
  <2>. QED
    BY <1>1, <1>7, <2>1 DEF AssignFails, Truncate, SwitchFlag, SwitchPause, Answered
<1>8. CASE Write \/ WriteFails
  <2>1. target # None /\ ctl = "write" /\ ctl' = "flag" /\ UNCHANGED <<mount, target, cut, crossed>>
    BY <1>8 DEF Write, WriteFails, TypeInv, TypeOK, HostTypeOK
  <2>2. ASSUME ~crossed, NEW mode, Held(mode)' PROVE mode = target
    BY <1>8, <2>2, SavedHeld
  <2>3. HasLetter /\ Enables(target) => mount["K"] # None
    BY <2>1, NoneAssumption DEF Enables
  <2>. QED
    BY <2>1, <2>2, <2>3
<1>9. CASE SwitchDangling \/ Crash
  <2>1. /\ UNCHANGED <<mount, crossed>> /\ ctl' = "idle"
        /\ ~cut' => ~cut /\ ctl \notin {"assign", "save", "write"}
    <3>1. CASE Lost
      <4>1. cut \in BOOLEAN /\ cut' = (cut \/ ctl \in {"assign", "save", "write"})
        BY <3>1 DEF Lost, TypeInv, TypeOK, HostTypeOK
      <4>. QED
        BY <1>9, <3>1, <4>1, LostGone DEF SwitchDangling, Crash, Gone
    <3>2. CASE ~Lost
      BY <1>9, <3>2 DEF SwitchDangling, Crash, Answered
    <3>. QED
      BY <3>1, <3>2
  <2>2. ~Write /\ ~WriteFails
    BY <2>1 DEF Write, WriteFails
  <2>. QED
    BY <1>1, <2>1, <2>2
<1>. QED
  BY <1>2, <1>3, <1>4, <1>5, <1>6, <1>7, <1>8, <1>9 DEF HostStep, HandlerStep

(* A step that leaves the volume, and brings no configuration to the        *)
(* worker and no caching to the pipeline, leaves it in reach.              *)
LEMMA ReachKept ==
  ASSUME Reach, UNCHANGED <<mount, crossed>>,
         ~cut' => ~cut, ~overtaken' => ~overtaken,
         ctl' \notin Moving => ctl \notin Moving /\ (ctl = "flag" => ctl' = "flag"),
         pc' \in {"open", "flag"} => pc \in {"open", "flag"} /\ config' = config,
         pc' \in {"pause", "source", "wait"} => pc \in {"pause", "source", "wait"} /\ caching' = caching
  PROVE  Reach'
BY DEF Reach, HasLetter

LEMMA WorkerReach ==
  ASSUME PointerInv, Exchange, Saving, Volume, Reach, WorkerStep, UNCHANGED trayVars
  PROVE  Reach'
<1>. USE DEF Goto, trayVars, ghostVars, fileVars, workVars, liveVars, ctlVars
<1>1. CASE Load
  <2>1. UNCHANGED <<mount, crossed, cut, ctl>> /\ pc' = "open" /\ config' = file
    BY <1>1 DEF Load
  <2>2. ASSUME ~cut, ~crossed, ~overtaken', ctl \notin Moving, HasLetter, Enables(file.mode)
        PROVE  mount["K"] # None
    <3>1. file # Empty /\ file.mode \in Modes \cup {None}
      BY <1>1, <2>2 DEF Load, PointerInv, TypeInv, TypeOK, HostTypeOK, Config
    <3>2. Held(file.mode)
      BY <2>2, <3>1 DEF Held, Saving
    <3>. QED
      BY <2>2, <3>1, <3>2 DEF Volume
  <2>. QED
    BY <2>1, <2>2 DEF Reach, HasLetter
<1>2. CASE ApplyFlag
  <2>1. UNCHANGED <<mount, crossed, cut, ctl, overtaken>> /\ pc = "flag" /\ pc' = "pause"
        /\ caching' = Enables(config.mode)
    BY <1>2 DEF ApplyFlag
  <2>. QED
    BY <2>1 DEF Reach, HasLetter
<1>3. CASE ProcessEnds \/ StopScheduler \/ ReportStopped \/ OpenThrows \/ SourceThrows \/ Unpublish
  <2>1. pc' \notin {"open", "flag", "pause", "source", "wait"}
    BY <1>3 DEF ProcessEnds, Gone, StopScheduler, ReportStopped, OpenThrows, SourceThrows, Unpublish
  <2>. QED
    BY <2>1 DEF Reach
<1>4. CASE Publish \/ ApplyPause \/ StartSource
  BY <1>4, ReachKept DEF Publish, ApplyPause, StartSource
<1>. QED
  BY <1>1, <1>2, <1>3, <1>4 DEF WorkerStep

LEMMA HandlerReach ==
  ASSUME PointerInv, Volume, Reach, UNCHANGED trayVars,
         HandlerStep \/ StartService \/ StopControl \/ Crash
  PROVE  Reach'
<1>. USE DEF KeepWork, trayVars, ghostVars, fileVars, workVars, liveVars, ctlVars
<1>1. target # None \/ ctl \in {"idle", "stop", "signal"}
  BY DEF PointerInv, TypeInv, TypeOK, HostTypeOK
<1>2. CASE RemoveMount \/ AssignMount \/ Truncate \/ StayPut
  BY <1>2 DEF RemoveMount, AssignMount, Truncate, StayPut, Reach, Moving
<1>3. CASE AssignFails
  <2>1. ~HasLetter /\ mount' = mount
    BY <1>3 DEF AssignFails, Volume
  <2>. QED
    BY <2>1 DEF Reach, HasLetter
<1>4. CASE Write \/ WriteFails
  (* A configuration the worker has loaded is overtaken. *)
  <2>1. overtaken \in BOOLEAN
    BY DEF PointerInv, TypeInv, TypeOK, HostTypeOK
  <2>2. ctl' = "flag" /\ pc' = pc /\ (~overtaken' => pc \notin {"open", "flag", "pause"})
    BY <1>4, <2>1 DEF Write, WriteFails, Overtake
  <2>. QED
    BY <2>2 DEF Reach
<1>5. CASE SwitchFlag
  <2>1. ctl = "flag" /\ ctl' = "pause" /\ caching' = Enables(target)
        /\ UNCHANGED <<mount, crossed, cut, overtaken, pc, config>>
    BY <1>5 DEF SwitchFlag
  <2>2. HasLetter /\ Enables(target) => mount["K"] # None
    BY <1>1, <2>1 DEF Volume, Lettered, Enables
  <2>. QED
    BY <2>1, <2>2 DEF Reach, HasLetter, Moving
<1>6. CASE SwitchDangling \/ Crash \/ StartService
  <2>1. pc' \notin {"open", "flag", "pause", "source", "wait"}
    BY <1>6, LostGone
    DEF SwitchDangling, Crash, StartService, Goto, Gone, PointerInv, Pointer, TypeInv, TypeOK, HostTypeOK
  <2>. QED
    BY <2>1 DEF Reach
<1>7. CASE ReportStopping \/ SignalStop \/ StopControl \/ Refuse \/ SwitchPause
  <2>1. /\ UNCHANGED <<mount, crossed, cut, overtaken, pc, config, caching>>
        /\ ctl \notin Moving /\ ctl # "flag"
    BY <1>7 DEF ReportStopping, SignalStop, StopControl, Accepts, Refuse, SwitchPause, Moving
  <2>. QED
    BY <2>1, ReachKept
<1>. QED
  BY <1>2, <1>3, <1>4, <1>5, <1>6, <1>7 DEF HandlerStep

LEMMA StepReach ==
  ASSUME SwitchInv, [Next]_vars
  PROVE  Reach'
<1>. USE DEF SwitchInv, workVars, liveVars, ctlVars
<1>1. ASSUME NEW c \in Clients, ClientStep(c) PROVE Reach'
  <2>1. UNCHANGED <<mount, cut, overtaken, pc, config, caching>> /\ (ctl' = ctl \/ (ctl = "idle" /\ ctl' = "move"))
    BY <1>1, ClientsLeave DEF Send, ModeControl, Accepts
  <2>2. ~crossed' => ~crossed
    <3>1. crossed \in BOOLEAN
      BY DEF PointerInv, TypeInv, TypeOK
    <3>. QED
      BY <1>1, <3>1, NotSent DEF PointerInv, Send
  <2>. QED
    BY <2>1, <2>2 DEF Reach, HasLetter, Moving
<1>2. CASE EditSettings
  BY <1>2, EditLeaves, ReachKept DEF PointerInv, TypeInv, TypeOK
<1>3. CASE UNCHANGED vars
  BY <1>3, ReachKept DEF vars, hostVars, fileVars, trayVars, ghostVars
<1>. QED
  BY <1>1, <1>2, <1>3, WorkerReach, HandlerReach DEF Next, HostStep

LEMMA InitSwitch == TrayInit => SwitchInv
<1>. SUFFICES ASSUME TrayInit PROVE SwitchInv
  OBVIOUS
<1>1. TypeInv
  BY InitTypes
<1>2. Exchange /\ Saving /\ InForce /\ Pointer
  BY DEF TrayInit, Init, Exchange, Engaged, Unsaved, Saving, Settled, InForce, Pointer
<1>3. Volume
  <2>1. \A c \in Clients : tray[c] = "idle"
    BY DEF TrayInit
  <2>2. mount["N"] = None \/ mount["K"] = None
    BY DEF TrayInit, Init
  <2>3. (Enables(file.mode) => mount["K"] # None) /\ ctl = "idle"
    BY NoneAssumption DEF TrayInit, Init
  <2>. QED
    BY <2>1, <2>2, <2>3 DEF Volume, Held, Settled, Unsaved
<1>4. Reach
  BY DEF TrayInit, Init, Reach
<1>. QED
  BY <1>1, <1>2, <1>3, <1>4 DEF SwitchInv, PointerInv

LEMMA StepSwitch == SwitchInv /\ [Next]_vars => SwitchInv'
<1>. SUFFICES ASSUME SwitchInv, [Next]_vars PROVE SwitchInv'
  OBVIOUS
<1>1. PointerInv' /\ Exchange' /\ Saving' /\ InForce'
  BY StepTypes, StepPointer, StepExchange, StepSaving, StepInForce DEF SwitchInv, PointerInv
<1>2. Volume'
  <2>1. CASE UNCHANGED vars
    BY <2>1 DEF SwitchInv, Volume, HasLetter, Lettered, Held, Settled, vars, hostVars, fileVars, ctlVars, trayVars, clientVars,
       ghostVars
  <2>2. CASE EditSettings
    <3>1. UNCHANGED <<mount, ctl, target, cut, crossed>>
      BY <2>2, EditLeaves DEF SwitchInv, PointerInv, TypeInv, TypeOK, ctlVars
    <3>2. \A mode : Held(mode)' => Held(mode)
      BY <2>2, EditHeld DEF SwitchInv, PointerInv, TypeInv, TypeOK
    <3>. QED
      BY <3>1, <3>2 DEF SwitchInv, Volume, HasLetter, Lettered
  <2>. QED
    BY <2>1, <2>2, ClientVolume, HostVolume DEF Next, SwitchInv, PointerInv
<1>. QED
  BY <1>1, <1>2, StepReach DEF SwitchInv

LEMMA SwitchInvariant == Spec => []SwitchInv
BY InitSwitch, StepSwitch, PTL DEF Spec

(* Nobody saves any more: the mode that is held is that of the file.       *)
LEMMA QuietHeld ==
  ASSUME SwitchInv, Quiet, file # Empty
  PROVE  file.mode \in Modes \cup {None} /\ Held(file.mode) /\ ctl = "idle"
BY DEF SwitchInv, PointerInv, TypeInv, TypeOK, HostTypeOK, Config, Quiet, Held, Settled, Unsaved

LEMMA QuietInForce == SwitchInv => ModeInForce
<1>. SUFFICES ASSUME SwitchInv, pc = "wait", Quiet, file # Empty, ~overtaken, ~crossed
              PROVE  (caching <=> Enables(file.mode)) /\ scheduler = PauseTo(file.mode)
  BY DEF ModeInForce
<1>1. caching = Enables(file.mode) /\ scheduler = PauseTo(file.mode)
  BY QuietHeld DEF SwitchInv, InForce
<1>. QED
  BY <1>1

(* However a start, the switches of several clients and a crash interleave, *)
(* the waiting service does what the saved mode says, if one is saved,     *)
(* unless the start was overtaken or the requests of two clients crossed.  *)
THEOREM SavedModeInForce == Spec => []ModeInForce
BY SwitchInvariant, QuietInForce, PTL

(* The copies of a caching service go to a letter the cache volume has.    *)
THEOREM CacheStaysReachable == Spec => []CacheReachable
<1>1. SwitchInv => CacheReachable
  BY DEF SwitchInv, Reach, Moving, CacheReachable, Quiet
<1>. QED
  BY SwitchInvariant, <1>1, PTL

-----------------------------------------------------------------------------
(* The settings.                                                           *)

LEMMA HostWhole ==
  ASSUME TypeInv, Whole, HostStep, UNCHANGED trayVars
  PROVE  Whole'
<1>. USE DEF Whole, trayVars, clientVars, ghostVars
<1>1. /\ torn \in BOOLEAN /\ contended \in BOOLEAN /\ Empty.settings = 0
      /\ UNCHANGED <<contended, edits, tray, trayConfig>>
  BY DEF TypeInv, TypeOK, HostTypeOK, Empty
<1>2. torn => torn'
  BY <1>1
  DEF HostStep, WorkerStep, Load, OpenThrows, Publish, ApplyFlag, ApplyPause, StartSource, SourceThrows,
      Unpublish, StopScheduler, ReportStopped, ProcessEnds, HandlerStep, ReportStopping, SignalStop, Refuse,
      StayPut, RemoveMount, AssignMount, AssignFails, Truncate, Write, WriteFails, SwitchFlag, SwitchPause,
      SwitchDangling, StartService, StopControl, Crash, Lost, KeepWork
<1>3. ctl' \in {"move", "assign", "save", "write"} =>
        ctl \in {"move", "assign", "save", "write"} /\ ctlConfig' = ctlConfig
  <2>1. CASE WorkerStep \/ StartService \/ StopControl
    BY <2>1 DEF WorkerStep, Load, OpenThrows, Publish, ApplyFlag, ApplyPause, StartSource, SourceThrows,
       Unpublish, StopScheduler, ReportStopped, ProcessEnds, Gone, StartService, StopControl, ctlVars
  <2>2. CASE HandlerStep
    BY <2>2, LostGone DEF HandlerStep, ReportStopping, SignalStop, Refuse, StayPut, RemoveMount, AssignMount,
       AssignFails, Truncate, Write, WriteFails, SwitchFlag, SwitchPause, SwitchDangling, Answered, Gone
  <2>3. CASE Crash
    BY <2>3, LostGone DEF Crash, Gone
  <2>. QED
    BY <2>1, <2>2, <2>3 DEF HostStep
<1>4. CASE Truncate
  <2>1. file' = Empty /\ ctl' = "write"
    BY <1>4 DEF Truncate
  <2>. QED
    BY <1>1, <1>3, <2>1
<1>5. CASE Write
  <2>1. file' = ctlConfig /\ ctl = "write" /\ ctl' = "flag"
    BY <1>5 DEF Write
  <2>2. edits # 0
    BY EditsAssumption DEF TypeInv, TypeOK
  <2>. QED
    BY <1>1, <2>1, <2>2
<1>7. CASE WriteFails
  <2>1. file' = file /\ torn' = TRUE /\ ctl' = "flag"
    BY <1>7 DEF WriteFails, fileVars
  <2>. QED
    BY <1>1, <2>1
<1>6. CASE ~Truncate /\ ~Write /\ ~WriteFails
  (* Only a crash leaves a write before its end. *)
  <2>1. ctl = "write" => torn' \/ ctl' = "write"
    <3>1. CASE Lost
      BY <1>1, <3>1 DEF Lost
    <3>2. CASE ~Lost
      BY <1>6, <3>2
      DEF HostStep, WorkerStep, Load, OpenThrows, Publish, ApplyFlag, ApplyPause, StartSource, SourceThrows,
          Unpublish, StopScheduler, ReportStopped, ProcessEnds, HandlerStep, ReportStopping, SignalStop, Refuse,
          StayPut, RemoveMount, AssignMount, AssignFails, SwitchFlag, SwitchPause, SwitchDangling,
          StartService, StopControl, Accepts, Crash, ctlVars
    <3>. QED
      BY <3>1, <3>2
  <2>2. file' = file
    BY <1>6, SwitchGoesOn
  <2>. QED
    BY <1>1, <1>2, <1>3, <2>1, <2>2
<1>. QED
  BY <1>4, <1>5, <1>6, <1>7

LEMMA ClientWhole ==
  ASSUME TypeInv, Whole, NEW c \in Clients, ClientStep(c)
  PROVE  Whole'
<1>. USE DEF Whole, Move
<1>1. /\ tray \in [Clients -> Places] /\ contended \in BOOLEAN /\ torn \in BOOLEAN
      /\ trayConfig \in [Clients -> Config \cup {None}] /\ file \in Config /\ Empty.settings = 0
  BY DEF TypeInv, TypeOK, HostTypeOK, Empty
<1>2. UNCHANGED <<ctl, ctlConfig>> \/ Send(c)
  BY ClientsLeave
<1>3. want[c] \in Modes => [file EXCEPT !.mode = want[c]].settings = file.settings
  BY <1>1, ConfigTypes
<1>4. CASE Send(c)
  <2>1. want[c] \in Modes /\ ctlConfig' = [file EXCEPT !.mode = want[c]] /\ ctl # "write"
    BY <1>4 DEF Send, ModeControl, Accepts, TypeInv, TypeOK
  <2>2. ~contended' => ~contended /\ file # Empty
    BY <1>1, <1>4 DEF Send
  <2>3. tray' = [tray EXCEPT ![c] = "sent"] /\ UNCHANGED <<file, trayConfig, edits>> /\ tray[c] = "send"
    BY <1>4 DEF Send, ModeControl, fileVars
  <2>. QED
    BY <1>1, <1>2, <1>3, <2>1, <2>2, <2>3
<1>5. CASE PersistLoad(c)
  <2>1. want[c] \in Modes /\ trayConfig' = [trayConfig EXCEPT ![c] = [file EXCEPT !.mode = want[c]]]
    BY <1>5 DEF PersistLoad, TypeInv, TypeOK
  <2>2. ~contended' => ~contended /\ file # Empty
    BY <1>1, <1>5 DEF PersistLoad
  <2>3. tray' = [tray EXCEPT ![c] = "truncate"] /\ UNCHANGED <<file, ctl, ctlConfig, edits>> /\ tray[c] = "persist"
    BY <1>5 DEF PersistLoad, hostVars, fileVars, ctlVars
  <2>. QED
    BY <1>1, <1>2, <1>3, <2>1, <2>2, <2>3
<1>6. CASE PersistTruncate(c)
  <2>1. /\ tray' = [tray EXCEPT ![c] = "write"] /\ tray[c] = "truncate" /\ file' = Empty
        /\ UNCHANGED <<ctl, ctlConfig, trayConfig, edits, contended>>
    BY <1>6 DEF PersistTruncate, KeepHost, ctlVars, ghostVars
  <2>. QED
    BY <1>1, <2>1
<1>7. CASE PersistWrite(c)
  <2>1. /\ tray' = [tray EXCEPT ![c] = "idle"] /\ tray[c] = "write" /\ file' = trayConfig[c]
        /\ trayConfig' = [trayConfig EXCEPT ![c] = None]
        /\ UNCHANGED <<ctl, ctlConfig, edits, contended>>
    BY <1>7 DEF PersistWrite, Persisted, KeepHost, ctlVars
  <2>2. edits # 0
    BY EditsAssumption DEF TypeInv, TypeOK
  <2>. QED
    BY <1>1, <2>1, <2>2
<1>9. CASE PersistWriteFails(c) \/ ClientDies(c)
  <2>1. /\ tray' = [tray EXCEPT ![c] = "idle"] /\ UNCHANGED <<file, ctl, ctlConfig, edits, contended>>
        /\ trayConfig' = [trayConfig EXCEPT ![c] = None]
        /\ (torn \/ tray[c] = "write" => torn')
    BY <1>1, <1>9 DEF PersistWriteFails, Persisted, ClientDies, Fail, KeepHost, ctlVars
  <2>. QED
    BY <1>1, <2>1
<1>8. CASE \/ \E mode \in Modes : RequestActive(c, mode) \/ Request(c, mode)
           \/ Prepare(c) \/ UnmapFails(c) \/ SendFails(c) \/ AnsweredNo(c) \/ AnsweredYes(c)
           \/ MapDrive(c) \/ MapFails(c)
  <2>1. /\ tray[c] \notin {"truncate", "write"} /\ tray'[c] \notin {"truncate", "write"}
        /\ UNCHANGED <<file, ctl, ctlConfig, contended, edits, torn>>
    BY <1>1, <1>8
    DEF RequestActive, Request, Prepare, UnmapFails, LoadConfig, SendFails, AnsweredNo, AnsweredYes, Fail,
        TakeAnswer, MapDrive, MapFails, hostVars, fileVars, ctlVars, clientVars, ghostVars, Places
  <2>. QED
    BY <2>1, OthersKept
<1>. QED
  BY <1>4, <1>5, <1>6, <1>7, <1>8, <1>9 DEF ClientStep

(* What the user saves while nobody holds what was loaded before is in the *)
(* file; otherwise the history says so.                                    *)
LEMMA EditWhole ==
  ASSUME TypeInv, Whole, EditSettings
  PROVE  Whole'
<1>1. /\ UNCHANGED <<ctl, ctlConfig, tray, trayConfig>> /\ file' # Empty /\ file'.settings = edits'
      /\ contended \in BOOLEAN
  BY EditLeaves DEF TypeInv, TypeOK, ctlVars, clientVars
<1>2. ~contended' => ~Rewriting
  BY <1>1 DEF EditSettings
<1>. QED
  BY <1>1, <1>2 DEF Whole, Rewriting

(* The settings the user saved last are lost only when a program dies or   *)
(* fails between emptying the config file and writing it, when two         *)
(* programs rewrite it at once, or when the user saves while one does.     *)
THEOREM SettingsSurvive == Spec => []SettingsKept
<1>1. TrayInit => Whole
  BY NoneAssumption DEF TrayInit, Init, Whole, Empty
<1>2. TypeInv /\ Whole /\ [Next]_vars => Whole'
  <2>1. Whole /\ UNCHANGED vars => Whole'
    BY DEF Whole, vars, hostVars, fileVars, ctlVars, trayVars, clientVars, ghostVars
  <2>. QED
    BY <2>1, HostWhole, ClientWhole, EditWhole DEF Next
<1>3. Whole => SettingsKept
  BY DEF Whole, SettingsKept
<1>. QED
  BY InitTypes, StepTypes, <1>1, <1>2, <1>3, PTL DEF Spec

-----------------------------------------------------------------------------
(* One switch that no other overlaps.                                      *)

(* Without a mode control the service leaves drives, file and answer alone. *)
LEMMA IdleService ==
  ASSUME TypeInv, HostStep, target = None
  PROVE  UNCHANGED <<file, mount, answer>> /\ target' = None
<1>. USE DEF TypeInv, TypeOK, HostTypeOK, fileVars, ctlVars
<1>1. ctl \in {"idle", "stop", "signal"}
  OBVIOUS
<1>2. CASE WorkerStep \/ StartService \/ StopControl
  BY <1>1, <1>2
  DEF WorkerStep, Load, OpenThrows, Publish, ApplyFlag, ApplyPause, StartSource, SourceThrows, Unpublish,
      StopScheduler, ReportStopped, ProcessEnds, Gone, StartService, StopControl
<1>3. CASE Crash
  BY <1>3 DEF Crash, Lost, Gone
<1>4. CASE HandlerStep
  BY <1>1, <1>4
  DEF HandlerStep, ReportStopping, SignalStop, Refuse, StayPut, RemoveMount, AssignMount, AssignFails, Truncate,
      Write, WriteFails, SwitchFlag, SwitchPause, SwitchDangling
<1>. QED
  BY <1>2, <1>3, <1>4 DEF HostStep

(* The service's part of the switch of c: it answers when the volume is    *)
(* where the mode wants it.                                                *)
LEMMA HostSwitching ==
  ASSUME SwitchInv, NEW c \in Clients, Switching(c), HostStep, UNCHANGED trayVars
  PROVE  Switching(c)'
<1>. USE DEF Switching, Placed, Mapped, HasLetter, Lettered, Others, trayVars, clientVars, ghostVars
<1>1. TypeInv /\ Exchange /\ Volume
  BY DEF SwitchInv, PointerInv
<1>2. CASE target = None
  BY <1>1, <1>2, IdleService
<1>3. CASE target # None
  <2>1. tray[c] = "sent" /\ want[c] = target /\ answer = None
    BY <1>1, <1>3 DEF Exchange
  <2>2. answer' = TRUE => Placed(want[c])'
    <3>1. answer' = TRUE => ctl = "pause"
      BY <2>1, SwitchGoesOn, NoneAssumption DEF Truncate, Write, WriteFails
    <3>2. ctl = "pause" => mount' = mount
      BY DEF HostStep, WorkerStep, Load, OpenThrows, Publish, ApplyFlag, ApplyPause, StartSource, SourceThrows,
         Unpublish, StopScheduler, ReportStopped, ProcessEnds, HandlerStep, ReportStopping, SignalStop, Refuse,
         StayPut, RemoveMount, AssignMount, AssignFails, Truncate, Write, WriteFails, SwitchFlag, SwitchPause,
         SwitchDangling, StartService, StopControl, Crash, fileVars
    <3>. QED
      BY <1>1, <2>1, <3>1, <3>2 DEF Volume
  <2>. QED
    BY <2>1, <2>2 DEF Unsaved
<1>. QED
  BY <1>2, <1>3

(* The client's part: the drive goes before a serving volume comes, and    *)
(* comes when a monitored one has left its letter.                         *)
LEMMA ClientSwitching ==
  ASSUME SwitchInv, NEW c \in Clients, told = c, Switching(c),
         \/ Prepare(c) \/ UnmapFails(c) \/ Send(c) \/ AnsweredYes(c) \/ MapDrive(c) \/ MapFails(c)
         \/ PersistLoad(c) \/ PersistTruncate(c)
  PROVE  Switching(c)'
<1>. USE DEF Move, Placed, Mapped, HasLetter, Lettered, Unsaved
<1>1. /\ tray \in [Clients -> Places] /\ net \in BOOLEAN /\ undriven \in BOOLEAN
      /\ want \in [Clients -> Modes \cup {None}] /\ tray[c] # "idle"
      /\ \A d \in Others(c) : tray[d] = "idle"
  BY DEF SwitchInv, PointerInv, TypeInv, TypeOK, Switching
<1>2. UNCHANGED mount /\ want' = want /\ tray'[c] # "idle" /\ \A d \in Others(c) : tray'[d] = "idle"
  <2>1. UNCHANGED mount /\ want' = want
    BY ClientsLeave DEF ClientStep, Prepare, UnmapFails, LoadConfig, Send, AnsweredYes, MapDrive, MapFails,
       PersistLoad, PersistTruncate
  <2>2. \E to \in Places \ {"idle"} : tray' = [tray EXCEPT ![c] = to]
    BY DEF Prepare, UnmapFails, LoadConfig, Send, AnsweredYes, MapDrive, MapFails, PersistLoad, PersistTruncate,
       Places
  <2>. QED
    BY <1>1, <2>1, <2>2 DEF Others
<1>3. UNCHANGED target \/ Send(c)
  BY ClientsLeave DEF ClientStep
<1>4. CASE Prepare(c) \/ UnmapFails(c)
  <2>1. /\ UNCHANGED <<answer, target>> /\ tray[c] = "load" /\ tray'[c] = "send"
        /\ want[c] = "serve" /\ ~undriven' => ~net'
    BY <1>1, <1>4 DEF Prepare, UnmapFails, LoadConfig, hostVars, ctlVars
  <2>. QED
    BY <1>2, <2>1 DEF Switching
<1>5. CASE Send(c)
  <2>1. /\ UNCHANGED <<net, undriven>> /\ tray[c] = "send" /\ tray'[c] = "sent" /\ answer' = None
    BY <1>1, <1>5 DEF Send, ModeControl
  <2>. QED
    BY <1>2, <2>1, NoneAssumption DEF Switching
<1>6. CASE AnsweredYes(c)
  <2>1. /\ UNCHANGED <<net, undriven, target>> /\ tray[c] = "sent" /\ tray'[c] = "map" /\ answer = TRUE
    BY <1>1, <1>6 DEF AnsweredYes, TakeAnswer, ghostVars
  <2>2. target = None
    BY <2>1, NoneAssumption DEF SwitchInv, Exchange
  <2>. QED
    BY <1>2, <2>1, <2>2 DEF Switching
<1>7. CASE MapDrive(c)
  <2>1. /\ UNCHANGED <<undriven, target>> /\ tray[c] = "map" /\ tray'[c] = "persist"
        /\ net' = (net \/ (want[c] = "monitor" /\ mount["N"] = None))
    BY <1>1, <1>7 DEF MapDrive, hostVars, ctlVars, ghostVars
  <2>2. Placed(want[c]) /\ (want[c] = "serve" /\ ~undriven => ~net')
    BY <1>1, <2>1 DEF Switching
  <2>3. want[c] = "monitor" => mount["N"] = None
    BY <2>2 DEF SwitchInv, Volume
  <2>. QED
    BY <1>1, <1>2, <2>1, <2>2, <2>3 DEF Switching
<1>8. CASE MapFails(c)
  <2>1. /\ undriven' = TRUE /\ UNCHANGED <<net, target>> /\ tray[c] = "map" /\ tray'[c] = "persist"
    BY <1>1, <1>8 DEF MapFails, hostVars, ctlVars
  <2>. QED
    BY <1>2, <2>1 DEF Switching
<1>9. CASE PersistLoad(c) \/ PersistTruncate(c)
  <2>1. /\ UNCHANGED <<net, undriven, target>>
        /\ tray[c] \in {"persist", "truncate"} /\ tray'[c] \in {"truncate", "write"}
    BY <1>1, <1>9 DEF PersistLoad, PersistTruncate, KeepHost, hostVars, ctlVars, ghostVars
  <2>. QED
    BY <1>2, <2>1 DEF Switching
<1>. QED
  BY <1>4, <1>5, <1>6, <1>7, <1>8, <1>9

LEMMA StepPresented ==
  ASSUME SwitchInv, Presented, [Next]_vars
  PROVE  Presented'
<1>. USE DEF Presented
<1>1. /\ tray \in [Clients -> Places] /\ want \in [Clients -> Modes \cup {None}]
      /\ \A c \in Clients : want[c] = None <=> tray[c] = "idle"
  BY DEF SwitchInv, PointerInv, TypeInv, TypeOK
<1>2. CASE HostStep /\ UNCHANGED trayVars
  <2>1. \A c \in Clients : told = c => Switching(c)'
    BY <1>2, HostSwitching
  <2>2. UNCHANGED <<told, tray, net, undriven>>
    BY <1>2 DEF trayVars, clientVars, ghostVars
  <2>3. target = None => mount' = mount /\ target' = None
    BY <1>2, IdleService DEF SwitchInv, PointerInv
  <2>. QED
    BY <2>1, <2>2, <2>3 DEF Placed, HasLetter, Lettered, Driven
<1>3. ASSUME NEW c \in Clients, NEW mode \in Modes, RequestActive(c, mode) PROVE Presented'
  <2>1. CASE told' = None
    BY <2>1, ClientsAssumption
  <2>2. CASE told' # None
    <3>1. /\ told' \in Report /\ ~told'.switched /\ Alone(c) /\ tray[c] = "idle"
          /\ UNCHANGED <<target, tray>>
      BY <1>3, <2>2 DEF RequestActive, Report, hostVars, ctlVars, clientVars
    <3>. QED
      BY <3>1, ClientsAssumption DEF Alone, Others
  <2>. QED
    BY <2>1, <2>2
<1>4. ASSUME NEW c \in Clients, NEW mode \in Modes, Request(c, mode) PROVE Presented'
  <2>1. CASE told' = None
    BY <2>1, ClientsAssumption
  <2>2. CASE told' = c /\ Alone(c)
    <3>1. tray'[c] = "load" /\ (\A d \in Others(c) : tray'[d] = "idle") /\ target' = None
      BY <1>1, <1>4, <2>2 DEF Request, Move, Others, Alone, hostVars, ctlVars
    <3>. QED
      BY <2>2, <3>1, ClientsAssumption DEF Switching, Unsaved
  <2>. QED
    BY <1>4, <2>1, <2>2 DEF Request
<1>5. ASSUME NEW c \in Clients,
             \/ Prepare(c) \/ UnmapFails(c) \/ Send(c) \/ AnsweredYes(c) \/ MapDrive(c) \/ MapFails(c)
             \/ PersistLoad(c) \/ PersistTruncate(c)
      PROVE  Presented'
  <2>1. told' = told /\ tray[c] # "idle"
    BY <1>5 DEF Prepare, UnmapFails, LoadConfig, Send, AnsweredYes, MapDrive, MapFails, PersistLoad,
       PersistTruncate, Move, ghostVars
  <2>2. ASSUME NEW d \in Clients, told = d PROVE Switching(d)'
    <3>1. d = c
      BY <2>1, <2>2 DEF Switching, Others
    <3>. QED
      BY <1>5, <2>2, <3>1, ClientSwitching
  <2>. QED
    BY <2>1, <2>2
<1>6. ASSUME NEW c \in Clients, PersistWrite(c) \/ PersistWriteFails(c) PROVE Presented'
  <2>0. Persisted(c)
    BY <1>6 DEF PersistWrite, PersistWriteFails
  <2>1. CASE told = c
    <3>1. /\ Switching(c) /\ tray[c] = "write" /\ want[c] \in Modes
          /\ UNCHANGED <<mount, net, target, undriven>>
      BY <1>1, <2>0, <2>1 DEF Persisted, Move, KeepHost, SwitchInv, PointerInv, TypeInv, TypeOK, ctlVars
    <3>2. told' = [mode |-> want[c], switched |-> TRUE] /\ told' \in Report
      BY <2>0, <2>1, <3>1 DEF Persisted, Report
    <3>3. \A d \in Clients : tray'[d] = "idle"
      BY <1>1, <2>0, <3>1 DEF Persisted, Move, Switching, Others
    <3>4. \A mode \in Modes : mode = want[c] => Placed(mode)' /\ (~undriven' => Driven(mode)')
      BY <3>1 DEF Switching, Placed, HasLetter, Lettered, Mapped, Driven, Unsaved
    <3>. QED
      BY <3>1, <3>2, <3>3, <3>4, ClientsAssumption DEF Switching
  <2>2. CASE told # c
    BY <2>0, <2>2, ClientsAssumption DEF Persisted
  <2>. QED
    BY <2>1, <2>2
<1>7. ASSUME NEW c \in Clients, SendFails(c) \/ AnsweredNo(c) \/ ClientDies(c) PROVE Presented'
  BY <1>7, ClientsAssumption DEF SendFails, AnsweredNo, ClientDies, Fail
<1>8. CASE UNCHANGED vars
  BY <1>8
  DEF Switching, Placed, Mapped, HasLetter, Lettered, Driven, Others, vars, hostVars, fileVars, ctlVars, trayVars,
      clientVars, ghostVars
<1>9. CASE EditSettings
  <2>1. UNCHANGED <<told, tray, want, net, undriven, mount, target, answer>>
    BY <1>9, EditLeaves DEF SwitchInv, PointerInv, TypeInv, TypeOK, ctlVars, clientVars
  <2>. QED
    BY <2>1 DEF Switching, Placed, Mapped, HasLetter, Lettered, Driven, Others
<1>. QED
  BY <1>2, <1>3, <1>4, <1>5, <1>6, <1>7, <1>8, <1>9 DEF Next, ClientStep

(* A switch that was reported and that no other overlapped left the volume *)
(* where its mode has it and, unless Windows refused, the drive as its      *)
(* mode has it, and they stay until the next request, through failing      *)
(* saves, stops, crashes and restarts of the service.                      *)
THEOREM ReportedSwitchPresented == Spec => []SwitchPresented
<1>1. TrayInit => SwitchInv /\ Presented
  BY InitSwitch, ClientsAssumption DEF TrayInit, Presented
<1>2. SwitchInv /\ Presented /\ [Next]_vars => SwitchInv' /\ Presented'
  BY StepSwitch, StepPresented
<1>3. SwitchInv /\ Presented => SwitchPresented
  <2>. SUFFICES ASSUME SwitchInv, Presented, told # None, Quiet, told.switched
                PROVE  (HasLetter => Lettered(told.mode)) /\ (~undriven => Driven(told.mode))
    BY DEF SwitchPresented
  <2>1. told \in Report
    BY DEF SwitchInv, PointerInv, TypeInv, TypeOK, Presented, Switching, Quiet
  <2>. QED
    BY <2>1 DEF Presented, Placed
<1>. QED
  BY <1>1, <1>2, <1>3, PTL DEF Spec

=============================================================================
