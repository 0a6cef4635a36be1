------------------------------ MODULE ServiceHost ------------------------------
(***************************************************************************)
(* WinServiceHost (src/platform/win/win_service_host.cpp): the service     *)
(* thread in run_worker, which builds the pipeline, waits for the stop     *)
(* event and tears it down, against the SCM's dispatcher thread in         *)
(* handle_control, which moves the cache volume between drive letters,     *)
(* saves the mode and applies it to the live pipeline.                     *)
(*                                                                         *)
(* The config file is saved by truncating and rewriting it, so a reader    *)
(* may come across an empty file, which load_config_file takes for one of  *)
(* default settings; the file stays empty when the program dies or its     *)
(* writes, which are not checked, fail.  Of the settings only the mode and *)
(* the version of the user's own are kept; an edit changes neither source  *)
(* nor letters, and "N" and "K" are the default ones.                      *)
(***************************************************************************)
EXTENDS Integers

CONSTANTS
  None,       \* no mode, nothing mounted, nothing in progress
  Failures,   \* what may go wrong, see FailuresAssumption
  MaxEdits    \* bound: versions of the user's settings

(* Opening the index, starting the source, assigning a letter, writing the *)
(* config file and moving the network drive may fail; the service may      *)
(* crash, and a client be killed.                                          *)
ASSUME FailuresAssumption ==
  Failures \subseteq {"open", "source", "mount", "write", "net", "crash", "kill"}

ASSUME EditsAssumption == MaxEdits \in Nat \ {0}

Modes == {"disabled", "monitor", "serve"}

VARIABLES
  file,       \* the config file: its mode, and whose the other settings are
  mount,      \* the drive letters: "N" presents, "K" caches; which holds the cache volume
  status,     \* what the SCM was told: "stopped", "running" or "stopPending"
  pc,         \* where the service thread is in run_worker
  config,     \* the configuration run_worker loaded, until nothing here reads it again
  scheduler,  \* the PendingCopyScheduler: None, "running" or "paused"
  published,  \* scheduler_ points to it
  caching,    \* caching_active_
  stopEvent,  \* stop_event_
  ctl,        \* where the dispatcher thread is in handle_control
  target,     \* the mode it switches to
  ctlConfig,  \* the configuration it loaded, with the mode it switches to
  answer,     \* what the control call returned: TRUE, FALSE, or None as yet
  overtaken,  \* history: run_worker loaded a half-saved file, or a mode was saved
              \* between its load and its use of the loaded one
  cut,        \* history: the process died in the middle of a mode switch
  torn        \* history: the config file was emptied and not written

fileVars  == <<file, mount>>
workVars  == <<pc, config, stopEvent>>
liveVars  == <<scheduler, published, caching>>
ctlVars   == <<ctl, target, ctlConfig, answer>>
hostVars  == <<fileVars, status, workVars, liveVars, ctlVars, overtaken, cut, torn>>

(* The user's settings by version, from 1; the default ones are 0. *)
Config == [mode : Modes \cup {None}, settings : 0..MaxEdits]

(* None is none of the values it stands beside. *)
ASSUME NoneAssumption ==
  /\ None \notin Modes \cup {"cache", "running", "paused"}
  /\ None \notin BOOLEAN /\ None \notin Config

Empty == [mode |-> None, settings |-> 0]

(* The settings name the source share. *)
Sourced(c) == c.settings # 0

(* Fault: serving counts as caching. *)
FaultyEnables(mode) == mode # "disabled"

(* mode_enables_caching: Monitor, or no mode yet. *)
Enables(mode) == mode \in {"monitor", None}

(* Configured, and not switched yet or switched to a mode before; Disabled  *)
(* moves no volume and may have found it on either letter.                 *)
Init ==
  /\ \E mode \in Modes \cup {None}, l \in {"N", "K"} :
       /\ mode = "serve" => l = "N"
       /\ Enables(mode) => l = "K"
       /\ file = [mode |-> mode, settings |-> 1]
       /\ mount = [k \in {"N", "K"} |-> IF k = l THEN "cache" ELSE None]
  /\ status = "stopped" /\ pc = "off" /\ config = None /\ stopEvent = FALSE
  /\ scheduler = None /\ published = FALSE /\ caching = FALSE
  /\ ctl = "idle" /\ target = None /\ ctlConfig = None /\ answer = None
  /\ overtaken = FALSE /\ cut = FALSE /\ torn = FALSE

PauseTo(mode) == IF Enables(mode) THEN "running" ELSE "paused"

-----------------------------------------------------------------------------
(* The service thread: service_main and run_worker.                        *)

Goto(a, b) == pc = a /\ pc' = b

(* RUNNING is reported before the worker has done anything. *)
StartService ==
  /\ Goto("off", "load") /\ ctl = "idle"
  /\ status' = "running"
  /\ UNCHANGED <<fileVars, config, stopEvent, liveVars, ctlVars, overtaken, cut, torn>>

Load ==
  /\ Goto("load", "open")
  /\ config' = file /\ overtaken' = (file = Empty)
  /\ UNCHANGED <<fileVars, status, stopEvent, liveVars, ctlVars, cut, torn>>

(* The index cannot be opened: run_worker throws. *)
OpenThrows ==
  /\ "open" \in Failures /\ Goto("open", "failed")
  /\ config' = None
  /\ UNCHANGED <<fileVars, status, stopEvent, liveVars, ctlVars, overtaken, cut, torn>>

(* The index is opened and cleaned up, the scheduler built and started, not *)
(* paused, and published to the control thread.                            *)
Publish ==
  /\ Goto("open", "flag")
  /\ scheduler' = "running" /\ published' = TRUE
  /\ UNCHANGED <<fileVars, status, config, stopEvent, caching, ctlVars,
                 overtaken, cut, torn>>

(* apply_caching_mode stores the flag first and takes the mutex second. *)
ApplyFlag ==
  /\ Goto("flag", "pause")
  /\ caching' = Enables(config.mode)
  /\ UNCHANGED <<fileVars, status, config, stopEvent, scheduler, published,
                 ctlVars, overtaken, cut, torn>>

ApplyPause ==
  /\ Goto("pause", "source")
  /\ scheduler' = PauseTo(config.mode)
  /\ UNCHANGED <<fileVars, status, config, stopEvent, published, caching, ctlVars,
                 overtaken, cut, torn>>

(* Without a source in the settings there is nothing to observe. *)
StartSource ==
  /\ Goto("source", "wait")
  /\ config' = None
  /\ UNCHANGED <<fileVars, status, stopEvent, liveVars, ctlVars, overtaken, cut, torn>>

(* The driver is not there: the scheduler goes out of scope while          *)
(* scheduler_ still points to it.                                          *)
SourceThrows ==
  /\ "source" \in Failures /\ Goto("source", "failed") /\ Sourced(config)
  /\ scheduler' = None /\ config' = None
  /\ UNCHANGED <<fileVars, status, stopEvent, published, caching, ctlVars, overtaken, cut, torn>>

(* Fault: the pointer is left to the destructor. *)
FaultyUnpublish ==
  /\ Goto("wait", "stop") /\ stopEvent
  /\ UNCHANGED <<fileVars, status, config, stopEvent, liveVars, ctlVars, overtaken, cut, torn>>

(* Woken by the stop event: the activity source is stopped, then the        *)
(* pointer is taken back under the mutex.                                  *)
Unpublish ==
  /\ Goto("wait", "stop") /\ stopEvent
  /\ published' = FALSE
  /\ UNCHANGED <<fileVars, status, config, stopEvent, scheduler, caching, ctlVars,
                 overtaken, cut, torn>>

StopScheduler ==
  /\ Goto("stop", "done")
  /\ scheduler' = None
  /\ UNCHANGED <<fileVars, status, config, stopEvent, published, caching, ctlVars,
                 overtaken, cut, torn>>

ReportStopped ==
  /\ Goto("done", "ended") \/ Goto("failed", "ended")
  /\ status' = "stopped"
  /\ UNCHANGED <<fileVars, config, stopEvent, liveVars, ctlVars, overtaken, cut, torn>>

(* What the end of the process leaves: files and mounts. *)
Gone ==
  /\ status' = "stopped" /\ pc' = "off" /\ config' = None /\ stopEvent' = FALSE
  /\ scheduler' = None /\ published' = FALSE /\ caching' = FALSE
  /\ ctl' = "idle" /\ target' = None /\ ctlConfig' = None /\ overtaken' = FALSE

(* The dispatcher returns when the service is stopped and no handler runs. *)
ProcessEnds ==
  /\ pc = "ended" /\ ctl = "idle"
  /\ Gone /\ UNCHANGED <<fileVars, answer, cut, torn>>

(* A control call in progress comes back with an error. *)
Lost ==
  /\ Gone
  /\ answer' = IF target = None THEN answer ELSE FALSE
  /\ cut' = (cut \/ ctl \in {"assign", "save", "write"})
  /\ torn' = (torn \/ ctl = "write")

(* A crash in the middle of a save leaves the file as it is, empty; so it  *)
(* is also when the file cannot be opened, which throws.                   *)
Crash == "crash" \in Failures /\ pc # "off" /\ Lost /\ UNCHANGED fileVars

-----------------------------------------------------------------------------
(* The dispatcher thread: handle_control, one control at a time, and only   *)
(* while the service reports RUNNING.                                      *)

Accepts == status = "running" /\ ctl = "idle"

KeepWork == UNCHANGED <<status, workVars, overtaken, cut, torn>>

(* SERVICE_CONTROL_STOP and SERVICE_CONTROL_SHUTDOWN are delivered alike.  *)
StopControl ==
  /\ Accepts
  /\ ctl' = "stop"
  /\ KeepWork /\ UNCHANGED <<fileVars, liveVars, target, ctlConfig, answer>>

(* Fault: the worker is woken first. *)
FaultyReportStopping ==
  /\ \/ ctl = "stop" /\ ctl' = "signal" /\ stopEvent' = TRUE /\ UNCHANGED status
     \/ ctl = "signal" /\ ctl' = "idle" /\ status' = "stopPending" /\ UNCHANGED stopEvent
  /\ UNCHANGED <<fileVars, pc, config, liveVars, target, ctlConfig, answer, overtaken, cut, torn>>

(* set_status is called by both threads, and holds no lock. *)
ReportStopping ==
  /\ ctl = "stop"
  /\ ctl' = "signal" /\ status' = "stopPending"
  /\ UNCHANGED <<fileVars, workVars, liveVars, target, ctlConfig, answer, overtaken, cut, torn>>

(* SetEvent; service_main may have closed the event already. *)
SignalStop ==
  /\ ctl = "signal"
  /\ ctl' = "idle" /\ stopEvent' = (stopEvent \/ pc # "ended")
  /\ UNCHANGED <<fileVars, status, pc, config, liveVars, target, ctlConfig, answer,
                 overtaken, cut, torn>>

ModeControl(mode) ==
  /\ Accepts
  /\ ctl' = "move" /\ target' = mode /\ answer' = None
  /\ ctlConfig' = [file EXCEPT !.mode = mode]
  /\ KeepWork /\ UNCHANGED <<fileVars, liveVars>>

(* Where the cache volume must go, and whether it must. *)
From == IF target = "serve" THEN "K" ELSE "N"
Onto == IF target = "serve" THEN "N" ELSE "K"

MoveNeeded ==
  \/ target = "monitor" /\ mount["N"] # None /\ mount["K"] = None
  \/ target = "serve" /\ mount["K"] # None

(* Serving without a cache volume on its letter is refused. *)
Refuse ==
  /\ ctl = "move" /\ target = "serve" /\ ~MoveNeeded
  /\ ctl' = "idle" /\ answer' = FALSE /\ target' = None /\ ctlConfig' = None
  /\ KeepWork /\ UNCHANGED <<fileVars, liveVars>>

StayPut ==
  /\ ctl = "move" /\ target # "serve" /\ ~MoveNeeded
  /\ ctl' = "save"
  /\ KeepWork /\ UNCHANGED <<fileVars, liveVars, target, ctlConfig, answer>>

(* The volume leaves its letter ... *)
RemoveMount ==
  /\ ctl = "move" /\ MoveNeeded
  /\ ctl' = "assign"
  /\ mount' = [mount EXCEPT ![From] = None, ![Onto] = None]
  /\ KeepWork /\ UNCHANGED <<file, liveVars, target, ctlConfig, answer>>

(* ... and is assigned the other one, which may fail. *)
AssignMount ==
  /\ ctl = "assign"
  /\ ctl' = "save"
  /\ mount' = [mount EXCEPT ![Onto] = "cache"]
  /\ KeepWork /\ UNCHANGED <<file, liveVars, target, ctlConfig, answer>>

AssignFails ==
  /\ "mount" \in Failures /\ ctl = "assign"
  /\ ctl' = "idle" /\ answer' = FALSE /\ target' = None /\ ctlConfig' = None
  /\ KeepWork /\ UNCHANGED <<fileVars, liveVars>>

(* save_config_file truncates the file ... *)
Truncate ==
  /\ ctl = "save"
  /\ ctl' = "write" /\ file' = Empty
  /\ KeepWork /\ UNCHANGED <<mount, liveVars, target, ctlConfig, answer>>

Overtake == overtaken' = (overtaken \/ pc \in {"open", "flag", "pause"})

(* ... and writes what was loaded. *)
Write ==
  /\ ctl = "write"
  /\ ctl' = "flag" /\ file' = ctlConfig /\ Overtake
  /\ UNCHANGED <<mount, status, workVars, liveVars, target, ctlConfig, answer, cut, torn>>

(* The writes are not checked: the file stays empty and the switch goes on. *)
WriteFails ==
  /\ "write" \in Failures /\ ctl = "write"
  /\ ctl' = "flag" /\ Overtake /\ torn' = TRUE
  /\ UNCHANGED <<fileVars, status, workVars, liveVars, target, ctlConfig, answer, cut>>

SwitchFlag ==
  /\ ctl = "flag"
  /\ ctl' = "pause" /\ caching' = Enables(target)
  /\ KeepWork /\ UNCHANGED <<fileVars, scheduler, published, target, ctlConfig, answer>>

Answered == ctl' = "idle" /\ answer' = TRUE /\ target' = None /\ ctlConfig' = None

(* Fault: pausing is only done on the way out of Monitor mode. *)
FaultySwitchPause ==
  /\ ctl = "pause" /\ (published => scheduler # None)
  /\ scheduler' = IF published /\ ~Enables(target) THEN "paused" ELSE scheduler
  /\ Answered
  /\ KeepWork /\ UNCHANGED <<fileVars, published, caching>>

(* The scheduler is paused or resumed if there is one. *)
SwitchPause ==
  /\ ctl = "pause" /\ (published => scheduler # None)
  /\ scheduler' = IF published THEN PauseTo(target) ELSE scheduler
  /\ Answered
  /\ KeepWork /\ UNCHANGED <<fileVars, published, caching>>

(* scheduler_ points to a destroyed scheduler: the call may do nothing, or *)
(* the process may die of it.                                              *)
SwitchDangling ==
  /\ ctl = "pause" /\ published /\ scheduler = None
  /\ \/ Answered /\ KeepWork /\ UNCHANGED liveVars
     \/ Lost
  /\ UNCHANGED fileVars

-----------------------------------------------------------------------------

WorkerStep ==
  \/ Load \/ OpenThrows \/ Publish \/ ApplyFlag \/ ApplyPause
  \/ StartSource \/ SourceThrows \/ Unpublish \/ StopScheduler \/ ReportStopped
  \/ ProcessEnds

HandlerStep ==
  \/ ReportStopping \/ SignalStop
  \/ Refuse \/ StayPut \/ RemoveMount \/ AssignMount \/ AssignFails
  \/ Truncate \/ Write \/ WriteFails \/ SwitchFlag \/ SwitchPause \/ SwitchDangling

HostStep == WorkerStep \/ HandlerStep \/ StartService \/ StopControl \/ Crash

-----------------------------------------------------------------------------
(* Properties.                                                             *)

HostTypeOK ==
  /\ file \in Config /\ mount \in [{"N", "K"} -> {"cache", None}]
  /\ status \in {"stopped", "running", "stopPending"}
  /\ pc \in {"off", "load", "open", "flag", "pause", "source", "wait",
            "stop", "done", "failed", "ended"}
  /\ config \in Config \cup {None} /\ (config # None => pc \notin {"off", "load", "wait"})
  /\ scheduler \in {None, "running", "paused"}
  /\ scheduler # None <=> pc \in {"flag", "pause", "source", "wait", "stop"}
  /\ published \in BOOLEAN /\ caching \in BOOLEAN /\ stopEvent \in BOOLEAN
  /\ ctl \in {"idle", "stop", "signal", "move", "assign", "save", "write", "flag", "pause"}
  /\ target \in Modes \cup {None} /\ ctlConfig \in Config \cup {None}
  /\ target = None <=> ctl \in {"idle", "stop", "signal"}
  /\ target = None <=> ctlConfig = None
  /\ answer \in BOOLEAN \cup {None} /\ overtaken \in BOOLEAN
  /\ cut \in BOOLEAN /\ torn \in BOOLEAN

(* The pointer the control thread uses never outlives the scheduler on the *)
(* normal way down; only when starting the activity source throws is there *)
(* a moment, until the process ends, in which it does ("Guards scheduler_  *)
(* against the SCM control thread racing with run_worker tearing the       *)
(* stack-owned scheduler down", win_service_host.h).                       *)
PointerAlive == published /\ scheduler = None => pc \in {"failed", "ended"}

(* A service that was stopped has the last word: SERVICE_STOPPED is not    *)
(* followed by a SERVICE_STOP_PENDING of the other thread, unless the      *)
(* worker failed by itself, unsignalled, while a stop was being delivered. *)
StoppedIsFinal ==
  [][status = "stopped" /\ pc # "off" /\ status' # "stopped" => ~stopEvent]_hostVars

=============================================================================
