---------------------------- MODULE ActivitySource ----------------------------
(***************************************************************************)
(* WinFilterActivitySource (src/platform/win/win_filter_activity_source    *)
(* .cpp) at the other end of CacheMon's port: start connects, registers    *)
(* the process and starts the reader thread; stop sets the flag, cancels   *)
(* the reader's I/O, closes the port and joins.  The service's copy worker *)
(* reads the source all along.                                             *)
(***************************************************************************)
EXTENDS CacheMon, FiniteSets

CONSTANT MaxStarts    \* bound: calls of start

ASSUME SourceAssumption == MaxStarts \in Nat

VARIABLES
  link,       \* the port handle: "none", "open", or "dead" (the driver is gone)
  owner,      \* where the service thread is with the source, see Owners
  reader,     \* where the reader thread is, see Readers
  stopRequested,
  starts,     \* so far
  own         \* history: own events received on this connection

sourceVars == <<link, owner, reader, stopRequested, starts, own>>
vars == <<driverVars, sourceVars>>

Owners == {"idle", "connected", "running", "stopping", "cancelled", "joining", "gone"}
Readers == {"none", "check", "get", "callback", "sleep"}

Init ==
  /\ DriverInit
  /\ link = "none" /\ owner = "idle" /\ reader = "none"
  /\ stopRequested = FALSE /\ starts = 0 /\ own = 0

-----------------------------------------------------------------------------
(* start, on the service thread.                                           *)

Connect ==
  /\ owner = "idle" /\ starts < MaxStarts
  /\ CachemonConnect
  /\ link' = "open" /\ owner' = "connected" /\ starts' = starts + 1 /\ own' = 0
  /\ UNCHANGED <<reader, stopRequested>>

(* Fault: the reader runs before the process is registered. *)
FaultyRegister ==
  /\ owner = "connected" /\ link = "open"
  /\ \/ /\ reader = "none" /\ reader' = "check" /\ stopRequested' = FALSE
        /\ UNCHANGED <<driverVars, owner>>
     \/ /\ reader # "none" /\ RegisterService /\ owner' = "running"
        /\ UNCHANGED <<reader, stopRequested>>
  /\ UNCHANGED <<link, starts, own>>

Register ==
  /\ owner = "connected" /\ link = "open"
  /\ RegisterService
  /\ owner' = "running" /\ stopRequested' = FALSE /\ reader' = "check"
  /\ UNCHANGED <<link, starts, own>>

(* The driver went away in between: start closes the port and throws. *)
RegisterFails ==
  /\ owner = "connected" /\ link = "dead"
  /\ link' = "none" /\ owner' = "idle"
  /\ UNCHANGED <<driverVars, reader, stopRequested, starts, own>>

-----------------------------------------------------------------------------
(* reader_loop.                                                            *)

Check ==
  /\ reader = "check"
  /\ reader' = IF stopRequested THEN "none" ELSE "get"
  /\ UNCHANGED <<driverVars, link, owner, stopRequested, starts, own>>

Get ==
  /\ reader = "get" /\ link = "open"
  /\ \E a \in Actors :
       Deliver(a) /\ own' = IF a = Service THEN own + 1 ELSE own
  /\ reader' = "callback"
  /\ UNCHANGED <<link, owner, stopRequested, starts>>

(* The port is closed, or its driver gone: the reader never reconnects. *)
GetFails ==
  /\ reader = "get" /\ link # "open"
  /\ reader' = IF stopRequested THEN "none" ELSE "sleep"
  /\ UNCHANGED <<driverVars, link, owner, stopRequested, starts, own>>

Retry ==
  /\ reader = "sleep" /\ reader' = "check"
  /\ UNCHANGED <<driverVars, link, owner, stopRequested, starts, own>>

CallbackReturns ==
  /\ reader = "callback" /\ reader' = "check"
  /\ UNCHANGED <<driverVars, link, owner, stopRequested, starts, own>>

-----------------------------------------------------------------------------
(* stop, on the service thread.                                            *)

RequestStop ==
  /\ owner = "running"
  /\ stopRequested' = TRUE /\ owner' = "stopping"
  /\ UNCHANGED <<driverVars, link, reader, starts, own>>

(* CancelSynchronousIo ends the reader's FilterGetMessage if it is in it   *)
(* already, and reaches nothing if it is about to enter it.                *)
CancelIo ==
  /\ owner = "stopping" /\ owner' = "cancelled"
  /\ reader' \in IF reader = "get" THEN {"get", "none"} ELSE {reader}
  /\ UNCHANGED <<driverVars, link, stopRequested, starts, own>>

(* Fault: the port is closed after the join, like the other members. *)
FaultyClosePort ==
  /\ owner = "cancelled" /\ reader = "none"
  /\ owner' = "joining" /\ link' = "none"
  /\ UNCHANGED <<driverVars, reader, stopRequested, starts, own>>

ClosePort ==
  /\ owner = "cancelled"
  /\ owner' = "joining" /\ link' = "none"
  /\ UNCHANGED <<driverVars, reader, stopRequested, starts, own>>

Join ==
  /\ owner = "joining" /\ reader = "none"
  /\ owner' = "idle"
  /\ UNCHANGED <<driverVars, link, reader, stopRequested, starts, own>>

(* The process dies, of an exception in the callback for one; its handles  *)
(* are closed when its threads' operations are over.                       *)
Crash ==
  /\ owner # "gone" /\ at[Service] = "none"
  /\ link' = "none" /\ owner' = "gone" /\ reader' = "none"
  /\ UNCHANGED <<driverVars, stopRequested, starts, own>>

Restart ==
  /\ owner = "gone" /\ ~port
  /\ owner' = "idle"
  /\ UNCHANGED <<driverVars, link, reader, stopRequested, starts, own>>

-----------------------------------------------------------------------------
(* The rest of the service, and the driver.                                *)

(* The copy worker reads the source file; it is one thread. *)
OwnRead ==
  /\ owner # "gone" /\ at[Service] = "none"
  /\ Report(Service, "ReadOpen")
  /\ UNCHANGED <<portVars, lock, handleVars, owed, sourceVars>>

(* The filter manager calls back once the client's handle is closed. *)
Disconnected == link = "none" /\ CachemonDisconnect /\ UNCHANGED sourceVars

Unload ==
  /\ UnloadPorts
  /\ link' = IF link = "open" THEN "dead" ELSE link
  /\ UNCHANGED <<owner, reader, stopRequested, starts, own>>

UserStep(h) ==
  /\ \/ Open(h) \/ Read(h) \/ Write(h) \/ SetInformation(h) \/ Close(h)
  /\ UNCHANGED sourceVars

SendStep(a) == (Acquire(a) \/ TimeOut(a)) /\ UNCHANGED sourceVars
LoadStep == (LoadDriver \/ Unregister) /\ UNCHANGED sourceVars
ReaderStep == Check \/ Get \/ GetFails \/ Retry \/ CallbackReturns
StopStep == CancelIo \/ ClosePort \/ Join

Next ==
  \/ Connect \/ Register \/ RegisterFails \/ RequestStop \/ StopStep
  \/ Crash \/ Restart \/ ReaderStep \/ OwnRead \/ Disconnected \/ Unload \/ LoadStep
  \/ \E h \in Handles : UserStep(h)
  \/ \E a \in Actors : SendStep(a)

Spec == Init /\ [][Next]_vars

(* The threads run; FltSendMessage's time-out is the kernel's.  Nobody has *)
(* to use the file, to stop the service or to unload the driver.           *)
FairSpec ==
  /\ Spec
  /\ WF_vars(ReaderStep) /\ WF_vars(StopStep)
  /\ WF_vars(Register) /\ WF_vars(RegisterFails) /\ WF_vars(Disconnected)
  /\ \A a \in Actors : WF_vars(SendStep(a))

-----------------------------------------------------------------------------
(* What `ssd-cache-service --health` and the tray's icon make of it.       *)

(* query_service_state: what the answers of the SCM come to. *)
QueryServiceState(answer) ==
  CASE answer \in {"no manager", "unknown"}                    -> "missing"
    [] answer \in {"running", "start_pending", "stop_pending"} -> answer
    [] OTHER                                                   -> "stopped"

(* Fault: the SCM is believed when it calls the driver stopped. *)
FaultyQueryDriverState(answer, listed) == QueryServiceState(answer)

(* query_driver_state: "stopped", which is also what no answer comes to, is *)
(* only believed if the driver is not among the loaded filters.            *)
QueryDriverState(answer, listed) ==
  IF QueryServiceState(answer) = "stopped" /\ listed THEN "running" ELSE QueryServiceState(answer)

(* build_health_json: overall_healthy. *)
Healthy(service, driverState) == service = "running" /\ driverState = "running"

(* What the SCM may answer of the two, and whether the driver is found     *)
(* among the loaded filters: one who may not list them finds none.         *)
ServiceAnswers == IF owner = "gone" THEN {"stopped"} ELSE {"running"}
DriverAnswers ==
  CASE driver = "loaded"    -> {"running", "stopped", "denied"}
    [] driver = "unloading" -> {"running", "stop_pending", "stopped", "denied"}
    [] driver = "unloaded"  -> {"stopped", "denied", "unknown"}
Listed ==
  IF driver = "unloaded" THEN {FALSE} ELSE {TRUE, FALSE}

-----------------------------------------------------------------------------
(* Properties.                                                             *)

(* Types; the lock is held exactly by the one that sends. *)
TypeOK ==
  /\ driver \in {"loaded", "unloading", "unloaded"}
  /\ port \in BOOLEAN /\ pid \in BOOLEAN /\ lock \in Actors \cup {None}
  /\ at \in [Actors -> {"none", "lock", "send"}] /\ kind \in [Actors -> Kinds]
  /\ opened \subseteq Handles /\ context \subseteq opened
  /\ ops \in 0..MaxOps /\ loads \in 0..MaxLoads /\ owed \subseteq Handles
  /\ link \in {"none", "open", "dead"} /\ owner \in Owners /\ reader \in Readers
  /\ stopRequested \in BOOLEAN /\ starts \in 0..MaxStarts /\ own \in Nat
  /\ \A a \in Actors : at[a] = "send" <=> lock = a

(* The service's own I/O does not feed back: the copy worker may report a  *)
(* read between Connect and Register, but as the reader starts only after  *)
(* that, at most the one operation under way then is ever received.        *)
NoFeedback == own <= 1

(* A process is taken for the service only while its connection stands: no *)
(* other process, given the same pid later, has its operations ignored.    *)
PidHasClient == driver = "loaded" /\ pid => port

(* The end of a write is reported even if the handle did much in between,  *)
(* unless the driver was unloaded meanwhile: only a handle that is still   *)
(* open, or whose close is being reported, owes one.                       *)
WriteEndsReported ==
  \A h \in owed : h \in opened \/ (at[h] # "none" /\ kind[h] = "WriteClosed")

(* --health and the events agree: a service that is connected is healthy,  *)
(* however the SCM takes a driver loaded on demand, unless the SCM does not *)
(* call the driver running and it is not found among the loaded filters,   *)
(* which for one who may not list them it never is; and a service that is  *)
(* not connected is only called healthy while the driver is being unloaded *)
(* or after it was loaded again under the running service, which stays     *)
(* deaf.                                                                   *)
HealthTrue ==
  owner = "running" =>
    \A service \in ServiceAnswers, answer \in DriverAnswers, listed \in Listed :
      LET healthy == Healthy(QueryServiceState(service), QueryDriverState(answer, listed))
      IN  IF link = "open" THEN answer = "running" \/ listed => healthy
          ELSE healthy => driver = "unloading" \/ (driver = "loaded" /\ loads > 1)

(* File operations are never held up for good, whatever the service does. *)
OperationsFinish == \A a \in Actors : at[a] # "none" ~> at[a] = "none"

(* stop() returns, wherever the reader was when the flag was set. *)
StopReturns == owner = "stopping" ~> owner \in {"idle", "gone"}

=============================================================================
