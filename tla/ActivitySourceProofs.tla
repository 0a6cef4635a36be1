------------------------- MODULE ActivitySourceProofs -------------------------
(***************************************************************************)
(* What the service and CacheMon owe each other over their port, for any   *)
(* number of handles, operations, loads of the driver and starts.          *)
(***************************************************************************)
EXTENDS ActivitySource, TLAPS

(* The port handle follows stop and the end of the process; while it is    *)
(* open the driver is there.  The reader runs between start and join.      *)
Connection ==
  /\ link = "open" => driver = "loaded" /\ port
  /\ link = "none" <=> owner \in {"idle", "joining", "gone"}
  /\ owner \in {"idle", "connected", "gone"} => reader = "none"

(* From Register on, the one operation of the service that may still be    *)
(* under way is received or not; no other gets past the registered pid.    *)
Feedback ==
  /\ link = "open" /\ owner = "connected" => own = 0
  /\ link = "open" /\ owner # "connected" => pid /\ (own = 0 \/ at[Service] = "none")

(* A context stands for every write of an open handle that is not over.    *)
Contexts ==
  /\ context # {} => driver # "unloaded"
  /\ owed \cap opened \subseteq context

(* A dead link saw its driver loaded once; a loaded one is another load.   *)
Reloads ==
  /\ driver # "unloaded" => loads > 0
  /\ link = "dead" => loads > 0
  /\ link = "dead" /\ driver = "loaded" => loads > 1

SourceInv ==
  TypeOK /\ Connection /\ Feedback /\ NoFeedback /\ PidHasClient /\ Contexts /\ WriteEndsReported /\ Reloads

-----------------------------------------------------------------------------
(* Types.                                                                  *)

(* The operations under way: who waits, who sends and therefore holds the  *)
(* lock, and what they report.                                             *)
Operations ==
  /\ lock \in Actors \cup {None}
  /\ at \in [Actors -> {"none", "lock", "send"}] /\ kind \in [Actors -> Kinds]
  /\ \A a \in Actors : at[a] = "send" <=> lock = a

LEMMA InitSource == Init => SourceInv
<1>. SUFFICES ASSUME Init PROVE SourceInv
  OBVIOUS
<1>1. TypeOK
  <2>1. Operations
    BY DriverAssumption DEF Operations, Init, DriverInit, Actors, Kinds
  <2>2. ops \in 0..MaxOps /\ loads \in 0..MaxLoads /\ starts \in 0..MaxStarts /\ own \in Nat
    BY DriverAssumption, SourceAssumption DEF Init, DriverInit
  <2>. QED
    BY <2>1, <2>2 DEF Operations, TypeOK, Init, DriverInit, Owners, Readers
<1>. QED
  BY <1>1 DEF SourceInv, Connection, Feedback, NoFeedback, PidHasClient, Contexts, WriteEndsReported,
     Reloads, Init, DriverInit

(* Reporting: an idle actor's operation is ignored or waits for the lock.  *)
LEMMA ReportTypes ==
  ASSUME TypeOK, NEW a \in Actors, at[a] = "none", NEW k \in Kinds, Report(a, k), UNCHANGED lock
  PROVE  Operations'
BY DEF Report, TypeOK, Operations

(* An operation that is over gives nothing but its own lock back. *)
LEMMA OverTypes ==
  ASSUME TypeOK, NEW a \in Actors, Over(a),
         \/ at[a] = "send" /\ lock' = None
         \/ at[a] = "lock" /\ UNCHANGED lock
  PROVE  Operations' /\ owed' \subseteq Handles
<1>1. Operations'
  BY DriverAssumption DEF Over, TypeOK, Operations, Kinds, Actors
<1>. QED
  BY <1>1 DEF Over, TypeOK

LEMMA SendTypes ==
  ASSUME TypeOK, NEW a \in Actors, SendStep(a)
  PROVE  TypeOK'
<1>1. CASE ~port /\ at[a] = "lock" /\ Over(a) /\ UNCHANGED <<lock, sourceVars>>
  <2>1. Operations' /\ owed' \subseteq Handles
    BY <1>1, OverTypes
  <2>. QED
    BY <1>1, <2>1 DEF Operations, TypeOK, Over, portVars, handleVars, sourceVars
<1>2. CASE TimeOut(a) /\ UNCHANGED sourceVars
  <2>1. at[a] = "send" /\ lock' = None /\ Over(a)
    BY <1>2 DEF TimeOut
  <2>2. Operations' /\ owed' \subseteq Handles
    BY <2>1, OverTypes
  <2>. QED
    BY <1>2, <2>1, <2>2 DEF Operations, TypeOK, Over, portVars, handleVars, sourceVars
<1>3. CASE /\ port /\ at[a] = "lock" /\ lock = None /\ lock' = a /\ at' = [at EXCEPT ![a] = "send"]
           /\ UNCHANGED <<portVars, handleVars, kind, owed, sourceVars>>
  BY <1>3, DriverAssumption DEF TypeOK, Actors, portVars, handleVars, sourceVars
<1>. QED
  BY <1>1, <1>2, <1>3 DEF SendStep, Acquire

LEMMA UserTypes ==
  ASSUME TypeOK, NEW h \in Handles, UserStep(h)
  PROVE  TypeOK'
<1>. USE DEF Operate, Idle, portVars, sourceVars
<1>1. ASSUME NEW k \in Kinds, Idle(h), Report(h, k) PROVE Operations'
  BY <1>1, ReportTypes DEF Actors
<1>2. Idle(h) /\ UNCHANGED <<at, kind>> => Operations'
  BY DEF TypeOK, Operations
<1>3. Operate(h) => ops' \in 0..MaxOps
  BY DriverAssumption DEF TypeOK
<1>4. Operations' /\ Idle(h)
  <2>1. CASE Open(h)
    BY <1>1, <1>2, <2>1 DEF Open, Kinds
  <2>2. CASE Read(h)
    BY <1>1, <2>2 DEF Read, Kinds
  <2>3. CASE Write(h)
    BY <1>1, <2>3 DEF Write, Kinds
  <2>4. CASE SetInformation(h)
    BY <1>1, <2>4 DEF SetInformation, Kinds
  <2>5. CASE Close(h)
    BY <1>1, <1>2, <2>5 DEF Close, Kinds
  <2>. QED
    BY <2>1, <2>2, <2>3, <2>4, <2>5 DEF UserStep
<1>5. opened' \subseteq Handles /\ context' \subseteq opened' /\ owed' \subseteq Handles /\ ops' \in 0..MaxOps
  BY <1>3 DEF UserStep, Open, Read, Write, SetInformation, Close, TypeOK
<1>. QED
  BY <1>4, <1>5 DEF UserStep, Operations, TypeOK

(* The service's threads touch only its own variables, but for the message *)
(* taken from the driver.                                                  *)
LEMMA ServiceTypes ==
  ASSUME TypeOK, Connect \/ Register \/ RegisterFails \/ RequestStop \/ StopStep \/ Crash \/ Restart
                   \/ ReaderStep
  PROVE  TypeOK'
<1>. USE DEF TypeOK, Owners, Readers, driverVars, portVars, handleVars
<1>1. CASE Connect
  BY <1>1, SourceAssumption DEF Connect, CachemonConnect
<1>2. CASE Register
  BY <1>2 DEF Register, RegisterService
<1>3. CASE RegisterFails \/ RequestStop \/ Crash \/ Restart
  BY <1>3 DEF RegisterFails, RequestStop, Crash, Restart
<1>4. CASE StopStep
  BY <1>4 DEF StopStep, CancelIo, ClosePort, Join
<1>5. CASE Get
  <2>1. PICK a \in Actors : Deliver(a) /\ own' = IF a = Service THEN own + 1 ELSE own
    BY <1>5 DEF Get
  <2>2. own' \in Nat
    BY <2>1
  <2>3. at[a] = "send" /\ lock' = None /\ Over(a)
    BY <2>1 DEF Deliver
  <2>4. Operations' /\ owed' \subseteq Handles
    BY <2>3, OverTypes
  <2>. QED
    BY <1>5, <2>2, <2>3, <2>4 DEF Get, Over, Operations
<1>6. CASE Check \/ GetFails \/ Retry \/ CallbackReturns
  BY <1>6 DEF Check, GetFails, Retry, CallbackReturns
<1>. QED
  BY <1>1, <1>2, <1>3, <1>4, <1>5, <1>6 DEF ReaderStep

LEMMA DriverTypes ==
  ASSUME TypeOK, OwnRead \/ Disconnected \/ Unload \/ LoadStep
  PROVE  TypeOK'
<1>. USE DEF TypeOK, sourceVars, portVars, handleVars
<1>1. CASE OwnRead
  <2>1. Operations'
    BY <1>1, ReportTypes DEF OwnRead, Actors, Kinds
  <2>. QED
    BY <1>1, <2>1 DEF OwnRead, Operations
<1>2. CASE Disconnected
  BY <1>2 DEF Disconnected, CachemonDisconnect
<1>3. CASE Unload
  BY <1>3 DEF Unload, UnloadPorts
<1>4. CASE LoadDriver /\ UNCHANGED sourceVars
  <2>1. loads' \in 0..MaxLoads
    BY <1>4, DriverAssumption DEF LoadDriver
  <2>. QED
    BY <1>4, <2>1 DEF LoadDriver
<1>5. CASE Unregister /\ UNCHANGED sourceVars
  BY <1>5 DEF Unregister
<1>. QED
  BY <1>1, <1>2, <1>3, <1>4, <1>5 DEF LoadStep

LEMMA StepTypes == TypeOK /\ [Next]_vars => TypeOK'
<1>1. TypeOK /\ UNCHANGED vars => TypeOK'
  BY DEF TypeOK, vars, driverVars, sourceVars
<1>. QED
  BY <1>1, SendTypes, UserTypes, ServiceTypes, DriverTypes DEF Next

(* Types, and the lock held exactly by the one that sends. *)
THEOREM TypeCorrect == Spec => []TypeOK
<1>1. SourceInv => TypeOK
  BY DEF SourceInv
<1>. QED
  BY InitSource, StepTypes, <1>1, PTL DEF Spec

-----------------------------------------------------------------------------
(* The port, and the pid the driver knows.                                 *)

(* What the steps that move neither the port nor the pid have in common. *)
LEMMA KeepsPort ==
  ASSUME [Next]_vars
  PROVE  \/ Connect \/ Register \/ Disconnected \/ Unload \/ LoadStep
         \/ UNCHANGED <<driver, port, pid, loads>>
<1>. USE DEF portVars, driverVars, sourceVars
<1>1. CASE \E a \in Actors : SendStep(a)
  BY <1>1 DEF SendStep, Acquire, TimeOut, Over
<1>2. CASE \E h \in Handles : UserStep(h)
  BY <1>2 DEF UserStep, Open, Read, Write, SetInformation, Close, Operate, Idle
<1>3. CASE RegisterFails \/ RequestStop \/ StopStep \/ Crash \/ Restart \/ OwnRead
  BY <1>3 DEF RegisterFails, RequestStop, StopStep, CancelIo, ClosePort, Join, Crash, Restart, OwnRead
<1>4. CASE ReaderStep
  BY <1>4 DEF ReaderStep, Check, Get, GetFails, Retry, CallbackReturns, Deliver, Over
<1>5. CASE UNCHANGED vars
  BY <1>5 DEF vars
<1>. QED
  BY <1>1, <1>2, <1>3, <1>4, <1>5 DEF Next

LEMMA StepConnection ==
  ASSUME TypeOK, Connection, [Next]_vars
  PROVE  Connection'
<1>. USE DEF Connection, driverVars, sourceVars, portVars, handleVars
<1>1. CASE Connect
  BY <1>1 DEF Connect, CachemonConnect
<1>2. CASE Register \/ RegisterFails
  BY <1>2 DEF Register, RegisterService, RegisterFails
<1>3. CASE RequestStop \/ StopStep
  BY <1>3 DEF RequestStop, StopStep, CancelIo, ClosePort, Join
<1>4. CASE Crash \/ Restart
  BY <1>4 DEF Crash, Restart
<1>5. CASE ReaderStep
  BY <1>5 DEF ReaderStep, Check, Get, GetFails, Retry, CallbackReturns, Deliver, Over
<1>6. CASE Disconnected \/ Unload \/ LoadStep
  BY <1>6 DEF Disconnected, CachemonDisconnect, Unload, UnloadPorts, LoadStep, LoadDriver, Unregister
<1>7. CASE OwnRead \/ \E h \in Handles : UserStep(h)
  BY <1>7 DEF OwnRead, UserStep, Open, Read, Write, SetInformation, Close, Operate, Idle
<1>8. CASE \E a \in Actors : SendStep(a)
  BY <1>8 DEF SendStep, Acquire, TimeOut, Over
<1>9. CASE UNCHANGED vars
  BY <1>9 DEF vars
<1>. QED
  BY <1>1, <1>2, <1>3, <1>4, <1>5, <1>6, <1>7, <1>8, <1>9 DEF Next

LEMMA StepPid ==
  ASSUME TypeOK, Connection, PidHasClient, [Next]_vars
  PROVE  PidHasClient'
<1>. USE DEF PidHasClient
<1>1. CASE Connect \/ Register
  BY <1>1 DEF Connect, CachemonConnect, Register, RegisterService, Connection
<1>2. CASE Disconnected \/ Unload
  BY <1>2 DEF Disconnected, CachemonDisconnect, Unload, UnloadPorts
<1>3. CASE LoadStep
  BY <1>3 DEF LoadStep, LoadDriver, Unregister
<1>4. CASE UNCHANGED <<driver, port, pid, loads>>
  BY <1>4
<1>. QED
  BY <1>1, <1>2, <1>3, <1>4, KeepsPort

LEMMA StepReloads ==
  ASSUME TypeOK, Connection, Reloads, [Next]_vars
  PROVE  Reloads'
<1>. USE DEF Reloads, TypeOK
<1>1. CASE Connect \/ Register
  BY <1>1 DEF Connect, CachemonConnect, Register, RegisterService, portVars, driverVars
<1>2. CASE Disconnected \/ Unload
  BY <1>2 DEF Disconnected, CachemonDisconnect, Unload, UnloadPorts, Connection, sourceVars
<1>3. CASE LoadStep
  BY <1>3 DEF LoadStep, LoadDriver, Unregister, sourceVars
<1>4. CASE UNCHANGED <<driver, port, pid, loads>> /\ link' \in {link, "none"}
  BY <1>4
<1>5. ASSUME UNCHANGED <<driver, port, pid, loads>> PROVE link' \in {link, "none"} \/ Connect
  <2>. USE DEF sourceVars
  <2>1. CASE \/ OwnRead \/ LoadStep \/ Disconnected \/ UNCHANGED vars
             \/ (\E h \in Handles : UserStep(h)) \/ (\E a \in Actors : SendStep(a))
    BY <2>1 DEF OwnRead, LoadStep, Disconnected, UserStep, SendStep, vars
  <2>2. CASE Register \/ RegisterFails \/ RequestStop \/ StopStep \/ Crash \/ Restart
    BY <2>2 DEF Register, RegisterFails, RequestStop, StopStep, CancelIo, ClosePort, Join, Crash, Restart
  <2>3. CASE ReaderStep
    BY <2>3 DEF ReaderStep, Check, Get, GetFails, Retry, CallbackReturns
  <2>4. CASE Unload
    BY <2>4, <1>5 DEF Unload, UnloadPorts
  <2>. QED
    BY <2>1, <2>2, <2>3, <2>4 DEF Next
<1>. QED
  BY <1>1, <1>2, <1>3, <1>4, <1>5, KeepsPort

-----------------------------------------------------------------------------
(* What the reader receives of the service's own operations.               *)

LEMMA StepFeedback ==
  ASSUME TypeOK, Connection, PidHasClient, Feedback, NoFeedback, [Next]_vars
  PROVE  Feedback' /\ NoFeedback'
<1>. USE DEF Feedback, NoFeedback, driverVars, sourceVars, portVars, handleVars
<1>1. CASE Connect
  BY <1>1 DEF Connect, CachemonConnect
<1>2. CASE Register \/ RegisterFails
  BY <1>2 DEF Register, RegisterService, RegisterFails, Connection
<1>3. CASE RequestStop \/ StopStep
  BY <1>3 DEF RequestStop, StopStep, CancelIo, ClosePort, Join, Connection
<1>4. CASE Crash \/ Restart
  BY <1>4 DEF Crash, Restart, Connection
<1>5. CASE Get
  (* The reader runs, so the pid is registered and nothing was received yet. *)
  <2>1. PICK a \in Actors : Deliver(a) /\ own' = IF a = Service THEN own + 1 ELSE own
    BY <1>5 DEF Get
  <2>2. link = "open" /\ owner # "connected" /\ pid /\ UNCHANGED <<link, owner, pid>>
    BY <1>5, <2>1 DEF Get, Connection, Deliver, Over
  <2>3. at[a] = "send" /\ at' = [at EXCEPT ![a] = "none"] /\ at \in [Actors -> {"none", "lock", "send"}]
    BY <2>1 DEF Deliver, Over, TypeOK
  <2>4. CASE a = Service
    BY <2>1, <2>2, <2>3, <2>4
  <2>5. CASE a # Service
    <3>1. own' = own /\ at'[Service] = at[Service]
      BY <2>1, <2>3, <2>5 DEF Actors
    <3>. QED
      BY <2>2, <3>1
  <2>. QED
    BY <2>4, <2>5
<1>6. CASE Check \/ GetFails \/ Retry \/ CallbackReturns
  BY <1>6 DEF Check, GetFails, Retry, CallbackReturns
<1>7. CASE Disconnected \/ Unload \/ LoadStep
  BY <1>7 DEF Disconnected, CachemonDisconnect, Unload, UnloadPorts, LoadStep, LoadDriver, Unregister, Connection
<1>8. CASE OwnRead
  BY <1>8 DEF OwnRead, Report, Ignored, Connection
<1>9. ASSUME NEW h \in Handles, UserStep(h) PROVE Feedback' /\ NoFeedback'
  <2>1. at'[Service] = at[Service]
    BY <1>9, DriverAssumption
    DEF UserStep, Open, Read, Write, SetInformation, Close, Report, TypeOK, Actors
  <2>. QED
    BY <1>9, <2>1 DEF UserStep, Open, Read, Write, SetInformation, Close, Operate, Idle
<1>10. ASSUME NEW a \in Actors, SendStep(a) PROVE Feedback' /\ NoFeedback'
  <2>1. at[Service] = "none" => at'[Service] = "none"
    BY <1>10 DEF SendStep, Acquire, TimeOut, Over, TypeOK, Actors
  <2>. QED
    BY <1>10, <2>1 DEF SendStep, Acquire, TimeOut, Over
<1>11. CASE UNCHANGED vars
  BY <1>11 DEF vars
<1>. QED
  BY <1>1, <1>2, <1>3, <1>4, <1>5, <1>6, <1>7, <1>8, <1>9, <1>10, <1>11 DEF Next, ReaderStep

-----------------------------------------------------------------------------
(* The end of a write.                                                     *)

(* Only a user's operation, the end of one and an unload touch what is owed. *)
LEMMA StepContexts ==
  ASSUME TypeOK, Contexts, WriteEndsReported, [Next]_vars
  PROVE  Contexts' /\ WriteEndsReported'
<1>. USE DEF Contexts, WriteEndsReported, portVars, handleVars
<1>1. ASSUME NEW a \in Actors, Over(a), at[a] # "none" PROVE Contexts' /\ WriteEndsReported'
  BY <1>1 DEF Over, TypeOK
<1>2. CASE \E a \in Actors : SendStep(a)
  <2>1. PICK a \in Actors : SendStep(a)
    BY <1>2
  <2>2. CASE Over(a)
    BY <1>1, <2>1, <2>2 DEF SendStep, Acquire, TimeOut
  <2>3. CASE at[a] = "lock" /\ at' = [at EXCEPT ![a] = "send"] /\ UNCHANGED <<portVars, handleVars, kind, owed>>
    BY <2>3 DEF TypeOK
  <2>. QED
    BY <2>1, <2>2, <2>3 DEF SendStep, Acquire, TimeOut
<1>3. CASE Get
  <2>1. PICK a \in Actors : Deliver(a)
    BY <1>3 DEF Get
  <2>. QED
    BY <1>1, <2>1 DEF Deliver
<1>4. ASSUME NEW h \in Handles, UserStep(h) PROVE Contexts' /\ WriteEndsReported'
  <2>. USE DEF Operate, Idle
  <2>1. h \in Actors /\ h # Service /\ at[h] = "none" /\ UNCHANGED driver
    BY <1>4, DriverAssumption DEF UserStep, Open, Read, Write, SetInformation, Close, Actors
  <2>2. h \in owed => h \in opened
    BY <2>1
  <2>3. \A g \in Handles \ {h} : at'[g] = at[g] /\ kind'[g] = kind[g]
    BY <1>4, <2>1 DEF UserStep, Open, Read, Write, SetInformation, Close, Report, TypeOK, Actors
  <2>4. CASE Open(h) \/ Read(h) \/ SetInformation(h)
    BY <2>1, <2>2, <2>3, <2>4 DEF Open, Read, SetInformation, TypeOK
  <2>5. CASE Write(h)
    BY <2>1, <2>2, <2>3, <2>5 DEF Write, TypeOK
  <2>6. CASE Close(h) /\ h \in owed
    (* It has its context, so its close is reported. *)
    <3>1. h \in context /\ driver # "unloaded"
      BY <2>2, <2>6
    <3>2. at'[h] = "lock" /\ kind'[h] = "WriteClosed"
      BY <2>1, <2>6, <3>1 DEF Close, Report, Ignored, TypeOK
    <3>. QED
      BY <2>1, <2>3, <2>6, <3>1, <3>2 DEF Close, TypeOK
  <2>7. CASE Close(h) /\ h \notin owed
    BY <2>1, <2>3, <2>7 DEF Close, TypeOK
  <2>. QED
    BY <1>4, <2>4, <2>5, <2>6, <2>7 DEF UserStep
<1>5. CASE OwnRead
  <2>1. \A h \in Handles : at'[h] = at[h] /\ kind'[h] = kind[h]
    BY <1>5, DriverAssumption DEF OwnRead, Report, TypeOK, Actors
  <2>. QED
    BY <1>5, <2>1 DEF OwnRead, TypeOK
<1>6. CASE Unregister
  BY <1>6 DEF Unregister
<1>7. CASE LoadDriver
  BY <1>7 DEF LoadDriver
<1>8. CASE Connect \/ Register \/ Disconnected \/ Unload
  BY <1>8 DEF Connect, CachemonConnect, Register, RegisterService, Disconnected, CachemonDisconnect, Unload,
     UnloadPorts
<1>9. CASE RegisterFails \/ RequestStop \/ StopStep \/ Crash \/ Restart \/ UNCHANGED vars
  BY <1>9 DEF RegisterFails, RequestStop, StopStep, CancelIo, ClosePort, Join, Crash, Restart, vars, driverVars
<1>10. CASE Check \/ GetFails \/ Retry \/ CallbackReturns
  BY <1>10 DEF Check, GetFails, Retry, CallbackReturns, driverVars
<1>. QED
  BY <1>2, <1>3, <1>4, <1>5, <1>6, <1>7, <1>8, <1>9, <1>10 DEF Next, LoadStep, ReaderStep

-----------------------------------------------------------------------------

LEMMA SourceInvariant == Spec => []SourceInv
<1>1. SourceInv /\ [Next]_vars => SourceInv'
  BY StepTypes, StepConnection, StepPid, StepReloads, StepFeedback, StepContexts DEF SourceInv
<1>. QED
  BY InitSource, <1>1, PTL DEF Spec

(* However connects, registrations, stops, crashes and reloads of the       *)
(* driver interleave, the service never hears more than one operation of   *)
(* its own on a connection, so its copies cannot keep causing copies.      *)
THEOREM OwnReadsIgnored == Spec => []NoFeedback
<1>1. SourceInv => NoFeedback
  BY DEF SourceInv
<1>. QED
  BY SourceInvariant, <1>1, PTL

(* The driver forgets the pid together with the connection it came over. *)
THEOREM PidForgotten == Spec => []PidHasClient
<1>1. SourceInv => PidHasClient
  BY DEF SourceInv
<1>. QED
  BY SourceInvariant, <1>1, PTL

(* No sequence of operations of a handle, with events taken, dropped and   *)
(* timed out in between, loses the mark that it has been written to.       *)
THEOREM WritesEnd == Spec => []WriteEndsReported
<1>1. SourceInv => WriteEndsReported
  BY DEF SourceInv
<1>. QED
  BY SourceInvariant, <1>1, PTL

(* --health calls a connected service healthy unless the SCM's answer and  *)
(* the list of loaded filters both fail it, and calls one that has lost its *)
(* driver healthy only across an unload.                                   *)
THEOREM HealthReported == Spec => []HealthTrue
<1>1. ASSUME SourceInv, owner = "running", NEW service \in ServiceAnswers, NEW answer \in DriverAnswers,
             NEW listed \in Listed
      PROVE  LET healthy == Healthy(QueryServiceState(service), QueryDriverState(answer, listed))
             IN  IF link = "open" THEN answer = "running" \/ listed => healthy
                 ELSE healthy => driver = "unloading" \/ (driver = "loaded" /\ loads > 1)
  <2>1. QueryServiceState(service) = "running"
    BY <1>1 DEF ServiceAnswers, QueryServiceState
  <2>2. driver = "loaded" /\ (answer = "running" \/ listed)
        => QueryDriverState(answer, listed) = "running"
    BY <1>1 DEF DriverAnswers, QueryDriverState, QueryServiceState
  <2>3. driver = "unloaded" => QueryDriverState(answer, listed) # "running"
    BY <1>1 DEF DriverAnswers, Listed, QueryDriverState, QueryServiceState
  <2>4. link = "open" => driver = "loaded"
    BY <1>1 DEF SourceInv, Connection
  <2>5. link # "open" => link = "dead"
    BY <1>1 DEF SourceInv, Connection, TypeOK
  <2>. QED
    BY <1>1, <2>1, <2>2, <2>3, <2>4, <2>5 DEF Healthy, SourceInv, TypeOK, Reloads
<1>2. SourceInv => HealthTrue
  BY <1>1 DEF HealthTrue
<1>. QED
  BY SourceInvariant, <1>2, PTL

=============================================================================
