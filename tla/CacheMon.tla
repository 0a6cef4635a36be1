------------------------------- MODULE CacheMon -------------------------------
(***************************************************************************)
(* The CacheMon minifilter (src/driver/src/driver.c): file operations pass *)
(* through its callbacks, which report them to the connected service one   *)
(* at a time, under a mutex and with a time-out, and leave out the         *)
(* service's own.  User handles read, write and close one source file; the *)
(* service's copy worker reads it too.                                     *)
(***************************************************************************)
EXTENDS Integers

CONSTANTS
  Handles,    \* handles user processes may open on the file
  Service,    \* the service's own operations
  None,
  Faults,     \* what may go wrong: a subset of {"context", "unload"}
  MaxOps,     \* bound: operations of user handles
  MaxLoads    \* bound: how often the driver is loaded

ASSUME DriverAssumption ==
  /\ Service \notin Handles /\ None \notin Handles \cup {Service}
  /\ Faults \subseteq {"context", "unload"}
  /\ MaxOps \in Nat /\ MaxLoads \in Nat

Actors == Handles \cup {Service}
Kinds == {"ReadOpen", "WriteObserved", "WriteClosed", "Rename", "Delete"}

VARIABLES
  driver,     \* "loaded", "unloading" or "unloaded"
  port,       \* g_client_port is set
  pid,        \* g_service_pid is set
  lock,       \* who holds g_client_lock, or None
  at,         \* each actor's operation: "none", waiting for the "lock", "send"
  kind,       \* what it reports; "ReadOpen" when there is none
  opened,     \* which handles are open
  context,    \* handles with a stream-handle context, WriteObserved set
  ops, loads, \* so far
  owed        \* history: written handles whose close is still to be reported

driverVars ==
  <<driver, port, pid, lock, at, kind, opened, context, ops, loads, owed>>
portVars == <<driver, port, pid, loads>>
handleVars == <<opened, context, ops>>

DriverInit ==
  /\ driver = "unloaded" /\ port = FALSE /\ pid = FALSE /\ lock = None
  /\ at = [a \in Actors |-> "none"] /\ kind = [a \in Actors |-> "ReadOpen"]
  /\ opened = {} /\ context = {} /\ ops = 0 /\ loads = 0 /\ owed = {}

-----------------------------------------------------------------------------
(* CachemonSendEvent.                                                      *)

(* Not filtered at all, or the registered service's own: g_service_pid is  *)
(* read without the lock.                                                  *)
Ignored(a) == driver = "unloaded" \/ (a = Service /\ pid)

(* An operation of a is ignored, or goes on to report k. *)
Report(a, k) ==
  IF Ignored(a) THEN UNCHANGED <<at, kind>>
  ELSE at' = [at EXCEPT ![a] = "lock"] /\ kind' = [kind EXCEPT ![a] = k]

(* a's event was taken, or is given up: nothing is owed for it any more. *)
Over(a) ==
  /\ at' = [at EXCEPT ![a] = "none"] /\ kind' = [kind EXCEPT ![a] = "ReadOpen"]
  /\ owed' = IF kind[a] = "WriteClosed" THEN owed \ {a} ELSE owed
  /\ UNCHANGED <<portVars, handleVars>>

(* Fault: the lock is not given back when there is no client. *)
FaultyAcquire(a) ==
  /\ at[a] = "lock" /\ lock = None
  /\ \/ /\ ~port /\ Over(a) /\ lock' = a
     \/ /\ port /\ lock' = a /\ at' = [at EXCEPT ![a] = "send"]
        /\ UNCHANGED <<portVars, handleVars, kind, owed>>

(* FltSendMessage holds the lock until the client takes the message; the   *)
(* event is dropped when there is no client.                               *)
Acquire(a) ==
  /\ at[a] = "lock" /\ lock = None
  /\ \/ /\ ~port /\ Over(a) /\ UNCHANGED lock
     \/ /\ port /\ lock' = a /\ at' = [at EXCEPT ![a] = "send"]
        /\ UNCHANGED <<portVars, handleVars, kind, owed>>

(* Fault: the lock is kept when the message is given up. *)
FaultyTimeOut(a) == at[a] = "send" /\ Over(a) /\ UNCHANGED lock

(* The client has taken the message; or 100 ms have passed, or the client  *)
(* has closed its end, and the event is dropped.                           *)
Deliver(a) == at[a] = "send" /\ lock' = None /\ Over(a)
TimeOut(a) == at[a] = "send" /\ lock' = None /\ Over(a)

-----------------------------------------------------------------------------
(* The operations of user handles, one at a time each.                     *)

Idle(h) == h \in Handles /\ at[h] = "none" /\ UNCHANGED <<portVars, lock>>
Operate(h) == Idle(h) /\ ops < MaxOps /\ ops' = ops + 1

(* PreCreate and PostCreate; only an open for reading is reported. *)
Open(h) ==
  /\ Operate(h) /\ h \notin opened
  /\ opened' = opened \cup {h}
  /\ Report(h, "ReadOpen") \/ UNCHANGED <<at, kind>>
  /\ UNCHANGED <<context, owed>>

(* PreRead reports every read as a read open. *)
Read(h) ==
  /\ Operate(h) /\ h \in opened
  /\ Report(h, "ReadOpen")
  /\ UNCHANGED <<opened, context, owed>>

(* PreWrite: the handle's context remembers the write.  Allocating one may *)
(* fail: the write is then only reported.                                  *)
Write(h) ==
  /\ Operate(h) /\ h \in opened
  /\ Report(h, "WriteObserved")
  /\ \/ /\ driver # "unloaded"
        /\ context' = context \cup {h} /\ owed' = owed \cup {h}
     \/ /\ driver = "unloaded" \/ ("context" \in Faults /\ h \notin context)
        /\ UNCHANGED <<context, owed>>
  /\ UNCHANGED opened

(* PreSetInformation, of a rename or a disposition. *)
SetInformation(h) ==
  /\ Operate(h) /\ h \in opened
  /\ \E k \in {"Rename", "Delete"} : Report(h, k)
  /\ UNCHANGED <<opened, context, owed>>

(* Fault: the context goes without having been looked at. *)
FaultyClose(h) ==
  /\ Idle(h) /\ h \in opened
  /\ opened' = opened \ {h} /\ context' = context \ {h}
  /\ UNCHANGED <<at, kind, ops, owed>>

(* PreCleanup: a handle that was written to is reported as closed after    *)
(* writing; its context goes.                                              *)
Close(h) ==
  /\ Idle(h) /\ h \in opened
  /\ opened' = opened \ {h} /\ context' = context \ {h}
  /\ IF h \in context THEN Report(h, "WriteClosed") ELSE UNCHANGED <<at, kind>>
  /\ UNCHANGED <<ops, owed>>

-----------------------------------------------------------------------------
(* The communication port, from the driver's side: at most one connection. *)

CachemonConnect ==
  /\ driver = "loaded" /\ ~port /\ lock = None
  /\ port' = TRUE
  /\ UNCHANGED <<driver, pid, loads, lock, at, kind, handleVars, owed>>

(* CachemonMessage: takes no lock. *)
RegisterService ==
  /\ pid' = TRUE
  /\ UNCHANGED <<driver, port, loads, lock, at, kind, handleVars, owed>>

(* Fault: the pid is remembered when its process is gone. *)
FaultyCachemonDisconnect ==
  /\ driver = "loaded" /\ port /\ lock = None
  /\ port' = FALSE
  /\ UNCHANGED <<driver, pid, loads, lock, at, kind, handleVars, owed>>

CachemonDisconnect ==
  /\ driver = "loaded" /\ port /\ lock = None
  /\ port' = FALSE /\ pid' = FALSE
  /\ UNCHANGED <<driver, loads, lock, at, kind, handleVars, owed>>

-----------------------------------------------------------------------------
(* DriverEntry and CachemonUnload.                                         *)

LoadDriver ==
  /\ driver = "unloaded" /\ loads < MaxLoads
  /\ driver' = "loaded" /\ port' = FALSE /\ pid' = FALSE /\ loads' = loads + 1
  /\ UNCHANGED <<lock, at, kind, handleVars, owed>>

(* Unloading closes the client port under the lock ... *)
UnloadPorts ==
  /\ driver = "loaded" /\ lock = None /\ "unload" \in Faults
  /\ driver' = "unloading" /\ port' = FALSE
  /\ UNCHANGED <<pid, loads, lock, at, kind, handleVars, owed>>

(* ... and FltUnregisterFilter waits for the callbacks to return, and      *)
(* takes the contexts along.                                               *)
Unregister ==
  /\ driver = "unloading" /\ \A a \in Actors : at[a] = "none"
  /\ driver' = "unloaded" /\ context' = {} /\ owed' = {}
  /\ UNCHANGED <<port, pid, loads, lock, at, kind, opened, ops>>

=============================================================================
