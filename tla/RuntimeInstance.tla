-------------------------- MODULE RuntimeInstance -------------------------
(***************************************************************************)
(* The runtime (sandbox container) of one thread and runtime node:         *)
(* RuntimeProvider.provide against the cleanups that stop and delete it.   *)
(* The unique index (graphId, nodeId, threadId) leaves one row at a time.  *)
(* One await is one action; stopRuntime is a procedure that provide, the   *)
(* bulk cleanups and cleanupRuntimeInstance run.  A container has the name *)
(* of its instance, which Docker keeps unique, and is known to the model   *)
(* by the call that created it; a driver is known by its container.        *)
(***************************************************************************)
EXTENDS Naturals, FiniteSets

CONSTANTS Callers,     \* calls of provide; an instance is named after the call that creates it
          Cleanups,    \* who cleans up, a subset of Cleaners
          Faults,      \* what may go wrong, a subset of Mishaps
          MaxCrashes   \* bound: restarts of the API

Cleaners == {"reaper",    \* RuntimeCleanupService: idle and temporary runtimes
             "node",      \* cleanupRuntimesByNodeId, when a graph or node goes
             "instance"}  \* cleanupRuntimeInstance, after an index or a discovery
Mishaps  == {"image",     \* the container cannot be created
             "init",      \* its init script fails
             "stop",      \* the backend refuses to stop it
             "config",    \* a call comes with another configuration
             "slow",      \* a runtime grows idle while it is still starting
             "overlap",   \* two calls for one thread
             "crash"}     \* the API restarts

ASSUME CallersAssumption == IsFiniteSet(Callers) /\ Callers \cap (Cleaners \cup {"none"}) = {}
ASSUME FaultsAssumption  == Cleanups \subseteq Cleaners /\ Faults \subseteq Mishaps
ASSUME CrashesAssumption == MaxCrashes \in Nat

VARIABLES row,        \* the row of runtime_instances, or NoRow
          container,  \* the container that has the name of an instance, or "none"
          up,         \* the instances whose container has been started
          cache,      \* runtimeInstances: the driver of an instance, or "none"
          ent,        \* the entity a process loaded
          pc,         \* the await a process stands at
          hold,       \* the container a process has in hand
          failing,    \* the calls that are in their catch
          spared,     \* instances whose row goes although their container may be up (history)
          clashed,    \* instances whose name was taken when a call created their container (history)
          crashes

sandbox == <<container, up>>
lost    == <<spared, clashed>>
local   == <<ent, pc, hold, failing>>
vars    == <<row, sandbox, cache, local, lost, crashes>>

Procs    == Callers \cup Cleaners
Statuses == {"Starting", "Running", "Stopping", "Stopped", "Failed"}
NoRow    == [id |-> "none", status |-> "Stopped", idle |-> FALSE, temp |-> FALSE]
Rows     == {NoRow} \cup
            [id : Callers, status : Statuses, idle : BOOLEAN, temp : BOOLEAN]
Entity(r) == [id |-> r.id, status |-> r.status]
Known    == Callers \cup {"none"}
Entities == [id : Known, status : Statuses]
Labels   == {"idle", "done", "create", "touch",
             "start", "find", "inspect", "make", "clash", "evict", "remake",
             "boot", "init", "started", "running", "failed",
             "mark", "halt", "lookup", "kill", "remove", "stopped", "delete"}

STATUS_TRANSITIONS ==
  [ Starting |-> {"Running", "Failed"},
    Running  |-> {"Stopping", "Failed"},
    Stopping |-> {"Stopped", "Failed"},
    Stopped  |-> {},
    Failed   |-> {} ]

At(p, l)   == pc[p] = l
Goto(p, l) == pc' = [pc EXCEPT ![p] = l]
Id(p)      == ent[p].id
Busy(p)    == pc[p] \notin {"idle", "done"}

\* the end of a call or a cleanup, with its identity map
Over(p) == /\ Goto(p, IF p \in Callers THEN "done" ELSE "idle")
           /\ ent' = [ent EXCEPT ![p] = Entity(NoRow)]
           /\ hold' = [hold EXCEPT ![p] = "none"]
           /\ failing' = failing \ {p}

Hold(p, d) == hold' = [hold EXCEPT ![p] = d]

(* transitionStatus(id, s): findOne by id returns the entity that this
   request loaded, so the table is asked about the snapshot; the flush
   updates the row of that id, if it is still there. *)
MayMove(p, s) == s = ent[p].status \/ s \in STATUS_TRANSITIONS[ent[p].status]
Moved(p, s) == IF row.id = Id(p) THEN [row EXCEPT !.status = s] ELSE row
Move(p, s)  == ent' = [ent EXCEPT ![p].status = s] /\ row' = Moved(p, s)

\* the container p has in hand exists
InHand(p) == hold[p] # "none" /\ container[Id(p)] = hold[p]

(* stopByInstance on the container in hand: an error, or a container that is
   gone, is swallowed; the backend may refuse. *)
StopInHand(p) ==
  \/ /\ InHand(p)
     /\ container' = [container EXCEPT ![Id(p)] = "none"] /\ up' = up \ {Id(p)}
     /\ UNCHANGED spared
  \/ ~InHand(p) /\ UNCHANGED <<sandbox, spared>>
  \/ "stop" \in Faults /\ InHand(p) /\ spared' = spared \cup {Id(p)} /\ UNCHANGED sandbox

Init ==
  /\ row = NoRow
  /\ container = [i \in Callers |-> "none"] /\ up = {}
  /\ cache = [i \in Callers |-> "none"]
  /\ ent = [p \in Procs |-> Entity(NoRow)]
  /\ pc = [p \in Procs |-> "idle"]
  /\ hold = [p \in Procs |-> "none"]
  /\ failing = {}
  /\ spared = {} /\ clashed = {}
  /\ crashes = 0

---------------------------------------------------------------------------
(* provide *)

\* getOne, and what to do with the row it finds
Provide(c) ==
  /\ At(c, "idle")
  /\ "overlap" \in Faults \/ \A d \in Callers : ~Busy(d)
  /\ ent' = [ent EXCEPT ![c] = Entity(row)]
  /\ \/ row = NoRow /\ Goto(c, "create")
     \/ row # NoRow /\ row.status = "Failed" /\ Goto(c, "halt")
     \/ row # NoRow /\ row.status # "Failed" /\ Goto(c, "touch")
     \/ row # NoRow /\ row.status # "Failed" /\ "config" \in Faults /\ Goto(c, "mark")
  /\ UNCHANGED <<row, sandbox, cache, hold, failing, lost, crashes>>

\* mutant: the update upserts the row
TouchUpserts(c) ==
  /\ At(c, "touch")
  /\ \E t \in BOOLEAN : row' = [row EXCEPT !.idle = FALSE, !.temp = t]
  /\ Goto(c, "start")
  /\ UNCHANGED <<sandbox, cache, ent, hold, failing, lost, crashes>>

\* the row is taken: lastUsedAt, and temporary as this call wants it
Touch(c) ==
  /\ At(c, "touch")
  /\ \E t \in BOOLEAN :
       row' = IF row.id = Id(c) THEN [row EXCEPT !.idle = FALSE, !.temp = t] ELSE row
  /\ Goto(c, "start")
  /\ UNCHANGED <<sandbox, cache, ent, hold, failing, lost, crashes>>

\* an insert, refused by the unique index when another call was faster
Create(c) ==
  /\ At(c, "create")
  /\ \/ /\ row = NoRow
        /\ \E t \in BOOLEAN :
             LET r == [id |-> c, status |-> "Starting", idle |-> FALSE, temp |-> t]
             IN  row' = r /\ ent' = [ent EXCEPT ![c] = Entity(r)]
        /\ Goto(c, "start") /\ UNCHANGED <<hold, failing>>
     \/ row # NoRow /\ Over(c) /\ UNCHANGED row
  /\ UNCHANGED <<sandbox, cache, lost, crashes>>

\* ensureRuntimeForRecord: the cached driver, or a new one that is started
Start(c) ==
  /\ At(c, "start")
  /\ Goto(c, IF cache[Id(c)] # "none" THEN "running" ELSE "find")
  /\ UNCHANGED <<row, sandbox, cache, ent, hold, failing, lost, crashes>>

\* the call returns the runtime, or fails because the row was being stopped
Provided(c) ==
  /\ At(c, "running")
  /\ IF MayMove(c, "Running")
     THEN row' = (IF ent[c].status = "Running" THEN row ELSE Moved(c, "Running")) /\ Over(c)
     ELSE Goto(c, "failed") /\ UNCHANGED <<row, ent, hold, failing>>
  /\ UNCHANGED <<sandbox, cache, lost, crashes>>

\* catch: an illegal transition to Failed is ignored, and cleanupFailedInstance stops the container
StartFailed(c) ==
  /\ At(c, "failed")
  /\ IF MayMove(c, "Failed") THEN Move(c, "Failed") ELSE UNCHANGED <<row, ent>>
  /\ failing' = failing \cup {c}
  /\ Hold(c, "none")
  /\ Goto(c, "halt")
  /\ UNCHANGED <<sandbox, cache, lost, crashes>>

---------------------------------------------------------------------------
(* DockerRuntime.start *)

\* getByName
Find(c) ==
  /\ At(c, "find")
  /\ Hold(c, container[Id(c)])
  /\ Goto(c, IF container[Id(c)] # "none" THEN "inspect" ELSE "make")
  /\ UNCHANGED <<row, sandbox, cache, ent, failing, lost, crashes>>

\* the container that was found is adopted, started first when it is not running
Inspect(c) ==
  /\ At(c, "inspect")
  /\ Goto(c, CASE ~InHand(c)                  -> "failed"
               [] InHand(c) /\ Id(c) \in up    -> "started"
               [] InHand(c) /\ Id(c) \notin up -> "boot")
  /\ UNCHANGED <<row, sandbox, cache, ent, hold, failing, lost, crashes>>

\* somebody stops the container of i and is going to delete its row
Doomed(i) == \E p \in Procs : Id(p) = i /\ pc[p] \in {"kill", "remove", "stopped", "delete"}

\* createContainer, when nobody has the name
MakeContainer(c) ==
  /\ container[Id(c)] = "none"
  /\ container' = [container EXCEPT ![Id(c)] = c] /\ Hold(c, c) /\ UNCHANGED up
  /\ spared' = IF Doomed(Id(c)) THEN spared \cup {Id(c)} ELSE spared
  /\ Goto(c, "boot")

\* the image, the network or the container cannot be had
NoImage(c) == "image" \in Faults /\ Goto(c, "failed") /\ UNCHANGED <<sandbox, hold, lost>>

\* createContainerWithRetry: the name may be taken by the container of another call
Make(c) ==
  /\ At(c, "make")
  /\ \/ MakeContainer(c) /\ UNCHANGED clashed
     \/ NoImage(c)
     \/ /\ container[Id(c)] # "none"
        /\ clashed' = clashed \cup {Id(c)}
        /\ Goto(c, "clash") /\ UNCHANGED <<sandbox, hold, spared>>
  /\ UNCHANGED <<row, cache, ent, failing, crashes>>

\* the one that has the name is looked up,
Clash(c) ==
  /\ At(c, "clash")
  /\ Hold(c, container[Id(c)])
  /\ Goto(c, IF container[Id(c)] # "none" THEN "evict" ELSE "remake")
  /\ UNCHANGED <<row, sandbox, cache, ent, failing, lost, crashes>>

\* stopped whoever uses it,
Evict(c) ==
  /\ At(c, "evict")
  /\ StopInHand(c)
  /\ Hold(c, "none")
  /\ Goto(c, "remake")
  /\ UNCHANGED <<row, cache, ent, failing, clashed, crashes>>

\* and the container is created again; a second conflict is an error
Remake(c) ==
  /\ At(c, "remake")
  /\ \/ MakeContainer(c) /\ UNCHANGED clashed
     \/ NoImage(c)
     \/ container[Id(c)] # "none" /\ Goto(c, "failed") /\ UNCHANGED <<sandbox, hold, lost>>
  /\ UNCHANGED <<row, cache, ent, failing, crashes>>

(* container.start: an error when it is gone, or when another call has started
   it. The probe that follows only warns, also when the container is gone. *)
Boot(c) ==
  /\ At(c, "boot")
  /\ \/ /\ InHand(c) /\ Id(c) \notin up
        /\ up' = up \cup {Id(c)}
        /\ Goto(c, IF hold[c] = c THEN "init" ELSE "started")
     \/ /\ ~InHand(c) \/ Id(c) \in up
        /\ Goto(c, "failed") /\ UNCHANGED up
  /\ UNCHANGED <<row, container, cache, ent, hold, failing, lost, crashes>>

\* the init script runs in the container that was created, if the runtime has one
InitScript(c) ==
  /\ At(c, "init")
  /\ \/ Goto(c, "started")
     \/ (~InHand(c) \/ "init" \in Faults) /\ Goto(c, "failed")
  /\ UNCHANGED <<row, sandbox, cache, ent, hold, failing, lost, crashes>>

\* after the subscription to its phases has ended, the driver is cached
Started(c) ==
  /\ At(c, "started")
  /\ cache' = [cache EXCEPT ![Id(c)] = hold[c]]
  /\ Hold(c, "none")
  /\ Goto(c, "running")
  /\ UNCHANGED <<row, sandbox, ent, failing, lost, crashes>>

---------------------------------------------------------------------------
(* stopRuntime; cleanupFailedInstance, with the row Failed, begins at stopContainer *)

\* Starting has no transition to Stopping: provide rejects, a bulk cleanup takes
\* the refusal for somebody else's success and goes on to the delete
Mark(p) ==
  /\ At(p, "mark")
  /\ \/ ent[p].status = "Running" /\ Move(p, "Stopping") /\ Goto(p, "halt")
        /\ UNCHANGED <<hold, failing, spared>>
     \/ ent[p].status \in {"Stopping", "Stopped", "Failed"} /\ Goto(p, "halt")
        /\ UNCHANGED <<row, ent, hold, failing, spared>>
     \/ ent[p].status = "Starting" /\ p \in {"reaper", "node"} /\ Goto(p, "delete")
        /\ spared' = spared \cup {Id(p)}
        /\ UNCHANGED <<row, ent, hold, failing>>
     \/ ent[p].status = "Starting" /\ p \notin {"reaper", "node"} /\ Over(p)
        /\ UNCHANGED <<row, spared>>
  /\ UNCHANGED <<sandbox, cache, clashed, crashes>>

\* mutant: a terminal status skips the backend as well
HaltSkipsTerminal(p) ==
  /\ At(p, "halt")
  /\ Hold(p, IF ent[p].status \in {"Stopped", "Failed"} THEN "none" ELSE cache[Id(p)])
  /\ Goto(p, CASE ent[p].status \in {"Stopped", "Failed"} -> "stopped"
               [] OTHER -> IF cache[Id(p)] # "none" THEN "kill" ELSE "lookup")
  /\ UNCHANGED <<row, sandbox, cache, ent, failing, lost, crashes>>

\* stopContainer: through the cached driver, or by the name
Halt(p) ==
  /\ At(p, "halt")
  /\ Hold(p, cache[Id(p)])
  /\ Goto(p, IF cache[Id(p)] # "none" THEN "kill" ELSE "lookup")
  /\ UNCHANGED <<row, sandbox, cache, ent, failing, lost, crashes>>

\* runtime.stop: the container of that driver, whichever has the name by now
Kill(p) ==
  /\ At(p, "kill")
  /\ StopInHand(p)
  /\ Goto(p, "stopped")
  /\ UNCHANGED <<row, cache, ent, hold, failing, clashed, crashes>>

\* stopByName, the lookup
Lookup(p) ==
  /\ At(p, "lookup")
  /\ Hold(p, container[Id(p)])
  /\ Goto(p, IF container[Id(p)] # "none" THEN "remove" ELSE "stopped")
  /\ UNCHANGED <<row, sandbox, cache, ent, failing, lost, crashes>>

\* and the stop
Remove(p) ==
  /\ At(p, "remove")
  /\ StopInHand(p)
  /\ Hold(p, "none")
  /\ Goto(p, "stopped")
  /\ UNCHANGED <<row, cache, ent, failing, clashed, crashes>>

\* the driver is dropped and, unless the status was terminal, Stopped is written
Stopped(p) ==
  /\ At(p, "stopped")
  /\ cache' = IF hold[p] # "none" THEN [cache EXCEPT ![Id(p)] = "none"] ELSE cache
  /\ IF ent[p].status = "Stopping" THEN Move(p, "Stopped") ELSE UNCHANGED <<row, ent>>
  /\ Hold(p, "none")
  /\ Goto(p, "delete")
  /\ UNCHANGED <<sandbox, failing, lost, crashes>>

\* another call has taken the row and is going to start its container
Shared(p) ==
  \E c \in Callers \ {p} :
     /\ Id(c) = Id(p)
     /\ pc[c] \in {"touch", "start", "find", "make", "clash", "evict", "remake"}

\* mutant: the row of a failed call is kept
DeleteKeepsFailed(p) ==
  /\ At(p, "delete")
  /\ row' = IF row.id = Id(p) /\ p \notin failing THEN NoRow ELSE row
  /\ spared' = IF Shared(p) THEN spared \cup {Id(p)} ELSE spared
  /\ IF p \in Callers \ failing
     THEN Goto(p, "create") /\ UNCHANGED <<ent, hold, failing>>
     ELSE Over(p)
  /\ UNCHANGED <<sandbox, cache, clashed, crashes>>

\* hardDeleteById; then provide goes on to create another instance, or rethrows
Delete(p) ==
  /\ At(p, "delete")
  /\ row' = IF row.id = Id(p) THEN NoRow ELSE row
  /\ spared' = IF Shared(p) THEN spared \cup {Id(p)} ELSE spared
  /\ IF p \in Callers \ failing
     THEN Goto(p, "create") /\ UNCHANGED <<ent, hold, failing>>
     ELSE Over(p)
  /\ UNCHANGED <<sandbox, cache, clashed, crashes>>

---------------------------------------------------------------------------
(* the cleanups *)

\* mutant: a runtime that never came up is not selected
SelectsRunning(k) ==
  /\ row # NoRow
  /\ k = "reaper" =>
       /\ row.idle
       /\ row.status \in {"Running", "Failed"}

Selects(k) ==
  /\ row # NoRow
  /\ k = "reaper" =>
       /\ row.idle
       /\ \/ row.status \in {"Running", "Starting", "Failed"}  \* cleanupIdleRuntimes
          \/ row.temp                                          \* cleanupTemporaryRuntimes

Select(k) ==
  /\ At(k, "idle") /\ Selects(k)
  /\ ent' = [ent EXCEPT ![k] = Entity(row)]
  /\ Goto(k, "mark")
  /\ UNCHANGED <<row, sandbox, cache, hold, failing, lost, crashes>>

\* nobody has used the runtime for the idle threshold
Age ==
  /\ row # NoRow /\ ~row.idle
  /\ "slow" \in Faults \/ \A c \in Callers : ~Busy(c)
  /\ row' = [row EXCEPT !.idle = TRUE]
  /\ UNCHANGED <<sandbox, cache, local, lost, crashes>>

\* the process ends: drivers and calls are gone, rows and containers stay
Crash ==
  /\ "crash" \in Faults /\ crashes < MaxCrashes
  /\ crashes' = crashes + 1
  /\ cache' = [i \in Callers |-> "none"]
  /\ pc' = [p \in Procs |-> IF At(p, "idle") \/ p \in Cleaners THEN "idle" ELSE "done"]
  /\ ent' = [p \in Procs |-> Entity(NoRow)]
  /\ hold' = [p \in Procs |-> "none"]
  /\ failing' = {}
  /\ UNCHANGED <<row, sandbox, lost>>

Call(c)  == \/ Provide(c) \/ Touch(c) \/ Create(c)
            \/ Start(c) \/ Provided(c) \/ StartFailed(c)
            \/ Find(c) \/ Inspect(c) \/ Make(c) \/ Clash(c) \/ Evict(c) \/ Remake(c)
            \/ Boot(c) \/ InitScript(c) \/ Started(c)
Stop(p)  == \/ Mark(p) \/ Halt(p) \/ Kill(p) \/ Lookup(p) \/ Remove(p)
            \/ Stopped(p) \/ Delete(p)

Next == \/ \E c \in Callers : Call(c)
        \/ \E p \in Procs : Stop(p)
        \/ \E k \in Cleanups : Select(k)
        \/ Age \/ Crash

Spec == Init /\ [][Next]_vars

\* an await goes on and the cleanup job repeats; no call, sweep or crash is owed
FairSpec ==
  /\ Spec
  /\ \A c \in Callers : WF_vars(Busy(c) /\ Call(c))
  /\ \A p \in Procs : WF_vars(Stop(p))
  /\ "reaper" \in Cleanups => WF_vars(Select("reaper"))

---------------------------------------------------------------------------
TypeOK ==
  /\ row \in Rows
  /\ container \in [Callers -> Known] /\ up \subseteq Callers /\ cache \in [Callers -> Known]
  /\ ent \in [Procs -> Entities]
  /\ pc \in [Procs -> Labels]
  /\ hold \in [Procs -> Known]
  /\ failing \subseteq Callers /\ spared \subseteq Callers /\ clashed \subseteq Callers
  /\ crashes \in 0..MaxCrashes

Settled == \A p \in Procs : ~Busy(p)
Rowless == {i \in Callers : container[i] # "none"} \ {row.id}

(* Once every call and cleanup is over, a container without a row is one that a
   cleanup was refused to stop, that a call started between the stop and the
   end of its row, or that replaced another one of its name: no other order of
   failures, restarts, calls and cleanups loses one. *)
OrphansSpared == Settled => Rowless \subseteq spared \cup clashed

\* Once every call and cleanup is over, a container has a row that leads to it.
NoOrphan == Settled => Rowless = {}

(* Once every call and cleanup is over, the driver that the next call gets from
   the cache has the container of its instance, unless two calls created one
   each and one removed the other's: calls that share a row with one that
   fails, or with a stop, never leave a dead driver behind it. *)
NoDeadDriver ==
  Settled /\ row.id \in Callers \ clashed =>
    cache[row.id] \in {"none", container[row.id]}

(* A runtime nobody uses any more is reaped: its row does not stay Starting,
   Running or Failed. (Stopping and Stopped, left by a crash, are not selected.) *)
Idle   == row # NoRow /\ row.idle /\ row.status \in {"Starting", "Running", "Failed"}
Reaped == Idle ~> ~Idle
===========================================================================
