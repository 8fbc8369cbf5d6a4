--------------------------- MODULE ThreadRestart --------------------------
(***************************************************************************)
(* ThreadLifecycle with crashes of the server, the restart, and            *)
(* GraphRestorationService, which compiles the graph again and stops the   *)
(* threads that were interrupted.  Postgres and Redis survive; runs,       *)
(* events, requests and workers do not.  The server takes requests and     *)
(* jobs as soon as it is up, as nobody awaits the restoration.             *)
(***************************************************************************)
EXTENDS ThreadLifecycle

CONSTANT MaxCrashes         \* bound: the crashes of a behaviour

ASSUME CrashAssumption == MaxCrashes \in Nat

VARIABLES
  compiled, \* the graph is in the registry
  boot,     \* the restoration: its run of the graph, its read of threads, its writes
  found,    \* the threads it read, with their entities
  stalled,  \* the threads whose job has stalled once
  crashes

server == <<compiled, boot, found, stalled, crashes>>

Interrupted == {Running, Waiting}
NoneFound   == [t \in Threads |-> NoRow]

RestartTypes ==
  /\ TypeOK
  /\ compiled \in BOOLEAN /\ boot \in {"run", "read", "stop", "over"}
  /\ found \in [Threads -> Row] /\ stalled \subseteq Threads /\ crashes \in 0 .. MaxCrashes

RestartInit ==
  /\ Init
  /\ compiled = TRUE /\ boot = "over" /\ found = NoneFound /\ stalled = {} /\ crashes = 0

---------------------------------------------------------------------------
(* A graph whose row is Running or Compiling is restored, not one in Error. *)
Crash ==
  /\ crashes < MaxCrashes
  /\ crashes' = crashes + 1
  /\ compiled' = FALSE /\ found' = NoneFound
  /\ boot' = IF compiled \/ boot # "over" THEN "run" ELSE "over"
  /\ run' = [p \in Runners |-> NoRun]
  /\ execs' = {} /\ chain' = <<>> /\ waits' = {}
  /\ pc' = [p \in Procs |-> IF p \in Clients /\ pc[p] # "idle" THEN "done" ELSE "idle"]
  /\ snap' = [p \in Procs |-> NoRow]
  /\ upd' = [p \in Procs |-> Update("keep")]
  /\ ret' = [p \in Procs |-> "idle"]
  /\ arg' = [p \in Clients |-> NoArg]
  /\ UNCHANGED <<stores, waited, cred, thr, stalled>>

\* a new job of a thread has not stalled
ForgetsStalls == stalled' = {t \in stalled : Exists(job'[t])}

(* The lock of a dead worker expires: the job is given back. One that stalls
   a second time is failed, with attempts left: nobody is told. *)
JobStalled(t) ==
  /\ job[t].st = "active" /\ At(worker(t), "idle")
  /\ job' = [job EXCEPT ![t].st = IF t \in stalled THEN "failed" ELSE "wait"]
  /\ stalled' = stalled \cup {t}
  /\ UNCHANGED <<row, agent, cred, procs, compiled, boot, found, crashes>>

\* restoreGraph runs the graph
Restored ==
  /\ boot = "run"
  /\ compiled' = TRUE /\ boot' = "read"
  /\ UNCHANGED <<vars, found, stalled, crashes>>

\* the run fails, and cleans up after itself
RestoreFails ==
  /\ "boot" \in Faults /\ boot = "run"
  /\ boot' = "read"
  /\ UNCHANGED <<vars, compiled, found, stalled, crashes>>

\* mutant: threads that run are not looked for
FindWaiting ==
  /\ boot = "read"
  /\ found' = [t \in Threads |-> IF row[t].status = Waiting THEN row[t] ELSE NoRow]
  /\ boot' = "stop"
  /\ UNCHANGED <<vars, compiled, stalled, crashes>>

\* stopInterruptedThreads, and stopRunningThreads of a failed run, read ...
FindInterrupted ==
  /\ boot = "read"
  /\ found' = [t \in Threads |-> IF row[t].status \in Interrupted THEN row[t] ELSE NoRow]
  /\ boot' = "stop"
  /\ UNCHANGED <<vars, compiled, stalled, crashes>>

\* ... and write, each thread by itself
StopInterrupted(t) ==
  /\ boot = "stop" /\ found[t] # NoRow
  /\ Write(t, WriteStatus(row[t], found[t], Stopped))
  /\ found' = [found EXCEPT ![t] = NoRow]
  /\ UNCHANGED <<job, agent, cred, procs, compiled, boot, stalled, crashes>>

\* a failed run also cancels the delayed jobs of the graph
RestoreOver ==
  /\ boot = "stop" /\ found = NoneFound
  /\ boot' = "over"
  /\ job' = [t \in Threads |-> IF ~compiled /\ job[t].st = "delayed" THEN NoJob ELSE job[t]]
  /\ ForgetsStalls
  /\ UNCHANGED <<row, agent, cred, procs, compiled, found, crashes>>

\* the user runs a graph whose restoration failed
Rerun ==
  /\ boot = "over" /\ ~compiled
  /\ compiled' = TRUE
  /\ UNCHANGED <<vars, boot, found, stalled, crashes>>

\* 'Graph not in registry'
ResumeThrows(p) ==
  /\ ~compiled /\ At(p, "hWrite")
  /\ Goto(p, AfterRun(p, FALSE))
  /\ Drop(p)
  /\ UNCHANGED <<stores, agent, cred, thr, upd, ret, arg, server>>

Restore == Restored \/ RestoreFails \/ FindInterrupted \/ RestoreOver \/ Rerun
             \/ \E t \in Threads : StopInterrupted(t) \/ JobStalled(t)
             \/ \E p \in Runners : ResumeThrows(p)

---------------------------------------------------------------------------
(* Without the graph a trigger is refused and a resume throws before its
   first write. With the fault "early" that changes as soon as the graph is
   compiled, else when the interrupted threads are stopped. *)
Hosted == compiled /\ (boot = "over" \/ "early" \in Faults)
NothingStarts ==
  /\ \A p \in Clients : arg'[p].op \in {"trigger", "async"} => arg[p].op = arg'[p].op
  /\ \A p \in Runners : ret'[p] = "hRun" => ret[p] = "hRun"

Serve ==
  /\ Next
  /\ Hosted \/ NothingStarts
  /\ ForgetsStalls
  /\ UNCHANGED <<compiled, boot, found, crashes>>

RestartNext == Serve \/ Crash \/ Restore
RestartSpec == RestartInit /\ [][RestartNext]_<<vars, server>>

---------------------------------------------------------------------------
(* After a crash at any step of anything, and after a restoration that may
   fail, no thread stays Running with nothing to end it: what the crash cut
   off is stopped from the read of its row, and what a surviving job does
   to the thread meanwhile is not left half way. *)
NoStrandedAfterBoot == boot = "over" => NoStrandedRunning

(* A worker that resumes a thread holds its job, which no other worker, boot
   or cancellation has taken from it, though jobs of dead workers are given
   back: two workers never resume a thread for one job. *)
WorkerHoldsJob == \A t \in Threads : ~At(worker(t), "idle") => job[t].st = "active"
===========================================================================
