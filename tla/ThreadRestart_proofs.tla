----------------------- MODULE ThreadRestart_proofs -----------------------
(***************************************************************************)
(* Proofs about ThreadRestart: the types, the ownership of jobs and the    *)
(* single run of a thread survive any number of crashes at any step, the   *)
(* expiry of the locks of dead workers and a restoration that fails.  What *)
(* the steps of the server keep is taken from ThreadLifecycle_proofs;      *)
(* JobOwned itself is lost, as a crash leaves jobs active that no worker   *)
(* has, and only its half JobHeld is inductive.  The second part proves that *)
(* no thread is left Running after a boot: from ThreadRows_proofs for what *)
(* the server owes, and from the boot for what a crash cut off.            *)
(***************************************************************************)
EXTENDS ThreadRestart, ThreadRows_proofs

ServerTypes ==
  /\ compiled \in BOOLEAN /\ boot \in {"run", "read", "stop", "over"}
  /\ found \in [Threads -> Row] /\ stalled \subseteq Threads /\ crashes \in 0 .. MaxCrashes

RInv == TypeInv /\ OwnInv /\ ServerTypes

\* NoRow is a row, so no thread found is an array of rows.
LEMMA NoneFoundType == NoRow \in Row /\ NoneFound \in [Threads -> Row]
BY DEF NoRow, Row, WaitKinds, NoneFound

\* A server that starts for the first time.
LEMMA RestartInitInv ==
  ASSUME RestartInit
  PROVE  RInv
<1>1. TypeInv /\ OwnInv
  BY InitInv DEF RestartInit, IInv
<1>2. ServerTypes
  BY NoneFoundType, CrashAssumption DEF RestartInit, ServerTypes
<1> QED
  BY <1>1, <1>2 DEF RInv

\* After a crash nothing runs, and the rows and the jobs are what they were.
LEMMA CrashKeeps ==
  ASSUME RInv, Crash
  PROVE  RInv'
<1> USE DEF RInv, TypeInv
<1>1. UNCHANGED <<row, job, waited, cred, thr, stalled>>
  BY DEF Crash, stores
<1>2. /\ execs' = {} /\ chain' = <<>> /\ waits' = {} /\ run' = [p \in Runners |-> NoRun]
      /\ pc' = [p \in Procs |-> IF p \in Clients /\ pc[p] # "idle" THEN "done" ELSE "idle"]
      /\ ret' = [p \in Procs |-> "idle"] /\ upd' = [p \in Procs |-> Update("keep")]
      /\ snap' = [p \in Procs |-> NoRow] /\ arg' = [p \in Clients |-> NoArg]
  BY DEF Crash
<1>3. NoRun \in Runs /\ NoArg \in Args /\ Update("keep") \in Updates
      /\ {"idle", "done"} \subseteq ReturnLabels /\ ReturnLabels \subseteq Labels
  BY NoneFoundType, UpdateTypes DEF NoRun, Runs, NoArg, Args, ReturnLabels, Labels
<1>4. pc' \in [Procs -> Labels] /\ \A p \in Procs : pc'[p] \in {"idle", "done"}
  BY <1>2, <1>3
<1>5. TypeOK'
  <2>1. run' \in [Runners -> Runs] /\ execs' \subseteq Runners /\ chain' \in Seq(Events)
        /\ waits' \subseteq Threads
    BY <1>2, <1>3
  <2>2. snap' \in [Procs -> Row] /\ upd' \in [Procs -> Updates] /\ ret' \in [Procs -> ReturnLabels]
        /\ arg' \in [Clients -> Args]
    BY <1>2, <1>3, NoneFoundType
  <2> QED
    BY <1>1, <1>4, <2>1, <2>2 DEF TypeOK
<1>6. RetriesLeft' /\ StatusToWrite'
  BY <1>1, <1>4 DEF RetriesLeft, StatusToWrite, At
<1>7. EventInHand'
  BY <1>2 DEF EventInHand, At, Procs, Clients, handler, caller
<1>8. Continues' /\ IdleRunless' /\ OneRun'
  <2>1. \A p \in Runners : pc'[p] \in {"idle", "done"} /\ run'[p].st = "none"
    BY <1>2, <1>4, RunnersAreProcs DEF NoRun
  <2>2. Continues'
    BY <2>1 DEF Continues, UpdateLabels
  <2>3. IdleRunless'
    BY <2>1 DEF IdleRunless, Runners
  <2>4. OneRun'
    BY <2>1 DEF OneRun, NoParallelRuns
  <2> QED
    BY <2>2, <2>3, <2>4
<1>9. JobHeld'
  <2>1. \A t \in Threads : worker(t) \in Procs \ Clients
    BY DEF Procs, Workers, Clients, worker, caller
  <2> QED
    BY <1>2, <2>1 DEF JobHeld, At
<1>10. ServerTypes'
  <2>1. /\ crashes < MaxCrashes /\ crashes' = crashes + 1 /\ compiled' = FALSE
        /\ found' = NoneFound /\ boot' \in {"run", "over"}
    BY DEF Crash
  <2>2. stalled \subseteq Threads /\ crashes \in Nat
    BY DEF ServerTypes
  <2>3. crashes' \in 0 .. MaxCrashes
    BY <2>1, <2>2, CrashAssumption
  <2>4. found' \in [Threads -> Row] /\ stalled' \subseteq Threads
    BY <1>1, <2>1, <2>2, NoneFoundType
  <2>5. compiled' \in BOOLEAN /\ boot' \in {"run", "read", "stop", "over"}
    BY <2>1
  <2> QED
    BY <2>3, <2>4, <2>5 DEF ServerTypes
<1> QED
  BY <1>5, <1>6, <1>7, <1>8, <1>9, <1>10 DEF OwnInv

\* A step that changes nothing but jobs no busy worker has.
LEMMA JobsOnly ==
  ASSUME RInv, UNCHANGED <<row, agent, cred, procs>>, job' \in [Threads -> Job], ServerTypes',
         \A t \in Threads : /\ job'[t].st # "failed" => job'[t].att < MaxAttempts
                            /\ ~At(worker(t), "idle") => job'[t] = job[t]
  PROVE  RInv'
<1>1. UNCHANGED <<row, run, execs, chain, waits, waited, cred, pc, thr, snap, upd, ret, arg>>
  BY DEF agent, procs
<1>2. TypeInv'
  BY <1>1 DEF RInv, TypeInv, TypeOK, RetriesLeft, EventInHand, StatusToWrite, At
<1>3. OwnInv'
  BY <1>1 DEF RInv, OwnInv, Continues, IdleRunless, JobHeld, OneRun, NoParallelRuns, At
<1> QED
  BY <1>2, <1>3 DEF RInv

\* The lock of a dead worker expires: its job is given back, or failed with attempts left.
LEMMA StalledKeeps ==
  ASSUME RInv, NEW t \in Threads, JobStalled(t)
  PROVE  RInv'
<1>1. PICK st \in {"failed", "wait"} : job' = [job EXCEPT ![t].st = st]
  BY DEF JobStalled
<1>2. job \in [Threads -> Job] /\ job[t].st = "active" /\ job[t].att < MaxAttempts
  BY DEF RInv, TypeInv, TypeOK, RetriesLeft, JobStalled
<1>3. job' \in [Threads -> Job] /\ job'[t].att = job[t].att
      /\ \A u \in Threads \ {t} : job'[u] = job[u]
  BY <1>1, <1>2 DEF Job, JobStates
<1>4. ServerTypes'
  BY DEF RInv, ServerTypes, JobStalled
<1> QED
  BY <1>2, <1>3, <1>4, JobsOnly DEF RInv, TypeInv, RetriesLeft, JobStalled

\* The end of the restoration removes delayed jobs, which no worker has.
LEMMA RestoreOverKeeps ==
  ASSUME RInv, RestoreOver
  PROVE  RInv'
<1>1. NoJob \in Job /\ NoJob.att < MaxAttempts
  BY MaxAttemptsAssumption DEF NoJob, Job, JobStates
<1>2. \A t \in Threads : job'[t] = job[t] \/ (job[t].st = "delayed" /\ job'[t] = NoJob)
  BY DEF RestoreOver
<1>3. job' \in [Threads -> Job]
  BY <1>1 DEF RestoreOver, RInv, TypeInv, TypeOK
<1>4. ServerTypes'
  BY DEF RInv, ServerTypes, RestoreOver, ForgetsStalls
<1> QED
  BY <1>1, <1>2, <1>3, <1>4, JobsOnly
  DEF RInv, TypeInv, OwnInv, RetriesLeft, JobHeld, RestoreOver

\* The restoration writes rows from the rows it read, and nothing else of the thread.
LEMMA StopInterruptedKeeps ==
  ASSUME RInv, NEW t \in Threads, StopInterrupted(t)
  PROVE  RInv'
<1>1. UNCHANGED <<job, run, execs, chain, waits, waited, cred, pc, thr, snap, upd, ret, arg>>
  BY DEF StopInterrupted, agent, procs
<1>2. row[t] \in Row /\ found[t] \in Row
  BY DEF RInv, TypeInv, TypeOK, ServerTypes
<1>3. WriteStatus(row[t], found[t], Stopped) \in Row
  BY <1>2, RowTypes DEF ThreadStatuses, WaitKinds
<1>4. row' \in [Threads -> Row]
  BY <1>3, WriteType DEF StopInterrupted, RInv
<1>5. TypeInv'
  BY <1>1, <1>4 DEF RInv, TypeInv, TypeOK, RetriesLeft, EventInHand, StatusToWrite, At
<1>6. OwnInv'
  BY <1>1 DEF RInv, OwnInv, Continues, IdleRunless, JobHeld, OneRun, NoParallelRuns, At
<1>7. ServerTypes'
  BY NoneFoundType DEF RInv, ServerTypes, StopInterrupted
<1> QED
  BY <1>5, <1>6, <1>7 DEF RInv

\* A resume without the graph ends like one whose agent node is not found.
LEMMA ResumeThrowsKeeps ==
  ASSUME RInv, NEW p \in Runners, ResumeThrows(p)
  PROVE  RInv'
<1> USE DEF RInv
<1>1. p \in Procs \ {handler} /\ AfterRun(p, FALSE) \in ReturnLabels \ {"idle"}
  BY RunnersAreProcs, AfterRunType
<1>2. /\ Goto(p, AfterRun(p, FALSE)) /\ Drop(p) /\ pc[p] # "idle"
      /\ UNCHANGED <<row, job, run, execs, chain, waits, waited, cred, thr, upd, ret, arg>>
  BY DEF ResumeThrows, stores, agent, At
<1>3. TypeInv'
  <2>1. pc' \in [Procs -> Labels] /\ StatusToWrite' /\ Alone(p)
    BY <1>1, <1>2, GotoType
  <2>2. snap' \in [Procs -> Row]
    BY <1>1, <1>2, FiniteAssumption, LoadType
  <2> QED
    BY <1>1, <1>2, <2>1, <2>2, EventStays DEF TypeInv, TypeOK, RetriesLeft
<1>4. OwnInv'
  BY <1>1, <1>2, StepKeeps DEF Kept, NoNewRun
<1>5. ServerTypes'
  BY DEF ResumeThrows, server, ServerTypes
<1> QED
  BY <1>3, <1>4, <1>5

\* Every step keeps the invariant: of the server, a crash or the restoration.
LEMMA RestartStep ==
  ASSUME RInv, [RestartNext]_<<vars, server>>
  PROVE  RInv'
<1>1. ASSUME UNCHANGED vars, ServerTypes'
      PROVE  RInv'
  BY <1>1 DEF RInv, TypeInv, TypeOK, RetriesLeft, EventInHand, StatusToWrite, OwnInv, Continues,
     IdleRunless, JobHeld, OneRun, NoParallelRuns, At, vars, stores, agent, procs
<1>2. CASE Serve
  <2>1. TypeInv' /\ OwnInv'
    BY <1>2, TypeStep, OwnStep DEF Serve, RInv, OwnInv, Kept
  <2>2. ServerTypes'
    BY <1>2 DEF Serve, ForgetsStalls, RInv, ServerTypes
  <2> QED
    BY <2>1, <2>2 DEF RInv
<1>3. CASE Restored \/ RestoreFails \/ FindInterrupted \/ Rerun
  <2>1. UNCHANGED vars
    BY <1>3 DEF Restored, RestoreFails, FindInterrupted, Rerun
  <2>2. ServerTypes'
    <3>1. [t \in Threads |-> IF row[t].status \in Interrupted THEN row[t] ELSE NoRow]
            \in [Threads -> Row]
      BY NoneFoundType DEF RInv, TypeInv, TypeOK
    <3> QED
      BY <1>3, <3>1 DEF Restored, RestoreFails, FindInterrupted, Rerun, RInv, ServerTypes
  <2> QED
    BY <1>1, <2>1, <2>2
<1>4. CASE UNCHANGED <<vars, server>>
  <2>1. ServerTypes'
    BY <1>4 DEF server, RInv, ServerTypes
  <2> QED
    BY <1>1, <1>4, <2>1
<1> QED
  BY <1>2, <1>3, <1>4, CrashKeeps, RestoreOverKeeps, StopInterruptedKeeps, StalledKeeps,
     ResumeThrowsKeeps DEF RestartNext, Restore

(* The invariant holds through any number of crashes, for any set of threads and
   requests, any faults and any number of attempts. *)
THEOREM RestartInductive == RestartSpec => []RInv
BY RestartInitInv, RestartStep, PTL DEF RestartSpec

(* What a crash cuts off and a boot finds again are rows, jobs and labels as before;
   a job given back by the expiry of a lock has attempts left. *)
THEOREM RestartTypeCorrect == RestartSpec => []RestartTypes
<1>1. RInv => RestartTypes
  BY DEF RInv, TypeInv, ServerTypes, RestartTypes
<1> QED
  BY RestartInductive, <1>1, PTL

(* The job of a busy worker is active in every state, though the jobs of dead workers
   are given back and the boot cancels jobs: two workers never resume a thread for
   one job. *)
THEOREM WorkersHoldJobs == RestartSpec => []WorkerHoldsJob
<1>1. RInv => WorkerHoldsJob
  BY DEF RInv, OwnInv, JobHeld, WorkerHoldsJob
<1> QED
  BY RestartInductive, <1>1, PTL

(* A thread never has two runs, across crashes and while a restoration stops threads,
   as long as no two runs of it are prepared together. *)
THEOREM OneRunAcrossCrashes == RestartSpec => []OneRun
<1>1. RInv => OneRun
  BY DEF RInv, OwnInv
<1> QED
  BY RestartInductive, <1>1, PTL
---------------------------------------------------------------------------
(* Until the graph is in the registry again, nothing is started: no run, event or
   trigger is left of the server that crashed, and no resume goes on to a run. *)
Starting == {"tPre", "tRun", "tEnsure", "hRun"}
Dormant  == /\ chain = <<>>
            /\ \A p \in Runners : /\ run[p].st = "none" /\ ~Triggered(p)
                                  /\ pc[p] \notin Starting /\ ret[p] \notin Starting

\* no thread starts to be Running
NoneStarts == \A t \in Threads : row'[t].status = Running => row[t].status = Running

\* a step of process p that starts nothing
Rests(p) ==
  /\ UNCHANGED <<run, chain>> /\ NoneStarts
  /\ \E l : Goto(p, l) /\ (p \in Runners => l \notin Starting)
  /\ ret' = ret \/ \E l : ret' = [ret EXCEPT ![p] = l] /\ (l \in Starting => l = "hRun" \/ p \notin Runners)

\* Without the graph, a step that starts nothing leaves nothing started.
LEMMA RestsDormant ==
  ASSUME TypeInv, Dormant, NothingStarts, NEW p \in Procs, Rests(p)
  PROVE  Dormant'
<1>1. \A q \in Runners : q \in Procs /\ ret'[q] # "hRun" /\ ~Triggered(q)'
  BY RunnersAreProcs DEF Dormant, NothingStarts, Starting, Triggered
<1>2. \A q \in Runners : pc'[q] \notin Starting
  <2>1. PICK l : Goto(p, l) /\ (p \in Runners => l \notin Starting)
    BY DEF Rests
  <2> QED
    BY <1>1, <2>1 DEF Goto, TypeInv, TypeOK, Dormant
<1>3. \A q \in Runners : ret'[q] \notin Starting
  <2>1. CASE ret' = ret
    BY <2>1 DEF Dormant
  <2>2. ASSUME NEW l, ret' = [ret EXCEPT ![p] = l], l \in Starting => l = "hRun" \/ p \notin Runners
        PROVE  \A q \in Runners : ret'[q] \notin Starting
    BY <1>1, <2>2 DEF TypeInv, TypeOK, Dormant
  <2> QED
    BY <2>1, <2>2 DEF Rests
<1> QED
  BY <1>1, <1>2, <1>3 DEF Dormant, Rests

\* A write that leaves the status of the thread, or takes it out of Running.
LEMMA NoStart ==
  ASSUME TypeInv, NEW t \in Threads, NEW r, Write(t, r), r.status \in {row[t].status, Stopped, Waiting} \cup Terminal
  PROVE  NoneStarts
<1>1. \A u \in Threads : row'[u].status \in {row[u].status, Stopped, Waiting} \cup Terminal
  BY DEF Write, TypeInv, TypeOK
<1> QED
  BY <1>1 DEF NoneStarts, Terminal, Done, NeedMoreInfo, Stopped, Waiting, Running

\* The update that a process emitted starts nothing.
LEMMA UpdateRests ==
  ASSUME TypeInv, DebtInv, Dormant, NEW p \in Procs \ {handler}, UpdatesRow(p)
  PROVE  Rests(p)
<1>1. UpdateMoves(p) /\ pc[p] \in UpdateLabels /\ UNCHANGED <<run, chain, thr, arg>>
  BY UpdatesMove
<1>2. upd[p].status # Running
  BY <1>1 DEF DebtInv, Steadfast, UpdateEnds, Dormant, Starting, Stopped, Waiting, Running
<1>3. p \in Runners => ret[p] \notin Starting
  BY DEF Dormant
<1>4. UpdateLabels \cap Starting = {} /\ "idle" \notin Starting
  BY DEF UpdateLabels, Starting
<1> QED
  BY <1>1, <1>2, <1>3, <1>4 DEF Rests, UpdateMoves, NoneStarts

\* Nor does scheduleResume, or pauseThread.
LEMMA SchedulesRest ==
  ASSUME TypeInv, NEW p \in Procs, Schedules(p)
  PROVE  Rests(p)
<1>1. PICK l \in {"sAdd", End(p)} : Goto(p, l)
  BY DEF Schedules, ScheduleRemove, ScheduleAdd
<1>2. UNCHANGED <<row, run, chain, ret>>
  BY DEF Schedules, ScheduleRemove, ScheduleAdd, agent
<1> QED
  BY <1>1, <1>2 DEF Rests, NoneStarts, End, Starting

\* pauseThread writes Waiting, and goes on to schedule or to end.
LEMMA PausesRest ==
  ASSUME TypeInv, Dormant, NEW p \in Runners, Pauses(p)
  PROVE  Rests(p)
<1>1. p \in Procs /\ thr[p] \in Threads /\ snap[p] \in Row /\ row[thr[p]] \in Row
  BY RunnersAreProcs DEF TypeInv, TypeOK
<1>2. UNCHANGED <<run, chain>>
  BY DEF Pauses, PauseRead, PauseWrite, agent
<1>3. CASE PauseRead(p)
  BY <1>2, <1>3 DEF PauseRead, stores, Rests, NoneStarts, Starting
<1>4. CASE PauseWrite(p) /\ snap[p].status = Absent /\ row[thr[p]].status # Absent
  BY <1>2, <1>4 DEF PauseWrite, Rests, NoneStarts, Starting
<1>5. CASE PauseWrite(p) /\ ~(snap[p].status = Absent /\ row[thr[p]].status # Absent)
  <2> DEFINE r == IF snap[p].status = Absent THEN NewRow(Waiting, "credential")
                  ELSE WriteBoth(row[thr[p]], snap[p], Waiting, "credential", snap[p].cost)
  <2>1. /\ Write(thr[p], r) /\ Goto(p, "tuRead") /\ ret' = [ret EXCEPT ![p] = AfterPause(p)]
    BY <1>5 DEF PauseWrite, Emit
  <2>2. r.status \in {row[thr[p]].status, Waiting}
    BY <1>1, EntityStatus DEF NewRow
  <2>3. NoneStarts
    BY <1>1, <2>1, <2>2, NoStart
  <2>4. AfterPause(p) \notin Starting
    BY DEF AfterPause, Dormant, Triggered, Starting, End, Runners
  <2>5. "tuRead" \notin Starting
    BY DEF Starting
  <2> HIDE DEF r
  <2> QED
    BY <1>2, <2>1, <2>3, <2>4, <2>5 DEF Rests
<1> QED
  BY <1>3, <1>4, <1>5 DEF Pauses

\* A resume is turned down before its first write.
LEMMA ResumeRests ==
  ASSUME TypeInv, Dormant, NothingStarts, NEW p \in Runners, HandleResume(p)
  PROVE  Rests(p)
<1>1. p \in Procs
  BY RunnersAreProcs
<1>2. pc[p] # "hRun" /\ ret'[p] # "hRun"
  BY DEF Dormant, NothingStarts, Starting
<1>3. ~ResumeRuns(p) /\ ~ResumeRejected(p) /\ ~ResumeWrite(p)
  BY <1>1, <1>2 DEF ResumeRuns, ResumeRejected, ResumeWrite, At, Emit, TypeInv, TypeOK
<1>4. AfterRun(p, FALSE) \notin Starting
  BY AfterFailure DEF Starting
<1>5. UNCHANGED <<row, run, chain, ret>> /\ \E l \in {"hWrite", "pRead", AfterRun(p, FALSE)} : Goto(p, l)
  BY <1>3 DEF HandleResume, ResumePreflight, ResumeUnroutable, stores, agent
<1> QED
  BY <1>4, <1>5 DEF Rests, NoneStarts, Starting

\* A request starts nothing, and a trigger is refused.
LEMMA RequestsRest ==
  ASSUME TypeInv, DebtInv, Dormant, NothingStarts, NEW p \in Clients, Caller(p)
  PROVE  Rests(p)
<1>1. /\ p \in Runners /\ p \in Procs \ {handler} /\ thr[p] \in Threads /\ snap[p] \in Row /\ row[thr[p]] \in Row
      /\ SavedOver(p) /\ Unasked(p) /\ ~Triggered(p) /\ ~Triggered(p)'
  BY ClientsRun, RunnersAreProcs DEF TypeInv, TypeOK, DebtInv, Steadfast, Dormant, Triggered, NothingStarts
<1>2. \A t \in Threads : Active(t) = {}
  BY DEF Active, Dormant
<1>3. CASE TriggerRequest(p)
  <2>1. ~Trigger(p) /\ ~TriggerRejected(p)
    BY <1>1 DEF Trigger, TriggerRejected, Take, Triggered, TypeInv, TypeOK
  <2>2. ~TriggerPreflight(p) /\ ~TriggerAppends(p) /\ ~TriggerStarts(p) /\ ~TriggerEnsures(p)
    BY <1>1 DEF TriggerPreflight, TriggerAppends, TriggerStarts, TriggerEnsures, At, Dormant, Starting
  <2>3. /\ Goto(p, "done") /\ UNCHANGED <<run, chain, ret>>
        /\ row' = row \/ (Write(thr[p], arg[p].saved) /\ arg[p].saved # NoRow)
    BY <1>3, <2>1, <2>2 DEF TriggerRequest, TriggerRestores, agent
  <2>4. NoneStarts
    <3>1. CASE row' = row
      BY <3>1 DEF NoneStarts
    <3>2. CASE Write(thr[p], arg[p].saved) /\ arg[p].saved # NoRow
      BY <1>1, <3>2, NoStart DEF SavedOver
    <3> QED
      BY <2>3, <3>1, <3>2
  <2> QED
    BY <2>3, <2>4 DEF Rests, Starting
<1>4. CASE StopRequest(p)
  <2>1. ~StopsRun(p)
    BY <1>1, <1>2 DEF StopsRun
  <2>2. CASE Stop(p) \/ StopsNothing(p)
    <3>1. /\ UNCHANGED <<row, run, chain, ret>> /\ \E l \in {"kAgent", "done", "kWrite"} : Goto(p, l)
      BY <2>2 DEF Stop, StopsNothing, stores, agent
    <3> QED
      BY <3>1 DEF Rests, NoneStarts, Starting
  <2>3. CASE StopWrites(p)
    <3> DEFINE r == WriteBoth(row[thr[p]], snap[p], Stopped, snap[p].wait, {})
    <3>1. /\ Write(thr[p], r) /\ Goto(p, "tuRead") /\ ret' = [ret EXCEPT ![p] = "done"] /\ UNCHANGED <<run, chain>>
      BY <2>3 DEF StopWrites, Emit, agent
    <3>2. r.status \in {row[thr[p]].status, Stopped}
      BY <1>1, EntityStatus
    <3>3. NoneStarts
      BY <1>1, <3>1, <3>2, NoStart
    <3>4. "tuRead" \notin Starting /\ "done" \notin Starting
      BY DEF Starting
    <3> HIDE DEF r
    <3> QED
      BY <3>1, <3>3, <3>4 DEF Rests
  <2> QED
    BY <1>4, <2>1, <2>2, <2>3 DEF StopRequest
<1>5. CASE ResumeOrCancel(p, "resume") \/ ResumeOrCancel(p, "cancel") \/ CancelJob(p) \/ Acquired(p)
  <2>1. /\ UNCHANGED <<row, run, chain, ret>>
        /\ \E l \in {"rCancel", "cCancel", "hPre", "cWrite", "sRemove", "done"} : Goto(p, l)
    BY <1>5 DEF ResumeOrCancel, CancelJob, Acquired, stores, agent
  <2> QED
    BY <2>1 DEF Rests, NoneStarts, Starting
<1>6. CASE CancelWrite(p)
  <2> DEFINE r == WriteBoth(row[thr[p]], snap[p], Stopped, "none", snap[p].cost)
  <2>1. /\ Write(thr[p], r) /\ Goto(p, "tuRead") /\ ret' = [ret EXCEPT ![p] = "done"] /\ UNCHANGED <<run, chain>>
    BY <1>6 DEF CancelWrite, Emit, agent
  <2>2. r.status \in {row[thr[p]].status, Stopped}
    BY <1>1, EntityStatus
  <2>3. NoneStarts
    BY <1>1, <2>1, <2>2, NoStart
  <2>4. "tuRead" \notin Starting /\ "done" \notin Starting
    BY DEF Starting
  <2> HIDE DEF r
  <2> QED
    BY <2>1, <2>3, <2>4 DEF Rests
<1> QED
  BY <1>1, <1>3, <1>4, <1>5, <1>6, ResumeRests, UpdateRests, SchedulesRest, PausesRest
  DEF Caller, ResumeRequest

\* The processes of a thread other than its worker, and the watchdog.
LEMMA ThreadsRest ==
  ASSUME TypeInv, DebtInv, Dormant, NEW t \in Threads
  PROVE  /\ Waiter(t) => Rests(waiter(t))
         /\ Failed(t) => Rests(failed(t))
         /\ Watchdog => Rests(watchdog)
<1>1. /\ {waiter(t), failed(t), watchdog} \subseteq Procs \ {handler} /\ row[t] \in Row /\ snap[failed(t)] \in Row
      /\ waiter(t) \notin Runners /\ failed(t) \notin Runners /\ watchdog \notin Runners
  BY ThreadProcs DEF Apart, TypeInv, TypeOK
<1>2. ASSUME NEW p \in {waiter(t), failed(t), watchdog}, UNCHANGED <<run, chain, ret>>, row' = row, NEW l, Goto(p, l)
      PROVE  Rests(p)
  BY <1>1, <1>2 DEF Rests, NoneStarts
<1>3. WaitRead(t) => Rests(waiter(t))
  <2> SUFFICES ASSUME WaitRead(t) PROVE Rests(waiter(t))
    OBVIOUS
  <2>1. PICK l : Goto(waiter(t), l)
    BY DEF WaitRead
  <2> QED
    BY <1>2, <2>1 DEF WaitRead, stores
<1>4. WaitWrite(t) => Rests(waiter(t))
  <2> DEFINE r == [row[t] EXCEPT !.wait = "timer", !.cost = snap[waiter(t)].cost]
  <2> SUFFICES ASSUME WaitWrite(t) PROVE Rests(waiter(t))
    OBVIOUS
  <2>1. /\ Write(t, r) /\ Goto(waiter(t), "tuRead") /\ ret' = [ret EXCEPT ![waiter(t)] = "sRemove"]
        /\ UNCHANGED <<run, chain>>
    BY DEF WaitWrite, Emit, agent
  <2>2. r.status = row[t].status
    BY <1>1 DEF Row
  <2>3. NoneStarts
    BY <2>1, <2>2, NoStart
  <2> QED
    BY <1>1, <2>1, <2>3 DEF Rests, Starting
<1>5. FailedRead(t) => Rests(failed(t))
  BY <1>2 DEF FailedRead, stores, agent
<1>6. FailedWrite(t) => Rests(failed(t))
  <2> DEFINE w == WriteStatus(row[t], snap[failed(t)], Stopped)
             r == [w EXCEPT !.wait = "none", !.cost = snap[failed(t)].cost]
  <2> SUFFICES ASSUME FailedWrite(t) PROVE Rests(failed(t))
    OBVIOUS
  <2>1. /\ Write(t, r) /\ Goto(failed(t), "tuRead") /\ ret' = [ret EXCEPT ![failed(t)] = "idle"]
        /\ UNCHANGED <<run, chain>>
    BY DEF FailedWrite, Emit, agent
  <2>2. r.status = w.status /\ w.status \in {row[t].status, Stopped}
    BY <1>1 DEF WriteStatus, Row
  <2>3. NoneStarts
    BY <2>1, <2>2, NoStart
  <2> QED
    BY <1>1, <2>1, <2>3 DEF Rests, Starting
<1>7. Sweep \/ SweepJob \/ SweepCredential => Rests(watchdog)
  <2> SUFFICES ASSUME Sweep \/ SweepJob \/ SweepCredential PROVE Rests(watchdog)
    OBVIOUS
  <2>1. PICK l : Goto(watchdog, l)
    BY DEF Sweep, SweepJob, SweepCredential
  <2>2. UNCHANGED <<row, run, chain, ret>>
    BY DEF Sweep, SweepJob, SweepCredential, stores, agent
  <2> QED
    BY <1>2, <2>1, <2>2
<1> QED
  BY <1>1, <1>3, <1>4, <1>5, <1>6, <1>7, UpdateRests, SchedulesRest DEF Waiter, Failed, Watchdog

\* The worker takes its job and finds no graph.
LEMMA WorkerRests ==
  ASSUME TypeInv, DebtInv, Dormant, NothingStarts, NEW t \in Threads, Worker(t)
  PROVE  Dormant' /\ NoneStarts
<1> DEFINE p == worker(t)
<1>1. p \in Procs \ {handler} /\ p \in Runners /\ failed(t) \notin Runners
  BY ThreadProcs, RunnersAreProcs DEF Apart
<1>2. CASE JobTaken(t) \/ JobCompleted(t) \/ ResumeRead(t)
  <2>1. /\ UNCHANGED <<row, run, chain, ret>> /\ \E l \in {"hRead", "idle", "hPre", "jobOk"} : Goto(p, l)
    BY <1>2 DEF JobTaken, JobCompleted, ResumeRead, stores, agent
  <2>2. Rests(p)
    BY <2>1 DEF Rests, NoneStarts, Starting
  <2> QED
    BY <1>1, <2>2, RestsDormant DEF Rests
<1>3. CASE JobFails(t)
  <2>1. UNCHANGED <<row, run, chain, ret, arg>> /\ \A q \in Runners : pc'[q] \in {pc[q], "idle"}
    BY <1>1, <1>3, RunnersAreProcs DEF JobFails, agent, TypeInv, TypeOK
  <2> QED
    BY <2>1 DEF Dormant, NoneStarts, Triggered, Starting
<1>4. CASE HandleResume(p) \/ Pauses(p) \/ UpdatesRow(p)
  <2>1. Rests(p)
    BY <1>1, <1>4, ResumeRests, PausesRest, UpdateRests
  <2> QED
    BY <1>1, <2>1, RestsDormant DEF Rests
<1> QED
  BY <1>2, <1>3, <1>4 DEF Worker

\* Whatever the server does without the graph.
LEMMA DormantStep ==
  ASSUME TypeInv, DebtInv, Dormant, NothingStarts, Next
  PROVE  Dormant' /\ NoneStarts
<1>1. ~Handler
  BY DEF Handler, HandleInvoke, ClearCostState, HandleRun, HandleStop, Landed, UpdatesRow, UpdateRead,
     UpdateStatus, UpdateMeta, Idle, TypeInv, EventInHand, At, Dormant
<1>2. \A p \in Runners : ~Agent(p)
  BY DEF Agent, EnterRun, RunUnprepared, AgentDecides, RunEnded, RunEnds, RunFails, RunExceeds, Dormant
<1>3. ASSUME NEW p \in Procs, Rests(p) PROVE Dormant' /\ NoneStarts
  BY <1>3, RestsDormant DEF Rests
<1>4. ASSUME NEW p \in Clients, Caller(p) PROVE Dormant' /\ NoneStarts
  BY <1>3, <1>4, ClientsRun, RunnersAreProcs, RequestsRest
<1>5. CASE CredentialChanges \/ \E t \in Threads : Queue(t)
  BY <1>5 DEF CredentialChanges, Queue, JobDue, JobEvicted, JobLost, stores, agent, procs, Dormant, NoneStarts, Triggered
<1>6. ASSUME NEW t \in Threads, Waiter(t) \/ Failed(t) \/ Watchdog PROVE Dormant' /\ NoneStarts
  <2>1. waiter(t) \in Procs /\ failed(t) \in Procs /\ watchdog \in Procs
    BY ThreadProcs DEF Apart
  <2> QED
    BY <1>3, <1>6, <2>1, ThreadsRest
<1>7. CASE Watchdog
  BY <1>6, <1>7, FiniteAssumption
<1> QED
  BY <1>1, <1>2, <1>4, <1>5, <1>6, <1>7, WorkerRests DEF Next

---------------------------------------------------------------------------
\* the restoration has yet to read the thread, or to stop it
Unchecked(t) == boot \in {"run", "read"} \/ (boot = "stop" /\ found[t] # NoRow)

(* Every thread that is Running is owed its end, or the restoration will stop it; without
   the graph only the latter. *)
OwedOrChecked    == \A t \in Threads : row[t].status = Running => Debt(t) \/ Unchecked(t)
FoundInterrupted == \A t \in Threads : found[t] = NoRow \/ found[t].status \in Interrupted
Unhosted         == ~compiled => Dormant /\ \A t \in Threads : row[t].status = Running => Unchecked(t)

RestartDebts == DebtInv /\ OwedOrChecked /\ FoundInterrupted /\ Unhosted

\* A server that starts for the first time has no thread.
LEMMA RestartDebtsInit ==
  ASSUME RestartInit
  PROVE  RestartDebts
<1>1. DebtInv /\ \A t \in Threads : row[t].status = Absent
  BY DebtInit DEF RestartInit
<1> QED
  BY <1>1 DEF RestartDebts, OwedOrChecked, FoundInterrupted, Unhosted, RestartInit, NoneFound, Absent, Running

\* A crash leaves nobody to end what runs, and the boot, or nothing Running.
LEMMA CrashKeepsDebts ==
  ASSUME RInv, RInv', RestartDebts, Crash
  PROVE  RestartDebts'
<1>1. /\ UNCHANGED row /\ compiled' = FALSE /\ found' = NoneFound /\ chain' = <<>>
      /\ boot' = IF compiled \/ boot # "over" THEN "run" ELSE "over"
      /\ \A p \in Runners : run'[p].st = "none"
      /\ \A p \in Clients : arg'[p] = NoArg
      /\ \A p \in Procs : pc'[p] \in {"idle", "done"} /\ ret'[p] = "idle"
      /\ pc'[handler] = "idle"
  BY DEF Crash, stores, NoRun, Procs, Clients, handler, caller
<1>2. Clients \subseteq Runners /\ Clients \subseteq Procs /\ Runners \subseteq Procs
  BY ClientsRun, RunnersAreProcs
<1>3. Dormant'
  BY <1>1, <1>2 DEF Dormant, Starting, Triggered, NoArg
<1>4. DebtInv'
  <2>1. Steadfast'
    BY <1>1, <1>2 DEF Steadfast, SavedOver, Unasked, UpdateEnds, PauseFound, At, NoArg, UpdateLabels
  <2>2. RunsEnd' /\ InvokesEnd' /\ RowsMade'
    BY <1>1 DEF RunsEnd, InvokesEnd, RowsMade
  <2>3. Handling' /\ InsertsCovered'
    BY <1>1, <1>2 DEF Handling, InsertsCovered, Ensures, At, UpdateLabels
  <2> QED
    BY <2>1, <2>2, <2>3 DEF DebtInv
<1>5. \A t \in Threads : row'[t].status = Running => Unchecked(t)'
  BY <1>1 DEF RestartDebts, Unhosted, Unchecked
<1> QED
  BY <1>1, <1>3, <1>4, <1>5 DEF RestartDebts, OwedOrChecked, FoundInterrupted, Unhosted, NoneFound

\* What the server does while the restoration is where it was.
LEMMA ServeKeepsDebts ==
  ASSUME RInv, RInv', RestartDebts, UNCHANGED <<compiled, boot, found>>,
         DebtInv' /\ Answered, compiled \/ (Dormant' /\ NoneStarts)
  PROVE  RestartDebts'
<1>1. \A t \in Threads : Unchecked(t)' = Unchecked(t)
  BY DEF Unchecked
<1>2. OwedOrChecked'
  BY <1>1 DEF RestartDebts, OwedOrChecked, Answered
<1>3. FoundInterrupted' /\ Unhosted'
  BY <1>1 DEF RestartDebts, FoundInterrupted, Unhosted, NoneStarts
<1> QED
  BY <1>2, <1>3 DEF RestartDebts

\* The server takes requests and jobs; without the graph it starts nothing.
LEMMA NextKeepsDebts ==
  ASSUME Paying, RInv, RInv', RestartDebts, Serve
  PROVE  RestartDebts'
<1>1. DebtInv' /\ Answered
  BY DebtStep DEF Serve, RInv, OwnInv, RestartDebts
<1>2. compiled \/ (Dormant' /\ NoneStarts)
  BY DormantStep DEF Serve, Hosted, RInv, RestartDebts, Unhosted
<1> QED
  BY <1>1, <1>2, ServeKeepsDebts DEF Serve

\* A resume without the graph has written nothing yet.
LEMMA ThrowKeepsDebts ==
  ASSUME RInv, RInv', RestartDebts, NEW p \in Runners, ResumeThrows(p)
  PROVE  RestartDebts'
<1>1. /\ p \in Procs \ {handler} /\ TypeInv /\ TypeInv' /\ DebtInv
      /\ AfterRun(p, FALSE) \in ReturnLabels \ {"pWrite", "tEnsure", "idle"}
  BY RunnersAreProcs, AfterFailure DEF RInv, RestartDebts, ReturnLabels
<1>2. /\ Goto(p, AfterRun(p, FALSE)) /\ snap' = [snap EXCEPT ![p] = NoRow] /\ pc[p] = "hWrite"
      /\ UNCHANGED <<row, run, chain, thr, upd, ret, arg, compiled, boot, found>>
  BY DEF ResumeThrows, Drop, stores, agent, server, At
<1>3. pc[p] \notin Owing
  BY <1>2 DEF Owing, UpdateLabels
<1>4. DebtInv' /\ Answered
  BY <1>1, <1>2, <1>3, HopKeeps
<1>5. Rests(p) /\ NothingStarts
  <2>1. AfterRun(p, FALSE) \notin Starting
    BY AfterFailure DEF Starting
  <2> QED
    BY <1>2, <2>1 DEF Rests, NoneStarts, NothingStarts
<1>6. compiled \/ (Dormant' /\ NoneStarts)
  BY <1>1, <1>5, RestsDormant DEF RestartDebts, Unhosted, Rests
<1> QED
  BY <1>2, <1>4, <1>6, ServeKeepsDebts

\* The restoration stops a thread that it found, and leaves the others to their ends.
LEMMA StopKeepsDebts ==
  ASSUME RInv, RInv', RestartDebts, NEW t \in Threads, StopInterrupted(t)
  PROVE  RestartDebts'
<1>1. /\ TypeInv /\ TypeInv' /\ DebtInv /\ found[t] \in Row /\ row \in [Threads -> Row]
      /\ found \in [Threads -> Row]
  BY DEF RInv, TypeInv, TypeOK, ServerTypes, RestartDebts
<1>2. /\ Write(t, WriteStatus(row[t], found[t], Stopped)) /\ found' = [found EXCEPT ![t] = NoRow]
      /\ UNCHANGED <<run, chain, pc, thr, snap, upd, ret, arg, compiled, boot>>
  BY DEF StopInterrupted, agent, procs
<1>3. WriteStatus(row[t], found[t], Stopped).status = Stopped
  <2>1. found[t].status # Stopped
    BY DEF StopInterrupted, RestartDebts, FoundInterrupted, Interrupted, Running, Waiting, Stopped
  <2> QED
    BY <1>1, <2>1 DEF WriteStatus, Row
<1>4. row'[t].status = Stopped /\ \A u \in Threads \ {t} : row'[u] = row[u] /\ found'[u] = found[u]
  BY <1>1, <1>2, <1>3 DEF Write
<1>5. StepBy({}, {})
  <2>1. \A u \in Threads : row[u].status # Absent => row'[u].status # Absent
    BY <1>4 DEF Stopped, Absent
  <2>2. Grown({}) /\ Runners \subseteq Procs
    BY <1>1, <1>2, GrownOne, RunnersAreProcs
  <2> QED
    BY <1>2, <2>1, <2>2 DEF StepBy
<1>6. DebtInv' /\ Answered
  BY <1>1, <1>4, <1>5, StepByKeepsDebts DEF Stopped, Running
<1>7. \A u \in Threads : row'[u].status = Running => row[u].status = Running /\ Unchecked(u)' = Unchecked(u)
  BY <1>2, <1>4 DEF Unchecked, Stopped, Running
<1>8. OwedOrChecked'
  BY <1>6, <1>7 DEF RestartDebts, OwedOrChecked, Answered
<1>9. FoundInterrupted'
  BY <1>1, <1>2, <1>4 DEF RestartDebts, FoundInterrupted
<1>10. Unhosted'
  BY <1>2, <1>7 DEF RestartDebts, Unhosted, Dormant, Triggered
<1> QED
  BY <1>6, <1>8, <1>9, <1>10 DEF RestartDebts

\* The other steps of the restoration write no row.
LEMMA BootKeepsDebts ==
  ASSUME RInv, RInv', RestartDebts,
         Restored \/ RestoreFails \/ FindInterrupted \/ Rerun \/ RestoreOver \/ \E t \in Threads : JobStalled(t)
  PROVE  RestartDebts'
<1>1. UNCHANGED <<row, run, chain, pc, thr, snap, upd, ret, arg>>
  BY DEF Restored, RestoreFails, FindInterrupted, Rerun, RestoreOver, JobStalled, vars, stores, agent, procs
<1>2. DebtInv' /\ Answered
  BY <1>1, StillKeeps DEF RInv, RestartDebts
<1>3. Dormant' = Dormant
  BY <1>1 DEF Dormant, Triggered
<1>4. ASSUME UNCHANGED <<compiled, boot, found>> PROVE RestartDebts'
  BY <1>1, <1>2, <1>3, <1>4, ServeKeepsDebts DEF RestartDebts, Unhosted, NoneStarts
<1>5. CASE Restored \/ RestoreFails
  <2>1. boot' = "read" /\ found' = found /\ (compiled' \/ compiled' = compiled)
    BY <1>5 DEF Restored, RestoreFails
  <2> QED
    BY <1>2, <1>3, <2>1 DEF RestartDebts, OwedOrChecked, FoundInterrupted, Unhosted, Unchecked
<1>6. CASE FindInterrupted
  <2>1. /\ boot' = "stop" /\ compiled' = compiled
        /\ \A t \in Threads : found'[t] = IF row[t].status \in Interrupted THEN row[t] ELSE NoRow
    BY <1>6 DEF FindInterrupted
  <2>2. \A t \in Threads : row'[t].status = Running => Unchecked(t)'
    BY <1>1, <2>1 DEF Unchecked, Interrupted, NoRow, Running, Absent
  <2> QED
    BY <1>2, <1>3, <2>1, <2>2 DEF RestartDebts, OwedOrChecked, FoundInterrupted, Unhosted
<1>7. CASE Rerun
  <2>1. compiled' /\ UNCHANGED <<boot, found>>
    BY <1>7 DEF Rerun
  <2>2. OwedOrChecked'
    BY <1>2, <2>1 DEF Answered, RestartDebts, OwedOrChecked, Unchecked
  <2> QED
    BY <1>2, <2>1, <2>2 DEF RestartDebts, FoundInterrupted, Unhosted
<1>8. CASE RestoreOver
  <2>1. boot' = "over" /\ UNCHANGED <<compiled, found>> /\ \A t \in Threads : ~Unchecked(t)
    BY <1>8 DEF RestoreOver, Unchecked, NoneFound
  <2>2. OwedOrChecked'
    BY <1>2, <2>1 DEF Answered, RestartDebts, OwedOrChecked
  <2>3. Unhosted'
    BY <1>1, <1>3, <2>1 DEF RestartDebts, Unhosted
  <2> QED
    BY <1>2, <2>1, <2>2, <2>3 DEF RestartDebts, FoundInterrupted
<1>9. CASE \E t \in Threads : JobStalled(t)
  BY <1>4, <1>9 DEF JobStalled
<1> QED
  BY <1>5, <1>6, <1>7, <1>8, <1>9

(* After a crash at any step of anything, and a restoration that may fail, no thread is
   left Running with nothing running it, as long as no run reaches its cost limit and
   each can be prepared: whoever owed a thread its end died with the server, but the
   restoration reads the thread after that, and nothing starts a run that it has not
   read before the graph is back. *)
THEOREM NobodyLeftAfterBoot ==
  ASSUME Paying
  PROVE  RestartSpec => []NoStrandedAfterBoot
<1>1. RestartInit => RestartDebts
  BY RestartDebtsInit
<1>2. RInv /\ RInv' /\ RestartDebts /\ [RestartNext]_<<vars, server>> => RestartDebts'
  <2> SUFFICES ASSUME RInv, RInv', RestartDebts, [RestartNext]_<<vars, server>> PROVE RestartDebts'
    OBVIOUS
  <2>1. CASE UNCHANGED <<vars, server>>
    <3>1. /\ UNCHANGED <<row, run, chain, pc, thr, snap, upd, ret, arg, compiled, boot, found>>
      BY <2>1 DEF vars, stores, agent, procs, server
    <3>2. DebtInv' /\ Answered
      BY <3>1, StillKeeps DEF RInv, RestartDebts
    <3>3. compiled \/ (Dormant' /\ NoneStarts)
      BY <3>1 DEF RestartDebts, Unhosted, Dormant, Triggered, NoneStarts
    <3> QED
      BY <3>1, <3>2, <3>3, ServeKeepsDebts
  <2> QED
    BY <2>1, NextKeepsDebts, CrashKeepsDebts, BootKeepsDebts, StopKeepsDebts, ThrowKeepsDebts
    DEF RestartNext, Restore
<1>3. RestartDebts => NoStrandedAfterBoot
  BY RestOwesNothing DEF RestartDebts, OwedOrChecked, Unchecked, NoStrandedAfterBoot, NoStrandedRunning
<1> QED
  BY <1>1, <1>2, <1>3, RestartInductive, PTL DEF RestartSpec
===========================================================================
