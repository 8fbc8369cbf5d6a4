---------------------- MODULE ThreadLifecycle_proofs ----------------------
(***************************************************************************)
(* Proofs about ThreadLifecycle. The inductive invariant IInv is the type  *)
(* invariant, strengthened by what it needs to be inductive (TypeInv), and *)
(* the ownership of jobs and runs (OwnInv). The first part proves that     *)
(* every step keeps the types; the second that every step is steady, i.e.  *)
(* leaves alone all that OwnInv depends on, except where a request is      *)
(* taken, a run is started or the worker takes or gives back its job.      *)
(***************************************************************************)
EXTENDS ThreadLifecycle, FiniteSetTheorems, TLAPS

\* SetToSeq returns a sequence of the elements of a finite set: the stop events of StopRuns.
LEMMA SetToSeqType ==
  ASSUME NEW S, IsFiniteSet(S)
  PROVE  SetToSeq(S) \in Seq(S)
<1> DEFINE n == Cardinality(S)
<1>1. n \in Nat /\ ExistsBijection(1 .. n, S)
  BY FS_CardinalityType
<1>2. PICK f \in Bijection(1 .. n, S) : TRUE
  BY <1>1 DEF ExistsBijection
<1>3. f \in [1 .. n -> S] /\ IsInjective(f)
  BY <1>2 DEF Bijection, Injection
<1>4. SetToSeq(S) \in [1 .. n -> S]
  BY <1>3 DEF SetToSeq
<1> QED
  BY <1>1, <1>4

\* Every write of a row that the services make yields a row.
LEMMA RowTypes ==
  ASSUME NEW r \in Row, NEW s \in Row, NEW status \in ThreadStatuses,
         NEW wait \in WaitKinds, NEW cost \in SUBSET CostMarkers
  PROVE  /\ NewRow(status, wait) \in Row
         /\ Insert(r, status, wait) \in Row
         /\ WriteStatus(r, s, status) \in Row
         /\ WriteMeta(r, s, wait, cost) \in Row
         /\ WriteBoth(r, s, status, wait, cost) \in Row
<1>1. NewRow(status, wait) \in Row
  BY DEF NewRow, Row, CostMarkers
<1>2. \A q \in Row : WriteMeta(q, s, wait, cost) \in Row
  BY DEF WriteMeta, Row
<1>3. WriteStatus(r, s, status) \in Row
  BY DEF WriteStatus, Row
<1> QED
  BY <1>1, <1>2, <1>3 DEF Insert, WriteBoth

\* The updates the emitters build are updates.
LEMMA UpdateTypes ==
  /\ \A status \in ThreadStatuses \cup {"keep"}, keys \in SUBSET CostMarkers :
       Update(status) \in Updates /\ Dropping(status, keys) \in Updates
  /\ CostStop \in Updates /\ ManualStop \in Updates /\ RunningDto \in Updates
  BY DEF Update, Dropping, CostStop, ManualStop, RunningDto, Updates, CostMarkers,
         ThreadStatuses, Stopped, Running

\* The writes of the ThreadUpdate handler yield a row.
LEMMA ApplyTypes ==
  ASSUME NEW r \in Row, NEW s \in Row, NEW u \in Updates
  PROVE  /\ u.status # "keep" => ApplyStatus(r, s, u) \in Row
         /\ ApplyMeta(r, s, u) \in Row
<1>1. u.status # "keep" => u.status \in ThreadStatuses
  BY DEF Updates
<1>2. NextWait(s, u) \in WaitKinds /\ NextCost(s, u) \in SUBSET CostMarkers
  BY DEF NextWait, NextCost, Row, Updates, WaitKinds
<1> QED
  BY <1>1, <1>2, RowTypes DEF ApplyStatus, ApplyMeta, Running, ThreadStatuses

\* a job that has not failed for good has attempts left; the handler has an event in hand
\* while it is busy; a status write of the ThreadUpdate handler has a status to write
RetriesLeft   == \A t \in Threads : job[t].st # "failed" => job[t].att < MaxAttempts
EventInHand   == ~At(handler, "idle") => chain # <<>>
StatusToWrite == \A p \in Procs : At(p, "tuStatus") => upd[p].status # "keep"
TypeInv       == TypeOK /\ RetriesLeft /\ EventInHand /\ StatusToWrite

\* The handler of a ThreadUpdate gives its emitter back a label of the emitter.
LEMMA ReturnType ==
  ASSUME TypeInv, NEW p \in Procs, Return(p)
  PROVE  /\ pc' \in [Procs -> Labels] /\ snap' \in [Procs -> Row]
         /\ upd' \in [Procs -> Updates] /\ ret' \in [Procs -> ReturnLabels]
         /\ StatusToWrite'
<1>1. NoRow \in Row /\ Update("keep") \in Updates /\ "idle" \in ReturnLabels
  BY UpdateTypes DEF NoRow, Row, WaitKinds, ReturnLabels
<1>2. ret[p] \in ReturnLabels /\ ret[p] # "tuStatus"
  BY DEF TypeInv, TypeOK, ReturnLabels
<1>3. StatusToWrite'
  BY <1>2 DEF TypeInv, TypeOK, StatusToWrite, At, Return, Goto
<1> QED
  BY <1>1, <1>2, <1>3 DEF TypeInv, TypeOK, Return, Goto, Drop, Labels

\* The steps of the ThreadUpdate handler, in whatever process emitted the update.
LEMMA UpdatesRowType ==
  ASSUME TypeInv, NEW p \in Procs, UpdatesRow(p)
  PROVE  TypeInv'
<1> USE DEF TypeInv, TypeOK
<1>1. EventInHand'
  <2>1. chain' = chain /\ pc[p] # "idle"
    BY DEF UpdatesRow, UpdateRead, UpdateStatus, UpdateMeta, At, agent
  <2>2. \A q \in Procs \ {p} : pc'[q] = pc[q]
    BY DEF UpdatesRow, UpdateRead, UpdateStatus, UpdateMeta, Return, Goto
  <2> QED
    BY <2>1, <2>2 DEF EventInHand, At, Procs
<1>2. CASE UpdateRead(p)
  <2>1. UNCHANGED <<row, job, run, execs, chain, waits, waited, cred, thr, arg>>
    BY <1>2 DEF UpdateRead, stores, agent
  <2>2. /\ pc' \in [Procs -> Labels] /\ snap' \in [Procs -> Row]
        /\ upd' \in [Procs -> Updates] /\ ret' \in [Procs -> ReturnLabels]
    BY <1>2, ReturnType DEF UpdateRead, Goto, Load, Labels, UpdateLabels
  <2>3. StatusToWrite'
    BY <1>2, ReturnType DEF UpdateRead, StatusToWrite, At, Goto, ChangesStatus
  <2> QED
    BY <1>1, <2>1, <2>2, <2>3 DEF RetriesLeft
<1>3. CASE UpdateStatus(p)
  <2>1. UNCHANGED <<job, run, execs, chain, waits, waited, cred, thr, arg>>
    BY <1>3 DEF UpdateStatus, agent
  <2>2. row' \in [Threads -> Row]
    BY <1>3, ApplyTypes DEF UpdateStatus, Write, StatusToWrite, At
  <2>3. /\ pc' \in [Procs -> Labels] /\ snap' \in [Procs -> Row]
        /\ upd' \in [Procs -> Updates] /\ ret' \in [Procs -> ReturnLabels]
    BY <1>3, ReturnType DEF UpdateStatus, Goto, Labels, UpdateLabels
  <2>4. StatusToWrite'
    BY <1>3, ReturnType DEF UpdateStatus, StatusToWrite, At, Goto
  <2> QED
    BY <1>1, <2>1, <2>2, <2>3, <2>4 DEF RetriesLeft
<1>4. CASE UpdateMeta(p)
  <2>1. UNCHANGED <<job, run, execs, chain, waits, waited, cred, thr, arg>>
    BY <1>4 DEF UpdateMeta, agent
  <2>2. row' \in [Threads -> Row]
    BY <1>4, ApplyTypes DEF UpdateMeta, Write
  <2> QED
    BY <1>1, <1>4, <2>1, <2>2, ReturnType DEF UpdateMeta, RetriesLeft
<1> QED
  BY <1>2, <1>3, <1>4 DEF UpdatesRow

---------------------------------------------------------------------------
\* the step moves no other process
Alone(p) == \A q \in Procs \ {p} : pc'[q] = pc[q]

\* A step to a label that is not the handler's.
LEMMA GotoType ==
  ASSUME TypeInv, NEW p \in Procs, NEW l \in ReturnLabels, Goto(p, l), upd' = upd
  PROVE  pc' \in [Procs -> Labels] /\ StatusToWrite' /\ Alone(p) /\ pc'[p] = l
<1>1. l # "tuStatus"
  BY DEF ReturnLabels
<1> QED
  BY <1>1 DEF TypeInv, TypeOK, Goto, StatusToWrite, At, Alone, Labels

\* A step that emits a ThreadUpdate.
LEMMA EmitType ==
  ASSUME TypeInv, NEW p \in Procs, NEW t \in Threads, NEW u \in Updates,
         NEW l \in ReturnLabels, Emit(p, t, u, l)
  PROVE  /\ pc' \in [Procs -> Labels] /\ thr' \in [Procs -> Threads]
         /\ upd' \in [Procs -> Updates] /\ ret' \in [Procs -> ReturnLabels]
         /\ StatusToWrite' /\ Alone(p) /\ pc'[p] = "tuRead"
  BY DEF TypeInv, TypeOK, Emit, Goto, StatusToWrite, At, Alone, Labels, UpdateLabels

\* The entity of a process is a row of the table, or none.
LEMMA LoadType ==
  ASSUME TypeInv, NEW p \in Procs, NEW t \in Threads, Load(p, t) \/ Drop(p) \/ snap' = snap
  PROVE  snap' \in [Procs -> Row]
<1>1. NoRow \in Row
  BY DEF NoRow, Row, WaitKinds
<1> QED
  BY <1>1 DEF TypeInv, TypeOK, Load, Drop

\* A write puts a row where there was one.
LEMMA WriteType ==
  ASSUME TypeInv, NEW t \in Threads, NEW r \in Row, Write(t, r)
  PROVE  row' \in [Threads -> Row]
  BY DEF TypeInv, TypeOK, Write

\* the events of a step no process but the handler takes
LEMMA EventStays ==
  ASSUME TypeInv, NEW p \in Procs \ {handler}, Alone(p), chain # <<>> => chain' # <<>>
  PROVE  EventInHand'
  BY DEF TypeInv, EventInHand, Alone, At, Procs

\* Removing and adding keep a job a job, with attempts left, and neither touches an active one.
LEMMA JobTypes ==
  ASSUME NEW j \in Job, j.st # "failed" => j.att < MaxAttempts
  PROVE  /\ RemoveJob(j) \in Job /\ AddJob(j, 0) \in Job /\ AddJob(j, 1) \in Job
         /\ RemoveJob(j).st # "failed" => RemoveJob(j).att < MaxAttempts
         /\ \A d \in {0, 1} : AddJob(j, d).st # "failed" => AddJob(j, d).att < MaxAttempts
         /\ j.st = "active" => RemoveJob(j) = j /\ AddJob(j, 0) = j /\ AddJob(j, 1) = j
         /\ j.st # "active" => /\ RemoveJob(j).st # "active"
                              /\ AddJob(j, 0).st # "active" /\ AddJob(j, 1).st # "active"
  BY MaxAttemptsAssumption DEF Job, JobStates, RemoveJob, AddJob, NoJob, Exists

\* The steps of scheduleResume.
LEMMA SchedulesType ==
  ASSUME TypeInv, NEW p \in Procs \ {handler}, Schedules(p)
  PROVE  TypeInv'
<1> USE DEF TypeInv, TypeOK
<1>1. CASE ScheduleRemove(p)
  <2>1. UNCHANGED <<row, run, execs, chain, waits, waited, cred, thr, snap, upd, ret, arg>>
    BY <1>1 DEF ScheduleRemove, agent
  <2>2. job' \in [Threads -> Job] /\ RetriesLeft'
    BY <1>1, JobTypes DEF ScheduleRemove, RetriesLeft
  <2>3. pc' \in [Procs -> Labels] /\ StatusToWrite' /\ Alone(p)
    BY <1>1, <2>1, GotoType DEF ScheduleRemove, ReturnLabels
  <2> QED
    BY <2>1, <2>2, <2>3, EventStays
<1>2. CASE ScheduleAdd(p)
  <2>1. UNCHANGED <<row, run, execs, chain, waits, waited, cred, thr, upd, ret, arg>>
    BY <1>2 DEF ScheduleAdd, agent
  <2>2. job' \in [Threads -> Job] /\ RetriesLeft'
    BY <1>2, JobTypes DEF ScheduleAdd, RetriesLeft
  <2>3. pc' \in [Procs -> Labels] /\ StatusToWrite' /\ Alone(p)
    <3>1. End(p) \in ReturnLabels
      BY DEF End, ReturnLabels
    <3> QED
      BY <1>2, <2>1, <3>1, GotoType DEF ScheduleAdd
  <2>4. snap' \in [Procs -> Row]
    BY <1>2, LoadType DEF ScheduleAdd
  <2> QED
    BY <2>1, <2>2, <2>3, <2>4, EventStays
<1> QED
  BY <1>1, <1>2 DEF Schedules

\* Whoever starts runs is a process other than the event handler.
LEMMA RunnersAreProcs ==
  Runners \subseteq Procs \ {handler}
  BY DEF Runners, Workers, Clients, Procs, handler, worker, caller

\* The steps of pauseThread.
LEMMA PausesType ==
  ASSUME TypeInv, NEW p \in Runners, Pauses(p)
  PROVE  TypeInv'
<1> USE DEF TypeInv, TypeOK
<1>1. p \in Procs \ {handler} /\ thr[p] \in Threads
  BY RunnersAreProcs
<1>2. CASE PauseRead(p)
  <2>1. UNCHANGED <<row, job, run, execs, chain, waits, waited, cred, thr, upd, ret, arg>>
    BY <1>2 DEF PauseRead, stores, agent
  <2>2. pc' \in [Procs -> Labels] /\ StatusToWrite' /\ Alone(p)
    BY <1>1, <1>2, <2>1, GotoType DEF PauseRead, ReturnLabels
  <2>3. snap' \in [Procs -> Row]
    BY <1>1, <1>2, LoadType DEF PauseRead
  <2> QED
    BY <1>1, <2>1, <2>2, <2>3, EventStays DEF RetriesLeft
<1>3. CASE PauseWrite(p)
  <2>1. UNCHANGED <<job, run, execs, chain, waits, waited, cred, snap, arg>>
    BY <1>3 DEF PauseWrite, agent
  <2>2. row' \in [Threads -> Row]
    <3>1. /\ NewRow(Waiting, "credential") \in Row
          /\ WriteBoth(row[thr[p]], snap[p], Waiting, "credential", snap[p].cost) \in Row
      <4>1. snap[p] \in Row /\ snap[p].cost \in SUBSET CostMarkers /\ row[thr[p]] \in Row
        BY <1>1 DEF Row
      <4>2. Waiting \in ThreadStatuses /\ "credential" \in WaitKinds
        BY DEF ThreadStatuses, WaitKinds
      <4> QED
        BY <4>1, <4>2, RowTypes
    <3> QED
      BY <1>1, <1>3, <3>1, WriteType DEF PauseWrite
  <2>3. /\ pc' \in [Procs -> Labels] /\ thr' \in [Procs -> Threads]
        /\ upd' \in [Procs -> Updates] /\ ret' \in [Procs -> ReturnLabels]
        /\ StatusToWrite' /\ Alone(p)
    <3>1. AfterPause(p) \in ReturnLabels /\ "pRead" \in ReturnLabels /\ Update(Waiting) \in Updates
      BY UpdateTypes DEF AfterPause, End, ReturnLabels, ThreadStatuses
    <3>2. CASE Goto(p, "pRead") /\ UNCHANGED <<row, thr, upd, ret>>
      BY <1>1, <3>1, <3>2, GotoType
    <3>3. CASE Emit(p, thr[p], Update(Waiting), AfterPause(p))
      BY <1>1, <3>1, <3>3, EmitType
    <3> QED
      BY <1>3, <3>2, <3>3 DEF PauseWrite
  <2> QED
    BY <1>1, <2>1, <2>2, <2>3, EventStays DEF RetriesLeft
<1> QED
  BY <1>2, <1>3 DEF Pauses

\* A run gives its starter back a label of the starter.
LEMMA AfterRunType ==
  ASSUME NEW p \in Runners, NEW ok \in BOOLEAN
  PROVE  AfterRun(p, ok) \in ReturnLabels \ {"idle"}
  BY DEF AfterRun, ReturnLabels

\* The end of a run.
LEMMA SettleType ==
  ASSUME TypeInv, NEW p \in Runners, NEW ok \in BOOLEAN, Settle(p, ok)
  PROVE  /\ run' \in [Runners -> Runs] /\ pc' \in [Procs -> Labels] /\ StatusToWrite' /\ Alone(p)
         /\ UNCHANGED <<row, job, execs, waits, waited, cred, thr, snap, upd, ret, arg>>
<1> USE DEF TypeInv, TypeOK
<1>1. UNCHANGED <<row, job, execs, waits, waited, cred, thr, snap, upd, ret, arg>>
  BY DEF Settle, stores
<1>2. run' \in [Runners -> Runs]
  BY DEF Settle, NoRun, Runs
<1>3. pc' \in [Procs -> Labels] /\ StatusToWrite' /\ Alone(p)
  <2>1. CASE Goto(p, AfterRun(p, ok))
    BY <1>1, <2>1, AfterRunType, GotoType, RunnersAreProcs
  <2>2. CASE UNCHANGED pc
    BY <1>1, <2>2 DEF StatusToWrite, Alone, At
  <2> QED
    BY <2>1, <2>2 DEF Settle
<1> QED
  BY <1>1, <1>2, <1>3

\* An event is appended to the chain.
LEMMA PostType ==
  ASSUME TypeInv, NEW e \in Events, Post(e)
  PROVE  chain' \in Seq(Events) /\ chain' # <<>>
<1>1. chain \in Seq(Events) /\ chain' = Append(chain, e)
  BY DEF TypeInv, TypeOK, Post
<1>2. Len(chain') = Len(chain) + 1 /\ Len(chain) \in Nat
  BY <1>1
<1> QED
  BY <1>1, <1>2

\* The steps of a run.
LEMMA AgentType ==
  ASSUME TypeInv, NEW p \in Runners, Agent(p)
  PROVE  TypeInv'
<1> USE DEF TypeInv, TypeOK
<1>1. p \in Procs \ {handler} /\ run[p] \in Runs /\ thr[p] \in Threads
  BY RunnersAreProcs
<1>2. CASE EnterRun(p)
  <2>1. UNCHANGED <<row, job, execs, waits, waited, cred, pc, thr, snap, upd, ret, arg>>
    BY <1>2 DEF EnterRun, stores, procs
  <2>2. run' \in [Runners -> Runs]
    BY <1>2 DEF EnterRun, Runs
  <2>3. chain' \in Seq(Events) /\ chain' # <<>>
    <3>1. Event("invoke", p, "none") \in Events
      BY DEF Event, Events
    <3> QED
      BY <1>2, <3>1, PostType DEF EnterRun
  <2> QED
    BY <1>1, <2>1, <2>2, <2>3 DEF RetriesLeft, EventInHand, StatusToWrite, At
<1>3. CASE RunUnprepared(p)
  <2>1. Settle(p, FALSE) /\ UNCHANGED chain
    BY <1>3 DEF RunUnprepared
  <2> QED
    BY <1>1, <2>1, SettleType, EventStays DEF RetriesLeft
<1>4. CASE AgentDecides(p)
  <2>1. UNCHANGED <<row, job, execs, chain, waits, cred, pc, thr, snap, upd, ret, arg>>
    BY <1>4 DEF AgentDecides, stores, procs
  <2>2. run' \in [Runners -> Runs]
    <3>1. PICK d \in Outcomes : run' = [run EXCEPT ![p].res = d]
      BY <1>4 DEF AgentDecides
    <3>2. d \in Decisions
      BY FeatureAssumption
    <3>3. [run[p] EXCEPT !.res = d] \in Runs
      BY <1>1, <3>2 DEF Runs
    <3> QED
      BY <3>1, <3>3
  <2>3. waited' \in [Threads -> 0 .. MaxWaits]
    <3>1. PICK d \in Outcomes : /\ d = "wait" => waited[thr[p]] < MaxWaits
                               /\ waited' = [waited EXCEPT ![thr[p]] = IF d = "wait" THEN @ + 1 ELSE @]
      BY <1>4 DEF AgentDecides
    <3>2. waited[thr[p]] \in 0 .. MaxWaits /\ MaxWaits \in Nat
      BY <1>1, FeatureAssumption
    <3>3. (IF d = "wait" THEN waited[thr[p]] + 1 ELSE waited[thr[p]]) \in 0 .. MaxWaits
      BY <3>1, <3>2
    <3> QED
      BY <3>1, <3>3
  <2> QED
    BY <2>1, <2>2, <2>3 DEF RetriesLeft, EventInHand, StatusToWrite, At
<1>5. ASSUME NEW e \in Events, NEW ok \in BOOLEAN, Post(e), Settle(p, ok)
      PROVE  TypeInv'
  BY <1>1, <1>5, PostType, SettleType, EventStays DEF RetriesLeft
<1>6. CASE RunEnds(p)
  <2>1. Event("run", p, FinalStatus(run[p])) \in Events
    BY DEF Event, Events, FinalStatus, ThreadStatuses
  <2> QED
    BY <1>5, <1>6, <2>1 DEF RunEnds
<1>7. CASE RunFails(p)
  <2>1. Event("run", p, Stopped) \in Events
    BY DEF Event, Events, ThreadStatuses
  <2> QED
    BY <1>5, <1>7, <2>1 DEF RunFails
<1>8. CASE RunExceeds(p)
  <2>1. Event("stop", p, "cost") \in Events
    BY DEF Event, Events
  <2> QED
    BY <1>5, <1>8, <2>1 DEF RunExceeds
<1> QED
  BY <1>2, <1>3, <1>4, <1>6, <1>7, <1>8 DEF Agent, RunEnded

\* upsertRunningThread yields a row.
LEMMA InvokedRowType ==
  ASSUME NEW r \in Row
  PROVE  InvokedRow(r) \in Row
<1>1. Running \in ThreadStatuses /\ "none" \in WaitKinds /\ {} \in SUBSET CostMarkers
  BY DEF ThreadStatuses, WaitKinds
<1> QED
  BY <1>1, RowTypes DEF InvokedRow

\* The steps of the agent-event handler.
LEMMA HandlerType ==
  ASSUME TypeInv, Handler
  PROVE  TypeInv'
<1> USE DEF TypeInv, TypeOK
<1>1. handler \in Procs
  BY DEF Procs
<1>2. chain # <<>> => /\ Current \in Events /\ Current.p \in Runners /\ CurrentThread \in Threads
                      /\ Tail(chain) \in Seq(Events)
  <2>1. ASSUME chain # <<>> PROVE Current \in Events /\ Tail(chain) \in Seq(Events)
    BY <2>1 DEF Current
  <2>2. \A e \in Events : e.p \in Runners /\ thr[e.p] \in Threads
    BY RunnersAreProcs DEF Events
  <2> QED
    BY <2>1, <2>2 DEF CurrentThread
<1>3. {"invoked", "landed", "stopping", "idle"} \subseteq ReturnLabels
  BY DEF ReturnLabels
<1>4. CASE HandleInvoke
  <2>1. UNCHANGED <<job, run, chain, waits, waited, cred, snap, arg>> /\ chain # <<>>
    BY <1>4 DEF HandleInvoke, Idle
  <2>2. execs' \subseteq Runners
    BY <1>2, <1>4, <2>1 DEF HandleInvoke
  <2>3. row' \in [Threads -> Row]
    BY <1>2, <1>4, <2>1, InvokedRowType, WriteType DEF HandleInvoke
  <2>4. /\ pc' \in [Procs -> Labels] /\ thr' \in [Procs -> Threads]
        /\ upd' \in [Procs -> Updates] /\ ret' \in [Procs -> ReturnLabels] /\ StatusToWrite'
    <3>1. CASE Goto(handler, "landed") /\ UNCHANGED <<thr, upd, ret>>
      BY <1>1, <1>3, <3>1, GotoType
    <3>2. ASSUME NEW l \in {"invoked", "landed"}, Emit(handler, CurrentThread, RunningDto, l)
          PROVE  <2>4
      BY <1>1, <1>2, <1>3, <2>1, <3>2, EmitType, UpdateTypes
    <3> QED
      BY <1>4, <3>1, <3>2 DEF HandleInvoke
  <2> QED
    BY <2>1, <2>2, <2>3, <2>4 DEF RetriesLeft, EventInHand
<1>5. CASE ClearCostState
  <2>1. UNCHANGED <<row, job, run, execs, chain, waits, waited, cred, snap, arg>> /\ chain # <<>>
    BY <1>5 DEF ClearCostState, stores, agent, EventInHand, At
  <2>2. Dropping("keep", CostMarkers) \in Updates
    BY UpdateTypes
  <2> QED
    BY <1>1, <1>2, <1>3, <1>5, <2>1, <2>2, EmitType DEF ClearCostState, RetriesLeft, EventInHand
<1>6. CASE HandleRun
  <2>1. UNCHANGED <<row, job, run, chain, waits, waited, cred, snap, arg>> /\ chain # <<>>
        /\ execs' \subseteq Runners
    BY <1>6 DEF HandleRun, stores, Idle
  <2>2. Update(Current.out) \in Updates
    <3>1. Current.out \in ThreadStatuses
      BY <1>2, <1>6, <2>1 DEF HandleRun, Idle, Events
    <3> QED
      BY <3>1, UpdateTypes
  <2> QED
    BY <1>1, <1>2, <1>3, <1>6, <2>1, <2>2, EmitType DEF HandleRun, RetriesLeft, EventInHand
<1>7. CASE HandleStop
  <2>1. UNCHANGED <<row, job, run, chain, waits, waited, cred, snap, arg>> /\ chain # <<>>
    BY <1>7 DEF HandleStop, stores, Idle, EventInHand, At
  <2>2. execs' \subseteq Runners
    BY <1>7 DEF HandleStop
  <2>3. /\ pc' \in [Procs -> Labels] /\ thr' \in [Procs -> Threads]
        /\ upd' \in [Procs -> Updates] /\ ret' \in [Procs -> ReturnLabels] /\ StatusToWrite'
    <3>1. CASE Goto(handler, "landed") /\ UNCHANGED <<thr, upd, ret>>
      BY <1>1, <1>3, <3>1, GotoType
    <3>2. ASSUME NEW t \in Threads, NEW u \in {CostStop, ManualStop}, Emit(handler, t, u, "stopping")
          PROVE  <2>3
      BY <1>1, <1>3, <3>2, EmitType, UpdateTypes
    <3>3. {thr[p] : p \in execs} \subseteq Threads
      BY RunnersAreProcs
    <3> QED
      BY <1>7, <3>1, <3>2, <3>3 DEF HandleStop
  <2> QED
    BY <2>1, <2>2, <2>3 DEF RetriesLeft, EventInHand
<1>8. CASE Landed
  <2>1. UNCHANGED <<row, job, run, execs, waited, cred, thr, snap, upd, ret, arg>>
        /\ Goto(handler, "idle") /\ chain # <<>>
    BY <1>8 DEF Landed, stores, EventInHand, At
  <2>2. chain' \in Seq(Events) /\ waits' \subseteq Threads
    BY <1>2, <1>8, <2>1 DEF Landed
  <2> QED
    BY <1>1, <1>3, <2>1, <2>2, GotoType DEF RetriesLeft, EventInHand, At
<1>9. CASE UpdatesRow(handler)
  BY <1>1, <1>9, UpdatesRowType
<1> QED
  BY <1>4, <1>5, <1>6, <1>7, <1>8, <1>9 DEF Handler

---------------------------------------------------------------------------
\* A caller may start a run, and is not the event handler.
LEMMA ClientsRun ==
  ASSUME NEW p \in Clients
  PROVE  p \in Runners /\ p \in Procs \ {handler}
  BY RunnersAreProcs DEF Runners

\* A request that is taken names a thread and an operation.
LEMMA TakeType ==
  ASSUME TypeInv, NEW p \in Clients, NEW t \in Threads, NEW op \in Ops, NEW saved \in Row,
         Take(p, t, op, saved)
  PROVE  thr' \in [Procs -> Threads] /\ arg' \in [Clients -> Args]
  BY ClientsRun DEF TypeInv, TypeOK, Take, Args

\* The pre-set of executeTrigger yields a row.
LEMMA PreSetType ==
  ASSUME NEW r \in Row
  PROVE  PreSet(r) \in Row
<1>1. WriteStatus(r, r, Running) \in Row
  <2>1. "none" \in WaitKinds /\ {} \in SUBSET CostMarkers /\ Running \in ThreadStatuses
    BY DEF WaitKinds, ThreadStatuses
  <2> QED
    BY <2>1, RowTypes
<1>2. \A q \in Row : [q EXCEPT !.wait = IF r.status = Waiting THEN "none" ELSE @,
                               !.cost = IF CostStopped(r) THEN {} ELSE @] \in Row
  BY DEF Row, WaitKinds
<1> QED
  BY <1>1, <1>2 DEF PreSet

\* The steps of executeTrigger.
LEMMA TriggerRequestType ==
  ASSUME TypeInv, NEW p \in Clients, TriggerRequest(p)
  PROVE  TypeInv'
<1> USE DEF TypeInv, TypeOK
<1>1. p \in Procs \ {handler} /\ p \in Runners /\ thr[p] \in Threads /\ NoRow \in Row
  BY ClientsRun DEF NoRow, Row, WaitKinds
<1>2. {"done", "tPre", "tRun", "tAwait", "tRestore", "tEnsure", "pRead"} \subseteq ReturnLabels
  BY DEF ReturnLabels
<1>3. {"trigger", "async"} \subseteq Ops
  BY DEF Ops
<1>4. CASE Trigger(p)
  <2>1. PICK t \in Threads, op \in {"trigger", "async"} :
          /\ Take(p, t, op, IF row[t].status \in Terminal THEN row[t] ELSE NoRow)
          /\ IF row[t].status = Absent THEN UNCHANGED row ELSE Write(t, PreSet(row[t]))
          /\ job' = IF row[t].status = Waiting THEN [job EXCEPT ![t] = RemoveJob(@)] ELSE job
          /\ Goto(p, "tPre")
          /\ UNCHANGED <<agent, cred, snap, upd, ret>>
    BY <1>4 DEF Trigger
  <2>2. UNCHANGED <<run, execs, chain, waits, waited, cred, snap, upd, ret>>
    BY <2>1 DEF agent
  <2>3. thr' \in [Procs -> Threads] /\ arg' \in [Clients -> Args]
    BY <1>1, <1>3, <2>1, TakeType
  <2>4. row' \in [Threads -> Row]
    BY <2>1, PreSetType, WriteType
  <2>5. job' \in [Threads -> Job] /\ RetriesLeft'
    BY <2>1, JobTypes DEF RetriesLeft
  <2>6. pc' \in [Procs -> Labels] /\ StatusToWrite' /\ Alone(p)
    BY <1>1, <1>2, <2>1, GotoType
  <2> QED
    BY <1>1, <2>2, <2>3, <2>4, <2>5, <2>6, EventStays
<1>5. CASE TriggerRejected(p)
  <2>1. PICK t \in Threads, op \in {"trigger", "async"} : Take(p, t, op, NoRow)
    BY <1>5 DEF TriggerRejected
  <2>2. UNCHANGED <<row, job, run, execs, chain, waits, waited, cred, snap, upd, ret>> /\ Goto(p, "done")
    BY <1>5 DEF TriggerRejected, stores, agent
  <2>3. thr' \in [Procs -> Threads] /\ arg' \in [Clients -> Args]
    BY <1>1, <1>3, <2>1, TakeType
  <2> QED
    BY <1>1, <1>2, <2>2, <2>3, GotoType, EventStays DEF RetriesLeft
<1>6. ASSUME NEW l \in {"tRun", "pRead", "tEnsure", "done"}, Goto(p, l),
             UNCHANGED <<job, agent, cred, thr, snap, upd, ret, arg>>, row' \in [Threads -> Row]
      PROVE  TypeInv'
  <2>1. UNCHANGED <<run, execs, chain, waits, waited>>
    BY <1>6 DEF agent
  <2> QED
    BY <1>1, <1>2, <1>6, <2>1, GotoType, EventStays DEF RetriesLeft
<1>7. CASE TriggerPreflight(p)
  BY <1>6, <1>7 DEF TriggerPreflight, stores
<1>8. CASE TriggerAppends(p)
  BY <1>6, <1>8 DEF TriggerAppends, stores
<1>9. CASE TriggerStarts(p)
  <2>1. UNCHANGED <<row, job, execs, chain, waits, waited, cred, thr, snap, upd, ret, arg>>
        /\ Goto(p, IF arg[p].op = "async" THEN "tEnsure" ELSE "tAwait")
    BY <1>9 DEF TriggerStarts, stores
  <2>2. run' \in [Runners -> Runs]
    BY <1>9 DEF TriggerStarts, PrepareRun, NoRun, Runs
  <2> QED
    BY <1>1, <1>2, <2>1, <2>2, GotoType, EventStays DEF RetriesLeft
<1>10. CASE TriggerRestores(p)
  <2>1. row' \in [Threads -> Row]
    BY <1>1, <1>10, WriteType DEF TriggerRestores, Args
  <2> QED
    BY <1>6, <1>10, <2>1 DEF TriggerRestores
<1>11. CASE TriggerEnsures(p)
  <2>1. Insert(row[thr[p]], Running, "none") \in Row
    <3>1. "none" \in WaitKinds /\ {} \in SUBSET CostMarkers /\ Running \in ThreadStatuses
      BY DEF WaitKinds, ThreadStatuses
    <3> QED
      BY <1>1, <3>1, RowTypes
  <2> QED
    BY <1>1, <1>6, <1>11, <2>1, WriteType DEF TriggerEnsures
<1> QED
  BY <1>4, <1>5, <1>7, <1>8, <1>9, <1>10, <1>11 DEF TriggerRequest

\* Only finitely many runs are live at a time.
LEMMA RunnersFinite ==
  IsFiniteSet(Runners)
<1>1. IsFiniteSet(Workers)
  <2> DEFINE f == [t \in Threads |-> worker(t)]
  <2>1. f \in Surjection(Threads, Workers)
    BY DEF Surjection, Workers
  <2> QED
    BY <2>1, FS_Surjection, FiniteAssumption
<1>2. IsFiniteSet(Clients)
  <2> DEFINE f == [u \in Callers |-> caller(u)]
  <2>1. f \in Surjection(Callers, Clients)
    BY DEF Surjection, Clients
  <2> QED
    BY <2>1, FS_Surjection, FiniteAssumption
<1> QED
  BY <1>1, <1>2, FS_Union DEF Runners

\* stopThread of the agent appends stop events of runs of the thread.
LEMMA StopEvents ==
  ASSUME TypeInv, NEW t \in Threads, StopRuns(t)
  PROVE  \E S \in SUBSET {Event("stop", q, "manual") : q \in Active(t)} :
           \E s \in Seq(S) : chain' = chain \o s
<1> DEFINE P == {q \in Active(t) : run[q].res \notin {"done", "more"}}
           S == {Event("stop", p, "manual") : p \in P}
<1>1. IsFiniteSet(S)
  <2>1. IsFiniteSet(P)
    BY RunnersFinite, FS_Subset DEF Active
  <2> DEFINE f == [p \in P |-> Event("stop", p, "manual")]
  <2>2. f \in Surjection(P, S)
    BY DEF Surjection
  <2> QED
    BY <2>1, <2>2, FS_Surjection
<1>2. SetToSeq(S) \in Seq(S)
  BY <1>1, SetToSeqType
<1>3. chain' = chain \o SetToSeq(S) /\ S \in SUBSET {Event("stop", q, "manual") : q \in Active(t)}
  BY DEF StopRuns
<1> QED
  BY <1>2, <1>3

\* stopThread of the agent marks runs and appends their stop events.
LEMMA StopRunsType ==
  ASSUME TypeInv, NEW t \in Threads, StopRuns(t)
  PROVE  /\ run' \in [Runners -> Runs]
         /\ chain' \in Seq(Events) /\ (chain # <<>> => chain' # <<>>)
<1>1. run' \in [Runners -> Runs]
  BY DEF TypeInv, TypeOK, StopRuns, Runs
<1>2. PICK S \in SUBSET {Event("stop", q, "manual") : q \in Active(t)} : \E s \in Seq(S) : chain' = chain \o s
  BY StopEvents
<1>3. S \subseteq Events
  BY DEF Active, Event, Events
<1>4. PICK s \in Seq(Events) : chain' = chain \o s
  BY <1>2, <1>3
<1>5. chain \in Seq(Events)
  BY DEF TypeInv, TypeOK
<1>6. chain' \in Seq(Events) /\ Len(chain') = Len(chain) + Len(s)
      /\ Len(chain) \in Nat /\ Len(s) \in Nat
  BY <1>4, <1>5
<1>7. chain # <<>> => chain' # <<>>
  BY <1>5, <1>6
<1> QED
  BY <1>1, <1>6, <1>7

\* The steps of ThreadsService.stopThread.
LEMMA StopRequestType ==
  ASSUME TypeInv, NEW p \in Clients, StopRequest(p)
  PROVE  TypeInv'
<1> USE DEF TypeInv, TypeOK
<1>1. p \in Procs \ {handler} /\ p \in Runners /\ thr[p] \in Threads /\ NoRow \in Row
  BY ClientsRun DEF NoRow, Row, WaitKinds
<1>2. {"done", "kAgent", "kWrite"} \subseteq ReturnLabels
  BY DEF ReturnLabels
<1>3. CASE Stop(p)
  <2>1. PICK t \in Threads :
          /\ Take(p, t, "stop", NoRow)
          /\ IF row[t].status = Running THEN Goto(p, "kAgent") /\ Load(p, t)
             ELSE Goto(p, "done") /\ UNCHANGED snap
          /\ UNCHANGED <<stores, agent, cred, upd, ret>>
    BY <1>3 DEF Stop
  <2>2. UNCHANGED <<row, job, run, execs, chain, waits, waited, cred, upd, ret>>
    BY <2>1 DEF stores, agent
  <2>3. thr' \in [Procs -> Threads] /\ arg' \in [Clients -> Args]
    <3>1. "stop" \in Ops
      BY DEF Ops
    <3> QED
      BY <1>1, <2>1, <3>1, TakeType
  <2>4. pc' \in [Procs -> Labels] /\ StatusToWrite' /\ Alone(p) /\ snap' \in [Procs -> Row]
    BY <1>1, <1>2, <2>1, GotoType, LoadType
  <2> QED
    BY <1>1, <2>2, <2>3, <2>4, EventStays DEF RetriesLeft
<1>4. CASE StopsRun(p)
  <2>1. UNCHANGED <<row, job, execs, waits, waited, cred, thr, upd, ret, arg>>
        /\ Goto(p, "done") /\ Drop(p) /\ StopRuns(thr[p])
    BY <1>4 DEF StopsRun, stores
  <2>2. pc' \in [Procs -> Labels] /\ StatusToWrite' /\ Alone(p) /\ snap' \in [Procs -> Row]
    BY <1>1, <1>2, <2>1, GotoType, LoadType
  <2> QED
    BY <1>1, <2>1, <2>2, StopRunsType, EventStays DEF RetriesLeft
<1>5. CASE StopsNothing(p)
  <2>1. UNCHANGED <<row, job, run, execs, chain, waits, waited, cred, thr, snap, upd, ret, arg>>
    BY <1>5 DEF StopsNothing, stores, agent
  <2> QED
    BY <1>1, <1>2, <1>5, <2>1, GotoType, EventStays DEF StopsNothing, RetriesLeft
<1>6. CASE StopWrites(p)
  <2>1. UNCHANGED <<job, run, execs, chain, waits, waited, cred, snap, arg>>
    BY <1>6 DEF StopWrites, agent
  <2>2. row' \in [Threads -> Row]
    <3>1. snap[p] \in Row /\ snap[p].wait \in WaitKinds /\ {} \in SUBSET CostMarkers
          /\ Stopped \in ThreadStatuses /\ row[thr[p]] \in Row
      BY <1>1 DEF Row, ThreadStatuses
    <3> QED
      BY <1>1, <1>6, <3>1, RowTypes, WriteType DEF StopWrites
  <2>3. Dropping(Stopped, CostMarkers) \in Updates
    BY UpdateTypes DEF ThreadStatuses
  <2> QED
    BY <1>1, <1>2, <1>6, <2>1, <2>2, <2>3, EmitType, EventStays DEF StopWrites, RetriesLeft
<1> QED
  BY <1>3, <1>4, <1>5, <1>6 DEF StopRequest

---------------------------------------------------------------------------
\* The steps of handleResume.
LEMMA HandleResumeType ==
  ASSUME TypeInv, NEW p \in Runners, HandleResume(p)
  PROVE  TypeInv'
<1> USE DEF TypeInv, TypeOK
<1>1. /\ p \in Procs \ {handler} /\ thr[p] \in Threads /\ row[thr[p]] \in Row
      /\ snap[p] \in Row /\ snap[p].cost \in SUBSET CostMarkers
  BY RunnersAreProcs DEF Row
<1>2. {"hWrite", "pRead", "hRun", "hAwait"} \subseteq ReturnLabels
  BY DEF ReturnLabels
<1>3. ASSUME NEW l \in ReturnLabels, Goto(p, l), snap' = snap \/ Drop(p),
             UNCHANGED <<stores, agent, cred, thr, upd, ret, arg>>
      PROVE  TypeInv'
  <2>1. UNCHANGED <<row, job, run, execs, chain, waits, waited>>
    BY <1>3 DEF stores, agent
  <2> QED
    BY <1>1, <1>3, <2>1, GotoType, LoadType, EventStays DEF RetriesLeft
<1>4. CASE ResumePreflight(p)
  BY <1>2, <1>3, <1>4 DEF ResumePreflight
<1>5. CASE ResumeWrite(p)
  <2>1. UNCHANGED <<job, run, execs, chain, waits, waited, cred, snap, arg>>
    BY <1>5 DEF ResumeWrite, agent
  <2>2. row' \in [Threads -> Row]
    <3>1. Running \in ThreadStatuses /\ "none" \in WaitKinds
      BY DEF ThreadStatuses, WaitKinds
    <3> QED
      BY <1>1, <1>5, <3>1, RowTypes, WriteType DEF ResumeWrite
  <2>3. Update(Running) \in Updates
    BY UpdateTypes DEF ThreadStatuses
  <2> QED
    BY <1>1, <1>2, <1>5, <2>1, <2>2, <2>3, EmitType, EventStays DEF ResumeWrite, RetriesLeft
<1>6. CASE ResumeUnroutable(p)
  BY <1>3, <1>6, AfterRunType DEF ResumeUnroutable
<1>7. CASE ResumeRuns(p)
  <2>1. UNCHANGED <<row, job, execs, chain, waits, waited, cred, thr, snap, upd, ret, arg>>
        /\ Goto(p, "hAwait")
    BY <1>7 DEF ResumeRuns, stores
  <2>2. run' \in [Runners -> Runs]
    BY <1>7 DEF ResumeRuns, PrepareRun, NoRun, Runs
  <2> QED
    BY <1>1, <1>2, <2>1, <2>2, GotoType, EventStays DEF RetriesLeft
<1>8. CASE ResumeRejected(p)
  BY <1>3, <1>8, AfterRunType DEF ResumeRejected
<1> QED
  BY <1>4, <1>5, <1>6, <1>7, <1>8 DEF HandleResume

\* The steps of resumeThread, cancelWait and an acquired credential.
LEMMA ResumeRequestType ==
  ASSUME TypeInv, NEW p \in Clients, ResumeRequest(p)
  PROVE  TypeInv'
<1> USE DEF TypeInv, TypeOK
<1>1. /\ p \in Procs \ {handler} /\ p \in Runners /\ thr[p] \in Threads /\ NoRow \in Row
      /\ snap[p] \in Row /\ snap[p].cost \in SUBSET CostMarkers /\ row[thr[p]] \in Row
  BY ClientsRun DEF NoRow, Row, WaitKinds
<1>2. {"done", "rCancel", "cCancel", "hPre", "cWrite", "sRemove"} \subseteq ReturnLabels
  BY DEF ReturnLabels
<1>3. ASSUME NEW op \in {"resume", "cancel"}, ResumeOrCancel(p, op) PROVE TypeInv'
  <2>1. PICK t \in Threads :
          /\ Take(p, t, op, NoRow)
          /\ Load(p, t)
          /\ Goto(p, IF op = "resume" THEN "rCancel" ELSE "cCancel")
          /\ UNCHANGED <<stores, agent, cred, upd, ret>>
    BY <1>3 DEF ResumeOrCancel
  <2>2. UNCHANGED <<row, job, run, execs, chain, waits, waited, cred, upd, ret>>
    BY <2>1 DEF stores, agent
  <2>3. thr' \in [Procs -> Threads] /\ arg' \in [Clients -> Args]
    <3>1. op \in Ops
      BY DEF Ops
    <3> QED
      BY <1>1, <2>1, <3>1, TakeType
  <2>4. pc' \in [Procs -> Labels] /\ StatusToWrite' /\ Alone(p) /\ snap' \in [Procs -> Row]
    BY <1>1, <1>2, <2>1, GotoType, LoadType
  <2> QED
    BY <1>1, <2>2, <2>3, <2>4, EventStays DEF RetriesLeft
<1>4. CASE CancelJob(p)
  <2>1. UNCHANGED <<row, run, execs, chain, waits, waited, cred, thr, snap, upd, ret, arg>>
    BY <1>4 DEF CancelJob, agent
  <2>2. job' \in [Threads -> Job] /\ RetriesLeft'
    BY <1>1, <1>4, JobTypes DEF CancelJob, RetriesLeft
  <2> QED
    BY <1>1, <1>2, <1>4, <2>1, <2>2, GotoType, EventStays DEF CancelJob
<1>5. CASE CancelWrite(p)
  <2>1. UNCHANGED <<job, run, execs, chain, waits, waited, cred, snap, arg>>
    BY <1>5 DEF CancelWrite, agent
  <2>2. row' \in [Threads -> Row]
    <3>1. Stopped \in ThreadStatuses /\ "none" \in WaitKinds
      BY DEF ThreadStatuses, WaitKinds
    <3> QED
      BY <1>1, <1>5, <3>1, RowTypes, WriteType DEF CancelWrite
  <2>3. Update(Stopped) \in Updates
    BY UpdateTypes DEF ThreadStatuses
  <2> QED
    BY <1>1, <1>2, <1>5, <2>1, <2>2, <2>3, EmitType, EventStays DEF CancelWrite, RetriesLeft
<1>6. CASE Acquired(p)
  <2>1. PICK t \in Threads :
          /\ cred' = TRUE
          /\ Take(p, t, "acquired", NoRow)
          /\ Goto(p, IF row[t].status = Waiting /\ row[t].wait = "credential" THEN "sRemove" ELSE "done")
          /\ UNCHANGED <<stores, agent, snap, upd, ret>>
    BY <1>6 DEF Acquired
  <2>2. UNCHANGED <<row, job, run, execs, chain, waits, waited, snap, upd, ret>>
    BY <2>1 DEF stores, agent
  <2>3. thr' \in [Procs -> Threads] /\ arg' \in [Clients -> Args]
    <3>1. "acquired" \in Ops
      BY DEF Ops
    <3> QED
      BY <1>1, <2>1, <3>1, TakeType
  <2> QED
    BY <1>1, <1>2, <2>1, <2>2, <2>3, GotoType, EventStays DEF RetriesLeft
<1>7. CASE HandleResume(p)
  BY <1>1, <1>7, HandleResumeType
<1> QED
  BY <1>3, <1>4, <1>5, <1>6, <1>7 DEF ResumeRequest

\* The steps of onThreadWaiting.
LEMMA WaiterType ==
  ASSUME TypeInv, NEW t \in Threads, Waiter(t)
  PROVE  TypeInv'
<1> USE DEF TypeInv, TypeOK
<1> DEFINE p == waiter(t)
<1>1. p \in Procs \ {handler} /\ row[t] \in Row /\ snap[p] \in Row
  BY DEF Procs, Waiters, waiter, handler
<1>2. {"idle", "wWrite", "sRemove"} \subseteq ReturnLabels
  BY DEF ReturnLabels
<1>3. CASE WaitRead(t)
  <2>1. UNCHANGED <<row, job, run, execs, chain, waited, cred, thr, upd, ret, arg>>
        /\ waits' \subseteq Threads
    BY <1>3 DEF WaitRead, stores
  <2> QED
    BY <1>1, <1>2, <1>3, <2>1, GotoType, LoadType, EventStays DEF WaitRead, RetriesLeft
<1>4. CASE WaitWrite(t)
  <2>1. UNCHANGED <<job, run, execs, chain, waits, waited, cred, snap, arg>>
    BY <1>4 DEF WaitWrite, agent
  <2>2. row' \in [Threads -> Row]
    <3>1. [row[t] EXCEPT !.wait = "timer", !.cost = snap[p].cost] \in Row
      BY <1>1 DEF Row, WaitKinds
    <3> QED
      BY <1>4, <3>1, WriteType DEF WaitWrite
  <2>3. Update(Waiting) \in Updates
    BY UpdateTypes DEF ThreadStatuses
  <2> QED
    BY <1>1, <1>2, <1>4, <2>1, <2>2, <2>3, EmitType, EventStays DEF WaitWrite, RetriesLeft
<1> QED
  BY <1>1, <1>3, <1>4, UpdatesRowType, SchedulesType DEF Waiter

\* The steps of handleResumeFailed.
LEMMA FailedType ==
  ASSUME TypeInv, NEW t \in Threads, Failed(t)
  PROVE  TypeInv'
<1> USE DEF TypeInv, TypeOK
<1> DEFINE p == failed(t)
<1>1. p \in Procs \ {handler} /\ row[t] \in Row /\ snap[p] \in Row
  BY DEF Procs, failed, handler
<1>2. {"idle", "fWrite"} \subseteq ReturnLabels
  BY DEF ReturnLabels
<1>3. CASE FailedRead(t)
  <2>1. UNCHANGED <<row, job, run, execs, chain, waits, waited, cred, thr, upd, ret, arg>>
    BY <1>3 DEF FailedRead, stores, agent
  <2> QED
    BY <1>1, <1>2, <1>3, <2>1, GotoType, LoadType, EventStays DEF FailedRead, RetriesLeft
<1>4. CASE FailedWrite(t)
  <2>1. UNCHANGED <<job, run, execs, chain, waits, waited, cred, snap, arg>>
    BY <1>4 DEF FailedWrite, agent
  <2>2. row' \in [Threads -> Row]
    <3>1. WriteStatus(row[t], snap[p], Stopped) \in Row
      <4>1. Stopped \in ThreadStatuses /\ "none" \in WaitKinds /\ {} \in SUBSET CostMarkers
        BY DEF ThreadStatuses, WaitKinds
      <4> QED
        BY <1>1, <4>1, RowTypes
    <3>2. \A r \in Row : [r EXCEPT !.wait = "none", !.cost = snap[p].cost] \in Row
      BY <1>1 DEF Row, WaitKinds
    <3> QED
      BY <1>4, <3>1, <3>2, WriteType DEF FailedWrite
  <2>3. Update(Stopped) \in Updates
    BY UpdateTypes DEF ThreadStatuses
  <2> QED
    BY <1>1, <1>2, <1>4, <2>1, <2>2, <2>3, EmitType, EventStays DEF FailedWrite, RetriesLeft
<1> QED
  BY <1>1, <1>3, <1>4, UpdatesRowType DEF Failed

\* a busy worker has its job: what types and runs need of JobOwned
JobHeld == \A t \in Threads : ~At(worker(t), "idle") => job[t].st = "active"

(* The steps of the worker of the resume queue. That its job is active while it is
   busy bounds the attempts of a job that fails. *)
LEMMA WorkerType ==
  ASSUME TypeInv, JobHeld, NEW t \in Threads, Worker(t)
  PROVE  TypeInv'
<1> USE DEF TypeInv, TypeOK
<1> DEFINE p == worker(t)
<1>1. /\ p \in Runners /\ p \in Procs \ {handler} /\ job[t] \in Job /\ snap[p] \in Row
      /\ failed(t) \in Procs \ {handler, p}
  BY RunnersAreProcs DEF Runners, Workers, Procs, failed, worker, handler
<1>2. {"idle", "hRead", "hPre", "jobOk"} \subseteq ReturnLabels
  BY DEF ReturnLabels
<1>3. ASSUME NEW l \in ReturnLabels, Goto(p, l), job' \in [Threads -> Job], RetriesLeft',
             snap' \in [Procs -> Row], UNCHANGED <<row, agent, cred, thr, upd, ret, arg>>
      PROVE  TypeInv'
  <2>1. UNCHANGED <<run, execs, chain, waits, waited>>
    BY <1>3 DEF agent
  <2> QED
    BY <1>1, <1>3, <2>1, GotoType, EventStays
<1>4. ~At(p, "idle") => job[t].st = "active" /\ job[t].att < MaxAttempts
  BY DEF JobHeld, RetriesLeft
<1>5. CASE JobTaken(t)
  <2>1. job' \in [Threads -> Job] /\ RetriesLeft'
    BY <1>1, <1>5 DEF JobTaken, TakeJob, Job, JobStates, RetriesLeft
  <2> QED
    BY <1>2, <1>3, <1>5, <2>1 DEF JobTaken
<1>6. CASE JobCompleted(t)
  <2>1. job' \in [Threads -> Job] /\ RetriesLeft'
    BY <1>1, <1>4, <1>6 DEF JobCompleted, CompleteJob, Job, JobStates, RetriesLeft, At
  <2> QED
    BY <1>2, <1>3, <1>6, <2>1 DEF JobCompleted
<1>7. CASE JobFails(t)
  <2>1. UNCHANGED <<row, run, execs, chain, waits, waited, cred, thr, snap, upd, ret, arg>>
    BY <1>7 DEF JobFails, agent
  <2>2. job' \in [Threads -> Job] /\ RetriesLeft'
    <3>1. job[t].att < MaxAttempts /\ job[t].att \in Nat /\ MaxAttempts \in Nat
      BY <1>1, <1>4, <1>7, MaxAttemptsAssumption DEF JobFails, At, Job
    <3>2. FailJob(job[t]) \in Job
          /\ (FailJob(job[t]).st # "failed" => FailJob(job[t]).att < MaxAttempts)
      BY <3>1 DEF FailJob, FinalFailure, Job, JobStates
    <3> QED
      BY <1>7, <3>2 DEF JobFails, RetriesLeft
  <2>3. pc' \in [Procs -> Labels] /\ StatusToWrite' /\ pc'[handler] = pc[handler]
    <3>1. {"idle", "fRead"} \subseteq Labels
      BY DEF ReturnLabels, Labels
    <3>2. pc' = [pc EXCEPT ![p] = "idle", ![failed(t)] = "fRead"]
          \/ pc' = [pc EXCEPT ![p] = "idle"]
      <4>1. pc' = [pc EXCEPT ![p] = "idle",
                             ![failed(t)] = IF FinalFailure(job[t]) THEN "fRead" ELSE @]
        BY <1>7 DEF JobFails
      <4>2. CASE FinalFailure(job[t])
        BY <4>1, <4>2
      <4>3. CASE ~FinalFailure(job[t])
        <5>1. pc' = [pc EXCEPT ![p] = "idle", ![failed(t)] = @]
          BY <4>1, <4>3
        <5>2. [pc EXCEPT ![p] = "idle", ![failed(t)] = @] = [pc EXCEPT ![p] = "idle"]
          BY <1>1
        <5> QED
          BY <5>1, <5>2
      <4> QED
        BY <4>2, <4>3
    <3>3. pc' \in [Procs -> Labels]
      BY <1>1, <3>1, <3>2
    <3>4. handler \in Procs /\ pc'[handler] = pc[handler]
      <4>1. handler \in Procs /\ handler # p /\ handler # failed(t)
        BY <1>1 DEF Procs
      <4> QED
        BY <3>2, <4>1
    <3>5. \A q \in Procs : pc'[q] = pc[q] \/ pc'[q] \in {"idle", "fRead"}
      BY <1>1, <3>2
    <3> QED
      BY <2>1, <3>3, <3>4, <3>5 DEF StatusToWrite, At
  <2> QED
    BY <2>1, <2>2, <2>3 DEF EventInHand, At
<1>8. CASE ResumeRead(t)
  <2>1. UNCHANGED job
    BY <1>8 DEF ResumeRead, stores
  <2> QED
    BY <1>1, <1>2, <1>3, <1>8, <2>1, LoadType DEF ResumeRead, RetriesLeft, stores
<1> QED
  BY <1>1, <1>5, <1>6, <1>7, <1>8, HandleResumeType, PausesType, UpdatesRowType DEF Worker

\* What Redis and the clock do to a job.
LEMMA QueueType ==
  ASSUME TypeInv, NEW t \in Threads, Queue(t)
  PROVE  TypeInv'
<1> USE DEF TypeInv, TypeOK
<1>1. UNCHANGED <<row, agent, cred, procs>>
  BY DEF Queue, JobDue, JobEvicted, JobLost
<1>2. job' \in [Threads -> Job] /\ RetriesLeft'
  <2>1. NoJob \in Job /\ NoJob.att < MaxAttempts
    BY MaxAttemptsAssumption DEF NoJob, Job, JobStates
  <2>2. PICK j \in Job : job' = [job EXCEPT ![t] = j] /\ (j.st # "failed" => j.att < MaxAttempts)
    <3>1. CASE JobDue(t)
      <4> DEFINE j == [job[t] EXCEPT !.st = "wait"]
      <4>1. job[t] \in Job /\ job[t].st = "delayed" /\ job' = [job EXCEPT ![t] = j]
        BY <3>1 DEF JobDue
      <4>2. j \in Job /\ j.att = job[t].att
        BY <4>1 DEF Job, JobStates
      <4>3. job[t].att < MaxAttempts
        BY <4>1 DEF RetriesLeft
      <4> QED
        BY <4>1, <4>2, <4>3
    <3>2. CASE JobEvicted(t) \/ JobLost(t)
      BY <2>1, <3>2 DEF JobEvicted, JobLost
    <3> QED
      BY <3>1, <3>2 DEF Queue
  <2> QED
    BY <2>2 DEF RetriesLeft
<1> QED
  BY <1>1, <1>2 DEF agent, procs, EventInHand, StatusToWrite, At

\* The steps of recoverOverdueThreads.
LEMMA WatchdogType ==
  ASSUME TypeInv, Watchdog
  PROVE  TypeInv'
<1> USE DEF TypeInv, TypeOK
<1>1. watchdog \in Procs \ {handler}
  BY DEF Procs, watchdog, handler
<1>2. {"idle", "vJob", "vCred", "sRemove"} \subseteq ReturnLabels
  BY DEF ReturnLabels
<1>3. ASSUME NEW l \in ReturnLabels, Goto(watchdog, l), snap' \in [Procs -> Row],
             thr' \in [Procs -> Threads], UNCHANGED <<stores, agent, cred, upd, ret, arg>>
      PROVE  TypeInv'
  <2>1. UNCHANGED <<row, job, run, execs, chain, waits, waited>>
    BY <1>3 DEF stores, agent
  <2> QED
    BY <1>1, <1>3, <2>1, GotoType, EventStays DEF RetriesLeft
<1>4. CASE Sweep
  BY <1>1, <1>2, <1>3, <1>4, LoadType DEF Sweep
<1>5. CASE SweepJob
  <2>1. PICK l \in {"idle", "vCred", "sRemove"} : Goto(watchdog, l)
    BY <1>5 DEF SweepJob
  <2>2. snap' \in [Procs -> Row] /\ UNCHANGED <<stores, agent, cred, thr, upd, ret, arg>>
    BY <1>1, <1>5, FiniteAssumption, LoadType DEF SweepJob
  <2> QED
    BY <1>2, <1>3, <2>1, <2>2
<1>6. CASE SweepCredential
  <2>1. snap' \in [Procs -> Row] /\ UNCHANGED <<stores, agent, cred, thr, upd, ret, arg>>
    BY <1>1, <1>6, FiniteAssumption, LoadType DEF SweepCredential
  <2> QED
    BY <1>2, <1>3, <1>6, <2>1 DEF SweepCredential
<1> QED
  BY <1>1, <1>4, <1>5, <1>6, SchedulesType DEF Watchdog

\* The steps of a caller.
LEMMA CallerType ==
  ASSUME TypeInv, NEW p \in Clients, Caller(p)
  PROVE  TypeInv'
  BY ClientsRun, TriggerRequestType, StopRequestType, ResumeRequestType, UpdatesRowType,
     SchedulesType, PausesType DEF Caller

\* The credential comes and goes.
LEMMA CredentialType ==
  ASSUME TypeInv, CredentialChanges
  PROVE  TypeInv'
<1>1. UNCHANGED <<stores, agent, procs>> /\ cred' \in BOOLEAN
  BY DEF CredentialChanges
<1> QED
  BY <1>1 DEF TypeInv, TypeOK, stores, agent, procs, RetriesLeft, EventInHand, StatusToWrite, At

\* Every step keeps the types.
LEMMA TypeStep ==
  ASSUME TypeInv, JobHeld, Next
  PROVE  TypeInv'
<1>1. \A t \in Threads : Waiter(t) \/ Worker(t) \/ Failed(t) \/ Queue(t) => TypeInv'
  BY WaiterType, WorkerType, FailedType, QueueType
<1>2. \A p \in Runners : Agent(p) => TypeInv'
  BY AgentType
<1>3. \A p \in Clients : Caller(p) => TypeInv'
  BY CallerType
<1>4. Handler \/ Watchdog \/ CredentialChanges => TypeInv'
  BY HandlerType, WatchdogType, CredentialType
<1> QED
  BY <1>1, <1>2, <1>3, <1>4 DEF Next

---------------------------------------------------------------------------
\* whoever starts runs goes on after an emission; a caller has no run before its request
Continues   == \A p \in Runners : pc[p] \in UpdateLabels => ret[p] # "idle"
IdleRunless == \A p \in Clients : At(p, "idle") => run[p].st = "none"
OwnInv      == Continues /\ IdleRunless /\ JobHeld /\ OneRun

\* what every step keeps; that an idle worker has no job is kept apart, as a crash breaks it
Kept == OwnInv' /\ (JobOwned => JobOwned')

(* A steady step: nobody who starts runs becomes or stops being idle, or
   changes threads, no job becomes or stops being active, no run is started. *)
SameIdle   == \A q \in Runners : (pc'[q] = "idle") <=> (pc[q] = "idle")
SameThread == \A q \in Runners : thr'[q] = thr[q]
SameActive == \A t \in Threads : (job'[t].st = "active") <=> (job[t].st = "active")
NoNewRun   == \A q \in Runners : run'[q].st # "none" => run[q].st # "none"
Steady     == SameIdle /\ SameThread /\ SameActive /\ NoNewRun /\ Continues'

\* What a steady step leaves alone is all that OwnInv depends on.
LEMMA SteadyKeeps ==
  ASSUME OwnInv, Steady
  PROVE  Kept
<1> USE DEF OwnInv, Kept, Steady
<1>1. IdleRunless'
  BY DEF IdleRunless, SameIdle, NoNewRun, Runners, At
<1>2. JobHeld' /\ (JobOwned => JobOwned')
  BY DEF JobHeld, JobOwned, SameIdle, SameActive, Runners, Workers, At
<1>3. OneRun'
  BY DEF OneRun, NoParallelRuns, SameThread, NoNewRun
<1> QED
  BY <1>1, <1>2, <1>3

\* A step from label to label is steady.
LEMMA GotoSteady ==
  ASSUME TypeInv, Continues, NEW p \in Procs, NEW l \in ReturnLabels, Goto(p, l), ret' = ret,
         p \in Runners => pc[p] # "idle" /\ l # "idle"
  PROVE  SameIdle /\ Continues'
<1>1. l \notin UpdateLabels
  BY DEF UpdateLabels, ReturnLabels
<1> QED
  BY <1>1, RunnersAreProcs DEF TypeInv, TypeOK, Goto, SameIdle, Continues

\* An emission for one's own thread is steady.
LEMMA EmitSteady ==
  ASSUME TypeInv, Continues, NEW p \in Procs, NEW t \in Threads, NEW u, NEW l \in ReturnLabels,
         Emit(p, t, u, l), p \in Runners => pc[p] # "idle" /\ l # "idle" /\ t = thr[p]
  PROVE  SameIdle /\ SameThread /\ Continues'
  BY RunnersAreProcs DEF TypeInv, TypeOK, Emit, Goto, SameIdle, SameThread, Continues

\* The return from an emission is steady.
LEMMA ReturnSteady ==
  ASSUME TypeInv, Continues, NEW p \in Procs, pc[p] \in UpdateLabels, Return(p)
  PROVE  SameIdle /\ Continues'
<1>1. ret[p] \in ReturnLabels /\ \A l \in ReturnLabels : l \notin UpdateLabels
  BY DEF TypeInv, TypeOK, UpdateLabels, ReturnLabels
<1>2. p \in Runners => ret[p] # "idle" /\ pc[p] # "idle"
  BY DEF Continues, UpdateLabels
<1> QED
  BY <1>1, <1>2, RunnersAreProcs DEF TypeInv, TypeOK, Return, Goto, SameIdle, Continues

\* The ThreadUpdate handler is steady.
LEMMA UpdatesRowSteady ==
  ASSUME TypeInv, Continues, NEW p \in Procs, UpdatesRow(p)
  PROVE  Steady
<1>1. UNCHANGED <<job, run, thr>>
  BY DEF UpdatesRow, UpdateRead, UpdateStatus, UpdateMeta, stores, agent
<1>2. pc[p] \in UpdateLabels
  BY DEF UpdatesRow, UpdateRead, UpdateStatus, UpdateMeta, At, UpdateLabels
<1>3. Return(p) \/ ((Goto(p, "tuStatus") \/ Goto(p, "tuMeta")) /\ ret' = ret)
  <2>1. UpdateRead(p) => Return(p) \/ ((Goto(p, "tuStatus") \/ Goto(p, "tuMeta")) /\ ret' = ret)
    <3>1. CASE ChangesStatus(row[thr[p]], upd[p])
      BY <3>1 DEF UpdateRead, Goto
    <3>2. CASE ~ChangesStatus(row[thr[p]], upd[p])
      BY <3>2 DEF UpdateRead, Goto
    <3> QED
      BY <3>1, <3>2
  <2>2. UpdateStatus(p) \/ UpdateMeta(p) => Return(p) \/ (Goto(p, "tuMeta") /\ ret' = ret)
    BY DEF UpdateStatus, UpdateMeta, Goto
  <2> QED
    BY <2>1, <2>2 DEF UpdatesRow
<1>4. SameIdle /\ Continues'
  <2>1. CASE Return(p)
    BY <1>2, <2>1, ReturnSteady
  <2>2. CASE (Goto(p, "tuStatus") \/ Goto(p, "tuMeta")) /\ ret' = ret
    BY <1>2, <2>2, RunnersAreProcs DEF TypeInv, TypeOK, Goto, SameIdle, Continues, UpdateLabels
  <2> QED
    BY <1>3, <2>1, <2>2
<1> QED
  BY <1>1, <1>4 DEF Steady, SameThread, SameActive, NoNewRun

\* scheduleResume is steady: it can remove or add no active job.
LEMMA SchedulesSteady ==
  ASSUME TypeInv, Continues, NEW p \in Procs \ Workers, Schedules(p)
  PROVE  Steady
<1>1. UNCHANGED <<run, thr, ret>>
  BY DEF Schedules, ScheduleRemove, ScheduleAdd, agent
<1>2. p \in Runners => p \in Clients
  BY DEF Runners
<1>3. SameIdle /\ Continues'
  <2>1. PICK l \in {"sAdd", End(p)} : Goto(p, l)
    BY DEF Schedules, ScheduleRemove, ScheduleAdd
  <2>2. l \in ReturnLabels /\ (p \in Runners => pc[p] # "idle" /\ l # "idle")
    BY <1>2 DEF End, ReturnLabels, Schedules, ScheduleRemove, ScheduleAdd, At
  <2> QED
    BY <1>1, <2>1, <2>2, GotoSteady
<1>4. SameActive
  <2>1. thr[p] \in Threads /\ job[thr[p]] \in Job /\ job \in [Threads -> Job]
        /\ (job[thr[p]].st # "failed" => job[thr[p]].att < MaxAttempts)
    BY DEF TypeInv, TypeOK, RetriesLeft
  <2>2. PICK j \in {RemoveJob(job[thr[p]]), AddJob(job[thr[p]], 0), AddJob(job[thr[p]], 1)} :
          job' = [job EXCEPT ![thr[p]] = j]
    BY DEF Schedules, ScheduleRemove, ScheduleAdd
  <2>3. (j.st = "active") <=> (job[thr[p]].st = "active")
    BY <2>1, JobTypes
  <2> QED
    BY <2>1, <2>2, <2>3 DEF SameActive
<1> QED
  BY <1>1, <1>3, <1>4 DEF Steady, SameThread, NoNewRun

\* pauseThread is steady.
LEMMA PausesSteady ==
  ASSUME TypeInv, Continues, NEW p \in Runners, Pauses(p)
  PROVE  Steady
<1>1. UNCHANGED <<job, run>> /\ p \in Procs /\ pc[p] # "idle"
  BY RunnersAreProcs DEF Pauses, PauseRead, PauseWrite, stores, agent, At
<1>2. AfterPause(p) \in ReturnLabels \ {"idle"}
  BY DEF AfterPause, End, Runners, ReturnLabels
<1>3. CASE PauseRead(p)
  <2>1. UNCHANGED <<thr, ret>> /\ Goto(p, "pWrite")
    BY <1>3 DEF PauseRead
  <2> QED
    BY <1>1, <2>1, GotoSteady DEF Steady, SameThread, SameActive, NoNewRun, ReturnLabels
<1>4. CASE PauseWrite(p)
  <2>1. CASE Goto(p, "pRead") /\ UNCHANGED <<thr, ret>>
    BY <1>1, <2>1, GotoSteady DEF Steady, SameThread, SameActive, NoNewRun, ReturnLabels
  <2>2. CASE Emit(p, thr[p], Update(Waiting), AfterPause(p))
    <3>1. thr[p] \in Threads
      BY <1>1 DEF TypeInv, TypeOK
    <3> QED
      BY <1>1, <1>2, <2>2, <3>1, EmitSteady DEF Steady, SameActive, NoNewRun
  <2> QED
    BY <1>4, <2>1, <2>2 DEF PauseWrite
<1> QED
  BY <1>3, <1>4 DEF Pauses

\* A run that is entered, decides or ends is steady: it was prepared before.
LEMMA AgentSteady ==
  ASSUME TypeInv, Continues, NEW p \in Runners, Agent(p)
  PROVE  Steady
<1>1. UNCHANGED <<job, thr, ret>>
  BY DEF Agent, EnterRun, RunUnprepared, AgentDecides, RunEnded, RunEnds, RunFails, RunExceeds,
         Settle, procs, stores
<1>2. run' \in [Runners -> Runs] /\ NoNewRun
  <2>1. PICK r : run' = [run EXCEPT ![p] = r] /\ (r.st # "none" => run[p].st # "none")
    <3>1. CASE EnterRun(p)
      BY <3>1 DEF EnterRun
    <3>2. CASE AgentDecides(p)
      BY <3>2 DEF AgentDecides
    <3>3. CASE RunUnprepared(p) \/ RunEnded(p)
      BY <3>3 DEF RunUnprepared, RunEnded, RunEnds, RunFails, RunExceeds, Settle, NoRun
    <3> QED
      BY <3>1, <3>2, <3>3 DEF Agent
  <2>2. run' \in [Runners -> Runs]
    BY AgentType DEF TypeInv, TypeOK
  <2> QED
    BY <2>1, <2>2 DEF NoNewRun, TypeInv, TypeOK
<1>3. SameIdle /\ Continues'
  <2>1. CASE UNCHANGED pc
    BY <1>1, <2>1 DEF SameIdle, Continues
  <2>2. ASSUME NEW ok \in BOOLEAN, pc[p] \in {"tAwait", "hAwait"}, Goto(p, AfterRun(p, ok))
        PROVE  SameIdle /\ Continues'
    <3>1. AfterRun(p, ok) \in ReturnLabels \ {"idle"}
      BY DEF AfterRun, ReturnLabels
    <3> QED
      BY <1>1, <2>2, <3>1, GotoSteady, RunnersAreProcs
  <2> QED
    BY <2>1, <2>2 DEF Agent, EnterRun, RunUnprepared, AgentDecides, RunEnded, RunEnds, RunFails,
                      RunExceeds, Settle, procs
<1> QED
  BY <1>1, <1>2, <1>3 DEF Steady, SameThread, SameActive

\* The event handler is steady: it starts no run and touches no job.
LEMMA HandlerSteady ==
  ASSUME TypeInv, Continues, Handler
  PROVE  Steady
<1>1. CASE UpdatesRow(handler)
  BY <1>1, UpdatesRowSteady DEF Procs
<1>2. CASE HandleInvoke \/ ClearCostState \/ HandleRun \/ HandleStop \/ Landed
  <2>1. UNCHANGED <<job, run>>
    BY <1>2 DEF HandleInvoke, ClearCostState, HandleRun, HandleStop, Landed, stores, agent
  <2>2. \A q \in Procs \ {handler} : pc'[q] = pc[q] /\ thr'[q] = thr[q] /\ ret'[q] = ret[q]
    BY <1>2, RunnersAreProcs DEF TypeInv, TypeOK, HandleInvoke, ClearCostState, HandleRun, HandleStop, Landed, Emit, Goto
  <2> QED
    BY <2>1, <2>2, RunnersAreProcs
    DEF Steady, SameIdle, SameThread, SameActive, NoNewRun, Continues
<1> QED
  BY <1>1, <1>2 DEF Handler

\* onThreadWaiting is steady.
LEMMA WaiterSteady ==
  ASSUME TypeInv, Continues, NEW t \in Threads, Waiter(t)
  PROVE  Steady
<1>1. waiter(t) \in Procs \ Runners
  BY DEF Procs, Waiters, Runners, Workers, Clients, waiter, worker, caller
<1>2. CASE UpdatesRow(waiter(t)) \/ Schedules(waiter(t))
  BY <1>1, <1>2, UpdatesRowSteady, SchedulesSteady DEF Runners
<1>3. CASE WaitRead(t) \/ WaitWrite(t)
  <2>1. UNCHANGED <<job, run>>
    BY <1>3 DEF WaitRead, WaitWrite, stores, agent
  <2>2. \A q \in Runners : pc'[q] = pc[q] /\ thr'[q] = thr[q] /\ ret'[q] = ret[q]
    BY <1>1, <1>3, RunnersAreProcs DEF TypeInv, TypeOK, WaitRead, WaitWrite, Emit, Goto
  <2> QED
    BY <2>1, <2>2 DEF Steady, SameIdle, SameThread, SameActive, NoNewRun, Continues
<1> QED
  BY <1>2, <1>3 DEF Waiter

\* handleResumeFailed is steady.
LEMMA FailedSteady ==
  ASSUME TypeInv, Continues, NEW t \in Threads, Failed(t)
  PROVE  Steady
<1>1. failed(t) \in Procs \ Runners
  BY DEF Procs, Runners, Workers, Clients, failed, worker, caller
<1>2. CASE UpdatesRow(failed(t))
  BY <1>1, <1>2, UpdatesRowSteady
<1>3. CASE FailedRead(t) \/ FailedWrite(t)
  <2>1. UNCHANGED <<job, run>>
    BY <1>3 DEF FailedRead, FailedWrite, stores, agent
  <2>2. \A q \in Runners : pc'[q] = pc[q] /\ thr'[q] = thr[q] /\ ret'[q] = ret[q]
    BY <1>1, <1>3, RunnersAreProcs DEF TypeInv, TypeOK, FailedRead, FailedWrite, Emit, Goto
  <2> QED
    BY <2>1, <2>2 DEF Steady, SameIdle, SameThread, SameActive, NoNewRun, Continues
<1> QED
  BY <1>2, <1>3 DEF Failed

\* The watchdog is steady.
LEMMA WatchdogSteady ==
  ASSUME TypeInv, Continues, Watchdog
  PROVE  Steady
<1>1. watchdog \in Procs \ Runners
  BY DEF Procs, Runners, Workers, Clients, watchdog, worker, caller
<1>2. CASE Schedules(watchdog)
  BY <1>1, <1>2, SchedulesSteady DEF Runners
<1>3. CASE Sweep \/ SweepJob \/ SweepCredential
  <2>1. UNCHANGED <<job, run, ret>>
    BY <1>3 DEF Sweep, SweepJob, SweepCredential, stores, agent
  <2>2. \A q \in Runners : pc'[q] = pc[q] /\ thr'[q] = thr[q]
    BY <1>1, <1>3, RunnersAreProcs DEF TypeInv, TypeOK, Sweep, SweepJob, SweepCredential, Goto
  <2> QED
    BY <2>1, <2>2 DEF Steady, SameIdle, SameThread, SameActive, NoNewRun, Continues
<1> QED
  BY <1>2, <1>3 DEF Watchdog

\* A caller is not a worker.
LEMMA ApartRunners ==
  ASSUME NEW p \in Clients, NEW t \in Threads
  PROVE  p # worker(t) /\ worker(t) \in Runners /\ p \in Runners
  BY DEF Clients, Runners, Workers, worker, caller

\* A request that is taken names a thread for a caller that has no run yet.
LEMMA TakeKeeps ==
  ASSUME TypeInv, OwnInv, NEW p \in Clients, NEW t \in Threads, NEW l \in ReturnLabels \ {"idle"},
         At(p, "idle"), thr' = [thr EXCEPT ![p] = t], Goto(p, l), UNCHANGED <<run, ret>>, SameActive
  PROVE  Kept
<1> USE DEF OwnInv, Kept
<1>1. p \in Runners /\ p \in Procs /\ run[p].st = "none"
  BY ApartRunners, RunnersAreProcs DEF Runners, IdleRunless
<1>2. l \notin UpdateLabels
  BY DEF ReturnLabels, UpdateLabels
<1>3. /\ pc' = [pc EXCEPT ![p] = l] /\ pc'[p] = l
      /\ \A q \in Procs : q # p => pc'[q] = pc[q] /\ thr'[q] = thr[q]
  BY <1>1 DEF Goto, TypeInv, TypeOK
<1>4. Continues'
  BY <1>1, <1>2, <1>3, RunnersAreProcs DEF Continues
<1>5. IdleRunless'
  BY <1>1, <1>3, RunnersAreProcs DEF IdleRunless, At, Runners
<1>6. JobHeld' /\ (JobOwned => JobOwned')
  BY <1>1, <1>3, ApartRunners, RunnersAreProcs DEF JobHeld, JobOwned, At, SameActive
<1>7. OneRun'
  BY <1>1, <1>3, RunnersAreProcs DEF OneRun, NoParallelRuns
<1> QED
  BY <1>4, <1>5, <1>6, <1>7

\* A run is only started on a thread that has none.
LEMMA StartKeeps ==
  ASSUME TypeInv, OwnInv, NEW p \in Runners, NEW l \in ReturnLabels \ {"idle"},
         ~At(p, "idle"), Active(thr[p]) = {}, PrepareRun(p), Goto(p, l), UNCHANGED <<job, thr, ret>>
  PROVE  Kept
<1> USE DEF OwnInv, Kept
<1>1. SameIdle /\ Continues'
  BY GotoSteady, RunnersAreProcs DEF At
<1>2. \A q \in Runners : q # p => run'[q] = run[q]
  BY DEF PrepareRun
<1>3. IdleRunless'
  BY <1>1, <1>2 DEF IdleRunless, SameIdle, At, Runners
<1>4. JobHeld' /\ (JobOwned => JobOwned')
  BY <1>1 DEF JobHeld, JobOwned, SameIdle, At, Runners, Workers
<1>5. OneRun'
  <2>1. "overlap" \notin Faults => \A q \in Runners : thr[q] = thr[p] /\ q # p => run[q].st = "none"
    BY DEF PrepareRun, Active, TypeInv, TypeOK, Runs
  <2> QED
    BY <1>2, <2>1 DEF OneRun, NoParallelRuns
<1> QED
  BY <1>1, <1>3, <1>4, <1>5

\* handleResume, whoever runs it, starts at most one run.
LEMMA HandleResumeKeeps ==
  ASSUME TypeInv, OwnInv, NEW p \in Runners, HandleResume(p)
  PROVE  Kept
<1> USE DEF OwnInv, Kept
<1>1. p \in Procs /\ thr[p] \in Threads /\ ~At(p, "idle") /\ UNCHANGED job
  BY RunnersAreProcs DEF HandleResume, ResumePreflight, ResumeWrite, ResumeUnroutable, ResumeRuns,
     ResumeRejected, At, stores, TypeInv, TypeOK
<1>2. AfterRun(p, FALSE) \in ReturnLabels \ {"idle"}
  BY DEF AfterRun, ReturnLabels
<1>3. CASE ResumePreflight(p) \/ ResumeUnroutable(p) \/ ResumeRejected(p)
  <2>1. UNCHANGED <<run, thr, ret>>
    BY <1>3 DEF ResumePreflight, ResumeUnroutable, ResumeRejected, agent
  <2>2. PICK l \in {"hWrite", "pRead", AfterRun(p, FALSE)} : Goto(p, l)
    BY <1>3 DEF ResumePreflight, ResumeUnroutable, ResumeRejected
  <2>3. l \in ReturnLabels \ {"idle"}
    BY <1>2 DEF ReturnLabels
  <2> QED
    BY <1>1, <2>1, <2>2, <2>3, GotoSteady, SteadyKeeps
    DEF Steady, SameThread, SameActive, NoNewRun, At
<1>4. CASE ResumeWrite(p)
  <2>1. UNCHANGED run /\ Emit(p, thr[p], Update(Running), "hRun")
    BY <1>4 DEF ResumeWrite, agent
  <2>2. "hRun" \in ReturnLabels \ {"idle"}
    BY DEF ReturnLabels
  <2> QED
    BY <1>1, <2>1, <2>2, EmitSteady, SteadyKeeps DEF Steady, SameActive, NoNewRun, At
<1>5. CASE ResumeRuns(p)
  <2>1. "hAwait" \in ReturnLabels \ {"idle"}
    BY DEF ReturnLabels
  <2> QED
    BY <1>1, <1>5, <2>1, StartKeeps DEF ResumeRuns, stores
<1> QED
  BY <1>3, <1>4, <1>5 DEF HandleResume

\* The worker takes a job when it becomes busy and gives it back when it is idle again.
LEMMA WorkerKeeps ==
  ASSUME TypeInv, OwnInv, NEW t \in Threads, Worker(t)
  PROVE  Kept
<1> USE DEF OwnInv, Kept
<1> DEFINE p == worker(t)
<1>1. p \in Runners /\ p \in Procs /\ p \notin Clients /\ failed(t) \in Procs \ Runners
      /\ \A u \in Threads : u # t => worker(u) # p
  BY RunnersAreProcs DEF Runners, Workers, Clients, Procs, failed, worker, caller
<1>2. ASSUME UNCHANGED <<run, thr, ret>>, NEW l \in ReturnLabels, NEW j,
             \A q \in Runners : pc'[q] = IF q = p THEN l ELSE pc[q],
             job' = [job EXCEPT ![t] = j], (l = "idle") <=> (j.st # "active")
      PROVE  Kept
  <2>1. Continues'
    BY <1>2 DEF Continues, ReturnLabels, UpdateLabels
  <2>2. IdleRunless'
    BY <1>1, <1>2 DEF IdleRunless, At, Runners
  <2>3. JobHeld' /\ (JobOwned => JobOwned')
    BY <1>1, <1>2, ApartRunners DEF JobHeld, JobOwned, At, Runners, Workers, TypeInv, TypeOK
  <2>4. OneRun'
    BY <1>2 DEF OneRun, NoParallelRuns
  <2> QED
    BY <2>1, <2>2, <2>3, <2>4
<1>3. CASE JobTaken(t)
  <2>1. "hRead" \in ReturnLabels /\ TakeJob(job[t]).st = "active"
    BY DEF ReturnLabels, TakeJob, TypeInv, TypeOK, Job
  <2>2. UNCHANGED <<run, thr, ret>> /\ job' = [job EXCEPT ![t] = TakeJob(job[t])]
        /\ \A q \in Runners : pc'[q] = IF q = p THEN "hRead" ELSE pc[q]
    BY <1>1, <1>3, RunnersAreProcs DEF JobTaken, agent, Goto, TypeInv, TypeOK
  <2> QED
    BY <1>2, <2>1, <2>2
<1>4. CASE JobCompleted(t)
  <2>1. "idle" \in ReturnLabels /\ CompleteJob(job[t]).st # "active"
    BY DEF ReturnLabels, CompleteJob, TypeInv, TypeOK, Job
  <2>2. UNCHANGED <<run, thr, ret>> /\ job' = [job EXCEPT ![t] = CompleteJob(job[t])]
        /\ \A q \in Runners : pc'[q] = IF q = p THEN "idle" ELSE pc[q]
    BY <1>1, <1>4, RunnersAreProcs DEF JobCompleted, agent, Goto, TypeInv, TypeOK
  <2> QED
    BY <1>2, <2>1, <2>2
<1>5. CASE JobFails(t)
  <2>1. "idle" \in ReturnLabels /\ FailJob(job[t]).st # "active"
    BY DEF ReturnLabels, FailJob
  <2>2. UNCHANGED <<run, thr, ret>> /\ job' = [job EXCEPT ![t] = FailJob(job[t])]
        /\ \A q \in Runners : pc'[q] = IF q = p THEN "idle" ELSE pc[q]
    BY <1>1, <1>5, RunnersAreProcs DEF JobFails, agent, TypeInv, TypeOK
  <2> QED
    BY <1>2, <2>1, <2>2
<1>6. CASE ResumeRead(t)
  <2>1. PICK l \in {"hPre", "jobOk"} : Goto(p, l)
    BY <1>6 DEF ResumeRead
  <2>2. l \in ReturnLabels \ {"idle"} /\ pc[p] # "idle" /\ UNCHANGED <<run, thr, ret, job>>
    BY <1>6 DEF ReturnLabels, ResumeRead, agent, stores, At
  <2> QED
    BY <1>1, <2>1, <2>2, GotoSteady, SteadyKeeps DEF Steady, SameThread, SameActive, NoNewRun
<1>7. CASE Pauses(p) \/ UpdatesRow(p)
  BY <1>1, <1>7, PausesSteady, UpdatesRowSteady, SteadyKeeps
<1> QED
  BY <1>1, <1>3, <1>4, <1>5, <1>6, <1>7, HandleResumeKeeps DEF Worker

\* The queue never makes a job active or inactive by itself.
LEMMA QueueSteady ==
  ASSUME TypeInv, Continues, NEW t \in Threads, Queue(t)
  PROVE  Steady
<1>1. SameActive
  <2>1. job[t] \in Job /\ job \in [Threads -> Job]
    BY DEF TypeInv, TypeOK
  <2>2. PICK j \in {[job[t] EXCEPT !.st = "wait"], NoJob} : job' = [job EXCEPT ![t] = j]
    BY DEF Queue, JobDue, JobEvicted, JobLost
  <2>3. j.st # "active" /\ job[t].st # "active"
    BY <2>1 DEF NoJob, Job, Queue, JobDue, JobEvicted, JobLost, Retained
  <2> QED
    BY <2>1, <2>2, <2>3 DEF SameActive
<1>2. UNCHANGED <<pc, thr, ret, run>>
  BY DEF Queue, JobDue, JobEvicted, JobLost, agent, procs
<1> QED
  BY <1>1, <1>2 DEF Steady, SameIdle, SameThread, NoNewRun, Continues

\* A step of a request from label to label keeps OwnInv.
LEMMA StepKeeps ==
  ASSUME TypeInv, OwnInv, NEW p \in Runners, NEW l \in ReturnLabels \ {"idle"},
         pc[p] # "idle", Goto(p, l), UNCHANGED <<job, thr, ret>>, NoNewRun
  PROVE  Kept
  BY GotoSteady, SteadyKeeps, RunnersAreProcs DEF OwnInv, Kept, Steady, SameThread, SameActive

\* An emission of a request keeps OwnInv.
LEMMA EmitKeeps ==
  ASSUME TypeInv, OwnInv, NEW p \in Runners, NEW u, NEW l \in ReturnLabels \ {"idle"},
         pc[p] # "idle", Emit(p, thr[p], u, l), UNCHANGED <<job, run>>
  PROVE  Kept
<1>1. p \in Procs /\ thr[p] \in Threads
  BY RunnersAreProcs DEF TypeInv, TypeOK
<1> QED
  BY <1>1, EmitSteady, SteadyKeeps DEF OwnInv, Kept, Steady, SameActive, NoNewRun

\* executeTrigger starts a run only if the thread has none.
LEMMA TriggerRequestKeeps ==
  ASSUME TypeInv, OwnInv, NEW p \in Clients, TriggerRequest(p)
  PROVE  Kept
<1>1. p \in Runners /\ {"tPre", "done", "tRun", "pRead", "tEnsure", "tAwait"} \subseteq ReturnLabels \ {"idle"}
  BY DEF Runners, ReturnLabels
<1>2. CASE Trigger(p)
  <2>1. PICK t \in Threads, op \in {"trigger", "async"}, limit \in Limits :
          /\ At(p, "idle") /\ thr' = [thr EXCEPT ![p] = t] /\ Goto(p, "tPre") /\ UNCHANGED <<run, ret>>
          /\ job' = IF row[t].status = Waiting THEN [job EXCEPT ![t] = RemoveJob(@)] ELSE job
    BY <1>2 DEF Trigger, Asks, Take, agent
  <2>2. SameActive
    <3>1. job[t] \in Job /\ job \in [Threads -> Job] /\ (job[t].st # "failed" => job[t].att < MaxAttempts)
      BY DEF TypeInv, TypeOK, RetriesLeft
    <3>2. (RemoveJob(job[t]).st = "active") <=> (job[t].st = "active")
      BY <3>1, JobTypes
    <3> QED
      BY <2>1, <3>1, <3>2 DEF SameActive
  <2> QED
    BY <1>1, <2>1, <2>2, TakeKeeps
<1>3. CASE TriggerRejected(p)
  <2>1. PICK t \in Threads : /\ At(p, "idle") /\ thr' = [thr EXCEPT ![p] = t]
                             /\ Goto(p, "done") /\ UNCHANGED <<run, ret, job>>
    BY <1>3 DEF TriggerRejected, Take, Asks, agent, stores
  <2> QED
    BY <1>1, <2>1, TakeKeeps DEF SameActive
<1>4. CASE TriggerPreflight(p) \/ TriggerAppends(p) \/ TriggerRestores(p) \/ TriggerEnsures(p)
  <2>1. PICK l \in {"tRun", "pRead", "tEnsure", "done"} : Goto(p, l)
    BY <1>4 DEF TriggerPreflight, TriggerAppends, TriggerRestores, TriggerEnsures
  <2>2. pc[p] # "idle" /\ UNCHANGED <<job, thr, ret>> /\ NoNewRun
    BY <1>4 DEF TriggerPreflight, TriggerAppends, TriggerRestores, TriggerEnsures, At, stores, agent, NoNewRun
  <2> QED
    BY <1>1, <2>1, <2>2, StepKeeps
<1>5. CASE TriggerStarts(p)
  <2>1. PICK l \in {"tEnsure", "tAwait"} : Goto(p, l)
    BY <1>5 DEF TriggerStarts
  <2> QED
    BY <1>1, <1>5, <2>1, StartKeeps DEF TriggerStarts, At, stores
<1> QED
  BY <1>2, <1>3, <1>4, <1>5 DEF TriggerRequest

\* stopThread starts no run.
LEMMA StopRequestKeeps ==
  ASSUME TypeInv, OwnInv, NEW p \in Clients, StopRequest(p)
  PROVE  Kept
<1>1. p \in Runners /\ {"kAgent", "kWrite", "done"} \subseteq ReturnLabels \ {"idle"}
  BY DEF Runners, ReturnLabels
<1>2. CASE Stop(p)
  <2>1. PICK t \in Threads, l \in {"kAgent", "done"} :
          /\ At(p, "idle") /\ thr' = [thr EXCEPT ![p] = t] /\ Goto(p, l) /\ UNCHANGED <<run, ret, job>>
    BY <1>2 DEF Stop, Asks, Take, agent, stores
  <2> QED
    BY <1>1, <2>1, TakeKeeps DEF SameActive
<1>3. CASE StopsRun(p)
  <2>1. NoNewRun
    BY <1>3 DEF StopsRun, StopRuns, NoNewRun, Active, TypeInv, TypeOK, Runs
  <2> QED
    BY <1>1, <1>3, <2>1, StepKeeps DEF StopsRun, At, stores
<1>4. CASE StopsNothing(p)
  BY <1>1, <1>4, StepKeeps DEF StopsNothing, At, stores, agent, NoNewRun
<1>5. CASE StopWrites(p)
  BY <1>1, <1>5, EmitKeeps DEF StopWrites, At, agent
<1> QED
  BY <1>2, <1>3, <1>4, <1>5 DEF StopRequest

\* The requests about a wait start a run only through handleResume.
LEMMA ResumeRequestKeeps ==
  ASSUME TypeInv, OwnInv, NEW p \in Clients, ResumeRequest(p)
  PROVE  Kept
<1>1. p \in Runners /\ p \in Procs \ Workers
      /\ {"rCancel", "cCancel", "hPre", "cWrite", "sRemove", "done"} \subseteq ReturnLabels \ {"idle"}
  BY DEF Runners, ReturnLabels, Procs, Clients, Workers, caller, worker
<1>2. CASE ResumeOrCancel(p, "resume") \/ ResumeOrCancel(p, "cancel") \/ Acquired(p)
  <2>1. PICK t \in Threads, l \in {"rCancel", "cCancel", "sRemove", "done"} :
          /\ At(p, "idle") /\ thr' = [thr EXCEPT ![p] = t] /\ Goto(p, l) /\ UNCHANGED <<run, ret, job>>
    BY <1>2 DEF ResumeOrCancel, Acquired, Asks, Take, agent, stores
  <2> QED
    BY <1>1, <2>1, TakeKeeps DEF SameActive
<1>3. CASE CancelJob(p)
  <2>1. thr[p] \in Threads /\ job[thr[p]] \in Job /\ job \in [Threads -> Job]
        /\ (job[thr[p]].st # "failed" => job[thr[p]].att < MaxAttempts)
    BY <1>1 DEF TypeInv, TypeOK, RetriesLeft
  <2>2. SameActive
    BY <1>3, <2>1, JobTypes DEF SameActive, CancelJob
  <2>3. PICK l \in {"hPre", "cWrite"} : Goto(p, l)
    BY <1>3 DEF CancelJob
  <2>4. pc[p] # "idle" /\ UNCHANGED <<thr, ret, run>>
    BY <1>3 DEF CancelJob, agent
  <2> QED
    BY <1>1, <2>2, <2>3, <2>4, GotoSteady, SteadyKeeps DEF OwnInv, Kept, Steady, SameThread, NoNewRun
<1>4. CASE CancelWrite(p)
  BY <1>1, <1>4, EmitKeeps DEF CancelWrite, At, agent
<1> QED
  BY <1>1, <1>2, <1>3, <1>4, HandleResumeKeeps DEF ResumeRequest

\* Every step keeps OwnInv.
LEMMA OwnStep ==
  ASSUME TypeInv, OwnInv, Next
  PROVE  Kept
<1> USE DEF OwnInv, Kept
<1>1. ASSUME NEW t \in Threads, Waiter(t) \/ Worker(t) \/ Failed(t) \/ Queue(t)
      PROVE  Kept
  BY <1>1, WaiterSteady, FailedSteady, QueueSteady, WorkerKeeps, SteadyKeeps
<1>2. ASSUME NEW p \in Runners, Agent(p)
      PROVE  Kept
  BY <1>2, AgentSteady, SteadyKeeps
<1>3. ASSUME NEW p \in Clients, Caller(p)
      PROVE  Kept
  <2>1. p \in Runners /\ p \in Procs \ Workers
    BY DEF Runners, Procs, Clients, Workers, caller, worker
  <2> QED
    BY <1>3, <2>1, TriggerRequestKeeps, StopRequestKeeps, ResumeRequestKeeps,
       UpdatesRowSteady, SchedulesSteady, PausesSteady, SteadyKeeps DEF Caller
<1>4. CASE Handler \/ Watchdog
  BY <1>4, HandlerSteady, WatchdogSteady, SteadyKeeps
<1>5. CASE CredentialChanges
  BY <1>5, SteadyKeeps DEF CredentialChanges, stores, agent, procs,
     Steady, SameIdle, SameThread, SameActive, NoNewRun, Continues
<1> QED
  BY <1>1, <1>2, <1>3, <1>4, <1>5 DEF Next

---------------------------------------------------------------------------
\* the inductive invariant
IInv == TypeInv /\ OwnInv /\ JobOwned

\* The inductive invariant holds in a server that just started.
LEMMA InitInv ==
  ASSUME Init
  PROVE  IInv
<1> USE DEF Init
<1>1. NoRow \in Row /\ NoJob \in Job /\ NoRun \in Runs /\ Update("keep") \in Updates
      /\ NoArg \in Args /\ "idle" \in ReturnLabels /\ NoJob.att < MaxAttempts
  <2>1. NoRow \in Row
    BY DEF NoRow, Row, WaitKinds
  <2>2. NoJob \in Job /\ NoJob.att < MaxAttempts
    BY MaxAttemptsAssumption DEF NoJob, Job, JobStates
  <2>3. NoRun \in Runs /\ NoArg \in Args /\ "idle" \in ReturnLabels
    BY <2>1 DEF NoRun, Runs, NoArg, Args, ReturnLabels
  <2> QED
    BY <2>1, <2>2, <2>3, UpdateTypes
<1>2. thr \in [Procs -> Threads]
  <2>1. SomeThread \in Threads
    BY FiniteAssumption DEF SomeThread
  <2>2. \A p \in PerThread : p[2] \in Threads
    BY DEF PerThread, Workers, Waiters, worker, waiter, failed
  <2> QED
    BY <2>1, <2>2
<1>3. TypeOK
  <2>1. row \in [Threads -> Row] /\ job \in [Threads -> Job] /\ run \in [Runners -> Runs]
    BY <1>1
  <2>2. execs \subseteq Runners /\ chain \in Seq(Events) /\ waits \subseteq Threads /\ cred \in BOOLEAN
    OBVIOUS
  <2>3. waited \in [Threads -> 0 .. MaxWaits]
    BY FeatureAssumption
  <2>4. /\ pc \in [Procs -> Labels] /\ snap \in [Procs -> Row] /\ upd \in [Procs -> Updates]
        /\ ret \in [Procs -> ReturnLabels] /\ arg \in [Clients -> Args]
    BY <1>1 DEF Labels
  <2> QED
    BY <1>2, <2>1, <2>2, <2>3, <2>4 DEF TypeOK
<1>4. RetriesLeft /\ EventInHand /\ StatusToWrite
  BY <1>1 DEF RetriesLeft, EventInHand, StatusToWrite, At, Procs, NoJob
<1>5. Continues /\ IdleRunless /\ OneRun
  BY RunnersAreProcs DEF Continues, IdleRunless, OneRun, NoParallelRuns, NoRun, Runners, UpdateLabels
<1>6. JobOwned
  BY RunnersAreProcs DEF JobOwned, At, NoJob, Runners, Workers
<1> QED
  BY <1>3, <1>4, <1>5, <1>6 DEF IInv, TypeInv, OwnInv, JobHeld, JobOwned

\* Every step keeps the inductive invariant.
LEMMA StepInv ==
  ASSUME IInv, [Next]_vars
  PROVE  IInv'
<1>1. CASE Next
  BY <1>1, TypeStep, OwnStep DEF IInv, OwnInv, Kept
<1>2. CASE UNCHANGED vars
  BY <1>2 DEF IInv, TypeInv, TypeOK, RetriesLeft, EventInHand, StatusToWrite, OwnInv, Continues,
     IdleRunless, JobHeld, JobOwned, OneRun, NoParallelRuns, At, vars, stores, agent, procs
<1> QED
  BY <1>1, <1>2

(* The inductive invariant holds in every state the server reaches, for any set of
   threads and requests, any outcomes, any faults and any number of attempts. *)
THEOREM Inductive == Spec => []IInv
  BY InitInv, StepInv, PTL DEF Spec

(* Every row the services write is a row, every label an activity returns to one of
   its own, and no job fails more often than its attempts. *)
THEOREM TypeCorrect == Spec => []TypeOK
<1>1. IInv => TypeOK
  BY DEF IInv, TypeInv
<1> QED
  BY Inductive, <1>1, PTL

(* A resume job is active exactly while its worker is busy with it, whatever the
   requests, the watchdog, scheduleResume and the queue do to it meanwhile. *)
THEOREM JobsOwned == Spec => []JobOwned
<1>1. IInv => JobOwned
  BY DEF IInv
<1> QED
  BY Inductive, <1>1, PTL

(* As long as no two runs of a thread are prepared together, a thread never has two
   runs, whoever starts them: executeTrigger, the resume job or resumeThread. *)
THEOREM OneRunAtATime == Spec => []OneRun
<1>1. IInv => OneRun
  BY DEF IInv, OwnInv
<1> QED
  BY Inductive, <1>1, PTL
===========================================================================
