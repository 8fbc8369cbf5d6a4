---------------------------- MODULE ThreadState ---------------------------
(***************************************************************************)
(* The state the thread components share, and the three procedures several *)
(* of them run: ThreadUpdateNotificationHandler.handle (NotificationsService*)
(* dispatches in process, so the emitter runs it inline), scheduleResume   *)
(* and pauseThread.  One await of the code is one step.                    *)
(*                                                                         *)
(* A process is one asynchronous activity of the API server:               *)
(*   handler      the sequential agent-event handler of the graph          *)
(*   worker(t)    processJob, running handleResume for thread t            *)
(*   failed(t)    the 'failed' listener, running handleResumeFailed        *)
(*   waiter(t)    onThreadWaiting for thread t                             *)
(*   watchdog     recoverOverdueThreads                                    *)
(*   caller(u)    an HTTP request or an acquired credential                *)
(***************************************************************************)
EXTENDS ThreadStatus, ResumeQueue, Sequences, FiniteSets

CONSTANTS Threads,     \* the threads of one graph with one agent node
          Callers,     \* the requests of a behaviour, each made once
          Requests,    \* what they may ask
          Outcomes,    \* what the agent may decide
          Faults,      \* what may go wrong
          MaxWaits     \* bound: how often the agent waits in a behaviour, by thread

Ops       == {"trigger", "async", "stop", "resume", "cancel", "acquired"}
Decisions == {"done", "more", "wait"}
Mishaps   == {"error",   \* a run throws
              "cost",    \* a run reaches its cost limit
              "prepare", \* a run cannot be prepared (buildGraph rejects)
              "overlap", \* a run of a thread is prepared while another one is
              "pod",     \* a request or a job lands on a pod without the graph
              "unauth",  \* nobody has connected the OAuth credential yet
              "cred",    \* the OAuth credential expires
              "lose",    \* a pending job is lost with Redis
              "evict",   \* later jobs of the queue push a retained one out
              "boot",    \* the graph cannot be restored after a crash
              "early"}   \* a run starts before interrupted threads are stopped

ASSUME FeatureAssumption ==
  /\ Requests \subseteq Ops /\ Outcomes \subseteq Decisions /\ Faults \subseteq Mishaps
  /\ MaxWaits \in Nat

ASSUME FiniteAssumption == IsFiniteSet(Threads) /\ IsFiniteSet(Callers) /\ Threads # {}

VARIABLES
  row,      \* the threads table
  job,      \* the resume queue, by thread
  run,      \* the run a process started: SimpleAgent.run and its activeRuns entry
  execs,    \* NodeState.activeExecutions
  chain,    \* agent events the sequential handler has not taken yet
  waits,    \* THREAD_WAITING_EVENTs not yet received
  waited,   \* how often the agent decided to wait, by thread
  cred,     \* the credential the graph's OAuth node needs is valid
  pc, thr, snap, upd, ret,  \* of a process: label, thread, entity, update, return label
  arg       \* of a caller: what it was asked

stores == <<row, job>>
agent  == <<run, execs, chain, waits, waited>>
procs  == <<pc, thr, snap, upd, ret, arg>>
vars   == <<stores, agent, cred, procs>>

handler   == <<"handler">>
watchdog  == <<"watchdog">>
worker(t) == <<"worker", t>>
failed(t) == <<"failed", t>>
waiter(t) == <<"waiter", t>>
caller(u) == <<"caller", u>>

Workers == {worker(t) : t \in Threads}
Waiters == {waiter(t) : t \in Threads}
Clients == {caller(u) : u \in Callers}
Procs   == {handler, watchdog} \cup Workers \cup Waiters \cup Clients
             \cup {failed(t) : t \in Threads}

\* who starts runs; a run is named after its starter, which has at most one
Runners == Workers \cup Clients

(* A run: not yet in activeRuns while it is prepared, then live; what its
   tools decided so far (the finish tool's done and needsMoreInfo, wait_for's
   waiting) and whether stopThread marked it. *)
Runs  == [st : {"none", "prepared", "live"}, res : Decisions \cup {"none"}, stopped : BOOLEAN]
NoRun == [st |-> "none", res |-> "none", stopped |-> FALSE]

(* Agent events: `out` is the status a run event lands, or how a stop came. *)
Events == [k : {"invoke"}, p : Runners, out : {"none"}]
            \cup [k : {"run"}, p : Runners, out : ThreadStatuses]
            \cup [k : {"stop"}, p : Runners, out : {"manual", "cost"}]
Event(k, p, out) == [k |-> k, p |-> p, out |-> out]

\* what a caller asked, and the terminal row executeTrigger keeps to restore
Args  == [op : Ops \cup {"none"}, saved : Row]
NoArg == [op |-> "none", saved |-> NoRow]

\* t: executeTrigger, k: stopThread, h: handleResume, s: scheduleResume,
\* r, c: resumeEarly, cancelWait, f: handleResumeFailed, v: watchdog, p: pauseThread
UpdateLabels == {"tuRead", "tuStatus", "tuMeta"}
ReturnLabels ==
  {"idle", "done", "sRemove", "sAdd", "pRead", "pWrite", "invoked", "landed", "stopping",
   "hRead", "hPre", "hWrite", "hRun", "hAwait", "jobOk", "jobFail",
   "fRead", "fWrite", "wWrite", "vJob", "vCred",
   "tPre", "tRun", "tAwait", "tRestore", "tEnsure", "kAgent", "kWrite",
   "rCancel", "cCancel", "cWrite"}
Labels == UpdateLabels \cup ReturnLabels

TypeOK ==
  /\ row \in [Threads -> Row]
  /\ job \in [Threads -> Job]
  /\ run \in [Runners -> Runs]
  /\ execs \subseteq Runners
  /\ chain \in Seq(Events)
  /\ waits \subseteq Threads
  /\ waited \in [Threads -> 0 .. MaxWaits]
  /\ cred \in BOOLEAN
  /\ pc \in [Procs -> Labels]
  /\ thr \in [Procs -> Threads]
  /\ snap \in [Procs -> Row]
  /\ upd \in [Procs -> Updates]
  /\ ret \in [Procs -> ReturnLabels]
  /\ arg \in [Clients -> Args]

---------------------------------------------------------------------------
At(p, label)   == pc[p] = label
Goto(p, label) == pc' = [pc EXCEPT ![p] = label]

\* getActiveRunByThread
Active(t)    == {p \in Runners : run[p].st = "live" /\ thr[p] = t}

\* a trigger's configurable has parent_thread_id and effective_cost_limit_usd, a resume's neither
Triggered(p) == p \in Clients /\ arg[p].op \in {"trigger", "async"}

\* the label at which an activity is over: a caller makes one request
End(p) == IF p \in Clients THEN "done" ELSE "idle"

\* a process loads the row of its thread; it drops the entity when it needs it no more
Load(p, t)   == snap' = [snap EXCEPT ![p] = row[t]]
Drop(p)      == snap' = [snap EXCEPT ![p] = NoRow]
Write(t, r)  == row' = [row EXCEPT ![t] = r]

\* emit(ThreadUpdate(u)), then continue at `next`
Emit(p, t, u, next) ==
  /\ Goto(p, "tuRead")
  /\ thr' = [thr EXCEPT ![p] = t]
  /\ upd' = [upd EXCEPT ![p] = u]
  /\ ret' = [ret EXCEPT ![p] = next]

---------------------------------------------------------------------------
(* ThreadUpdateNotificationHandler.handle *)
Return(p) ==
  /\ Goto(p, ret[p])
  /\ Drop(p)
  /\ upd' = [upd EXCEPT ![p] = Update("keep")]
  /\ ret' = [ret EXCEPT ![p] = "idle"]

UpdateRead(p) ==
  LET r == row[thr[p]] IN
  /\ At(p, "tuRead")
  /\ IF r.status # Absent /\ (ChangesStatus(r, upd[p]) \/ ChangesMeta(r, upd[p]))
       THEN /\ Goto(p, IF ChangesStatus(r, upd[p]) THEN "tuStatus" ELSE "tuMeta")
            /\ Load(p, thr[p])
            /\ UNCHANGED <<upd, ret>>
       ELSE Return(p)
  /\ UNCHANGED <<stores, agent, cred, thr, arg>>

UpdateStatus(p) ==
  /\ At(p, "tuStatus")
  /\ Write(thr[p], ApplyStatus(row[thr[p]], snap[p], upd[p]))
  /\ IF ChangesMeta(snap[p], upd[p])
       THEN Goto(p, "tuMeta") /\ UNCHANGED <<snap, upd, ret>>
       ELSE Return(p)
  /\ UNCHANGED <<job, agent, cred, thr, arg>>

UpdateMeta(p) ==
  /\ At(p, "tuMeta")
  /\ Write(thr[p], ApplyMeta(row[thr[p]], snap[p], upd[p]))
  /\ Return(p)
  /\ UNCHANGED <<job, agent, cred, thr, arg>>

---------------------------------------------------------------------------
(* ThreadResumeQueueService.scheduleResume, the last call of its callers.
   Only onThreadWaiting asks for a delay. *)
ScheduleRemove(p) ==
  /\ At(p, "sRemove")
  /\ job' = [job EXCEPT ![thr[p]] = RemoveJob(@)]
  /\ Goto(p, "sAdd")
  /\ UNCHANGED <<row, agent, cred, thr, snap, upd, ret, arg>>

ScheduleAdd(p) ==
  /\ At(p, "sAdd")
  /\ job' = [job EXCEPT ![thr[p]] = AddJob(@, IF p \in Waiters THEN 1 ELSE 0)]
  /\ Goto(p, End(p))
  /\ Drop(p)
  /\ UNCHANGED <<row, agent, cred, thr, upd, ret, arg>>

---------------------------------------------------------------------------
(* OAuthRunPreflightService.pauseThread, run by a resume and by a trigger:
   neither goes on to the agent. *)
AfterPause(p) ==
  IF p \in Workers THEN "jobOk"
  ELSE IF arg[p].op \in {"trigger", "async"} THEN "tEnsure" ELSE End(p)

PauseRead(p) ==
  /\ At(p, "pRead")
  /\ Load(p, thr[p])
  /\ Goto(p, "pWrite")
  /\ UNCHANGED <<stores, agent, cred, thr, upd, ret, arg>>

\* a row that was missing is inserted; one inserted meanwhile is read again
PauseWrite(p) ==
  LET t == thr[p] IN
  /\ At(p, "pWrite")
  /\ IF snap[p].status = Absent /\ row[t].status # Absent
       THEN /\ Goto(p, "pRead")
            /\ UNCHANGED <<row, thr, upd, ret>>
       ELSE /\ Write(t, IF snap[p].status = Absent THEN NewRow(Waiting, "credential")
                        ELSE WriteBoth(row[t], snap[p], Waiting, "credential", snap[p].cost))
            /\ Emit(p, t, Update(Waiting), AfterPause(p))
  /\ UNCHANGED <<job, agent, cred, snap, arg>>

UpdatesRow(p) == UpdateRead(p) \/ UpdateStatus(p) \/ UpdateMeta(p)
Schedules(p) == ScheduleRemove(p) \/ ScheduleAdd(p)
Pauses(p)    == PauseRead(p) \/ PauseWrite(p)
===========================================================================
