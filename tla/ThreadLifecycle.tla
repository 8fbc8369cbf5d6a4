-------------------------- MODULE ThreadLifecycle -------------------------
(***************************************************************************)
(* The life of a thread: its row, written by every part of the server that *)
(* learns something about the thread, against the run, the events and the  *)
(* resume job it should agree with.                                        *)
(***************************************************************************)
EXTENDS ThreadResume

SomeThread == CHOOSE t \in Threads : TRUE
PerThread  == Workers \cup Waiters \cup {failed(t) : t \in Threads}

Init ==
  /\ row = [t \in Threads |-> NoRow]
  /\ job = [t \in Threads |-> NoJob]
  /\ run = [p \in Runners |-> NoRun]
  /\ execs = {} /\ chain = <<>> /\ waits = {} /\ waited = [t \in Threads |-> 0]
  /\ cred = ("unauth" \notin Faults)
  /\ pc   = [p \in Procs |-> "idle"]
  /\ thr  = [p \in Procs |-> IF p \in PerThread THEN p[2] ELSE SomeThread]
  /\ snap = [p \in Procs |-> NoRow]
  /\ upd  = [p \in Procs |-> Update("keep")]
  /\ ret  = [p \in Procs |-> "idle"]
  /\ arg  = [p \in Clients |-> NoArg]

Queue(t)  == JobDue(t) \/ JobEvicted(t) \/ JobLost(t)
Caller(p) ==
  \/ TriggerRequest(p) \/ StopRequest(p) \/ ResumeRequest(p)
  \/ UpdatesRow(p) \/ Schedules(p) \/ Pauses(p)

Next ==
  \/ \E t \in Threads : Waiter(t) \/ Worker(t) \/ Failed(t) \/ Queue(t)
  \/ \E p \in Runners : Agent(p)
  \/ \E p \in Clients : Caller(p)
  \/ Handler \/ Watchdog
  \/ CredentialChanges

Spec == Init /\ [][Next]_vars

(* What is started goes on: an await is answered, a run ends, a due job is
   taken, the watchdog's interval fires. No request, fault or credential is
   owed to anyone. A job may be lost while it waits for its worker, so the
   taking needs strong fairness: the queue does not lose jobs for ever. *)
CallerGoes(p) == Caller(p) /\ ~At(p, "idle")
WorkerGoes(t) == Worker(t) /\ ~At(worker(t), "idle")

Fairness ==
  /\ WF_vars(Handler) /\ WF_vars(Watchdog)
  /\ \A p \in Runners : WF_vars(EnterRun(p)) /\ WF_vars(RunEnded(p))
  /\ \A p \in Clients : WF_vars(CallerGoes(p))
  /\ \A t \in Threads :
       /\ WF_vars(Waiter(t)) /\ WF_vars(Failed(t)) /\ WF_vars(JobDue(t))
       /\ SF_vars(JobTaken(t)) /\ WF_vars(WorkerGoes(t))

FairSpec == Spec /\ Fairness

---------------------------------------------------------------------------
\* every event is handled, every announcement made, every request answered
Quiet == chain = <<>> /\ waits = {} /\ \A p \in Procs : pc[p] \in {"idle", "done", "tAwait", "hAwait"}

Served(t) == \A p \in Runners : thr[p] = t => run[p].st = "none"
Settled(t) == Quiet /\ Served(t) /\ job[t].st \notin {"delayed", "wait"}

\* the user has asked to stop the thread
StopAsked(t) == \E p \in Clients : thr[p] = t /\ arg[p].op = "stop"

(* No thread is left Running with nothing running it: once every event is
   handled and no run, request or resume job of the thread is left, some
   writer has landed a status on it. executeTrigger, the resume and the
   invoke handler each set Running ahead of a run that may never start or
   may end without a run event. *)
NoStrandedRunning == \A t \in Threads : Settled(t) => row[t].status # Running

(* A thread whose run is live is shown Running once everything emitted is
   handled, though the writers of its status (the pre-set, the event chain,
   the insert, a restore, the end of an earlier run) come in any order: no
   late status of an earlier run is left over a live one. A stop asked while
   the run is still prepared finds no run and only marks the row. *)
LiveRunShows ==
  \A t \in Threads :
    Quiet /\ (\E p \in Active(t) : ~run[p].stopped)
      => row[t].status = Running \/ (row[t].status = Stopped /\ StopAsked(t))

(* The running clock: runningStartedAt is set exactly while the thread is
   Running, in every state, under the concurrent column-by-column writes. *)
ClockFollowsStatus == \A t \in Threads : ClockOK(row[t])

(* A Waiting thread says what it waits for, and only a Waiting one does: the
   watchdog, the acquired credential and the resume all read the wait's
   metadata, which the announcement writes separately from the status. *)
WaitDescribed == \A t \in Threads : Quiet => (row[t].status = Waiting <=> row[t].wait # "none")

(* No second run of a thread is prepared or live beside another. *)
NoParallelRuns ==
  \A p, q \in Runners : thr[p] = thr[q] /\ run[p].st # "none" /\ run[q].st # "none" => p = q

(* At most one run of a thread is prepared or live at a time, whoever starts
   it: the trigger appends to a live run and the resume is rejected by it.
   It is what the check for an active run is for, as long as no two runs of
   a thread are prepared together. *)
OneRun == "overlap" \notin Faults => NoParallelRuns

(* A resume job is active exactly while its worker is busy with it, whatever
   cancels, re-schedules, loses or evicts jobs meanwhile: so a thread is
   never resumed by two jobs at a time. *)
JobOwned == \A t \in Threads : At(worker(t), "idle") <=> job[t].st # "active"

(* The rows with the cost-limit marker keep the amount it was hit at: without
   it the guard of executeTrigger refuses every limit but none at all. *)
HitKeepsAmount == \A t \in Threads : "costLimitHit" \in row[t].cost => "stopCostUsd" \in row[t].cost

(* A run that exceeds its cost limit takes its thread out of Running. *)
CostStopLands ==
  \A t \in Threads :
    (\E i \in 1 .. Len(chain) : chain[i].out = "cost" /\ thr[chain[i].p] = t) ~> row[t].status # Running

(* Every announced timer wait ends, though its job may be lost or evicted at
   any moment before it is taken: the watchdog schedules it anew. *)
TimerWaitsEnd ==
  \A t \in Threads : (row[t].status = Waiting /\ row[t].wait = "timer") ~> row[t].status # Waiting

Paused(t) == row[t].status = Waiting /\ row[t].wait = "credential"

(* A thread paused for a credential is resumed once the credential is there
   and stays, though nobody tells it: the watchdog checks every paused
   thread. It passes over one that its own resume has paused again, a moment
   before the credential came: the job of that resume is retained as
   completed. *)
PausesEnd ==
  \A t \in Threads :
    (Paused(t) /\ cred) ~> (~Paused(t) \/ ~cred \/ job[t].st = "completed")

(* The lifecycle implements ThreadPromise: seen through the rows, a thread
   that is over is not made Waiting or given another outcome by a late event
   or a late writer, and a Waiting one only starts again or is stopped. *)
Promise == INSTANCE ThreadPromise WITH status <- [t \in Threads |-> row[t].status]
PromiseKept == Promise!Spec
===========================================================================
