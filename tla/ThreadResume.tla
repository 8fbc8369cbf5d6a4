---------------------------- MODULE ThreadResume --------------------------
(***************************************************************************)
(* ThreadResumeService: the announcement of a wait, its resume by the      *)
(* queue's worker, by a user or by an acquired credential, its             *)
(* cancellation, the failure of a resume, and the watchdog for waits whose *)
(* job was lost.  Time is abstract: a delayed job may become due, and a    *)
(* wait overdue, at any moment.                                            *)
(***************************************************************************)
EXTENDS ThreadTrigger

(* onThreadWaiting: read the row, write the wait into its metadata, announce
   Waiting, schedule the resume *)
WaitRead(t) ==
  /\ At(waiter(t), "idle") /\ t \in waits
  /\ waits' = waits \ {t}
  /\ Load(waiter(t), t)
  /\ Goto(waiter(t), IF row[t].status = Absent THEN "idle" ELSE "wWrite")
  /\ UNCHANGED <<stores, run, execs, chain, waited, cred, thr, upd, ret, arg>>

\* scheduledResumeAt is new each time, so the metadata is always written
WaitWrite(t) ==
  /\ At(waiter(t), "wWrite")
  /\ Write(t, [row[t] EXCEPT !.wait = "timer", !.cost = snap[waiter(t)].cost])
  /\ Emit(waiter(t), t, Update(Waiting), "sRemove")
  /\ UNCHANGED <<job, agent, cred, snap, arg>>

Waiter(t) == WaitRead(t) \/ WaitWrite(t) \/ UpdatesRow(waiter(t)) \/ Schedules(waiter(t))

---------------------------------------------------------------------------
(* BullMQ and its worker *)
JobDue(t) ==
  /\ job[t].st = "delayed"
  /\ job' = [job EXCEPT ![t].st = "wait"]
  /\ UNCHANGED <<row, agent, cred, procs>>

JobTaken(t) ==
  /\ At(worker(t), "idle") /\ job[t].st = "wait"
  /\ job' = [job EXCEPT ![t] = TakeJob(@)]
  /\ Goto(worker(t), "hRead")
  /\ UNCHANGED <<row, agent, cred, thr, snap, upd, ret, arg>>

JobCompleted(t) ==
  /\ At(worker(t), "jobOk")
  /\ job' = [job EXCEPT ![t] = CompleteJob(@)]
  /\ Goto(worker(t), "idle")
  /\ UNCHANGED <<row, agent, cred, thr, snap, upd, ret, arg>>

\* the last failure is reported to handleResumeFailed, one report at a time
JobFails(t) ==
  /\ At(worker(t), "jobFail")
  /\ FinalFailure(job[t]) => At(failed(t), "idle")
  /\ job' = [job EXCEPT ![t] = FailJob(@)]
  /\ pc' = [pc EXCEPT ![worker(t)] = "idle",
                      ![failed(t)] = IF FinalFailure(job[t]) THEN "fRead" ELSE @]
  /\ UNCHANGED <<row, agent, cred, thr, snap, upd, ret, arg>>

JobEvicted(t) ==
  /\ "evict" \in Faults
  /\ Retained(job[t])
  /\ job' = [job EXCEPT ![t] = NoJob]
  /\ UNCHANGED <<row, agent, cred, procs>>

JobLost(t) ==
  /\ "lose" \in Faults
  /\ job[t].st \in {"delayed", "wait"}
  /\ job' = [job EXCEPT ![t] = NoJob]
  /\ UNCHANGED <<row, agent, cred, procs>>

---------------------------------------------------------------------------
(* handleResume, run by a worker or inline by a caller's resumeEarly *)
ResumeRead(t) ==
  LET p == worker(t) IN
  /\ At(p, "hRead")
  /\ IF row[t].status = Waiting THEN Goto(p, "hPre") /\ Load(p, t)
     ELSE Goto(p, "jobOk") /\ UNCHANGED snap
  /\ UNCHANGED <<stores, agent, cred, thr, upd, ret, arg>>

ResumePreflight(p) ==
  /\ At(p, "hPre")
  /\ Goto(p, IF cred THEN "hWrite" ELSE "pRead")
  /\ UNCHANGED <<stores, agent, cred, thr, snap, upd, ret, arg>>

\* mutant: the wait metadata is left in place
ResumeWriteKeepsWait(p) ==
  LET t == thr[p] IN
  /\ At(p, "hWrite")
  /\ snap[p].wait # "none" \/ p \in Workers
  /\ Write(t, WriteStatus(row[t], snap[p], Running))
  /\ Emit(p, t, Update(Running), "hRun")
  /\ UNCHANGED <<job, agent, cred, snap, arg>>

\* a wait without metadata names no agent node
ResumeWrite(p) ==
  LET t == thr[p] IN
  /\ At(p, "hWrite")
  /\ snap[p].wait # "none" \/ p \in Workers
  /\ Write(t, WriteBoth(row[t], snap[p], Running, "none", snap[p].cost))
  /\ Emit(p, t, Update(Running), "hRun")
  /\ UNCHANGED <<job, agent, cred, snap, arg>>

ResumeUnroutable(p) ==
  /\ At(p, "hWrite")
  /\ "pod" \in Faults \/ (snap[p].wait = "none" /\ p \notin Workers)
  /\ Goto(p, AfterRun(p, FALSE))
  /\ Drop(p)
  /\ UNCHANGED <<stores, agent, cred, thr, upd, ret, arg>>

\* mutant: the active run is not looked up
ResumeRunsUnchecked(p) ==
  /\ At(p, "hRun")
  /\ PrepareRun(p)
  /\ Goto(p, "hAwait")
  /\ UNCHANGED <<stores, execs, chain, waits, waited, cred, thr, snap, upd, ret, arg>>

ResumeRuns(p) ==
  /\ At(p, "hRun") /\ Active(thr[p]) = {}
  /\ PrepareRun(p)
  /\ Goto(p, "hAwait")
  /\ UNCHANGED <<stores, execs, chain, waits, waited, cred, thr, snap, upd, ret, arg>>

\* 'Thread is currently running'
ResumeRejected(p) ==
  /\ At(p, "hRun") /\ Active(thr[p]) # {}
  /\ Goto(p, AfterRun(p, FALSE))
  /\ UNCHANGED <<stores, agent, cred, thr, snap, upd, ret, arg>>

HandleResume(p) ==
  \/ ResumePreflight(p) \/ ResumeWrite(p) \/ ResumeUnroutable(p)
  \/ ResumeRuns(p) \/ ResumeRejected(p)

Worker(t) ==
  \/ JobTaken(t) \/ JobCompleted(t) \/ JobFails(t) \/ ResumeRead(t)
  \/ HandleResume(worker(t))
  \/ Pauses(worker(t)) \/ UpdatesRow(worker(t))

---------------------------------------------------------------------------
(* handleResumeFailed; resumeError makes the metadata always differ *)
FailedRead(t) ==
  /\ At(failed(t), "fRead")
  /\ Load(failed(t), t)
  /\ Goto(failed(t), "fWrite")
  /\ UNCHANGED <<stores, agent, cred, thr, upd, ret, arg>>

FailedWrite(t) ==
  LET s == snap[failed(t)] IN
  /\ At(failed(t), "fWrite")
  /\ Write(t, [WriteStatus(row[t], s, Stopped) EXCEPT !.wait = "none", !.cost = s.cost])
  /\ Emit(failed(t), t, Update(Stopped), "idle")
  /\ UNCHANGED <<job, agent, cred, snap, arg>>

Failed(t) == FailedRead(t) \/ FailedWrite(t) \/ UpdatesRow(failed(t))

---------------------------------------------------------------------------
\* mutants: the watchdog knows one kind of wait only
OverdueCredential(t) == row[t].wait = "credential"
OverdueTimer(t) == row[t].wait = "timer" /\ At(waiter(t), "idle")

(* A wait may be overdue at any moment after its announcement: a timer's
   deadline lies at least a second ahead and the watchdog grants 30 more. *)
Overdue(t) == row[t].wait = "credential" \/ (row[t].wait = "timer" /\ At(waiter(t), "idle"))

(* recoverOverdueThreads and recoverCredentialWait, for one thread of the
   sweep; a wait without metadata is passed over *)
Sweep ==
  \E t \in Threads :
    /\ At(watchdog, "idle")
    /\ row[t].status = Waiting /\ Overdue(t)
    /\ thr' = [thr EXCEPT ![watchdog] = t]
    /\ Load(watchdog, t)
    /\ Goto(watchdog, "vJob")
    /\ UNCHANGED <<stores, agent, cred, upd, ret, arg>>

SweepJob ==
  LET w == snap[watchdog].wait
      next == IF Exists(job[thr[watchdog]]) THEN "idle"
              ELSE IF w = "timer" THEN "sRemove" ELSE "vCred" IN
  /\ At(watchdog, "vJob")
  /\ Goto(watchdog, next)
  /\ IF next = "idle" THEN Drop(watchdog) ELSE UNCHANGED snap
  /\ UNCHANGED <<stores, agent, cred, thr, upd, ret, arg>>

SweepCredential ==
  /\ At(watchdog, "vCred")
  /\ IF cred THEN Goto(watchdog, "sRemove") /\ UNCHANGED snap
     ELSE Goto(watchdog, "idle") /\ Drop(watchdog)
  /\ UNCHANGED <<stores, agent, cred, thr, upd, ret, arg>>

Watchdog == Sweep \/ SweepJob \/ SweepCredential \/ Schedules(watchdog)

---------------------------------------------------------------------------
(* resumeThread and cancelWait of the HTTP API. Their later reads of the row
   by its id return the entity the request already loaded. *)
ResumeOrCancel(p, op) ==
  \E t \in Threads :
    /\ Asks(p, op) /\ row[t].status = Waiting
    /\ Take(p, t, op, NoRow)
    /\ Load(p, t)
    /\ Goto(p, IF op = "resume" THEN "rCancel" ELSE "cCancel")
    /\ UNCHANGED <<stores, agent, cred, upd, ret>>

CancelJob(p) ==
  /\ pc[p] \in {"rCancel", "cCancel"}
  /\ job' = [job EXCEPT ![thr[p]] = RemoveJob(@)]
  /\ Goto(p, IF At(p, "rCancel") THEN "hPre" ELSE "cWrite")
  /\ UNCHANGED <<row, agent, cred, thr, snap, upd, ret, arg>>

CancelWrite(p) ==
  LET t == thr[p] IN
  /\ At(p, "cWrite")
  /\ Write(t, WriteBoth(row[t], snap[p], Stopped, "none", snap[p].cost))
  /\ Emit(p, t, Update(Stopped), "done")
  /\ UNCHANGED <<job, agent, cred, snap, arg>>

(* a credential exchange that names a thread, and onCredentialAcquired *)
Acquired(p) ==
  \E t \in Threads :
    /\ Asks(p, "acquired")
    /\ cred' = TRUE
    /\ Take(p, t, "acquired", NoRow)
    /\ Goto(p, IF row[t].status = Waiting /\ row[t].wait = "credential" THEN "sRemove" ELSE "done")
    /\ UNCHANGED <<stores, agent, snap, upd, ret>>

ResumeRequest(p) ==
  \/ ResumeOrCancel(p, "resume") \/ ResumeOrCancel(p, "cancel")
  \/ CancelJob(p) \/ CancelWrite(p) \/ Acquired(p)
  \/ HandleResume(p)

---------------------------------------------------------------------------
(* The credential is connected from elsewhere, or expires. *)
CredentialChanges ==
  /\ cred => "cred" \in Faults
  /\ cred' = ~cred
  /\ UNCHANGED <<stores, agent, procs>>
===========================================================================
