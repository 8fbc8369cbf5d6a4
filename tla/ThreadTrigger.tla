--------------------------- MODULE ThreadTrigger --------------------------
(***************************************************************************)
(* The requests that start and stop a thread: GraphsService.executeTrigger *)
(* with the manual trigger's invokeAgent, and ThreadsService.stopThread.   *)
(***************************************************************************)
EXTENDS ThreadEvents

Asks(p, op) == At(p, "idle") /\ op \in Requests
Take(p, t, op, saved) ==
  /\ thr' = [thr EXCEPT ![p] = t]
  /\ arg' = [arg EXCEPT ![p] = [op |-> op, saved |-> saved]]

---------------------------------------------------------------------------
(* executeTrigger: the locked transaction pre-sets Running on an existing
   row, keeping a terminal row to restore; a new thread has no row yet. *)
PreSet(r) ==
  [WriteStatus(r, r, Running) EXCEPT
     !.wait = IF r.status = Waiting THEN "none" ELSE @,
     !.cost = IF CostStopped(r) THEN {} ELSE @]

Trigger(p) ==
  \E t \in Threads, op \in {"trigger", "async"}, limit \in Limits :
    /\ Asks(p, op)
    /\ MayStart(row[t], limit)
    /\ Take(p, t, op, IF row[t].status \in Terminal THEN row[t] ELSE NoRow)
    /\ IF row[t].status = Absent THEN UNCHANGED row ELSE Write(t, PreSet(row[t]))
    /\ job' = IF row[t].status = Waiting THEN [job EXCEPT ![t] = RemoveJob(@)] ELSE job
    /\ Goto(p, "tPre")
    /\ UNCHANGED <<agent, cred, snap, upd, ret>>

\* THREAD_COST_LIMIT_REACHED
TriggerRejected(p) ==
  \E t \in Threads, op \in {"trigger", "async"}, limit \in Limits :
    /\ Asks(p, op)
    /\ ~MayStart(row[t], limit)
    /\ Take(p, t, op, NoRow)
    /\ Goto(p, "done")
    /\ UNCHANGED <<stores, agent, cred, snap, upd, ret>>

\* invokeAgent: the OAuth pre-flight may pause the run instead
TriggerPreflight(p) ==
  /\ At(p, "tPre")
  /\ Goto(p, IF cred THEN "tRun" ELSE "pRead")
  /\ UNCHANGED <<stores, agent, cred, thr, snap, upd, ret, arg>>

\* runOrAppend: a message to a live run joins it
TriggerAppends(p) ==
  /\ At(p, "tRun") /\ Active(thr[p]) # {}
  /\ Goto(p, "tEnsure")
  /\ UNCHANGED <<stores, agent, cred, thr, snap, upd, ret, arg>>

TriggerStarts(p) ==
  /\ At(p, "tRun") /\ Active(thr[p]) = {}
  /\ PrepareRun(p)
  /\ Goto(p, IF arg[p].op = "async" THEN "tEnsure" ELSE "tAwait")
  /\ UNCHANGED <<stores, execs, chain, waits, waited, cred, thr, snap, upd, ret, arg>>

\* mutant: nothing is restored
TriggerRestoresNothing(p) ==
  /\ At(p, "tRestore")
  /\ Goto(p, "done")
  /\ UNCHANGED <<stores, agent, cred, thr, snap, upd, ret, arg>>

\* the catch block of executeTrigger
TriggerRestores(p) ==
  /\ At(p, "tRestore")
  /\ IF arg[p].saved = NoRow THEN UNCHANGED row ELSE Write(thr[p], arg[p].saved)
  /\ Goto(p, "done")
  /\ UNCHANGED <<job, agent, cred, thr, snap, upd, ret, arg>>

\* mutant: an existing row is taken back to Running
TriggerUpserts(p) ==
  /\ At(p, "tEnsure")
  /\ Write(thr[p], InvokedRow(row[thr[p]]))
  /\ Goto(p, "done")
  /\ UNCHANGED <<job, agent, cred, thr, snap, upd, ret, arg>>

\* ensureThreadRow is insert-only
TriggerEnsures(p) ==
  /\ At(p, "tEnsure")
  /\ Write(thr[p], Insert(row[thr[p]], Running, "none"))
  /\ Goto(p, "done")
  /\ UNCHANGED <<job, agent, cred, thr, snap, upd, ret, arg>>

---------------------------------------------------------------------------
(* stopThread: through the run if there is one, else on the row directly *)
Stop(p) ==
  \E t \in Threads :
    /\ Asks(p, "stop") /\ row[t].status # Absent
    /\ Take(p, t, "stop", NoRow)
    /\ IF row[t].status = Running THEN Goto(p, "kAgent") /\ Load(p, t)
       ELSE Goto(p, "done") /\ UNCHANGED snap
    /\ UNCHANGED <<stores, agent, cred, upd, ret>>

StopsRun(p) ==
  /\ At(p, "kAgent") /\ Active(thr[p]) # {}
  /\ StopRuns(thr[p])
  /\ Goto(p, "done")
  /\ Drop(p)
  /\ UNCHANGED <<stores, execs, waits, waited, cred, thr, upd, ret, arg>>

StopsNothing(p) ==
  /\ At(p, "kAgent")
  /\ Active(thr[p]) = {} \/ "pod" \in Faults
  /\ Goto(p, "kWrite")
  /\ UNCHANGED <<stores, agent, cred, thr, snap, upd, ret, arg>>

StopWrites(p) ==
  LET t == thr[p] IN
  /\ At(p, "kWrite")
  /\ Write(t, WriteBoth(row[t], snap[p], Stopped, snap[p].wait, {}))
  /\ Emit(p, t, Dropping(Stopped, CostMarkers), "done")
  /\ UNCHANGED <<job, agent, cred, snap, arg>>

TriggerRequest(p) ==
  \/ Trigger(p) \/ TriggerRejected(p) \/ TriggerPreflight(p) \/ TriggerAppends(p)
  \/ TriggerStarts(p) \/ TriggerRestores(p) \/ TriggerEnsures(p)

StopRequest(p) == Stop(p) \/ StopsRun(p) \/ StopsNothing(p) \/ StopWrites(p)
===========================================================================
