---------------------------- MODULE ThreadEvents --------------------------
(***************************************************************************)
(* The runs of the agent node (SimpleAgent) and the handler that turns the *)
(* events they emit into thread updates (GraphStateManager,                *)
(* AgentInvokeNotificationHandler).  Events are handled one at a time in   *)
(* the order of their emission; the head of `chain` is the one in hand.    *)
(***************************************************************************)
EXTENDS ThreadState, SequencesExt

Post(e)   == chain' = Append(chain, e)
Current   == Head(chain)
CurrentThread == thr[Current.p]
Idle(k)   == At(handler, "idle") /\ chain # <<>> /\ Current.k = k

---------------------------------------------------------------------------
(* SimpleAgent.run. Between its check for an active run and the activeRuns
   entry it prepares the run: buildGraph and the checkpoint are awaited. *)
PrepareRun(p) ==
  /\ "overlap" \in Faults \/ \A q \in Runners : thr[q] = thr[p] => run[q].st # "prepared"
  /\ run' = [run EXCEPT ![p] = [NoRun EXCEPT !.st = "prepared"]]

EnterRun(p) ==
  /\ run[p].st = "prepared"
  /\ run' = [run EXCEPT ![p].st = "live"]
  /\ Post(Event("invoke", p, "none"))
  /\ UNCHANGED <<stores, execs, waits, waited, cred, procs>>

\* where the starter of a run goes on when it resolves or rejects, if it awaits it
AfterRun(p, ok) ==
  IF p \in Workers THEN IF ok THEN "jobOk" ELSE "jobFail"
  ELSE IF arg[p].op = "trigger" THEN IF ok THEN "tEnsure" ELSE "tRestore"
  ELSE "done"

Settle(p, ok) ==
  /\ run' = [run EXCEPT ![p] = NoRun]
  /\ IF pc[p] \in {"tAwait", "hAwait"} THEN Goto(p, AfterRun(p, ok)) ELSE UNCHANGED pc
  /\ UNCHANGED <<stores, execs, waits, waited, cred, thr, snap, upd, ret, arg>>

\* a rejection before the run is entered; nobody but the log sees an async one
RunUnprepared(p) ==
  /\ "prepare" \in Faults /\ run[p].st = "prepared"
  /\ Settle(p, FALSE)
  /\ UNCHANGED chain

\* the finish or wait_for tool sets its state in toolsMetadata
AgentDecides(p) ==
  /\ run[p].st = "live" /\ run[p].res = "none"
  /\ \E d \in Outcomes :
       /\ d = "wait" => waited[thr[p]] < MaxWaits
       /\ run' = [run EXCEPT ![p].res = d]
       /\ waited' = [waited EXCEPT ![thr[p]] = IF d = "wait" THEN @ + 1 ELSE @]
  /\ UNCHANGED <<stores, execs, chain, waits, cred, procs>>

\* wasStopped is ignored once a tool decided
FinalStatus(r) ==
  CASE r.res = "wait" -> Waiting
    [] r.res = "more" -> NeedMoreInfo
    [] r.res = "none" /\ r.stopped -> Stopped
    [] OTHER -> Done

RunEnds(p) ==
  /\ run[p].st = "live"
  /\ Post(Event("run", p, FinalStatus(run[p])))
  /\ Settle(p, TRUE)

RunFails(p) ==
  /\ "error" \in Faults /\ run[p].st = "live"
  /\ Post(Event("run", p, Stopped))
  /\ Settle(p, FALSE)

\* mutant: the run event follows the stop event
RunExceedsAndEnds(p) ==
  /\ "cost" \in Faults /\ run[p].st = "live" /\ Triggered(p)
  /\ chain' = chain \o <<Event("stop", p, "cost"), Event("run", p, FinalStatus(run[p]))>>
  /\ Settle(p, TRUE)

\* a CostLimitExceededError: a stop event, and no run event after it
RunExceeds(p) ==
  /\ "cost" \in Faults /\ run[p].st = "live" /\ Triggered(p)
  /\ Post(Event("stop", p, "cost"))
  /\ Settle(p, TRUE)

\* SimpleAgent.stopThread: only the finish tool spares a run the stop event
StopRuns(t) ==
  /\ run' = [p \in Runners |-> IF p \in Active(t) THEN [run[p] EXCEPT !.stopped = TRUE] ELSE run[p]]
  /\ chain' = chain \o SetToSeq({Event("stop", p, "manual") :
                                 p \in {q \in Active(t) : run[q].res \notin {"done", "more"}}})

RunEnded(p) == RunEnds(p) \/ RunFails(p) \/ RunExceeds(p)
Agent(p)    == EnterRun(p) \/ RunUnprepared(p) \/ AgentDecides(p) \/ RunEnded(p)

---------------------------------------------------------------------------
\* mutant: the invoke only inserts, as the pre-set marked an existing row already
InvokedRowInsertOnly(r) == Insert(r, Running, "none")

\* upsertRunningThread: locked and atomic
InvokedRow(r) == IF r.status = Absent THEN NewRow(Running, "none") ELSE WriteStatus(r, r, Running)

(* GraphStateManager.handleAgentInvoke and AgentInvokeNotificationHandler:
   a thread that has a name already is sent its DTO, then the null markers
   if it had any. *)
HandleInvoke ==
  LET t   == CurrentThread
      old == row[t] IN
  /\ Idle("invoke")
  /\ execs' = execs \cup {Current.p}
  /\ Write(t, InvokedRow(old))
  /\ \/ \* no name yet: ThreadCreate writes nothing
        /\ Goto(handler, "landed")
        /\ UNCHANGED <<thr, upd, ret>>
     \/ /\ old.status # Absent
        /\ Emit(handler, t, RunningDto,
                IF old.cost \cap {"stopReason", "costLimitHit"} # {} THEN "invoked" ELSE "landed")
  /\ UNCHANGED <<job, run, chain, waits, waited, cred, snap, arg>>

\* mutant: the costLimitHit flag is forgotten
ClearCostStateButHit ==
  /\ At(handler, "invoked")
  /\ Emit(handler, CurrentThread, Dropping("keep", {"stopReason", "stopCostUsd"}), "landed")
  /\ UNCHANGED <<stores, agent, cred, snap, arg>>

ClearCostState ==
  /\ At(handler, "invoked")
  /\ Emit(handler, CurrentThread, Dropping("keep", CostMarkers), "landed")
  /\ UNCHANGED <<stores, agent, cred, snap, arg>>

HandleRun ==
  /\ Idle("run")
  /\ execs' = execs \ {Current.p}
  /\ Emit(handler, CurrentThread, Update(Current.out), "landed")
  /\ UNCHANGED <<stores, run, chain, waits, waited, cred, snap, arg>>

(* handleAgentStop: every thread with an execution is stopped, except that a
   stop whose configurable names a parent thread skips the other threads. *)
HandleStop ==
  /\ At(handler, "stopping") \/ Idle("stop")
  /\ LET active  == {thr[p] : p \in execs}
         targets == IF Triggered(Current.p) THEN active \cap {CurrentThread} ELSE active IN
     IF targets = {}
       THEN /\ execs' = {}
            /\ Goto(handler, "landed")
            /\ UNCHANGED <<thr, upd, ret>>
       ELSE \E t \in targets :
              /\ execs' = {p \in execs : thr[p] # t}
              /\ Emit(handler, t, IF Current.out = "cost" THEN CostStop ELSE ManualStop, "stopping")
  /\ UNCHANGED <<stores, run, chain, waits, waited, cred, snap, arg>>

\* the event is done with; a run that waits is announced to ThreadResumeService
Landed ==
  /\ At(handler, "landed")
  /\ chain' = Tail(chain)
  /\ waits' = IF Current.k = "run" /\ Current.out = Waiting THEN waits \cup {CurrentThread} ELSE waits
  /\ Goto(handler, "idle")
  /\ UNCHANGED <<stores, run, execs, waited, cred, thr, snap, upd, ret, arg>>

Handler == HandleInvoke \/ ClearCostState \/ HandleRun \/ HandleStop \/ Landed \/ UpdatesRow(handler)
===========================================================================
