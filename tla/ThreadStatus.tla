--------------------------- MODULE ThreadStatus ---------------------------
(***************************************************************************)
(* The thread row and the pure functions the services apply to it.         *)
(*                                                                         *)
(* A row keeps the columns whose relation matters to the running of a      *)
(* thread: its status, whether runningStartedAt is set, the wait its       *)
(* metadata describes (waitReason, scheduledResumeAt, waitNodeId and       *)
(* waitCheckPrompt are written and cleared together) and the cost-limit    *)
(* markers its metadata carries.                                           *)
(*                                                                         *)
(* Nothing locks a row outside the two transactions of upsertRunningThread *)
(* and executeTrigger: every other writer computes its update from the     *)
(* entity it loaded, its snapshot, and MikroORM's flush sends only the     *)
(* columns that differ from that snapshot. The metadata column is one      *)
(* value: a change to any key writes all of them.                          *)
(***************************************************************************)

Running      == "Running"
Done         == "Done"
NeedMoreInfo == "NeedMoreInfo"
Stopped      == "Stopped"
Waiting      == "Waiting"
Absent       == "Absent"       \* no such row

ThreadStatuses == {Running, Done, NeedMoreInfo, Stopped, Waiting}
Terminal       == {Done, NeedMoreInfo, Stopped}
WaitKinds      == {"none", "timer", "credential"}
CostMarkers    == {"stopReason", "stopCostUsd", "costLimitHit"}

Row   == [status : ThreadStatuses \cup {Absent}, started : BOOLEAN,
          wait : WaitKinds, cost : SUBSET CostMarkers]
NoRow == [status |-> Absent, started |-> FALSE, wait |-> "none", cost |-> {}]

\* insertIfNotExists, as upsertRunningThread, ensureThreadRow and pauseThread call it
NewRow(status, wait) ==
  [status |-> status, started |-> status = Running, wait |-> wait, cost |-> {}]
Insert(r, status, wait) == IF r.status = Absent THEN NewRow(status, wait) ELSE r

---------------------------------------------------------------------------
(* computeTransition: the running clock starts when a thread enters Running
   and stops when it leaves; otherwise the patch repeats the snapshot's. *)
Enters(snap, next) == next = Running /\ snap.status # Running
\* mutant: a thread that asks for more information is not seen to leave Running
LeavesUnlessMore(snap, next) == next \notin {Running, NeedMoreInfo} /\ snap.status = Running
Leaves(snap, next) == next # Running /\ snap.status = Running

WriteStatus(r, snap, next) ==
  [r EXCEPT !.status  = IF next # snap.status THEN next ELSE @,
            !.started = IF Enters(snap, next) THEN TRUE
                        ELSE IF Leaves(snap, next) /\ snap.started THEN FALSE
                        ELSE @]

\* updateById(id, { metadata }), the metadata rebuilt from the snapshot's
WriteMeta(r, snap, wait, cost) ==
  IF wait = snap.wait /\ cost = snap.cost THEN r
  ELSE [r EXCEPT !.wait = wait, !.cost = cost]

\* updateById(id, { ...patch, metadata }): one flush writes both
WriteBoth(r, snap, next, wait, cost) ==
  WriteMeta(WriteStatus(r, snap, next), snap, wait, cost)

---------------------------------------------------------------------------
(* A ThreadUpdate notification: `status` is the new status or "keep" when
   the event carries none, `drop` the cost markers it sets to null, and
   `hit` whether its stopReason is 'cost_limit', which sets them all. *)
Updates == [status : ThreadStatuses \cup {"keep"}, drop : SUBSET CostMarkers, hit : BOOLEAN]
Update(status)         == [status |-> status, drop |-> {}, hit |-> FALSE]
Dropping(status, keys) == [status |-> status, drop |-> keys, hit |-> FALSE]
CostStop               == [status |-> Stopped, drop |-> {}, hit |-> TRUE]
\* the stop event of a manual stop carries stopReason and stopCostUsd as null
ManualStop             == Dropping(Stopped, {"stopReason", "stopCostUsd"})
\* the stopReason of a running thread's DTO is null
RunningDto             == Dropping(Running, {"stopReason"})

\* ThreadUpdateNotificationHandler: the status write happens only on a change
ChangesStatus(snap, upd) == upd.status \notin {"keep", snap.status}

\* ... and the metadata write only when one of its blocks touched the object
ClearsWait(snap, upd)  == snap.status = Waiting /\ upd.status \notin {"keep", Waiting}
ChangesMeta(snap, upd) == ClearsWait(snap, upd) \/ upd.drop # {} \/ upd.hit

NextWait(snap, upd) == IF ClearsWait(snap, upd) THEN "none" ELSE snap.wait
NextCost(snap, upd) == IF upd.hit THEN CostMarkers ELSE snap.cost \ upd.drop

ApplyStatus(r, snap, upd) == WriteStatus(r, snap, upd.status)
ApplyMeta(r, snap, upd)   == WriteMeta(r, snap, NextWait(snap, upd), NextCost(snap, upd))

---------------------------------------------------------------------------
(* The guard of executeTrigger on a thread that a cost limit stopped. `limit`
   compares the limit in force now with the recorded stopCostUsd. *)
Limits == {"reached", "raised", "removed"}
CostStopped(r)   == r.status = Stopped /\ r.cost \cap {"stopReason", "costLimitHit"} # {}
MayStart(r, limit) ==
  CostStopped(r) => limit = "removed" \/ (limit = "raised" /\ "stopCostUsd" \in r.cost)

\* The "DB invariant" prepareThreadsResponse defends against at read time:
\* the clock of a thread runs exactly while the thread is Running.
ClockOK(r) == r.started <=> r.status = Running
===========================================================================
