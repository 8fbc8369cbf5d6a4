------------------------- MODULE ThreadRows_proofs ------------------------
(***************************************************************************)
(* Proofs about the rows of ThreadLifecycle. The first part proves that a  *)
(* row with the cost-limit marker keeps its amount, as long as no request  *)
(* stops a thread. The second part is about threads that nothing pauses or *)
(* stops: by the order of the events of their runs, every end of a run     *)
(* finds its thread Running, so that the running clock follows the status, *)
(* a live run shows, and the rows keep ThreadPromise. The third part lets  *)
(* requests stop threads, be refused by the pod and fail to prepare a run: *)
(* whatever is Running is owed its end by a request, a run or an event. The *)
(* fourth part proves the same with waits, pauses, resumes, cancellations  *)
(* and the queue, where the debt passes through the resume and the pause,  *)
(* but for runs that cannot be prepared, which do leave threads Running.   *)
(***************************************************************************)
EXTENDS ThreadLifecycle_proofs

\* no request stops a thread: a manual stop drops the amount and leaves the marker
Unstopped == "stop" \notin Requests

AmountKept(cost) == "costLimitHit" \in cost => "stopCostUsd" \in cost

\* every row, entity, kept row and update a metadata write is computed from has the amount
RowAmounts    == \A t \in Threads : AmountKept(row[t].cost)
EntityAmounts == \A p \in Procs : AmountKept(snap[p].cost)
SavedAmounts  == \A p \in Clients : AmountKept(arg[p].saved.cost)
WholeDrops    == \A p \in Procs : "stopCostUsd" \in upd[p].drop => "costLimitHit" \in upd[p].drop

\* no run is stopped by hand, and the handler only stops for a stop event
NoManualEvent == \A i \in DOMAIN chain : chain[i].out # "manual"
NobodyStops   == \A p \in Procs : pc[p] # "kAgent" /\ ret[p] # "kAgent"
StopsAtStop   ==
  /\ "stopping" \in {pc[handler], ret[handler]} => chain # <<>> /\ Current.k = "stop"
  /\ ret[handler] = "stopping" => pc[handler] \in UpdateLabels

AmountInv == /\ RowAmounts /\ EntityAmounts /\ SavedAmounts /\ WholeDrops
             /\ NoManualEvent /\ NobodyStops /\ StopsAtStop

\* What the writes of a row leave in its cost column.
LEMMA CostWrites ==
  ASSUME NEW r \in Row, NEW s \in Row, NEW status, NEW wait \in WaitKinds,
         NEW cost \in SUBSET CostMarkers
  PROVE  /\ NewRow(status, wait).cost = {}
         /\ Insert(r, status, wait).cost \in {r.cost, {}}
         /\ WriteStatus(r, s, status).cost = r.cost
         /\ WriteMeta(r, s, wait, cost).cost \in {r.cost, cost}
         /\ WriteBoth(r, s, status, wait, cost).cost \in {r.cost, cost}
         /\ InvokedRow(r).cost \in {r.cost, {}}
         /\ PreSet(r).cost \in {r.cost, {}}
<1>1. \A q \in Row : WriteMeta(q, s, wait, cost).cost \in {q.cost, cost}
  BY DEF WriteMeta, Row
<1>2. \A q, x : q \in Row => /\ WriteStatus(r, q, x).cost = r.cost
                             /\ DOMAIN WriteStatus(r, q, x) = DOMAIN r
  BY DEF WriteStatus, Row
<1>3. NewRow(status, wait).cost = {} /\ NewRow(Running, "none").cost = {}
  BY DEF NewRow
<1>4. WriteBoth(r, s, status, wait, cost).cost \in {r.cost, cost}
  <2> DEFINE w == WriteStatus(r, s, status)
  <2>1. WriteMeta(w, s, wait, cost).cost \in {w.cost, cost}
    BY DEF WriteMeta, WriteStatus, Row
  <2> QED
    BY <1>2, <2>1 DEF WriteBoth
<1>5. PreSet(r).cost \in {r.cost, {}}
  BY DEF PreSet, WriteStatus, Row
<1> QED
  BY <1>1, <1>2, <1>3, <1>4, <1>5 DEF Insert, InvokedRow

\* A write of a row whose amount is kept.
LEMMA RowAmount ==
  ASSUME TypeInv, RowAmounts, NEW t \in Threads, NEW r, AmountKept(r.cost), Write(t, r)
  PROVE  RowAmounts'
  BY DEF TypeInv, TypeOK, RowAmounts, Write

\* An entity is a row of the table, or none.
LEMMA LoadAmount ==
  ASSUME TypeInv, RowAmounts, EntityAmounts, NEW p \in Procs, NEW t \in Threads,
         Load(p, t) \/ Drop(p) \/ snap' = snap
  PROVE  EntityAmounts'
<1>1. AmountKept(NoRow.cost) /\ AmountKept(row[t].cost)
  BY DEF RowAmounts, NoRow, AmountKept
<1>2. PICK r \in {NoRow, row[t], snap[p]} : snap' = [snap EXCEPT ![p] = r]
  BY DEF TypeInv, TypeOK, Load, Drop
<1>3. AmountKept(r.cost)
  BY <1>1 DEF EntityAmounts
<1> QED
  BY <1>2, <1>3 DEF TypeInv, TypeOK, EntityAmounts

\* A step to a label outside stopThread.
LEMMA GotoAmount ==
  ASSUME TypeInv, NobodyStops, NEW p \in Procs, NEW l, l \notin {"kAgent", "stopping"}, Goto(p, l), ret' = ret,
         p = handler => (pc[p] \in UpdateLabels => l \in UpdateLabels)
  PROVE  NobodyStops' /\ (StopsAtStop /\ chain' = chain => StopsAtStop')
  BY DEF TypeInv, TypeOK, NobodyStops, StopsAtStop, Goto, Current, Procs

\* An emission that drops the amount only with the marker.
LEMMA EmitAmount ==
  ASSUME TypeInv, NobodyStops, WholeDrops, NEW p \in Procs, NEW t, NEW u,
         "stopCostUsd" \in u.drop => "costLimitHit" \in u.drop,
         NEW l, l \notin {"kAgent", "stopping"}, Emit(p, t, u, l)
  PROVE  NobodyStops' /\ WholeDrops' /\ (StopsAtStop /\ chain' = chain => StopsAtStop')
  BY DEF TypeInv, TypeOK, NobodyStops, WholeDrops, StopsAtStop, Emit, Goto, Current, Procs, UpdateLabels

\* The return from an emission.
LEMMA ReturnAmount ==
  ASSUME TypeInv, NobodyStops, WholeDrops, EntityAmounts, NEW p \in Procs, Return(p)
  PROVE  /\ NobodyStops' /\ WholeDrops' /\ EntityAmounts'
         /\ StopsAtStop /\ chain' = chain => StopsAtStop'
<1>1. NobodyStops' /\ WholeDrops' /\ EntityAmounts'
  BY DEF TypeInv, TypeOK, NobodyStops, WholeDrops, EntityAmounts, Return, Goto, Drop, Update,
         NoRow, AmountKept
<1>2. StopsAtStop /\ chain' = chain => StopsAtStop'
  BY DEF TypeInv, TypeOK, StopsAtStop, Return, Goto, Current, Procs
<1> QED
  BY <1>1, <1>2

\* The steps of the ThreadUpdate handler.
LEMMA UpdatesRowAmount ==
  ASSUME TypeInv, AmountInv, NEW p \in Procs, UpdatesRow(p)
  PROVE  AmountInv'
<1> USE DEF AmountInv
<1>1. /\ thr[p] \in Threads /\ row[thr[p]] \in Row /\ snap[p] \in Row /\ upd[p] \in Updates
      /\ AmountKept(row[thr[p]].cost)
  BY DEF TypeInv, TypeOK, RowAmounts
<1>2. UNCHANGED <<chain, arg>>
  BY DEF UpdatesRow, UpdateRead, UpdateStatus, UpdateMeta, agent
<1>3. SavedAmounts' /\ NoManualEvent'
  BY <1>2 DEF SavedAmounts, NoManualEvent
<1>4. CASE UpdateRead(p)
  <2>1. UNCHANGED row
    BY <1>4 DEF UpdateRead, stores
  <2>2. CASE Return(p)
    BY <1>2, <1>3, <2>1, <2>2, ReturnAmount DEF RowAmounts
  <2>3. CASE Load(p, thr[p]) /\ (Goto(p, "tuStatus") \/ Goto(p, "tuMeta")) /\ UNCHANGED <<upd, ret>>
    <3>1. EntityAmounts'
      BY <1>1, <2>3, LoadAmount
    <3> QED
      BY <1>2, <1>3, <2>1, <2>3, <3>1, GotoAmount DEF RowAmounts, WholeDrops, UpdateLabels
  <2> QED
    BY <1>4, <2>2, <2>3 DEF UpdateRead, Goto
<1>5. CASE UpdateStatus(p)
  <2>1. RowAmounts'
    <3>1. ApplyStatus(row[thr[p]], snap[p], upd[p]).cost = row[thr[p]].cost
      BY <1>1 DEF ApplyStatus, WriteStatus, Row
    <3> QED
      BY <1>1, <1>5, <3>1, RowAmount DEF UpdateStatus
  <2>2. CASE Return(p)
    BY <1>2, <1>3, <2>1, <2>2, ReturnAmount
  <2>3. CASE Goto(p, "tuMeta") /\ UNCHANGED <<snap, upd, ret>>
    BY <1>2, <1>3, <2>1, <2>3, GotoAmount DEF EntityAmounts, WholeDrops, UpdateLabels
  <2> QED
    BY <1>5, <2>2, <2>3 DEF UpdateStatus
<1>6. CASE UpdateMeta(p)
  <2>1. RowAmounts'
    <3>1. AmountKept(NextCost(snap[p], upd[p])) /\ NextCost(snap[p], upd[p]) \in SUBSET CostMarkers
      BY <1>1 DEF NextCost, EntityAmounts, WholeDrops, AmountKept, CostMarkers, Row
    <3>2. ApplyMeta(row[thr[p]], snap[p], upd[p]).cost \in {row[thr[p]].cost, NextCost(snap[p], upd[p])}
      BY <1>1 DEF ApplyMeta, WriteMeta, Row
    <3> QED
      BY <1>1, <1>6, <3>1, <3>2, RowAmount DEF UpdateMeta
  <2> QED
    BY <1>2, <1>3, <1>6, <2>1, ReturnAmount DEF UpdateMeta
<1> QED
  BY <1>4, <1>5, <1>6 DEF UpdatesRow

---------------------------------------------------------------------------
\* A step of a request or resume from label to label.
LEMMA StepAmount ==
  ASSUME TypeInv, AmountInv, NEW p \in Procs, NEW l, l \notin {"kAgent", "stopping"}, Goto(p, l),
         p = handler => pc[p] \notin UpdateLabels, RowAmounts', (\E t \in Threads : Load(p, t)) \/ Drop(p) \/ snap' = snap,
         UNCHANGED <<chain, upd, ret, arg>>
  PROVE  AmountInv'
<1>1. EntityAmounts'
  <2>1. PICK t \in Threads : Load(p, t) \/ Drop(p) \/ snap' = snap
    BY FiniteAssumption
  <2> QED
    BY <2>1, LoadAmount DEF AmountInv
<1> QED
  BY <1>1, GotoAmount DEF AmountInv, SavedAmounts, WholeDrops, NoManualEvent

\* A write of a row that is announced.
LEMMA AnnounceAmount ==
  ASSUME TypeInv, AmountInv, NEW p \in Procs, NEW t, NEW u,
         "stopCostUsd" \in u.drop => "costLimitHit" \in u.drop,
         NEW l, l \notin {"kAgent", "stopping"}, Emit(p, t, u, l), RowAmounts', UNCHANGED <<chain, snap, arg>>
  PROVE  AmountInv'
  BY EmitAmount DEF AmountInv, EntityAmounts, SavedAmounts, NoManualEvent

\* The updates the services announce drop no amount without its marker.
LEMMA Drops ==
  /\ \A s : Update(s).drop = {}
  /\ \A s : /\ "stopCostUsd" \in Dropping(s, CostMarkers).drop
            /\ "costLimitHit" \in Dropping(s, CostMarkers).drop
  /\ "stopCostUsd" \notin RunningDto.drop /\ CostStop.drop = {}
  BY DEF Update, Dropping, CostMarkers, RunningDto, CostStop

\* The steps of scheduleResume.
LEMMA SchedulesAmount ==
  ASSUME TypeInv, AmountInv, NEW p \in Procs \ {handler}, Schedules(p)
  PROVE  AmountInv'
<1>1. UNCHANGED <<row, chain, upd, ret, arg>> /\ (Drop(p) \/ snap' = snap)
  BY DEF Schedules, ScheduleRemove, ScheduleAdd, agent
<1>2. PICK l \in {"sAdd", "done", "idle"} : Goto(p, l)
  BY DEF Schedules, ScheduleRemove, ScheduleAdd, End
<1> QED
  BY <1>1, <1>2, StepAmount DEF AmountInv, RowAmounts

\* The steps of pauseThread.
LEMMA PausesAmount ==
  ASSUME TypeInv, AmountInv, NEW p \in Runners, Pauses(p)
  PROVE  AmountInv'
<1>1. /\ p \in Procs /\ thr[p] \in Threads /\ row[thr[p]] \in Row /\ snap[p] \in Row
      /\ AmountKept(row[thr[p]].cost) /\ AmountKept(snap[p].cost)
      /\ snap[p].cost \in SUBSET CostMarkers
      /\ p # handler
  BY RunnersAreProcs DEF TypeInv, TypeOK, AmountInv, RowAmounts, EntityAmounts, Row
<1>2. CASE PauseRead(p)
  <2>1. UNCHANGED <<row, chain, upd, ret, arg>> /\ Load(p, thr[p]) /\ Goto(p, "pWrite")
    BY <1>2 DEF PauseRead, stores, agent
  <2> QED
    BY <1>1, <2>1, StepAmount DEF AmountInv, RowAmounts
<1>3. CASE PauseWrite(p)
  <2>1. UNCHANGED <<chain, snap, arg>>
    BY <1>3 DEF PauseWrite, agent
  <2>2. CASE Goto(p, "pRead") /\ UNCHANGED <<row, thr, upd, ret>>
    BY <1>1, <2>1, <2>2, StepAmount DEF AmountInv, RowAmounts
  <2>3. CASE /\ Write(thr[p], IF snap[p].status = Absent THEN NewRow(Waiting, "credential")
                              ELSE WriteBoth(row[thr[p]], snap[p], Waiting, "credential", snap[p].cost))
             /\ Emit(p, thr[p], Update(Waiting), AfterPause(p))
    <3>1. AmountKept({}) /\ AfterPause(p) \notin {"kAgent", "stopping"}
      BY DEF AmountKept, AfterPause, End
    <3>2. /\ NewRow(Waiting, "credential").cost = {}
          /\ WriteBoth(row[thr[p]], snap[p], Waiting, "credential", snap[p].cost).cost
               \in {row[thr[p]].cost, snap[p].cost}
      <4>1. "credential" \in WaitKinds
        BY DEF WaitKinds
      <4> QED
        BY <1>1, <4>1, CostWrites
    <3>3. RowAmounts'
      <4>1. PICK r : Write(thr[p], r) /\ AmountKept(r.cost)
        BY <1>1, <2>3, <3>1, <3>2
      <4> QED
        BY <1>1, <4>1, RowAmount DEF AmountInv
    <3> QED
      BY <1>1, <2>1, <2>3, <3>1, <3>3, Drops, AnnounceAmount
  <2> QED
    BY <1>3, <2>2, <2>3 DEF PauseWrite
<1> QED
  BY <1>2, <1>3 DEF Pauses

\* An event that is not a manual stop.
LEMMA PostAmount ==
  ASSUME TypeInv, NoManualEvent, NEW e \in Events, e.out # "manual", Post(e)
  PROVE  NoManualEvent'
<1>1. chain \in Seq(Events) /\ chain' = Append(chain, e)
  BY DEF TypeInv, TypeOK, Post
<1> QED
  BY <1>1 DEF NoManualEvent

\* Appending leaves the head of a sequence.
LEMMA AppendHead ==
  ASSUME NEW S, NEW s \in Seq(S), s # <<>>, NEW e
  PROVE  Append(s, e) # <<>> /\ Head(Append(s, e)) = Head(s)
<1>1. Len(s) \in Nat \ {0} /\ s \in Seq(S \cup {e})
  OBVIOUS
<1>2. Len(Append(s, e)) = Len(s) + 1 /\ Append(s, e)[1] = s[1] /\ Append(s, e) \in Seq(S \cup {e})
  BY <1>1
<1> QED
  BY <1>1, <1>2

\* The steps of a run.
LEMMA AgentAmount ==
  ASSUME TypeInv, AmountInv, NEW p \in Runners, Agent(p)
  PROVE  AmountInv'
<1>1. UNCHANGED <<row, snap, upd, ret, arg>>
  BY DEF Agent, EnterRun, RunUnprepared, AgentDecides, RunEnded, RunEnds, RunFails, RunExceeds,
         Settle, procs, stores
<1>2. NobodyStops'
  <2>1. CASE UNCHANGED pc
    BY <1>1, <2>1 DEF AmountInv, NobodyStops
  <2>2. ASSUME NEW ok \in BOOLEAN, Goto(p, AfterRun(p, ok)) PROVE NobodyStops'
    <3>1. AfterRun(p, ok) \notin {"kAgent", "stopping"}
      BY DEF AfterRun
    <3> QED
      BY <1>1, <2>2, <3>1, GotoAmount, RunnersAreProcs DEF AmountInv
  <2> QED
    BY <2>1, <2>2 DEF Agent, EnterRun, RunUnprepared, AgentDecides, RunEnded, RunEnds, RunFails,
                      RunExceeds, Settle, procs
<1>3. NoManualEvent'
  <2>1. \A out \in ThreadStatuses : /\ Event("run", p, out) \in Events
                                    /\ Event("run", p, out).out # "manual"
    BY DEF Event, Events, ThreadStatuses, Running, Done, NeedMoreInfo, Stopped, Waiting
  <2>2. /\ Event("invoke", p, "none") \in Events /\ Event("invoke", p, "none").out # "manual"
        /\ Event("stop", p, "cost") \in Events /\ Event("stop", p, "cost").out # "manual"
    BY DEF Event, Events
  <2>3. FinalStatus(run[p]) \in ThreadStatuses /\ Stopped \in ThreadStatuses
    BY DEF FinalStatus, ThreadStatuses
  <2>4. (UNCHANGED chain) \/ \E e \in Events : Post(e) /\ e.out # "manual"
    BY <2>1, <2>2, <2>3 DEF Agent, EnterRun, RunUnprepared, AgentDecides, RunEnded, RunEnds,
       RunFails, RunExceeds
  <2> QED
    BY <2>4, PostAmount DEF AmountInv, NoManualEvent
<1>4. StopsAtStop'
  <2>1. p # handler /\ handler \in Procs
    BY RunnersAreProcs DEF Procs
  <2>2. pc'[handler] = pc[handler] /\ ret'[handler] = ret[handler]
    BY <1>1, <2>1 DEF Agent, EnterRun, RunUnprepared, AgentDecides, RunEnded, RunEnds, RunFails,
                      RunExceeds, Settle, Goto, procs, TypeInv, TypeOK
  <2>3. chain # <<>> => chain' # <<>> /\ Current' = Current
    <3>1. chain \in Seq(Events) /\ ((UNCHANGED chain) \/ \E e : chain' = Append(chain, e))
      BY DEF TypeInv, TypeOK, Agent, EnterRun, RunUnprepared, AgentDecides, RunEnded, RunEnds,
             RunFails, RunExceeds, Post
    <3> QED
      BY <3>1, AppendHead DEF Current
  <2> QED
    BY <2>2, <2>3 DEF AmountInv, StopsAtStop
<1> QED
  BY <1>1, <1>2, <1>3, <1>4 DEF AmountInv, RowAmounts, EntityAmounts, SavedAmounts, WholeDrops

\* A write of the cost column that keeps what the row or the entity had, or empties it.
LEMMA ColumnAmount ==
  ASSUME TypeInv, AmountInv, NEW p \in Procs, NEW t \in Threads, NEW r, Write(t, r),
         r.cost \in {row[t].cost, snap[p].cost, {}}
  PROVE  RowAmounts'
<1>1. AmountKept(r.cost)
  BY DEF AmountInv, RowAmounts, EntityAmounts, AmountKept
<1> QED
  BY <1>1, RowAmount DEF AmountInv

\* The steps of the event handler.
LEMMA HandlerAmount ==
  ASSUME TypeInv, AmountInv, Handler
  PROVE  AmountInv'
<1>1. handler \in Procs
  BY DEF Procs
<1>2. chain # <<>> => Current \in Events /\ CurrentThread \in Threads /\ chain \in Seq(Events)
                      /\ Len(chain) >= 1 /\ Current = chain[1]
  BY RunnersAreProcs DEF TypeInv, TypeOK, Current, CurrentThread, Events
<1>3. CASE HandleInvoke
  <2>1. UNCHANGED <<chain, snap, arg>> /\ chain # <<>>
    BY <1>3 DEF HandleInvoke, Idle
  <2>2. RowAmounts'
    <3>1. row[CurrentThread] \in Row /\ "none" \in WaitKinds /\ {} \in SUBSET CostMarkers
      BY <1>2, <2>1 DEF TypeInv, TypeOK, WaitKinds
    <3>2. InvokedRow(row[CurrentThread]).cost \in {row[CurrentThread].cost, {}}
      BY <3>1, CostWrites
    <3> QED
      BY <1>1, <1>2, <1>3, <2>1, <3>2, ColumnAmount DEF HandleInvoke
  <2>3. CASE Goto(handler, "landed") /\ UNCHANGED <<thr, upd, ret>>
    <3>1. pc[handler] = "idle"
      BY <1>3 DEF HandleInvoke, Idle, At
    <3> QED
      BY <1>1, <2>1, <2>2, <2>3, <3>1, StepAmount DEF UpdateLabels
  <2>4. ASSUME NEW l \in {"invoked", "landed"}, Emit(handler, CurrentThread, RunningDto, l)
        PROVE  AmountInv'
    BY <1>1, <2>1, <2>2, <2>4, Drops, AnnounceAmount
  <2> QED
    BY <1>3, <2>3, <2>4 DEF HandleInvoke
<1>4. CASE ClearCostState
  <2>1. UNCHANGED <<row, chain, snap, arg>> /\ Emit(handler, CurrentThread, Dropping("keep", CostMarkers), "landed")
    BY <1>4 DEF ClearCostState, stores, agent
  <2> QED
    BY <1>1, <2>1, Drops, AnnounceAmount DEF AmountInv, RowAmounts
<1>5. CASE HandleRun
  <2>1. UNCHANGED <<row, chain, snap, arg>> /\ Emit(handler, CurrentThread, Update(Current.out), "landed")
    BY <1>5 DEF HandleRun, stores
  <2> QED
    BY <1>1, <2>1, Drops, AnnounceAmount DEF AmountInv, RowAmounts
<1>6. CASE HandleStop
  <2>1. UNCHANGED <<row, chain, snap, arg>> /\ chain # <<>> /\ Current.k = "stop"
    <3>1. At(handler, "stopping") \/ Idle("stop")
      BY <1>6 DEF HandleStop
    <3> QED
      BY <1>6, <3>1 DEF HandleStop, stores, Idle, AmountInv, StopsAtStop, At
  <2>2. CASE Goto(handler, "landed") /\ UNCHANGED <<thr, upd, ret>>
    <3>1. pc[handler] \in {"idle", "stopping"}
      BY <1>6 DEF HandleStop, Idle, At
    <3> QED
      BY <1>1, <2>1, <2>2, <3>1, StepAmount DEF AmountInv, RowAmounts, UpdateLabels
  <2>3. ASSUME NEW t, Emit(handler, t, IF Current.out = "cost" THEN CostStop ELSE ManualStop, "stopping")
        PROVE  AmountInv'
    <3>1. Current.out = "cost"
      <4>1. Current.out # "manual" /\ Current \in Events
        BY <1>2, <2>1 DEF AmountInv, NoManualEvent
      <4> QED
        BY <2>1, <4>1 DEF Events
    <3>2. pc' = [pc EXCEPT ![handler] = "tuRead"] /\ ret' = [ret EXCEPT ![handler] = "stopping"]
          /\ upd' = [upd EXCEPT ![handler] = CostStop]
      BY <2>3, <3>1 DEF Emit, Goto
    <3>3. NobodyStops' /\ WholeDrops' /\ StopsAtStop'
      BY <1>1, <2>1, <3>2, Drops
      DEF TypeInv, TypeOK, AmountInv, NobodyStops, WholeDrops, StopsAtStop, Current, UpdateLabels
    <3> QED
      BY <2>1, <3>3 DEF AmountInv, RowAmounts, EntityAmounts, SavedAmounts, NoManualEvent
  <2> QED
    BY <1>6, <2>2, <2>3 DEF HandleStop
<1>7. CASE Landed
  <2>1. UNCHANGED <<row, snap, upd, ret, arg>> /\ chain' = Tail(chain) /\ chain # <<>> /\ Goto(handler, "idle")
    BY <1>1, <1>7 DEF Landed, stores, TypeInv, EventInHand, At
  <2>2. NoManualEvent'
    <3>1. \A i \in DOMAIN Tail(chain) : i + 1 \in DOMAIN chain /\ Tail(chain)[i] = chain[i + 1]
      BY <1>2, <2>1
    <3> QED
      BY <2>1, <3>1 DEF AmountInv, NoManualEvent
  <2>3. StopsAtStop'
    <3>1. At(handler, "landed") /\ ret[handler] # "stopping"
      BY <1>7 DEF Landed, AmountInv, StopsAtStop, At, UpdateLabels
    <3> QED
      BY <1>1, <2>1, <3>1 DEF StopsAtStop, Goto, TypeInv, TypeOK
  <2>4. NobodyStops'
    <3>1. At(handler, "landed")
      BY <1>7 DEF Landed
    <3> QED
      BY <1>1, <2>1, <3>1, GotoAmount DEF AmountInv, At, UpdateLabels
  <2> QED
    BY <2>1, <2>2, <2>3, <2>4
    DEF AmountInv, RowAmounts, EntityAmounts, SavedAmounts, WholeDrops
<1>8. CASE UpdatesRow(handler)
  BY <1>1, <1>8, UpdatesRowAmount
<1> QED
  BY <1>3, <1>4, <1>5, <1>6, <1>7, <1>8 DEF Handler

\* A request is taken.
LEMMA TakeAmount ==
  ASSUME TypeInv, AmountInv, NEW p \in Clients, NEW t \in Threads, NEW op, NEW saved,
         AmountKept(saved.cost), Take(p, t, op, saved), NEW l, l \notin {"kAgent", "stopping"}, Goto(p, l),
         Load(p, t) \/ snap' = snap, RowAmounts', UNCHANGED <<chain, upd, ret>>
  PROVE  AmountInv'
<1>1. p \in Procs \ {handler}
  BY ClientsRun
<1>2. SavedAmounts'
  BY DEF AmountInv, SavedAmounts, Take, TypeInv, TypeOK
<1>3. EntityAmounts'
  BY <1>1, LoadAmount DEF AmountInv
<1> QED
  BY <1>1, <1>2, <1>3, GotoAmount DEF AmountInv, WholeDrops, NoManualEvent

\* The steps of executeTrigger.
LEMMA TriggerRequestAmount ==
  ASSUME TypeInv, AmountInv, NEW p \in Clients, TriggerRequest(p)
  PROVE  AmountInv'
<1>1. /\ p \in Procs \ {handler} /\ thr[p] \in Threads /\ row[thr[p]] \in Row
      /\ AmountKept(NoRow.cost) /\ AmountKept(arg[p].saved.cost)
  BY ClientsRun DEF TypeInv, TypeOK, AmountInv, SavedAmounts, NoRow, AmountKept
<1>2. /\ "none" \in WaitKinds /\ {} \in SUBSET CostMarkers
      /\ \A t \in Threads : row[t] \in Row /\ AmountKept(row[t].cost)
  BY DEF WaitKinds, TypeInv, TypeOK, AmountInv, RowAmounts
<1>3. CASE Trigger(p)
  <2>1. PICK t \in Threads, op \in {"trigger", "async"} :
          /\ Take(p, t, op, IF row[t].status \in Terminal THEN row[t] ELSE NoRow)
          /\ IF row[t].status = Absent THEN UNCHANGED row ELSE Write(t, PreSet(row[t]))
          /\ Goto(p, "tPre")
          /\ UNCHANGED <<chain, snap, upd, ret>>
    BY <1>3 DEF Trigger, agent
  <2>2. RowAmounts'
    <3>1. PreSet(row[t]).cost \in {row[t].cost, {}}
      BY <1>2, CostWrites
    <3> QED
      BY <1>1, <2>1, <3>1, ColumnAmount DEF AmountInv, RowAmounts
  <2>3. PICK saved \in {row[t], NoRow} : Take(p, t, op, saved)
    BY <2>1
  <2> QED
    BY <1>1, <1>2, <2>1, <2>2, <2>3, TakeAmount
<1>4. CASE TriggerRejected(p)
  <2>1. PICK t, op : t \in Threads /\ Take(p, t, op, NoRow) /\ Goto(p, "done")
                                 /\ UNCHANGED <<row, chain, snap, upd, ret>>
    BY <1>4 DEF TriggerRejected, stores, agent
  <2> QED
    BY <1>1, <2>1, TakeAmount DEF AmountInv, RowAmounts
<1>5. CASE TriggerPreflight(p) \/ TriggerAppends(p) \/ TriggerStarts(p)
  <2>1. UNCHANGED <<row, chain, snap, upd, ret, arg>>
    BY <1>5 DEF TriggerPreflight, TriggerAppends, TriggerStarts, stores, agent
  <2>2. PICK l \in {"tRun", "pRead", "tEnsure", "tAwait"} : Goto(p, l)
    BY <1>5 DEF TriggerPreflight, TriggerAppends, TriggerStarts
  <2> QED
    BY <1>1, <2>1, <2>2, StepAmount DEF AmountInv, RowAmounts
<1>6. CASE TriggerRestores(p)
  <2>1. UNCHANGED <<chain, snap, upd, ret, arg>> /\ Goto(p, "done")
    BY <1>6 DEF TriggerRestores, agent
  <2>2. RowAmounts'
    BY <1>1, <1>6, RowAmount DEF TriggerRestores, AmountInv, RowAmounts
  <2> QED
    BY <1>1, <2>1, <2>2, StepAmount
<1>7. CASE TriggerEnsures(p)
  <2>1. UNCHANGED <<chain, snap, upd, ret, arg>> /\ Goto(p, "done")
    BY <1>7 DEF TriggerEnsures, agent
  <2>2. RowAmounts'
    <3>1. Insert(row[thr[p]], Running, "none").cost \in {row[thr[p]].cost, {}}
      BY <1>1, <1>2, CostWrites
    <3> QED
      BY <1>1, <1>7, <3>1, ColumnAmount DEF TriggerEnsures
  <2> QED
    BY <1>1, <2>1, <2>2, StepAmount
<1> QED
  BY <1>3, <1>4, <1>5, <1>6, <1>7 DEF TriggerRequest

\* No request stops a run; one that only marks the row empties its cost column.
LEMMA StopRequestAmount ==
  ASSUME Unstopped, TypeInv, AmountInv, NEW p \in Clients, StopRequest(p)
  PROVE  AmountInv'
<1>1. /\ p \in Procs \ {handler} /\ thr[p] \in Threads /\ row[thr[p]] \in Row
      /\ snap[p] \in Row /\ snap[p].wait \in WaitKinds
  BY ClientsRun DEF TypeInv, TypeOK, Row
<1>2. ~Stop(p) /\ ~StopsRun(p) /\ ~StopsNothing(p)
  BY <1>1 DEF Stop, Asks, Unstopped, StopsRun, StopsNothing, At, AmountInv, NobodyStops
<1>3. StopWrites(p)
  BY <1>2 DEF StopRequest
<1>4. UNCHANGED <<chain, snap, arg>> /\ Emit(p, thr[p], Dropping(Stopped, CostMarkers), "done")
  BY <1>3 DEF StopWrites, agent
<1>5. RowAmounts'
  <2>1. WriteBoth(row[thr[p]], snap[p], Stopped, snap[p].wait, {}).cost \in {row[thr[p]].cost, {}}
    BY <1>1, CostWrites
  <2> QED
    BY <1>1, <1>3, <2>1, ColumnAmount DEF StopWrites
<1> QED
  BY <1>1, <1>4, <1>5, Drops, AnnounceAmount

\* The steps of handleResume.
LEMMA HandleResumeAmount ==
  ASSUME TypeInv, AmountInv, NEW p \in Runners, HandleResume(p)
  PROVE  AmountInv'
<1>1. /\ p \in Procs \ {handler} /\ thr[p] \in Threads /\ row[thr[p]] \in Row
      /\ snap[p] \in Row /\ snap[p].cost \in SUBSET CostMarkers /\ "none" \in WaitKinds
      /\ AfterRun(p, FALSE) \notin {"kAgent", "stopping"}
  BY RunnersAreProcs DEF TypeInv, TypeOK, Row, WaitKinds, AfterRun
<1>2. CASE ResumeWrite(p)
  <2>1. UNCHANGED <<chain, snap, arg>> /\ Emit(p, thr[p], Update(Running), "hRun")
    BY <1>2 DEF ResumeWrite, agent
  <2>2. WriteBoth(row[thr[p]], snap[p], Running, "none", snap[p].cost).cost
          \in {row[thr[p]].cost, snap[p].cost}
    BY <1>1, CostWrites
  <2>3. RowAmounts'
    BY <1>1, <1>2, <2>2, ColumnAmount DEF ResumeWrite
  <2> QED
    BY <1>1, <2>1, <2>3, Drops, AnnounceAmount
<1>3. CASE ResumePreflight(p) \/ ResumeUnroutable(p) \/ ResumeRuns(p) \/ ResumeRejected(p)
  <2>1. UNCHANGED <<row, chain, upd, ret, arg>> /\ (Drop(p) \/ snap' = snap)
    BY <1>3 DEF ResumePreflight, ResumeUnroutable, ResumeRuns, ResumeRejected, stores, agent
  <2>2. PICK l \in {"hWrite", "pRead", "hAwait", AfterRun(p, FALSE)} : Goto(p, l)
    BY <1>3 DEF ResumePreflight, ResumeUnroutable, ResumeRuns, ResumeRejected
  <2> QED
    BY <1>1, <2>1, <2>2, StepAmount DEF AmountInv, RowAmounts
<1> QED
  BY <1>2, <1>3 DEF HandleResume

\* The steps of resumeThread, cancelWait and an acquired credential.
LEMMA ResumeRequestAmount ==
  ASSUME TypeInv, AmountInv, NEW p \in Clients, ResumeRequest(p)
  PROVE  AmountInv'
<1>1. /\ p \in Procs \ {handler} /\ p \in Runners /\ thr[p] \in Threads /\ row[thr[p]] \in Row
      /\ snap[p] \in Row /\ snap[p].cost \in SUBSET CostMarkers /\ "none" \in WaitKinds
      /\ AmountKept(NoRow.cost)
  BY ClientsRun DEF TypeInv, TypeOK, Row, WaitKinds, NoRow, AmountKept
<1>2. CASE ResumeOrCancel(p, "resume") \/ ResumeOrCancel(p, "cancel") \/ Acquired(p)
  <2>1. PICK t \in Threads, op \in {"resume", "cancel", "acquired"},
             l \in {"rCancel", "cCancel", "sRemove", "done"} :
          /\ Take(p, t, op, NoRow) /\ Goto(p, l) /\ (Load(p, t) \/ snap' = snap)
          /\ UNCHANGED <<row, chain, upd, ret>>
    BY <1>2 DEF ResumeOrCancel, Acquired, stores, agent
  <2> QED
    BY <1>1, <2>1, TakeAmount DEF AmountInv, RowAmounts
<1>3. CASE CancelJob(p)
  <2>1. UNCHANGED <<row, chain, snap, upd, ret, arg>>
    BY <1>3 DEF CancelJob, agent
  <2>2. PICK l \in {"hPre", "cWrite"} : Goto(p, l)
    BY <1>3 DEF CancelJob
  <2> QED
    BY <1>1, <2>1, <2>2, StepAmount DEF AmountInv, RowAmounts
<1>4. CASE CancelWrite(p)
  <2>1. UNCHANGED <<chain, snap, arg>> /\ Emit(p, thr[p], Update(Stopped), "done")
    BY <1>4 DEF CancelWrite, agent
  <2>2. WriteBoth(row[thr[p]], snap[p], Stopped, "none", snap[p].cost).cost
          \in {row[thr[p]].cost, snap[p].cost}
    BY <1>1, CostWrites
  <2>3. RowAmounts'
    BY <1>1, <1>4, <2>2, ColumnAmount DEF CancelWrite
  <2> QED
    BY <1>1, <2>1, <2>3, Drops, AnnounceAmount
<1> QED
  BY <1>1, <1>2, <1>3, <1>4, HandleResumeAmount DEF ResumeRequest

\* The steps of onThreadWaiting and of handleResumeFailed, and the watchdog's.
LEMMA WaitsAmount ==
  ASSUME TypeInv, AmountInv, NEW t \in Threads, Waiter(t) \/ Failed(t) \/ Watchdog
  PROVE  AmountInv'
<1>1. /\ waiter(t) \in Procs \ {handler} /\ failed(t) \in Procs \ {handler}
      /\ watchdog \in Procs \ {handler} /\ row[t] \in Row
      /\ snap[failed(t)] \in Row /\ snap[waiter(t)] \in Row
  BY DEF Procs, Waiters, waiter, failed, watchdog, handler, TypeInv, TypeOK
<1>2. ASSUME NEW p \in Procs \ {handler}, NEW l \in {"idle", "wWrite", "fWrite", "vJob", "vCred", "sRemove"},
             Goto(p, l), (\E u \in Threads : Load(p, u)) \/ Drop(p) \/ snap' = snap,
             UNCHANGED <<row, chain, upd, ret, arg>>
      PROVE  AmountInv'
  BY <1>2, StepAmount DEF AmountInv, RowAmounts
<1>3. CASE WaitRead(t)
  <2>1. UNCHANGED <<row, chain, upd, ret, arg>> /\ Load(waiter(t), t)
        /\ (Goto(waiter(t), "idle") \/ Goto(waiter(t), "wWrite"))
    BY <1>3 DEF WaitRead, stores
  <2> QED
    BY <1>1, <1>2, <2>1
<1>4. CASE WaitWrite(t)
  <2>1. UNCHANGED <<chain, snap, arg>> /\ Emit(waiter(t), t, Update(Waiting), "sRemove")
    BY <1>4 DEF WaitWrite, agent
  <2>2. [row[t] EXCEPT !.wait = "timer", !.cost = snap[waiter(t)].cost].cost = snap[waiter(t)].cost
    BY <1>1 DEF Row
  <2>3. RowAmounts'
    BY <1>1, <1>4, <2>2, ColumnAmount DEF WaitWrite
  <2> QED
    BY <1>1, <2>1, <2>3, Drops, AnnounceAmount
<1>5. CASE FailedRead(t)
  <2>1. UNCHANGED <<row, chain, upd, ret, arg>> /\ Load(failed(t), t) /\ Goto(failed(t), "fWrite")
    BY <1>5 DEF FailedRead, stores, agent
  <2> QED
    BY <1>1, <1>2, <2>1
<1>6. CASE FailedWrite(t)
  <2>1. UNCHANGED <<chain, snap, arg>> /\ Emit(failed(t), t, Update(Stopped), "idle")
    BY <1>6 DEF FailedWrite, agent
  <2>2. [WriteStatus(row[t], snap[failed(t)], Stopped)
           EXCEPT !.wait = "none", !.cost = snap[failed(t)].cost].cost = snap[failed(t)].cost
    BY <1>1 DEF WriteStatus, Row
  <2>3. RowAmounts'
    BY <1>1, <1>6, <2>2, ColumnAmount DEF FailedWrite
  <2> QED
    BY <1>1, <2>1, <2>3, Drops, AnnounceAmount
<1>7. CASE Sweep \/ SweepJob \/ SweepCredential
  <2>1. UNCHANGED <<row, chain, upd, ret, arg>>
    BY <1>7 DEF Sweep, SweepJob, SweepCredential, stores, agent
  <2>2. (\E u \in Threads : Load(watchdog, u)) \/ Drop(watchdog) \/ snap' = snap
    BY <1>7 DEF Sweep, SweepJob, SweepCredential
  <2>3. PICK l \in {"idle", "vJob", "vCred", "sRemove"} : Goto(watchdog, l)
    BY <1>7 DEF Sweep, SweepJob, SweepCredential
  <2> QED
    BY <1>1, <1>2, <2>1, <2>2, <2>3
<1>8. ASSUME NEW p \in {waiter(t), failed(t), watchdog}, UpdatesRow(p) \/ Schedules(p)
      PROVE  AmountInv'
  BY <1>1, <1>8, UpdatesRowAmount, SchedulesAmount
<1> QED
  BY <1>3, <1>4, <1>5, <1>6, <1>7, <1>8 DEF Waiter, Failed, Watchdog

\* The steps of the resume queue and of its worker.
LEMMA JobsAmount ==
  ASSUME TypeInv, AmountInv, NEW t \in Threads, Worker(t) \/ Queue(t)
  PROVE  AmountInv'
<1>1. /\ worker(t) \in Runners /\ worker(t) \in Procs \ {handler} /\ failed(t) \in Procs \ {handler}
  BY RunnersAreProcs DEF Runners, Workers, Procs, failed, handler
<1>2. CASE JobTaken(t) \/ JobCompleted(t) \/ ResumeRead(t)
  <2>1. UNCHANGED <<row, chain, upd, ret, arg>> /\ (Load(worker(t), t) \/ snap' = snap)
    BY <1>2 DEF JobTaken, JobCompleted, ResumeRead, stores, agent
  <2>2. PICK l \in {"hRead", "idle", "hPre", "jobOk"} : Goto(worker(t), l)
    BY <1>2 DEF JobTaken, JobCompleted, ResumeRead
  <2> QED
    BY <1>1, <2>1, <2>2, StepAmount DEF AmountInv, RowAmounts
<1>3. CASE JobFails(t)
  <2>1. UNCHANGED <<row, chain, snap, upd, ret, arg>>
    BY <1>3 DEF JobFails, agent
  <2>2. pc'[handler] = pc[handler] /\ \A q \in Procs : pc'[q] \in {pc[q], "idle", "fRead"}
    BY <1>1, <1>3 DEF JobFails, TypeInv, TypeOK, Procs
  <2> QED
    BY <2>1, <2>2 DEF AmountInv, RowAmounts, EntityAmounts, SavedAmounts, WholeDrops,
                      NoManualEvent, NobodyStops, StopsAtStop, Current
<1>4. CASE Queue(t)
  <2>1. UNCHANGED <<row, chain, snap, upd, ret, arg, pc>>
    BY <1>4 DEF Queue, JobDue, JobEvicted, JobLost, agent, procs
  <2> QED
    BY <2>1 DEF AmountInv, RowAmounts, EntityAmounts, SavedAmounts, WholeDrops,
                NoManualEvent, NobodyStops, StopsAtStop, Current
<1> QED
  BY <1>1, <1>2, <1>3, <1>4, HandleResumeAmount, PausesAmount, UpdatesRowAmount DEF Worker

\* Every step keeps the amounts.
LEMMA AmountStep ==
  ASSUME Unstopped, TypeInv, AmountInv, [Next]_vars
  PROVE  AmountInv'
<1>1. ASSUME NEW p \in Clients, Caller(p)
      PROVE  AmountInv'
  <2>1. p \in Runners /\ p \in Procs \ {handler}
    BY ClientsRun
  <2> QED
    BY <1>1, <2>1, TriggerRequestAmount, StopRequestAmount, ResumeRequestAmount,
       UpdatesRowAmount, SchedulesAmount, PausesAmount DEF Caller
<1>2. ASSUME NEW t \in Threads, Waiter(t) \/ Worker(t) \/ Failed(t) \/ Queue(t) \/ Watchdog
      PROVE  AmountInv'
  BY <1>2, WaitsAmount, JobsAmount
<1>3. CASE CredentialChanges \/ UNCHANGED vars
  <2>1. UNCHANGED <<row, chain, snap, upd, ret, arg, pc>>
    BY <1>3 DEF CredentialChanges, vars, stores, agent, procs
  <2> QED
    BY <2>1 DEF AmountInv, RowAmounts, EntityAmounts, SavedAmounts, WholeDrops,
                NoManualEvent, NobodyStops, StopsAtStop, Current
<1> QED
  BY <1>1, <1>2, <1>3, AgentAmount, HandlerAmount, FiniteAssumption DEF Next

\* No row has a marker in a server that just started.
LEMMA AmountInit ==
  ASSUME Init
  PROVE  AmountInv
<1>1. AmountKept(NoRow.cost) /\ "stopCostUsd" \notin Update("keep").drop /\ handler \in Procs
  BY DEF NoRow, AmountKept, Update, Procs
<1>2. RowAmounts /\ EntityAmounts /\ SavedAmounts /\ WholeDrops
  BY <1>1 DEF Init, RowAmounts, EntityAmounts, SavedAmounts, WholeDrops, NoArg
<1>3. NoManualEvent /\ NobodyStops /\ StopsAtStop
  BY <1>1 DEF Init, NoManualEvent, NobodyStops, StopsAtStop
<1> QED
  BY <1>2, <1>3 DEF AmountInv

(* As long as no request stops a thread, a row with the cost-limit marker keeps the
   amount it was hit at, whatever runs, waits, resumes, pauses and fails meanwhile,
   though the metadata is written as a whole from entities read earlier. *)
THEOREM HitsKeepAmounts ==
  ASSUME Unstopped
  PROVE  Spec => []HitKeepsAmount
<1>1. AmountInv => HitKeepsAmount
  BY DEF AmountInv, RowAmounts, AmountKept, HitKeepsAmount
<1>2. IInv => TypeInv
  BY DEF IInv
<1>3. IInv /\ AmountInv /\ [Next]_vars => AmountInv'
  BY <1>2, AmountStep
<1> QED
  BY <1>1, <1>3, AmountInit, Inductive, PTL DEF Spec

---------------------------------------------------------------------------
(* The rows of threads that nothing pauses or stops: no request stops a thread,
   the agent does not wait, the credential is there, and a request that restores
   the row of a thread has no reason to. *)
Calm ==
  /\ "stop" \notin Requests /\ "wait" \notin Outcomes
  /\ Faults \cap {"overlap", "unauth", "cred"} = {}
  /\ "trigger" \in Requests => Faults \cap {"error", "prepare"} = {}

\* nothing but requests and the event handler has anything to do
Bystanders ==
  /\ cred /\ waits = {}
  /\ \A p \in Procs \ (Clients \cup {handler}) : At(p, "idle")
  /\ \A t \in Threads : job[t].st = "none"
  /\ \A p \in Workers : run[p].st = "none"

\* a request, and what it asked; it has no run and no event before it starts one
Asking ==
  \A p \in Clients :
    /\ pc[p] \in {"idle", "tPre", "tRun", "tAwait", "tEnsure", "done"}
    /\ arg[p].op \in Requests \cup {"none"}
    /\ pc[p] \in {"tPre", "tRun", "tAwait", "tEnsure"} => Triggered(p)
    /\ At(p, "tAwait") => arg[p].op = "trigger"
    /\ pc[p] \in {"idle", "tPre", "tRun"} =>
         run[p].st = "none" /\ \A i \in DOMAIN chain : chain[i].p # p
    /\ run[p].st # "none" => Triggered(p)
    /\ run[p].res # "wait"

Endings   == {Done, NeedMoreInfo, Stopped}
Of(i)     == thr[chain[i].p]              \* the thread an event is about
EndsAt(i) == chain[i].k # "invoke"

\* the events of triggers: an invoke, and the run's end
OfTriggers ==
  \A i \in DOMAIN chain :
    /\ chain[i].p \in Clients /\ Triggered(chain[i].p)
    /\ chain[i].k = "run" => chain[i].out \in Endings
    /\ chain[i].k = "stop" => chain[i].out = "cost"

\* of one run, the invoke comes before the end, and there are no others
InvokeThenEnd ==
  \A i, j \in DOMAIN chain : i < j /\ chain[i].p = chain[j].p => ~EndsAt(i) /\ EndsAt(j)

\* a run that is not over has not ended, and has not begun before it is live
NotOver ==
  \A i \in DOMAIN chain : run[chain[i].p].st # "none" => run[chain[i].p].st = "live" /\ ~EndsAt(i)

\* of two runs of a thread, one has ended before the other begins
InTurn ==
  \A i, j \in DOMAIN chain : i < j /\ Of(i) = Of(j) /\ chain[i].p # chain[j].p =>
    /\ \E m \in DOMAIN chain : i <= m /\ m < j /\ chain[m].p = chain[i].p /\ EndsAt(m)
    /\ EndsAt(j) => \E m \in DOMAIN chain : i < m /\ m < j /\ chain[m].p = chain[j].p

\* a run that was invoked is live or has ended
LiveOrEnded ==
  \A i \in DOMAIN chain :
    \/ run[chain[i].p].st = "live"
    \/ \E m \in DOMAIN chain : i <= m /\ chain[m].p = chain[i].p /\ EndsAt(m)

\* the invoke of a live run is the last event of its thread
LiveIsLast ==
  \A p \in Clients, i \in DOMAIN chain : run[p].st = "live" /\ Of(i) = thr[p] =>
    \E m \in DOMAIN chain : i <= m /\ chain[m].p = p

Turns == OfTriggers /\ InvokeThenEnd /\ NotOver /\ InTurn /\ LiveOrEnded /\ LiveIsLast

\* a live run whose invoke has been handled shows
LiveShows ==
  \A p \in Clients : run[p].st = "live" /\ (\A i \in DOMAIN chain : chain[i].p # p)
                       => row[thr[p]].status = Running

\* the end of a run finds its thread Running
EndFindsRunning ==
  \A j \in DOMAIN chain :
    EndsAt(j) /\ (j # 1 \/ At(handler, "idle")) /\ (\A i \in DOMAIN chain : i < j => Of(i) # Of(j))
      => row[Of(j)].status = Running

\* what the handler does with the event in hand, and the status it leaves meanwhile
Emitting(next) == pc[handler] \in UpdateLabels => ret[handler] \in next /\ thr[handler] = CurrentThread

InvokeInHand ==
  /\ pc[handler] \in {"tuRead", "tuMeta", "invoked", "landed"} /\ Emitting({"invoked", "landed"})
  /\ pc[handler] \in UpdateLabels => upd[handler].status \in {"keep", Running}
  /\ row[CurrentThread].status = Running

RunInHand ==
  /\ pc[handler] \in {"tuRead", "tuStatus", "landed"} /\ Emitting({"landed"})
  /\ pc[handler] \in UpdateLabels =>
       upd[handler] = Update(Current.out) /\ row[CurrentThread].status = Running
  /\ At(handler, "tuStatus") => snap[handler].status = Running /\ snap[handler].started

StopInHand ==
  /\ pc[handler] \in {"tuRead", "tuStatus", "tuMeta", "stopping", "landed"} /\ Emitting({"stopping"})
  /\ pc[handler] \in UpdateLabels => upd[handler] = CostStop
  /\ pc[handler] # "landed" => row[CurrentThread].status \in {Running, Stopped}
  /\ At(handler, "tuStatus") =>
       row[CurrentThread].status = Running /\ snap[handler].status = Running /\ snap[handler].started

InHand ==
  ~At(handler, "idle") =>
    /\ Current.k = "invoke" => InvokeInHand
    /\ Current.k = "run" => RunInHand
    /\ Current.k = "stop" => StopInHand

RowsShown == LiveShows /\ EndFindsRunning /\ InHand
RowsSound == ClockFollowsStatus /\ \A t \in Threads : row[t].status # Waiting

RowsInv == Bystanders /\ Asking /\ Turns /\ RowsShown /\ RowsSound

---------------------------------------------------------------------------
\* The invariants hold in a server that just started.
LEMMA RowsInit ==
  ASSUME Calm, Init
  PROVE  RowsInv
<1> USE DEF Init
<1>1. Bystanders
  BY RunnersAreProcs DEF Bystanders, Calm, At, NoJob, NoRun, NoRow, Absent, Waiting, Runners
<1>2. Asking
  BY ClientsRun DEF Asking, At, NoArg, NoRun
<1>3. Turns
  BY DEF Turns, OfTriggers, InvokeThenEnd, NotOver, InTurn, LiveOrEnded, LiveIsLast
<1>4. RowsShown
  BY ClientsRun DEF RowsShown, LiveShows, EndFindsRunning, InHand, NoRun, Procs, At
<1>5. RowsSound
  BY DEF RowsSound, ClockFollowsStatus, ClockOK, NoRow, Absent, Running, Waiting
<1> QED
  BY <1>1, <1>2, <1>3, <1>4, <1>5 DEF RowsInv

\* what a thread that nothing pauses or stops is written by
CalmRequest(p) ==
  \/ Trigger(p) \/ TriggerRejected(p) \/ TriggerPreflight(p) \/ TriggerAppends(p)
  \/ TriggerStarts(p) \/ TriggerEnsures(p) \/ Acquired(p)

\* As long as nothing pauses a thread, the bystanders stand by.
LEMMA BystandersStandBy ==
  ASSUME Bystanders, Next, Faults \cap {"unauth", "cred"} = {}, \A t \in Threads : row[t].status # Waiting
  PROVE  (\E p \in Clients : Caller(p) \/ Agent(p)) \/ Handler
<1>1. ASSUME NEW t \in Threads, Waiter(t) \/ Worker(t) \/ Failed(t) \/ Queue(t)
      PROVE  FALSE
  <2>1. {waiter(t), worker(t), failed(t)} \subseteq Procs \ (Clients \cup {handler})
    BY DEF Procs, Workers, Waiters, Clients, waiter, worker, failed, caller, handler
  <2>2. At(waiter(t), "idle") /\ At(worker(t), "idle") /\ At(failed(t), "idle")
        /\ job[t].st = "none" /\ waits = {}
    BY <2>1 DEF Bystanders
  <2>3. ~Queue(t)
    BY <2>2 DEF Queue, JobDue, JobEvicted, JobLost, Retained
  <2>4. ~Waiter(t)
    BY <2>2 DEF Waiter, WaitRead, WaitWrite, UpdatesRow, UpdateRead, UpdateStatus, UpdateMeta,
                Schedules, ScheduleRemove, ScheduleAdd, At
  <2>5. ~Worker(t)
    BY <2>2 DEF Worker, JobTaken, JobCompleted, JobFails, ResumeRead, HandleResume, ResumePreflight,
                ResumeWrite, ResumeUnroutable, ResumeRuns, ResumeRejected, Pauses, PauseRead,
                PauseWrite, UpdatesRow, UpdateRead, UpdateStatus, UpdateMeta, At
  <2>6. ~Failed(t)
    BY <2>2 DEF Failed, FailedRead, FailedWrite, UpdatesRow, UpdateRead, UpdateStatus, UpdateMeta, At
  <2> QED
    BY <1>1, <2>3, <2>4, <2>5, <2>6
<1>2. ~Watchdog
  <2>1. watchdog \in Procs \ (Clients \cup {handler})
    BY DEF Procs, Clients, watchdog, caller, handler
  <2>2. At(watchdog, "idle") /\ \A t \in Threads : row[t].status # Waiting
    BY <2>1 DEF Bystanders
  <2> QED
    BY <2>2 DEF Watchdog, Sweep, SweepJob, SweepCredential, Schedules, ScheduleRemove, ScheduleAdd, At
<1>3. ~CredentialChanges
  BY DEF CredentialChanges, Bystanders
<1>4. ASSUME NEW p \in Runners, Agent(p)
      PROVE  p \in Clients
  BY <1>4 DEF Agent, EnterRun, RunUnprepared, AgentDecides, RunEnded, RunEnds, RunFails, RunExceeds,
              Bystanders, Runners
<1> QED
  BY <1>1, <1>2, <1>3, <1>4 DEF Next

\* Nothing else happens: nobody waits, no job is there, no request stops or restores.
LEMMA CalmStep ==
  ASSUME Calm, TypeInv, Bystanders, Asking, RowsSound, Next
  PROVE  (\E p \in Clients : CalmRequest(p) \/ Agent(p)) \/ Handler
<1>1. ASSUME NEW p \in Clients, Caller(p)
      PROVE  CalmRequest(p)
  <2>1. pc[p] \in {"idle", "tPre", "tRun", "tAwait", "tEnsure", "done"}
    BY DEF Asking
  <2>2. ~UpdatesRow(p) /\ ~Schedules(p) /\ ~Pauses(p)
    BY <2>1 DEF UpdatesRow, UpdateRead, UpdateStatus, UpdateMeta, Schedules, ScheduleRemove,
                ScheduleAdd, Pauses, PauseRead, PauseWrite, At
  <2>3. ~StopRequest(p)
    BY <2>1 DEF StopRequest, Stop, StopsRun, StopsNothing, StopWrites, Asks, At, Calm
  <2>4. ~HandleResume(p) /\ ~CancelJob(p) /\ ~CancelWrite(p) /\ ~TriggerRestores(p)
    BY <2>1 DEF HandleResume, ResumePreflight, ResumeWrite, ResumeUnroutable, ResumeRuns,
                ResumeRejected, CancelJob, CancelWrite, TriggerRestores, At
  <2>5. ~ResumeOrCancel(p, "resume") /\ ~ResumeOrCancel(p, "cancel")
    BY DEF ResumeOrCancel, RowsSound
  <2> QED
    BY <1>1, <2>2, <2>3, <2>4, <2>5 DEF Caller, TriggerRequest, ResumeRequest, CalmRequest
<1>2. (\E p \in Clients : Caller(p) \/ Agent(p)) \/ Handler
  BY BystandersStandBy DEF Calm, RowsSound
<1> QED
  BY <1>1, <1>2

---------------------------------------------------------------------------
\* the step leaves the events and live runs with their threads and triggers
SameEvents ==
  /\ \A i \in DOMAIN chain : thr'[chain[i].p] = thr[chain[i].p] /\ Triggered(chain[i].p)'
  /\ \A p \in Clients : run[p].st = "live" => thr'[p] = thr[p]

\* A step without events leaves their order, and may start a run that has none yet.
LEMMA TurnsStay ==
  ASSUME TypeInv, Turns, SameEvents, chain' = chain,
         \A p \in Clients : (run'[p].st = "live") <=> (run[p].st = "live"),
         \A p \in Clients : run'[p].st # "none" /\ run[p].st = "none" =>
                              \A i \in DOMAIN chain : chain[i].p # p
  PROVE  Turns'
<1> USE DEF Turns, SameEvents
<1>1. \A i \in DOMAIN chain : chain[i].p \in Clients /\ Of(i)' = Of(i) /\ EndsAt(i)' = EndsAt(i)
  BY DEF OfTriggers, Of, EndsAt
<1>2. OfTriggers'
  BY DEF OfTriggers
<1>3. InvokeThenEnd' /\ InTurn'
  BY <1>1 DEF InvokeThenEnd, InTurn
<1>4. NotOver' /\ LiveOrEnded'
  BY <1>1 DEF NotOver, LiveOrEnded
<1>5. LiveIsLast'
  BY <1>1 DEF LiveIsLast
<1> QED
  BY <1>2, <1>3, <1>4, <1>5

\* The oldest event leaves.
LEMMA TurnsTail ==
  ASSUME TypeInv, Turns, chain # <<>>, chain' = Tail(chain), UNCHANGED <<run, thr, arg>>
  PROVE  Turns'
<1> USE DEF Turns
<1>1. /\ chain \in Seq(Events) /\ Len(chain) \in Nat \ {0} /\ DOMAIN chain = 1 .. Len(chain)
      /\ DOMAIN chain' = 1 .. (Len(chain) - 1)
      /\ \A i \in DOMAIN chain' : i \in Nat \ {0} /\ i + 1 \in DOMAIN chain /\ chain'[i] = chain[i + 1]
      /\ \A m \in DOMAIN chain : m > 1 => m - 1 \in DOMAIN chain' /\ chain'[m - 1] = chain[m]
  BY DEF TypeInv, TypeOK
<1>2. \A i \in DOMAIN chain' : Of(i)' = Of(i + 1) /\ EndsAt(i)' = EndsAt(i + 1)
  BY <1>1 DEF Of, EndsAt
<1>3. OfTriggers'
  BY <1>1 DEF OfTriggers, Triggered
<1>4. InvokeThenEnd'
  BY <1>1, <1>2 DEF InvokeThenEnd
<1>5. NotOver'
  BY <1>1, <1>2 DEF NotOver
<1>6. InTurn'
  <2> SUFFICES ASSUME NEW i \in (DOMAIN chain)', NEW j \in (DOMAIN chain)', i < j, Of(i)' = Of(j)',
                      chain'[i].p # chain'[j].p
               PROVE  /\ \E m \in DOMAIN chain' : i <= m /\ m < j /\ chain'[m].p = chain'[i].p /\ EndsAt(m)'
                      /\ EndsAt(j)' => \E m \in DOMAIN chain' : i < m /\ m < j /\ chain'[m].p = chain'[j].p
    BY DEF InTurn
  <2>1. /\ i + 1 \in DOMAIN chain /\ j + 1 \in DOMAIN chain /\ i + 1 < j + 1 /\ Of(i + 1) = Of(j + 1)
        /\ chain[i + 1].p # chain[j + 1].p
    BY <1>1, <1>2
  <2>2. PICK m \in DOMAIN chain : i + 1 <= m /\ m < j + 1 /\ chain[m].p = chain[i + 1].p /\ EndsAt(m)
    BY <2>1 DEF InTurn
  <2>3. m - 1 \in DOMAIN chain' /\ i <= m - 1 /\ m - 1 < j /\ chain'[m - 1].p = chain'[i].p /\ EndsAt(m - 1)'
    BY <1>1, <1>2, <2>2
  <2>4. ASSUME EndsAt(j)' PROVE \E k \in DOMAIN chain' : i < k /\ k < j /\ chain'[k].p = chain'[j].p
    <3>1. PICK k \in DOMAIN chain : i + 1 < k /\ k < j + 1 /\ chain[k].p = chain[j + 1].p
      BY <1>2, <2>1, <2>4 DEF InTurn
    <3>2. k - 1 \in DOMAIN chain' /\ i < k - 1 /\ k - 1 < j /\ chain'[k - 1].p = chain'[j].p
      BY <1>1, <3>1
    <3> QED
      BY <3>2
  <2> QED
    BY <2>3, <2>4
<1>7. LiveOrEnded'
  <2> SUFFICES ASSUME NEW i \in (DOMAIN chain)', run[chain'[i].p].st # "live"
               PROVE  \E m \in DOMAIN chain' : i <= m /\ chain'[m].p = chain'[i].p /\ EndsAt(m)'
    BY DEF LiveOrEnded
  <2>1. PICK m \in DOMAIN chain : i + 1 <= m /\ chain[m].p = chain[i + 1].p /\ EndsAt(m)
    BY <1>1 DEF LiveOrEnded
  <2>2. m - 1 \in DOMAIN chain' /\ i <= m - 1 /\ chain'[m - 1].p = chain'[i].p /\ EndsAt(m - 1)'
    BY <1>1, <1>2, <2>1
  <2> QED
    BY <2>2
<1>8. LiveIsLast'
  <2> SUFFICES ASSUME NEW p \in Clients, NEW i \in (DOMAIN chain)', run[p].st = "live", Of(i)' = thr[p]
               PROVE  \E m \in DOMAIN chain' : i <= m /\ chain'[m].p = p
    BY DEF LiveIsLast
  <2>1. PICK m \in DOMAIN chain : i + 1 <= m /\ chain[m].p = p
    BY <1>1, <1>2 DEF LiveIsLast
  <2>2. m - 1 \in DOMAIN chain' /\ i <= m - 1 /\ chain'[m - 1].p = p
    BY <1>1, <2>1
  <2> QED
    BY <2>2
<1> QED
  BY <1>3, <1>4, <1>5, <1>6, <1>7, <1>8

\* A calm server prepares no run of a thread beside another.
LEMMA OneLive ==
  ASSUME Calm, OwnInv
  PROVE  NoParallelRuns
  BY DEF Calm, OwnInv, OneRun

\* What appending an event leaves and adds.
LEMMA Appended ==
  ASSUME TypeInv, NEW e \in Events, Post(e)
  PROVE  /\ Len(chain) \in Nat /\ DOMAIN chain = 1 .. Len(chain)
         /\ DOMAIN chain' = 1 .. (Len(chain) + 1)
         /\ \A i \in DOMAIN chain : chain'[i] = chain[i]
         /\ chain'[Len(chain) + 1] = e
  BY DEF TypeInv, TypeOK, Post

\* A run enters after the other runs of its thread have ended.
LEMMA TurnsEnter ==
  ASSUME TypeInv, Turns, NoParallelRuns, NEW p \in Clients, Triggered(p), EnterRun(p)
  PROVE  Turns'
<1> USE DEF Turns
<1> DEFINE e == Event("invoke", p, "none")
<1>0. PICK n \in Nat : n = Len(chain) + 1
  BY DEF TypeInv, TypeOK
<1>1. /\ p \in Runners /\ e \in Events /\ e.p = p /\ e.k = "invoke"
      /\ UNCHANGED <<thr, arg>> /\ Post(e) /\ run[p].st = "prepared"
      /\ run' = [run EXCEPT ![p].st = "live"] /\ run \in [Runners -> Runs]
  BY ClientsRun DEF EnterRun, procs, TypeInv, TypeOK, Event, Events
<1>2. /\ Len(chain) \in Nat /\ DOMAIN chain = 1 .. Len(chain) /\ DOMAIN chain' = 1 .. n
      /\ \A i \in DOMAIN chain : chain'[i] = chain[i] /\ i \in DOMAIN chain' /\ i < n
      /\ chain'[n] = e /\ \A i \in DOMAIN chain' : i = n \/ i \in DOMAIN chain
  BY <1>0, <1>1, Appended
<1>3. /\ \A i \in DOMAIN chain : Of(i)' = Of(i) /\ EndsAt(i)' = EndsAt(i)
      /\ Of(n)' = thr[p] /\ ~EndsAt(n)'
  BY <1>1, <1>2 DEF Of, EndsAt
<1>4. /\ run'[p].st = "live" /\ \A q \in Clients : q # p => run'[q] = run[q]
      /\ \A i \in DOMAIN chain : chain[i].p # p
      /\ \A q \in Clients : q # p /\ thr[q] = thr[p] => run[q].st = "none"
  BY <1>1, ClientsRun DEF NotOver, NoParallelRuns, Runs
<1>5. \A i \in DOMAIN chain : chain[i].p \in Clients
  BY DEF OfTriggers
<1>6. OfTriggers'
  BY <1>1, <1>2 DEF OfTriggers, Triggered
<1>7. InvokeThenEnd'
  BY <1>1, <1>2, <1>3, <1>4 DEF InvokeThenEnd
<1>8. NotOver'
  BY <1>1, <1>2, <1>3, <1>4, <1>5 DEF NotOver
<1>9. InTurn'
  <2> SUFFICES ASSUME NEW i \in (DOMAIN chain)', NEW j \in (DOMAIN chain)', i < j, Of(i)' = Of(j)',
                      chain'[i].p # chain'[j].p
               PROVE  /\ \E m \in DOMAIN chain' : i <= m /\ m < j /\ chain'[m].p = chain'[i].p /\ EndsAt(m)'
                      /\ EndsAt(j)' => \E m \in DOMAIN chain' : i < m /\ m < j /\ chain'[m].p = chain'[j].p
    BY DEF InTurn
  <2>1. i \in DOMAIN chain
    BY <1>2
  <2>2. CASE j \in DOMAIN chain
    BY <1>2, <1>3, <2>1, <2>2 DEF InTurn
  <2>3. CASE j = n
    <3>1. run[chain[i].p].st # "live"
      BY <1>1, <1>2, <1>3, <1>4, <1>5, <2>1, <2>3 DEF Of
    <3>2. PICK m \in DOMAIN chain : i <= m /\ chain[m].p = chain[i].p /\ EndsAt(m)
      BY <2>1, <3>1 DEF LiveOrEnded
    <3> QED
      BY <1>2, <1>3, <2>1, <2>3, <3>2
  <2> QED
    BY <1>2, <2>2, <2>3
<1>10. LiveOrEnded'
  BY <1>1, <1>2, <1>3, <1>4, <1>5 DEF LiveOrEnded
<1>11. LiveIsLast'
  <2> SUFFICES ASSUME NEW q \in Clients, NEW i \in (DOMAIN chain)', run'[q].st = "live", Of(i)' = thr'[q]
               PROVE  \E m \in DOMAIN chain' : i <= m /\ chain'[m].p = q
    BY DEF LiveIsLast
  <2>1. CASE q = p
    BY <1>1, <1>2, <2>1
  <2>2. CASE q # p
    <3>1. run[q].st = "live" /\ thr[q] # thr[p] /\ i \in DOMAIN chain
      BY <1>1, <1>2, <1>3, <1>4, <2>2
    <3> QED
      BY <1>1, <1>2, <1>3, <3>1 DEF LiveIsLast
  <2> QED
    BY <2>1, <2>2
<1> QED
  BY <1>6, <1>7, <1>8, <1>9, <1>10, <1>11

\* The end of a live run comes after its invoke.
LEMMA TurnsEnd ==
  ASSUME TypeInv, Turns, NoParallelRuns, NEW p \in Clients, Triggered(p), run[p].st = "live",
         NEW e \in Events, e.p = p, Post(e),
         (e.k = "run" /\ e.out \in Endings) \/ (e.k = "stop" /\ e.out = "cost"),
         run' = [run EXCEPT ![p] = NoRun], UNCHANGED <<thr, arg>>
  PROVE  Turns'
<1> USE DEF Turns
<1>0. PICK n \in Nat : n = Len(chain) + 1
  BY DEF TypeInv, TypeOK
<1>1. p \in Runners /\ run \in [Runners -> Runs]
  BY ClientsRun DEF TypeInv, TypeOK
<1>2. /\ Len(chain) \in Nat /\ DOMAIN chain = 1 .. Len(chain) /\ DOMAIN chain' = 1 .. n
      /\ \A i \in DOMAIN chain : chain'[i] = chain[i] /\ i \in DOMAIN chain' /\ i < n
      /\ chain'[n] = e /\ \A i \in DOMAIN chain' : i = n \/ i \in DOMAIN chain
  BY <1>0, Appended
<1>3. /\ \A i \in DOMAIN chain : Of(i)' = Of(i) /\ EndsAt(i)' = EndsAt(i)
      /\ Of(n)' = thr[p] /\ EndsAt(n)'
  BY <1>2 DEF Of, EndsAt
<1>4. /\ run'[p].st = "none" /\ \A q \in Clients : q # p => run'[q] = run[q]
      /\ \A q \in Clients : q # p /\ thr[q] = thr[p] => run[q].st = "none"
  BY <1>1, ClientsRun DEF NoParallelRuns, NoRun
<1>5. \A i \in DOMAIN chain : chain[i].p \in Clients
  BY DEF OfTriggers
<1>6. OfTriggers'
  BY <1>2 DEF OfTriggers, Triggered
<1>7. InvokeThenEnd'
  BY <1>2, <1>3 DEF InvokeThenEnd, NotOver
<1>8. NotOver'
  BY <1>2, <1>3, <1>4, <1>5 DEF NotOver
<1>9. InTurn'
  <2> SUFFICES ASSUME NEW i \in (DOMAIN chain)', NEW j \in (DOMAIN chain)', i < j, Of(i)' = Of(j)',
                      chain'[i].p # chain'[j].p
               PROVE  /\ \E m \in DOMAIN chain' : i <= m /\ m < j /\ chain'[m].p = chain'[i].p /\ EndsAt(m)'
                      /\ EndsAt(j)' => \E m \in DOMAIN chain' : i < m /\ m < j /\ chain'[m].p = chain'[j].p
    BY DEF InTurn
  <2>1. i \in DOMAIN chain
    BY <1>2
  <2>2. CASE j \in DOMAIN chain
    BY <1>2, <1>3, <2>1, <2>2 DEF InTurn
  <2>3. CASE j = n
    <3>1. run[chain[i].p].st # "live" /\ Of(i) = thr[p] /\ chain[i].p # p
      BY <1>2, <1>3, <1>4, <1>5, <2>1, <2>3 DEF Of
    <3>2. PICK m \in DOMAIN chain : i <= m /\ chain[m].p = chain[i].p /\ EndsAt(m)
      BY <2>1, <3>1 DEF LiveOrEnded
    <3>3. PICK k \in DOMAIN chain : i <= k /\ chain[k].p = p
      BY <2>1, <3>1 DEF LiveIsLast
    <3>4. i < k
      BY <1>2, <2>1, <3>1, <3>3
    <3> QED
      BY <1>2, <1>3, <2>1, <2>3, <3>2, <3>3, <3>4
  <2> QED
    BY <1>2, <2>2, <2>3
<1>10. LiveOrEnded'
  <2> SUFFICES ASSUME NEW i \in (DOMAIN chain)', run'[chain'[i].p].st # "live"
               PROVE  \E m \in DOMAIN chain' : i <= m /\ chain'[m].p = chain'[i].p /\ EndsAt(m)'
    BY DEF LiveOrEnded
  <2>1. CASE chain'[i].p = p
    BY <1>2, <1>3, <2>1
  <2>2. CASE chain'[i].p # p
    BY <1>2, <1>3, <1>4, <1>5, <2>2 DEF LiveOrEnded
  <2> QED
    BY <2>1, <2>2
<1>11. LiveIsLast'
  <2> SUFFICES ASSUME NEW q \in Clients, NEW i \in (DOMAIN chain)', run'[q].st = "live", Of(i)' = thr'[q]
               PROVE  \E m \in DOMAIN chain' : i <= m /\ chain'[m].p = q
    BY DEF LiveIsLast
  <2>1. q # p /\ run[q].st = "live" /\ thr[q] # thr[p] /\ i \in DOMAIN chain
    BY <1>2, <1>3, <1>4
  <2> QED
    BY <1>2, <1>3, <2>1 DEF LiveIsLast
<1> QED
  BY <1>6, <1>7, <1>8, <1>9, <1>10, <1>11

---------------------------------------------------------------------------
\* What the writes of requests and of the invoke make of a row that nobody paused.
LEMMA CalmWrites ==
  ASSUME NEW r \in Row, ClockOK(r), r.status # Waiting
  PROVE  /\ r.status # Absent => ClockOK(PreSet(r)) /\ PreSet(r).status = Running
         /\ ClockOK(Insert(r, Running, "none"))
         /\ Insert(r, Running, "none").status = IF r.status = Absent THEN Running ELSE r.status
         /\ ClockOK(InvokedRow(r)) /\ InvokedRow(r).status = Running
<1>1. ClockOK(WriteStatus(r, r, Running)) /\ WriteStatus(r, r, Running).status = Running
  BY DEF WriteStatus, ClockOK, Enters, Leaves, Row
<1>2. ClockOK(NewRow(Running, "none")) /\ NewRow(Running, "none").status = Running
  BY DEF NewRow, ClockOK
<1>3. ClockOK(PreSet(r)) /\ PreSet(r).status = Running
  <2> DEFINE w == WriteStatus(r, r, Running)
  <2>1. PreSet(r).status = w.status /\ PreSet(r).started = w.started
    BY DEF PreSet, WriteStatus, Row
  <2> QED
    BY <1>1, <2>1 DEF ClockOK
<1> QED
  BY <1>1, <1>2, <1>3 DEF Insert, InvokedRow

\* the step of a request p: it writes at most Running to one row, and starts at most its own run
RequestShape(p) ==
  /\ UNCHANGED <<job, chain, waits, snap, upd, ret>> /\ cred'
  /\ \A q \in Procs \ {p} : pc'[q] = pc[q] /\ thr'[q] = thr[q]
  /\ \A q \in Clients \ {p} : arg'[q] = arg[q]
  /\ \A q \in Runners \ {p} : run'[q] = run[q]
  /\ pc[p] # "idle" => UNCHANGED <<thr, arg>>
  /\ run'[p] = run[p] \/ (At(p, "tRun") /\ run'[p].st = "prepared" /\ run'[p].res = "none")
  /\ \E t, r : /\ t \in Threads /\ row' = [row EXCEPT ![t] = r] /\ ClockOK(r)
               /\ r.status \in {row[t].status, Running}

\* what Asking says of one request
AskingOne(p) ==
  /\ pc[p] \in {"idle", "tPre", "tRun", "tAwait", "tEnsure", "done"}
  /\ arg[p].op \in Requests \cup {"none"}
  /\ pc[p] \in {"tPre", "tRun", "tAwait", "tEnsure"} => Triggered(p)
  /\ At(p, "tAwait") => arg[p].op = "trigger"
  /\ pc[p] \in {"idle", "tPre", "tRun"} =>
       run[p].st = "none" /\ \A i \in DOMAIN chain : chain[i].p # p
  /\ run[p].st # "none" => Triggered(p)
  /\ run[p].res # "wait"

\* The requests have this shape.
LEMMA RequestsShaped ==
  ASSUME Calm, TypeInv, Bystanders, Asking, RowsSound, NEW p \in Clients, CalmRequest(p)
  PROVE  RequestShape(p) /\ AskingOne(p)'
<1> USE DEF TypeInv, TypeOK
<1>1. /\ p \in Procs \ {handler} /\ p \in Runners /\ thr[p] \in Threads /\ cred /\ AskingOne(p)
      /\ \A t \in Threads : row[t] \in Row /\ ClockOK(row[t]) /\ row[t].status # Waiting
  BY ClientsRun DEF Bystanders, Asking, AskingOne, RowsSound, ClockFollowsStatus
<1>2. \A t \in Threads : row = [row EXCEPT ![t] = row[t]]
  OBVIOUS
<1>3. CASE Trigger(p)
  <2>1. PICK t, op, saved :
          /\ t \in Threads /\ op \in {"trigger", "async"} /\ At(p, "idle") /\ op \in Requests /\ Take(p, t, op, saved) /\ Goto(p, "tPre")
          /\ IF row[t].status = Absent THEN UNCHANGED row ELSE Write(t, PreSet(row[t]))
          /\ UNCHANGED <<job, agent, cred, snap, upd, ret>>
    BY <1>1, <1>3 DEF Trigger, Asks
  <2>2. PICK r : /\ row' = [row EXCEPT ![t] = r] /\ ClockOK(r) /\ r.status \in {row[t].status, Running}
    BY <1>1, <1>2, <2>1, CalmWrites DEF Write
  <2>3. UNCHANGED <<job, run, chain, waits, snap, upd, ret>> /\ cred' /\ pc[p] = "idle"
    BY <1>1, <2>1 DEF agent, At
  <2>4. RequestShape(p)
    <3>1. /\ \A q \in Procs \ {p} : pc'[q] = pc[q] /\ thr'[q] = thr[q]
          /\ \A q \in Clients \ {p} : arg'[q] = arg[q]
      BY <1>1, <2>1 DEF Take, Goto
    <3>2. /\ t \in Threads /\ row' = [row EXCEPT ![t] = r]
          /\ ClockOK(r) /\ r.status \in {row[t].status, Running}
      BY <2>1, <2>2
    <3> QED
      BY <2>3, <3>1, <3>2 DEF RequestShape
  <2> QED
    BY <1>1, <2>1, <2>3, <2>4 DEF AskingOne, Take, Goto, At, Triggered
<1>4. CASE TriggerRejected(p) \/ Acquired(p)
  <2>1. PICK t \in Threads, op \in Requests :
          /\ At(p, "idle") /\ Take(p, t, op, NoRow) /\ Goto(p, "done") /\ cred'
          /\ UNCHANGED <<stores, agent, snap, upd, ret>>
    BY <1>1, <1>4 DEF TriggerRejected, Acquired, Asks
  <2>2. UNCHANGED <<row, job, run, chain, waits>>
    BY <2>1 DEF agent, stores
  <2>3. RequestShape(p)
    BY <1>1, <1>2, <2>1, <2>2 DEF RequestShape, Take, Goto, At
  <2> QED
    BY <1>1, <2>1, <2>2, <2>3 DEF AskingOne, Take, Goto, At, Triggered
<1>5. CASE TriggerPreflight(p) \/ TriggerAppends(p)
  <2>1. PICK l \in {"tRun", "tEnsure"} : Goto(p, l) /\ (l = "tRun" => At(p, "tPre")) /\ pc[p] \in {"tPre", "tRun"}
    BY <1>1, <1>5 DEF TriggerPreflight, TriggerAppends, At
  <2>2. UNCHANGED <<row, job, run, chain, waits, cred, thr, snap, upd, ret, arg>>
    BY <1>5 DEF TriggerPreflight, TriggerAppends, agent, stores
  <2>3. RequestShape(p)
    BY <1>1, <1>2, <2>1, <2>2 DEF RequestShape, Goto
  <2> QED
    BY <1>1, <2>1, <2>2, <2>3 DEF AskingOne, Goto, At, Triggered
<1>6. CASE TriggerStarts(p)
  <2>1. /\ Goto(p, IF arg[p].op = "async" THEN "tEnsure" ELSE "tAwait") /\ At(p, "tRun")
        /\ run' = [run EXCEPT ![p] = [NoRun EXCEPT !.st = "prepared"]]
        /\ UNCHANGED <<row, job, chain, waits, cred, thr, snap, upd, ret, arg>>
    BY <1>6 DEF TriggerStarts, PrepareRun, stores
  <2>2. run'[p].st = "prepared" /\ run'[p].res = "none"
    BY <1>1, <2>1 DEF NoRun
  <2>3. RequestShape(p)
    BY <1>1, <1>2, <2>1, <2>2 DEF RequestShape, Goto, At
  <2> QED
    BY <1>1, <2>1, <2>2, <2>3 DEF AskingOne, Goto, At, Triggered
<1>7. CASE TriggerEnsures(p)
  <2>1. /\ Write(thr[p], Insert(row[thr[p]], Running, "none")) /\ Goto(p, "done") /\ At(p, "tEnsure")
        /\ UNCHANGED <<job, run, chain, waits, cred, thr, snap, upd, ret, arg>>
    BY <1>7 DEF TriggerEnsures, agent
  <2>2. \E r : /\ row' = [row EXCEPT ![thr[p]] = r] /\ ClockOK(r)
               /\ r.status \in {row[thr[p]].status, Running}
    BY <1>1, <2>1, CalmWrites DEF Write
  <2>3. RequestShape(p)
    BY <1>1, <2>1, <2>2 DEF RequestShape, Goto, At
  <2> QED
    BY <1>1, <2>1, <2>3 DEF AskingOne, Goto, At, Triggered
<1> QED
  BY <1>3, <1>4, <1>5, <1>6, <1>7 DEF CalmRequest

\* A request keeps the invariants: Running is all it writes.
LEMMA RequestKeepsRows ==
  ASSUME TypeInv, RowsInv, NEW p \in Clients, RequestShape(p), AskingOne(p)'
  PROVE  RowsInv'
<1> USE DEF RowsInv, RequestShape
<1>1. p \in Procs \ {handler} /\ handler \in Procs /\ AskingOne(p)
  BY ClientsRun DEF Procs, Asking, AskingOne
<1>2. PICK t, r : /\ t \in Threads /\ row' = [row EXCEPT ![t] = r] /\ ClockOK(r)
                  /\ r.status \in {row[t].status, Running}
  OBVIOUS
<1>3. \A u \in Threads : row'[u].status \in {row[u].status, Running} /\ (ClockOK(row[u]) => ClockOK(row'[u]))
  BY <1>2 DEF TypeInv, TypeOK
<1>4. RowsSound'
  BY <1>3 DEF RowsSound, ClockFollowsStatus, Running, Waiting
<1>5. Bystanders'
  <2>1. \A q \in Procs \ (Clients \cup {handler}) : pc'[q] = pc[q]
    OBVIOUS
  <2>2. \A q \in Workers : run'[q] = run[q]
    BY DEF Runners, Workers, Clients, worker, caller
  <2> QED
    BY <2>1, <2>2 DEF Bystanders, At
<1>6. Asking'
  <2>1. \A q \in Clients \ {p} : /\ pc'[q] = pc[q] /\ arg'[q] = arg[q] /\ run'[q] = run[q]
    BY ClientsRun
  <2> QED
    BY <2>1 DEF Asking, AskingOne, At, Triggered
<1>7. SameEvents
  <2>1. \A q \in Clients : run[q].st # "none" \/ (\E i \in DOMAIN chain : chain[i].p = q) =>
                             thr'[q] = thr[q] /\ arg'[q] = arg[q]
    BY <1>1, ClientsRun DEF AskingOne
  <2> QED
    BY <2>1 DEF SameEvents, Turns, OfTriggers, Triggered
<1>8. \A q \in Clients : (run'[q].st = "live") <=> (run[q].st = "live")
  BY <1>1, ClientsRun DEF AskingOne, At
<1>9. Turns'
  <2>1. \A q \in Clients : run'[q].st # "none" /\ run[q].st = "none" =>
                              \A i \in DOMAIN chain : chain[i].p # q
    BY <1>1, ClientsRun DEF AskingOne, At
  <2> QED
    BY <1>7, <1>8, <2>1, TurnsStay
<1>10. RowsShown'
  <2>1. \A i \in DOMAIN chain : /\ chain[i].p \in Clients /\ Of(i)' = Of(i) /\ EndsAt(i)' = EndsAt(i)
                                /\ Of(i) \in Threads
    BY <1>7, ClientsRun DEF SameEvents, Turns, OfTriggers, Of, EndsAt, TypeInv, TypeOK
  <2>2. LiveShows'
    BY <1>3, <1>7, <1>8, ClientsRun DEF RowsShown, LiveShows, SameEvents, TypeInv, TypeOK
  <2>3. pc'[handler] = pc[handler] /\ thr'[handler] = thr[handler]
    BY <1>1
  <2>4. EndFindsRunning'
    BY <1>3, <2>1, <2>3 DEF RowsShown, EndFindsRunning, At
  <2>5. InHand'
    <3>1. CASE At(handler, "idle")
      BY <2>3, <3>1 DEF InHand, At
    <3>2. CASE ~At(handler, "idle")
      <4>1. 1 \in DOMAIN chain /\ Current = chain[1] /\ Current' = Current
        BY <3>2 DEF TypeInv, TypeOK, EventInHand, Current
      <4>2. CurrentThread' = CurrentThread /\ CurrentThread \in Threads
        BY <2>1, <4>1 DEF CurrentThread, Of
      <4>3. row'[CurrentThread].status \in {row[CurrentThread].status, Running}
        BY <1>3, <4>2
      <4>4. InvokeInHand => InvokeInHand'
        BY <2>3, <4>2, <4>3 DEF InvokeInHand, Emitting
      <4>5. RunInHand => RunInHand'
        BY <2>3, <4>1, <4>2, <4>3 DEF RunInHand, Emitting, At
      <4>6. StopInHand => StopInHand'
        BY <2>3, <4>2, <4>3 DEF StopInHand, Emitting, At
      <4> QED
        BY <3>2, <4>1, <4>4, <4>5, <4>6 DEF RowsShown, InHand
    <3> QED
      BY <3>1, <3>2
  <2> QED
    BY <2>2, <2>4, <2>5 DEF RowsShown
<1> QED
  BY <1>4, <1>5, <1>6, <1>9, <1>10

---------------------------------------------------------------------------
\* An event is appended: the one in hand stays, and the rows show what they have to.
LEMMA PostShown ==
  ASSUME TypeInv, Turns, RowsShown, NEW p \in Clients, NEW e \in Events, e.p = p, Post(e),
         pc'[handler] = pc[handler], UNCHANGED <<row, thr, snap, upd, ret>>,
         \A q \in Clients : run'[q].st = "live" => run[q].st = "live" \/ q = p,
         e.k = "invoke" \/ (run[p].st = "live" /\ run'[p].st # "live")
  PROVE  RowsShown'
<1> USE DEF RowsShown
<1>0. PICK n \in Nat : n = Len(chain) + 1
  BY DEF TypeInv, TypeOK
<1>1. /\ Len(chain) \in Nat /\ DOMAIN chain = 1 .. Len(chain) /\ DOMAIN chain' = 1 .. n
      /\ \A i \in DOMAIN chain : chain'[i] = chain[i] /\ i \in DOMAIN chain' /\ i < n
      /\ chain'[n] = e /\ n \in DOMAIN chain' /\ \A i \in DOMAIN chain' : i = n \/ i \in DOMAIN chain
  BY <1>0, Appended
<1>2. /\ \A i \in DOMAIN chain : Of(i)' = Of(i) /\ EndsAt(i)' = EndsAt(i)
      /\ Of(n)' = thr[p] /\ (EndsAt(n)' => e.k # "invoke")
  BY <1>1 DEF Of, EndsAt
<1>3. LiveShows'
  <2> SUFFICES ASSUME NEW q \in Clients, run'[q].st = "live", \A i \in DOMAIN chain' : chain'[i].p # q
               PROVE  row[thr[q]].status = Running
    BY DEF LiveShows
  <2>1. q # p /\ \A i \in DOMAIN chain : chain[i].p # q
    BY <1>1
  <2> QED
    BY <2>1 DEF LiveShows
<1>4. EndFindsRunning'
  <2> SUFFICES ASSUME NEW j \in (DOMAIN chain)', EndsAt(j)', j # 1 \/ At(handler, "idle"),
                      \A i \in DOMAIN chain' : i < j => Of(i)' # Of(j)'
               PROVE  row[Of(j)'].status = Running
    BY DEF EndFindsRunning, At
  <2>1. CASE j = n
    <3>1. \A i \in DOMAIN chain : chain[i].p # p
      BY <1>1, <1>2, <2>1 DEF Of
    <3> QED
      BY <1>2, <2>1, <3>1 DEF LiveShows
  <2>2. CASE j \in DOMAIN chain
    <3>1. \A i \in DOMAIN chain : i < j => Of(i) # Of(j)
      BY <1>1, <1>2, <2>2
    <3> QED
      BY <1>2, <2>2, <3>1 DEF EndFindsRunning
  <2> QED
    BY <1>1, <2>1, <2>2
<1>5. InHand'
  <2> SUFFICES ASSUME ~At(handler, "idle") PROVE InHand'
    BY DEF InHand, At
  <2>1. chain # <<>> /\ chain \in Seq(Events) /\ chain' = Append(chain, e)
    BY DEF TypeInv, TypeOK, EventInHand, Post
  <2>2. Current' = Current
    BY <2>1, AppendHead DEF Current
  <2>3. CurrentThread' = CurrentThread
    BY <2>2 DEF CurrentThread
  <2> QED
    BY <2>2, <2>3 DEF InHand, InvokeInHand, RunInHand, StopInHand, Emitting, At
<1> QED
  BY <1>3, <1>4, <1>5

\* A step that touches no event and no row shows what it did.
LEMMA StayShown ==
  ASSUME RowsShown, pc'[handler] = pc[handler], UNCHANGED <<chain, row, thr, snap, upd, ret>>,
         \A q \in Clients : run'[q].st = "live" => run[q].st = "live"
  PROVE  RowsShown'
<1>1. LiveShows'
  BY DEF RowsShown, LiveShows
<1>2. EndFindsRunning'
  BY DEF RowsShown, EndFindsRunning, EndsAt, Of, At
<1>3. InHand'
  BY DEF RowsShown, InHand, InvokeInHand, RunInHand, StopInHand, Emitting, At, Current, CurrentThread
<1> QED
  BY <1>1, <1>2, <1>3 DEF RowsShown

\* What a run of a calm server does to the other processes and to its starter.
LEMMA AgentKeepsAsking ==
  ASSUME Calm, TypeInv, Bystanders, Asking, NEW p \in Clients,
         \A q \in Procs \ {p} : pc'[q] = pc[q], \A q \in Runners \ {p} : run'[q] = run[q],
         UNCHANGED <<job, waits, cred, thr, arg>>, chain' = chain \/ \E e \in Events : e.p = p /\ Post(e),
         run[p].st # "none", run'[p].res # "wait",
         pc'[p] = pc[p] \/ (At(p, "tAwait") /\ pc'[p] \in {"tEnsure", "done"})
  PROVE  Bystanders' /\ Asking'
<1>1. p \in Runners /\ p \in Procs /\ Clients \subseteq Runners /\ Clients \subseteq Procs
  BY ClientsRun, RunnersAreProcs
<1>2. \A q \in Clients \ {p} : pc'[q] = pc[q] /\ run'[q] = run[q]
  BY <1>1
<1>3. \A q \in Clients \ {p} : (\A i \in DOMAIN chain : chain[i].p # q)
                                 => (\A i \in DOMAIN chain' : chain'[i].p # q)
  <2>1. CASE chain' = chain
    BY <2>1
  <2>2. ASSUME NEW e \in Events, e.p = p, Post(e) PROVE <1>3
    BY <2>2, Appended
  <2> QED
    BY <2>1, <2>2
<1>4. Bystanders'
  <2>1. \A q \in Procs \ (Clients \cup {handler}) : pc'[q] = pc[q]
    OBVIOUS
  <2>2. \A q \in Workers : run'[q] = run[q]
    BY DEF Runners, Workers, Clients, worker, caller
  <2> QED
    BY <2>1, <2>2 DEF Bystanders, At
<1>5. Triggered(p) /\ pc[p] \notin {"idle", "tPre", "tRun"} /\ arg'[p] = arg[p]
  BY DEF Asking
<1>6. AskingOne(p)'
  BY <1>5 DEF Asking, AskingOne, At, Triggered
<1>7. \A q \in Clients \ {p} : AskingOne(q)'
  BY <1>2, <1>3 DEF Asking, AskingOne, At, Triggered
<1> QED
  BY <1>4, <1>6, <1>7 DEF Asking, AskingOne

\* The end of a run gives its starter back a label of a request that restores nothing.
LEMMA SettleCalm ==
  ASSUME Calm, TypeInv, Asking, NEW p \in Clients, NEW ok \in BOOLEAN, Settle(p, ok),
         ok \/ "error" \in Faults \/ "prepare" \in Faults
  PROVE  /\ run' = [run EXCEPT ![p] = NoRun] /\ run'[p].st = "none" /\ run'[p].res = "none"
         /\ \A q \in Procs \ {p} : pc'[q] = pc[q]
         /\ pc'[handler] = pc[handler]
         /\ pc'[p] = pc[p] \/ (At(p, "tAwait") /\ pc'[p] \in {"tEnsure", "done"})
         /\ UNCHANGED <<row, job, waits, cred, thr, snap, upd, ret, arg>>
<1>1. p \in Runners /\ p \in Procs \ {handler} /\ handler \in Procs /\ p \notin Workers
  BY ClientsRun DEF Procs, Workers, Clients, worker, caller
<1>2. UNCHANGED <<row, job, waits, cred, thr, snap, upd, ret, arg>> /\ run' = [run EXCEPT ![p] = NoRun]
  BY DEF Settle, stores
<1>3. run'[p].st = "none" /\ run'[p].res = "none"
  BY <1>1, <1>2 DEF TypeInv, TypeOK, NoRun
<1>4. CASE pc[p] = "tAwait"
  <2>1. arg[p].op = "trigger" /\ "trigger" \in Requests
    BY <1>4 DEF Asking, At
  <2>2. Goto(p, "tEnsure")
    BY <1>1, <1>4, <2>1 DEF Settle, AfterRun, Calm
  <2> QED
    BY <1>1, <1>2, <1>3, <1>4, <2>2 DEF Goto, TypeInv, TypeOK, At
<1>5. CASE pc[p] # "tAwait"
  BY <1>1, <1>2, <1>3, <1>5 DEF Settle, Asking
<1> QED
  BY <1>4, <1>5

\* A run of a calm server keeps the invariants.
LEMMA AgentKeepsRows ==
  ASSUME Calm, TypeInv, RowsInv, NoParallelRuns, NEW p \in Clients, Agent(p)
  PROVE  RowsInv'
<1> USE DEF RowsInv
<1>1. p \in Runners /\ run[p] \in Runs /\ p \in Procs \ {handler} /\ handler \in Procs /\ thr[p] \in Threads
  BY ClientsRun DEF TypeInv, TypeOK, Procs
<1>2. row' = row => RowsSound'
  BY DEF RowsSound, ClockFollowsStatus
<1>3. run[p].st # "none" => Triggered(p) /\ run[p].res # "wait"
  BY DEF Asking
<1>4. CASE EnterRun(p)
  <2>1. /\ run' = [run EXCEPT ![p].st = "live"] /\ run[p].st = "prepared"
        /\ UNCHANGED <<row, job, waits, cred, pc, thr, snap, upd, ret, arg>>
    BY <1>4 DEF EnterRun, stores, procs
  <2>2. /\ run'[p].st = "live" /\ run'[p].res # "wait"
        /\ \A q \in Clients \ {p} : run'[q] = run[q]
    BY <1>1, <1>3, <2>1, ClientsRun DEF TypeInv, TypeOK, Runs
  <2>3. PICK e \in Events : e.p = p /\ e.k = "invoke" /\ Post(e)
    BY <1>1, <1>4 DEF EnterRun, Event, Events
  <2>4. Bystanders' /\ Asking'
    BY <1>1, <2>1, <2>2, <2>3, AgentKeepsAsking
  <2>5. Turns'
    BY <1>3, <1>4, <2>1, TurnsEnter
  <2>6. RowsShown'
    BY <2>1, <2>2, <2>3, PostShown
  <2> QED
    BY <1>2, <2>1, <2>4, <2>5, <2>6
<1>5. CASE RunUnprepared(p)
  <2>1. Settle(p, FALSE) /\ "prepare" \in Faults /\ run[p].st = "prepared" /\ chain' = chain
    BY <1>5 DEF RunUnprepared
  <2>2. /\ run' = [run EXCEPT ![p] = NoRun] /\ run'[p].st = "none" /\ run'[p].res = "none"
        /\ \A q \in Procs \ {p} : pc'[q] = pc[q]
        /\ pc'[handler] = pc[handler]
        /\ pc'[p] = pc[p] \/ (At(p, "tAwait") /\ pc'[p] \in {"tEnsure", "done"})
        /\ UNCHANGED <<row, job, waits, cred, thr, snap, upd, ret, arg>>
    BY <2>1, SettleCalm
  <2>3. Bystanders' /\ Asking'
    BY <1>1, <2>1, <2>2, AgentKeepsAsking
  <2>4. \A q \in Clients : q # p => run'[q] = run[q]
    BY <2>2, ClientsRun DEF TypeInv, TypeOK
  <2>5. SameEvents
    BY <2>1, <2>2 DEF SameEvents, Turns, OfTriggers, Triggered
  <2>6. Turns'
    BY <2>1, <2>2, <2>4, <2>5, TurnsStay
  <2>7. RowsShown'
    BY <2>1, <2>2, <2>4, StayShown
  <2> QED
    BY <1>2, <2>2, <2>3, <2>6, <2>7
<1>6. CASE AgentDecides(p)
  <2>1. PICK d \in Outcomes : run' = [run EXCEPT ![p].res = d]
    BY <1>6 DEF AgentDecides
  <2>2. /\ run[p].st = "live" /\ UNCHANGED <<row, job, chain, waits, cred, pc, thr, snap, upd, ret, arg>>
    BY <1>6 DEF AgentDecides, stores, procs
  <2>3. /\ run'[p].st = "live" /\ run'[p].res # "wait"
        /\ \A q \in Clients \ {p} : run'[q] = run[q]
    BY <1>1, <2>1, <2>2, ClientsRun DEF TypeInv, TypeOK, Runs, Calm
  <2>4. Bystanders' /\ Asking'
    BY <1>1, <2>1, <2>2, <2>3, AgentKeepsAsking
  <2>5. SameEvents
    BY <2>2 DEF SameEvents, Turns, OfTriggers, Triggered
  <2>6. Turns'
    BY <2>2, <2>3, <2>5, TurnsStay
  <2>7. RowsShown'
    BY <2>2, <2>3, StayShown
  <2> QED
    BY <1>2, <2>2, <2>4, <2>6, <2>7
<1>7. ASSUME NEW e \in Events, e.p = p, Post(e), (e.k = "run" /\ e.out \in Endings) \/ (e.k = "stop" /\ e.out = "cost"),
             NEW ok \in BOOLEAN, Settle(p, ok), ok \/ "error" \in Faults, run[p].st = "live"
      PROVE  RowsInv'
  <2>1. /\ run' = [run EXCEPT ![p] = NoRun] /\ run'[p].st = "none" /\ run'[p].res = "none"
        /\ \A q \in Procs \ {p} : pc'[q] = pc[q]
        /\ pc'[handler] = pc[handler]
        /\ pc'[p] = pc[p] \/ (At(p, "tAwait") /\ pc'[p] \in {"tEnsure", "done"})
        /\ UNCHANGED <<row, job, waits, cred, thr, snap, upd, ret, arg>>
    BY <1>7, SettleCalm
  <2>2. Bystanders' /\ Asking'
    BY <1>1, <1>7, <2>1, AgentKeepsAsking
  <2>3. \A q \in Clients : q # p => run'[q] = run[q]
    BY <2>1, ClientsRun DEF TypeInv, TypeOK
  <2>4. Turns'
    BY <1>3, <1>7, <2>1, TurnsEnd
  <2>5. RowsShown'
    BY <1>7, <2>1, <2>3, PostShown
  <2> QED
    BY <1>2, <2>1, <2>2, <2>4, <2>5
<1>8. CASE RunEnds(p)
  <2>1. FinalStatus(run[p]) \in Endings
    BY <1>3, <1>8 DEF RunEnds, FinalStatus, Endings
  <2>2. Event("run", p, FinalStatus(run[p])) \in Events
    BY <1>1, <2>1 DEF Event, Events, Endings, ThreadStatuses
  <2> QED
    BY <1>7, <1>8, <2>1, <2>2 DEF RunEnds, Event
<1>9. CASE RunFails(p)
  <2>1. Event("run", p, Stopped) \in Events /\ Stopped \in Endings
    BY <1>1 DEF Event, Events, ThreadStatuses, Endings
  <2> QED
    BY <1>7, <1>9, <2>1 DEF RunFails, Event
<1>10. CASE RunExceeds(p)
  <2>1. Event("stop", p, "cost") \in Events
    BY <1>1 DEF Event, Events
  <2> QED
    BY <1>7, <1>10, <2>1 DEF RunExceeds, Event
<1> QED
  BY <1>4, <1>5, <1>6, <1>8, <1>9, <1>10 DEF Agent, RunEnded

---------------------------------------------------------------------------
\* The event in hand is the first of the chain, of a trigger, about a thread.
LEMMA HeadEvent ==
  ASSUME TypeInv, OfTriggers, chain # <<>>
  PROVE  /\ 1 \in DOMAIN chain /\ Current = chain[1] /\ Current \in Events /\ CurrentThread = Of(1)
         /\ CurrentThread \in Threads /\ Triggered(Current.p) /\ Current.p \in Clients
         /\ Current.k \in {"invoke", "run", "stop"} /\ (EndsAt(1) <=> Current.k # "invoke")
         /\ Current.k = "run" => Current.out \in Endings
         /\ Current.k = "stop" => Current.out = "cost"
<1>1. 1 \in DOMAIN chain /\ Current = chain[1] /\ Current \in Events
  BY DEF TypeInv, TypeOK, Current
<1>2. Current.p \in Clients /\ thr[Current.p] \in Threads
  BY <1>1, ClientsRun DEF OfTriggers, TypeInv, TypeOK
<1>3. Current.k \in {"invoke", "run", "stop"}
  BY <1>1 DEF Events
<1> QED
  BY <1>1, <1>2, <1>3 DEF OfTriggers, CurrentThread, Of, EndsAt

\* what the handler leaves alone
HandlerFrame ==
  /\ UNCHANGED <<job, run, cred, arg, waits>>
  /\ \A q \in Procs \ {handler} : pc'[q] = pc[q] /\ thr'[q] = thr[q] /\ upd'[q] = upd[q] /\ ret'[q] = ret[q]
  /\ chain # <<>>
  /\ chain' = chain \/ (At(handler, "landed") /\ Landed)

\* The steps of the handler have this frame.
LEMMA HandlerFramed ==
  ASSUME TypeInv, Handler, chain # <<>> /\ Current.k = "run" => Current.out # Waiting
  PROVE  HandlerFrame
<1>1. chain # <<>>
  BY DEF Handler, HandleInvoke, ClearCostState, HandleRun, HandleStop, Landed, UpdatesRow, UpdateRead,
         UpdateStatus, UpdateMeta, Idle, TypeInv, EventInHand, At
<1>2. handler \in Procs
  BY DEF Procs
<1>3. CASE Landed
  BY <1>1, <1>2, <1>3 DEF HandlerFrame, Landed, stores, Goto, TypeInv, TypeOK
<1>4. CASE HandleInvoke \/ ClearCostState \/ HandleRun \/ HandleStop
  <2>1. UNCHANGED <<job, run, chain, cred, arg, waits>>
    BY <1>4 DEF HandleInvoke, ClearCostState, HandleRun, HandleStop, stores, agent
  <2>2. \E l : pc' = [pc EXCEPT ![handler] = l]
    BY <1>4 DEF HandleInvoke, ClearCostState, HandleRun, HandleStop, Emit, Goto
  <2>3. UNCHANGED <<thr, upd, ret>> \/ \E t, u, l : Emit(handler, t, u, l)
    <3>1. CASE HandleInvoke
      BY <3>1, Zenon DEF HandleInvoke
    <3>2. CASE ClearCostState \/ HandleRun
      BY <3>2, Zenon DEF ClearCostState, HandleRun
    <3>3. CASE HandleStop
      BY <3>3, Zenon DEF HandleStop
    <3> QED
      BY <1>4, <3>1, <3>2, <3>3
  <2> QED
    BY <1>1, <2>1, <2>2, <2>3 DEF HandlerFrame, Emit, TypeInv, TypeOK
<1>5. CASE UpdatesRow(handler)
  <2>1. UNCHANGED <<job, run, chain, cred, arg, waits, thr>>
    BY <1>5 DEF UpdatesRow, UpdateRead, UpdateStatus, UpdateMeta, stores, agent
  <2>2. \E l : pc' = [pc EXCEPT ![handler] = l]
    BY <1>5 DEF UpdatesRow, UpdateRead, UpdateStatus, UpdateMeta, Return, Goto
  <2>3. UNCHANGED <<upd, ret>> \/ \E u, l : upd' = [upd EXCEPT ![handler] = u] /\ ret' = [ret EXCEPT ![handler] = l]
    BY <1>5 DEF UpdatesRow, UpdateRead, UpdateStatus, UpdateMeta, Return
  <2> QED
    BY <1>1, <2>1, <2>2, <2>3 DEF HandlerFrame, TypeInv, TypeOK
<1> QED
  BY <1>3, <1>4, <1>5 DEF Handler

\* The handler has nothing to do with the requests, nor with the order of the events.
LEMMA HandlerKeepsTurns ==
  ASSUME TypeInv, Bystanders, Asking, Turns, HandlerFrame
  PROVE  Bystanders' /\ Asking' /\ Turns'
<1> USE DEF HandlerFrame
<1>1. Clients \subseteq Procs \ {handler} /\ Clients \subseteq Runners
  BY ClientsRun, RunnersAreProcs
<1>2. Bystanders'
  BY DEF Bystanders, At
<1>3. \A i \in DOMAIN chain' : \E m \in DOMAIN chain : chain'[i] = chain[m]
  <2>1. CASE chain' = chain
    BY <2>1
  <2>2. CASE chain' = Tail(chain)
    <3>1. DOMAIN chain' = 1 .. (Len(chain) - 1) /\ \A i \in DOMAIN chain' : i + 1 \in DOMAIN chain /\ chain'[i] = chain[i + 1]
      BY <2>2 DEF TypeInv, TypeOK
    <3> QED
      BY <3>1
  <2> QED
    BY <2>1, <2>2 DEF Landed
<1>4. Asking'
  <2>1. \A q \in Clients : pc'[q] = pc[q]
    BY <1>1
  <2>2. \A q \in Clients : (\A i \in DOMAIN chain : chain[i].p # q) => (\A i \in DOMAIN chain' : chain'[i].p # q)
    BY <1>3
  <2> QED
    BY <2>1, <2>2 DEF Asking, At, Triggered
<1>5. Turns'
  <2>1. CASE chain' = chain
    <3>1. SameEvents
      BY <1>1, <2>1 DEF SameEvents, Turns, OfTriggers, Triggered
    <3> QED
      BY <2>1, <3>1, TurnsStay
  <2>2. CASE Landed
    <3>1. chain' = Tail(chain) /\ thr' = thr
      BY <2>2 DEF Landed
    <3> QED
      BY <3>1, TurnsTail
  <2> QED
    BY <2>1, <2>2
<1> QED
  BY <1>2, <1>4, <1>5

\* While an event is in hand, the row of its thread is not the one that shows a later end or a live run.
LEMMA HandShown ==
  ASSUME TypeInv, Turns, LiveShows, EndFindsRunning, HandlerFrame, chain' = chain, pc'[handler] # "idle",
         \A t \in Threads \ {CurrentThread} : row'[t] = row[t]
  PROVE  LiveShows' /\ EndFindsRunning'
<1> USE DEF HandlerFrame
<1>1. Clients \subseteq Procs \ {handler} /\ Clients \subseteq Runners /\ Clients \subseteq Procs
  BY ClientsRun, RunnersAreProcs
<1>2. /\ 1 \in DOMAIN chain /\ CurrentThread = Of(1) /\ DOMAIN chain = 1 .. Len(chain) /\ Len(chain) \in Nat
  BY HeadEvent DEF Turns, TypeInv, TypeOK
<1>3. \A i \in DOMAIN chain : /\ Of(i)' = Of(i) /\ EndsAt(i)' = EndsAt(i) /\ Of(i) \in Threads
  BY <1>1 DEF Of, EndsAt, Turns, OfTriggers, TypeInv, TypeOK
<1>4. LiveShows'
  <2> SUFFICES ASSUME NEW q \in Clients, run[q].st = "live", \A i \in DOMAIN chain : chain[i].p # q
               PROVE  row'[thr'[q]].status = Running
    BY DEF LiveShows
  <2>1. thr'[q] = thr[q] /\ thr[q] \in Threads
    BY <1>1 DEF TypeInv, TypeOK
  <2>2. thr[q] # CurrentThread
    BY <1>2 DEF Turns, LiveIsLast
  <2> QED
    BY <2>1, <2>2 DEF LiveShows
<1>5. EndFindsRunning'
  <2> SUFFICES ASSUME NEW j \in DOMAIN chain, EndsAt(j), j # 1, \A i \in DOMAIN chain : i < j => Of(i) # Of(j)
               PROVE  row'[Of(j)].status = Running
    BY <1>3 DEF EndFindsRunning, At
  <2>1. Of(j) # CurrentThread
    BY <1>2
  <2> QED
    BY <1>3, <2>1 DEF EndFindsRunning
<1> QED
  BY <1>4, <1>5

\* The event that leaves has shown its thread Running to the end it comes before.
LEMMA LandedShown ==
  ASSUME TypeInv, Turns, RowsShown, HandlerFrame, Landed
  PROVE  RowsShown'
<1> USE DEF HandlerFrame
<1>1. Clients \subseteq Procs \ {handler} /\ Clients \subseteq Runners /\ Clients \subseteq Procs
  BY ClientsRun, RunnersAreProcs
<1>2. /\ 1 \in DOMAIN chain /\ CurrentThread = Of(1) /\ DOMAIN chain = 1 .. Len(chain)
      /\ Len(chain) \in Nat /\ Current = chain[1] /\ (~EndsAt(1) => Current.k = "invoke")
  BY HeadEvent DEF Turns, TypeInv, TypeOK
<1>3. /\ DOMAIN chain' = 1 .. (Len(chain) - 1) /\ UNCHANGED <<row, thr>> /\ pc'[handler] = "idle"
      /\ \A i \in DOMAIN chain' : i \in Nat \ {0} /\ i + 1 \in DOMAIN chain /\ chain'[i] = chain[i + 1]
      /\ \A m \in DOMAIN chain : m # 1 => m - 1 \in DOMAIN chain' /\ chain'[m - 1] = chain[m]
  <2>1. chain' = Tail(chain) /\ UNCHANGED <<row, thr>> /\ Goto(handler, "idle")
    BY DEF Landed, stores
  <2>2. pc'[handler] = "idle"
    BY <2>1 DEF TypeInv, TypeOK, Goto, Procs
  <2>3. /\ DOMAIN chain' = 1 .. (Len(chain) - 1)
        /\ \A i \in DOMAIN chain' : i \in Nat \ {0} /\ i + 1 \in DOMAIN chain /\ chain'[i] = chain[i + 1]
    BY <2>1 DEF TypeInv, TypeOK
  <2>4. \A m \in DOMAIN chain : m # 1 => m - 1 \in DOMAIN chain' /\ chain'[m - 1] = chain[m]
    BY <1>2, <2>3
  <2> QED
    BY <2>1, <2>2, <2>3, <2>4
<1>4. ~EndsAt(1) => row[CurrentThread].status = Running
  BY <1>2 DEF RowsShown, InHand, InvokeInHand, Landed, At
<1>5. LiveShows'
  <2> SUFFICES ASSUME NEW q \in Clients, run[q].st = "live", \A i \in DOMAIN chain' : chain'[i].p # q
               PROVE  row[thr[q]].status = Running
    BY <1>3 DEF LiveShows
  <2>1. CASE chain[1].p = q
    BY <1>2, <1>4, <2>1 DEF Turns, NotOver, Of
  <2>2. CASE chain[1].p # q
    BY <1>3, <2>2 DEF RowsShown, LiveShows
  <2> QED
    BY <2>1, <2>2
<1>6. EndFindsRunning'
  <2> SUFFICES ASSUME NEW j \in (DOMAIN chain)', EndsAt(j)', \A i \in DOMAIN chain' : i < j => Of(i)' # Of(j)'
               PROVE  row[Of(j)'].status = Running
    BY <1>3 DEF EndFindsRunning
  <2>1. j + 1 \in DOMAIN chain /\ Of(j)' = Of(j + 1) /\ EndsAt(j + 1) /\ j + 1 # 1
    BY <1>3 DEF Of, EndsAt
  <2>2. \A i \in DOMAIN chain : i # 1 /\ i < j + 1 => Of(i) # Of(j + 1)
    BY <1>2, <1>3, <2>1 DEF Of
  <2>3. CASE Of(1) # Of(j + 1)
    BY <1>2, <2>1, <2>2, <2>3 DEF RowsShown, EndFindsRunning
  <2>4. CASE Of(1) = Of(j + 1)
    <3>1. chain[1].p = chain[j + 1].p
      <4> SUFFICES ASSUME chain[1].p # chain[j + 1].p PROVE FALSE
        OBVIOUS
      <4>1. PICK m \in DOMAIN chain : 1 < m /\ m < j + 1 /\ chain[m].p = chain[j + 1].p
        BY <1>2, <1>3, <2>1, <2>4 DEF Turns, InTurn
      <4> QED
        BY <1>2, <2>2, <4>1 DEF Of
    <3>2. ~EndsAt(1)
      BY <1>2, <1>3, <2>1, <3>1 DEF Turns, InvokeThenEnd
    <3> QED
      BY <1>2, <1>4, <2>1, <2>4, <3>2
  <2> QED
    BY <2>3, <2>4
<1>7. InHand'
  BY <1>3 DEF InHand, At
<1> QED
  BY <1>5, <1>6, <1>7 DEF RowsShown

\* the step leaves the status of thread t, sets it Running, or ends its being Running; no other row changes
RowMoves(t) ==
  /\ \A u \in Threads \ {t} : row'[u] = row[u]
  /\ \/ row'[t].status \in {row[t].status, Running}
     \/ row[t].status = Running /\ row'[t].status \in Endings

\* A write of the row in hand that keeps the clock.
LEMMA SoundWrite ==
  ASSUME TypeInv, RowsSound, NEW t \in Threads, NEW r, ClockOK(r), r.status # Waiting, Write(t, r)
  PROVE  RowsSound' /\ row'[t] = r /\ \A u \in Threads \ {t} : row'[u] = row[u]
  BY DEF TypeInv, TypeOK, RowsSound, ClockFollowsStatus, Write

\* The handler takes an event, or goes on with it, and emits the update.
LEMMA HandledInHand ==
  ASSUME Calm, TypeInv, Turns, RowsShown, RowsSound, HandleInvoke \/ ClearCostState \/ HandleRun \/ HandleStop
  PROVE  InHand' /\ RowsSound' /\ chain' = chain /\ pc'[handler] # "idle" /\ RowMoves(CurrentThread)
<1>1. handler \in Procs /\ chain # <<>> /\ chain' = chain /\ UNCHANGED <<run, snap, arg>>
  BY DEF HandleInvoke, ClearCostState, HandleRun, HandleStop, Idle, TypeInv, EventInHand, At,
         Procs, agent
<1>2. /\ 1 \in DOMAIN chain /\ Current = chain[1] /\ CurrentThread = Of(1) /\ CurrentThread \in Threads
      /\ Triggered(Current.p) /\ Current.p \in Clients /\ Current.k \in {"invoke", "run", "stop"}
      /\ (Current.k # "invoke" => EndsAt(1)) /\ (Current.k = "stop" => Current.out = "cost")
      /\ Current' = Current
  BY <1>1, HeadEvent DEF Turns, Current
<1>3. CurrentThread' = CurrentThread
  <2>1. \A q \in Procs \ {handler} : thr'[q] = thr[q]
    BY DEF HandleInvoke, ClearCostState, HandleRun, HandleStop, Emit, TypeInv, TypeOK
  <2> QED
    BY <1>1, <1>2, <2>1, ClientsRun DEF CurrentThread
<1>4. \A t \in Threads : row[t] \in Row /\ ClockOK(row[t]) /\ row[t].status # Waiting
  BY DEF RowsSound, ClockFollowsStatus, TypeInv, TypeOK
<1>5. UNCHANGED row => RowsSound' /\ RowMoves(CurrentThread)
  BY DEF RowsSound, ClockFollowsStatus, RowMoves
<1>6. ASSUME At(handler, "idle"), EndsAt(1) PROVE row[CurrentThread].status = Running
  BY <1>2, <1>6 DEF RowsShown, EndFindsRunning, TypeInv, TypeOK
<1>7. ASSUME NEW u, NEW l, Emit(handler, CurrentThread, u, l)
      PROVE  pc'[handler] = "tuRead" /\ ret'[handler] = l /\ thr'[handler] = CurrentThread /\ upd'[handler] = u
  BY <1>1, <1>7 DEF Emit, Goto, TypeInv, TypeOK
<1>8. ASSUME Goto(handler, "landed") PROVE pc'[handler] = "landed"
  BY <1>1, <1>8 DEF Goto, TypeInv, TypeOK
<1>9. CASE HandleInvoke
  <2>1. Current.k = "invoke" /\ Write(CurrentThread, InvokedRow(row[CurrentThread]))
    BY <1>9 DEF HandleInvoke, Idle
  <2>2. ClockOK(InvokedRow(row[CurrentThread])) /\ InvokedRow(row[CurrentThread]).status = Running
    BY <1>2, <1>4, CalmWrites
  <2>3. RowsSound' /\ row'[CurrentThread].status = Running /\ RowMoves(CurrentThread)
    BY <1>2, <2>1, <2>2, SoundWrite DEF Running, Waiting, RowMoves
  <2>4. CASE Goto(handler, "landed")
    BY <1>1, <1>2, <1>3, <1>8, <2>1, <2>3, <2>4 DEF InHand, InvokeInHand, Emitting, UpdateLabels
  <2>5. ASSUME NEW l \in {"invoked", "landed"}, Emit(handler, CurrentThread, RunningDto, l) PROVE InHand' /\ pc'[handler] # "idle"
    BY <1>2, <1>3, <1>7, <2>1, <2>3, <2>5 DEF InHand, InvokeInHand, Emitting, UpdateLabels, RunningDto, Dropping
  <2> QED
    BY <1>1, <1>8, <1>9, <2>3, <2>4, <2>5 DEF HandleInvoke
<1>10. CASE ClearCostState
  <2>1. /\ At(handler, "invoked") /\ Emit(handler, CurrentThread, Dropping("keep", CostMarkers), "landed")
        /\ UNCHANGED row
    BY <1>10 DEF ClearCostState, stores
  <2>2. Current.k = "invoke" /\ InvokeInHand
    BY <1>2, <2>1 DEF RowsShown, InHand, RunInHand, StopInHand, At
  <2>3. row'[CurrentThread].status = Running
    BY <2>1, <2>2 DEF InvokeInHand
  <2>4. Dropping("keep", CostMarkers).status = "keep"
    BY DEF Dropping
  <2> QED
    BY <1>1, <1>2, <1>3, <1>5, <1>7, <2>1, <2>2, <2>3, <2>4 DEF InHand, InvokeInHand, Emitting, UpdateLabels
<1>11. CASE HandleRun
  <2>1. /\ At(handler, "idle") /\ Current.k = "run" /\ UNCHANGED row
        /\ Emit(handler, CurrentThread, Update(Current.out), "landed")
    BY <1>11 DEF HandleRun, stores, Idle
  <2>2. row'[CurrentThread].status = Running
    BY <1>2, <1>6, <2>1
  <2> QED
    BY <1>1, <1>2, <1>3, <1>5, <1>7, <2>1, <2>2 DEF InHand, RunInHand, Emitting, UpdateLabels, At
<1>12. CASE HandleStop
  <2>1. (At(handler, "stopping") \/ (At(handler, "idle") /\ Current.k = "stop")) /\ UNCHANGED row
    BY <1>12 DEF HandleStop, stores, Idle
  <2>2. /\ Current.k = "stop" /\ row'[CurrentThread].status \in {Running, Stopped}
    BY <1>2, <1>6, <2>1 DEF RowsShown, InHand, InvokeInHand, RunInHand, StopInHand, At
  <2>3. Goto(handler, "landed") \/ Emit(handler, CurrentThread, CostStop, "stopping")
    BY <1>2, <1>12, <2>2 DEF HandleStop
  <2>4. CASE Goto(handler, "landed")
    BY <1>1, <1>2, <1>3, <1>5, <1>8, <2>1, <2>2, <2>4 DEF InHand, StopInHand, Emitting, UpdateLabels, At
  <2>5. CASE Emit(handler, CurrentThread, CostStop, "stopping")
    BY <1>1, <1>2, <1>3, <1>5, <1>7, <2>1, <2>2, <2>5 DEF InHand, StopInHand, Emitting, UpdateLabels, At
  <2> QED
    BY <2>3, <2>4, <2>5
<1> QED
  BY <1>1, <1>9, <1>10, <1>11, <1>12

\* The return from an update of the handler.
LEMMA HandlerReturns ==
  ASSUME TypeInv, Return(handler)
  PROVE  pc'[handler] = ret[handler]
  BY DEF TypeInv, TypeOK, Return, Goto, Procs

\* The update of the event in hand: only the end of a run takes its thread out of Running.
LEMMA UpdateInHand ==
  ASSUME TypeInv, Turns, RowsShown, RowsSound, UpdatesRow(handler)
  PROVE  InHand' /\ RowsSound' /\ chain' = chain /\ pc'[handler] # "idle" /\ RowMoves(CurrentThread)
<1>1. /\ handler \in Procs /\ chain # <<>> /\ ~At(handler, "idle") /\ pc[handler] \in UpdateLabels
      /\ chain' = chain /\ thr' = thr
  BY DEF UpdatesRow, UpdateRead, UpdateStatus, UpdateMeta, TypeInv, EventInHand, At, Procs, agent, UpdateLabels
<1>2. /\ CurrentThread \in Threads /\ Current.k \in {"invoke", "run", "stop"}
      /\ (Current.k = "run" => Current.out \in Endings)
      /\ Current' = Current /\ CurrentThread' = CurrentThread
  BY <1>1, HeadEvent DEF Turns, Current, CurrentThread
<1>3. /\ row[CurrentThread] \in Row /\ ClockOK(row[CurrentThread]) /\ row[CurrentThread].status # Waiting
      /\ snap[handler] \in Row /\ upd[handler] \in Updates
  BY <1>1, <1>2 DEF RowsSound, ClockFollowsStatus, TypeInv, TypeOK
<1>4. /\ thr[handler] = CurrentThread
      /\ Current.k = "invoke" => InvokeInHand /\ ret[handler] \in {"invoked", "landed"}
      /\ Current.k = "run" => RunInHand /\ ret[handler] = "landed"
      /\ Current.k = "stop" => StopInHand /\ ret[handler] = "stopping"
  BY <1>1, <1>2 DEF RowsShown, InHand, InvokeInHand, RunInHand, StopInHand, Emitting
<1>5. UNCHANGED row => RowsSound' /\ RowMoves(CurrentThread)
  BY DEF RowsSound, ClockFollowsStatus, RowMoves
<1>6. ASSUME Return(handler), Current.k = "invoke" => row'[CurrentThread].status = Running,
             Current.k = "stop" => row'[CurrentThread].status \in {Running, Stopped}
      PROVE  InHand' /\ pc'[handler] # "idle"
  <2>1. pc'[handler] = ret[handler]
    BY <1>6, HandlerReturns
  <2> QED
    BY <1>2, <1>4, <1>6, <2>1 DEF InHand, InvokeInHand, RunInHand, StopInHand, Emitting, UpdateLabels, At
<1>7. CASE UpdateRead(handler)
  <2> DEFINE r == row[CurrentThread]
             u == upd[handler]
  <2>1. UNCHANGED row /\ At(handler, "tuRead")
    BY <1>7 DEF UpdateRead, stores
  <2>2. /\ Current.k = "invoke" => r.status = Running /\ u.status \in {"keep", Running}
        /\ Current.k = "run" => r.status = Running /\ u = Update(Current.out)
        /\ Current.k = "stop" => r.status \in {Running, Stopped} /\ u = CostStop
    BY <1>1, <1>4, <2>1 DEF InvokeInHand, RunInHand, StopInHand, At
  <2>3. CASE Return(handler)
    BY <1>1, <1>5, <1>6, <2>1, <2>2, <2>3
  <2>4. CASE /\ Goto(handler, IF ChangesStatus(r, u) THEN "tuStatus" ELSE "tuMeta")
             /\ Load(handler, thr[handler]) /\ UNCHANGED <<upd, ret>>
             /\ ChangesStatus(r, u) \/ ChangesMeta(r, u)
    <3>1. /\ pc'[handler] = IF ChangesStatus(r, u) THEN "tuStatus" ELSE "tuMeta"
          /\ snap'[handler] = r
      BY <1>1, <1>4, <2>4 DEF Goto, Load, TypeInv, TypeOK
    <3>2. CASE Current.k = "invoke"
      <4>1. ~ChangesStatus(r, u)
        BY <2>2, <3>2 DEF ChangesStatus
      <4> QED
        BY <1>1, <1>2, <1>4, <1>5, <2>1, <2>2, <2>4, <3>1, <3>2, <4>1
           DEF InHand, InvokeInHand, Emitting, UpdateLabels
    <3>3. CASE Current.k = "run"
      <4>1. ChangesStatus(r, u)
        BY <1>2, <2>2, <3>3 DEF ChangesStatus, Update, Endings, Running, Done, NeedMoreInfo, Stopped
      <4>2. r.started
        BY <1>3, <2>2, <3>3 DEF ClockOK
      <4> QED
        BY <1>1, <1>2, <1>4, <1>5, <2>1, <2>2, <2>4, <3>1, <3>3, <4>1, <4>2
           DEF InHand, RunInHand, Emitting, UpdateLabels, At
    <3>4. CASE Current.k = "stop"
      <4>1. ChangesStatus(r, u) => r.status = Running /\ r.started
        BY <1>3, <2>2, <3>4 DEF ChangesStatus, CostStop, ClockOK
      <4> QED
        BY <1>1, <1>2, <1>4, <1>5, <2>1, <2>2, <2>4, <3>1, <3>4, <4>1
           DEF InHand, StopInHand, Emitting, UpdateLabels, At
    <3> QED
      BY <1>2, <3>2, <3>3, <3>4
  <2> QED
    BY <1>1, <1>4, <1>7, <2>3, <2>4 DEF UpdateRead
<1>8. CASE UpdateStatus(handler)
  <2> DEFINE r == row[CurrentThread]
             s == snap[handler]
             u == upd[handler]
  <2>1. At(handler, "tuStatus") /\ Write(CurrentThread, ApplyStatus(r, s, u))
    BY <1>4, <1>8 DEF UpdateStatus
  <2>2. /\ Current.k # "invoke" /\ s.status = Running /\ s.started
        /\ Current.k = "run" => u = Update(Current.out)
        /\ Current.k = "stop" => u = CostStop
    BY <1>1, <1>2, <1>4, <2>1 DEF InvokeInHand, RunInHand, StopInHand, At
  <2>3. u.status \in Endings /\ (Current.k = "stop" => u.status = Stopped)
    BY <1>2, <2>2 DEF Update, CostStop, Endings
  <2>4. /\ ApplyStatus(r, s, u).status = u.status /\ ~ApplyStatus(r, s, u).started
    BY <1>3, <2>2, <2>3 DEF ApplyStatus, WriteStatus, Enters, Leaves, Row, Endings, Running, Done, NeedMoreInfo, Stopped
  <2>5. ClockOK(ApplyStatus(r, s, u)) /\ ApplyStatus(r, s, u).status # Waiting
    BY <2>3, <2>4 DEF ClockOK, Endings, Running, Waiting, Done, NeedMoreInfo, Stopped
  <2>6. RowsSound' /\ row'[CurrentThread] = ApplyStatus(r, s, u) /\ RowMoves(CurrentThread)
    <3>1. r.status = Running
      BY <1>1, <1>2, <1>4, <2>1, <2>2 DEF RunInHand, StopInHand, At
    <3> QED
      BY <1>2, <2>1, <2>3, <2>4, <2>5, <3>1, SoundWrite DEF RowMoves
  <2>7. Current.k = "run" => ~ChangesMeta(s, u)
    BY <2>2 DEF ChangesMeta, ClearsWait, Update, Running, Waiting
  <2>8. CASE Return(handler)
    BY <1>1, <1>6, <2>2, <2>3, <2>4, <2>6, <2>8
  <2>9. CASE ChangesMeta(s, u) /\ Goto(handler, "tuMeta") /\ UNCHANGED <<snap, upd, ret>>
    <3>1. pc'[handler] = "tuMeta" /\ Current.k = "stop"
      BY <1>1, <1>2, <2>2, <2>7, <2>9 DEF Goto, TypeInv, TypeOK
    <3> QED
      BY <1>1, <1>2, <1>4, <2>2, <2>3, <2>4, <2>6, <2>9, <3>1 DEF InHand, StopInHand, Emitting, UpdateLabels, At
  <2> QED
    BY <1>1, <1>8, <2>6, <2>8, <2>9 DEF UpdateStatus
<1>9. CASE UpdateMeta(handler)
  <2> DEFINE r == row[CurrentThread]
             m == ApplyMeta(r, snap[handler], upd[handler])
  <2>1. At(handler, "tuMeta") /\ Write(CurrentThread, m) /\ Return(handler)
    BY <1>4, <1>9 DEF UpdateMeta
  <2>2. m.status = r.status /\ m.started = r.started
    BY <1>3 DEF ApplyMeta, WriteMeta, Row
  <2>3. ClockOK(m) /\ m.status # Waiting
    BY <1>3, <2>2 DEF ClockOK
  <2>4. RowsSound' /\ row'[CurrentThread] = m /\ RowMoves(CurrentThread)
    BY <1>2, <2>1, <2>2, <2>3, SoundWrite DEF RowMoves
  <2>5. /\ Current.k = "invoke" => row'[CurrentThread].status = Running
        /\ Current.k = "stop" => row'[CurrentThread].status \in {Running, Stopped}
    BY <1>4, <2>1, <2>2, <2>4 DEF InvokeInHand, StopInHand, At
  <2> QED
    BY <1>1, <1>6, <2>1, <2>4, <2>5
<1> QED
  BY <1>7, <1>8, <1>9 DEF UpdatesRow

\* The handler keeps the invariants.
LEMMA HandlerKeepsRows ==
  ASSUME Calm, TypeInv, RowsInv, Handler
  PROVE  RowsInv' /\ \E t \in Threads : RowMoves(t)
<1> USE DEF RowsInv
<1>1. HandlerFrame /\ CurrentThread \in Threads
  <2>1. chain # <<>> /\ Current.k = "run" => Current.out # Waiting
    BY HeadEvent DEF Turns, Endings, Done, NeedMoreInfo, Stopped, Waiting
  <2> QED
    BY <2>1, HandlerFramed, HeadEvent DEF HandlerFrame, Turns
<1>2. Bystanders' /\ Asking' /\ Turns'
  BY <1>1, HandlerKeepsTurns
<1>3. CASE Landed
  <2>1. RowsShown'
    BY <1>1, <1>3, LandedShown
  <2>2. RowsSound' /\ RowMoves(CurrentThread)
    BY <1>3 DEF Landed, stores, RowsSound, ClockFollowsStatus, RowMoves
  <2> QED
    BY <1>1, <1>2, <2>1, <2>2
<1>4. CASE ~Landed
  <2>1. InHand' /\ RowsSound' /\ chain' = chain /\ pc'[handler] # "idle" /\ RowMoves(CurrentThread)
    BY <1>4, HandledInHand, UpdateInHand DEF Handler
  <2>2. LiveShows' /\ EndFindsRunning'
    BY <1>1, <2>1, HandShown DEF RowsShown, RowMoves
  <2> QED
    BY <1>1, <1>2, <2>1, <2>2 DEF RowsShown
<1> QED
  BY <1>3, <1>4

---------------------------------------------------------------------------
\* Every step keeps the invariants, and moves the status of at most one thread.
LEMMA RowsStep ==
  ASSUME Calm, IInv, RowsInv, [Next]_vars
  PROVE  RowsInv' /\ \E t \in Threads : RowMoves(t)
<1>1. TypeInv /\ NoParallelRuns
  BY OneLive DEF IInv
<1>2. PICK t \in Threads : TRUE
  BY FiniteAssumption
<1>3. row' = row => RowMoves(t)
  BY DEF RowMoves
<1>4. CASE UNCHANGED vars
  <2>1. UNCHANGED <<row, job, run, execs, chain, waits, waited, cred, pc, thr, snap, upd, ret, arg>>
    BY <1>4 DEF vars, stores, agent, procs
  <2>2. Bystanders' /\ Asking'
    BY <2>1 DEF RowsInv, Bystanders, Asking, At, Triggered
  <2>3. Turns'
    BY <2>1 DEF RowsInv, Turns, OfTriggers, InvokeThenEnd, NotOver, InTurn, LiveOrEnded, LiveIsLast,
                EndsAt, Of, Triggered
  <2>4. RowsShown' /\ RowsSound'
    BY <2>1, StayShown DEF RowsInv, RowsSound, ClockFollowsStatus
  <2> QED
    BY <1>3, <2>1, <2>2, <2>3, <2>4 DEF RowsInv
<1>5. CASE Next
  <2>1. (\E p \in Clients : CalmRequest(p) \/ Agent(p)) \/ Handler
    BY <1>1, <1>5, CalmStep DEF RowsInv
  <2>2. ASSUME NEW p \in Clients, CalmRequest(p) PROVE RowsInv' /\ \E u \in Threads : RowMoves(u)
    <3>1. RequestShape(p) /\ AskingOne(p)'
      BY <1>1, <2>2, RequestsShaped DEF RowsInv
    <3>2. \E u \in Threads : RowMoves(u)
      <4>1. PICK u, r : u \in Threads /\ row' = [row EXCEPT ![u] = r] /\ r.status \in {row[u].status, Running}
        BY <3>1 DEF RequestShape
      <4>2. RowMoves(u)
        BY <1>1, <4>1 DEF RowMoves, TypeInv, TypeOK
      <4> QED
        BY <4>1, <4>2
    <3> QED
      BY <1>1, <2>2, <3>1, <3>2, RequestKeepsRows
  <2>3. ASSUME NEW p \in Clients, Agent(p) PROVE RowsInv' /\ \E u \in Threads : RowMoves(u)
    <3>1. row' = row
      BY <2>3 DEF Agent, EnterRun, RunUnprepared, AgentDecides, RunEnded, RunEnds, RunFails, RunExceeds,
                  Settle, stores
    <3> QED
      BY <1>1, <1>3, <2>3, <3>1, AgentKeepsRows
  <2> QED
    BY <1>1, <2>1, <2>2, <2>3, HandlerKeepsRows
<1> QED
  BY <1>4, <1>5

\* RowsInv is an invariant of a server whose threads nothing pauses or stops.
LEMMA CalmRows ==
  ASSUME Calm
  PROVE  Spec => [](IInv /\ RowsInv)
<1>1. IInv /\ RowsInv /\ [Next]_vars => RowsInv'
  BY RowsStep
<1> QED
  BY <1>1, RowsInit, Inductive, PTL DEF Spec

(* ThreadUpdateNotificationHandler and the upserts keep the running clock with the
   status in every state: the status write of the handler is computed from an entity
   that it read while the thread was Running, and nothing but the handler takes a
   thread out of Running. *)
THEOREM ClocksFollow ==
  ASSUME Calm
  PROVE  Spec => []ClockFollowsStatus
<1>1. RowsInv => ClockFollowsStatus
  BY DEF RowsInv, RowsSound
<1> QED
  BY <1>1, CalmRows, PTL

(* A thread whose run is live is shown Running once the event handler is idle: the
   end of an earlier run of the thread was emitted, and is handled, before the invoke
   of the run that is live, whichever requests overlap. *)
THEOREM LiveRunsShow ==
  ASSUME Calm
  PROVE  Spec => []LiveRunShows
<1>1. IInv /\ RowsInv => LiveRunShows
  <2> SUFFICES ASSUME IInv, RowsInv, NEW t \in Threads, Quiet, NEW p \in Active(t)
               PROVE  row[t].status = Running
    BY DEF LiveRunShows
  <2>1. p \in Clients /\ run[p].st = "live" /\ thr[p] = t
    BY DEF RowsInv, Bystanders, Active, Runners
  <2> QED
    BY <2>1 DEF Quiet, RowsInv, RowsShown, LiveShows
<1> QED
  BY <1>1, CalmRows, PTL

(* The rows implement ThreadPromise: whatever requests overlap, the status of a thread
   goes to Running, or from Running to the outcome of the run that ends, which no late
   event replaces. *)
THEOREM PromisesKept ==
  ASSUME Calm
  PROVE  Spec => PromiseKept
<1> DEFINE status == [t \in Threads |-> row[t].status]
<1>1. Init => Promise!Init
  BY DEF Init, Promise!Init, NoRow, Absent
<1>2. IInv /\ RowsInv /\ [Next]_vars => [Promise!Next]_status
  <2> SUFFICES ASSUME IInv, RowsInv, [Next]_vars PROVE Promise!Next \/ status' = status
    OBVIOUS
  <2>1. PICK t \in Threads : RowMoves(t)
    BY RowsStep
  <2>2. \A u \in Threads \ {t} : row'[u] = row[u]
    BY <2>1 DEF RowMoves
  <2>3. status' = [status EXCEPT ![t] = row'[t].status]
    BY <2>2
  <2>4. CASE row'[t].status = row[t].status
    BY <2>2, <2>4
  <2>5. CASE row'[t].status = Running /\ row[t].status # Running
    <3>1. Promise!Start(t)
      BY <2>3, <2>5 DEF Promise!Start, Promise!Becomes, Running
    <3> QED
      BY <3>1 DEF Promise!Next
  <2>6. CASE row[t].status = Running /\ row'[t].status \in Endings
    <3>1. row'[t].status \in Promise!Endings
      BY <2>6 DEF Endings, Promise!Endings, Done, NeedMoreInfo, Stopped
    <3>2. Promise!Finish(t)
      BY <2>3, <2>6, <3>1 DEF Promise!Finish, Promise!Becomes, Running
    <3> QED
      BY <3>2 DEF Promise!Next
  <2> QED
    BY <2>1, <2>4, <2>5, <2>6 DEF RowMoves
<1> QED
  BY <1>1, <1>2, CalmRows, PTL DEF Spec, PromiseKept, Promise!Spec

---------------------------------------------------------------------------
(* No thread is left Running. Requests may stop threads, be refused by the pod and
   prepare runs together here; but the agent does not wait, the credential is there,
   no run reaches its cost limit, and a run that is not awaited can be prepared. *)
Undelayed ==
  /\ "wait" \notin Outcomes /\ Faults \cap {"unauth", "cred", "cost"} = {}
  /\ "async" \in Requests => "prepare" \notin Faults

\* what a request does, what it was asked and what it restores
PoisedOne(p) ==
  /\ pc[p] \in {"idle", "tPre", "tRun", "tAwait", "tRestore", "tEnsure", "kAgent", "kWrite", "done"}
                 \cup UpdateLabels
  /\ arg[p].op \in Requests \cup {"none"}
  /\ pc[p] \in {"tPre", "tRun", "tAwait", "tRestore", "tEnsure"} => Triggered(p)
  /\ At(p, "tAwait") => arg[p].op = "trigger"
  /\ pc[p] \in UpdateLabels => upd[p].status = Stopped /\ ret[p] = "done"
  /\ pc[p] \in {"idle", "tPre", "tRun"} =>
       run[p].st = "none" /\ \A i \in DOMAIN chain : chain[i].p # p
  /\ run[p].st # "none" => Triggered(p) /\ (arg[p].op = "trigger" => At(p, "tAwait"))
  /\ run[p].res # "wait"
  /\ arg[p].saved = NoRow \/ arg[p].saved.status \in Terminal
Poised == \A p \in Clients : PoisedOne(p)

\* the events are those of triggers and of manual stops
OfRuns ==
  \A i \in DOMAIN chain :
    /\ chain[i].p \in Clients
    /\ chain[i].k = "run" => chain[i].out \in Endings
    /\ chain[i].k = "stop" => chain[i].out = "manual"

\* the run of an invoke is live or its run event follows
InvokesEnd ==
  \A i \in DOMAIN chain : chain[i].k = "invoke" =>
    \/ run[chain[i].p].st = "live"
    \/ \E m \in DOMAIN chain : i < m /\ chain[m].p = chain[i].p /\ chain[m].k = "run"

\* event m is the invoke of run p, which the handler has not taken yet
InvokeDue(p, m) == chain[m].p = p /\ chain[m].k = "invoke" /\ (m # 1 \/ At(handler, "idle"))

\* a thread has its row once the invoke of a run has been taken
RowsThere ==
  /\ \A p \in Clients : run[p].st = "live" =>
       row[thr[p]].status # Absent \/ \E m \in DOMAIN chain : InvokeDue(p, m)
  /\ \A i \in DOMAIN chain : chain[i].k = "run" =>
       row[Of(i)].status # Absent \/ \E m \in DOMAIN chain : m < i /\ InvokeDue(chain[i].p, m)

\* the update of the handler, and where it goes from there
InHandWith(labels, next) ==
  pc[handler] \in labels /\ (pc[handler] \in UpdateLabels => ret[handler] \in next)

InvokeTaken ==
  /\ InHandWith(UpdateLabels \cup {"invoked", "landed"}, {"invoked", "landed"})
  /\ pc[handler] \in UpdateLabels => thr[handler] = CurrentThread /\ upd[handler].status \in {"keep", Running}
  /\ row[CurrentThread].status # Absent

RunTaken ==
  /\ InHandWith({"tuRead", "tuStatus", "landed"}, {"landed"})
  /\ pc[handler] \in UpdateLabels => thr[handler] = CurrentThread /\ upd[handler] = Update(Current.out)
  /\ At(handler, "tuStatus") => snap[handler].status \notin {Current.out, Waiting}

StopTaken ==
  /\ InHandWith(UpdateLabels \cup {"stopping", "landed"}, {"stopping"})
  /\ pc[handler] \in UpdateLabels => upd[handler].status = Stopped

Taken ==
  ~At(handler, "idle") =>
    /\ Current.k = "invoke" => InvokeTaken
    /\ Current.k = "run" => RunTaken
    /\ Current.k = "stop" => StopTaken

\* a request, its run or the row it restores will take its thread out of Running
Owes(p) ==
  \/ run[p].st = "live"
  \/ run[p].st = "prepared" /\ (arg[p].op = "async" \/ arg[p].saved # NoRow)
  \/ pc[p] \in {"tPre", "tRun", "tRestore"} /\ arg[p].saved # NoRow

\* ... and so will a run event that the handler has not done with
OwedAt(i) == chain[i].k = "run" /\ (i # 1 \/ ~At(handler, "landed"))
Owed(t)   == \/ \E p \in Clients : thr[p] = t /\ Owes(p)
             \/ \E i \in DOMAIN chain : Of(i) = t /\ OwedAt(i)

\* a thread that is Running, or that ensureThreadRow is about to insert as Running
RowsOwed ==
  /\ \A t \in Threads : row[t].status # Waiting /\ (row[t].status = Running => Owed(t))
  /\ \A p \in Clients : At(p, "tEnsure") /\ row[thr[p]].status = Absent => Owed(thr[p])

OwedInv == Bystanders /\ Poised /\ OfRuns /\ InvokesEnd /\ RowsThere /\ Taken /\ RowsOwed

\* The invariants hold in a server that just started.
LEMMA OwedInit ==
  ASSUME Undelayed, Init
  PROVE  OwedInv
<1> USE DEF Init
<1>1. Bystanders
  BY RunnersAreProcs DEF Bystanders, Undelayed, At, NoJob, NoRun, NoRow, Absent, Waiting, Runners
<1>2. Poised
  BY ClientsRun DEF Poised, PoisedOne, At, NoArg, NoRun, UpdateLabels, Procs
<1>3. OfRuns /\ InvokesEnd
  BY DEF OfRuns, InvokesEnd
<1>4. RowsThere
  BY ClientsRun DEF RowsThere, NoRun
<1>5. Taken
  BY DEF Taken, Procs, At
<1>6. RowsOwed
  BY ClientsRun DEF RowsOwed, NoRow, Absent, Running, Waiting, At, Procs
<1> QED
  BY <1>1, <1>2, <1>3, <1>4, <1>5, <1>6 DEF OwedInv

---------------------------------------------------------------------------
\* the chain grows by events of S
Grown(S) ==
  /\ DOMAIN chain \subseteq DOMAIN chain' /\ DOMAIN chain' \subseteq Nat \ {0}
  /\ \A i \in DOMAIN chain : chain'[i] = chain[i]
  /\ \A i \in DOMAIN chain' \ DOMAIN chain : chain'[i] \in S /\ \A m \in DOMAIN chain : m < i

\* Appending events grows the chain.
LEMMA GrownBy ==
  ASSUME TypeInv, NEW S \in SUBSET Events, NEW s \in Seq(S), chain' = chain \o s
  PROVE  Grown(S)
<1>1. chain \in Seq(Events) /\ s \in Seq(Events)
  BY DEF TypeInv, TypeOK
<1>2. /\ DOMAIN chain = 1 .. Len(chain) /\ DOMAIN s = 1 .. Len(s)
      /\ DOMAIN chain' = 1 .. (Len(chain) + Len(s)) /\ Len(chain) \in Nat /\ Len(s) \in Nat
  BY <1>1
<1>3. \A i \in DOMAIN chain : chain'[i] = chain[i]
  BY <1>1, <1>2
<1>4. \A i \in DOMAIN chain' \ DOMAIN chain : chain'[i] \in S
  <2> SUFFICES ASSUME NEW i \in (DOMAIN chain)', i \notin DOMAIN chain PROVE chain'[i] \in S
    OBVIOUS
  <2>1. i - Len(chain) \in DOMAIN s /\ chain'[i] = s[i - Len(chain)]
    BY <1>1, <1>2
  <2> QED
    BY <2>1
<1> QED
  BY <1>2, <1>3, <1>4 DEF Grown

\* One event, or none.
LEMMA GrownOne ==
  ASSUME TypeInv
  PROVE  /\ chain' = chain => Grown({})
         /\ \A e \in Events : Post(e) => Grown({e}) /\ chain'[Len(chain) + 1] = e
                                         /\ Len(chain) + 1 \in DOMAIN chain' \ DOMAIN chain
<1>1. DOMAIN chain = 1 .. Len(chain) /\ Len(chain) \in Nat
  BY DEF TypeInv, TypeOK
<1>2. chain' = chain => Grown({})
  BY <1>1 DEF Grown
<1>3. ASSUME NEW e \in Events, Post(e)
      PROVE  Grown({e}) /\ chain'[Len(chain) + 1] = e /\ Len(chain) + 1 \in DOMAIN chain' \ DOMAIN chain
  BY <1>3, Appended DEF Grown
<1> QED
  BY <1>2, <1>3

(* A step of request p or of its run: it posts events S of runs that there are, and
   neither makes a row Waiting nor deletes one. *)
StepOf(p, S) ==
  /\ UNCHANGED <<job, waits, cred>>
  /\ \A q \in Procs \ {p} : /\ pc'[q] = pc[q] /\ thr'[q] = thr[q] /\ snap'[q] = snap[q]
                            /\ upd'[q] = upd[q] /\ ret'[q] = ret[q]
  /\ \A q \in Clients \ {p} : arg'[q] = arg[q]
  /\ \A q \in Runners \ {p} : run'[q].st = run[q].st /\ run'[q].res = run[q].res
  /\ pc[p] # "idle" => thr'[p] = thr[p] /\ arg'[p] = arg[p]
  /\ Grown(S)
  /\ \A e \in S : /\ e.p \in Clients /\ run[e.p].st # "none"
                  /\ e.k = "invoke" => run'[e.p].st = "live"
                  /\ e.k = "run" => e.out \in Endings /\ run[e.p].st = "live"
                  /\ e.k = "stop" => e.out = "manual"
  /\ run[p].st = "live" =>
       run'[p].st = "live" \/ \E i \in DOMAIN chain' \ DOMAIN chain : chain'[i].p = p /\ chain'[i].k = "run"
  /\ run'[p].st = "live" =>
       run[p].st = "live" \/ \E i \in DOMAIN chain' \ DOMAIN chain : chain'[i].p = p /\ chain'[i].k = "invoke"
  /\ \A t \in Threads : row'[t].status # Waiting /\ (row[t].status # Absent => row'[t].status # Absent)
  /\ PoisedOne(p)'

\* Such a step leaves the events in order and the handler what it has in hand.
LEMMA StepKeepsEvents ==
  ASSUME TypeInv, TypeInv', OwedInv, NEW p \in Clients, NEW S, StepOf(p, S)
  PROVE  /\ Bystanders' /\ Poised' /\ OfRuns' /\ InvokesEnd' /\ RowsThere' /\ Taken'
         /\ \A i \in DOMAIN chain : Of(i)' = Of(i) /\ Of(i) \in Threads
<1> USE DEF OwedInv, StepOf
<1>1. /\ Clients \subseteq Procs \ {handler} /\ Clients \subseteq Runners /\ handler \in Procs
      /\ pc'[handler] = pc[handler] /\ DOMAIN chain \subseteq Nat
  BY ClientsRun, RunnersAreProcs DEF Procs, TypeInv, TypeOK
<1>2. /\ DOMAIN chain \subseteq DOMAIN chain' /\ DOMAIN chain' \subseteq Nat \ {0}
      /\ \A i \in DOMAIN chain : chain'[i] = chain[i]
      /\ \A i \in DOMAIN chain' \ DOMAIN chain : chain'[i] \in S /\ \A m \in DOMAIN chain : m < i
  BY DEF Grown
<1>3. 1 \notin DOMAIN chain => At(handler, "idle")
  BY DEF TypeInv, TypeOK, EventInHand
<1>4. \A q \in Clients : run[q].st # "none" \/ (\E i \in DOMAIN chain : chain[i].p = q)
                           => pc[q] # "idle" /\ thr'[q] = thr[q] /\ arg'[q] = arg[q]
  BY <1>1 DEF Poised, PoisedOne
<1>5. \A i \in DOMAIN chain : /\ chain[i].p \in Clients /\ chain'[i].p = chain[i].p /\ chain'[i].k = chain[i].k
                              /\ Of(i)' = Of(i) /\ Of(i) \in Threads
  BY <1>1, <1>2, <1>4 DEF Of, OfRuns, TypeInv, TypeOK
<1>6. Bystanders'
  <2>1. \A q \in Procs \ (Clients \cup {handler}) : pc'[q] = pc[q]
    OBVIOUS
  <2>2. \A q \in Workers : run'[q].st = run[q].st
    BY DEF Runners, Workers, Clients, worker, caller
  <2> QED
    BY <2>1, <2>2 DEF Bystanders, At
<1>7. Poised'
  <2> SUFFICES ASSUME NEW q \in Clients, q # p PROVE PoisedOne(q)'
    BY DEF Poised
  <2>1. /\ pc'[q] = pc[q] /\ thr'[q] = thr[q] /\ upd'[q] = upd[q] /\ ret'[q] = ret[q] /\ arg'[q] = arg[q]
        /\ run'[q].st = run[q].st /\ run'[q].res = run[q].res /\ PoisedOne(q)
    BY <1>1 DEF Poised
  <2>2. ASSUME pc[q] \in {"idle", "tPre", "tRun"} PROVE \A i \in DOMAIN chain' : chain'[i].p # q
    <3>1. run[q].st = "none" /\ \A i \in DOMAIN chain : chain[i].p # q
      BY <2>1, <2>2 DEF PoisedOne
    <3> QED
      BY <1>2, <3>1
  <2> QED
    BY <2>1, <2>2 DEF PoisedOne, At, Triggered
<1>8. OfRuns'
  BY <1>2 DEF OfRuns
<1>9. InvokesEnd'
  <2> SUFFICES ASSUME NEW i \in (DOMAIN chain)', chain'[i].k = "invoke", run'[chain'[i].p].st # "live"
               PROVE  \E m \in DOMAIN chain' : i < m /\ chain'[m].p = chain'[i].p /\ chain'[m].k = "run"
    BY DEF InvokesEnd
  <2>1. i \in DOMAIN chain /\ chain[i].k = "invoke"
    BY <1>2
  <2>2. CASE run[chain[i].p].st = "live"
    <3>1. chain[i].p = p /\ \E m \in DOMAIN chain' \ DOMAIN chain : chain'[m].p = p /\ chain'[m].k = "run"
      BY <1>1, <1>2, <1>5, <2>1, <2>2
    <3> QED
      BY <1>2, <2>1, <3>1
  <2>3. CASE run[chain[i].p].st # "live"
    <3>1. PICK m \in DOMAIN chain : i < m /\ chain[m].p = chain[i].p /\ chain[m].k = "run"
      BY <2>1, <2>3 DEF InvokesEnd
    <3> QED
      BY <1>2, <2>1, <3>1
  <2> QED
    BY <2>2, <2>3
<1>10. /\ \A q \in Clients, m \in DOMAIN chain : InvokeDue(q, m) => InvokeDue(q, m)'
       /\ \A m \in DOMAIN chain' \ DOMAIN chain : chain'[m].k = "invoke" => InvokeDue(chain[m].p, m)'
  <2>1. \A q \in Clients, m \in DOMAIN chain : InvokeDue(q, m) => InvokeDue(q, m)'
    BY <1>1, <1>2 DEF InvokeDue, At
  <2>2. \A m \in DOMAIN chain' \ DOMAIN chain : m # 1 \/ pc'[handler] = "idle"
    BY <1>1, <1>3, <1>2 DEF At
  <2> QED
    BY <2>1, <2>2 DEF InvokeDue, At
<1>11. \A q \in Clients : run[q].st = "live" =>
         /\ thr'[q] = thr[q] /\ thr[q] \in Threads
         /\ row[thr[q]].status # Absent \/ \E m \in DOMAIN chain : InvokeDue(q, m)
  BY <1>1, <1>4 DEF RowsThere, TypeInv, TypeOK
<1>12. RowsThere'
  <2>1. ASSUME NEW q \in Clients, run'[q].st = "live"
        PROVE  row'[thr'[q]].status # Absent \/ \E m \in DOMAIN chain' : InvokeDue(q, m)'
    <3>1. CASE run[q].st = "live"
      BY <1>2, <1>10, <1>11, <3>1
    <3>2. CASE run[q].st # "live"
      BY <1>1, <1>10, <2>1, <3>2
    <3> QED
      BY <3>1, <3>2
  <2>2. ASSUME NEW i \in (DOMAIN chain)', chain'[i].k = "run"
        PROVE  row'[Of(i)'].status # Absent \/ \E m \in DOMAIN chain' : m < i /\ InvokeDue(chain[i].p, m)'
    <3>1. CASE i \in DOMAIN chain
      BY <1>2, <1>5, <1>10, <2>2, <3>1 DEF RowsThere
    <3>2. CASE i \notin DOMAIN chain
      <4>1. chain'[i].p \in Clients /\ run[chain'[i].p].st = "live"
        BY <1>2, <2>2, <3>2
      <4>2. /\ Of(i)' = thr[chain'[i].p]
            /\ row[Of(i)'].status # Absent \/ \E m \in DOMAIN chain : InvokeDue(chain'[i].p, m)
            /\ Of(i)' \in Threads
        BY <1>11, <4>1 DEF Of
      <4> QED
        BY <1>2, <1>10, <3>2, <4>1, <4>2
    <3> QED
      BY <3>1, <3>2
  <2> QED
    BY <2>1, <2>2 DEF RowsThere
<1>13. Taken'
  <2> SUFFICES ASSUME ~At(handler, "idle") PROVE Taken'
    BY <1>1 DEF Taken, At
  <2>1. chain # <<>> /\ 1 \in DOMAIN chain
    BY <1>3
  <2>2. Current = chain[1] /\ Current' = Current
    BY <1>2, <2>1 DEF Current, TypeInv, TypeOK
  <2>3. CurrentThread' = CurrentThread /\ CurrentThread \in Threads
    BY <1>5, <2>1, <2>2 DEF CurrentThread, Of
  <2> QED
    BY <1>1, <2>2, <2>3 DEF Taken, InvokeTaken, RunTaken, StopTaken, InHandWith, At
<1> QED
  BY <1>5, <1>6, <1>7, <1>8, <1>9, <1>12, <1>13

\* Such a step leaves what is owed, if what request p has owed still is.
LEMMA StepKeepsOwed ==
  ASSUME TypeInv, TypeInv', OwedInv, NEW p \in Clients, NEW S, StepOf(p, S),
         Owes(p) => Owed(thr[p])' \/ row'[thr[p]].status \notin {Running, Absent},
         \A t \in Threads : row'[t].status = Running => row[t].status = Running \/ Owed(t) \/ Owed(t)',
         pc'[p] = "tEnsure" /\ row'[thr'[p]].status = Absent => Owed(thr[p])'
  PROVE  OwedInv'
<1> USE DEF OwedInv
<1>1. /\ Bystanders' /\ Poised' /\ OfRuns' /\ InvokesEnd' /\ RowsThere' /\ Taken'
      /\ \A i \in DOMAIN chain : Of(i)' = Of(i) /\ Of(i) \in Threads
  BY StepKeepsEvents
<1>2. /\ Clients \subseteq Procs \ {handler} /\ Clients \subseteq Runners /\ handler \in Procs
      /\ pc'[handler] = pc[handler] /\ \A q \in Clients : thr[q] \in Threads
  BY ClientsRun, RunnersAreProcs DEF Procs, TypeInv, TypeOK, StepOf
<1>3. Owes(p) => thr'[p] = thr[p]
  BY DEF Owes, Poised, PoisedOne, StepOf
<1>4. \A q \in Clients \ {p} : /\ (Owes(q) => Owes(q)') /\ thr'[q] = thr[q] /\ pc'[q] = pc[q]
  BY <1>2 DEF Owes, StepOf
<1>5. \A i \in DOMAIN chain : OwedAt(i) => i \in DOMAIN chain' /\ OwedAt(i)'
  BY <1>2 DEF OwedAt, StepOf, Grown, At
<1>6. ASSUME NEW t \in Threads, Owed(t), row'[t].status \in {Running, Absent}
      PROVE  Owed(t)'
  <2>1. CASE \E i \in DOMAIN chain : Of(i) = t /\ OwedAt(i)
    BY <1>1, <1>5, <2>1 DEF Owed
  <2>2. CASE \E q \in Clients \ {p} : thr[q] = t /\ Owes(q)
    BY <1>4, <2>2 DEF Owed
  <2>3. CASE thr[p] = t /\ Owes(p)
    <3>1. Owed(thr[p])'
      BY <1>6, <2>3
    <3> QED
      BY <1>3, <2>3, <3>1
  <2> QED
    BY <1>6, <2>1, <2>2, <2>3 DEF Owed
<1>7. \A t \in Threads : row'[t].status # Waiting /\ (row'[t].status = Running => Owed(t)')
  BY <1>6 DEF StepOf, RowsOwed
<1>8. \A q \in Clients : pc'[q] = "tEnsure" /\ row'[thr'[q]].status = Absent => Owed(thr[q])'
  <2> SUFFICES ASSUME NEW q \in Clients \ {p}, pc'[q] = "tEnsure", row'[thr'[q]].status = Absent
               PROVE  Owed(thr[q])'
    OBVIOUS
  <2>1. thr'[q] = thr[q] /\ At(q, "tEnsure") /\ row[thr[q]].status = Absent
    BY <1>2, <1>4 DEF StepOf, At
  <2>2. Owed(thr[q])
    BY <2>1 DEF RowsOwed
  <2> QED
    <3>1. PICK t \in Threads : t = thr[q]
      BY <1>2
    <3>2. Owed(t)'
      BY <1>6, <2>1, <2>2, <3>1
    <3> QED
      BY <2>1, <3>1, <3>2
<1>9. RowsOwed'
  BY <1>7, <1>8 DEF RowsOwed, At
<1> QED
  BY <1>1, <1>9

\* A step of a request that posts nothing, and starts at most its own run.
LEMMA QuietStep ==
  ASSUME TypeInv, OwedInv, NEW p \in Clients, \E l : Goto(p, l),
         UNCHANGED <<job, waits, chain, cred>>,
         thr' = thr \/ (At(p, "idle") /\ \E t : thr' = [thr EXCEPT ![p] = t]),
         arg' = arg \/ (At(p, "idle") /\ \E a : arg' = [arg EXCEPT ![p] = a]),
         snap' = snap \/ \E s : snap' = [snap EXCEPT ![p] = s],
         upd' = upd \/ \E u : upd' = [upd EXCEPT ![p] = u],
         ret' = ret \/ \E l : ret' = [ret EXCEPT ![p] = l],
         run' = run \/ (At(p, "tRun") /\ \E r : run' = [run EXCEPT ![p] = r] /\ r.st # "live"),
         \A t \in Threads : row'[t].status # Waiting /\ (row[t].status # Absent => row'[t].status # Absent),
         PoisedOne(p)'
  PROVE  StepOf(p, {})
<1>1. p \in Runners /\ p \in Procs /\ Grown({})
  BY ClientsRun, GrownOne DEF Procs
<1>2. \A q \in Procs \ {p} : /\ pc'[q] = pc[q] /\ thr'[q] = thr[q] /\ snap'[q] = snap[q]
                             /\ upd'[q] = upd[q] /\ ret'[q] = ret[q]
  BY DEF Goto, TypeInv, TypeOK
<1>3. \A q \in Clients \ {p} : arg'[q] = arg[q]
  BY DEF TypeInv, TypeOK
<1>4. \A q \in Runners \ {p} : run'[q] = run[q]
  BY DEF TypeInv, TypeOK
<1>5. (run[p].st = "live") <=> (run'[p].st = "live")
  BY <1>1 DEF TypeInv, TypeOK, OwedInv, Poised, PoisedOne, At
<1>6. pc[p] # "idle" => thr'[p] = thr[p] /\ arg'[p] = arg[p]
  BY DEF At
<1> QED
  BY <1>1, <1>2, <1>3, <1>4, <1>5, <1>6 DEF StepOf

\* The statuses that the upserts leave.
LEMMA UpsertStatus ==
  ASSUME NEW r \in Row
  PROVE  /\ PreSet(r).status = Running
         /\ InvokedRow(r).status = Running
         /\ Insert(r, Running, "none").status = IF r.status = Absent THEN Running ELSE r.status
<1>1. WriteStatus(r, r, Running).status = Running /\ NewRow(Running, "none").status = Running
  BY DEF WriteStatus, Row, NewRow
<1>2. PreSet(r).status = WriteStatus(r, r, Running).status
  BY DEF PreSet, WriteStatus, Row
<1> QED
  BY <1>1, <1>2 DEF InvokedRow, Insert

\* The statuses that the writes from an entity leave.
LEMMA EntityStatus ==
  ASSUME NEW r \in Row, NEW s \in Row, NEW status, NEW wait, NEW cost
  PROVE  /\ WriteStatus(r, s, status).status = IF status # s.status THEN status ELSE r.status
         /\ WriteBoth(r, s, status, wait, cost).status = IF status # s.status THEN status ELSE r.status
         /\ WriteMeta(r, s, wait, cost).status = r.status
<1>1. WriteStatus(r, s, status).status = IF status # s.status THEN status ELSE r.status
  BY DEF WriteStatus, Row
<1>2. WriteMeta(r, s, wait, cost).status = r.status
  BY DEF WriteMeta, Row
<1>3. WriteBoth(r, s, status, wait, cost).status = WriteStatus(r, s, status).status
  BY DEF WriteBoth, WriteMeta, WriteStatus, Row
<1> QED
  BY <1>1, <1>2, <1>3

---------------------------------------------------------------------------
\* A trigger request that sets Running owes what it starts, or restores.
LEMMA TriggerOwes ==
  ASSUME Undelayed, TypeInv, TypeInv', OwedInv, NEW p \in Clients, TriggerRequest(p)
  PROVE  OwedInv'
<1> USE DEF OwedInv
<1>1. /\ p \in Runners /\ p \in Procs \ {handler} /\ thr[p] \in Threads /\ cred /\ PoisedOne(p)
      /\ Clients \subseteq Procs /\ \A q \in Workers : run[q].st = "none"
  BY ClientsRun, RunnersAreProcs DEF TypeInv, TypeOK, Bystanders, Poised
<1>2. \A t \in Threads : row[t] \in Row /\ row[t].status # Waiting /\ (row[t].status = Running => Owed(t))
  BY DEF TypeInv, TypeOK, RowsOwed
<1>3. ASSUME NEW l, Goto(p, l) PROVE pc'[p] = l
  BY <1>1, <1>3 DEF Goto, TypeInv, TypeOK
<1>4. CASE Trigger(p)
  <2>1. PICK t \in Threads, op \in {"trigger", "async"} :
          /\ Asks(p, op) /\ Take(p, t, op, IF row[t].status \in Terminal THEN row[t] ELSE NoRow)
          /\ IF row[t].status = Absent THEN UNCHANGED row ELSE Write(t, PreSet(row[t]))
          /\ job' = IF row[t].status = Waiting THEN [job EXCEPT ![t] = RemoveJob(@)] ELSE job
          /\ Goto(p, "tPre") /\ UNCHANGED <<agent, cred, snap, upd, ret>>
    BY <1>4, Zenon DEF Trigger
  <2> DEFINE saved == IF row[t].status \in Terminal THEN row[t] ELSE NoRow
  <2>2. At(p, "idle") /\ op \in Requests /\ UNCHANGED <<job, run, chain, waits, cred, snap, upd, ret>>
    BY <1>2, <2>1 DEF agent, Asks
  <2>3. /\ pc'[p] = "tPre" /\ thr'[p] = t /\ arg'[p].op = op /\ arg'[p].saved = saved
        /\ run'[p].st = "none" /\ run'[p].res # "wait" /\ \A i \in DOMAIN chain : chain[i].p # p
    BY <1>1, <1>3, <2>1, <2>2 DEF Take, TypeInv, TypeOK, PoisedOne, At
  <2>4. /\ \A u \in Threads \ {t} : row'[u] = row[u]
        /\ row'[t].status = IF row[t].status = Absent THEN Absent ELSE Running
    <3>1. PreSet(row[t]).status = Running
      BY <1>2, UpsertStatus
    <3> QED
      BY <2>1, <3>1 DEF Write, TypeInv, TypeOK
  <2>5. \A u \in Threads : row'[u].status # Waiting /\ (row[u].status # Absent => row'[u].status # Absent)
    BY <1>2, <2>4 DEF Running, Waiting, Absent
  <2>6. PoisedOne(p)'
    BY <1>1, <2>2, <2>3 DEF PoisedOne, Triggered, At, UpdateLabels
  <2>7. StepOf(p, {})
    <3>1. /\ thr' = [thr EXCEPT ![p] = t] /\ \E a : arg' = [arg EXCEPT ![p] = a]
      BY <2>1 DEF Take
    <3> QED
      BY <2>1, <2>2, <2>5, <2>6, <3>1, QuietStep
  <2>8. ~Owes(p)
    BY <1>1, <2>2 DEF Owes, PoisedOne, At
  <2>9. row'[t].status = Running => row[t].status = Running \/ Owed(t)'
    <3>1. ASSUME row[t].status \in Terminal PROVE Owed(t)'
      <4>1. arg'[p].saved # NoRow
        BY <2>3, <3>1 DEF Terminal, NoRow, Absent, Done, NeedMoreInfo, Stopped
      <4>2. Owes(p)'
        BY <2>3, <4>1 DEF Owes
      <4> QED
        BY <2>3, <4>2 DEF Owed
    <3> QED
      BY <1>2, <2>4, <3>1 DEF Row, ThreadStatuses, Terminal
  <2> QED
    BY <2>3, <2>4, <2>7, <2>8, <2>9, StepKeepsOwed
<1>5. CASE TriggerRejected(p)
  <2>1. PICK t \in Threads, op \in {"trigger", "async"} :
          /\ At(p, "idle") /\ op \in Requests /\ Take(p, t, op, NoRow) /\ Goto(p, "done")
          /\ UNCHANGED <<stores, agent, cred, snap, upd, ret>>
    BY <1>5 DEF TriggerRejected, Asks
  <2>2. UNCHANGED <<row, job, run, chain, waits, cred, snap, upd, ret>>
    BY <2>1 DEF agent, stores
  <2>3. pc'[p] = "done" /\ arg'[p].op = op /\ arg'[p].saved = NoRow
    BY <1>1, <1>3, <2>1 DEF Take, TypeInv, TypeOK
  <2>4. PoisedOne(p)'
    BY <1>1, <2>1, <2>2, <2>3 DEF PoisedOne, At, UpdateLabels
  <2>5. StepOf(p, {})
    BY <1>2, <2>1, <2>2, <2>4, QuietStep DEF Take
  <2>6. ~Owes(p)
    BY <1>1, <2>1 DEF Owes, PoisedOne, At
  <2> QED
    BY <2>2, <2>3, <2>5, <2>6, StepKeepsOwed
<1>6. CASE TriggerPreflight(p)
  <2>1. At(p, "tPre") /\ Goto(p, "tRun") /\ UNCHANGED <<row, job, run, chain, waits, cred, thr, snap, upd, ret, arg>>
    BY <1>1, <1>6 DEF TriggerPreflight, agent, stores
  <2>2. pc'[p] = "tRun"
    BY <1>3, <2>1
  <2>3. PoisedOne(p)'
    BY <1>1, <2>1, <2>2 DEF PoisedOne, At, UpdateLabels, Triggered
  <2>4. StepOf(p, {})
    BY <1>2, <2>1, <2>3, QuietStep
  <2>5. Owes(p) => Owed(thr[p])'
    BY <2>1, <2>2 DEF Owes, At, Owed
  <2> QED
    BY <2>1, <2>2, <2>4, <2>5, StepKeepsOwed
<1>7. CASE TriggerAppends(p)
  <2>1. /\ At(p, "tRun") /\ Active(thr[p]) # {} /\ Goto(p, "tEnsure")
        /\ UNCHANGED <<row, job, run, chain, waits, cred, thr, snap, upd, ret, arg>>
    BY <1>7 DEF TriggerAppends, agent, stores
  <2>2. pc'[p] = "tEnsure"
    BY <1>3, <2>1
  <2>3. PoisedOne(p)'
    BY <1>1, <2>1, <2>2 DEF PoisedOne, At, UpdateLabels, Triggered
  <2>4. StepOf(p, {})
    BY <1>2, <2>1, <2>3, QuietStep
  <2>5. PICK q \in Clients : run[q].st = "live" /\ thr[q] = thr[p]
    BY <1>1, <2>1 DEF Active, Runners
  <2>6. Owed(thr[p])'
    BY <2>1, <2>5 DEF Owed, Owes
  <2> QED
    BY <2>1, <2>4, <2>6, StepKeepsOwed
<1>8. CASE TriggerStarts(p)
  <2>1. /\ At(p, "tRun") /\ Goto(p, IF arg[p].op = "async" THEN "tEnsure" ELSE "tAwait")
        /\ run' = [run EXCEPT ![p] = [NoRun EXCEPT !.st = "prepared"]]
        /\ UNCHANGED <<row, job, chain, waits, cred, thr, snap, upd, ret, arg>>
    BY <1>8 DEF TriggerStarts, PrepareRun, stores
  <2>2. /\ pc'[p] = IF arg[p].op = "async" THEN "tEnsure" ELSE "tAwait"
        /\ run'[p].st = "prepared" /\ run'[p].res = "none"
    BY <1>1, <1>3, <2>1 DEF TypeInv, TypeOK, NoRun
  <2>3. PoisedOne(p)'
    BY <1>1, <2>1, <2>2 DEF PoisedOne, At, UpdateLabels, Triggered
  <2>4. StepOf(p, {})
    <3>1. PICK r : r = [NoRun EXCEPT !.st = "prepared"]
      OBVIOUS
    <3>2. run' = [run EXCEPT ![p] = r] /\ r.st # "live"
      BY <2>1, <3>1 DEF NoRun
    <3> QED
      BY <1>2, <2>1, <2>3, <3>2, QuietStep
  <2>5. Owes(p) \/ arg[p].op = "async" => Owed(thr[p])'
    <3>1. ASSUME Owes(p) \/ arg[p].op = "async" PROVE Owes(p)'
      BY <1>1, <2>1, <2>2, <3>1 DEF Owes, At, PoisedOne
    <3> QED
      BY <2>1, <3>1 DEF Owed
  <2> QED
    BY <2>1, <2>2, <2>4, <2>5, StepKeepsOwed
<1>9. CASE TriggerRestores(p)
  <2>1. /\ At(p, "tRestore") /\ Goto(p, "done")
        /\ IF arg[p].saved = NoRow THEN UNCHANGED row ELSE Write(thr[p], arg[p].saved)
        /\ UNCHANGED <<job, run, chain, waits, cred, thr, snap, upd, ret, arg>>
    BY <1>9 DEF TriggerRestores, agent
  <2>2. pc'[p] = "done"
    BY <1>3, <2>1
  <2>3. PoisedOne(p)'
    BY <1>1, <2>1, <2>2 DEF PoisedOne, At, UpdateLabels, Triggered
  <2>4. arg[p].saved # NoRow => row'[thr[p]].status \in Terminal
    BY <1>1, <2>1 DEF PoisedOne, Write, TypeInv, TypeOK
  <2>5. \A u \in Threads : row'[u] = row[u] \/ row'[u].status \in Terminal
    BY <1>1, <2>1, <2>4 DEF Write, TypeInv, TypeOK
  <2>6. StepOf(p, {})
    BY <1>2, <2>1, <2>3, <2>5, QuietStep DEF Terminal, Done, NeedMoreInfo, Stopped, Waiting, Absent
  <2>7. Owes(p) => Owed(thr[p])' \/ row'[thr[p]].status \notin {Running, Absent}
    <3>1. CASE arg[p].saved # NoRow
      BY <2>4, <3>1 DEF Terminal, Done, NeedMoreInfo, Stopped, Running, Absent
    <3>2. CASE arg[p].saved = NoRow
      BY <2>1, <3>2 DEF Owes, Owed
    <3> QED
      BY <3>1, <3>2
  <2>8. \A u \in Threads : row'[u].status = Running => row[u].status = Running
    BY <2>5 DEF Terminal, Done, NeedMoreInfo, Stopped, Running
  <2> QED
    BY <2>2, <2>6, <2>7, <2>8, StepKeepsOwed
<1>10. CASE TriggerEnsures(p)
  <2>1. /\ At(p, "tEnsure") /\ Goto(p, "done") /\ Write(thr[p], Insert(row[thr[p]], Running, "none"))
        /\ UNCHANGED <<job, run, chain, waits, cred, thr, snap, upd, ret, arg>>
    BY <1>10 DEF TriggerEnsures, agent
  <2>2. pc'[p] = "done"
    BY <1>3, <2>1
  <2>3. PoisedOne(p)'
    BY <1>1, <2>1, <2>2 DEF PoisedOne, At, UpdateLabels, Triggered
  <2>4. /\ \A u \in Threads \ {thr[p]} : row'[u] = row[u]
        /\ row'[thr[p]].status = IF row[thr[p]].status = Absent THEN Running ELSE row[thr[p]].status
    <3>1. Insert(row[thr[p]], Running, "none").status = IF row[thr[p]].status = Absent THEN Running ELSE row[thr[p]].status
      BY <1>1, <1>2, UpsertStatus
    <3> QED
      BY <1>1, <2>1, <3>1 DEF Write, TypeInv, TypeOK
  <2>5. StepOf(p, {})
    BY <1>2, <2>1, <2>3, <2>4, QuietStep DEF Running, Waiting, Absent
  <2>6. Owes(p) => Owed(thr[p])'
    BY <2>1 DEF Owes, Owed, At
  <2>7. row[thr[p]].status = Absent => Owed(thr[p])
    BY <2>1 DEF RowsOwed
  <2> QED
    BY <2>2, <2>4, <2>5, <2>6, <2>7, StepKeepsOwed
<1> QED
  BY <1>4, <1>5, <1>6, <1>7, <1>8, <1>9, <1>10 DEF TriggerRequest

\* An update that a request emitted stops the thread, if it writes at all.
LEMMA UpdateOwes ==
  ASSUME Undelayed, TypeInv, TypeInv', OwedInv, NEW p \in Clients, UpdatesRow(p)
  PROVE  OwedInv'
<1> USE DEF OwedInv
<1>1. /\ p \in Runners /\ p \in Procs /\ thr[p] \in Threads /\ PoisedOne(p) /\ snap[p] \in Row
  BY ClientsRun DEF TypeInv, TypeOK, Poised, Procs
<1>2. \A t \in Threads : row[t] \in Row /\ row[t].status # Waiting
  BY DEF TypeInv, TypeOK, RowsOwed
<1>3. /\ pc[p] \in UpdateLabels /\ upd[p].status = Stopped /\ ret[p] = "done"
  BY <1>1 DEF UpdatesRow, UpdateRead, UpdateStatus, UpdateMeta, At, UpdateLabels, PoisedOne
<1>4. UNCHANGED <<job, run, chain, waits, cred, thr, arg>>
  BY DEF UpdatesRow, UpdateRead, UpdateStatus, UpdateMeta, stores, agent
<1>5. /\ \E s : snap' = [snap EXCEPT ![p] = s]
      /\ (upd' = upd /\ ret' = ret /\ \E l \in UpdateLabels : Goto(p, l))
           \/ (Goto(p, "done") /\ (\E u : upd' = [upd EXCEPT ![p] = u]) /\ \E l : ret' = [ret EXCEPT ![p] = l])
  <2>1. snap' = snap => snap' = [snap EXCEPT ![p] = snap[p]]
    BY <1>1 DEF TypeInv, TypeOK
  <2>2. Return(p) => /\ \E s : snap' = [snap EXCEPT ![p] = s]
                     /\ Goto(p, "done") /\ (\E u : upd' = [upd EXCEPT ![p] = u]) /\ \E l : ret' = [ret EXCEPT ![p] = l]
    BY <1>3 DEF Return, Drop
  <2>3. CASE UpdateRead(p)
    BY <2>2, <2>3 DEF UpdateRead, Load, UpdateLabels
  <2>4. CASE UpdateStatus(p)
    BY <2>1, <2>2, <2>4 DEF UpdateStatus, UpdateLabels
  <2>5. CASE UpdateMeta(p)
    BY <2>2, <2>5 DEF UpdateMeta
  <2> QED
    BY <2>3, <2>4, <2>5 DEF UpdatesRow
<1>6. \A t \in Threads : row'[t].status \in {row[t].status, Stopped}
  <2>1. CASE UpdateRead(p)
    BY <2>1 DEF UpdateRead, stores
  <2>2. CASE UpdateStatus(p)
    <3>1. ApplyStatus(row[thr[p]], snap[p], upd[p]).status \in {row[thr[p]].status, Stopped}
      <4>1. ApplyStatus(row[thr[p]], snap[p], upd[p]) = WriteStatus(row[thr[p]], snap[p], Stopped)
        BY <1>3 DEF ApplyStatus
      <4> QED
        BY <1>1, <1>2, <4>1 DEF WriteStatus, Row
    <3> QED
      BY <1>1, <2>2, <3>1 DEF UpdateStatus, Write, TypeInv, TypeOK
  <2>3. CASE UpdateMeta(p)
    <3>1. ApplyMeta(row[thr[p]], snap[p], upd[p]).status = row[thr[p]].status
      BY <1>1, <1>2, EntityStatus DEF ApplyMeta
    <3> QED
      BY <1>1, <2>3, <3>1 DEF UpdateMeta, Write, TypeInv, TypeOK
  <2> QED
    BY <2>1, <2>2, <2>3 DEF UpdatesRow
<1>7. pc'[p] = "done" \/ (pc'[p] \in UpdateLabels /\ upd'[p] = upd[p] /\ ret'[p] = ret[p])
  BY <1>1, <1>5 DEF Goto, TypeInv, TypeOK
<1>8. PoisedOne(p)'
  BY <1>1, <1>3, <1>4, <1>7 DEF PoisedOne, At, UpdateLabels, Triggered
<1>9. StepOf(p, {})
  <2>1. /\ \E l : Goto(p, l)
        /\ upd' = upd \/ \E u : upd' = [upd EXCEPT ![p] = u]
        /\ ret' = ret \/ \E l : ret' = [ret EXCEPT ![p] = l]
    BY <1>5
  <2> QED
    BY <1>2, <1>4, <1>5, <1>6, <1>8, <2>1, QuietStep DEF Stopped, Waiting, Absent
<1>10. Owes(p) => Owed(thr[p])'
  BY <1>3, <1>4 DEF Owes, Owed, UpdateLabels
<1>11. \A t \in Threads : row'[t].status = Running => row[t].status = Running
  BY <1>6 DEF Stopped, Running
<1> QED
  BY <1>7, <1>9, <1>10, <1>11, StepKeepsOwed DEF UpdateLabels

\* A stop request takes a thread out of Running, or leaves it to the run that it stops.
LEMMA StopOwes ==
  ASSUME Undelayed, TypeInv, TypeInv', OwedInv, NEW p \in Clients, StopRequest(p)
  PROVE  OwedInv'
<1> USE DEF OwedInv
<1>1. /\ p \in Runners /\ p \in Procs \ {handler} /\ thr[p] \in Threads /\ PoisedOne(p) /\ snap[p] \in Row
      /\ Clients \subseteq Procs /\ Clients \subseteq Runners
  BY ClientsRun, RunnersAreProcs DEF TypeInv, TypeOK, Poised
<1>2. \A t \in Threads : row[t] \in Row /\ row[t].status # Waiting
  BY DEF TypeInv, TypeOK, RowsOwed
<1>3. ASSUME NEW l, Goto(p, l) PROVE pc'[p] = l
  BY <1>1, <1>3 DEF Goto, TypeInv, TypeOK
<1>4. CASE Stop(p)
  <2>1. PICK t \in Threads, l \in {"kAgent", "done"} :
          /\ At(p, "idle") /\ "stop" \in Requests /\ Take(p, t, "stop", NoRow) /\ Goto(p, l)
          /\ snap' = snap \/ snap' = [snap EXCEPT ![p] = row[t]]
          /\ UNCHANGED <<stores, agent, cred, upd, ret>>
    BY <1>4 DEF Stop, Asks, Load
  <2>2. UNCHANGED <<row, job, run, chain, waits, cred, upd, ret>>
    BY <2>1 DEF agent, stores
  <2>3. pc'[p] = l /\ arg'[p].op = "stop" /\ arg'[p].saved = NoRow
    BY <1>1, <1>3, <2>1 DEF Take, TypeInv, TypeOK
  <2>4. PoisedOne(p)'
    BY <1>1, <2>1, <2>2, <2>3 DEF PoisedOne, At, UpdateLabels
  <2>5. StepOf(p, {})
    BY <1>2, <2>1, <2>2, <2>4, QuietStep DEF Take
  <2>6. ~Owes(p)
    BY <1>1, <2>1 DEF Owes, PoisedOne, At
  <2> QED
    BY <2>2, <2>3, <2>5, <2>6, StepKeepsOwed
<1>5. CASE StopsRun(p)
  <2>1. /\ At(p, "kAgent") /\ StopRuns(thr[p]) /\ Goto(p, "done") /\ snap' = [snap EXCEPT ![p] = NoRow]
        /\ UNCHANGED <<row, job, waits, cred, thr, upd, ret, arg>>
    BY <1>5 DEF StopsRun, Drop, stores
  <2>2. PICK S \in SUBSET {Event("stop", q, "manual") : q \in Active(thr[p])} :
          \E s \in Seq(S) : chain' = chain \o s
    BY <1>1, <2>1, StopEvents
  <2>3. \A e \in S : /\ e.p \in Clients /\ run[e.p].st = "live" /\ e.k = "stop" /\ e.out = "manual"
                     /\ e \in Events
    BY <2>2 DEF Active, Runners, Bystanders, Event, Events
  <2>4. Grown(S)
    BY <2>2, <2>3, GrownBy
  <2>5. \A q \in Runners : run'[q].st = run[q].st /\ run'[q].res = run[q].res
    BY <2>1 DEF StopRuns, TypeInv, TypeOK, Runs
  <2>6. pc'[p] = "done"
    BY <1>3, <2>1
  <2>7. PoisedOne(p)'
    BY <1>1, <2>1, <2>5, <2>6 DEF PoisedOne, At, UpdateLabels, Triggered
  <2>8. StepOf(p, S)
    <3>1. \A q \in Procs \ {p} : /\ pc'[q] = pc[q] /\ thr'[q] = thr[q] /\ snap'[q] = snap[q]
                                 /\ upd'[q] = upd[q] /\ ret'[q] = ret[q]
      BY <2>1 DEF Goto, TypeInv, TypeOK
    <3>2. \A e \in S : e.k # "invoke" /\ e.k # "run" /\ run[e.p].st # "none"
      BY <2>3
    <3> QED
      BY <1>1, <1>2, <2>1, <2>3, <2>4, <2>5, <2>7, <3>1, <3>2 DEF StepOf
  <2>9. Owes(p) => Owed(thr[p])'
    BY <1>1, <2>1, <2>5 DEF Owes, Owed, At
  <2> QED
    BY <2>1, <2>6, <2>8, <2>9, StepKeepsOwed
<1>6. CASE StopsNothing(p)
  <2>1. At(p, "kAgent") /\ Goto(p, "kWrite") /\ UNCHANGED <<row, job, run, chain, waits, cred, thr, snap, upd, ret, arg>>
    BY <1>6 DEF StopsNothing, agent, stores
  <2>2. pc'[p] = "kWrite"
    BY <1>3, <2>1
  <2>3. PoisedOne(p)'
    BY <1>1, <2>1, <2>2 DEF PoisedOne, At, UpdateLabels, Triggered
  <2>4. StepOf(p, {})
    BY <1>2, <2>1, <2>3, QuietStep
  <2>5. Owes(p) => Owed(thr[p])'
    BY <2>1 DEF Owes, At, Owed
  <2> QED
    BY <2>1, <2>2, <2>4, <2>5, StepKeepsOwed
<1>7. CASE StopWrites(p)
  <2> DEFINE r == WriteBoth(row[thr[p]], snap[p], Stopped, snap[p].wait, {})
             u == Dropping(Stopped, CostMarkers)
  <2>1. /\ At(p, "kWrite") /\ Write(thr[p], r) /\ Goto(p, "tuRead") /\ thr' = [thr EXCEPT ![p] = thr[p]]
        /\ upd' = [upd EXCEPT ![p] = u] /\ ret' = [ret EXCEPT ![p] = "done"]
        /\ UNCHANGED <<job, run, chain, waits, cred, snap, arg>>
    BY <1>7 DEF StopWrites, Emit, agent
  <2>2. thr' = thr
    BY <1>1, <2>1 DEF TypeInv, TypeOK
  <2>3. pc'[p] = "tuRead" /\ upd'[p] = u /\ ret'[p] = "done" /\ u.status = Stopped
    BY <1>1, <1>3, <2>1 DEF TypeInv, TypeOK, Dropping
  <2>4. \A t \in Threads : row'[t].status \in {row[t].status, Stopped}
    <3>1. r.status \in {row[thr[p]].status, Stopped}
      BY <1>1, <1>2, EntityStatus
    <3> QED
      BY <1>1, <2>1, <3>1 DEF Write, TypeInv, TypeOK
  <2>5. PoisedOne(p)'
    BY <1>1, <2>1, <2>2, <2>3 DEF PoisedOne, At, UpdateLabels, Triggered
  <2>6. StepOf(p, {})
    BY <1>2, <2>1, <2>2, <2>4, <2>5, QuietStep DEF Stopped, Waiting, Absent
  <2>7. Owes(p) => Owed(thr[p])'
    BY <2>1, <2>2 DEF Owes, At, Owed
  <2>8. \A t \in Threads : row'[t].status = Running => row[t].status = Running
    BY <2>4 DEF Stopped, Running
  <2> QED
    BY <2>3, <2>6, <2>7, <2>8, StepKeepsOwed
<1> QED
  BY <1>4, <1>5, <1>6, <1>7 DEF StopRequest

\* Nothing waits for a credential here, and no thread waits to be resumed or cancelled.
LEMMA CallerOwes ==
  ASSUME Undelayed, TypeInv, TypeInv', OwedInv, NEW p \in Clients, Caller(p)
  PROVE  OwedInv'
<1> USE DEF OwedInv
<1>1. p \in Runners /\ p \in Procs /\ PoisedOne(p) /\ cred /\ \A t \in Threads : row[t].status # Waiting
  BY ClientsRun DEF Poised, Bystanders, RowsOwed, Procs
<1>2. ~Schedules(p) /\ ~Pauses(p) /\ ~HandleResume(p) /\ ~CancelJob(p) /\ ~CancelWrite(p)
  <2>1. pc[p] \in {"idle", "tPre", "tRun", "tAwait", "tRestore", "tEnsure", "kAgent", "kWrite", "done"}
                    \cup UpdateLabels
    BY <1>1 DEF PoisedOne
  <2> QED
    BY <2>1 DEF Schedules, ScheduleRemove, ScheduleAdd, Pauses, PauseRead, PauseWrite, HandleResume,
                ResumePreflight, ResumeWrite, ResumeUnroutable, ResumeRuns, ResumeRejected, CancelJob,
                CancelWrite, At, UpdateLabels
<1>3. ~ResumeOrCancel(p, "resume") /\ ~ResumeOrCancel(p, "cancel")
  BY <1>1 DEF ResumeOrCancel
<1>4. CASE Acquired(p)
  <2>1. PICK t \in Threads :
          /\ At(p, "idle") /\ "acquired" \in Requests /\ Take(p, t, "acquired", NoRow) /\ Goto(p, "done")
          /\ cred' = TRUE /\ UNCHANGED <<stores, agent, snap, upd, ret>>
    BY <1>1, <1>4 DEF Acquired, Asks
  <2>2. UNCHANGED <<row, job, run, chain, waits, cred, snap, upd, ret>>
    BY <1>1, <2>1 DEF agent, stores, TypeInv, TypeOK
  <2>3. pc'[p] = "done" /\ arg'[p].op = "acquired" /\ arg'[p].saved = NoRow
    BY <1>1, <2>1 DEF Take, Goto, TypeInv, TypeOK
  <2>4. PoisedOne(p)'
    BY <1>1, <2>1, <2>2, <2>3 DEF PoisedOne, At, UpdateLabels
  <2>5. StepOf(p, {})
    BY <1>1, <2>1, <2>2, <2>4, QuietStep DEF Take
  <2>6. ~Owes(p)
    BY <1>1, <2>1 DEF Owes, PoisedOne, At
  <2> QED
    BY <2>2, <2>3, <2>5, <2>6, StepKeepsOwed
<1> QED
  BY <1>2, <1>3, <1>4, TriggerOwes, StopOwes, UpdateOwes DEF Caller, ResumeRequest

\* The run of a request that resolves or rejects leaves it to ensure the row, or to restore it.
LEMMA SettleOwes ==
  ASSUME TypeInv, OwedInv, NEW p \in Clients, NEW ok \in BOOLEAN, Settle(p, ok), run[p].st # "none"
  PROVE  /\ run'[p].st = "none" /\ run'[p].res = "none" /\ \A q \in Runners \ {p} : run'[q] = run[q]
         /\ \A q \in Procs \ {p} : pc'[q] = pc[q]
         /\ UNCHANGED <<row, job, waits, cred, thr, snap, upd, ret, arg>>
         /\ pc'[p] = IF At(p, "tAwait") THEN IF ok THEN "tEnsure" ELSE "tRestore" ELSE pc[p]
         /\ PoisedOne(p)'
<1>1. p \in Runners /\ p \in Procs /\ p \notin Workers /\ PoisedOne(p)
  BY ClientsRun DEF Procs, Workers, Clients, worker, caller, OwedInv, Poised
<1>2. UNCHANGED <<row, job, waits, cred, thr, snap, upd, ret, arg>> /\ run' = [run EXCEPT ![p] = NoRun]
  BY DEF Settle, stores
<1>3. run'[p].st = "none" /\ run'[p].res = "none" /\ \A q \in Runners \ {p} : run'[q] = run[q]
  BY <1>1, <1>2 DEF TypeInv, TypeOK, NoRun
<1>4. /\ \A q \in Procs \ {p} : pc'[q] = pc[q]
      /\ pc'[p] = IF At(p, "tAwait") THEN IF ok THEN "tEnsure" ELSE "tRestore" ELSE pc[p]
  <2>1. CASE At(p, "tAwait")
    <3>1. Goto(p, IF ok THEN "tEnsure" ELSE "tRestore")
      BY <1>1, <2>1 DEF Settle, AfterRun, PoisedOne, At
    <3> QED
      BY <1>1, <2>1, <3>1 DEF Goto, TypeInv, TypeOK
  <2>2. CASE ~At(p, "tAwait")
    <3>1. pc[p] \notin {"tAwait", "hAwait"}
      BY <1>1, <2>2 DEF PoisedOne, At, UpdateLabels
    <3> QED
      BY <2>2, <3>1 DEF Settle
  <2> QED
    BY <2>1, <2>2
<1>5. PoisedOne(p)'
  <2>1. Triggered(p) /\ pc[p] \notin {"idle", "tPre", "tRun"}
    BY <1>1 DEF PoisedOne
  <2> QED
    BY <1>1, <1>2, <1>3, <1>4, <2>1 DEF PoisedOne, At, UpdateLabels, Triggered
<1> QED
  BY <1>2, <1>3, <1>4, <1>5

\* A run that was entered takes its thread out of Running by its run event.
LEMMA AgentOwes ==
  ASSUME Undelayed, TypeInv, TypeInv', OwedInv, NEW p \in Clients, Agent(p)
  PROVE  OwedInv'
<1> USE DEF OwedInv
<1>1. /\ p \in Runners /\ p \in Procs /\ run[p] \in Runs /\ thr[p] \in Threads /\ PoisedOne(p)
      /\ \A t \in Threads : row[t].status # Waiting
  BY ClientsRun DEF TypeInv, TypeOK, Procs, Poised, RowsOwed
<1>2. CASE EnterRun(p)
  <2>1. /\ run' = [run EXCEPT ![p].st = "live"] /\ run[p].st = "prepared"
        /\ UNCHANGED <<row, job, waits, cred, pc, thr, snap, upd, ret, arg>>
    BY <1>2 DEF EnterRun, stores, procs
  <2>2. /\ run'[p].st = "live" /\ run'[p].res = run[p].res /\ \A q \in Runners \ {p} : run'[q] = run[q]
    BY <1>1, <2>1 DEF TypeInv, TypeOK, Runs
  <2>3. PICK e \in Events : e.p = p /\ e.k = "invoke" /\ Post(e)
    BY <1>1, <1>2 DEF EnterRun, Event, Events
  <2>4. Grown({e}) /\ chain'[Len(chain) + 1] = e /\ Len(chain) + 1 \in DOMAIN chain' \ DOMAIN chain
    BY <2>3, GrownOne
  <2>5. PoisedOne(p)'
    BY <1>1, <2>1, <2>2 DEF PoisedOne, At, Triggered
  <2>6. StepOf(p, {e})
    BY <1>1, <2>1, <2>2, <2>3, <2>4, <2>5 DEF StepOf
  <2>7. Owed(thr[p])'
    BY <2>1, <2>2 DEF Owed, Owes
  <2> QED
    BY <2>1, <2>6, <2>7, StepKeepsOwed
<1>3. CASE RunUnprepared(p)
  <2>1. Settle(p, FALSE) /\ "prepare" \in Faults /\ run[p].st = "prepared" /\ chain' = chain
    BY <1>3 DEF RunUnprepared
  <2>2. arg[p].op = "trigger" /\ At(p, "tAwait")
    BY <1>1, <2>1 DEF PoisedOne, Triggered, Undelayed
  <2>3. /\ run'[p].st = "none" /\ \A q \in Runners \ {p} : run'[q] = run[q]
        /\ \A q \in Procs \ {p} : pc'[q] = pc[q]
        /\ UNCHANGED <<row, job, waits, cred, thr, snap, upd, ret, arg>>
        /\ pc'[p] = "tRestore" /\ PoisedOne(p)'
    BY <2>1, <2>2, SettleOwes
  <2>4. StepOf(p, {})
    BY <1>1, <2>1, <2>3, GrownOne DEF StepOf
  <2>5. Owes(p) => Owed(thr[p])'
    <3>1. Owes(p) => Owes(p)'
      BY <2>1, <2>2, <2>3 DEF Owes, At
    <3> QED
      BY <2>3, <3>1 DEF Owed
  <2> QED
    BY <2>3, <2>4, <2>5, StepKeepsOwed
<1>4. CASE AgentDecides(p)
  <2>1. PICK d \in Outcomes : run' = [run EXCEPT ![p].res = d]
    BY <1>4 DEF AgentDecides
  <2>2. /\ run[p].st = "live" /\ UNCHANGED <<row, job, chain, waits, cred, pc, thr, snap, upd, ret, arg>>
    BY <1>4 DEF AgentDecides, stores, procs
  <2>3. /\ run'[p].st = "live" /\ run'[p].res # "wait" /\ \A q \in Runners \ {p} : run'[q] = run[q]
    BY <1>1, <2>1, <2>2 DEF TypeInv, TypeOK, Runs, Undelayed
  <2>4. PoisedOne(p)'
    BY <1>1, <2>2, <2>3 DEF PoisedOne, At, Triggered
  <2>5. StepOf(p, {})
    BY <1>1, <2>2, <2>3, <2>4, GrownOne DEF StepOf
  <2>6. Owed(thr[p])'
    BY <2>2, <2>3 DEF Owed, Owes
  <2> QED
    BY <2>2, <2>5, <2>6, StepKeepsOwed
<1>5. ASSUME NEW e \in Events, e.p = p, e.k = "run", e.out \in Endings, Post(e), NEW ok \in BOOLEAN, Settle(p, ok),
             run[p].st = "live"
      PROVE  OwedInv'
  <2>1. /\ run'[p].st = "none" /\ \A q \in Runners \ {p} : run'[q] = run[q]
        /\ \A q \in Procs \ {p} : pc'[q] = pc[q]
        /\ UNCHANGED <<row, job, waits, cred, thr, snap, upd, ret, arg>> /\ PoisedOne(p)'
    BY <1>5, SettleOwes
  <2>2. Grown({e}) /\ chain'[Len(chain) + 1] = e /\ Len(chain) + 1 \in DOMAIN chain' \ DOMAIN chain
    BY <1>5, GrownOne
  <2>3. StepOf(p, {e})
    BY <1>1, <1>5, <2>1, <2>2 DEF StepOf
  <2>4. Owed(thr[p])'
    <3>1. chain = <<>> => At(handler, "idle")
      BY DEF TypeInv, EventInHand
    <3>2. Len(chain) \in Nat /\ (Len(chain) = 0 => chain = <<>>)
      BY DEF TypeInv, TypeOK
    <3>3. Len(chain) + 1 # 1 \/ pc'[handler] # "landed"
      <4>1. handler \in Procs \ {p}
        BY ClientsRun DEF Procs
      <4> QED
        BY <2>1, <3>1, <3>2, <4>1 DEF At
    <3>4. PICK i \in DOMAIN chain' : chain'[i] = e /\ (i # 1 \/ pc'[handler] # "landed")
      BY <2>2, <3>3
    <3>5. OwedAt(i)' /\ Of(i)' = thr[p]
      BY <1>5, <2>1, <3>4 DEF OwedAt, Of, At
    <3> QED
      BY <2>1, <3>5 DEF Owed
  <2> QED
    BY <2>1, <2>3, <2>4, StepKeepsOwed
<1>6. CASE RunEnds(p)
  <2>1. FinalStatus(run[p]) \in Endings
    BY <1>1, <1>6 DEF RunEnds, FinalStatus, Endings, PoisedOne
  <2>2. Event("run", p, FinalStatus(run[p])) \in Events
    BY <1>1, <2>1 DEF Event, Events, Endings, ThreadStatuses
  <2> QED
    BY <1>5, <1>6, <2>1, <2>2 DEF RunEnds, Event
<1>7. CASE RunFails(p)
  <2>1. Event("run", p, Stopped) \in Events /\ Stopped \in Endings
    BY <1>1 DEF Event, Events, ThreadStatuses, Endings
  <2> QED
    BY <1>5, <1>7, <2>1 DEF RunFails, Event
<1>8. ~RunExceeds(p)
  BY DEF RunExceeds, Undelayed
<1> QED
  BY <1>2, <1>3, <1>4, <1>6, <1>7, <1>8 DEF Agent, RunEnded

---------------------------------------------------------------------------
\* The event in hand is the first of the chain, of a request, about a thread.
LEMMA FirstEvent ==
  ASSUME TypeInv, OfRuns, chain # <<>>
  PROVE  /\ 1 \in DOMAIN chain /\ Current = chain[1] /\ CurrentThread = Of(1) /\ CurrentThread \in Threads
         /\ Current.p \in Clients /\ Current.k \in {"invoke", "run", "stop"}
         /\ Current.k = "run" => Current.out \in Endings
         /\ Current.k = "stop" => Current.out = "manual"
         /\ DOMAIN chain = 1 .. Len(chain) /\ Len(chain) \in Nat
<1>1. 1 \in DOMAIN chain /\ Current = chain[1] /\ Current \in Events /\ DOMAIN chain = 1 .. Len(chain) /\ Len(chain) \in Nat
  BY DEF TypeInv, TypeOK, Current
<1>2. Current.p \in Clients /\ thr[Current.p] \in Threads
  BY <1>1, ClientsRun DEF OfRuns, TypeInv, TypeOK
<1>3. Current.k \in {"invoke", "run", "stop"}
  BY <1>1 DEF Events
<1> QED
  BY <1>1, <1>2, <1>3 DEF OfRuns, CurrentThread, Of

\* the events after the first move up when it is done with
Shifted ==
  /\ \A i \in DOMAIN chain' : i \in Nat \ {0} /\ i + 1 \in DOMAIN chain /\ chain'[i] = chain[i + 1]
  /\ \A m \in DOMAIN chain : m # 1 => m - 1 \in DOMAIN chain' /\ chain'[m - 1] = chain[m] /\ m \in Nat \ {0}

\* The event that is done with leaves the chain to the others.
LEMMA LandedShifts ==
  ASSUME TypeInv, chain # <<>>, Landed
  PROVE  Shifted /\ UNCHANGED <<row, thr>> /\ pc'[handler] = "idle" /\ pc[handler] = "landed"
<1>1. chain' = Tail(chain) /\ UNCHANGED <<row, thr>> /\ Goto(handler, "idle") /\ At(handler, "landed")
  BY DEF Landed, stores
<1>2. pc'[handler] = "idle"
  BY <1>1 DEF TypeInv, TypeOK, Goto, Procs
<1>3. /\ DOMAIN chain' = 1 .. (Len(chain) - 1) /\ DOMAIN chain = 1 .. Len(chain) /\ Len(chain) \in Nat
      /\ \A i \in DOMAIN chain' : i + 1 \in DOMAIN chain /\ chain'[i] = chain[i + 1]
  BY <1>1 DEF TypeInv, TypeOK
<1>4. \A m \in DOMAIN chain : m # 1 => m - 1 \in DOMAIN chain' /\ chain'[m - 1] = chain[m]
  BY <1>3
<1> QED
  BY <1>1, <1>2, <1>3, <1>4 DEF Shifted, At

\* The handler has nothing to do with the requests, nor with the order of the events.
LEMMA HandlerKeepsEvents ==
  ASSUME TypeInv, OwedInv, HandlerFrame
  PROVE  Bystanders' /\ Poised' /\ OfRuns' /\ InvokesEnd'
<1> USE DEF HandlerFrame, OwedInv
<1>1. Clients \subseteq Procs \ {handler} /\ Clients \subseteq Runners
  BY ClientsRun, RunnersAreProcs
<1>2. chain' = chain \/ (Landed /\ Shifted)
  BY LandedShifts
<1>3. Bystanders'
  BY DEF Bystanders, At
<1>4. \A i \in DOMAIN chain' : \E m \in DOMAIN chain : chain'[i] = chain[m]
  BY <1>2 DEF Shifted
<1>5. Poised'
  <2> SUFFICES ASSUME NEW q \in Clients PROVE PoisedOne(q)'
    BY DEF Poised
  <2>1. /\ pc'[q] = pc[q] /\ upd'[q] = upd[q] /\ ret'[q] = ret[q] /\ run'[q] = run[q] /\ arg'[q] = arg[q]
        /\ PoisedOne(q)
    BY <1>1 DEF Poised
  <2>2. (\A i \in DOMAIN chain : chain[i].p # q) => (\A i \in DOMAIN chain' : chain'[i].p # q)
    BY <1>4
  <2> QED
    BY <2>1, <2>2 DEF PoisedOne, At, Triggered
<1>6. OfRuns'
  BY <1>4 DEF OfRuns
<1>7. InvokesEnd'
  <2>1. CASE chain' = chain
    BY <2>1 DEF InvokesEnd
  <2>2. CASE Shifted
    <3> SUFFICES ASSUME NEW i \in (DOMAIN chain)', chain'[i].k = "invoke", run[chain'[i].p].st # "live"
                 PROVE  \E m \in DOMAIN chain' : i < m /\ chain'[m].p = chain'[i].p /\ chain'[m].k = "run"
      BY DEF InvokesEnd
    <3>1. i \in Nat \ {0} /\ i + 1 \in DOMAIN chain /\ chain'[i] = chain[i + 1]
      BY <2>2 DEF Shifted
    <3>2. PICK m \in DOMAIN chain : i + 1 < m /\ chain[m].p = chain[i + 1].p /\ chain[m].k = "run"
      BY <3>1 DEF InvokesEnd
    <3>3. m \in Int /\ m # 1
      BY <3>1, <3>2 DEF TypeInv, TypeOK
    <3>4. m - 1 \in DOMAIN chain' /\ chain'[m - 1] = chain[m] /\ i < m - 1
      BY <2>2, <3>1, <3>2, <3>3 DEF Shifted
    <3> QED
      BY <3>1, <3>2, <3>4
  <2> QED
    BY <1>2, <2>1, <2>2
<1> QED
  BY <1>3, <1>5, <1>6, <1>7

(* What a step that handles the event in hand does to the rows: only an invoke sets its
   thread Running, and a run event that is done with has taken its thread out of it. *)
Acts ==
  /\ chain' = chain /\ pc'[handler] # "idle" /\ Taken'
  /\ \A t \in Threads : row'[t].status # Waiting /\ (row[t].status # Absent => row'[t].status # Absent)
  /\ \A t \in Threads : row'[t].status = Running =>
       row[t].status = Running \/ (t = CurrentThread /\ Current.k = "invoke")
  /\ At(handler, "idle") /\ Current.k = "invoke" => row'[CurrentThread].status # Absent
  /\ pc'[handler] = "landed" /\ Current.k = "run" => row'[CurrentThread].status \in Endings

\* The handler takes an event, or goes on with it, and emits the update.
LEMMA HandledActs ==
  ASSUME TypeInv, OwedInv, HandleInvoke \/ ClearCostState \/ HandleRun \/ HandleStop
  PROVE  Acts
<1> USE DEF OwedInv
<1>1. handler \in Procs /\ chain # <<>> /\ chain' = chain /\ UNCHANGED <<run, snap, arg>>
  BY DEF HandleInvoke, ClearCostState, HandleRun, HandleStop, Idle, TypeInv, EventInHand, At,
         Procs, agent
<1>2. /\ CurrentThread \in Threads /\ Current.p \in Clients /\ Current.k \in {"invoke", "run", "stop"}
      /\ (Current.k = "stop" => Current.out = "manual") /\ Current' = Current
  BY <1>1, FirstEvent DEF Current
<1>3. CurrentThread' = CurrentThread
  <2>1. \A q \in Procs \ {handler} : thr'[q] = thr[q]
    BY DEF HandleInvoke, ClearCostState, HandleRun, HandleStop, Emit, TypeInv, TypeOK
  <2> QED
    BY <1>1, <1>2, <2>1, ClientsRun DEF CurrentThread
<1>4. \A t \in Threads : row[t] \in Row /\ row[t].status # Waiting
  BY DEF RowsOwed, TypeInv, TypeOK
<1>5. ASSUME NEW t \in Threads, NEW u, NEW l, Emit(handler, t, u, l)
      PROVE  pc'[handler] = "tuRead" /\ ret'[handler] = l /\ thr'[handler] = t /\ upd'[handler] = u
  BY <1>1, <1>5 DEF Emit, Goto, TypeInv, TypeOK
<1>6. ASSUME Goto(handler, "landed") PROVE pc'[handler] = "landed"
  BY <1>1, <1>6 DEF Goto, TypeInv, TypeOK
<1>7. CASE HandleInvoke
  <2>1. /\ At(handler, "idle") /\ Current.k = "invoke"
        /\ row' = [row EXCEPT ![CurrentThread] = InvokedRow(row[CurrentThread])]
        /\ Goto(handler, "landed") \/ \E l \in {"invoked", "landed"} : Emit(handler, CurrentThread, RunningDto, l)
    BY <1>7 DEF HandleInvoke, Idle, Write
  <2>2. /\ row'[CurrentThread].status = Running
        /\ \A t \in Threads \ {CurrentThread} : row'[t] = row[t]
    BY <1>2, <1>4, <2>1, UpsertStatus DEF TypeInv, TypeOK
  <2>3. pc'[handler] # "idle" /\ InvokeTaken'
    <3>1. CASE Goto(handler, "landed")
      BY <1>3, <1>6, <2>2, <3>1 DEF InvokeTaken, InHandWith, UpdateLabels, Running, Absent
    <3>2. ASSUME NEW l \in {"invoked", "landed"}, Emit(handler, CurrentThread, RunningDto, l)
          PROVE  pc'[handler] # "idle" /\ InvokeTaken'
      BY <1>2, <1>3, <1>5, <2>2, <3>2 DEF InvokeTaken, InHandWith, UpdateLabels, Running, Absent, RunningDto, Dropping
    <3> QED
      BY <2>1, <3>1, <3>2
  <2> QED
    BY <1>1, <1>2, <1>4, <2>1, <2>2, <2>3 DEF Acts, Taken, Running, Waiting, Absent
<1>8. CASE ClearCostState
  <2>1. /\ At(handler, "invoked") /\ Emit(handler, CurrentThread, Dropping("keep", CostMarkers), "landed")
        /\ UNCHANGED row
    BY <1>8 DEF ClearCostState, stores
  <2>2. Current.k = "invoke" /\ InvokeTaken
    BY <1>2, <2>1 DEF Taken, RunTaken, StopTaken, InHandWith, At, UpdateLabels
  <2>3. Dropping("keep", CostMarkers).status = "keep"
    BY DEF Dropping
  <2>4. pc'[handler] = "tuRead" /\ InvokeTaken'
    BY <1>2, <1>3, <1>5, <2>1, <2>2, <2>3 DEF InvokeTaken, InHandWith, UpdateLabels
  <2> QED
    BY <1>1, <1>2, <1>4, <2>1, <2>2, <2>4 DEF Acts, Taken, At
<1>9. CASE HandleRun
  <2>1. /\ At(handler, "idle") /\ Current.k = "run" /\ UNCHANGED row
        /\ Emit(handler, CurrentThread, Update(Current.out), "landed")
    BY <1>9 DEF HandleRun, stores, Idle
  <2>2. pc'[handler] = "tuRead" /\ RunTaken'
    BY <1>2, <1>3, <1>5, <2>1 DEF RunTaken, InHandWith, UpdateLabels, At
  <2> QED
    BY <1>1, <1>2, <1>4, <2>1, <2>2 DEF Acts, Taken, At
<1>10. CASE HandleStop
  <2>1. (At(handler, "stopping") \/ (At(handler, "idle") /\ Current.k = "stop")) /\ UNCHANGED row
    BY <1>10 DEF HandleStop, stores, Idle
  <2>2. Current.k = "stop"
    BY <1>2, <2>1 DEF Taken, InvokeTaken, RunTaken, InHandWith, At, UpdateLabels
  <2>3. Goto(handler, "landed") \/ \E t \in Threads : Emit(handler, t, ManualStop, "stopping")
    <3>1. {thr[p] : p \in execs} \subseteq Threads
      BY RunnersAreProcs DEF TypeInv, TypeOK
    <3> QED
      BY <1>2, <1>10, <2>2, <3>1 DEF HandleStop
  <2>4. pc'[handler] # "idle" /\ StopTaken'
    <3>1. CASE Goto(handler, "landed")
      BY <1>6, <3>1 DEF StopTaken, InHandWith, UpdateLabels
    <3>2. ASSUME NEW t \in Threads, Emit(handler, t, ManualStop, "stopping") PROVE pc'[handler] # "idle" /\ StopTaken'
      BY <1>5, <3>2 DEF StopTaken, InHandWith, UpdateLabels, ManualStop, Dropping
    <3> QED
      BY <2>3, <3>1, <3>2
  <2> QED
    BY <1>1, <1>2, <1>4, <2>1, <2>2, <2>4 DEF Acts, Taken, At
<1> QED
  BY <1>7, <1>8, <1>9, <1>10

\* The update of the event in hand.
LEMMA UpdateActs ==
  ASSUME TypeInv, OwedInv, UpdatesRow(handler)
  PROVE  Acts
<1> USE DEF OwedInv
<1>1. /\ handler \in Procs /\ chain # <<>> /\ ~At(handler, "idle") /\ pc[handler] \in UpdateLabels
      /\ chain' = chain /\ thr' = thr
  BY DEF UpdatesRow, UpdateRead, UpdateStatus, UpdateMeta, TypeInv, EventInHand, At, Procs, agent, UpdateLabels
<1>2. /\ 1 \in DOMAIN chain /\ Current = chain[1] /\ CurrentThread = Of(1) /\ DOMAIN chain \subseteq Nat \ {0}
      /\ CurrentThread \in Threads /\ Current.k \in {"invoke", "run", "stop"}
      /\ (Current.k = "run" => Current.out \in Endings)
      /\ Current' = Current /\ CurrentThread' = CurrentThread
  BY <1>1, FirstEvent DEF Current, CurrentThread
<1>3. \A t \in Threads : row[t] \in Row /\ row[t].status # Waiting
  BY DEF RowsOwed, TypeInv, TypeOK
<1>4. thr[handler] \in Threads /\ snap[handler] \in Row /\ upd[handler] \in Updates /\ row[thr[handler]] \in Row
  BY <1>1 DEF TypeInv, TypeOK
<1>5. /\ Current.k = "invoke" => InvokeTaken /\ thr[handler] = CurrentThread
                                   /\ ret[handler] \in {"invoked", "landed"} /\ upd[handler].status \in {"keep", Running}
      /\ Current.k = "run" => RunTaken /\ thr[handler] = CurrentThread
                                /\ ret[handler] = "landed" /\ upd[handler] = Update(Current.out)
      /\ Current.k = "stop" => StopTaken /\ ret[handler] = "stopping" /\ upd[handler].status = Stopped
  BY <1>1, <1>2 DEF Taken, InvokeTaken, RunTaken, StopTaken, InHandWith
<1>6. ASSUME Return(handler), \A t \in Threads : row[t].status # Absent => row'[t].status # Absent
      PROVE  Taken' /\ pc'[handler] = ret[handler] /\ pc'[handler] # "idle"
  <2>1. pc'[handler] = ret[handler]
    BY <1>6, HandlerReturns
  <2> QED
    BY <1>2, <1>5, <1>6, <2>1 DEF Taken, InvokeTaken, RunTaken, StopTaken, InHandWith, UpdateLabels, At
<1>7. CASE UpdateRead(handler)
  <2> DEFINE r == row[thr[handler]]
             u == upd[handler]
  <2>1. UNCHANGED row /\ At(handler, "tuRead")
    BY <1>7 DEF UpdateRead, stores
  <2>2. CASE Return(handler) /\ ~(r.status # Absent /\ (ChangesStatus(r, u) \/ ChangesMeta(r, u)))
    <3>1. Current.k = "run" => row[CurrentThread].status \in Endings
      <4> SUFFICES ASSUME Current.k = "run" PROVE row[CurrentThread].status \in Endings
        OBVIOUS
      <4>1. row[CurrentThread].status # Absent
        BY <1>2 DEF RowsThere
      <4>2. row[CurrentThread].status = Current.out
        BY <1>2, <1>5, <2>2, <4>1 DEF ChangesStatus, Update, Endings, Done, NeedMoreInfo, Stopped
      <4> QED
        BY <1>2, <4>2
    <3> QED
      BY <1>1, <1>3, <1>6, <2>1, <2>2, <3>1 DEF Acts
  <2>3. CASE /\ Goto(handler, IF ChangesStatus(r, u) THEN "tuStatus" ELSE "tuMeta")
             /\ Load(handler, thr[handler]) /\ UNCHANGED <<upd, ret>>
             /\ ChangesStatus(r, u) \/ ChangesMeta(r, u)
    <3>1. /\ pc'[handler] = IF ChangesStatus(r, u) THEN "tuStatus" ELSE "tuMeta"
          /\ snap'[handler] = r
      BY <1>1, <2>3 DEF Goto, Load, TypeInv, TypeOK
    <3>2. Current.k = "run" => ChangesStatus(r, u) /\ r.status \notin {Current.out, Waiting}
      <4>1. r.status # Waiting
        BY <1>3, <1>4
      <4>2. Current.k = "run" => ~ChangesMeta(r, u) /\ (ChangesStatus(r, u) => r.status # Current.out)
        BY <1>5, <4>1 DEF ChangesMeta, ClearsWait, ChangesStatus, Update
      <4> QED
        BY <2>3, <4>1, <4>2
    <3>3. Taken'
      <4>1. Current.k = "invoke" => InvokeTaken'
        BY <1>1, <1>2, <1>5, <2>1, <2>3, <3>1 DEF InvokeTaken, InHandWith, UpdateLabels
      <4>2. Current.k = "run" => RunTaken'
        BY <1>1, <1>2, <1>5, <2>1, <2>3, <3>1, <3>2 DEF RunTaken, InHandWith, UpdateLabels, At
      <4>3. Current.k = "stop" => StopTaken'
        BY <1>5, <2>3, <3>1 DEF StopTaken, InHandWith, UpdateLabels
      <4> QED
        BY <1>2, <4>1, <4>2, <4>3 DEF Taken
    <3> QED
      BY <1>1, <1>3, <2>1, <3>1, <3>3 DEF Acts
  <2> QED
    BY <1>7, <2>2, <2>3 DEF UpdateRead
<1>8. CASE UpdateStatus(handler)
  <2> DEFINE r == row[thr[handler]]
             s == snap[handler]
             u == upd[handler]
             w == ApplyStatus(r, s, u)
  <2>1. At(handler, "tuStatus") /\ row' = [row EXCEPT ![thr[handler]] = w]
    BY <1>8 DEF UpdateStatus, Write
  <2>2. w.status = (IF u.status # s.status THEN u.status ELSE r.status) /\ u.status # "keep"
    BY <1>1, <1>4, <2>1 DEF ApplyStatus, WriteStatus, Row, TypeInv, StatusToWrite
  <2>3. row'[thr[handler]] = w /\ \A t \in Threads \ {thr[handler]} : row'[t] = row[t]
    BY <1>4, <2>1 DEF TypeInv, TypeOK
  <2>4. Current.k = "run" => w.status \in Endings /\ ~ChangesMeta(s, u)
    <3> SUFFICES ASSUME Current.k = "run" PROVE w.status \in Endings /\ ~ChangesMeta(s, u)
      OBVIOUS
    <3>1. u = Update(Current.out) /\ s.status \notin {Current.out, Waiting}
      BY <1>1, <1>5, <2>1 DEF RunTaken
    <3> QED
      BY <1>2, <2>2, <3>1 DEF Update, ChangesMeta, ClearsWait
  <2>5. /\ \A t \in Threads : row'[t].status # Waiting /\ (row[t].status # Absent => row'[t].status # Absent)
        /\ \A t \in Threads : row'[t].status = Running =>
             row[t].status = Running \/ (t = CurrentThread /\ Current.k = "invoke")
    <3>1. /\ Current.k = "invoke" => u.status = Running /\ thr[handler] = CurrentThread
          /\ Current.k = "stop" => u.status = Stopped
      BY <1>5, <2>2
    <3>2. w.status \in Endings \cup {r.status} \/ (w.status = Running /\ Current.k = "invoke" /\ thr[handler] = CurrentThread)
      BY <1>2, <2>2, <2>4, <3>1 DEF Endings
    <3>3. w.status # Waiting /\ (r.status # Absent => w.status # Absent)
          /\ (w.status = Running => r.status = Running \/ (Current.k = "invoke" /\ thr[handler] = CurrentThread))
      BY <1>3, <1>4, <3>2 DEF Endings, Done, NeedMoreInfo, Stopped, Running, Waiting, Absent
    <3> QED
      BY <1>3, <2>3, <3>3
  <2>6. CASE Return(handler)
    BY <1>1, <1>5, <1>6, <2>3, <2>4, <2>5, <2>6 DEF Acts
  <2>7. CASE ChangesMeta(s, u) /\ Goto(handler, "tuMeta") /\ UNCHANGED <<snap, upd, ret>>
    <3>1. pc'[handler] = "tuMeta" /\ Current.k # "run"
      BY <1>1, <2>4, <2>7 DEF Goto, TypeInv, TypeOK
    <3>2. Taken'
      <4>1. Current.k = "invoke" => InvokeTaken'
        BY <1>1, <1>2, <1>5, <2>5, <2>7, <3>1 DEF InvokeTaken, InHandWith, UpdateLabels
      <4>2. Current.k = "stop" => StopTaken'
        BY <1>5, <2>7, <3>1 DEF StopTaken, InHandWith, UpdateLabels
      <4> QED
        BY <1>2, <3>1, <4>1, <4>2 DEF Taken
    <3> QED
      BY <1>1, <2>5, <3>1, <3>2 DEF Acts
  <2> QED
    BY <1>8, <2>6, <2>7 DEF UpdateStatus
<1>9. CASE UpdateMeta(handler)
  <2> DEFINE m == ApplyMeta(row[thr[handler]], snap[handler], upd[handler])
  <2>1. At(handler, "tuMeta") /\ row' = [row EXCEPT ![thr[handler]] = m] /\ Return(handler)
    BY <1>9 DEF UpdateMeta, Write
  <2>2. m.status = row[thr[handler]].status
    BY <1>4 DEF ApplyMeta, WriteMeta, Row
  <2>3. \A t \in Threads : row'[t].status = row[t].status
    BY <1>4, <2>1, <2>2 DEF TypeInv, TypeOK
  <2>4. Current.k # "run"
    BY <1>5, <2>1 DEF RunTaken, InHandWith, At
  <2> QED
    BY <1>1, <1>3, <1>6, <2>1, <2>3, <2>4 DEF Acts
<1> QED
  BY <1>7, <1>8, <1>9 DEF UpdatesRow

\* The event that is done with owes nothing, and the row of its thread is there.
LEMMA LandedOwes ==
  ASSUME TypeInv, OwedInv, HandlerFrame, Landed
  PROVE  RowsThere' /\ Taken' /\ RowsOwed'
<1> USE DEF HandlerFrame, OwedInv
<1>1. Clients \subseteq Procs \ {handler} /\ Clients \subseteq Runners
  BY ClientsRun, RunnersAreProcs
<1>2. Shifted /\ UNCHANGED <<row, thr>> /\ pc'[handler] = "idle" /\ pc[handler] = "landed"
  BY LandedShifts
<1>3. \A q \in Clients, m \in DOMAIN chain : InvokeDue(q, m) => m # 1 /\ m - 1 \in DOMAIN chain' /\ InvokeDue(q, m - 1)'
  <2> SUFFICES ASSUME NEW q \in Clients, NEW m \in DOMAIN chain, InvokeDue(q, m)
               PROVE  m # 1 /\ m - 1 \in DOMAIN chain' /\ InvokeDue(q, m - 1)'
    OBVIOUS
  <2>1. m # 1
    BY <1>2 DEF InvokeDue, At
  <2>2. m - 1 \in DOMAIN chain' /\ chain'[m - 1] = chain[m]
    BY <1>2, <2>1 DEF Shifted
  <2> QED
    BY <1>2, <2>1, <2>2 DEF InvokeDue, At
<1>4. RowsThere'
  <2>1. ASSUME NEW q \in Clients, run'[q].st = "live"
        PROVE  row'[thr'[q]].status # Absent \/ \E m \in DOMAIN chain' : InvokeDue(q, m)'
    BY <1>2, <1>3, <2>1 DEF RowsThere
  <2>2. ASSUME NEW i \in (DOMAIN chain)', chain'[i].k = "run"
        PROVE  row'[Of(i)'].status # Absent \/ \E m \in DOMAIN chain' : m < i /\ InvokeDue(chain[i].p, m)'
    <3>1. i \in Nat \ {0} /\ i + 1 \in DOMAIN chain /\ chain'[i] = chain[i + 1] /\ Of(i)' = Of(i + 1)
      BY <1>2 DEF Shifted, Of
    <3>2. CASE row[Of(i + 1)].status # Absent
      BY <1>2, <3>1, <3>2
    <3>3. CASE \E m \in DOMAIN chain : m < i + 1 /\ InvokeDue(chain[i + 1].p, m)
      <4>1. PICK q \in Clients, m \in DOMAIN chain : m < i + 1 /\ InvokeDue(q, m) /\ q = chain[i + 1].p
        BY <3>1, <3>3 DEF OfRuns
      <4>2. m \in Int
        BY DEF TypeInv, TypeOK
      <4>3. PICK n \in DOMAIN chain' : n = m - 1
        BY <1>3, <4>1
      <4>4. n < i /\ InvokeDue(q, n)'
        BY <1>3, <3>1, <4>1, <4>2, <4>3
      <4>5. InvokeDue(chain[i].p, n)'
        BY <3>1, <4>1, <4>4 DEF InvokeDue
      <4> QED
        BY <4>4, <4>5
    <3> QED
      BY <2>2, <3>1, <3>2, <3>3 DEF RowsThere
  <2> QED
    BY <2>1, <2>2 DEF RowsThere
<1>5. Taken'
  BY <1>2 DEF Taken, At
<1>6. \A t \in Threads : Owed(t) => Owed(t)'
  <2> SUFFICES ASSUME NEW t \in Threads, Owed(t) PROVE Owed(t)'
    OBVIOUS
  <2>1. ASSUME NEW q \in Clients, thr[q] = t, Owes(q) PROVE Owed(t)'
    <3>1. Owes(q)' /\ thr'[q] = t
      BY <1>1, <1>2, <2>1 DEF Owes
    <3> QED
      BY <3>1 DEF Owed
  <2>2. ASSUME NEW i \in DOMAIN chain, Of(i) = t, OwedAt(i) PROVE Owed(t)'
    <3>1. i # 1
      BY <1>2, <2>2 DEF OwedAt, At
    <3>2. PICK j \in DOMAIN chain' : chain'[j] = chain[i]
      BY <1>2, <3>1 DEF Shifted
    <3>3. OwedAt(j)' /\ Of(j)' = t
      BY <1>2, <2>2, <3>2 DEF OwedAt, Of, At
    <3> QED
      BY <3>3 DEF Owed
  <2> QED
    BY <2>1, <2>2 DEF Owed
<1>7. RowsOwed'
  <2>1. \A t \in Threads : row'[t].status # Waiting /\ (row'[t].status = Running => Owed(t)')
    BY <1>2, <1>6 DEF RowsOwed
  <2>2. ASSUME NEW q \in Clients, At(q, "tEnsure")', row'[thr'[q]].status = Absent PROVE Owed(thr[q])'
    <3>1. At(q, "tEnsure") /\ row[thr[q]].status = Absent /\ thr'[q] = thr[q]
      BY <1>1, <1>2, <2>2 DEF At
    <3>2. PICK t \in Threads : t = thr[q]
      BY <1>1 DEF TypeInv, TypeOK
    <3>3. Owed(t)'
      BY <1>6, <3>1, <3>2 DEF RowsOwed
    <3> QED
      BY <3>1, <3>2, <3>3
  <2> QED
    BY <2>1, <2>2 DEF RowsOwed
<1> QED
  BY <1>4, <1>5, <1>7

\* A step that handles the event in hand: what it sets Running has a run or a run event.
LEMMA ActsOwe ==
  ASSUME TypeInv, OwedInv, HandlerFrame, Acts
  PROVE  RowsThere' /\ Taken' /\ RowsOwed'
<1> USE DEF HandlerFrame, OwedInv
<1>1. Clients \subseteq Procs \ {handler} /\ Clients \subseteq Runners
  BY ClientsRun, RunnersAreProcs
<1>2. /\ chain' = chain /\ pc'[handler] # "idle"
      /\ \A t \in Threads : row'[t].status # Waiting /\ (row[t].status # Absent => row'[t].status # Absent)
  BY DEF Acts
<1>3. /\ 1 \in DOMAIN chain /\ Current = chain[1] /\ CurrentThread = Of(1) /\ CurrentThread \in Threads
      /\ Current.p \in Clients /\ DOMAIN chain \subseteq Nat \ {0}
  BY FirstEvent
<1>4. \A i \in DOMAIN chain : chain[i].p \in Clients /\ Of(i)' = Of(i) /\ Of(i) \in Threads
  BY <1>1, <1>2 DEF OfRuns, Of, TypeInv, TypeOK
<1>5. \A q \in Clients : thr'[q] = thr[q] /\ thr[q] \in Threads /\ (Owes(q) <=> Owes(q)')
  BY <1>1 DEF Owes, TypeInv, TypeOK
<1>6. \A q \in Clients, m \in DOMAIN chain : InvokeDue(q, m) =>
        InvokeDue(q, m)' \/ (thr[q] = CurrentThread /\ row'[CurrentThread].status # Absent)
  <2> SUFFICES ASSUME NEW q \in Clients, NEW m \in DOMAIN chain, InvokeDue(q, m)
               PROVE  InvokeDue(q, m)' \/ (thr[q] = CurrentThread /\ row'[CurrentThread].status # Absent)
    OBVIOUS
  <2>1. CASE m # 1
    BY <1>2, <2>1 DEF InvokeDue
  <2>2. CASE m = 1
    <3>1. At(handler, "idle") /\ Current.k = "invoke" /\ Current.p = q
      BY <1>3, <2>2 DEF InvokeDue
    <3> QED
      BY <3>1 DEF Acts, CurrentThread
  <2> QED
    BY <2>1, <2>2
<1>7. RowsThere'
  <2>1. ASSUME NEW q \in Clients, run'[q].st = "live"
        PROVE  row'[thr'[q]].status # Absent \/ \E m \in DOMAIN chain' : InvokeDue(q, m)'
    BY <1>2, <1>5, <1>6, <2>1 DEF RowsThere
  <2>2. ASSUME NEW i \in (DOMAIN chain)', chain'[i].k = "run"
        PROVE  row'[Of(i)'].status # Absent \/ \E m \in DOMAIN chain' : m < i /\ InvokeDue(chain[i].p, m)'
    <3>1. i \in DOMAIN chain /\ chain[i].k = "run" /\ chain[i].p \in Clients /\ Of(i) = thr[chain[i].p]
      BY <1>2, <1>4, <2>2 DEF Of
    <3>2. row[Of(i)].status # Absent \/ \E m \in DOMAIN chain : m < i /\ InvokeDue(chain[i].p, m)
      BY <3>1 DEF RowsThere
    <3>3. PICK q \in Clients : q = chain[i].p
      BY <3>1
    <3>4. row'[Of(i)].status # Absent \/ \E m \in DOMAIN chain : m < i /\ InvokeDue(q, m)'
      BY <1>2, <1>4, <1>6, <3>1, <3>2, <3>3
    <3> QED
      BY <1>2, <1>4, <3>1, <3>3, <3>4
  <2> QED
    BY <2>1, <2>2 DEF RowsThere
<1>8. \A t \in Threads : Owed(t) => Owed(t)' \/ row'[t].status \in Endings
  <2> SUFFICES ASSUME NEW t \in Threads, Owed(t) PROVE Owed(t)' \/ row'[t].status \in Endings
    OBVIOUS
  <2>1. ASSUME NEW q \in Clients, thr[q] = t, Owes(q) PROVE Owed(t)'
    BY <1>5, <2>1 DEF Owed
  <2>2. ASSUME NEW i \in DOMAIN chain, Of(i) = t, OwedAt(i) PROVE Owed(t)' \/ row'[t].status \in Endings
    <3>1. CASE i # 1 \/ pc'[handler] # "landed"
      <4>1. OwedAt(i)' /\ Of(i)' = t
        BY <1>2, <1>4, <2>2, <3>1 DEF OwedAt, At
      <4> QED
        BY <1>2, <4>1 DEF Owed
    <3>2. CASE i = 1 /\ pc'[handler] = "landed"
      BY <1>3, <2>2, <3>2 DEF OwedAt, Acts
    <3> QED
      BY <3>1, <3>2
  <2> QED
    BY <2>1, <2>2 DEF Owed
<1>9. Current.k = "invoke" => Owed(CurrentThread)'
  <2> SUFFICES ASSUME Current.k = "invoke" PROVE Owed(CurrentThread)'
    OBVIOUS
  <2>1. CurrentThread' = thr[Current.p] /\ CurrentThread = thr[Current.p]
    BY <1>2, <1>3, <1>5 DEF CurrentThread, Current
  <2>2. CASE run[Current.p].st = "live"
    <3>1. Owes(Current.p)
      BY <2>2 DEF Owes
    <3>2. PICK q \in Clients : q = Current.p
      BY <1>3
    <3>3. Owes(q)' /\ thr'[q] = thr[q]
      BY <1>5, <3>1, <3>2
    <3> QED
      BY <2>1, <3>2, <3>3 DEF Owed
  <2>3. CASE run[Current.p].st # "live"
    <3>1. PICK m \in DOMAIN chain : 1 < m /\ chain[m].p = Current.p /\ chain[m].k = "run"
      BY <1>3, <2>3 DEF InvokesEnd
    <3>2. OwedAt(m)' /\ Of(m)' = thr[Current.p]
      BY <1>2, <1>3, <1>4, <3>1 DEF OwedAt, Of
    <3> QED
      BY <1>2, <2>1, <3>2 DEF Owed
  <2> QED
    BY <2>2, <2>3
<1>10. \A t \in Threads : row'[t].status = Running => Owed(t)'
  <2> SUFFICES ASSUME NEW t \in Threads, row'[t].status = Running PROVE Owed(t)'
    OBVIOUS
  <2>1. CASE row[t].status = Running
    BY <1>8, <2>1 DEF RowsOwed, Endings, Running, Done, NeedMoreInfo, Stopped
  <2>2. CASE t = CurrentThread /\ Current.k = "invoke"
    <3>1. CurrentThread' = CurrentThread
      BY <1>2, <1>3, <1>5 DEF CurrentThread, Current
    <3> QED
      BY <1>9, <2>2, <3>1
  <2> QED
    BY <2>1, <2>2 DEF Acts
<1>11. ASSUME NEW q \in Clients, At(q, "tEnsure")', row'[thr'[q]].status = Absent PROVE Owed(thr[q])'
  <2>1. /\ At(q, "tEnsure") /\ row[thr[q]].status = Absent /\ thr'[q] = thr[q]
    BY <1>1, <1>2, <1>5, <1>11 DEF At
  <2>2. PICK t \in Threads : t = thr[q]
    BY <1>5
  <2>3. Owed(t)'
    BY <1>8, <1>11, <2>1, <2>2 DEF RowsOwed, Endings, Absent, Done, NeedMoreInfo, Stopped
  <2> QED
    BY <2>1, <2>2, <2>3
<1> QED
  BY <1>2, <1>7, <1>10, <1>11 DEF RowsOwed, Acts

---------------------------------------------------------------------------
\* Every step keeps what is owed.
LEMMA OwedStep ==
  ASSUME Undelayed, IInv, IInv', OwedInv, [Next]_vars
  PROVE  OwedInv'
<1>1. TypeInv /\ TypeInv'
  BY DEF IInv
<1>2. CASE UNCHANGED vars
  <2>1. UNCHANGED <<row, job, run, execs, chain, waits, waited, cred, pc, thr, snap, upd, ret, arg>>
    BY <1>2 DEF vars, stores, agent, procs
  <2>2. Bystanders' /\ Poised' /\ OfRuns' /\ InvokesEnd'
    BY <2>1 DEF OwedInv, Bystanders, Poised, PoisedOne, OfRuns, InvokesEnd, At, Triggered
  <2>3. RowsThere' /\ Taken'
    BY <2>1 DEF OwedInv, RowsThere, InvokeDue, Of, Taken, InvokeTaken, RunTaken, StopTaken, InHandWith,
                Current, CurrentThread, At
  <2>4. RowsOwed'
    BY <2>1 DEF OwedInv, RowsOwed, Owed, Owes, OwedAt, Of, At
  <2> QED
    BY <2>2, <2>3, <2>4 DEF OwedInv
<1>3. CASE Handler
  <2>1. HandlerFrame
    <3>1. chain # <<>> /\ Current.k = "run" => Current.out # Waiting
      BY <1>1, FirstEvent DEF OwedInv, Endings, Done, NeedMoreInfo, Stopped, Waiting
    <3> QED
      BY <1>1, <1>3, <3>1, HandlerFramed
  <2>2. Bystanders' /\ Poised' /\ OfRuns' /\ InvokesEnd'
    BY <1>1, <2>1, HandlerKeepsEvents
  <2>3. RowsThere' /\ Taken' /\ RowsOwed'
    BY <1>1, <1>3, <2>1, HandledActs, UpdateActs, LandedOwes, ActsOwe DEF Handler
  <2> QED
    BY <2>2, <2>3 DEF OwedInv
<1>4. CASE Next
  <2>1. (\E p \in Clients : Caller(p) \/ Agent(p)) \/ Handler
    BY <1>4, BystandersStandBy DEF OwedInv, RowsOwed, Undelayed
  <2> QED
    BY <1>1, <1>3, <2>1, CallerOwes, AgentOwes
<1> QED
  BY <1>2, <1>4

(* No thread is left Running with nothing running it, whichever requests overlap, stop
   its run, miss the pod of its graph or cannot prepare a run: a status that
   executeTrigger pre-sets is restored by its catch block or followed by a run, and a
   status that an invoke sets, early or late, by the run event of that run. *)
THEOREM NobodyStranded ==
  ASSUME Undelayed
  PROVE  Spec => []NoStrandedRunning
<1>1. IInv /\ OwedInv => NoStrandedRunning
  <2> SUFFICES ASSUME IInv, OwedInv, NEW t \in Threads, Settled(t), row[t].status = Running
               PROVE  FALSE
    BY DEF NoStrandedRunning
  <2>1. chain = <<>> /\ \A p \in Clients : /\ pc[p] \in {"idle", "done", "tAwait", "hAwait"}
                                           /\ thr[p] = t => run[p].st = "none"
    BY ClientsRun DEF Settled, Quiet, Served, Procs
  <2>2. ~Owed(t)
    BY <2>1 DEF Owed, Owes
  <2> QED
    BY <2>2 DEF OwedInv, RowsOwed
<1>2. IInv /\ IInv' /\ OwedInv /\ [Next]_vars => OwedInv'
  BY OwedStep
<1> QED
  BY <1>1, <1>2, OwedInit, Inductive, PTL DEF Spec
---------------------------------------------------------------------------
(* No thread is left Running, with pauses, resumes and waits. Three more hand the debt
   on: a resume that sets Running before its run, a pause on the way to Waiting, and an
   update that lands Running and returns to a run. *)

\* what a trigger keeps to restore is a row that is over
SavedOver(p) == arg[p].saved = NoRow \/ arg[p].saved.status \in Terminal

\* a caller that has asked nothing has nothing running, and no event about it
Unasked(p) == At(p, "idle") => /\ arg[p].op = "none" /\ run[p].st = "none"
                               /\ \A i \in DOMAIN chain : chain[i].p # p

\* only a resume emits Running, and it goes on to start a run
UpdateEnds(p) ==
  pc[p] \in UpdateLabels => upd[p].status \in {Stopped, Waiting} \/ (p \in Runners /\ ret[p] = "hRun")

\* a row that pauseThread has read is there
PauseFound(p) == At(p, "pWrite") /\ snap[p].status # Absent => row[thr[p]].status # Absent

Steadfast ==
  /\ \A p \in Clients : SavedOver(p) /\ Unasked(p)
  /\ \A p \in Procs \ {handler} : UpdateEnds(p) /\ PauseFound(p)

\* no run event lands Running
RunsEnd == \A i \in DOMAIN chain : chain[i].k = "run" => chain[i].out # Running

\* a thread has its row once the invoke of a run has been taken
RowsMade ==
  /\ \A p \in Runners : run[p].st = "live" =>
       row[thr[p]].status # Absent \/ \E m \in DOMAIN chain : InvokeDue(p, m)
  /\ \A i \in DOMAIN chain : chain[i].k = "run" =>
       row[Of(i)].status # Absent \/ \E m \in DOMAIN chain : m < i /\ InvokeDue(chain[i].p, m)

\* a run event that waits may clear the wait of the row it finds
RunHandled ==
  /\ InHandWith(UpdateLabels \cup {"landed"}, {"landed"})
  /\ pc[handler] \in UpdateLabels => thr[handler] = CurrentThread /\ upd[handler] = Update(Current.out)
  /\ At(handler, "tuStatus") => snap[handler].status # Current.out

Handling ==
  ~At(handler, "idle") =>
    /\ Current.k = "invoke" => InvokeTaken
    /\ Current.k = "run" => RunHandled
    /\ Current.k = "stop" => StopTaken

(* Who has yet to take a thread out of Running: its run, a request or a resume that
   starts one, or that pauses instead ... *)
Debtor(p) ==
  \/ run[p].st # "none"
  \/ pc[p] \in {"tPre", "tRun", "hRun", "pRead"}
  \/ At(p, "pWrite") /\ snap[p].status # Waiting
  \/ pc[p] \in UpdateLabels /\ ret[p] = "hRun"

\* ... or a run event whose status is not written yet
DebtAt(i) == chain[i].k = "run" /\ (i = 1 => pc[handler] \in {"idle", "tuRead", "tuStatus"})
Debt(t)   == \/ \E p \in Runners : thr[p] = t /\ Debtor(p)
             \/ \E i \in DOMAIN chain : Of(i) = t /\ DebtAt(i)

\* ensureThreadRow inserts Running only while somebody owes it an end
Ensures(p)     == At(p, "tEnsure") \/ (pc[p] \in UpdateLabels /\ ret[p] = "tEnsure")
InsertsCovered ==
  \A p \in Clients : Ensures(p) => row[thr[p]].status # Absent \/ Debt(thr[p])

DebtInv == Steadfast /\ RunsEnd /\ InvokesEnd /\ RowsMade /\ Handling /\ InsertsCovered

\* no thread becomes Running, nor loses the last that owes it an end, while it stays Running
Answered ==
  \A t \in Threads : row'[t].status = Running => Debt(t)' \/ (row[t].status = Running /\ ~Debt(t))

---------------------------------------------------------------------------
(* A step of the processes P: it posts events S of runs that there are, and deletes no
   row. *)
StepBy(P, S) ==
  /\ P \subseteq Procs \ {handler}
  /\ \A q \in Procs \ P : /\ pc'[q] = pc[q] /\ thr'[q] = thr[q] /\ snap'[q] = snap[q]
                          /\ upd'[q] = upd[q] /\ ret'[q] = ret[q]
  /\ \A q \in Clients \ P : arg'[q] = arg[q]
  /\ \A q \in Runners \ P : run'[q].st = run[q].st
  /\ \A q \in Runners : thr'[q] = thr[q] \/ (q \in Clients /\ At(q, "idle"))
  /\ \A q \in Clients \cap P : pc'[q] # "idle" /\ SavedOver(q)'
  /\ \A q \in P : UpdateEnds(q)' /\ PauseFound(q)'
  /\ Grown(S)
  /\ \A e \in S : /\ e.p \in Runners /\ run[e.p].st # "none"
                  /\ e.k = "invoke" => run'[e.p].st = "live"
                  /\ e.k = "run" => e.out # Running /\ run[e.p].st = "live"
  /\ \A q \in Runners : run[q].st = "live" =>
       run'[q].st = "live" \/ \E i \in DOMAIN chain' \ DOMAIN chain : chain'[i].p = q /\ chain'[i].k = "run"
  /\ \A q \in Runners : run'[q].st = "live" =>
       run[q].st = "live" \/ \E i \in DOMAIN chain' \ DOMAIN chain : chain'[i].p = q /\ chain'[i].k = "invoke"
  /\ \A t \in Threads : row[t].status # Absent => row'[t].status # Absent

\* Such a step leaves the events in order and the handler what it has in hand.
LEMMA StepByKeepsEvents ==
  ASSUME TypeInv, TypeInv', DebtInv, NEW P, NEW S, StepBy(P, S)
  PROVE  /\ Steadfast' /\ RunsEnd' /\ InvokesEnd' /\ RowsMade' /\ Handling'
         /\ \A i \in DOMAIN chain : Of(i)' = Of(i) /\ Of(i) \in Threads
<1> USE DEF DebtInv, StepBy
<1>1. /\ Clients \subseteq Procs \ {handler} /\ Clients \subseteq Runners /\ handler \in Procs
      /\ Runners \subseteq Procs /\ pc'[handler] = pc[handler] /\ DOMAIN chain \subseteq Nat
  BY ClientsRun, RunnersAreProcs DEF Procs, TypeInv, TypeOK
<1>2. /\ DOMAIN chain \subseteq DOMAIN chain' /\ DOMAIN chain' \subseteq Nat \ {0}
      /\ \A i \in DOMAIN chain : chain'[i] = chain[i]
      /\ \A i \in DOMAIN chain' \ DOMAIN chain : chain'[i] \in S /\ \A m \in DOMAIN chain : m < i
  BY DEF Grown
<1>3. 1 \notin DOMAIN chain => At(handler, "idle")
  BY DEF TypeInv, TypeOK, EventInHand
<1>4. \A q \in Runners : run[q].st # "none" \/ (\E i \in DOMAIN chain : chain[i].p = q) => thr'[q] = thr[q]
  BY <1>1 DEF Steadfast, Unasked
<1>5. \A i \in DOMAIN chain : /\ chain[i].p \in Runners /\ chain'[i].p = chain[i].p /\ chain'[i].k = chain[i].k
                              /\ Of(i)' = Of(i) /\ Of(i) \in Threads
  <2> SUFFICES ASSUME NEW i \in DOMAIN chain
               PROVE  /\ chain[i].p \in Runners /\ chain'[i].p = chain[i].p /\ chain'[i].k = chain[i].k
                      /\ Of(i)' = Of(i) /\ Of(i) \in Threads
    OBVIOUS
  <2>1. chain[i] \in Events
    BY DEF TypeInv, TypeOK
  <2>2. chain[i].p \in Runners
    BY <2>1 DEF Events
  <2>3. thr[chain[i].p] \in Threads
    BY <1>1, <2>2 DEF TypeInv, TypeOK
  <2> QED
    BY <1>2, <1>4, <2>2, <2>3 DEF Of
<1>6. Steadfast'
  <2>1. ASSUME NEW q \in Clients PROVE SavedOver(q)' /\ Unasked(q)'
    <3>1. CASE q \in P
      BY <2>1, <3>1 DEF Unasked, At
    <3>2. CASE q \notin P
      <4>1. pc'[q] = pc[q] /\ arg'[q] = arg[q] /\ run'[q].st = run[q].st /\ SavedOver(q) /\ Unasked(q)
        BY <1>1, <2>1, <3>2 DEF Steadfast
      <4>2. ASSUME pc'[q] = "idle" PROVE \A i \in DOMAIN chain' : chain'[i].p # q
        <5>1. run[q].st = "none" /\ \A i \in DOMAIN chain : chain[i].p # q
          BY <4>1, <4>2 DEF Unasked, At
        <5> QED
          BY <1>2, <5>1
      <4> QED
        BY <4>1, <4>2 DEF SavedOver, Unasked, At
    <3> QED
      BY <3>1, <3>2
  <2>2. ASSUME NEW q \in Procs \ {handler}, q \notin P PROVE UpdateEnds(q)' /\ PauseFound(q)'
    <3>1. thr[q] \in Threads
      BY DEF TypeInv, TypeOK
    <3> QED
      BY <2>2, <3>1 DEF Steadfast, UpdateEnds, PauseFound, At
  <2> QED
    BY <2>1, <2>2 DEF Steadfast
<1>7. RunsEnd'
  BY <1>2 DEF RunsEnd
<1>8. InvokesEnd'
  <2> SUFFICES ASSUME NEW i \in (DOMAIN chain)', chain'[i].k = "invoke", run'[chain'[i].p].st # "live"
               PROVE  \E m \in DOMAIN chain' : i < m /\ chain'[m].p = chain'[i].p /\ chain'[m].k = "run"
    BY DEF InvokesEnd
  <2>1. i \in DOMAIN chain /\ chain[i].k = "invoke"
    BY <1>2
  <2>2. CASE run[chain[i].p].st = "live"
    <3>1. \E m \in DOMAIN chain' \ DOMAIN chain : chain'[m].p = chain[i].p /\ chain'[m].k = "run"
      BY <1>2, <1>5, <2>1, <2>2
    <3> QED
      BY <1>2, <2>1, <3>1
  <2>3. CASE run[chain[i].p].st # "live"
    <3>1. PICK m \in DOMAIN chain : i < m /\ chain[m].p = chain[i].p /\ chain[m].k = "run"
      BY <2>1, <2>3 DEF InvokesEnd
    <3> QED
      BY <1>2, <2>1, <3>1
  <2> QED
    BY <2>2, <2>3
<1>9. /\ \A q \in Runners, m \in DOMAIN chain : InvokeDue(q, m) => InvokeDue(q, m)'
      /\ \A m \in DOMAIN chain' \ DOMAIN chain : chain'[m].k = "invoke" => InvokeDue(chain[m].p, m)'
  <2>1. \A q \in Runners, m \in DOMAIN chain : InvokeDue(q, m) => InvokeDue(q, m)'
    BY <1>1, <1>2 DEF InvokeDue, At
  <2>2. \A m \in DOMAIN chain' \ DOMAIN chain : m # 1 \/ pc'[handler] = "idle"
    BY <1>1, <1>3, <1>2 DEF At
  <2> QED
    BY <2>1, <2>2 DEF InvokeDue, At
<1>10. \A q \in Runners : run[q].st = "live" =>
         /\ thr'[q] = thr[q] /\ thr[q] \in Threads
         /\ row[thr[q]].status # Absent \/ \E m \in DOMAIN chain : InvokeDue(q, m)
  BY <1>1, <1>4 DEF RowsMade, TypeInv, TypeOK
<1>11. RowsMade'
  <2>1. ASSUME NEW q \in Runners, run'[q].st = "live"
        PROVE  row'[thr'[q]].status # Absent \/ \E m \in DOMAIN chain' : InvokeDue(q, m)'
    <3>1. CASE run[q].st = "live"
      BY <1>2, <1>9, <1>10, <3>1
    <3>2. CASE run[q].st # "live"
      BY <1>1, <1>9, <2>1, <3>2
    <3> QED
      BY <3>1, <3>2
  <2>2. ASSUME NEW i \in (DOMAIN chain)', chain'[i].k = "run"
        PROVE  row'[Of(i)'].status # Absent \/ \E m \in DOMAIN chain' : m < i /\ InvokeDue(chain[i].p, m)'
    <3>1. CASE i \in DOMAIN chain
      BY <1>2, <1>5, <1>9, <2>2, <3>1 DEF RowsMade
    <3>2. CASE i \notin DOMAIN chain
      <4>1. chain'[i].p \in Runners /\ run[chain'[i].p].st = "live"
        BY <1>2, <2>2, <3>2
      <4>2. /\ Of(i)' = thr[chain'[i].p]
            /\ row[Of(i)'].status # Absent \/ \E m \in DOMAIN chain : InvokeDue(chain'[i].p, m)
            /\ Of(i)' \in Threads
        BY <1>10, <4>1 DEF Of
      <4> QED
        BY <1>2, <1>9, <3>2, <4>1, <4>2
    <3> QED
      BY <3>1, <3>2
  <2> QED
    BY <2>1, <2>2 DEF RowsMade
<1>12. Handling'
  <2> SUFFICES ASSUME ~At(handler, "idle") PROVE Handling'
    BY <1>1 DEF Handling, At
  <2>1. chain # <<>> /\ 1 \in DOMAIN chain
    BY <1>3
  <2>2. Current = chain[1] /\ Current' = Current
    BY <1>2, <2>1 DEF Current, TypeInv, TypeOK
  <2>3. CurrentThread' = CurrentThread /\ CurrentThread \in Threads
    BY <1>5, <2>1, <2>2 DEF CurrentThread, Of
  <2>4. /\ thr'[handler] = thr[handler] /\ snap'[handler] = snap[handler]
        /\ upd'[handler] = upd[handler] /\ ret'[handler] = ret[handler]
    BY <1>1
  <2> QED
    BY <1>1, <2>2, <2>3, <2>4 DEF Handling, InvokeTaken, RunHandled, StopTaken, InHandWith, At
<1> QED
  BY <1>5, <1>6, <1>7, <1>8, <1>11, <1>12

(* Such a step leaves what is owed, if what its processes have owed still is, and what it
   sets Running is owed. *)
LEMMA StepByKeepsDebts ==
  ASSUME TypeInv, TypeInv', DebtInv, NEW P, NEW S, StepBy(P, S),
         \A p \in P \cap Runners : Debtor(p) => Debt(thr[p])' \/ row'[thr[p]].status \notin {Running, Absent},
         \A t \in Threads : row'[t].status = Running => row[t].status = Running \/ Debt(t) \/ Debt(t)',
         \A p \in P \cap Clients : Ensures(p)' =>
           row'[thr'[p]].status # Absent \/ (thr'[p] = thr[p] /\ Debt(thr[p])) \/ Debt(thr[p])'
  PROVE  DebtInv' /\ Answered
<1> USE DEF DebtInv
<1>1. /\ Steadfast' /\ RunsEnd' /\ InvokesEnd' /\ RowsMade' /\ Handling'
      /\ \A i \in DOMAIN chain : Of(i)' = Of(i) /\ Of(i) \in Threads
  BY StepByKeepsEvents
<1>2. /\ Clients \subseteq Procs \ {handler} /\ Clients \subseteq Runners /\ handler \in Procs \ P
      /\ Runners \subseteq Procs /\ pc'[handler] = pc[handler] /\ \A q \in Runners : thr[q] \in Threads
  BY ClientsRun, RunnersAreProcs DEF Procs, TypeInv, TypeOK, StepBy
<1>3. \A q \in Runners : Debtor(q) => thr'[q] = thr[q]
  BY DEF Debtor, Steadfast, Unasked, StepBy, At, UpdateLabels
<1>4. \A q \in Runners \ P : Debtor(q) => Debtor(q)'
  BY <1>2 DEF Debtor, StepBy, At
<1>5. \A i \in DOMAIN chain : DebtAt(i) => i \in DOMAIN chain' /\ DebtAt(i)'
  BY <1>2 DEF DebtAt, StepBy, Grown
<1>6. ASSUME NEW t \in Threads, Debt(t), row'[t].status \in {Running, Absent}
      PROVE  Debt(t)'
  <2>1. CASE \E i \in DOMAIN chain : Of(i) = t /\ DebtAt(i)
    BY <1>1, <1>5, <2>1 DEF Debt
  <2>2. CASE \E q \in Runners \ P : thr[q] = t /\ Debtor(q)
    BY <1>3, <1>4, <2>2 DEF Debt
  <2>3. ASSUME NEW q \in P \cap Runners, thr[q] = t, Debtor(q) PROVE Debt(t)'
    <3>1. Debt(thr[q])' /\ thr'[q] = thr[q]
      BY <1>3, <1>6, <2>3
    <3> QED
      BY <2>3, <3>1
  <2> QED
    BY <1>6, <2>1, <2>2, <2>3 DEF Debt
<1>7. Answered
  BY <1>6 DEF Answered
<1>8. InsertsCovered'
  <2>0. ASSUME NEW q \in Clients \cap P, Ensures(q)', row'[thr'[q]].status = Absent PROVE Debt(thr[q])'
    <3>1. Debt(thr[q])' \/ (thr'[q] = thr[q] /\ Debt(thr[q]))
      BY <2>0
    <3>2. PICK t \in Threads : t = thr[q]
      BY <1>2
    <3>3. thr'[q] = thr[q] /\ Debt(thr[q]) => Debt(t)'
      BY <1>6, <2>0, <3>2
    <3> QED
      BY <3>1, <3>2, <3>3
  <2> SUFFICES ASSUME NEW q \in Clients, q \notin P, Ensures(q)', row'[thr'[q]].status = Absent
               PROVE  Debt(thr[q])'
    BY <2>0 DEF InsertsCovered
  <2>1. /\ pc'[q] = pc[q] /\ ret'[q] = ret[q] /\ thr'[q] = thr[q] /\ Ensures(q) /\ thr[q] \in Threads
    BY <1>2 DEF StepBy, Ensures, At
  <2>2. row[thr[q]].status = Absent
    BY <2>1 DEF StepBy
  <2>3. PICK t \in Threads : t = thr[q]
    BY <2>1
  <2>4. Debt(t)'
    BY <1>6, <2>1, <2>2, <2>3 DEF InsertsCovered
  <2> QED
    BY <2>1, <2>3, <2>4
<1> QED
  BY <1>1, <1>7, <1>8

\* A step that posts nothing, and prepares at most the run of its own process p.
LEMMA MoveKeeps ==
  ASSUME TypeInv, TypeInv', DebtInv, NEW p \in Procs \ {handler}, NEW l, Goto(p, l), chain' = chain,
         thr' = thr \/ \E t : thr' = [thr EXCEPT ![p] = t],
         p \in Runners => thr'[p] = thr[p] \/ (p \in Clients /\ At(p, "idle")),
         arg' = arg \/ \E a : arg' = [arg EXCEPT ![p] = a],
         snap' = snap \/ \E s : snap' = [snap EXCEPT ![p] = s],
         upd' = upd \/ \E u : upd' = [upd EXCEPT ![p] = u],
         ret' = ret \/ \E r : ret' = [ret EXCEPT ![p] = r],
         run' = run \/ (p \in Runners /\ run[p].st # "live"
                          /\ \E r : run' = [run EXCEPT ![p] = r] /\ r.st = "prepared"),
         \A t \in Threads : row[t].status # Absent => row'[t].status # Absent,
         p \in Clients => l # "idle" /\ SavedOver(p)',
         UpdateEnds(p)' /\ PauseFound(p)',
         p \in Runners /\ Debtor(p) => Debt(thr[p])' \/ row'[thr[p]].status \notin {Running, Absent},
         \A t \in Threads : row'[t].status = Running => row[t].status = Running \/ Debt(t) \/ Debt(t)',
         p \in Clients /\ Ensures(p)' =>
           row'[thr'[p]].status # Absent \/ (thr'[p] = thr[p] /\ Debt(thr[p])) \/ Debt(thr[p])'
  PROVE  DebtInv' /\ Answered
<1>1. Grown({}) /\ Runners \subseteq Procs /\ Clients \subseteq Runners
  BY GrownOne, RunnersAreProcs DEF Runners
<1>2. \A q \in Procs \ {p} : /\ pc'[q] = pc[q] /\ thr'[q] = thr[q] /\ snap'[q] = snap[q]
                             /\ upd'[q] = upd[q] /\ ret'[q] = ret[q]
  BY DEF Goto, TypeInv, TypeOK
<1>3. \A q \in Clients \ {p} : arg'[q] = arg[q]
  BY DEF TypeInv, TypeOK
<1>4. /\ \A q \in Runners \ {p} : run'[q].st = run[q].st
      /\ \A q \in Runners : (run'[q].st = "live") <=> (run[q].st = "live")
  BY DEF TypeInv, TypeOK
<1>5. pc'[p] = l
  BY DEF Goto, TypeInv, TypeOK
<1>6. StepBy({p}, {})
  BY <1>1, <1>2, <1>3, <1>4, <1>5 DEF StepBy
<1> QED
  BY <1>6, StepByKeepsDebts

\* Nothing moves but jobs and the credential.
LEMMA StillKeeps ==
  ASSUME TypeInv, TypeInv', DebtInv,
         UNCHANGED <<row, run, chain, pc, thr, snap, upd, ret, arg>>
  PROVE  DebtInv' /\ Answered
<1>1. Grown({}) /\ Runners \subseteq Procs
  BY GrownOne, RunnersAreProcs
<1>2. StepBy({}, {})
  BY <1>1 DEF StepBy
<1> QED
  BY <1>2, StepByKeepsDebts
---------------------------------------------------------------------------
\* the steps of an update, in the process that emitted it
UpdateMoves(p) ==
  /\ \E s : snap' = [snap EXCEPT ![p] = s]
  /\ \/ upd' = upd /\ ret' = ret /\ \E l \in UpdateLabels : Goto(p, l)
     \/ /\ Goto(p, ret[p]) /\ snap' = [snap EXCEPT ![p] = NoRow]
        /\ (\E u : upd' = [upd EXCEPT ![p] = u]) /\ ret' = [ret EXCEPT ![p] = "idle"]
  /\ \A t \in Threads : \/ row'[t].status = row[t].status
                        \/ t = thr[p] /\ row'[t].status = upd[p].status /\ upd[p].status \in ThreadStatuses

\* An update moves its process along, and sets the status that was emitted or none.
LEMMA UpdatesMove ==
  ASSUME TypeInv, NEW p \in Procs, UpdatesRow(p)
  PROVE  UpdateMoves(p) /\ pc[p] \in UpdateLabels /\ UNCHANGED <<run, chain, thr, arg>>
<1>1. /\ thr[p] \in Threads /\ snap[p] \in Row /\ pc[p] \in UpdateLabels
      /\ UNCHANGED <<run, chain, thr, arg>>
  BY DEF TypeInv, TypeOK, UpdatesRow, UpdateRead, UpdateStatus, UpdateMeta, stores, agent, At, UpdateLabels
<1>2. \A t \in Threads : row[t] \in Row
  BY DEF TypeInv, TypeOK
<1>3. /\ \E s : snap' = [snap EXCEPT ![p] = s]
      /\ \/ upd' = upd /\ ret' = ret /\ \E l \in UpdateLabels : Goto(p, l)
         \/ /\ Goto(p, ret[p]) /\ snap' = [snap EXCEPT ![p] = NoRow]
            /\ (\E u : upd' = [upd EXCEPT ![p] = u]) /\ ret' = [ret EXCEPT ![p] = "idle"]
  <2>1. snap' = snap => snap' = [snap EXCEPT ![p] = snap[p]]
    BY <1>1 DEF TypeInv, TypeOK
  <2>2. Return(p) => /\ snap' = [snap EXCEPT ![p] = NoRow]
                     /\ Goto(p, ret[p]) /\ (\E u : upd' = [upd EXCEPT ![p] = u]) /\ ret' = [ret EXCEPT ![p] = "idle"]
    BY DEF Return, Drop
  <2>3. CASE UpdateRead(p)
    BY <2>2, <2>3 DEF UpdateRead, Load, UpdateLabels
  <2>4. CASE UpdateStatus(p)
    BY <2>1, <2>2, <2>4 DEF UpdateStatus, UpdateLabels
  <2>5. CASE UpdateMeta(p)
    BY <2>2, <2>5 DEF UpdateMeta
  <2> QED
    BY <2>3, <2>4, <2>5 DEF UpdatesRow
<1>4. \A t \in Threads : \/ row'[t].status = row[t].status
                         \/ t = thr[p] /\ row'[t].status = upd[p].status /\ upd[p].status \in ThreadStatuses
  <2>1. CASE UpdateRead(p)
    BY <2>1 DEF UpdateRead, stores
  <2>2. CASE UpdateStatus(p)
    <3>1. ApplyStatus(row[thr[p]], snap[p], upd[p]).status \in {row[thr[p]].status, upd[p].status}
      <4>1. row[thr[p]] \in Row /\ snap[p] \in Row
        BY <1>1, <1>2
      <4>2. WriteStatus(row[thr[p]], snap[p], upd[p].status).status \in {row[thr[p]].status, upd[p].status}
        BY <4>1 DEF WriteStatus, Row
      <4> QED
        BY <4>2 DEF ApplyStatus
    <3>2. upd[p].status # "keep" /\ upd[p].status \in ThreadStatuses
      BY <1>1, <2>2 DEF TypeInv, TypeOK, StatusToWrite, Updates, UpdateStatus
    <3> QED
      BY <1>1, <2>2, <3>1, <3>2 DEF UpdateStatus, Write, TypeInv, TypeOK
  <2>3. CASE UpdateMeta(p)
    <3>1. ApplyMeta(row[thr[p]], snap[p], upd[p]).status = row[thr[p]].status
      BY <1>1, <1>2, EntityStatus DEF ApplyMeta
    <3> QED
      BY <1>1, <2>3, <3>1 DEF UpdateMeta, Write, TypeInv, TypeOK
  <2> QED
    BY <2>1, <2>2, <2>3 DEF UpdatesRow
<1> QED
  BY <1>1, <1>3, <1>4 DEF UpdateMoves

\* An update that a process other than the event handler emitted.
LEMMA UpdateKeepsDebts ==
  ASSUME TypeInv, TypeInv', Continues, DebtInv, NEW p \in Procs \ {handler}, UpdatesRow(p)
  PROVE  DebtInv' /\ Answered
<1> USE DEF DebtInv
<1>1. /\ p \in Procs /\ thr[p] \in Threads /\ snap[p] \in Row /\ pc[p] \in UpdateLabels
      /\ UpdateEnds(p) /\ ret[p] \in ReturnLabels
      /\ UNCHANGED <<run, chain, thr, arg>>
  BY DEF TypeInv, TypeOK, UpdatesRow, UpdateRead, UpdateStatus, UpdateMeta, stores, agent, At, UpdateLabels, Steadfast
<1>2. p \in Clients => SavedOver(p)' /\ ret[p] # "idle"
  BY <1>1, ClientsRun DEF Steadfast, SavedOver, Continues
<1>3. UpdateMoves(p)
  BY UpdatesMove
<1>4. \A t \in Threads : row'[t].status = row[t].status
                           \/ (t = thr[p] /\ row'[t].status = upd[p].status /\ upd[p].status \in ThreadStatuses)
  BY <1>3 DEF UpdateMoves
<1>5. \A t \in Threads : row[t].status # Absent => row'[t].status # Absent
  BY <1>4 DEF ThreadStatuses, Running, Done, NeedMoreInfo, Stopped, Waiting, Absent
<1>6. \/ pc'[p] = ret[p] /\ ret[p] \notin UpdateLabels /\ snap'[p] = NoRow
      \/ pc'[p] \in UpdateLabels /\ upd'[p] = upd[p] /\ ret'[p] = ret[p]
  BY <1>1, <1>3 DEF UpdateMoves, Goto, TypeInv, TypeOK, ReturnLabels, UpdateLabels
<1>7. UpdateEnds(p)' /\ PauseFound(p)'
  BY <1>1, <1>6 DEF UpdateEnds, PauseFound, UpdateLabels, At, NoRow
<1>8. p \in Runners /\ Debtor(p) => Debt(thr[p])'
  BY <1>1, <1>6 DEF Debtor, Debt, At, UpdateLabels
<1>9. \A t \in Threads : row'[t].status = Running => row[t].status = Running \/ Debt(t)'
  <2>1. upd[p].status = Running => p \in Runners /\ Debtor(p)
    BY <1>1 DEF UpdateEnds, Running, Stopped, Waiting, Debtor
  <2> QED
    BY <1>1, <1>4, <1>8, <2>1
<1>10. p \in Clients /\ Ensures(p)' =>
         row'[thr'[p]].status # Absent \/ (thr'[p] = thr[p] /\ Debt(thr[p]))
  <2>1. Ensures(p)' => Ensures(p)
    BY <1>1, <1>6 DEF Ensures, At, UpdateLabels
  <2> QED
    BY <1>1, <1>5, <2>1 DEF InsertsCovered
<1>11. PICK l : Goto(p, l) /\ (p \in Clients => l # "idle")
  BY <1>2, <1>3 DEF UpdateMoves, UpdateLabels
<1>12. /\ upd' = upd \/ \E u : upd' = [upd EXCEPT ![p] = u]
       /\ ret' = ret \/ \E r : ret' = [ret EXCEPT ![p] = r]
       /\ snap' = snap \/ \E s : snap' = [snap EXCEPT ![p] = s]
  BY <1>3 DEF UpdateMoves
<1> QED
  BY <1>1, <1>2, <1>5, <1>7, <1>8, <1>9, <1>10, <1>11, <1>12, MoveKeeps

\* pauseThread takes the thread out of Running, or reads again.
LEMMA PausesKeepDebts ==
  ASSUME TypeInv, TypeInv', DebtInv, NEW p \in Runners, Pauses(p)
  PROVE  DebtInv' /\ Answered
<1> USE DEF DebtInv
<1>1. /\ p \in Procs \ {handler} /\ thr[p] \in Threads /\ snap[p] \in Row /\ row[thr[p]] \in Row
      /\ UNCHANGED <<run, chain, arg>>
  BY RunnersAreProcs DEF TypeInv, TypeOK, Pauses, PauseRead, PauseWrite, stores, agent
<1>2. p \in Clients => SavedOver(p)'
  BY <1>1 DEF Steadfast, SavedOver
<1>3. ASSUME NEW l, Goto(p, l) PROVE pc'[p] = l
  BY <1>1, <1>3 DEF Goto, TypeInv, TypeOK
<1>4. CASE PauseRead(p)
  <2>1. At(p, "pRead") /\ Goto(p, "pWrite") /\ snap' = [snap EXCEPT ![p] = row[thr[p]]]
        /\ UNCHANGED <<row, thr, upd, ret>>
    BY <1>4 DEF PauseRead, Load, stores
  <2>2. pc'[p] = "pWrite" /\ snap'[p] = row[thr[p]]
    BY <1>1, <1>3, <2>1 DEF TypeInv, TypeOK
  <2>3. UpdateEnds(p)' /\ ~Ensures(p)'
    BY <2>2 DEF UpdateEnds, Ensures, UpdateLabels, At
  <2>31. PauseFound(p)'
    BY <2>1, <2>2 DEF PauseFound
  <2>4. row[thr[p]].status # Waiting => Debt(thr[p])'
    <3>1. row[thr[p]].status # Waiting => Debtor(p)'
      BY <2>2 DEF Debtor, At
    <3> QED
      BY <2>1, <3>1 DEF Debt
  <2> QED
    BY <1>1, <1>2, <2>1, <2>3, <2>31, <2>4, MoveKeeps DEF Running, Absent, Waiting
<1>5. CASE PauseWrite(p) /\ snap[p].status = Absent /\ row[thr[p]].status # Absent
  <2>1. At(p, "pWrite") /\ Goto(p, "pRead") /\ UNCHANGED <<row, thr, snap, upd, ret>>
    BY <1>5 DEF PauseWrite
  <2>2. pc'[p] = "pRead"
    BY <1>3, <2>1
  <2>3. UpdateEnds(p)' /\ PauseFound(p)' /\ ~Ensures(p)' /\ Debt(thr[p])'
    BY <2>1, <2>2 DEF UpdateEnds, PauseFound, Ensures, UpdateLabels, At, Debtor, Debt
  <2> QED
    BY <1>1, <1>2, <2>1, <2>3, MoveKeeps
<1>6. CASE PauseWrite(p) /\ ~(snap[p].status = Absent /\ row[thr[p]].status # Absent)
  <2> DEFINE r == IF snap[p].status = Absent THEN NewRow(Waiting, "credential")
                  ELSE WriteBoth(row[thr[p]], snap[p], Waiting, "credential", snap[p].cost)
  <2>1. /\ At(p, "pWrite") /\ row' = [row EXCEPT ![thr[p]] = r] /\ Goto(p, "tuRead")
        /\ thr' = [thr EXCEPT ![p] = thr[p]] /\ upd' = [upd EXCEPT ![p] = Update(Waiting)]
        /\ ret' = [ret EXCEPT ![p] = AfterPause(p)] /\ UNCHANGED snap
    BY <1>6 DEF PauseWrite, Emit, Write
  <2>2. thr' = thr /\ pc'[p] = "tuRead" /\ upd'[p].status = Waiting /\ Update(Waiting).status = Waiting
    BY <1>1, <1>3, <2>1 DEF TypeInv, TypeOK, Update
  <2>3. r.status = Waiting \/ (snap[p].status = Waiting /\ r.status = row[thr[p]].status)
    BY <1>1, EntityStatus DEF NewRow
  <2>4. /\ \A t \in Threads \ {thr[p]} : row'[t] = row[t]
        /\ row'[thr[p]].status = r.status
    BY <1>1, <2>1 DEF TypeInv, TypeOK
  <2>5. /\ \A t \in Threads : row[t].status # Absent => row'[t].status # Absent
        /\ \A t \in Threads : row'[t].status = Running => row[t].status = Running
        /\ row'[thr'[p]].status # Absent
    <3>1. snap[p].status = Waiting => row[thr[p]].status # Absent
      BY <1>1, <2>1 DEF Steadfast, PauseFound, Waiting, Absent
    <3> QED
      BY <2>2, <2>3, <2>4, <3>1 DEF Waiting, Running, Absent
  <2>6. UpdateEnds(p)' /\ PauseFound(p)'
    BY <2>2 DEF UpdateEnds, PauseFound, At
  <2>7. Debtor(p) => Debt(thr[p])' \/ row'[thr[p]].status \notin {Running, Absent}
    <3>1. CASE run[p].st # "none"
      BY <1>1, <2>2, <3>1 DEF Debtor, Debt
    <3>2. CASE snap[p].status # Waiting
      BY <2>3, <2>4, <3>2 DEF Waiting, Running, Absent
    <3> QED
      BY <2>1, <3>1, <3>2 DEF Debtor, At, UpdateLabels
  <2> QED
    BY <1>1, <1>2, <2>1, <2>2, <2>5, <2>6, <2>7, MoveKeeps
<1> QED
  BY <1>4, <1>5, <1>6 DEF Pauses

\* the labels at which a process may owe something by itself
Owing == {"tPre", "tRun", "hRun", "pRead", "pWrite"} \cup UpdateLabels

\* A step that writes no row, from a label at which nothing is owed, or to another debtor.
LEMMA HopKeeps ==
  ASSUME TypeInv, TypeInv', DebtInv, NEW p \in Procs \ {handler},
         NEW l \in ReturnLabels \ {"pWrite", "tEnsure"}, Goto(p, l), p \in Clients => l # "idle",
         UNCHANGED <<row, run, chain, upd, ret, arg>>,
         thr' = thr \/ (p \notin Runners /\ \E t : thr' = [thr EXCEPT ![p] = t]),
         snap' = snap \/ \E s : snap' = [snap EXCEPT ![p] = s],
         p \in Runners /\ pc[p] \in Owing => Debt(thr[p])'
  PROVE  DebtInv' /\ Answered
<1> USE DEF DebtInv
<1>1. pc'[p] = l /\ l \notin UpdateLabels
  BY DEF Goto, TypeInv, TypeOK, ReturnLabels, UpdateLabels
<1>2. UpdateEnds(p)' /\ PauseFound(p)' /\ ~Ensures(p)'
  BY <1>1 DEF UpdateEnds, PauseFound, Ensures, At
<1>3. p \in Clients => SavedOver(p)'
  BY DEF Steadfast, SavedOver
<1>4. p \in Runners => thr'[p] = thr[p]
  OBVIOUS
<1>5. p \in Runners /\ Debtor(p) => Debt(thr[p])'
  <2>1. run[p].st # "none" \/ pc[p] \in Owing <=> Debtor(p) \/ pc[p] \in Owing
    BY DEF Debtor, Owing, At
  <2>2. p \in Runners /\ run[p].st # "none" => Debt(thr[p])'
    BY <1>4 DEF Debtor, Debt
  <2> QED
    BY <2>1, <2>2
<1>6. thr' = thr \/ \E t : thr' = [thr EXCEPT ![p] = t]
  OBVIOUS
<1> QED
  BY <1>2, <1>3, <1>4, <1>5, <1>6, MoveKeeps

\* A write that stops the thread or makes it wait, if it changes its status, and its emission.
LEMMA EndKeeps ==
  ASSUME TypeInv, TypeInv', DebtInv, NEW p \in Procs \ {handler}, pc[p] \notin Owing,
         NEW t \in Threads, p \in Runners => t = thr[p],
         NEW r, Write(t, r), r.status \in {row[t].status, Stopped, Waiting},
         NEW u, u.status \in {Stopped, Waiting}, NEW l, l # "tEnsure", Emit(p, t, u, l),
         UNCHANGED <<run, chain, snap, arg>>
  PROVE  DebtInv' /\ Answered
<1> USE DEF DebtInv
<1>1. /\ Goto(p, "tuRead") /\ thr' = [thr EXCEPT ![p] = t] /\ upd' = [upd EXCEPT ![p] = u]
      /\ ret' = [ret EXCEPT ![p] = l]
  BY DEF Emit
<1>2. pc'[p] = "tuRead" /\ upd'[p] = u /\ ret'[p] = l /\ thr'[p] = t
  BY <1>1 DEF Goto, TypeInv, TypeOK
<1>3. UpdateEnds(p)' /\ PauseFound(p)' /\ ~Ensures(p)'
  BY <1>2 DEF UpdateEnds, PauseFound, Ensures, At
<1>4. p \in Clients => SavedOver(p)'
  BY DEF Steadfast, SavedOver
<1>5. \A x \in Threads : row'[x].status \in {row[x].status, Stopped, Waiting}
  BY DEF Write, TypeInv, TypeOK
<1>6. /\ \A x \in Threads : row[x].status # Absent => row'[x].status # Absent
      /\ \A x \in Threads : row'[x].status = Running => row[x].status = Running
  BY <1>5 DEF Stopped, Waiting, Absent, Running
<1>7. p \in Runners /\ Debtor(p) => Debt(thr[p])'
  <2>1. p \in Runners /\ run[p].st # "none" => Debt(thr[p])'
    BY <1>2 DEF Debtor, Debt
  <2> QED
    BY <2>1 DEF Debtor, Owing, At
<1>8. /\ thr' = thr \/ \E x : thr' = [thr EXCEPT ![p] = x]
      /\ upd' = upd \/ \E x : upd' = [upd EXCEPT ![p] = x]
      /\ ret' = ret \/ \E x : ret' = [ret EXCEPT ![p] = x]
      /\ p \in Runners => thr'[p] = thr[p]
  BY <1>1, <1>2
<1> QED
  BY <1>1, <1>3, <1>4, <1>6, <1>7, <1>8, MoveKeeps

\* scheduleResume and the wait for its answer.
LEMMA SchedulesKeepDebts ==
  ASSUME TypeInv, TypeInv', DebtInv, NEW p \in Procs \ {handler}, Schedules(p)
  PROVE  DebtInv' /\ Answered
<1>1. PICK l \in {"sAdd", End(p)} : Goto(p, l)
  BY DEF Schedules, ScheduleRemove, ScheduleAdd
<1>2. l \in ReturnLabels \ {"pWrite", "tEnsure"} /\ (p \in Clients => l # "idle")
  BY DEF End, ReturnLabels
<1>3. pc[p] \notin Owing /\ UNCHANGED <<row, run, chain, thr, upd, ret, arg>>
  BY DEF Schedules, ScheduleRemove, ScheduleAdd, Owing, UpdateLabels, At, agent
<1>4. snap' = snap \/ \E s : snap' = [snap EXCEPT ![p] = s]
  BY DEF Schedules, ScheduleRemove, ScheduleAdd, Drop
<1> QED
  BY <1>1, <1>2, <1>3, <1>4, HopKeeps

\* where a starter goes on when its run is rejected
LEMMA AfterFailure ==
  ASSUME NEW p \in Runners
  PROVE  AfterRun(p, FALSE) \in {"jobFail", "tRestore", "done"}
BY DEF AfterRun

\* A resume owes what it set Running a run, and finds one if it starts none.
LEMMA HandleResumeKeepsDebts ==
  ASSUME TypeInv, TypeInv', DebtInv, NEW p \in Runners, HandleResume(p)
  PROVE  DebtInv' /\ Answered
<1> USE DEF DebtInv
<1>1. /\ p \in Procs \ {handler} /\ thr[p] \in Threads /\ snap[p] \in Row /\ row[thr[p]] \in Row
      /\ UNCHANGED <<chain, arg>>
  BY RunnersAreProcs DEF TypeInv, TypeOK, HandleResume, ResumePreflight, ResumeWrite, ResumeUnroutable,
     ResumeRuns, ResumeRejected, stores, agent
<1>2. p \in Clients => SavedOver(p)'
  BY <1>1 DEF Steadfast, SavedOver
<1>3. ASSUME NEW l, Goto(p, l) PROVE pc'[p] = l
  BY <1>1, <1>3 DEF Goto, TypeInv, TypeOK
<1>4. CASE ResumePreflight(p)
  <2>1. PICK l \in {"hWrite", "pRead"} : Goto(p, l)
    BY <1>4 DEF ResumePreflight
  <2>2. /\ pc[p] \notin Owing /\ UNCHANGED <<row, run, thr, snap, upd, ret>>
        /\ l \in ReturnLabels \ {"pWrite", "tEnsure"} /\ l # "idle"
    BY <1>4 DEF ResumePreflight, Owing, UpdateLabels, At, agent, stores, ReturnLabels
  <2> QED
    BY <1>1, <2>1, <2>2, HopKeeps
<1>5. CASE ResumeUnroutable(p)
  <2>1. /\ pc[p] \notin Owing /\ UNCHANGED <<row, run, thr, upd, ret>> /\ Goto(p, AfterRun(p, FALSE))
        /\ snap' = [snap EXCEPT ![p] = NoRow]
    BY <1>5 DEF ResumeUnroutable, Owing, UpdateLabels, At, agent, stores, Drop
  <2>2. AfterRun(p, FALSE) \in ReturnLabels \ {"pWrite", "tEnsure"} /\ AfterRun(p, FALSE) # "idle"
    BY AfterFailure DEF ReturnLabels
  <2> QED
    BY <1>1, <2>1, <2>2, HopKeeps
<1>6. CASE ResumeRejected(p)
  <2>1. /\ UNCHANGED <<row, run, thr, snap, upd, ret>> /\ Goto(p, AfterRun(p, FALSE))
        /\ Active(thr[p]) # {}
    BY <1>6 DEF ResumeRejected, agent, stores
  <2>2. AfterRun(p, FALSE) \in ReturnLabels \ {"pWrite", "tEnsure"} /\ AfterRun(p, FALSE) # "idle"
    BY AfterFailure DEF ReturnLabels
  <2>3. PICK q \in Runners : run[q].st = "live" /\ thr[q] = thr[p]
    BY <2>1 DEF Active
  <2>4. Debt(thr[p])'
    BY <2>1, <2>3 DEF Debt, Debtor
  <2> QED
    BY <1>1, <2>1, <2>2, <2>4, HopKeeps
<1>7. CASE ResumeWrite(p)
  <2> DEFINE r == WriteBoth(row[thr[p]], snap[p], Running, "none", snap[p].cost)
  <2>1. /\ At(p, "hWrite") /\ row' = [row EXCEPT ![thr[p]] = r] /\ Goto(p, "tuRead")
        /\ thr' = [thr EXCEPT ![p] = thr[p]] /\ upd' = [upd EXCEPT ![p] = Update(Running)]
        /\ ret' = [ret EXCEPT ![p] = "hRun"] /\ UNCHANGED <<run, snap>>
    BY <1>7 DEF ResumeWrite, Emit, Write, agent
  <2>2. thr' = thr /\ pc'[p] = "tuRead" /\ ret'[p] = "hRun"
    BY <1>1, <1>3, <2>1 DEF TypeInv, TypeOK
  <2>3. UpdateEnds(p)' /\ PauseFound(p)' /\ ~Ensures(p)' /\ Debt(thr[p])'
    BY <2>2 DEF UpdateEnds, PauseFound, Ensures, At, Debt, Debtor, UpdateLabels
  <2>4. r.status \in {row[thr[p]].status, Running}
    BY <1>1, EntityStatus
  <2>5. \A t \in Threads : row'[t].status = row[t].status \/ (t = thr[p] /\ row'[t].status = Running)
    BY <1>1, <2>1, <2>4 DEF TypeInv, TypeOK
  <2> QED
    BY <1>1, <1>2, <2>1, <2>2, <2>3, <2>5, MoveKeeps DEF Running, Absent
<1>8. CASE ResumeRuns(p)
  <2>1. /\ Goto(p, "hAwait") /\ run' = [run EXCEPT ![p] = [NoRun EXCEPT !.st = "prepared"]]
        /\ Active(thr[p]) = {} /\ UNCHANGED <<row, thr, snap, upd, ret>>
    BY <1>8 DEF ResumeRuns, PrepareRun, stores
  <2>2. pc'[p] = "hAwait" /\ run'[p].st = "prepared" /\ run[p].st # "live"
    BY <1>3, <2>1 DEF TypeInv, TypeOK, NoRun, Active
  <2>3. UpdateEnds(p)' /\ PauseFound(p)' /\ ~Ensures(p)' /\ Debt(thr[p])'
    BY <2>1, <2>2 DEF UpdateEnds, PauseFound, Ensures, At, Debt, Debtor, UpdateLabels
  <2>4. \E r : run' = [run EXCEPT ![p] = r] /\ r.st = "prepared"
    <3>1. PICK r : r = [NoRun EXCEPT !.st = "prepared"]
      OBVIOUS
    <3>2. r.st = "prepared"
      BY <3>1 DEF NoRun
    <3> QED
      BY <2>1, <3>1, <3>2
  <2> QED
    BY <1>1, <1>2, <2>1, <2>2, <2>3, <2>4, MoveKeeps
<1> QED
  BY <1>4, <1>5, <1>6, <1>7, <1>8 DEF HandleResume

\* A process whose label owes nothing owes what its run does, as long as that is there.
LEMMA RunStillOwes ==
  ASSUME NEW p \in Runners, pc[p] \notin Owing, run' = run, thr' = thr
  PROVE  Debtor(p) => Debt(thr[p])'
<1>1. Debtor(p) => run[p].st # "none"
  BY DEF Debtor, Owing, At
<1> QED
  BY <1>1 DEF Debtor, Debt

\* A request is taken that sets nothing Running.
LEMMA AskKeeps ==
  ASSUME TypeInv, TypeInv', DebtInv, NEW p \in Clients, At(p, "idle"),
         NEW t \in Threads, NEW op \in Ops, Take(p, t, op, NoRow),
         NEW l \in ReturnLabels \ {"idle", "pWrite", "tEnsure"}, Goto(p, l),
         UNCHANGED <<row, run, chain, upd, ret>>,
         snap' = snap \/ \E s : snap' = [snap EXCEPT ![p] = s]
  PROVE  DebtInv' /\ Answered
<1> USE DEF DebtInv
<1>1. p \in Runners /\ p \in Procs \ {handler} /\ Unasked(p)
  BY ClientsRun, RunnersAreProcs DEF Steadfast
<1>2. pc'[p] = l /\ l \notin UpdateLabels /\ arg'[p].saved = NoRow
  BY <1>1 DEF Goto, Take, TypeInv, TypeOK, ReturnLabels, UpdateLabels
<1>3. SavedOver(p)' /\ ~Debtor(p)
  BY <1>1, <1>2 DEF SavedOver, Debtor, Unasked, At, UpdateLabels
<1>4. UpdateEnds(p)' /\ PauseFound(p)' /\ ~Ensures(p)'
  BY <1>2 DEF UpdateEnds, PauseFound, Ensures, At
<1>5. thr' = [thr EXCEPT ![p] = t] /\ \E a : arg' = [arg EXCEPT ![p] = a]
  BY DEF Take
<1> QED
  BY <1>1, <1>3, <1>4, <1>5, MoveKeeps

\* A trigger owes the thread it sets Running a run, a pause or the row it restores.
LEMMA TriggersKeepDebts ==
  ASSUME TypeInv, TypeInv', DebtInv, NEW p \in Clients, TriggerRequest(p)
  PROVE  DebtInv' /\ Answered
<1> USE DEF DebtInv
<1>1. /\ p \in Runners /\ p \in Procs \ {handler} /\ thr[p] \in Threads
      /\ SavedOver(p) /\ Unasked(p) /\ chain' = chain
  BY ClientsRun, RunnersAreProcs
  DEF TypeInv, TypeOK, Steadfast, TriggerRequest, Trigger, TriggerRejected, TriggerPreflight, TriggerAppends,
      TriggerStarts, TriggerRestores, TriggerEnsures, agent
<1>2. \A t \in Threads : row[t] \in Row
  BY DEF TypeInv, TypeOK
<1>3. ASSUME NEW l, Goto(p, l) PROVE pc'[p] = l
  BY <1>1, <1>3 DEF Goto, TypeInv, TypeOK
<1>4. arg' = arg => SavedOver(p)'
  BY <1>1 DEF SavedOver
<1>5. ASSUME NEW l \in {"tPre", "done", "tEnsure", "tAwait"}, Goto(p, l)
      PROVE  UpdateEnds(p)' /\ PauseFound(p)' /\ l # "idle" /\ (l # "tEnsure" => ~Ensures(p)')
  BY <1>3, <1>5 DEF UpdateEnds, PauseFound, Ensures, At, UpdateLabels
<1>6. CASE Trigger(p)
  <2> DEFINE Saved(t) == IF row[t].status \in Terminal THEN row[t] ELSE NoRow
  <2>1. PICK t \in Threads, op \in {"trigger", "async"} :
          /\ Asks(p, op) /\ Take(p, t, op, Saved(t))
          /\ IF row[t].status = Absent THEN UNCHANGED row ELSE Write(t, PreSet(row[t]))
          /\ Goto(p, "tPre") /\ UNCHANGED <<agent, cred, snap, upd, ret>>
    BY <1>6, Zenon DEF Trigger
  <2>2. /\ At(p, "idle") /\ UNCHANGED <<run, snap, upd, ret>>
        /\ thr' = [thr EXCEPT ![p] = t] /\ \E a : arg' = [arg EXCEPT ![p] = a]
    BY <2>1 DEF Asks, agent, Take
  <2>3. pc'[p] = "tPre" /\ thr'[p] = t /\ arg'[p].saved = Saved(t)
    BY <1>1, <1>3, <2>1 DEF Take, TypeInv, TypeOK
  <2>4. \A u \in Threads : /\ row'[u].status \in {row[u].status, Running}
                           /\ u # t \/ row[u].status = Absent => row'[u] = row[u]
    <3>1. PreSet(row[t]).status = Running
      BY <1>2, UpsertStatus
    <3> QED
      BY <2>1, <3>1 DEF Write, TypeInv, TypeOK
  <2>5. SavedOver(p)' /\ ~Debtor(p)
    BY <1>1, <2>2, <2>3 DEF SavedOver, Debtor, Unasked, At, UpdateLabels
  <2>6. Debt(t)'
    BY <1>1, <2>3 DEF Debt, Debtor
  <2>7. \A u \in Threads : row'[u].status = Running => row[u].status = Running \/ Debt(u) \/ Debt(u)'
    <3>1. \A u \in Threads \ {t} : row'[u] = row[u]
      BY <2>4
    <3> QED
      BY <2>6, <3>1
  <2>8. \A u \in Threads : row[u].status # Absent => row'[u].status # Absent
    BY <2>4 DEF Running, Absent
  <2>9. UpdateEnds(p)' /\ PauseFound(p)' /\ ~Ensures(p)' /\ Goto(p, "tPre")
    BY <1>5, <2>1
  <2> QED
    BY <1>1, <2>2, <2>5, <2>7, <2>8, <2>9, MoveKeeps
<1>7. CASE TriggerRejected(p)
  <2>1. PICK t \in Threads, op \in {"trigger", "async"} :
          /\ At(p, "idle") /\ Take(p, t, op, NoRow) /\ Goto(p, "done")
          /\ UNCHANGED <<stores, agent, cred, snap, upd, ret>>
    BY <1>7 DEF TriggerRejected, Asks
  <2>2. UNCHANGED <<row, run, snap, upd, ret>> /\ op \in Ops
    BY <2>1 DEF agent, stores, Ops
  <2> QED
    BY <1>1, <2>1, <2>2, AskKeeps DEF ReturnLabels
<1>8. CASE TriggerPreflight(p)
  <2>1. PICK l \in {"tRun", "pRead"} : Goto(p, l)
    BY <1>8 DEF TriggerPreflight
  <2>2. UNCHANGED <<row, run, thr, snap, upd, ret, arg>>
    BY <1>8 DEF TriggerPreflight, agent, stores
  <2>3. Debt(thr[p])'
    BY <1>1, <1>3, <2>1 DEF Debt, Debtor
  <2> QED
    BY <1>1, <2>1, <2>2, <2>3, HopKeeps DEF ReturnLabels
<1>9. CASE TriggerAppends(p)
  <2>1. Active(thr[p]) # {} /\ Goto(p, "tEnsure") /\ UNCHANGED <<row, run, thr, snap, upd, ret, arg>>
    BY <1>9 DEF TriggerAppends, agent, stores
  <2>2. PICK q \in Runners : run[q].st = "live" /\ thr[q] = thr[p]
    BY <2>1 DEF Active
  <2>3. Debt(thr[p])'
    BY <2>1, <2>2 DEF Debt, Debtor
  <2>4. UpdateEnds(p)' /\ PauseFound(p)'
    BY <1>5, <2>1
  <2> QED
    BY <1>1, <1>4, <2>1, <2>3, <2>4, MoveKeeps
<1>10. CASE TriggerStarts(p)
  <2>1. PICK l \in {"tEnsure", "tAwait"} : Goto(p, l)
    BY <1>10 DEF TriggerStarts
  <2>2. PICK r : r = [NoRun EXCEPT !.st = "prepared"]
    OBVIOUS
  <2>3. /\ run' = [run EXCEPT ![p] = r] /\ r.st = "prepared" /\ Active(thr[p]) = {}
        /\ UNCHANGED <<row, thr, snap, upd, ret, arg>>
    BY <1>10, <2>2 DEF TriggerStarts, PrepareRun, stores, NoRun
  <2>4. run[p].st # "live" /\ run'[p].st = "prepared"
    BY <1>1, <2>3 DEF Active, TypeInv, TypeOK
  <2>5. Debt(thr[p])'
    BY <1>1, <2>4 DEF Debt, Debtor
  <2>6. UpdateEnds(p)' /\ PauseFound(p)' /\ l # "idle"
    BY <1>5, <2>1
  <2> QED
    BY <1>1, <1>4, <2>1, <2>3, <2>4, <2>5, <2>6, MoveKeeps
<1>11. CASE TriggerRestores(p)
  <2>1. /\ At(p, "tRestore") /\ Goto(p, "done") /\ UNCHANGED <<run, thr, snap, upd, ret, arg>>
        /\ row' = row \/ (row' = [row EXCEPT ![thr[p]] = arg[p].saved] /\ arg[p].saved # NoRow)
    BY <1>11 DEF TriggerRestores, agent, Write
  <2>2. \A t \in Threads : row'[t].status \in {row[t].status} \cup Terminal
    BY <1>1, <2>1 DEF SavedOver, TypeInv, TypeOK
  <2>3. Debtor(p) => Debt(thr[p])'
    BY <1>1, <2>1, RunStillOwes DEF Owing, UpdateLabels, At
  <2>4. UpdateEnds(p)' /\ PauseFound(p)' /\ ~Ensures(p)'
    BY <1>5, <2>1
  <2> QED
    BY <1>1, <1>4, <2>1, <2>2, <2>3, <2>4, MoveKeeps
    DEF Terminal, Done, NeedMoreInfo, Stopped, Running, Absent
<1>12. CASE TriggerEnsures(p)
  <2>1. /\ At(p, "tEnsure") /\ Goto(p, "done") /\ UNCHANGED <<run, thr, snap, upd, ret, arg>>
        /\ row' = [row EXCEPT ![thr[p]] = Insert(row[thr[p]], Running, "none")]
    BY <1>12 DEF TriggerEnsures, agent, Write
  <2>2. \A t \in Threads : row'[t].status = row[t].status
                             \/ (t = thr[p] /\ row[t].status = Absent /\ row'[t].status = Running)
    BY <1>1, <1>2, <2>1, UpsertStatus DEF TypeInv, TypeOK
  <2>3. row[thr[p]].status # Absent \/ Debt(thr[p])
    BY <2>1 DEF InsertsCovered, Ensures
  <2>4. Debtor(p) => Debt(thr[p])'
    BY <1>1, <2>1, RunStillOwes DEF Owing, UpdateLabels, At
  <2>5. UpdateEnds(p)' /\ PauseFound(p)' /\ ~Ensures(p)'
    BY <1>5, <2>1
  <2>6. /\ \A t \in Threads : row[t].status # Absent => row'[t].status # Absent
        /\ \A t \in Threads : row'[t].status = Running => row[t].status = Running \/ Debt(t)
    BY <2>2, <2>3 DEF Running, Absent
  <2> QED
    BY <1>1, <1>4, <2>1, <2>4, <2>5, <2>6, MoveKeeps
<1> QED
  BY <1>6, <1>7, <1>8, <1>9, <1>10, <1>11, <1>12 DEF TriggerRequest

\* A stop takes the thread out of Running, or leaves it to the run that it stops.
LEMMA StopsKeepDebts ==
  ASSUME TypeInv, TypeInv', DebtInv, NEW p \in Clients, StopRequest(p)
  PROVE  DebtInv' /\ Answered
<1> USE DEF DebtInv
<1>1. /\ p \in Runners /\ p \in Procs \ {handler} /\ thr[p] \in Threads /\ snap[p] \in Row /\ SavedOver(p)
  BY ClientsRun, RunnersAreProcs DEF TypeInv, TypeOK, Steadfast
<1>2. CASE Stop(p)
  <2>1. PICK t \in Threads, l \in {"kAgent", "done"} :
          /\ At(p, "idle") /\ Take(p, t, "stop", NoRow) /\ Goto(p, l)
          /\ snap' = snap \/ snap' = [snap EXCEPT ![p] = row[t]]
          /\ UNCHANGED <<stores, agent, cred, upd, ret>>
    BY <1>2 DEF Stop, Asks, Load
  <2>2. /\ UNCHANGED <<row, run, chain, upd, ret>> /\ "stop" \in Ops
        /\ l \in ReturnLabels \ {"idle", "pWrite", "tEnsure"}
    BY <2>1 DEF agent, stores, Ops, ReturnLabels
  <2> QED
    BY <2>1, <2>2, AskKeeps
<1>3. CASE StopsRun(p)
  <2>1. /\ At(p, "kAgent") /\ StopRuns(thr[p]) /\ Goto(p, "done") /\ snap' = [snap EXCEPT ![p] = NoRow]
        /\ UNCHANGED <<row, thr, upd, ret, arg>>
    BY <1>3 DEF StopsRun, Drop, stores
  <2>2. PICK S \in SUBSET {Event("stop", q, "manual") : q \in Active(thr[p])} :
          \E s \in Seq(S) : chain' = chain \o s
    BY <1>1, <2>1, StopEvents
  <2>3. \A e \in S : e.p \in Runners /\ run[e.p].st # "none" /\ e.k = "stop" /\ e \in Events
    BY <2>2 DEF Active, Event, Events
  <2>4. Grown(S)
    BY <2>2, <2>3, GrownBy
  <2>5. \A q \in Runners : run'[q].st = run[q].st
    BY <2>1 DEF StopRuns, TypeInv, TypeOK, Runs
  <2>6. pc'[p] = "done" /\ UpdateEnds(p)' /\ PauseFound(p)' /\ ~Ensures(p)'
    BY <1>1, <2>1 DEF Goto, TypeInv, TypeOK, UpdateEnds, PauseFound, Ensures, At, UpdateLabels
  <2>7. SavedOver(p)'
    BY <1>1, <2>1 DEF SavedOver
  <2>8. StepBy({p}, S)
    <3>1. \A q \in Procs \ {p} : /\ pc'[q] = pc[q] /\ thr'[q] = thr[q] /\ snap'[q] = snap[q]
                                 /\ upd'[q] = upd[q] /\ ret'[q] = ret[q]
      BY <2>1 DEF Goto, TypeInv, TypeOK
    <3> QED
      BY <1>1, <2>1, <2>3, <2>4, <2>5, <2>6, <2>7, <3>1 DEF StepBy
  <2>9. Debtor(p) => Debt(thr[p])'
    <3>1. Debtor(p) => run[p].st # "none"
      BY <2>1 DEF Debtor, At, UpdateLabels
    <3> QED
      BY <1>1, <2>1, <2>5, <3>1 DEF Debtor, Debt
  <2> QED
    BY <2>1, <2>6, <2>8, <2>9, StepByKeepsDebts
<1>4. CASE StopsNothing(p)
  <2>1. /\ pc[p] \notin Owing /\ Goto(p, "kWrite") /\ UNCHANGED <<row, run, chain, thr, snap, upd, ret, arg>>
    BY <1>4 DEF StopsNothing, agent, stores, Owing, UpdateLabels, At
  <2> QED
    BY <1>1, <2>1, HopKeeps DEF ReturnLabels
<1>5. CASE StopWrites(p)
  <2> DEFINE r == WriteBoth(row[thr[p]], snap[p], Stopped, snap[p].wait, {})
             u == Dropping(Stopped, CostMarkers)
  <2>1. /\ pc[p] \notin Owing /\ Write(thr[p], r) /\ Emit(p, thr[p], u, "done")
        /\ UNCHANGED <<run, chain, snap, arg>> /\ u.status = Stopped
    BY <1>5 DEF StopWrites, agent, Owing, UpdateLabels, At, Dropping
  <2>2. r.status \in {row[thr[p]].status, Stopped}
    BY <1>1, EntityStatus DEF TypeInv, TypeOK
  <2> HIDE DEF r, u
  <2> QED
    BY <1>1, <2>1, <2>2, EndKeeps
<1> QED
  BY <1>2, <1>3, <1>4, <1>5 DEF StopRequest

\* The requests about a thread that waits.
LEMMA ResumesKeepDebts ==
  ASSUME TypeInv, TypeInv', DebtInv, NEW p \in Clients, ResumeRequest(p)
  PROVE  DebtInv' /\ Answered
<1>1. /\ p \in Runners /\ p \in Procs \ {handler} /\ thr[p] \in Threads /\ snap[p] \in Row
  BY ClientsRun, RunnersAreProcs DEF TypeInv, TypeOK
<1>2. ASSUME NEW op \in {"resume", "cancel"}, ResumeOrCancel(p, op) PROVE DebtInv' /\ Answered
  <2>1. PICK t \in Threads, l \in {"rCancel", "cCancel"} :
          /\ At(p, "idle") /\ Take(p, t, op, NoRow) /\ Goto(p, l) /\ snap' = [snap EXCEPT ![p] = row[t]]
          /\ UNCHANGED <<stores, agent, cred, upd, ret>>
    BY <1>2 DEF ResumeOrCancel, Asks, Load
  <2>2. /\ UNCHANGED <<row, run, chain, upd, ret>> /\ op \in Ops
        /\ l \in ReturnLabels \ {"idle", "pWrite", "tEnsure"}
    BY <2>1 DEF agent, stores, Ops, ReturnLabels
  <2> QED
    BY <2>1, <2>2, AskKeeps
<1>3. CASE CancelJob(p)
  <2>1. PICK l \in {"hPre", "cWrite"} : Goto(p, l)
    BY <1>3 DEF CancelJob
  <2>2. pc[p] \notin Owing /\ UNCHANGED <<row, run, chain, thr, snap, upd, ret, arg>>
    BY <1>3 DEF CancelJob, agent, Owing, UpdateLabels
  <2> QED
    BY <1>1, <2>1, <2>2, HopKeeps DEF ReturnLabels
<1>4. CASE CancelWrite(p)
  <2> DEFINE r == WriteBoth(row[thr[p]], snap[p], Stopped, "none", snap[p].cost)
  <2>1. /\ pc[p] \notin Owing /\ Write(thr[p], r) /\ Emit(p, thr[p], Update(Stopped), "done")
        /\ UNCHANGED <<run, chain, snap, arg>> /\ Update(Stopped).status = Stopped
    BY <1>4 DEF CancelWrite, agent, Owing, UpdateLabels, At, Update
  <2>2. r.status \in {row[thr[p]].status, Stopped}
    BY <1>1, EntityStatus DEF TypeInv, TypeOK
  <2> HIDE DEF r
  <2> QED
    BY <1>1, <2>1, <2>2, EndKeeps
<1>5. CASE Acquired(p)
  <2>1. PICK t \in Threads, l \in {"sRemove", "done"} :
          /\ At(p, "idle") /\ Take(p, t, "acquired", NoRow) /\ Goto(p, l)
          /\ UNCHANGED <<stores, agent, snap, upd, ret>>
    BY <1>5 DEF Acquired, Asks
  <2>2. /\ UNCHANGED <<row, run, chain, upd, ret, snap>> /\ "acquired" \in Ops
        /\ l \in ReturnLabels \ {"idle", "pWrite", "tEnsure"}
    BY <2>1 DEF agent, stores, Ops, ReturnLabels
  <2> QED
    BY <2>1, <2>2, AskKeeps
<1> QED
  BY <1>1, <1>2, <1>3, <1>4, <1>5, HandleResumeKeepsDebts DEF ResumeRequest

\* Whatever a request does.
LEMMA CallersKeepDebts ==
  ASSUME TypeInv, TypeInv', Continues, DebtInv, NEW p \in Clients, Caller(p)
  PROVE  DebtInv' /\ Answered
<1>1. p \in Runners /\ p \in Procs \ {handler}
  BY ClientsRun, RunnersAreProcs
<1> QED
  BY <1>1, TriggersKeepDebts, StopsKeepDebts, ResumesKeepDebts, UpdateKeepsDebts, SchedulesKeepDebts,
     PausesKeepDebts DEF Caller

---------------------------------------------------------------------------
(* The requests may come as they will, and the agent wait, the credential expire, jobs
   be lost and runs be prepared together: but no run reaches its cost limit, and each
   that is started can be prepared. *)
Paying == Faults \cap {"cost", "prepare"} = {}

\* A run ends with a run event that takes its thread out of Running.
LEMMA EndsKeepDebts ==
  ASSUME TypeInv, TypeInv', DebtInv, NEW p \in Runners, run[p].st = "live",
         NEW e \in Events, e.p = p, e.k = "run", e.out # Running, Post(e), NEW ok \in BOOLEAN, Settle(p, ok)
  PROVE  DebtInv' /\ Answered
<1> USE DEF DebtInv
<1>1. p \in Procs \ {handler} /\ thr[p] \in Threads /\ handler \in Procs
  BY RunnersAreProcs DEF TypeInv, TypeOK, Procs
<1>2. UNCHANGED <<row, thr, snap, upd, ret, arg>> /\ run' = [run EXCEPT ![p] = NoRun]
  BY DEF Settle, stores
<1>3. \A q \in Runners \ {p} : run'[q] = run[q]
  BY <1>2 DEF TypeInv, TypeOK
<1>4. \A q \in Procs \ {p} : pc'[q] = pc[q]
  BY DEF Settle, Goto, TypeInv, TypeOK
<1>5. pc'[p] = pc[p] \/ pc'[p] \in {"jobOk", "jobFail", "tEnsure", "tRestore", "done"}
  BY <1>1 DEF Settle, AfterRun, Goto, TypeInv, TypeOK
<1>6. Grown({e}) /\ chain'[Len(chain) + 1] = e /\ Len(chain) + 1 \in DOMAIN chain' \ DOMAIN chain
  BY GrownOne
<1>7. p \in Clients => pc'[p] # "idle" /\ SavedOver(p)'
  BY <1>2, <1>5 DEF Steadfast, Unasked, At, SavedOver
<1>8. UpdateEnds(p)' /\ PauseFound(p)'
  <2>1. UpdateEnds(p) /\ PauseFound(p)
    BY <1>1 DEF Steadfast
  <2> QED
    BY <1>2, <1>5, <2>1 DEF UpdateEnds, PauseFound, At, UpdateLabels
<1>9. StepBy({p}, {e})
  <2>1. run'[p].st = "none"
    BY <1>2 DEF TypeInv, TypeOK, NoRun
  <2> QED
    BY <1>1, <1>2, <1>3, <1>4, <1>6, <1>7, <1>8, <2>1 DEF StepBy
<1>10. Debt(thr[p])'
  <2>1. chain = <<>> => At(handler, "idle")
    BY DEF TypeInv, EventInHand
  <2>2. Len(chain) \in Nat /\ (Len(chain) = 0 => chain = <<>>)
    BY DEF TypeInv, TypeOK
  <2>3. Len(chain) + 1 # 1 \/ pc'[handler] = "idle"
    BY <1>1, <1>4, <2>1, <2>2 DEF At
  <2>4. PICK i \in DOMAIN chain' : chain'[i] = e /\ (i # 1 \/ pc'[handler] = "idle")
    BY <1>6, <2>3
  <2>5. DebtAt(i)' /\ Of(i)' = thr[p]
    BY <1>2, <2>4 DEF DebtAt, Of
  <2> QED
    BY <1>2, <2>5 DEF Debt
<1> QED
  BY <1>2, <1>9, <1>10, StepByKeepsDebts

\* What a run does: its events come in the order they keep.
LEMMA AgentKeepsDebts ==
  ASSUME Paying, TypeInv, TypeInv', DebtInv, NEW p \in Runners, Agent(p)
  PROVE  DebtInv' /\ Answered
<1> USE DEF DebtInv
<1>1. p \in Procs \ {handler} /\ thr[p] \in Threads /\ run[p] \in Runs
  BY RunnersAreProcs DEF TypeInv, TypeOK
<1>2. CASE EnterRun(p)
  <2>1. /\ run' = [run EXCEPT ![p].st = "live"] /\ run[p].st = "prepared"
        /\ UNCHANGED <<row, pc, thr, snap, upd, ret, arg>>
    BY <1>2 DEF EnterRun, stores, procs
  <2>2. run'[p].st = "live" /\ \A q \in Runners \ {p} : run'[q] = run[q]
    BY <1>1, <2>1 DEF TypeInv, TypeOK, Runs
  <2>3. PICK e \in Events : e.p = p /\ e.k = "invoke" /\ Post(e)
    BY <1>2 DEF EnterRun, Event, Events
  <2>4. Grown({e}) /\ chain'[Len(chain) + 1] = e /\ Len(chain) + 1 \in DOMAIN chain' \ DOMAIN chain
    BY <2>3, GrownOne
  <2>5. p \in Clients => pc'[p] # "idle" /\ SavedOver(p)'
    BY <2>1 DEF Steadfast, Unasked, At, SavedOver
  <2>6. UpdateEnds(p)' /\ PauseFound(p)'
    BY <1>1, <2>1 DEF Steadfast, UpdateEnds, PauseFound, At
  <2>7. StepBy({p}, {e})
    BY <1>1, <2>1, <2>2, <2>3, <2>4, <2>5, <2>6 DEF StepBy
  <2>8. Debt(thr[p])'
    BY <2>1, <2>2 DEF Debt, Debtor
  <2> QED
    BY <2>1, <2>7, <2>8, StepByKeepsDebts
<1>3. CASE AgentDecides(p)
  <2>1. PICK d \in Outcomes : run' = [run EXCEPT ![p].res = d]
    BY <1>3 DEF AgentDecides
  <2>2. UNCHANGED <<row, chain, pc, thr, snap, upd, ret, arg>>
    BY <1>3 DEF AgentDecides, stores, procs
  <2>3. \A q \in Runners : run'[q].st = run[q].st
    BY <1>1, <2>1 DEF TypeInv, TypeOK, Runs
  <2>4. StepBy({}, {})
    BY <2>2, <2>3, GrownOne, RunnersAreProcs DEF StepBy
  <2> QED
    BY <2>2, <2>4, StepByKeepsDebts
<1>4. CASE RunEnds(p)
  <2>1. FinalStatus(run[p]) \in ThreadStatuses \ {Running}
    BY <1>1 DEF FinalStatus, ThreadStatuses, Running, Done, NeedMoreInfo, Stopped, Waiting
  <2>2. PICK e : e = Event("run", p, FinalStatus(run[p]))
    OBVIOUS
  <2>3. e \in Events /\ e.p = p /\ e.k = "run" /\ e.out # Running
    BY <2>1, <2>2 DEF Event, Events
  <2> QED
    BY <1>4, <2>2, <2>3, EndsKeepDebts DEF RunEnds
<1>5. CASE RunFails(p)
  <2>1. PICK e : e = Event("run", p, Stopped)
    OBVIOUS
  <2>2. e \in Events /\ e.p = p /\ e.k = "run" /\ e.out # Running
    BY <2>1 DEF Event, Events, ThreadStatuses, Stopped, Running
  <2> QED
    BY <1>5, <2>1, <2>2, EndsKeepDebts DEF RunFails
<1>6. ~RunExceeds(p) /\ ~RunUnprepared(p)
  BY DEF RunExceeds, RunUnprepared, Paying
<1> QED
  BY <1>2, <1>3, <1>4, <1>5, <1>6 DEF Agent, RunEnded

\* the processes of a thread start no run, but for its worker
Apart(p) == p \in Procs \ {handler} /\ p \notin Runners

\* The processes of a thread are apart, and its worker runs.
LEMMA ThreadProcs ==
  /\ Apart(watchdog)
  /\ \A t \in Threads : /\ Apart(waiter(t)) /\ Apart(failed(t))
                        /\ worker(t) \in Runners \ Clients /\ worker(t) # failed(t)
BY DEF Apart, Procs, Runners, Workers, Clients, Waiters, handler, watchdog, worker, failed, waiter, caller

\* The announcement of a wait.
LEMMA WaiterKeepsDebts ==
  ASSUME TypeInv, TypeInv', Continues, DebtInv, NEW t \in Threads, Waiter(t)
  PROVE  DebtInv' /\ Answered
<1> DEFINE p == waiter(t)
<1>1. p \in Procs \ {handler} /\ p \notin Runners /\ p \notin Clients /\ row[t] \in Row
  BY ThreadProcs DEF Apart, Runners, TypeInv, TypeOK
<1>2. CASE WaitRead(t)
  <2>1. PICK l \in {"idle", "wWrite"} : Goto(p, l)
    BY <1>2 DEF WaitRead
  <2>2. UNCHANGED <<row, run, chain, thr, upd, ret, arg>> /\ snap' = [snap EXCEPT ![p] = row[t]]
    BY <1>2 DEF WaitRead, stores, Load
  <2> QED
    BY <1>1, <2>1, <2>2, HopKeeps DEF ReturnLabels
<1>3. CASE WaitWrite(t)
  <2> DEFINE r == [row[t] EXCEPT !.wait = "timer", !.cost = snap[p].cost]
  <2>1. /\ pc[p] \notin Owing /\ Write(t, r) /\ Emit(p, t, Update(Waiting), "sRemove")
        /\ UNCHANGED <<run, chain, snap, arg>> /\ Update(Waiting).status = Waiting
    BY <1>3 DEF WaitWrite, agent, Owing, UpdateLabels, At, Update
  <2>2. r.status = row[t].status
    BY <1>1 DEF Row
  <2> HIDE DEF r
  <2> QED
    BY <1>1, <2>1, <2>2, EndKeeps
<1> QED
  BY <1>1, <1>2, <1>3, UpdateKeepsDebts, SchedulesKeepDebts DEF Waiter

\* A failed resume stops its thread.
LEMMA FailedKeepsDebts ==
  ASSUME TypeInv, TypeInv', Continues, DebtInv, NEW t \in Threads, Failed(t)
  PROVE  DebtInv' /\ Answered
<1> DEFINE p == failed(t)
<1>1. p \in Procs \ {handler} /\ p \notin Runners /\ p \notin Clients /\ row[t] \in Row /\ snap[p] \in Row
  BY ThreadProcs DEF Apart, Runners, TypeInv, TypeOK
<1>2. CASE FailedRead(t)
  <2>1. /\ Goto(p, "fWrite") /\ UNCHANGED <<row, run, chain, thr, upd, ret, arg>>
        /\ snap' = [snap EXCEPT ![p] = row[t]]
    BY <1>2 DEF FailedRead, stores, agent, Load
  <2> QED
    BY <1>1, <2>1, HopKeeps DEF ReturnLabels
<1>3. CASE FailedWrite(t)
  <2> DEFINE w == WriteStatus(row[t], snap[p], Stopped)
             r == [w EXCEPT !.wait = "none", !.cost = snap[p].cost]
  <2>1. /\ pc[p] \notin Owing /\ Write(t, r) /\ Emit(p, t, Update(Stopped), "idle")
        /\ UNCHANGED <<run, chain, snap, arg>> /\ Update(Stopped).status = Stopped
    BY <1>3 DEF FailedWrite, agent, Owing, UpdateLabels, At, Update
  <2>2. r.status \in {row[t].status, Stopped}
    <3>1. r.status = w.status
      BY <1>1 DEF WriteStatus, Row
    <3>2. w.status \in {row[t].status, Stopped}
      BY <1>1 DEF WriteStatus, Row
    <3> QED
      BY <3>1, <3>2
  <2> HIDE DEF r
  <2> QED
    BY <1>1, <2>1, <2>2, EndKeeps
<1> QED
  BY <1>1, <1>2, <1>3, UpdateKeepsDebts DEF Failed

\* The watchdog schedules resumes, and no more.
LEMMA WatchdogKeepsDebts ==
  ASSUME TypeInv, TypeInv', DebtInv, Watchdog
  PROVE  DebtInv' /\ Answered
<1>1. watchdog \in Procs \ {handler} /\ watchdog \notin Runners /\ watchdog \notin Clients
  BY ThreadProcs DEF Apart, Runners
<1>2. CASE Sweep \/ SweepJob \/ SweepCredential
  <2>1. PICK l \in {"idle", "vJob", "sRemove", "vCred"} : Goto(watchdog, l)
    BY <1>2 DEF Sweep, SweepJob, SweepCredential
  <2>2. /\ UNCHANGED <<row, run, chain, upd, ret, arg>>
        /\ thr' = thr \/ \E t : thr' = [thr EXCEPT ![watchdog] = t]
        /\ snap' = snap \/ \E s : snap' = [snap EXCEPT ![watchdog] = s]
    BY <1>2 DEF Sweep, SweepJob, SweepCredential, stores, agent, Load, Drop
  <2> QED
    BY <1>1, <2>1, <2>2, HopKeeps DEF ReturnLabels
<1> QED
  BY <1>1, <1>2, SchedulesKeepDebts DEF Watchdog

\* The worker of the thread's job.
LEMMA WorkerKeepsDebts ==
  ASSUME TypeInv, TypeInv', Continues, DebtInv, NEW t \in Threads, Worker(t)
  PROVE  DebtInv' /\ Answered
<1> DEFINE p == worker(t)
<1>1. /\ p \in Procs \ {handler} /\ p \in Runners /\ p \notin Clients
      /\ failed(t) \in Procs \ {handler} /\ failed(t) \notin Runners /\ failed(t) # p
  BY ThreadProcs, RunnersAreProcs DEF Apart
<1>2. CASE JobTaken(t) \/ JobCompleted(t) \/ ResumeRead(t)
  <2>1. PICK l \in {"hRead", "idle", "hPre", "jobOk"} : Goto(p, l)
    BY <1>2 DEF JobTaken, JobCompleted, ResumeRead
  <2>2. pc[p] \notin Owing /\ UNCHANGED <<row, run, chain, thr, upd, ret, arg>>
    BY <1>2 DEF JobTaken, JobCompleted, ResumeRead, stores, agent, Owing, UpdateLabels, At
  <2>3. snap' = snap \/ \E s : snap' = [snap EXCEPT ![p] = s]
    BY <1>2 DEF JobTaken, JobCompleted, ResumeRead, Load
  <2> QED
    BY <1>1, <2>1, <2>2, <2>3, HopKeeps DEF ReturnLabels
<1>3. CASE JobFails(t)
  <2>1. /\ pc[p] \notin Owing /\ UNCHANGED <<row, run, chain, thr, snap, upd, ret, arg>>
        /\ pc'[p] = "idle" /\ pc'[failed(t)] \in {"fRead", pc[failed(t)]}
        /\ \A q \in Procs \ {p, failed(t)} : pc'[q] = pc[q]
    BY <1>1, <1>3 DEF JobFails, agent, Owing, UpdateLabels, At, TypeInv, TypeOK
  <2>2. \A q \in {p, failed(t)} : UpdateEnds(q)' /\ PauseFound(q)'
    <3>1. UpdateEnds(failed(t)) /\ PauseFound(failed(t))
      BY <1>1 DEF DebtInv, Steadfast
    <3> QED
      BY <1>1, <2>1, <3>1 DEF UpdateEnds, PauseFound, At, UpdateLabels
  <2>3. failed(t) \notin Clients
    BY <1>1 DEF Runners
  <2>4. StepBy({p, failed(t)}, {})
    BY <1>1, <2>1, <2>2, <2>3, GrownOne DEF StepBy
  <2>5. Debtor(p) => Debt(thr[p])'
    BY <1>1, <2>1, RunStillOwes
  <2> QED
    BY <1>1, <2>1, <2>3, <2>4, <2>5, StepByKeepsDebts
<1> QED
  BY <1>1, <1>2, <1>3, HandleResumeKeepsDebts, PausesKeepDebts, UpdateKeepsDebts DEF Worker

\* The queue, by itself, and the credential.
LEMMA QueueKeepsDebts ==
  ASSUME TypeInv, TypeInv', DebtInv, CredentialChanges \/ \E t \in Threads : Queue(t)
  PROVE  DebtInv' /\ Answered
<1>1. UNCHANGED <<row, run, chain, pc, thr, snap, upd, ret, arg>>
  BY DEF CredentialChanges, Queue, JobDue, JobEvicted, JobLost, stores, agent, procs
<1> QED
  BY <1>1, StillKeeps

---------------------------------------------------------------------------
\* The event in hand is the first of the chain, of a run, about a thread.
LEMMA EventHandled ==
  ASSUME TypeInv, RunsEnd, chain # <<>>
  PROVE  /\ 1 \in DOMAIN chain /\ Current = chain[1] /\ CurrentThread = Of(1) /\ CurrentThread \in Threads
         /\ Current.p \in Runners /\ Current.k \in {"invoke", "run", "stop"}
         /\ Current.k = "run" => Current.out \in ThreadStatuses \ {Running}
         /\ DOMAIN chain \subseteq Nat \ {0}
<1>1. 1 \in DOMAIN chain /\ Current = chain[1] /\ Current \in Events /\ DOMAIN chain \subseteq Nat \ {0}
  BY DEF TypeInv, TypeOK, Current
<1>2. Current.p \in Runners /\ Current.k \in {"invoke", "run", "stop"}
      /\ (Current.k = "run" => Current.out \in ThreadStatuses)
  BY <1>1 DEF Events
<1>3. thr[Current.p] \in Threads
  BY <1>2, RunnersAreProcs DEF TypeInv, TypeOK
<1> QED
  BY <1>1, <1>2, <1>3 DEF RunsEnd, CurrentThread, Of

\* the handler moves nobody else
HandlerAlone ==
  /\ UNCHANGED <<run, arg>>
  /\ \A q \in Procs \ {handler} : /\ pc'[q] = pc[q] /\ thr'[q] = thr[q] /\ snap'[q] = snap[q]
                                  /\ upd'[q] = upd[q] /\ ret'[q] = ret[q]

\* Whatever the handler does, it moves nobody else.
LEMMA HandlerIsAlone ==
  ASSUME TypeInv, Handler
  PROVE  HandlerAlone
<1>1. UNCHANGED <<run, arg>>
  BY DEF Handler, HandleInvoke, ClearCostState, HandleRun, HandleStop, Landed, UpdatesRow, UpdateRead,
         UpdateStatus, UpdateMeta, agent
<1>2. (\E l : Goto(handler, l))
  BY DEF Handler, HandleInvoke, ClearCostState, HandleRun, HandleStop, Landed, UpdatesRow, UpdateRead,
         UpdateStatus, UpdateMeta, Return, Emit
<1>3. /\ thr' = thr \/ \E t : thr' = [thr EXCEPT ![handler] = t]
      /\ snap' = snap \/ \E s : snap' = [snap EXCEPT ![handler] = s]
      /\ upd' = upd \/ \E u : upd' = [upd EXCEPT ![handler] = u]
      /\ ret' = ret \/ \E l : ret' = [ret EXCEPT ![handler] = l]
  BY DEF Handler, HandleInvoke, ClearCostState, HandleRun, HandleStop, Landed, UpdatesRow, UpdateRead,
         UpdateStatus, UpdateMeta, Return, Emit, Load, Drop
<1> QED
  BY <1>1, <1>2, <1>3 DEF HandlerAlone, Goto, TypeInv, TypeOK

(* What a step that handles the event in hand does to the rows: only an invoke sets its
   thread Running, and the run event whose status is written has taken it out. *)
Settles ==
  /\ chain' = chain /\ pc'[handler] # "idle" /\ Handling'
  /\ \A t \in Threads : row[t].status # Absent => row'[t].status # Absent
  /\ \A t \in Threads : row'[t].status = Running =>
       row[t].status = Running \/ (t = CurrentThread /\ Current.k = "invoke")
  /\ At(handler, "idle") /\ Current.k = "invoke" => row'[CurrentThread].status # Absent
  /\ DebtAt(1) /\ ~DebtAt(1)' => row'[CurrentThread].status \notin {Running, Absent}

\* The handler takes an event, or goes on with it, and emits the update.
LEMMA HandledSettles ==
  ASSUME TypeInv, DebtInv, HandlerAlone, HandleInvoke \/ ClearCostState \/ HandleRun \/ HandleStop
  PROVE  Settles
<1> USE DEF DebtInv
<1>1. handler \in Procs /\ chain # <<>> /\ chain' = chain
  BY DEF HandleInvoke, ClearCostState, HandleRun, HandleStop, Idle, TypeInv, EventInHand, At,
         Procs, agent
<1>2. /\ CurrentThread \in Threads /\ Current.p \in Runners /\ Current.k \in {"invoke", "run", "stop"}
      /\ Current' = Current /\ Current = chain[1]
  BY <1>1, EventHandled DEF Current
<1>3. CurrentThread' = CurrentThread
  BY <1>1, <1>2, RunnersAreProcs DEF CurrentThread, HandlerAlone
<1>4. \A t \in Threads : row[t] \in Row
  BY DEF TypeInv, TypeOK
<1>5. ASSUME NEW t \in Threads, NEW u, NEW l, Emit(handler, t, u, l)
      PROVE  pc'[handler] = "tuRead" /\ ret'[handler] = l /\ thr'[handler] = t /\ upd'[handler] = u
  BY <1>1, <1>5 DEF Emit, Goto, TypeInv, TypeOK
<1>6. ASSUME Goto(handler, "landed") PROVE pc'[handler] = "landed"
  BY <1>1, <1>6 DEF Goto, TypeInv, TypeOK
<1>7. CASE HandleInvoke
  <2>1. /\ At(handler, "idle") /\ Current.k = "invoke"
        /\ row' = [row EXCEPT ![CurrentThread] = InvokedRow(row[CurrentThread])]
        /\ Goto(handler, "landed") \/ \E l \in {"invoked", "landed"} : Emit(handler, CurrentThread, RunningDto, l)
    BY <1>7 DEF HandleInvoke, Idle, Write
  <2>2. /\ row'[CurrentThread].status = Running
        /\ \A t \in Threads \ {CurrentThread} : row'[t] = row[t]
    BY <1>2, <1>4, <2>1, UpsertStatus DEF TypeInv, TypeOK
  <2>3. pc'[handler] # "idle" /\ InvokeTaken'
    <3>1. CASE Goto(handler, "landed")
      BY <1>3, <1>6, <2>2, <3>1 DEF InvokeTaken, InHandWith, UpdateLabels, Running, Absent
    <3>2. ASSUME NEW l \in {"invoked", "landed"}, Emit(handler, CurrentThread, RunningDto, l)
          PROVE  pc'[handler] # "idle" /\ InvokeTaken'
      BY <1>2, <1>3, <1>5, <2>2, <3>2 DEF InvokeTaken, InHandWith, UpdateLabels, Running, Absent, RunningDto, Dropping
    <3> QED
      BY <2>1, <3>1, <3>2
  <2> QED
    BY <1>1, <1>2, <2>1, <2>2, <2>3 DEF Settles, Handling, DebtAt, Running, Absent
<1>8. CASE ClearCostState
  <2>1. /\ At(handler, "invoked") /\ Emit(handler, CurrentThread, Dropping("keep", CostMarkers), "landed")
        /\ UNCHANGED row
    BY <1>8 DEF ClearCostState, stores
  <2>2. Current.k = "invoke" /\ InvokeTaken
    BY <1>2, <2>1 DEF Handling, RunHandled, StopTaken, InHandWith, At, UpdateLabels
  <2>3. Dropping("keep", CostMarkers).status = "keep"
    BY DEF Dropping
  <2>4. pc'[handler] = "tuRead" /\ InvokeTaken'
    BY <1>2, <1>3, <1>5, <2>1, <2>2, <2>3 DEF InvokeTaken, InHandWith, UpdateLabels
  <2> QED
    BY <1>1, <1>2, <2>1, <2>2, <2>4 DEF Settles, Handling, DebtAt, At
<1>9. CASE HandleRun
  <2>1. /\ At(handler, "idle") /\ Current.k = "run" /\ UNCHANGED row
        /\ Emit(handler, CurrentThread, Update(Current.out), "landed")
    BY <1>9 DEF HandleRun, stores, Idle
  <2>2. pc'[handler] = "tuRead" /\ RunHandled'
    BY <1>2, <1>3, <1>5, <2>1 DEF RunHandled, InHandWith, UpdateLabels, At
  <2> QED
    BY <1>1, <1>2, <2>1, <2>2 DEF Settles, Handling, DebtAt, At
<1>10. CASE HandleStop
  <2>1. (At(handler, "stopping") \/ (At(handler, "idle") /\ Current.k = "stop")) /\ UNCHANGED row
    BY <1>10 DEF HandleStop, stores, Idle
  <2>2. Current.k = "stop"
    BY <1>2, <2>1 DEF Handling, InvokeTaken, RunHandled, InHandWith, At, UpdateLabels
  <2>3. Goto(handler, "landed") \/ \E t \in Threads, u \in {CostStop, ManualStop} : Emit(handler, t, u, "stopping")
    <3>1. {thr[p] : p \in execs} \subseteq Threads
      BY RunnersAreProcs DEF TypeInv, TypeOK
    <3> QED
      BY <1>2, <1>10, <3>1 DEF HandleStop
  <2>4. pc'[handler] # "idle" /\ StopTaken'
    <3>1. CASE Goto(handler, "landed")
      BY <1>6, <3>1 DEF StopTaken, InHandWith, UpdateLabels
    <3>2. ASSUME NEW t \in Threads, NEW u \in {CostStop, ManualStop}, Emit(handler, t, u, "stopping")
          PROVE  pc'[handler] # "idle" /\ StopTaken'
      BY <1>5, <3>2 DEF StopTaken, InHandWith, UpdateLabels, CostStop, ManualStop, Dropping
    <3> QED
      BY <2>3, <3>1, <3>2
  <2> QED
    BY <1>1, <1>2, <2>1, <2>2, <2>4 DEF Settles, Handling, DebtAt, At
<1> QED
  BY <1>7, <1>8, <1>9, <1>10

\* The update of the event in hand.
LEMMA UpdateSettles ==
  ASSUME TypeInv, DebtInv, HandlerAlone, UpdatesRow(handler)
  PROVE  Settles
<1> USE DEF DebtInv
<1>1. /\ handler \in Procs /\ chain # <<>> /\ ~At(handler, "idle") /\ pc[handler] \in UpdateLabels
      /\ chain' = chain /\ thr' = thr
  BY DEF UpdatesRow, UpdateRead, UpdateStatus, UpdateMeta, TypeInv, EventInHand, At, Procs, agent, UpdateLabels
<1>2. /\ 1 \in DOMAIN chain /\ Current = chain[1] /\ CurrentThread = Of(1) /\ DOMAIN chain \subseteq Nat \ {0}
      /\ CurrentThread \in Threads /\ Current.k \in {"invoke", "run", "stop"}
      /\ (Current.k = "run" => Current.out \in ThreadStatuses \ {Running})
      /\ Current' = Current /\ CurrentThread' = CurrentThread
  BY <1>1, EventHandled DEF Current, CurrentThread
<1>3. thr[handler] \in Threads /\ snap[handler] \in Row /\ upd[handler] \in Updates /\ row[thr[handler]] \in Row
  BY <1>1 DEF TypeInv, TypeOK
<1>4. /\ Current.k = "invoke" => InvokeTaken /\ thr[handler] = CurrentThread
                                   /\ ret[handler] \in {"invoked", "landed"} /\ upd[handler].status \in {"keep", Running}
      /\ Current.k = "run" => RunHandled /\ thr[handler] = CurrentThread
                                /\ ret[handler] = "landed" /\ upd[handler].status = Current.out
      /\ Current.k = "stop" => StopTaken /\ ret[handler] = "stopping" /\ upd[handler].status = Stopped
  BY <1>1, <1>2 DEF Handling, InvokeTaken, RunHandled, StopTaken, InHandWith, Update
<1>5. ASSUME Return(handler), \A t \in Threads : row[t].status # Absent => row'[t].status # Absent
      PROVE  Handling' /\ pc'[handler] = ret[handler] /\ pc'[handler] # "idle"
  <2>1. pc'[handler] = ret[handler]
    BY <1>5, HandlerReturns
  <2> QED
    BY <1>2, <1>4, <1>5, <2>1 DEF Handling, InvokeTaken, RunHandled, StopTaken, InHandWith, UpdateLabels, At
<1>6. Current.k = "run" => row[CurrentThread].status # Absent
  BY <1>2 DEF RowsMade
<1>7. CASE UpdateRead(handler)
  <2> DEFINE r == row[thr[handler]]
             u == upd[handler]
  <2>1. UNCHANGED row /\ At(handler, "tuRead")
    BY <1>7 DEF UpdateRead, stores
  <2>2. ASSUME Current.k = "run", ~ChangesStatus(r, u) PROVE row[CurrentThread].status \notin {Running, Absent}
    <3>1. r.status = Current.out
      BY <1>2, <1>4, <2>2 DEF ChangesStatus, ThreadStatuses, Running, Done, NeedMoreInfo, Stopped, Waiting
    <3> QED
      BY <1>2, <1>4, <1>6, <2>2, <3>1
  <2>3. CASE Return(handler) /\ ~(r.status # Absent /\ (ChangesStatus(r, u) \/ ChangesMeta(r, u)))
    <3>1. DebtAt(1) => row[CurrentThread].status \notin {Running, Absent}
      BY <1>2, <1>4, <1>6, <2>2, <2>3 DEF DebtAt
    <3> QED
      BY <1>1, <1>5, <2>1, <2>3, <3>1 DEF Settles
  <2>4. CASE /\ Goto(handler, IF ChangesStatus(r, u) THEN "tuStatus" ELSE "tuMeta")
             /\ Load(handler, thr[handler]) /\ UNCHANGED <<upd, ret>>
    <3>1. /\ pc'[handler] = IF ChangesStatus(r, u) THEN "tuStatus" ELSE "tuMeta"
          /\ snap'[handler] = r
      BY <1>1, <2>4 DEF Goto, Load, TypeInv, TypeOK
    <3>2. Handling'
      <4>1. Current.k = "invoke" => InvokeTaken'
        BY <1>1, <1>2, <1>4, <2>1, <2>4, <3>1 DEF InvokeTaken, InHandWith, UpdateLabels
      <4>2. Current.k = "run" => RunHandled'
        <5>1. Current.k = "run" => (ChangesStatus(r, u) => r.status # Current.out)
          BY <1>4 DEF ChangesStatus
        <5> QED
          BY <1>1, <1>2, <1>4, <2>4, <3>1, <5>1 DEF RunHandled, InHandWith, UpdateLabels, At
      <4>3. Current.k = "stop" => StopTaken'
        BY <1>4, <2>4, <3>1 DEF StopTaken, InHandWith, UpdateLabels
      <4> QED
        BY <1>2, <4>1, <4>2, <4>3 DEF Handling
    <3>3. DebtAt(1) /\ ~DebtAt(1)' => row[CurrentThread].status \notin {Running, Absent}
      <4>1. DebtAt(1) /\ ~DebtAt(1)' => Current.k = "run" /\ pc'[handler] # "tuStatus"
        BY <1>1, <1>2 DEF DebtAt
      <4> QED
        BY <2>2, <3>1, <4>1
    <3> QED
      BY <1>1, <2>1, <3>1, <3>2, <3>3 DEF Settles
  <2> QED
    BY <1>7, <2>3, <2>4 DEF UpdateRead
<1>8. CASE UpdateStatus(handler)
  <2> DEFINE r == row[thr[handler]]
             s == snap[handler]
             u == upd[handler]
             w == ApplyStatus(r, s, u)
  <2>1. At(handler, "tuStatus") /\ row' = [row EXCEPT ![thr[handler]] = w]
    BY <1>8 DEF UpdateStatus, Write
  <2>2. w.status = (IF u.status # s.status THEN u.status ELSE r.status) /\ u.status \in ThreadStatuses
    BY <1>1, <1>3, <2>1 DEF ApplyStatus, WriteStatus, Row, Updates, TypeInv, StatusToWrite
  <2>3. row'[thr[handler]] = w /\ \A t \in Threads \ {thr[handler]} : row'[t] = row[t]
    BY <1>3, <2>1 DEF TypeInv, TypeOK
  <2>4. Current.k = "run" => w.status = Current.out
    BY <1>4, <2>1, <2>2 DEF RunHandled
  <2>5. /\ \A t \in Threads : row[t].status # Absent => row'[t].status # Absent
        /\ \A t \in Threads : row'[t].status = Running =>
             row[t].status = Running \/ (t = CurrentThread /\ Current.k = "invoke")
    <3>1. Absent \notin ThreadStatuses
      BY DEF ThreadStatuses, Running, Done, NeedMoreInfo, Stopped, Waiting, Absent
    <3>2. w.status = Running => r.status = Running \/ (Current.k = "invoke" /\ thr[handler] = CurrentThread)
      BY <1>2, <1>4, <2>2, <2>4 DEF Stopped, Running
    <3> QED
      BY <2>2, <2>3, <3>1, <3>2
  <2>6. DebtAt(1) => row'[CurrentThread].status \notin {Running, Absent}
    <3>1. DebtAt(1) => w.status \in ThreadStatuses \ {Running} /\ thr[handler] = CurrentThread
      BY <1>2, <1>4, <2>4 DEF DebtAt
    <3> QED
      BY <2>3, <3>1 DEF ThreadStatuses, Running, Done, NeedMoreInfo, Stopped, Waiting, Absent
  <2>7. CASE Return(handler)
    BY <1>1, <1>5, <2>5, <2>6, <2>7 DEF Settles
  <2>8. CASE Goto(handler, "tuMeta") /\ UNCHANGED <<snap, upd, ret>>
    <3>1. pc'[handler] = "tuMeta"
      BY <1>1, <2>8 DEF Goto, TypeInv, TypeOK
    <3>2. Handling'
      <4>1. Current.k = "invoke" => InvokeTaken'
        BY <1>1, <1>2, <1>4, <2>5, <2>8, <3>1 DEF InvokeTaken, InHandWith, UpdateLabels
      <4>2. Current.k = "run" => RunHandled'
        BY <1>1, <1>2, <1>4, <2>8, <3>1 DEF RunHandled, InHandWith, UpdateLabels, At
      <4>3. Current.k = "stop" => StopTaken'
        BY <1>4, <2>8, <3>1 DEF StopTaken, InHandWith, UpdateLabels
      <4> QED
        BY <1>2, <4>1, <4>2, <4>3 DEF Handling
    <3> QED
      BY <1>1, <2>5, <2>6, <3>1, <3>2 DEF Settles
  <2> QED
    BY <1>8, <2>7, <2>8 DEF UpdateStatus
<1>9. CASE UpdateMeta(handler)
  <2> DEFINE m == ApplyMeta(row[thr[handler]], snap[handler], upd[handler])
  <2>1. At(handler, "tuMeta") /\ row' = [row EXCEPT ![thr[handler]] = m] /\ Return(handler)
    BY <1>9 DEF UpdateMeta, Write
  <2>2. m.status = row[thr[handler]].status
    BY <1>3 DEF ApplyMeta, WriteMeta, Row
  <2>3. \A t \in Threads : row'[t].status = row[t].status
    BY <1>3, <2>1, <2>2 DEF TypeInv, TypeOK
  <2>4. ~DebtAt(1)
    BY <2>1 DEF DebtAt, At
  <2> QED
    BY <1>1, <1>5, <2>1, <2>3, <2>4 DEF Settles
<1> QED
  BY <1>7, <1>8, <1>9 DEF UpdatesRow

\* The handler has nothing to do with the processes, nor with the order of the events.
LEMMA HandlerKeepsOrder ==
  ASSUME TypeInv, DebtInv, HandlerAlone, chain' = chain \/ Shifted,
         \A t \in Threads : row[t].status # Absent => row'[t].status # Absent
  PROVE  Steadfast' /\ RunsEnd' /\ InvokesEnd'
<1> USE DEF HandlerAlone, DebtInv
<1>1. Clients \subseteq Procs \ {handler} /\ \A q \in Procs : thr[q] \in Threads
  BY ClientsRun DEF TypeInv, TypeOK
<1>2. \A i \in DOMAIN chain' : \E m \in DOMAIN chain : chain'[i] = chain[m]
  BY DEF Shifted
<1>3. Steadfast'
  <2>1. ASSUME NEW q \in Clients PROVE SavedOver(q)' /\ Unasked(q)'
    <3>1. (\A i \in DOMAIN chain : chain[i].p # q) => (\A i \in DOMAIN chain' : chain'[i].p # q)
      BY <1>2
    <3>2. pc'[q] = pc[q] /\ SavedOver(q) /\ Unasked(q)
      BY <1>1 DEF Steadfast
    <3> QED
      BY <3>1, <3>2 DEF SavedOver, Unasked, At
  <2>2. ASSUME NEW q \in Procs \ {handler} PROVE UpdateEnds(q)' /\ PauseFound(q)'
    <3>1. UpdateEnds(q) /\ PauseFound(q) /\ thr[q] \in Threads
      BY <1>1 DEF Steadfast
    <3> QED
      BY <3>1 DEF UpdateEnds, PauseFound, At
  <2> QED
    BY <2>1, <2>2 DEF Steadfast
<1>4. RunsEnd'
  BY <1>2 DEF RunsEnd
<1>5. InvokesEnd'
  <2>1. CASE chain' = chain
    BY <2>1 DEF InvokesEnd
  <2>2. CASE Shifted
    <3> SUFFICES ASSUME NEW i \in (DOMAIN chain)', chain'[i].k = "invoke", run[chain'[i].p].st # "live"
                 PROVE  \E m \in DOMAIN chain' : i < m /\ chain'[m].p = chain'[i].p /\ chain'[m].k = "run"
      BY DEF InvokesEnd
    <3>1. i \in Nat \ {0} /\ i + 1 \in DOMAIN chain /\ chain'[i] = chain[i + 1]
      BY <2>2 DEF Shifted
    <3>2. PICK m \in DOMAIN chain : i + 1 < m /\ chain[m].p = chain[i + 1].p /\ chain[m].k = "run"
      BY <3>1 DEF InvokesEnd
    <3>3. m \in Int /\ m # 1
      BY <3>1, <3>2 DEF TypeInv, TypeOK
    <3>4. m - 1 \in DOMAIN chain' /\ chain'[m - 1] = chain[m] /\ i < m - 1
      BY <2>2, <3>1, <3>2, <3>3 DEF Shifted
    <3> QED
      BY <3>1, <3>2, <3>4
  <2> QED
    BY <2>1, <2>2
<1> QED
  BY <1>3, <1>4, <1>5

\* The event that is done with owes nothing, and the row of its thread is there.
LEMMA LandedKeepsDebts ==
  ASSUME TypeInv, DebtInv, HandlerAlone, Landed
  PROVE  DebtInv' /\ Answered
<1> USE DEF HandlerAlone, DebtInv
<1>1. /\ Clients \subseteq Runners /\ Runners \subseteq Procs \ {handler} /\ \A q \in Runners : thr[q] \in Threads
      /\ \A i \in DOMAIN chain : chain[i].p \in Runners
  BY ClientsRun, RunnersAreProcs DEF TypeInv, TypeOK, Events
<1>2. Shifted /\ UNCHANGED <<row, thr>> /\ pc'[handler] = "idle" /\ pc[handler] = "landed"
  <2>1. chain # <<>>
    BY DEF Landed, TypeInv, EventInHand, At
  <2> QED
    BY <2>1, LandedShifts
<1>3. \A q \in Runners, m \in DOMAIN chain : InvokeDue(q, m) => m # 1 /\ m - 1 \in DOMAIN chain' /\ InvokeDue(q, m - 1)'
  <2> SUFFICES ASSUME NEW q \in Runners, NEW m \in DOMAIN chain, InvokeDue(q, m)
               PROVE  m # 1 /\ m - 1 \in DOMAIN chain' /\ InvokeDue(q, m - 1)'
    OBVIOUS
  <2>1. m # 1
    BY <1>2 DEF InvokeDue, At
  <2>2. m - 1 \in DOMAIN chain' /\ chain'[m - 1] = chain[m]
    BY <1>2, <2>1 DEF Shifted
  <2> QED
    BY <1>2, <2>1, <2>2 DEF InvokeDue, At
<1>4. RowsMade'
  <2>1. ASSUME NEW q \in Runners, run'[q].st = "live"
        PROVE  row'[thr'[q]].status # Absent \/ \E m \in DOMAIN chain' : InvokeDue(q, m)'
    BY <1>2, <1>3, <2>1 DEF RowsMade
  <2>2. ASSUME NEW i \in (DOMAIN chain)', chain'[i].k = "run"
        PROVE  row'[Of(i)'].status # Absent \/ \E m \in DOMAIN chain' : m < i /\ InvokeDue(chain[i].p, m)'
    <3>1. i \in Nat \ {0} /\ i + 1 \in DOMAIN chain /\ chain'[i] = chain[i + 1] /\ Of(i)' = Of(i + 1)
      BY <1>2 DEF Shifted, Of
    <3>2. CASE row[Of(i + 1)].status # Absent
      BY <1>2, <3>1, <3>2
    <3>3. CASE \E m \in DOMAIN chain : m < i + 1 /\ InvokeDue(chain[i + 1].p, m)
      <4>1. PICK q \in Runners, m \in DOMAIN chain : m < i + 1 /\ InvokeDue(q, m) /\ q = chain[i + 1].p
        BY <1>1, <3>1, <3>3
      <4>2. m \in Int
        BY DEF TypeInv, TypeOK
      <4>3. PICK n \in DOMAIN chain' : n = m - 1
        BY <1>3, <4>1
      <4>4. n < i /\ InvokeDue(q, n)'
        BY <1>3, <3>1, <4>1, <4>2, <4>3
      <4>5. InvokeDue(chain[i].p, n)'
        BY <3>1, <4>1, <4>4 DEF InvokeDue
      <4> QED
        BY <4>4, <4>5
    <3> QED
      BY <2>2, <3>1, <3>2, <3>3 DEF RowsMade
  <2> QED
    BY <2>1, <2>2 DEF RowsMade
<1>5. Handling'
  BY <1>2 DEF Handling, At
<1>6. \A t \in Threads : Debt(t) => Debt(t)'
  <2> SUFFICES ASSUME NEW t \in Threads, Debt(t) PROVE Debt(t)'
    OBVIOUS
  <2>1. ASSUME NEW q \in Runners, thr[q] = t, Debtor(q) PROVE Debt(t)'
    <3>1. Debtor(q)' /\ thr'[q] = t
      BY <1>1, <1>2, <2>1 DEF Debtor, At
    <3> QED
      BY <3>1 DEF Debt
  <2>2. ASSUME NEW i \in DOMAIN chain, Of(i) = t, DebtAt(i) PROVE Debt(t)'
    <3>1. i # 1
      BY <1>2, <2>2 DEF DebtAt
    <3>2. PICK j \in DOMAIN chain' : chain'[j] = chain[i]
      BY <1>2, <3>1 DEF Shifted
    <3>3. DebtAt(j)' /\ Of(j)' = t
      BY <1>2, <2>2, <3>2 DEF DebtAt, Of
    <3> QED
      BY <3>3 DEF Debt
  <2> QED
    BY <2>1, <2>2 DEF Debt
<1>7. Answered
  BY <1>2, <1>6 DEF Answered
<1>8. InsertsCovered'
  <2> SUFFICES ASSUME NEW q \in Clients, Ensures(q)', row'[thr'[q]].status = Absent PROVE Debt(thr[q])'
    BY DEF InsertsCovered
  <2>1. Ensures(q) /\ row[thr[q]].status = Absent /\ thr'[q] = thr[q]
    BY <1>1, <1>2 DEF Ensures, At
  <2>2. PICK t \in Threads : t = thr[q]
    BY <1>1
  <2>3. Debt(t)'
    BY <1>6, <2>1, <2>2 DEF InsertsCovered
  <2> QED
    BY <2>1, <2>2, <2>3
<1>9. Steadfast' /\ RunsEnd' /\ InvokesEnd'
  BY <1>2, HandlerKeepsOrder
<1> QED
  BY <1>4, <1>5, <1>7, <1>8, <1>9

\* A step that handles the event in hand: what it sets Running has a run or a run event.
LEMMA SettlesKeepsDebts ==
  ASSUME TypeInv, DebtInv, HandlerAlone, Settles, chain # <<>>
  PROVE  DebtInv' /\ Answered
<1> USE DEF HandlerAlone, DebtInv
<1>1. /\ Clients \subseteq Runners /\ Runners \subseteq Procs \ {handler} /\ \A q \in Runners : thr[q] \in Threads
  BY ClientsRun, RunnersAreProcs DEF TypeInv, TypeOK
<1>2. /\ chain' = chain /\ pc'[handler] # "idle"
      /\ \A t \in Threads : row[t].status # Absent => row'[t].status # Absent
  BY DEF Settles
<1>3. /\ 1 \in DOMAIN chain /\ Current = chain[1] /\ CurrentThread = Of(1) /\ CurrentThread \in Threads
      /\ Current.p \in Runners /\ DOMAIN chain \subseteq Nat \ {0}
  BY EventHandled
<1>4. \A i \in DOMAIN chain : chain[i].p \in Runners /\ Of(i)' = Of(i) /\ Of(i) \in Threads
  <2>1. \A i \in DOMAIN chain : chain[i].p \in Runners
    BY DEF TypeInv, TypeOK, Events
  <2> QED
    BY <1>1, <1>2, <2>1 DEF Of
<1>5. \A q \in Runners : thr'[q] = thr[q] /\ (Debtor(q) <=> Debtor(q)')
  BY <1>1 DEF Debtor, At
<1>6. \A q \in Runners, m \in DOMAIN chain : InvokeDue(q, m) =>
        InvokeDue(q, m)' \/ (thr[q] = CurrentThread /\ row'[CurrentThread].status # Absent)
  <2> SUFFICES ASSUME NEW q \in Runners, NEW m \in DOMAIN chain, InvokeDue(q, m)
               PROVE  InvokeDue(q, m)' \/ (thr[q] = CurrentThread /\ row'[CurrentThread].status # Absent)
    OBVIOUS
  <2>1. CASE m # 1
    BY <1>2, <2>1 DEF InvokeDue
  <2>2. CASE m = 1
    <3>1. At(handler, "idle") /\ Current.k = "invoke" /\ Current.p = q
      BY <1>3, <2>2 DEF InvokeDue
    <3> QED
      BY <3>1 DEF Settles, CurrentThread
  <2> QED
    BY <2>1, <2>2
<1>7. RowsMade'
  <2>1. ASSUME NEW q \in Runners, run'[q].st = "live"
        PROVE  row'[thr'[q]].status # Absent \/ \E m \in DOMAIN chain' : InvokeDue(q, m)'
    <3>1. row[thr[q]].status # Absent \/ \E m \in DOMAIN chain : InvokeDue(q, m)
      BY <2>1 DEF RowsMade
    <3> QED
      BY <1>1, <1>2, <1>5, <1>6, <3>1
  <2>2. ASSUME NEW i \in (DOMAIN chain)', chain'[i].k = "run"
        PROVE  row'[Of(i)'].status # Absent \/ \E m \in DOMAIN chain' : m < i /\ InvokeDue(chain[i].p, m)'
    <3>1. i \in DOMAIN chain /\ chain[i].k = "run" /\ chain[i].p \in Runners /\ Of(i) = thr[chain[i].p]
      BY <1>2, <1>4, <2>2 DEF Of
    <3>2. row[Of(i)].status # Absent \/ \E m \in DOMAIN chain : m < i /\ InvokeDue(chain[i].p, m)
      BY <3>1 DEF RowsMade
    <3>3. PICK q \in Runners : q = chain[i].p
      BY <3>1
    <3>4. row'[Of(i)].status # Absent \/ \E m \in DOMAIN chain : m < i /\ InvokeDue(q, m)'
      BY <1>2, <1>4, <1>6, <3>1, <3>2, <3>3
    <3> QED
      BY <1>2, <1>4, <3>1, <3>3, <3>4
  <2> QED
    BY <2>1, <2>2 DEF RowsMade
<1>8. \A t \in Threads : Debt(t) => Debt(t)' \/ row'[t].status \notin {Running, Absent}
  <2> SUFFICES ASSUME NEW t \in Threads, Debt(t) PROVE Debt(t)' \/ row'[t].status \notin {Running, Absent}
    OBVIOUS
  <2>1. ASSUME NEW q \in Runners, thr[q] = t, Debtor(q) PROVE Debt(t)'
    BY <1>5, <2>1 DEF Debt
  <2>2. ASSUME NEW i \in DOMAIN chain, Of(i) = t, DebtAt(i), ~Debt(t)'
        PROVE  row'[t].status \notin {Running, Absent}
    <3>1. ~DebtAt(i)'
      BY <1>2, <1>4, <2>2 DEF Debt
    <3>2. i = 1
      BY <1>2, <2>2, <3>1 DEF DebtAt
    <3> QED
      BY <1>3, <2>2, <3>1, <3>2 DEF Settles
  <2> QED
    BY <2>1, <2>2 DEF Debt
<1>9. Current.k = "invoke" => Debt(CurrentThread)'
  <2> SUFFICES ASSUME Current.k = "invoke" PROVE Debt(CurrentThread)'
    OBVIOUS
  <2>1. CurrentThread' = thr[Current.p] /\ CurrentThread = thr[Current.p]
    BY <1>2, <1>3, <1>5 DEF CurrentThread, Current
  <2>2. CASE run[Current.p].st = "live"
    <3>1. PICK q \in Runners : q = Current.p
      BY <1>3
    <3>2. Debtor(q)' /\ thr'[q] = thr[q]
      BY <1>5, <2>2, <3>1 DEF Debtor
    <3> QED
      BY <2>1, <3>1, <3>2 DEF Debt
  <2>3. CASE run[Current.p].st # "live"
    <3>1. PICK m \in DOMAIN chain : 1 < m /\ chain[m].p = Current.p /\ chain[m].k = "run"
      BY <1>3, <2>3 DEF InvokesEnd
    <3>2. DebtAt(m)' /\ Of(m)' = thr[Current.p]
      BY <1>2, <1>3, <1>4, <3>1 DEF DebtAt, Of
    <3> QED
      BY <1>2, <2>1, <3>2 DEF Debt
  <2> QED
    BY <2>2, <2>3
<1>10. Answered
  <2> SUFFICES ASSUME NEW t \in Threads, row'[t].status = Running
               PROVE  Debt(t)' \/ (row[t].status = Running /\ ~Debt(t))
    BY DEF Answered
  <2>1. CASE row[t].status = Running
    BY <1>8, <2>1
  <2>2. CASE t = CurrentThread /\ Current.k = "invoke"
    <3>1. CurrentThread' = CurrentThread
      BY <1>2, <1>3, <1>5 DEF CurrentThread, Current
    <3> QED
      BY <1>9, <2>2, <3>1
  <2> QED
    BY <2>1, <2>2 DEF Settles
<1>11. InsertsCovered'
  <2> SUFFICES ASSUME NEW q \in Clients, Ensures(q)', row'[thr'[q]].status = Absent PROVE Debt(thr[q])'
    BY DEF InsertsCovered
  <2>1. /\ Ensures(q) /\ row[thr[q]].status = Absent /\ thr'[q] = thr[q]
    BY <1>1, <1>2, <1>5 DEF Ensures, At
  <2>2. PICK t \in Threads : t = thr[q]
    BY <1>1
  <2>3. Debt(t)'
    BY <1>8, <2>1, <2>2 DEF InsertsCovered
  <2> QED
    BY <2>1, <2>2, <2>3
<1>12. Steadfast' /\ RunsEnd' /\ InvokesEnd'
  BY <1>2, HandlerKeepsOrder
<1> QED
  BY <1>7, <1>10, <1>11, <1>12 DEF Settles

---------------------------------------------------------------------------
\* Nothing is owed by a server that just started, and no thread Running.
LEMMA DebtInit ==
  ASSUME Init
  PROVE  DebtInv /\ \A t \in Threads : row[t].status = Absent
<1> USE DEF Init
<1>1. \A p \in Procs : pc[p] = "idle"
  OBVIOUS
<1>2. Steadfast
  BY <1>1, ClientsRun DEF Steadfast, SavedOver, Unasked, UpdateEnds, PauseFound, At, NoArg, NoRun, UpdateLabels
<1>3. RunsEnd /\ InvokesEnd
  BY DEF RunsEnd, InvokesEnd
<1>4. RowsMade
  BY DEF RowsMade, NoRun
<1>5. Handling
  BY <1>1 DEF Handling, Procs, At
<1>6. InsertsCovered
  BY <1>1, ClientsRun DEF InsertsCovered, Ensures, At, UpdateLabels
<1> QED
  BY <1>2, <1>3, <1>4, <1>5, <1>6 DEF DebtInv, NoRow

\* Every step of the server.
LEMMA DebtStep ==
  ASSUME Paying, TypeInv, TypeInv', Continues, DebtInv, Next
  PROVE  DebtInv' /\ Answered
<1>1. ASSUME Handler PROVE DebtInv' /\ Answered
  <2>1. HandlerAlone
    BY <1>1, HandlerIsAlone
  <2>2. chain # <<>>
    BY <1>1 DEF Handler, HandleInvoke, ClearCostState, HandleRun, HandleStop, Landed, UpdatesRow, UpdateRead,
       UpdateStatus, UpdateMeta, Idle, TypeInv, EventInHand, At
  <2>3. Settles \/ Landed
    BY <1>1, <2>1, HandledSettles, UpdateSettles DEF Handler
  <2> QED
    BY <2>1, <2>2, <2>3, LandedKeepsDebts, SettlesKeepsDebts
<1> QED
  BY <1>1, WaiterKeepsDebts, WorkerKeepsDebts, FailedKeepsDebts, QueueKeepsDebts, AgentKeepsDebts,
     CallersKeepDebts, WatchdogKeepsDebts DEF Next

\* nobody but those who owe it leaves a thread Running
NoneUnpaid == \A t \in Threads : row[t].status = Running => Debt(t)

\* Once everything has come to rest, nobody owes anything.
LEMMA RestOwesNothing ==
  ASSUME NEW t \in Threads, Settled(t)
  PROVE  ~Debt(t)
<1>1. chain = <<>> /\ \A p \in Runners : /\ pc[p] \in {"idle", "done", "tAwait", "hAwait"}
                                         /\ thr[p] = t => run[p].st = "none"
  BY RunnersAreProcs DEF Settled, Quiet, Served
<1> QED
  BY <1>1 DEF Debt, Debtor, At, UpdateLabels

(* No thread is left Running with nothing running it, whatever the requests, the agent,
   the credential and the queue do, and with runs of a thread prepared together, as
   long as no run reaches its cost limit and each can be prepared: the pre-set, the
   resume, the invoke and the insert each leave a run, a pause or a run event behind
   that takes the thread out of Running again. *)
THEOREM NobodyLeftRunning ==
  ASSUME Paying
  PROVE  Spec => []NoStrandedRunning
<1>1. Init => DebtInv /\ NoneUnpaid
  BY DebtInit DEF NoneUnpaid, Absent, Running
<1>2. IInv /\ IInv' /\ DebtInv /\ NoneUnpaid /\ [Next]_vars => DebtInv' /\ NoneUnpaid'
  <2> SUFFICES ASSUME IInv, IInv', DebtInv, NoneUnpaid, [Next]_vars PROVE DebtInv' /\ NoneUnpaid'
    OBVIOUS
  <2>1. TypeInv /\ TypeInv' /\ Continues
    BY DEF IInv, OwnInv
  <2>2. UNCHANGED vars => DebtInv' /\ Answered
    BY <2>1, StillKeeps DEF vars, stores, agent, procs
  <2>3. DebtInv' /\ Answered
    BY <2>1, <2>2, DebtStep
  <2> QED
    BY <2>3 DEF Answered, NoneUnpaid
<1>3. NoneUnpaid => NoStrandedRunning
  BY RestOwesNothing DEF NoneUnpaid, NoStrandedRunning
<1> QED
  BY <1>1, <1>2, <1>3, Inductive, PTL DEF Spec
===========================================================================
