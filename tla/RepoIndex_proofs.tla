------------------------- MODULE RepoIndex_proofs -------------------------
(***************************************************************************)
(* Proofs about RepoIndex, for any callers, workers, requests and bounds:  *)
(* the types, and that nobody indexes a branch while somebody else does.   *)
(***************************************************************************)
EXTENDS RepoIndex, TLAPS

---------------------------------------------------------------------------
(* The types, with the attempts left to a job that will run. *)

Jobs == /\ job.owner # Free => job.state = "active"
        /\ job.state \in {"waiting", "active"} => job.failed < MaxAttempts
TypeInv == TypeOK /\ Jobs

Rows   == [status : Statuses, stale : BOOLEAN]
JobSet == [state : {"none", "waiting", "active", "completed", "failed"},
           failed : 0..MaxAttempts, stalled : 0..MaxStalls, owner : Workers \cup {Free}]

\* claimers and workers are processes, none of them both
LEMMA ProcsAre ==
  /\ Claimers \subseteq Procs /\ Callers \subseteq Claimers /\ Workers \subseteq Procs
  /\ "boot" \in Procs
  /\ "boot" \notin Claimers /\ "boot" \notin Workers /\ Claimers \cap Workers = {} /\
     Free \notin Workers
BY ProcessAssumption DEF Procs, Claimers, Free, Reader

\* a call that is over is at a label
LEMMA LabelsAre == \A c : Over(c) \in Labels
BY DEF Labels, Over

\* a write of the row leaves a row
LEMMA WriteTypes ==
  ASSUME TypeOK, NEW from, NEW to \in Statuses
  PROVE  /\ Written(from, to) \in Rows
         /\ Written(from, to).stale => Written(from, to).status \in Open
BY DEF TypeOK, Written, Rows

\* what addIndexJob leaves is a job that can run
LEMMA AddTypes ==
  ASSUME TypeInv, NEW j \in Added(job)
  PROVE  /\ j \in JobSet
         /\ j.owner # Free => j.state = "active"
         /\ j.state \in {"waiting", "active"} => j.failed < MaxAttempts
<1>1. NewJob \in JobSet /\ NewJob.failed = 0 /\ NewJob.owner = Free /\ MaxAttempts > 0
  BY BoundAssumption DEF NewJob, NoJob, JobSet
<1> QED
  BY <1>1 DEF Added, TypeInv, TypeOK, Jobs, JobSet

\* one outage more is within the bound
LEMMA CrashBound == TypeOK /\ outages < MaxOutages => outages + 1 \in 0..MaxOutages
BY BoundAssumption DEF TypeOK

\* the types hold at first
LEMMA TypesInit == Init => TypeInv
BY BoundAssumption, ProcsAre DEF Init, TypeInv, TypeOK, Jobs, NoJob, Labels, Statuses, Open, Gone

\* the steps of a claim keep the types
LEMMA TypesClaim ==
  ASSUME TypeInv, NEW c \in Claimers,
           Lock(c) \/ Claim(c) \/ LookAtJob(c) \/ RepairAdds(c) \/ RepairWrites(c) \/
           Upsert(c) \/ Unlock(c) \/ InlineEnds(c) \/ Background(c) \/ Enqueue(c)
  PROVE  TypeInv'
<1>0. \A from, to : to \in Statuses =>
        /\ Written(from, to) \in Rows
        /\ Written(from, to).stale => Written(from, to).status \in Open
  BY WriteTypes DEF TypeInv
<1>1. CASE Lock(c)
  <2>0. PICK s \in Claimers : held' = [held EXCEPT ![s] = @ + 1]
    BY <1>1 DEF Lock, Sessions
  <2>1. held' \in [Claimers -> Nat]
    BY <2>0 DEF TypeInv, TypeOK
  <2>2. pc' \in [Procs -> Labels]
    BY <1>1 DEF Lock, Goto, Labels, TypeInv, TypeOK
  <2> QED
    BY <1>1, <2>1, <2>2 DEF Lock, TypeInv, TypeOK, Jobs
<1>2. CASE Claim(c)
  BY <1>2 DEF Claim, TypeInv, TypeOK, Jobs, Load, Goto, Labels
<1>3. CASE LookAtJob(c)
  BY <1>3 DEF LookAtJob, TypeInv, TypeOK, Jobs, Goto, Labels
<1>4. CASE RepairAdds(c)
  BY <1>4, AddTypes DEF RepairAdds, TypeInv, TypeOK, Jobs, Goto, Labels, JobSet
<1>5. CASE RepairWrites(c)
  BY <1>0, <1>5 DEF RepairWrites, TypeInv, TypeOK, Jobs, Goto, Labels, Write, Rows, Statuses,
     Open, Gone
<1>6. CASE Upsert(c)
  <2>1. pc' \in [Procs -> Labels]
    BY <1>6 DEF Upsert, Goto, Labels, TypeInv, TypeOK
  <2>2. row' \in Rows /\ (row'.stale => row'.status \in Open)
    <3>1. row' = row \/ row' = [status |-> "InProgress", stale |-> FALSE]
      BY <1>6 DEF Upsert, Written
    <3>2. \A r : r = [status |-> "InProgress", stale |-> FALSE] => r \in Rows /\ ~r.stale
      BY DEF Rows, Statuses, Open
    <3> QED
      BY <3>1, <3>2 DEF TypeInv, TypeOK, Rows
  <2>3. ent' \in [Procs -> Statuses]
    BY <1>6 DEF Upsert, TypeInv, TypeOK, Statuses, Open
  <2> QED
    BY <1>6, <2>1, <2>2, <2>3 DEF Upsert, TypeInv, TypeOK, Jobs, Rows
<1>7. CASE Unlock(c)
  <2>0. PICK s \in Claimers : held' = [held EXCEPT ![s] = IF @ = 0 THEN 0 ELSE @ - 1]
    BY <1>7 DEF Unlock, Sessions
  <2>1. held' \in [Claimers -> Nat]
    BY <2>0 DEF TypeInv, TypeOK
  <2>2. pc' \in [Procs -> Labels]
    BY <1>7, LabelsAre DEF Unlock, Goto, Labels, TypeInv, TypeOK
  <2> QED
    BY <1>7, <2>1, <2>2 DEF Unlock, TypeInv, TypeOK, Jobs
<1>8. CASE InlineEnds(c)
  <2>1. pc' \in [Procs -> Labels]
    BY <1>8, LabelsAre DEF InlineEnds, Goto, TypeInv, TypeOK
  <2>2. PICK to \in {"Completed", "Failed"} : Write(c, to)
    BY <1>8 DEF InlineEnds
  <2>3. to \in Statuses
    BY DEF Statuses
  <2> QED
    BY <1>0, <1>8, <2>1, <2>2, <2>3 DEF InlineEnds, Write, TypeInv, TypeOK, Jobs, Rows, Statuses,
       Open
<1>9. CASE Background(c)
  BY <1>0, <1>9 DEF Background, TypeInv, TypeOK, Jobs, Goto, Labels, Write, Rows, Statuses, Open,
     Gone
<1>10. CASE Enqueue(c)
  BY <1>10, LabelsAre, AddTypes DEF Enqueue, TypeInv, TypeOK, Jobs, Goto, Labels, JobSet
<1> QED
  BY <1>1, <1>2, <1>3, <1>4, <1>5, <1>6, <1>7, <1>8, <1>9, <1>10

\* reindexing and deleting keep the types
LEMMA TypesRequest ==
  ASSUME TypeInv, NEW c \in Callers, Reindex(c) \/ Reset(c) \/ DeleteJob(c) \/ DeleteRow(c)
  PROVE  TypeInv'
<1>0. \A from, to : to \in Statuses =>
        /\ Written(from, to) \in Rows
        /\ Written(from, to).stale => Written(from, to).status \in Open
  BY WriteTypes DEF TypeInv
<1>1. CASE Reindex(c)
  BY <1>1 DEF Reindex, TypeInv, TypeOK, Jobs, Load, Goto, Labels
<1>2. CASE Reset(c)
  <2>1. pc' \in [Procs -> Labels]
    BY <1>2 DEF Reset, Goto, Labels, TypeInv, TypeOK
  <2>2. row' \in Rows /\ (row'.stale => row'.status \in Open)
    <3>1. row' = row \/ row' = [status |-> "Pending", stale |-> FALSE]
      BY <1>2 DEF Reset, Write, Written
    <3>2. \A r : r = [status |-> "Pending", stale |-> FALSE] => r \in Rows /\ ~r.stale
      BY DEF Rows, Statuses, Open
    <3> QED
      BY <3>1, <3>2 DEF TypeInv, TypeOK, Rows
  <2>3. ent' \in [Procs -> Statuses]
    BY <1>2 DEF Reset, Write, TypeInv, TypeOK, Statuses, Open
  <2> QED
    BY <1>2, <2>1, <2>2, <2>3 DEF Reset, TypeInv, TypeOK, Jobs, Rows
<1>3. CASE DeleteJob(c)
  <2>1. pc' \in [Procs -> Labels]
    BY <1>3 DEF DeleteJob, Goto, Labels, TypeInv, TypeOK
  <2>2. job' = job \/ job' = NoJob
    BY <1>3 DEF DeleteJob
  <2>3. NoJob \in JobSet /\ NoJob.owner = Free /\ NoJob.state = "none"
    BY BoundAssumption DEF NoJob, JobSet
  <2> QED
    BY <1>3, <2>1, <2>2, <2>3 DEF DeleteJob, TypeInv, TypeOK, Jobs, JobSet
<1>4. CASE DeleteRow(c)
  BY <1>4 DEF DeleteRow, TypeInv, TypeOK, Jobs, Goto, Labels, Statuses, Open, Gone
<1> QED
  BY <1>1, <1>2, <1>3, <1>4

\* a worker keeps the types
LEMMA TypesWork ==
  ASSUME TypeInv, NEW w \in Workers,
           Take(w) \/ ReadRow(w) \/ MarkInProgress(w) \/ Indexed(w) \/ Cancelled(w) \/
           IndexingFails(w) \/ Finish(w) \/ Fail(w)
  PROVE  TypeInv'
<1>0. \A from, to : to \in Statuses =>
        /\ Written(from, to) \in Rows
        /\ Written(from, to).stale => Written(from, to).status \in Open
  BY WriteTypes DEF TypeInv
<1>1. CASE Take(w)
  BY <1>1, ProcsAre DEF Take, TypeInv, TypeOK, Jobs, Goto, Labels, JobSet
<1>2. CASE ReadRow(w)
  BY <1>2 DEF ReadRow, TypeInv, TypeOK, Jobs, Load, Goto, Labels
<1>3. CASE MarkInProgress(w)
  BY <1>0, <1>3 DEF MarkInProgress, TypeInv, TypeOK, Jobs, Goto, Labels, Write, Rows, Statuses,
     Open, Gone
<1>4. CASE Indexed(w)
  BY <1>0, <1>4 DEF Indexed, TypeInv, TypeOK, Jobs, Goto, Labels, Write, Rows, Statuses, Open, Gone
<1>5. CASE Cancelled(w)
  <2>1. pc' \in [Procs -> Labels]
    BY <1>5 DEF Cancelled, Goto, Labels, TypeInv, TypeOK
  <2>2. UNCHANGED <<row, ent>> \/ Write(w, "Completed")
    BY <1>5 DEF Cancelled
  <2> QED
    BY <1>0, <1>5, <2>1, <2>2 DEF Cancelled, Write, TypeInv, TypeOK, Jobs, Rows, Statuses, Open
<1>6. CASE IndexingFails(w)
  BY <1>6 DEF IndexingFails, TypeInv, TypeOK, Jobs, Goto, Labels
<1>7. CASE Finish(w)
  BY <1>7, ProcsAre DEF Finish, TypeInv, TypeOK, Jobs, Goto, Labels, JobSet
<1>8. CASE Fail(w)
  <2>1. pc' \in [Procs -> Labels]
    BY <1>8 DEF Fail, Goto, Labels, TypeInv, TypeOK
  <2>2. CASE job.owner = w
    <3>1. job.failed + 1 \in 0..MaxAttempts /\ job.failed \in Nat
      BY <2>2, ProcsAre, BoundAssumption DEF TypeInv, TypeOK, Jobs
    <3>2. job' \in JobSet /\ job'.owner = Free /\
          (job'.state = "waiting" => job'.failed < MaxAttempts)
          /\ job'.state # "active"
      BY <1>8, <2>2, <3>1 DEF Fail, TypeInv, TypeOK, JobSet
    <3>3. event' \in {"None", "Pending", "Failed"}
      BY <1>8, <2>2 DEF Fail, Emit, FailedEvent
    <3> QED
      BY <1>8, <2>1, <3>2, <3>3 DEF Fail, TypeInv, TypeOK, Jobs, JobSet
  <2>3. CASE job.owner # w
    BY <1>8, <2>1, <2>3 DEF Fail, TypeInv, TypeOK, Jobs
  <2> QED
    BY <2>2, <2>3
<1> QED
  BY <1>1, <1>2, <1>3, <1>4, <1>5, <1>6, <1>7, <1>8

\* so do the queue, time, and a restart
LEMMA TypesQueue ==
  ASSUME TypeInv,
           Stall \/ Lose \/ HandleEvent \/ Age \/ Crash \/ BootReads \/ BootResets \/ BootAdds
  PROVE  TypeInv'
<1>0. \A from, to : to \in Statuses =>
        /\ Written(from, to) \in Rows
        /\ Written(from, to).stale => Written(from, to).status \in Open
  BY WriteTypes DEF TypeInv
<1>1. CASE Stall
  <2>1. job' \in JobSet /\ job'.owner = Free /\
        (job'.state = "waiting" => job'.failed < MaxAttempts)
        /\ job'.state # "active"
    <3>1. CASE job.stalled < MaxStalls
      <4>1. job.stalled + 1 \in 0..MaxStalls
        BY <3>1, BoundAssumption DEF TypeInv, TypeOK
      <4> QED
        BY <1>1, <3>1, <4>1 DEF Stall, TypeInv, TypeOK, Jobs, JobSet
    <3>2. CASE ~(job.stalled < MaxStalls)
      BY <1>1, <3>2 DEF Stall, TypeInv, TypeOK, Jobs, JobSet
    <3> QED
      BY <3>1, <3>2
  <2>2. event' \in {"None", "Pending", "Failed"}
    BY <1>1 DEF Stall, Emit, FailedEvent
  <2> QED
    BY <1>1, <2>1, <2>2 DEF Stall, TypeInv, TypeOK, Jobs, JobSet
<1>2. CASE Lose
  <2>1. job' \in JobSet /\ job'.owner = Free /\ job'.state = "none"
    BY <1>2, BoundAssumption DEF Lose, NoJob, JobSet
  <2> QED
    BY <1>2, <2>1, CrashBound DEF Lose, TypeInv, TypeOK, Jobs, JobSet
<1>3. CASE HandleEvent
  BY <1>0, <1>3 DEF HandleEvent, TypeInv, TypeOK, Jobs, Write, Rows, Statuses, Open, Gone
<1>4. CASE Age
  BY <1>4 DEF Age, TypeInv, TypeOK, Jobs, Statuses, Open, Gone
<1>5. CASE Crash
  <2>1. pc' \in [Procs -> Labels] /\ ent' \in [Procs -> Statuses] /\ held' \in [Claimers -> Nat]
    BY <1>5 DEF Crash, Labels, At, Statuses, Gone
  <2>2. job' \in JobSet /\ job'.owner = Free /\ job'.state = job.state /\ job'.failed = job.failed
    BY <1>5 DEF Crash, TypeInv, TypeOK, JobSet
  <2> QED
    BY <1>5, <2>1, <2>2, CrashBound DEF Crash, TypeInv, TypeOK, Jobs, JobSet, Statuses, Gone
<1>6. CASE BootReads
  <2>1. job' \in JobSet /\ (job'.owner # Free => job'.state = "active")
        /\ (job'.state \in {"waiting", "active"} => job'.failed < MaxAttempts)
    BY <1>6, BoundAssumption DEF BootReads, NoJob, TypeInv, TypeOK, Jobs, JobSet
  <2>2. pc' \in [Procs -> Labels] /\ glob' \in Statuses
    BY <1>6 DEF BootReads, Goto, Labels, TypeInv, TypeOK
  <2> QED
    BY <1>6, <2>1, <2>2 DEF BootReads, TypeInv, TypeOK, Jobs, JobSet
<1>7. CASE BootResets
  BY <1>0, <1>7 DEF BootResets, TypeInv, TypeOK, Jobs, Goto, Labels, Write, Rows, Statuses, Open,
     Gone
<1>8. CASE BootAdds
  BY <1>8, AddTypes DEF BootAdds, TypeInv, TypeOK, Jobs, Goto, Labels, JobSet
<1> QED
  BY <1>1, <1>2, <1>3, <1>4, <1>5, <1>6, <1>7, <1>8

\* every step keeps the types
LEMMA TypesNext == TypeInv /\ [Next]_vars => TypeInv'
<1> SUFFICES ASSUME TypeInv, [Next]_vars PROVE TypeInv'
  OBVIOUS
<1>1. ASSUME NEW c \in Claimers, Lock(c) \/ Search(c) PROVE TypeInv'
  BY <1>1, TypesClaim DEF Search
<1>2. ASSUME NEW c \in Callers, Request(c) PROVE TypeInv'
  BY <1>2, TypesRequest DEF Request
<1>3. ASSUME NEW w \in Workers, Take(w) \/ Work(w) PROVE TypeInv'
  BY <1>3, TypesWork DEF Work
<1>4. CASE Stall \/ Lose \/ HandleEvent \/ Age \/ Crash \/ Boot
  BY <1>4, TypesQueue DEF Boot
<1>5. CASE UNCHANGED vars
  BY <1>5 DEF vars, TypeInv, TypeOK, Jobs
<1> QED
  BY <1>1, <1>2, <1>3, <1>4, <1>5 DEF Next

---------------------------------------------------------------------------
(* One indexer.  The lock is taken and released by one session (no "pool"), a
   worker keeps its job (no "stall"), nothing outlasts the staleness window (no
   "slow"), and whoever reindexes or deletes meets nobody (no "overlap"). *)

Quiet == Faults \cap {"pool", "stall", "slow", "overlap"} = {}

Locked(c)   == pc[c] \in {"claim", "upsert", "unlock", "unlockIdle"} \cup Repairing
Owning(c)   == pc[c] \in {"unlock", "inline", "background", "add"}
Choosing(c) == pc[c] \in {"upsert", "reset"}
Closing(c)  == Owning(c) \/ Choosing(c)
Engaged(c)  == Closing(c) \/ pc[c] \in Repairing

\* a job that is waiting, or whose worker has not written the outcome
Live == job.state = "waiting" \/ \E w \in Workers : pc[w] \in {"read", "mark", "work", "fail"}

Places ==
  /\ pc["boot"] = "idle"
  /\ \A w \in Workers :
       pc[w] \in {"idle", "read", "mark", "work", "cancelled", "finish", "fail"}
  /\ \A c \in Claimers :
       pc[c] \in {"idle", "done", "claim", "jobState", "repairAdd", "repairRow", "upsert", "unlock",
                  "unlockIdle", "inline", "background", "add", "reset", "delRow"}

\* a worker is busy exactly while it owns the job
JobHeld ==
  /\ job.state = "active" <=> job.owner # Free
  /\ \A w \in Workers : pc[w] # "idle" <=> job.owner = w

LockHeld ==
  /\ \A c \in Claimers : held[c] = IF Locked(c) THEN 1 ELSE 0
  /\ \A c, d \in Claimers : Locked(c) /\ Locked(d) => c = d

\* one at a time decides about the row
Alone == \A c, d \in Claimers : Engaged(c) /\ Engaged(d) => c = d
Apart == \A c, d \in Claimers : Changing(c) /\ (Claiming(d) \/ Changing(d)) => c = d

\* its write will open the row
Chosen == \A c \in Claimers :
  Choosing(c) => ent[c] \notin Open /\ (ent[c] = "None" \/ row.status \notin Gone)
\* the row it has opened stays open
Owned == \A c \in Claimers : Owning(c) => row.status \in Open /\ ~row.stale

\* a row that a failed event closes under a repair is opened again by it
Repaired == \A c \in Claimers : pc[c] \in Repairing =>
  /\ ent[c] \in Open
  /\ row.status \in Open \/ (row.status = "Failed" /\ ent[c] = "InProgress")
RepairQuiet == \A c \in Claimers :
  /\ pc[c] \in {"repairAdd", "repairRow"} => event = "None" /\ \A w \in Workers : pc[w] # "fail"
  /\ pc[c] = "jobState" /\ (event = "Failed" \/ \E w \in Workers : pc[w] = "fail")
     => ent[c] = "InProgress"

Untouched == row.stale =>
  /\ \A c \in Claimers : ~Closing(c)
  /\ \A w \in Workers : /\ pc[w] = "mark" => ent[w] = row.status
                        /\ pc[w] \in {"work", "fail"} => row.status = "InProgress"
  /\ event = "Failed" => row.status = "InProgress"

\* nobody can claim the row under a job that will run, or before its last failure is written
LiveOpen == Live =>
  /\ row.status \in Open \cup {"Deleted"} \/ \E c \in Claimers : pc[c] = "repairRow"
  /\ \A c \in Claimers : ~Closing(c)
EventFailed == event = "Failed" =>
  /\ job.state \notin {"waiting", "active"}
  /\ row.status \in Open \cup {"Deleted"}
  /\ \A c \in Claimers : ~Closing(c)
CancelledGoes == \A w \in Workers :
  pc[w] = "cancelled" => row.status = "Deleted" \/ \E c \in Claimers : pc[c] = "delRow"

Calm == /\ Places /\ JobHeld /\ LockHeld /\ Alone /\ Apart /\ Chosen /\ Owned /\ Repaired
        /\ RepairQuiet /\ Untouched /\ LiveOpen /\ EventFailed /\ CancelledGoes

---------------------------------------------------------------------------
(* Each step keeps Calm: what it changes, then the parts that could notice. *)

\* a call takes the lock when nobody holds it
LEMMA LockCalm ==
  ASSUME Quiet, TypeInv, TypeInv', Calm, NEW c \in Claimers, Lock(c)
  PROVE  Calm'
<1>1. /\ \A q \in Claimers : q # c => pc'[q] = pc[q] /\ ent'[q] = ent[q]
      /\ \A w \in Workers : pc'[w] = pc[w] /\ ent'[w] = ent[w]
      /\ pc'["boot"] = pc["boot"]
      /\ pc[c] = "idle" /\ pc'[c] = "claim"
      /\ \A o \in Claimers \ {c} : held[o] = 0 /\ held'[o] = 0
      /\ held'[c] = held[c] + 1
      /\ \A d \in Claimers : ~Changing(d)
      /\ UNCHANGED <<row, job, event, ent>>
  BY ProcsAre DEF TypeInv, TypeOK, Goto, At, Quiet, Lock, Sessions, MeetsClaim, Asks
<1>2. Places' /\ JobHeld' /\ LockHeld' /\ Alone' /\ Apart' /\ Chosen' /\ Owned' /\ Repaired' /\
      RepairQuiet' /\ Untouched' /\ LiveOpen' /\ EventFailed' /\ CancelledGoes'
  BY <1>1, ProcsAre DEF Calm, Places, JobHeld, LockHeld, Locked, Alone, Engaged, Apart, Changing,
     Claiming, Chosen, Owned, Repaired, RepairQuiet, Untouched, LiveOpen, Live, EventFailed,
     Closing, Owning, Choosing, Repairing, CancelledGoes, Open, Gone
<1> QED
  BY <1>2 DEF Calm

\* a claim goes on to write a row only when it is not open, and so nobody indexes
LEMMA ClaimCalm ==
  ASSUME Quiet, TypeInv, TypeInv', Calm, NEW c \in Claimers, Claim(c)
  PROVE  Calm'
<1>1. /\ \A q \in Claimers : q # c => pc'[q] = pc[q] /\ ent'[q] = ent[q]
      /\ \A w \in Workers : pc'[w] = pc[w] /\ ent'[w] = ent[w]
      /\ pc'["boot"] = pc["boot"]
      /\ pc[c] = "claim" /\ ent'[c] = row.status /\ (row.stale => row.status \in Open)
      /\ \/ row.status \in Open /\ pc'[c] = IF row.stale THEN "jobState" ELSE "unlockIdle"
         \/ row.status \in {"Completed", "Deleted"} /\ pc'[c] = "unlockIdle"
         \/ row.status \notin Open \cup {"Deleted"} /\ pc'[c] = "upsert"
      /\ UNCHANGED <<row, job, event, held>>
  BY ProcsAre DEF TypeInv, TypeOK, Goto, At, Quiet, Claim, Load
<1>2. Places' /\ JobHeld' /\ LockHeld' /\ Apart' /\ Chosen' /\ Owned' /\ Repaired' /\
      Untouched' /\ EventFailed' /\ CancelledGoes'
  BY <1>1, ProcsAre DEF Calm, Places, JobHeld, LockHeld, Locked, Apart, Changing, Claiming,
     Chosen, Owned, Repaired, Untouched, EventFailed, Closing, Owning, Choosing, Repairing,
     CancelledGoes, Open, Gone
<1>3. Alone'
  BY <1>1, ProcsAre DEF Calm, LockHeld, Locked, Alone, Engaged, Apart, Changing, Claiming, Owned,
     Closing, Owning, Choosing, Repairing, Open
<1>4. RepairQuiet'
  BY <1>1, ProcsAre DEF Calm, RepairQuiet, Untouched, Closing, Owning, Choosing, Repairing, Open
<1>5. LiveOpen'
  BY <1>1, ProcsAre DEF Calm, LockHeld, Locked, LiveOpen, Live, Closing, Owning, Choosing,
     Repairing, Open, Gone
<1> QED
  BY <1>2, <1>3, <1>4, <1>5 DEF Calm

\* a repair goes on when the job is not active and its events have been handled
LEMMA LookCalm ==
  ASSUME Quiet, TypeInv, TypeInv', Calm, NEW c \in Claimers, LookAtJob(c)
  PROVE  Calm'
<1>1. /\ \A q \in Claimers : q # c => pc'[q] = pc[q] /\ ent'[q] = ent[q]
      /\ \A w \in Workers : pc'[w] = pc[w] /\ ent'[w] = ent[w]
      /\ pc'["boot"] = pc["boot"]
      /\ pc[c] = "jobState" /\ event = "None" /\ ent'[c] = ent[c]
      /\ pc'[c] = IF job.state = "active" THEN "unlockIdle" ELSE "repairAdd"
      /\ UNCHANGED <<row, job, event, held>>
  BY ProcsAre DEF TypeInv, TypeOK, Goto, At, Quiet, LookAtJob
<1>2. Places' /\ JobHeld' /\ LockHeld' /\ Alone' /\ Apart' /\ Chosen' /\ Owned' /\ Repaired' /\
      Untouched' /\ LiveOpen' /\ EventFailed' /\ CancelledGoes'
  BY <1>1, ProcsAre DEF Calm, Places, JobHeld, LockHeld, Locked, Alone, Engaged, Apart, Changing,
     Claiming, Chosen, Owned, Repaired, Untouched, LiveOpen, Live, EventFailed, Closing, Owning,
     Choosing, Repairing, CancelledGoes, Open, Gone
<1>3. RepairQuiet'
  BY <1>1, ProcsAre DEF Calm, JobHeld, RepairQuiet, Repairing
<1> QED
  BY <1>2, <1>3 DEF Calm

\* a job is added before the row says so
LEMMA RepairAddCalm ==
  ASSUME Quiet, TypeInv, TypeInv', Calm, NEW c \in Claimers, RepairAdds(c)
  PROVE  Calm'
<1>1. /\ \A q \in Claimers : q # c => pc'[q] = pc[q] /\ ent'[q] = ent[q]
      /\ \A w \in Workers : pc'[w] = pc[w] /\ ent'[w] = ent[w]
      /\ pc'["boot"] = pc["boot"]
      /\ pc[c] = "repairAdd" /\ pc'[c] = "repairRow" /\ ent'[c] = ent[c]
      /\ \/ job' = job /\ job.state \in {"waiting", "active"}
         \/ job.state \notin {"waiting", "active"} /\ job'.state = "waiting" /\ job'.owner = Free
      /\ UNCHANGED <<row, event, held>>
  BY ProcsAre DEF TypeInv, TypeOK, Goto, At, Quiet, RepairAdds, Added, NewJob, NoJob, Calm, JobHeld
<1>2. Places' /\ JobHeld' /\ LockHeld' /\ Alone' /\ Apart' /\ Chosen' /\ Owned' /\ Repaired' /\
      RepairQuiet' /\ Untouched' /\ CancelledGoes'
  BY <1>1, ProcsAre DEF Calm, Places, JobHeld, LockHeld, Locked, Alone, Engaged, Apart, Changing,
     Claiming, Chosen, Owned, Repaired, RepairQuiet, Untouched, Closing, Owning, Choosing,
     Repairing, CancelledGoes, Open, Gone
<1>3. LiveOpen'
  BY <1>1, ProcsAre DEF Calm, Alone, Engaged, LiveOpen, Live, Closing, Owning, Choosing,
     Repairing, Open, Gone
<1>4. EventFailed'
  BY <1>1, ProcsAre DEF Calm, RepairQuiet, EventFailed, Closing, Owning, Choosing, Repairing, Open
<1> QED
  BY <1>2, <1>3, <1>4 DEF Calm

\* the row is open again, whatever closed it in between
LEMMA RepairRowCalm ==
  ASSUME Quiet, TypeInv, TypeInv', Calm, NEW c \in Claimers, RepairWrites(c)
  PROVE  Calm'
<1>1. /\ \A q \in Claimers : q # c => pc'[q] = pc[q] /\ ent'[q] = ent[q]
      /\ \A w \in Workers : pc'[w] = pc[w] /\ ent'[w] = ent[w]
      /\ pc'["boot"] = pc["boot"]
      /\ pc[c] = "repairRow" /\ pc'[c] = "unlockIdle" /\ ent'[c] = "Pending"
      /\ row' = row \/ (row'.status = "Pending" /\ ~row'.stale)
      /\ ent[c] = "Pending" \/ row.status \in Gone \/ row'.status = "Pending"
      /\ UNCHANGED <<job, event, held>>
  BY ProcsAre DEF TypeInv, TypeOK, Goto, At, Quiet, RepairWrites, Write, Written, Statuses
<1>2. Places' /\ JobHeld' /\ LockHeld' /\ Alone' /\ Apart' /\ Chosen' /\ Owned' /\ Repaired' /\
      RepairQuiet' /\ Untouched' /\ EventFailed'
  BY <1>1, ProcsAre DEF Calm, Places, JobHeld, LockHeld, Locked, Alone, Engaged, Apart, Changing,
     Claiming, Chosen, Owned, Repaired, RepairQuiet, Untouched, EventFailed, Closing, Owning,
     Choosing, Repairing, Open, Gone
<1>3. LiveOpen'
  BY <1>1, ProcsAre DEF Calm, Repaired, LiveOpen, Live, Closing, Owning, Choosing, Repairing,
     Open, Gone
<1>4. CancelledGoes'
  BY <1>1, ProcsAre DEF Calm, Repaired, Repairing, CancelledGoes, Open
<1> QED
  BY <1>2, <1>3, <1>4 DEF Calm

\* the claim opens the row
LEMMA UpsertCalm ==
  ASSUME Quiet, TypeInv, TypeInv', Calm, NEW c \in Claimers, Upsert(c)
  PROVE  Calm'
<1>1. /\ \A q \in Claimers : q # c => pc'[q] = pc[q] /\ ent'[q] = ent[q]
      /\ \A w \in Workers : pc'[w] = pc[w] /\ ent'[w] = ent[w]
      /\ pc'["boot"] = pc["boot"]
      /\ pc[c] = "upsert"
      /\ \/ pc'[c] = "unlockIdle" /\ row' = row
         \/ pc'[c] = "unlock" /\ row.status # "Deleted" /\ row'.status = "InProgress" /\ ~row'.stale
      /\ UNCHANGED <<job, event, held>>
  BY ProcsAre DEF TypeInv, TypeOK, Goto, At, Quiet, Upsert, Written, Statuses, Calm, Chosen,
     Choosing, Open
<1>2. Places' /\ JobHeld' /\ LockHeld' /\ Alone' /\ Apart' /\ Chosen' /\ Owned' /\ Repaired' /\
      RepairQuiet' /\ Untouched' /\ LiveOpen' /\ EventFailed' /\ CancelledGoes'
  BY <1>1, ProcsAre DEF Calm, Places, JobHeld, LockHeld, Locked, Alone, Engaged, Apart, Changing,
     Claiming, Chosen, Owned, Repaired, RepairQuiet, Untouched, LiveOpen, Live, EventFailed,
     Closing, Owning, Choosing, Repairing, CancelledGoes, Open, Gone
<1> QED
  BY <1>2 DEF Calm

\* whoever has claimed goes on alone without the lock
LEMMA UnlockCalm ==
  ASSUME Quiet, TypeInv, TypeInv', Calm, NEW c \in Claimers, Unlock(c)
  PROVE  Calm'
<1>1. /\ \A q \in Claimers : q # c => pc'[q] = pc[q] /\ ent'[q] = ent[q]
      /\ \A w \in Workers : pc'[w] = pc[w] /\ ent'[w] = ent[w]
      /\ pc'["boot"] = pc["boot"]
      /\ pc[c] \in {"unlock", "unlockIdle"} /\ ent'[c] = ent[c]
      /\ \/ pc[c] = "unlockIdle" /\ pc'[c] \in {"idle", "done"}
         \/ pc[c] = "unlock" /\ pc'[c] \in {"inline", "background"}
      /\ \A o \in Claimers \ {c} : held'[o] = held[o]
      /\ held[c] = 1 => held'[c] = 0
      /\ UNCHANGED <<row, job, event>>
  BY ProcsAre DEF TypeInv, TypeOK, Goto, At, Quiet, Unlock, Sessions, Over
<1>2. Places' /\ JobHeld' /\ LockHeld' /\ Alone' /\ Apart' /\ Chosen' /\ Owned' /\ Repaired' /\
      RepairQuiet' /\ Untouched' /\ LiveOpen' /\ EventFailed' /\ CancelledGoes'
  BY <1>1, ProcsAre DEF Calm, Places, JobHeld, LockHeld, Locked, Alone, Engaged, Apart, Changing,
     Claiming, Chosen, Owned, Repaired, RepairQuiet, Untouched, LiveOpen, Live, EventFailed,
     Closing, Owning, Choosing, Repairing, CancelledGoes, Open, Gone
<1> QED
  BY <1>2 DEF Calm

\* an inline indexing ends, and with it the claim
LEMMA InlineCalm ==
  ASSUME Quiet, TypeInv, TypeInv', Calm, NEW c \in Claimers, InlineEnds(c)
  PROVE  Calm'
<1>1. /\ \A q \in Claimers : q # c => pc'[q] = pc[q] /\ ent'[q] = ent[q]
      /\ \A w \in Workers : pc'[w] = pc[w] /\ ent'[w] = ent[w]
      /\ pc'["boot"] = pc["boot"]
      /\ pc[c] = "inline" /\ pc'[c] \in {"idle", "done"}
      /\ row' = row \/ (row'.status \in {"Completed", "Failed"} /\ ~row'.stale)
      /\ UNCHANGED <<job, event, held>>
  BY ProcsAre DEF TypeInv, TypeOK, Goto, At, Quiet, InlineEnds, Write, Written, Over
<1>2. Places' /\ JobHeld' /\ LockHeld' /\ Alone' /\ Apart' /\ Chosen' /\ RepairQuiet' /\
      Untouched' /\ LiveOpen' /\ EventFailed'
  BY <1>1, ProcsAre DEF Calm, Places, JobHeld, LockHeld, Locked, Alone, Engaged, Apart, Changing,
     Claiming, Chosen, RepairQuiet, Untouched, LiveOpen, Live, EventFailed, Closing, Owning,
     Choosing, Repairing, Open, Gone
<1>3. Owned'
  BY <1>1, ProcsAre DEF Calm, Alone, Engaged, Owned, Closing, Owning, Choosing, Repairing, Open
<1>4. Repaired'
  BY <1>1, ProcsAre DEF Calm, Alone, Engaged, Repaired, Closing, Owning, Choosing, Repairing, Open
<1>5. CancelledGoes'
  BY <1>1, ProcsAre DEF Calm, Owned, Owning, CancelledGoes, Open
<1> QED
  BY <1>2, <1>3, <1>4, <1>5 DEF Calm

\* a claim is handed to the queue: the row stays open
LEMMA BackgroundCalm ==
  ASSUME Quiet, TypeInv, TypeInv', Calm, NEW c \in Claimers, Background(c)
  PROVE  Calm'
<1>1. /\ \A q \in Claimers : q # c => pc'[q] = pc[q] /\ ent'[q] = ent[q]
      /\ \A w \in Workers : pc'[w] = pc[w] /\ ent'[w] = ent[w]
      /\ pc'["boot"] = pc["boot"]
      /\ pc[c] = "background" /\ pc'[c] = "add"
      /\ row' = row \/ (row'.status = "Pending" /\ ~row'.stale)
      /\ UNCHANGED <<job, event, held>>
  BY ProcsAre DEF TypeInv, TypeOK, Goto, At, Quiet, Background, Write, Written
<1>2. Places' /\ JobHeld' /\ LockHeld' /\ Alone' /\ Apart' /\ Chosen' /\ Owned' /\ Repaired' /\
      RepairQuiet' /\ Untouched' /\ LiveOpen' /\ EventFailed'
  BY <1>1, ProcsAre DEF Calm, Places, JobHeld, LockHeld, Locked, Alone, Engaged, Apart, Changing,
     Claiming, Chosen, Owned, Repaired, RepairQuiet, Untouched, LiveOpen, Live, EventFailed,
     Closing, Owning, Choosing, Repairing, Open, Gone
<1>3. CancelledGoes'
  BY <1>1, ProcsAre DEF Calm, Owned, Owning, CancelledGoes, Open
<1> QED
  BY <1>2, <1>3 DEF Calm

\* a job is added while the row is open
LEMMA EnqueueCalm ==
  ASSUME Quiet, TypeInv, TypeInv', Calm, NEW c \in Claimers, Enqueue(c)
  PROVE  Calm'
<1>1. /\ \A q \in Claimers : q # c => pc'[q] = pc[q] /\ ent'[q] = ent[q]
      /\ \A w \in Workers : pc'[w] = pc[w] /\ ent'[w] = ent[w]
      /\ pc'["boot"] = pc["boot"]
      /\ pc[c] = "add" /\ pc'[c] \in {"idle", "done"} /\ ent'[c] = ent[c]
      /\ \/ job' = job /\ job.state \in {"waiting", "active"}
         \/ job.state \notin {"waiting", "active"} /\ job'.state = "waiting" /\ job'.owner = Free
      /\ UNCHANGED <<row, event, held>>
  BY ProcsAre DEF TypeInv, TypeOK, Goto, At, Quiet, Enqueue, Added, NewJob, NoJob, Over, Calm,
     JobHeld
<1>2. Places' /\ JobHeld' /\ LockHeld' /\ Alone' /\ Apart' /\ Chosen' /\ Owned' /\ Repaired' /\
      RepairQuiet' /\ Untouched' /\ EventFailed' /\ CancelledGoes'
  BY <1>1, ProcsAre DEF Calm, Places, JobHeld, LockHeld, Locked, Alone, Engaged, Apart, Changing,
     Claiming, Chosen, Owned, Repaired, RepairQuiet, Untouched, EventFailed, Closing, Owning,
     Choosing, Repairing, CancelledGoes, Open, Gone
<1>3. LiveOpen'
  BY <1>1, ProcsAre DEF Calm, Alone, Engaged, Owned, LiveOpen, Live, Closing, Owning, Choosing,
     Repairing, Open, Gone
<1> QED
  BY <1>2, <1>3 DEF Calm

\* a reindex refuses an open row
LEMMA ReindexCalm ==
  ASSUME Quiet, TypeInv, TypeInv', Calm, NEW c \in Claimers, Reindex(c)
  PROVE  Calm'
<1>1. /\ \A q \in Claimers : q # c => pc'[q] = pc[q] /\ ent'[q] = ent[q]
      /\ \A w \in Workers : pc'[w] = pc[w] /\ ent'[w] = ent[w]
      /\ pc'["boot"] = pc["boot"]
      /\ pc[c] = "idle" /\ ent'[c] = row.status /\ (row.stale => row.status \in Open)
      /\ \A d \in Claimers : d # c => ~Claiming(d) /\ ~Changing(d)
      /\ pc'[c] = IF row.status \in Open \cup {"Deleted"} THEN "done" ELSE "reset"
      /\ UNCHANGED <<row, job, event, held>>
  BY ProcsAre DEF TypeInv, TypeOK, Goto, At, Quiet, Reindex, Load, Meets, Asks
<1>2. Places' /\ JobHeld' /\ LockHeld' /\ Apart' /\ Chosen' /\ Owned' /\ Repaired' /\
      RepairQuiet' /\ EventFailed' /\ CancelledGoes'
  BY <1>1, ProcsAre DEF Calm, Places, JobHeld, LockHeld, Locked, Apart, Changing, Claiming,
     Chosen, Owned, Repaired, RepairQuiet, EventFailed, Closing, Owning, Choosing, Repairing,
     CancelledGoes, Open, Gone
<1>3. Alone'
  BY <1>1, ProcsAre DEF Calm, Alone, Engaged, Apart, Changing, Claiming, Closing, Owning,
     Choosing, Repairing
<1>4. Untouched'
  BY <1>1, ProcsAre DEF Calm, Places, Chosen, Untouched, Closing, Owning, Choosing, Open, Gone
<1>5. LiveOpen'
  BY <1>1, ProcsAre DEF Calm, Apart, Changing, Claiming, LiveOpen, Live, Closing, Owning,
     Choosing, Open, Gone
<1> QED
  BY <1>2, <1>3, <1>4, <1>5 DEF Calm

\* a reindex opens the row
LEMMA ResetCalm ==
  ASSUME Quiet, TypeInv, TypeInv', Calm, NEW c \in Claimers, Reset(c)
  PROVE  Calm'
<1>1. /\ \A q \in Claimers : q # c => pc'[q] = pc[q] /\ ent'[q] = ent[q]
      /\ \A w \in Workers : pc'[w] = pc[w] /\ ent'[w] = ent[w]
      /\ pc'["boot"] = pc["boot"]
      /\ pc[c] = "reset"
      /\ \A d \in Claimers : d # c => ~Claiming(d) /\ ~Changing(d)
      /\ \/ pc'[c] = "add" /\ row.status # "Deleted" /\ row'.status = "Pending" /\ ~row'.stale
         \/ pc'[c] = "done" /\ row' = row
      /\ UNCHANGED <<job, event, held>>
  BY ProcsAre DEF TypeInv, TypeOK, Goto, At, Quiet, Reset, Meets, Write, Written, Statuses, Calm,
     Chosen, Choosing, Open
<1>2. Places' /\ JobHeld' /\ LockHeld' /\ Alone' /\ Apart' /\ Chosen' /\ Owned' /\ Repaired' /\
      RepairQuiet' /\ Untouched' /\ LiveOpen' /\ EventFailed'
  BY <1>1, ProcsAre DEF Calm, Places, JobHeld, LockHeld, Locked, Alone, Engaged, Apart, Changing,
     Claiming, Chosen, Owned, Repaired, RepairQuiet, Untouched, LiveOpen, Live, EventFailed,
     Closing, Owning, Choosing, Repairing, Open, Gone
<1>3. CancelledGoes'
  BY <1>1, ProcsAre DEF Calm, Places, Chosen, Untouched, Closing, Owning, Choosing, CancelledGoes,
     Open, Gone
<1> QED
  BY <1>2, <1>3 DEF Calm

\* an active job is cancelled, another one removed
LEMMA DeleteJobCalm ==
  ASSUME Quiet, TypeInv, TypeInv', Calm, NEW c \in Claimers, DeleteJob(c)
  PROVE  Calm'
<1>1. /\ pc[c] = "idle" /\ pc'[c] = "delRow" /\ pc'["boot"] = pc["boot"]
      /\ \A q \in Claimers : q # c => pc'[q] = pc[q]
      /\ \A w \in Workers : pc'[w] = pc[w] \/ (pc'[w] = "cancelled" /\
         pc[w] \in {"read", "mark", "work"})
      /\ \A d \in Claimers : d # c => ~Claiming(d) /\ ~Changing(d)
      /\ (job' = job /\ job.state = "active") \/ (job.state # "active" /\ job'.state = "none" /\
         job'.owner = Free)
      /\ UNCHANGED <<row, event, held, ent>>
  BY ProcsAre DEF TypeInv, TypeOK, Goto, At, Quiet, DeleteJob, Meets, Asks, NoJob, Calm, Places,
     JobHeld
<1>2. Places' /\ JobHeld' /\ LockHeld' /\ Alone' /\ Apart' /\ Chosen' /\ Owned' /\ Repaired' /\
      RepairQuiet' /\ Untouched' /\ LiveOpen' /\ EventFailed' /\ CancelledGoes'
  BY <1>1, ProcsAre DEF Calm, Places, JobHeld, LockHeld, Locked, Alone, Engaged, Apart, Changing,
     Claiming, Chosen, Owned, Repaired, RepairQuiet, Untouched, LiveOpen, Live, EventFailed,
     Closing, Owning, Choosing, Repairing, CancelledGoes, Open, Gone
<1> QED
  BY <1>2 DEF Calm

\* a deleted row stays deleted
LEMMA DeleteRowCalm ==
  ASSUME Quiet, TypeInv, TypeInv', Calm, NEW c \in Claimers, DeleteRow(c)
  PROVE  Calm'
<1>1. /\ \A q \in Claimers : q # c => pc'[q] = pc[q] /\ ent'[q] = ent[q]
      /\ \A w \in Workers : pc'[w] = pc[w] /\ ent'[w] = ent[w]
      /\ pc'["boot"] = pc["boot"]
      /\ pc[c] = "delRow" /\ pc'[c] = "done" /\ ent'[c] = ent[c]
      /\ \A d \in Claimers : d # c => ~Claiming(d) /\ ~Changing(d)
      /\ row'.status = "Deleted" /\ ~row'.stale
      /\ UNCHANGED <<job, event, held>>
  BY ProcsAre DEF TypeInv, TypeOK, Goto, At, Quiet, DeleteRow, Meets
<1>2. Places' /\ JobHeld' /\ LockHeld' /\ Alone' /\ Apart' /\ RepairQuiet' /\ Untouched' /\
      LiveOpen' /\ EventFailed' /\ CancelledGoes'
  BY <1>1, ProcsAre DEF Calm, Places, JobHeld, LockHeld, Locked, Alone, Engaged, Apart, Changing,
     Claiming, RepairQuiet, Untouched, LiveOpen, Live, EventFailed, Closing, Owning, Choosing,
     Repairing, CancelledGoes, Open, Gone
<1>3. Chosen'
  BY <1>1, ProcsAre DEF Calm, Apart, Changing, Claiming, Chosen, Choosing, Open, Gone
<1>4. Owned'
  BY <1>1, ProcsAre DEF Calm, Apart, Changing, Claiming, Owned, Owning, Open
<1>5. Repaired'
  BY <1>1, ProcsAre DEF Calm, Apart, Changing, Claiming, Repaired, Repairing, Open
<1> QED
  BY <1>2, <1>3, <1>4, <1>5 DEF Calm

\* a worker takes the job
LEMMA TakeCalm ==
  ASSUME Quiet, TypeInv, TypeInv', Calm, NEW w \in Workers, Take(w)
  PROVE  Calm'
<1>1. /\ \A q \in Claimers : pc'[q] = pc[q] /\ ent'[q] = ent[q]
      /\ \A q \in Workers : q # w => pc'[q] = pc[q] /\ ent'[q] = ent[q]
      /\ pc'["boot"] = pc["boot"]
      /\ pc[w] = "idle" /\ pc'[w] = "read" /\ ent'[w] = ent[w]
      /\ job.state = "waiting" /\ job'.state = "active" /\ job'.owner = w
      /\ UNCHANGED <<row, event, held>>
  BY ProcsAre DEF TypeInv, TypeOK, Goto, At, Quiet, Take
<1>2. Places' /\ JobHeld' /\ LockHeld' /\ Alone' /\ Apart' /\ Chosen' /\ Owned' /\ Repaired' /\
      RepairQuiet' /\ Untouched' /\ LiveOpen' /\ EventFailed' /\ CancelledGoes'
  BY <1>1, ProcsAre DEF Calm, Places, JobHeld, LockHeld, Locked, Alone, Engaged, Apart, Changing,
     Claiming, Chosen, Owned, Repaired, RepairQuiet, Untouched, LiveOpen, Live, EventFailed,
     Closing, Owning, Choosing, Repairing, CancelledGoes, Open, Gone
<1> QED
  BY <1>2 DEF Calm

\* a worker leaves an index alone that is completed or deleted
LEMMA ReadCalm ==
  ASSUME Quiet, TypeInv, TypeInv', Calm, NEW w \in Workers, ReadRow(w)
  PROVE  Calm'
<1>1. /\ \A q \in Claimers : pc'[q] = pc[q] /\ ent'[q] = ent[q]
      /\ \A q \in Workers : q # w => pc'[q] = pc[q] /\ ent'[q] = ent[q]
      /\ pc'["boot"] = pc["boot"]
      /\ pc[w] = "read" /\ ent'[w] = row.status
      /\ pc'[w] = IF row.status \in Gone \cup {"Completed"} THEN "finish" ELSE "mark"
      /\ UNCHANGED <<row, job, event, held>>
  BY ProcsAre DEF TypeInv, TypeOK, Goto, At, Quiet, ReadRow, Load
<1>2. Places' /\ JobHeld' /\ LockHeld' /\ Alone' /\ Apart' /\ Chosen' /\ Owned' /\ Repaired' /\
      RepairQuiet' /\ Untouched' /\ LiveOpen' /\ EventFailed' /\ CancelledGoes'
  BY <1>1, ProcsAre DEF Calm, Places, JobHeld, LockHeld, Locked, Alone, Engaged, Apart, Changing,
     Claiming, Chosen, Owned, Repaired, RepairQuiet, Untouched, LiveOpen, Live, EventFailed,
     Closing, Owning, Choosing, Repairing, CancelledGoes, Open, Gone
<1> QED
  BY <1>2 DEF Calm

\* a worker writes InProgress unless it has read it
LEMMA MarkCalm ==
  ASSUME Quiet, TypeInv, TypeInv', Calm, NEW w \in Workers, MarkInProgress(w)
  PROVE  Calm'
<1>1. /\ \A q \in Claimers : pc'[q] = pc[q] /\ ent'[q] = ent[q]
      /\ \A q \in Workers : q # w => pc'[q] = pc[q] /\ ent'[q] = ent[q]
      /\ pc'["boot"] = pc["boot"]
      /\ pc[w] = "mark" /\ pc'[w] = "work" /\ (row.stale => row.status \in Open)
      /\ \/ row' = row /\ (ent[w] = "InProgress" \/ row.status \in Gone)
         \/ row'.status = "InProgress" /\ ~row'.stale /\ row.status \notin Gone
      /\ UNCHANGED <<job, event, held>>
  BY ProcsAre DEF TypeInv, TypeOK, Goto, At, Quiet, MarkInProgress, Write, Written
<1>2. Places' /\ JobHeld' /\ LockHeld' /\ Alone' /\ Apart' /\ Chosen' /\ Owned' /\ Repaired' /\
      RepairQuiet' /\ LiveOpen' /\ EventFailed' /\ CancelledGoes'
  BY <1>1, ProcsAre DEF Calm, Places, JobHeld, LockHeld, Locked, Alone, Engaged, Apart, Changing,
     Claiming, Chosen, Owned, Repaired, RepairQuiet, LiveOpen, Live, EventFailed, Closing, Owning,
     Choosing, Repairing, CancelledGoes, Open, Gone
<1>3. Untouched'
  BY <1>1, ProcsAre DEF Calm, Places, Chosen, Untouched, Closing, Owning, Choosing, Open, Gone
<1> QED
  BY <1>2, <1>3 DEF Calm

\* the row is closed by the worker that has the job
LEMMA IndexedCalm ==
  ASSUME Quiet, TypeInv, TypeInv', Calm, NEW w \in Workers, Indexed(w)
  PROVE  Calm'
<1>1. /\ \A q \in Claimers : pc'[q] = pc[q] /\ ent'[q] = ent[q]
      /\ \A q \in Workers : q # w => pc'[q] = pc[q] /\ ent'[q] = ent[q]
      /\ pc'["boot"] = pc["boot"]
      /\ pc[w] = "work" /\ pc'[w] = "finish"
      /\ \A c \in Claimers : pc[c] \notin Repairing
      /\ row' = row \/ (row'.status = "Completed" /\ ~row'.stale)
      /\ row.status \in Gone => row' = row
      /\ UNCHANGED <<job, event, held>>
  BY ProcsAre DEF TypeInv, TypeOK, Goto, At, Quiet, Indexed, IndexingEnds, Write, Written
<1>2. Places' /\ JobHeld' /\ LockHeld' /\ Alone' /\ Apart' /\ Chosen' /\ Repaired' /\
      RepairQuiet' /\ Untouched' /\ CancelledGoes'
  BY <1>1, ProcsAre DEF Calm, Places, JobHeld, LockHeld, Locked, Alone, Engaged, Apart, Changing,
     Claiming, Chosen, Repaired, RepairQuiet, Untouched, Closing, Owning, Choosing, Repairing,
     CancelledGoes, Open, Gone
<1>3. Owned'
  BY <1>1, ProcsAre DEF Calm, Owned, LiveOpen, Live, Closing, Owning, Choosing, Open, Gone
<1>4. LiveOpen'
  BY <1>1, ProcsAre DEF Calm, JobHeld, LiveOpen, Live, Closing, Owning, Choosing, Open, Gone
<1>5. EventFailed'
  BY <1>1, ProcsAre DEF Calm, JobHeld, EventFailed, Closing, Owning, Choosing, Open
<1> QED
  BY <1>2, <1>3, <1>4, <1>5 DEF Calm

\* a cancelled worker may complete a row that is going to be deleted
LEMMA CancelCalm ==
  ASSUME Quiet, TypeInv, TypeInv', Calm, NEW w \in Workers, Cancelled(w)
  PROVE  Calm'
<1>1. /\ \A q \in Claimers : pc'[q] = pc[q] /\ ent'[q] = ent[q]
      /\ \A q \in Workers : q # w => pc'[q] = pc[q] /\ ent'[q] = ent[q]
      /\ pc'["boot"] = pc["boot"]
      /\ pc[w] = "cancelled" /\ pc'[w] = "finish"
      /\ row' = row \/ (row'.status = "Completed" /\ ~row'.stale)
      /\ row.status \in Gone => row' = row
      /\ UNCHANGED <<job, event, held>>
  BY ProcsAre DEF TypeInv, TypeOK, Goto, At, Quiet, Cancelled, Write, Written
<1>2. Places' /\ JobHeld' /\ LockHeld' /\ Alone' /\ Apart' /\ Chosen' /\ RepairQuiet' /\
      Untouched' /\ CancelledGoes'
  BY <1>1, ProcsAre DEF Calm, Places, JobHeld, LockHeld, Locked, Alone, Engaged, Apart, Changing,
     Claiming, Chosen, RepairQuiet, Untouched, Closing, Owning, Choosing, Repairing,
     CancelledGoes, Open, Gone
<1>3. Owned'
  BY <1>1, ProcsAre DEF Calm, Apart, Changing, Claiming, Owned, Owning, CancelledGoes, Open
<1>4. Repaired'
  BY <1>1, ProcsAre DEF Calm, Apart, Changing, Claiming, Repaired, Repairing, CancelledGoes, Open
<1>5. LiveOpen'
  BY <1>1, ProcsAre DEF Calm, JobHeld, LiveOpen, Live, Closing, Owning, Choosing, Open, Gone
<1>6. EventFailed'
  BY <1>1, ProcsAre DEF Calm, JobHeld, EventFailed, Closing, Owning, Choosing, Open
<1> QED
  BY <1>2, <1>3, <1>4, <1>5, <1>6 DEF Calm

\* an indexing fails
LEMMA FailsCalm ==
  ASSUME Quiet, TypeInv, TypeInv', Calm, NEW w \in Workers, IndexingFails(w)
  PROVE  Calm'
<1>1. /\ \A q \in Claimers : pc'[q] = pc[q] /\ ent'[q] = ent[q]
      /\ \A q \in Workers : q # w => pc'[q] = pc[q] /\ ent'[q] = ent[q]
      /\ pc'["boot"] = pc["boot"]
      /\ pc[w] = "work" /\ pc'[w] = "fail" /\ ent'[w] = ent[w]
      /\ \A c \in Claimers : pc[c] \notin Repairing
      /\ UNCHANGED <<row, job, event, held>>
  BY ProcsAre DEF TypeInv, TypeOK, Goto, At, Quiet, IndexingFails, IndexingEnds
<1>2. Places' /\ JobHeld' /\ LockHeld' /\ Alone' /\ Apart' /\ Chosen' /\ Owned' /\ Repaired' /\
      Untouched' /\ LiveOpen' /\ EventFailed' /\ CancelledGoes'
  BY <1>1, ProcsAre DEF Calm, Places, JobHeld, LockHeld, Locked, Alone, Engaged, Apart, Changing,
     Claiming, Chosen, Owned, Repaired, Untouched, LiveOpen, Live, EventFailed, Closing, Owning,
     Choosing, Repairing, CancelledGoes, Open, Gone
<1>3. RepairQuiet'
  BY <1>1, ProcsAre DEF Calm, Alone, Engaged, RepairQuiet, Closing, Owning, Choosing, Repairing
<1> QED
  BY <1>2, <1>3 DEF Calm

\* a job is completed after its row
LEMMA FinishCalm ==
  ASSUME Quiet, TypeInv, TypeInv', Calm, NEW w \in Workers, Finish(w)
  PROVE  Calm'
<1>1. /\ \A q \in Claimers : pc'[q] = pc[q] /\ ent'[q] = ent[q]
      /\ \A q \in Workers : q # w => pc'[q] = pc[q] /\ ent'[q] = ent[q]
      /\ pc'["boot"] = pc["boot"]
      /\ pc[w] = "finish" /\ pc'[w] = "idle" /\ ent'[w] = ent[w]
      /\ job'.state = "completed" /\ job'.owner = Free
      /\ UNCHANGED <<row, event, held>>
  BY ProcsAre DEF TypeInv, TypeOK, Goto, At, Quiet, Finish, Calm, JobHeld
<1>2. Places' /\ JobHeld' /\ LockHeld' /\ Alone' /\ Apart' /\ Chosen' /\ Owned' /\ Repaired' /\
      RepairQuiet' /\ Untouched' /\ LiveOpen' /\ EventFailed' /\ CancelledGoes'
  BY <1>1, ProcsAre DEF Calm, Places, JobHeld, LockHeld, Locked, Alone, Engaged, Apart, Changing,
     Claiming, Chosen, Owned, Repaired, RepairQuiet, Untouched, LiveOpen, Live, EventFailed,
     Closing, Owning, Choosing, Repairing, CancelledGoes, Open, Gone
<1> QED
  BY <1>2 DEF Calm

\* after the last attempt the job is over before its event closes the row
LEMMA FailCalm ==
  ASSUME Quiet, TypeInv, TypeInv', Calm, NEW w \in Workers, Fail(w)
  PROVE  Calm'
<1>1. /\ \A q \in Claimers : pc'[q] = pc[q] /\ ent'[q] = ent[q]
      /\ \A q \in Workers : q # w => pc'[q] = pc[q] /\ ent'[q] = ent[q]
      /\ pc'["boot"] = pc["boot"]
      /\ pc[w] = "fail" /\ pc'[w] = "idle" /\ ent'[w] = ent[w]
      /\ job'.owner = Free
      /\ \/ job'.state = "waiting" /\ event' = "Pending"
         \/ job'.state = "failed" /\ event' = "Failed"
      /\ event = "None" /\ UNCHANGED <<row, held>>
  <2>1. job.owner = w /\ pc[w] = "fail" /\ Goto(w, "idle")
    BY DEF Fail, At, Calm, JobHeld
  <2>2. /\ job' = [job EXCEPT !.state = IF job.failed + 1 < MaxAttempts THEN "waiting" ELSE "failed",
                            !.failed = job.failed + 1, !.owner = Free]
        /\ event = "None" /\ event' = FailedEvent(job.failed + 1)
        /\ UNCHANGED <<row, held, ent>>
    BY <2>1 DEF Fail, Emit
  <2>3. job.failed \in Nat
    BY BoundAssumption DEF TypeInv, TypeOK
  <2> QED
    BY <2>1, <2>2, <2>3, BoundAssumption, ProcsAre DEF FailedEvent, Goto, TypeInv, TypeOK
<1>2. Places' /\ JobHeld' /\ LockHeld' /\ Alone' /\ Apart' /\ Chosen' /\ Owned' /\ Repaired' /\
      RepairQuiet' /\ Untouched' /\ LiveOpen' /\ CancelledGoes'
  BY <1>1, ProcsAre DEF Calm, Places, JobHeld, LockHeld, Locked, Alone, Engaged, Apart, Changing,
     Claiming, Chosen, Owned, Repaired, RepairQuiet, Untouched, LiveOpen, Live, Closing, Owning,
     Choosing, Repairing, CancelledGoes, Open, Gone
<1>3. EventFailed'
  BY <1>1, ProcsAre DEF Calm, RepairQuiet, LiveOpen, Live, EventFailed, Closing, Owning, Choosing,
     Repairing, Open, Gone
<1> QED
  BY <1>2, <1>3 DEF Calm

\* an event opens the row, or closes it when the job is over
LEMMA EventCalm ==
  ASSUME Quiet, TypeInv, TypeInv', Calm, HandleEvent
  PROVE  Calm'
<1>1. /\ event \in {"Pending", "Failed"} /\ event' = "None"
      /\ row' = row \/ (row'.status = event /\ ~row'.stale /\ row.status \notin Gone)
      /\ UNCHANGED <<job, held, pc, ent>>
  BY DEF TypeInv, TypeOK, HandleEvent, Written
<1>2. Places' /\ JobHeld' /\ LockHeld' /\ Alone' /\ Apart' /\ Chosen' /\ RepairQuiet' /\
      Untouched' /\ EventFailed' /\ CancelledGoes'
  BY <1>1, ProcsAre DEF Calm, Places, JobHeld, LockHeld, Locked, Alone, Engaged, Apart, Changing,
     Claiming, Chosen, RepairQuiet, Untouched, EventFailed, Closing, Owning, Choosing, Repairing,
     CancelledGoes, Open, Gone
<1>3. Owned'
  BY <1>1, ProcsAre DEF Calm, Owned, EventFailed, Closing, Owning, Choosing, Open
<1>4. Repaired'
  BY <1>1, ProcsAre DEF Calm, Repaired, RepairQuiet, Repairing, Open
<1>5. LiveOpen'
  BY <1>1, ProcsAre DEF Calm, JobHeld, LiveOpen, Live, EventFailed, Closing, Owning, Choosing,
     Open, Gone
<1> QED
  BY <1>2, <1>3, <1>4, <1>5 DEF Calm

\* a row goes stale only when nobody is at work
LEMMA AgeCalm ==
  ASSUME Quiet, TypeInv, TypeInv', Calm, Age
  PROVE  Calm'
<1>1. /\ row'.status = row.status /\ row.status \in Open
      /\ event = "None" /\ \A p \in Procs : pc[p] \in {"idle", "done"}
      /\ UNCHANGED <<job, event, held, pc, ent>>
  BY DEF TypeInv, TypeOK, Age, Quiet
<1>2. Places' /\ JobHeld' /\ LockHeld' /\ Alone' /\ Apart' /\ Chosen' /\ Owned' /\ Repaired' /\
      RepairQuiet' /\ Untouched' /\ LiveOpen' /\ EventFailed' /\ CancelledGoes'
  BY <1>1, ProcsAre DEF Calm, Places, JobHeld, LockHeld, Locked, Alone, Engaged, Apart, Changing,
     Claiming, Chosen, Owned, Repaired, RepairQuiet, Untouched, LiveOpen, Live, EventFailed,
     Closing, Owning, Choosing, Repairing, CancelledGoes, Open, Gone
<1> QED
  BY <1>2 DEF Calm

---------------------------------------------------------------------------
(* The invariant, and what it gives. *)

Inv == TypeInv /\ (outages = 0 => Calm)

\* nothing undoes an outage
LEMMA OutagesStay == TypeOK /\ [Next]_vars /\ outages' = 0 => outages = 0
<1> SUFFICES ASSUME TypeOK, [Next]_vars, outages' = 0 PROVE outages = 0
  OBVIOUS
<1>1. outages \in Nat
  BY BoundAssumption DEF TypeOK
<1>2. UNCHANGED outages \/ outages' = outages + 1
  <2>1. ASSUME NEW c \in Claimers, Lock(c) \/ Search(c) PROVE UNCHANGED outages
    BY <2>1 DEF Lock, Search, Claim, LookAtJob, RepairAdds, RepairWrites, Upsert, Unlock,
                InlineEnds, Background, Enqueue
  <2>2. ASSUME NEW c \in Callers, Request(c) PROVE UNCHANGED outages
    BY <2>2 DEF Request, Reindex, Reset, DeleteJob, DeleteRow
  <2>3. ASSUME NEW w \in Workers, Take(w) \/ Work(w) PROVE UNCHANGED outages
    BY <2>3 DEF Take, Work, ReadRow, MarkInProgress, Indexed, Cancelled, IndexingFails, Finish, Fail
  <2>4. CASE Stall \/ HandleEvent \/ Age \/ Boot \/ UNCHANGED vars
    BY <2>4 DEF Stall, HandleEvent, Age, Boot, BootReads, BootResets, BootAdds, vars
  <2>5. CASE Lose \/ Crash
    BY <2>5 DEF Lose, Crash
  <2> QED
    BY <2>1, <2>2, <2>3, <2>4, <2>5 DEF Next
<1> QED
  BY <1>1, <1>2

\* at first nobody is at work
LEMMA CalmInit == Init => Calm
<1> SUFFICES ASSUME Init PROVE Calm
  OBVIOUS
<1>1. /\ \A p \in Procs : pc[p] = "idle" /\ ent[p] = "None"
      /\ \A c \in Claimers : held[c] = 0
      /\ job.state = "none" /\ job.owner = Free /\ event = "None"
      /\ row.status = "None" /\ ~row.stale
  BY ProcsAre DEF Init, NoJob
<1> QED
  BY <1>1, ProcsAre
     DEF Calm, Places, JobHeld, LockHeld, Locked, Alone, Engaged, Apart, Changing, Claiming,
         Chosen, Owned, Repaired, RepairQuiet, Untouched, LiveOpen, Live, EventFailed, Closing,
         Owning, Choosing, Repairing, CancelledGoes

\* and every step keeps it so, until the first outage
LEMMA CalmNext ==
  ASSUME Quiet, TypeInv, TypeInv', Calm, [Next]_vars, outages' = 0, outages = 0
  PROVE  Calm'
<1>1. ASSUME NEW c \in Claimers, Lock(c) \/ Search(c) PROVE Calm'
  BY <1>1, LockCalm, ClaimCalm, LookCalm, RepairAddCalm, RepairRowCalm, UpsertCalm, UnlockCalm,
     InlineCalm, BackgroundCalm, EnqueueCalm DEF Search
<1>2. ASSUME NEW c \in Callers, Request(c) PROVE Calm'
  <2>1. c \in Claimers
    BY ProcsAre
  <2> QED
    BY <1>2, <2>1, ReindexCalm, ResetCalm, DeleteJobCalm, DeleteRowCalm DEF Request
<1>3. ASSUME NEW w \in Workers, Take(w) \/ Work(w) PROVE Calm'
  BY <1>3, TakeCalm, ReadCalm, MarkCalm, IndexedCalm, CancelCalm, FailsCalm, FinishCalm, FailCalm
     DEF Work
<1>4. CASE HandleEvent \/ Age
  BY <1>4, EventCalm, AgeCalm
<1>5. CASE Stall
  BY <1>5 DEF Stall, Quiet, Calm, JobHeld
<1>6. CASE Lose \/ Crash
  BY <1>6 DEF Lose, Crash
<1>7. CASE Boot
  BY <1>7 DEF Boot, BootReads, BootResets, BootAdds, At, Calm, Places
<1>8. CASE UNCHANGED vars
  BY <1>8
     DEF vars, Calm, Places, JobHeld, LockHeld, Locked, Alone, Engaged, Apart, Changing, Claiming,
         Chosen, Owned, Repaired, RepairQuiet, Untouched, LiveOpen, Live, EventFailed, Closing,
         Owning, Choosing, Repairing, CancelledGoes
<1> QED
  BY <1>1, <1>2, <1>3, <1>4, <1>5, <1>6, <1>7, <1>8 DEF Next

(* Every write of every call, worker, event and boot leaves a row, and no job is
   attempted more often than it may be, with all faults. *)
THEOREM IndexTypes == Spec => []TypeOK
<1>1. Spec => []TypeInv
  BY TypesInit, TypesNext, PTL DEF Spec
<1>2. TypeInv => TypeOK
  BY DEF TypeInv
<1> QED
  BY <1>1, <1>2, PTL

(* Before the first restart or loss of a job nobody indexes the branch while
   somebody else does, in a call or in a worker, whatever calls meet and however
   indexings fail. *)
THEOREM IndexedAlone == ASSUME Quiet PROVE Spec => []OneIndexer
<1>1. Init => Inv
  BY TypesInit, CalmInit DEF Inv
<1>2. Inv /\ [Next]_vars => Inv'
  <2> SUFFICES ASSUME Inv, [Next]_vars PROVE Inv'
    OBVIOUS
  <2>1. TypeInv'
    BY TypesNext DEF Inv
  <2>2. ASSUME outages' = 0 PROVE Calm'
    BY <2>1, <2>2, OutagesStay, CalmNext DEF Inv, TypeInv
  <2> QED
    BY <2>1, <2>2 DEF Inv
<1>3. Inv => OneIndexer
  <2> SUFFICES ASSUME Calm, NEW p \in Claimers \cup Workers, NEW q \in Claimers \cup Workers,
                      Indexing(p), Indexing(q)
               PROVE  p = q
    BY DEF Inv, OneIndexer
  <2>1. CASE p \in Workers /\ q \in Workers
    BY <2>1 DEF Calm, JobHeld, Indexing
  <2>2. CASE p \in Claimers /\ q \in Claimers
    BY <2>2 DEF Calm, Places, Alone, Engaged, Closing, Owning, Indexing
  <2>3. ASSUME NEW w \in Workers, NEW c \in Claimers, Indexing(w), Indexing(c) PROVE FALSE
    BY <2>3 DEF Calm, Places, LiveOpen, Live, Closing, Owning, Indexing
  <2> QED
    BY <2>1, <2>2, <2>3
<1> QED
  BY <1>1, <1>2, <1>3, PTL DEF Spec

===========================================================================
