----------------------------- MODULE RepoIndex ----------------------------
(***************************************************************************)
(* One row of repo_indexes, the index of a branch: calls that claim it     *)
(* (getOrInitIndexForRepo), reset it (triggerReindex) and delete it, the   *)
(* queue's job and workers, its event, and the recovery at boot.          *)
(* One await is one action; the row is written by columns that differ from *)
(* the entity the writer loaded (`ent`, for the events and the boot `glob`).*)
(***************************************************************************)
EXTENDS Naturals, Sequences, FiniteSets

CONSTANTS Callers,     \* requests, one each
          Requests,    \* what they may ask: a subset of Asked
          Workers,     \* the slots of the queue's worker
          Faults,      \* a subset of Mishaps
          MaxAttempts, \* attempts of a job (BullMQ)
          MaxStalls,   \* maxStalledCount
          MaxOutages   \* bound: restarts of the API and jobs lost by Redis

Asked   == {"read", "reindex", "delete"}
Mishaps == {"error",    \* an indexing fails
            "stall",    \* a job is given to another worker while the first still runs
            "slow",     \* an indexing makes no progress for longer than codebaseIndexStaleMs
            "lose",     \* Redis loses the job
            "overlap",  \* a reindex or a deletion meets a claim or another one
            "pool",     \* the pool hands out another connection for each query
            "crash"}

Reader == "reader"      \* an agent that searches the repository again and again
Claimers == Callers \cup {Reader}

ASSUME ProcessAssumption ==
  /\ IsFiniteSet(Callers) /\ IsFiniteSet(Workers) /\ Callers \cap Workers = {}
  /\ {Reader, "boot", "free"} \cap (Callers \cup Workers) = {}
ASSUME ChoiceAssumption == Requests \subseteq Asked /\ Faults \subseteq Mishaps
ASSUME BoundAssumption ==
  MaxAttempts \in Nat \ {0} /\ {MaxStalls, MaxOutages} \subseteq Nat

VARIABLES row,      \* the row of repo_indexes: its status, and whether updatedAt is stale
          job,      \* the job of that row
          event,    \* the failed or stalled event the queue has emitted: the status its handler writes
          glob,     \* the status in the identity map of the global entity manager
          held,     \* how often each database session holds the advisory lock
          pc, ent,  \* the await a process stands at; the status of the entity it loaded
          outages

vars == <<row, job, event, glob, held, pc, ent, outages>>

Procs    == Claimers \cup Workers \cup {"boot"}
Open     == {"Pending", "InProgress"}
Gone     == {"None", "Deleted"}
Statuses == Open \cup Gone \cup {"Completed", "Failed"}
Free     == "free"      \* no live worker holds the lock of the job
NoJob    == [state |-> "none", failed |-> 0, stalled |-> 0, owner |-> Free]
NewJob   == [NoJob EXCEPT !.state = "waiting"]
Labels   == {"idle", "done", "claim", "jobState", "repairAdd", "repairRow", "upsert",
             "unlock", "unlockIdle", "inline", "background", "add",
             "reset", "delJob", "delRow",
             "read", "mark", "work", "cancelled", "finish", "fail"}

At(p, l)     == pc[p] = l
Goto(p, l)   == pc' = [pc EXCEPT ![p] = l]
Load(p)      == ent' = [ent EXCEPT ![p] = row.status]
Over(c)      == IF c = Reader THEN "idle" ELSE "done"
Up           == At("boot", "idle")

(* updateById by a process that loaded status `from`: a flush without a changed
   column is no statement, and a statement for a deleted row changes nothing. *)
Written(from, to) ==
  IF from = to \/ row.status \in Gone THEN row ELSE [status |-> to, stale |-> FALSE]
Write(p, to) ==
  /\ row' = Written(ent[p], to)
  /\ ent' = [ent EXCEPT ![p] = to]

\* MUTANT: a retained job is not removed first
AddedOnce(j) == {IF j.state = "none" THEN NewJob ELSE j}

(* addIndexJob: a queued job is kept; an active one cannot be replaced while a
   worker holds its lock, which outlives a dead worker by up to ten minutes. *)
Added(j) ==
  IF j.state = "waiting" \/ (j.state = "active" /\ j.owner # Free) THEN {j}
  ELSE IF j.state = "active" THEN {j, NewJob} ELSE {NewJob}

Init ==
  /\ row = [status |-> "None", stale |-> FALSE]
  /\ job = NoJob /\ event = "None" /\ glob = "None"
  /\ held = [s \in Claimers |-> 0]
  /\ pc = [p \in Procs |-> "idle"]
  /\ ent = [p \in Procs |-> "None"]
  /\ outages = 0

---------------------------------------------------------------------------
(* getOrInitIndexForRepo under withIndexLock: pg_advisory_lock belongs to the
   session, and both queries go through the pool. *)

Sessions(c) == IF "pool" \in Faults THEN Claimers ELSE {c}

Asks(c, op) == At(c, "idle") /\ Up /\ (IF c = Reader THEN op = "read" ELSE op \in Requests)

Repairing   == {"jobState", "repairAdd", "repairRow"}

\* who claims, or is between the claim and the end of an inline indexing
Claiming(c) == pc[c] \in {"claim", "jobState", "repairAdd", "repairRow", "upsert",
                          "unlock", "inline", "background", "add"}

\* who reindexes or deletes
Changing(c) == pc[c] \in {"reset", "delRow"}

\* without "overlap" a reindex or a deletion excludes another one and a claim
Meets(c)    == "overlap" \in Faults \/ ~\E d \in Claimers \ {c} : Claiming(d) \/ Changing(d)
MeetsClaim  == "overlap" \in Faults \/ ~\E d \in Claimers : Changing(d)

\* MUTANT: the lock excludes nobody
LockNothing(c) ==
  /\ Asks(c, "read") /\ MeetsClaim
  /\ Goto(c, "claim")
  /\ UNCHANGED <<row, job, event, glob, held, ent, outages>>

Lock(c) ==
  /\ Asks(c, "read") /\ MeetsClaim
  /\ \E s \in Sessions(c) :
       /\ \A o \in Claimers \ {s} : held[o] = 0
       /\ held' = [held EXCEPT ![s] = @ + 1]
  /\ Goto(c, "claim")
  /\ UNCHANGED <<row, job, event, glob, ent, outages>>

\* claimIndexSlot: an open row is left alone or, when stale, looked at; an up to
\* date one is returned; any other is estimated and then claimed (after a
\* deletion another row, with another job, which is not followed)
Claim(c) ==
  /\ At(c, "claim")
  /\ Load(c)
  /\ \/ row.status \in Open /\ Goto(c, IF row.stale THEN "jobState" ELSE "unlockIdle")
     \/ row.status \in {"Completed", "Deleted"} /\ Goto(c, "unlockIdle")
     \/ row.status \notin Open \cup {"Deleted"} /\ Goto(c, "upsert")
  /\ UNCHANGED <<row, job, event, glob, held, outages>>

\* getJobState: an active job is not disturbed; without "overlap" the events of
\* the job have been handled by then
LookAtJob(c) ==
  /\ At(c, "jobState") /\ ("overlap" \in Faults \/ event = "None")
  /\ Goto(c, IF job.state = "active" THEN "unlockIdle" ELSE "repairAdd")
  /\ UNCHANGED <<row, job, event, glob, held, ent, outages>>

\* the job first, then the row
RepairAdds(c) ==
  /\ At(c, "repairAdd")
  /\ job' \in Added(job)
  /\ Goto(c, "repairRow")
  /\ UNCHANGED <<row, event, glob, held, ent, outages>>

RepairWrites(c) ==
  /\ At(c, "repairRow")
  /\ Write(c, "Pending")
  /\ Goto(c, "unlockIdle")
  /\ UNCHANGED <<job, event, glob, held, outages>>

\* upsertIndexEntity: an insert fails on a row that exists
Upsert(c) ==
  /\ At(c, "upsert")
  /\ IF ent[c] = "None"
     THEN IF row.status = "None"
          THEN row' = [status |-> "InProgress", stale |-> FALSE] /\ Goto(c, "unlock")
          ELSE UNCHANGED row /\ Goto(c, "unlockIdle")
     ELSE row' = Written(ent[c], "InProgress") /\ Goto(c, "unlock")
  /\ ent' = [ent EXCEPT ![c] = "InProgress"]
  /\ UNCHANGED <<job, event, glob, held, outages>>

\* finally: pg_advisory_unlock of a session that does not hold the lock is a no-op
Unlock(c) ==
  /\ pc[c] \in {"unlock", "unlockIdle"}
  /\ \E s \in Sessions(c) :
       held' = [held EXCEPT ![s] = IF @ = 0 THEN 0 ELSE @ - 1]
  /\ \/ At(c, "unlockIdle") /\ Goto(c, Over(c))
     \/ At(c, "unlock") /\ \E l \in {"inline", "background"} : Goto(c, l)
  /\ UNCHANGED <<row, job, event, glob, ent, outages>>

\* a small repository is indexed by the caller
InlineEnds(c) ==
  /\ At(c, "inline")
  /\ \/ Write(c, "Completed")
     \/ "error" \in Faults /\ Write(c, "Failed")
  /\ Goto(c, Over(c))
  /\ UNCHANGED <<job, event, glob, held, outages>>

Background(c) ==
  /\ At(c, "background")
  /\ Write(c, "Pending")
  /\ Goto(c, "add")
  /\ UNCHANGED <<job, event, glob, held, outages>>

Enqueue(c) ==
  /\ At(c, "add")
  /\ job' \in Added(job)
  /\ Goto(c, Over(c))
  /\ UNCHANGED <<row, event, glob, held, ent, outages>>

---------------------------------------------------------------------------
(* triggerReindex and the deletion of a repository *)

\* INDEXING_ALREADY_IN_PROGRESS is the other answer
Reindex(c) ==
  /\ Asks(c, "reindex") /\ Meets(c)
  /\ Load(c)
  /\ Goto(c, IF row.status \in Open \cup {"Deleted"} THEN "done" ELSE "reset")
  /\ UNCHANGED <<row, job, event, glob, held, outages>>

\* updateById or create; a create meets the unique index
Reset(c) ==
  /\ At(c, "reset") /\ Meets(c)
  /\ \/ ent[c] # "None" /\ Write(c, "Pending") /\ Goto(c, "add")
     \/ /\ ent[c] = "None" /\ row.status = "None"
        /\ row' = [status |-> "Pending", stale |-> FALSE]
        /\ Goto(c, "add") /\ UNCHANGED ent
     \/ ent[c] = "None" /\ row.status # "None" /\ Goto(c, "done") /\ UNCHANGED <<row, ent>>
  /\ UNCHANGED <<job, event, glob, held, outages>>

\* removeJob: an active job is cancelled by a signal, a waiting or retained one is removed
DeleteJob(c) ==
  /\ Asks(c, "delete") /\ Meets(c) /\ row.status \notin Gone
  /\ IF job.state = "active"
     THEN /\ pc' = [p \in Procs |->
               IF p = c THEN "delRow"
               ELSE IF p = job.owner /\ pc[p] \in {"read", "mark", "work"} THEN "cancelled"
               ELSE pc[p]]
          /\ UNCHANGED job
     ELSE job' = NoJob /\ Goto(c, "delRow")
  /\ UNCHANGED <<row, event, glob, held, ent, outages>>

DeleteRow(c) ==
  /\ At(c, "delRow") /\ Meets(c)
  /\ row' = [status |-> "Deleted", stale |-> FALSE]
  /\ Goto(c, "done")
  /\ UNCHANGED <<job, event, glob, held, ent, outages>>

---------------------------------------------------------------------------
(* processIndexJob *)

Take(w) ==
  /\ At(w, "idle") /\ job.state = "waiting"
  /\ job' = [job EXCEPT !.state = "active", !.owner = w]
  /\ Goto(w, "read")
  /\ UNCHANGED <<row, event, glob, held, ent, outages>>

\* a deleted or completed index is skipped
ReadRow(w) ==
  /\ At(w, "read")
  /\ Load(w)
  /\ Goto(w, IF row.status \in Gone \cup {"Completed"} THEN "finish" ELSE "mark")
  /\ UNCHANGED <<row, job, event, glob, held, outages>>

MarkInProgress(w) ==
  /\ At(w, "mark")
  /\ Write(w, "InProgress")
  /\ Goto(w, "work")
  /\ UNCHANGED <<job, event, glob, held, outages>>

\* without "overlap" an indexing takes longer than the queries of a repair
IndexingEnds(w) ==
  At(w, "work") /\ ("overlap" \in Faults \/ \A c \in Claimers : pc[c] \notin Repairing)

\* the row is Completed before the sandbox is cleaned up and the job is completed
Indexed(w) ==
  /\ IndexingEnds(w)
  /\ Write(w, "Completed")
  /\ Goto(w, "finish")
  /\ UNCHANGED <<job, event, glob, held, outages>>

\* a signal is seen at the next check, or only after the work is done
Cancelled(w) ==
  /\ At(w, "cancelled")
  /\ Goto(w, "finish")
  /\ \/ UNCHANGED <<row, ent>>
     \/ Write(w, "Completed")
  /\ UNCHANGED <<job, event, glob, held, outages>>

IndexingFails(w) ==
  /\ "error" \in Faults /\ IndexingEnds(w)
  /\ Goto(w, "fail")
  /\ UNCHANGED <<row, job, event, glob, held, ent, outages>>

\* a worker that has lost its lock cannot move the job
Finish(w) ==
  /\ At(w, "finish")
  /\ job' = IF job.owner = w THEN [job EXCEPT !.state = "completed", !.owner = Free] ELSE job
  /\ Goto(w, "idle")
  /\ UNCHANGED <<row, event, glob, held, ent, outages>>

\* handleJobFailed takes a failure for the last one when the attempts are used up
FailedEvent(failed) == IF failed >= MaxAttempts THEN "Failed" ELSE "Pending"
Emit(to)            == event = "None" /\ event' = to  \* BOUND: one event at a time

\* MUTANT: one attempt too many
FailOnce(w) ==
  /\ At(w, "fail") /\ job.owner = w
  /\ job' = [job EXCEPT !.state = IF job.failed < MaxAttempts THEN "waiting" ELSE "failed",
                        !.failed = @ + 1, !.owner = Free]
  /\ Emit(FailedEvent(job.failed + 1))
  /\ Goto(w, "idle")
  /\ UNCHANGED <<row, glob, held, ent, outages>>

Fail(w) ==
  /\ At(w, "fail")
  /\ IF job.owner = w
     THEN LET n == job.failed + 1
          IN  /\ job' = [job EXCEPT !.state = IF n < MaxAttempts THEN "waiting" ELSE "failed",
                                    !.failed = n, !.owner = Free]
              /\ Emit(FailedEvent(n))
     ELSE UNCHANGED <<job, event>>
  /\ Goto(w, "idle")
  /\ UNCHANGED <<row, glob, held, ent, outages>>

---------------------------------------------------------------------------
(* the queue: stalls, losses, events *)

(* The stalled check gives an active job back, or fails it when it has stalled
   too often: then a failed event comes with the attempts made so far. *)
Stall ==
  /\ job.state = "active"
  /\ job.owner = Free \/ "stall" \in Faults
  /\ IF job.stalled < MaxStalls
     THEN /\ job' = [job EXCEPT !.state = "waiting", !.stalled = @ + 1, !.owner = Free]
          /\ Emit("Pending")
     ELSE /\ job' = [job EXCEPT !.state = "failed", !.owner = Free]
          /\ Emit(FailedEvent(job.failed))
  /\ UNCHANGED <<row, glob, held, pc, ent, outages>>

Lose ==
  /\ "lose" \in Faults /\ job.state \in {"waiting", "completed", "failed"}
  /\ outages < MaxOutages /\ outages' = outages + 1
  /\ job' = NoJob
  /\ UNCHANGED <<row, event, glob, held, pc, ent>>

(* handleStalledJob, handleRetryJob, handleFailedJob run in no request: the
   entity is the one the global entity manager has loaded once. *)
HandleEvent ==
  /\ event # "None"
  /\ LET to   == event
         from == IF glob \in Gone THEN row.status ELSE glob
     IN  /\ row' = Written(from, to)
         /\ glob' = IF from \in Gone THEN "None" ELSE to
  /\ event' = "None"
  /\ UNCHANGED <<job, held, pc, ent, outages>>

\* nobody has written the row for codebaseIndexStaleMs; without "slow" any call
\* and any handler takes less
Age ==
  /\ row.status \in Open /\ ~row.stale
  /\ "slow" \in Faults \/ (event = "None" /\ \A p \in Procs : pc[p] \in {"idle", "done"})
  /\ row' = [row EXCEPT !.stale = TRUE]
  /\ UNCHANGED <<job, event, glob, held, pc, ent, outages>>

---------------------------------------------------------------------------
(* restart: sessions, calls and workers end; recoverStuckJobs *)

Crash ==
  /\ "crash" \in Faults /\ outages < MaxOutages
  /\ outages' = outages + 1
  /\ job' = [job EXCEPT !.owner = Free]
  /\ event' = "None" /\ glob' = "None"
  /\ held' = [s \in Claimers |-> 0]
  /\ pc' = [p \in Procs |-> IF p = "boot" THEN "read"
                            ELSE IF p \in Callers /\ ~At(p, "idle") THEN "done" ELSE "idle"]
  /\ ent' = [p \in Procs |-> "None"]
  /\ UNCHANGED row

\* rows to recover; cleanStaleActiveJobs removes an active job whose lock has run out
BootReads ==
  /\ At("boot", "read")
  /\ glob' = row.status
  /\ IF row.status \in Open
     THEN job' \in {job} \cup (IF job.state = "active" /\ job.owner = Free THEN {NoJob} ELSE {})
          /\ Goto("boot", "reset")
     ELSE UNCHANGED job /\ Goto("boot", "idle")
  /\ UNCHANGED <<row, event, held, ent, outages>>

BootResets ==
  /\ At("boot", "reset")
  /\ row' = Written(glob, "Pending") /\ glob' = "Pending"
  /\ Goto("boot", "add")
  /\ UNCHANGED <<job, event, held, ent, outages>>

BootAdds ==
  /\ At("boot", "add")
  /\ job' \in Added(job)
  /\ Goto("boot", "idle")
  /\ UNCHANGED <<row, event, glob, held, ent, outages>>

Boot == BootReads \/ BootResets \/ BootAdds

---------------------------------------------------------------------------
Search(c) == \/ Claim(c) \/ LookAtJob(c) \/ RepairAdds(c) \/ RepairWrites(c)
             \/ Upsert(c) \/ Unlock(c) \/ InlineEnds(c) \/ Background(c) \/ Enqueue(c)
Request(c) == Reindex(c) \/ Reset(c) \/ DeleteJob(c) \/ DeleteRow(c)
Work(w)    == \/ ReadRow(w) \/ MarkInProgress(w) \/ Indexed(w) \/ Cancelled(w)
              \/ IndexingFails(w) \/ Finish(w) \/ Fail(w)

Next == \/ \E c \in Claimers : Lock(c) \/ Search(c)
        \/ \E c \in Callers : Request(c)
        \/ \E w \in Workers : Take(w) \/ Work(w)
        \/ Stall \/ Lose \/ HandleEvent \/ Age \/ Crash \/ Boot

Spec == Init /\ [][Next]_vars

(* An await goes on, a worker takes its job, an orphaned job is found stalled,
   time passes, and somebody searches the repository again and again. *)
FairSpec ==
  /\ Spec
  /\ \A c \in Claimers : WF_vars(Search(c)) /\ SF_vars(Reset(c) \/ DeleteRow(c))
  /\ SF_vars(Lock(Reader))
  /\ \A w \in Workers : SF_vars(Work(w))
  /\ WF_vars(\E w \in Workers : Take(w))
  /\ WF_vars(job.owner = Free /\ Stall)
  /\ WF_vars(HandleEvent) /\ SF_vars(Age) /\ WF_vars(Boot)

---------------------------------------------------------------------------
TypeOK ==
  /\ row \in [status : Statuses, stale : BOOLEAN]
  /\ row.stale => row.status \in Open
  /\ job \in [state : {"none", "waiting", "active", "completed", "failed"},
              failed : 0..MaxAttempts, stalled : 0..MaxStalls, owner : Workers \cup {Free}]
  /\ event \in {"None", "Pending", "Failed"} /\ glob \in Statuses
  /\ held \in [Claimers -> Nat]
  /\ pc \in [Procs -> Labels] /\ ent \in [Procs -> Statuses]
  /\ outages \in 0..MaxOutages

(* Nobody indexes a branch while somebody else does, in a worker or in a call:
   they would write the same collection and complete it twice. *)
Indexing(p) == pc[p] \in {"work", "inline"}
OneIndexer  ==
  outages = 0 => \A p, q \in Claimers \cup Workers : Indexing(p) /\ Indexing(q) => p = q

(* An index that is being built is done with: Completed, Failed or deleted,
   whatever jobs fail, stall or are lost, as long as somebody searches it. *)
IndexEnds == row.status \in Open ~> row.status \notin Open
===========================================================================
