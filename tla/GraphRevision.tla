--------------------------- MODULE GraphRevision --------------------------
(***************************************************************************)
(* Edits of one graph's schema: an editor loads the graph and submits a    *)
(* changed schema (GraphsService.update), which queues a revision merged   *)
(* against the version the graph is about to have; the queue's worker      *)
(* merges it again, updates the compiled graph and then the row.  The graph*)
(* is run and destroyed meanwhile.                                         *)
(***************************************************************************)
EXTENDS SchemaMerge, SequencesExt

CONSTANTS Editors,     \* one submission each; it names its revision
          NodeCount,   \* nodes of the graph as it is created
          Edits,       \* what an editor may do: a subset of {"set", "add", "remove"}
          Faults,      \* a subset of Mishaps
          MaxAttempts, \* attempts of a job
          Concurrency, \* jobs a worker takes at once
          MaxRuns      \* bound: how often the graph is run or the API restarts

Mishaps == {"reject",  \* an update of the compiled graph is invalid: BadRequestException
            "error",   \* ... or fails for a reason that is retried later
            "compile", \* a run fails to compile while a revision waits for it
            "overlap", \* a run or destroy and a revision meet between a read and its use
            "race",    \* a submission commits while the worker has read the row and not written it
            "overtake", \* a revision is queued before one submitted earlier
            "crash"}   \* the API restarts

None == "none"
ASSUME EditorAssumption ==
  IsFiniteSet(Editors) /\ None \notin Editors /\ Editors \cap (1..NodeCount) = {}
ASSUME BoundAssumption  ==
  /\ Edits \subseteq {"set", "add", "remove"} /\ Faults \subseteq Mishaps /\ NodeCount \in Nat
  /\ {MaxAttempts, Concurrency} \subseteq Nat \ {0} /\ MaxRuns \in Nat

VARIABLES graph,   \* the row: version, targetVersion, schema
          rev,     \* the revisions
          view,    \* what an editor has loaded of the row: version and schema
          pc,      \* of an editor
          queue,   \* jobs waiting, oldest first
          later,   \* failed jobs that wait for the delay of their retry
          chain,   \* jobs taken, in the order of their per-graph lock
          dead,    \* jobs of a worker that is gone, active until the stalled check
          stalled, \* jobs that the stalled check has found once
          step,    \* where the head of the chain stands
          fix,     \* targetVersion in its transaction: not read yet, to write, to leave, committed
          base,    \* the base revision it has fetched: a schema, or NoMerge for none
          live,    \* the compiled graph in the registry
          runner,  \* a run: what it has read
          runs,
          applied  \* HISTORY: the revisions that have been applied

row  == <<graph, rev, view, pc>>
jobs == <<queue, later, chain, dead, stalled>>
work == <<step, fix, base>>
reg  == <<live, runner, runs>>
vars == <<row, jobs, work, reg, applied>>

Initial == [i \in 1..NodeCount |-> [id |-> i, cfg |-> None]]
Nodes   == 1..NodeCount \cup Editors
Without(s, i) == SubSeq(s, 1, i - 1) \o SubSeq(s, i + 1, Len(s))

\* an editor configures a node, adds one of its own or removes one
Edited(e, s) ==
  (IF "set" \in Edits THEN {[s EXCEPT ![i].cfg = e] : i \in DOMAIN s} ELSE {})
  \cup (IF "add" \in Edits THEN {Append(s, [id |-> e, cfg |-> e])} ELSE {})
  \cup (IF "remove" \in Edits THEN {Without(s, i) : i \in DOMAIN s} ELSE {})

NoRev  == [status |-> None, base |-> 1, to |-> 1, seen |-> Initial, client |-> Initial,
           new |-> Initial, known |-> {}, failed |-> 0]
NoLive == [status |-> None, schema |-> Initial]
Idle   == [at |-> None, schema |-> Initial]

\* getSchemaAtVersion: any revision to that version
AtVersion(v)  == {e \in Editors : rev[e].status # None /\ rev[e].to = v}
SchemasAt(v)  == IF AtVersion(v) = {} THEN {NoMerge} ELSE {rev[e].new : e \in AtVersion(v)}

Shown == [version |-> graph.version, schema |-> graph.schema]

Init ==
  /\ graph = [version |-> 1, target |-> 1, schema |-> Initial]
  /\ rev = [e \in Editors |-> NoRev]
  /\ view = [e \in Editors |-> Shown] /\ pc = [e \in Editors |-> "load"]
  /\ queue = <<>> /\ chain = <<>> /\ later = {} /\ dead = {} /\ stalled = {}
  /\ step = "idle" /\ fix = "unread" /\ base = NoMerge
  /\ live = NoLive /\ runner = Idle /\ runs = 0
  /\ applied = {}

---------------------------------------------------------------------------
(* GraphsService.update *)

Load(e) ==
  /\ pc[e] = "load"
  /\ view' = [view EXCEPT ![e] = Shown]
  /\ pc' = [pc EXCEPT ![e] = "submit"]
  /\ UNCHANGED <<graph, rev, jobs, work, reg, applied>>

\* resolveHeadSchema: the version the graph is about to have
Target == IF graph.target < graph.version THEN graph.version ELSE graph.target
Heads  ==
  IF Target = graph.version THEN {graph.schema}
  ELSE {IF s = NoMerge THEN graph.schema ELSE s : s \in SchemasAt(Target)}

\* VERSION_CONFLICT, MERGE_CONFLICT and REVISION_WITHOUT_CHANGES refuse it
Submit(e) ==
  /\ pc[e] = "submit"
  /\ "overtake" \in Faults \/ \A o \in Editors : pc[o] # "enqueue"
  /\ "race" \in Faults \/ fix \in {"unread", "saved"}
  /\ \E client \in Edited(e, view[e].schema), head \in Heads :
       LET new == Merge(graph.schema, head, client)
       IN  IF graph.version = view[e].version /\ new \notin {NoMerge, head}
           THEN /\ rev' = [rev EXCEPT ![e] =
                     [status |-> "Pending", base |-> graph.version, to |-> Target + 1,
                      seen |-> graph.schema, client |-> client, new |-> new,
                      known |-> applied, failed |-> 0]]
                /\ graph' = [graph EXCEPT !.target = Target + 1]
                /\ pc' = [pc EXCEPT ![e] = "enqueue"]
           ELSE pc' = [pc EXCEPT ![e] = "done"] /\ UNCHANGED <<graph, rev>>
  /\ UNCHANGED <<view, jobs, work, reg, applied>>

EnqueueFirst(e) ==  \* MUTANT: the newest job is taken first
  /\ pc[e] = "enqueue"
  /\ queue' = <<e>> \o queue
  /\ pc' = [pc EXCEPT ![e] = "done"]
  /\ UNCHANGED <<graph, rev, view, later, chain, dead, stalled, work, reg, applied>>

\* after the transaction
Enqueue(e) ==
  /\ pc[e] = "enqueue"
  /\ queue' = Append(queue, e)
  /\ pc' = [pc EXCEPT ![e] = "done"]
  /\ UNCHANGED <<graph, rev, view, later, chain, dead, stalled, work, reg, applied>>

---------------------------------------------------------------------------
(* the worker: applyRevision *)

Take ==
  /\ queue # <<>> /\ Len(chain) < Concurrency
  /\ chain' = Append(chain, Head(queue)) /\ queue' = Tail(queue)
  /\ UNCHANGED <<row, later, dead, stalled, work, reg, applied>>

\* the delay of a failed job is over: it queues behind the others
Retry(e) ==
  /\ e \in later
  /\ later' = later \ {e} /\ queue' = Append(queue, e)
  /\ UNCHANGED <<row, chain, dead, stalled, work, reg, applied>>

\* the lock of a dead worker expires: its job comes before the others, long after
\* newer ones have been taken; one that stalls twice is failed without a handler
GiveBack(e) ==
  /\ e \in dead
  /\ dead' = dead \ {e} /\ stalled' = stalled \cup {e}
  /\ queue' = IF e \in stalled THEN queue ELSE <<e>> \o queue
  /\ UNCHANGED <<row, later, chain, work, reg, applied>>

Processing(s) == chain # <<>> /\ step = s

Leave == chain' = Tail(chain) /\ step' = "idle" /\ fix' = "unread" /\ base' = NoMerge

StartPending ==  \* MUTANT: a revision that is Applying already is taken for done
  /\ Processing("idle")
  /\ LET r == Head(chain)
     IN  IF rev[r].status = "Pending"
         THEN /\ rev' = [rev EXCEPT ![r].status = "Applying"]
              /\ base' \in SchemasAt(rev[r].base)
              /\ step' = "merge" /\ UNCHANGED <<chain, fix>>
         ELSE Leave /\ UNCHANGED rev
  /\ UNCHANGED <<graph, view, pc, queue, later, dead, stalled, reg, applied>>

\* processRevision: one that is tried again keeps its status
Start ==
  /\ Processing("idle")
  /\ LET r == Head(chain)
     IN  /\ rev' = [rev EXCEPT ![r].status = IF @ = "Pending" THEN "Applying" ELSE @]
         /\ base' \in SchemasAt(rev[r].base)
  /\ step' = "merge"
  /\ UNCHANGED <<graph, view, pc, jobs, fix, reg, applied>>

RemergeNothing ==  \* MUTANT: what was merged at submission is applied as it is
  /\ Processing("merge")
  /\ step' = "live"
  /\ UNCHANGED <<row, jobs, fix, base, reg, applied>>

\* reMergeRevisionIfNeeded
Remerge ==
  /\ Processing("merge")
  /\ LET r   == Head(chain)
         new == IF graph.version = rev[r].base THEN rev[r].new
                ELSE IF base = NoMerge THEN NoMerge  \* REVISION_BASE_UNAVAILABLE
                ELSE Merge(base, graph.schema, rev[r].client)
     IN  IF new = NoMerge THEN step' = "reject" /\ UNCHANGED rev
         ELSE step' = "live" /\ rev' = [rev EXCEPT ![r].new = new]
  /\ UNCHANGED <<graph, view, pc, jobs, fix, base, reg, applied>>

\* waitForGraphCompilationIfNeeded
Wait ==
  /\ Processing("live") /\ live.status = "Compiling"
  /\ step' = "wait"
  /\ UNCHANGED <<row, jobs, fix, base, reg, applied>>

\* the graph waited for, once unregistered, stays Compiling until the wait times out
Outcomes ==
  IF step = "wait" /\ live = NoLive THEN {"error"}
  ELSE {"final"} \cup (Faults \cap {"error"})
       \cup (IF live.status = "Running" THEN Faults \cap {"reject"} ELSE {})

\* applyLiveUpdate of a graph that runs
Update ==
  /\ Processing("live") \/ Processing("wait")
  /\ live.status # "Compiling" /\ ("overlap" \in Faults \/ runner = Idle)
  /\ live' = IF live.status = "Running" THEN [live EXCEPT !.schema = rev[Head(chain)].new]
             ELSE live
  /\ step' \in Outcomes
  /\ UNCHANGED <<row, jobs, fix, base, runner, runs, applied>>

\* finalizeAppliedRevision: the row is read without a lock, a column that does not
\* change is not written
Repairs(r) == graph.target < rev[r].to
FinalizeReads ==
  /\ Processing("final") /\ fix = "unread"
  /\ fix' = IF Repairs(Head(chain)) THEN "write" ELSE "leave"
  /\ UNCHANGED <<row, jobs, step, base, reg, applied>>

Finalize ==
  /\ Processing("final") /\ fix # "unread"
  /\ LET r == Head(chain)
     IN  /\ graph' = [version |-> rev[r].to, schema |-> rev[r].new,
                      target  |-> IF fix = "write" THEN rev[r].to ELSE graph.target]
         /\ rev' = [rev EXCEPT ![r].status = "Applied"]
         /\ applied' = applied \cup {r}
  /\ step' = "ack" /\ fix' = "unread"
  /\ UNCHANGED <<view, pc, jobs, base, reg>>

Acknowledge ==
  /\ Processing("ack")
  /\ Leave
  /\ UNCHANGED <<row, queue, later, dead, stalled, reg, applied>>

Failing == Processing("reject") \/ Processing("error")

\* handleRevisionFailure, resetTargetVersionIfNeeded: read without a lock, then written
FailReads ==
  /\ Failing /\ fix = "unread"
  /\ fix' = IF graph.target = rev[Head(chain)].to THEN "write" ELSE "leave"
  /\ UNCHANGED <<row, jobs, step, base, reg, applied>>

FailWrites(target) ==
  /\ Failing /\ fix \in {"write", "leave"}
  /\ graph' = [graph EXCEPT !.target = IF fix = "write" THEN target ELSE @]
  /\ rev' = [rev EXCEPT ![Head(chain)].status = "Failed"]
  /\ fix' = "saved"
  /\ UNCHANGED <<view, pc, jobs, step, base, reg, applied>>

FailToBase == FailWrites(rev[Head(chain)].base)  \* MUTANT
Fail       == FailWrites(graph.version)

\* the graph is destroyed, and the job fails
Stops(running, again) ==
  /\ Failing /\ fix = "saved"
  /\ LET r == Head(chain)
     IN  /\ rev' = [rev EXCEPT ![r].failed = @ + 1]
         /\ later' = IF again THEN later \cup {r} ELSE later
  /\ live' = IF live.status = "Running" THEN running ELSE live
  /\ Leave
  /\ UNCHANGED <<graph, view, pc, queue, dead, stalled, runner, runs, applied>>

StopsNothing == Stops(live, FALSE)   \* MUTANT
RetryForever == Stops(NoLive, TRUE)  \* MUTANT

\* a BadRequestException is not retried
FailStops == Stops(NoLive, step = "error" /\ rev[Head(chain)].failed + 1 < MaxAttempts)

---------------------------------------------------------------------------
(* GraphsService.run and destroy *)

RunReads ==
  /\ runner = Idle /\ live = NoLive /\ runs < MaxRuns
  /\ "overlap" \in Faults \/ step # "final"
  /\ runner' = [at |-> "register", schema |-> graph.schema]
  /\ runs' = runs + 1
  /\ UNCHANGED <<row, jobs, work, live, applied>>

Register ==
  /\ runner.at = "register"
  /\ live' = [status |-> "Compiling", schema |-> runner.schema]
  /\ runner' = [runner EXCEPT !.at = "compile"]
  /\ UNCHANGED <<row, jobs, work, runs, applied>>

Compile ==
  /\ runner.at = "compile"
  /\ runner' = Idle
  /\ live' \in {[live EXCEPT !.status = IF live = NoLive THEN None ELSE "Running"]}
               \cup (IF step # "wait" \/ "compile" \in Faults THEN {NoLive} ELSE {})
  /\ UNCHANGED <<row, jobs, work, runs, applied>>

Destroy ==
  /\ live.status = "Running"
  /\ "overlap" \in Faults \/ step # "wait"
  /\ live' = NoLive
  /\ UNCHANGED <<row, jobs, work, runner, runs, applied>>

\* the jobs a worker holds stay active, and what it has not committed is void
Crash ==
  /\ "crash" \in Faults /\ \A e \in Editors : pc[e] # "enqueue"
  /\ chain # <<>> \/ live # NoLive
  /\ dead' = dead \cup Range(chain) /\ chain' = <<>>
  /\ step' = "idle" /\ fix' = "unread" /\ base' = NoMerge /\ live' = NoLive /\ runner' = Idle
  /\ runs' = runs + 1 /\ runs < MaxRuns
  /\ UNCHANGED <<row, queue, later, stalled, applied>>

Worker == Start \/ Remerge \/ Wait \/ Update \/ FinalizeReads \/ Finalize \/ Acknowledge
          \/ FailReads \/ Fail \/ FailStops

Next == \/ \E e \in Editors : Load(e) \/ Submit(e) \/ Enqueue(e) \/ Retry(e) \/ GiveBack(e)
        \/ Take \/ Worker
        \/ RunReads \/ Register \/ Compile \/ Destroy \/ Crash

Spec == Init /\ [][Next]_vars

(* Awaits go on and the queue hands out its jobs; nobody need edit or run. *)
FairSpec ==
  /\ Spec
  /\ \A e \in Editors : WF_vars(Enqueue(e)) /\ WF_vars(Retry(e)) /\ WF_vars(GiveBack(e))
  /\ WF_vars(Take) /\ WF_vars(Worker)
  /\ WF_vars(Register \/ Compile)

---------------------------------------------------------------------------
Configs     == Editors \cup {None}
Versions    == 1..Cardinality(Editors) + 1
IsSchema(s) == /\ s \in Seq([id : Nodes, cfg : Configs]) /\ Valid(s)
IsRow(r)    == r \in [version : Versions, target : Versions, schema : {r.schema}] /\ IsSchema(r.schema)

TypeOK ==
  /\ IsRow(graph)
  /\ \A e \in Editors :
       /\ rev[e].status \in {None, "Pending", "Applying", "Applied", "Failed"}
       /\ {rev[e].base, rev[e].to} \subseteq Versions
       /\ \A s \in {rev[e].seen, rev[e].client, rev[e].new} : IsSchema(s)
       /\ rev[e].known \subseteq Editors /\ rev[e].failed \in 0..MaxAttempts
       /\ IsSchema(view[e].schema) /\ pc[e] \in {"load", "submit", "enqueue", "done"}
  /\ {queue, chain} \subseteq Seq(Editors)
  /\ UNION {later, dead, stalled, applied} \subseteq Editors
  /\ step \in {"idle", "merge", "live", "wait", "final", "ack", "reject", "error"}
  /\ fix \in {"unread", "write", "leave", "saved"}
  /\ base = NoMerge \/ IsSchema(base)
  /\ live.status \in {None, "Compiling", "Running"} /\ IsSchema(live.schema)
  /\ runner.at \in {None, "register", "compile"} /\ IsSchema(runner.schema)
  /\ runs \in 0..MaxRuns

Config(s, n) ==
  IF n \in Ids(s) THEN s[CHOOSE i \in DOMAIN s : s[i].id = n].cfg ELSE Missing
Changed(r)   == {n \in Nodes : Config(rev[r].seen, n) # Config(rev[r].client, n)}

Again(r) == r \in stalled \/ rev[r].failed > 0

(* What an applied revision has changed stays, until somebody who has seen it
   submits another change of it: concurrent edits are merged or refused, never
   lost.  It is so while nobody edits a graph that has passed a version meant for
   two revisions (getSchemaAtVersion cannot tell the failed one from the applied),
   and while no revision that the queue gives out a second time is behind a newer
   one: it takes the version back, to one that an older merge may have started from. *)
Unambiguous(v) == \A r, s \in AtVersion(v) : r = s
Clear(n)       == \A v \in 1..n : Unambiguous(v)
Overtaken(r)   == Again(r) /\ \E s \in applied : rev[s].to > rev[r].to
NoLostEdit ==
  (\A e \in Editors : Clear(rev[e].base)) /\ (\A r \in applied : ~Overtaken(r)) =>
    \A r \in applied : \A n \in Changed(r) :
      \/ Config(graph.schema, n) = Config(rev[r].client, n)
      \/ \E l \in Editors : r \in rev[l].known /\ n \in Changed(l)

(* A running graph runs the schema of its row, unless a revision is between its
   live update and its row, whatever fails in between. *)
LiveMatches ==
  live.status = "Running" /\ step \notin {"final", "reject", "error"} => live.schema = graph.schema

(* targetVersion is never behind the version, though it is set back when the
   revision that is to reach it fails and earlier ones are still to be applied. *)
TargetAhead == graph.target >= graph.version

(* The version goes back only where the queue has given the revision out a second
   time, after a restart or a failure, or where a failure has led to two revisions
   that are meant for one version: whatever else is queued, fails or restarts, the
   newer one is applied later. *)
VersionForward ==
  [][graph'.version >= graph.version \/ Again(Head(chain)) \/ ~Unambiguous(graph'.version)]_vars

(* A revision that was accepted is applied or refused, whatever restarts between. *)
Open(e)      == rev[e].status \in {"Pending", "Applying"}
RevisionsEnd == \A e \in Editors : Open(e) ~> ~Open(e)
===========================================================================
