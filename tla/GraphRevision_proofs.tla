----------------------- MODULE GraphRevision_proofs -----------------------
(***************************************************************************)
(* Proofs about GraphRevision, for every number of editors, nodes,         *)
(* attempts and jobs at once.  The inductive invariant Inv says what the   *)
(* records are made of, that a job is queued by an editor who is done (so  *)
(* nothing but the worker writes a revision that is in the queue), and     *)
(* which schema a registered graph holds at every step of the worker.      *)
(* TInv adds that every schema is one, that no version is beyond the       *)
(* submissions and that a job is in one place with attempts left; Decided  *)
(* what a step of the worker relies on.  As long as no two jobs run at     *)
(* once, Lined says that the version only meets revisions ahead of it or   *)
(* given back (Behind), whatever crashes and retries did to the queue.     *)
(* Waiting and Ordered say that the jobs stand in the order of their       *)
(* versions when nothing is given back, and Merged what each schema has of *)
(* the edits merged before it.                                             *)
(***************************************************************************)
EXTENDS GraphRevision, SchemaMerge_proofs, FiniteSetTheorems, TLAPS

Steps  == {"idle", "merge", "live", "wait", "final", "ack", "reject", "error"}
Fixes  == {"unread", "write", "leave", "saved"}
Queued == {e \in Editors : pc[e] = "done"}

IsRev(r) ==
  r \in [status : {r.status}, base : Nat, to : Nat, seen : {r.seen}, client : {r.client},
         new : {r.new}, known : {r.known}, failed : {r.failed}]
IsLive(l)    == l \in [status : {"Compiling", "Running"}, schema : {l.schema}] \/ l = NoLive
IsRunner(r)  == r \in [at : {"register", "compile"}, schema : {r.schema}] \/ r = Idle

Types ==
  /\ graph \in [version : Nat, target : Nat, schema : {graph.schema}]
  /\ rev \in [Editors -> {rev[e] : e \in Editors}] /\ \A e \in Editors : IsRev(rev[e])
  /\ pc \in [Editors -> {"load", "submit", "enqueue", "done"}]
  /\ queue \in Seq(Queued) /\ chain \in Seq(Queued)
  /\ later \subseteq Queued /\ dead \subseteq Queued /\ stalled \subseteq Queued
  /\ step \in Steps /\ (step # "idle" => chain # <<>>) /\ fix \in Fixes
  /\ IsLive(live) /\ IsRunner(runner)

Running == IF step = "final" THEN rev[Head(chain)].new ELSE graph.schema
Following ==
  /\ runner # Idle => step # "final" /\ runner.schema = graph.schema
  /\ live.status = "Compiling" => runner.at = "compile" /\ live.schema = graph.schema
  /\ live.status = "Running" /\ step \notin {"reject", "error"} => live.schema = Running

\* what the worker has read of the target before it writes the row
Decided ==
  /\ step \notin {"final", "reject", "error"} => fix = "unread"
  /\ step = "final" => fix # "saved"
  /\ step = "final" /\ fix = "leave" => graph.target >= rev[Head(chain)].to

Inv == Types /\ Decided /\ TargetAhead /\ ("overlap" \notin Faults => Following)

\* What is a sequence over a set is one over a larger set.
LEMMA SeqGrows ==
  ASSUME NEW S, NEW T, S \subseteq T, NEW s \in Seq(S)
  PROVE  s \in Seq(T)
<1>1. s \in [1 .. Len(s) -> T]
  OBVIOUS
<1> QED
  BY <1>1

\* The jobs stay jobs of editors who are done when more editors are.
LEMMA QueuedGrows ==
  ASSUME Types, Queued \subseteq Queued'
  PROVE  /\ queue \in Seq(Queued') /\ chain \in Seq(Queued')
         /\ later \subseteq Queued' /\ dead \subseteq Queued' /\ stalled \subseteq Queued'
BY SeqGrows DEF Types

\* The first of a sequence that is not empty, and what is left of it.
LEMMA HeadTail ==
  ASSUME NEW S, NEW s \in Seq(S), s # <<>>
  PROVE  Head(s) \in S /\ Tail(s) \in Seq(S)
OBVIOUS

\* The members of a sequence.
LEMMA RangeIs ==
  ASSUME NEW S, NEW s \in Seq(S)
  PROVE  Range(s) \subseteq S /\ (s = <<>> => Range(s) = {}) /\ (s # <<>> => Head(s) \in Range(s))
<1>1. DOMAIN s = 1 .. Len(s) /\ Len(s) \in Nat /\ \A i \in DOMAIN s : s[i] \in S
  OBVIOUS
<1>2. s # <<>> => 1 \in DOMAIN s /\ s[1] = Head(s)
  OBVIOUS
<1>3. s = <<>> => DOMAIN s = {}
  OBVIOUS
<1> QED
  BY <1>1, <1>2, <1>3 DEF Range

\* One more in front.
LEMMA FrontIs ==
  ASSUME NEW S, NEW s \in Seq(S), NEW x \in S
  PROVE  /\ <<x>> \o s \in Seq(S) /\ Len(<<x>> \o s) = Len(s) + 1
         /\ (<<x>> \o s)[1] = x /\ \A i \in 1 .. Len(s) : (<<x>> \o s)[i + 1] = s[i]
<1>1. <<x>> \in Seq(S) /\ Len(<<x>>) = 1 /\ <<x>>[1] = x
  OBVIOUS
<1> DEFINE o == <<x>>
<1>2. o \in Seq(S) /\ Len(o) = 1 /\ o[1] = x
  BY <1>1
<1> HIDE DEF o
<1>3. /\ o \o s \in Seq(S) /\ Len(o \o s) = 1 + Len(s)
      /\ \A k \in 1 .. 1 : (o \o s)[k] = o[k]
      /\ \A k \in 1 .. Len(s) : (o \o s)[1 + k] = s[k]
  BY <1>2, Joined
<1>4. Len(s) \in Nat
  OBVIOUS
<1> DEFINE t == o \o s
<1> HIDE DEF t
<1>5. t \in Seq(S) /\ Len(t) = Len(s) + 1 /\ t[1] = x /\ \A i \in 1 .. Len(s) : t[i + 1] = s[i]
  BY <1>2, <1>3, <1>4 DEF t
<1> QED
  BY <1>5 DEF o, t

\* Initially there is nothing but the graph.
LEMMA InitInv == Init => Inv
<1> SUFFICES ASSUME Init PROVE Inv
  OBVIOUS
<1>1. Types
  <2>1. graph \in [version : Nat, target : Nat, schema : {graph.schema}]
    BY DEF Init
  <2>2. IsRev(NoRev)
    BY DEF NoRev, IsRev
  <2>3. rev \in [Editors -> {rev[e] : e \in Editors}] /\ \A e \in Editors : IsRev(rev[e])
    BY <2>2 DEF Init
  <2>4. <<>> \in Seq(Queued)
    OBVIOUS
  <2>5. pc \in [Editors -> {"load", "submit", "enqueue", "done"}]
    BY DEF Init
  <2> QED
    BY <2>1, <2>3, <2>4, <2>5 DEF Init, Types, Steps, Fixes, IsLive, IsRunner
<1>2. TargetAhead
  BY DEF Init, TargetAhead
<1>3. Following
  BY DEF Init, Following, NoLive, Idle, None
<1>4. Decided
  BY DEF Init, Decided
<1> QED
  BY <1>1, <1>2, <1>3, <1>4 DEF Inv

---------------------------------------------------------------------------
\* Nothing of Following changes with a step of an editor.
LEMMA EditorSteps ==
  ASSUME Inv, NEW e \in Editors, Load(e) \/ Submit(e) \/ Enqueue(e)
  PROVE  Inv'
<1> USE DEF Inv
<1>1. e \notin Queued /\ Queued \subseteq Queued'
  BY DEF Load, Submit, Enqueue, Queued, Types
<1>2. CASE Load(e)
  <2>1. pc' \in [Editors -> {"load", "submit", "enqueue", "done"}]
    BY <1>2 DEF Load, Types
  <2>2. Types'
    BY <1>1, <1>2, <2>1, QueuedGrows DEF Load, Types, jobs, work, reg, IsRev, IsLive, IsRunner, Steps, Fixes
  <2>3. TargetAhead' /\ ("overlap" \notin Faults => Following')
    BY <1>2 DEF Load, TargetAhead, Following, Running, jobs, work, reg
  <2>4. Decided'
    BY <1>2 DEF Load, Decided, jobs, work
  <2> QED
    BY <2>2, <2>3, <2>4
<1>3. CASE Submit(e)
  <2>1. pc' \in [Editors -> {"load", "submit", "enqueue", "done"}]
    BY <1>3 DEF Submit, Types
  <2>2. Target \in Nat /\ Target + 1 \in Nat /\ Target >= graph.version /\ Target >= graph.target
    BY DEF Target, Types
  <2>3. \/ UNCHANGED <<graph, rev>>
        \/ /\ graph' = [graph EXCEPT !.target = Target + 1]
           /\ \E r : IsRev(r) /\ rev' = [rev EXCEPT ![e] = r]
    <3>1. CASE UNCHANGED <<graph, rev>>
      BY <3>1
    <3>2. CASE ~UNCHANGED <<graph, rev>>
      <4>1. PICK client, new :
              /\ graph' = [graph EXCEPT !.target = Target + 1]
              /\ rev' = [rev EXCEPT ![e] =
                   [status |-> "Pending", base |-> graph.version, to |-> Target + 1,
                    seen |-> graph.schema, client |-> client, new |-> new,
                    known |-> applied, failed |-> 0]]
        BY <1>3, <3>2 DEF Submit
      <4>2. graph.version \in Nat
        BY DEF Types
      <4> QED
        BY <2>2, <4>1, <4>2 DEF IsRev
    <3> QED
      BY <3>1, <3>2
  <2>4. /\ graph' \in [version : Nat, target : Nat, schema : {graph'.schema}]
        /\ graph'.schema = graph.schema /\ graph'.target >= graph'.version
        /\ graph.target \in Nat /\ graph'.target \in Nat /\ graph'.target >= graph.target
    <3>1. graph \in [version : Nat, target : Nat, schema : {graph.schema}]
      BY DEF Types
    <3>2. graph' = graph \/ graph' = [graph EXCEPT !.target = Target + 1]
      BY <2>3
    <3> HIDE DEF Inv
    <3>3. graph.target >= graph.version
      BY DEF Inv, TargetAhead
    <3> QED
      BY <2>2, <3>1, <3>2, <3>3
  <2>5. /\ rev' \in [Editors -> {rev'[f] : f \in Editors}] /\ \A f \in Editors : IsRev(rev'[f])
        /\ \A f \in Editors \ {e} : rev'[f] = rev[f]
    <3>1. rev = [f \in Editors |-> rev[f]] /\ \A f \in Editors : IsRev(rev[f])
      BY DEF Types
    <3>2. rev' = rev \/ \E r : IsRev(r) /\ rev' = [rev EXCEPT ![e] = r]
      BY <2>3
    <3> QED
      BY <3>1, <3>2
  <2>6. Types'
    BY <1>1, <1>3, <2>1, <2>4, <2>5, QueuedGrows
    DEF Submit, Types, jobs, work, reg, IsLive, IsRunner, Steps, Fixes
  <2>7. step = "final" => Head(chain) \in Editors \ {e} /\ rev[Head(chain)].to \in Nat
    BY <1>1, HeadTail DEF Types, Queued, IsRev
  <2>8. Running' = Running
    BY <1>3, <2>4, <2>5, <2>7 DEF Submit, Running, jobs, work
  <2>9. "overlap" \notin Faults => Following'
    BY <1>3, <2>4, <2>8 DEF Submit, Following, jobs, work, reg
  <2>10. Decided'
    <3>1. UNCHANGED <<step, fix, chain>>
      BY <1>3 DEF Submit, jobs, work
    <3>2. step = "final" => rev'[Head(chain)] = rev[Head(chain)]
      BY <2>5, <2>7
    <3> QED
      BY <2>4, <2>7, <3>1, <3>2 DEF Decided
  <2> QED
    BY <2>4, <2>6, <2>9, <2>10 DEF TargetAhead
<1>4. CASE Enqueue(e)
  <2>1. pc' \in [Editors -> {"load", "submit", "enqueue", "done"}] /\ e \in Queued'
    BY <1>4 DEF Enqueue, Types, Queued
  <2>2. queue' \in Seq(Queued')
    BY <1>1, <1>4, <2>1, QueuedGrows DEF Enqueue
  <2>3. Types'
    BY <1>1, <1>4, <2>1, <2>2, QueuedGrows
    DEF Enqueue, Types, work, reg, IsRev, IsLive, IsRunner, Steps, Fixes
  <2>4. TargetAhead' /\ ("overlap" \notin Faults => Following')
    BY <1>4 DEF Enqueue, TargetAhead, Following, Running, work, reg
  <2>5. Decided'
    BY <1>4 DEF Enqueue, Decided, work
  <2> QED
    BY <2>3, <2>4, <2>5
<1> QED
  BY <1>2, <1>3, <1>4

\* A job comes back, after its delay or when its worker is found dead.
Returns == \E e \in Editors : Retry(e) \/ GiveBack(e)

\* Taking a job, or giving one back, moves it between the queue's parts.
LEMMA QueueSteps ==
  ASSUME Inv, Take \/ Returns
  PROVE  Inv'
<1> USE DEF Inv
<1> DEFINE Placed == /\ queue' \in Seq(Queued) /\ chain' \in Seq(Queued)
                     /\ later' \subseteq Queued /\ dead' \subseteq Queued /\ stalled' \subseteq Queued
<1>1. Placed
  <2>1. CASE Take
    <3>1. Head(queue) \in Queued /\ Tail(queue) \in Seq(Queued)
      BY <2>1, HeadTail DEF Take, Types
    <3> QED
      BY <2>1, <3>1 DEF Take, Types
  <2>2. ASSUME NEW e \in Editors, Retry(e) PROVE Placed
    BY <2>2 DEF Retry, Types
  <2>3. ASSUME NEW e \in Editors, GiveBack(e) PROVE Placed
    <3>1. e \in Queued /\ <<e>> \o queue \in Seq(Queued)
      BY <2>3, FrontIs DEF GiveBack, Types
    <3> QED
      BY <2>3, <3>1 DEF GiveBack, Types
  <2> QED
    BY <2>1, <2>2, <2>3 DEF Returns
<1>2. UNCHANGED <<graph, rev, pc, step, fix, live, runner>> /\ Queued' = Queued
  BY DEF Take, Returns, Retry, GiveBack, row, work, reg, Queued
<1>3. step # "idle" => chain' # <<>> /\ Head(chain') = Head(chain)
  <2>1. CASE Take
    BY <2>1 DEF Take, Types
  <2>2. CASE Returns
    BY <2>2 DEF Returns, Retry, GiveBack, Types
  <2> QED
    BY <2>1, <2>2
<1>4. Types'
  BY <1>1, <1>2, <1>3 DEF Types, IsRev, IsLive, IsRunner, Steps, Fixes
<1>5. Running' = Running /\ Decided'
  BY <1>2, <1>3 DEF Running, Decided
<1> QED
  BY <1>2, <1>4, <1>5 DEF TargetAhead, Following

\* What the steps before the row is written change of a revision keeps its version.
LEMMA WorkerSteps ==
  ASSUME Inv, Start \/ Remerge \/ Wait
  PROVE  Inv'
<1> USE DEF Inv
<1>1. UNCHANGED <<graph, pc, jobs, fix, live, runner>> /\ Queued' = Queued /\ chain # <<>>
  BY DEF Start, Remerge, Wait, Processing, row, reg, Queued
<1>2. Head(chain) \in Editors
  BY <1>1, HeadTail DEF Types, Queued
<1>3. \/ rev' = rev
      \/ \E s : rev' = [rev EXCEPT ![Head(chain)].status = s]
      \/ \E s : rev' = [rev EXCEPT ![Head(chain)].new = s]
  <2>1. CASE Start
    BY <2>1 DEF Start
  <2>2. CASE Remerge
    BY <2>2 DEF Remerge
  <2>3. CASE Wait
    BY <2>3 DEF Wait, row
  <2> QED
    BY <2>1, <2>2, <2>3
<1>4. rev' \in [Editors -> {rev'[f] : f \in Editors}] /\ \A f \in Editors : IsRev(rev'[f])
  <2>1. rev = [f \in Editors |-> rev[f]] /\ \A f \in Editors : IsRev(rev[f])
    BY DEF Types
  <2> QED
    BY <1>2, <1>3, <2>1 DEF IsRev
<1>5. step \in {"idle", "merge", "live"} /\ step' \in {"merge", "reject", "live", "wait"}
  BY DEF Start, Remerge, Wait, Processing
<1>6. Types'
  BY <1>1, <1>4, <1>5 DEF Types, jobs, IsLive, IsRunner, Steps, Fixes
<1>7. Running' = Running
  BY <1>1, <1>5 DEF Running
<1>8. Decided'
  BY <1>1, <1>5 DEF Decided
<1> QED
  BY <1>1, <1>5, <1>6, <1>7, <1>8 DEF TargetAhead, Following

\* The live update gives a running graph the schema that is to become the row's.
LEMMA UpdateStep ==
  ASSUME Inv, Update
  PROVE  Inv'
<1> USE DEF Inv
<1>1. /\ UNCHANGED <<graph, rev, pc, jobs, fix, runner>> /\ Queued' = Queued /\ chain # <<>>
      /\ step \in {"live", "wait"} /\ step' \in {"final", "error", "reject"}
  BY DEF Update, Outcomes, Processing, row, Queued
<1>2. \/ live.status = "Running" /\ live' = [live EXCEPT !.schema = rev[Head(chain)].new]
      \/ live' = NoLive /\ live = NoLive
  BY DEF Update, Types, IsLive
<1>3. IsLive(live')
  BY <1>2 DEF Types, IsLive, NoLive
<1>4. Types'
  BY <1>1, <1>3 DEF Types, jobs, IsRev, IsRunner, Steps, Fixes
<1>5. ASSUME "overlap" \notin Faults PROVE Following'
  <2>1. runner = Idle
    BY <1>5 DEF Update
  <2>2. live'.status # "Compiling" /\ (live'.status = "Running" => live'.schema = rev[Head(chain)].new)
    BY <1>2 DEF Types, IsLive, NoLive, None
  <2> QED
    BY <1>1, <2>1, <2>2 DEF Following, Running, jobs
<1>6. Decided'
  BY <1>1 DEF Decided
<1> QED
  BY <1>1, <1>4, <1>5, <1>6 DEF TargetAhead

\* Reading the row before it is written, whether it is for success or for failure.
Reads == FinalizeReads \/ FailReads

LEMMA ReadSteps ==
  ASSUME Inv, Reads
  PROVE  Inv'
<1> USE DEF Inv
<1>1. UNCHANGED <<graph, rev, pc, jobs, step, live, runner>> /\ Queued' = Queued /\ fix' \in Fixes
  BY DEF Reads, FinalizeReads, FailReads, row, reg, Queued, Fixes
<1>2. Types'
  BY <1>1 DEF Types, jobs, IsRev, IsLive, IsRunner, Steps
<1>3. Running' = Running
  BY <1>1 DEF Running, jobs
<1>4. Decided'
  <2>1. CASE FinalizeReads
    <3>1. Head(chain) \in Editors
      BY <2>1, HeadTail DEF FinalizeReads, Processing, Types, Queued
    <3>2. graph.target \in Nat /\ rev[Head(chain)].to \in Nat
      BY <3>1 DEF Types, IsRev
    <3> QED
      BY <1>1, <2>1, <3>2 DEF FinalizeReads, Processing, Repairs, Decided, jobs
  <2>2. CASE FailReads
    BY <1>1, <2>2 DEF FailReads, Failing, Processing, Decided
  <2> QED
    BY <2>1, <2>2 DEF Reads
<1> QED
  BY <1>1, <1>2, <1>3, <1>4 DEF TargetAhead, Following

\* Writing the row leaves its target at the version or ahead of it: a target that
\* was not below the revision's version when it was read has only been raised since.
LEMMA FinalizeStep ==
  ASSUME Inv, Finalize
  PROVE  Inv'
<1> USE DEF Inv
<1> DEFINE r == Head(chain)
<1>1. /\ UNCHANGED <<pc, jobs, live, runner>> /\ Queued' = Queued /\ chain # <<>>
      /\ step = "final" /\ step' = "ack" /\ fix' = "unread" /\ fix \in {"write", "leave"}
  BY DEF Finalize, Processing, reg, Queued, Decided, Types, Fixes
<1>2. r \in Editors /\ IsRev(rev[r]) /\ rev[r].to \in Nat
  <2>1. r \in Editors
    BY <1>1, HeadTail DEF Types, Queued
  <2> QED
    BY <2>1 DEF Types, IsRev
<1>3. rev' = [rev EXCEPT ![r].status = "Applied"] /\ graph'.schema = rev[r].new
  BY DEF Finalize
<1>4. graph.version \in Nat /\ graph.target \in Nat
  BY DEF Types
<1>5. /\ graph' \in [version : Nat, target : Nat, schema : {graph'.schema}]
      /\ graph'.target >= graph'.version
  BY <1>1, <1>2, <1>4 DEF Finalize, Decided
<1>6. rev' \in [Editors -> {rev'[f] : f \in Editors}] /\ \A f \in Editors : IsRev(rev'[f])
  <2>1. rev = [f \in Editors |-> rev[f]] /\ \A f \in Editors : IsRev(rev[f])
    BY DEF Types
  <2> QED
    BY <1>2, <1>3, <2>1 DEF IsRev
<1>7. Types'
  BY <1>1, <1>5, <1>6 DEF Types, jobs, IsLive, IsRunner, Steps, Fixes
<1>8. Running' = Running
  BY <1>1, <1>3 DEF Running
<1>9. ASSUME "overlap" \notin Faults PROVE Following'
  <2>1. runner = Idle /\ live.status # "Compiling" /\ (live.status = "Running" => live.schema = Running)
    BY <1>1, <1>9 DEF Following, Idle, None
  <2> QED
    BY <1>1, <1>8, <2>1 DEF Following
<1>10. Decided'
  BY <1>1 DEF Decided
<1> QED
  BY <1>1, <1>5, <1>7, <1>9, <1>10 DEF TargetAhead

\* A failure is recorded; a job that is over leaves the chain, and may come back.
Ends == Acknowledge \/ Fail \/ FailStops

LEMMA EndSteps ==
  ASSUME Inv, Ends
  PROVE  Inv'
<1> USE DEF Inv
<1>1. /\ UNCHANGED <<pc, queue, dead, stalled, runner>> /\ Queued' = Queued /\ chain # <<>>
      /\ \/ UNCHANGED chain /\ Fail /\ step' = step /\ step \in {"reject", "error"} /\ fix' = "saved"
         \/ chain' = Tail(chain) /\ step' = "idle" /\ fix' = "unread" /\ step \in {"ack", "reject", "error"}
  BY DEF Ends, Acknowledge, Fail, FailWrites, FailStops, Stops, Failing, Processing, Leave, row, jobs,
         reg, Queued
<1>2. Head(chain) \in Queued /\ Tail(chain) \in Seq(Queued)
  BY <1>1, HeadTail DEF Types
<1>3. later' \subseteq Queued
  BY <1>2 DEF Ends, Acknowledge, Fail, FailWrites, FailStops, Stops, jobs, Types
<1>4. /\ graph' \in [version : Nat, target : Nat, schema : {graph'.schema}]
      /\ graph'.schema = graph.schema /\ graph'.target >= graph'.version
  <2>1. graph \in [version : Nat, target : Nat, schema : {graph.schema}] /\ graph.target >= graph.version
    BY DEF Types, TargetAhead
  <2>2. graph' = graph \/ graph' = [graph EXCEPT !.target = graph.version]
    BY <2>1 DEF Ends, Acknowledge, Fail, FailWrites, FailStops, Stops, row
  <2> QED
    BY <2>1, <2>2
<1>5. rev' \in [Editors -> {rev'[f] : f \in Editors}] /\ \A f \in Editors : IsRev(rev'[f])
  <2>1. rev = [f \in Editors |-> rev[f]] /\ \A f \in Editors : IsRev(rev[f])
    BY DEF Types
  <2>2. \/ rev' = rev
        \/ rev' = [rev EXCEPT ![Head(chain)].status = "Failed"]
        \/ \E n : rev' = [rev EXCEPT ![Head(chain)].failed = n]
    BY DEF Ends, Acknowledge, Fail, FailWrites, FailStops, Stops, row
  <2>3. Head(chain) \in Editors
    BY <1>2 DEF Queued
  <2> QED
    BY <2>1, <2>2, <2>3 DEF IsRev
<1>6. /\ IsLive(live') /\ (live' = live \/ live' = NoLive)
      /\ (live'.status = "Running" => step = "ack" \/ Fail)
  BY DEF Ends, Acknowledge, Fail, FailWrites, FailStops, Stops, Processing, reg, Types, IsLive, NoLive, None
<1>7. Types'
  BY <1>1, <1>2, <1>3, <1>4, <1>5, <1>6 DEF Types, IsRunner, Steps, Fixes
<1>8. ASSUME "overlap" \notin Faults PROVE Following'
  <2>1. Following
    BY <1>8
  <2>2. Running = graph.schema /\ Running' = graph.schema
    BY <1>1, <1>4 DEF Running
  <2>3. CASE step' = "idle" /\ step \in {"ack", "reject", "error"}
    <3>1. live'.status = "Running" => live' = live /\ step = "ack"
      BY <1>1, <1>6, <2>3 DEF NoLive, None, Fail, Failing, FailWrites, Processing
    <3> QED
      BY <1>1, <1>4, <1>6, <2>1, <2>2, <2>3, <3>1 DEF Following, NoLive, None
  <2>4. CASE step' = step /\ step \in {"reject", "error"}
    BY <1>1, <1>4, <1>6, <2>1, <2>2, <2>4 DEF Following, NoLive, None
  <2> QED
    BY <1>1, <2>3, <2>4
<1>9. Decided'
  BY <1>1 DEF Decided
<1> QED
  BY <1>4, <1>7, <1>8, <1>9 DEF TargetAhead

\* A run, and the end of a graph, change the registry and nothing else.
LEMMA RegistrySteps ==
  ASSUME Inv, RunReads \/ Register \/ Compile \/ Destroy
  PROVE  Inv'
<1> USE DEF Inv
<1>1. UNCHANGED <<graph, rev, pc, jobs, step, fix>> /\ Queued' = Queued
  BY DEF RunReads, Register, Compile, Destroy, row, work, Queued
<1>2. IsLive(live') /\ IsRunner(runner')
  <2>1. CASE RunReads
    BY <2>1 DEF RunReads, Types, IsLive, IsRunner
  <2>2. CASE Register
    <3>1. runner \in [at : {"register", "compile"}, schema : {runner.schema}]
      BY <2>2 DEF Register, Types, IsRunner, Idle, None
    <3>2. runner' \in [at : {"register", "compile"}, schema : {runner'.schema}]
      BY <2>2, <3>1 DEF Register
    <3> QED
      BY <2>2, <3>2 DEF Register, IsLive, IsRunner
  <2>3. CASE Compile
    <3>1. IsLive(live) /\ runner' = Idle
      BY <2>3 DEF Compile, Types
    <3>2. CASE live' = NoLive
      BY <3>1, <3>2 DEF IsLive, IsRunner
    <3>3. CASE live' # NoLive
      <4>1. live' = [live EXCEPT !.status = IF live = NoLive THEN None ELSE "Running"]
        BY <2>3, <3>3 DEF Compile
      <4>2. live # NoLive
        BY <3>3, <4>1 DEF NoLive
      <4> QED
        BY <3>1, <4>1, <4>2 DEF IsLive, IsRunner
    <3> QED
      BY <3>2, <3>3
  <2>4. CASE Destroy
    BY <2>4 DEF Destroy, Types, IsLive, IsRunner
  <2> QED
    BY <2>1, <2>2, <2>3, <2>4
<1>3. Types'
  BY <1>1, <1>2 DEF Types, jobs, IsRev, Steps, Fixes
<1>4. Running' = Running /\ Decided'
  BY <1>1 DEF Running, Decided, jobs
<1>5. ASSUME "overlap" \notin Faults PROVE Following'
  <2> USE DEF Following
  <2>1. Following
    BY <1>5
  <2>2. CASE RunReads
    BY <1>1, <1>4, <1>5, <2>1, <2>2 DEF RunReads, NoLive, None
  <2>3. CASE Register
    BY <1>1, <1>4, <2>1, <2>3 DEF Register, Idle, None
  <2>4. CASE Compile
    <3>1. runner # Idle
      BY <2>4 DEF Compile, Idle, None
    <3>2. runner' = Idle /\ step # "final" /\ Running = graph.schema
      BY <2>1, <2>4, <3>1 DEF Compile, Running
    <3>3. live'.status # "Compiling"
      BY <2>4 DEF Compile, Types, IsLive, NoLive, None
    <3>4. ASSUME live'.status = "Running", step \notin {"reject", "error"} PROVE live'.schema = graph.schema
      <4>1. live # NoLive /\ live' = [live EXCEPT !.status = "Running"]
        BY <2>4, <3>4 DEF Compile, Types, IsLive, NoLive, None
      <4> QED
        BY <2>1, <3>2, <3>4, <4>1 DEF Types, IsLive
    <3> QED
      BY <1>1, <1>4, <3>2, <3>3, <3>4
  <2>5. CASE Destroy
    BY <1>1, <1>4, <2>1, <2>5 DEF Destroy, NoLive, None
  <2> QED
    BY <2>2, <2>3, <2>4, <2>5
<1> QED
  BY <1>1, <1>3, <1>4, <1>5 DEF TargetAhead

\* A restart leaves the jobs of the worker to the stalled check.
LEMMA CrashStep ==
  ASSUME Inv, Crash
  PROVE  Inv'
<1> USE DEF Inv
<1>1. /\ UNCHANGED <<graph, rev, pc, queue, later, stalled>> /\ Queued' = Queued
      /\ step' = "idle" /\ fix' = "unread" /\ live' = NoLive /\ runner' = Idle
  BY DEF Crash, row, Queued
<1>2. dead' \subseteq Queued /\ chain' \in Seq(Queued)
  BY RangeIs DEF Crash, Types
<1>3. Types'
  BY <1>1, <1>2 DEF Types, IsRev, IsLive, IsRunner, Steps, Fixes
<1>4. Following' /\ Decided'
  BY <1>1 DEF Following, Decided, NoLive, Idle, None
<1> QED
  BY <1>1, <1>3, <1>4 DEF TargetAhead

\* The steps, by what they are for.
LEMMA StepIs ==
  ASSUME Next
  PROVE  \/ \E e \in Editors : Load(e) \/ Submit(e) \/ Enqueue(e)
         \/ Take \/ Returns
         \/ Start \/ Remerge \/ Wait \/ Update
         \/ Reads \/ Finalize \/ Ends
         \/ RunReads \/ Register \/ Compile \/ Destroy \/ Crash
BY DEF Next, Worker, Returns, Reads, Ends

\* Every step keeps Inv.
LEMMA NextInv == Inv /\ [Next]_vars => Inv'
<1> SUFFICES ASSUME Inv, [Next]_vars PROVE Inv'
  OBVIOUS
<1>1. CASE Next
  BY <1>1, StepIs, EditorSteps, QueueSteps, WorkerSteps, UpdateStep, ReadSteps, FinalizeStep, EndSteps,
     RegistrySteps, CrashStep
<1>2. CASE UNCHANGED vars
  BY <1>2 DEF vars, row, jobs, work, reg, Inv, Types, Decided, TargetAhead, Following, Running, Queued,
              IsRev, IsLive, IsRunner
<1> QED
  BY <1>1, <1>2

THEOREM Inductive == Spec => []Inv
<1> QED
  BY InitInv, NextInv, PTL DEF Spec

(* targetVersion is never behind the version, whatever fails, is retried, is
   delivered again or overtakes: the repair at the head of update has nothing
   to repair. *)
THEOREM TargetNotBehind == Spec => []TargetAhead
<1>1. Inv => TargetAhead
  BY DEF Inv
<1> QED
  BY <1>1, Inductive, PTL

(* A running graph runs the schema of its row except while the worker is
   between its live update and the row, or about to destroy the graph: for
   every failure, retry and restart, as long as a run and a revision do not
   meet between a read and its use. *)
THEOREM LiveFollowsRow ==
  ASSUME "overlap" \notin Faults
  PROVE  Spec => []LiveMatches
<1>1. Inv => LiveMatches
  BY DEF Inv, Following, Running, LiveMatches
<1> QED
  BY <1>1, Inductive, PTL
---------------------------------------------------------------------------
(* Sequences without repetition *)

\* One more at the end.
LEMMA AppendOnce ==
  ASSUME NEW S, NEW s \in Seq(S), NEW x \in S
  PROVE  /\ Range(Append(s, x)) = Range(s) \cup {x}
         /\ IsInjective(s) /\ x \notin Range(s) => IsInjective(Append(s, x))
<1> DEFINE t == Append(s, x)
<1>1. /\ DOMAIN s = 1 .. Len(s) /\ Len(s) \in Nat /\ DOMAIN t = 1 .. Len(s) + 1
      /\ \A i \in 1 .. Len(s) : t[i] = s[i]
      /\ t[Len(s) + 1] = x
  OBVIOUS
<1> HIDE DEF t
<1>2. Range(t) = Range(s) \cup {x}
  <2>1. Len(s) + 1 \in DOMAIN t /\ \A i \in DOMAIN s : i \in DOMAIN t /\ t[i] = s[i]
    BY <1>1
  <2>2. \A i \in DOMAIN t : i \in DOMAIN s \/ i = Len(s) + 1
    BY <1>1
  <2> QED
    BY <1>1, <2>1, <2>2 DEF Range
<1>3. IsInjective(s) /\ x \notin Range(s) => IsInjective(t)
  BY <1>1 DEF IsInjective, Range
<1> QED
  BY <1>2, <1>3 DEF t

\* The first taken off.
LEMMA TailOnce ==
  ASSUME NEW S, NEW s \in Seq(S), s # <<>>
  PROVE  /\ Range(s) = Range(Tail(s)) \cup {Head(s)}
         /\ IsInjective(s) => IsInjective(Tail(s)) /\ Head(s) \notin Range(Tail(s))
<1> DEFINE t == Tail(s)
<1>1. /\ DOMAIN s = 1 .. Len(s) /\ Len(s) \in Nat \ {0} /\ DOMAIN t = 1 .. Len(s) - 1
      /\ \A i \in 1 .. Len(s) - 1 : t[i] = s[i + 1]
      /\ s[1] = Head(s)
  OBVIOUS
<1> HIDE DEF t
<1>2. Range(s) = Range(t) \cup {Head(s)}
  <2>1. 1 \in DOMAIN s /\ \A i \in DOMAIN t : i + 1 \in DOMAIN s /\ t[i] = s[i + 1]
    BY <1>1
  <2>2. \A i \in DOMAIN s : i = 1 \/ (i - 1 \in DOMAIN t /\ s[i] = t[i - 1])
    BY <1>1
  <2> QED
    BY <1>1, <2>1, <2>2 DEF Range
<1>3. ASSUME IsInjective(s) PROVE IsInjective(t) /\ Head(s) \notin Range(t)
  <2>1. \A i \in DOMAIN t : i + 1 \in DOMAIN s /\ i + 1 # 1 /\ t[i] = s[i + 1]
    BY <1>1
  <2>2. Head(s) \notin Range(t)
    BY <1>1, <1>3, <2>1 DEF IsInjective, Range
  <2>3. ASSUME NEW i \in DOMAIN t, NEW j \in DOMAIN t, t[i] = t[j] PROVE i = j
    <3>1. i + 1 = j + 1
      BY <1>3, <2>1, <2>3 DEF IsInjective
    <3> QED
      BY <1>1, <3>1
  <2> QED
    BY <2>2, <2>3 DEF IsInjective
<1> QED
  BY <1>2, <1>3 DEF t

\* Two after one another.
LEMMA JoinOnce ==
  ASSUME NEW S, NEW s \in Seq(S), NEW t \in Seq(S)
  PROVE  /\ Range(s \o t) = Range(s) \cup Range(t)
         /\ IsInjective(s) /\ IsInjective(t) /\ Range(s) \cap Range(t) = {} => IsInjective(s \o t)
<1> DEFINE u == s \o t
           m == Len(s)
           n == Len(t)
<1>1. /\ DOMAIN s = 1 .. m /\ DOMAIN t = 1 .. n /\ m \in Nat /\ n \in Nat /\ DOMAIN u = 1 .. m + n
      /\ \A i \in 1 .. m : u[i] = s[i]
      /\ \A i \in 1 .. n : u[m + i] = t[i]
  OBVIOUS
<1> HIDE DEF u, m, n
<1>2. /\ \A i \in DOMAIN s : i \in DOMAIN u /\ u[i] = s[i]
      /\ \A i \in DOMAIN t : m + i \in DOMAIN u /\ u[m + i] = t[i]
      /\ \A i \in DOMAIN u : \/ i \in DOMAIN s /\ u[i] = s[i]
                             \/ i \notin DOMAIN s /\ i - m \in DOMAIN t /\ u[i] = t[i - m]
  <2>1. \A i \in DOMAIN u : i \in 1 .. m \/ (i \notin 1 .. m /\ i - m \in 1 .. n /\ m + (i - m) = i)
    BY <1>1
  <2> QED
    BY <1>1, <2>1
<1>3. Range(u) = Range(s) \cup Range(t)
  BY <1>2 DEF Range
<1>4. ASSUME IsInjective(s), IsInjective(t), Range(s) \cap Range(t) = {}
      PROVE  IsInjective(u)
  <2> SUFFICES ASSUME NEW i \in DOMAIN u, NEW j \in DOMAIN u, u[i] = u[j] PROVE i = j
    BY DEF IsInjective
  <2>1. CASE i \in DOMAIN s /\ j \in DOMAIN s
    BY <1>2, <1>4, <2>1 DEF IsInjective
  <2>2. CASE i \notin DOMAIN s /\ j \notin DOMAIN s
    <3>1. i - m = j - m
      BY <1>2, <1>4, <2>2 DEF IsInjective
    <3> QED
      BY <1>1, <3>1
  <2>3. CASE (i \in DOMAIN s) # (j \in DOMAIN s)
    <3>1. \E a \in DOMAIN s, b \in DOMAIN t : s[a] = t[b]
      BY <1>2, <2>3
    <3> QED
      BY <1>4, <3>1 DEF Range
  <2> QED
    BY <2>1, <2>2, <2>3
<1> QED
  BY <1>3, <1>4 DEF u

\* One more in front.
LEMMA FrontOnce ==
  ASSUME NEW S, NEW s \in Seq(S), NEW x \in S
  PROVE  /\ Range(<<x>> \o s) = Range(s) \cup {x}
         /\ IsInjective(s) /\ x \notin Range(s) => IsInjective(<<x>> \o s)
<1>1. <<x>> \in Seq(S)
  OBVIOUS
<1>2. Range(<<x>>) = {x} /\ IsInjective(<<x>>)
  <2>1. DOMAIN <<x>> = {1} /\ <<x>>[1] = x
    OBVIOUS
  <2> QED
    BY <2>1 DEF Range, IsInjective
<1> DEFINE o == <<x>>
<1>3. o \in Seq(S) /\ Range(o) = {x} /\ IsInjective(o)
  BY <1>1, <1>2
<1> HIDE DEF o
<1>4. /\ Range(o \o s) = Range(o) \cup Range(s)
      /\ IsInjective(o) /\ IsInjective(s) /\ Range(o) \cap Range(s) = {} => IsInjective(o \o s)
  BY <1>3, JoinOnce
<1>5. /\ Range(o \o s) = Range(s) \cup {x}
      /\ IsInjective(s) /\ x \notin Range(s) => IsInjective(o \o s)
  BY <1>3, <1>4
<1> QED
  BY <1>5 DEF o
---------------------------------------------------------------------------
(* Every schema is one: of the row, of the revisions, of what has been read of them.
   Its nodes are those of the graph as it was created and those of editors who have
   submitted, so that what an editor adds is new to what it adds it to. *)

Known         == (1..NodeCount) \cup {e \in Editors : pc[e] \in {"enqueue", "done"}}
SchemaOver(V) == {s \in Seq(NodeOf(V, Configs)) : Valid(s)}

Schemas ==
  /\ {graph.schema, live.schema, runner.schema} \subseteq SchemaOver(Known)
  /\ base = NoMerge \/ base \in SchemaOver(Known)
  /\ \A e \in Editors :
       {rev[e].seen, rev[e].client, rev[e].new, view[e].schema} \subseteq SchemaOver(Known)

\* A schema stays one when there are more nodes.
LEMMA SchemaGrows ==
  ASSUME NEW V, NEW W, V \subseteq W
  PROVE  SchemaOver(V) \subseteq SchemaOver(W)
<1>1. NodeOf(V, Configs) \subseteq NodeOf(W, Configs)
  BY DEF NodeOf
<1> QED
  BY <1>1, SeqGrows DEF SchemaOver

\* The graph is created with a schema.
LEMMA InitialIs == Initial \in SchemaOver(1..NodeCount)
<1>1. NodeCount \in Nat
  BY BoundAssumption
<1> DEFINE n(i) == [id |-> i, cfg |-> None]
<1>2. \A i \in 1..NodeCount : n(i) \in NodeOf(1..NodeCount, Configs) /\ n(i).id = i
  BY DEF NodeOf, Configs
<1>3. Initial = [i \in 1..NodeCount |-> n(i)]
  BY DEF Initial
<1> HIDE DEF n
<1>4. Initial \in Seq(NodeOf(1..NodeCount, Configs))
  BY <1>1, <1>2, <1>3
<1>5. Valid(Initial)
  BY <1>2, <1>3 DEF Valid
<1> QED
  BY <1>4, <1>5 DEF SchemaOver

\* What an editor makes of a schema is a schema, of its own node too.
LEMMA EditedIs ==
  ASSUME NEW V, NEW e \in Editors, e \notin V, NEW s \in SchemaOver(V), NEW c \in Edited(e, s)
  PROVE  c \in SchemaOver(V \cup {e})
<1> DEFINE N == NodeOf(V \cup {e}, Configs)
<1>1. s \in Seq(N) /\ Valid(s) /\ \A i \in DOMAIN s : s[i].id \in V
  <2>1. s \in Seq(N) /\ Valid(s) /\ s \in Seq(NodeOf(V, Configs))
    BY SchemaGrows DEF SchemaOver
  <2>2. \A i \in DOMAIN s : s[i] \in NodeOf(V, Configs)
    BY <2>1
  <2> QED
    BY <2>1, <2>2 DEF NodeOf
<1>2. e \in Configs
  BY DEF Configs
<1>3. ASSUME NEW i \in DOMAIN s, c = [s EXCEPT ![i].cfg = e]
      PROVE  c \in SchemaOver(V \cup {e})
  <2>1. \A x \in N : [x EXCEPT !.cfg = e] \in N /\ [x EXCEPT !.cfg = e].id = x.id
    BY <1>2 DEF NodeOf
  <2> HIDE DEF N
  <2>2. \A j \in DOMAIN s : s[j] \in N /\ c[j] = IF j = i THEN [s[j] EXCEPT !.cfg = e] ELSE s[j]
    BY <1>1, <1>3
  <2>3. \A j \in DOMAIN s : c[j].id = s[j].id /\ c[j] \in N
    BY <2>1, <2>2
  <2>4. DOMAIN c = DOMAIN s /\ c = [j \in DOMAIN s |-> c[j]]
    BY <1>3
  <2>5. c \in Seq(N)
    <3>1. DOMAIN s = 1 .. Len(s) /\ Len(s) \in Nat
      BY <1>1
    <3> QED
      BY <2>3, <2>4, <3>1
  <2>6. Valid(c)
    BY <1>1, <2>3, <2>4 DEF Valid
  <2> QED
    BY <2>5, <2>6 DEF SchemaOver, N
<1>4. ASSUME c = Append(s, [id |-> e, cfg |-> e])
      PROVE  c \in SchemaOver(V \cup {e})
  <2> DEFINE n == [id |-> e, cfg |-> e]
  <2>1. n \in N /\ n.id = e
    BY <1>2 DEF NodeOf
  <2>2. c = Append(s, n)
    BY <1>4
  <2> HIDE DEF n, N
  <2>3. /\ c \in Seq(N) /\ DOMAIN c = 1 .. Len(s) + 1 /\ DOMAIN s = 1 .. Len(s) /\ Len(s) \in Nat
        /\ c[Len(s) + 1] = n /\ \A i \in 1 .. Len(s) : c[i] = s[i]
    BY <1>1, <2>1, <2>2
  <2>4. Valid(c)
    <3>1. \A i \in DOMAIN c : \/ i \in DOMAIN s /\ c[i].id = s[i].id /\ c[i].id # e
                              \/ i = Len(s) + 1 /\ c[i].id = e
      BY <1>1, <2>1, <2>3
    <3> QED
      BY <1>1, <3>1 DEF Valid
  <2> QED
    BY <2>3, <2>4 DEF SchemaOver, N
<1>5. ASSUME NEW i \in DOMAIN s, c = Without(s, i)
      PROVE  c \in SchemaOver(V \cup {e})
  <2> DEFINE p == SubSeq(s, 1, i - 1)
             q == SubSeq(s, i + 1, Len(s))
             m == Len(s)
  <2> HIDE DEF N
  <2>1. m \in Nat \ {0} /\ i \in 1 .. m /\ i - 1 \in Nat /\ i + 1 \in Nat \ {0}
    BY <1>1
  <2>2. /\ p \in Seq(N) /\ q \in Seq(N) /\ Len(p) = i - 1 /\ Len(q) = m - i
        /\ \A k \in 1 .. i - 1 : p[k] = s[k]
        /\ \A k \in 1 .. m - i : q[k] = s[i + k]
    BY <1>1, <2>1
  <2>3. c = p \o q
    BY <1>5 DEF Without
  <2> HIDE DEF p, q
  <2>4. /\ c \in Seq(N) /\ Len(c) = (i - 1) + (m - i)
        /\ \A k \in 1 .. i - 1 : c[k] = p[k]
        /\ \A k \in 1 .. m - i : c[(i - 1) + k] = q[k]
    <3>1. /\ p \o q \in Seq(N) /\ Len(p \o q) = Len(p) + Len(q)
          /\ \A k \in 1 .. Len(p) : (p \o q)[k] = p[k]
          /\ \A k \in 1 .. Len(q) : (p \o q)[Len(p) + k] = q[k]
      <4>1. p \in Seq(N) /\ q \in Seq(N)
        BY <2>2
      <4> QED
        BY <4>1, Joined
    <3> QED
      BY <2>2, <2>3, <3>1
  <2> DEFINE at(k) == IF k < i THEN k ELSE k + 1
  <2>5. \A k \in DOMAIN c : k \in 1 .. m - 1 /\ at(k) \in DOMAIN s /\ c[k] = s[at(k)]
    <3> SUFFICES ASSUME NEW k \in DOMAIN c
                 PROVE k \in 1 .. m - 1 /\ at(k) \in DOMAIN s /\ c[k] = s[at(k)]
      OBVIOUS
    <3>1. k \in 1 .. m - 1 /\ DOMAIN s = 1 .. m
      BY <1>1, <2>1, <2>4
    <3> HIDE DEF m
    <3>2. CASE k < i
      <4>1. k \in 1 .. i - 1
        BY <2>1, <3>1, <3>2
      <4>2. c[k] = s[k]
        BY <2>2, <2>4, <4>1
      <4> QED
        BY <2>1, <3>1, <3>2, <4>2
    <3>3. CASE ~(k < i)
      <4> DEFINE d == k - (i - 1)
      <4>1. d \in 1 .. m - i /\ (i - 1) + d = k /\ i + d = k + 1
        BY <2>1, <3>1, <3>3
      <4> HIDE DEF d
      <4>2. c[(i - 1) + d] = q[d] /\ q[d] = s[i + d]
        BY <2>2, <2>4, <4>1
      <4>3. c[k] = s[k + 1]
        BY <4>1, <4>2
      <4> QED
        BY <2>1, <3>1, <3>3, <4>3
    <3> QED
      BY <3>2, <3>3
  <2>6. Valid(c)
    <3> SUFFICES ASSUME NEW k \in DOMAIN c, NEW l \in DOMAIN c, c[k].id = c[l].id PROVE k = l
      BY DEF Valid
    <3>1. at(k) = at(l)
      <4> HIDE DEF at
      <4> QED
        BY <1>1, <2>5 DEF Valid
    <3> QED
      BY <2>1, <2>5, <3>1
  <2> QED
    BY <2>4, <2>6 DEF SchemaOver, N
<1> QED
  BY <1>3, <1>4, <1>5 DEF Edited

\* What merges to something merges to a schema.
LEMMA MergedIs ==
  ASSUME NEW V, NEW b \in SchemaOver(V), NEW h \in SchemaOver(V), NEW c \in SchemaOver(V),
         Merge(b, h, c) # NoMerge
  PROVE  Merge(b, h, c) \in SchemaOver(V)
BY MergeIsSchema DEF SchemaOver
IsView(v) == v \in [version : Nat, schema : {v.schema}]
Views     == view \in [Editors -> {view[e] : e \in Editors}] /\ \A e \in Editors : IsView(view[e])

\* What the queue, the worker and the registry leave alone, and what they write.
Edit == \E e \in Editors : Load(e) \/ Submit(e) \/ Enqueue(e)

LEMMA OtherSteps ==
  ASSUME Next, ~Edit
  PROVE  /\ view' = view /\ pc' = pc
         /\ Finalize \/ applied' = applied
         /\ Finalize \/ Fail \/ graph' = graph
         /\ Start \/ Remerge \/ Finalize \/ Fail \/ FailStops \/ rev' = rev
         /\ runs' = runs \/ (runs' = runs + 1 /\ runs < MaxRuns)
<1> USE DEF Returns, Retry, GiveBack, Take, Start, Remerge, Wait, Update, Reads, FinalizeReads, FailReads,
            Finalize, Ends, Acknowledge, Fail, FailWrites, FailStops, Stops, RunReads, Register, Compile,
            Destroy, Crash, row, reg
<1>1. CASE Take \/ Returns
  BY <1>1
<1>2. CASE Start \/ Remerge \/ Wait \/ Update
  BY <1>2
<1>3. CASE Reads \/ Finalize \/ Ends
  BY <1>3
<1>4. CASE RunReads \/ Register \/ Compile \/ Destroy \/ Crash
  BY <1>4
<1> QED
  BY <1>1, <1>2, <1>3, <1>4, StepIs DEF Edit

\* The nodes there can be only get more.
LEMMA KnownGrows ==
  ASSUME Inv, [Next]_vars
  PROVE  Known \subseteq Known'
<1>1. pc \in [Editors -> {"load", "submit", "enqueue", "done"}]
  BY DEF Inv, Types
<1>2. \/ pc' = pc
      \/ \E e \in Editors : pc[e] \in {"load", "submit"} /\ \E p : pc' = [pc EXCEPT ![e] = p]
      \/ \E e \in Editors : pc' = [pc EXCEPT ![e] = "done"]
  <2>1. CASE Edit
    BY <2>1 DEF Edit, Load, Submit, Enqueue
  <2>2. CASE ~Edit
    BY <2>2, OtherSteps DEF vars, row
  <2> QED
    BY <2>1, <2>2
<1> QED
  BY <1>1, <1>2 DEF Known

\* An editor reads a schema and makes another of it.
LEMMA EditorSchemas ==
  ASSUME Inv, Views, Schemas, NEW e \in Editors, Load(e) \/ Submit(e) \/ Enqueue(e)
  PROVE  Views' /\ Schemas'
<1> DEFINE T == SchemaOver(Known')
<1>1. SchemaOver(Known) \subseteq T
  <2>1. Known \subseteq Known'
    BY KnownGrows DEF Next
  <2> QED
    BY <2>1, SchemaGrows
<1>2. rev = [f \in Editors |-> rev[f]] /\ pc = [f \in Editors |-> pc[f]]
  BY DEF Inv, Types
<1>3. UNCHANGED <<base, live, runner>>
  BY DEF Load, Submit, Enqueue, work, reg
<1>4. CASE Load(e)
  <2>1. IsView(Shown) /\ Shown.schema \in T
    BY <1>1 DEF Inv, Types, IsView, Schemas, Shown
  <2>2. view' = [view EXCEPT ![e] = Shown] /\ UNCHANGED <<graph, rev>>
    BY <1>4 DEF Load
  <2> HIDE DEF T
  <2>3. Views' /\ \A f \in Editors : view'[f].schema \in T
    BY <1>1, <2>1, <2>2 DEF Views, Schemas, IsView
  <2> QED
    BY <1>1, <1>3, <2>2, <2>3 DEF Schemas, T
<1>5. CASE Submit(e)
  <2>1. view' = view /\ pc[e] = "submit"
    BY <1>5 DEF Submit
  <2>2. CASE UNCHANGED <<graph, rev>>
    BY <1>1, <1>3, <2>1, <2>2 DEF Schemas, Views, IsView
  <2>3. CASE ~UNCHANGED <<graph, rev>>
    <3>1. PICK client \in Edited(e, view[e].schema), head \in Heads :
            LET new == Merge(graph.schema, head, client)
            IN  /\ new # NoMerge
                /\ rev' = [rev EXCEPT ![e] =
                     [status |-> "Pending", base |-> graph.version, to |-> Target + 1,
                      seen |-> graph.schema, client |-> client, new |-> new,
                      known |-> applied, failed |-> 0]]
                /\ graph' = [graph EXCEPT !.target = Target + 1]
                /\ pc' = [pc EXCEPT ![e] = "enqueue"]
      BY <1>5, <2>3 DEF Submit
    <3>2. Known' = Known \cup {e} /\ e \notin Known
      BY <1>2, <2>1, <3>1, EditorAssumption DEF Known
    <3>3. client \in T
      BY <3>2, EditedIs DEF Schemas
    <3>4. head \in T
      BY <1>1 DEF Heads, SchemasAt, AtVersion, Schemas
    <3>5. graph.schema \in T
      BY <1>1 DEF Schemas
    <3>6. Merge(graph.schema, head, client) \in T
      BY <3>1, <3>3, <3>4, <3>5, MergedIs
    <3>7. graph'.schema = graph.schema
      BY <3>1 DEF Inv, Types
    <3> HIDE DEF T
    <3>8. \A f \in Editors : {rev'[f].seen, rev'[f].client, rev'[f].new} \subseteq T
      <4> SUFFICES ASSUME NEW f \in Editors
                   PROVE {rev'[f].seen, rev'[f].client, rev'[f].new} \subseteq T
        OBVIOUS
      <4>1. CASE f = e
        BY <1>2, <3>1, <3>3, <3>5, <3>6, <4>1
      <4>2. CASE f # e
        BY <1>1, <1>2, <3>1, <4>2 DEF Schemas
      <4> QED
        BY <4>1, <4>2
    <3> QED
      BY <1>1, <1>3, <2>1, <3>5, <3>7, <3>8 DEF Schemas, Views, IsView, T
  <2> QED
    BY <2>2, <2>3
<1>6. CASE Enqueue(e)
  BY <1>1, <1>3, <1>6 DEF Enqueue, Schemas, Views, IsView
<1> QED
  BY <1>4, <1>5, <1>6

\* What the worker merges is a schema, and it moves schemas from one place to another.
LEMMA WorkerSchemas ==
  ASSUME Inv, Views, Schemas,
         Take \/ Returns \/ Start \/ Remerge \/ Wait \/ Update \/ Reads \/ Finalize \/ Ends
  PROVE  Views' /\ Schemas'
<1> DEFINE T == SchemaOver(Known)
           r == Head(chain)
<1>1. view' = view /\ runner' = runner /\ Known' = Known
  BY DEF Take, Returns, Retry, GiveBack, Start, Remerge, Wait, Update, Reads, FinalizeReads, FailReads,
         Finalize, Ends, Acknowledge, Fail, FailWrites, FailStops, Stops, row, reg, Known
<1>2. Views'
  BY <1>1 DEF Views, IsView
<1>3. rev = [f \in Editors |-> rev[f]] /\ \A f \in Editors : IsRev(rev[f])
  BY DEF Inv, Types
<1>4. chain # <<>> => r \in Editors
  BY HeadTail DEF Inv, Types, Queued
<1> HIDE DEF T
<1>5. /\ {graph.schema, live.schema, runner.schema} \subseteq T /\ (base = NoMerge \/ base \in T)
      /\ \A e \in Editors : {rev[e].seen, rev[e].client, rev[e].new, view[e].schema} \subseteq T
  BY DEF Schemas, T
<1>6. \A e \in Editors : {rev'[e].seen, rev'[e].client, rev'[e].new} \subseteq T
  <2>1. CASE rev' = rev
    BY <1>5, <2>1
  <2>2. CASE \E s : rev' = [rev EXCEPT ![r].status = s]
    BY <1>3, <1>5, <2>2 DEF IsRev
  <2>3. CASE \E n : rev' = [rev EXCEPT ![r].failed = n]
    BY <1>3, <1>5, <2>3 DEF IsRev
  <2>4. CASE \E n \in T : rev' = [rev EXCEPT ![r].new = n]
    BY <1>3, <1>5, <2>4 DEF IsRev
  <2>5. \/ rev' = rev
        \/ \E s : rev' = [rev EXCEPT ![r].status = s]
        \/ \E n : rev' = [rev EXCEPT ![r].failed = n]
        \/ \E n \in T : rev' = [rev EXCEPT ![r].new = n]
    <3>1. CASE Remerge /\ rev' # rev
      <4>1. r \in Editors
        BY <1>4, <3>1 DEF Remerge, Processing
      <4>2. \/ rev' = [rev EXCEPT ![r].new = rev[r].new]
            \/ /\ base # NoMerge /\ Merge(base, graph.schema, rev[r].client) # NoMerge
               /\ rev' = [rev EXCEPT ![r].new = Merge(base, graph.schema, rev[r].client)]
        BY <3>1 DEF Remerge
      <4>3. Merge(base, graph.schema, rev[r].client) # NoMerge /\ base # NoMerge
              => Merge(base, graph.schema, rev[r].client) \in T
        BY <1>5, <4>1, MergedIs DEF T
      <4> QED
        BY <1>5, <4>1, <4>2, <4>3
    <3>2. CASE Start
      BY <3>2 DEF Start
    <3>3. CASE Finalize
      BY <3>3 DEF Finalize
    <3>4. CASE Ends
      BY <3>4 DEF Ends, Acknowledge, Fail, FailWrites, FailStops, Stops, row
    <3> QED
      BY <3>1, <3>2, <3>3, <3>4
      DEF Take, Returns, Retry, GiveBack, Wait, Update, Reads, FinalizeReads, FailReads, row
  <2> QED
    BY <2>1, <2>2, <2>3, <2>4, <2>5
<1>7. graph'.schema \in T
  <2>1. CASE Finalize
    BY <1>4, <1>5, <2>1 DEF Finalize, Processing
  <2>2. CASE Ends
    <3>1. graph' = graph \/ graph' = [graph EXCEPT !.target = graph.version]
      BY <2>2 DEF Ends, Acknowledge, Fail, FailWrites, FailStops, Stops, row, Inv, Types
    <3> QED
      BY <1>5, <3>1 DEF Inv, Types
  <2> QED
    BY <1>5, <2>1, <2>2
    DEF Take, Returns, Retry, GiveBack, Start, Remerge, Wait, Update, Reads, FinalizeReads, FailReads, row
<1>8. base' = NoMerge \/ base' \in T
  <2>1. CASE Start
    <3>1. base' \in SchemasAt(rev[r].base)
      BY <2>1 DEF Start
    <3> QED
      BY <1>5, <3>1 DEF SchemasAt, AtVersion
  <2> QED
    BY <1>5, <2>1
    DEF Take, Returns, Retry, GiveBack, Remerge, Wait, Update, Reads, FinalizeReads, FailReads, Finalize,
        Ends, Acknowledge, Fail, FailWrites, FailStops, Stops, Leave, work
<1>9. live'.schema \in T
  <2>1. NoLive.schema \in T
    BY InitialIs, SchemaGrows DEF NoLive, T, Known
  <2>2. CASE Update
    <3>1. r \in Editors
      BY <1>4, <2>2 DEF Update, Processing
    <3>2. live' = live \/ (live.status = "Running" /\ live' = [live EXCEPT !.schema = rev[r].new])
      BY <2>2 DEF Update
    <3>3. live \in [status : {"Compiling", "Running"}, schema : {live.schema}] \/ live = NoLive
      BY DEF Inv, Types, IsLive
    <3>4. live'.schema \in {live.schema, rev[r].new}
      BY <3>2, <3>3 DEF NoLive, None
    <3> QED
      BY <1>5, <3>1, <3>4
  <2>3. CASE Ends
    BY <1>5, <2>1, <2>3 DEF Ends, Acknowledge, Fail, FailWrites, FailStops, Stops, reg
  <2> QED
    BY <1>5, <2>2, <2>3
    DEF Take, Returns, Retry, GiveBack, Start, Remerge, Wait, Reads, FinalizeReads, FailReads, Finalize, reg
<1> QED
  BY <1>1, <1>2, <1>5, <1>6, <1>7, <1>8, <1>9 DEF Schemas, T

\* A run reads the row's schema and compiles it.
LEMMA RegistrySchemas ==
  ASSUME Inv, Views, Schemas, RunReads \/ Register \/ Compile \/ Destroy \/ Crash
  PROVE  Views' /\ Schemas'
<1> DEFINE T == SchemaOver(Known)
<1>1. UNCHANGED <<graph, rev, view>> /\ Known' = Known /\ base' \in {base, NoMerge}
  BY DEF RunReads, Register, Compile, Destroy, Crash, row, work, Known
<1>2. NoLive.schema \in T /\ Idle.schema \in T
  BY InitialIs, SchemaGrows DEF NoLive, Idle, Known
<1>3. graph.schema \in T /\ live.schema \in T /\ runner.schema \in T
  BY DEF Schemas
<1> HIDE DEF T
<1>4. live'.schema \in T /\ runner'.schema \in T
  <2>1. CASE Register
    BY <1>3, <2>1 DEF Register, Inv, Types, IsRunner, Idle
  <2>2. CASE Compile
    <3>1. live' = NoLive \/ \E s : live' = [live EXCEPT !.status = s]
      BY <2>2 DEF Compile
    <3>2. live'.schema \in {live.schema, NoLive.schema}
      BY <3>1 DEF Inv, Types, IsLive, NoLive
    <3> QED
      BY <1>2, <1>3, <2>2, <3>2 DEF Compile
  <2> QED
    BY <1>2, <1>3, <2>1, <2>2 DEF RunReads, Destroy, Crash
<1>5. Views'
  BY <1>1 DEF Views, IsView
<1> QED
  BY <1>1, <1>4, <1>5 DEF Schemas, T
---------------------------------------------------------------------------
(* A version is made by a submission: none is beyond the number of those. *)

Submitted == {e \in Editors : rev[e].status # None}
Reach     == Cardinality(Submitted) + 1

Numbers ==
  /\ {graph.version, graph.target} \subseteq 1..Reach
  /\ \A e \in Editors :
       /\ {rev[e].base, rev[e].to, view[e].version} \subseteq 1..Reach
       /\ pc[e] \in {"load", "submit"} => rev[e].status = None
  /\ applied \subseteq Editors /\ (\A e \in Editors : rev[e].known \subseteq Editors)
  /\ \A e \in Editors : rev[e].status \in {None, "Pending", "Applying", "Applied", "Failed"}
  /\ runs \in 0..MaxRuns

\* The number of submissions.
LEMMA ReachIs == Submitted \subseteq Editors /\ Reach \in Nat \ {0} /\ Reach <= Cardinality(Editors) + 1
<1>1. Submitted \subseteq Editors /\ IsFiniteSet(Editors)
  BY EditorAssumption DEF Submitted
<1>2. IsFiniteSet(Submitted) /\ Cardinality(Submitted) <= Cardinality(Editors)
  BY <1>1, FS_Subset
<1>3. Cardinality(Submitted) \in Nat /\ Cardinality(Editors) \in Nat
  BY <1>1, <1>2, FS_CardinalityType
<1> QED
  BY <1>1, <1>2, <1>3 DEF Reach

\* It does not go down, and a submission makes it one more.
LEMMA ReachGrows ==
  ASSUME Submitted \subseteq Submitted', Submitted' \subseteq Editors
  PROVE  /\ Reach' \in Nat \ {0} /\ Reach <= Reach'
         /\ \A e \in Editors \ Submitted : Submitted' = Submitted \cup {e} => Reach' = Reach + 1
<1>1. IsFiniteSet(Submitted') /\ IsFiniteSet(Submitted)
  BY EditorAssumption, FS_Subset
<1>2. Cardinality(Submitted) <= Cardinality(Submitted')
  BY <1>1, FS_Subset
<1>3. Cardinality(Submitted) \in Nat /\ Cardinality(Submitted') \in Nat
  BY <1>1, FS_CardinalityType
<1>4. ASSUME NEW e \in Editors \ Submitted, Submitted' = Submitted \cup {e}
      PROVE  Cardinality(Submitted') = Cardinality(Submitted) + 1
  BY <1>1, <1>4, FS_AddElement
<1> QED
  BY <1>2, <1>3, <1>4 DEF Reach

\* A submission makes one version, beyond the target.
LEMMA EditorNumbers ==
  ASSUME Inv, Views, Numbers, NEW e \in Editors, Load(e) \/ Submit(e) \/ Enqueue(e)
  PROVE  Numbers'
<1> USE DEF Numbers
<1>1. /\ rev = [f \in Editors |-> rev[f]] /\ pc = [f \in Editors |-> pc[f]]
      /\ view = [f \in Editors |-> view[f]]
  BY DEF Inv, Types, Views
<1>2. applied' = applied /\ runs' = runs
  BY DEF Load, Submit, Enqueue, work, reg
<1>3. Reach \in Nat \ {0}
  BY ReachIs
<1>4. CASE Load(e)
  <2>1. graph' = graph /\ rev' = rev
    BY <1>4 DEF Load
  <2>2. Reach' = Reach
    BY <2>1 DEF Reach, Submitted
  <2>3. view' = [view EXCEPT ![e] = Shown] /\ pc' = [pc EXCEPT ![e] = "submit"] /\ pc[e] = "load"
    BY <1>4 DEF Load
  <2>4. \A f \in Editors : view'[f].version \in 1..Reach
    BY <1>1, <2>3 DEF Shown
  <2>5. \A f \in Editors : pc'[f] \in {"load", "submit"} => pc[f] \in {"load", "submit"}
    BY <1>1, <2>3
  <2> QED
    BY <1>2, <2>1, <2>2, <2>4, <2>5
<1>5. CASE Submit(e)
  <2>1. view' = view /\ pc[e] = "submit"
    BY <1>5 DEF Submit
  <2>2. CASE UNCHANGED <<graph, rev>>
    <3>1. Reach' = Reach
      BY <2>2 DEF Reach, Submitted
    <3>2. \A f \in Editors : pc'[f] \in {"load", "submit"} => pc[f] \in {"load", "submit"}
      BY <1>1, <1>5, <2>1 DEF Submit
    <3> QED
      BY <1>2, <2>1, <2>2, <3>1, <3>2
  <2>3. CASE ~UNCHANGED <<graph, rev>>
    <3>1. PICK new, client :
                /\ rev' = [rev EXCEPT ![e] =
                     [status |-> "Pending", base |-> graph.version, to |-> Target + 1,
                      seen |-> graph.schema, client |-> client, new |-> new,
                      known |-> applied, failed |-> 0]]
                /\ graph' = [graph EXCEPT !.target = Target + 1]
                /\ pc' = [pc EXCEPT ![e] = "enqueue"]
      BY <1>5, <2>3 DEF Submit
    <3>2. /\ rev'[e].status = "Pending" /\ rev'[e].base = graph.version /\ rev'[e].to = Target + 1
          /\ rev'[e].known = applied /\ pc'[e] = "enqueue"
          /\ \A f \in Editors \ {e} : rev'[f] = rev[f] /\ pc'[f] = pc[f]
      BY <1>1, <3>1
    <3>3. e \notin Submitted /\ Submitted' = Submitted \cup {e}
      BY <2>1, <3>2 DEF Submitted, None
    <3>4. Reach' = Reach + 1
      BY <3>3, ReachGrows, ReachIs
    <3>5. graph'.version = graph.version /\ graph'.target = Target + 1
      BY <3>1 DEF Inv, Types
    <3>6. {graph.version, Target + 1} \subseteq 1..Reach'
      BY <1>3, <3>4 DEF Target
    <3>7. \A n : n \in 1..Reach => n \in 1..Reach'
      BY <1>3, <3>4
    <3>8. \A f \in Editors : {rev'[f].base, rev'[f].to, view[f].version} \subseteq 1..Reach'
      BY <3>2, <3>6, <3>7
    <3>9. \A f \in Editors :
            /\ pc'[f] \in {"load", "submit"} => rev'[f].status = None
            /\ rev'[f].known \subseteq Editors
            /\ rev'[f].status \in {None, "Pending", "Applying", "Applied", "Failed"}
      BY <3>2
    <3> QED
      BY <1>2, <2>1, <3>5, <3>6, <3>8, <3>9
  <2> QED
    BY <2>2, <2>3
<1>6. CASE Enqueue(e)
  <2>1. UNCHANGED <<graph, rev, view>> /\ Reach' = Reach
    BY <1>6 DEF Enqueue, Reach, Submitted
  <2>2. \A f \in Editors : pc'[f] \in {"load", "submit"} => pc[f] \in {"load", "submit"}
    BY <1>1, <1>6 DEF Enqueue
  <2> QED
    BY <1>2, <2>1, <2>2
<1> QED
  BY <1>4, <1>5, <1>6

\* What the rest of the system does makes no version.
LEMMA OtherNumbers ==
  ASSUME Inv, Views, Numbers, Next, ~Edit
  PROVE  Numbers'
<1> USE DEF Numbers
<1> DEFINE r == Head(chain)
<1>1. view' = view /\ pc' = pc /\ runs' \in 0..MaxRuns
  BY OtherSteps, BoundAssumption
<1>2. rev = [f \in Editors |-> rev[f]] /\ \A f \in Editors : IsRev(rev[f])
  BY DEF Inv, Types
<1>3. chain # <<>> => r \in Editors /\ pc[r] = "done"
  BY HeadTail DEF Inv, Types, Queued
<1>4. \/ rev' = rev
      \/ /\ chain # <<>>
         /\ \/ \E s \in {"Applying", "Applied", "Failed"} : rev' = [rev EXCEPT ![r].status = s]
            \/ \E n : rev' = [rev EXCEPT ![r].failed = n]
            \/ \E n : rev' = [rev EXCEPT ![r].new = n]
  <2>1. CASE Start
    <3>1. rev' = [rev EXCEPT ![r].status = IF @ = "Pending" THEN "Applying" ELSE @] /\ chain # <<>>
      BY <2>1 DEF Start, Processing
    <3>2. CASE rev[r].status = "Pending"
      BY <1>2, <1>3, <3>1, <3>2
    <3>3. CASE rev[r].status # "Pending"
      <4>1. \A f \in Editors : rev'[f] = rev[f]
        BY <1>2, <1>3, <3>1, <3>3 DEF IsRev
      <4>2. rev' = [f \in Editors |-> rev'[f]]
        BY <1>2, <3>1
      <4> QED
        BY <1>2, <4>1, <4>2
    <3> QED
      BY <3>2, <3>3
  <2>2. CASE Remerge
    BY <2>2 DEF Remerge, Processing
  <2>3. CASE Finalize
    BY <2>3 DEF Finalize, Processing
  <2>4. CASE Fail \/ FailStops
    BY <2>4 DEF Fail, FailWrites, FailStops, Stops, Failing, Processing
  <2> QED
    BY <2>1, <2>2, <2>3, <2>4, OtherSteps
<1>5. \A f \in Editors :
        /\ rev'[f].base = rev[f].base /\ rev'[f].to = rev[f].to /\ rev'[f].known = rev[f].known
        /\ \/ rev'[f].status = rev[f].status
           \/ pc[f] = "done" /\ rev'[f].status \in {"Applying", "Applied", "Failed"}
  <2>1. CASE rev' = rev
    BY <2>1
  <2>2. ASSUME chain # <<>>, NEW s \in {"Applying", "Applied", "Failed"},
               rev' = [rev EXCEPT ![r].status = s]
        PROVE  \A f \in Editors :
                 /\ rev'[f].base = rev[f].base /\ rev'[f].to = rev[f].to /\ rev'[f].known = rev[f].known
                 /\ rev'[f].status = IF f = r THEN s ELSE rev[f].status
    BY <1>2, <1>3, <2>2 DEF IsRev
  <2>3. ASSUME chain # <<>>, NEW n,
               rev' = [rev EXCEPT ![r].new = n] \/ rev' = [rev EXCEPT ![r].failed = n]
        PROVE  \A f \in Editors :
                 /\ rev'[f].base = rev[f].base /\ rev'[f].to = rev[f].to /\ rev'[f].known = rev[f].known
                 /\ rev'[f].status = rev[f].status
    <3>1. CASE rev' = [rev EXCEPT ![r].new = n]
      BY <1>2, <1>3, <2>3, <3>1 DEF IsRev
    <3>2. CASE rev' = [rev EXCEPT ![r].failed = n]
      BY <1>2, <1>3, <2>3, <3>2 DEF IsRev
    <3> QED
      BY <2>3, <3>1, <3>2
  <2> QED
    BY <1>3, <1>4, <2>1, <2>2, <2>3
<1>6. Submitted \subseteq Submitted' /\ Submitted' \subseteq Editors
  BY <1>5 DEF Submitted, None
<1>7. \A n : n \in 1..Reach => n \in 1..Reach'
  BY <1>6, ReachGrows, ReachIs
<1>8. {graph'.version, graph'.target} \subseteq 1..Reach
  <2>1. graph.version \in 1..Reach /\ graph.target \in 1..Reach
    OBVIOUS
  <2>2. CASE Finalize
    <3>1. rev[r].to \in 1..Reach
      BY <1>3, <2>2 DEF Finalize, Processing
    <3>2. graph'.version = rev[r].to /\ graph'.target \in {rev[r].to, graph.target}
      BY <2>2 DEF Finalize
    <3> QED
      BY <2>1, <3>1, <3>2
  <2>3. CASE Fail
    <3>1. graph' = graph \/ graph' = [graph EXCEPT !.target = graph.version]
      BY <2>3 DEF Fail, FailWrites, Inv, Types
    <3> QED
      BY <2>1, <3>1 DEF Inv, Types
  <2> QED
    BY <2>1, <2>2, <2>3, OtherSteps
<1>9. applied' \subseteq Editors
  <2>1. CASE Finalize
    BY <1>3, <2>1 DEF Finalize, Processing
  <2> QED
    BY <2>1, OtherSteps
<1>10. \A f \in Editors : /\ pc[f] \in {"load", "submit"} => rev'[f].status = None
                          /\ rev'[f].status \in {None, "Pending", "Applying", "Applied", "Failed"}
                          /\ rev'[f].known \subseteq Editors
  BY <1>5
<1>11. \A f \in Editors : {rev'[f].base, rev'[f].to, view[f].version} \subseteq 1..Reach'
  BY <1>5, <1>7
<1>12. {graph'.version, graph'.target} \subseteq 1..Reach'
  BY <1>7, <1>8
<1> QED
  BY <1>1, <1>9, <1>10, <1>11, <1>12
---------------------------------------------------------------------------
(* A job is in one place, once; and it is not queued again when its attempts are used up. *)

Occurs == Range(queue) \cup later \cup Range(chain) \cup dead
Once ==
  /\ IsInjective(queue) /\ IsInjective(chain)
  /\ Range(queue) \cap later = {} /\ Range(queue) \cap Range(chain) = {} /\ Range(queue) \cap dead = {}
  /\ later \cap Range(chain) = {} /\ later \cap dead = {} /\ Range(chain) \cap dead = {}
Attempts ==
  /\ \A e \in Editors : rev[e].failed \in 0..MaxAttempts /\ (pc[e] # "done" => rev[e].failed = 0)
  /\ \A e \in Occurs : rev[e].failed < MaxAttempts

\* The jobs are of editors who are done.
LEMMA OccursQueued ==
  ASSUME Inv
  PROVE  Occurs \subseteq Queued
<1>1. \A s \in Seq(Queued) : Range(s) \subseteq Queued
  BY DEF Range
<1> QED
  BY <1>1 DEF Occurs, Inv, Types

\* What moves a job.
LEMMA JobSteps ==
  ASSUME Next
  PROVE  \/ \E e \in Editors : Enqueue(e)
         \/ Take \/ Returns \/ Acknowledge \/ FailStops \/ Crash
         \/ UNCHANGED jobs
<1>1. CASE Edit
  BY <1>1 DEF Edit, Load, Submit
<1>2. CASE ~Edit
  BY <1>2, StepIs
  DEF Edit, Start, Remerge, Wait, Update, Reads, FinalizeReads, FailReads, Finalize, Ends, Fail, FailWrites,
      RunReads, Register, Compile, Destroy, jobs
<1> QED
  BY <1>1, <1>2

\* A job of nobody else's comes in; the others move.
LEMMA MovesOnce ==
  ASSUME Inv, Once, Next
  PROVE  /\ Once'
         /\ \/ Occurs' \subseteq Occurs
            \/ \E e \in Editors : Enqueue(e) /\ Occurs' = Occurs \cup {e}
         /\ FailStops => \/ Occurs' = Occurs \ {Head(chain)}
                         \/ Occurs' = Occurs /\ rev[Head(chain)].failed + 1 < MaxAttempts
<1> DEFINE r == Head(chain)
<1>1. /\ queue \in Seq(Editors) /\ chain \in Seq(Editors)
      /\ later \subseteq Editors /\ dead \subseteq Editors
  <2>1. Queued \subseteq Editors
    BY DEF Queued
  <2> QED
    BY <2>1, SeqGrows DEF Inv, Types
<1>2. ASSUME NEW e \in Editors, Enqueue(e)
      PROVE  Once' /\ Occurs' = Occurs \cup {e}
  <2>1. e \notin Occurs
    BY <1>2, OccursQueued DEF Enqueue, Queued
  <2>2. /\ Range(queue') = Range(queue) \cup {e}
        /\ IsInjective(queue) /\ e \notin Range(queue) => IsInjective(queue')
    BY <1>1, <1>2, AppendOnce DEF Enqueue
  <2>3. later' = later /\ chain' = chain /\ dead' = dead
    BY <1>2 DEF Enqueue
  <2> QED
    BY <2>1, <2>2, <2>3 DEF Once, Occurs
<1>3. ASSUME Take
      PROVE  Once' /\ Occurs' = Occurs
  <2> DEFINE h == Head(queue)
  <2>1. /\ queue # <<>> /\ h \in Editors /\ queue' = Tail(queue) /\ chain' = Append(chain, h)
        /\ later' = later /\ dead' = dead
    BY <1>1, <1>3 DEF Take
  <2>2. /\ Range(queue) = Range(queue') \cup {h}
        /\ IsInjective(queue) => IsInjective(queue') /\ h \notin Range(queue')
    BY <1>1, <2>1, TailOnce
  <2>3. /\ Range(chain') = Range(chain) \cup {h}
        /\ IsInjective(chain) /\ h \notin Range(chain) => IsInjective(chain')
    BY <1>1, <2>1, AppendOnce
  <2> HIDE DEF h
  <2> QED
    BY <2>1, <2>2, <2>3 DEF Once, Occurs
<1>4. ASSUME NEW e \in Editors, Retry(e)
      PROVE  Once' /\ Occurs' = Occurs
  <2>1. /\ Range(queue') = Range(queue) \cup {e}
        /\ IsInjective(queue) /\ e \notin Range(queue) => IsInjective(queue')
    BY <1>1, <1>4, AppendOnce DEF Retry
  <2>2. e \in later /\ later' = later \ {e} /\ chain' = chain /\ dead' = dead
    BY <1>4 DEF Retry
  <2> QED
    BY <2>1, <2>2 DEF Once, Occurs
<1>5. ASSUME NEW e \in Editors, GiveBack(e)
      PROVE  Once' /\ Occurs' \subseteq Occurs
  <2>1. \/ queue' = queue
        \/ /\ Range(queue') = Range(queue) \cup {e}
           /\ IsInjective(queue) /\ e \notin Range(queue) => IsInjective(queue')
    BY <1>1, <1>5, FrontOnce DEF GiveBack
  <2>2. e \in dead /\ dead' = dead \ {e} /\ chain' = chain /\ later' = later
    BY <1>5 DEF GiveBack
  <2>3. CASE queue' = queue
    BY <2>2, <2>3 DEF Once, Occurs
  <2>4. CASE queue' # queue
    BY <2>1, <2>2, <2>4 DEF Once, Occurs
  <2> QED
    BY <2>3, <2>4
<1>6. ASSUME Acknowledge \/ FailStops
      PROVE  /\ Once' /\ Occurs' \subseteq Occurs
             /\ FailStops => Occurs' = Occurs \ {r} \/ (Occurs' = Occurs /\ rev[r].failed + 1 < MaxAttempts)
  <2>1. /\ chain # <<>> /\ chain' = Tail(chain) /\ queue' = queue /\ dead' = dead
        /\ later' = later \/ (later' = later \cup {r} /\ rev[r].failed + 1 < MaxAttempts)
    BY <1>6 DEF Acknowledge, FailStops, Stops, Failing, Processing, Leave
  <2>2. /\ Range(chain) = Range(chain') \cup {r}
        /\ IsInjective(chain) => IsInjective(chain') /\ r \notin Range(chain')
    BY <1>1, <2>1, TailOnce
  <2> HIDE DEF r
  <2>3. CASE later' = later
    <3>1. Once' /\ Occurs' = Occurs \ {r}
      BY <2>1, <2>2, <2>3 DEF Once, Occurs
    <3> QED
      BY <3>1
  <2>4. CASE later' = later \cup {r} /\ rev[r].failed + 1 < MaxAttempts
    <3>1. Once' /\ Occurs' = Occurs
      BY <2>1, <2>2, <2>4 DEF Once, Occurs
    <3> QED
      BY <2>4, <3>1
  <2> QED
    BY <2>1, <2>3, <2>4
<1>7. ASSUME Crash
      PROVE  Once' /\ Occurs' = Occurs
  <2>1. dead' = dead \cup Range(chain) /\ chain' = <<>> /\ queue' = queue /\ later' = later
    BY <1>7 DEF Crash
  <2>2. Range(chain') = {} /\ IsInjective(chain')
    BY <2>1 DEF Range, IsInjective
  <2> QED
    BY <2>1, <2>2 DEF Once, Occurs
<1>8. ASSUME UNCHANGED jobs
      PROVE  Once' /\ Occurs' = Occurs
  BY <1>8 DEF jobs, Once, Occurs
<1>9. CASE Acknowledge \/ FailStops
  BY <1>6, <1>9
<1>10. CASE ~(Acknowledge \/ FailStops)
  BY <1>2, <1>3, <1>4, <1>5, <1>7, <1>8, <1>10, JobSteps DEF Returns
<1> QED
  BY <1>9, <1>10

\* A failure is counted once, and a job whose attempts are used up is gone.
LEMMA NextAttempts ==
  ASSUME Inv, Once, Attempts, Next
  PROVE  Attempts'
<1> DEFINE r == Head(chain)
<1> USE DEF Attempts
<1>1. rev = [f \in Editors |-> rev[f]] /\ (\A f \in Editors : IsRev(rev[f])) /\ pc = [f \in Editors |-> pc[f]]
  BY DEF Inv, Types
<1>2. MaxAttempts \in Nat \ {0}
  BY BoundAssumption
<1>3. Occurs \subseteq Queued /\ Queued \subseteq Editors
  BY OccursQueued DEF Queued
<1>4. chain # <<>> => r \in Occurs
  <2>1. chain # <<>> => r \in Range(chain)
    BY TailOnce DEF Inv, Types
  <2> QED
    BY <2>1 DEF Occurs
<1>5. CASE FailStops
  <2>1. chain # <<>> /\ pc' = pc /\ rev' = [rev EXCEPT ![r].failed = @ + 1]
    BY <1>5 DEF FailStops, Stops, Failing, Processing
  <2>2. \A f \in Editors : /\ rev'[f].failed = IF f = r THEN rev[f].failed + 1 ELSE rev[f].failed
                           /\ pc'[f] = pc[f]
    BY <1>1, <2>1 DEF IsRev
  <2>3. rev[r].failed < MaxAttempts /\ rev[r].failed \in 0..MaxAttempts /\ pc[r] = "done" /\ r \in Editors
    BY <1>3, <1>4, <2>1 DEF Queued
  <2>4. \/ Occurs' = Occurs \ {r}
        \/ Occurs' = Occurs /\ rev[r].failed + 1 < MaxAttempts
    BY <1>5, MovesOnce
  <2>5. \A f \in Editors : rev'[f].failed \in 0..MaxAttempts /\ (pc'[f] # "done" => rev'[f].failed = 0)
    <3> HIDE DEF r
    <3>1. \A n \in 0..MaxAttempts : n < MaxAttempts => n + 1 \in 0..MaxAttempts
      BY <1>2
    <3> QED
      BY <2>2, <2>3, <3>1
  <2>6. \A f \in Occurs' : rev'[f].failed < MaxAttempts
    BY <1>3, <2>2, <2>4
  <2> QED
    BY <2>5, <2>6
<1>6. CASE ~FailStops
  <2>1. \A f \in Editors : /\ rev'[f].failed \in {rev[f].failed, 0}
                           /\ pc'[f] # "done" => pc[f] # "done"
    <3>1. CASE Edit
      BY <1>1, <3>1 DEF Edit, Load, Submit, Enqueue
    <3>2. CASE Start \/ Remerge \/ Finalize \/ Fail
      <4>1. chain # <<>> /\ r \in Editors /\ pc' = pc
        BY <1>3, <1>4, <3>2 DEF Start, Remerge, Finalize, Fail, FailWrites, Failing, Processing
      <4>2. \/ rev' = rev
            \/ \E s : rev' = [rev EXCEPT ![r].status = s]
            \/ \E n : rev' = [rev EXCEPT ![r].new = n]
        BY <3>2 DEF Start, Remerge, Finalize, Fail, FailWrites
      <4>3. CASE \E s : rev' = [rev EXCEPT ![r].status = s]
        BY <1>1, <4>1, <4>3 DEF IsRev
      <4>4. CASE \E n : rev' = [rev EXCEPT ![r].new = n]
        BY <1>1, <4>1, <4>4 DEF IsRev
      <4> QED
        BY <4>1, <4>2, <4>3, <4>4
    <3>3. CASE ~Edit /\ rev' = rev
      BY <3>3, OtherSteps
    <3> QED
      BY <1>6, <3>1, <3>2, <3>3, OtherSteps
  <2>2. \/ Occurs' \subseteq Occurs
        \/ \E e \in Editors : Enqueue(e) /\ Occurs' = Occurs \cup {e}
    BY <1>6, MovesOnce
  <2>3. \A e \in Editors : Enqueue(e) => rev[e].failed = 0
    BY DEF Enqueue
  <2>4. \A f \in Editors : rev'[f].failed \in 0..MaxAttempts /\ (pc'[f] # "done" => rev'[f].failed = 0)
    BY <1>2, <2>1
  <2>5. \A f \in Occurs' : rev'[f].failed < MaxAttempts
    BY <1>2, <1>3, <2>1, <2>2, <2>3
  <2> QED
    BY <2>4, <2>5
<1> QED
  BY <1>5, <1>6
---------------------------------------------------------------------------
(* The types: every schema is a schema, every version within the submissions, every
   number of attempts within those of a job. *)

TInv == Inv /\ Views /\ Schemas /\ Numbers /\ Once /\ Attempts

\* Initially all is as it is created.
LEMMA InitTypes == Init => TInv
<1> SUFFICES ASSUME Init PROVE TInv
  OBVIOUS
<1>1. Inv
  BY InitInv
<1>2. Views
  BY <1>1 DEF Init, Views, IsView, Shown, Inv, Types
<1>3. Schemas
  <2>1. Initial \in SchemaOver(Known)
    BY InitialIs, SchemaGrows DEF Known
  <2> QED
    BY <2>1 DEF Init, Schemas, NoRev, NoLive, Idle, Shown
<1>4. Numbers
  BY ReachIs, BoundAssumption DEF Init, Numbers, NoRev, Shown
<1>5. Once /\ Attempts
  <2>1. queue = <<>> /\ later = {} /\ chain = <<>> /\ dead = {}
    BY DEF Init
  <2>2. Range(<<>>) = {} /\ IsInjective(<<>>)
    BY DEF Range, IsInjective
  <2>3. \A e \in Editors : rev[e].failed = 0
    BY DEF Init, NoRev
  <2> QED
    BY <2>1, <2>2, <2>3, BoundAssumption DEF Once, Attempts, Occurs
<1> QED
  BY <1>1, <1>2, <1>3, <1>4, <1>5 DEF TInv

\* Every step keeps TInv.
LEMMA NextTypes == TInv /\ [Next]_vars => TInv'
<1> SUFFICES ASSUME TInv, [Next]_vars PROVE TInv'
  OBVIOUS
<1> USE DEF TInv
<1>1. Inv'
  BY NextInv
<1>2. CASE Next
  <2>1. Views' /\ Schemas'
    <3>1. CASE Edit
      BY <3>1, EditorSchemas DEF Edit
    <3>2. CASE Take \/ Returns \/ Start \/ Remerge \/ Wait \/ Update \/ Reads \/ Finalize \/ Ends
      BY <3>2, WorkerSchemas
    <3>3. CASE RunReads \/ Register \/ Compile \/ Destroy \/ Crash
      BY <3>3, RegistrySchemas
    <3> QED
      BY <1>2, <3>1, <3>2, <3>3, StepIs DEF Edit
  <2>2. Numbers'
    BY <1>2, EditorNumbers, OtherNumbers DEF Edit
  <2>3. Once' /\ Attempts'
    BY <1>2, MovesOnce, NextAttempts
  <2> QED
    BY <1>1, <2>1, <2>2, <2>3
<1>3. CASE UNCHANGED vars
  BY <1>1, <1>3
  DEF vars, row, jobs, work, reg, Views, IsView, Schemas, Known, Numbers, Reach, Submitted, Once, Attempts, Occurs
<1> QED
  BY <1>2, <1>3

THEOREM TypesInductive == Spec => []TInv
<1> QED
  BY InitTypes, NextTypes, PTL DEF Spec

\* What TInv says of the parts is what TypeOK says.
LEMMA TypesFit == TInv => TypeOK
<1> SUFFICES ASSUME TInv PROVE TypeOK
  OBVIOUS
<1> USE DEF TInv
<1>1. \A s \in SchemaOver(Known) : IsSchema(s)
  <2>1. Known \subseteq Nodes
    BY DEF Known, Nodes
  <2> QED
    BY <2>1, SchemaGrows DEF IsSchema, SchemaOver, NodeOf
<1>2. 1..Reach \subseteq Versions
  <2>1. Cardinality(Editors) \in Nat
    BY EditorAssumption, FS_CardinalityType
  <2> QED
    BY <2>1, ReachIs DEF Versions
<1>3. IsRow(graph)
  BY <1>1, <1>2 DEF Inv, Types, Schemas, Numbers, IsRow
<1>4. \A e \in Editors : IsSchema(view[e].schema)
  BY <1>1 DEF Schemas
<1>5. \A e \in Editors :
        /\ rev[e].status \in {None, "Pending", "Applying", "Applied", "Failed"}
        /\ {rev[e].base, rev[e].to} \subseteq Versions
        /\ rev[e].known \subseteq Editors /\ rev[e].failed \in 0..MaxAttempts
  BY <1>2 DEF Numbers, Attempts
<1>6. \A e \in Editors : \A s \in {rev[e].seen, rev[e].client, rev[e].new} : IsSchema(s)
  BY <1>1 DEF Schemas
<1>7. {queue, chain} \subseteq Seq(Editors) /\ UNION {later, dead, stalled, applied} \subseteq Editors
  <2>1. Queued \subseteq Editors
    BY DEF Queued
  <2>2. queue \in Seq(Editors) /\ chain \in Seq(Editors)
    BY <2>1, SeqGrows DEF Inv, Types
  <2>3. later \subseteq Editors /\ dead \subseteq Editors /\ stalled \subseteq Editors
    BY <2>1 DEF Inv, Types
  <2>4. applied \subseteq Editors
    BY DEF Numbers
  <2> QED
    BY <2>2, <2>3, <2>4
<1>8. (base = NoMerge \/ IsSchema(base)) /\ IsSchema(live.schema) /\ IsSchema(runner.schema)
  BY <1>1 DEF Schemas
<1>9. /\ live.status \in {None, "Compiling", "Running"} /\ runner.at \in {None, "register", "compile"}
      /\ \A e \in Editors : pc[e] \in {"load", "submit", "enqueue", "done"}
      /\ step \in {"idle", "merge", "live", "wait", "final", "ack", "reject", "error"}
      /\ fix \in {"unread", "write", "leave", "saved"}
  BY DEF Inv, Types, IsLive, IsRunner, NoLive, Idle, Steps, Fixes
<1>10. runs \in 0..MaxRuns
  BY DEF Numbers
<1> QED
  BY <1>3, <1>4, <1>5, <1>6, <1>7, <1>8, <1>9, <1>10 DEF TypeOK

(* The records are what they should be, for every number of editors, attempts,
   runs and jobs at once and under all the faults: every schema that is stored,
   read or compiled has a node for an id at most, though merged twice and by
   index; a version is never beyond the submissions there were, though the target
   is set back and made again; and a job fails no more often than it may be tried. *)
THEOREM TypeCorrect == Spec => []TypeOK
<1> QED
  BY TypesInductive, TypesFit, PTL
---------------------------------------------------------------------------
(* The order of the versions *)

\* A revision that has been given out once, and whose version is meant for no other.
Sure(v) == v \in Submitted /\ ~Again(v) /\ Unambiguous(rev[v].to)
Before(s, v, x) == \A i, j \in DOMAIN s : s[i] = v /\ s[j] = x => i < j

\* Until v is over, x is behind it.
Behind(v, x) ==
  /\ pc[v] # "enqueue"
  /\ v \in Range(queue) => x \notin Range(chain) \cup later \cup dead \cup applied /\ Before(queue, v, x)
  /\ v \in Range(chain) => x \notin later \cup dead \cup applied /\ Before(chain, v, x)

\* A version is some submission's, and so is each below it: one that is made again is
\* meant for two.
Made == {1} \cup {rev[e].to : e \in Submitted}
Lined ==
  /\ graph.target \in Made /\ \A e \in Submitted : 2..rev[e].to \subseteq Made
  /\ graph.version = 1 \/ \E e \in applied : graph.version = rev[e].to
  /\ applied \cup Occurs \cup {e \in Editors : pc[e] = "enqueue"} \subseteq Submitted
  /\ \A e \in later : rev[e].failed > 0
  /\ \A v, x \in Submitted : Sure(v) /\ rev[v].to < rev[x].to => Behind(v, x)

LEMMA BeforeAppend ==
  ASSUME NEW S, NEW s \in Seq(S), NEW y \in S, NEW v, NEW x, Before(s, v, x), x # v,
         y = v => x \notin Range(s)
  PROVE  Before(Append(s, y), v, x)
<1> DEFINE t == Append(s, y)
<1>1. /\ DOMAIN s = 1 .. Len(s) /\ Len(s) \in Nat /\ DOMAIN t = 1 .. Len(s) + 1
      /\ \A i \in 1 .. Len(s) : t[i] = s[i]
      /\ t[Len(s) + 1] = y
  OBVIOUS
<1> HIDE DEF t
<1> SUFFICES ASSUME NEW i \in DOMAIN t, NEW j \in DOMAIN t, t[i] = v, t[j] = x PROVE i < j
  BY DEF Before, t
<1>2. CASE i = Len(s) + 1
  <2>1. y = v /\ j \in DOMAIN s /\ s[j] = x
    BY <1>1, <1>2
  <2> QED
    BY <2>1 DEF Range
<1>3. CASE i # Len(s) + 1
  <2>1. i \in DOMAIN s /\ s[i] = v
    BY <1>1, <1>3
  <2>2. CASE j = Len(s) + 1
    BY <1>1, <2>1, <2>2
  <2>3. CASE j # Len(s) + 1
    <3>1. j \in DOMAIN s /\ s[j] = x
      BY <1>1, <2>3
    <3> QED
      BY <2>1, <3>1 DEF Before
  <2> QED
    BY <2>2, <2>3
<1> QED
  BY <1>2, <1>3

LEMMA BeforeTail ==
  ASSUME NEW S, NEW s \in Seq(S), s # <<>>, NEW v, NEW x, Before(s, v, x)
  PROVE  Before(Tail(s), v, x) /\ (v \in Range(s) => Head(s) # x)
<1> DEFINE t == Tail(s)
<1>1. /\ DOMAIN s = 1 .. Len(s) /\ Len(s) \in Nat \ {0} /\ DOMAIN t = 1 .. Len(s) - 1
      /\ \A i \in 1 .. Len(s) - 1 : t[i] = s[i + 1]
      /\ s[1] = Head(s)
  OBVIOUS
<1> HIDE DEF t
<1>2. Before(t, v, x)
  <2> SUFFICES ASSUME NEW i \in DOMAIN t, NEW j \in DOMAIN t, t[i] = v, t[j] = x PROVE i < j
    BY DEF Before
  <2>1. i + 1 \in DOMAIN s /\ j + 1 \in DOMAIN s /\ s[i + 1] = v /\ s[j + 1] = x /\ i \in Nat /\ j \in Nat
    BY <1>1
  <2>2. i + 1 < j + 1
    BY <2>1 DEF Before
  <2> QED
    BY <2>1, <2>2
<1>3. ASSUME v \in Range(s), Head(s) = x PROVE FALSE
  <2>1. PICK i \in DOMAIN s : s[i] = v
    BY <1>3 DEF Range
  <2>2. 1 \in DOMAIN s /\ s[1] = x /\ i >= 1
    BY <1>1, <1>3, <2>1
  <2>3. i < 1
    BY <2>1, <2>2 DEF Before
  <2> QED
    BY <1>1, <2>1, <2>2, <2>3
<1> QED
  BY <1>2, <1>3 DEF t

LEMMA BeforeFront ==
  ASSUME NEW S, NEW s \in Seq(S), NEW y \in S, NEW v, NEW x, Before(s, v, x), x # v, x # y
  PROVE  Before(<<y>> \o s, v, x)
<1> DEFINE t == <<y>> \o s
<1>1. t \in Seq(S) /\ Len(t) = Len(s) + 1 /\ t[1] = y /\ \A i \in 1 .. Len(s) : t[i + 1] = s[i]
  BY FrontIs
<1>2. DOMAIN s = 1 .. Len(s) /\ Len(s) \in Nat
  OBVIOUS
<1> HIDE DEF t
<1> SUFFICES ASSUME NEW i \in DOMAIN t, NEW j \in DOMAIN t, t[i] = v, t[j] = x PROVE i < j
  BY DEF Before, t
<1>3. i \in 1 .. Len(s) + 1 /\ j \in 1 .. Len(s) + 1 /\ j # 1
  BY <1>1, <1>2
<1>4. j - 1 \in DOMAIN s /\ s[j - 1] = x
  <2>1. j - 1 \in 1 .. Len(s) /\ (j - 1) + 1 = j
    BY <1>2, <1>3
  <2> QED
    BY <1>1, <1>2, <2>1
<1>5. CASE i = 1
  BY <1>2, <1>3, <1>5
<1>6. CASE i # 1
  <2>1. i - 1 \in 1 .. Len(s) /\ (i - 1) + 1 = i
    BY <1>2, <1>3, <1>6
  <2>2. s[i - 1] = v
    BY <1>1, <2>1
  <2>3. i - 1 < j - 1
    BY <1>2, <1>4, <2>1, <2>2 DEF Before
  <2> QED
    BY <1>2, <1>3, <2>3
<1> QED
  BY <1>5, <1>6

LEMMA BeforeNone ==
  ASSUME NEW s, NEW v, NEW x, v \notin Range(s) \/ x \notin Range(s)
  PROVE  Before(s, v, x)
BY DEF Before, Range

\* Only a submission makes a revision, and what is failed stays failed.
LEMMA SubmittedStays ==
  ASSUME TInv, Lined, Next, ~\E e \in Editors : Submit(e)
  PROVE  /\ Submitted' = Submitted
         /\ \A f \in Editors : rev'[f].to = rev[f].to /\ (rev[f].failed > 0 => rev'[f].failed > 0)
<1> DEFINE r == Head(chain)
<1>1. rev = [f \in Editors |-> rev[f]] /\ \A f \in Editors : IsRev(rev[f]) /\ rev[f].failed \in Nat
  BY BoundAssumption DEF TInv, Inv, Types, Attempts
<1>2. CASE rev' = rev
  BY <1>2 DEF Submitted
<1>3. CASE rev' # rev
  <2>1. Start \/ Remerge \/ Finalize \/ Fail \/ FailStops
    <3>1. ~Edit
      BY <1>3 DEF Edit, Load, Enqueue
    <3> QED
      BY <1>3, <3>1, OtherSteps
  <2>2. r \in Editors /\ rev[r].status # None
    <3>1. chain # <<>>
      BY <2>1 DEF Start, Remerge, Finalize, Fail, FailWrites, FailStops, Stops, Failing, Processing
    <3>2. r \in Range(chain)
      BY <3>1, RangeIs DEF TInv, Inv, Types
    <3> QED
      BY <3>2 DEF Lined, Occurs, Submitted
  <2>3. \/ \E s : s # None /\ rev' = [rev EXCEPT ![r].status = s]
        \/ \E s : rev' = [rev EXCEPT ![r].new = s]
        \/ rev' = [rev EXCEPT ![r].failed = @ + 1]
    BY <1>1, <1>3, <2>1, <2>2 DEF Start, Remerge, Finalize, Fail, FailWrites, FailStops, Stops, None
  <2>4. \A f \in Editors : /\ rev'[f].to = rev[f].to /\ (rev[f].failed > 0 => rev'[f].failed > 0)
                           /\ (rev'[f].status = None) = (rev[f].status = None)
    <3>1. CASE \E s : s # None /\ rev' = [rev EXCEPT ![r].status = s]
      BY <1>1, <2>2, <3>1 DEF IsRev
    <3>2. CASE \E s : rev' = [rev EXCEPT ![r].new = s]
      BY <1>1, <2>2, <3>2 DEF IsRev
    <3>3. CASE rev' = [rev EXCEPT ![r].failed = @ + 1]
      <4>1. rev'[r] = [rev[r] EXCEPT !.failed = @ + 1] /\ \A f \in Editors \ {r} : rev'[f] = rev[f]
        BY <1>1, <2>2, <3>3
      <4>2. rev'[r].failed = rev[r].failed + 1 /\ rev'[r].to = rev[r].to /\ rev'[r].status = rev[r].status
        BY <1>1, <2>2, <4>1 DEF IsRev
      <4>3. rev'[r].failed > 0
        BY <1>1, <2>2, <4>2
      <4> HIDE DEF r
      <4> QED
        BY <4>1, <4>2, <4>3
    <3> QED
      BY <2>3, <3>1, <3>2, <3>3
  <2> QED
    BY <2>4 DEF Submitted
<1> QED
  BY <1>2, <1>3

\* What a submission that is accepted makes.
LEMMA SubmissionIs ==
  ASSUME TInv, NEW e \in Editors, Submit(e), ~UNCHANGED <<graph, rev>>
  PROVE  /\ e \notin Submitted /\ Submitted' = Submitted \cup {e} /\ UNCHANGED <<jobs, work, reg, applied>>
         /\ rev'[e].to = graph.target + 1 /\ rev'[e].status = "Pending" /\ rev'[e].failed = 0
         /\ \A f \in Editors \ {e} : rev'[f] = rev[f] /\ pc'[f] = pc[f]
         /\ pc[e] = "submit" /\ pc'[e] = "enqueue"
         /\ graph'.version = graph.version /\ graph'.target = graph.target + 1
<1>1. /\ graph \in [version : Nat, target : Nat, schema : {graph.schema}]
      /\ rev = [f \in Editors |-> rev[f]] /\ pc = [f \in Editors |-> pc[f]]
  BY DEF TInv, Inv, Types
<1>2. Target = graph.target
  <2>1. graph.target >= graph.version
    BY DEF TInv, Inv, TargetAhead
  <2> QED
    BY <1>1, <2>1 DEF Target
<1>3. PICK new, client :
            /\ rev' = [rev EXCEPT ![e] =
                 [status |-> "Pending", base |-> graph.version, to |-> Target + 1,
                  seen |-> graph.schema, client |-> client, new |-> new,
                  known |-> applied, failed |-> 0]]
            /\ graph' = [graph EXCEPT !.target = Target + 1]
            /\ pc' = [pc EXCEPT ![e] = "enqueue"]
  BY DEF Submit
<1>4. pc[e] = "submit" /\ UNCHANGED <<jobs, work, reg, applied>>
  BY DEF Submit
<1>5. /\ rev'[e].to = Target + 1 /\ rev'[e].status = "Pending" /\ rev'[e].failed = 0 /\ pc'[e] = "enqueue"
      /\ \A f \in Editors \ {e} : rev'[f] = rev[f] /\ pc'[f] = pc[f]
  BY <1>1, <1>3
<1>6. graph'.version = graph.version /\ graph'.target = Target + 1
  BY <1>1, <1>3
<1>7. rev[e].status = None
  BY <1>4 DEF TInv, Numbers
<1>8. e \notin Submitted /\ Submitted' = Submitted \cup {e}
  BY <1>5, <1>7 DEF Submitted, None
<1> QED
  BY <1>2, <1>4, <1>5, <1>6, <1>8

\* A submission that is refused leaves nobody who is to queue a revision.
LEMMA RefusalIs ==
  ASSUME TInv, NEW e \in Editors, Submit(e), UNCHANGED <<graph, rev>>
  PROVE  /\ UNCHANGED <<jobs, work, reg, applied>>
         /\ \A f \in Editors : pc'[f] = "enqueue" => pc[f] = "enqueue"
<1>1. ~(graph' = [graph EXCEPT !.target = Target + 1])
  BY DEF Target, TInv, Inv, Types, TargetAhead
<1>2. pc' = [pc EXCEPT ![e] = "done"] /\ UNCHANGED <<jobs, work, reg, applied>>
  BY <1>1 DEF Submit
<1> QED
  BY <1>2 DEF TInv, Inv, Types

\* A job that x is not before in the queue or the chain stays before it.
LEMMA BehindMoves ==
  ASSUME TInv, Lined, Next, ~\E e \in Editors : Submit(e), NEW v \in Submitted, NEW x \in Submitted,
         ~Again(v)', Behind(v, x), v # x
  PROVE  Behind(v, x)'
<1> DEFINE r == Head(chain)
<1>1. queue \in Seq(Editors) /\ chain \in Seq(Editors)
  <2>1. Queued \subseteq Editors
    BY DEF Queued
  <2> QED
    BY <2>1, SeqGrows DEF TInv, Inv, Types
<1>2. v \in Editors /\ x \in Editors
  BY DEF Submitted
<1>3. pc[v] # "enqueue" /\ pc'[v] # "enqueue"
  <2>1. pc = [f \in Editors |-> pc[f]]
    BY DEF TInv, Inv, Types
  <2>2. CASE Edit
    BY <1>2, <2>1, <2>2 DEF Edit, Load, Enqueue, Behind
  <2>3. CASE ~Edit
    BY <2>3, OtherSteps DEF Behind
  <2> QED
    BY <2>2, <2>3
<1>4. /\ v \in Range(queue) => x \notin Range(chain) \cup later \cup dead \cup applied /\ Before(queue, v, x)
      /\ v \in Range(chain) => x \notin later \cup dead \cup applied /\ Before(chain, v, x)
  BY DEF Behind
<1>5. v \notin later'
  <2>1. \A f \in later' : rev'[f].failed > 0
    <3>1. ASSUME FailStops PROVE rev'[r].failed > 0
      <4>1. chain # <<>> /\ rev' = [rev EXCEPT ![r].failed = @ + 1]
        BY <3>1 DEF FailStops, Stops, Failing, Processing
      <4>2. r \in Editors
        BY <1>1, <4>1, HeadTail
      <4>3. rev = [f \in Editors |-> rev[f]] /\ IsRev(rev[r]) /\ rev[r].failed \in Nat
        BY <4>2, BoundAssumption DEF TInv, Inv, Types, Attempts
      <4>4. rev'[r] = [rev[r] EXCEPT !.failed = @ + 1]
        BY <4>1, <4>2, <4>3
      <4>5. rev'[r].failed = rev[r].failed + 1
        BY <4>3, <4>4 DEF IsRev
      <4> QED
        BY <4>3, <4>5
    <3>2. \A f \in later' : f \in later \/ (FailStops /\ f = r)
      BY JobSteps DEF Enqueue, Take, Returns, Retry, GiveBack, Acknowledge, FailStops, Stops, Crash, jobs
    <3>3. later \subseteq Editors
      BY DEF TInv, Inv, Types, Queued
    <3> QED
      BY <3>1, <3>2, <3>3, SubmittedStays DEF Lined
  <2> QED
    BY <2>1 DEF Again
<1> HIDE DEF r
<1>6. applied' = applied \/ (Finalize /\ applied' = applied \cup {r} /\ r \in Range(chain) /\ UNCHANGED jobs)
  <2>1. CASE Finalize
    <3>1. chain # <<>> /\ applied' = applied \cup {r} /\ UNCHANGED jobs
      BY <2>1 DEF Finalize, Processing, r
    <3> QED
      BY <1>1, <2>1, <3>1, RangeIs DEF r
  <2>2. CASE ~Finalize
    <3>1. CASE Edit
      BY <3>1 DEF Edit, Load, Enqueue
    <3> QED
      BY <2>2, <3>1, OtherSteps
  <2> QED
    BY <2>1, <2>2
<1>7. CASE UNCHANGED jobs
  <2>1. v \in Range(chain) => r # x \/ ~Finalize
    <3>1. ASSUME Finalize, v \in Range(chain) PROVE r # x
      <4>1. chain # <<>>
        BY <3>1 DEF Finalize, Processing
      <4> QED
        BY <1>1, <1>4, <3>1, <4>1, BeforeTail DEF r
    <3> QED
      BY <3>1
  <2> QED
    BY <1>3, <1>4, <1>6, <1>7, <2>1 DEF Behind, jobs
<1>8. CASE \E e \in Editors : Enqueue(e)
  <2>1. PICK e \in Editors : Enqueue(e)
    BY <1>8
  <2>2. pc[e] = "enqueue" /\ queue' = Append(queue, e) /\ UNCHANGED <<later, chain, dead, applied>>
    BY <2>1 DEF Enqueue, work, reg
  <2>3. e # v /\ Range(queue') = Range(queue) \cup {e}
    BY <1>1, <1>3, <2>2, AppendOnce
  <2>4. v \in Range(queue) => Before(queue', v, x)
    BY <1>1, <1>4, <2>2, <2>3, BeforeAppend
  <2> QED
    BY <1>3, <1>4, <2>2, <2>3, <2>4 DEF Behind
<1>9. CASE Take
  <2> DEFINE h == Head(queue)
  <2>1. queue # <<>> /\ queue' = Tail(queue) /\ chain' = Append(chain, h) /\ UNCHANGED <<later, dead, applied>>
    BY <1>9 DEF Take
  <2>2. h \in Editors /\ Range(queue) = Range(queue') \cup {h} /\ Range(chain') = Range(chain) \cup {h}
    BY <1>1, <2>1, HeadTail, TailOnce, AppendOnce
  <2>3. v \in Range(queue) => Before(queue', v, x) /\ h # x
    BY <1>1, <1>4, <2>1, BeforeTail
  <2>4. v \in Range(chain) => Before(chain', v, x)
    <3>1. h = v => x \notin Range(chain)
      BY <1>4, <2>2
    <3> QED
      BY <1>1, <1>4, <2>1, <2>2, <3>1, BeforeAppend
  <2>5. h = v /\ v \notin Range(chain) => Before(chain', v, x) /\ x \notin later \cup dead \cup applied
    <3> SUFFICES ASSUME h = v, v \notin Range(chain)
                 PROVE  Before(chain', v, x) /\ x \notin later \cup dead \cup applied
      OBVIOUS
    <3>1. x \notin Range(chain) \cup later \cup dead \cup applied
      BY <1>4, <2>2
    <3>2. Before(chain, v, x)
      BY <3>1, BeforeNone
    <3> QED
      BY <1>1, <2>1, <2>2, <3>1, <3>2, BeforeAppend
  <2> HIDE DEF h
  <2> QED
    BY <1>3, <1>4, <2>1, <2>2, <2>3, <2>4, <2>5 DEF Behind
<1>10. CASE \E e \in Editors : Retry(e)
  <2>1. PICK e \in Editors : Retry(e)
    BY <1>10
  <2>2. e \in later /\ later' = later \ {e} /\ queue' = Append(queue, e) /\ UNCHANGED <<chain, dead, applied, rev>>
    BY <2>1 DEF Retry, row
  <2>3. Range(queue') = Range(queue) \cup {e}
    BY <1>1, <2>2, AppendOnce
  <2>4. e # v
    <3>1. rev[e].failed > 0
      BY <2>2 DEF Lined
    <3> QED
      BY <2>2, <3>1 DEF Again
  <2>5. v \in Range(queue) => Before(queue', v, x)
    BY <1>1, <1>4, <2>2, <2>4, BeforeAppend
  <2> QED
    BY <1>3, <1>4, <2>2, <2>3, <2>4, <2>5 DEF Behind
<1>11. CASE \E e \in Editors : GiveBack(e)
  <2>1. PICK e \in Editors : GiveBack(e)
    BY <1>11
  <2>2. /\ e \in dead /\ dead' = dead \ {e} /\ e \in stalled' /\ UNCHANGED <<chain, later, applied, rev>>
        /\ queue' = queue \/ queue' = <<e>> \o queue
    BY <2>1 DEF GiveBack, row
  <2>3. e # v
    BY <2>2 DEF Again
  <2>4. Range(queue') \subseteq Range(queue) \cup {e}
    <3>1. Range(<<e>> \o queue) = Range(queue) \cup {e}
      BY <1>1, FrontOnce
    <3> QED
      BY <2>2, <3>1
  <2>5. v \in Range(queue) => Before(queue', v, x)
    BY <1>1, <1>4, <2>2, <2>3, BeforeFront
  <2> QED
    BY <1>3, <1>4, <2>2, <2>3, <2>4, <2>5 DEF Behind
<1>12. CASE Acknowledge \/ FailStops
  <2>1. /\ chain # <<>> /\ chain' = Tail(chain) /\ UNCHANGED <<queue, dead, applied>>
        /\ later' = later \/ later' = later \cup {r}
    BY <1>12 DEF Acknowledge, FailStops, Stops, Failing, Processing, Leave, r
  <2>2. Range(chain) = Range(chain') \cup {r}
    BY <1>1, <2>1, TailOnce DEF r
  <2>3. v \in Range(chain) => Before(chain', v, x) /\ r # x
    BY <1>1, <1>4, <2>1, BeforeTail DEF r
  <2> QED
    BY <1>3, <1>4, <2>1, <2>2, <2>3 DEF Behind
<1>13. CASE Crash
  <2>1. chain' = <<>> /\ dead' = dead \cup Range(chain) /\ UNCHANGED <<queue, later, applied>>
    BY <1>13 DEF Crash
  <2>2. Range(chain') = {}
    BY <2>1 DEF Range
  <2> QED
    BY <1>3, <1>4, <2>1, <2>2 DEF Behind
<1> QED
  BY <1>7, <1>8, <1>9, <1>10, <1>11, <1>12, <1>13, JobSteps DEF Returns

\* Versions stay lined up, and a revision that was given out once moves the version on.
LEMMA NextLined ==
  ASSUME "overtake" \notin Faults, TInv, Lined, Next
  PROVE  Lined' /\ (graph'.version >= graph.version \/ Again(Head(chain)) \/ ~Unambiguous(graph'.version))
<1> DEFINE r == Head(chain)
           Moves == graph'.version >= graph.version \/ Again(r) \/ ~Unambiguous(graph'.version)
<1>1. /\ graph \in [version : Nat, target : Nat, schema : {graph.schema}]
      /\ rev = [f \in Editors |-> rev[f]] /\ pc = [f \in Editors |-> pc[f]]
      /\ \A f \in Editors : IsRev(rev[f]) /\ rev[f].to \in Nat /\ rev[f].to >= 1
      /\ Submitted \subseteq Editors /\ graph.version >= 1
  BY ReachIs DEF TInv, Inv, Types, IsRev, Numbers
<1>2. Occurs \subseteq Queued
  BY OccursQueued DEF TInv
<1>3. \A f \in Editors : Again(f) => Again(f)'
  <2> SUFFICES ASSUME NEW f \in Editors, Again(f) PROVE Again(f)'
    OBVIOUS
  <2>1. f \in stalled => f \in stalled'
    <3>1. \/ stalled' = stalled
          \/ \E e \in Editors : stalled' = stalled \cup {e}
      BY JobSteps DEF Enqueue, Take, Returns, Retry, GiveBack, Acknowledge, FailStops, Stops, Crash, jobs
    <3> QED
      BY <3>1
  <2>2. rev[f].failed > 0 => rev'[f].failed > 0
    <3>1. CASE \E e \in Editors : Submit(e) /\ ~UNCHANGED <<graph, rev>>
      <4>1. PICK e \in Editors : Submit(e) /\ ~UNCHANGED <<graph, rev>>
        BY <3>1
      <4>2. pc[e] = "submit" /\ \A g \in Editors \ {e} : rev'[g] = rev[g]
        BY <4>1, SubmissionIs
      <4>3. rev[e].failed = 0
        BY <4>2 DEF TInv, Attempts
      <4> QED
        BY <4>2, <4>3
    <3>2. CASE ~\E e \in Editors : Submit(e)
      BY <3>2, SubmittedStays
    <3> QED
      BY <3>1, <3>2
  <2> QED
    BY <2>1, <2>2 DEF Again
<1>4. ASSUME NEW e \in Editors, Submit(e), ~UNCHANGED <<graph, rev>>
      PROVE  Lined' /\ Moves
  <2>1. /\ e \notin Submitted /\ Submitted' = Submitted \cup {e} /\ UNCHANGED <<jobs, work, reg, applied>>
        /\ rev'[e].to = graph.target + 1 /\ rev'[e].failed = 0
        /\ \A f \in Editors \ {e} : rev'[f] = rev[f] /\ pc'[f] = pc[f]
        /\ pc[e] = "submit" /\ pc'[e] = "enqueue"
        /\ graph'.version = graph.version /\ graph'.target = graph.target + 1
    BY <1>4, SubmissionIs
  <2>2. \A f \in Submitted : f # e /\ f \in Editors /\ rev'[f] = rev[f]
    BY <1>1, <2>1
  <2>3. Made' = Made \cup {graph.target + 1}
    BY <2>1, <2>2 DEF Made
  <2>4. 2..graph.target \subseteq Made /\ 2..graph.target + 1 \subseteq Made'
    <3>1. 2..graph.target \subseteq Made
      <4>1. CASE graph.target = 1
        BY <4>1
      <4>2. CASE graph.target # 1
        <5>1. PICK f \in Submitted : graph.target = rev[f].to
          BY <4>2 DEF Lined, Made
        <5> QED
          BY <5>1 DEF Lined
      <4> QED
        BY <4>1, <4>2
    <3>2. \A n \in 2..graph.target + 1 : n \in 2..graph.target \/ n = graph.target + 1
      BY <1>1
    <3> QED
      BY <2>3, <3>1, <3>2
  <2>5. graph'.target \in Made' /\ \A f \in Submitted' : 2..rev'[f].to \subseteq Made'
    <3>1. \A f \in Submitted : 2..rev'[f].to \subseteq Made'
      BY <2>2, <2>3 DEF Lined
    <3> QED
      BY <2>1, <2>3, <2>4, <3>1
  <2>6. graph'.version = 1 \/ \E f \in applied' : graph'.version = rev'[f].to
    BY <2>1, <2>2 DEF Lined
  <2>7. Occurs' = Occurs /\ applied' = applied /\ later' = later
    BY <2>1 DEF Occurs, jobs
  <2>8. /\ applied' \cup Occurs' \cup {f \in Editors : pc'[f] = "enqueue"} \subseteq Submitted'
        /\ \A f \in later' : rev'[f].failed > 0
    <3>1. later \subseteq Submitted
      BY DEF Lined, Occurs
    <3> QED
      BY <2>1, <2>2, <2>7, <3>1 DEF Lined
  <2>9. ASSUME NEW v \in Submitted', NEW x \in Submitted', Sure(v)', rev'[v].to < rev'[x].to
        PROVE  Behind(v, x)'
    <3>1. v # x
      <4>1. rev'[v].to \in Nat
        BY <1>1, <2>1, <2>2, <2>9
      <4> QED
        BY <2>9, <4>1
    <3>2. CASE v = e
      <4>1. x \in Submitted /\ rev'[x] = rev[x] /\ rev[x].to \in Nat /\ graph.target + 1 < rev[x].to
        BY <1>1, <2>1, <2>2, <2>9, <3>1, <3>2
      <4>2. graph.target + 1 \in 2..rev[x].to
        <5>1. graph.target \in Nat /\ graph.target >= 1
          BY <1>1 DEF TInv, Numbers
        <5> QED
          BY <4>1, <5>1
      <4>3. PICK f \in Submitted : rev[f].to = graph.target + 1
        <5>1. graph.target + 1 \in Made /\ graph.target + 1 # 1
          <6>1. graph.target \in Nat /\ graph.target >= 1
            BY <1>1 DEF TInv, Numbers
          <6> QED
            BY <4>1, <4>2, <6>1 DEF Lined
        <5> QED
          BY <5>1 DEF Made
      <4>4. f # e /\ f \in Submitted' /\ rev'[f].to = rev'[e].to
        BY <2>1, <2>2, <4>3
      <4>5. ~Unambiguous(rev[e].to)'
        BY <1>1, <2>1, <4>4 DEF Unambiguous, AtVersion, Submitted
      <4> QED
        BY <2>9, <3>2, <4>5 DEF Sure
    <3>3. CASE v # e
      <4>1. v \in Submitted /\ rev'[v] = rev[v] /\ pc'[v] = pc[v] /\ v \in Editors
        BY <1>1, <2>1, <2>2, <3>3
      <4>2. pc[v] # "enqueue"
        BY <1>4, <4>1 DEF Submit
      <4>3. CASE x = e
        <5>1. x \notin Occurs \cup applied
          BY <1>2, <2>1, <4>3 DEF Queued, Lined
        <5>2. Before(queue, v, x) /\ Before(chain, v, x)
          BY <5>1, BeforeNone DEF Occurs
        <5> QED
          BY <2>1, <4>1, <4>2, <5>1, <5>2 DEF Behind, jobs, Occurs
      <4>4. CASE x # e
        <5>1. x \in Submitted /\ rev'[x] = rev[x]
          BY <2>1, <2>2, <4>4
        <5>2. Sure(v)
          <6>1. Unambiguous(rev[v].to)
            <7>1. \A f \in Editors : rev[f].status # None /\ rev[f].to = rev[v].to
                                       => rev'[f].status # None /\ rev'[f].to = rev'[v].to
              BY <2>2, <4>1 DEF Submitted
            <7> QED
              BY <2>9, <7>1 DEF Sure, Unambiguous, AtVersion
          <6> QED
            BY <1>3, <2>9, <4>1, <6>1 DEF Sure
        <5>3. Behind(v, x)
          BY <2>9, <4>1, <5>1, <5>2 DEF Lined
        <5> QED
          BY <2>1, <4>1, <5>3 DEF Behind, jobs
      <4> QED
        BY <4>3, <4>4
    <3> QED
      BY <3>2, <3>3
  <2>10. Moves
    BY <1>1, <2>1
  <2> QED
    BY <2>5, <2>6, <2>8, <2>9, <2>10 DEF Lined
<1>5. ASSUME NEW e \in Editors, Submit(e), UNCHANGED <<graph, rev>>
      PROVE  Lined' /\ Moves
  <2>1. /\ UNCHANGED <<graph, rev, jobs, applied>>
        /\ \A f \in Editors : pc'[f] = "enqueue" => pc[f] = "enqueue"
    BY <1>5, RefusalIs
  <2>2. Lined'
    BY <2>1 DEF Lined, Submitted, Made, Sure, Again, Unambiguous, AtVersion, Behind, Occurs, jobs
  <2> QED
    BY <1>1, <2>1, <2>2
<1>6. ASSUME ~\E e \in Editors : Submit(e) PROVE Lined' /\ Moves
  <2>1. /\ Submitted' = Submitted
        /\ \A f \in Editors : rev'[f].to = rev[f].to /\ (rev[f].failed > 0 => rev'[f].failed > 0)
    BY <1>6, SubmittedStays
  <2>2. Made' = Made
    BY <1>1, <2>1 DEF Made
  <2>3. \A v \in Editors : Unambiguous(rev[v].to)' => Unambiguous(rev[v].to)
    <3>1. \A f \in Editors : rev'[f].status # None <=> rev[f].status # None
      BY <2>1 DEF Submitted
    <3> QED
      BY <2>1, <3>1 DEF Unambiguous, AtVersion
  <2>4. chain # <<>> => r \in Range(chain) /\ r \in Submitted
    <3>1. chain # <<>> => r \in Range(chain)
      BY RangeIs DEF TInv, Inv, Types
    <3> QED
      BY <3>1 DEF Lined, Occurs
  <2>5. graph'.target \in Made
    <3>1. CASE Finalize
      <4>1. chain # <<>> /\ graph'.target \in {rev[r].to, graph.target}
        BY <3>1 DEF Finalize, Processing
      <4> QED
        BY <2>4, <4>1 DEF Lined, Made
    <3>2. CASE Fail
      <4>1. graph'.target \in {graph.target, graph.version}
        BY <1>1, <3>2 DEF Fail, FailWrites
      <4>2. graph.version \in Made
        BY DEF Lined, Made
      <4> QED
        BY <4>1, <4>2 DEF Lined
    <3>3. CASE graph' = graph
      BY <3>3 DEF Lined
    <3>4. graph' = graph \/ Finalize \/ Fail
      BY <1>6, OtherSteps DEF Edit, Load, Enqueue
    <3> QED
      BY <3>1, <3>2, <3>3, <3>4
  <2>6. /\ graph'.version = 1 \/ \E f \in applied' : graph'.version = rev'[f].to
        /\ applied' \subseteq Submitted
    <3>1. CASE Finalize
      <4>1. chain # <<>> /\ graph'.version = rev[r].to /\ applied' = applied \cup {r}
        BY <3>1 DEF Finalize, Processing
      <4> QED
        BY <1>1, <2>1, <2>4, <4>1 DEF Lined
    <3>2. CASE ~Finalize
      <4>1. applied' = applied /\ (graph' = graph \/ Fail)
        BY <1>6, <3>2, OtherSteps DEF Edit, Load, Enqueue
      <4>2. graph'.version = graph.version
        BY <1>1, <4>1 DEF Fail, FailWrites
      <4> QED
        BY <1>1, <2>1, <4>1, <4>2 DEF Lined
    <3> QED
      BY <3>1, <3>2
  <2>7. Occurs' \cup {f \in Editors : pc'[f] = "enqueue"} \subseteq Submitted
    <3>1. \/ Occurs' \subseteq Occurs
          \/ \E e \in Editors : Enqueue(e) /\ Occurs' = Occurs \cup {e}
      BY MovesOnce DEF TInv
    <3>2. \A e \in Editors : Enqueue(e) => pc[e] = "enqueue"
      BY DEF Enqueue
    <3>3. \A f \in Editors : pc'[f] = "enqueue" => pc[f] = "enqueue"
      <4>1. CASE Edit
        BY <1>1, <1>6, <4>1 DEF Edit, Load, Enqueue
      <4> QED
        BY <4>1, OtherSteps
    <3> QED
      BY <3>1, <3>2, <3>3 DEF Lined
  <2>8. \A f \in later' : rev'[f].failed > 0
    <3>1. ASSUME FailStops PROVE rev'[r].failed > 0
      <4>1. chain # <<>> /\ rev' = [rev EXCEPT ![r].failed = @ + 1]
        BY <3>1 DEF FailStops, Stops, Failing, Processing
      <4>2. r \in Editors
        BY <1>1, <2>4, <4>1
      <4>3. IsRev(rev[r]) /\ rev[r].failed \in Nat
        BY <1>1, <4>2, BoundAssumption DEF TInv, Attempts
      <4>4. rev'[r] = [rev[r] EXCEPT !.failed = @ + 1]
        BY <1>1, <4>1, <4>2
      <4>5. rev'[r].failed = rev[r].failed + 1
        BY <4>3, <4>4 DEF IsRev
      <4> QED
        BY <4>3, <4>5
    <3>2. \A f \in later' : f \in later \/ (FailStops /\ f = r)
      BY JobSteps DEF Enqueue, Take, Returns, Retry, GiveBack, Acknowledge, FailStops, Stops, Crash, jobs
    <3>3. later \subseteq Editors
      BY DEF TInv, Inv, Types, Queued
    <3> QED
      BY <2>1, <3>1, <3>2, <3>3 DEF Lined
  <2>9. ASSUME NEW v \in Submitted, NEW x \in Submitted, Sure(v)', rev'[v].to < rev'[x].to
        PROVE  Behind(v, x)'
    <3>1. v \in Editors /\ x \in Editors /\ rev[v].to < rev[x].to /\ v # x
      BY <1>1, <2>1, <2>9
    <3>2. Sure(v) /\ ~Again(v)'
      BY <1>3, <2>3, <2>9, <3>1 DEF Sure
    <3>3. Behind(v, x)
      BY <3>1, <3>2 DEF Lined
    <3> QED
      BY <1>6, <3>1, <3>2, <3>3, BehindMoves
  <2>10. Lined'
    BY <2>1, <2>2, <2>5, <2>6, <2>7, <2>8, <2>9, <1>1 DEF Lined
  <2>11. Moves
    <3>1. CASE Finalize
      <4>1. chain # <<>> /\ graph'.version = rev[r].to /\ r \in Submitted /\ r \in Range(chain)
        BY <2>4, <3>1 DEF Finalize, Processing
      <4> SUFFICES ASSUME ~(graph'.version >= graph.version), ~Again(r), Unambiguous(rev[r].to) PROVE FALSE
        BY <4>1
      <4>2. Sure(r) /\ rev[r].to \in Nat /\ rev[r].to >= 1 /\ rev[r].to < graph.version
        BY <1>1, <4>1 DEF Sure
      <4>3. PICK x \in applied : graph.version = rev[x].to
        BY <1>1, <4>2 DEF Lined
      <4>4. x \in Submitted
        BY DEF Lined
      <4>5. Behind(r, x)
        BY <4>1, <4>2, <4>3, <4>4 DEF Lined
      <4> QED
        BY <4>1, <4>5 DEF Behind
    <3>2. CASE ~Finalize
      <4>1. graph' = graph \/ Fail
        BY <1>6, <3>2, OtherSteps DEF Edit, Load, Enqueue
      <4>2. graph'.version = graph.version
        BY <1>1, <4>1 DEF Fail, FailWrites
      <4> QED
        BY <1>1, <4>2
    <3> QED
      BY <3>1, <3>2
  <2> QED
    BY <2>10, <2>11
<1> HIDE DEF Moves
<1>7. Lined' /\ Moves
  <2>1. CASE \E e \in Editors : Submit(e)
    BY <1>4, <1>5, <2>1
  <2>2. CASE ~\E e \in Editors : Submit(e)
    BY <1>6, <2>2
  <2> QED
    BY <2>1, <2>2
<1> QED
  BY <1>7 DEF Moves

LEMMA InitLined == Init => Lined
<1> SUFFICES ASSUME Init PROVE Lined
  OBVIOUS
<1>1. Submitted = {} /\ applied = {} /\ \A e \in Editors : pc[e] # "enqueue"
  BY DEF Init, Submitted, NoRev
<1>2. Occurs = {} /\ later = {}
  <2>1. Range(<<>>) = {}
    BY DEF Range
  <2> QED
    BY <2>1 DEF Init, Occurs
<1>3. graph.target = 1 /\ graph.version = 1
  BY DEF Init
<1> QED
  BY <1>1, <1>2, <1>3 DEF Lined, Made

LEMMA StillLined == Lined /\ UNCHANGED vars => Lined'
BY DEF vars, row, jobs, work, reg, Lined, Submitted, Made, Sure, Again, Unambiguous, AtVersion, Behind, Occurs

(* A graph's version goes back only with a revision that the queue gives out a second
   time, or to a version that a failure has made be meant for two: for every number
   of editors, jobs and attempts, whatever is rejected, fails, restarts, is compiled
   or destroyed meanwhile and though the target is read and written without a lock, as
   long as revisions are queued in the order of their submission. *)
THEOREM VersionsForward ==
  ASSUME "overtake" \notin Faults
  PROVE  Spec => VersionForward
<1>1. Init => TInv /\ Lined
  BY InitTypes, InitLined
<1> DEFINE Moves == graph'.version >= graph.version \/ Again(Head(chain)) \/ ~Unambiguous(graph'.version)
<1>2. TInv /\ Lined /\ [Next]_vars => (TInv /\ Lined)' /\ [Moves]_vars
  <2> SUFFICES ASSUME TInv, Lined, [Next]_vars PROVE (TInv /\ Lined)' /\ [Moves]_vars
    OBVIOUS
  <2>1. TInv'
    BY NextTypes
  <2>2. CASE Next
    BY <2>1, <2>2, NextLined
  <2>3. CASE UNCHANGED vars
    BY <2>1, <2>3, StillLined DEF vars
  <2> QED
    BY <2>2, <2>3
<1> QED
  BY <1>1, <1>2, PTL DEF Spec, VersionForward

---------------------------------------------------------------------------
(* The order of the jobs *)

\* To join first what comes last is the same.
LEMMA JoinTwice ==
  ASSUME NEW S, NEW s \in Seq(S), NEW t \in Seq(S), NEW u \in Seq(S)
  PROVE  s \o (t \o u) = (s \o t) \o u
OBVIOUS

LEMMA JoinNone ==
  ASSUME NEW S, NEW s \in Seq(S)
  PROVE  s \o <<>> = s /\ <<>> \o s = s
OBVIOUS

LEMMA JoinOne ==
  ASSUME NEW S, NEW s \in Seq(S), NEW x \in S
  PROVE  s \o <<x>> = Append(s, x)
OBVIOUS

LEMMA HeadJoin ==
  ASSUME NEW S, NEW s \in Seq(S), s # <<>>
  PROVE  s = <<Head(s)>> \o Tail(s)
OBVIOUS

LEMMA TailJoin ==
  ASSUME NEW S, NEW s \in Seq(S), NEW t \in Seq(S), s # <<>>
  PROVE  s \o t # <<>> /\ Head(s \o t) = Head(s) /\ Tail(s \o t) = Tail(s) \o t
OBVIOUS

LEMMA TailAppend ==
  ASSUME NEW S, NEW s \in Seq(S), NEW x \in S, s # <<>>
  PROVE  Tail(Append(s, x)) = Append(Tail(s), x) /\ Tail(s) \in Seq(S)
OBVIOUS

(* Nothing is overtaken or given out again: revisions are queued in the order in which
   they were submitted, the API does not restart, no update fails in a way that is
   retried, and either a job has one attempt or no run or destroy ends the compilation
   a revision waits for.  And no submission commits while the worker has read the row
   and not written it. *)
InOrder ==
  /\ Faults \cap {"error", "overtake", "race", "crash"} = {}
  /\ MaxAttempts = 1 \/ Faults \cap {"compile", "overlap"} = {}

\* The jobs whose revisions are neither applied nor failed, and the one whose revision
\* has been applied but not left.
Held == IF fix = "saved" THEN Tail(chain) ELSE chain
Line == Held \o queue

Waiting ==
  /\ later = {} /\ dead = {}
  /\ step = "wait" /\ Faults \cap {"compile", "overlap"} = {} => live # NoLive
  /\ step = "error" => MaxAttempts = 1
  /\ fix = "write" /\ step = "final" => graph.target < rev[Head(chain)].to
  /\ fix = "write" /\ step # "final" => graph.target = rev[Head(chain)].to

Ordered ==
  /\ \A i, j \in DOMAIN Line : i < j => rev[Line[i]].to < rev[Line[j]].to
  /\ \A i \in DOMAIN Line : graph.version <= rev[Line[i]].to /\ rev[Line[i]].to <= graph.target
  /\ \A e \in Editors : pc[e] = "enqueue" =>
       /\ graph.version <= rev[e].to /\ rev[e].to <= graph.target
       /\ \A i \in DOMAIN Line : rev[Line[i]].to < rev[e].to
       /\ \A o \in Editors : pc[o] = "enqueue" => o = e


\* What the worker knows of the target moves with its steps alone.
LEMMA FixIs ==
  ASSUME Inv, Next
  PROVE  \/ /\ Fail /\ fix # "saved" /\ fix' = "saved"
         \/ /\ Reads /\ fix = "unread" /\ fix' \in {"write", "leave"} /\ UNCHANGED <<graph, rev, chain, step>>
         \/ /\ Finalize \/ Acknowledge \/ Crash
            /\ fix # "saved" \/ Crash
            /\ fix' = "unread"
         \/ /\ FailStops /\ fix = "saved" /\ fix' = "unread"
         \/ /\ fix' = fix /\ ~(Fail \/ Reads \/ Finalize \/ Acknowledge \/ FailStops \/ Crash)
<1> USE DEF Inv, Types, Decided
<1>1. CASE Fail
  BY <1>1 DEF Fail, FailWrites
<1>2. CASE Reads
  BY <1>2 DEF Reads, FinalizeReads, FailReads, row, jobs
<1>3. CASE Finalize
  BY <1>3 DEF Finalize, Processing
<1>4. CASE Acknowledge
  BY <1>4 DEF Acknowledge, Processing, Leave
<1>5. CASE Crash
  BY <1>5 DEF Crash
<1>6. CASE FailStops
  BY <1>6 DEF FailStops, Stops, Leave
<1>7. ASSUME ~(Fail \/ Reads \/ Finalize \/ Acknowledge \/ FailStops \/ Crash)
      PROVE  fix' = fix
  BY <1>7, StepIs
  DEF Load, Submit, Enqueue, Take, Returns, Retry, GiveBack, Start, Remerge, Wait, Update, Ends,
      RunReads, Register, Compile, Destroy, work
<1> QED
  BY <1>1, <1>2, <1>3, <1>4, <1>5, <1>6, <1>7

\* A job that fails is not queued again, and what waits is not overtaken.
LEMMA NextWaiting ==
  ASSUME InOrder, TInv, Waiting, Next
  PROVE  Waiting'
<1> USE DEF Waiting
<1>1. MaxAttempts \in Nat \ {0}
  BY BoundAssumption
<1>2. ASSUME FailStops PROVE later' = later
  <2>1. step = "error" => ~(rev[Head(chain)].failed + 1 < MaxAttempts)
    <3> SUFFICES ASSUME step = "error", rev[Head(chain)].failed + 1 < MaxAttempts PROVE FALSE
      OBVIOUS
    <3>1. MaxAttempts = 1 /\ chain # <<>>
      BY <1>2 DEF FailStops, Stops, Failing, Processing
    <3>2. Head(chain) \in Editors
      BY <3>1, HeadTail DEF TInv, Inv, Types, Queued
    <3>3. rev[Head(chain)].failed \in Nat
      BY <1>1, <3>2 DEF TInv, Attempts
    <3> QED
      BY <3>1, <3>3
  <2> QED
    BY <1>2, <2>1 DEF FailStops, Stops
<1>3. later' = {} /\ dead' = {}
  BY <1>2, JobSteps
  DEF Enqueue, Take, Returns, Retry, GiveBack, Acknowledge, FailStops, Stops, Crash, InOrder, jobs
<1>4. ASSUME step' = "wait", Faults \cap {"compile", "overlap"} = {} PROVE live' # NoLive
  <2>1. CASE Wait
    BY <2>1 DEF Wait, NoLive, None, reg
  <2>2. CASE Register
    BY <2>2 DEF Register, NoLive, None
  <2>3. CASE Compile
    <3>1. step' = step
      BY <2>3 DEF Compile, work
    <3>2. live # NoLive /\ live' = [live EXCEPT !.status = "Running"]
      BY <1>4, <2>3, <3>1 DEF Compile
    <3> QED
      BY <3>2 DEF TInv, Inv, Types, IsLive, NoLive, None
  <2>4. CASE Destroy
    BY <1>4, <2>4 DEF Destroy, work
  <2>5. CASE Start \/ Remerge \/ Update \/ Finalize \/ Ends \/ Crash
    <3>1. step' # "wait"
      BY <2>5 DEF Start, Remerge, Update, Outcomes, Finalize, Ends, Acknowledge, Fail, FailWrites, FailStops,
                  Stops, Failing, Processing, Leave, Crash
    <3> QED
      BY <1>4, <3>1
  <2>6. CASE Edit \/ Take \/ Returns \/ Reads \/ RunReads
    BY <1>4, <2>6 DEF Edit, Load, Submit, Enqueue, Take, Returns, Retry, GiveBack, Reads, FinalizeReads,
                      FailReads, RunReads, work, reg
  <2> QED
    BY <2>1, <2>2, <2>3, <2>4, <2>5, <2>6, StepIs DEF Edit
<1>5. ASSUME step' = "error" PROVE MaxAttempts = 1
  <2>1. CASE Update
    <3>1. step = "wait" /\ live = NoLive
      BY <1>5, <2>1 DEF Update, Outcomes, InOrder
    <3> QED
      BY <3>1 DEF InOrder
  <2>2. CASE Start \/ Remerge \/ Wait \/ Reads \/ Finalize \/ Ends
    BY <1>5, <2>2 DEF Start, Remerge, Wait, Reads, FinalizeReads, FailReads, Finalize, Ends, Acknowledge, Fail,
                      FailWrites, FailStops, Stops, Leave
  <2>3. CASE Edit \/ Take \/ Returns \/ RunReads \/ Register \/ Compile \/ Destroy \/ Crash
    BY <1>5, <2>3 DEF Edit, Load, Submit, Enqueue, Take, Returns, Retry, GiveBack, RunReads, Register, Compile,
                      Destroy, Crash, work
  <2> QED
    BY <2>1, <2>2, <2>3, StepIs DEF Edit
<1>6. ASSUME fix' = "write"
      PROVE  /\ step' = "final" => graph'.target < rev'[Head(chain')].to
             /\ step' # "final" => graph'.target = rev'[Head(chain')].to
  <2>1. CASE Reads
    <3>1. UNCHANGED <<graph, rev, chain, step>>
      BY <2>1 DEF Reads, FinalizeReads, FailReads, row, jobs
    <3> QED
      BY <1>6, <2>1, <3>1 DEF Reads, FinalizeReads, FailReads, Failing, Processing, Repairs
  <2>2. CASE ~Reads
    <3>1. fix' = fix /\ ~(Fail \/ Finalize \/ Ends \/ Crash)
      BY <1>6, <2>2, FixIs DEF TInv, Ends
    <3>2. chain # <<>> /\ chain \in Seq(Queued) /\ step \in {"final", "reject", "error"}
      BY <1>6, <3>1 DEF TInv, Inv, Decided, Types, Steps
    <3>3. ~\E e \in Editors : Submit(e)
      BY <1>6, <3>1 DEF Submit, InOrder
    <3>4. ~(Start \/ Remerge \/ Wait \/ Update)
      BY <3>2 DEF Start, Remerge, Wait, Update, Processing
    <3>5. UNCHANGED <<graph, rev, step>>
      BY <2>2, <3>1, <3>3, <3>4, StepIs DEF Load, Enqueue, Take, Returns, Retry, GiveBack, RunReads, Register,
                                            Compile, Destroy, row, work
    <3>6. Head(chain') = Head(chain)
      <4>1. CASE Take
        <5>1. queue # <<>> /\ chain' = Append(chain, Head(queue)) /\ queue \in Seq(Queued)
          BY <4>1 DEF Take, TInv, Inv, Types
        <5>2. Head(queue) \in Queued
          BY <5>1, HeadTail
        <5> DEFINE q == Head(queue)
        <5> HIDE DEF q
        <5>3. Head(Append(chain, q)) = Head(chain)
          BY <3>2, <5>2 DEF q
        <5> QED
          BY <5>1, <5>3 DEF q
      <4>2. CASE ~Take
        BY <3>1, <4>2, JobSteps DEF Enqueue, Returns, Retry, GiveBack, Ends, jobs
      <4> QED
        BY <4>1, <4>2
    <3> QED
      BY <1>6, <3>1, <3>5, <3>6
  <2> QED
    BY <2>1, <2>2
<1> QED
  BY <1>3, <1>4, <1>5, <1>6

\* The line is of editors who are done, the job the worker is at before the others.
LEMMA LineIs ==
  ASSUME TInv
  PROVE  /\ Line \in Seq(Queued) /\ Line \in Seq(Editors)
         /\ queue \in Seq(Editors) /\ chain \in Seq(Editors) /\ Held \in Seq(Editors)
         /\ fix = "saved" => chain # <<>> /\ step \in {"reject", "error"}
         /\ chain # <<>> /\ fix # "saved" =>
              Line # <<>> /\ Head(Line) = Head(chain) /\ Tail(Line) = Tail(chain) \o queue
<1>1. queue \in Seq(Editors) /\ chain \in Seq(Editors) /\ Queued \subseteq Editors
  <2>1. Queued \subseteq Editors
    BY DEF Queued
  <2> QED
    BY <2>1, SeqGrows DEF TInv, Inv, Types
<1>2. fix = "saved" => chain # <<>> /\ step \in {"reject", "error"}
  BY DEF TInv, Inv, Types, Decided, Steps
<1>3. Held \in Seq(Queued) /\ Held \in Seq(Editors)
  <2>1. chain \in Seq(Queued)
    BY DEF TInv, Inv, Types
  <2>2. chain # <<>> => Tail(chain) \in Seq(Queued)
    BY <2>1, HeadTail
  <2>3. Held \in Seq(Queued)
    BY <1>2, <2>1, <2>2 DEF Held
  <2> QED
    BY <1>1, <2>3, SeqGrows
<1>4. Line \in Seq(Queued)
  BY <1>3 DEF Line, TInv, Inv, Types
<1>5. ASSUME chain # <<>>, fix # "saved"
      PROVE  Line # <<>> /\ Head(Line) = Head(chain) /\ Tail(Line) = Tail(chain) \o queue
  BY <1>1, <1>5, TailJoin DEF Line, Held
<1> QED
  BY <1>1, <1>2, <1>3, <1>4, <1>5, SeqGrows

\* Jobs join the line at its end and leave it at its head, where one that failed leaves
\* it as its failure is recorded.
LEMMA LineMoves ==
  ASSUME InOrder, TInv, Waiting, Next
  PROVE  /\ \/ Line' = Line
            \/ \E e \in Editors : Enqueue(e) /\ Line' = Append(Line, e)
            \/ Acknowledge \/ Fail
         /\ Acknowledge \/ Fail =>
              chain # <<>> /\ fix # "saved" /\ Line # <<>> /\ Line' = Tail(Line)
<1>1. /\ queue \in Seq(Editors) /\ chain \in Seq(Editors) /\ Held \in Seq(Editors) /\ Line \in Seq(Editors)
      /\ fix = "saved" => chain # <<>>
  BY LineIs
<1>2. ASSUME NEW e \in Editors, Enqueue(e) PROVE Line' = Append(Line, e)
  <2> DEFINE one == <<e>>
  <2>1. Held' = Held /\ queue' = queue \o one /\ one \in Seq(Editors)
    BY <1>1, <1>2, JoinOne DEF Enqueue, work, Held
  <2> HIDE DEF one
  <2>2. Held \o (queue \o one) = (Held \o queue) \o one
    <3>1. Held \in Seq(Editors) /\ queue \in Seq(Editors) /\ one \in Seq(Editors)
      BY <1>1, <2>1
    <3> QED
      BY <3>1, JoinTwice
  <2>3. Line' = Line \o one
    BY <2>1, <2>2 DEF Line
  <2> QED
    BY <1>1, <2>3, JoinOne DEF one
<1>3. ASSUME Take PROVE Line' = Line
  <2> DEFINE h   == Head(queue)
             one == <<h>>
             t   == Tail(queue)
  <2>1. queue # <<>> /\ h \in Editors /\ t \in Seq(Editors) /\ one \in Seq(Editors) /\ queue = one \o t
    BY <1>1, <1>3, HeadTail, HeadJoin DEF Take
  <2>2. chain' = Append(chain, h) /\ queue' = t /\ fix' = fix
    BY <1>3 DEF Take, work
  <2> HIDE DEF h, one, t
  <2>3. Held' = Append(Held, h)
    BY <1>1, <2>1, <2>2, TailAppend DEF Held
  <2>4. Held' = Held \o one
    BY <1>1, <2>1, <2>3, JoinOne DEF one
  <2>5. Held \o (one \o t) = (Held \o one) \o t
    <3>1. Held \in Seq(Editors) /\ one \in Seq(Editors) /\ t \in Seq(Editors)
      BY <1>1, <2>1
    <3> QED
      BY <3>1, JoinTwice
  <2> QED
    BY <2>1, <2>2, <2>4, <2>5 DEF Line
<1>4. ASSUME Acknowledge \/ Fail
      PROVE  chain # <<>> /\ fix # "saved" /\ Line # <<>> /\ Line' = Tail(Line)
  <2>1. chain # <<>> /\ fix # "saved" /\ Held' = Tail(chain) /\ queue' = queue
    <3>1. CASE Acknowledge
      BY <3>1, FixIs DEF Acknowledge, Processing, Leave, TInv, Inv, Decided, Held
    <3>2. CASE Fail
      BY <3>2 DEF Fail, FailWrites, Failing, Processing, Held, jobs
    <3> QED
      BY <1>4, <3>1, <3>2
  <2> QED
    BY <2>1, LineIs DEF Line
<1>5. ASSUME FailStops PROVE Line' = Line
  BY <1>5 DEF FailStops, Stops, Leave, Line, Held
<1>6. ~Returns /\ ~Crash
  BY DEF Returns, Retry, GiveBack, Crash, Waiting, InOrder
<1>7. ASSUME UNCHANGED jobs, ~(Fail \/ Acknowledge \/ FailStops) PROVE Line' = Line
  <2>1. (fix' = "saved") = (fix = "saved")
    BY <1>6, <1>7, FixIs DEF TInv
  <2> QED
    BY <1>7, <2>1 DEF jobs, Line, Held
<1> QED
  BY <1>2, <1>3, <1>4, <1>5, <1>6, <1>7, JobSteps

\* The revisions of the line, and of who is about to join it, keep their versions.
LEMMA VersionsKept ==
  ASSUME InOrder, TInv, Lined, Waiting, Next
  PROVE  \/ \E e \in Editors :
              /\ Submit(e) /\ pc[e] = "submit" /\ rev'[e].to = graph.target + 1
              /\ graph'.version = graph.version /\ graph'.target = graph.target + 1
              /\ \A f \in Editors \ {e} : rev'[f].to = rev[f].to /\ pc'[f] = pc[f]
              /\ \A f \in Editors : pc[f] # "enqueue"
         \/ /\ \A f \in Editors : rev'[f].to = rev[f].to /\ (pc'[f] = "enqueue" => pc[f] = "enqueue")
            /\ (\E e \in Editors : Submit(e)) => graph' = graph
<1>1. ASSUME NEW e \in Editors, Submit(e), ~UNCHANGED <<graph, rev>>
      PROVE  /\ pc[e] = "submit" /\ rev'[e].to = graph.target + 1
             /\ graph'.version = graph.version /\ graph'.target = graph.target + 1
             /\ \A f \in Editors \ {e} : rev'[f].to = rev[f].to /\ pc'[f] = pc[f]
             /\ \A f \in Editors : pc[f] # "enqueue"
  <2>1. \A f \in Editors : pc[f] # "enqueue"
    BY <1>1 DEF Submit, InOrder
  <2> QED
    BY <1>1, <2>1, SubmissionIs
<1>2. ASSUME NEW e \in Editors, Submit(e), UNCHANGED <<graph, rev>>
      PROVE  \A f \in Editors : rev'[f].to = rev[f].to /\ (pc'[f] = "enqueue" => pc[f] = "enqueue")
  BY <1>2, RefusalIs
<1>3. ASSUME ~\E e \in Editors : Submit(e)
      PROVE  \A f \in Editors : rev'[f].to = rev[f].to /\ (pc'[f] = "enqueue" => pc[f] = "enqueue")
  <2>1. pc' = pc \/ \E e \in Editors : pc' = [pc EXCEPT ![e] = "submit"] \/ pc' = [pc EXCEPT ![e] = "done"]
    BY <1>3, OtherSteps DEF Edit, Load, Enqueue
  <2>2. \A f \in Editors : rev'[f].to = rev[f].to
    BY <1>3, SubmittedStays
  <2> QED
    BY <2>1, <2>2 DEF TInv, Inv, Types
<1> QED
  BY <1>1, <1>2, <1>3

\* What the worker does to the versions of the row.
LEMMA RowMoves ==
  ASSUME InOrder, TInv, Waiting, Next, ~\E e \in Editors : Submit(e)
  PROVE  LET r == Head(chain)
         IN  \/ ~Finalize /\ graph'.version = graph.version /\ graph'.target = graph.target
             \/ /\ Finalize /\ chain # <<>> /\ fix # "saved" /\ Line' = Line /\ graph'.version = rev[r].to
                /\ graph'.target = IF graph.target < rev[r].to THEN rev[r].to ELSE graph.target
             \/ /\ Fail /\ chain # <<>> /\ fix # "saved" /\ graph'.version = graph.version
                /\ graph.target = rev[r].to /\ graph'.target = graph.version
<1> DEFINE r == Head(chain)
<1>1. CASE Finalize
  <2>1. chain # <<>> /\ fix \in {"write", "leave"} /\ step = "final"
    BY <1>1 DEF Finalize, Processing, TInv, Inv, Decided, Types, Fixes
  <2>2. graph'.version = rev[r].to /\ graph'.target = IF fix = "write" THEN rev[r].to ELSE graph.target
    BY <1>1 DEF Finalize
  <2>3. fix = "write" => graph.target < rev[r].to
    BY <2>1 DEF Waiting
  <2>4. fix = "leave" => ~(graph.target < rev[r].to)
    <3>1. r \in Editors
      BY <2>1, HeadTail DEF TInv, Inv, Types, Queued
    <3>2. graph.target \in Nat /\ rev[r].to \in Nat
      BY <3>1 DEF TInv, Inv, Types, IsRev
    <3> QED
      BY <2>1, <3>2 DEF TInv, Inv, Decided
  <2>5. graph'.target = IF graph.target < rev[r].to THEN rev[r].to ELSE graph.target
    BY <2>1, <2>2, <2>3, <2>4
  <2>6. Line' = Line
    BY <1>1, <2>1 DEF Finalize, Line, Held, jobs
  <2> QED
    BY <1>1, <2>1, <2>2, <2>5, <2>6
<1>2. CASE Fail
  <2>1. graph \in [version : Nat, target : Nat, schema : {graph.schema}]
    BY DEF TInv, Inv, Types
  <2>2. /\ chain # <<>> /\ fix # "saved" /\ step # "final" /\ ~Finalize
        /\ graph' = [graph EXCEPT !.target = IF fix = "write" THEN graph.version ELSE @]
    BY <1>2 DEF Fail, FailWrites, Failing, Processing, Finalize
  <2>3. /\ graph'.version = graph.version
        /\ graph'.target = IF fix = "write" THEN graph.version ELSE graph.target
    BY <2>1, <2>2
  <2>4. fix = "write" => graph.target = rev[r].to
    BY <2>2 DEF Waiting
  <2> QED
    BY <1>2, <2>2, <2>3, <2>4
<1>3. CASE ~(Finalize \/ Fail)
  <2>1. graph' = graph
    BY <1>3, OtherSteps DEF Edit, Load, Enqueue
  <2> QED
    BY <1>3, <2>1
<1> QED
  BY <1>1, <1>2, <1>3

\* The line stays in the order of the versions, between the row's version and its target.
LEMMA NextOrdered ==
  ASSUME InOrder, TInv, Lined, Waiting, Ordered, Next
  PROVE  Ordered' /\ graph'.version >= graph.version
<1> DEFINE to(e) == rev[e].to
           to2(e) == rev'[e].to
           v == graph.version
           t == graph.target
<1>1. v \in Nat /\ t \in Nat /\ v <= t /\ \A e \in Editors : to(e) \in Nat
  BY DEF TInv, Inv, Types, IsRev, TargetAhead
<1>2. Line \in Seq(Queued) /\ Queued \subseteq Editors /\ (\A e \in Queued : pc[e] = "done")
  BY LineIs DEF Queued
<1>3. DOMAIN Line = 1 .. Len(Line) /\ Len(Line) \in Nat /\ \A i \in DOMAIN Line : Line[i] \in Queued
  BY <1>2
<1>4. /\ \A i, j \in DOMAIN Line : i < j => to(Line[i]) < to(Line[j])
      /\ \A i \in DOMAIN Line : v <= to(Line[i]) /\ to(Line[i]) <= t
      /\ \A e \in Editors : pc[e] = "enqueue" =>
           /\ v <= to(e) /\ to(e) <= t
           /\ \A i \in DOMAIN Line : to(Line[i]) < to(e)
           /\ \A o \in Editors : pc[o] = "enqueue" => o = e
  BY DEF Ordered
<1>5. ASSUME NEW e \in Editors, Submit(e), pc[e] = "submit", to2(e) = t + 1,
             graph'.version = v, graph'.target = t + 1,
             \A f \in Editors \ {e} : to2(f) = to(f) /\ pc'[f] = pc[f],
             \A f \in Editors : pc[f] # "enqueue"
      PROVE  Ordered' /\ graph'.version >= v
  <2>1. Line' = Line
    BY <1>5 DEF Submit, jobs, work, Line, Held
  <2>2. \A i \in DOMAIN Line : Line[i] # e /\ to2(Line[i]) = to(Line[i])
    BY <1>2, <1>3, <1>5
  <2> HIDE DEF to, to2
  <2>3. /\ \A i, j \in DOMAIN Line : i < j => to2(Line[i]) < to2(Line[j])
        /\ \A i \in DOMAIN Line : v <= to2(Line[i]) /\ to2(Line[i]) <= t + 1
        /\ \A f \in Editors : pc'[f] = "enqueue" =>
             /\ v <= to2(f) /\ to2(f) <= t + 1
             /\ \A i \in DOMAIN Line : to2(Line[i]) < to2(f)
             /\ \A o \in Editors : pc'[o] = "enqueue" => o = f
    <3>1. \A i \in DOMAIN Line : to(Line[i]) \in Nat
      BY <1>1, <1>2, <1>3
    <3>2. \A f \in Editors : pc'[f] = "enqueue" => f = e
      BY <1>5
    <3> QED
      BY <1>1, <1>4, <1>5, <2>2, <3>1, <3>2
  <2> QED
    BY <1>1, <1>5, <2>1, <2>3 DEF Ordered, to2
<1>6. ASSUME \A f \in Editors : to2(f) = to(f) /\ (pc'[f] = "enqueue" => pc[f] = "enqueue"),
             graph'.version = v, graph'.target = t, Line' = Line
      PROVE  Ordered' /\ graph'.version >= v
  <2>1. \A i \in DOMAIN Line : to2(Line[i]) = to(Line[i])
    BY <1>2, <1>3, <1>6
  <2> HIDE DEF to, to2
  <2>2. /\ \A i, j \in DOMAIN Line : i < j => to2(Line[i]) < to2(Line[j])
        /\ \A i \in DOMAIN Line : v <= to2(Line[i]) /\ to2(Line[i]) <= t
        /\ \A f \in Editors : pc'[f] = "enqueue" =>
             /\ v <= to2(f) /\ to2(f) <= t
             /\ \A i \in DOMAIN Line : to2(Line[i]) < to2(f)
             /\ \A o \in Editors : pc'[o] = "enqueue" => o = f
    BY <1>4, <1>6, <2>1
  <2> QED
    BY <1>1, <1>6, <2>2 DEF Ordered, to2
<1>7. ASSUME NEW e \in Editors, Enqueue(e), Line' = Append(Line, e),
             \A f \in Editors : to2(f) = to(f)
      PROVE  Ordered' /\ graph'.version >= v
  <2>1. graph' = graph /\ pc[e] = "enqueue" /\ pc' = [pc EXCEPT ![e] = "done"]
    BY <1>7 DEF Enqueue
  <2>2. \A f \in Editors : pc'[f] # "enqueue"
    BY <1>4, <2>1 DEF TInv, Inv, Types
  <2> DEFINE n == Len(Line)
  <2>3. /\ DOMAIN Line' = 1 .. n + 1 /\ Line'[n + 1] = e
        /\ \A i \in 1 .. n : Line'[i] = Line[i] /\ Line[i] \in Editors
    BY <1>2, <1>3, <1>7
  <2> HIDE DEF to, to2, n
  <2>4. \A i \in DOMAIN Line' : to2(Line'[i]) = IF i = n + 1 THEN to(e) ELSE to(Line[i])
    BY <1>3, <1>7, <2>3 DEF n
  <2>5. \A i \in DOMAIN Line' : i = n + 1 \/ i \in DOMAIN Line
    BY <1>3, <2>3 DEF n
  <2>6. v <= to(e) /\ to(e) <= t /\ \A i \in DOMAIN Line : to(Line[i]) < to(e)
    BY <1>4, <2>1
  <2>7. /\ \A i, j \in DOMAIN Line' : i < j => to2(Line'[i]) < to2(Line'[j])
        /\ \A i \in DOMAIN Line' : v <= to2(Line'[i]) /\ to2(Line'[i]) <= t
    <3>1. \A i, j \in DOMAIN Line' : i < j => i \in DOMAIN Line
      BY <1>3, <2>3, <2>5 DEF n
    <3>2. ASSUME NEW i \in DOMAIN Line', NEW j \in DOMAIN Line', i < j
          PROVE  to2(Line'[i]) < to2(Line'[j])
      <4>1. i \in DOMAIN Line /\ to2(Line'[i]) = to(Line[i])
        BY <1>3, <2>4, <3>1, <3>2 DEF n
      <4>2. CASE j = n + 1
        BY <2>4, <2>6, <4>1, <4>2
      <4>3. CASE j # n + 1
        BY <1>4, <2>4, <2>5, <3>2, <4>1, <4>3
      <4> QED
        BY <4>2, <4>3
    <3>3. \A i \in DOMAIN Line' : v <= to2(Line'[i]) /\ to2(Line'[i]) <= t
      BY <1>4, <2>4, <2>5, <2>6
    <3> QED
      BY <3>2, <3>3
  <2> QED
    BY <1>1, <2>1, <2>2, <2>7 DEF Ordered, to2
<1>8. ASSUME Finalize, Line' = Line, Line # <<>>, Head(Line) = Head(chain),
             graph'.version = to(Head(chain)),
             graph'.target = IF t < to(Head(chain)) THEN to(Head(chain)) ELSE t,
             \A f \in Editors : to2(f) = to(f) /\ (pc'[f] = "enqueue" => pc[f] = "enqueue")
      PROVE  Ordered' /\ graph'.version >= v
  <2>1. 1 \in DOMAIN Line /\ Line[1] = Head(chain)
    BY <1>2, <1>3, <1>8
  <2>2. \A i \in DOMAIN Line : to2(Line[i]) = to(Line[i]) /\ to(Line[i]) \in Nat
    BY <1>1, <1>2, <1>3, <1>8
  <2> DEFINE w == to(Line[1])
  <2>3. w \in Nat /\ v <= w /\ w <= t /\ graph'.version = w /\ graph'.target = t
    BY <1>1, <1>4, <1>8, <2>1, <2>2
  <2> HIDE DEF to, to2, w
  <2>4. \A i \in DOMAIN Line : i = 1 \/ 1 < i
    BY <1>3
  <2>5. \A i \in DOMAIN Line : w <= to(Line[i])
    BY <1>4, <2>1, <2>2, <2>3, <2>4 DEF w
  <2>6. \A f \in Editors : pc[f] = "enqueue" => w < to(f) /\ to(f) \in Nat
    BY <1>1, <1>4, <2>1 DEF w
  <2>7. /\ \A i, j \in DOMAIN Line : i < j => to2(Line[i]) < to2(Line[j])
        /\ \A i \in DOMAIN Line : w <= to2(Line[i]) /\ to2(Line[i]) <= t
        /\ \A f \in Editors : pc'[f] = "enqueue" =>
             /\ w <= to2(f) /\ to2(f) <= t
             /\ \A i \in DOMAIN Line : to2(Line[i]) < to2(f)
             /\ \A o \in Editors : pc'[o] = "enqueue" => o = f
    BY <1>4, <1>8, <2>2, <2>3, <2>5, <2>6
  <2> QED
    BY <1>1, <1>8, <2>3, <2>7 DEF Ordered, to2
<1>9. ASSUME Line # <<>>, Line' = Tail(Line), graph'.version = v,
             graph'.target = t \/ (t = to(Head(Line)) /\ graph'.target = v),
             \A f \in Editors : to2(f) = to(f) /\ (pc'[f] = "enqueue" => pc[f] = "enqueue")
      PROVE  Ordered' /\ graph'.version >= v
  <2> DEFINE n == Len(Line)
  <2>1. /\ 1 \in DOMAIN Line /\ Line[1] = Head(Line) /\ n \in Nat \ {0} /\ DOMAIN Line = 1 .. n
        /\ DOMAIN Line' = 1 .. n - 1 /\ \A i \in 1 .. n - 1 : Line'[i] = Line[i + 1]
    BY <1>2, <1>3, <1>9
  <2>2. \A i \in DOMAIN Line : to2(Line[i]) = to(Line[i]) /\ to(Line[i]) \in Nat
    BY <1>1, <1>2, <1>3, <1>9
  <2> HIDE DEF to, to2, n
  <2>3. \A i \in DOMAIN Line' : i + 1 \in DOMAIN Line /\ 1 < i + 1 /\ to2(Line'[i]) = to(Line[i + 1])
    BY <2>1, <2>2
  <2>4. (\E i \in DOMAIN Line' : TRUE) \/ (\E f \in Editors : pc'[f] = "enqueue") => graph'.target = t
    <3>1. ASSUME NEW i \in DOMAIN Line' PROVE t # to(Head(Line))
      <4>1. to(Line[1]) < to(Line[i + 1]) /\ to(Line[i + 1]) <= t
        BY <1>4, <2>1, <2>3
      <4> QED
        BY <1>1, <2>1, <2>2, <2>3, <4>1
    <3>2. ASSUME NEW f \in Editors, pc'[f] = "enqueue" PROVE t # to(Head(Line))
      <4>1. to(Line[1]) < to(f) /\ to(f) <= t
        BY <1>4, <1>9, <2>1, <3>2
      <4> QED
        BY <1>1, <2>1, <2>2, <4>1
    <3> QED
      BY <1>9, <3>1, <3>2
  <2>5. /\ \A i, j \in DOMAIN Line' : i < j => to2(Line'[i]) < to2(Line'[j])
        /\ \A i \in DOMAIN Line' : v <= to2(Line'[i]) /\ to2(Line'[i]) <= graph'.target
    <3>1. \A i, j \in DOMAIN Line' : i < j => i + 1 < j + 1
      BY <2>1
    <3> QED
      BY <1>4, <2>3, <2>4, <3>1
  <2>6. \A f \in Editors : pc'[f] = "enqueue" =>
          /\ v <= to2(f) /\ to2(f) <= graph'.target
          /\ \A i \in DOMAIN Line' : to2(Line'[i]) < to2(f)
          /\ \A o \in Editors : pc'[o] = "enqueue" => o = f
    BY <1>4, <1>9, <2>3, <2>4
  <2> QED
    BY <1>1, <1>9, <2>5, <2>6 DEF Ordered, to2
<1>10. CASE \E e \in Editors : /\ Submit(e) /\ pc[e] = "submit" /\ to2(e) = t + 1
                               /\ graph'.version = v /\ graph'.target = t + 1
                               /\ \A f \in Editors \ {e} : to2(f) = to(f) /\ pc'[f] = pc[f]
                               /\ \A f \in Editors : pc[f] # "enqueue"
  BY <1>5, <1>10
<1>11. CASE /\ \A f \in Editors : to2(f) = to(f) /\ (pc'[f] = "enqueue" => pc[f] = "enqueue")
            /\ (\E e \in Editors : Submit(e)) => graph' = graph
  <2>1. CASE \E e \in Editors : Submit(e)
    <3>1. Line' = Line
      BY <2>1 DEF Submit, jobs, work, Line, Held
    <3> QED
      BY <1>6, <1>11, <2>1, <3>1
  <2>2. CASE \E e \in Editors : Enqueue(e) /\ Line' = Append(Line, e)
    BY <1>7, <1>11, <2>2
  <2>3. CASE Acknowledge \/ Fail
    <3>1. ~Finalize /\ ~\E e \in Editors : Submit(e)
      BY <2>3 DEF Acknowledge, Fail, FailWrites, Failing, Processing, Finalize, Leave, Submit, work
    <3> QED
      BY <1>9, <1>11, <2>3, <3>1, RowMoves, LineMoves, LineIs
  <2>4. CASE /\ ~\E e \in Editors : Submit(e)
             /\ Line' = Line /\ ~(Acknowledge \/ Fail)
    BY <1>6, <1>8, <1>11, <2>4, RowMoves, LineMoves, LineIs
  <2> QED
    BY <2>1, <2>2, <2>3, <2>4, LineMoves
<1> QED
  BY <1>10, <1>11, VersionsKept

\* The jobs stay in order.
THEOREM OrderInductive ==
  ASSUME InOrder
  PROVE  Spec => [](TInv /\ Lined /\ Waiting /\ Ordered)
<1>1. "overtake" \notin Faults
  BY DEF InOrder
<1>2. Init => TInv /\ Lined /\ Waiting /\ Ordered
  <2> SUFFICES ASSUME Init PROVE TInv /\ Lined /\ Waiting /\ Ordered
    OBVIOUS
  <2>1. Waiting
    BY DEF Init, Waiting
  <2>2. Line = <<>> /\ \A e \in Editors : pc[e] # "enqueue"
    BY DEF Init, Line, Held
  <2>3. Ordered
    BY <2>2 DEF Ordered
  <2> QED
    BY <2>1, <2>3, InitTypes, InitLined
<1>3. TInv /\ Lined /\ Waiting /\ Ordered /\ [Next]_vars => (TInv /\ Lined /\ Waiting /\ Ordered)'
  <2> SUFFICES ASSUME TInv, Lined, Waiting, Ordered, [Next]_vars
               PROVE  (TInv /\ Lined /\ Waiting /\ Ordered)'
    OBVIOUS
  <2>1. TInv'
    BY NextTypes
  <2>2. CASE Next
    BY <1>1, <2>1, <2>2, NextLined, NextWaiting, NextOrdered
  <2>3. CASE UNCHANGED vars
    BY <2>1, <2>3, StillLined DEF vars, row, jobs, work, reg, Waiting, Ordered, Line, Held
  <2> QED
    BY <2>2, <2>3
<1> QED
  BY <1>2, <1>3, PTL DEF Spec

---------------------------------------------------------------------------
(* What one edit becomes by a merge.  Editors set and add nodes: then the nodes of a
   schema are those of an earlier one and more behind them, and an edit is found at
   its index in all that is merged on top of it. *)

NodeBy(e) == [id |-> e, cfg |-> e]

\* Nothing is spliced into the middle.
LEMMA SplicedNone ==
  ASSUME NEW S, NEW s \in Seq(S), NEW b \in Seq(S), NEW c \in Seq(S), Len(c) = Len(b)
  PROVE  Spliced(s, b, c) = s
<1> DEFINE m == Least(Len(b), Len(s))
           p == SubSeq(s, 1, m)
           t == SubSeq(s, m + 1, Len(s))
           q == SubSeq(c, Len(b) + 1, Len(c))
<1>1. m \in Nat /\ m <= Len(s) /\ Len(s) \in Nat /\ Len(b) \in Nat
  BY LeastIs
<1>2. q = <<>>
  BY <1>1
<1>3. Spliced(s, b, c) = (p \o q) \o t
  BY DEF Spliced
<1> HIDE DEF m, q
<1>4. p \in Seq(S) /\ t \in Seq(S)
  <2>1. 1 \in Nat \ {0} /\ m + 1 \in Nat \ {0}
    BY <1>1
  <2> QED
    BY <1>1, <2>1, Stretch
<1>5. p \o q = p
  <2> HIDE DEF p
  <2> QED
    BY <1>2, <1>4, JoinNone
<1>6. /\ Len(p) = m /\ \A j \in 1 .. m : p[j] = s[j]
      /\ Len(t) = Len(s) - m /\ \A j \in 1 .. Len(s) - m : t[j] = s[m + j]
  <2>1. /\ Len(p) = (IF 1 <= m THEN m - 1 + 1 ELSE 0) /\ \A j \in 1 .. m - 1 + 1 : p[j] = s[1 + j - 1]
        /\ Len(t) = (IF m + 1 <= Len(s) THEN Len(s) - (m + 1) + 1 ELSE 0)
        /\ \A j \in 1 .. Len(s) - (m + 1) + 1 : t[j] = s[(m + 1) + j - 1]
    <3>1. 1 \in Nat \ {0} /\ m + 1 \in Nat \ {0}
      BY <1>1
    <3> QED
      BY <1>1, <3>1, Stretch
  <2> HIDE DEF p, t
  <2>2. m - 1 + 1 = m /\ Len(s) - (m + 1) + 1 = Len(s) - m /\ (m + 1 <= Len(s) \/ Len(s) - m = 0)
    BY <1>1
  <2>3. \A j \in 1 .. m : 1 + j - 1 = j
    BY <1>1
  <2>4. \A j \in 1 .. Len(s) - m : (m + 1) + j - 1 = m + j
    BY <1>1
  <2>5. Len(p) = m
    <3>1. 1 <= m \/ m = 0
      BY <1>1
    <3> QED
      BY <2>1, <2>2, <3>1
  <2>6. \A j \in 1 .. m : p[j] = s[j]
    <3> SUFFICES ASSUME NEW j \in 1 .. m PROVE p[j] = s[j]
      OBVIOUS
    <3>1. p[j] = s[1 + j - 1]
      BY <2>1, <2>2
    <3> QED
      BY <2>3, <3>1
  <2>7. Len(t) = Len(s) - m
    BY <1>1, <2>1, <2>2
  <2>8. \A j \in 1 .. Len(s) - m : t[j] = s[m + j]
    <3> SUFFICES ASSUME NEW j \in 1 .. Len(s) - m PROVE t[j] = s[m + j]
      OBVIOUS
    <3>1. t[j] = s[(m + 1) + j - 1]
      BY <2>1, <2>2
    <3> QED
      BY <2>4, <3>1
  <2> QED
    BY <2>5, <2>6, <2>7, <2>8
<1>7. p \o t = s
  <2> HIDE DEF p, t
  <2>1. /\ p \o t \in Seq(S) /\ Len(p \o t) = Len(s)
        /\ \A j \in 1 .. m : (p \o t)[j] = p[j]
        /\ \A j \in 1 .. Len(t) : (p \o t)[m + j] = t[j]
    BY <1>1, <1>4, <1>6, Joined
  <2>2. \A j \in 1 .. Len(s) : (p \o t)[j] = s[j]
    <3> SUFFICES ASSUME NEW j \in 1 .. Len(s) PROVE (p \o t)[j] = s[j]
      OBVIOUS
    <3>1. CASE j <= m
      BY <1>1, <1>6, <2>1, <3>1
    <3>2. CASE j > m
      <4> DEFINE k == j - m
      <4>1. k \in 1 .. Len(s) - m /\ m + k = j
        BY <1>1, <3>2
      <4> HIDE DEF k
      <4>2. (p \o t)[m + k] = t[k] /\ t[k] = s[m + k]
        BY <1>6, <2>1, <4>1
      <4> QED
        BY <4>1, <4>2
    <3>3. j <= m \/ j > m
      BY <1>1
    <3> QED
      BY <3>1, <3>2, <3>3
  <2>3. \A u \in Seq(S) : Len(u) = Len(s) /\ (\A j \in 1 .. Len(s) : u[j] = s[j]) => u = s
    OBVIOUS
  <2> QED
    BY <2>1, <2>2, <2>3
<1> QED
  BY <1>3, <1>5, <1>7

\* A node spliced in behind the base comes last, if the head is not longer.
LEMMA SplicedOne ==
  ASSUME NEW S, NEW s \in Seq(S), NEW b \in Seq(S), NEW n \in S
  PROVE  /\ Len(s) <= Len(b) => Spliced(s, b, Append(b, n)) = Append(s, n)
         /\ Len(b) < Len(s) =>
              LET r == Spliced(s, b, Append(b, n))
              IN  /\ Len(b) + 1 \in DOMAIN r /\ r[Len(b) + 1] = n
                  /\ Len(b) + 2 \in DOMAIN r /\ r[Len(b) + 2] = s[Len(b) + 1]
<1> DEFINE c == Append(b, n)
           m == Least(Len(b), Len(s))
           p == SubSeq(s, 1, m)
           t == SubSeq(s, m + 1, Len(s))
           q == SubSeq(c, Len(b) + 1, Len(c))
<1>0. \A x \in Seq(S), y \in Seq(S) :
        /\ x \o y \in Seq(S) /\ Len(x \o y) = Len(x) + Len(y)
        /\ \A i \in 1 .. Len(x) : (x \o y)[i] = x[i]
        /\ \A i \in 1 .. Len(y) : (x \o y)[Len(x) + i] = y[i]
  BY Joined
<1>1. m \in Nat /\ m <= Len(s) /\ Len(s) \in Nat /\ Len(b) \in Nat
  BY LeastIs
<1>2. q = <<n>>
  <2>1. c \in Seq(S) /\ Len(c) = Len(b) + 1 /\ c[Len(b) + 1] = n
    OBVIOUS
  <2> HIDE DEF c
  <2>2. q \in Seq(S) /\ Len(q) = 1 /\ q[1] = c[Len(b) + 1 + 1 - 1]
    <3>1. /\ q \in Seq(S)
          /\ Len(q) = IF Len(b) + 1 <= Len(c) THEN Len(c) - (Len(b) + 1) + 1 ELSE 0
          /\ \A i \in 1 .. Len(c) - (Len(b) + 1) + 1 : q[i] = c[(Len(b) + 1) + i - 1]
      <4>1. Len(b) + 1 \in Nat \ {0} /\ Len(c) \in Nat
        BY <1>1, <2>1
      <4> QED
        BY <2>1, <4>1, Stretch
    <3> HIDE DEF q
    <3> QED
      BY <1>1, <2>1, <3>1
  <2> HIDE DEF q
  <2> QED
    BY <1>1, <2>1, <2>2
<1>3. Spliced(s, b, c) = (p \o q) \o t
  BY DEF Spliced
<1>4. p \in Seq(S) /\ t \in Seq(S)
  <2> HIDE DEF m
  <2>1. 1 \in Nat \ {0} /\ m + 1 \in Nat \ {0}
    BY <1>1
  <2> QED
    BY <1>1, <2>1, Stretch
<1>5. CASE Len(s) <= Len(b)
  <2>1. m = Len(s)
    BY <1>1, <1>5 DEF Least
  <2>2. p = s /\ t = <<>>
    BY <1>1, <2>1
  <2>3. s \o <<n>> = Append(s, n) /\ Append(s, n) \in Seq(S)
    BY JoinOne
  <2> DEFINE u == Append(s, n)
  <2> HIDE DEF p, q, t, u
  <2>4. Spliced(s, b, c) = u \o <<>> /\ u \in Seq(S)
    BY <1>2, <1>3, <2>2, <2>3 DEF u
  <2>5. u \o <<>> = u
    BY <2>4, JoinNone
  <2> QED
    BY <1>1, <1>5, <2>4, <2>5 DEF u
<1>6. CASE Len(b) < Len(s)
  <2>1. m = Len(b)
    BY <1>1, <1>6 DEF Least
  <2> DEFINE u == p \o q
             r == u \o t
  <2>2. Len(p) = m /\ Len(t) = Len(s) - m /\ t[1] = s[m + 1] /\ Len(t) >= 1
    <3>1. /\ Len(p) = (IF 1 <= m THEN m - 1 + 1 ELSE 0)
          /\ Len(t) = (IF m + 1 <= Len(s) THEN Len(s) - (m + 1) + 1 ELSE 0)
          /\ \A j \in 1 .. Len(s) - (m + 1) + 1 : t[j] = s[(m + 1) + j - 1]
      <4> HIDE DEF m
      <4>1. 1 \in Nat \ {0} /\ m + 1 \in Nat \ {0}
        BY <1>1
      <4> QED
        BY <1>1, <4>1, Stretch
    <3> HIDE DEF p, t, m
    <3> QED
      BY <1>1, <1>6, <2>1, <3>1
  <2>3. q \in Seq(S) /\ Len(q) = 1 /\ q[1] = n
    <3> HIDE DEF q
    <3> QED
      BY <1>2
  <2> HIDE DEF p, q, t, m
  <2>4. u \in Seq(S) /\ Len(u) = m + 1 /\ u[m + 1] = n
    <3>1. /\ p \o q \in Seq(S) /\ Len(p \o q) = Len(p) + Len(q)
          /\ \A i \in 1 .. Len(q) : (p \o q)[Len(p) + i] = q[i]
      BY <1>0, <1>4, <2>3
    <3> HIDE DEF u
    <3>2. 1 \in 1 .. Len(q)
      BY <2>3
    <3>3. u = p \o q
      BY DEF u
    <3> QED
      BY <2>2, <2>3, <3>1, <3>2, <3>3
  <2> HIDE DEF u
  <2>5. r \in Seq(S) /\ Len(r) = m + 1 + Len(t) /\ r[m + 1] = u[m + 1] /\ r[m + 1 + 1] = t[1]
    <3>1. /\ r \in Seq(S) /\ Len(r) = Len(u) + Len(t)
          /\ \A i \in 1 .. Len(u) : r[i] = u[i]
          /\ \A i \in 1 .. Len(t) : r[Len(u) + i] = t[i]
      BY <1>0, <1>4, <2>4
    <3> HIDE DEF r
    <3>2. Len(t) \in Nat /\ m + 1 \in 1 .. Len(u) /\ 1 \in 1 .. Len(t)
      BY <1>1, <1>4, <2>2, <2>4
    <3> QED
      BY <2>4, <3>1, <3>2
  <2>6. Spliced(s, b, c) = r
    BY <1>3 DEF u
  <2> HIDE DEF r
  <2>7. Len(b) + 1 \in DOMAIN r /\ Len(b) + 2 \in DOMAIN r /\ m + 1 + 1 = Len(b) + 2
    <3>1. Len(t) \in Nat /\ DOMAIN r = 1 .. Len(r)
      BY <1>4, <2>5
    <3> QED
      BY <1>1, <2>1, <2>2, <2>5, <3>1
  <2> QED
    BY <1>1, <1>6, <2>1, <2>2, <2>4, <2>5, <2>6, <2>7 DEF c
<1> QED
  BY <1>1, <1>5, <1>6

\* A node that is set: the head has it, with the configuration it had or the new one.
LEMMA MergeSet ==
  ASSUME NEW V, NEW b \in SchemaOver(V), NEW h \in SchemaOver(V), NEW e \in Editors,
         NEW i \in DOMAIN b, b[i].cfg # e,
         Merge(b, h, [b EXCEPT ![i].cfg = e]) # NoMerge
  PROVE  /\ i \in DOMAIN h /\ h[i].cfg \in {b[i].cfg, e}
         /\ Merge(b, h, [b EXCEPT ![i].cfg = e]) = [h EXCEPT ![i].cfg = e]
<1> DEFINE N == NodeOf(V, Configs)
           c == [b EXCEPT ![i].cfg = e]
<1>1. b \in Seq(N) /\ h \in Seq(N) /\ e \in Configs
  BY DEF SchemaOver, Configs
<1>2. \A x \in N : /\ [x EXCEPT !.cfg = e] \in N /\ [x EXCEPT !.cfg = e].cfg = e
                   /\ [x EXCEPT !.cfg = e].id = x.id
                   /\ (x.cfg = e => [x EXCEPT !.cfg = e] = x)
                   /\ [x EXCEPT !.cfg = e] = [f \in Fields |-> IF f = "cfg" THEN e ELSE x[f]]
                   /\ x = [f \in Fields |-> x[f]]
  <2> SUFFICES ASSUME NEW x \in N
               PROVE  /\ [x EXCEPT !.cfg = e] \in N /\ [x EXCEPT !.cfg = e].cfg = e
                      /\ [x EXCEPT !.cfg = e].id = x.id
                      /\ (x.cfg = e => [x EXCEPT !.cfg = e] = x)
                      /\ [x EXCEPT !.cfg = e] = [f \in Fields |-> IF f = "cfg" THEN e ELSE x[f]]
                      /\ x = [f \in Fields |-> x[f]]
    OBVIOUS
  <2>1. DOMAIN x = Fields /\ x.id \in V /\ x.cfg \in Configs /\ x = [id |-> x.id, cfg |-> x.cfg]
    BY DEF NodeOf, Fields
  <2> QED
    BY <1>1, <2>1 DEF NodeOf, Fields
<1> DEFINE set(x) == [x EXCEPT !.cfg = e]
<1>a. \A x \in N : set(x) \in N /\ set(x).cfg = e /\ set(x).id = x.id /\ (x.cfg = e => set(x) = x)
  BY <1>2
<1>b. /\ c = [j \in DOMAIN b |-> c[j]]
      /\ \A j \in DOMAIN b : c[j] = IF j = i THEN set(b[j]) ELSE b[j]
  OBVIOUS
<1>c. i \in DOMAIN h => [h EXCEPT ![i].cfg = e] = [j \in DOMAIN h |-> IF j = i THEN set(h[j]) ELSE h[j]]
  OBVIOUS
<1> HIDE DEF N, c, set
<1>3. /\ c \in Seq(N) /\ Len(c) = Len(b) /\ DOMAIN c = DOMAIN b
      /\ \A j \in DOMAIN b : c[j] = IF j = i THEN set(b[j]) ELSE b[j]
  <2>1. \A j \in DOMAIN b : b[j] \in N /\ c[j] \in N
    BY <1>1, <1>a, <1>b
  <2>2. DOMAIN b = 1 .. Len(b) /\ Len(b) \in Nat
    BY <1>1
  <2> QED
    BY <1>b, <2>1, <2>2
<1>4. c[i].cfg = e /\ \A j \in DOMAIN b : b[j] \in N
  BY <1>1, <1>a, <1>3
<1>5. ASSUME i \in DOMAIN h
      PROVE  /\ [h EXCEPT ![i].cfg = e] = [j \in DOMAIN h |-> IF j = i THEN set(h[j]) ELSE h[j]]
             /\ h[i].cfg = e => [h EXCEPT ![i].cfg = e] = h
             /\ h[i] \in N
  <2>1. h[i] \in N
    BY <1>1, <1>5
  <2>2. h[i].cfg = e => set(h[i]) = h[i]
    BY <1>a, <2>1
  <2>3. h = [j \in DOMAIN h |-> h[j]]
    BY <1>1
  <2> QED
    BY <1>5, <1>c, <2>1, <2>2, <2>3
<1>6. CASE h = c
  <2>1. Merge(b, h, c) = h
    BY <1>6 DEF Merge
  <2>2. i \in DOMAIN h /\ h[i].cfg = e
    BY <1>3, <1>4, <1>6
  <2> QED
    BY <1>5, <2>1, <2>2 DEF c
<1>7. CASE b = h
  BY <1>7 DEF Merge, c
<1>8. CASE h # c /\ b # h
  <2> DEFINE s == Patched(h, b, c)
  <2>1. /\ Concurrent(b, h, c) = {} /\ Applies(b, h, c) /\ Merge(b, h, c) = Applied(b, h, c)
        /\ ~DeletionConflict(b, h, c)
    BY <1>8 DEF Merge, c
  <2>2. Rest(b, h, c) = h
    BY <1>1, <1>3 DEF Rest
  <2>3. <<i, "cfg">> \in Replaced(b, c)
    BY <1>3, <1>4 DEF Replaced, Fields
  <2>4. i \in DOMAIN h
    BY <2>1, <2>2, <2>3 DEF Applies
  <2>5. h[i].cfg \in {b[i].cfg, e}
    <3> SUFFICES ASSUME h[i].cfg # b[i].cfg PROVE h[i].cfg = e
      OBVIOUS
    <3>1. <<i, "cfg">> \in Replaced(b, h)
      BY <2>4 DEF Replaced, Fields
    <3>2. <<i, "cfg">> \in Paths(b, h) \cap Paths(b, c)
      BY <2>3, <3>1 DEF Paths, Writes
    <3>3. ValueAt(h, <<i, "cfg">>) = ValueAt(c, <<i, "cfg">>)
      BY <2>1, <3>2 DEF Concurrent
    <3> QED
      BY <1>3, <1>4, <2>4, <3>3 DEF ValueAt
  <2>6. \A j \in DOMAIN h, f \in Fields : <<j, f>> \in Replaced(b, c) <=> j = i /\ f = "cfg"
    <3> SUFFICES ASSUME NEW j \in DOMAIN h, NEW f \in Fields, <<j, f>> \in Replaced(b, c)
                 PROVE  j = i /\ f = "cfg"
      BY <2>3
    <3>1. j \in DOMAIN b /\ b[j][f] # c[j][f]
      BY DEF Replaced
    <3>2. j = i
      BY <1>3, <3>1
    <3>3. b[i] \in N /\ c[i].id = b[i].id
      BY <1>a, <1>3, <1>4
    <3> QED
      BY <3>1, <3>2, <3>3 DEF Fields
  <2>7. s = [h EXCEPT ![i].cfg = e]
    <3> DEFINE w(j) == [f \in Fields |-> IF <<j, f>> \in Replaced(b, c) THEN c[j][f] ELSE h[j][f]]
               x(j) == IF j = i THEN set(h[j]) ELSE h[j]
    <3>1. \A j \in DOMAIN h : w(j) = x(j)
      <4> SUFFICES ASSUME NEW j \in DOMAIN h PROVE w(j) = x(j)
        OBVIOUS
      <4>1. h[j] \in N
        BY <1>1
      <4>2. h[j] = [f \in Fields |-> h[j][f]] /\ set(h[j]) = [f \in Fields |-> IF f = "cfg" THEN e ELSE h[j][f]]
        BY <1>2, <4>1 DEF set
      <4>3. j = i => w(j) = [f \in Fields |-> IF f = "cfg" THEN e ELSE h[j][f]]
        BY <1>4, <2>6
      <4>4. j # i => w(j) = [f \in Fields |-> h[j][f]]
        BY <2>6
      <4> QED
        BY <4>2, <4>3, <4>4
    <3>2. s = [j \in DOMAIN h |-> w(j)]
      BY DEF Patched
    <3>3. [h EXCEPT ![i].cfg = e] = [j \in DOMAIN h |-> x(j)]
      BY <1>5, <2>4
    <3> HIDE DEF w, x, s
    <3> QED
      BY <3>1, <3>2, <3>3
  <2>8. s \in Seq(N)
    BY <1>1, <1>3, PatchedNodes DEF N
  <2> HIDE DEF s
  <2>9. Merge(b, h, c) = s
    BY <1>1, <1>3, <2>1, <2>2, <2>8, SplicedNone DEF Applied, s
  <2> QED
    BY <2>4, <2>5, <2>7, <2>9 DEF c
<1> QED
  BY <1>6, <1>7, <1>8

\* A node that is added: the head has added none, or is what the client makes of the base.
LEMMA MergeAdd ==
  ASSUME NEW V, NEW b \in SchemaOver(V), NEW h \in SchemaOver(V), NEW e \in Editors, e \in V,
         Merge(b, h, Append(b, NodeBy(e))) # NoMerge
  PROVE  \/ h = Append(b, NodeBy(e)) /\ Merge(b, h, Append(b, NodeBy(e))) = h
         \/ Len(h) <= Len(b) /\ Merge(b, h, Append(b, NodeBy(e))) = Append(h, NodeBy(e))
<1> DEFINE N == NodeOf(V, Configs)
           n == NodeBy(e)
           c == Append(b, n)
<1>1. b \in Seq(N) /\ h \in Seq(N) /\ n \in N /\ n.id = e
  BY DEF SchemaOver, Configs, NodeOf, NodeBy
<1>2. Len(b) \in Nat /\ Len(h) \in Nat
  BY <1>1
<1> HIDE DEF N, n
<1>3. /\ c \in Seq(N) /\ Len(c) = Len(b) + 1 /\ c[Len(b) + 1] = n
      /\ \A j \in DOMAIN b : j \in DOMAIN c /\ c[j] = b[j]
  BY <1>1
<1> HIDE DEF c
<1>4. CASE h = c
  BY <1>4 DEF Merge, c, n
<1>5. CASE b = h
  BY <1>2, <1>5 DEF Merge, c, n
<1>6. CASE h # c /\ b # h
  <2>1. /\ Concurrent(b, h, c) = {} /\ Merge(b, h, c) = Applied(b, h, c)
        /\ Valid(Applied(b, h, c))
    BY <1>6 DEF Merge, c, n
  <2>2. Rest(b, h, c) = h
    BY <1>2, <1>3 DEF Rest
  <2>3. \A j, f : <<j, f>> \notin Replaced(b, c)
    BY <1>3 DEF Replaced
  <2>4. Patched(h, b, c) = h
    <3> DEFINE w(j) == [f \in Fields |-> IF <<j, f>> \in Replaced(b, c) THEN c[j][f] ELSE h[j][f]]
    <3>1. \A j \in DOMAIN h : w(j) = h[j]
      <4> SUFFICES ASSUME NEW j \in DOMAIN h PROVE w(j) = h[j]
        OBVIOUS
      <4>1. h[j] \in N
        BY <1>1
      <4>2. h[j] = [f \in Fields |-> h[j][f]]
        BY <4>1 DEF N, NodeOf, Fields
      <4> QED
        BY <2>3, <4>2
    <3>2. Patched(h, b, c) = [j \in DOMAIN h |-> w(j)]
      BY DEF Patched
    <3>3. h = [j \in DOMAIN h |-> h[j]]
      BY <1>1
    <3> HIDE DEF w
    <3> QED
      BY <3>1, <3>2, <3>3
  <2>5. Merge(b, h, c) = Spliced(h, b, c)
    BY <2>1, <2>2, <2>4 DEF Applied
  <2>6. CASE Len(h) <= Len(b)
    BY <1>1, <2>5, <2>6, SplicedOne DEF c, n
  <2>7. CASE Len(b) < Len(h)
    <3> DEFINE k == Len(b) + 1
               r == Spliced(h, b, c)
    <3>1. k \in DOMAIN h /\ k \in DOMAIN c /\ k \notin DOMAIN b
      BY <1>1, <1>2, <1>3, <2>7
    <3>2. <<k>> \in Paths(b, h) \cap Paths(b, c)
      BY <3>1 DEF Paths, Writes, Added
    <3>3. ValueAt(h, <<k>>) = ValueAt(c, <<k>>)
      BY <2>1, <3>2 DEF Concurrent
    <3>4. h[k] = n
      BY <1>3, <3>1, <3>3 DEF ValueAt
    <3>5. k \in DOMAIN r /\ r[k] = n /\ Len(b) + 2 \in DOMAIN r /\ r[Len(b) + 2] = h[k]
      BY <1>1, <2>7, SplicedOne DEF c
    <3> HIDE DEF r
    <3>6. Valid(r)
      BY <2>1, <2>5 DEF r
    <3>7. k = Len(b) + 2
      BY <3>4, <3>5, <3>6 DEF Valid
    <3> QED
      BY <1>2, <3>7
  <2> QED
    BY <1>2, <2>6, <2>7
<1> QED
  BY <1>4, <1>5, <1>6

\* t has the nodes of s at their indices; s has the node n configured as c; s names e
Begins(s, t)   == DOMAIN s \subseteq DOMAIN t /\ \A i \in DOMAIN s : t[i].id = s[i].id
Sets(s, n, c)  == \E i \in DOMAIN s : s[i].id = n /\ s[i].cfg = c
Mentions(s, e) == \E i \in DOMAIN s : e \in {s[i].id, s[i].cfg}

\* the edit that makes c of s, as t has it
Bears(t, e, s, c) ==
  \/ \E i \in DOMAIN s : /\ c = [s EXCEPT ![i].cfg = e]
                         /\ i \in DOMAIN t /\ t[i].id = s[i].id /\ t[i].cfg = e
  \/ c = Append(s, NodeBy(e)) /\ Len(s) + 1 \in DOMAIN t /\ t[Len(s) + 1] = NodeBy(e)

\* What is merged into a head that begins with the base begins with the head and has the
\* edit, and loses of the head only what the client has replaced knowingly.
LEMMA MergedEdit ==
  ASSUME "remove" \notin Edits,
         NEW V, NEW b \in SchemaOver(V), NEW h \in SchemaOver(V), NEW e \in Editors, e \in V,
         NEW c \in Edited(e, b), Begins(b, h), ~Mentions(b, e),
         NEW m, m = Merge(b, h, c), m # NoMerge
  PROVE  /\ Begins(h, m) /\ Bears(m, e, b, c)
         /\ \A n, r : Sets(h, n, r) => Sets(m, n, r) \/ (Sets(b, n, r) /\ Sets(c, n, e) /\ r # e)
         /\ \A x : Mentions(m, x) => Mentions(h, x) \/ x = e
         /\ \A t, u : Begins(h, t) /\ Bears(u, e, b, c) /\ Begins(u, t) => Begins(m, t)
         /\ Bears(h, e, b, c) => m = h
<1> DEFINE N == NodeOf(V, Configs)
           n0 == NodeBy(e)
<1>1. b \in Seq(N) /\ h \in Seq(N) /\ n0 \in N /\ n0.id = e /\ n0.cfg = e
  BY DEF SchemaOver, Configs, NodeOf, NodeBy
<1>2. Len(b) \in Nat /\ Len(h) \in Nat /\ DOMAIN b = 1 .. Len(b) /\ DOMAIN h = 1 .. Len(h)
  BY <1>1
<1>3. \A x \in N : [x EXCEPT !.cfg = e].cfg = e /\ [x EXCEPT !.cfg = e].id = x.id
                   /\ (x.cfg = e => [x EXCEPT !.cfg = e] = x)
  BY DEF NodeOf
<1> DEFINE set(x) == [x EXCEPT !.cfg = e]
           put(s, i) == [s EXCEPT ![i].cfg = e]
<1>4. \A s \in Seq(N) : \A i \in DOMAIN s :
        /\ DOMAIN put(s, i) = DOMAIN s /\ put(s, i)[i].cfg = e
        /\ \A j \in DOMAIN s : put(s, i)[j].id = s[j].id /\ (j # i => put(s, i)[j] = s[j])
        /\ s[i].cfg = e => put(s, i) = s
  <2> SUFFICES ASSUME NEW s \in Seq(N), NEW i \in DOMAIN s
               PROVE  /\ DOMAIN put(s, i) = DOMAIN s /\ put(s, i)[i].cfg = e
                      /\ \A j \in DOMAIN s : put(s, i)[j].id = s[j].id /\ (j # i => put(s, i)[j] = s[j])
                      /\ s[i].cfg = e => put(s, i) = s
    OBVIOUS
  <2>1. put(s, i) = [j \in DOMAIN s |-> IF j = i THEN set(s[j]) ELSE s[j]]
    OBVIOUS
  <2>2. \A x \in N : set(x).cfg = e /\ set(x).id = x.id /\ (x.cfg = e => set(x) = x)
    BY <1>3
  <2> HIDE DEF N, set, put
  <2>3. s = [j \in DOMAIN s |-> s[j]] /\ \A j \in DOMAIN s : s[j] \in N
    OBVIOUS
  <2> QED
    BY <2>1, <2>2, <2>3
<1>5. \A s \in Seq(N) : /\ DOMAIN Append(s, n0) = DOMAIN s \cup {Len(s) + 1} /\ Append(s, n0)[Len(s) + 1] = n0
                        /\ \A j \in DOMAIN s : Append(s, n0)[j] = s[j]
                        /\ Len(Append(s, n0)) = Len(s) + 1 /\ Len(s) + 1 \notin DOMAIN s
  <2> HIDE DEF N, n0
  <2> QED
    BY <1>1
<1>6. Len(b) <= Len(h) /\ \A i \in DOMAIN b : i \in DOMAIN h /\ h[i].id = b[i].id /\ b[i].cfg # e /\ b[i].id # e
  <2>1. \A i \in DOMAIN b : i \in DOMAIN h /\ h[i].id = b[i].id /\ b[i].cfg # e /\ b[i].id # e
    BY DEF Begins, Mentions
  <2> QED
    BY <1>2, <2>1
<1>7. (\E i \in DOMAIN b : c = put(b, i)) \/ c = Append(b, n0)
  BY DEF Edited, NodeBy
<1>8. ASSUME NEW u, Bears(u, e, b, c)
      PROVE  /\ \A i \in DOMAIN b : c = put(b, i) => i \in DOMAIN u /\ u[i].id = b[i].id /\ u[i].cfg = e
             /\ c = Append(b, n0) => Len(b) + 1 \in DOMAIN u /\ u[Len(b) + 1] = n0
  <2>1. \A i, j \in DOMAIN b : put(b, i) = put(b, j) => i = j
    <3> SUFFICES ASSUME NEW i \in DOMAIN b, NEW j \in DOMAIN b, put(b, i) = put(b, j), i # j PROVE FALSE
      OBVIOUS
    <3>1. put(b, i)[i].cfg = e /\ put(b, j)[i] = b[i]
      BY <1>1, <1>4
    <3> HIDE DEF put
    <3> QED
      BY <1>6, <3>1
  <2>2. \A i \in DOMAIN b : put(b, i) # Append(b, n0)
    <3> SUFFICES ASSUME NEW i \in DOMAIN b PROVE DOMAIN put(b, i) # DOMAIN Append(b, n0)
      OBVIOUS
    <3>1. DOMAIN put(b, i) = DOMAIN b
      BY <1>1, <1>4
    <3>2. DOMAIN Append(b, n0) = DOMAIN b \cup {Len(b) + 1} /\ Len(b) + 1 \notin DOMAIN b
      BY <1>1, <1>5
    <3> HIDE DEF put, n0
    <3> QED
      BY <3>1, <3>2
  <2>3. \/ \E i \in DOMAIN b : c = put(b, i) /\ i \in DOMAIN u /\ u[i].id = b[i].id /\ u[i].cfg = e
        \/ c = Append(b, n0) /\ Len(b) + 1 \in DOMAIN u /\ u[Len(b) + 1] = n0
    BY <1>8 DEF Bears
  <2> HIDE DEF put, n0
  <2> QED
    BY <2>1, <2>2, <2>3
<1>9. ASSUME NEW i \in DOMAIN b, c = put(b, i)
      PROVE  /\ Begins(h, m) /\ Bears(m, e, b, c)
             /\ \A n, r : Sets(h, n, r) => Sets(m, n, r) \/ (Sets(b, n, r) /\ Sets(c, n, e) /\ r # e)
             /\ \A x : Mentions(m, x) => Mentions(h, x) \/ x = e
             /\ \A t, u : Begins(h, t) /\ Bears(u, e, b, c) /\ Begins(u, t) => Begins(m, t)
             /\ Bears(h, e, b, c) => m = h
  <2>1. i \in DOMAIN h /\ h[i].cfg \in {b[i].cfg, e} /\ m = put(h, i)
    <3>1. b[i].cfg # e /\ Merge(b, h, [b EXCEPT ![i].cfg = e]) # NoMerge
      BY <1>6, <1>9
    <3>2. /\ i \in DOMAIN h /\ h[i].cfg \in {b[i].cfg, e}
          /\ Merge(b, h, [b EXCEPT ![i].cfg = e]) = [h EXCEPT ![i].cfg = e]
      BY <3>1, MergeSet
    <3> QED
      BY <1>9, <3>2
  <2>2. /\ DOMAIN m = DOMAIN h /\ m[i].cfg = e
        /\ \A j \in DOMAIN h : m[j].id = h[j].id /\ (j # i => m[j] = h[j])
        /\ h[i].cfg = e => m = h
    BY <1>1, <1>4, <2>1
  <2>3. i \in DOMAIN c /\ c[i].cfg = e /\ c[i].id = b[i].id
    BY <1>1, <1>4, <1>9
  <2>4. Bears(m, e, b, c)
    BY <1>6, <1>9, <2>1, <2>2 DEF Bears
  <2> HIDE DEF put, n0, N
  <2>5. Begins(h, m) /\ \A t : Begins(h, t) => Begins(m, t)
    BY <2>2 DEF Begins
  <2>6. \A n, r : Sets(h, n, r) => Sets(m, n, r) \/ (Sets(b, n, r) /\ Sets(c, n, e) /\ r # e)
    <3> SUFFICES ASSUME NEW n, NEW r, NEW j \in DOMAIN h, h[j].id = n, h[j].cfg = r
                 PROVE  Sets(m, n, r) \/ (Sets(b, n, r) /\ Sets(c, n, e) /\ r # e)
      BY DEF Sets
    <3>1. CASE j # i \/ r = e
      <4>1. j \in DOMAIN m /\ m[j].id = n /\ m[j].cfg = r
        BY <2>2, <3>1
      <4> QED
        BY <4>1 DEF Sets
    <3>2. CASE j = i /\ r # e
      <4>1. b[i].cfg = r /\ b[i].id = n /\ c[i].id = n
        BY <1>6, <2>1, <2>3, <3>2
      <4> QED
        BY <2>3, <3>2, <4>1 DEF Sets
    <3> QED
      BY <3>1, <3>2
  <2>7. \A x : Mentions(m, x) => Mentions(h, x) \/ x = e
    BY <2>2 DEF Mentions
  <2>8. Bears(h, e, b, c) => m = h
    BY <1>8, <1>9, <2>2
  <2> QED
    BY <2>4, <2>5, <2>6, <2>7, <2>8
<1>10. ASSUME c = Append(b, n0)
       PROVE  /\ Begins(h, m) /\ Bears(m, e, b, c)
              /\ \A n, r : Sets(h, n, r) => Sets(m, n, r) \/ (Sets(b, n, r) /\ Sets(c, n, e) /\ r # e)
              /\ \A x : Mentions(m, x) => Mentions(h, x) \/ x = e
              /\ \A t, u : Begins(h, t) /\ Bears(u, e, b, c) /\ Begins(u, t) => Begins(m, t)
              /\ Bears(h, e, b, c) => m = h
  <2>1. (h = c /\ m = h) \/ (Len(h) <= Len(b) /\ m = Append(h, n0))
    BY <1>10, MergeAdd
  <2>2. CASE h = c /\ m = h
    <3>1. Len(b) + 1 \in DOMAIN m /\ m[Len(b) + 1] = n0
      BY <1>1, <1>5, <1>10, <2>2
    <3>2. Bears(m, e, b, c)
      BY <1>10, <3>1 DEF Bears
    <3> QED
      BY <2>2, <3>2 DEF Begins
  <2>3. CASE Len(h) <= Len(b) /\ m = Append(h, n0)
    <3>1. Len(h) = Len(b)
      <4>1. Len(h) <= Len(b)
        BY <2>3
      <4>2. Len(b) <= Len(h)
        BY <1>6
      <4>3. Len(b) \in Nat /\ Len(h) \in Nat
        BY <1>2
      <4>4. \A x, y \in Nat : x <= y /\ y <= x => x = y
        OBVIOUS
      <4> QED
        BY <4>1, <4>2, <4>3, <4>4
    <3>2. /\ DOMAIN m = DOMAIN h \cup {Len(b) + 1} /\ m[Len(b) + 1] = n0 /\ Len(b) + 1 \notin DOMAIN h
          /\ \A j \in DOMAIN h : m[j] = h[j]
      BY <1>1, <1>5, <2>3, <3>1
    <3>3. Bears(m, e, b, c)
      BY <1>10, <3>2 DEF Bears
    <3> DEFINE k == Len(b) + 1
    <3> HIDE DEF n0, N, put, k
    <3>4. Begins(h, m)
      BY <3>2 DEF Begins
    <3>5. \A n, r : Sets(h, n, r) => Sets(m, n, r)
      BY <3>2 DEF Sets
    <3>6. \A x : Mentions(m, x) => Mentions(h, x) \/ x = e
      BY <1>1, <3>2 DEF Mentions
    <3>7. ASSUME NEW t, NEW u, Begins(h, t), Bears(u, e, b, c), Begins(u, t) PROVE Begins(m, t)
      <4>1. k \in DOMAIN u /\ u[k] = n0
        BY <1>8, <1>10, <3>7 DEF k
      <4>2. k \in DOMAIN t /\ t[k].id = n0.id
        BY <3>7, <4>1 DEF Begins
      <4> QED
        BY <3>2, <3>7, <4>2 DEF Begins, k
    <3>8. ~Bears(h, e, b, c)
      BY <1>8, <1>10, <3>2
    <3> QED
      BY <3>3, <3>4, <3>5, <3>6, <3>7, <3>8
  <2> QED
    BY <2>1, <2>2, <2>3
<1> QED
  BY <1>7, <1>9, <1>10

---------------------------------------------------------------------------
(* Who is in line, which versions have been meant for a revision, and what an applied
   revision's version says of those that have seen it. *)

Pending  == {e \in Editors : pc[e] = "enqueue"} \cup Range(Line)
Given(v) == \A w \in 2..v : AtVersion(w) # {}

Counted ==
  /\ Given(graph.target)
  /\ \A q \in Submitted : rev[q].base < rev[q].to /\ rev[q].base <= graph.version /\ Given(rev[q].to)
  /\ applied \subseteq Submitted /\ \A r \in applied : rev[r].to <= graph.version
  /\ \A q \in Submitted : \A r \in applied \ rev[q].known : rev[q].base < rev[r].to
  /\ Pending \subseteq Submitted /\ \A q \in Pending \ applied : graph.version < rev[q].to
  /\ \A e \in Editors : view[e].version <= graph.version

Accepts(e) == Submit(e) /\ pc'[e] = "enqueue"

\* What a submission that is accepted does.
LEMMA AcceptedIs ==
  ASSUME InOrder, TInv, NEW e \in Editors, Accepts(e)
  PROVE  /\ pc[e] = "submit" /\ rev[e].status = None /\ graph.version = view[e].version
         /\ \A f \in Editors : pc[f] # "enqueue"
         /\ \E head \in Heads, client \in Edited(e, view[e].schema) :
              /\ Merge(graph.schema, head, client) \notin {NoMerge, head}
              /\ rev'[e] = [status |-> "Pending", base |-> graph.version, to |-> graph.target + 1,
                            seen |-> graph.schema, client |-> client,
                            new |-> Merge(graph.schema, head, client),
                            known |-> applied, failed |-> 0]
         /\ \A f \in Editors \ {e} : rev'[f] = rev[f] /\ pc'[f] = pc[f]
         /\ graph'.version = graph.version /\ graph'.target = graph.target + 1
         /\ graph'.schema = graph.schema
         /\ UNCHANGED <<view, jobs, work, applied>>
<1>1. Target = graph.target
  BY DEF Target, TInv, Inv, Types, TargetAhead
<1>2. pc[e] = "submit" /\ rev[e].status = None /\ \A f \in Editors : pc[f] # "enqueue"
  BY DEF Accepts, Submit, InOrder, TInv, Numbers
<1>3. rev = [f \in Editors |-> rev[f]] /\ pc = [f \in Editors |-> pc[f]]
  BY DEF TInv, Inv, Types
<1>4. pc' # [pc EXCEPT ![e] = "done"]
  BY <1>3 DEF Accepts
<1>5. PICK head \in Heads, client \in Edited(e, view[e].schema) :
        /\ graph.version = view[e].version /\ Merge(graph.schema, head, client) \notin {NoMerge, head}
        /\ rev' = [rev EXCEPT ![e] =
             [status |-> "Pending", base |-> graph.version, to |-> Target + 1,
              seen |-> graph.schema, client |-> client, new |-> Merge(graph.schema, head, client),
              known |-> applied, failed |-> 0]]
        /\ graph' = [graph EXCEPT !.target = Target + 1]
        /\ pc' = [pc EXCEPT ![e] = "enqueue"]
  BY <1>4 DEF Accepts, Submit
<1>6. /\ rev'[e] = [status |-> "Pending", base |-> graph.version, to |-> graph.target + 1,
                    seen |-> graph.schema, client |-> client,
                    new |-> Merge(graph.schema, head, client), known |-> applied, failed |-> 0]
      /\ \A f \in Editors \ {e} : rev'[f] = rev[f] /\ pc'[f] = pc[f]
  BY <1>1, <1>3, <1>5
<1>7. /\ graph'.version = graph.version /\ graph'.target = graph.target + 1
      /\ graph'.schema = graph.schema
  BY <1>1, <1>5 DEF TInv, Inv, Types
<1>8. UNCHANGED <<view, jobs, work, applied>>
  BY DEF Accepts, Submit
<1> QED
  BY <1>2, <1>5, <1>6, <1>7, <1>8

\* The revision the worker is at has been submitted, and is pending until it has failed.
LEMMA HeadPending ==
  ASSUME TInv, Lined
  PROVE  /\ Line \in Seq(Editors) /\ Pending \subseteq Editors
         /\ chain # <<>> => Head(chain) \in Queued /\ Head(chain) \in Submitted
         /\ chain # <<>> /\ fix # "saved" =>
              Head(chain) \in Pending /\ 1 \in DOMAIN Line /\ Line[1] = Head(chain)
<1>1. Line \in Seq(Editors) /\ (chain # <<>> /\ fix # "saved" => Line # <<>> /\ Head(Line) = Head(chain))
  BY LineIs
<1>2. chain # <<>> /\ fix # "saved" => 1 \in DOMAIN Line /\ Line[1] = Head(chain)
  BY <1>1
<1>3. chain # <<>> => Head(chain) \in Queued /\ Head(chain) \in Submitted
  <2> SUFFICES ASSUME chain # <<>> PROVE Head(chain) \in Queued /\ Head(chain) \in Submitted
    OBVIOUS
  <2>1. Head(chain) \in Queued /\ Head(chain) \in Range(chain)
    BY RangeIs, HeadTail DEF TInv, Inv, Types
  <2> QED
    BY <2>1 DEF Lined, Occurs
<1>4. \A i \in DOMAIN Line : Line[i] \in Editors
  BY <1>1
<1> QED
  BY <1>1, <1>2, <1>3, <1>4 DEF Pending, Range

\* It is the first of those that are pending.
LEMMA HeadFirst ==
  ASSUME TInv, Lined, Ordered, chain # <<>>, fix # "saved", NEW q \in Pending, q # Head(chain)
  PROVE  rev[Head(chain)].to < rev[q].to
<1>1. 1 \in DOMAIN Line /\ Line[1] = Head(chain) /\ Line \in Seq(Editors)
  BY HeadPending
<1>2. CASE pc[q] = "enqueue" /\ q \in Editors
  BY <1>1, <1>2 DEF Ordered
<1>3. CASE \E i \in DOMAIN Line : Line[i] = q
  <2>1. PICK i \in DOMAIN Line : Line[i] = q
    BY <1>3
  <2>2. 1 < i
    BY <1>1, <2>1
  <2> QED
    BY <1>1, <2>1, <2>2 DEF Ordered
<1> QED
  BY <1>2, <1>3 DEF Pending, Range

\* Any other step leaves the revisions what they are, but for their state and for what
\* the head of the line is merged to.
LEMMA RevisionsStay ==
  ASSUME InOrder, TInv, Lined, Waiting, Counted, Next, ~\E e \in Editors : Accepts(e)
  PROVE  /\ \A f \in Editors :
              /\ rev'[f].to = rev[f].to /\ rev'[f].base = rev[f].base /\ rev'[f].seen = rev[f].seen
              /\ rev'[f].client = rev[f].client /\ rev'[f].known = rev[f].known
              /\ rev'[f].status = None <=> rev[f].status = None
              /\ rev'[f].new # rev[f].new => Remerge /\ f = Head(chain)
         /\ Submitted' = Submitted /\ \A v : AtVersion(v)' = AtVersion(v)
         /\ \A f \in Editors : Changed(f)' = Changed(f)
         /\ Pending' \subseteq Pending
         /\ ~Finalize => graph'.version = graph.version /\ graph'.schema = graph.schema
         /\ ~Finalize => applied' = applied /\ graph'.target \in {graph.target, graph.version}
<1> DEFINE r == Head(chain)
<1>1. rev = [f \in Editors |-> rev[f]] /\ (\A f \in Editors : IsRev(rev[f])) /\ pc = [f \in Editors |-> pc[f]]
  BY DEF TInv, Inv, Types
<1>2. ASSUME NEW e \in Editors, Submit(e)
      PROVE  UNCHANGED <<graph, rev>> /\ pc' = [pc EXCEPT ![e] = "done"]
  BY <1>1, <1>2 DEF Submit, Accepts
<1>3. chain # <<>> => r \in Editors /\ rev[r].status # None
  BY HeadPending DEF Submitted, Queued
<1>4. \/ rev' = rev
      \/ chain # <<>> /\ \E x : x # None /\ rev' = [rev EXCEPT ![r].status = x]
      \/ chain # <<>> /\ Remerge /\ \E x : rev' = [rev EXCEPT ![r].new = x]
      \/ chain # <<>> /\ \E x : rev' = [rev EXCEPT ![r].failed = x]
  <2>1. CASE ~(Start \/ Remerge \/ Finalize \/ Fail \/ FailStops)
    BY <1>2, <2>1, OtherSteps DEF Edit, Load, Enqueue
  <2>2. CASE Start
    <3>1. (IF rev[r].status = "Pending" THEN "Applying" ELSE rev[r].status) # None
      BY <1>3, <2>2 DEF Start, Processing, None
    <3> QED
      BY <2>2, <3>1 DEF Start, Processing
  <2>3. CASE Remerge
    BY <2>3 DEF Remerge, Processing
  <2>4. CASE Finalize \/ Fail \/ FailStops
    BY <2>4 DEF Finalize, Fail, FailWrites, FailStops, Stops, Failing, Processing, None
  <2> QED
    BY <2>1, <2>2, <2>3, <2>4
<1>5. \A f \in Editors :
        /\ rev'[f].to = rev[f].to /\ rev'[f].base = rev[f].base /\ rev'[f].seen = rev[f].seen
        /\ rev'[f].client = rev[f].client /\ rev'[f].known = rev[f].known
        /\ rev'[f].status = None <=> rev[f].status = None
        /\ rev'[f].new # rev[f].new => Remerge /\ f = Head(chain)
  <2>1. CASE chain # <<>> /\ \E x : x # None /\ rev' = [rev EXCEPT ![r].status = x]
    BY <1>1, <1>3, <2>1 DEF IsRev
  <2>2. CASE chain # <<>> /\ Remerge /\ \E x : rev' = [rev EXCEPT ![r].new = x]
    BY <1>1, <1>3, <2>2 DEF IsRev
  <2>3. CASE chain # <<>> /\ \E x : rev' = [rev EXCEPT ![r].failed = x]
    BY <1>1, <1>3, <2>3 DEF IsRev
  <2> QED
    BY <1>4, <2>1, <2>2, <2>3
<1>6. Submitted' = Submitted
  BY <1>5 DEF Submitted
<1>7. \A v : AtVersion(v)' = AtVersion(v)
  BY <1>5 DEF AtVersion
<1>8. \A f \in Editors : Changed(f)' = Changed(f)
  <2> SUFFICES ASSUME NEW f \in Editors PROVE Changed(f)' = Changed(f)
    OBVIOUS
  <2>1. rev'[f].seen = rev[f].seen /\ rev'[f].client = rev[f].client
    BY <1>5
  <2> QED
    BY <2>1 DEF Changed, Config, Ids
<1>9. Pending' \subseteq Pending
  <2>1. \A f \in Editors : pc'[f] = "enqueue" => pc[f] = "enqueue"
    <3>1. pc' = pc \/ \E e \in Editors : pc' = [pc EXCEPT ![e] = "submit"] \/ pc' = [pc EXCEPT ![e] = "done"]
      BY <1>2, OtherSteps DEF Edit, Load, Enqueue
    <3> QED
      BY <1>1, <3>1
  <2>2. Range(Line') \subseteq Range(Line) \cup {e \in Editors : pc[e] = "enqueue"}
    <3>1. Line \in Seq(Editors)
      BY HeadPending
    <3> DEFINE l == Line
               m == Line'
    <3>2. \/ m = l \/ (l # <<>> /\ m = Tail(l))
          \/ \E e \in Editors : pc[e] = "enqueue" /\ m = Append(l, e)
      BY LineMoves DEF Enqueue
    <3>3. l \in Seq(Editors)
      BY <3>1
    <3> HIDE DEF l, m
    <3>4. CASE l # <<>> /\ m = Tail(l)
      <4>1. \A i \in DOMAIN m : i + 1 \in DOMAIN l /\ m[i] = l[i + 1]
        BY <3>3, <3>4
      <4> QED
        BY <4>1 DEF l, m, Range
    <3>5. ASSUME NEW e \in Editors, pc[e] = "enqueue", m = Append(l, e)
          PROVE  \A i \in DOMAIN m : m[i] = e \/ (i \in DOMAIN l /\ m[i] = l[i])
      BY <3>3, <3>5
    <3> QED
      BY <3>2, <3>4, <3>5 DEF l, m, Range
  <2> QED
    BY <2>1, <2>2 DEF Pending
<1>10. ~Finalize => /\ graph'.version = graph.version /\ graph'.schema = graph.schema
                    /\ applied' = applied /\ graph'.target \in {graph.target, graph.version}
  <2>1. graph \in [version : Nat, target : Nat, schema : {graph.schema}]
    BY DEF TInv, Inv, Types
  <2>2. ~Finalize => /\ applied' = applied
                     /\ graph' = graph \/ \E t \in {graph.target, graph.version} : graph' = [graph EXCEPT !.target = t]
    <3>1. CASE Fail
      <4>1. graph' = [graph EXCEPT !.target = IF fix = "write" THEN graph.version ELSE graph.target]
        BY <2>1, <3>1 DEF Fail, FailWrites
      <4> QED
        BY <3>1, <4>1 DEF Fail, FailWrites
    <3>2. CASE ~Fail
      BY <1>2, <3>2, OtherSteps DEF Edit, Load, Submit, Enqueue
    <3> QED
      BY <3>1, <3>2
  <2> QED
    BY <2>1, <2>2
<1> QED
  BY <1>5, <1>6, <1>7, <1>8, <1>9, <1>10

\* Whom an accepted submission adds.
LEMMA AcceptedAdds ==
  ASSUME InOrder, TInv, Counted, NEW e \in Editors, Accepts(e)
  PROVE  /\ e \notin Submitted /\ e \notin Pending /\ e \notin applied
         /\ Submitted' = Submitted \cup {e} /\ Pending' = Pending \cup {e}
         /\ rev'[e].base = graph.version /\ rev'[e].to = graph.target + 1 /\ rev'[e].known = applied
         /\ rev'[e].seen = graph.schema
         /\ \A f \in Editors \ {e} : rev'[f] = rev[f] /\ Changed(f)' = Changed(f)
         /\ \A v : AtVersion(v)' = IF v = graph.target + 1 THEN AtVersion(v) \cup {e} ELSE AtVersion(v)
         /\ applied' = applied /\ graph'.version = graph.version /\ graph'.schema = graph.schema
         /\ graph'.target = graph.target + 1
<1>1. /\ pc[e] = "submit" /\ rev[e].status = None /\ \A f \in Editors : pc[f] # "enqueue"
      /\ rev'[e].status = "Pending" /\ rev'[e].base = graph.version /\ rev'[e].to = graph.target + 1
      /\ rev'[e].known = applied /\ rev'[e].seen = graph.schema
      /\ \A f \in Editors \ {e} : rev'[f] = rev[f] /\ pc'[f] = pc[f]
      /\ graph'.version = graph.version /\ graph'.target = graph.target + 1 /\ graph'.schema = graph.schema
      /\ UNCHANGED <<view, jobs, work, applied>>
  <2>1. \E head \in Heads, client \in Edited(e, view[e].schema) :
          rev'[e] = [status |-> "Pending", base |-> graph.version, to |-> graph.target + 1,
                     seen |-> graph.schema, client |-> client,
                     new |-> Merge(graph.schema, head, client), known |-> applied, failed |-> 0]
    BY AcceptedIs
  <2> QED
    BY <2>1, AcceptedIs
<1>2. "Pending" # None /\ pc'[e] = "enqueue"
  BY DEF None, Accepts
<1>3. e \notin Submitted /\ e \notin Pending /\ e \notin applied
  BY <1>1 DEF Counted, Submitted
<1>4. Submitted' = Submitted \cup {e}
  BY <1>1, <1>2 DEF Submitted
<1>5. Pending' = Pending \cup {e}
  <2>1. Line' = Line
    BY <1>1 DEF Line, Held, jobs, work
  <2>2. {f \in Editors : pc[f] = "enqueue"}' = {e} /\ {f \in Editors : pc[f] = "enqueue"} = {}
    BY <1>1, <1>2
  <2> QED
    BY <2>1, <2>2 DEF Pending, Range
<1>6. ASSUME NEW f \in Editors \ {e} PROVE Changed(f)' = Changed(f)
  <2>1. rev'[f].seen = rev[f].seen /\ rev'[f].client = rev[f].client
    BY <1>1
  <2> QED
    BY <2>1 DEF Changed, Config, Ids
<1>7. \A v : AtVersion(v)' = IF v = graph.target + 1 THEN AtVersion(v) \cup {e} ELSE AtVersion(v)
  BY <1>1, <1>2 DEF AtVersion
<1> QED
  BY <1>1, <1>3, <1>4, <1>5, <1>6, <1>7

\* What has been counted stays so.
LEMMA NextCounted ==
  ASSUME InOrder, TInv, Lined, Waiting, Ordered, Counted, Next
  PROVE  Counted'
<1> DEFINE v == graph.version
           t == graph.target
           Given2(x) == \A w \in 2..x : AtVersion(w)' # {}
<1>1. v \in Nat /\ t \in Nat /\ v <= t /\ \A e \in Editors : rev[e].to \in Nat /\ rev[e].base \in Nat
  BY DEF TInv, Inv, Types, IsRev, TargetAhead
<1>2. Submitted \subseteq Editors /\ applied \subseteq Submitted /\ Pending \subseteq Submitted
  BY DEF Counted, Submitted
<1>3. \A w, x \in Nat : w <= x /\ Given(x) => Given(w)
  BY DEF Given
<1>v. \A e \in Editors : view'[e].version <= graph'.version
  <2>1. graph'.version >= v
    BY NextOrdered
  <2>2. view = [e \in Editors |-> view[e]] /\ \A e \in Editors : view[e].version \in Nat /\ view[e].version <= v
    BY DEF Counted, TInv, Views, IsView
  <2>3. graph'.version \in Nat
    BY NextTypes DEF TInv, Inv, Types
  <2>4. CASE \E e \in Editors : Load(e)
    <3>1. graph' = graph /\ \E e \in Editors : view' = [view EXCEPT ![e] = Shown]
      BY <2>4 DEF Load
    <3> QED
      BY <1>1, <2>2, <3>1 DEF Shown
  <2>5. CASE ~\E e \in Editors : Load(e)
    <3>1. view' = view
      BY <2>5, OtherSteps DEF Edit, Submit, Enqueue
    <3> QED
      BY <1>1, <2>1, <2>2, <2>3, <3>1
  <2> QED
    BY <2>4, <2>5
<1>4. ASSUME NEW e \in Editors, Accepts(e) PROVE Counted'
  <2>1. /\ e \notin Submitted /\ Submitted' = Submitted \cup {e} /\ Pending' = Pending \cup {e}
        /\ rev'[e].base = v /\ rev'[e].to = t + 1 /\ rev'[e].known = applied
        /\ \A f \in Editors \ {e} : rev'[f] = rev[f]
        /\ \A w : AtVersion(w)' = IF w = t + 1 THEN AtVersion(w) \cup {e} ELSE AtVersion(w)
        /\ applied' = applied /\ graph'.version = v /\ graph'.target = t + 1
    BY <1>4, AcceptedAdds
  <2>2. \A w : Given(w) => Given2(w)
    BY <2>1 DEF Given
  <2>3. Given2(t + 1)
    <3> SUFFICES ASSUME NEW w \in 2..t + 1 PROVE AtVersion(w)' # {}
      BY DEF Given
    <3>1. CASE w = t + 1
      BY <2>1, <3>1
    <3>2. CASE w # t + 1
      <4>1. w \in 2..t
        BY <1>1, <3>2
      <4>2. AtVersion(w) # {}
        BY <4>1 DEF Counted, Given
      <4> QED
        BY <2>1, <4>2
    <3> QED
      BY <3>1, <3>2
  <2>4. \A q \in Submitted' : rev'[q].base < rev'[q].to /\ rev'[q].base <= v /\ Given2(rev'[q].to)
    <3> SUFFICES ASSUME NEW q \in Submitted'
                 PROVE  rev'[q].base < rev'[q].to /\ rev'[q].base <= v /\ Given2(rev'[q].to)
      OBVIOUS
    <3>1. CASE q = e
      BY <1>1, <2>1, <2>3, <3>1
    <3>2. CASE q # e
      <4>1. q \in Submitted /\ q \in Editors \ {e} /\ rev'[q] = rev[q]
        BY <1>2, <2>1, <3>2
      <4>2. rev[q].base < rev[q].to /\ rev[q].base <= v /\ Given(rev[q].to)
        BY <4>1 DEF Counted
      <4> QED
        BY <2>2, <4>1, <4>2
    <3> QED
      BY <3>1, <3>2
  <2>5. \A r \in applied : r \in Editors \ {e} /\ rev'[r] = rev[r] /\ rev[r].to <= v
    BY <1>2, <2>1 DEF Counted
  <2>6. \A q \in Submitted' : \A r \in applied \ rev'[q].known : rev'[q].base < rev'[r].to
    <3> SUFFICES ASSUME NEW q \in Submitted', NEW r \in applied \ rev'[q].known
                 PROVE  rev'[q].base < rev'[r].to
      OBVIOUS
    <3>1. q # e
      BY <2>1
    <3>2. q \in Submitted /\ rev'[q] = rev[q]
      BY <1>2, <2>1, <3>1
    <3> QED
      BY <2>5, <3>2 DEF Counted
  <2>7. \A q \in Pending' \ applied : v < rev'[q].to
    <3> SUFFICES ASSUME NEW q \in Pending' \ applied PROVE v < rev'[q].to
      OBVIOUS
    <3>1. CASE q = e
      BY <1>1, <2>1, <3>1
    <3>2. CASE q # e
      <4>1. q \in Pending \ applied /\ rev'[q] = rev[q]
        BY <1>2, <2>1, <3>2
      <4> QED
        BY <4>1 DEF Counted
    <3> QED
      BY <3>1, <3>2
  <2>8. \A r \in applied : rev'[r].to <= v
    BY <2>5
  <2>9. Given2(graph'.target) /\ Pending' \subseteq Submitted' /\ applied' \subseteq Submitted'
    BY <1>2, <2>1, <2>3
  <2> QED
    BY <1>v, <2>1, <2>4, <2>6, <2>7, <2>8, <2>9 DEF Counted, Given
<1>5. CASE ~\E e \in Editors : Accepts(e)
  <2>1. /\ \A f \in Editors : rev'[f].to = rev[f].to /\ rev'[f].base = rev[f].base /\ rev'[f].known = rev[f].known
        /\ Submitted' = Submitted /\ (\A w : AtVersion(w)' = AtVersion(w)) /\ Pending' \subseteq Pending
        /\ ~Finalize => graph'.version = v /\ applied' = applied /\ graph'.target \in {t, v}
    BY <1>5, RevisionsStay
  <2>2. \A w : Given(w) => Given2(w)
    BY <2>1 DEF Given
  <2>3. \A q \in Submitted' : /\ rev'[q].base < rev'[q].to /\ rev'[q].base <= v /\ Given2(rev'[q].to)
    <3> SUFFICES ASSUME NEW q \in Submitted
                 PROVE  rev'[q].base < rev'[q].to /\ rev'[q].base <= v /\ Given2(rev'[q].to)
      BY <2>1
    <3>1. rev[q].base < rev[q].to /\ rev[q].base <= v /\ Given(rev[q].to)
      BY DEF Counted
    <3>2. rev'[q].to = rev[q].to /\ rev'[q].base = rev[q].base
      BY <1>2, <2>1
    <3> QED
      BY <2>2, <3>1, <3>2
  <2>4. CASE ~Finalize
    <3>1. graph'.version = v /\ applied' = applied /\ graph'.target \in {t, v}
      BY <2>1, <2>4
    <3>2. Given(t) /\ Given(v)
      BY <1>1, <1>3 DEF Counted
    <3>3. Given2(graph'.target)
      BY <2>2, <3>1, <3>2
    <3>4. \A r \in applied : rev'[r].to <= v
      BY <1>2, <2>1 DEF Counted
    <3>5. \A q \in Submitted : \A r \in applied \ rev'[q].known : rev'[q].base < rev'[r].to
      BY <1>2, <2>1 DEF Counted
    <3>6. \A q \in Pending' \ applied : v < rev'[q].to
      BY <1>2, <2>1 DEF Counted
    <3>7. Pending' \subseteq Submitted' /\ applied' \subseteq Submitted'
      BY <1>2, <2>1, <3>1
    <3> QED
      BY <1>v, <2>1, <2>3, <3>1, <3>3, <3>4, <3>5, <3>6, <3>7 DEF Counted, Given
  <2>5. CASE Finalize
    <3> DEFINE r == Head(chain)
    <3>1. /\ chain # <<>> /\ fix # "saved" /\ r \in Pending
          /\ 1 \in DOMAIN Line /\ Line[1] = r /\ Line \in Seq(Editors)
      <4>1. chain # <<>> /\ fix # "saved"
        BY <2>5 DEF Finalize, Processing, TInv, Inv, Decided
      <4> QED
        BY <4>1, HeadPending
    <3>2. r \in Submitted /\ r \in Editors
      BY <1>2, <3>1
    <3>3. /\ graph'.version = rev[r].to /\ applied' = applied \cup {r}
          /\ graph'.target = IF t < rev[r].to THEN rev[r].to ELSE t
      <4>1. graph'.version = rev[r].to /\ applied' = applied \cup {r} /\ ~Fail /\ ~\E e \in Editors : Submit(e)
        BY <2>5 DEF Finalize, Fail, FailWrites, Failing, Processing, Submit, work
      <4> QED
        BY <2>5, <4>1, RowMoves
    <3>4. v <= rev[r].to /\ rev[r].to <= t
      BY <3>1 DEF Ordered
    <3>5. graph'.target = t
      BY <1>1, <3>2, <3>3, <3>4
    <3>6. Given2(graph'.target)
      BY <2>2, <3>5 DEF Counted
    <3>7. \A q \in Pending : q = r \/ rev[r].to < rev[q].to
      BY <3>1, HeadFirst
    <3>8. \A q \in Pending' \ applied' : rev[r].to < rev'[q].to
      BY <1>2, <2>1, <3>3, <3>7
    <3>9. \A q \in applied' : rev'[q].to <= rev[r].to
      <4>1. rev'[r].to = rev[r].to /\ rev[r].to \in Nat
        BY <1>1, <2>1, <3>2
      <4>2. \A q \in applied : rev'[q].to = rev[q].to /\ rev[q].to <= v /\ rev[q].to \in Nat
        BY <1>1, <1>2, <2>1 DEF Counted
      <4> QED
        BY <1>1, <3>3, <3>4, <4>1, <4>2
    <3>10. \A q \in Submitted : \A x \in applied' \ rev'[q].known : rev'[q].base < rev'[x].to
      <4> SUFFICES ASSUME NEW q \in Submitted, NEW x \in applied' \ rev[q].known
                   PROVE  rev[q].base < rev[x].to
        BY <1>2, <2>1, <3>2, <3>3
      <4>1. CASE x \in applied
        BY <4>1 DEF Counted
      <4>2. CASE x = r /\ r \notin applied
        <5>1. v < rev[r].to /\ rev[q].base <= v
          BY <3>1, <4>2 DEF Counted
        <5> QED
          BY <1>1, <1>2, <3>2, <4>2, <5>1
      <4> QED
        BY <3>3, <4>1, <4>2
    <3>11. Pending' \subseteq Submitted' /\ applied' \subseteq Submitted'
      BY <1>2, <2>1, <3>2, <3>3
    <3>12. \A q \in Submitted' : rev'[q].base < rev'[q].to /\ rev'[q].base <= graph'.version /\ Given2(rev'[q].to)
      <4> SUFFICES ASSUME NEW q \in Submitted'
                   PROVE  rev'[q].base < rev'[q].to /\ rev'[q].base <= graph'.version /\ Given2(rev'[q].to)
        OBVIOUS
      <4>1. rev'[q].base < rev'[q].to /\ rev'[q].base <= v /\ Given2(rev'[q].to)
        BY <2>3
      <4>2. rev'[q].base \in Nat
        BY <1>1, <1>2, <2>1
      <4>3. rev'[q].base <= graph'.version
        BY <1>1, <3>2, <3>3, <3>4, <4>1, <4>2
      <4> QED
        BY <4>1, <4>3
    <3> QED
      BY <1>v, <2>1, <3>3, <3>6, <3>8, <3>9, <3>10, <3>11, <3>12 DEF Counted, Given
  <2> QED
    BY <2>4, <2>5
<1> QED
  BY <1>4, <1>5

---------------------------------------------------------------------------
(* What the schemas have of each other's edits, while no two revisions have been meant
   for a version that somebody has edited or passed. *)

Distinct      == \A q \in Submitted : Clear(rev[q].base)
Within(s, v)  == \A e \in Editors : Mentions(s, e) => e \in Submitted /\ rev[e].to <= v
Revised(r, n) == \E l \in Submitted : r \in rev[l].known /\ n \in Changed(l)

\* a schema that the graph's can become: it has the nodes, and no applied edit is lost
Carries(s) ==
  Begins(graph.schema, s) /\ \A r \in applied : \A n \in Changed(r) : Sets(s, n, r) \/ Revised(r, n)

Based ==
  /\ Within(graph.schema, graph.version) /\ Carries(graph.schema)
  /\ \A q \in Submitted :
       /\ rev[q].client \in Edited(q, rev[q].seen) /\ rev[q].new # NoMerge
       /\ Bears(rev[q].new, q, rev[q].seen, rev[q].client)
       /\ Begins(rev[q].seen, graph.schema)
       /\ Within(rev[q].seen, rev[q].base) /\ Within(rev[q].new, rev[q].to)
       /\ \A b \in AtVersion(rev[q].base) : rev[b].new = rev[q].seen

\* the version that the worker has reached is of one revision
Processed ==
  /\ Unambiguous(graph.version) => \A b \in AtVersion(graph.version) : rev[b].new = graph.schema
  /\ step = "merge" => base \in {NoMerge, rev[Head(chain)].seen}
  /\ step \in {"live", "wait", "final"} => Carries(rev[Head(chain)].new)

\* what is meant for later versions is merged on top of all before it
Above ==
  /\ \A e \in Editors : view[e].version = graph.version => view[e].schema = graph.schema
  /\ \A p \in Submitted : graph.version < rev[p].to => Carries(rev[p].new)
  /\ \A q \in Pending \ applied, h \in Submitted :
       rev[q].to < rev[h].to /\ Unambiguous(rev[q].to) =>
         Begins(rev[q].new, rev[h].new) /\ \A n \in Changed(q) : Sets(rev[h].new, n, q)

Merged == Counted /\ (Distinct => Based /\ Processed /\ (Clear(graph.version) => Above))

LEMMA BeginsMore ==
  /\ \A s : Begins(s, s)
  /\ \A s, t, u : Begins(s, t) /\ Begins(t, u) => Begins(s, u)
<1>1. \A s : Begins(s, s)
  BY DEF Begins
<1>2. ASSUME NEW s, NEW t, NEW u, Begins(s, t), Begins(t, u) PROVE Begins(s, u)
  BY <1>2 DEF Begins
<1> QED
  BY <1>1, <1>2

\* The configuration of a node of a schema.
LEMMA ConfigIs ==
  ASSUME NEW s, Valid(s)
  PROVE  /\ \A n, c : Sets(s, n, c) => n \in Ids(s) /\ Config(s, n) = c
         /\ \A n \in Ids(s) : Sets(s, n, Config(s, n))
<1>1. \A n \in Ids(s) : \E i \in DOMAIN s : s[i].id = n
  BY DEF Ids
<1>2. ASSUME NEW n \in Ids(s)
      PROVE  \E i \in DOMAIN s : s[i].id = n /\ Config(s, n) = s[i].cfg
  <2> DEFINE i == CHOOSE i \in DOMAIN s : s[i].id = n
  <2>1. i \in DOMAIN s /\ s[i].id = n
    BY <1>1
  <2>2. Config(s, n) = s[i].cfg
    BY DEF Config
  <2> HIDE DEF i
  <2> QED
    BY <2>1, <2>2
<1>3. ASSUME NEW n, NEW c, Sets(s, n, c) PROVE n \in Ids(s) /\ Config(s, n) = c
  <2>1. PICK i \in DOMAIN s : s[i].id = n /\ s[i].cfg = c
    BY <1>3 DEF Sets
  <2>2. n \in Ids(s)
    BY <2>1 DEF Ids
  <2>3. PICK j \in DOMAIN s : s[j].id = n /\ Config(s, n) = s[j].cfg
    BY <1>2, <2>2
  <2>4. i = j
    BY <2>1, <2>3 DEF Valid
  <2> QED
    BY <2>1, <2>2, <2>3, <2>4
<1> QED
  BY <1>2, <1>3 DEF Sets

\* An edit changes one node, which all that have the edit have.
LEMMA EditChanges ==
  ASSUME "remove" \notin Edits, NEW V, NEW s \in SchemaOver(V), NEW e \in Editors,
         NEW c \in Edited(e, s), Valid(c), ~Mentions(s, e), NEW n, Config(s, n) # Config(c, n)
  PROVE  Sets(c, n, e) /\ \A t : Bears(t, e, s, c) => Sets(t, n, e)
<1> DEFINE N == NodeOf(V, Configs)
           n0 == NodeBy(e)
           put(i) == [s EXCEPT ![i].cfg = e]
<1>1. s \in Seq(N) /\ Valid(s) /\ n0.id = e /\ n0.cfg = e
  BY DEF SchemaOver, NodeBy
<1>2. \A i \in DOMAIN s : s[i].cfg # e /\ s[i].id # e
  BY DEF Mentions
<1>3. \A m, k : Config(s, m) # Config(c, m) /\ m \in Ids(s) /\ Sets(c, m, k) => ~Sets(s, m, k)
  BY <1>1, ConfigIs
<1>4. n \in Ids(s) \cup Ids(c)
  BY DEF Config
<1>5. ASSUME NEW i \in DOMAIN s
      PROVE  /\ DOMAIN put(i) = DOMAIN s /\ put(i)[i].cfg = e
             /\ \A j \in DOMAIN s : put(i)[j].id = s[j].id /\ (j # i => put(i)[j] = s[j])
  <2> DEFINE set(x) == [x EXCEPT !.cfg = e]
  <2>1. put(i) = [j \in DOMAIN s |-> IF j = i THEN set(s[j]) ELSE s[j]]
    OBVIOUS
  <2>2. \A x \in N : set(x).cfg = e /\ set(x).id = x.id
    BY DEF NodeOf
  <2> HIDE DEF N, set, put
  <2>3. \A j \in DOMAIN s : s[j] \in N
    BY <1>1
  <2> QED
    BY <2>1, <2>2, <2>3
<1>6. ASSUME NEW i \in DOMAIN s, c = put(i)
      PROVE  n = s[i].id /\ Sets(c, n, e)
  <2>1. /\ DOMAIN c = DOMAIN s /\ c[i].cfg = e
        /\ \A j \in DOMAIN s : c[j].id = s[j].id /\ (j # i => c[j] = s[j])
    BY <1>5, <1>6
  <2> HIDE DEF put, N
  <2>2. Ids(c) = Ids(s)
    BY <2>1 DEF Ids
  <2>3. PICK j \in DOMAIN s : s[j].id = n
    BY <1>4, <2>2 DEF Ids
  <2>4. j # i => FALSE
    <3> SUFFICES ASSUME j # i PROVE FALSE
      OBVIOUS
    <3>1. Sets(s, n, s[j].cfg) /\ Sets(c, n, s[j].cfg)
      BY <2>1, <2>3 DEF Sets
    <3> QED
      BY <1>1, <3>1, ConfigIs
  <2> QED
    BY <2>1, <2>3, <2>4 DEF Sets
<1>7. ASSUME c = Append(s, n0)
      PROVE  n = e /\ Sets(c, n, e)
  <2>1. /\ DOMAIN c = DOMAIN s \cup {Len(s) + 1} /\ c[Len(s) + 1] = n0
        /\ \A j \in DOMAIN s : c[j] = s[j]
    <3> HIDE DEF N, n0
    <3> QED
      BY <1>1, <1>7
  <2>2. n = e
    <3> SUFFICES ASSUME n # e PROVE FALSE
      OBVIOUS
    <3>1. PICK j \in DOMAIN s : s[j].id = n
      <4> HIDE DEF n0, N
      <4> QED
        BY <1>1, <1>4, <2>1 DEF Ids
    <3>2. Sets(s, n, s[j].cfg) /\ Sets(c, n, s[j].cfg)
      <4> HIDE DEF n0, N
      <4> QED
        BY <2>1, <3>1 DEF Sets
    <3> QED
      BY <1>1, <3>2, ConfigIs
  <2>3. Sets(c, e, e)
    <3> HIDE DEF n0, N
    <3> QED
      BY <1>1, <2>1 DEF Sets
  <2> QED
    BY <2>2, <2>3
<1>8. (\E i \in DOMAIN s : c = put(i)) \/ c = Append(s, n0)
  BY DEF Edited, NodeBy
<1>9. ASSUME NEW t, Bears(t, e, s, c) PROVE Sets(t, n, e)
  <2>1. CASE \E i \in DOMAIN s : c = put(i) /\ i \in DOMAIN t /\ t[i].id = s[i].id /\ t[i].cfg = e
    BY <1>6, <2>1 DEF Sets
  <2>2. CASE c = Append(s, n0) /\ Len(s) + 1 \in DOMAIN t /\ t[Len(s) + 1] = n0
    BY <1>1, <1>7, <2>2 DEF Sets
  <2> QED
    BY <1>9, <2>1, <2>2 DEF Bears
<1> QED
  BY <1>6, <1>7, <1>8, <1>9

\* Who replaces a node's configuration changes it.
LEMMA SetsChange ==
  ASSUME NEW s, Valid(s), NEW c, Valid(c), NEW n, NEW r, NEW e, Sets(s, n, r), Sets(c, n, e), r # e
  PROVE  Config(s, n) # Config(c, n)
BY ConfigIs

\* What is read of versions that have been passed is of one revision.
LEMMA ClearBelow ==
  ASSUME TInv, Counted, Clear(graph.version)
  PROVE  Distinct /\ Unambiguous(graph.version)
<1>1. graph.version \in Nat \ {0} /\ \A q \in Editors : rev[q].base \in Nat
  BY ReachIs DEF TInv, Inv, Types, IsRev, Numbers
<1>2. \A q \in Submitted : rev[q].base <= graph.version /\ q \in Editors
  BY DEF Counted, Submitted
<1>3. ASSUME NEW q \in Submitted PROVE Clear(rev[q].base)
  BY <1>1, <1>2 DEF Clear
<1>4. Unambiguous(graph.version)
  BY <1>1 DEF Clear
<1> QED
  BY <1>3, <1>4 DEF Distinct

\* Who is pending is meant for a version up to the target.
LEMMA PendingTo ==
  ASSUME TInv, Ordered, NEW q \in Pending
  PROVE  graph.version <= rev[q].to /\ rev[q].to <= graph.target
<1>1. CASE pc[q] = "enqueue" /\ q \in Editors
  BY <1>1 DEF Ordered
<1>2. CASE \E i \in DOMAIN Line : Line[i] = q
  BY <1>2 DEF Ordered
<1> QED
  BY <1>1, <1>2 DEF Pending, Range

\* A revision's own edit.
LEMMA OwnEdit ==
  ASSUME "remove" \notin Edits, TInv, Counted, Based, NEW q \in Submitted
  PROVE  /\ ~Mentions(rev[q].seen, q)
         /\ \A n \in Changed(q) : /\ n \in Nodes /\ Sets(rev[q].client, n, q) /\ Sets(rev[q].new, n, q)
<1>1. q \in Editors /\ rev[q].base \in Nat /\ rev[q].to \in Nat
  BY DEF Submitted, TInv, Inv, Types, IsRev
<1>2. rev[q].base < rev[q].to
  BY DEF Counted
<1>3. /\ rev[q].client \in Edited(q, rev[q].seen) /\ Bears(rev[q].new, q, rev[q].seen, rev[q].client)
      /\ Mentions(rev[q].seen, q) => rev[q].to <= rev[q].base
  BY <1>1 DEF Based, Within
<1>4. ~Mentions(rev[q].seen, q)
  BY <1>1, <1>2, <1>3
<1>5. rev[q].seen \in SchemaOver(Known) /\ Valid(rev[q].client)
  BY <1>1 DEF TInv, Schemas, SchemaOver
<1>6. ASSUME NEW n \in Changed(q)
      PROVE  n \in Nodes /\ Sets(rev[q].client, n, q) /\ Sets(rev[q].new, n, q)
  <2>1. n \in Nodes /\ Config(rev[q].seen, n) # Config(rev[q].client, n)
    BY DEF Changed
  <2> QED
    BY <1>1, <1>3, <1>4, <1>5, <2>1, EditChanges
<1> QED
  BY <1>4, <1>6

\* What a new revision is merged with.
LEMMA HeadIs ==
  ASSUME "remove" \notin Edits, TInv, Ordered, Counted, Based, Above, NEW head \in Heads
  PROVE  /\ head \in SchemaOver(Known) /\ Carries(head) /\ Within(head, graph.target)
         /\ \A q \in Pending \ applied :
              Unambiguous(rev[q].to) =>
                Begins(rev[q].new, head) /\ \A n \in Changed(q) : Sets(head, n, q)
<1> DEFINE v == graph.version
           t == graph.target
<1>1. v \in Nat \ {0} /\ t \in Nat /\ v <= t /\ \A q \in Editors : rev[q].to \in Nat
  BY ReachIs DEF TInv, Inv, Types, IsRev, Numbers, TargetAhead
<1>2. Target = t
  BY <1>1 DEF Target
<1>3. Pending \subseteq Submitted /\ Submitted \subseteq Editors
  BY DEF Counted, Submitted
<1>4. CASE t = v
  <2>1. head = graph.schema
    BY <1>2, <1>4 DEF Heads
  <2>2. \A q \in Pending \ applied : FALSE
    <3> SUFFICES ASSUME NEW q \in Pending \ applied PROVE FALSE
      OBVIOUS
    <3>1. v < rev[q].to /\ rev[q].to <= t
      BY PendingTo DEF Counted
    <3> QED
      BY <1>1, <1>3, <1>4, <3>1
  <2>3. head \in SchemaOver(Known)
    BY <2>1 DEF TInv, Schemas
  <2>4. Carries(head) /\ Within(head, t)
    BY <1>4, <2>1 DEF Based
  <2> QED
    BY <2>2, <2>3, <2>4
<1>5. CASE t # v
  <2>1. AtVersion(t) # {}
    <3>1. t \in 2..t
      BY <1>1, <1>5
    <3> QED
      BY <3>1 DEF Counted, Given
  <2>2. PICK s \in AtVersion(t) : head = IF rev[s].new = NoMerge THEN graph.schema ELSE rev[s].new
    BY <1>2, <1>5, <2>1 DEF Heads, SchemasAt
  <2>3. s \in Submitted /\ s \in Editors /\ rev[s].to = t
    BY <2>2 DEF AtVersion, Submitted
  <2>4. head = rev[s].new
    BY <2>2, <2>3 DEF Based
  <2>5. head \in SchemaOver(Known)
    BY <2>3, <2>4 DEF TInv, Schemas
  <2>6. Carries(head)
    BY <1>1, <1>5, <2>3, <2>4 DEF Above
  <2>7. Within(head, t)
    BY <2>3, <2>4 DEF Based
  <2>8. ASSUME NEW q \in Pending \ applied, Unambiguous(rev[q].to)
        PROVE  Begins(rev[q].new, head) /\ \A n \in Changed(q) : Sets(head, n, q)
    <3>1. rev[q].to <= t /\ q \in Submitted /\ rev[q].to \in Nat
      BY <1>1, <1>3, PendingTo
    <3>2. CASE rev[q].to = t
      <4>1. q \in AtVersion(t)
        BY <1>3, <3>1, <3>2 DEF AtVersion, Submitted
      <4>2. q = s
        BY <2>2, <2>8, <3>2, <4>1 DEF Unambiguous
      <4> QED
        BY <2>4, <3>1, <4>2, OwnEdit, BeginsMore
    <3>3. CASE rev[q].to < t
      BY <2>3, <2>4, <2>8, <3>3 DEF Above
    <3> QED
      BY <1>1, <3>1, <3>2, <3>3
  <2> QED
    BY <2>5, <2>6, <2>7, <2>8
<1> QED
  BY <1>4, <1>5

\* A submission that is accepted is merged on top of all that is pending.
LEMMA AcceptMerged ==
  ASSUME InOrder, "remove" \notin Edits, TInv, Lined, Waiting, Ordered, Merged, Next,
         NEW e \in Editors, Accepts(e), Distinct'
  PROVE  Based' /\ Processed' /\ Above'
<1> DEFINE v == graph.version
           t == graph.target
           g == graph.schema
<1>1. v \in Nat \ {0} /\ t \in Nat /\ v <= t /\ \A q \in Editors : rev[q].to \in Nat /\ rev[q].base \in Nat
  BY ReachIs DEF TInv, Inv, Types, IsRev, Numbers, TargetAhead
<1>2. Counted /\ Pending \subseteq Submitted /\ Submitted \subseteq Editors /\ applied \subseteq Submitted
  BY DEF Merged, Counted, Submitted
<1>3. /\ e \notin Submitted /\ e \notin Pending /\ e \notin applied
      /\ Submitted' = Submitted \cup {e} /\ Pending' = Pending \cup {e}
      /\ rev'[e].base = v /\ rev'[e].to = t + 1 /\ rev'[e].known = applied
      /\ \A f \in Editors \ {e} : rev'[f] = rev[f] /\ Changed(f)' = Changed(f)
      /\ \A w : AtVersion(w)' = IF w = t + 1 THEN AtVersion(w) \cup {e} ELSE AtVersion(w)
      /\ applied' = applied /\ graph'.version = v /\ graph'.schema = g
  BY <1>2, AcceptedAdds
<1>4. UNCHANGED <<view, jobs, work>> /\ v = view[e].version
  BY AcceptedIs
<1>5. PICK head \in Heads, client \in Edited(e, view[e].schema) :
        /\ Merge(g, head, client) \notin {NoMerge, head}
        /\ rev'[e] = [status |-> "Pending", base |-> v, to |-> t + 1, seen |-> g, client |-> client,
                      new |-> Merge(g, head, client), known |-> applied, failed |-> 0]
  BY AcceptedIs
<1>m. PICK m : m = Merge(g, head, client)
  OBVIOUS
<1>6. rev'[e].seen = g /\ rev'[e].client = client /\ rev'[e].new = m /\ m # NoMerge
  BY <1>5, <1>m
<1>7. \A w : Unambiguous(w)' => Unambiguous(w)
  BY <1>3 DEF Unambiguous
<1>8. Clear(v)
  <2>1. e \in Submitted' /\ rev'[e].base = v
    BY <1>3
  <2>2. \A w \in 1..v : Unambiguous(w)'
    BY <2>1 DEF Distinct, Clear
  <2> QED
    BY <1>7, <2>2 DEF Clear
<1>9. Distinct /\ Unambiguous(v)
  BY <1>2, <1>8, ClearBelow
<1>10. Based /\ Processed /\ Above
  BY <1>8, <1>9 DEF Merged
<1>11. /\ head \in SchemaOver(Known) /\ Carries(head) /\ Within(head, t)
       /\ \A q \in Pending \ applied :
            Unambiguous(rev[q].to) => Begins(rev[q].new, head) /\ \A n \in Changed(q) : Sets(head, n, q)
  BY <1>2, <1>10, HeadIs
<1>12. ~Mentions(g, e) /\ Begins(g, head) /\ view[e].schema = g
  BY <1>3, <1>4, <1>10, <1>11 DEF Based, Within, Carries, Above
<1> DEFINE W == Known \cup {e}
<1>13. g \in SchemaOver(W) /\ head \in SchemaOver(W) /\ e \in W /\ g \in SchemaOver(Known) /\ e \notin Known
  <2>1. SchemaOver(Known) \subseteq SchemaOver(W)
    BY SchemaGrows
  <2>2. g \in SchemaOver(Known)
    BY DEF TInv, Schemas
  <2>3. e \notin 1..NodeCount /\ pc[e] = "submit"
    BY AcceptedIs, EditorAssumption
  <2> QED
    BY <1>11, <2>1, <2>2, <2>3 DEF Known
<1>14. client \in Edited(e, g)
  BY <1>5, <1>12
<1> HIDE DEF v, t, W
<1>16. /\ Begins(head, m) /\ Bears(m, e, g, client)
       /\ \A n, r : Sets(head, n, r) => Sets(m, n, r) \/ (Sets(g, n, r) /\ Sets(client, n, e) /\ r # e)
       /\ \A x : Mentions(m, x) => Mentions(head, x) \/ x = e
  <2> DEFINE gg == graph.schema
  <2>1. m = Merge(gg, head, client)
    BY <1>m
  <2> HIDE DEF gg
  <2>2. gg \in SchemaOver(W) /\ client \in Edited(e, gg) /\ Begins(gg, head) /\ ~Mentions(gg, e)
    BY <1>12, <1>13, <1>14 DEF gg
  <2>3. /\ Begins(head, m) /\ Bears(m, e, gg, client)
        /\ \A n, r : Sets(head, n, r) => Sets(m, n, r) \/ (Sets(gg, n, r) /\ Sets(client, n, e) /\ r # e)
        /\ \A x : Mentions(m, x) => Mentions(head, x) \/ x = e
    BY <1>6, <1>13, <2>1, <2>2, MergedEdit
  <2> QED
    BY <2>3 DEF gg
<1>17. Valid(client) /\ Valid(g)
  <2>1. client \in SchemaOver(Known \cup {e})
    BY <1>13, <1>14, EditedIs
  <2> QED
    BY <1>13, <2>1 DEF SchemaOver
<1>18. ASSUME NEW n \in Nodes, NEW r, Sets(g, n, r), Sets(client, n, e), r # e
       PROVE  n \in Changed(e)'
  <2>1. Config(g, n) # Config(client, n)
    BY <1>17, <1>18, SetsChange
  <2>2. Config(rev'[e].seen, n) # Config(rev'[e].client, n)
    BY <1>6, <2>1
  <2>3. Changed(e)' = {k \in Nodes : Config(rev'[e].seen, k) # Config(rev'[e].client, k)}
    BY DEF Changed, Config, Ids
  <2> QED
    BY <2>2, <2>3
<1>19. \A r, n : Revised(r, n) => Revised(r, n)'
  <2> SUFFICES ASSUME NEW r, NEW n, NEW l \in Submitted, r \in rev[l].known, n \in Changed(l)
               PROVE  Revised(r, n)'
    BY DEF Revised
  <2>1. l \in Submitted' /\ r \in rev'[l].known /\ n \in Changed(l)'
    BY <1>2, <1>3
  <2> QED
    BY <2>1 DEF Revised
<1> DEFINE Carries2(s) ==
             /\ Begins(graph'.schema, s)
             /\ \A r \in applied' : \A n \in Changed(r)' : Sets(s, n, r) \/ Revised(r, n)'
           At2(w) == {x \in Editors : rev'[x].status # None /\ rev'[x].to = w}
           Within2(s, w) == \A x \in Editors : Mentions(s, x) => x \in Submitted' /\ rev'[x].to <= w
<1>20. \A s : Carries(s) => Carries2(s)
  <2> SUFFICES ASSUME NEW s, Carries(s) PROVE Carries2(s)
    OBVIOUS
  <2>1. Begins(g, s) /\ \A r \in applied : \A n \in Changed(r) : Sets(s, n, r) \/ Revised(r, n)
    BY DEF Carries
  <2>2. Begins(graph'.schema, s)
    BY <1>3, <2>1
  <2>3. \A r \in applied' : \A n \in Changed(r)' : Sets(s, n, r) \/ Revised(r, n)'
    BY <1>2, <1>3, <1>19, <2>1
  <2> QED
    BY <2>2, <2>3
<1>21. \A s, w : Within(s, w) => Within2(s, w)
  BY <1>2, <1>3 DEF Within
<1>22. Carries2(m)
  <2>1. Begins(graph'.schema, m)
    BY <1>3, <1>12, <1>16, BeginsMore
  <2>2. ASSUME NEW r \in applied, NEW n \in Changed(r)
        PROVE  Sets(m, n, r) \/ Revised(r, n)'
    <3>1. Sets(head, n, r) \/ Revised(r, n)
      BY <1>11, <2>2 DEF Carries
    <3>2. CASE Revised(r, n)
      BY <1>19, <3>2
    <3>3. CASE Sets(head, n, r)
      <4>1. Sets(m, n, r) \/ (Sets(g, n, r) /\ Sets(client, n, e) /\ r # e)
        BY <1>16, <3>3
      <4>2. ASSUME Sets(g, n, r), Sets(client, n, e), r # e PROVE Revised(r, n)'
        <5>1. n \in Nodes
          BY <2>2 DEF Changed
        <5>2. n \in Changed(e)'
          BY <1>18, <4>2, <5>1
        <5>3. e \in Submitted' /\ r \in rev'[e].known
          BY <1>3, <2>2
        <5> QED
          BY <5>2, <5>3 DEF Revised
      <4> QED
        BY <4>1, <4>2
    <3> QED
      BY <3>1, <3>2, <3>3
  <2>3. \A r \in applied' : \A n \in Changed(r)' : Sets(m, n, r) \/ Revised(r, n)'
    BY <1>2, <1>3, <2>2
  <2> QED
    BY <2>1, <2>3
<1>23. Within2(m, t + 1)
  <2> SUFFICES ASSUME NEW x \in Editors, Mentions(m, x) PROVE x \in Submitted' /\ rev'[x].to <= t + 1
    OBVIOUS
  <2>1. CASE x = e
    BY <1>1, <1>3, <2>1
  <2>2. CASE x # e
    <3>1. x \in Submitted /\ rev[x].to <= t
      BY <1>11, <1>16, <2>2 DEF Within, t
    <3> QED
      BY <1>1, <1>3, <2>2, <3>1
  <2> QED
    BY <2>1, <2>2
<1>24. \A q \in Submitted : q # e /\ q \in Editors /\ rev'[q] = rev[q] /\ Changed(q)' = Changed(q)
  BY <1>2, <1>3
<1>25. \A w \in Nat : w <= v => At2(w) = AtVersion(w) /\ AtVersion(w) \subseteq Submitted
  <2>1. \A w : AtVersion(w) \subseteq Submitted
    BY DEF AtVersion, Submitted
  <2>2. \A w \in Nat : w <= v => w # t + 1
    BY <1>1
  <2>3. \A w : AtVersion(w)' = At2(w)
    BY DEF AtVersion
  <2> HIDE DEF At2
  <2>4. \A w : At2(w) = IF w = t + 1 THEN AtVersion(w) \cup {e} ELSE AtVersion(w)
    BY <1>3, <2>3
  <2> QED
    BY <2>1, <2>2, <2>4
<1> HIDE DEF Carries2, Within2, At2
<1>26. Based'
  <2>1. Within2(graph'.schema, graph'.version) /\ Carries2(graph'.schema)
    BY <1>3, <1>10, <1>20, <1>21 DEF Based, v
  <2>2. ASSUME NEW q \in Submitted'
        PROVE  /\ rev'[q].client \in Edited(q, rev'[q].seen) /\ rev'[q].new # NoMerge
               /\ Bears(rev'[q].new, q, rev'[q].seen, rev'[q].client)
               /\ Begins(rev'[q].seen, graph'.schema)
               /\ Within2(rev'[q].seen, rev'[q].base) /\ Within2(rev'[q].new, rev'[q].to)
               /\ \A b \in At2(rev'[q].base) : rev'[b].new = rev'[q].seen
    <3>1. CASE q = e
      <4>1. Within2(g, v)
        BY <1>10, <1>21 DEF Based, v
      <4>2. \A b \in At2(v) : rev'[b].new = g
        BY <1>1, <1>9, <1>10, <1>24, <1>25 DEF Processed, v
      <4> QED
        BY <1>3, <1>6, <1>14, <1>16, <1>23, <3>1, <4>1, <4>2, BeginsMore
    <3>2. CASE q # e
      <4>1. q \in Submitted /\ rev'[q] = rev[q]
        BY <1>3, <1>24, <3>2
      <4>2. /\ rev[q].client \in Edited(q, rev[q].seen) /\ rev[q].new # NoMerge
            /\ Bears(rev[q].new, q, rev[q].seen, rev[q].client) /\ Begins(rev[q].seen, g)
            /\ Within(rev[q].seen, rev[q].base) /\ Within(rev[q].new, rev[q].to)
            /\ \A b \in AtVersion(rev[q].base) : rev[b].new = rev[q].seen
        BY <1>10, <4>1 DEF Based
      <4>3. rev[q].base \in Nat /\ rev[q].base <= v
        BY <1>1, <1>2, <4>1 DEF Counted, v
      <4>4. \A b \in At2(rev[q].base) : rev'[b].new = rev[q].seen
        BY <1>24, <1>25, <4>2, <4>3
      <4> QED
        BY <1>3, <1>21, <4>1, <4>2, <4>4
    <3> QED
      BY <3>1, <3>2
  <2> QED
    BY <2>1, <2>2 DEF Based, Carries, Within, AtVersion, Carries2, Within2, At2
<1>27. Processed'
  <2>1. ASSUME \A r, s \in At2(v) : r = s, NEW b \in At2(v) PROVE rev'[b].new = g
    <3>1. b \in AtVersion(v) /\ b \in Submitted
      BY <1>1, <1>25, <2>1
    <3>2. rev[b].new = g
      BY <1>9, <1>10, <3>1 DEF Processed, v
    <3> QED
      BY <1>24, <3>1, <3>2
  <2>2. chain # <<>> => Head(chain) \in Submitted
    BY <1>2, HeadPending
  <2>3. step # "idle" => chain # <<>>
    BY DEF TInv, Inv, Types
  <2>4. step = "merge" => base \in {NoMerge, rev'[Head(chain)].seen}
    BY <1>10, <1>24, <2>2, <2>3 DEF Processed
  <2>5. step \in {"live", "wait", "final"} => Carries2(rev'[Head(chain)].new)
    BY <1>10, <1>20, <1>24, <2>2, <2>3 DEF Processed
  <2>6. step' = step /\ base' = base /\ chain' = chain /\ graph'.version = v /\ graph'.schema = g
    BY <1>3, <1>4 DEF jobs, work
  <2>7. (\A r, s \in At2(graph'.version) : r = s) => \A b \in At2(graph'.version) : rev'[b].new = graph'.schema
    BY <2>1, <2>6
  <2> QED
    BY <2>4, <2>5, <2>6, <2>7 DEF Processed, Unambiguous, AtVersion, At2, Carries, Carries2
<1>28. Above'
  <2>1. \A f \in Editors : view'[f].version = graph'.version => view'[f].schema = graph'.schema
    BY <1>3, <1>4, <1>10 DEF Above, v
  <2>2. ASSUME NEW p \in Submitted', v < rev'[p].to PROVE Carries2(rev'[p].new)
    <3>1. CASE p = e
      BY <1>6, <1>22, <3>1
    <3>2. CASE p # e
      <4>1. p \in Submitted /\ rev'[p] = rev[p]
        BY <1>3, <1>24, <3>2
      <4>2. Carries(rev[p].new)
        BY <1>10, <2>2, <4>1 DEF Above, v
      <4> QED
        BY <1>20, <4>1, <4>2
    <3> QED
      BY <3>1, <3>2
  <2>3. ASSUME NEW q \in Pending' \ applied', NEW h \in Submitted', rev'[q].to < rev'[h].to,
               \A r, s \in At2(rev'[q].to) : r = s
        PROVE  Begins(rev'[q].new, rev'[h].new) /\ \A n \in Changed(q)' : Sets(rev'[h].new, n, q)
    <3>1. CASE q = e
      <4>1. h # e /\ h \in Submitted /\ t + 1 < rev[h].to /\ rev[h].to \in Nat
        BY <1>1, <1>2, <1>3, <1>24, <2>3, <3>1
      <4>2. t + 1 \in 2..rev[h].to
        BY <1>1, <4>1
      <4>3. AtVersion(t + 1) # {}
        BY <1>2, <4>1, <4>2 DEF Counted, Given
      <4>4. PICK x \in Submitted : rev[x].to = t + 1
        BY <4>3 DEF AtVersion, Submitted
      <4>5. x \in At2(t + 1) /\ e \in At2(t + 1)
        <5>1. x \in Submitted' /\ rev'[x].to = t + 1 /\ e \in Submitted' /\ e \in Editors /\ rev'[e].to = t + 1
          BY <1>3, <1>24, <4>4
        <5> QED
          BY <5>1 DEF At2, Submitted
      <4> QED
        BY <1>3, <1>24, <2>3, <3>1, <4>5
    <3>2. CASE q # e
      <4>1. /\ q \in Pending \ applied /\ q \in Submitted /\ q \in Editors
            /\ rev'[q] = rev[q] /\ Changed(q)' = Changed(q)
        BY <1>2, <1>3, <1>24, <2>3, <3>2
      <4>2. Unambiguous(rev[q].to)
        <5>1. \A x \in AtVersion(rev[q].to) : x \in At2(rev[q].to)
          BY <1>24 DEF AtVersion, At2, Submitted
        <5> QED
          BY <2>3, <4>1, <5>1 DEF Unambiguous
      <4>3. CASE h = e
        <5>1. Begins(rev[q].new, head) /\ \A n \in Changed(q) : Sets(head, n, q)
          BY <1>11, <4>1, <4>2
        <5>2. Begins(rev[q].new, m)
          BY <1>16, <5>1, BeginsMore
        <5>3. ~Mentions(g, q)
          <6> SUFFICES ASSUME Mentions(g, q) PROVE FALSE
            OBVIOUS
          <6>1. rev[q].to <= v
            BY <1>10, <4>1 DEF Based, Within, v
          <6>2. v < rev[q].to
            BY <1>2, <4>1 DEF Counted, v
          <6> QED
            BY <1>1, <4>1, <6>1, <6>2
        <5>4. \A n : ~Sets(g, n, q)
          BY <5>3 DEF Sets, Mentions
        <5>5. \A n \in Changed(q) : Sets(m, n, q)
          BY <1>16, <5>1, <5>4
        <5> QED
          BY <1>6, <4>1, <4>3, <5>2, <5>5
      <4>4. CASE h # e
        <5>1. h \in Submitted /\ rev'[h] = rev[h]
          BY <1>3, <1>24, <4>4
        <5>2. rev[q].to < rev[h].to
          BY <2>3, <4>1, <5>1
        <5> QED
          BY <1>10, <4>1, <4>2, <5>1, <5>2 DEF Above
      <4> QED
        BY <4>3, <4>4
    <3> QED
      BY <3>1, <3>2
  <2>4. \A p \in Submitted' : graph'.version < rev'[p].to => Carries2(rev'[p].new)
    BY <1>3, <2>2
  <2> QED
    BY <2>1, <2>3, <2>4 DEF Above, Unambiguous, AtVersion, At2, Carries, Carries2
<1> QED
  BY <1>26, <1>27, <1>28

\* What the worker merges again has all that has been applied, and what is merged on top
\* of it still begins with it.
LEMMA RemergeIs ==
  ASSUME InOrder, "remove" \notin Edits, TInv, Lined, Waiting, Ordered, Merged, Distinct, Next,
         Remerge, step' = "live"
  PROVE  LET q == Head(chain)
         IN  /\ q \in Pending
             /\ \E n : /\ rev' = [rev EXCEPT ![q].new = n] /\ n # NoMerge /\ Carries(n)
                       /\ Bears(n, q, rev[q].seen, rev[q].client) /\ Within(n, rev[q].to)
                       /\ graph.version = rev[q].to /\ Unambiguous(graph.version) => n = rev[q].new
                       /\ Clear(graph.version) /\ Unambiguous(rev[q].to) /\ q \notin applied =>
                            \A h \in Submitted : rev[q].to < rev[h].to => Begins(n, rev[h].new)
<1> DEFINE q == Head(chain)
           v == graph.version
<1>1. v \in Nat /\ \A x \in Editors : rev[x].to \in Nat /\ rev[x].base \in Nat
  BY DEF TInv, Inv, Types, IsRev
<1>2. Counted /\ Based /\ Processed /\ (Clear(v) => Above)
  BY DEF Merged
<1>3. chain # <<>> /\ step = "merge" /\ q \in Pending /\ q \in Queued
  BY HeadPending DEF Remerge, Processing, TInv, Inv, Decided
<1>4. q \in Submitted /\ q \in Editors /\ q \in Known
  BY <1>2, <1>3 DEF Counted, Submitted, Queued, Known
<1>5. PICK n : /\ rev' = [rev EXCEPT ![q].new = n] /\ n # NoMerge
               /\ n = IF v = rev[q].base THEN rev[q].new
                      ELSE IF base = NoMerge THEN NoMerge
                      ELSE Merge(base, graph.schema, rev[q].client)
  BY DEF Remerge
<1>6. rev[q].base < rev[q].to /\ rev[q].base <= v /\ v <= rev[q].to
  BY <1>2, <1>3, <1>4, PendingTo DEF Counted
<1> DEFINE Good == /\ Carries(n) /\ Bears(n, q, rev[q].seen, rev[q].client) /\ Within(n, rev[q].to)
                   /\ v = rev[q].to /\ Unambiguous(v) => n = rev[q].new
                   /\ Clear(v) /\ Unambiguous(rev[q].to) /\ q \notin applied =>
                        \A h \in Submitted : rev[q].to < rev[h].to => Begins(n, rev[h].new)
<1>7. ASSUME v = rev[q].base PROVE Good
  <2>1. n = rev[q].new
    BY <1>5, <1>7
  <2>2. Clear(v) /\ Above
    BY <1>2, <1>4, <1>7 DEF Distinct
  <2>3. v < rev[q].to
    BY <1>6, <1>7
  <2>4. Carries(n)
    BY <1>4, <2>1, <2>2, <2>3 DEF Above
  <2>5. Bears(n, q, rev[q].seen, rev[q].client) /\ Within(n, rev[q].to)
    BY <1>2, <1>4, <2>1 DEF Based
  <2>6. Unambiguous(rev[q].to) /\ q \notin applied =>
          \A h \in Submitted : rev[q].to < rev[h].to => Begins(n, rev[h].new)
    BY <1>3, <2>1, <2>2 DEF Above
  <2> QED
    BY <2>1, <2>4, <2>5, <2>6
<1>8. ASSUME v # rev[q].base PROVE Good
  <2> DEFINE s == rev[q].seen
             c == rev[q].client
             g == graph.schema
  <2>1. base = s /\ base # NoMerge /\ n = Merge(s, g, c)
    BY <1>2, <1>3, <1>5, <1>8 DEF Processed
  <2>2. s \in SchemaOver(Known) /\ g \in SchemaOver(Known) /\ Valid(s) /\ Valid(c)
    BY <1>4 DEF TInv, Schemas, SchemaOver
  <2>3. c \in Edited(q, s) /\ Begins(s, g) /\ Within(s, rev[q].base)
    BY <1>2, <1>4 DEF Based
  <2>4. ~Mentions(s, q)
    BY <1>2, <1>4, OwnEdit
  <2> HIDE DEF s, c, g
  <2>5. /\ Begins(g, n) /\ Bears(n, q, s, c)
        /\ \A m, r : Sets(g, m, r) => Sets(n, m, r) \/ (Sets(s, m, r) /\ Sets(c, m, q) /\ r # q)
        /\ \A x : Mentions(n, x) => Mentions(g, x) \/ x = q
        /\ \A t, u : Begins(g, t) /\ Bears(u, q, s, c) /\ Begins(u, t) => Begins(n, t)
        /\ Bears(g, q, s, c) => n = g
    BY <1>4, <1>5, <2>1, <2>2, <2>3, <2>4, MergedEdit
  <2>6. Carries(n)
    <3>1. ASSUME NEW r \in applied, NEW m \in Changed(r) PROVE Sets(n, m, r) \/ Revised(r, m)
      <4>1. Sets(g, m, r) \/ Revised(r, m)
        BY <1>2, <3>1 DEF Based, Carries, g
      <4>2. ASSUME Sets(s, m, r), Sets(c, m, q), r # q PROVE Revised(r, m)
        <5>1. r \in Submitted /\ r \in Editors
          BY <1>2, <3>1 DEF Counted, Submitted
        <5>2. Mentions(s, r)
          BY <4>2 DEF Sets, Mentions
        <5>3. rev[r].to <= rev[q].base
          BY <2>3, <5>1, <5>2 DEF Within
        <5>4. r \in rev[q].known
          <6>1. r \notin rev[q].known => rev[q].base < rev[r].to
            BY <1>2, <1>4, <3>1 DEF Counted
          <6> QED
            BY <1>1, <1>4, <5>1, <5>3, <6>1
        <5>5. m \in Nodes /\ Config(s, m) # Config(c, m)
          BY <2>2, <3>1, <4>2, SetsChange DEF Changed
        <5>6. m \in Changed(q)
          BY <5>5 DEF Changed, s, c
        <5> QED
          BY <1>4, <5>4, <5>6 DEF Revised
      <4> QED
        BY <2>5, <4>1, <4>2
    <3>2. Begins(graph.schema, n)
      BY <2>5 DEF g
    <3> QED
      BY <3>1, <3>2 DEF Carries
  <2>7. Within(n, rev[q].to)
    <3> SUFFICES ASSUME NEW x \in Editors, Mentions(n, x) PROVE x \in Submitted /\ rev[x].to <= rev[q].to
      BY DEF Within
    <3>1. CASE x = q
      BY <1>1, <1>4, <3>1
    <3>2. CASE x # q
      <4>1. x \in Submitted /\ rev[x].to <= v
        BY <1>2, <2>5, <3>2 DEF Based, Within, g
      <4> QED
        BY <1>1, <1>4, <1>6, <4>1
    <3> QED
      BY <3>1, <3>2
  <2>8. ASSUME v = rev[q].to, Unambiguous(v) PROVE n = rev[q].new
    <3>1. q \in AtVersion(v)
      BY <1>4, <2>8 DEF AtVersion, Submitted
    <3>2. rev[q].new = g
      BY <1>2, <2>8, <3>1 DEF Processed, g
    <3>3. Bears(g, q, s, c)
      BY <1>2, <1>4, <3>2 DEF Based, s, c
    <3> QED
      BY <2>5, <3>2, <3>3
  <2>9. ASSUME Clear(v), Unambiguous(rev[q].to), q \notin applied,
               NEW h \in Submitted, rev[q].to < rev[h].to
        PROVE  Begins(n, rev[h].new)
    <3>1. Begins(rev[q].new, rev[h].new)
      BY <1>2, <1>3, <2>9 DEF Above
    <3>2. v < rev[h].to
      <4>1. h \in Editors
        BY DEF Submitted
      <4> QED
        BY <1>1, <1>4, <1>6, <2>9, <4>1
    <3>3. Begins(g, rev[h].new)
      BY <1>2, <2>9, <3>2 DEF Above, Carries, g
    <3>4. Bears(rev[q].new, q, s, c)
      BY <1>2, <1>4 DEF Based, s, c
    <3> QED
      BY <2>5, <3>1, <3>3, <3>4
  <2>10. Bears(n, q, rev[q].seen, rev[q].client)
    BY <2>5 DEF s, c
  <2> QED
    BY <2>6, <2>7, <2>8, <2>9, <2>10
<1> QED
  BY <1>3, <1>5, <1>7, <1>8

\* What the worker has fetched and merged it has of the head of the line.
LEMMA WorkerMoves ==
  ASSUME TInv, Next, ~(Remerge /\ step' = "live")
  PROVE  /\ step' = "merge" =>
              \/ Start /\ chain' = chain
              \/ step = "merge" /\ base' = base /\ chain # <<>> /\ Head(chain') = Head(chain)
         /\ step' \in {"live", "wait", "final"} =>
              step \in {"live", "wait", "final"} /\ chain # <<>> /\ Head(chain') = Head(chain)
<1>1. chain \in Seq(Queued) /\ (step # "idle" => chain # <<>>)
  BY DEF TInv, Inv, Types
<1>2. CASE Take
  <2>1. chain # <<>> => Head(chain') = Head(chain)
    <3>1. queue # <<>> /\ chain' = Append(chain, Head(queue)) /\ queue \in Seq(Queued)
      BY <1>2 DEF Take, TInv, Inv, Types
    <3> DEFINE q == Head(queue)
    <3>2. q \in Queued
      BY <3>1, HeadTail
    <3> HIDE DEF q
    <3>3. chain # <<>> => Head(Append(chain, q)) = Head(chain)
      BY <1>1, <3>2
    <3> QED
      BY <3>1, <3>3 DEF q
  <2>2. step' = step /\ base' = base
    BY <1>2 DEF Take, work
  <2> QED
    BY <1>1, <2>1, <2>2
<1>3. CASE Start
  BY <1>3 DEF Start, jobs
<1>4. CASE Ends \/ Crash
  BY <1>4 DEF Ends, Acknowledge, Fail, FailWrites, FailStops, Stops, Failing, Processing, Leave, Crash
<1>5. CASE Remerge
  BY <1>5 DEF Remerge, jobs
<1>6. CASE Wait \/ Update
  BY <1>6 DEF Wait, Update, Processing, Outcomes, jobs
<1>7. CASE Finalize
  BY <1>7 DEF Finalize
<1>8. CASE Edit \/ Returns \/ Reads \/ RunReads \/ Register \/ Compile \/ Destroy
  <2>1. step' = step /\ base' = base /\ chain' = chain
    BY <1>8 DEF Edit, Load, Submit, Enqueue, Returns, Retry, GiveBack, Reads, FinalizeReads, FailReads,
                RunReads, Register, Compile, Destroy, jobs, work
  <2> QED
    BY <1>1, <2>1
<1> QED
  BY <1>2, <1>3, <1>4, <1>5, <1>6, <1>7, <1>8, StepIs DEF Edit

\* Whether versions are of one revision changes with submissions only.
LEMMA ClearStays ==
  ASSUME InOrder, TInv, Lined, Waiting, Counted, Next, ~\E e \in Editors : Accepts(e)
  PROVE  /\ Distinct' <=> Distinct
         /\ \A w : Clear(w)' <=> Clear(w)
         /\ \A w : Unambiguous(w)' <=> Unambiguous(w)
         /\ \A r, n : Revised(r, n)' <=> Revised(r, n)
         /\ \A s, w : Within(s, w)' <=> Within(s, w)
<1>1. /\ \A f \in Editors : rev'[f].to = rev[f].to /\ rev'[f].base = rev[f].base /\ rev'[f].known = rev[f].known
      /\ Submitted' = Submitted /\ \A v : AtVersion(v)' = AtVersion(v)
      /\ \A f \in Editors : Changed(f)' = Changed(f)
  BY RevisionsStay
<1>2. Submitted \subseteq Editors
  BY DEF Submitted
<1>3. \A w : Unambiguous(w)' <=> Unambiguous(w)
  BY <1>1 DEF Unambiguous
<1>4. \A w : Clear(w)' <=> Clear(w)
  BY <1>3 DEF Clear
<1>5. Distinct' <=> Distinct
  <2> DEFINE Clear2(w) == \A x \in 1..w : Unambiguous(x)'
  <2>1. \A w : Clear2(w) <=> Clear(w)
    BY <1>3 DEF Clear
  <2>2. Distinct' <=> \A q \in Submitted' : Clear2(rev'[q].base)
    BY DEF Distinct, Clear, Unambiguous, AtVersion
  <2> HIDE DEF Clear2
  <2>3. \A q \in Submitted' : rev'[q].base = rev[q].base
    BY <1>1, <1>2
  <2> QED
    BY <1>1, <2>1, <2>2, <2>3 DEF Distinct
<1>6. \A r, n : Revised(r, n)' <=> Revised(r, n)
  BY <1>1, <1>2 DEF Revised
<1>7. \A s, w : Within(s, w)' <=> Within(s, w)
  BY <1>1, <1>2 DEF Within
<1> QED
  BY <1>3, <1>4, <1>5, <1>6, <1>7

\* t has the nodes of s and no edit of a is lost in it
Keeps(s, a, t) ==
  Begins(s, t) /\ \A r \in a : \A n \in Changed(r) : Sets(t, n, r) \/ Revised(r, n)

\* What is to be shown of a step that is no submission: that what it writes fits what stays.
LEMMA StaysMerged ==
  ASSUME InOrder, TInv, Lined, Waiting, Counted, Next, ~\E e \in Editors : Accepts(e), Based
  PROVE  /\ /\ Within(graph'.schema, graph'.version) /\ Keeps(graph'.schema, applied', graph'.schema)
            /\ \A q \in Submitted :
                 /\ rev'[q].new # NoMerge /\ Bears(rev'[q].new, q, rev[q].seen, rev[q].client)
                 /\ Begins(rev[q].seen, graph'.schema) /\ Within(rev'[q].new, rev[q].to)
                 /\ \A b \in AtVersion(rev[q].base) : rev'[b].new = rev[q].seen
            => Based'
         /\ /\ Unambiguous(graph'.version) => \A b \in AtVersion(graph'.version) : rev'[b].new = graph'.schema
            /\ step' = "merge" => base' \in {NoMerge, rev[Head(chain')].seen}
            /\ step' \in {"live", "wait", "final"} =>
                 Keeps(graph'.schema, applied', rev'[Head(chain')].new)
            => Processed'
         /\ /\ \A e \in Editors : view'[e].version = graph'.version => view'[e].schema = graph'.schema
            /\ \A p \in Submitted :
                 graph'.version < rev[p].to => Keeps(graph'.schema, applied', rev'[p].new)
            /\ \A q \in Pending' \ applied', h \in Submitted :
                 rev[q].to < rev[h].to /\ Unambiguous(rev[q].to) =>
                   Begins(rev'[q].new, rev'[h].new) /\ \A n \in Changed(q) : Sets(rev'[h].new, n, q)
            => Above'
<1>1. /\ \A f \in Editors :
           /\ rev'[f].to = rev[f].to /\ rev'[f].base = rev[f].base /\ rev'[f].seen = rev[f].seen
           /\ rev'[f].client = rev[f].client
      /\ Submitted' = Submitted /\ (\A v : AtVersion(v)' = AtVersion(v)) /\ Pending' \subseteq Pending
      /\ \A f \in Editors : Changed(f)' = Changed(f)
  BY RevisionsStay
<1>2. Submitted \subseteq Editors /\ Pending \subseteq Submitted
  BY DEF Submitted, Counted
<1> DEFINE At2(w) == {x \in Editors : rev'[x].status # None /\ rev'[x].to = w}
           Unambiguous2(w) == \A r, s \in At2(w) : r = s
           Within2(s, w) == \A x \in Editors : Mentions(s, x) => x \in Submitted' /\ rev'[x].to <= w
           Carries2(s) == /\ Begins(graph'.schema, s)
                          /\ \A r \in applied' : \A n \in Changed(r)' : Sets(s, n, r) \/ Revised(r, n)'
<1>3. \A w : At2(w) = AtVersion(w)
  <2>1. \A w : AtVersion(w)' = At2(w)
    BY DEF AtVersion
  <2> HIDE DEF At2
  <2> QED
    BY <1>1, <2>1
<1>4. \A w : Unambiguous2(w) <=> Unambiguous(w)
  BY <1>3 DEF Unambiguous
<1>5. \A s, w : Within2(s, w) <=> Within(s, w)
  BY <1>1, <1>2 DEF Within
<1>6. \A s : Keeps(graph'.schema, applied', s) => Carries2(s)
  <2>1. \A r \in applied' : r \in Editors
    <3>1. applied' \subseteq Editors
      BY NextTypes DEF TInv, Numbers
    <3> QED
      BY <3>1
  <2>2. \A r, n : Revised(r, n)' <=> Revised(r, n)
    BY ClearStays
  <2> QED
    BY <1>1, <2>1, <2>2 DEF Keeps
<1> HIDE DEF Unambiguous2, Within2, Carries2, At2
<1>7. ASSUME /\ Within(graph'.schema, graph'.version) /\ Keeps(graph'.schema, applied', graph'.schema)
             /\ \A q \in Submitted :
                  /\ rev'[q].new # NoMerge /\ Bears(rev'[q].new, q, rev[q].seen, rev[q].client)
                  /\ Begins(rev[q].seen, graph'.schema) /\ Within(rev'[q].new, rev[q].to)
                  /\ \A b \in AtVersion(rev[q].base) : rev'[b].new = rev[q].seen
      PROVE  Based'
  <2>1. Within2(graph'.schema, graph'.version) /\ Carries2(graph'.schema)
    BY <1>5, <1>6, <1>7
  <2>2. \A q \in Submitted' :
          /\ rev'[q].client \in Edited(q, rev'[q].seen) /\ rev'[q].new # NoMerge
          /\ Bears(rev'[q].new, q, rev'[q].seen, rev'[q].client)
          /\ Begins(rev'[q].seen, graph'.schema)
          /\ Within2(rev'[q].seen, rev'[q].base) /\ Within2(rev'[q].new, rev'[q].to)
          /\ \A b \in At2(rev'[q].base) : rev'[b].new = rev'[q].seen
    <3> SUFFICES ASSUME NEW q \in Submitted
                 PROVE  /\ rev'[q].client \in Edited(q, rev'[q].seen) /\ rev'[q].new # NoMerge
                        /\ Bears(rev'[q].new, q, rev'[q].seen, rev'[q].client)
                        /\ Begins(rev'[q].seen, graph'.schema)
                        /\ Within2(rev'[q].seen, rev'[q].base) /\ Within2(rev'[q].new, rev'[q].to)
                        /\ \A b \in At2(rev'[q].base) : rev'[b].new = rev'[q].seen
      BY <1>1
    <3>1. /\ rev'[q].to = rev[q].to /\ rev'[q].base = rev[q].base /\ rev'[q].seen = rev[q].seen
          /\ rev'[q].client = rev[q].client
      BY <1>1, <1>2
    <3>2. rev[q].client \in Edited(q, rev[q].seen) /\ Within(rev[q].seen, rev[q].base)
      BY DEF Based
    <3> QED
      BY <1>3, <1>5, <1>7, <3>1, <3>2
  <2> QED
    BY <2>1, <2>2 DEF Based, Carries, Within, AtVersion, At2, Carries2, Within2
<1>8. ASSUME /\ Unambiguous(graph'.version) => \A b \in AtVersion(graph'.version) : rev'[b].new = graph'.schema
             /\ step' = "merge" => base' \in {NoMerge, rev[Head(chain')].seen}
             /\ step' \in {"live", "wait", "final"} =>
                  Keeps(graph'.schema, applied', rev'[Head(chain')].new)
      PROVE  Processed'
  <2>1. Unambiguous2(graph'.version) => \A b \in At2(graph'.version) : rev'[b].new = graph'.schema
    BY <1>3, <1>4, <1>8
  <2>2. step' = "merge" => base' \in {NoMerge, rev'[Head(chain')].seen}
    <3>1. step' = "merge" => Head(chain') \in Editors
      <4>1. chain' \in Seq(Queued') /\ (step' # "idle" => chain' # <<>>)
        BY NextTypes DEF TInv, Inv, Types
      <4>2. chain' # <<>> => Head(chain') \in Queued'
        BY <4>1
      <4> QED
        BY <4>1, <4>2 DEF Queued
    <3> QED
      BY <1>1, <1>8, <3>1
  <2>3. step' \in {"live", "wait", "final"} => Carries2(rev'[Head(chain')].new)
    BY <1>6, <1>8
  <2> QED
    BY <2>1, <2>2, <2>3 DEF Processed, Unambiguous, AtVersion, Carries, Unambiguous2, At2, Carries2
<1>9. ASSUME /\ \A e \in Editors : view'[e].version = graph'.version => view'[e].schema = graph'.schema
             /\ \A p \in Submitted :
                  graph'.version < rev[p].to => Keeps(graph'.schema, applied', rev'[p].new)
             /\ \A q \in Pending' \ applied', h \in Submitted :
                  rev[q].to < rev[h].to /\ Unambiguous(rev[q].to) =>
                    Begins(rev'[q].new, rev'[h].new) /\ \A n \in Changed(q) : Sets(rev'[h].new, n, q)
      PROVE  Above'
  <2>1. \A p \in Submitted' : graph'.version < rev'[p].to => Carries2(rev'[p].new)
    BY <1>1, <1>2, <1>6, <1>9
  <2>2. \A q \in Pending' \ applied', h \in Submitted' :
          rev'[q].to < rev'[h].to /\ Unambiguous2(rev'[q].to) =>
            Begins(rev'[q].new, rev'[h].new) /\ \A n \in Changed(q)' : Sets(rev'[h].new, n, q)
    <3> SUFFICES ASSUME NEW q \in Pending' \ applied', NEW h \in Submitted',
                        rev'[q].to < rev'[h].to, Unambiguous2(rev'[q].to)
                 PROVE  Begins(rev'[q].new, rev'[h].new) /\ \A n \in Changed(q)' : Sets(rev'[h].new, n, q)
      OBVIOUS
    <3>1. q \in Editors /\ h \in Submitted /\ h \in Editors
      BY <1>1, <1>2
    <3>2. rev'[q].to = rev[q].to /\ rev'[h].to = rev[h].to /\ Changed(q)' = Changed(q)
      BY <1>1, <3>1
    <3> QED
      BY <1>4, <1>9, <3>1, <3>2
  <2> QED
    BY <1>9, <2>1, <2>2 DEF Above, Unambiguous, AtVersion, Carries, Unambiguous2, At2, Carries2
<1> QED
  BY <1>7, <1>8, <1>9

\* Only an editor who loads the graph sees another one.
LEMMA ViewMoves ==
  ASSUME Next
  PROVE  view' = view \/ (graph' = graph /\ \E f \in Editors : view' = [view EXCEPT ![f] = Shown])
<1>1. CASE Edit
  BY <1>1 DEF Edit, Load, Submit, Enqueue
<1>2. CASE ~Edit
  BY <1>2, OtherSteps
<1> QED
  BY <1>1, <1>2

\* A step that applies nothing and merges nothing leaves all as it is merged.
LEMMA OtherMerged ==
  ASSUME InOrder, TInv, Lined, Waiting, Ordered, Merged, Distinct, Next, ~\E e \in Editors : Accepts(e),
         ~Finalize, ~(Remerge /\ step' = "live")
  PROVE  Based' /\ Processed' /\ (Clear(graph.version) => Above')
<1>1. Counted /\ Based /\ Processed /\ (Clear(graph.version) => Above)
  BY DEF Merged
<1>2. Submitted \subseteq Editors /\ Pending \subseteq Submitted
  BY <1>1 DEF Submitted, Counted
<1>3. /\ graph'.version = graph.version /\ graph'.schema = graph.schema /\ applied' = applied
      /\ Pending' \subseteq Pending
  BY <1>1, RevisionsStay
<1>4. \A f \in Editors : rev'[f].new = rev[f].new
  <2>1. Remerge => rev' = rev
    BY DEF Remerge
  <2> QED
    BY <1>1, <2>1, RevisionsStay
<1>5. \A s : Keeps(graph'.schema, applied', s) <=> Carries(s)
  BY <1>3 DEF Keeps, Carries
<1>6. Based'
  <2>1. Within(graph'.schema, graph'.version) /\ Keeps(graph'.schema, applied', graph'.schema)
    BY <1>1, <1>3, <1>5 DEF Based
  <2>2. ASSUME NEW q \in Submitted
        PROVE  /\ rev'[q].new # NoMerge /\ Bears(rev'[q].new, q, rev[q].seen, rev[q].client)
               /\ Begins(rev[q].seen, graph'.schema) /\ Within(rev'[q].new, rev[q].to)
               /\ \A b \in AtVersion(rev[q].base) : rev'[b].new = rev[q].seen
    <3>1. rev'[q].new = rev[q].new /\ \A b \in AtVersion(rev[q].base) : rev'[b].new = rev[b].new
      BY <1>2, <1>4 DEF AtVersion
    <3> QED
      BY <1>1, <1>3, <3>1 DEF Based
  <2> QED
    BY <1>1, <2>1, <2>2, StaysMerged
<1>7. chain # <<>> => Head(chain) \in Submitted
  BY <1>2, HeadPending
<1>8. Processed'
  <2>1. ASSUME Unambiguous(graph'.version), NEW b \in AtVersion(graph'.version)
        PROVE  rev'[b].new = graph'.schema
    BY <1>1, <1>3, <1>4, <2>1 DEF Processed, AtVersion
  <2>2. ASSUME step' = "merge" PROVE base' \in {NoMerge, rev[Head(chain')].seen}
    <3>1. CASE Start /\ chain' = chain
      <4>1. base' \in SchemasAt(rev[Head(chain)].base) /\ chain # <<>>
        BY <3>1 DEF Start, Processing
      <4>2. \A b \in AtVersion(rev[Head(chain)].base) : rev[b].new = rev[Head(chain)].seen
        BY <1>1, <1>7, <4>1 DEF Based
      <4> QED
        BY <3>1, <4>1, <4>2 DEF SchemasAt
    <3>2. CASE step = "merge" /\ base' = base /\ chain # <<>> /\ Head(chain') = Head(chain)
      BY <1>1, <3>2 DEF Processed
    <3> QED
      BY <2>2, <3>1, <3>2, WorkerMoves
  <2>3. ASSUME step' \in {"live", "wait", "final"}
        PROVE  Keeps(graph'.schema, applied', rev'[Head(chain')].new)
    <3>1. step \in {"live", "wait", "final"} /\ chain # <<>> /\ Head(chain') = Head(chain)
      BY <2>3, WorkerMoves
    <3>2. Carries(rev[Head(chain)].new)
      BY <1>1, <3>1 DEF Processed
    <3>3. rev'[Head(chain')].new = rev[Head(chain)].new
      BY <1>2, <1>4, <1>7, <3>1
    <3> QED
      BY <1>5, <3>2, <3>3
  <2> QED
    BY <1>1, <2>1, <2>2, <2>3, StaysMerged
<1>9. ASSUME Clear(graph.version) PROVE Above'
  <2>1. ASSUME NEW e \in Editors, view'[e].version = graph'.version
        PROVE  view'[e].schema = graph'.schema
    <3>1. view' = view \/ (graph' = graph /\ \E f \in Editors : view' = [view EXCEPT ![f] = Shown])
      BY ViewMoves
    <3>2. view = [f \in Editors |-> view[f]]
      BY DEF TInv, Views
    <3> QED
      BY <1>1, <1>3, <1>9, <2>1, <3>1, <3>2 DEF Above, Shown
  <2>2. ASSUME NEW p \in Submitted, graph'.version < rev[p].to
        PROVE  Keeps(graph'.schema, applied', rev'[p].new)
    <3>1. Carries(rev[p].new)
      BY <1>1, <1>3, <1>9, <2>2 DEF Above
    <3> QED
      BY <1>2, <1>4, <1>5, <3>1
  <2>3. ASSUME NEW q \in Pending' \ applied', NEW h \in Submitted,
               rev[q].to < rev[h].to, Unambiguous(rev[q].to)
        PROVE  Begins(rev'[q].new, rev'[h].new) /\ \A n \in Changed(q) : Sets(rev'[h].new, n, q)
    <3>1. q \in Pending \ applied /\ q \in Editors /\ h \in Editors
      BY <1>2, <1>3
    <3>2. Begins(rev[q].new, rev[h].new) /\ \A n \in Changed(q) : Sets(rev[h].new, n, q)
      BY <1>1, <1>9, <2>3, <3>1 DEF Above
    <3> QED
      BY <1>4, <3>1, <3>2
  <2> QED
    BY <1>1, <2>1, <2>2, <2>3, StaysMerged
<1> QED
  BY <1>6, <1>8, <1>9

\* What the head of the line is merged to again fits all that stays.
LEMMA RemergeMerged ==
  ASSUME InOrder, "remove" \notin Edits, TInv, Lined, Waiting, Ordered, Merged, Distinct, Next,
         ~\E e \in Editors : Accepts(e), Remerge, step' = "live"
  PROVE  Based' /\ Processed' /\ (Clear(graph.version) => Above')
<1> DEFINE q == Head(chain)
           v == graph.version
<1>1. Counted /\ Based /\ Processed /\ (Clear(v) => Above)
  BY DEF Merged
<1>2. v \in Nat \ {0} /\ \A f \in Editors : rev[f].to \in Nat /\ rev[f].base \in Nat
  BY ReachIs DEF TInv, Inv, Types, IsRev, Numbers
<1>3. Submitted \subseteq Editors /\ Pending \subseteq Submitted /\ Pending' \subseteq Pending
  BY <1>1, RevisionsStay DEF Submitted, Counted
<1>4. /\ graph' = graph /\ applied' = applied /\ view' = view /\ chain' = chain
      /\ chain # <<>> /\ fix # "saved"
  BY DEF Remerge, Processing, jobs, TInv, Inv, Decided
<1>5. q \in Pending /\ q \in Submitted /\ q \in Editors
  BY <1>3, <1>4, HeadPending
<1>6. v <= rev[q].to
  BY <1>5, PendingTo
<1>7. PICK n : /\ rev' = [rev EXCEPT ![q].new = n] /\ n # NoMerge /\ Carries(n)
               /\ Bears(n, q, rev[q].seen, rev[q].client) /\ Within(n, rev[q].to)
               /\ v = rev[q].to /\ Unambiguous(v) => n = rev[q].new
               /\ Clear(v) /\ Unambiguous(rev[q].to) /\ q \notin applied =>
                    \A h \in Submitted : rev[q].to < rev[h].to => Begins(n, rev[h].new)
  BY RemergeIs
<1>8. rev'[q].new = n /\ \A f \in Editors \ {q} : rev'[f].new = rev[f].new
  BY <1>5, <1>7 DEF TInv, Inv, Types, IsRev
<1>9. \A s : Keeps(graph'.schema, applied', s) <=> Carries(s)
  BY <1>4 DEF Keeps, Carries
<1> HIDE DEF q, v
<1>10. ASSUME Unambiguous(v), NEW b \in AtVersion(v) PROVE rev'[b].new = rev[b].new
  <2>1. b \in Editors /\ rev[b].to = v
    BY DEF AtVersion
  <2> QED
    BY <1>7, <1>8, <1>10, <2>1
<1>11. Based'
  <2>1. Within(graph'.schema, graph'.version) /\ Keeps(graph'.schema, applied', graph'.schema)
    BY <1>1, <1>4, <1>9 DEF Based
  <2>2. ASSUME NEW x \in Submitted
        PROVE  /\ rev'[x].new # NoMerge /\ Bears(rev'[x].new, x, rev[x].seen, rev[x].client)
               /\ Begins(rev[x].seen, graph'.schema) /\ Within(rev'[x].new, rev[x].to)
               /\ \A b \in AtVersion(rev[x].base) : rev'[b].new = rev[x].seen
    <3>1. rev'[x].new # NoMerge /\ Bears(rev'[x].new, x, rev[x].seen, rev[x].client) /\ Within(rev'[x].new, rev[x].to)
      <4>1. CASE x = q
        BY <1>7, <1>8, <4>1
      <4>2. CASE x # q
        <5>1. rev'[x].new = rev[x].new
          BY <1>3, <1>8, <4>2
        <5> QED
          BY <1>1, <5>1 DEF Based
      <4> QED
        BY <4>1, <4>2
    <3>2. Begins(rev[x].seen, graph'.schema)
      BY <1>1, <1>4 DEF Based
    <3>3. ASSUME NEW b \in AtVersion(rev[x].base) PROVE rev'[b].new = rev[x].seen
      <4>1. b \in Editors /\ rev[b].to = rev[x].base /\ x \in Editors
        BY <1>3 DEF AtVersion
      <4>2. rev[b].new = rev[x].seen
        BY <1>1, <3>3 DEF Based
      <4>3. CASE b # q
        BY <1>8, <4>1, <4>2, <4>3
      <4>4. CASE b = q
        <5>1. rev[x].base <= v
          BY <1>1 DEF Counted, v
        <5>2. rev[x].base = v
          BY <1>2, <1>6, <4>1, <4>4, <5>1
        <5>3. Unambiguous(v)
          <6>1. Clear(v) /\ v \in 1..v
            BY <1>2, <5>2 DEF Distinct
          <6> QED
            BY <6>1 DEF Clear
        <5> QED
          BY <1>10, <3>3, <4>2, <5>2, <5>3
      <4> QED
        BY <4>3, <4>4
    <3> QED
      BY <3>1, <3>2, <3>3
  <2> QED
    BY <1>1, <2>1, <2>2, StaysMerged
<1>12. Processed'
  <2>1. ASSUME Unambiguous(graph'.version), NEW b \in AtVersion(graph'.version)
        PROVE  rev'[b].new = graph'.schema
    <3>1. graph'.version = v /\ graph'.schema = graph.schema
      BY <1>4 DEF v
    <3>2. rev[b].new = graph.schema
      BY <1>1, <2>1, <3>1 DEF Processed, v
    <3> QED
      BY <1>10, <2>1, <3>1, <3>2
  <2>2. step' = "merge" => base' \in {NoMerge, rev[Head(chain')].seen}
    OBVIOUS
  <2>3. Keeps(graph'.schema, applied', rev'[Head(chain')].new)
    BY <1>4, <1>7, <1>8, <1>9 DEF q
  <2> QED
    BY <1>1, <2>1, <2>2, <2>3, StaysMerged
<1>13. ASSUME Clear(v) PROVE Above'
  <2>1. \A e \in Editors : view'[e].version = graph'.version => view'[e].schema = graph'.schema
    BY <1>1, <1>4, <1>13 DEF Above
  <2>2. ASSUME NEW p \in Submitted, graph'.version < rev[p].to
        PROVE  Keeps(graph'.schema, applied', rev'[p].new)
    <3>1. Carries(rev[p].new)
      BY <1>1, <1>4, <1>13, <2>2 DEF Above
    <3>2. rev'[p].new \in {n, rev[p].new}
      BY <1>3, <1>8
    <3> QED
      BY <1>7, <1>9, <3>1, <3>2
  <2>3. ASSUME NEW x \in Pending' \ applied', NEW h \in Submitted,
               rev[x].to < rev[h].to, Unambiguous(rev[x].to)
        PROVE  Begins(rev'[x].new, rev'[h].new) /\ \A m \in Changed(x) : Sets(rev'[h].new, m, x)
    <3>1. x \in Pending \ applied /\ x \in Editors /\ h \in Editors
      BY <1>3, <1>4
    <3>2. Begins(rev[x].new, rev[h].new) /\ \A m \in Changed(x) : Sets(rev[h].new, m, x)
      BY <1>1, <1>13, <2>3, <3>1 DEF Above
    <3>3. h # q
      <4> SUFFICES ASSUME h = q PROVE FALSE
        OBVIOUS
      <4>1. x # q
        BY <1>2, <2>3, <3>1
      <4>2. rev[q].to < rev[x].to
        BY <1>4, <3>1, <4>1, HeadFirst DEF q
      <4> QED
        BY <1>2, <2>3, <3>1, <4>2
    <3>4. rev'[h].new = rev[h].new
      BY <1>8, <3>1, <3>3
    <3>5. CASE x = q
      <4>1. Begins(n, rev[h].new)
        BY <1>7, <1>13, <2>3, <3>1, <3>5
      <4> QED
        BY <1>8, <3>2, <3>4, <3>5, <4>1
    <3>6. CASE x # q
      BY <1>8, <3>1, <3>2, <3>4, <3>6
    <3> QED
      BY <3>5, <3>6
  <2> QED
    BY <1>1, <2>1, <2>2, <2>3, StaysMerged
<1> QED
  BY <1>11, <1>12, <1>13 DEF v

\* What is merged on top of a revision fits the row when the revision is in it.
LEMMA FinalizeMerged ==
  ASSUME InOrder, "remove" \notin Edits, TInv, Lined, Waiting, Ordered, Merged, Distinct, Next,
         ~\E e \in Editors : Accepts(e), Finalize
  PROVE  Based' /\ Processed' /\ (Clear(graph'.version) => Above')
<1> DEFINE r == Head(chain)
           v == graph.version
           w == rev[r].to
           n == rev[r].new
<1>1. Counted /\ Based /\ Processed /\ (Clear(v) => Above)
  BY DEF Merged
<1>2. v \in Nat \ {0} /\ \A f \in Editors : rev[f].to \in Nat
  BY ReachIs DEF TInv, Inv, Types, IsRev, Numbers
<1>3. /\ Submitted \subseteq Editors /\ Pending \subseteq Submitted /\ Pending' \subseteq Pending
      /\ applied \subseteq Submitted
  BY <1>1, RevisionsStay DEF Submitted, Counted
<1>4. /\ graph'.version = w /\ graph'.schema = n /\ applied' = applied \cup {r} /\ view' = view
      /\ step = "final" /\ step' = "ack" /\ chain # <<>> /\ fix # "saved"
  BY DEF Finalize, Processing, TInv, Inv, Decided
<1>5. r \in Pending /\ r \in Submitted /\ r \in Editors
  BY <1>3, <1>4, HeadPending
<1>6. v <= w /\ w \in Nat
  BY <1>2, <1>5, PendingTo
<1>7. \A f \in Editors : rev'[f].new = rev[f].new
  <2>1. ~Remerge
    BY <1>4 DEF Remerge, Processing
  <2> QED
    BY <1>1, <2>1, RevisionsStay
<1>8. Carries(n) /\ Begins(graph.schema, n)
  BY <1>1, <1>4 DEF Processed, Carries
<1>9. \A m \in Changed(r) : Sets(n, m, r)
  BY <1>1, <1>5, OwnEdit
<1>10. r \in AtVersion(w)
  BY <1>5 DEF AtVersion, Submitted
<1>11. ASSUME Unambiguous(w), w = v PROVE n = graph.schema
  BY <1>1, <1>10, <1>11 DEF Processed
<1> HIDE DEF r, v, w, n
<1>12. Based'
  <2>1. Within(graph'.schema, graph'.version)
    BY <1>1, <1>4, <1>5 DEF Based, n, w
  <2>2. Keeps(graph'.schema, applied', graph'.schema)
    <3>1. ASSUME NEW x \in applied', NEW m \in Changed(x) PROVE Sets(n, m, x) \/ Revised(x, m)
      <4>1. CASE x \in applied
        BY <1>8, <3>1, <4>1 DEF Carries
      <4>2. CASE x = r
        BY <1>9, <3>1, <4>2
      <4> QED
        BY <1>4, <3>1, <4>1, <4>2
    <3> QED
      BY <1>4, <3>1, BeginsMore DEF Keeps
  <2>3. ASSUME NEW q \in Submitted
        PROVE  /\ rev'[q].new # NoMerge /\ Bears(rev'[q].new, q, rev[q].seen, rev[q].client)
               /\ Begins(rev[q].seen, graph'.schema) /\ Within(rev'[q].new, rev[q].to)
               /\ \A b \in AtVersion(rev[q].base) : rev'[b].new = rev[q].seen
    <3>1. rev'[q].new = rev[q].new /\ \A b \in AtVersion(rev[q].base) : rev'[b].new = rev[b].new
      BY <1>3, <1>7 DEF AtVersion
    <3>2. Begins(rev[q].seen, n)
      BY <1>1, <1>8, BeginsMore DEF Based
    <3> QED
      BY <1>1, <1>4, <3>1, <3>2 DEF Based
  <2> QED
    BY <1>1, <2>1, <2>2, <2>3, StaysMerged
<1>13. Processed'
  <2>1. ASSUME Unambiguous(graph'.version), NEW b \in AtVersion(graph'.version)
        PROVE  rev'[b].new = graph'.schema
    <3>1. b = r
      BY <1>4, <1>10, <2>1 DEF Unambiguous
    <3> QED
      BY <1>4, <1>5, <1>7, <3>1 DEF n
  <2> QED
    BY <1>1, <1>4, <2>1, StaysMerged
<1>14. ASSUME Clear(w) PROVE Above'
  <2>1. Clear(v) /\ Unambiguous(w) /\ Above
    <3>1. \A i \in 1..v : i \in 1..w
      BY <1>2, <1>6
    <3>2. w \in 1..w
      BY <1>2, <1>6
    <3> QED
      BY <1>1, <1>14, <3>1, <3>2 DEF Clear
  <2>2. ASSUME NEW e \in Editors, view'[e].version = graph'.version
        PROVE  view'[e].schema = graph'.schema
    <3>1. view[e].version = w /\ view[e].version <= v
      BY <1>1, <1>4, <2>2 DEF Counted, v
    <3>2. w = v
      BY <1>2, <1>6, <3>1
    <3>3. view[e].schema = graph.schema
      BY <2>1, <3>1, <3>2 DEF Above, v
    <3> QED
      BY <1>4, <1>11, <2>1, <3>2, <3>3
  <2>3. ASSUME NEW p \in Submitted, w < rev[p].to
        PROVE  Keeps(n, applied', rev[p].new)
    <3>1. v < rev[p].to /\ rev[p].to \in Nat
      BY <1>2, <1>3, <1>6, <2>3
    <3>2. Carries(rev[p].new)
      BY <2>1, <3>1 DEF Above, v
    <3>3. Begins(n, rev[p].new) /\ (r \in applied \/ \A m \in Changed(r) : Sets(rev[p].new, m, r))
      <4>1. CASE r \in applied
        <5>1. w <= v
          BY <1>1, <4>1 DEF Counted, v, w
        <5>2. w = v
          BY <1>2, <1>6, <5>1
        <5> QED
          BY <1>11, <2>1, <3>2, <4>1, <5>2 DEF Carries
      <4>2. CASE r \notin applied
        BY <1>5, <2>1, <2>3, <4>2 DEF Above, w, n
      <4> QED
        BY <4>1, <4>2
    <3> QED
      BY <1>4, <3>2, <3>3 DEF Keeps, Carries
  <2>4. \A p \in Submitted :
          graph'.version < rev[p].to => Keeps(graph'.schema, applied', rev'[p].new)
    BY <1>3, <1>4, <1>7, <2>3
  <2>5. ASSUME NEW q \in Pending' \ applied', NEW h \in Submitted,
               rev[q].to < rev[h].to, Unambiguous(rev[q].to)
        PROVE  Begins(rev'[q].new, rev'[h].new) /\ \A m \in Changed(q) : Sets(rev'[h].new, m, q)
    <3>1. q \in Pending \ applied /\ q \in Editors /\ h \in Editors
      BY <1>3, <1>4
    <3>2. Begins(rev[q].new, rev[h].new) /\ \A m \in Changed(q) : Sets(rev[h].new, m, q)
      BY <2>1, <2>5, <3>1 DEF Above
    <3> QED
      BY <1>7, <3>1, <3>2
  <2> QED
    BY <1>1, <2>2, <2>4, <2>5, StaysMerged
<1> QED
  BY <1>4, <1>12, <1>13, <1>14

\* Every step keeps it.
LEMMA NextMerged ==
  ASSUME InOrder, "remove" \notin Edits, TInv, Lined, Waiting, Ordered, Merged, [Next]_vars
  PROVE  Merged'
<1>1. CASE Next
  <2>1. Counted /\ Counted'
    BY <1>1, NextCounted DEF Merged
  <2>2. CASE \E e \in Editors : Accepts(e)
    <3>1. Distinct' => Based' /\ Processed' /\ Above'
      BY <1>1, <2>2, AcceptMerged
    <3> QED
      BY <2>1, <3>1 DEF Merged
  <2>3. CASE ~\E e \in Editors : Accepts(e)
    <3> DEFINE Clear2(x) == \A y \in 1..x : Unambiguous(y)'
    <3>1. Clear(graph.version)' => Clear2(graph'.version)
      BY DEF Clear, Unambiguous, AtVersion
    <3>2. \A x : Clear2(x) => Clear(x)
      BY <1>1, <2>1, <2>3, ClearStays DEF Clear
    <3> HIDE DEF Clear2
    <3>3. Clear(graph.version)' => Clear(graph'.version)
      BY <3>1, <3>2
    <3>4. ASSUME Distinct' PROVE Based' /\ Processed' /\ (Clear(graph.version)' => Above')
      <4>1. Distinct
        BY <1>1, <2>1, <2>3, <3>4, ClearStays
      <4>2. CASE Finalize
        BY <1>1, <2>3, <3>3, <4>1, <4>2, FinalizeMerged
      <4>3. CASE Remerge /\ step' = "live"
        <5>1. graph' = graph
          BY <4>3 DEF Remerge
        <5> QED
          BY <1>1, <2>3, <3>3, <4>1, <4>3, <5>1, RemergeMerged
      <4>4. CASE ~Finalize /\ ~(Remerge /\ step' = "live")
        <5>1. graph'.version = graph.version
          BY <1>1, <2>1, <2>3, <4>4, RevisionsStay
        <5> QED
          BY <1>1, <2>3, <3>3, <4>1, <4>4, <5>1, OtherMerged
      <4> QED
        BY <4>2, <4>3, <4>4
    <3> QED
      BY <2>1, <3>4 DEF Merged
  <2> QED
    BY <2>2, <2>3
<1>2. CASE UNCHANGED vars
  <2>1. Counted' <=> Counted
    BY <1>2 DEF vars, row, jobs, work, Counted, Pending, Line, Held, Given, AtVersion, Submitted
  <2>2. Distinct' <=> Distinct
    BY <1>2 DEF vars, row, Distinct, Clear, Unambiguous, AtVersion, Submitted
  <2>3. Based' <=> Based
    BY <1>2 DEF vars, row, Based, Within, Carries, Revised, Changed, AtVersion, Submitted
  <2>4. Processed' <=> Processed
    BY <1>2 DEF vars, row, jobs, work, Processed, Unambiguous, AtVersion, Carries, Revised, Changed, Submitted
  <2>5. Above' <=> Above
    BY <1>2 DEF vars, row, jobs, work, Above, Unambiguous, AtVersion, Carries, Revised, Changed, Submitted, Pending,
              Line, Held
  <2>6. Clear(graph.version)' <=> Clear(graph.version)
    BY <1>2 DEF vars, row, Clear, Unambiguous, AtVersion
  <2> QED
    BY <2>1, <2>2, <2>3, <2>4, <2>5, <2>6 DEF Merged
<1> QED
  BY <1>1, <1>2

\* Nobody has edited the graph as it is created.
LEMMA InitMerged == Init => Merged
<1> SUFFICES ASSUME Init PROVE Merged
  OBVIOUS
<1>1. /\ graph.version = 1 /\ graph.target = 1 /\ graph.schema = Initial /\ applied = {} /\ step = "idle"
      /\ \A e \in Editors : view[e].version = 1 /\ view[e].schema = Initial
  BY DEF Init, Shown
<1>2. Submitted = {} /\ \A v : AtVersion(v) = {}
  BY DEF Init, NoRev, Submitted, AtVersion
<1>3. Pending = {}
  <2>1. Line = <<>> /\ DOMAIN Line = {}
    BY DEF Init, Line, Held
  <2>2. \A e \in Editors : pc[e] # "enqueue"
    BY DEF Init
  <2> QED
    BY <2>1, <2>2 DEF Pending, Range
<1>4. Counted
  <2>1. Given(1)
    BY DEF Given
  <2> QED
    BY <1>1, <1>2, <1>3, <2>1 DEF Counted
<1>5. Within(Initial, 1)
  <2>1. DOMAIN Initial = 1..NodeCount /\ \A i \in 1..NodeCount : Initial[i].id = i /\ Initial[i].cfg = None
    BY DEF Initial
  <2> QED
    BY <2>1, EditorAssumption DEF Within, Mentions
<1>6. Carries(Initial)
  BY <1>1, BeginsMore DEF Carries
<1> QED
  BY <1>1, <1>2, <1>3, <1>4, <1>5, <1>6 DEF Merged, Based, Processed, Above

\* What is applied is in the row, or somebody who has seen it has changed it again.
LEMMA MergedKeeps ==
  ASSUME "remove" \notin Edits, TInv, Merged
  PROVE  NoLostEdit
<1> SUFFICES ASSUME \A e \in Editors : Clear(rev[e].base), NEW r \in applied, NEW n \in Changed(r)
             PROVE  \/ Config(graph.schema, n) = Config(rev[r].client, n)
                    \/ \E l \in Editors : r \in rev[l].known /\ n \in Changed(l)
  BY DEF NoLostEdit
<1>1. Submitted \subseteq Editors
  BY DEF Submitted
<1>2. Distinct
  BY <1>1 DEF Distinct
<1>3. Counted /\ Based /\ r \in Submitted
  BY <1>2 DEF Merged, Counted
<1>4. CASE Sets(graph.schema, n, r)
  <2>1. Sets(rev[r].client, n, r)
    BY <1>3, OwnEdit
  <2>2. Valid(graph.schema) /\ Valid(rev[r].client)
    BY <1>1, <1>3 DEF TInv, Schemas, SchemaOver
  <2> QED
    BY <1>4, <2>1, <2>2, ConfigIs
<1>5. CASE Revised(r, n)
  BY <1>1, <1>5 DEF Revised
<1> QED
  BY <1>3, <1>4, <1>5 DEF Based, Carries

(* What an applied revision has changed stays, until somebody who has seen it submits
   another change of it, for every number of editors, nodes and jobs at once and whatever
   is rejected, as long as editors set and add nodes, revisions are queued in the order
   of their submission and given out once, no submission commits while the worker has
   read the row and not written it, and nobody edits a graph that has passed a version
   meant for two revisions. *)
THEOREM EditsKept ==
  ASSUME InOrder, "remove" \notin Edits
  PROVE  Spec => []NoLostEdit
<1>1. Spec => [](TInv /\ Lined /\ Waiting /\ Ordered)
  BY OrderInductive, PTL
<1>2. TInv /\ Lined /\ Waiting /\ Ordered /\ Merged /\ [Next]_vars => Merged'
  BY NextMerged
<1>3. TInv /\ Merged => NoLostEdit
  BY MergedKeeps
<1> QED
  BY <1>1, <1>2, <1>3, InitMerged, PTL DEF Spec
===========================================================================
