---------------------------- MODULE RepoIndexer ---------------------------
(***************************************************************************)
(* What indexings do to the Qdrant collection of a branch: the choice of a *)
(* full or an incremental one (resolveIndexStrategy), seeding from another *)
(* branch, the files processed one by one, chunks flushed in batches, the  *)
(* chunks of deleted files, and attempts that end at any step.  Who may    *)
(* index, and when, is RepoIndex; here one indexing runs at a time.        *)
(***************************************************************************)
EXTENDS Naturals, Sequences

CONSTANTS Files, Contents,
          Parts,       \* chunks of a file
          Models,      \* embedding models
          Faults,      \* a subset of Mishaps
          MaxCommits   \* bound: commits pushed

Mishaps == {"error",    \* an indexing fails, or its process ends
            "shallow",  \* the last indexed commit cannot be reached in the clone
            "config",   \* the embedding model is changed
            "prefetch", \* the chunks that exist cannot be listed
            "cleanup",  \* the chunks of deleted files cannot be deleted
            "skip",     \* a file cannot be read, or has nothing to index any more
            "split",    \* a batch ends in the middle of a file
            "revert",   \* a file returns to what it was
            "reseed"}   \* a collection that is not empty is seeded

Absent == "absent"
ASSUME ContentAssumption == Absent \notin Contents /\ Files # {} /\ Faults \subseteq Mishaps
ASSUME BoundAssumption   == {Parts, MaxCommits} \subseteq Nat \ {0}

VARIABLES log,     \* the commits: what each file holds
          model,   \* the embedding model configured
          row,     \* the index: status, last indexed commit (0: none), model
          job,     \* it is queued
          points,  \* the collection: its chunks
          donor,   \* the last indexed commit of a sibling branch (0: none)
          run      \* the indexing in progress

vars == <<log, model, row, job, points, donor, run>>

Trees   == [Files -> Contents \cup {Absent}]
Commits == 1..Len(log)
Current == Len(log)
Points  == [path : Files, hash : Contents, part : 1..Parts]
Open    == {"Pending", "InProgress"}

Tracked(c)    == {f \in Files : log[c][f] # Absent}
Changed(b, c) == {f \in Files : log[b][f] # log[c][f]}
Of(fs)        == {p \in points : p.path \in fs}
Chunks(f, c)  == [path : {f}, hash : {log[c][f]}, part : 1..Parts]
Paths         == {p.path : p \in points}

NoRun == [at |-> "none", inline |-> FALSE, commit |-> 1, base |-> 0, full |-> FALSE,
          todo |-> {}, done |-> {}, known |-> {}, batch |-> {}]

Init ==
  /\ log \in {<<t>> : t \in Trees}
  /\ model \in Models
  /\ row = [status |-> "None", commit |-> 0, model |-> model]
  /\ job = FALSE /\ points = {} /\ donor = 0 /\ run = NoRun

---------------------------------------------------------------------------
(* resolveIndexStrategy *)

\* the commit to start from; 0: a full index
ConfigChanged(r) == r.commit = 0 \/ r.model # model
Base(r) ==
  IF r.commit = 0 THEN donor
  ELSE IF r.status = "Failed" \/ ConfigChanged(r) THEN 0 ELSE r.commit

\* attemptCrossBranchSeeding: points are upserted, none is removed
Seeded(r) ==
  IF r.commit = 0 /\ donor # 0
  THEN points \cup UNION {Chunks(f, donor) : f \in Tracked(donor)}
  ELSE points

Begins(inline) ==
  /\ run' = [NoRun EXCEPT !.at = "list", !.inline = inline, !.commit = Current, !.base = Base(row)]
  /\ points' = Seeded(row)

\* claimIndexSlot: the row takes the new model at once; a large repository is queued
UpToDate == row.status = "Completed" /\ row.commit = Current /\ row.model = model
Claim ==
  /\ run = NoRun /\ ~job /\ row.status \notin Open /\ ~UpToDate
  /\ \/ /\ Begins(TRUE)
        /\ row' = [row EXCEPT !.status = "InProgress", !.model = model]
        /\ UNCHANGED job
     \/ /\ job' = TRUE /\ points' = Seeded(row)
        /\ row' = [row EXCEPT !.status = "Pending", !.model = model]
        /\ UNCHANGED run
  /\ UNCHANGED <<log, model, donor>>

\* triggerReindex forgets the commit and leaves the collection as it is
Reindex ==
  /\ run = NoRun /\ ~job /\ row.status \notin Open
  /\ "reseed" \in Faults \/ donor = 0
  /\ job' = TRUE /\ row' = [status |-> "Pending", commit |-> 0, model |-> model]
  /\ UNCHANGED <<log, model, points, donor, run>>

\* processIndexJob reads the row as the claim has left it
StartJob ==
  /\ job /\ run = NoRun
  /\ Begins(FALSE)
  /\ row' = [row EXCEPT !.status = "InProgress", !.model = model]
  /\ UNCHANGED <<log, model, job, donor>>

---------------------------------------------------------------------------
(* runFullIndex and runIncrementalIndex *)

\* ls-files, and what is in the collection
ListAll ==
  /\ run.at = "list"
  /\ run.base = 0 \/ "shallow" \in Faults
  /\ \E known \in {Paths} \cup (IF "prefetch" \in Faults THEN {{}} ELSE {}) :
       run' = [run EXCEPT !.at = "files", !.full = TRUE, !.todo = Tracked(run.commit), !.known = known]
  /\ UNCHANGED <<log, model, row, job, points, donor>>

ListChangedKeepsGone ==  \* MUTANT: the chunks of deleted files stay
  /\ run.at = "list" /\ run.base # 0
  /\ run' = [run EXCEPT !.at = "files",
                        !.todo = Changed(run.base, run.commit) \cap Tracked(run.commit)]
  /\ UNCHANGED <<log, model, row, job, points, donor>>

\* git diff; the chunks of files that are gone are deleted first
ListChanged ==
  /\ run.at = "list" /\ run.base # 0
  /\ LET diff == Changed(run.base, run.commit)
     IN  /\ run' = [run EXCEPT !.at = "files", !.todo = diff \cap Tracked(run.commit)]
         /\ points' = points \ Of(diff \ Tracked(run.commit))
  /\ UNCHANGED <<log, model, row, job, donor>>

ReusableIfChanged(f) ==  \* MUTANT: a full index embeds every file again
  ~run.full /\ \E p \in points : p.path = f /\ p.hash = log[run.commit][f]

\* checkFileReuse: any chunk of the file with this content will do
Reusable(f) ==
  /\ \E p \in points : p.path = f /\ p.hash = log[run.commit][f]
  /\ run.full => f \in run.known

Takes(f) == [run EXCEPT !.todo = @ \ {f}, !.done = @ \cup {f}]

Skip(f) ==
  /\ run.at = "files" /\ f \in run.todo
  /\ Reusable(f) \/ "skip" \in Faults
  /\ run' = Takes(f)
  /\ UNCHANGED <<log, model, row, job, points, donor>>

\* its old chunks are deleted, the new ones wait for the next flush
Embed(f) ==
  /\ run.at = "files" /\ f \in run.todo /\ ~Reusable(f)
  /\ run' = [Takes(f) EXCEPT !.batch = @ \cup Chunks(f, run.commit)]
  /\ points' = points \ Of({f})
  /\ UNCHANGED <<log, model, row, job, donor>>

\* flushChunkBatch: when it is full, and at the end
Flush ==
  /\ run.at = "files" /\ run.batch # {}
  /\ \E b \in IF "split" \in Faults THEN SUBSET run.batch \ {{}} ELSE {run.batch} :
       /\ points' = points \cup b
       /\ run' = [run EXCEPT !.batch = @ \ b]
  /\ UNCHANGED <<log, model, row, job, donor>>

\* cleanupOrphanedChunks, which lists the chunks itself when it is given none
Orphans == (IF run.known = {} THEN Paths ELSE run.known) \ run.done
CleanUp ==
  /\ run.at = "files" /\ run.todo = {} /\ run.batch = {}
  /\ points' \in {IF run.full THEN points \ Of(Orphans) ELSE points}
                \cup (IF "cleanup" \in Faults THEN {points} ELSE {})
  /\ run' = [run EXCEPT !.at = "finish"]
  /\ UNCHANGED <<log, model, row, job, donor>>

FinishForgets ==  \* MUTANT: lastIndexedCommit is not written
  /\ run.at = "finish"
  /\ row' = [row EXCEPT !.status = "Completed"]
  /\ job' = FALSE /\ run' = NoRun
  /\ UNCHANGED <<log, model, points, donor>>

\* countIndexedTokens and the last write of the row
Finish ==
  /\ run.at = "finish"
  /\ row' = [row EXCEPT !.status = "Completed", !.commit = run.commit]
  /\ job' = FALSE /\ run' = NoRun
  /\ UNCHANGED <<log, model, points, donor>>

---------------------------------------------------------------------------
(* attempts that do not finish *)

Ends == /\ "error" \in Faults /\ run # NoRun
        /\ "reseed" \in Faults \/ donor = 0 \/ row.commit # 0
        /\ run' = NoRun

\* a job is tried again, unless it was the last attempt
Fail ==
  /\ Ends
  /\ \/ /\ row' = [row EXCEPT !.status = "Failed"] /\ job' = FALSE
     \/ /\ ~run.inline
        /\ row' = [row EXCEPT !.status = "Pending"] /\ UNCHANGED job
  /\ UNCHANGED <<log, model, points, donor>>

\* an open row without a job is queued again, by a search or at boot
Crash ==
  /\ Ends
  /\ job' = TRUE
  /\ row' = [row EXCEPT !.status = "Pending"]
  /\ UNCHANGED <<log, model, points, donor>>

---------------------------------------------------------------------------
(* the repository and the configuration *)

New(t) == \A f \in Files : t[f] = log[Current][f] \/ \A i \in Commits : t[f] # log[i][f]
Push ==
  /\ Len(log) < MaxCommits
  /\ \E t \in Trees \ {log[Current]} :
       /\ "revert" \in Faults \/ New(t)
       /\ log' = Append(log, t)
  /\ UNCHANGED <<model, row, job, points, donor, run>>

Configure ==
  /\ "config" \in Faults /\ run = NoRun
  /\ model' \in Models \ {model}
  /\ UNCHANGED <<log, row, job, points, donor, run>>

\* the sibling branch is indexed; without "reseed", not between two seedings
IndexSibling ==
  /\ donor # Current
  /\ "reseed" \in Faults \/ row.status = "None" \/ row.commit # 0
  /\ donor' = Current
  /\ UNCHANGED <<log, model, row, job, points, run>>

Index(f) == Skip(f) \/ Embed(f)

Next == \/ Claim \/ Reindex \/ StartJob \/ ListAll \/ ListChanged
        \/ \E f \in Files : Index(f)
        \/ Flush \/ CleanUp \/ Finish
        \/ Fail \/ Crash \/ Push \/ Configure \/ IndexSibling

Spec == Init /\ [][Next]_vars

---------------------------------------------------------------------------
(* The rows, jobs and chunks the indexings leave; a row is InProgress exactly
   while it is indexed, and a completed one knows its commit. *)
TypeOK ==
  /\ log \in Seq(Trees) /\ Len(log) \in 1..MaxCommits
  /\ model \in Models /\ job \in BOOLEAN
  /\ row \in [status : {"None", "Pending", "InProgress", "Completed", "Failed"},
              commit : 0..Len(log), model : Models]
  /\ points \subseteq Points /\ donor \in 0..Len(log)
  /\ run \in [at : {"none", "list", "files", "finish"}, inline : BOOLEAN, commit : Commits,
              base : 0..Len(log), full : BOOLEAN, todo : SUBSET Files, done : SUBSET Files,
              known : SUBSET Files, batch : SUBSET Points]
  /\ run # NoRun <=> row.status = "InProgress"
  /\ job => row.status \in Open
  /\ row.status = "Completed" => row.commit # 0

Wanted(f, c) == IF log[c][f] = Absent THEN {} ELSE Chunks(f, c)

(* A completed index holds every chunk of its lastIndexedCommit and no other:
   attempts that ended half way, commits pushed meanwhile, incremental runs,
   fallbacks and seeding leave nothing behind and nothing out. *)
Exact == row.status = "Completed" => \A f \in Files : Of({f}) = Wanted(f, row.commit)

(* A file that has not changed since the last indexed commit can be found
   throughout every later indexing, full ones included: they reuse its chunks
   and never delete them first. *)
Unchanged(f) == \A c \in row.commit..Current : log[c][f] = log[row.commit][f]
Findable ==
  row.commit # 0 => \A f \in Files : Unchanged(f) => Wanted(f, row.commit) \subseteq points
===========================================================================
