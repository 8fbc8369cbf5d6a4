------------------------ MODULE RepoIndexer_proofs ------------------------
(***************************************************************************)
(* Proofs about RepoIndexer, for any files, contents, parts, models and    *)
(* number of commits: what a completed index holds, and what can be found  *)
(* while the next one is made.  They are under Gentle: the other mishaps   *)
(* are those after which the code gives neither.                           *)
(***************************************************************************)
EXTENDS RepoIndexer, TLAPS

\* contents do not come back, so a file equal at two commits has not changed in between
NoReturn ==
  \A f \in Files : \A i, j, k \in Commits :
    i <= j /\ j <= k /\ log[i][f] = log[k][f] => log[j][f] = log[i][f]

\* a file has all its chunks or none, and those of one content
Whole ==
  \A f \in Files : \/ Of({f}) = {}
                   \/ \E h \in Contents : Of({f}) = [path : {f}, hash : {h}, part : 1..Parts]

\* Findable, with nothing besides the wanted chunks
Stays ==
  row.commit # 0 => \A f \in Files : Unchanged(f) => Of({f}) = Wanted(f, row.commit)

\* an index that has never been completed is seeded once, when it is empty
SeededOnce ==
  /\ row.status = "None" => points = {} /\ row.commit = 0 /\ run = NoRun /\ ~job
  /\ row.commit = 0 /\ donor # 0 =>
       \/ row.status = "None"
       \/ row.status = "Pending" /\ \A f \in Files : Of({f}) = Wanted(f, donor)
       \/ row.status = "InProgress" /\ run.base = donor

Compared ==
  run # NoRun =>
    /\ run.at # "none"
    /\ run.base <= run.commit
    /\ row.commit <= run.commit
    /\ row.commit # 0 => run.base \in {0, row.commit}
    /\ row.commit = 0 => run.base = donor

Listing ==
  run.at = "list" =>
    /\ run.todo = {} /\ run.done = {} /\ run.batch = {} /\ ~run.full
    /\ run.base # 0 => \A f \in Files : log[run.base][f] = log[run.commit][f]
                                        => Of({f}) = Wanted(f, run.commit)

Processing ==
  run.at = "files" =>
    /\ run.todo \subseteq Tracked(run.commit) /\ run.done \subseteq Tracked(run.commit)
    /\ run.todo \cap run.done = {}
    /\ \A f \in run.done : \/ Of({f}) = Chunks(f, run.commit)
                           \/ Of({f}) = {} /\ Chunks(f, run.commit) \subseteq run.batch
    /\ \A p \in run.batch : p.path \in run.done /\ p \in Chunks(p.path, run.commit)
    /\ run.full => /\ run.todo \cup run.done = Tracked(run.commit)
                   /\ \A f \in Files \ run.done : f \in run.known <=> Of({f}) # {}
    /\ ~run.full => \A f \in Files \ (run.todo \cup run.done) : Of({f}) = Wanted(f, run.commit)

Finishing ==
  run.at = "finish" => \A f \in Files : Of({f}) = Wanted(f, run.commit)

Inv == /\ TypeOK /\ NoReturn /\ Whole /\ Stays /\ SeededOnce
       /\ Compared /\ Listing /\ Processing /\ Finishing /\ Exact
\* the mishaps the code copes with
Gentle == Faults \subseteq {"error", "shallow", "config"}

---------------------------------------------------------------------------
(* What the operators on chunks return. *)

\* what a commit holds
LEMMA Trees1 ==
  ASSUME TypeOK, NEW c \in Commits, NEW f \in Files
  PROVE  log[c] \in Trees /\ log[c][f] \in Contents \cup {Absent}
BY DEF TypeOK, Commits, Trees

\* the chunks of a tracked file are some, and all of that file and content
LEMMA ChunksOf ==
  ASSUME TypeOK, NEW c \in Commits, NEW f \in Tracked(c)
  PROVE  /\ f \in Files /\ log[c][f] \in Contents
         /\ Chunks(f, c) \subseteq Points
         /\ Chunks(f, c) # {}
         /\ \A p \in Chunks(f, c) : p.path = f /\ p.hash = log[c][f]
<1>1. f \in Files /\ log[c][f] \in Contents
  BY Trees1 DEF Tracked
<1>2. [path |-> f, hash |-> log[c][f], part |-> 1] \in Chunks(f, c)
  BY BoundAssumption DEF Chunks
<1> QED
  BY <1>1, <1>2 DEF Chunks, Points

\* one chunk with the content of a commit, and the file has all of that commit's
LEMMA OfWanted ==
  ASSUME TypeOK, Whole, NEW c \in Commits, NEW f \in Tracked(c),
         NEW p \in points, p.path = f, p.hash = log[c][f]
  PROVE  Of({f}) = Wanted(f, c)
<1>1. f \in Files /\ log[c][f] # Absent
  BY DEF Tracked
<1>2. p \in Of({f})
  BY DEF Of
<1>3. PICK h \in Contents : Of({f}) = [path : {f}, hash : {h}, part : 1..Parts]
  BY <1>1, <1>2 DEF Whole
<1>4. p \in [path : {f}, hash : {h}, part : 1..Parts]
  BY <1>2, <1>3
<1>5. p.hash = h
  BY <1>4
<1> QED
  BY <1>1, <1>3, <1>5 DEF Wanted, Chunks

---------------------------------------------------------------------------
(* The types. *)

\* the parts of an indexing have their types
LEMMA RunTypes ==
  ASSUME TypeOK
  PROVE  /\ NoRun.at = "none" /\ NoRun.commit = 1
         /\ run.commit \in Commits /\ run.base \in 0..Len(log)
         /\ run.todo \subseteq Files /\ run.done \subseteq Files /\ run.known \subseteq Files
         /\ run.batch \subseteq Points
BY DEF TypeOK, NoRun

\* the types hold at first
LEMMA TypesInit == Init => TypeOK
<1> SUFFICES ASSUME Init PROVE TypeOK
  OBVIOUS
<1>. PICK t \in Trees : log = <<t>>
  BY DEF Init
<1>1. log \in Seq(Trees) /\ Len(log) = 1 /\ Len(log) \in 1..MaxCommits
  BY BoundAssumption
<1>2. row \in [status : {"None", "Pending", "InProgress", "Completed", "Failed"},
               commit : 0..Len(log), model : Models]
  BY <1>1 DEF Init
<1>3. run \in [at : {"none", "list", "files", "finish"}, inline : BOOLEAN, commit : Commits,
               base : 0..Len(log), full : BOOLEAN, todo : SUBSET Files, done : SUBSET Files,
               known : SUBSET Files, batch : SUBSET Points]
  BY <1>1 DEF Init, NoRun, Commits
<1> QED
  BY <1>1, <1>2, <1>3 DEF Init, TypeOK

Runs == [at : {"none", "list", "files", "finish"}, inline : BOOLEAN, commit : Commits,
         base : 0..Len(log), full : BOOLEAN, todo : SUBSET Files, done : SUBSET Files,
         known : SUBSET Files, batch : SUBSET Points]
Rows == [status : {"None", "Pending", "InProgress", "Completed", "Failed"},
         commit : 0..Len(log), model : Models]

\* the steps of an indexing neither push commits nor touch the row
LEMMA TypesWithin ==
  ASSUME TypeOK, UNCHANGED <<log, model, row, job, donor>>,
         run' \in Runs, run # NoRun, run' # NoRun, points' \subseteq Points
  PROVE  TypeOK'
<1>1. run' \in Runs'
  BY DEF Runs, Commits
<1> QED
  BY <1>1 DEF TypeOK, Runs

\* an indexing begins with the types
LEMMA TypesBegin ==
  ASSUME TypeOK, NEW b \in BOOLEAN, Begins(b)
  PROVE  run' \in Runs /\ run'.at = "list" /\ run' # NoRun /\ points' \subseteq Points
<1>1. Base(row) \in 0..Len(log) /\ Current \in Commits
  BY DEF Base, TypeOK, Current, Commits
<1>2. run' \in Runs /\ run'.at = "list"
  BY <1>1 DEF Begins, NoRun, Runs
<1>3. Seeded(row) \subseteq Points
  <2>1. CASE row.commit = 0 /\ donor # 0
    <3>1. donor \in Commits
      BY <2>1 DEF TypeOK, Commits
    <3>2. \A f \in Tracked(donor) : Chunks(f, donor) \subseteq Points
      BY <3>1, ChunksOf
    <3> QED
      BY <2>1, <3>2 DEF Seeded, TypeOK
  <2>2. CASE ~(row.commit = 0 /\ donor # 0)
    BY <2>2 DEF Seeded, TypeOK
  <2> QED
    BY <2>1, <2>2
<1> QED
  BY <1>2, <1>3 DEF Begins, NoRun

\* nothing but the row and its job changes type when an indexing is over
LEMMA TypesOver ==
  ASSUME TypeOK, UNCHANGED <<log, model, points, donor>>, run' = NoRun,
         row' \in Rows, row'.status # "InProgress", job' \in BOOLEAN,
         job' => row'.status \in Open, row'.status = "Completed" => row'.commit # 0
  PROVE  TypeOK'
<1>1. run' \in Runs'
  BY DEF TypeOK, Runs, NoRun, Commits
<1>2. row' \in Rows'
  BY DEF Rows
<1> QED
  BY <1>1, <1>2 DEF TypeOK, Runs, Rows

\* claims, reindexings and jobs that start keep the types
LEMMA TypesClaim == TypeOK /\ (Claim \/ Reindex \/ StartJob) => TypeOK'
<1> SUFFICES ASSUME TypeOK, Claim \/ Reindex \/ StartJob PROVE TypeOK'
  OBVIOUS
<1>1. CASE Reindex
  <2>1. row' \in Rows /\ row'.status = "Pending"
    BY <1>1 DEF Reindex, TypeOK, Rows
  <2> QED
    BY <1>1, <2>1, TypesOver DEF Reindex, Open
<1>2. ASSUME NEW b \in BOOLEAN, Begins(b), UNCHANGED <<log, model, donor>>, job' = job, job' \in BOOLEAN,
             row' = [row EXCEPT !.status = "InProgress", !.model = model]
      PROVE  TypeOK'
  <2>1. run' \in Runs' /\ run' # NoRun /\ points' \subseteq Points
    BY <1>2, TypesBegin DEF Runs, Commits
  <2>2. row' \in Rows' /\ row'.status = "InProgress"
    BY <1>2 DEF TypeOK, Rows
  <2> QED
    BY <1>2, <2>1, <2>2 DEF TypeOK, Runs, Rows, Open
<1>3. ASSUME run = NoRun, UNCHANGED <<log, model, donor, run>>, job' = TRUE, points' = Seeded(row),
             row' = [row EXCEPT !.status = "Pending", !.model = model]
      PROVE  TypeOK'
  <2>1. points' \subseteq Points
    <3>1. CASE row.commit = 0 /\ donor # 0
      <4>1. \A f \in Tracked(donor) : Chunks(f, donor) \subseteq Points
        BY <3>1, ChunksOf DEF TypeOK, Commits
      <4> QED
        BY <1>3, <3>1, <4>1 DEF Seeded, TypeOK
    <3>2. CASE ~(row.commit = 0 /\ donor # 0)
      BY <1>3, <3>2 DEF Seeded, TypeOK
    <3> QED
      BY <3>1, <3>2
  <2>2. row' \in Rows' /\ row'.status = "Pending"
    BY <1>3 DEF TypeOK, Rows
  <2>3. run' \in Runs'
    BY <1>3 DEF TypeOK, Runs, Commits
  <2> QED
    BY <1>3, <2>1, <2>2, <2>3 DEF TypeOK, Runs, Rows, Open
<1> QED
  BY <1>1, <1>2, <1>3 DEF Claim, StartJob, TypeOK

\* listing, flushing and cleaning up keep the types
LEMMA TypesFiles == TypeOK /\ (ListAll \/ ListChanged \/ Flush \/ CleanUp) => TypeOK'
<1> SUFFICES ASSUME TypeOK, ListAll \/ ListChanged \/ Flush \/ CleanUp PROVE TypeOK'
  OBVIOUS
<1>0. NoRun.at = "none" /\ run \in Runs /\ Tracked(run.commit) \subseteq Files /\ Paths \subseteq Files
  BY DEF NoRun, TypeOK, Runs, Tracked, Paths, Points
<1>1. CASE ListAll
  <2>. PICK known \in SUBSET Files :
           run' = [run EXCEPT !.at = "files", !.full = TRUE, !.todo = Tracked(run.commit), !.known = known]
    BY <1>0, <1>1 DEF ListAll
  <2>1. run' \in Runs /\ run'.at = "files"
    BY <1>0 DEF Runs
  <2> QED
    BY <1>0, <1>1, <2>1, TypesWithin DEF ListAll, TypeOK
<1>2. CASE ListChanged
  <2>1. run' \in Runs /\ run'.at = "files"
    BY <1>0, <1>2 DEF ListChanged, Runs
  <2> QED
    BY <1>0, <1>2, <2>1, TypesWithin DEF ListChanged, TypeOK
<1>3. CASE Flush
  <2>1. PICK b \in SUBSET run.batch : points' = points \cup b /\ run' = [run EXCEPT !.batch = @ \ b]
    BY <1>3 DEF Flush
  <2>2. run' \in Runs /\ run'.at = "files" /\ points' \subseteq Points
    BY <1>0, <1>3, <2>1 DEF Flush, Runs, TypeOK
  <2> QED
    BY <1>0, <1>3, <2>2, TypesWithin DEF Flush
<1>4. CASE CleanUp
  <2>1. run' \in Runs /\ run'.at = "finish" /\ points' \subseteq Points
    BY <1>0, <1>4 DEF CleanUp, Runs, TypeOK
  <2> QED
    BY <1>0, <1>4, <2>1, TypesWithin DEF CleanUp
<1> QED
  BY <1>1, <1>2, <1>3, <1>4

\* a file that is processed keeps the types
LEMMA TypesIndex ==
  ASSUME TypeOK, NEW f \in Tracked(run.commit), Index(f)
  PROVE  TypeOK'
<1>0. NoRun.at = "none" /\ run \in Runs /\ f \in run.todo /\ run.at = "files"
  BY DEF NoRun, TypeOK, Runs, Index, Skip, Embed
<1>1. Takes(f) \in Runs /\ Takes(f).at = "files"
  BY <1>0 DEF Takes, Runs
<1>2. CASE Skip(f)
  BY <1>0, <1>1, <1>2, TypesWithin DEF Skip, TypeOK
<1>3. CASE Embed(f)
  <2>1. Chunks(f, run.commit) \subseteq Points
    BY <1>3, ChunksOf, RunTypes
  <2>2. run' \in Runs /\ run'.at = "files" /\ points' \subseteq Points
    BY <1>1, <1>3, <2>1 DEF Embed, Runs, TypeOK
  <2> QED
    BY <1>0, <1>3, <2>2, TypesWithin DEF Embed
<1> QED
  BY <1>2, <1>3 DEF Index

\* an end of an indexing keeps the types
LEMMA TypesEnd == TypeOK /\ (Finish \/ Fail \/ Crash) => TypeOK'
<1> SUFFICES ASSUME TypeOK, Finish \/ Fail \/ Crash PROVE TypeOK'
  OBVIOUS
<1>1. CASE Finish
  <2>0. run.commit \in 0..Len(log) /\ run.commit # 0
    BY RunTypes DEF Commits
  <2>1. row' \in Rows /\ row'.status = "Completed" /\ row'.commit # 0
    BY <1>1, <2>0 DEF Finish, TypeOK, Rows
  <2> QED
    BY <1>1, <2>1, TypesOver DEF Finish
<1>2. CASE Fail
  <2>1. row' \in Rows /\ row'.status \in {"Failed", "Pending"} /\ (job' => row'.status = "Pending") /\ job' \in BOOLEAN
    BY <1>2 DEF Fail, TypeOK, Rows
  <2> QED
    BY <1>2, <2>1, TypesOver DEF Fail, Ends, Open
<1>3. CASE Crash
  <2>1. row' \in Rows /\ row'.status = "Pending"
    BY <1>3 DEF Crash, TypeOK, Rows
  <2> QED
    BY <1>3, <2>1, TypesOver DEF Crash, Ends, Open
<1> QED
  BY <1>1, <1>2, <1>3

\* a push adds one commit and changes none
LEMMA PushGrows ==
  ASSUME TypeOK, Push
  PROVE  /\ log' \in Seq(Trees) /\ Len(log') = Len(log) + 1 /\ Len(log') \in 1..MaxCommits
         /\ Commits' = Commits \cup {Len(log')}
         /\ \A c \in Commits : log'[c] = log[c]
         /\ UNCHANGED <<model, row, job, points, donor, run>>
<1>1. PICK t \in Trees : log' = Append(log, t)
  BY DEF Push
<1>2. Len(log) \in Nat /\ Len(log) < MaxCommits /\ MaxCommits \in Nat
  BY BoundAssumption DEF TypeOK, Push
<1> QED
  BY <1>1, <1>2 DEF TypeOK, Commits, Push

\* the repository, the configuration and the sibling keep the types
LEMMA TypesWorld == TypeOK /\ (Push \/ Configure \/ IndexSibling \/ UNCHANGED vars) => TypeOK'
<1> SUFFICES ASSUME TypeOK, Push \/ Configure \/ IndexSibling \/ UNCHANGED vars PROVE TypeOK'
  OBVIOUS
<1>1. CASE Push
  BY <1>1, PushGrows DEF TypeOK, Commits
<1>2. CASE Configure
  BY <1>2 DEF TypeOK, Configure, Commits
<1>3. CASE IndexSibling
  BY <1>3 DEF TypeOK, IndexSibling, Current, Commits
<1>4. CASE UNCHANGED vars
  BY <1>4 DEF TypeOK, vars, Commits
<1> QED
  BY <1>1, <1>2, <1>3, <1>4

---------------------------------------------------------------------------
(* Steps that leave log and collection alone. *)

\* what only log and collection decide
LEMMA SameContents ==
  ASSUME UNCHANGED <<log, points>>
  PROVE  /\ NoReturn => NoReturn'
         /\ Whole => Whole'
         /\ row'.commit = row.commit /\ Stays => Stays'
         /\ \A f, c : Wanted(f, c)' = Wanted(f, c)
         /\ \A fs : Of(fs)' = Of(fs)
<1>1. /\ \A f, c : Wanted(f, c)' = Wanted(f, c)
      /\ \A fs : Of(fs)' = Of(fs)
  BY DEF Wanted, Chunks, Of
<1>2. NoReturn => NoReturn'
  BY DEF NoReturn, Commits
<1>3. Whole => Whole'
  BY DEF Whole, Of
<1>4. ASSUME row'.commit = row.commit, Stays PROVE Stays'
  BY <1>4 DEF Stays, Unchanged, Current, Wanted, Chunks, Of
<1> QED
  BY <1>1, <1>2, <1>3, <1>4

\* an attempt that does not finish is not between two seedings under Gentle
LEMMA EndKeeps == Gentle /\ Inv /\ (Fail \/ Crash) => Inv'
<1> SUFFICES ASSUME Gentle, Inv, Fail \/ Crash PROVE Inv'
  OBVIOUS
<1>1. /\ UNCHANGED <<log, model, points, donor>> /\ run' = NoRun /\ run'.at = "none"
      /\ row'.commit = row.commit /\ row'.status \in {"Failed", "Pending"}
      /\ donor = 0 \/ row.commit # 0
  BY DEF Fail, Crash, Ends, Gentle, NoRun, Inv, TypeOK
<1>2. TypeOK'
  BY TypesEnd DEF Inv
<1>3. NoReturn' /\ Whole' /\ Stays'
  BY <1>1, SameContents DEF Inv
<1>4. SeededOnce'
  BY <1>1 DEF SeededOnce
<1>5. Compared' /\ Listing' /\ Processing' /\ Finishing' /\ Exact'
  BY <1>1 DEF Compared, Listing, Processing, Finishing, Exact
<1> QED
  BY <1>2, <1>3, <1>4, <1>5 DEF Inv

\* the row gets the commit the collection holds
LEMMA FinishKeeps == Inv /\ Finish => Inv'
<1> SUFFICES ASSUME Inv, Finish PROVE Inv'
  OBVIOUS
<1>1. /\ UNCHANGED <<log, model, points, donor>> /\ run' = NoRun /\ run'.at = "none"
      /\ row'.commit = run.commit /\ row'.status = "Completed" /\ run.commit \in Commits
      /\ run.commit # 0
  BY RunTypes DEF Finish, NoRun, Inv, TypeOK, Commits
<1>2. TypeOK'
  BY TypesEnd DEF Inv
<1>3. NoReturn' /\ Whole'
  BY <1>1, SameContents DEF Inv
<1>4. \A f \in Files : (Of({f}) = Wanted(f, row.commit))'
  BY <1>1 DEF Inv, Finishing, Finish, Of, Wanted, Chunks
<1>5. Stays' /\ Exact'
  BY <1>4 DEF Stays, Exact
<1>6. SeededOnce' /\ Compared' /\ Listing' /\ Processing' /\ Finishing'
  BY <1>1 DEF SeededOnce, Compared, Listing, Processing, Finishing
<1> QED
  BY <1>2, <1>3, <1>5, <1>6 DEF Inv

\* the commit is forgotten; without reseed no sibling is indexed
LEMMA ReindexKeeps == Gentle /\ Inv /\ Reindex => Inv'
<1> SUFFICES ASSUME Gentle, Inv, Reindex PROVE Inv'
  OBVIOUS
<1>1. /\ UNCHANGED <<log, model, points, donor, run>> /\ run = NoRun /\ run.at = "none" /\ donor = 0
      /\ row'.commit = 0 /\ row'.status = "Pending"
  BY DEF Reindex, Gentle, NoRun
<1>2. TypeOK'
  BY TypesClaim DEF Inv
<1>3. NoReturn' /\ Whole'
  BY <1>1, SameContents DEF Inv
<1>4. Stays' /\ SeededOnce' /\ Compared' /\ Listing' /\ Processing' /\ Finishing' /\ Exact'
  BY <1>1 DEF Stays, SeededOnce, Compared, Listing, Processing, Finishing, Exact
<1> QED
  BY <1>2, <1>3, <1>4 DEF Inv

\* the configuration and the sibling do not reach the collection
LEMMA WorldKeeps == Gentle /\ Inv /\ (Configure \/ IndexSibling \/ UNCHANGED vars) => Inv'
<1> SUFFICES ASSUME Gentle, Inv, Configure \/ IndexSibling \/ UNCHANGED vars PROVE Inv'
  OBVIOUS
<1>1. /\ UNCHANGED <<log, points, row, job, run>>
      /\ \/ UNCHANGED donor
         \/ row.status = "None" \/ row.commit # 0
  BY DEF Configure, IndexSibling, vars, Gentle
<1>2. TypeOK'
  BY TypesWorld DEF Inv
<1>3. NoReturn' /\ Whole' /\ Stays'
  BY <1>1, SameContents DEF Inv
<1>4. SeededOnce'
  BY <1>1 DEF Inv, SeededOnce, Of, Wanted, Chunks
<1>5. Compared'
  BY <1>1 DEF Inv, SeededOnce, Compared, NoRun
<1>6. Listing' /\ Finishing' /\ Exact'
  BY <1>1 DEF Inv, Listing, Finishing, Exact, Of, Wanted, Chunks
<1>7. Processing'
  BY <1>1 DEF Inv, Processing, Of, Wanted, Chunks, Tracked
<1> QED
  BY <1>2, <1>3, <1>4, <1>5, <1>6, <1>7 DEF Inv

\* without revert a pushed file is as it was or new
LEMMA PushKeepsHistory == Gentle /\ TypeOK /\ NoReturn /\ Push => NoReturn'
<1> SUFFICES ASSUME Gentle, TypeOK, NoReturn, Push,
                    NEW f \in Files, NEW i \in Commits', NEW j \in Commits', NEW k \in Commits',
                    i <= j, j <= k, log'[i][f] = log'[k][f]
             PROVE  log'[j][f] = log'[i][f]
  BY DEF NoReturn
<1>1. PICK t \in Trees : log' = Append(log, t) /\ New(t)
  BY DEF Push, Gentle
<1>2. /\ Len(log) \in Nat /\ Len(log) >= 1 /\ Len(log') = Len(log) + 1
      /\ Commits' = Commits \cup {Len(log')} /\ Commits = 1..Len(log)
      /\ \A c \in Commits : log'[c] = log[c]
      /\ log'[Len(log')] = t
  BY <1>1, PushGrows DEF TypeOK, Commits
<1>3. CASE k \in Commits
  BY <1>2, <1>3 DEF NoReturn
<1>4. CASE k = Len(log') /\ j = k
  BY <1>4
<1>5. CASE k = Len(log') /\ j \in Commits
  <2>1. i \in Commits /\ log[i][f] = t[f]
    BY <1>2, <1>5
  <2>2. t[f] = log[Len(log)][f]
    BY <1>1, <2>1 DEF New, Current
  <2>3. Len(log) \in Commits /\ j <= Len(log)
    BY <1>2, <1>5
  <2>4. log[j][f] = log[i][f]
    BY <2>1, <2>2, <2>3, <1>5 DEF NoReturn
  <2> QED
    BY <1>2, <1>5, <2>1, <2>4
<1> QED
  BY <1>2, <1>3, <1>4, <1>5

\* commits pushed meanwhile do not change the one that is indexed
LEMMA PushKeeps == Gentle /\ Inv /\ Push => Inv'
<1> SUFFICES ASSUME Gentle, Inv, Push PROVE Inv'
  OBVIOUS
<1>1. /\ UNCHANGED <<model, row, job, points, donor, run>>
      /\ Len(log') = Len(log) + 1 /\ Len(log) \in Nat
      /\ Commits \subseteq Commits' /\ Commits = 1..Len(log)
      /\ \A c \in Commits : log'[c] = log[c]
  BY PushGrows DEF Inv, TypeOK, Commits
<1>2. /\ run.commit \in Commits /\ run.base \in 0..Len(log)
      /\ row.commit \in 0..Len(log) /\ donor \in 0..Len(log)
  BY RunTypes DEF Inv, TypeOK
<1>3. /\ \A f, c : c \in Commits => Wanted(f, c)' = Wanted(f, c) /\ Chunks(f, c)' = Chunks(f, c)
      /\ \A fs : Of(fs)' = Of(fs)
      /\ \A c \in Commits : Tracked(c)' = Tracked(c)
  BY <1>1 DEF Wanted, Chunks, Of, Tracked
<1>4. TypeOK' /\ NoReturn' /\ Whole'
  BY <1>1, TypesWorld, PushKeepsHistory DEF Inv, Whole, Of
<1>5. Stays'
  <2> SUFFICES ASSUME row.commit # 0, NEW f \in Files, Unchanged(f)'
               PROVE  Of({f}) = Wanted(f, row.commit)
    BY <1>1, <1>2, <1>3 DEF Stays
  <2>1. Unchanged(f)
    BY <1>1, <1>2 DEF Unchanged, Current
  <2> QED
    BY <2>1 DEF Inv, Stays
<1>6. SeededOnce' /\ Compared'
  BY <1>1, <1>2, <1>3 DEF Inv, SeededOnce, Compared, NoRun
<1>7. Listing'
  BY <1>1, <1>2, <1>3 DEF Inv, Listing
<1>8. Processing'
  <2> SUFFICES ASSUME run.at = "files" PROVE Processing'
    BY <1>1 DEF Processing
  <2>1. /\ Tracked(run.commit)' = Tracked(run.commit)
        /\ \A f : Chunks(f, run.commit)' = Chunks(f, run.commit)
        /\ \A f : Wanted(f, run.commit)' = Wanted(f, run.commit)
        /\ \A f : Of({f})' = Of({f})
        /\ run' = run
    BY <1>1, <1>2 DEF Wanted, Chunks, Of, Tracked
  <2>2. Processing
    BY DEF Inv
  <2>3. log'[run.commit] = log[run.commit] /\ points' = points
    BY <1>1, <1>2
  <2> QED
    BY <2>1, <2>2, <2>3 DEF Processing, Wanted, Chunks, Of, Tracked
<1>9. Finishing' /\ Exact'
  BY <1>1, <1>2, <1>3 DEF Inv, Finishing, Exact, TypeOK
<1> QED
  BY <1>4, <1>5, <1>6, <1>7, <1>8, <1>9 DEF Inv

---------------------------------------------------------------------------
(* An indexing begins: what it compares with is what the collection holds. *)

\* an empty collection, or one seeded before, holds the donor's commit when seeded
LEMMA SeededHolds ==
  ASSUME Inv, run = NoRun, row.commit = 0, donor # 0
  PROVE  \A f \in Files : {p \in Seeded(row) : p.path \in {f}} = Wanted(f, donor)
<1> TAKE f \in Files
<1>1. Seeded(row) = points \cup UNION {Chunks(g, donor) : g \in Tracked(donor)}
  BY DEF Seeded
<1>2. \A g \in Tracked(donor) : \A p \in Chunks(g, donor) : p.path = g
  BY ChunksOf DEF Inv, TypeOK, Commits
<1>3. {p \in UNION {Chunks(g, donor) : g \in Tracked(donor)} : p.path \in {f}} = Wanted(f, donor)
  <2>1. CASE f \in Tracked(donor)
    BY <2>1, <1>2 DEF Wanted, Tracked
  <2>2. CASE f \notin Tracked(donor)
    BY <2>2, <1>2 DEF Wanted, Tracked
  <2> QED
    BY <2>1, <2>2
<1>4. points = {} \/ Of({f}) = Wanted(f, donor)
  BY DEF Inv, SeededOnce, TypeOK
<1> QED
  BY <1>1, <1>3, <1>4 DEF Of

\* a commit holds files whole
LEMMA WantedWhole ==
  ASSUME TypeOK, NEW c \in Commits, NEW f \in Files
  PROVE  \/ Wanted(f, c) = {}
         \/ \E h \in Contents : Wanted(f, c) = [path : {f}, hash : {h}, part : 1..Parts]
BY Trees1 DEF Wanted, Chunks

\* seeding leaves files whole and touches no index that has a commit
LEMMA SeedKeeps ==
  ASSUME Inv, run = NoRun, points' = Seeded(row), UNCHANGED <<log, donor>>,
         row'.commit = row.commit
  PROVE  NoReturn' /\ Whole' /\ Stays'
<1>1. NoReturn'
  BY DEF Inv, NoReturn, Commits
<1>2. CASE row.commit = 0 /\ donor # 0
  <2>1. \A f \in Files : Of({f})' = Wanted(f, donor)
    BY <1>2, SeededHolds DEF Of
  <2>2. Whole'
    <3>1. donor \in Commits /\ TypeOK
      BY <1>2 DEF Inv, TypeOK, Commits
    <3>2. ASSUME NEW f \in Files
          PROVE  \/ Of({f})' = {}
                 \/ \E h \in Contents : Of({f})' = [path : {f}, hash : {h}, part : 1..Parts]
      <4>1. Of({f})' = Wanted(f, donor)
        BY <2>1
      <4>2. \/ Wanted(f, donor) = {}
            \/ \E h \in Contents : Wanted(f, donor) = [path : {f}, hash : {h}, part : 1..Parts]
        BY <3>1, WantedWhole
      <4> QED
        BY <4>1, <4>2
    <3> QED
      BY <3>2 DEF Whole
  <2> QED
    BY <1>1, <1>2, <2>2 DEF Stays
<1>3. CASE ~(row.commit = 0 /\ donor # 0)
  BY <1>3, SameContents DEF Seeded, Inv
<1> QED
  BY <1>2, <1>3

\* the collection holds what an incremental indexing compares with
LEMMA BeginKeeps ==
  ASSUME Inv, run = NoRun, NEW b \in BOOLEAN, Begins(b), UNCHANGED <<log, donor>>,
         row'.commit = row.commit, row'.status = "InProgress", TypeOK'
  PROVE  Inv'
<1>1. /\ run'.at = "list" /\ run'.commit = Current /\ run'.base = Base(row)
      /\ run'.todo = {} /\ run'.done = {} /\ run'.batch = {} /\ ~run'.full
      /\ points' = Seeded(row)
  BY DEF Begins, NoRun
<1>2. NoReturn' /\ Whole' /\ Stays'
  BY <1>1, SeedKeeps
<1>3. /\ Current \in Commits /\ Current \in Nat /\ Base(row) <= Current /\ row.commit <= Current
      /\ row.commit # 0 => row.commit \in Commits
      /\ donor # 0 => donor \in Commits
      /\ row.commit # 0 => Base(row) \in {0, row.commit}
      /\ row.commit = 0 => Base(row) = donor
  BY DEF Inv, TypeOK, Base, Current, Commits
<1>4. Compared' /\ SeededOnce' /\ Exact' /\ Processing' /\ Finishing'
  BY <1>1, <1>3 DEF Compared, SeededOnce, Exact, Processing, Finishing
<1>5. Listing'
  <2> SUFFICES ASSUME Base(row) # 0, NEW f \in Files, log[Base(row)][f] = log[Current][f]
               PROVE  (Of({f}) = Wanted(f, run.commit))'
    BY <1>1 DEF Listing
  <2>1. CASE row.commit = 0
    <3>1. Of({f})' = Wanted(f, donor)
      BY <1>1, <1>3, <2>1, SeededHolds DEF Of
    <3> QED
      BY <1>1, <1>3, <2>1, <3>1 DEF Wanted, Chunks
  <2>2. CASE row.commit # 0
    <3>1. Unchanged(f)
      BY <1>3, <2>2 DEF Inv, NoReturn, Unchanged, Commits, Current, TypeOK
    <3>2. Of({f}) = Wanted(f, row.commit)
      BY <2>2, <3>1 DEF Inv, Stays
    <3>3. points' = points
      BY <1>1, <2>2 DEF Seeded
    <3> QED
      BY <1>1, <1>3, <2>2, <3>2, <3>3 DEF Wanted, Chunks, Of
  <2> QED
    BY <2>1, <2>2
<1> QED
  BY <1>2, <1>4, <1>5 DEF Inv

\* so does a claim, and the job it queues
LEMMA ClaimKeeps == Inv /\ (Claim \/ StartJob) => Inv'
<1> SUFFICES ASSUME Inv, Claim \/ StartJob PROVE Inv'
  OBVIOUS
<1>1. TypeOK' /\ run = NoRun /\ NoRun.at = "none" /\ UNCHANGED <<log, donor>>
  BY TypesClaim DEF Inv, Claim, StartJob, NoRun
<1>2. ASSUME NEW b \in BOOLEAN, Begins(b), row' = [row EXCEPT !.status = "InProgress", !.model = model]
      PROVE  Inv'
  <2>1. row'.commit = row.commit /\ row'.status = "InProgress"
    BY <1>2 DEF Inv, TypeOK
  <2> QED
    BY <1>1, <1>2, <2>1, BeginKeeps
<1>3. ASSUME points' = Seeded(row), run' = run,
             row' = [row EXCEPT !.status = "Pending", !.model = model]
      PROVE  Inv'
  <2>1. row'.commit = row.commit /\ row'.status = "Pending"
    BY <1>3 DEF Inv, TypeOK
  <2>2. NoReturn' /\ Whole' /\ Stays'
    BY <1>1, <1>3, <2>1, SeedKeeps
  <2>3. SeededOnce'
    BY <1>1, <1>3, <2>1, SeededHolds DEF SeededOnce, Of, Wanted, Chunks
  <2>4. Compared' /\ Listing' /\ Processing' /\ Finishing' /\ Exact'
    BY <1>1, <1>3, <2>1 DEF Compared, Listing, Processing, Finishing, Exact
  <2> QED
    BY <1>1, <2>2, <2>3, <2>4 DEF Inv
<1> QED
  BY <1>2, <1>3 DEF Claim, StartJob

---------------------------------------------------------------------------
(* The steps of an indexing. *)

\* the steps of an indexing leave row, donor and log alone
LEMMA StepKeeps ==
  ASSUME Inv, run # NoRun, run'.at # "none",
         run'.commit = run.commit, run'.base = run.base,
         UNCHANGED <<log, model, row, job, donor>>
  PROVE  NoReturn' /\ SeededOnce' /\ Compared' /\ Exact'
<1>1. row.status = "InProgress" /\ row' = row
  BY DEF Inv, TypeOK
<1>2. NoReturn'
  BY DEF Inv, NoReturn, Commits
<1>3. SeededOnce' /\ Exact'
  BY <1>1 DEF Inv, SeededOnce, Exact
<1>4. Compared'
  BY DEF Inv, Compared
<1> QED
  BY <1>2, <1>3, <1>4

\* a file that is unchanged is so at the commit that is indexed
LEMMA SameSince ==
  ASSUME Inv, run # NoRun, row.commit # 0, NEW f \in Files, Unchanged(f)
  PROVE  log[row.commit][f] = log[run.commit][f] /\ Wanted(f, row.commit) = Wanted(f, run.commit)
<1>1. run.commit \in row.commit..Current
  BY RunTypes DEF Inv, Compared, TypeOK, Commits, Current
<1> QED
  BY <1>1 DEF Unchanged, Wanted, Chunks

\* an indexing that is at a step is in progress
LEMMA Started == run.at # "none" => run # NoRun
BY DEF NoRun

\* a full indexing knows which files have chunks
LEMMA ListAllKeeps == Gentle /\ Inv /\ ListAll => Inv'
<1> SUFFICES ASSUME Gentle, Inv, ListAll PROVE Inv'
  OBVIOUS
<1>1. /\ run' = [run EXCEPT !.at = "files", !.full = TRUE, !.todo = Tracked(run.commit), !.known = Paths]
      /\ UNCHANGED <<log, model, row, job, points, donor>> /\ run.at = "list" /\ run # NoRun
  BY Started DEF ListAll, Gentle
<1>2. /\ run'.at = "files" /\ run'.commit = run.commit /\ run'.base = run.base /\ run'.full
      /\ run'.todo = Tracked(run.commit) /\ run'.known = Paths
      /\ run'.done = {} /\ run'.batch = {}
  BY <1>1 DEF Inv, TypeOK, Listing
<1>3. TypeOK'
  BY TypesFiles DEF Inv
<1>4. NoReturn' /\ SeededOnce' /\ Compared' /\ Exact'
  BY <1>1, <1>2, StepKeeps
<1>5. Whole' /\ Stays'
  BY <1>1, SameContents DEF Inv
<1>6. Processing'
  <2>1. Tracked(run.commit)' = Tracked(run.commit)
    BY <1>1, <1>2 DEF Tracked
  <2>2. \A f \in Files : f \in Paths <=> Of({f})' # {}
    BY <1>1 DEF Paths, Of
  <2> QED
    BY <1>1, <1>2, <2>1, <2>2 DEF Processing
<1>7. Listing' /\ Finishing'
  BY <1>2 DEF Listing, Finishing
<1> QED
  BY <1>3, <1>4, <1>5, <1>6, <1>7 DEF Inv

\* deleting the chunks of files leaves the others whole
LEMMA WholeMinus ==
  ASSUME Whole, NEW fs, points' = points \ Of(fs)
  PROVE  Whole' /\ \A f : Of({f})' = IF f \in fs THEN {} ELSE Of({f})
<1>1. \A f : Of({f})' = IF f \in fs THEN {} ELSE Of({f})
  BY DEF Of
<1>2. ASSUME NEW f \in Files
      PROVE  \/ Of({f})' = {}
             \/ \E h \in Contents : Of({f})' = [path : {f}, hash : {h}, part : 1..Parts]
  BY <1>1 DEF Whole
<1> QED
  BY <1>1, <1>2 DEF Whole

\* what is neither changed nor gone is already right
LEMMA ListChangedKeeps == Inv /\ ListChanged => Inv'
<1> SUFFICES ASSUME Inv, ListChanged PROVE Inv'
  OBVIOUS
<1> DEFINE diff == Changed(run.base, run.commit)
           gone == diff \ Tracked(run.commit)
<1>1. /\ run' = [run EXCEPT !.at = "files", !.todo = diff \cap Tracked(run.commit)]
      /\ points' = points \ Of(gone) /\ run.base # 0
      /\ UNCHANGED <<log, model, row, job, donor>> /\ run.at = "list" /\ run # NoRun
  BY Started DEF ListChanged
<1>2. /\ run'.at = "files" /\ run'.commit = run.commit /\ run'.base = run.base /\ ~run'.full
      /\ run'.todo = diff \cap Tracked(run.commit) /\ run'.done = {} /\ run'.batch = {}
  BY <1>1 DEF Inv, TypeOK, Listing
<1>3. TypeOK'
  BY TypesFiles DEF Inv
<1>4. NoReturn' /\ SeededOnce' /\ Compared' /\ Exact'
  BY <1>1, <1>2, StepKeeps
<1>5. Whole' /\ \A f : Of({f})' = IF f \in gone THEN {} ELSE Of({f})
  BY <1>1, WholeMinus DEF Inv
<1>6. Stays'
  <2> SUFFICES ASSUME row.commit # 0, NEW f \in Files, Unchanged(f)
               PROVE  Of({f})' = Wanted(f, row.commit)
    BY <1>1 DEF Stays, Unchanged, Current, Wanted, Chunks
  <2>1. run.base = row.commit
    BY <1>1 DEF Inv, Compared
  <2>2. f \notin gone
    BY <1>1, <2>1, SameSince DEF Changed
  <2> QED
    BY <1>5, <2>2 DEF Inv, Stays
<1>7. Processing'
  <2>1. Tracked(run.commit)' = Tracked(run.commit)
    BY <1>1, <1>2 DEF Tracked
  <2>2. ASSUME NEW f \in Files \ (diff \cap Tracked(run.commit))
        PROVE  Of({f})' = Wanted(f, run.commit)
    <3>1. CASE f \in gone
      BY <1>5, <3>1 DEF Wanted, Tracked
    <3>2. CASE f \notin gone
      <4>1. log[run.base][f] = log[run.commit][f]
        BY <3>2, <2>2 DEF Changed
      <4> QED
        BY <1>1, <1>5, <3>2, <4>1 DEF Inv, Listing
    <3> QED
      BY <3>1, <3>2
  <2>3. \A f : Wanted(f, run.commit)' = Wanted(f, run.commit)
    BY <1>1, <1>2 DEF Wanted, Chunks
  <2> QED
    BY <1>1, <1>2, <2>1, <2>2, <2>3 DEF Processing
<1>8. Listing' /\ Finishing'
  BY <1>2 DEF Listing, Finishing
<1> QED
  BY <1>3, <1>4, <1>5, <1>6, <1>7, <1>8 DEF Inv

\* a file that is reused has exactly its chunks
LEMMA ReusableHolds ==
  ASSUME Inv, run.at = "files", NEW f \in run.todo, Reusable(f)
  PROVE  Of({f}) = Chunks(f, run.commit)
<1>1. PICK p \in points : p.path = f /\ p.hash = log[run.commit][f]
  BY DEF Reusable
<1>2. f \in Tracked(run.commit) /\ run.commit \in Commits
  BY RunTypes DEF Inv, Processing
<1>3. Of({f}) = Wanted(f, run.commit)
  BY <1>1, <1>2, OfWanted DEF Inv
<1> QED
  BY <1>2, <1>3 DEF Wanted, Tracked

\* a reused file is done
LEMMA SkipKeeps ==
  ASSUME Gentle, Inv, NEW f \in Files, Skip(f)
  PROVE  Inv'
<1>1. /\ run.at = "files" /\ run # NoRun /\ f \in run.todo /\ f \in Tracked(run.commit) /\ Reusable(f)
      /\ UNCHANGED <<log, model, row, job, points, donor>>
  BY Started DEF Skip, Gentle, Inv, Processing
<1>2. /\ run'.at = "files" /\ run'.commit = run.commit /\ run'.base = run.base /\ run'.full = run.full
      /\ run'.todo = run.todo \ {f} /\ run'.done = run.done \cup {f}
      /\ run'.batch = run.batch /\ run'.known = run.known
  BY <1>1 DEF Skip, Takes, Inv, TypeOK
<1>3. TypeOK'
  BY <1>1, TypesIndex DEF Inv, Index
<1>4. NoReturn' /\ SeededOnce' /\ Compared' /\ Exact'
  BY <1>1, <1>2, StepKeeps
<1>5. Whole' /\ Stays'
  BY <1>1, SameContents DEF Inv
<1>6. Processing'
  <2>1. /\ Tracked(run.commit)' = Tracked(run.commit)
        /\ \A g : Of({g})' = Of({g})
        /\ \A g : Chunks(g, run.commit)' = Chunks(g, run.commit)
        /\ \A g : Wanted(g, run.commit)' = Wanted(g, run.commit)
    BY <1>1, <1>2 DEF Tracked, Of, Chunks, Wanted
  <2>2. Of({f}) = Chunks(f, run.commit)
    BY <1>1, ReusableHolds
  <2>3. Processing
    BY DEF Inv
  <2>4. ASSUME NEW g \in run'.done
        PROVE  \/ Of({g})' = Chunks(g, run.commit)
               \/ Of({g})' = {} /\ Chunks(g, run.commit) \subseteq run'.batch
    <3>1. CASE g = f
      BY <1>1, <1>2, <2>1, <2>2, <2>3, <3>1
    <3>2. CASE g # f
      <4>1. g \in run.done
        BY <1>2, <3>2
      <4>2. \/ Of({g}) = Chunks(g, run.commit)
            \/ Of({g}) = {} /\ Chunks(g, run.commit) \subseteq run.batch
        BY <1>1, <4>1 DEF Inv, Processing
      <4> QED
        BY <1>1, <1>2, <2>1, <2>2, <2>3, <3>2, <4>2
    <3> QED
      BY <3>1, <3>2
  <2>5. \A p \in run'.batch : p.path \in run'.done /\ p \in Chunks(p.path, run.commit)
    BY <1>1, <1>2, <2>1, <2>2, <2>3 DEF Processing
  <2>6. /\ run'.todo \subseteq Tracked(run.commit) /\ run'.done \subseteq Tracked(run.commit)
        /\ run'.todo \cap run'.done = {}
    BY <1>1, <1>2, <2>1, <2>2, <2>3 DEF Processing
  <2>7. run'.full => run'.todo \cup run'.done = Tracked(run.commit)
    BY <1>1, <1>2, <2>1, <2>2, <2>3 DEF Processing
  <2>9. ASSUME run'.full, NEW g \in Files \ run'.done
        PROVE  g \in run'.known <=> Of({g})' # {}
    <3>1. g \in Files \ run.done /\ run.full
      BY <1>2, <2>9
    <3>2. g \in run.known <=> Of({g}) # {}
      BY <1>1, <3>1 DEF Inv, Processing
    <3> QED
      BY <1>1, <1>2, <2>1, <2>2, <2>3, <2>9, <3>2
  <2>8. ~run'.full => \A g \in Files \ (run'.todo \cup run'.done) : Of({g})' = Wanted(g, run.commit)
    BY <1>1, <1>2, <2>1, <2>2, <2>3 DEF Processing
  <2> QED
    BY <2>1, <2>4, <2>5, <2>6, <2>7, <2>8, <2>9 DEF Processing
<1>7. Listing' /\ Finishing'
  BY <1>2 DEF Listing, Finishing
<1> QED
  BY <1>3, <1>4, <1>5, <1>6, <1>7 DEF Inv

\* a file that is embedded has changed since the last indexed commit
LEMMA EmbeddedChanged ==
  ASSUME Inv, run.at = "files", NEW f \in run.todo, ~Reusable(f), row.commit # 0
  PROVE  ~Unchanged(f)
<1> SUFFICES ASSUME Unchanged(f) PROVE FALSE
  OBVIOUS
<1>1. f \in Tracked(run.commit) /\ run.commit \in Commits /\ f \in Files /\ f \notin run.done
  BY RunTypes DEF Inv, Processing
<1>2. Of({f}) = Chunks(f, run.commit)
  <2>1. Of({f}) = Wanted(f, run.commit)
    BY <1>1, Started, SameSince DEF Inv, Stays
  <2> QED
    BY <1>1, <2>1 DEF Wanted, Tracked
<1>3. PICK p \in Chunks(f, run.commit) : p.path = f /\ p.hash = log[run.commit][f]
  BY <1>1, ChunksOf DEF Inv
<1>4. p \in points /\ Of({f}) # {}
  BY <1>2, <1>3 DEF Of
<1>5. run.full => f \in run.known
  BY <1>1, <1>4 DEF Inv, Processing
<1> QED
  BY <1>3, <1>4, <1>5 DEF Reusable

\* an embedded file is done once its chunks are flushed
LEMMA EmbedKeeps ==
  ASSUME Inv, NEW f \in Files, Embed(f)
  PROVE  Inv'
<1>1. /\ run.at = "files" /\ run # NoRun /\ f \in run.todo /\ f \in Tracked(run.commit) /\ ~Reusable(f)
      /\ points' = points \ Of({f}) /\ UNCHANGED <<log, model, row, job, donor>>
  BY Started DEF Embed, Inv, Processing
<1>2. /\ run'.at = "files" /\ run'.commit = run.commit /\ run'.base = run.base /\ run'.full = run.full
      /\ run'.todo = run.todo \ {f} /\ run'.done = run.done \cup {f}
      /\ run'.batch = run.batch \cup Chunks(f, run.commit) /\ run'.known = run.known
  BY <1>1 DEF Embed, Takes, Inv, TypeOK
<1>3. TypeOK'
  BY <1>1, TypesIndex DEF Inv, Index
<1>4. NoReturn' /\ SeededOnce' /\ Compared' /\ Exact'
  BY <1>1, <1>2, StepKeeps
<1>5. Whole' /\ \A g : Of({g})' = IF g = f THEN {} ELSE Of({g})
  BY <1>1, WholeMinus DEF Inv
<1>6. Stays'
  <2> SUFFICES ASSUME row.commit # 0, NEW g \in Files, Unchanged(g)
               PROVE  Of({g})' = Wanted(g, row.commit)
    BY <1>1 DEF Stays, Unchanged, Current, Wanted, Chunks
  <2>1. g # f
    BY <1>1, EmbeddedChanged
  <2> QED
    BY <1>5, <2>1 DEF Inv, Stays
<1>7. Processing'
  <2>1. /\ Tracked(run.commit)' = Tracked(run.commit)
        /\ \A g : Chunks(g, run.commit)' = Chunks(g, run.commit)
        /\ \A g : Wanted(g, run.commit)' = Wanted(g, run.commit)
    BY <1>1, <1>2 DEF Tracked, Chunks, Wanted
  <2>2. \A p \in Chunks(f, run.commit) : p.path = f
    BY <1>1, ChunksOf, RunTypes DEF Inv
  <2>3. Processing
    BY DEF Inv
  <2>4. ASSUME NEW g \in run'.done
        PROVE  \/ Of({g})' = Chunks(g, run.commit)
               \/ Of({g})' = {} /\ Chunks(g, run.commit) \subseteq run'.batch
    <3>1. CASE g = f
      BY <1>1, <1>2, <1>5, <2>1, <2>2, <2>3, <3>1
    <3>2. CASE g # f
      <4>1. g \in run.done
        BY <1>2, <3>2
      <4>2. \/ Of({g}) = Chunks(g, run.commit)
            \/ Of({g}) = {} /\ Chunks(g, run.commit) \subseteq run.batch
        BY <1>1, <4>1 DEF Inv, Processing
      <4> QED
        BY <1>1, <1>2, <1>5, <2>1, <2>2, <2>3, <3>2, <4>2
    <3> QED
      BY <3>1, <3>2
  <2>5. \A p \in run'.batch : p.path \in run'.done /\ p \in Chunks(p.path, run.commit)
    BY <1>1, <1>2, <1>5, <2>1, <2>2, <2>3 DEF Processing
  <2>6. /\ run'.todo \subseteq Tracked(run.commit) /\ run'.done \subseteq Tracked(run.commit)
        /\ run'.todo \cap run'.done = {}
    BY <1>1, <1>2, <1>5, <2>1, <2>2, <2>3 DEF Processing
  <2>7. run'.full => run'.todo \cup run'.done = Tracked(run.commit)
    BY <1>1, <1>2, <1>5, <2>1, <2>2, <2>3 DEF Processing
  <2>9. ASSUME run'.full, NEW g \in Files \ run'.done
        PROVE  g \in run'.known <=> Of({g})' # {}
    <3>1. g \in Files \ run.done /\ run.full
      BY <1>2, <2>9
    <3>2. g \in run.known <=> Of({g}) # {}
      BY <1>1, <3>1 DEF Inv, Processing
    <3> QED
      BY <1>1, <1>2, <1>5, <2>1, <2>2, <2>3, <2>9, <3>2
  <2>8. ~run'.full => \A g \in Files \ (run'.todo \cup run'.done) : Of({g})' = Wanted(g, run.commit)
    BY <1>1, <1>2, <1>5, <2>1, <2>2, <2>3 DEF Processing
  <2> QED
    BY <2>1, <2>4, <2>5, <2>6, <2>7, <2>8, <2>9 DEF Processing
<1>8. Listing' /\ Finishing'
  BY <1>2 DEF Listing, Finishing
<1> QED
  BY <1>3, <1>4, <1>5, <1>6, <1>7, <1>8 DEF Inv

\* a batch holds the files done since the last one, whole
LEMMA FlushKeeps == Gentle /\ Inv /\ Flush => Inv'
<1> SUFFICES ASSUME Gentle, Inv, Flush PROVE Inv'
  OBVIOUS
<1>1. /\ run' = [run EXCEPT !.batch = run.batch \ run.batch] /\ points' = points \cup run.batch
      /\ UNCHANGED <<log, model, row, job, donor>> /\ run.at = "files" /\ run # NoRun
  BY Started DEF Flush, Gentle
<1>2. /\ run'.at = "files" /\ run'.commit = run.commit /\ run'.base = run.base /\ run'.full = run.full
      /\ run'.todo = run.todo /\ run'.done = run.done /\ run'.batch = {} /\ run'.known = run.known
  BY <1>1 DEF Inv, TypeOK
<1>3. TypeOK' /\ run.commit \in Commits
  BY TypesFiles, RunTypes DEF Inv
<1>4. NoReturn' /\ SeededOnce' /\ Compared' /\ Exact'
  BY <1>1, <1>2, StepKeeps
<1>5. Processing
  BY DEF Inv
<1>6. \A f : Of({f})' = IF f \in run.done THEN Chunks(f, run.commit) ELSE Of({f})
  <2> TAKE f
  <2>1. Of({f})' = Of({f}) \cup {p \in run.batch : p.path = f}
    BY <1>1 DEF Of
  <2>2. CASE f \notin run.done
    <3>1. {p \in run.batch : p.path = f} = {}
      BY <1>1, <1>5, <2>2 DEF Processing
    <3> QED
      BY <2>1, <2>2, <3>1
  <2>3. CASE f \in run.done
    <3>1. \A p \in run.batch : p.path = f => p \in Chunks(f, run.commit)
      BY <1>1, <1>5 DEF Processing
    <3>2. f \in Tracked(run.commit)
      BY <1>1, <1>5, <2>3 DEF Processing
    <3>3. \A p \in Chunks(f, run.commit) : p.path = f
      BY <1>3, <3>2, ChunksOf DEF Inv
    <3>4. \/ Of({f}) = Chunks(f, run.commit)
          \/ Of({f}) = {} /\ Chunks(f, run.commit) \subseteq run.batch
      BY <1>1, <1>5, <2>3 DEF Processing
    <3> QED
      BY <2>1, <2>3, <3>1, <3>3, <3>4
  <2> QED
    BY <2>2, <2>3
<1>7. \A f \in run.done : f \in Files /\ f \in Tracked(run.commit) /\ Chunks(f, run.commit) = Wanted(f, run.commit)
  BY <1>1, <1>5 DEF Processing, Wanted, Tracked
<1>8. Whole'
  <2>1. ASSUME NEW f \in Files
        PROVE  \/ Of({f})' = {}
               \/ \E h \in Contents : Of({f})' = [path : {f}, hash : {h}, part : 1..Parts]
    <3>1. CASE f \in run.done
      <4>1. log[run.commit][f] \in Contents
        BY <1>3, <1>7, <3>1, ChunksOf DEF Inv
      <4> QED
        BY <1>6, <3>1, <4>1 DEF Chunks
    <3>2. CASE f \notin run.done
      BY <1>6, <3>2 DEF Inv, Whole
    <3> QED
      BY <3>1, <3>2
  <2> QED
    BY <2>1 DEF Whole
<1>9. Stays'
  <2> SUFFICES ASSUME row.commit # 0, NEW f \in Files, Unchanged(f)
               PROVE  Of({f})' = Wanted(f, row.commit)
    BY <1>1 DEF Stays, Unchanged, Current, Wanted, Chunks
  <2>1. Wanted(f, row.commit) = Wanted(f, run.commit)
    BY <1>1, SameSince
  <2> QED
    BY <1>6, <1>7, <2>1 DEF Inv, Stays
<1>10. Processing'
  <2>1. /\ Tracked(run.commit)' = Tracked(run.commit)
        /\ \A g : Chunks(g, run.commit)' = Chunks(g, run.commit)
        /\ \A g : Wanted(g, run.commit)' = Wanted(g, run.commit)
    BY <1>1, <1>2 DEF Tracked, Chunks, Wanted
  <2>4. ASSUME NEW g \in run'.done
        PROVE  \/ Of({g})' = Chunks(g, run.commit)
               \/ Of({g})' = {} /\ Chunks(g, run.commit) \subseteq run'.batch
    <3>1. Of({g})' = Chunks(g, run.commit)
      BY <1>2, <1>6, <2>4
    <3> QED
      BY <3>1
  <2>5. \A p \in run'.batch : p.path \in run'.done /\ p \in Chunks(p.path, run.commit)
    BY <1>1, <1>2, <1>5, <1>6 DEF Processing
  <2>6. /\ run'.todo \subseteq Tracked(run.commit) /\ run'.done \subseteq Tracked(run.commit)
        /\ run'.todo \cap run'.done = {}
    BY <1>1, <1>2, <1>5, <1>6 DEF Processing
  <2>7. run'.full => run'.todo \cup run'.done = Tracked(run.commit)
    BY <1>1, <1>2, <1>5, <1>6 DEF Processing
  <2>9. ASSUME run'.full, NEW g \in Files \ run'.done
        PROVE  g \in run'.known <=> Of({g})' # {}
    <3>1. g \in Files \ run.done /\ run.full
      BY <1>2, <2>9
    <3>2. g \in run.known <=> Of({g}) # {}
      BY <1>1, <3>1 DEF Inv, Processing
    <3> QED
      BY <1>1, <1>2, <1>5, <1>6, <2>9, <3>2
  <2>8. ~run'.full => \A g \in Files \ (run'.todo \cup run'.done) : Of({g})' = Wanted(g, run.commit)
    BY <1>1, <1>2, <1>5, <1>6 DEF Processing
  <2> QED
    BY <2>1, <2>4, <2>5, <2>6, <2>7, <2>8, <2>9 DEF Processing
<1>11. Listing' /\ Finishing'
  BY <1>2 DEF Listing, Finishing
<1> QED
  BY <1>3, <1>4, <1>8, <1>9, <1>10, <1>11 DEF Inv

\* what is left of files that are gone goes, and nothing else
LEMMA CleanUpKeeps == Gentle /\ Inv /\ CleanUp => Inv'
<1> SUFFICES ASSUME Gentle, Inv, CleanUp PROVE Inv'
  OBVIOUS
<1> DEFINE lost == IF run.full THEN Orphans ELSE {}
<1>1. /\ run' = [run EXCEPT !.at = "finish"] /\ run.todo = {} /\ run.batch = {}
      /\ points' = points \ Of(lost)
      /\ UNCHANGED <<log, model, row, job, donor>> /\ run.at = "files" /\ run # NoRun
  BY Started DEF CleanUp, Gentle, Of
<1>2. run'.at = "finish" /\ run'.commit = run.commit /\ run'.base = run.base
  BY <1>1 DEF Inv, TypeOK
<1>3. TypeOK' /\ run.commit \in Commits
  BY TypesFiles, RunTypes DEF Inv
<1>4. NoReturn' /\ SeededOnce' /\ Compared' /\ Exact'
  BY <1>1, <1>2, StepKeeps
<1>5. Whole' /\ \A f : Of({f})' = IF f \in lost THEN {} ELSE Of({f})
  BY <1>1, WholeMinus DEF Inv
<1>6. Processing
  BY DEF Inv
<1>7. ASSUME NEW f \in Files PROVE Of({f})' = Wanted(f, run.commit)
  <2>1. CASE f \in run.done
    <3>1. f \in Tracked(run.commit)
      BY <1>1, <1>6, <2>1 DEF Processing
    <3>2. Chunks(f, run.commit) # {}
      BY <1>3, <3>1, ChunksOf DEF Inv
    <3>3. Of({f}) = Chunks(f, run.commit)
      BY <1>1, <1>6, <2>1, <3>2 DEF Processing
    <3>4. f \notin lost
      BY <2>1 DEF Orphans
    <3> QED
      BY <1>5, <3>1, <3>3, <3>4 DEF Wanted, Tracked
  <2>2. CASE f \notin run.done /\ run.full
    <3>1. f \notin Tracked(run.commit) /\ (f \in run.known <=> Of({f}) # {})
      BY <1>1, <1>6, <2>2 DEF Processing
    <3>2. f \in lost \/ Of({f}) = {}
      BY <2>2, <3>1 DEF Orphans, Paths, Of
    <3> QED
      BY <1>5, <3>1, <3>2 DEF Wanted, Tracked
  <2>3. CASE f \notin run.done /\ ~run.full
    BY <1>1, <1>5, <1>6, <2>3 DEF Processing
  <2> QED
    BY <2>1, <2>2, <2>3
<1>8. Stays'
  <2> SUFFICES ASSUME row.commit # 0, NEW f \in Files, Unchanged(f)
               PROVE  Of({f})' = Wanted(f, row.commit)
    BY <1>1 DEF Stays, Unchanged, Current, Wanted, Chunks
  <2> QED
    BY <1>1, <1>7, SameSince
<1>9. Finishing'
  <2>1. \A f : Wanted(f, run.commit)' = Wanted(f, run.commit)
    BY <1>1, <1>2 DEF Wanted, Chunks
  <2> QED
    BY <1>7, <2>1 DEF Finishing
<1>10. Listing' /\ Processing'
  BY <1>2 DEF Listing, Processing
<1> QED
  BY <1>3, <1>4, <1>5, <1>8, <1>9, <1>10 DEF Inv

---------------------------------------------------------------------------
(* The invariant, and what it gives. *)

\* the invariant holds at first
LEMMA InvInit == Init => Inv
<1> SUFFICES ASSUME Init PROVE Inv
  OBVIOUS
<1>1. PICK t \in Trees : log = <<t>>
  BY DEF Init
<1>2. Commits = {1}
  BY <1>1 DEF Commits
<1>3. /\ points = {} /\ donor = 0 /\ ~job /\ run = NoRun /\ run.at = "none"
      /\ row.status = "None" /\ row.commit = 0
  BY DEF Init, NoRun
<1>4. NoReturn
  BY <1>2 DEF NoReturn
<1>5. Whole /\ Stays /\ SeededOnce /\ Compared /\ Listing /\ Processing /\ Finishing /\ Exact
  BY <1>3 DEF Whole, Stays, SeededOnce, Compared, Listing, Processing, Finishing, Exact, Of
<1> QED
  BY <1>4, <1>5, TypesInit DEF Inv

\* and is kept by every step
LEMMA InvNext == Gentle /\ Inv /\ [Next]_vars => Inv'
<1> SUFFICES ASSUME Gentle, Inv, [Next]_vars PROVE Inv'
  OBVIOUS
<1>1. CASE Claim \/ StartJob
  BY <1>1, ClaimKeeps
<1>2. CASE Reindex
  BY <1>2, ReindexKeeps
<1>3. CASE ListAll \/ ListChanged
  BY <1>3, ListAllKeeps, ListChangedKeeps
<1>4. ASSUME NEW f \in Files, Index(f) PROVE Inv'
  BY <1>4, SkipKeeps, EmbedKeeps DEF Index
<1>5. CASE Flush \/ CleanUp \/ Finish
  BY <1>5, FlushKeeps, CleanUpKeeps, FinishKeeps
<1>6. CASE Fail \/ Crash
  BY <1>6, EndKeeps
<1>7. CASE Push
  BY <1>7, PushKeeps
<1>8. CASE Configure \/ IndexSibling \/ UNCHANGED vars
  BY <1>8, WorldKeeps
<1> QED
  BY <1>1, <1>2, <1>3, <1>4, <1>5, <1>6, <1>7, <1>8 DEF Next

\* hence always
LEMMA InvHolds == ASSUME Gentle PROVE Spec => []Inv
<1>1. Init => Inv
  BY InvInit
<1>2. Inv /\ [Next]_vars => Inv'
  BY InvNext
<1> QED
  BY <1>1, <1>2, PTL DEF Spec

(* The rows, jobs and chunks have their types; in particular a row is
   InProgress exactly while it is indexed, and a completed one has a commit. *)
THEOREM ContentsTypes == ASSUME Gentle PROVE Spec => []TypeOK
<1>1. Inv => TypeOK
  BY DEF Inv
<1> QED
  BY <1>1, InvHolds, PTL

(* A completed index holds every chunk of its lastIndexedCommit and no other,
   whatever the indexings before it, their failures and the pushes between. *)
THEOREM ContentsExact == ASSUME Gentle PROVE Spec => []Exact
<1>1. Inv => Exact
  BY DEF Inv
<1> QED
  BY <1>1, InvHolds, PTL

(* The chunks of a file that has not changed since the last indexed commit are
   in the collection at every step of every later indexing. *)
THEOREM ContentsFindable == ASSUME Gentle PROVE Spec => []Findable
<1>1. ASSUME Inv PROVE Findable
  <2> SUFFICES ASSUME row.commit # 0, NEW f \in Files, Unchanged(f)
               PROVE  Wanted(f, row.commit) \subseteq points
    BY DEF Findable
  <2>1. Of({f}) = Wanted(f, row.commit)
    BY <1>1 DEF Inv, Stays
  <2> QED
    BY <2>1 DEF Of
<1> QED
  BY <1>1, InvHolds, PTL

===========================================================================
