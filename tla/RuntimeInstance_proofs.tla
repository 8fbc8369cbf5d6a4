---------------------- MODULE RuntimeInstance_proofs ----------------------
(***************************************************************************)
(* Proofs about RuntimeInstance, for every number of calls, every set of   *)
(* cleanups and faults and every number of restarts.  The inductive        *)
(* invariant Inv follows one instance: a call that has not created its     *)
(* instance has left no trace of it, a driver (or a container in hand)     *)
(* that is no longer the one of the name belongs to an instance that is    *)
(* about to lose its row or that met a name conflict, and a container      *)
(* without a row is one that was spared or met a conflict.                 *)
(***************************************************************************)
EXTENDS RuntimeInstance, TLAPS

Lost(i)  == i \in spared \cup clashed
Conflict == {"clash", "evict", "remake"}

\* A process between its first and its last await has the row it loaded, and one that
\* stops a container has it in hand.
Holds ==
  \A p \in Procs :
    /\ pc[p] \notin {"idle", "done", "create"} => Id(p) \in Callers
    /\ pc[p] \in {"kill", "remove"} => hold[p] # "none"

\* An instance that its call has yet to create is nowhere.
Ahead == {"idle", "mark", "halt", "kill", "lookup", "remove", "stopped", "delete", "create"}
Fresh ==
  \A c \in Callers :
    /\ pc[c] \in {"idle", "create"} => c \notin failing
    /\ pc[c] \in Ahead /\ c \notin failing =>
         /\ container[c] = "none" /\ cache[c] = "none" /\ row.id # c
         /\ \A p \in Procs : Id(p) # c

\* A call that resolves a conflict is counted.
Clashes == \A c \in Callers : pc[c] \in Conflict => Id(c) \in clashed

\* The container d of a driver of i, or one in the hand of a process that starts or stops it.
Grips == {"inspect", "boot", "init", "started", "kill", "remove"}
Handle(i, d) ==
  \/ cache[i] = d
  \/ \E p \in Procs : Id(p) = i /\ hold[p] = d /\ pc[p] \in Grips

\* When it is no longer there, its instance is going to lose its row, has lost it, or met a conflict.
Driven ==
  \A i, d \in Callers :
    Handle(i, d) /\ container[i] # d => Doomed(i) \/ row.id # i \/ i \in clashed

\* When another container has its name, the instance was spared or met a conflict,
Handled ==
  \A i, d \in Callers : Handle(i, d) /\ container[i] \notin {"none", d} => Lost(i)

\* and so it is when a container is still there after its stop,
Halted ==
  \A p \in Procs : pc[p] \in {"stopped", "delete"} =>
    container[Id(p)] = "none" \/ Lost(Id(p))

\* when the instance that a call is going to start has no row,
Begins == {"touch", "start", "find", "make"} \cup Conflict
Taken == \A c \in Callers : pc[c] \in Begins => row.id = Id(c) \/ Lost(Id(c))

\* and when a container has no row.
Followed == \A i \in Callers : container[i] # "none" => row.id = i \/ Lost(i)

Inv == /\ TypeOK /\ Holds /\ Fresh /\ Clashes
       /\ Driven /\ Handled /\ Halted /\ Taken /\ Followed

---------------------------------------------------------------------------
\* What a row is, and that no instance has the name of NoRow.
LEMMA RowShape ==
  ASSUME NEW r \in Rows
  PROVE  /\ r.status \in Statuses
         /\ r.id \in Known
         /\ r.id = "none" <=> r = NoRow
         /\ r.id \in Callers => r \in [id : Callers, status : Statuses, idle : BOOLEAN, temp : BOOLEAN]
         /\ Entity(r) \in Entities /\ Entity(r).id = r.id
BY CallersAssumption DEF Rows, NoRow, Statuses, Entity, Entities, Known

\* A change of status leaves every row and entity with its instance.
LEMMA MoveKeeps ==
  ASSUME TypeOK, NEW p \in Procs, Id(p) \in Callers, NEW s \in Statuses
  PROVE  /\ Moved(p, s) \in Rows /\ Moved(p, s).id = row.id
         /\ [ent EXCEPT ![p].status = s] \in [Procs -> Entities]
         /\ \A q \in Procs : [ent EXCEPT ![p].status = s][q].id = Id(q)
<1>1. row \in Rows /\ ent[p] \in Entities
  BY DEF TypeOK
<1>2. Moved(p, s) \in Rows /\ Moved(p, s).id = row.id
  BY <1>1, RowShape DEF Moved, Rows
<1>3. [ent[p] EXCEPT !.status = s] \in Entities /\ [ent[p] EXCEPT !.status = s].id = Id(p)
  BY <1>1 DEF Entities, Id
<1> QED
  BY <1>2, <1>3 DEF TypeOK, Id

\* A row that is used again, or grows idle.
LEMMA RowKeeps ==
  ASSUME NEW r \in Rows, r.id \in Callers, NEW i \in BOOLEAN, NEW t \in BOOLEAN
  PROVE  /\ [r EXCEPT !.idle = i, !.temp = t] \in Rows /\ [r EXCEPT !.idle = i, !.temp = t].id = r.id
         /\ [r EXCEPT !.idle = i] \in Rows /\ [r EXCEPT !.idle = i].id = r.id
BY RowShape DEF Rows

\* A step to another await.
LEMMA GotoMoves ==
  ASSUME TypeOK, NEW p \in Procs, NEW l \in Labels, Goto(p, l)
  PROVE  /\ pc' \in [Procs -> Labels] /\ pc'[p] = l
         /\ \A q \in Procs \ {p} : pc'[q] = pc[q]
BY DEF TypeOK, Goto

\* A process loads an entity.
LEMMA LoadMoves ==
  ASSUME TypeOK, NEW p \in Procs, NEW r \in Entities, ent' = [ent EXCEPT ![p] = r]
  PROVE  /\ ent' \in [Procs -> Entities] /\ ent'[p] = r /\ Id(p)' = r.id
         /\ \A q \in Procs \ {p} : Id(q)' = Id(q)
BY DEF TypeOK, Id

\* A process takes a container, or none, in hand.
LEMMA HoldMoves ==
  ASSUME TypeOK, NEW p \in Procs, NEW d \in Known, Hold(p, d)
  PROVE  /\ hold' \in [Procs -> Known] /\ hold'[p] = d
         /\ \A q \in Procs \ {p} : hold'[q] = hold[q]
BY DEF TypeOK, Hold

\* A change of status, with its flush.
LEMMA StatusMoves ==
  ASSUME TypeOK, NEW p \in Procs, Id(p) \in Callers, NEW s \in Statuses, Move(p, s)
  PROVE  /\ row' \in Rows /\ row'.id = row.id
         /\ ent' \in [Procs -> Entities] /\ \A q \in Procs : Id(q)' = Id(q)
BY MoveKeeps DEF Move, Id

\* The end of a call or a cleanup.
LEMMA OverMoves ==
  ASSUME TypeOK, NEW p \in Procs, Over(p)
  PROVE  /\ pc' \in [Procs -> Labels] /\ ent' \in [Procs -> Entities] /\ hold' \in [Procs -> Known]
         /\ failing' \subseteq Callers
         /\ pc'[p] = (IF p \in Callers THEN "done" ELSE "idle") /\ Id(p)' = "none"
         /\ hold'[p] = "none" /\ failing' = failing \ {p}
         /\ \A q \in Procs \ {p} : Id(q)' = Id(q) /\ pc'[q] = pc[q] /\ hold'[q] = hold[q]
<1>1. Entity(NoRow) \in Entities /\ Entity(NoRow).id = "none" /\ {"idle", "done"} \subseteq Labels
  BY DEF Entity, Entities, Statuses, Known, NoRow, Labels
<1>2. hold' = [hold EXCEPT ![p] = "none"] /\ failing' = failing \ {p}
  BY DEF Over
<1>3. hold' \in [Procs -> Known] /\ hold'[p] = "none" /\ \A q \in Procs \ {p} : hold'[q] = hold[q]
  BY <1>2 DEF TypeOK, Known
<1>4. failing' \subseteq Callers
  BY <1>2 DEF TypeOK
<1>5. /\ ent' \in [Procs -> Entities] /\ Id(p)' = "none"
      /\ \A q \in Procs \ {p} : Id(q)' = Id(q)
  BY <1>1, LoadMoves DEF Over
<1>6. /\ pc' \in [Procs -> Labels] /\ pc'[p] = (IF p \in Callers THEN "done" ELSE "idle")
      /\ \A q \in Procs \ {p} : pc'[q] = pc[q]
  BY <1>1, GotoMoves DEF Over
<1> QED
  BY <1>2, <1>3, <1>4, <1>5, <1>6

\* Initially there is nothing.
LEMMA InitInv == Init => Inv
<1> SUFFICES ASSUME Init PROVE Inv
  OBVIOUS
<1>1. TypeOK
  BY CrashesAssumption DEF Init, TypeOK, Rows, NoRow, Entity, Entities, Statuses, Known, Labels
<1>2. \A p \in Procs : pc[p] = "idle" /\ Id(p) = "none" /\ hold[p] = "none"
  BY DEF Init, Id, Entity, NoRow
<1>3. \A i \in Callers : container[i] = "none" /\ cache[i] = "none" /\ row.id # i /\ i \in Procs
  BY CallersAssumption DEF Init, NoRow, Procs
<1>4. Holds /\ Fresh /\ Clashes
  BY <1>2, <1>3, CallersAssumption DEF Holds, Fresh, Clashes, Conflict, Init
<1>5. Driven /\ Handled
  BY <1>2, <1>3, CallersAssumption DEF Driven, Handled, Handle, Grips
<1>6. Halted /\ Taken /\ Followed
  BY <1>2, <1>3 DEF Halted, Taken, Begins, Conflict, Followed
<1> QED
  BY <1>1, <1>4, <1>5, <1>6 DEF Inv

---------------------------------------------------------------------------
(* What a step of p changes, as the invariant sees it *)

\* p goes to one of the awaits L with the instance i and d in hand; nobody else moves.
Moves(p, L, i, d) ==
  /\ pc'[p] \in L /\ Id(p)' = i /\ hold'[p] = d
  /\ \A q \in Procs \ {p} : pc'[q] = pc[q] /\ Id(q)' = Id(q) /\ hold'[q] = hold[q]

Things == UNCHANGED <<container, cache, spared, clashed>>
Same   == row'.id = row.id /\ Things

\* provide loads the row: without one it goes on to create, with one to take or to stop it.
LEMMA ProvideEffect ==
  ASSUME TypeOK, Holds, NEW c \in Callers, Provide(c)
  PROVE  /\ TypeOK' /\ At(c, "idle") /\ Same /\ failing' = failing
         /\ \/ row.id = "none" /\ Moves(c, {"create"}, row.id, hold[c])
            \/ row.id \in Callers /\ Moves(c, {"halt", "touch", "mark"}, row.id, hold[c])
<1>1. /\ c \in Procs /\ row \in Rows /\ At(c, "idle") /\ Same /\ failing' = failing
      /\ hold' = hold /\ ent' = [ent EXCEPT ![c] = Entity(row)]
      /\ UNCHANGED <<row, up, crashes>>
  BY DEF TypeOK, Procs, Provide, Same, Things, sandbox, lost
<1>2. /\ ent' \in [Procs -> Entities] /\ Id(c)' = row.id
      /\ \A q \in Procs \ {c} : Id(q)' = Id(q)
  BY <1>1, RowShape, LoadMoves
<1>3. PICK l \in Labels :
        /\ Goto(c, l)
        /\ \/ row = NoRow /\ l = "create"
           \/ row # NoRow /\ l \in {"halt", "touch", "mark"}
  BY DEF Provide, Labels
<1>4. pc' \in [Procs -> Labels] /\ pc'[c] = l /\ \A q \in Procs \ {c} : pc'[q] = pc[q]
  BY <1>1, <1>3, GotoMoves
<1>5. (row = NoRow => row.id = "none") /\ (row # NoRow => row.id \in Callers)
  BY <1>1, RowShape DEF Known
<1>6. TypeOK'
  BY <1>1, <1>2, <1>4 DEF TypeOK, Same, Things
<1> QED
  BY <1>1, <1>2, <1>3, <1>4, <1>5, <1>6 DEF Moves

\* A row is taken.
LEMMA TouchEffect ==
  ASSUME TypeOK, Holds, NEW c \in Callers, Touch(c)
  PROVE  /\ TypeOK' /\ At(c, "touch") /\ Id(c) \in Callers /\ Same /\ failing' = failing
         /\ Moves(c, {"start"}, Id(c), hold[c])
<1>1. /\ c \in Procs /\ row \in Rows /\ At(c, "touch") /\ Id(c) \in Callers /\ failing' = failing
      /\ Things /\ UNCHANGED <<ent, hold, up, crashes>>
  BY DEF TypeOK, Procs, Touch, Holds, At, Things, sandbox, lost
<1>2. row' \in Rows /\ row'.id = row.id
  BY <1>1, RowKeeps DEF Touch
<1>3. pc' \in [Procs -> Labels] /\ Moves(c, {"start"}, Id(c), hold[c])
  BY <1>1, GotoMoves DEF Touch, Moves, Labels, Id
<1> QED
  BY <1>1, <1>2, <1>3 DEF TypeOK, Same, Things

\* A row is inserted for the instance of the call, or the call ends.
LEMMA CreateEffect ==
  ASSUME TypeOK, Holds, NEW c \in Callers, Create(c)
  PROVE  /\ TypeOK' /\ At(c, "create") /\ Things
         /\ \/ row.id = "none" /\ row'.id = c /\ Moves(c, {"start"}, c, hold[c]) /\ failing' = failing
            \/ row' = row /\ Moves(c, {"done"}, "none", "none") /\ failing' = failing \ {c}
<1>1. c \in Procs /\ At(c, "create") /\ Things /\ UNCHANGED <<up, crashes>>
  BY DEF Procs, Create, Things, sandbox, lost
<1>2. CASE row # NoRow /\ Over(c) /\ UNCHANGED row
  BY <1>1, <1>2, OverMoves DEF TypeOK, Things, Moves
<1>3. ASSUME row = NoRow, NEW t \in BOOLEAN,
             LET r == [id |-> c, status |-> "Starting", idle |-> FALSE, temp |-> t]
             IN  row' = r /\ ent' = [ent EXCEPT ![c] = Entity(r)],
             Goto(c, "start"), UNCHANGED <<hold, failing>>
      PROVE  TypeOK' /\ row.id = "none" /\ row'.id = c /\ Moves(c, {"start"}, c, hold[c])
  <2> DEFINE r == [id |-> c, status |-> "Starting", idle |-> FALSE, temp |-> t]
  <2>1. r \in Rows /\ r.id = c /\ row' = r /\ ent' = [ent EXCEPT ![c] = Entity(r)]
    BY <1>3 DEF Rows, Statuses
  <2>2. row.id = "none"
    BY <1>3 DEF NoRow
  <2> HIDE DEF r
  <2>3. ent' \in [Procs -> Entities] /\ Id(c)' = c /\ \A q \in Procs \ {c} : Id(q)' = Id(q)
    BY <1>1, <2>1, RowShape, LoadMoves
  <2>4. pc' \in [Procs -> Labels] /\ pc'[c] = "start" /\ \A q \in Procs \ {c} : pc'[q] = pc[q]
    BY <1>1, <1>3, GotoMoves DEF Labels
  <2>5. TypeOK'
    BY <1>1, <1>3, <2>1, <2>3, <2>4 DEF TypeOK, Things
  <2> QED
    BY <1>1, <1>3, <2>1, <2>2, <2>3, <2>4, <2>5 DEF Moves
<1> QED
  BY <1>1, <1>2, <1>3 DEF Create

\* A cached driver, or a start.
LEMMA StartEffect ==
  ASSUME TypeOK, Holds, NEW c \in Callers, Start(c)
  PROVE  /\ TypeOK' /\ At(c, "start") /\ Id(c) \in Callers /\ Same /\ failing' = failing
         /\ Moves(c, {"running", "find"}, Id(c), hold[c])
<1>1. /\ c \in Procs /\ At(c, "start") /\ Id(c) \in Callers /\ Same /\ failing' = failing
      /\ UNCHANGED <<row, ent, hold, crashes>> /\ up' \subseteq Callers
  BY DEF TypeOK, Procs, Start, Holds, At, Same, Things, sandbox, lost
<1>2. PICK l \in {"running", "find"} : Goto(c, l)
  BY <1>1 DEF Start, At
<1>3. pc' \in [Procs -> Labels] /\ pc'[c] = l /\ \A q \in Procs \ {c} : pc'[q] = pc[q]
  BY <1>1, <1>2, GotoMoves DEF Labels
<1>4. TypeOK'
  BY <1>1, <1>3 DEF TypeOK, Same, Things
<1> QED
  BY <1>1, <1>2, <1>3, <1>4 DEF Moves, Id

\* The call returns, or goes on to its catch.
LEMMA ProvidedEffect ==
  ASSUME TypeOK, Holds, NEW c \in Callers, Provided(c)
  PROVE  /\ TypeOK' /\ At(c, "running") /\ Id(c) \in Callers /\ Same
         /\ \/ Moves(c, {"done"}, "none", "none") /\ failing' = failing \ {c}
            \/ Moves(c, {"failed"}, Id(c), hold[c]) /\ failing' = failing
<1>1. /\ c \in Procs /\ At(c, "running") /\ Id(c) \in Callers /\ Things
      /\ UNCHANGED <<up, crashes>>
  BY DEF Procs, Provided, Holds, At, Things, sandbox, lost
<1>2. Moved(c, "Running") \in Rows /\ Moved(c, "Running").id = row.id
  BY <1>1, MoveKeeps DEF Statuses
<1>3. row' \in Rows /\ Same
  BY <1>1, <1>2 DEF Provided, Same, TypeOK
<1>4. CASE Over(c)
  BY <1>1, <1>3, <1>4, OverMoves DEF Moves, TypeOK, Same, Things
<1>5. CASE Goto(c, "failed") /\ UNCHANGED <<ent, hold, failing>>
  <2>1. pc' \in [Procs -> Labels] /\ Moves(c, {"failed"}, Id(c), hold[c])
    BY <1>1, <1>5, GotoMoves DEF Moves, Labels, Id
  <2> QED
    BY <1>1, <1>3, <1>5, <2>1 DEF TypeOK, Same, Things
<1> QED
  BY <1>4, <1>5 DEF Provided

\* The start has failed: the call is in its catch.
LEMMA StartFailedEffect ==
  ASSUME TypeOK, Holds, NEW c \in Callers, StartFailed(c)
  PROVE  /\ TypeOK' /\ At(c, "failed") /\ Id(c) \in Callers /\ Same
         /\ Moves(c, {"halt"}, Id(c), "none") /\ failing' = failing \cup {c}
<1>1. /\ c \in Procs /\ At(c, "failed") /\ Id(c) \in Callers /\ Things
      /\ failing' = failing \cup {c} /\ failing' \subseteq Callers /\ UNCHANGED <<up, crashes>>
  BY DEF TypeOK, Procs, StartFailed, Holds, At, Things, sandbox, lost
<1>2. /\ row' \in Rows /\ row'.id = row.id
      /\ ent' \in [Procs -> Entities] /\ \A q \in Procs : Id(q)' = Id(q)
  BY <1>1, StatusMoves DEF StartFailed, Statuses, TypeOK, Id
<1>3. /\ hold' \in [Procs -> Known] /\ hold'[c] = "none"
      /\ \A q \in Procs \ {c} : hold'[q] = hold[q]
  BY <1>1, HoldMoves DEF StartFailed, Known
<1>4. pc' \in [Procs -> Labels] /\ pc'[c] = "halt" /\ \A q \in Procs \ {c} : pc'[q] = pc[q]
  BY <1>1, GotoMoves DEF StartFailed, Labels
<1>5. TypeOK'
  BY <1>1, <1>2, <1>3, <1>4 DEF TypeOK, Things
<1> QED
  BY <1>1, <1>2, <1>3, <1>4, <1>5 DEF Moves, Same

\* The container of the name is in hand, or there is none.
LEMMA FindEffect ==
  ASSUME TypeOK, Holds, NEW c \in Callers, Find(c)
  PROVE  /\ TypeOK' /\ At(c, "find") /\ Id(c) \in Callers /\ Same /\ failing' = failing
         /\ \/ container[Id(c)] # "none" /\ Moves(c, {"inspect"}, Id(c), container[Id(c)])
            \/ container[Id(c)] = "none" /\ Moves(c, {"make"}, Id(c), "none")
<1>1. /\ c \in Procs /\ At(c, "find") /\ Id(c) \in Callers /\ Same /\ failing' = failing
      /\ UNCHANGED <<row, ent, up, crashes>> /\ container[Id(c)] \in Known
  BY DEF TypeOK, Procs, Find, Holds, At, Same, Things, sandbox, lost
<1>2. Goto(c, IF container[Id(c)] # "none" THEN "inspect" ELSE "make") /\ Hold(c, container[Id(c)])
  BY DEF Find
<1>3. /\ pc' \in [Procs -> Labels]
      /\ pc'[c] = IF container[Id(c)] # "none" THEN "inspect" ELSE "make"
      /\ \A q \in Procs \ {c} : pc'[q] = pc[q]
  BY <1>1, <1>2, GotoMoves DEF Labels
<1>4. /\ hold' \in [Procs -> Known] /\ hold'[c] = container[Id(c)]
      /\ \A q \in Procs \ {c} : hold'[q] = hold[q]
  BY <1>1, <1>2, HoldMoves
<1>5. TypeOK'
  BY <1>1, <1>3, <1>4 DEF TypeOK, Same, Things
<1> QED
  BY <1>1, <1>3, <1>4, <1>5 DEF Moves, Id

\* The container that was found is adopted, started or gone.
LEMMA InspectEffect ==
  ASSUME TypeOK, Holds, NEW c \in Callers, Inspect(c)
  PROVE  /\ TypeOK' /\ At(c, "inspect") /\ Id(c) \in Callers /\ Same /\ failing' = failing
         /\ Moves(c, {"failed", "started", "boot"}, Id(c), hold[c])
<1>1. /\ c \in Procs /\ At(c, "inspect") /\ Id(c) \in Callers /\ Same /\ failing' = failing
      /\ UNCHANGED <<row, ent, hold, crashes>> /\ up' \subseteq Callers
  BY DEF TypeOK, Procs, Inspect, Holds, At, Same, Things, sandbox, lost
<1>2. PICK l \in {"failed", "started", "boot"} : Goto(c, l)
  BY <1>1 DEF Inspect, At
<1>3. pc' \in [Procs -> Labels] /\ pc'[c] = l /\ \A q \in Procs \ {c} : pc'[q] = pc[q]
  BY <1>1, <1>2, GotoMoves DEF Labels
<1>4. TypeOK'
  BY <1>1, <1>3 DEF TypeOK, Same, Things
<1> QED
  BY <1>1, <1>2, <1>3, <1>4 DEF Moves, Id

\* A container for the instance of c, with c in hand; it is spared beside a delete.
Makes(c) ==
  /\ container[Id(c)] = "none" /\ container' = [container EXCEPT ![Id(c)] = c]
  /\ row' = row /\ cache' = cache /\ clashed' = clashed
  /\ spared \subseteq spared' /\ (Doomed(Id(c)) => Id(c) \in spared')
  /\ Moves(c, {"boot"}, Id(c), c)

LEMMA MakeContainerEffect ==
  ASSUME TypeOK, NEW c \in Callers, Id(c) \in Callers,
         MakeContainer(c), UNCHANGED <<row, cache, ent, failing, clashed, crashes>>
  PROVE  TypeOK' /\ Makes(c)
<1>1. c \in Procs /\ c \in Known
  BY DEF Procs, Known
<1>2. /\ container[Id(c)] = "none" /\ container' = [container EXCEPT ![Id(c)] = c]
      /\ container' \in [Callers -> Known] /\ up' = up
  BY <1>1 DEF MakeContainer, TypeOK
<1>3. /\ spared \subseteq spared' /\ (Doomed(Id(c)) => Id(c) \in spared')
      /\ spared' \subseteq Callers
  BY DEF MakeContainer, TypeOK
<1>4. pc' \in [Procs -> Labels] /\ pc'[c] = "boot" /\ \A q \in Procs \ {c} : pc'[q] = pc[q]
  BY <1>1, GotoMoves DEF MakeContainer, Labels
<1>5. hold' \in [Procs -> Known] /\ hold'[c] = c /\ \A q \in Procs \ {c} : hold'[q] = hold[q]
  BY <1>1, HoldMoves DEF MakeContainer
<1>6. TypeOK'
  BY <1>2, <1>3, <1>4, <1>5 DEF TypeOK
<1> QED
  BY <1>2, <1>3, <1>4, <1>5, <1>6 DEF Makes, Moves, Id

\* A container is created, the name is taken, or the start fails.
LEMMA MakeEffect ==
  ASSUME TypeOK, Holds, NEW c \in Callers, Make(c)
  PROVE  /\ TypeOK' /\ At(c, "make") /\ Id(c) \in Callers /\ failing' = failing
         /\ \/ Makes(c)
            \/ Same /\ Moves(c, {"failed"}, Id(c), hold[c])
            \/ /\ container[Id(c)] # "none" /\ UNCHANGED <<row, container, cache, spared>>
               /\ clashed' = clashed \cup {Id(c)} /\ Moves(c, {"clash"}, Id(c), hold[c])
<1>1. /\ c \in Procs /\ At(c, "make") /\ Id(c) \in Callers
      /\ UNCHANGED <<row, cache, ent, failing, crashes>>
  BY DEF Procs, Make, Holds, At
<1>2. CASE MakeContainer(c) /\ UNCHANGED clashed
  BY <1>1, <1>2, MakeContainerEffect
<1>3. CASE NoImage(c)
  <2>1. Things /\ UNCHANGED <<up, hold>>
    BY <1>1, <1>3 DEF NoImage, Things, sandbox, lost
  <2>2. pc' \in [Procs -> Labels] /\ Moves(c, {"failed"}, Id(c), hold[c])
    BY <1>1, <1>3, <2>1, GotoMoves DEF NoImage, Moves, Labels, Id
  <2> QED
    BY <1>1, <2>1, <2>2 DEF TypeOK, Same, Things
<1>4. CASE /\ container[Id(c)] # "none"
           /\ clashed' = clashed \cup {Id(c)}
           /\ Goto(c, "clash") /\ UNCHANGED <<sandbox, hold, spared>>
  <2>1. UNCHANGED <<container, up, hold, spared>> /\ clashed' \subseteq Callers
    BY <1>1, <1>4 DEF sandbox, TypeOK
  <2>2. pc' \in [Procs -> Labels] /\ Moves(c, {"clash"}, Id(c), hold[c])
    BY <1>1, <1>4, <2>1, GotoMoves DEF Moves, Labels, Id
  <2> QED
    BY <1>1, <1>4, <2>1, <2>2 DEF TypeOK
<1> QED
  BY <1>1, <1>2, <1>3, <1>4 DEF Make

\* The container that has the name is in hand, or there is none.
LEMMA ClashEffect ==
  ASSUME TypeOK, Holds, NEW c \in Callers, Clash(c)
  PROVE  /\ TypeOK' /\ At(c, "clash") /\ Id(c) \in Callers /\ Same /\ failing' = failing
         /\ \/ container[Id(c)] # "none" /\ Moves(c, {"evict"}, Id(c), container[Id(c)])
            \/ container[Id(c)] = "none" /\ Moves(c, {"remake"}, Id(c), "none")
<1>1. /\ c \in Procs /\ At(c, "clash") /\ Id(c) \in Callers /\ Same /\ failing' = failing
      /\ UNCHANGED <<row, ent, up, crashes>> /\ container[Id(c)] \in Known
  BY DEF TypeOK, Procs, Clash, Holds, At, Same, Things, sandbox, lost
<1>2. Goto(c, IF container[Id(c)] # "none" THEN "evict" ELSE "remake") /\ Hold(c, container[Id(c)])
  BY DEF Clash
<1>3. /\ pc' \in [Procs -> Labels]
      /\ pc'[c] = IF container[Id(c)] # "none" THEN "evict" ELSE "remake"
      /\ \A q \in Procs \ {c} : pc'[q] = pc[q]
  BY <1>1, <1>2, GotoMoves DEF Labels
<1>4. /\ hold' \in [Procs -> Known] /\ hold'[c] = container[Id(c)]
      /\ \A q \in Procs \ {c} : hold'[q] = hold[q]
  BY <1>1, <1>2, HoldMoves
<1>5. TypeOK'
  BY <1>1, <1>3, <1>4 DEF TypeOK, Same, Things
<1> QED
  BY <1>1, <1>3, <1>4, <1>5 DEF Moves, Id

\* The container in the hand of p is gone, or the backend refused to stop it.
Stops(p) ==
  /\ UNCHANGED <<cache, clashed>>
  /\ \/ InHand(p) /\ container' = [container EXCEPT ![Id(p)] = "none"] /\ spared' = spared
     \/ /\ container' = container /\ spared \subseteq spared'
        /\ InHand(p) => Id(p) \in spared'

LEMMA StopsEffect ==
  ASSUME TypeOK, NEW p \in Procs, Id(p) \in Callers, StopInHand(p), UNCHANGED <<cache, clashed>>
  PROVE  /\ Stops(p)
         /\ container' \in [Callers -> Known] /\ up' \subseteq Callers /\ spared' \subseteq Callers
BY DEF TypeOK, StopInHand, Stops, sandbox, Known

\* The container of the other call is stopped, or the stop is refused.
LEMMA EvictEffect ==
  ASSUME TypeOK, Holds, NEW c \in Callers, Evict(c)
  PROVE  /\ TypeOK' /\ At(c, "evict") /\ Id(c) \in Callers /\ row' = row /\ failing' = failing
         /\ Stops(c) /\ Moves(c, {"remake"}, Id(c), "none")
<1>1. /\ c \in Procs /\ At(c, "evict") /\ Id(c) \in Callers
      /\ UNCHANGED <<row, cache, ent, failing, clashed, crashes>> /\ StopInHand(c)
  BY DEF Procs, Evict, Holds, At
<1>2. /\ Stops(c)
      /\ container' \in [Callers -> Known] /\ up' \subseteq Callers /\ spared' \subseteq Callers
  BY <1>1, StopsEffect
<1>3. pc' \in [Procs -> Labels] /\ pc'[c] = "remake" /\ \A q \in Procs \ {c} : pc'[q] = pc[q]
  BY <1>1, GotoMoves DEF Evict, Labels
<1>4. /\ hold' \in [Procs -> Known] /\ hold'[c] = "none"
      /\ \A q \in Procs \ {c} : hold'[q] = hold[q]
  BY <1>1, HoldMoves DEF Evict, Known, TypeOK
<1>5. TypeOK'
  BY <1>1, <1>2, <1>3, <1>4 DEF TypeOK
<1> QED
  BY <1>1, <1>2, <1>3, <1>4, <1>5 DEF Moves, Id

\* The container is created, or the start fails.
LEMMA RemakeEffect ==
  ASSUME TypeOK, Holds, NEW c \in Callers, Remake(c)
  PROVE  /\ TypeOK' /\ At(c, "remake") /\ Id(c) \in Callers /\ failing' = failing
         /\ \/ Makes(c)
            \/ Same /\ Moves(c, {"failed"}, Id(c), hold[c])
<1>1. /\ c \in Procs /\ At(c, "remake") /\ Id(c) \in Callers
      /\ UNCHANGED <<row, cache, ent, failing, crashes>>
  BY DEF Procs, Remake, Holds, At
<1>2. CASE MakeContainer(c) /\ UNCHANGED clashed
  BY <1>1, <1>2, MakeContainerEffect
<1>3. CASE Goto(c, "failed") /\ UNCHANGED <<sandbox, hold, lost>>
  <2>1. Things /\ UNCHANGED <<up, hold>>
    BY <1>1, <1>3 DEF Things, sandbox, lost
  <2>2. pc' \in [Procs -> Labels] /\ Moves(c, {"failed"}, Id(c), hold[c])
    BY <1>1, <1>3, <2>1, GotoMoves DEF Moves, Labels, Id
  <2> QED
    BY <1>1, <2>1, <2>2 DEF TypeOK, Same, Things
<1> QED
  BY <1>1, <1>2, <1>3 DEF Remake, NoImage

\* The container is started, or the start fails.
LEMMA BootEffect ==
  ASSUME TypeOK, Holds, NEW c \in Callers, Boot(c)
  PROVE  /\ TypeOK' /\ At(c, "boot") /\ Id(c) \in Callers /\ Same /\ failing' = failing
         /\ Moves(c, {"init", "started", "failed"}, Id(c), hold[c])
<1>1. /\ c \in Procs /\ At(c, "boot") /\ Id(c) \in Callers /\ Same /\ failing' = failing
      /\ UNCHANGED <<row, ent, hold, crashes>> /\ up' \subseteq Callers
  BY DEF TypeOK, Procs, Boot, Holds, At, Same, Things, sandbox, lost
<1>2. PICK l \in {"init", "started", "failed"} : Goto(c, l)
  BY <1>1 DEF Boot, At
<1>3. pc' \in [Procs -> Labels] /\ pc'[c] = l /\ \A q \in Procs \ {c} : pc'[q] = pc[q]
  BY <1>1, <1>2, GotoMoves DEF Labels
<1>4. TypeOK'
  BY <1>1, <1>3 DEF TypeOK, Same, Things
<1> QED
  BY <1>1, <1>2, <1>3, <1>4 DEF Moves, Id

\* The init script ends, or the start fails.
LEMMA InitScriptEffect ==
  ASSUME TypeOK, Holds, NEW c \in Callers, InitScript(c)
  PROVE  /\ TypeOK' /\ At(c, "init") /\ Id(c) \in Callers /\ Same /\ failing' = failing
         /\ Moves(c, {"started", "failed"}, Id(c), hold[c])
<1>1. /\ c \in Procs /\ At(c, "init") /\ Id(c) \in Callers /\ Same /\ failing' = failing
      /\ UNCHANGED <<row, ent, hold, crashes>> /\ up' \subseteq Callers
  BY DEF TypeOK, Procs, InitScript, Holds, At, Same, Things, sandbox, lost
<1>2. PICK l \in {"started", "failed"} : Goto(c, l)
  BY <1>1 DEF InitScript, At
<1>3. pc' \in [Procs -> Labels] /\ pc'[c] = l /\ \A q \in Procs \ {c} : pc'[q] = pc[q]
  BY <1>1, <1>2, GotoMoves DEF Labels
<1>4. TypeOK'
  BY <1>1, <1>3 DEF TypeOK, Same, Things
<1> QED
  BY <1>1, <1>2, <1>3, <1>4 DEF Moves, Id

\* The driver is cached.
LEMMA StartedEffect ==
  ASSUME TypeOK, Holds, NEW c \in Callers, Started(c)
  PROVE  /\ TypeOK' /\ At(c, "started") /\ Id(c) \in Callers /\ failing' = failing
         /\ UNCHANGED <<row, container, spared, clashed>>
         /\ cache' = [cache EXCEPT ![Id(c)] = hold[c]]
         /\ Moves(c, {"running"}, Id(c), "none")
<1>1. /\ c \in Procs /\ At(c, "started") /\ Id(c) \in Callers
      /\ UNCHANGED <<row, container, up, ent, failing, spared, clashed, crashes>>
      /\ cache' = [cache EXCEPT ![Id(c)] = hold[c]]
  BY DEF Procs, Started, Holds, At, sandbox, lost
<1>2. cache' \in [Callers -> Known]
  BY <1>1 DEF TypeOK
<1>3. pc' \in [Procs -> Labels] /\ pc'[c] = "running" /\ \A q \in Procs \ {c} : pc'[q] = pc[q]
  BY <1>1, GotoMoves DEF Started, Labels
<1>4. hold' \in [Procs -> Known] /\ hold'[c] = "none" /\ \A q \in Procs \ {c} : hold'[q] = hold[q]
  BY <1>1, HoldMoves DEF Started, Known
<1>5. TypeOK'
  BY <1>1, <1>2, <1>3, <1>4 DEF TypeOK
<1> QED
  BY <1>1, <1>3, <1>4, <1>5 DEF Moves, Id

\* stopRuntime goes on to the stop, past it to the delete, or gives up.
LEMMA MarkEffect ==
  ASSUME TypeOK, Holds, NEW p \in Procs, Mark(p)
  PROVE  /\ TypeOK' /\ At(p, "mark") /\ Id(p) \in Callers
         /\ row'.id = row.id /\ UNCHANGED <<container, cache, clashed>>
         /\ \/ Moves(p, {"halt"}, Id(p), hold[p]) /\ spared' = spared /\ failing' = failing
            \/ Moves(p, {"delete"}, Id(p), hold[p]) /\ spared' = spared \cup {Id(p)} /\ failing' = failing
            \/ /\ Moves(p, {"idle", "done"}, "none", "none") /\ spared' = spared
               /\ failing' = failing \ {p} /\ (p \in Callers => pc'[p] = "done")
<1>1. At(p, "mark") /\ Id(p) \in Callers /\ UNCHANGED <<container, up, cache, clashed, crashes>>
  BY DEF Mark, Holds, At, sandbox
<1>2. ASSUME NEW l \in Labels, Goto(p, l), \A q \in Procs : Id(q)' = Id(q), UNCHANGED hold
      PROVE  pc' \in [Procs -> Labels] /\ Moves(p, {l}, Id(p), hold[p])
  BY <1>1, <1>2, GotoMoves DEF Moves
<1>3. CASE Move(p, "Stopping") /\ Goto(p, "halt") /\ UNCHANGED <<hold, failing, spared>>
  <2>1. /\ row' \in Rows /\ row'.id = row.id
        /\ ent' \in [Procs -> Entities] /\ \A q \in Procs : Id(q)' = Id(q)
    BY <1>1, <1>3, StatusMoves DEF Statuses
  <2> QED
    BY <1>1, <1>2, <1>3, <2>1 DEF TypeOK, Labels
<1>4. CASE Goto(p, "halt") /\ UNCHANGED <<row, ent, hold, failing, spared>>
  BY <1>1, <1>2, <1>4 DEF TypeOK, Labels, Id
<1>5. CASE /\ Goto(p, "delete") /\ spared' = spared \cup {Id(p)}
           /\ UNCHANGED <<row, ent, hold, failing>>
  <2>1. Moves(p, {"delete"}, Id(p), hold[p]) /\ pc' \in [Procs -> Labels]
    BY <1>1, <1>2, <1>5 DEF Labels, Id
  <2>2. spared' \subseteq Callers
    BY <1>1, <1>5 DEF TypeOK
  <2> QED
    BY <1>1, <1>5, <2>1, <2>2 DEF TypeOK
<1>6. CASE Over(p) /\ UNCHANGED <<row, spared>>
  <2>1. /\ pc' \in [Procs -> Labels] /\ ent' \in [Procs -> Entities] /\ hold' \in [Procs -> Known]
        /\ failing' \subseteq Callers /\ failing' = failing \ {p}
        /\ Moves(p, {"idle", "done"}, "none", "none") /\ (p \in Callers => pc'[p] = "done")
    BY <1>1, <1>6, OverMoves DEF Moves
  <2> QED
    BY <1>1, <1>6, <2>1 DEF TypeOK
<1> QED
  BY <1>1, <1>3, <1>4, <1>5, <1>6 DEF Mark

\* The container of the cached driver is in hand, or there is no driver.
LEMMA HaltEffect ==
  ASSUME TypeOK, Holds, NEW p \in Procs, Halt(p)
  PROVE  /\ TypeOK' /\ At(p, "halt") /\ Id(p) \in Callers /\ Same /\ failing' = failing
         /\ \/ cache[Id(p)] # "none" /\ Moves(p, {"kill"}, Id(p), cache[Id(p)])
            \/ cache[Id(p)] = "none" /\ Moves(p, {"lookup"}, Id(p), "none")
<1>1. /\ p \in Procs /\ At(p, "halt") /\ Id(p) \in Callers /\ Same /\ failing' = failing
      /\ UNCHANGED <<row, ent, up, crashes>> /\ cache[Id(p)] \in Known
  BY DEF TypeOK, Procs, Halt, Holds, At, Same, Things, sandbox, lost
<1>2. Goto(p, IF cache[Id(p)] # "none" THEN "kill" ELSE "lookup") /\ Hold(p, cache[Id(p)])
  BY DEF Halt
<1>3. /\ pc' \in [Procs -> Labels]
      /\ pc'[p] = IF cache[Id(p)] # "none" THEN "kill" ELSE "lookup"
      /\ \A q \in Procs \ {p} : pc'[q] = pc[q]
  BY <1>1, <1>2, GotoMoves DEF Labels
<1>4. /\ hold' \in [Procs -> Known] /\ hold'[p] = cache[Id(p)]
      /\ \A q \in Procs \ {p} : hold'[q] = hold[q]
  BY <1>1, <1>2, HoldMoves
<1>5. TypeOK'
  BY <1>1, <1>3, <1>4 DEF TypeOK, Same, Things
<1> QED
  BY <1>1, <1>3, <1>4, <1>5 DEF Moves, Id

\* The container of the driver is stopped, or the stop is refused.
LEMMA KillEffect ==
  ASSUME TypeOK, Holds, NEW p \in Procs, Kill(p)
  PROVE  /\ TypeOK' /\ At(p, "kill") /\ Id(p) \in Callers /\ row' = row /\ failing' = failing
         /\ Stops(p) /\ Moves(p, {"stopped"}, Id(p), hold[p])
<1>1. /\ p \in Procs /\ At(p, "kill") /\ Id(p) \in Callers
      /\ UNCHANGED <<row, cache, ent, failing, clashed, crashes>> /\ StopInHand(p)
  BY DEF Procs, Kill, Holds, At
<1>2. /\ Stops(p)
      /\ container' \in [Callers -> Known] /\ up' \subseteq Callers /\ spared' \subseteq Callers
  BY <1>1, StopsEffect
<1>3. pc' \in [Procs -> Labels] /\ pc'[p] = "stopped" /\ \A q \in Procs \ {p} : pc'[q] = pc[q]
  BY <1>1, GotoMoves DEF Kill, Labels
<1>4. /\ hold' \in [Procs -> Known] /\ hold'[p] = hold[p]
      /\ \A q \in Procs \ {p} : hold'[q] = hold[q]
  BY <1>1, HoldMoves DEF Kill, Known, TypeOK
<1>5. TypeOK'
  BY <1>1, <1>2, <1>3, <1>4 DEF TypeOK
<1> QED
  BY <1>1, <1>2, <1>3, <1>4, <1>5 DEF Moves, Id

\* The container of the name is in hand, or there is none.
LEMMA LookupEffect ==
  ASSUME TypeOK, Holds, NEW p \in Procs, Lookup(p)
  PROVE  /\ TypeOK' /\ At(p, "lookup") /\ Id(p) \in Callers /\ Same /\ failing' = failing
         /\ \/ container[Id(p)] # "none" /\ Moves(p, {"remove"}, Id(p), container[Id(p)])
            \/ container[Id(p)] = "none" /\ Moves(p, {"stopped"}, Id(p), "none")
<1>1. /\ p \in Procs /\ At(p, "lookup") /\ Id(p) \in Callers /\ Same /\ failing' = failing
      /\ UNCHANGED <<row, ent, up, crashes>> /\ container[Id(p)] \in Known
  BY DEF TypeOK, Procs, Lookup, Holds, At, Same, Things, sandbox, lost
<1>2. Goto(p, IF container[Id(p)] # "none" THEN "remove" ELSE "stopped") /\ Hold(p, container[Id(p)])
  BY DEF Lookup
<1>3. /\ pc' \in [Procs -> Labels]
      /\ pc'[p] = IF container[Id(p)] # "none" THEN "remove" ELSE "stopped"
      /\ \A q \in Procs \ {p} : pc'[q] = pc[q]
  BY <1>1, <1>2, GotoMoves DEF Labels
<1>4. /\ hold' \in [Procs -> Known] /\ hold'[p] = container[Id(p)]
      /\ \A q \in Procs \ {p} : hold'[q] = hold[q]
  BY <1>1, <1>2, HoldMoves
<1>5. TypeOK'
  BY <1>1, <1>3, <1>4 DEF TypeOK, Same, Things
<1> QED
  BY <1>1, <1>3, <1>4, <1>5 DEF Moves, Id

\* It is stopped, or the stop is refused.
LEMMA RemoveEffect ==
  ASSUME TypeOK, Holds, NEW p \in Procs, Remove(p)
  PROVE  /\ TypeOK' /\ At(p, "remove") /\ Id(p) \in Callers /\ row' = row /\ failing' = failing
         /\ Stops(p) /\ Moves(p, {"stopped"}, Id(p), "none")
<1>1. /\ p \in Procs /\ At(p, "remove") /\ Id(p) \in Callers
      /\ UNCHANGED <<row, cache, ent, failing, clashed, crashes>> /\ StopInHand(p)
  BY DEF Procs, Remove, Holds, At
<1>2. /\ Stops(p)
      /\ container' \in [Callers -> Known] /\ up' \subseteq Callers /\ spared' \subseteq Callers
  BY <1>1, StopsEffect
<1>3. pc' \in [Procs -> Labels] /\ pc'[p] = "stopped" /\ \A q \in Procs \ {p} : pc'[q] = pc[q]
  BY <1>1, GotoMoves DEF Remove, Labels
<1>4. /\ hold' \in [Procs -> Known] /\ hold'[p] = "none"
      /\ \A q \in Procs \ {p} : hold'[q] = hold[q]
  BY <1>1, HoldMoves DEF Remove, Known, TypeOK
<1>5. TypeOK'
  BY <1>1, <1>2, <1>3, <1>4 DEF TypeOK
<1> QED
  BY <1>1, <1>2, <1>3, <1>4, <1>5 DEF Moves, Id

\* The driver is dropped.
LEMMA StoppedEffect ==
  ASSUME TypeOK, Holds, NEW p \in Procs, Stopped(p)
  PROVE  /\ TypeOK' /\ At(p, "stopped") /\ Id(p) \in Callers /\ failing' = failing
         /\ row'.id = row.id /\ UNCHANGED <<container, spared, clashed>>
         /\ cache' \in {cache, [cache EXCEPT ![Id(p)] = "none"]}
         /\ Moves(p, {"delete"}, Id(p), "none")
<1>1. /\ At(p, "stopped") /\ Id(p) \in Callers
      /\ UNCHANGED <<container, up, failing, spared, clashed, crashes>>
      /\ cache' \in {cache, [cache EXCEPT ![Id(p)] = "none"]}
  BY DEF Stopped, Holds, At, sandbox, lost
<1>2. cache' \in [Callers -> Known]
  BY <1>1 DEF TypeOK, Known
<1>3. /\ row' \in Rows /\ row'.id = row.id
      /\ ent' \in [Procs -> Entities] /\ \A q \in Procs : Id(q)' = Id(q)
  BY <1>1, StatusMoves DEF Stopped, Statuses, TypeOK, Id
<1>4. pc' \in [Procs -> Labels] /\ pc'[p] = "delete" /\ \A q \in Procs \ {p} : pc'[q] = pc[q]
  BY <1>1, GotoMoves DEF Stopped, Labels
<1>5. hold' \in [Procs -> Known] /\ hold'[p] = "none" /\ \A q \in Procs \ {p} : hold'[q] = hold[q]
  BY <1>1, HoldMoves DEF Stopped, Known
<1>6. TypeOK'
  BY <1>1, <1>2, <1>3, <1>4, <1>5 DEF TypeOK
<1> QED
  BY <1>1, <1>3, <1>4, <1>5, <1>6 DEF Moves

\* The row goes; a call goes on to create another or rethrows, a cleanup ends.
LEMMA DeleteEffect ==
  ASSUME TypeOK, Holds, NEW p \in Procs, Delete(p)
  PROVE  /\ TypeOK' /\ At(p, "delete") /\ Id(p) \in Callers
         /\ UNCHANGED <<container, cache, clashed>>
         /\ row'.id = (IF row.id = Id(p) THEN "none" ELSE row.id)
         /\ spared' = IF Shared(p) THEN spared \cup {Id(p)} ELSE spared
         /\ \/ /\ Moves(p, {"create"}, Id(p), hold[p])
               /\ p \in Callers \ failing /\ failing' = failing
            \/ /\ Moves(p, {"idle", "done"}, "none", "none")
               /\ failing' = failing \ {p} /\ (p \in Callers => pc'[p] = "done")
<1>1. /\ At(p, "delete") /\ Id(p) \in Callers
      /\ UNCHANGED <<container, up, cache, clashed, crashes>>
      /\ row' = (IF row.id = Id(p) THEN NoRow ELSE row)
      /\ spared' = IF Shared(p) THEN spared \cup {Id(p)} ELSE spared
  BY DEF Delete, Holds, At, sandbox
<1>2. /\ row' \in Rows /\ spared' \subseteq Callers
      /\ row'.id = (IF row.id = Id(p) THEN "none" ELSE row.id)
  BY <1>1 DEF TypeOK, Rows, NoRow
<1>3. CASE p \in Callers \ failing
  <2>1. Goto(p, "create") /\ UNCHANGED <<ent, hold, failing>>
    BY <1>3 DEF Delete
  <2>2. pc' \in [Procs -> Labels] /\ Moves(p, {"create"}, Id(p), hold[p])
    BY <2>1, GotoMoves DEF Moves, Labels, Id
  <2>3. TypeOK'
    BY <1>1, <1>2, <2>1, <2>2 DEF TypeOK
  <2> QED
    BY <1>1, <1>2, <1>3, <2>1, <2>2, <2>3
<1>4. CASE p \notin Callers \ failing
  <2>1. /\ pc' \in [Procs -> Labels] /\ ent' \in [Procs -> Entities] /\ hold' \in [Procs -> Known]
        /\ failing' \subseteq Callers /\ failing' = failing \ {p}
        /\ Moves(p, {"idle", "done"}, "none", "none") /\ (p \in Callers => pc'[p] = "done")
    BY <1>4, OverMoves DEF Delete, Moves
  <2>2. TypeOK'
    BY <1>1, <1>2, <2>1 DEF TypeOK
  <2> QED
    BY <1>1, <1>2, <2>1, <2>2
<1> QED
  BY <1>3, <1>4

\* A cleanup takes the row.
LEMMA SelectEffect ==
  ASSUME TypeOK, Holds, NEW k \in Cleanups, Select(k)
  PROVE  /\ TypeOK' /\ At(k, "idle") /\ Same /\ failing' = failing
         /\ Moves(k, {"mark"}, row.id, hold[k]) /\ row.id \in Callers /\ k \in Procs \ Callers
<1>1. /\ k \in Procs \ Callers /\ row \in Rows /\ At(k, "idle") /\ Same /\ failing' = failing
      /\ UNCHANGED <<row, up, hold, crashes>> /\ ent' = [ent EXCEPT ![k] = Entity(row)]
  BY FaultsAssumption, CallersAssumption
  DEF TypeOK, Procs, Select, Same, Things, sandbox, lost
<1>2. row.id \in Callers
  BY <1>1, RowShape DEF Select, Selects, Known
<1>3. ent' \in [Procs -> Entities] /\ Id(k)' = row.id /\ \A q \in Procs \ {k} : Id(q)' = Id(q)
  BY <1>1, RowShape, LoadMoves
<1>4. pc' \in [Procs -> Labels] /\ pc'[k] = "mark" /\ \A q \in Procs \ {k} : pc'[q] = pc[q]
  BY <1>1, GotoMoves DEF Select, Labels
<1>5. TypeOK'
  BY <1>1, <1>3, <1>4 DEF TypeOK, Same, Things
<1> QED
  BY <1>1, <1>2, <1>3, <1>4, <1>5 DEF Moves

---------------------------------------------------------------------------
(* Every step keeps the invariant *)

\* The call that loads a row has no instance yet.
LEMMA ProvideInv ==
  ASSUME Inv, NEW c \in Callers, Provide(c)
  PROVE  Inv'
<1> USE ProvideEffect DEF Inv, At, Id
<1>1. Holds'
  BY CallersAssumption DEF Holds, Moves, Procs, Same, Things
<1>2. Fresh'
  BY CallersAssumption DEF Fresh, Holds, Ahead, Moves, Procs, Same, Things
<1>3. Clashes'
  BY CallersAssumption DEF Clashes, Holds, Conflict, Moves, Procs, Same, Things
<1>4. Driven'
  BY CallersAssumption DEF Driven, Handle, Grips, Doomed, Fresh, Holds, TypeOK, Clashes, Conflict, Known, Moves, Procs, Same, Things
<1>5. Handled'
  BY CallersAssumption DEF Handled, Handle, Grips, Driven, Doomed, Taken, Begins, Conflict, Followed, Lost, Holds, Fresh, TypeOK, Known, Moves, Procs, Same, Things
<1>6. Halted'
  BY CallersAssumption DEF Halted, Handled, Handle, Grips, Lost, Holds, TypeOK, Doomed, Known, Moves, Procs, Same, Things
<1>7. Taken'
  BY CallersAssumption DEF Taken, Begins, Conflict, Lost, Holds, Moves, Procs, Same, Things
<1>8. Followed'
  BY CallersAssumption DEF Followed, Halted, Taken, Begins, Conflict, Lost, TypeOK, Holds, Fresh, Ahead, Moves, Procs, Same, Things
<1> QED
  BY <1>1, <1>2, <1>3, <1>4, <1>5, <1>6, <1>7, <1>8

\* What is taken has its row, or was spared when the row went.
LEMMA TouchInv ==
  ASSUME Inv, NEW c \in Callers, Touch(c)
  PROVE  Inv'
<1> USE TouchEffect DEF Inv, At, Id
<1>1. Holds'
  BY CallersAssumption DEF Holds, Moves, Procs, Same, Things
<1>2. Fresh'
  BY CallersAssumption DEF Fresh, Holds, Ahead, Moves, Procs, Same, Things
<1>3. Clashes'
  BY CallersAssumption DEF Clashes, Holds, Conflict, Moves, Procs, Same, Things
<1>4. Driven'
  BY CallersAssumption DEF Driven, Handle, Grips, Doomed, Fresh, Holds, TypeOK, Clashes, Conflict, Known, Moves, Procs, Same, Things
<1>5. Handled'
  BY CallersAssumption DEF Handled, Handle, Grips, Driven, Doomed, Taken, Begins, Conflict, Followed, Lost, Holds, Fresh, TypeOK, Known, Moves, Procs, Same, Things
<1>6. Halted'
  BY CallersAssumption DEF Halted, Handled, Handle, Grips, Lost, Holds, TypeOK, Doomed, Known, Moves, Procs, Same, Things
<1>7. Taken'
  BY CallersAssumption DEF Taken, Begins, Conflict, Lost, Holds, Moves, Procs, Same, Things
<1>8. Followed'
  BY CallersAssumption DEF Followed, Halted, Taken, Begins, Conflict, Lost, TypeOK, Holds, Fresh, Ahead, Moves, Procs, Same, Things
<1> QED
  BY <1>1, <1>2, <1>3, <1>4, <1>5, <1>6, <1>7, <1>8

\* The new row has a fresh instance: no driver, no container, nobody who deletes it.
LEMMA CreateInv ==
  ASSUME Inv, NEW c \in Callers, Create(c)
  PROVE  Inv'
<1> USE CreateEffect DEF Inv, At, Id
<1>1. Holds'
  BY CallersAssumption DEF Holds, Moves, Procs, Things
<1>2. Fresh'
  BY CallersAssumption DEF Fresh, Holds, Ahead, Moves, Procs, Things
<1>3. Clashes'
  BY CallersAssumption DEF Clashes, Holds, Conflict, Moves, Procs, Things
<1>4. Driven'
  <2>1. SUFFICES ASSUME NEW i \in Callers, NEW d \in Callers, Handle(i, d)', container'[i] # d
                 PROVE  Doomed(i)' \/ row'.id # i \/ i \in clashed'
    BY DEF Driven
  <2>2. Doomed(i) => Doomed(i)'
    BY DEF Doomed, Moves
  <2>3. Handle(i, d)
    BY <2>1, CallersAssumption DEF Handle, Grips, Moves, Procs, Things
  <2>4. row'.id # c => row'.id = row.id \/ row'.id = "none"
    BY DEF Moves
  <2>5. ~Handle(c, d) \/ row'.id = row.id
    BY CallersAssumption DEF Fresh, Ahead, Handle, Procs
  <2> QED
    BY <2>1, <2>2, <2>3, <2>4, <2>5, CallersAssumption DEF Driven, Things
<1>5. Handled'
  BY CallersAssumption DEF Handled, Handle, Grips, Driven, Doomed, Taken, Begins, Conflict, Followed, Lost, Holds, Fresh, TypeOK, Known, Moves, Procs, Things
<1>6. Halted'
  BY CallersAssumption DEF Halted, Handled, Handle, Grips, Lost, Holds, TypeOK, Doomed, Known, Moves, Procs, Things
<1>7. Taken'
  BY CallersAssumption DEF Taken, Begins, Conflict, Lost, Holds, Moves, Procs, Things
<1>8. Followed'
  BY CallersAssumption DEF Followed, Halted, Taken, Begins, Conflict, Lost, TypeOK, Holds, Fresh, Ahead, Moves, Procs, Things
<1> QED
  BY <1>1, <1>2, <1>3, <1>4, <1>5, <1>6, <1>7, <1>8

\* Nothing is gained or lost.
LEMMA StartInv ==
  ASSUME Inv, NEW c \in Callers, Start(c)
  PROVE  Inv'
<1> USE StartEffect DEF Inv, At, Id
<1>1. Holds'
  BY CallersAssumption DEF Holds, Moves, Procs, Same, Things
<1>2. Fresh'
  BY CallersAssumption DEF Fresh, Holds, Ahead, Moves, Procs, Same, Things
<1>3. Clashes'
  BY CallersAssumption DEF Clashes, Holds, Conflict, Moves, Procs, Same, Things
<1>4. Driven'
  <2>1. SUFFICES ASSUME NEW i \in Callers, NEW d \in Callers, Handle(i, d)', container'[i] # d
                 PROVE  Doomed(i)' \/ row'.id # i \/ i \in clashed'
    BY DEF Driven
  <2>2. Doomed(i) => Doomed(i)'
    BY DEF Doomed, Moves
  <2>3. Handle(i, d)
    BY <2>1, CallersAssumption DEF Handle, Grips, Moves, Procs, Same, Things
  <2> QED
    BY <2>1, <2>2, <2>3 DEF Driven, Same, Things
<1>5. Handled'
  BY CallersAssumption DEF Handled, Handle, Grips, Driven, Doomed, Taken, Begins, Conflict, Followed, Lost, Holds, Fresh, TypeOK, Known, Moves, Procs, Same, Things
<1>6. Halted'
  BY CallersAssumption DEF Halted, Handled, Handle, Grips, Lost, Holds, TypeOK, Doomed, Known, Moves, Procs, Same, Things
<1>7. Taken'
  BY CallersAssumption DEF Taken, Begins, Conflict, Lost, Holds, Moves, Procs, Same, Things
<1>8. Followed'
  BY CallersAssumption DEF Followed, Halted, Taken, Begins, Conflict, Lost, TypeOK, Holds, Fresh, Ahead, Moves, Procs, Same, Things
<1> QED
  BY <1>1, <1>2, <1>3, <1>4, <1>5, <1>6, <1>7, <1>8

\* Nothing is gained or lost.
LEMMA ProvidedInv ==
  ASSUME Inv, NEW c \in Callers, Provided(c)
  PROVE  Inv'
<1> USE ProvidedEffect DEF Inv, At, Id
<1>1. Holds'
  BY CallersAssumption DEF Holds, Moves, Procs, Same, Things
<1>2. Fresh'
  BY CallersAssumption DEF Fresh, Holds, Ahead, Moves, Procs, Same, Things
<1>3. Clashes'
  BY CallersAssumption DEF Clashes, Holds, Conflict, Moves, Procs, Same, Things
<1>4. Driven'
  <2>1. SUFFICES ASSUME NEW i \in Callers, NEW d \in Callers, Handle(i, d)', container'[i] # d
                 PROVE  Doomed(i)' \/ row'.id # i \/ i \in clashed'
    BY DEF Driven
  <2>2. Doomed(i) => Doomed(i)'
    BY DEF Doomed, Moves
  <2>3. Handle(i, d)
    BY <2>1, CallersAssumption DEF Handle, Grips, Moves, Procs, Same, Things
  <2> QED
    BY <2>1, <2>2, <2>3 DEF Driven, Same, Things
<1>5. Handled'
  BY CallersAssumption DEF Handled, Handle, Grips, Driven, Doomed, Taken, Begins, Conflict, Followed, Lost, Holds, Fresh, TypeOK, Known, Moves, Procs, Same, Things
<1>6. Halted'
  BY CallersAssumption DEF Halted, Handled, Handle, Grips, Lost, Holds, TypeOK, Doomed, Known, Moves, Procs, Same, Things
<1>7. Taken'
  BY CallersAssumption DEF Taken, Begins, Conflict, Lost, Holds, Moves, Procs, Same, Things
<1>8. Followed'
  BY CallersAssumption DEF Followed, Halted, Taken, Begins, Conflict, Lost, TypeOK, Holds, Fresh, Ahead, Moves, Procs, Same, Things
<1> QED
  BY <1>1, <1>2, <1>3, <1>4, <1>5, <1>6, <1>7, <1>8

\* Nothing is gained or lost.
LEMMA StartFailedInv ==
  ASSUME Inv, NEW c \in Callers, StartFailed(c)
  PROVE  Inv'
<1> USE StartFailedEffect DEF Inv, At, Id
<1>1. Holds'
  BY CallersAssumption DEF Holds, Moves, Procs, Same, Things
<1>2. Fresh'
  BY CallersAssumption DEF Fresh, Holds, Ahead, Moves, Procs, Same, Things
<1>3. Clashes'
  BY CallersAssumption DEF Clashes, Holds, Conflict, Moves, Procs, Same, Things
<1>4. Driven'
  <2>1. SUFFICES ASSUME NEW i \in Callers, NEW d \in Callers, Handle(i, d)', container'[i] # d
                 PROVE  Doomed(i)' \/ row'.id # i \/ i \in clashed'
    BY DEF Driven
  <2>2. Doomed(i) => Doomed(i)'
    BY DEF Doomed, Moves
  <2>3. Handle(i, d)
    BY <2>1, CallersAssumption DEF Handle, Grips, Moves, Procs, Same, Things
  <2> QED
    BY <2>1, <2>2, <2>3 DEF Driven, Same, Things
<1>5. Handled'
  BY CallersAssumption DEF Handled, Handle, Grips, Driven, Doomed, Taken, Begins, Conflict, Followed, Lost, Holds, Fresh, TypeOK, Known, Moves, Procs, Same, Things
<1>6. Halted'
  BY CallersAssumption DEF Halted, Handled, Handle, Grips, Lost, Holds, TypeOK, Doomed, Known, Moves, Procs, Same, Things
<1>7. Taken'
  BY CallersAssumption DEF Taken, Begins, Conflict, Lost, Holds, Moves, Procs, Same, Things
<1>8. Followed'
  BY CallersAssumption DEF Followed, Halted, Taken, Begins, Conflict, Lost, TypeOK, Holds, Fresh, Ahead, Moves, Procs, Same, Things
<1> QED
  BY <1>1, <1>2, <1>3, <1>4, <1>5, <1>6, <1>7, <1>8

\* The container in hand is the one of the name.
LEMMA FindInv ==
  ASSUME Inv, NEW c \in Callers, Find(c)
  PROVE  Inv'
<1> USE FindEffect DEF Inv, At, Id
<1>1. Holds'
  BY CallersAssumption DEF Holds, Moves, Procs, Same, Things
<1>2. Fresh'
  BY CallersAssumption DEF Fresh, Holds, Ahead, Moves, Procs, Same, Things
<1>3. Clashes'
  BY CallersAssumption DEF Clashes, Holds, Conflict, Moves, Procs, Same, Things
<1>4. Driven'
  <2>1. SUFFICES ASSUME NEW i \in Callers, NEW d \in Callers, Handle(i, d)', container'[i] # d
                 PROVE  Doomed(i)' \/ row'.id # i \/ i \in clashed'
    BY DEF Driven
  <2>2. Doomed(i) => Doomed(i)'
    BY DEF Doomed, Moves
  <2>3. Handle(i, d)
    BY <2>1, CallersAssumption DEF Handle, Grips, Moves, Procs, Same, Things
  <2> QED
    BY <2>1, <2>2, <2>3 DEF Driven, Same, Things
<1>5. Handled'
  BY CallersAssumption DEF Handled, Handle, Grips, Driven, Doomed, Taken, Begins, Conflict, Followed, Lost, Holds, Fresh, TypeOK, Known, Moves, Procs, Same, Things
<1>6. Halted'
  BY CallersAssumption DEF Halted, Handled, Handle, Grips, Lost, Holds, TypeOK, Doomed, Known, Moves, Procs, Same, Things
<1>7. Taken'
  BY CallersAssumption DEF Taken, Begins, Conflict, Lost, Holds, Moves, Procs, Same, Things
<1>8. Followed'
  BY CallersAssumption DEF Followed, Halted, Taken, Begins, Conflict, Lost, TypeOK, Holds, Fresh, Ahead, Moves, Procs, Same, Things
<1> QED
  BY <1>1, <1>2, <1>3, <1>4, <1>5, <1>6, <1>7, <1>8

\* A container that was found stays in hand.
LEMMA InspectInv ==
  ASSUME Inv, NEW c \in Callers, Inspect(c)
  PROVE  Inv'
<1> USE InspectEffect DEF Inv, At, Id
<1>1. Holds'
  BY CallersAssumption DEF Holds, Moves, Procs, Same, Things
<1>2. Fresh'
  BY CallersAssumption DEF Fresh, Holds, Ahead, Moves, Procs, Same, Things
<1>3. Clashes'
  BY CallersAssumption DEF Clashes, Holds, Conflict, Moves, Procs, Same, Things
<1>4. Driven'
  <2>1. SUFFICES ASSUME NEW i \in Callers, NEW d \in Callers, Handle(i, d)', container'[i] # d
                 PROVE  Doomed(i)' \/ row'.id # i \/ i \in clashed'
    BY DEF Driven
  <2>2. Doomed(i) => Doomed(i)'
    BY DEF Doomed, Moves
  <2>3. Handle(i, d)
    BY <2>1, CallersAssumption DEF Handle, Grips, Moves, Procs, Same, Things
  <2> QED
    BY <2>1, <2>2, <2>3 DEF Driven, Same, Things
<1>5. Handled'
  BY CallersAssumption DEF Handled, Handle, Grips, Driven, Doomed, Taken, Begins, Conflict, Followed, Lost, Holds, Fresh, TypeOK, Known, Moves, Procs, Same, Things
<1>6. Halted'
  BY CallersAssumption DEF Halted, Handled, Handle, Grips, Lost, Holds, TypeOK, Doomed, Known, Moves, Procs, Same, Things
<1>7. Taken'
  BY CallersAssumption DEF Taken, Begins, Conflict, Lost, Holds, Moves, Procs, Same, Things
<1>8. Followed'
  BY CallersAssumption DEF Followed, Halted, Taken, Begins, Conflict, Lost, TypeOK, Holds, Fresh, Ahead, Moves, Procs, Same, Things
<1> QED
  BY <1>1, <1>2, <1>3, <1>4, <1>5, <1>6, <1>7, <1>8

\* A new container has its row or was spared; without a row, a doomed one or a conflict there is no other in hand.
LEMMA MakeInv ==
  ASSUME Inv, NEW c \in Callers, Make(c)
  PROVE  Inv'
<1> USE MakeEffect DEF Inv, At, Id
<1>1. Holds'
  BY CallersAssumption DEF Holds, Moves, Procs, Same, Things, Makes
<1>2. Fresh'
  <2>1. SUFFICES ASSUME NEW b \in Callers
                 PROVE  /\ pc'[b] \in {"idle", "create"} => b \notin failing'
                        /\ pc'[b] \in Ahead /\ b \notin failing' =>
                             /\ container'[b] = "none" /\ cache'[b] = "none" /\ row'.id # b
                             /\ \A q \in Procs : Id(q)' # b
    BY DEF Fresh
  <2>2. pc'[b] \in {"idle", "create"} => pc[b] \in {"idle", "create"}
    BY DEF Moves, Makes, Procs
  <2>3. pc'[b] \in Ahead /\ b \notin failing' => pc[b] \in Ahead /\ b \notin failing
    BY DEF Moves, Makes, Procs, Ahead
  <2>4. \A q \in Procs : Id(q)' = Id(q)
    BY DEF Moves, Makes
  <2>5. Id(b) \in Known /\ c \in Procs
    BY DEF TypeOK, Entities, Procs
  <2>6. b # Id(c) => container'[b] = container[b] /\ cache'[b] = cache[b]
    BY DEF TypeOK, Makes, Same, Things
  <2> QED
    BY <2>2, <2>3, <2>4, <2>5, <2>6 DEF Fresh, Makes, Same, Things
<1>3. Clashes'
  BY CallersAssumption DEF Clashes, Holds, Conflict, Moves, Procs, Same, Things, Makes
<1>4. Driven'
  <2>1. SUFFICES ASSUME NEW i \in Callers, NEW d \in Callers, Handle(i, d)', container'[i] # d
                 PROVE  Doomed(i)' \/ row'.id # i \/ i \in clashed'
    BY DEF Driven
  <2>2. Doomed(i) => Doomed(i)'
    BY DEF Doomed, Moves, Makes
  <2>3. i # Id(c) => container'[i] = container[i]
    BY DEF Makes, Same, Things, TypeOK
  <2>4. container' = container \/ (container[Id(c)] = "none" /\ container'[Id(c)] = c)
    BY DEF Makes, Same, Things, TypeOK
  <2>5. Handle(i, d)
    <3>1. CASE Makes(c)
      <4>1. i = Id(c) => d # c
        BY <2>1, <3>1 DEF Makes, TypeOK
      <4> QED
        BY <2>1, <3>1, <4>1, CallersAssumption DEF Handle, Grips, Moves, Makes, Procs
    <3>2. CASE ~Makes(c)
      BY <2>1, <3>2, CallersAssumption DEF Handle, Grips, Moves, Same, Things, Procs
    <3> QED
      BY <3>1, <3>2
  <2>6. container[i] # d
    BY <2>1, <2>3, <2>4, CallersAssumption
  <2>7. row'.id = row.id /\ clashed \subseteq clashed'
    BY DEF Makes, Same, Things
  <2> QED
    BY <2>2, <2>5, <2>6, <2>7 DEF Driven
<1>5. Handled'
  <2>1. SUFFICES ASSUME NEW i \in Callers, NEW d \in Callers, Handle(i, d)',
                        container'[i] \notin {"none", d}
                 PROVE  Lost(i)'
    BY DEF Handled
  <2>2. Lost(i) => Lost(i)'
    BY DEF Lost, Makes, Same, Things
  <2>3. CASE Makes(c) /\ i = Id(c)
    <3>1. container[i] = "none" /\ container'[i] = c /\ (Doomed(i) => i \in spared')
      BY <2>3 DEF Makes, TypeOK
    <3>2. Handle(i, d)
      BY <2>1, <2>3, <3>1, CallersAssumption DEF Handle, Grips, Moves, Makes, Procs
    <3>3. Doomed(i) \/ row.id # i \/ i \in clashed
      BY <3>1, <3>2, CallersAssumption DEF Driven
    <3>4. row.id = i \/ Lost(i)
      BY <2>3 DEF Taken, Begins, Conflict
    <3> QED
      BY <2>2, <3>1, <3>3, <3>4 DEF Lost
  <2>4. CASE ~(Makes(c) /\ i = Id(c))
    <3>1. container'[i] = container[i]
      BY <2>4 DEF Makes, Same, Things, TypeOK
    <3>2. Handle(i, d)
      BY <2>1, <2>4, CallersAssumption DEF Handle, Grips, Moves, Makes, Same, Things, Procs
    <3> QED
      BY <2>1, <2>2, <3>1, <3>2 DEF Handled
  <2> QED
    BY <2>3, <2>4
<1>6. Halted'
  BY CallersAssumption DEF Halted, Handled, Handle, Grips, Lost, Holds, TypeOK, Doomed, Known, Moves, Procs, Same, Things, Makes
<1>7. Taken'
  BY CallersAssumption DEF Taken, Begins, Conflict, Lost, Holds, Moves, Procs, Same, Things, Makes
<1>8. Followed'
  BY CallersAssumption DEF Followed, Halted, Taken, Begins, Conflict, Lost, TypeOK, Holds, Fresh, Ahead, Moves, Procs, Same, Things, Makes
<1> QED
  BY <1>1, <1>2, <1>3, <1>4, <1>5, <1>6, <1>7, <1>8

\* Nothing is gained or lost.
LEMMA ClashInv ==
  ASSUME Inv, NEW c \in Callers, Clash(c)
  PROVE  Inv'
<1> USE ClashEffect DEF Inv, At, Id
<1>1. Holds'
  BY CallersAssumption DEF Holds, Moves, Procs, Same, Things
<1>2. Fresh'
  BY CallersAssumption DEF Fresh, Holds, Ahead, Moves, Procs, Same, Things
<1>3. Clashes'
  BY CallersAssumption DEF Clashes, Holds, Conflict, Moves, Procs, Same, Things
<1>4. Driven'
  <2>1. SUFFICES ASSUME NEW i \in Callers, NEW d \in Callers, Handle(i, d)', container'[i] # d
                 PROVE  Doomed(i)' \/ row'.id # i \/ i \in clashed'
    BY DEF Driven
  <2>2. Doomed(i) => Doomed(i)'
    BY DEF Doomed, Moves
  <2>3. Handle(i, d)
    BY <2>1, CallersAssumption DEF Handle, Grips, Moves, Procs, Same, Things
  <2> QED
    BY <2>1, <2>2, <2>3 DEF Driven, Same, Things
<1>5. Handled'
  BY CallersAssumption DEF Handled, Handle, Grips, Driven, Doomed, Taken, Begins, Conflict, Followed, Lost, Holds, Fresh, TypeOK, Known, Moves, Procs, Same, Things
<1>6. Halted'
  BY CallersAssumption DEF Halted, Handled, Handle, Grips, Lost, Holds, TypeOK, Doomed, Known, Moves, Procs, Same, Things
<1>7. Taken'
  BY CallersAssumption DEF Taken, Begins, Conflict, Lost, Holds, Moves, Procs, Same, Things
<1>8. Followed'
  BY CallersAssumption DEF Followed, Halted, Taken, Begins, Conflict, Lost, TypeOK, Holds, Fresh, Ahead, Moves, Procs, Same, Things
<1> QED
  BY <1>1, <1>2, <1>3, <1>4, <1>5, <1>6, <1>7, <1>8

\* What is stopped met a conflict.
LEMMA EvictInv ==
  ASSUME Inv, NEW c \in Callers, Evict(c)
  PROVE  Inv'
<1> USE EvictEffect DEF Inv, At, Id
<1>1. Holds'
  BY CallersAssumption DEF Holds, Moves, Procs, Stops, InHand
<1>2. Fresh'
  <2>1. SUFFICES ASSUME NEW b \in Callers
                 PROVE  /\ pc'[b] \in {"idle", "create"} => b \notin failing'
                        /\ pc'[b] \in Ahead /\ b \notin failing' =>
                             /\ container'[b] = "none" /\ cache'[b] = "none" /\ row'.id # b
                             /\ \A q \in Procs : Id(q)' # b
    BY DEF Fresh
  <2>2. pc'[b] \in {"idle", "create"} => pc[b] \in {"idle", "create"}
    BY DEF Moves, Procs
  <2>3. pc'[b] \in Ahead /\ b \notin failing' => pc[b] \in Ahead /\ b \notin failing
    BY DEF Moves, Procs, Ahead
  <2>4. \A q \in Procs : Id(q)' = Id(q)
    BY DEF Moves
  <2>5. Id(b) \in Known /\ c \in Procs
    BY DEF TypeOK, Entities, Procs
  <2>6. b # Id(c) => container'[b] = container[b] /\ cache'[b] = cache[b]
    BY DEF TypeOK, Stops
  <2> QED
    BY <2>2, <2>3, <2>4, <2>5, <2>6 DEF Fresh, Stops
<1>3. Clashes'
  BY CallersAssumption DEF Clashes, Holds, Conflict, Moves, Procs, Stops, InHand
<1>4. Driven'
  <2>1. SUFFICES ASSUME NEW i \in Callers, NEW d \in Callers, Handle(i, d)', container'[i] # d
                 PROVE  Doomed(i)' \/ row'.id # i \/ i \in clashed'
    BY DEF Driven
  <2>2. Doomed(i) => Doomed(i)'
    BY DEF Doomed, Moves
  <2>3. Handle(i, d)
    BY <2>1, CallersAssumption DEF Handle, Grips, Moves, Procs, Stops
  <2>4. i # Id(c) => container'[i] = container[i]
    BY DEF Stops, TypeOK
  <2>5. Id(c) \in clashed /\ clashed' = clashed
    BY DEF Clashes, Conflict, Stops
  <2> QED
    BY <2>1, <2>2, <2>3, <2>4, <2>5 DEF Driven
<1>5. Handled'
  BY CallersAssumption DEF Handled, Handle, Grips, Driven, Doomed, Taken, Begins, Conflict, Followed, Lost, Holds, Fresh, TypeOK, Known, Moves, Procs, Stops, InHand
<1>6. Halted'
  BY CallersAssumption DEF Halted, Handled, Handle, Grips, Lost, Holds, TypeOK, Doomed, Known, Moves, Procs, Stops, InHand
<1>7. Taken'
  BY CallersAssumption DEF Taken, Begins, Conflict, Lost, Holds, Moves, Procs, Stops, InHand
<1>8. Followed'
  BY CallersAssumption DEF Followed, Halted, Taken, Begins, Conflict, Lost, TypeOK, Holds, Fresh, Ahead, Moves, Procs, Stops, InHand
<1> QED
  BY <1>1, <1>2, <1>3, <1>4, <1>5, <1>6, <1>7, <1>8

\* As for the first attempt.
LEMMA RemakeInv ==
  ASSUME Inv, NEW c \in Callers, Remake(c)
  PROVE  Inv'
<1> USE RemakeEffect DEF Inv, At, Id
<1>1. Holds'
  BY CallersAssumption DEF Holds, Moves, Procs, Same, Things, Makes
<1>2. Fresh'
  <2>1. SUFFICES ASSUME NEW b \in Callers
                 PROVE  /\ pc'[b] \in {"idle", "create"} => b \notin failing'
                        /\ pc'[b] \in Ahead /\ b \notin failing' =>
                             /\ container'[b] = "none" /\ cache'[b] = "none" /\ row'.id # b
                             /\ \A q \in Procs : Id(q)' # b
    BY DEF Fresh
  <2>2. pc'[b] \in {"idle", "create"} => pc[b] \in {"idle", "create"}
    BY DEF Moves, Makes, Procs
  <2>3. pc'[b] \in Ahead /\ b \notin failing' => pc[b] \in Ahead /\ b \notin failing
    BY DEF Moves, Makes, Procs, Ahead
  <2>4. \A q \in Procs : Id(q)' = Id(q)
    BY DEF Moves, Makes
  <2>5. Id(b) \in Known /\ c \in Procs
    BY DEF TypeOK, Entities, Procs
  <2>6. b # Id(c) => container'[b] = container[b] /\ cache'[b] = cache[b]
    BY DEF TypeOK, Makes, Same, Things
  <2> QED
    BY <2>2, <2>3, <2>4, <2>5, <2>6 DEF Fresh, Makes, Same, Things
<1>3. Clashes'
  BY CallersAssumption DEF Clashes, Holds, Conflict, Moves, Procs, Same, Things, Makes
<1>4. Driven'
  <2>1. SUFFICES ASSUME NEW i \in Callers, NEW d \in Callers, Handle(i, d)', container'[i] # d
                 PROVE  Doomed(i)' \/ row'.id # i \/ i \in clashed'
    BY DEF Driven
  <2>2. Doomed(i) => Doomed(i)'
    BY DEF Doomed, Moves, Makes
  <2>3. i # Id(c) => container'[i] = container[i]
    BY DEF Makes, Same, Things, TypeOK
  <2>4. container' = container \/ (container[Id(c)] = "none" /\ container'[Id(c)] = c)
    BY DEF Makes, Same, Things, TypeOK
  <2>5. Handle(i, d)
    <3>1. CASE Makes(c)
      <4>1. i = Id(c) => d # c
        BY <2>1, <3>1 DEF Makes, TypeOK
      <4> QED
        BY <2>1, <3>1, <4>1, CallersAssumption DEF Handle, Grips, Moves, Makes, Procs
    <3>2. CASE ~Makes(c)
      BY <2>1, <3>2, CallersAssumption DEF Handle, Grips, Moves, Same, Things, Procs
    <3> QED
      BY <3>1, <3>2
  <2>6. container[i] # d
    BY <2>1, <2>3, <2>4, CallersAssumption
  <2>7. row'.id = row.id /\ clashed \subseteq clashed'
    BY DEF Makes, Same, Things
  <2> QED
    BY <2>2, <2>5, <2>6, <2>7 DEF Driven
<1>5. Handled'
  <2>1. SUFFICES ASSUME NEW i \in Callers, NEW d \in Callers, Handle(i, d)',
                        container'[i] \notin {"none", d}
                 PROVE  Lost(i)'
    BY DEF Handled
  <2>2. Lost(i) => Lost(i)'
    BY DEF Lost, Makes, Same, Things
  <2>3. CASE Makes(c) /\ i = Id(c)
    <3>1. container[i] = "none" /\ container'[i] = c /\ (Doomed(i) => i \in spared')
      BY <2>3 DEF Makes, TypeOK
    <3>2. Handle(i, d)
      BY <2>1, <2>3, <3>1, CallersAssumption DEF Handle, Grips, Moves, Makes, Procs
    <3>3. Doomed(i) \/ row.id # i \/ i \in clashed
      BY <3>1, <3>2, CallersAssumption DEF Driven
    <3>4. row.id = i \/ Lost(i)
      BY <2>3 DEF Taken, Begins, Conflict
    <3> QED
      BY <2>2, <3>1, <3>3, <3>4 DEF Lost
  <2>4. CASE ~(Makes(c) /\ i = Id(c))
    <3>1. container'[i] = container[i]
      BY <2>4 DEF Makes, Same, Things, TypeOK
    <3>2. Handle(i, d)
      BY <2>1, <2>4, CallersAssumption DEF Handle, Grips, Moves, Makes, Same, Things, Procs
    <3> QED
      BY <2>1, <2>2, <3>1, <3>2 DEF Handled
  <2> QED
    BY <2>3, <2>4
<1>6. Halted'
  BY CallersAssumption DEF Halted, Handled, Handle, Grips, Lost, Holds, TypeOK, Doomed, Known, Moves, Procs, Same, Things, Makes
<1>7. Taken'
  BY CallersAssumption DEF Taken, Begins, Conflict, Lost, Holds, Moves, Procs, Same, Things, Makes
<1>8. Followed'
  BY CallersAssumption DEF Followed, Halted, Taken, Begins, Conflict, Lost, TypeOK, Holds, Fresh, Ahead, Moves, Procs, Same, Things, Makes
<1> QED
  BY <1>1, <1>2, <1>3, <1>4, <1>5, <1>6, <1>7, <1>8

\* The container stays in hand.
LEMMA BootInv ==
  ASSUME Inv, NEW c \in Callers, Boot(c)
  PROVE  Inv'
<1> USE BootEffect DEF Inv, At, Id
<1>1. Holds'
  BY CallersAssumption DEF Holds, Moves, Procs, Same, Things
<1>2. Fresh'
  BY CallersAssumption DEF Fresh, Holds, Ahead, Moves, Procs, Same, Things
<1>3. Clashes'
  BY CallersAssumption DEF Clashes, Holds, Conflict, Moves, Procs, Same, Things
<1>4. Driven'
  <2>1. SUFFICES ASSUME NEW i \in Callers, NEW d \in Callers, Handle(i, d)', container'[i] # d
                 PROVE  Doomed(i)' \/ row'.id # i \/ i \in clashed'
    BY DEF Driven
  <2>2. Doomed(i) => Doomed(i)'
    BY DEF Doomed, Moves
  <2>3. Handle(i, d)
    BY <2>1, CallersAssumption DEF Handle, Grips, Moves, Procs, Same, Things
  <2> QED
    BY <2>1, <2>2, <2>3 DEF Driven, Same, Things
<1>5. Handled'
  BY CallersAssumption DEF Handled, Handle, Grips, Driven, Doomed, Taken, Begins, Conflict, Followed, Lost, Holds, Fresh, TypeOK, Known, Moves, Procs, Same, Things
<1>6. Halted'
  BY CallersAssumption DEF Halted, Handled, Handle, Grips, Lost, Holds, TypeOK, Doomed, Known, Moves, Procs, Same, Things
<1>7. Taken'
  BY CallersAssumption DEF Taken, Begins, Conflict, Lost, Holds, Moves, Procs, Same, Things
<1>8. Followed'
  BY CallersAssumption DEF Followed, Halted, Taken, Begins, Conflict, Lost, TypeOK, Holds, Fresh, Ahead, Moves, Procs, Same, Things
<1> QED
  BY <1>1, <1>2, <1>3, <1>4, <1>5, <1>6, <1>7, <1>8

\* The container stays in hand.
LEMMA InitScriptInv ==
  ASSUME Inv, NEW c \in Callers, InitScript(c)
  PROVE  Inv'
<1> USE InitScriptEffect DEF Inv, At, Id
<1>1. Holds'
  BY CallersAssumption DEF Holds, Moves, Procs, Same, Things
<1>2. Fresh'
  BY CallersAssumption DEF Fresh, Holds, Ahead, Moves, Procs, Same, Things
<1>3. Clashes'
  BY CallersAssumption DEF Clashes, Holds, Conflict, Moves, Procs, Same, Things
<1>4. Driven'
  <2>1. SUFFICES ASSUME NEW i \in Callers, NEW d \in Callers, Handle(i, d)', container'[i] # d
                 PROVE  Doomed(i)' \/ row'.id # i \/ i \in clashed'
    BY DEF Driven
  <2>2. Doomed(i) => Doomed(i)'
    BY DEF Doomed, Moves
  <2>3. Handle(i, d)
    BY <2>1, CallersAssumption DEF Handle, Grips, Moves, Procs, Same, Things
  <2> QED
    BY <2>1, <2>2, <2>3 DEF Driven, Same, Things
<1>5. Handled'
  BY CallersAssumption DEF Handled, Handle, Grips, Driven, Doomed, Taken, Begins, Conflict, Followed, Lost, Holds, Fresh, TypeOK, Known, Moves, Procs, Same, Things
<1>6. Halted'
  BY CallersAssumption DEF Halted, Handled, Handle, Grips, Lost, Holds, TypeOK, Doomed, Known, Moves, Procs, Same, Things
<1>7. Taken'
  BY CallersAssumption DEF Taken, Begins, Conflict, Lost, Holds, Moves, Procs, Same, Things
<1>8. Followed'
  BY CallersAssumption DEF Followed, Halted, Taken, Begins, Conflict, Lost, TypeOK, Holds, Fresh, Ahead, Moves, Procs, Same, Things
<1> QED
  BY <1>1, <1>2, <1>3, <1>4, <1>5, <1>6, <1>7, <1>8

\* The driver that is cached is the container that was in hand.
LEMMA StartedInv ==
  ASSUME Inv, NEW c \in Callers, Started(c)
  PROVE  Inv'
<1> USE StartedEffect DEF Inv, At, Id
<1>1. Holds'
  BY CallersAssumption DEF Holds, Moves, Procs
<1>2. Fresh'
  <2>1. SUFFICES ASSUME NEW b \in Callers
                 PROVE  /\ pc'[b] \in {"idle", "create"} => b \notin failing'
                        /\ pc'[b] \in Ahead /\ b \notin failing' =>
                             /\ container'[b] = "none" /\ cache'[b] = "none" /\ row'.id # b
                             /\ \A q \in Procs : Id(q)' # b
    BY DEF Fresh
  <2>2. pc'[b] \in {"idle", "create"} => pc[b] \in {"idle", "create"}
    BY DEF Moves, Procs
  <2>3. pc'[b] \in Ahead /\ b \notin failing' => pc[b] \in Ahead /\ b \notin failing
    BY DEF Moves, Procs, Ahead
  <2>4. \A q \in Procs : Id(q)' = Id(q)
    BY DEF Moves
  <2>5. Id(b) \in Known /\ c \in Procs
    BY DEF TypeOK, Entities, Procs
  <2>6. b # Id(c) => container'[b] = container[b] /\ cache'[b] = cache[b]
    BY DEF TypeOK
  <2> QED
    BY <2>2, <2>3, <2>4, <2>5, <2>6 DEF Fresh
<1>3. Clashes'
  BY CallersAssumption DEF Clashes, Holds, Conflict, Moves, Procs
<1>4. Driven'
  <2>1. SUFFICES ASSUME NEW i \in Callers, NEW d \in Callers, Handle(i, d)', container'[i] # d
                 PROVE  Doomed(i)' \/ row'.id # i \/ i \in clashed'
    BY DEF Driven
  <2>2. Doomed(i) => Doomed(i)'
    BY DEF Doomed, Moves
  <2>3. Handle(i, d)
    BY <2>1, CallersAssumption DEF Handle, Grips, Moves, Procs, TypeOK
  <2> QED
    BY <2>1, <2>2, <2>3 DEF Driven
<1>5. Handled'
  <2>1. SUFFICES ASSUME NEW i \in Callers, NEW d \in Callers, Handle(i, d)',
                        container'[i] \notin {"none", d}
                 PROVE  Lost(i)'
    BY DEF Handled
  <2>2. Handle(i, d)
    BY <2>1, CallersAssumption DEF Handle, Grips, Moves, Procs, TypeOK
  <2> QED
    BY <2>1, <2>2 DEF Handled, Lost
<1>6. Halted'
  BY CallersAssumption DEF Halted, Handled, Handle, Grips, Lost, Holds, TypeOK, Doomed, Known, Moves, Procs
<1>7. Taken'
  BY CallersAssumption DEF Taken, Begins, Conflict, Lost, Holds, Moves, Procs
<1>8. Followed'
  BY CallersAssumption DEF Followed, Halted, Taken, Begins, Conflict, Lost, TypeOK, Holds, Fresh, Ahead, Moves, Procs
<1> QED
  BY <1>1, <1>2, <1>3, <1>4, <1>5, <1>6, <1>7, <1>8

\* The delete that skips the stop spares the container.
LEMMA MarkInv ==
  ASSUME Inv, NEW p \in Procs, Mark(p)
  PROVE  Inv'
<1> USE MarkEffect DEF Inv, At, Id
<1>1. Holds'
  BY CallersAssumption DEF Holds, Moves, Procs
<1>2. Fresh'
  BY CallersAssumption DEF Fresh, Holds, Ahead, Moves, Procs
<1>3. Clashes'
  BY CallersAssumption DEF Clashes, Holds, Conflict, Moves, Procs
<1>4. Driven'
  BY CallersAssumption DEF Driven, Handle, Grips, Doomed, Fresh, Holds, TypeOK, Clashes, Conflict, Known, Moves, Procs
<1>5. Handled'
  BY CallersAssumption DEF Handled, Handle, Grips, Driven, Doomed, Taken, Begins, Conflict, Followed, Lost, Holds, Fresh, TypeOK, Known, Moves, Procs
<1>6. Halted'
  BY CallersAssumption DEF Halted, Handled, Handle, Grips, Lost, Holds, TypeOK, Doomed, Known, Moves, Procs
<1>7. Taken'
  BY CallersAssumption DEF Taken, Begins, Conflict, Lost, Holds, Moves, Procs
<1>8. Followed'
  BY CallersAssumption DEF Followed, Halted, Taken, Begins, Conflict, Lost, TypeOK, Holds, Fresh, Ahead, Moves, Procs
<1> QED
  BY <1>1, <1>2, <1>3, <1>4, <1>5, <1>6, <1>7, <1>8

\* What is going to be stopped is the container of the driver.
LEMMA HaltInv ==
  ASSUME Inv, NEW p \in Procs, Halt(p)
  PROVE  Inv'
<1> USE HaltEffect DEF Inv, At, Id
<1>1. Holds'
  BY CallersAssumption DEF Holds, Moves, Procs, Same, Things
<1>2. Fresh'
  BY CallersAssumption DEF Fresh, Holds, Ahead, Moves, Procs, Same, Things
<1>3. Clashes'
  BY CallersAssumption DEF Clashes, Holds, Conflict, Moves, Procs, Same, Things
<1>4. Driven'
  <2>1. SUFFICES ASSUME NEW i \in Callers, NEW d \in Callers, Handle(i, d)', container'[i] # d
                 PROVE  Doomed(i)' \/ row'.id # i \/ i \in clashed'
    BY DEF Driven
  <2>2. Doomed(i) => Doomed(i)'
    BY DEF Doomed, Moves
  <2>3. Handle(i, d)
    BY <2>1, CallersAssumption DEF Handle, Grips, Moves, Procs, Same, Things
  <2> QED
    BY <2>1, <2>2, <2>3 DEF Driven, Same, Things
<1>5. Handled'
  BY CallersAssumption DEF Handled, Handle, Grips, Driven, Doomed, Taken, Begins, Conflict, Followed, Lost, Holds, Fresh, TypeOK, Known, Moves, Procs, Same, Things
<1>6. Halted'
  BY CallersAssumption DEF Halted, Handled, Handle, Grips, Lost, Holds, TypeOK, Doomed, Known, Moves, Procs, Same, Things
<1>7. Taken'
  BY CallersAssumption DEF Taken, Begins, Conflict, Lost, Holds, Moves, Procs, Same, Things
<1>8. Followed'
  BY CallersAssumption DEF Followed, Halted, Taken, Begins, Conflict, Lost, TypeOK, Holds, Fresh, Ahead, Moves, Procs, Same, Things
<1> QED
  BY <1>1, <1>2, <1>3, <1>4, <1>5, <1>6, <1>7, <1>8

\* From the stop on the instance is doomed.
LEMMA KillInv ==
  ASSUME Inv, NEW p \in Procs, Kill(p)
  PROVE  Inv'
<1> USE KillEffect DEF Inv, At, Id
<1>1. Holds'
  BY CallersAssumption DEF Holds, Moves, Procs, Stops, InHand
<1>2. Fresh'
  <2>1. SUFFICES ASSUME NEW b \in Callers
                 PROVE  /\ pc'[b] \in {"idle", "create"} => b \notin failing'
                        /\ pc'[b] \in Ahead /\ b \notin failing' =>
                             /\ container'[b] = "none" /\ cache'[b] = "none" /\ row'.id # b
                             /\ \A q \in Procs : Id(q)' # b
    BY DEF Fresh
  <2>2. pc'[b] \in {"idle", "create"} => pc[b] \in {"idle", "create"}
    BY DEF Moves, Procs
  <2>3. pc'[b] \in Ahead /\ b \notin failing' => pc[b] \in Ahead /\ b \notin failing
    BY DEF Moves, Procs, Ahead
  <2>4. \A q \in Procs : Id(q)' = Id(q)
    BY DEF Moves
  <2>5. Id(b) \in Known /\ p \in Procs
    BY DEF TypeOK, Entities, Procs
  <2>6. b # Id(p) => container'[b] = container[b] /\ cache'[b] = cache[b]
    BY DEF TypeOK, Stops
  <2> QED
    BY <2>2, <2>3, <2>4, <2>5, <2>6 DEF Fresh, Stops
<1>3. Clashes'
  BY CallersAssumption DEF Clashes, Holds, Conflict, Moves, Procs, Stops, InHand
<1>4. Driven'
  <2>1. SUFFICES ASSUME NEW i \in Callers, NEW d \in Callers, Handle(i, d)', container'[i] # d
                 PROVE  Doomed(i)' \/ row'.id # i \/ i \in clashed'
    BY DEF Driven
  <2>2. Doomed(i) => Doomed(i)'
    BY DEF Doomed, Moves
  <2>3. Handle(i, d)
    BY <2>1, CallersAssumption DEF Handle, Grips, Moves, Procs, Stops
  <2>4. i # Id(p) => container'[i] = container[i]
    BY DEF Stops, TypeOK
  <2>5. i = Id(p) => Doomed(i)'
    BY DEF Doomed, Moves
  <2>6. row' = row /\ clashed' = clashed
    BY DEF Stops
  <2>7. CASE i = Id(p)
    BY <2>5, <2>7
  <2>8. CASE i # Id(p)
    BY <2>1, <2>2, <2>3, <2>4, <2>6, <2>8 DEF Driven
  <2> QED
    BY <2>7, <2>8
<1>5. Handled'
  BY CallersAssumption DEF Handled, Handle, Grips, Driven, Doomed, Taken, Begins, Conflict, Followed, Lost, Holds, Fresh, TypeOK, Known, Moves, Procs, Stops, InHand
<1>6. Halted'
  BY CallersAssumption DEF Halted, Handled, Handle, Grips, Lost, Holds, TypeOK, Doomed, Known, Moves, Procs, Stops, InHand
<1>7. Taken'
  BY CallersAssumption DEF Taken, Begins, Conflict, Lost, Holds, Moves, Procs, Stops, InHand
<1>8. Followed'
  BY CallersAssumption DEF Followed, Halted, Taken, Begins, Conflict, Lost, TypeOK, Holds, Fresh, Ahead, Moves, Procs, Stops, InHand
<1> QED
  BY <1>1, <1>2, <1>3, <1>4, <1>5, <1>6, <1>7, <1>8

\* What is going to be removed is the container of the name.
LEMMA LookupInv ==
  ASSUME Inv, NEW p \in Procs, Lookup(p)
  PROVE  Inv'
<1> USE LookupEffect DEF Inv, At, Id
<1>1. Holds'
  BY CallersAssumption DEF Holds, Moves, Procs, Same, Things
<1>2. Fresh'
  BY CallersAssumption DEF Fresh, Holds, Ahead, Moves, Procs, Same, Things
<1>3. Clashes'
  BY CallersAssumption DEF Clashes, Holds, Conflict, Moves, Procs, Same, Things
<1>4. Driven'
  BY CallersAssumption DEF Driven, Handle, Grips, Doomed, Fresh, Holds, TypeOK, Clashes, Conflict, Known, Moves, Procs, Same, Things
<1>5. Handled'
  BY CallersAssumption DEF Handled, Handle, Grips, Driven, Doomed, Taken, Begins, Conflict, Followed, Lost, Holds, Fresh, TypeOK, Known, Moves, Procs, Same, Things
<1>6. Halted'
  BY CallersAssumption DEF Halted, Handled, Handle, Grips, Lost, Holds, TypeOK, Doomed, Known, Moves, Procs, Same, Things
<1>7. Taken'
  BY CallersAssumption DEF Taken, Begins, Conflict, Lost, Holds, Moves, Procs, Same, Things
<1>8. Followed'
  BY CallersAssumption DEF Followed, Halted, Taken, Begins, Conflict, Lost, TypeOK, Holds, Fresh, Ahead, Moves, Procs, Same, Things
<1> QED
  BY <1>1, <1>2, <1>3, <1>4, <1>5, <1>6, <1>7, <1>8

\* From the stop on the instance is doomed.
LEMMA RemoveInv ==
  ASSUME Inv, NEW p \in Procs, Remove(p)
  PROVE  Inv'
<1> USE RemoveEffect DEF Inv, At, Id
<1>1. Holds'
  BY CallersAssumption DEF Holds, Moves, Procs, Stops, InHand
<1>2. Fresh'
  <2>1. SUFFICES ASSUME NEW b \in Callers
                 PROVE  /\ pc'[b] \in {"idle", "create"} => b \notin failing'
                        /\ pc'[b] \in Ahead /\ b \notin failing' =>
                             /\ container'[b] = "none" /\ cache'[b] = "none" /\ row'.id # b
                             /\ \A q \in Procs : Id(q)' # b
    BY DEF Fresh
  <2>2. pc'[b] \in {"idle", "create"} => pc[b] \in {"idle", "create"}
    BY DEF Moves, Procs
  <2>3. pc'[b] \in Ahead /\ b \notin failing' => pc[b] \in Ahead /\ b \notin failing
    BY DEF Moves, Procs, Ahead
  <2>4. \A q \in Procs : Id(q)' = Id(q)
    BY DEF Moves
  <2>5. Id(b) \in Known /\ p \in Procs
    BY DEF TypeOK, Entities, Procs
  <2>6. b # Id(p) => container'[b] = container[b] /\ cache'[b] = cache[b]
    BY DEF TypeOK, Stops
  <2> QED
    BY <2>2, <2>3, <2>4, <2>5, <2>6 DEF Fresh, Stops
<1>3. Clashes'
  BY CallersAssumption DEF Clashes, Holds, Conflict, Moves, Procs, Stops, InHand
<1>4. Driven'
  <2>1. SUFFICES ASSUME NEW i \in Callers, NEW d \in Callers, Handle(i, d)', container'[i] # d
                 PROVE  Doomed(i)' \/ row'.id # i \/ i \in clashed'
    BY DEF Driven
  <2>2. Doomed(i) => Doomed(i)'
    BY DEF Doomed, Moves
  <2>3. Handle(i, d)
    BY <2>1, CallersAssumption DEF Handle, Grips, Moves, Procs, Stops
  <2>4. i # Id(p) => container'[i] = container[i]
    BY DEF Stops, TypeOK
  <2>5. i = Id(p) => Doomed(i)'
    BY DEF Doomed, Moves
  <2>6. row' = row /\ clashed' = clashed
    BY DEF Stops
  <2>7. CASE i = Id(p)
    BY <2>5, <2>7
  <2>8. CASE i # Id(p)
    BY <2>1, <2>2, <2>3, <2>4, <2>6, <2>8 DEF Driven
  <2> QED
    BY <2>7, <2>8
<1>5. Handled'
  BY CallersAssumption DEF Handled, Handle, Grips, Driven, Doomed, Taken, Begins, Conflict, Followed, Lost, Holds, Fresh, TypeOK, Known, Moves, Procs, Stops, InHand
<1>6. Halted'
  BY CallersAssumption DEF Halted, Handled, Handle, Grips, Lost, Holds, TypeOK, Doomed, Known, Moves, Procs, Stops, InHand
<1>7. Taken'
  BY CallersAssumption DEF Taken, Begins, Conflict, Lost, Holds, Moves, Procs, Stops, InHand
<1>8. Followed'
  BY CallersAssumption DEF Followed, Halted, Taken, Begins, Conflict, Lost, TypeOK, Holds, Fresh, Ahead, Moves, Procs, Stops, InHand
<1> QED
  BY <1>1, <1>2, <1>3, <1>4, <1>5, <1>6, <1>7, <1>8

\* A driver less.
LEMMA StoppedInv ==
  ASSUME Inv, NEW p \in Procs, Stopped(p)
  PROVE  Inv'
<1> USE StoppedEffect DEF Inv, At, Id
<1>1. Holds'
  BY CallersAssumption DEF Holds, Moves, Procs
<1>2. Fresh'
  <2>1. SUFFICES ASSUME NEW b \in Callers
                 PROVE  /\ pc'[b] \in {"idle", "create"} => b \notin failing'
                        /\ pc'[b] \in Ahead /\ b \notin failing' =>
                             /\ container'[b] = "none" /\ cache'[b] = "none" /\ row'.id # b
                             /\ \A q \in Procs : Id(q)' # b
    BY DEF Fresh
  <2>2. pc'[b] \in {"idle", "create"} => pc[b] \in {"idle", "create"}
    BY DEF Moves, Procs
  <2>3. pc'[b] \in Ahead /\ b \notin failing' => pc[b] \in Ahead /\ b \notin failing
    BY DEF Moves, Procs, Ahead
  <2>4. \A q \in Procs : Id(q)' = Id(q)
    BY DEF Moves
  <2>5. Id(b) \in Known /\ p \in Procs
    BY DEF TypeOK, Entities, Procs
  <2>6. b # Id(p) => container'[b] = container[b] /\ cache'[b] = cache[b]
    BY DEF TypeOK
  <2> QED
    BY <2>2, <2>3, <2>4, <2>5, <2>6 DEF Fresh
<1>3. Clashes'
  BY CallersAssumption DEF Clashes, Holds, Conflict, Moves, Procs
<1>4. Driven'
  BY CallersAssumption DEF Driven, Handle, Grips, Doomed, Fresh, Holds, TypeOK, Clashes, Conflict, Known, Moves, Procs
<1>5. Handled'
  BY CallersAssumption DEF Handled, Handle, Grips, Driven, Doomed, Taken, Begins, Conflict, Followed, Lost, Holds, Fresh, TypeOK, Known, Moves, Procs
<1>6. Halted'
  BY CallersAssumption DEF Halted, Handled, Handle, Grips, Lost, Holds, TypeOK, Doomed, Known, Moves, Procs
<1>7. Taken'
  BY CallersAssumption DEF Taken, Begins, Conflict, Lost, Holds, Moves, Procs
<1>8. Followed'
  BY CallersAssumption DEF Followed, Halted, Taken, Begins, Conflict, Lost, TypeOK, Holds, Fresh, Ahead, Moves, Procs
<1> QED
  BY <1>1, <1>2, <1>3, <1>4, <1>5, <1>6, <1>7, <1>8

\* The container whose row goes was stopped, spared or met a conflict.
LEMMA DeleteInv ==
  ASSUME Inv, NEW p \in Procs, Delete(p)
  PROVE  Inv'
<1> USE DeleteEffect DEF Inv, At, Id
<1>1. Holds'
  BY CallersAssumption DEF Holds, Moves, Procs, Shared
<1>2. Fresh'
  BY CallersAssumption DEF Fresh, Holds, Ahead, Moves, Procs, Shared
<1>3. Clashes'
  BY CallersAssumption DEF Clashes, Holds, Conflict, Moves, Procs, Shared
<1>4. Driven'
  <2>1. SUFFICES ASSUME NEW i \in Callers, NEW d \in Callers, Handle(i, d)', container'[i] # d
                 PROVE  Doomed(i)' \/ row'.id # i \/ i \in clashed'
    BY DEF Driven
  <2>2. Handle(i, d)
    BY <2>1, CallersAssumption DEF Handle, Grips, Moves, Procs
  <2>3. CASE i = Id(p)
    BY <2>3, CallersAssumption
  <2>4. CASE i # Id(p)
    <3>1. Doomed(i) => Doomed(i)'
      BY <2>4 DEF Doomed, Moves
    <3> QED
      BY <2>1, <2>2, <2>4, <3>1, CallersAssumption DEF Driven
  <2> QED
    BY <2>3, <2>4
<1>5. Handled'
  BY CallersAssumption DEF Handled, Handle, Grips, Driven, Doomed, Taken, Begins, Conflict, Followed, Lost, Holds, Fresh, TypeOK, Known, Moves, Procs, Shared
<1>6. Halted'
  BY CallersAssumption DEF Halted, Handled, Handle, Grips, Lost, Holds, TypeOK, Doomed, Known, Moves, Procs, Shared
<1>7. Taken'
  BY CallersAssumption DEF Taken, Begins, Conflict, Lost, Holds, Moves, Procs, Shared
<1>8. Followed'
  BY CallersAssumption DEF Followed, Halted, Taken, Begins, Conflict, Lost, TypeOK, Holds, Fresh, Ahead, Moves, Procs, Shared
<1> QED
  BY <1>1, <1>2, <1>3, <1>4, <1>5, <1>6, <1>7, <1>8

\* A cleanup has no instance of its own.
LEMMA SelectInv ==
  ASSUME Inv, NEW k \in Cleanups, Select(k)
  PROVE  Inv'
<1> USE SelectEffect DEF Inv, At, Id
<1>1. Holds'
  BY CallersAssumption DEF Holds, Moves, Procs, Same, Things
<1>2. Fresh'
  BY CallersAssumption DEF Fresh, Holds, Ahead, Moves, Procs, Same, Things
<1>3. Clashes'
  BY CallersAssumption DEF Clashes, Holds, Conflict, Moves, Procs, Same, Things
<1>4. Driven'
  BY CallersAssumption DEF Driven, Handle, Grips, Doomed, Fresh, Holds, TypeOK, Clashes, Conflict, Known, Moves, Procs, Same, Things
<1>5. Handled'
  BY CallersAssumption DEF Handled, Handle, Grips, Driven, Doomed, Taken, Begins, Conflict, Followed, Lost, Holds, Fresh, TypeOK, Known, Moves, Procs, Same, Things
<1>6. Halted'
  BY CallersAssumption DEF Halted, Handled, Handle, Grips, Lost, Holds, TypeOK, Doomed, Known, Moves, Procs, Same, Things
<1>7. Taken'
  BY CallersAssumption DEF Taken, Begins, Conflict, Lost, Holds, Moves, Procs, Same, Things
<1>8. Followed'
  BY CallersAssumption DEF Followed, Halted, Taken, Begins, Conflict, Lost, TypeOK, Holds, Fresh, Ahead, Moves, Procs, Same, Things
<1> QED
  BY <1>1, <1>2, <1>3, <1>4, <1>5, <1>6, <1>7, <1>8

\* Growing idle changes no instance.
LEMMA AgeInv ==
  ASSUME Inv, Age
  PROVE  Inv'
<1>1. row \in Rows /\ row.id \in Callers
  BY RowShape DEF Age, Inv, TypeOK, Known
<1>2. row' \in Rows /\ row'.id = row.id
  BY <1>1, RowKeeps DEF Age
<1>3. UNCHANGED <<container, up, cache, ent, pc, hold, failing, spared, clashed, crashes>>
  BY DEF Age, sandbox, local, lost
<1>4. TypeOK' /\ Holds' /\ Fresh' /\ Clashes'
  BY <1>2, <1>3 DEF Inv, TypeOK, Holds, Fresh, Clashes, Id
<1>5. Driven' /\ Handled' /\ Halted' /\ Taken' /\ Followed'
  BY <1>2, <1>3 DEF Inv, Driven, Handled, Handle, Halted, Doomed, Taken, Followed, Lost, Id
<1> QED
  BY <1>4, <1>5 DEF Inv

\* A crash: nobody holds anything, and what was to be deleted keeps its row.
LEMMA CrashInv ==
  ASSUME Inv, Crash
  PROVE  Inv'
<1>1. /\ UNCHANGED <<row, container, up, spared, clashed>> /\ failing' = {}
      /\ crashes' \in 0 .. MaxCrashes
      /\ cache' \in [Callers -> Known] /\ \A i \in Callers : cache'[i] = "none"
  BY CrashesAssumption DEF Crash, Inv, TypeOK, sandbox, lost, Known
<1>2. /\ pc' \in [Procs -> Labels] /\ \A p \in Procs : pc'[p] \in {"idle", "done"}
      /\ \A c \in Callers : pc'[c] = "idle" => pc[c] = "idle"
  BY CallersAssumption DEF Crash, Labels, At, Procs
<1>3. /\ ent' \in [Procs -> Entities] /\ \A p \in Procs : Id(p)' = "none"
      /\ hold' \in [Procs -> Known]
  BY DEF Crash, Entity, Entities, Statuses, Known, NoRow, Id
<1>4. TypeOK'
  BY <1>1, <1>2, <1>3 DEF Inv, TypeOK
<1>5. Holds' /\ Clashes'
  BY <1>2 DEF Holds, Clashes, Conflict, Procs
<1>6. Fresh'
  BY <1>1, <1>2, <1>3, CallersAssumption DEF Inv, Fresh, Ahead, Procs
<1>7. Driven' /\ Handled'
  BY <1>1, <1>2, CallersAssumption DEF Driven, Handled, Handle, Grips, Procs
<1>8. Halted' /\ Taken' /\ Followed'
  BY <1>1, <1>2 DEF Inv, Halted, Taken, Begins, Conflict, Followed, Lost, Procs
<1> QED
  BY <1>4, <1>5, <1>6, <1>7, <1>8 DEF Inv

\* Every step, and a stutter, keeps the invariant.
LEMMA NextInv ==
  ASSUME Inv, [Next]_vars
  PROVE  Inv'
<1>1. ASSUME NEW c \in Callers, Call(c)
      PROVE  Inv'
  BY <1>1, ProvideInv, TouchInv, CreateInv, StartInv, ProvidedInv, StartFailedInv,
     FindInv, InspectInv, MakeInv, ClashInv, EvictInv, RemakeInv,
     BootInv, InitScriptInv, StartedInv DEF Call
<1>2. ASSUME NEW p \in Procs, Stop(p)
      PROVE  Inv'
  BY <1>2, MarkInv, HaltInv, KillInv, LookupInv, RemoveInv, StoppedInv, DeleteInv DEF Stop
<1>3. CASE UNCHANGED vars
  BY <1>3 DEF vars, sandbox, local, lost, Inv, TypeOK, Holds, Fresh, Clashes, Driven, Handled, Handle,
     Halted, Doomed, Taken, Followed, Lost, Id
<1> QED
  BY <1>1, <1>2, <1>3, SelectInv, AgeInv, CrashInv DEF Next

\* The instances are followed as Inv says in every state of provide and the cleanups.
THEOREM Invariance == Spec => []Inv
<1> QED
  BY InitInv, NextInv, PTL DEF Spec

---------------------------------------------------------------------------
(* One call at a time meets no conflict *)

\* Only one call is on its way, nobody else makes a container, and no name is taken twice.
Single ==
  /\ \A c, d \in Callers : Busy(c) /\ Busy(d) => c = d
  /\ \A c \in Callers : At(c, "make") => container[Id(c)] = "none"
  /\ \A c \in Callers : pc[c] \notin Conflict
  /\ clashed = {}

LEMMA SingleInit == Init => Single
BY CallersAssumption DEF Init, Single, Busy, At, Procs, Conflict

\* A step of one process leaves everybody else where they stand.
LEMMA Steps ==
  ASSUME TypeOK, Holds, NEW p \in Procs,
         \/ p \in Callers /\ Call(p)
         \/ Stop(p)
         \/ p \in Cleanups /\ Select(p)
  PROVE  \A q \in Procs \ {p} : pc'[q] = pc[q] /\ Id(q)' = Id(q)
<1>1. CASE p \in Callers /\ Call(p)
  BY <1>1, ProvideEffect, TouchEffect, CreateEffect, StartEffect, ProvidedEffect, StartFailedEffect,
     FindEffect, InspectEffect, MakeEffect, ClashEffect, EvictEffect, RemakeEffect,
     BootEffect, InitScriptEffect, StartedEffect DEF Call, Moves, Makes
<1>2. CASE Stop(p)
  BY <1>2, MarkEffect, HaltEffect, KillEffect, LookupEffect, RemoveEffect, StoppedEffect, DeleteEffect
  DEF Stop, Moves
<1>3. CASE p \in Cleanups /\ Select(p)
  BY <1>3, SelectEffect DEF Moves
<1> QED
  BY <1>1, <1>2, <1>3

\* A call that is alone finds its name free.
LEMMA SingleCall ==
  ASSUME "overlap" \notin Faults, Inv, Single, NEW c \in Callers, Call(c)
  PROVE  Single'
<1>1. c \in Procs /\ TypeOK /\ Holds /\ \A q \in Procs \ {c} : pc'[q] = pc[q] /\ Id(q)' = Id(q)
  BY Steps DEF Inv, Procs
<1>2. \A d \in Callers : Busy(d)' => d = c
  <2>1. CASE Provide(c)
    BY <1>1, <2>1 DEF Provide, Busy, Procs
  <2>2. CASE ~Provide(c)
    <3>1. Busy(c)
      BY <2>2 DEF Call, Busy, At, Touch, Create, Start, Provided, StartFailed, Find, Inspect,
         Make, Clash, Evict, Remake, Boot, InitScript, Started
    <3> QED
      BY <1>1, <3>1 DEF Single, Busy, Procs
  <2> QED
    BY <2>1, <2>2
<1>3. CASE Find(c)
  <2>1. /\ Same /\ (pc'[c] = "make" => container[Id(c)] = "none") /\ Id(c)' = Id(c)
        /\ pc'[c] \notin Conflict
    BY <1>1, <1>3, FindEffect DEF Moves, Conflict
  <2> QED
    BY <1>1, <1>2, <2>1 DEF Single, Same, Things, Busy, At, Procs
<1>4. CASE Make(c)
  <2>1. pc'[c] \in {"boot", "failed"} /\ clashed' = clashed
    BY <1>1, <1>4, MakeEffect DEF Single, Makes, Moves, Same, Things
  <2> QED
    BY <1>1, <1>2, <2>1 DEF Single, Busy, At, Procs, Conflict
<1>5. CASE ~Find(c) /\ ~Make(c)
  <2>1. pc'[c] \notin {"make"} \cup Conflict /\ clashed' = clashed
    BY <1>1, <1>5, ProvideEffect, TouchEffect, CreateEffect, StartEffect, ProvidedEffect,
       StartFailedEffect, InspectEffect, BootEffect, InitScriptEffect, StartedEffect
    DEF Call, Clash, Evict, Remake, At, Single, Moves, Same, Things, Conflict
  <2> QED
    BY <1>1, <1>2, <2>1 DEF Single, Busy, At, Procs, Conflict
<1> QED
  BY <1>3, <1>4, <1>5

\* A stop creates nothing.
LEMMA SingleStop ==
  ASSUME Inv, Single, NEW p \in Procs, Stop(p)
  PROVE  Single'
<1>1. TypeOK /\ Holds /\ \A q \in Procs \ {p} : pc'[q] = pc[q] /\ Id(q)' = Id(q)
  BY Steps DEF Inv
<1>2. /\ Busy(p) /\ clashed' = clashed /\ pc'[p] \notin {"make"} \cup Conflict
      /\ \A i \in Callers : container'[i] \in {container[i], "none"}
  BY <1>1, MarkEffect, HaltEffect, KillEffect, LookupEffect, RemoveEffect, StoppedEffect, DeleteEffect
  DEF Stop, Busy, At, Moves, Same, Things, Stops, TypeOK, Conflict
<1>3. \A c \in Callers : Busy(c)' => Busy(c)
  BY <1>1, <1>2 DEF Busy, Procs
<1>4. \A c \in Callers : At(c, "make")' => At(c, "make") /\ Id(c)' = Id(c) /\ Id(c) \in Callers
  BY <1>1, <1>2 DEF At, Holds, Procs
<1>5. \A c \in Callers : pc'[c] \notin Conflict
  BY <1>1, <1>2 DEF Single, Procs
<1> QED
  BY <1>2, <1>3, <1>4, <1>5 DEF Single

\* Calls that never overlap never take each other's name, however they fail,
\* whoever cleans up and however often the API restarts: the name conflict of
\* createContainerWithRetry needs two calls for one thread.
THEOREM AloneNoConflict ==
  ASSUME "overlap" \notin Faults
  PROVE  Spec => [](clashed = {})
<1>1. Init => Inv /\ Single
  BY InitInv, SingleInit
<1>2. Inv /\ Single /\ [Next]_vars => Inv' /\ Single'
  <2> SUFFICES ASSUME Inv, Single, [Next]_vars
               PROVE  Single'
    BY NextInv
  <2>1. ASSUME NEW k \in Cleanups, Select(k)
        PROVE  Single'
    <3>1. /\ k \in Procs \ Callers /\ Same
          /\ \A q \in Procs \ {k} : pc'[q] = pc[q] /\ Id(q)' = Id(q)
      BY <2>1, SelectEffect DEF Inv, Moves
    <3> QED
      BY <3>1 DEF Single, Same, Things, Busy, At, Procs
  <2>2. CASE Age
    BY <2>2 DEF Age, sandbox, local, lost, Single, Busy, At, Id
  <2>3. CASE Crash
    <3>1. \A c \in Callers : pc'[c] \in {"idle", "done"}
      BY <2>3 DEF Crash, At, Procs
    <3> QED
      BY <2>3, <3>1 DEF Crash, lost, Single, Busy, At, Conflict
  <2>4. CASE UNCHANGED vars
    BY <2>4 DEF vars, sandbox, local, lost, Single, Busy, At, Id
  <2> QED
    BY <2>1, <2>2, <2>3, <2>4, SingleCall, SingleStop DEF Next
<1>3. Single => clashed = {}
  BY DEF Single
<1> QED
  BY <1>1, <1>2, <1>3, PTL DEF Spec

---------------------------------------------------------------------------
\* The rows, the drivers and the processes are what their types say in every
\* state: an entity keeps its row, and an insert is refused when there is one.
THEOREM TypeCorrect == Spec => []TypeOK
<1>1. Inv => TypeOK
  BY DEF Inv
<1> QED
  BY <1>1, Invariance, PTL

\* ensureRuntimeForRecord: once every call and cleanup is over, the cached driver
\* of a row has the container of its name, whatever calls shared the row, whatever
\* failed, whoever cleaned up and however often the API restarted, as long as no
\* two calls created a container for it.
THEOREM DriverHasContainer == Spec => []NoDeadDriver
<1>1. Inv => NoDeadDriver
  <2> SUFFICES ASSUME Inv, Settled, row.id \in Callers \ clashed
               PROVE  cache[row.id] \in {"none", container[row.id]}
    BY DEF NoDeadDriver
  <2>1. ~Doomed(row.id)
    BY DEF Settled, Busy, Doomed
  <2>2. cache[row.id] \in Known /\ Handle(row.id, cache[row.id])
    BY DEF Inv, TypeOK, Handle
  <2> QED
    BY <2>1, <2>2 DEF Inv, Driven, Known
<1> QED
  BY <1>1, Invariance, PTL

\* Once every call and cleanup is over, a container has its row, or a stop was
\* refused, or a call started it between the stop and the end of its row, or it
\* replaced another one of its name: there is no other way to lose one.
THEOREM ContainerHasRow == Spec => []OrphansSpared
<1>1. Inv => OrphansSpared
  BY DEF Inv, Followed, OrphansSpared, Rowless, Lost
<1> QED
  BY <1>1, Invariance, PTL
===========================================================================
