---------------------------- MODULE SchemaMerge ---------------------------
(***************************************************************************)
(* The three-way merge of graph schemas (graph-merge.service.ts) over the  *)
(* nodes of a schema, a list of [id, cfg].  The diffs are JSON patches, so *)
(* a path names a node by its index in the list: <<i>> or <<i, field>>.    *)
(***************************************************************************)
EXTENDS Naturals, Sequences

CONSTANTS NoMerge,  \* the merge is refused
          Missing   \* there is no value

Fields      == {"id", "cfg"}
Least(m, n) == IF m < n THEN m ELSE n
Ids(s)      == {s[i].id : i \in DOMAIN s}

\* compare: nodes are compared index by index, what is longer is added or removed
Replaced(old, new) ==
  {p \in (DOMAIN old \cap DOMAIN new) \X Fields : old[p[1]][p[2]] # new[p[1]][p[2]]}
Added(old, new)   == {<<i>> : i \in DOMAIN new \ DOMAIN old}
Removed(old, new) == Added(new, old)
Writes(old, new)  == Replaced(old, new) \cup Added(old, new)
Paths(old, new)   == Writes(old, new) \cup Removed(old, new)

ValueAt(s, path) ==
  IF path[1] \notin DOMAIN s THEN Missing
  ELSE IF Len(path) = 1 THEN s[path[1]] ELSE s[path[1]][path[2]]

\* createConcurrentModificationConflict
Concurrent(base, head, client) ==
  {p \in Paths(base, head) \cap Paths(base, client) : ValueAt(head, p) # ValueAt(client, p)}

\* findDeletionConflicts
Deleted(base, new) == {i \in DOMAIN base : base[i].id \notin Ids(new)}
DeletionConflict(base, head, client) ==
  \/ \E i \in Deleted(base, client) : <<i>> \in Writes(base, head)
  \/ \E i \in Deleted(base, head) : \E p \in Writes(base, client) : p[1] = i

\* applyPatch of the client's diff to the head: nodes at the removed indices go,
\* fields are written at their indices, added nodes are spliced in
Trimmed(base, head, client) ==
  SubSeq(head, 1, Least(Len(client), Len(head))) \o SubSeq(head, Len(base) + 1, Len(head))
Rest(base, head, client) ==
  IF Len(client) < Len(base) THEN Trimmed(base, head, client) ELSE head
Patched(s, base, client) ==
  [i \in DOMAIN s |-> [f \in Fields |->
     IF <<i, f>> \in Replaced(base, client) THEN client[i][f] ELSE s[i][f]]]
Spliced(s, base, client) ==
  LET m == Least(Len(base), Len(s))
  IN  SubSeq(s, 1, m) \o SubSeq(client, Len(base) + 1, Len(client)) \o SubSeq(s, m + 1, Len(s))
Applies(base, head, client) ==
  \A p \in Replaced(base, client) : p[1] \in DOMAIN Rest(base, head, client)
Applied(base, head, client) ==
  Spliced(Patched(Rest(base, head, client), base, client), base, client)

\* validateSchema: no two nodes have one id
Valid(s) == \A i, j \in DOMAIN s : s[i].id = s[j].id => i = j

Merge(base, head, client) ==
  IF head = client \/ base = head THEN client
  ELSE IF \/ Concurrent(base, head, client) # {}
          \/ DeletionConflict(base, head, client)
          \/ ~Applies(base, head, client)
          \/ ~Valid(Applied(base, head, client))
       THEN NoMerge
       ELSE Applied(base, head, client)
===========================================================================
