------------------------ MODULE SchemaMerge_proofs ------------------------
(***************************************************************************)
(* What a merge that is not refused keeps, for schemas of every length:    *)
(* the fields that the head or the client has written, at their indices,   *)
(* and the nodes they have added.  (Fields are followed at the indices all *)
(* three have: what either removes is trimmed by index.)                   *)
(***************************************************************************)
EXTENDS SchemaMerge, TLAPS

\* a node, as far as the proofs need to know it: a value for each field
NodesOver(V) == [Fields -> V]

LEMMA LeastIs ==
  ASSUME NEW m \in Nat, NEW n \in Nat
  PROVE  Least(m, n) \in Nat /\ Least(m, n) <= m /\ Least(m, n) <= n /\ Least(m, n) \in {m, n}
BY DEF Least

\* A stretch of a sequence.
LEMMA Stretch ==
  ASSUME NEW S, NEW s \in Seq(S), NEW m \in Nat \ {0}, NEW n \in Nat, n <= Len(s)
  PROVE  /\ SubSeq(s, m, n) \in Seq(S)
         /\ Len(SubSeq(s, m, n)) = IF m <= n THEN n - m + 1 ELSE 0
         /\ \A i \in 1 .. n - m + 1 : SubSeq(s, m, n)[i] = s[m + i - 1]
OBVIOUS

\* Two sequences joined.
LEMMA Joined ==
  ASSUME NEW S, NEW p \in Seq(S), NEW q \in Seq(S)
  PROVE  /\ p \o q \in Seq(S)
         /\ Len(p \o q) = Len(p) + Len(q)
         /\ \A i \in 1 .. Len(p) : (p \o q)[i] = p[i]
         /\ \A i \in 1 .. Len(q) : (p \o q)[Len(p) + i] = q[i]
OBVIOUS

\* The head without what the client has removed: nodes that all three have stay in their
\* place, and so do, behind them, those that the head has added.
LEMMA RestIs ==
  ASSUME NEW S, NEW base \in Seq(S), NEW head \in Seq(S), NEW client \in Seq(S)
  PROVE  /\ Rest(base, head, client) \in Seq(S)
         /\ \A i \in DOMAIN base \cap DOMAIN head \cap DOMAIN client :
              /\ i \in DOMAIN Rest(base, head, client)
              /\ Rest(base, head, client)[i] = head[i]
<1> DEFINE lb == Len(base)  lh == Len(head)  lc == Len(client)
           k == Least(lc, lh)
           p == SubSeq(head, 1, k)
           q == SubSeq(head, lb + 1, lh)
<1>1. lb \in Nat /\ lh \in Nat /\ lc \in Nat
  OBVIOUS
<1>2. CASE ~(lc < lb)
  BY <1>2 DEF Rest
<1>3. CASE lc < lb
  <2>1. k \in Nat /\ k <= lh /\ k \in {lc, lh}
    BY <1>1, LeastIs
  <2>2. p \in Seq(S) /\ Len(p) = k /\ \A i \in 1 .. k : p[i] = head[i]
    <3>1. /\ p \in Seq(S) /\ Len(p) = IF 1 <= k THEN k - 1 + 1 ELSE 0
          /\ \A i \in 1 .. k - 1 + 1 : p[i] = head[1 + i - 1]
      BY <2>1, Stretch
    <3> HIDE DEF p, k
    <3> QED
      BY <2>1, <3>1
  <2>3. q \in Seq(S)
    BY <1>1, Stretch
  <2>4. Rest(base, head, client) = p \o q
    BY <1>3 DEF Rest, Trimmed
  <2> HIDE DEF p, q, k
  <2>5. /\ p \o q \in Seq(S) /\ Len(p \o q) = k + Len(q)
        /\ \A i \in 1 .. k : (p \o q)[i] = p[i]
    BY <2>1, <2>2, <2>3, Joined
  <2>6. \A i \in DOMAIN base \cap DOMAIN head \cap DOMAIN client : i \in 1 .. k
    BY <1>1, <2>1
  <2> QED
    BY <2>1, <2>2, <2>3, <2>4, <2>5, <2>6
<1> QED
  BY <1>2, <1>3

\* Writing fields keeps the length, and the fields that are not written.
LEMMA PatchedIs ==
  ASSUME NEW V, NEW base \in Seq(NodesOver(V)), NEW client \in Seq(NodesOver(V)),
         NEW s \in Seq(NodesOver(V))
  PROVE  /\ Patched(s, base, client) \in Seq(NodesOver(V))
         /\ Len(Patched(s, base, client)) = Len(s)
         /\ \A i \in DOMAIN s, f \in Fields :
              Patched(s, base, client)[i][f] =
                IF <<i, f>> \in Replaced(base, client) THEN client[i][f] ELSE s[i][f]
<1>1. \A i \in DOMAIN s, f \in Fields :
        (IF <<i, f>> \in Replaced(base, client) THEN client[i][f] ELSE s[i][f]) \in V
  <2> SUFFICES ASSUME NEW i \in DOMAIN s, NEW f \in Fields
               PROVE (IF <<i, f>> \in Replaced(base, client) THEN client[i][f] ELSE s[i][f]) \in V
    OBVIOUS
  <2>1. s[i] \in NodesOver(V)
    OBVIOUS
  <2>2. <<i, f>> \in Replaced(base, client) => client[i] \in NodesOver(V)
    <3>1. <<i, f>> \in Replaced(base, client) => i \in DOMAIN client
      BY DEF Replaced
    <3> QED
      BY <3>1
  <2> QED
    BY <2>1, <2>2 DEF NodesOver
<1>2. \A i \in DOMAIN s : Patched(s, base, client)[i] \in NodesOver(V)
  BY <1>1 DEF Patched, NodesOver
<1>3. Len(s) \in Nat /\ DOMAIN Patched(s, base, client) = 1 .. Len(s)
  BY DEF Patched
<1>4. Patched(s, base, client) = [i \in 1 .. Len(s) |-> Patched(s, base, client)[i]]
  BY <1>3 DEF Patched
<1>5. Patched(s, base, client) \in Seq(NodesOver(V)) /\ Len(Patched(s, base, client)) = Len(s)
  <2> DEFINE e(i) == Patched(s, base, client)[i]
  <2>1. \A i \in 1 .. Len(s) : e(i) \in NodesOver(V)
    BY <1>2
  <2> HIDE DEF e
  <2>2. [i \in 1 .. Len(s) |-> e(i)] \in Seq(NodesOver(V)) /\ Len([i \in 1 .. Len(s) |-> e(i)]) = Len(s)
    BY <1>3, <2>1
  <2> QED
    BY <1>4, <2>2 DEF e
<1>6. \A i \in DOMAIN s, f \in Fields :
        Patched(s, base, client)[i][f] =
          IF <<i, f>> \in Replaced(base, client) THEN client[i][f] ELSE s[i][f]
  BY DEF Patched
<1> QED
  BY <1>5, <1>6

\* Splicing in the client's added nodes moves none of those before them.
LEMMA SplicedIs ==
  ASSUME NEW S, NEW base \in Seq(S), NEW client \in Seq(S), NEW s \in Seq(S)
  PROVE  /\ \A i \in DOMAIN base \cap DOMAIN s : Spliced(s, base, client)[i] = s[i]
         /\ \A i \in DOMAIN client \ DOMAIN base :
              \E j \in DOMAIN Spliced(s, base, client) : Spliced(s, base, client)[j] = client[i]
<1> DEFINE lb == Len(base)  ls == Len(s)  lc == Len(client)
           m == Least(lb, ls)
           p == SubSeq(s, 1, m)
           q == SubSeq(client, lb + 1, lc)
           t == SubSeq(s, m + 1, ls)
           r == Spliced(s, base, client)
<1>1. lb \in Nat /\ ls \in Nat /\ lc \in Nat
  OBVIOUS
<1>2. m \in Nat /\ m <= ls /\ m <= lb /\ m \in {lb, ls}
  BY <1>1, LeastIs
<1>3. p \in Seq(S) /\ Len(p) = m /\ \A i \in 1 .. m : p[i] = s[i]
  <2>1. /\ p \in Seq(S) /\ Len(p) = IF 1 <= m THEN m - 1 + 1 ELSE 0
        /\ \A i \in 1 .. m - 1 + 1 : p[i] = s[1 + i - 1]
    BY <1>2, Stretch
  <2> HIDE DEF p, m
  <2> QED
    BY <1>2, <2>1
<1>4. /\ q \in Seq(S) /\ Len(q) = IF lb + 1 <= lc THEN lc - lb ELSE 0
      /\ \A i \in 1 .. lc - lb : q[i] = client[lb + i]
  <2>1. /\ q \in Seq(S) /\ Len(q) = IF lb + 1 <= lc THEN lc - (lb + 1) + 1 ELSE 0
        /\ \A i \in 1 .. lc - (lb + 1) + 1 : q[i] = client[(lb + 1) + i - 1]
    BY <1>1, Stretch
  <2> HIDE DEF q
  <2> QED
    BY <1>1, <2>1
<1>5. t \in Seq(S)
  BY <1>1, <1>2, Stretch
<1>6. r = (p \o q) \o t
  BY DEF Spliced
<1> HIDE DEF p, q, t, m, r
<1>7. /\ p \o q \in Seq(S) /\ Len(p \o q) = m + Len(q)
      /\ \A i \in 1 .. m : (p \o q)[i] = p[i]
      /\ \A i \in 1 .. Len(q) : (p \o q)[m + i] = q[i]
  <2>1. p \in Seq(S) /\ q \in Seq(S)
    BY <1>3, <1>4
  <2>2. /\ p \o q \in Seq(S) /\ Len(p \o q) = Len(p) + Len(q)
        /\ \A i \in 1 .. Len(p) : (p \o q)[i] = p[i]
        /\ \A i \in 1 .. Len(q) : (p \o q)[Len(p) + i] = q[i]
    BY <2>1, Joined
  <2> QED
    BY <1>3, <2>2
<1>8. /\ r \in Seq(S) /\ Len(r) = m + Len(q) + Len(t)
      /\ \A i \in 1 .. m + Len(q) : r[i] = (p \o q)[i]
  <2> DEFINE u == p \o q
  <2>1. u \in Seq(S) /\ Len(u) = m + Len(q) /\ r = u \o t
    BY <1>6, <1>7
  <2> HIDE DEF u
  <2>2. u \in Seq(S) /\ t \in Seq(S)
    BY <1>5, <2>1
  <2>3. /\ u \o t \in Seq(S) /\ Len(u \o t) = Len(u) + Len(t)
        /\ \A i \in 1 .. Len(u) : (u \o t)[i] = u[i]
    BY <2>2, Joined
  <2> QED
    BY <2>1, <2>3 DEF u
<1>9. Len(q) \in Nat /\ Len(t) \in Nat
  BY <1>4, <1>5
<1>10. ASSUME NEW i \in DOMAIN base \cap DOMAIN s PROVE r[i] = s[i]
  <2>1. i \in 1 .. m
    BY <1>1, <1>2
  <2> QED
    BY <1>2, <1>3, <1>7, <1>8, <1>9, <2>1
<1>11. ASSUME NEW i \in DOMAIN client \ DOMAIN base PROVE \E j \in DOMAIN r : r[j] = client[i]
  <2> DEFINE d == i - lb
  <2>1. d \in 1 .. lc - lb /\ lb + d = i /\ Len(q) = lc - lb
    BY <1>1, <1>4
  <2>2. q[d] = client[i] /\ (p \o q)[m + d] = q[d]
    BY <1>4, <1>7, <2>1
  <2>3. m + d \in 1 .. m + Len(q) /\ m + d \in DOMAIN r
    BY <1>2, <1>8, <1>9, <2>1
  <2> QED
    BY <1>8, <2>2, <2>3
<1> QED
  BY <1>10, <1>11 DEF r

(* What a merge keeps: at every index of all three, a field the client has
   written is the client's and a field the head has written is the head's,
   since a field that both have written differently is a conflict; and every
   node the client has added is there. *)
THEOREM MergeKeepsBoth ==
  ASSUME NEW V, NEW base \in Seq(NodesOver(V)), NEW head \in Seq(NodesOver(V)),
         NEW client \in Seq(NodesOver(V)), Merge(base, head, client) # NoMerge
  PROVE  /\ \A i \in DOMAIN base \cap DOMAIN head \cap DOMAIN client, f \in Fields :
              /\ client[i][f] # base[i][f] => Merge(base, head, client)[i][f] = client[i][f]
              /\ head[i][f] # base[i][f] => Merge(base, head, client)[i][f] = head[i][f]
         /\ \A i \in DOMAIN client \ DOMAIN base :
              \E j \in DOMAIN Merge(base, head, client) : Merge(base, head, client)[j] = client[i]
<1>1. CASE head = client \/ base = head
  <2>1. Merge(base, head, client) = client
    BY <1>1 DEF Merge
  <2>2. \A i \in DOMAIN client \ DOMAIN base : \E j \in DOMAIN client : client[j] = client[i]
    OBVIOUS
  <2> QED
    BY <1>1, <2>1, <2>2
<1>2. CASE ~(head = client \/ base = head)
  <2> DEFINE rest == Rest(base, head, client)
             s == Patched(rest, base, client)
  <2>1. Concurrent(base, head, client) = {} /\ Merge(base, head, client) = Spliced(s, base, client)
    BY <1>2 DEF Merge, Applied
  <2>2. rest \in Seq(NodesOver(V))
    BY RestIs
  <2>3. s \in Seq(NodesOver(V)) /\ DOMAIN s = DOMAIN rest
    <3>1. s \in Seq(NodesOver(V)) /\ Len(s) = Len(rest)
      BY <2>2, PatchedIs
    <3> HIDE DEF s, rest
    <3> QED
      BY <2>2, <3>1
  <2>4. ASSUME NEW i \in DOMAIN base \cap DOMAIN head \cap DOMAIN client, NEW f \in Fields
        PROVE  Merge(base, head, client)[i][f] =
                 IF client[i][f] # base[i][f] THEN client[i][f] ELSE head[i][f]
    <3>1. i \in DOMAIN rest /\ rest[i] = head[i]
      BY RestIs
    <3>2. s[i][f] = IF <<i, f>> \in Replaced(base, client) THEN client[i][f] ELSE rest[i][f]
      BY <2>2, <3>1, PatchedIs
    <3>3. <<i, f>> \in Replaced(base, client) <=> client[i][f] # base[i][f]
      BY DEF Replaced
    <3>4. Spliced(s, base, client)[i] = s[i]
      <4> HIDE DEF s, rest
      <4> QED
        BY <2>3, <3>1, SplicedIs
    <3> QED
      BY <2>1, <3>1, <3>2, <3>3, <3>4
  <2>5. ASSUME NEW i \in DOMAIN base \cap DOMAIN head \cap DOMAIN client, NEW f \in Fields,
               client[i][f] # base[i][f], head[i][f] # base[i][f]
        PROVE  client[i][f] = head[i][f]
    <3>1. <<i, f>> \in Paths(base, head) \cap Paths(base, client)
      BY <2>5 DEF Paths, Writes, Replaced
    <3>2. ValueAt(head, <<i, f>>) = ValueAt(client, <<i, f>>)
      BY <2>1, <3>1 DEF Concurrent
    <3> QED
      BY <3>2 DEF ValueAt
  <2>6. ASSUME NEW i \in DOMAIN client \ DOMAIN base
        PROVE  \E j \in DOMAIN Spliced(s, base, client) : Spliced(s, base, client)[j] = client[i]
    <3> HIDE DEF s
    <3> QED
      BY <2>3, SplicedIs
  <2> QED
    BY <2>1, <2>4, <2>5, <2>6
<1> QED
  BY <1>1, <1>2
---------------------------------------------------------------------------
\* a node as the record it is
NodeOf(N, C) == [id : N, cfg : C]

\* The same for nodes that are records: the client's fields at their indices.
LEMMA PatchedNodes ==
  ASSUME NEW N, NEW C, NEW base \in Seq(NodeOf(N, C)), NEW client \in Seq(NodeOf(N, C)),
         NEW s \in Seq(NodeOf(N, C))
  PROVE  Patched(s, base, client) \in Seq(NodeOf(N, C))
<1> DEFINE v(i, f) == IF <<i, f>> \in Replaced(base, client) THEN client[i][f] ELSE s[i][f]
           w(i) == [f \in Fields |-> v(i, f)]
<1>1. \A i \in DOMAIN s : v(i, "id") \in N /\ v(i, "cfg") \in C
  <2> SUFFICES ASSUME NEW i \in DOMAIN s PROVE v(i, "id") \in N /\ v(i, "cfg") \in C
    OBVIOUS
  <2>1. s[i] \in NodeOf(N, C)
    OBVIOUS
  <2>2. ASSUME NEW f \in Fields, <<i, f>> \in Replaced(base, client)
        PROVE  client[i] \in NodeOf(N, C)
    <3>1. i \in DOMAIN client
      BY <2>2 DEF Replaced
    <3> QED
      BY <3>1
  <2> QED
    BY <2>1, <2>2 DEF Fields, NodeOf
<1>2. \A i \in DOMAIN s : w(i) \in NodeOf(N, C)
  <2> HIDE DEF v
  <2> QED
    BY <1>1 DEF Fields, NodeOf
<1>3. Patched(s, base, client) = [i \in 1 .. Len(s) |-> w(i)]
  BY DEF Patched
<1>4. [i \in 1 .. Len(s) |-> w(i)] \in Seq(NodeOf(N, C))
  <2> HIDE DEF w
  <2>1. Len(s) \in Nat /\ \A i \in 1 .. Len(s) : w(i) \in NodeOf(N, C)
    BY <1>2
  <2> QED
    BY <2>1
<1> QED
  BY <1>3, <1>4

(* A merge of schemas that is not refused is a schema: its nodes are nodes of
   the head or the client, or fields of theirs at one index, and no two of them
   have one id if no two of the client's have. *)
THEOREM MergeIsSchema ==
  ASSUME NEW N, NEW C, NEW base \in Seq(NodeOf(N, C)), NEW head \in Seq(NodeOf(N, C)),
         NEW client \in Seq(NodeOf(N, C)), Valid(client), Merge(base, head, client) # NoMerge
  PROVE  Merge(base, head, client) \in Seq(NodeOf(N, C)) /\ Valid(Merge(base, head, client))
<1> DEFINE S == NodeOf(N, C)
<1>1. CASE head = client \/ base = head
  BY <1>1 DEF Merge
<1>2. CASE ~(head = client \/ base = head)
  <2>1. Merge(base, head, client) = Applied(base, head, client) /\ Valid(Applied(base, head, client))
    BY <1>2 DEF Merge
  <2> DEFINE s == Patched(Rest(base, head, client), base, client)
             m == Least(Len(base), Len(s))
             p == SubSeq(s, 1, m)
             q == SubSeq(client, Len(base) + 1, Len(client))
             t == SubSeq(s, m + 1, Len(s))
  <2>2. s \in Seq(S)
    BY RestIs, PatchedNodes
  <2>3. Len(base) \in Nat /\ Len(s) \in Nat /\ Len(client) \in Nat
    BY <2>2
  <2>4. m \in Nat /\ m <= Len(s)
    BY <2>3, LeastIs
  <2>5. p \in Seq(S) /\ q \in Seq(S) /\ t \in Seq(S)
    <3> HIDE DEF S, s, m
    <3>1. client \in Seq(S)
      BY DEF S
    <3> QED
      BY <2>2, <2>3, <2>4, <3>1, Stretch
  <2>6. Applied(base, head, client) = (p \o q) \o t
    BY DEF Applied, Spliced
  <2> HIDE DEF S, s, m, p, q, t
  <2>7. (p \o q) \o t \in Seq(S)
    BY <2>5, Joined
  <2> QED
    BY <2>1, <2>6, <2>7 DEF S
<1> QED
  BY <1>1, <1>2
===========================================================================
