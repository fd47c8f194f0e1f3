-------------------------- MODULE NodeConfigProofs --------------------------
(***************************************************************************)
(* Theorems about NodeConfig: the generator refuses exactly what is broken, *)
(* and what it builds is complete and has no tag twice, for any number of   *)
(* nodes linked in any way.                                                 *)
(***************************************************************************)
EXTENDS NodeConfig, SequenceTheorems, TLAPS

-----------------------------------------------------------------------------
(* The table as a graph: N are the nodes, R the rows.                        *)

\* The nodes that traffic of a node may go to next, those that are there.
Drawn(R, n) ==
  (IF R[n].group THEN R[n].members ELSE {PreferConfig(R[n])}) \ {0}

Edges(N, R) == [n \in N |-> Drawn(R, n) \cap N]

\* Nodes no traffic may come to: groups without members or with a deleted one.
Broken(N, R) ==
  {n \in N : R[n].group /\ (R[n].members = {} \/ ~(R[n].members \subseteq N))}

Closed(E, C) == \A k \in C : E[k] \subseteq C

Reached(N, E, S) ==
  {m \in N : \A C \in SUBSET N :
     S \cap N \subseteq C /\ Closed(E, C) => m \in C}

\* The nodes after m.
After(N, E, m) == Reached(N, E, E[m])

\* The nodes that are sound.
Good(N, E, B) ==
  {n \in N : \A m \in Reached(N, E, {n}) :
     m \notin After(N, E, m) /\ m \notin B}

Agree(N, R) ==
  \A n \in N : ~R[n].group =>
    R[n].detour = 0 \/ R[n].detourId \in {0, R[n].detour}

-----------------------------------------------------------------------------
(* The inductive invariant.                                                  *)

IsGroup(f) == f.members # {}

Last(f) == f.path[Len(f.path)]

\* A frame by itself: every node on it is one traffic of n may pass, the
\* nodes of a chain follow each other, each once, and what it goes on to
\* follows the last.
FrameOK(N, R, n, f) ==
  LET E == Edges(N, R)
      p == f.path
  IN /\ p \in Seq(N) /\ p # <<>>
     /\ \A i \in DOMAIN p : p[i] \in Reached(N, E, {n})
     /\ IsGroup(f) =>
          /\ Len(p) = 1 /\ R[p[1]].group /\ f.members = R[p[1]].members
          /\ f.left \subseteq f.members /\ f.next = 0
     /\ ~IsGroup(f) =>
          /\ \A i \in DOMAIN p : ~R[p[i]].group
          /\ \A i, j \in DOMAIN p : i < j =>
               p[i] # p[j] /\ p[j] \in After(N, E, p[i])
          /\ \A i \in DOMAIN p : i + 1 \in DOMAIN p => E[p[i]] = {p[i + 1]}
          /\ f.next \in {0, PreferConfig(R[Last(f)])} /\ f.left = {}

\* What has been processed from frame f on.
Processed(N, R, f) ==
  IF IsGroup(f) THEN f.members \ f.left
  ELSE Edges(N, R)[Last(f)] \ {f.next}

\* The frames below frame k are ahead of it: whoever meets a group that is
\* open has come around.  What a frame has processed is sound, or being
\* processed by the frame above.
StackOK(N, R, s) ==
  LET E == Edges(N, R)
  IN /\ \A j, k \in DOMAIN s : j < k /\ IsGroup(s[j]) =>
          /\ \A i \in DOMAIN s[k].path :
               s[k].path[i] \in After(N, E, s[j].path[1])
          /\ IsGroup(s[k]) => s[j].path[1] # s[k].path[1]
     /\ \A k \in DOMAIN s :
          /\ k < Len(s) => s[k].next = 0
          /\ \A m \in Processed(N, R, s[k]) :
               \/ m \in Good(N, E, Broken(N, R))
               \/ k < Len(s) /\ m = s[k + 1].path[1]

\* The nodes that have an outbound.
Added(o) == {m \in Id : \E k \in DOMAIN o : o[k].tag = NodeTag(m)}

Open(s) == {s[k].path[1] : k \in {j \in DOMAIN s : IsGroup(s[j])}}

\* An added node's targets are added, open, or what the top goes on to.
Covered(N, R, s, o) ==
  LET E == Edges(N, R)
  IN /\ \A x \in Added(o) \cap N : \A y \in E[x] :
          \/ y \in Added(o) \cup Open(s)
          \/ /\ s # <<>> /\ ~IsGroup(s[Len(s)])
             /\ x = Last(s[Len(s)]) /\ y = s[Len(s)].next
     /\ \A k \in DOMAIN s :
          IF IsGroup(s[k])
          THEN s[k].members \ s[k].left \subseteq Added(o) \cup Open(s)
          ELSE \A i \in DOMAIN s[k].path : s[k].path[i] \in Added(o)

\* The outbounds are those of nodes traffic of n may pass.
OutboundsOK(N, R, n, o) ==
  /\ \A k \in DOMAIN o : \E m \in Reached(N, Edges(N, R), {n}) :
       o[k] = Outbound(NodeTag(m), ConfigTargets(R[m]))
  /\ R[n].group => n \notin Added(o)

\* A generation for node n under way on a table that rests.
WalkOK(N, R, n, s, o) ==
  /\ s # <<>> /\ s[1].path[1] = n /\ (IsGroup(s[1]) <=> R[n].group)
  /\ \A k \in DOMAIN s : FrameOK(N, R, n, s[k])
  /\ StackOK(N, R, s) /\ Covered(N, R, s, o) /\ OutboundsOK(N, R, n, o)

\* The detour_id of the node that starts is looked up, whether used or not.
Found(N, R, n) == R[n].group \/ R[n].detourId \in N \cup {0}

Resting == edits = 0 /\ Agree(nodes, row)

WalkInv ==
  Resting /\ pc \in {"detour", "walk"} =>
    /\ start \in nodes /\ copy = row[start]
    /\ WalkOK(nodes, row, start, stack, outbounds)
    /\ pc = "detour" =>
         /\ stack = <<ChainFrame(start, row[start])>>
         /\ ~row[start].group /\ row[start].detourId # 0
    /\ pc = "walk" => Found(nodes, row, start)

\* The nodes that should have a configuration.
Startable(N, R, n) == n \in Good(N, Edges(N, R), Broken(N, R)) /\ Found(N, R, n)

\* The outbounds are those of the nodes traffic of n may pass, and what they
\* refer to is there, or was deleted.
Complete(N, R, n, o) ==
  LET tags == {o[k].tag : k \in DOMAIN o}
      own == IF R[n].group THEN PolicyTag(n) ELSE NodeTag(n)
  IN /\ tags = {NodeTag(m) : m \in Reached(N, Edges(N, R), {n}) \ {n}}
                 \cup {own}
     /\ \A k \in DOMAIN o :
          o[k].refs \subseteq tags \cup {NodeTag(m) : m \in Id \ N}

ResultInv ==
  Resting /\ pc \in {"done", "refused"} =>
    /\ start \in nodes
    /\ pc = "done" <=> Startable(nodes, row, start)
    /\ pc = "done" => Complete(nodes, row, start, outbounds)

\* While the walk goes on, only nodes have outbounds.
TagInv ==
  /\ TagsUnique
  /\ pc = "idle" => outbounds = <<>>
  /\ pc \in {"detour", "walk"} =>
       \A k \in DOMAIN outbounds :
         \E m \in Id : outbounds[k].tag = NodeTag(m)

IInv == TypeOK /\ TagInv /\ WalkInv /\ ResultInv


-----------------------------------------------------------------------------
(* Graphs: N are the nodes, E[n] the targets of node n.                      *)

LEMMA ReachedFrom ==
  ASSUME NEW N, NEW E, NEW S, NEW x \in S \cap N
  PROVE  x \in Reached(N, E, S)
  BY DEF Reached

LEMMA ReachedStep ==
  ASSUME NEW N, NEW E \in [N -> SUBSET N], NEW S,
         NEW x \in Reached(N, E, S), NEW y \in E[x]
  PROVE  y \in Reached(N, E, S)
  BY DEF Reached, Closed

LEMMA ReachedLeast ==
  ASSUME NEW N, NEW E, NEW S, NEW C \in SUBSET N, S \cap N \subseteq C,
         Closed(E, C)
  PROVE  Reached(N, E, S) \subseteq C
  BY DEF Reached

LEMMA ReachedIn ==
  ASSUME NEW N, NEW E \in [N -> SUBSET N], NEW S
  PROVE  Reached(N, E, S) \in SUBSET N /\ Closed(E, Reached(N, E, S))
<1>1. Reached(N, E, S) \subseteq N
  BY DEF Reached
<1>2. ASSUME NEW k \in Reached(N, E, S), NEW y \in E[k]
      PROVE  y \in Reached(N, E, S)
  BY <1>2, ReachedStep
<1> QED
  BY <1>1, <1>2 DEF Closed

LEMMA AfterFirst ==
  ASSUME NEW N, NEW E \in [N -> SUBSET N], NEW x \in N, NEW y \in E[x]
  PROVE  y \in After(N, E, x)
  BY ReachedFrom DEF After

LEMMA AfterStep ==
  ASSUME NEW N, NEW E \in [N -> SUBSET N], NEW x, NEW y \in After(N, E, x),
         NEW z \in E[y]
  PROVE  z \in After(N, E, x)
  BY ReachedStep DEF After

\* What can be reached from n is n and what comes after it.
LEMMA ReachedAfter ==
  ASSUME NEW N, NEW E \in [N -> SUBSET N], NEW n \in N
  PROVE  Reached(N, E, {n}) \subseteq After(N, E, n) \cup {n}
<1> DEFINE C == After(N, E, n) \cup {n}
<1>1. C \in SUBSET N
  BY ReachedIn DEF After
<1>2. ASSUME NEW k \in C, NEW y \in E[k]
      PROVE  y \in C
  <2>1. CASE k = n
    BY <1>2, <2>1, AfterFirst
  <2>2. CASE k \in After(N, E, n)
    BY <1>2, <2>2, AfterStep
  <2> QED
    BY <2>1, <2>2
<1>3. Closed(E, C)
  BY <1>2 DEF Closed
<1> HIDE DEF C
<1>4. {n} \cap N \subseteq C
  BY DEF C
<1>5. Reached(N, E, {n}) \subseteq C
  BY <1>1, <1>3, <1>4, ReachedLeast
<1> QED
  BY <1>5 DEF C

\* What is after a sound node is sound.
LEMMA GoodClosed ==
  ASSUME NEW N, NEW E \in [N -> SUBSET N], NEW B
  PROVE  Good(N, E, B) \in SUBSET N /\ Closed(E, Good(N, E, B))
<1>1. Good(N, E, B) \subseteq N
  BY DEF Good
<1>2. ASSUME NEW x \in Good(N, E, B), NEW y \in E[x]
      PROVE  y \in Good(N, E, B)
  <2>1. x \in N /\ y \in N
    BY <1>1, <1>2
  <2>2. y \in Reached(N, E, {x})
    BY <1>2, <2>1, ReachedFrom, ReachedStep
  <2>3. Reached(N, E, {y}) \subseteq Reached(N, E, {x})
    BY <2>2, ReachedIn, ReachedLeast
  <2> QED
    BY <1>2, <2>1, <2>3 DEF Good
<1> QED
  BY <1>1, <1>2 DEF Closed

\* Nodes of a path that ends where all is sound are sound: each is followed
\* by the next.
LEMMA GoodPath ==
  ASSUME NEW N, NEW E \in [N -> SUBSET N], NEW B,
         NEW p \in Seq(N), p # <<>>,
         \A i \in DOMAIN p : p[i] \notin B,
         \A i, j \in DOMAIN p : i < j => p[i] # p[j],
         \A i \in DOMAIN p : i + 1 \in DOMAIN p => E[p[i]] = {p[i + 1]},
         E[p[Len(p)]] \subseteq Good(N, E, B)
  PROVE  p[1] \in Good(N, E, B)
<1> DEFINE G == Good(N, E, B)
           D(i) == {p[j] : j \in {j \in DOMAIN p : i < j}} \cup G
<1>1. /\ Len(p) \in Nat \ {0} /\ DOMAIN p = 1..Len(p)
      /\ \A i \in DOMAIN p : p[i] \in N
  OBVIOUS
<1>2. G \in SUBSET N /\ Closed(E, G)
  BY GoodClosed
<1> HIDE DEF G
<1>3. ASSUME NEW i \in Nat
      PROVE  D(i) \in SUBSET N /\ Closed(E, D(i))
  <2>1. D(i) \in SUBSET N
    BY <1>1, <1>2
  <2>2. ASSUME NEW k \in D(i), NEW y \in E[k]
        PROVE  y \in D(i)
    <3>1. CASE k \in G
      BY <2>2, <3>1, <1>2 DEF Closed
    <3>2. ASSUME NEW j \in DOMAIN p, i < j, k = p[j]
          PROVE  y \in D(i)
      <4>1. CASE j = Len(p)
        BY <2>2, <3>2, <4>1 DEF G
      <4>2. CASE j # Len(p)
        <5>1. j + 1 \in DOMAIN p /\ i < j + 1
          BY <1>1, <3>2, <4>2
        <5>2. y = p[j + 1]
          BY <2>2, <3>2, <5>1
        <5> QED
          BY <5>1, <5>2
      <4> QED
        BY <4>1, <4>2
    <3> QED
      BY <2>2, <3>1, <3>2
  <2> QED
    BY <2>1, <2>2 DEF Closed
<1>4. ASSUME NEW i \in DOMAIN p, p[i] \notin G
      PROVE  p[i] \notin After(N, E, p[i])
  <2>1. i \in Nat
    BY <1>1
  <2>2. E[p[i]] \subseteq D(i)
    <3>1. CASE i = Len(p)
      BY <3>1 DEF G
    <3>2. CASE i # Len(p)
      <4>1. i + 1 \in DOMAIN p /\ i < i + 1
        BY <1>1, <3>2
      <4> QED
        BY <4>1
    <3> QED
      BY <3>1, <3>2
  <2>3. p[i] \notin D(i)
    BY <1>4
  <2>4. D(i) \in SUBSET N /\ Closed(E, D(i))
    BY <1>3, <2>1
  <2> HIDE DEF D
  <2>5. After(N, E, p[i]) \subseteq D(i)
    BY <2>2, <2>4, ReachedLeast DEF After
  <2> QED
    BY <2>3, <2>5
<1>5. p[1] \in D(0) /\ p[1] \in N
  BY <1>1
<1>6. D(0) \in SUBSET N /\ Closed(E, D(0))
  BY <1>3
<1>7. ASSUME NEW m \in D(0)
      PROVE  m \notin After(N, E, m) /\ m \notin B
  <2>1. CASE m \in G
    <3>1. m \in N /\ m \in Reached(N, E, {m})
      BY <2>1, <1>2, ReachedFrom
    <3> QED
      BY <2>1, <3>1 DEF G, Good
  <2>2. CASE m \notin G
    BY <2>2, <1>4
  <2> QED
    BY <2>1, <2>2
<1> HIDE DEF D
<1>8. Reached(N, E, {p[1]}) \subseteq D(0)
  BY <1>5, <1>6, ReachedLeast
<1> QED
  BY <1>5, <1>7, <1>8 DEF Good

\* A node is sound if what it goes on to is.
LEMMA GoodUp ==
  ASSUME NEW N, NEW E \in [N -> SUBSET N], NEW B, NEW x \in N, x \notin B,
         E[x] \subseteq Good(N, E, B)
  PROVE  x \in Good(N, E, B)
<1> DEFINE p == <<x>>
<1>1. p \in Seq(N) /\ Len(p) = 1 /\ p[1] = x /\ DOMAIN p = {1} /\ p # <<>>
  OBVIOUS
<1> HIDE DEF p
<1> QED
  BY <1>1, GoodPath

\* Where traffic of n comes around, or comes to a broken node, n is not sound.
LEMMA NotGood ==
  ASSUME NEW N, NEW E, NEW B, NEW n, NEW m \in Reached(N, E, {n}),
         m \in After(N, E, m) \/ m \in B
  PROVE  n \notin Good(N, E, B)
  BY DEF Good

-----------------------------------------------------------------------------
(* Tables.                                                                   *)

TableOK(N, R) ==
  /\ N \subseteq Id /\ R \in [Id -> Row]
  /\ \A n \in Id : WellFormed(R[n])
  /\ Agree(N, R)

Built == Seq([tag : Tag, refs : SUBSET Tag])

LEMMA Facts == MaxId \in Nat /\ Id = 1..MaxId /\ 0 \notin Id /\ Id \subseteq Nat
  BY NodeConfigAssumption DEF Id

LEMMA EdgesIn ==
  ASSUME NEW N, NEW R
  PROVE  Edges(N, R) \in [N -> SUBSET N]
  BY DEF Edges

\* A row of the table.
LEMMA RowFields ==
  ASSUME NEW N, NEW R, TableOK(N, R), NEW x \in N
  PROVE  /\ x \in Id /\ R[x] \in Row /\ WellFormed(R[x]) /\ x # 0
         /\ R[x].group \in BOOLEAN /\ R[x].members \subseteq Id
         /\ R[x].detour \in 0..MaxId /\ R[x].detourId \in 0..MaxId
         /\ PreferConfig(R[x]) \in 0..MaxId
         /\ ConfigTargets(R[x]) \subseteq Id
<1>1. x \in Id /\ R[x] \in Row /\ WellFormed(R[x]) /\ x # 0
  BY Facts DEF TableOK
<1>2. /\ R[x].group \in BOOLEAN /\ R[x].members \subseteq Id
      /\ R[x].detour \in 0..MaxId /\ R[x].detourId \in 0..MaxId
  BY <1>1 DEF Row
<1>3. {R[x].detour} \ {0} \subseteq Id
  BY <1>2, Facts
<1> QED
  BY <1>1, <1>2, <1>3 DEF PreferConfig, ConfigTargets

LEMMA EdgesGroup ==
  ASSUME NEW N, NEW R, TableOK(N, R), NEW x \in N, R[x].group
  PROVE  /\ Edges(N, R)[x] = R[x].members \cap N
         /\ ConfigTargets(R[x]) = R[x].members
<1>1. 0 \notin N
  BY Facts DEF TableOK
<1>2. R[x].detour = 0
  BY RowFields DEF WellFormed
<1> QED
  BY <1>1, <1>2 DEF Edges, Drawn, ConfigTargets

LEMMA EdgesNormal ==
  ASSUME NEW N, NEW R, TableOK(N, R), NEW x \in N, ~R[x].group
  PROVE  /\ Edges(N, R)[x] = {PreferConfig(R[x])} \cap N
         /\ PreferColumn(R[x]) = PreferConfig(R[x])
         /\ ConfigTargets(R[x]) \cap N \subseteq Edges(N, R)[x]
         /\ x \notin Broken(N, R)
<1>1. 0 \notin N
  BY Facts DEF TableOK
<1>2. R[x].detour = 0 \/ R[x].detourId \in {0, R[x].detour}
  BY DEF TableOK, Agree
<1>3. R[x].members = {}
  BY RowFields DEF WellFormed
<1>4. Edges(N, R)[x] = {PreferConfig(R[x])} \cap N
  BY <1>1 DEF Edges, Drawn
<1>5. PreferColumn(R[x]) = PreferConfig(R[x])
  BY <1>2 DEF PreferColumn, PreferConfig
<1>6. ConfigTargets(R[x]) \cap N \subseteq Edges(N, R)[x]
  BY <1>1, <1>3, <1>4 DEF ConfigTargets, PreferConfig
<1> QED
  BY <1>4, <1>5, <1>6 DEF Broken

-----------------------------------------------------------------------------
(* Outbounds and stacks.                                                     *)

LEMMA TagsDiffer ==
  /\ \A m, n : NodeTag(m) = NodeTag(n) => m = n
  /\ \A m, n : NodeTag(m) # PolicyTag(n)
  /\ \A n \in Id : NodeTag(n) \in Tag /\ PolicyTag(n) \in Tag
  BY DEF NodeTag, PolicyTag, Tag

\* What Add makes of the outbounds o.
AddTo(o, n, targets) ==
  IF NodeTag(n) \in {o[k].tag : k \in DOMAIN o} THEN o
  ELSE Append(o, Outbound(NodeTag(n), targets))

LEMMA OutboundTyped ==
  ASSUME NEW tag \in Tag, NEW targets, targets \subseteq Id
  PROVE  /\ Outbound(tag, targets) \in [tag : Tag, refs : SUBSET Tag]
         /\ Outbound(tag, targets).tag = tag
         /\ Outbound(tag, targets).refs = {NodeTag(m) : m \in targets}
  BY TagsDiffer DEF Outbound

LEMMA AddedTo ==
  ASSUME NEW o \in Built, NEW n \in Id, NEW targets, targets \subseteq Id,
         NEW q, q = AddTo(o, n, targets)
  PROVE  /\ q \in Built /\ Added(q) = Added(o) \cup {n}
         /\ \A k \in DOMAIN q :
              \/ k \in DOMAIN o /\ q[k] = o[k]
              \/ /\ n \notin Added(o) /\ k = Len(o) + 1
                 /\ q[k] = Outbound(NodeTag(n), targets)
<1> DEFINE x == Outbound(NodeTag(n), targets)
<1>1. x \in [tag : Tag, refs : SUBSET Tag] /\ x.tag = NodeTag(n)
  BY OutboundTyped, TagsDiffer
<1> HIDE DEF x
<1>2. CASE NodeTag(n) \in {o[k].tag : k \in DOMAIN o}
  <2>1. q = o
    BY <1>2 DEF AddTo
  <2>2. n \in Added(o)
    BY <1>2 DEF Added
  <2> QED
    BY <2>1, <2>2
<1>3. CASE NodeTag(n) \notin {o[k].tag : k \in DOMAIN o}
  <2>1. q = Append(o, x)
    BY <1>3 DEF AddTo, x
  <2>2. n \notin Added(o)
    BY <1>3 DEF Added
  <2>3. /\ q \in Built /\ DOMAIN q = DOMAIN o \cup {Len(o) + 1}
        /\ Len(o) + 1 \notin DOMAIN o
        /\ \A k \in DOMAIN o : q[k] = o[k]
        /\ q[Len(o) + 1] = x
    BY <2>1, <1>1 DEF Built
  <2>4. Added(q) = Added(o) \cup {n}
    BY <2>3, <1>1, TagsDiffer DEF Added
  <2> QED
    BY <2>2, <2>3, <2>4 DEF x
<1> QED
  BY <1>2, <1>3

Replaced(s, f) == [s EXCEPT ![Len(s)] = f]

LEMMA AppendIs ==
  ASSUME NEW X, NEW s \in Seq(X), NEW e \in X, NEW q, q = Append(s, e)
  PROVE  /\ q \in Seq(X) /\ q # <<>> /\ Len(q) = Len(s) + 1
         /\ Len(s) \in Nat /\ DOMAIN s = 1..Len(s)
         /\ DOMAIN q = 1..(Len(s) + 1) /\ q[Len(s) + 1] = e
         /\ \A k \in 1..Len(s) : q[k] = s[k]
<1>1. /\ q \in Seq(X) /\ Len(q) = Len(s) + 1 /\ q[Len(s) + 1] = e
      /\ \A k \in 1..Len(s) : q[k] = s[k]
      /\ Len(s) \in Nat
  BY AppendProperties, LenProperties
<1>2. DOMAIN q = 1..Len(q) /\ DOMAIN s = 1..Len(s)
  BY <1>1, LenProperties
<1>3. q # <<>>
  BY <1>1, EmptySeq
<1> QED
  BY <1>1, <1>2, <1>3

LEMMA PoppedIs ==
  ASSUME NEW s \in Seq(Frame), s # <<>>,
         NEW q, q = SubSeq(s, 1, Len(s) - 1)
  PROVE  /\ q \in Seq(Frame) /\ Len(q) = Len(s) - 1
         /\ DOMAIN q = 1..(Len(s) - 1) /\ DOMAIN s = 1..Len(s)
         /\ Len(s) \in Nat \ {0}
         /\ \A k \in DOMAIN q : q[k] = s[k]
         /\ q = <<>> <=> Len(s) = 1
<1>1. Len(s) \in Nat \ {0} /\ DOMAIN s = 1..Len(s)
  BY EmptySeq, LenProperties
<1>2. \A i \in 1..(Len(s) - 1) : s[i] \in Frame
  BY <1>1, ElementOfSeq
<1>3. /\ q \in Seq(Frame)
      /\ Len(q) = IF 1 <= Len(s) - 1 THEN Len(s) - 1 - 1 + 1 ELSE 0
      /\ \A i \in 1..(Len(s) - 1 - 1 + 1) : q[i] = s[1 + i - 1]
  BY <1>1, <1>2, SubSeqProperties
<1>4. Len(q) = Len(s) - 1
  BY <1>1, <1>3
<1>5. DOMAIN q = 1..(Len(s) - 1)
  BY <1>3, <1>4, LenProperties
<1>6. ASSUME NEW k \in DOMAIN q
      PROVE  q[k] = s[k]
  <2>1. k \in 1..(Len(s) - 1 - 1 + 1) /\ 1 + k - 1 = k
    BY <1>1, <1>5
  <2> QED
    BY <2>1, <1>3
<1>7. q = <<>> <=> Len(q) = 0
  BY <1>3, EmptySeq
<1> QED
  BY <1>1, <1>3, <1>4, <1>5, <1>6, <1>7

-----------------------------------------------------------------------------
(* The walk on a table that rests.                                           *)

LEMMA Shape ==
  ASSUME NEW s \in Seq(Frame), s # <<>>
  PROVE  /\ Len(s) \in Nat \ {0} /\ DOMAIN s = 1..Len(s)
         /\ Len(s) \in DOMAIN s /\ 1 \in DOMAIN s
         /\ \A k \in DOMAIN s : s[k] \in Frame
<1>1. Len(s) \in Nat \ {0} /\ DOMAIN s = 1..Len(s)
  BY EmptySeq, LenProperties
<1> QED
  BY <1>1, ElementOfSeq

\* The nodes of a frame.
LEMMA PathFacts ==
  ASSUME NEW N, NEW R, NEW n \in N, NEW f, FrameOK(N, R, n, f)
  PROVE  /\ f.path \in Seq(N) /\ f.path # <<>> /\ Len(f.path) \in Nat \ {0}
         /\ DOMAIN f.path = 1..Len(f.path)
         /\ 1 \in DOMAIN f.path /\ Len(f.path) \in DOMAIN f.path
         /\ \A i \in DOMAIN f.path : f.path[i] \in N
         /\ f.path[1] \in N /\ Last(f) \in N
         /\ Last(f) \in Reached(N, Edges(N, R), {n})
         /\ f.path[1] \in Reached(N, Edges(N, R), {n})
<1>1. f.path \in Seq(N) /\ f.path # <<>>
  BY DEF FrameOK
<1>2. /\ Len(f.path) \in Nat \ {0} /\ DOMAIN f.path = 1..Len(f.path)
      /\ \A i \in DOMAIN f.path : f.path[i] \in N
  BY <1>1, EmptySeq, LenProperties, ElementOfSeq
<1>3. /\ 1 \in DOMAIN f.path /\ Len(f.path) \in DOMAIN f.path
  BY <1>2
<1>4. \A i \in DOMAIN f.path : f.path[i] \in Reached(N, Edges(N, R), {n})
  BY DEF FrameOK
<1> QED
  BY <1>1, <1>2, <1>3, <1>4 DEF Last

LEMMA GroupFacts ==
  ASSUME NEW N, NEW R, TableOK(N, R), NEW n \in N,
         NEW f, FrameOK(N, R, n, f), IsGroup(f)
  PROVE  /\ Last(f) = f.path[1] /\ R[f.path[1]].group
         /\ f.members = R[f.path[1]].members /\ f.members # {}
         /\ f.left \subseteq f.members /\ f.next = 0
         /\ Edges(N, R)[Last(f)] = f.members \cap N
<1>1. /\ Len(f.path) = 1 /\ R[f.path[1]].group
      /\ f.members = R[f.path[1]].members
      /\ f.left \subseteq f.members /\ f.next = 0
  BY DEF FrameOK
<1>2. f.path[1] \in N
  BY PathFacts
<1>3. Edges(N, R)[f.path[1]] = R[f.path[1]].members \cap N
  BY <1>1, <1>2, EdgesGroup
<1> QED
  BY <1>1, <1>3 DEF Last, IsGroup

LEMMA ChainFacts ==
  ASSUME NEW N, NEW R, TableOK(N, R), NEW n \in N,
         NEW f, FrameOK(N, R, n, f), ~IsGroup(f)
  PROVE  /\ \A i \in DOMAIN f.path : ~R[f.path[i]].group
         /\ ~R[Last(f)].group
         /\ \A i, j \in DOMAIN f.path : i < j =>
              /\ f.path[i] # f.path[j]
              /\ f.path[j] \in After(N, Edges(N, R), f.path[i])
         /\ \A i \in DOMAIN f.path : i + 1 \in DOMAIN f.path =>
              Edges(N, R)[f.path[i]] = {f.path[i + 1]}
         /\ f.next \in {0, PreferConfig(R[Last(f)])} /\ f.left = {}
         /\ Edges(N, R)[Last(f)] = {PreferConfig(R[Last(f)])} \cap N
<1>1. \A i \in DOMAIN f.path : ~R[f.path[i]].group
  BY DEF FrameOK
<1>2. Last(f) \in N /\ ~R[Last(f)].group
  BY <1>1, PathFacts DEF Last
<1>3. Edges(N, R)[Last(f)] = {PreferConfig(R[Last(f)])} \cap N
  BY <1>2, EdgesNormal
<1>4. /\ \A i, j \in DOMAIN f.path : i < j =>
           /\ f.path[i] # f.path[j]
           /\ f.path[j] \in After(N, Edges(N, R), f.path[i])
      /\ \A i \in DOMAIN f.path : i + 1 \in DOMAIN f.path =>
           Edges(N, R)[f.path[i]] = {f.path[i + 1]}
      /\ f.next \in {0, PreferConfig(R[Last(f)])} /\ f.left = {}
  BY DEF FrameOK
<1> QED
  BY <1>1, <1>2, <1>3, <1>4

\* A node that follows the last one of the top of the stack is ahead of it,
LEMMA Ahead ==
  ASSUME NEW N, NEW R, TableOK(N, R), NEW n \in N,
         NEW f, FrameOK(N, R, n, f), NEW d \in Edges(N, R)[Last(f)]
  PROVE  /\ d \in N /\ d \in Reached(N, Edges(N, R), {n})
         /\ d \in After(N, Edges(N, R), Last(f))
<1>1. PICK E : E = Edges(N, R)
  OBVIOUS
<1>2. E \in [N -> SUBSET N] /\ d \in E[Last(f)]
  BY <1>1, EdgesIn
<1>3. Last(f) \in N /\ Last(f) \in Reached(N, E, {n})
  BY <1>1, PathFacts
<1>4. d \in N /\ d \in Reached(N, E, {n}) /\ d \in After(N, E, Last(f))
  BY <1>2, <1>3, ReachedStep, AfterFirst
<1> QED
  BY <1>1, <1>4

\* of all nodes of a chain,
LEMMA AheadOfChain ==
  ASSUME NEW N, NEW R, TableOK(N, R), NEW n \in N,
         NEW f, FrameOK(N, R, n, f), ~IsGroup(f),
         NEW d \in Edges(N, R)[Last(f)], NEW i \in DOMAIN f.path
  PROVE  d \in After(N, Edges(N, R), f.path[i])
<1>1. /\ Len(f.path) \in Nat \ {0} /\ DOMAIN f.path = 1..Len(f.path)
      /\ Len(f.path) \in DOMAIN f.path
  BY PathFacts
<1>2. CASE i = Len(f.path)
  BY <1>2, Ahead DEF Last
<1>3. CASE i # Len(f.path)
  <2>1. i < Len(f.path)
    BY <1>1, <1>3
  <2>2. Last(f) \in After(N, Edges(N, R), f.path[i])
    BY <1>1, <2>1, ChainFacts DEF Last
  <2> QED
    BY <2>2, EdgesIn, AfterStep
<1> QED
  BY <1>2, <1>3

\* and of every group that is open.
LEMMA AheadOfGroup ==
  ASSUME NEW N, NEW R, TableOK(N, R), NEW n \in N,
         NEW s \in Seq(Frame), s # <<>>,
         \A k \in DOMAIN s : FrameOK(N, R, n, s[k]), StackOK(N, R, s),
         NEW f, f = s[Len(s)], NEW d \in Edges(N, R)[Last(f)],
         NEW j \in DOMAIN s, IsGroup(s[j])
  PROVE  d \in After(N, Edges(N, R), s[j].path[1])
<1>1. /\ Len(s) \in Nat \ {0} /\ DOMAIN s = 1..Len(s) /\ Len(s) \in DOMAIN s
  BY Shape
<1>2. FrameOK(N, R, n, f)
  BY <1>1
<1>3. CASE j = Len(s)
  <2>1. Last(f) = f.path[1]
    BY <1>2, <1>3, GroupFacts
  <2> QED
    BY <1>2, <1>3, <2>1, Ahead
<1>4. CASE j # Len(s)
  <2>1. j < Len(s)
    BY <1>1, <1>4
  <2>2. \A i \in DOMAIN f.path :
          f.path[i] \in After(N, Edges(N, R), s[j].path[1])
    BY <1>1, <2>1 DEF StackOK
  <2>3. Last(f) \in After(N, Edges(N, R), s[j].path[1])
    BY <1>2, <2>2, PathFacts DEF Last
  <2> QED
    BY <2>3, EdgesIn, AfterStep
<1> QED
  BY <1>3, <1>4

\* Who meets a node of the chain or an open group has come around.
LEMMA CircleOfChain ==
  ASSUME NEW N, NEW R, TableOK(N, R), NEW n \in N,
         NEW f, FrameOK(N, R, n, f), ~IsGroup(f),
         NEW i \in DOMAIN f.path, f.path[i] \in Edges(N, R)[Last(f)]
  PROVE  n \notin Good(N, Edges(N, R), Broken(N, R))
<1>1. PICK d : d = f.path[i]
  OBVIOUS
<1>2. d \in After(N, Edges(N, R), d)
  BY <1>1, AheadOfChain
<1>3. d \in Reached(N, Edges(N, R), {n})
  BY <1>1, Ahead
<1> QED
  BY <1>2, <1>3, NotGood

LEMMA CircleOfGroup ==
  ASSUME NEW N, NEW R, TableOK(N, R), NEW n \in N,
         NEW s \in Seq(Frame), s # <<>>,
         \A k \in DOMAIN s : FrameOK(N, R, n, s[k]), StackOK(N, R, s),
         NEW f, f = s[Len(s)], NEW d \in Edges(N, R)[Last(f)], d \in Open(s)
  PROVE  n \notin Good(N, Edges(N, R), Broken(N, R))
<1>1. PICK j \in DOMAIN s : IsGroup(s[j]) /\ d = s[j].path[1]
  BY DEF Open
<1>2. d \in After(N, Edges(N, R), d)
  BY <1>1, AheadOfGroup
<1>3. FrameOK(N, R, n, f)
  BY Shape
<1>4. d \in Reached(N, Edges(N, R), {n})
  BY <1>3, Ahead
<1> QED
  BY <1>2, <1>4, NotGood

\* The outbound of a node traffic of n may pass is one more.
LEMMA OutboundsAdd ==
  ASSUME NEW N, NEW R, TableOK(N, R), NEW n \in N, NEW o \in Built,
         OutboundsOK(N, R, n, o),
         NEW d \in N, d \in Reached(N, Edges(N, R), {n}), R[n].group => d # n,
         NEW p, p = AddTo(o, d, ConfigTargets(R[d]))
  PROVE  OutboundsOK(N, R, n, p) /\ Added(p) = Added(o) \cup {d}
<1>1. d \in Id /\ ConfigTargets(R[d]) \subseteq Id
  BY RowFields
<1>2. /\ Added(p) = Added(o) \cup {d}
      /\ \A k \in DOMAIN p :
           \/ k \in DOMAIN o /\ p[k] = o[k]
           \/ p[k] = Outbound(NodeTag(d), ConfigTargets(R[d]))
  BY <1>1, AddedTo
<1> QED
  BY <1>2 DEF OutboundsOK

\* A chain goes on to a normal node.
ChainOn(R, f, d) ==
  [f EXCEPT !.path = Append(@, d), !.next = PreferConfig(R[d])]

LEMMA ChainOnIs ==
  ASSUME NEW N, NEW R, TableOK(N, R), NEW n \in N,
         NEW f \in Frame, FrameOK(N, R, n, f), ~IsGroup(f),
         NEW d \in N, ~R[d].group, f.next = d,
         \A i \in DOMAIN f.path : f.path[i] # d,
         NEW h, h = ChainOn(R, f, d)
  PROVE  /\ h \in Frame /\ ~IsGroup(h) /\ h.left = f.left
         /\ h.path = Append(f.path, d) /\ h.path # <<>>
         /\ Len(h.path) = Len(f.path) + 1 /\ Last(h) = d
         /\ DOMAIN h.path = 1..(Len(f.path) + 1)
         /\ \A i \in DOMAIN f.path : h.path[i] = f.path[i]
         /\ h.path[1] = f.path[1] /\ h.next = PreferConfig(R[d])
         /\ d \in Edges(N, R)[Last(f)] /\ Edges(N, R)[Last(f)] = {d}
<1>1. /\ f.path \in Seq(N) /\ Len(f.path) \in Nat \ {0}
      /\ DOMAIN f.path = 1..Len(f.path) /\ 1 \in DOMAIN f.path
  BY PathFacts
<1>2. N \subseteq Id /\ PreferConfig(R[d]) \in 0..MaxId
  BY RowFields DEF TableOK
<1>3. PICK p : p = Append(f.path, d)
  OBVIOUS
<1>4. /\ p \in Seq(N) /\ p # <<>> /\ Len(p) = Len(f.path) + 1
      /\ DOMAIN p = 1..(Len(f.path) + 1) /\ p[Len(f.path) + 1] = d
      /\ \A i \in 1..Len(f.path) : p[i] = f.path[i]
  BY <1>1, <1>3, AppendIs
<1>5. p \in Seq(Id)
  BY <1>2, <1>4
<1>6. /\ h \in Frame /\ h.path = p /\ h.next = PreferConfig(R[d])
      /\ h.members = f.members /\ h.left = f.left
  BY <1>2, <1>3, <1>5 DEF Frame, ChainOn
<1>7. ~IsGroup(h)
  BY <1>6 DEF IsGroup
<1>8. Last(h) = d
  BY <1>4, <1>6 DEF Last
<1>9. Edges(N, R)[Last(f)] = {d}
  <2>1. d # 0
    BY RowFields
  <2>2. /\ f.next \in {0, PreferConfig(R[Last(f)])}
        /\ Edges(N, R)[Last(f)] = {PreferConfig(R[Last(f)])} \cap N
    BY ChainFacts
  <2> QED
    BY <2>1, <2>2
<1> QED
  BY <1>1, <1>3, <1>4, <1>6, <1>7, <1>8, <1>9

LEMMA ChainOnFrame ==
  ASSUME NEW N, NEW R, TableOK(N, R), NEW n \in N,
         NEW f \in Frame, FrameOK(N, R, n, f), ~IsGroup(f),
         NEW d \in N, ~R[d].group, f.next = d,
         \A i \in DOMAIN f.path : f.path[i] # d,
         NEW h, h = ChainOn(R, f, d)
  PROVE  FrameOK(N, R, n, h) /\ Processed(N, R, h) = {}
<1> DEFINE E == Edges(N, R)
<1>1. /\ ~IsGroup(h) /\ h.left = f.left
      /\ h.path = Append(f.path, d) /\ h.path # <<>>
      /\ Len(h.path) = Len(f.path) + 1 /\ Last(h) = d
      /\ DOMAIN h.path = 1..(Len(f.path) + 1)
      /\ \A i \in DOMAIN f.path : h.path[i] = f.path[i]
      /\ h.next = PreferConfig(R[d])
      /\ d \in E[Last(f)] /\ E[Last(f)] = {d}
  BY ChainOnIs
<1>2. /\ f.path \in Seq(N) /\ Len(f.path) \in Nat \ {0}
      /\ DOMAIN f.path = 1..Len(f.path)
  BY PathFacts
<1>3. h.path[Len(f.path) + 1] = d
  BY <1>1 DEF Last
<1>4. h.path \in Seq(N)
  BY <1>1, <1>2, AppendIs
<1>5. /\ \A i \in DOMAIN f.path : f.path[i] \in Reached(N, E, {n})
      /\ \A i \in DOMAIN f.path : d \in After(N, E, f.path[i])
      /\ d \in Reached(N, E, {n})
  <2>1. \A i \in DOMAIN f.path : f.path[i] \in Reached(N, E, {n})
    BY DEF FrameOK
  <2>2. \A i \in DOMAIN f.path : d \in After(N, E, f.path[i])
    BY <1>1, AheadOfChain
  <2>3. d \in Reached(N, E, {n})
    BY <1>1, Ahead
  <2> QED
    BY <2>1, <2>2, <2>3
<1>6. /\ \A i \in DOMAIN f.path : ~R[f.path[i]].group
      /\ \A i, j \in DOMAIN f.path : i < j =>
           /\ f.path[i] # f.path[j]
           /\ f.path[j] \in After(N, E, f.path[i])
      /\ \A i \in DOMAIN f.path : i + 1 \in DOMAIN f.path =>
           E[f.path[i]] = {f.path[i + 1]}
      /\ f.left = {}
  BY ChainFacts
<1> HIDE DEF E
<1>7. ASSUME NEW i \in DOMAIN h.path
      PROVE  h.path[i] \in Reached(N, E, {n}) /\ ~R[h.path[i]].group
  <2>1. CASE i \in DOMAIN f.path
    BY <1>1, <1>5, <1>6, <2>1
  <2>2. CASE i \notin DOMAIN f.path
    <3>1. h.path[i] = d
      BY <1>1, <1>2, <1>3, <1>7, <2>2
    <3> QED
      BY <1>5, <3>1
  <2> QED
    BY <2>1, <2>2
<1>8. ASSUME NEW i \in DOMAIN h.path, NEW j \in DOMAIN h.path, i < j
      PROVE  h.path[i] # h.path[j] /\ h.path[j] \in After(N, E, h.path[i])
  <2>1. i \in DOMAIN f.path /\ h.path[i] = f.path[i]
    BY <1>1, <1>2, <1>8
  <2>2. CASE j \in DOMAIN f.path
    <3>1. h.path[j] = f.path[j]
      BY <1>1, <2>2
    <3> QED
      BY <1>6, <1>8, <2>1, <2>2, <3>1
  <2>3. CASE j \notin DOMAIN f.path
    <3>1. h.path[j] = d
      BY <1>1, <1>2, <1>3, <2>3
    <3> QED
      BY <1>5, <2>1, <3>1
  <2> QED
    BY <2>2, <2>3
<1>9. ASSUME NEW i \in DOMAIN h.path, i + 1 \in DOMAIN h.path
      PROVE  E[h.path[i]] = {h.path[i + 1]}
  <2>1. i \in DOMAIN f.path /\ h.path[i] = f.path[i]
    BY <1>1, <1>2, <1>9
  <2>2. CASE i + 1 \in DOMAIN f.path
    <3>1. h.path[i + 1] = f.path[i + 1]
      BY <1>1, <2>2
    <3> QED
      BY <1>6, <2>1, <2>2, <3>1
  <2>3. CASE i + 1 \notin DOMAIN f.path
    <3>1. i = Len(f.path)
      BY <1>2, <2>1, <2>3
    <3> QED
      BY <1>1, <1>3, <2>1, <3>1 DEF Last
  <2> QED
    BY <2>2, <2>3
<1>10. FrameOK(N, R, n, h)
  BY <1>1, <1>4, <1>6, <1>7, <1>8, <1>9 DEF FrameOK, E
<1>11. Processed(N, R, h) = {}
  BY <1>1, EdgesNormal DEF Processed
<1> QED
  BY <1>10, <1>11

LEMMA ChainOnWalk ==
  ASSUME NEW N, NEW R, TableOK(N, R), NEW n \in N,
         NEW s \in Seq(Frame), NEW o \in Built, WalkOK(N, R, n, s, o),
         NEW f, f = s[Len(s)], ~IsGroup(f),
         NEW d \in N, ~R[d].group, f.next = d,
         \A i \in DOMAIN f.path : f.path[i] # d,
         NEW q, q = Replaced(s, ChainOn(R, f, d)),
         NEW p, p = AddTo(o, d, ConfigTargets(R[d]))
  PROVE  WalkOK(N, R, n, q, p)
<1> DEFINE E == Edges(N, R)
           G == Good(N, E, Broken(N, R))
<1>1. /\ s # <<>> /\ s[1].path[1] = n
      /\ \A k \in DOMAIN s : FrameOK(N, R, n, s[k])
      /\ StackOK(N, R, s) /\ Covered(N, R, s, o) /\ OutboundsOK(N, R, n, o)
  BY DEF WalkOK
<1>2. /\ Len(s) \in Nat \ {0} /\ DOMAIN s = 1..Len(s)
      /\ f \in Frame /\ FrameOK(N, R, n, f) /\ Len(s) \in DOMAIN s
  BY <1>1, Shape
<1>3. PICK h : h = ChainOn(R, f, d)
  OBVIOUS
<1>4. /\ h \in Frame /\ ~IsGroup(h)
      /\ Len(h.path) = Len(f.path) + 1 /\ Last(h) = d
      /\ DOMAIN h.path = 1..(Len(f.path) + 1)
      /\ \A i \in DOMAIN f.path : h.path[i] = f.path[i]
      /\ h.path[1] = f.path[1] /\ h.next = PreferConfig(R[d])
      /\ d \in E[Last(f)] /\ E[Last(f)] = {d}
  BY <1>2, <1>3, ChainOnIs
<1>5. FrameOK(N, R, n, h) /\ Processed(N, R, h) = {}
  BY <1>2, <1>3, ChainOnFrame
<1>6. /\ q # <<>> /\ Len(q) = Len(s) /\ DOMAIN q = DOMAIN s
      /\ q[Len(s)] = h /\ \A k \in 1..(Len(s) - 1) : q[k] = s[k]
  <2>1. q = Replaced(s, h) /\ h \in Frame /\ s # <<>>
    BY <1>1, <1>3, <1>4
  <2> QED
    BY <1>2, <2>1 DEF Replaced
<1>7. \A k \in DOMAIN s : k # Len(s) => q[k] = s[k]
  BY <1>2, <1>6
<1>8. \A k \in DOMAIN s : q[k].path[1] = s[k].path[1]
  BY <1>4, <1>6, <1>7
<1>9. \A k \in DOMAIN s : IsGroup(q[k]) <=> IsGroup(s[k])
  BY <1>4, <1>6, <1>7
<1>10. Open(q) = Open(s)
  BY <1>6, <1>8, <1>9 DEF Open
<1>11. q[1].path[1] = n /\ (IsGroup(q[1]) <=> R[n].group)
  BY <1>1, <1>2, <1>8, <1>9 DEF WalkOK
<1>12. \A k \in DOMAIN q : FrameOK(N, R, n, q[k])
  BY <1>1, <1>5, <1>6, <1>7
<1>13. StackOK(N, R, q)
  <2>1. ASSUME NEW j \in DOMAIN q, NEW k \in DOMAIN q, j < k, IsGroup(q[j])
        PROVE  /\ \A i \in DOMAIN q[k].path :
                    q[k].path[i] \in After(N, E, q[j].path[1])
               /\ IsGroup(q[k]) => q[j].path[1] # q[k].path[1]
    <3>1. q[j] = s[j] /\ IsGroup(s[j]) /\ j \in DOMAIN s /\ k \in DOMAIN s
      BY <1>2, <1>6, <1>7, <2>1
    <3>2. \A i \in DOMAIN s[k].path : s[k].path[i] \in After(N, E, s[j].path[1])
      BY <1>1, <2>1, <3>1 DEF StackOK, E
    <3>3. CASE k # Len(s)
      <4>1. q[k] = s[k]
        BY <1>7, <3>1, <3>3
      <4>2. IsGroup(s[k]) => s[j].path[1] # s[k].path[1]
        BY <1>1, <2>1, <3>1 DEF StackOK
      <4> QED
        BY <3>1, <3>2, <4>1, <4>2
    <3>4. CASE k = Len(s)
      <4>1. d \in After(N, E, s[j].path[1])
        BY <1>1, <1>2, <1>4, <3>1, AheadOfGroup
      <4>2. Len(f.path) \in Nat /\ DOMAIN f.path = 1..Len(f.path)
        BY <1>2, PathFacts
      <4>3. ASSUME NEW i \in DOMAIN h.path
            PROVE  h.path[i] \in After(N, E, s[j].path[1])
        <5>1. CASE i \in DOMAIN f.path
          BY <1>4, <3>2, <3>4, <5>1
        <5>2. CASE i \notin DOMAIN f.path
          <6>1. i = Len(h.path)
            BY <1>4, <4>2, <4>3, <5>2
          <6> QED
            BY <1>4, <4>1, <6>1 DEF Last
        <5> QED
          BY <5>1, <5>2
      <4> QED
        BY <1>4, <1>6, <3>1, <3>4, <4>3
    <3> QED
      BY <3>3, <3>4
  <2>2. ASSUME NEW k \in DOMAIN q
        PROVE  /\ k < Len(q) => q[k].next = 0
               /\ \A m \in Processed(N, R, q[k]) :
                    \/ m \in G
                    \/ k < Len(q) /\ m = q[k + 1].path[1]
    <3>1. CASE k = Len(s)
      BY <1>2, <1>5, <1>6, <3>1
    <3>2. CASE k # Len(s)
      <4>1. /\ k \in DOMAIN s /\ q[k] = s[k] /\ k < Len(s)
            /\ k + 1 \in DOMAIN s
        BY <1>2, <1>6, <1>7, <2>2, <3>2
      <4>2. /\ s[k].next = 0
            /\ \A m \in Processed(N, R, s[k]) :
                 m \in G \/ m = s[k + 1].path[1]
        BY <1>1, <4>1 DEF StackOK, E, G
      <4> QED
        BY <1>6, <1>8, <4>1, <4>2
    <3> QED
      BY <3>1, <3>2
  <2>3. \A j, k \in DOMAIN q : j < k /\ IsGroup(q[j]) =>
          /\ \A i \in DOMAIN q[k].path :
               q[k].path[i] \in After(N, Edges(N, R), q[j].path[1])
          /\ IsGroup(q[k]) => q[j].path[1] # q[k].path[1]
    BY <2>1 DEF E
  <2>4. \A k \in DOMAIN q :
          /\ k < Len(q) => q[k].next = 0
          /\ \A m \in Processed(N, R, q[k]) :
               \/ m \in Good(N, Edges(N, R), Broken(N, R))
               \/ k < Len(q) /\ m = q[k + 1].path[1]
    BY <2>2 DEF E, G
  <2> QED
    BY <2>3, <2>4 DEF StackOK
<1>14. OutboundsOK(N, R, n, p) /\ Added(p) = Added(o) \cup {d}
  <2>1. d \in Reached(N, E, {n})
    BY <1>2, <1>4, Ahead
  <2> QED
    BY <1>1, <2>1, OutboundsAdd
<1>15. Covered(N, R, q, p)
  <2>1. ASSUME NEW x \in Added(p) \cap N, NEW y \in E[x]
        PROVE  \/ y \in Added(p) \cup Open(q)
               \/ /\ q # <<>> /\ ~IsGroup(q[Len(q)])
                  /\ x = Last(q[Len(q)]) /\ y = q[Len(q)].next
    <3>1. CASE x = d
      <4>1. y = PreferConfig(R[d])
        BY <2>1, <3>1, EdgesNormal
      <4> QED
        BY <1>4, <1>6, <3>1, <4>1
    <3>2. CASE x \in Added(o)
      <4>1. \/ y \in Added(o) \cup Open(s)
            \/ y = f.next
        BY <1>1, <2>1, <3>2 DEF Covered, E
      <4> QED
        BY <1>10, <1>14, <4>1
    <3> QED
      BY <1>14, <2>1, <3>1, <3>2
  <2>2. ASSUME NEW k \in DOMAIN q
        PROVE  IF IsGroup(q[k])
               THEN q[k].members \ q[k].left \subseteq Added(p) \cup Open(q)
               ELSE \A i \in DOMAIN q[k].path : q[k].path[i] \in Added(p)
    <3>1. IF IsGroup(s[k])
          THEN s[k].members \ s[k].left \subseteq Added(o) \cup Open(s)
          ELSE \A i \in DOMAIN s[k].path : s[k].path[i] \in Added(o)
      BY <1>1, <1>6, <2>2 DEF Covered
    <3>2. CASE k # Len(s)
      <4>1. q[k] = s[k]
        BY <1>6, <1>7, <2>2, <3>2
      <4> QED
        BY <1>10, <1>14, <3>1, <4>1
    <3>3. CASE k = Len(s)
      <4>1. Len(f.path) \in Nat /\ DOMAIN f.path = 1..Len(f.path)
        BY <1>2, PathFacts
      <4>2. \A i \in DOMAIN f.path : f.path[i] \in Added(o)
        BY <3>1, <3>3
      <4>3. ASSUME NEW i \in DOMAIN h.path
            PROVE  h.path[i] \in Added(p)
        <5>1. CASE i \in DOMAIN f.path
          BY <1>4, <1>14, <4>2, <5>1
        <5>2. CASE i \notin DOMAIN f.path
          <6>1. i = Len(h.path)
            BY <1>4, <4>1, <4>3, <5>2
          <6> QED
            BY <1>4, <1>14, <6>1 DEF Last
        <5> QED
          BY <5>1, <5>2
      <4> QED
        BY <1>4, <1>6, <3>3, <4>3
    <3> QED
      BY <3>2, <3>3
  <2> QED
    BY <2>1, <2>2 DEF Covered, E
<1> QED
  BY <1>6, <1>11, <1>12, <1>13, <1>14, <1>15 DEF WalkOK

\* The top f, which becomes e, calls for node d, whose frame is h.
LEMMA CallWalk ==
  ASSUME NEW N, NEW R, TableOK(N, R), NEW n \in N,
         NEW s \in Seq(Frame), NEW o \in Built, WalkOK(N, R, n, s, o),
         NEW f, f = s[Len(s)], NEW d, d \in Edges(N, R)[Last(f)],
         NEW e \in Frame, FrameOK(N, R, n, e), e.path = f.path,
         e.members = f.members, e.next = 0,
         Processed(N, R, e) \subseteq Processed(N, R, f) \cup {d},
         NEW h \in Frame, FrameOK(N, R, n, h), h.path = <<d>>,
         Processed(N, R, h) = {},
         NEW p, OutboundsOK(N, R, n, p),
         \/ IsGroup(h) /\ d \notin Open(s) /\ Added(p) = Added(o)
         \/ ~IsGroup(h) /\ h.next = PreferConfig(R[d]) /\ ~R[d].group
              /\ Added(p) = Added(o) \cup {d},
         NEW q, q = Append(Replaced(s, e), h)
  PROVE  WalkOK(N, R, n, q, p)
<1> DEFINE E == Edges(N, R)
           G == Good(N, E, Broken(N, R))
           L == Len(s)
<1>1. /\ s # <<>> /\ s[1].path[1] = n
      /\ \A k \in DOMAIN s : FrameOK(N, R, n, s[k])
      /\ StackOK(N, R, s) /\ Covered(N, R, s, o)
  BY DEF WalkOK
<1>2. /\ L \in Nat \ {0} /\ DOMAIN s = 1..L
      /\ f \in Frame /\ FrameOK(N, R, n, f) /\ L \in DOMAIN s
  BY <1>1, Shape
<1>3. d \in N
  BY <1>2, Ahead
<1>4. /\ q # <<>> /\ Len(q) = L + 1 /\ DOMAIN q = 1..(L + 1)
      /\ q[L] = e /\ q[L + 1] = h /\ \A k \in 1..(L - 1) : q[k] = s[k]
  <2>1. PICK r : r = Replaced(s, e)
    OBVIOUS
  <2>2. /\ r \in Seq(Frame) /\ Len(r) = L /\ r[L] = e
        /\ \A k \in 1..(L - 1) : r[k] = s[k]
    BY <1>2, <2>1 DEF Replaced
  <2>3. q = Append(r, h)
    BY <2>1
  <2>4. /\ q # <<>> /\ Len(q) = Len(r) + 1
        /\ DOMAIN q = 1..(Len(r) + 1) /\ q[Len(r) + 1] = h
        /\ \A k \in 1..Len(r) : q[k] = r[k]
    BY <2>2, <2>3, AppendIs
  <2>5. L \in 1..L /\ \A k \in 1..(L - 1) : k \in 1..L
    BY <1>2
  <2> HIDE DEF L
  <2> QED
    BY <1>2, <2>2, <2>4, <2>5
<1> HIDE DEF L
<1>5. \A k \in DOMAIN s : k # L => q[k] = s[k] /\ k < L /\ k + 1 \in DOMAIN s
  BY <1>2, <1>4
<1>6. \A k \in DOMAIN s : q[k].path = s[k].path
  BY <1>4, <1>5 DEF L
<1>7. \A k \in DOMAIN s : q[k].members = s[k].members
  BY <1>4, <1>5 DEF L
<1>8. \A k \in DOMAIN s : IsGroup(q[k]) <=> IsGroup(s[k])
  BY <1>7 DEF IsGroup
<1>9. \A k \in DOMAIN q : k = L + 1 \/ k \in DOMAIN s
  BY <1>2, <1>4
<1>10. DOMAIN s \subseteq DOMAIN q /\ L + 1 \in DOMAIN q /\ 1 \in DOMAIN s
  BY <1>2, <1>4
<1>11. h.path[1] = d /\ Len(h.path) = 1 /\ DOMAIN h.path = {1} /\ Last(h) = d
  BY DEF Last
<1>12. Open(s) \subseteq Open(q)
  BY <1>6, <1>8, <1>10 DEF Open
<1>13. IsGroup(h) => d \in Open(q)
  BY <1>4, <1>10, <1>11 DEF Open
<1>14. Added(o) \cup Open(s) \cup {d} \subseteq Added(p) \cup Open(q)
  BY <1>12, <1>13
<1>15. q[1].path[1] = n /\ (IsGroup(q[1]) <=> R[n].group)
  BY <1>1, <1>6, <1>8, <1>10 DEF WalkOK
<1>16. \A k \in DOMAIN q : FrameOK(N, R, n, q[k])
  BY <1>1, <1>4, <1>5, <1>9
<1>17. StackOK(N, R, q)
  <2>1. ASSUME NEW j \in DOMAIN q, NEW k \in DOMAIN q, j < k, IsGroup(q[j])
        PROVE  /\ \A i \in DOMAIN q[k].path :
                    q[k].path[i] \in After(N, E, q[j].path[1])
               /\ IsGroup(q[k]) => q[j].path[1] # q[k].path[1]
    <3>1. j \in DOMAIN s /\ IsGroup(s[j]) /\ q[j].path = s[j].path
      BY <1>2, <1>4, <1>6, <1>8, <2>1
    <3>2. CASE k \in DOMAIN s
      <4>1. q[k].path = s[k].path /\ (IsGroup(q[k]) <=> IsGroup(s[k]))
        BY <1>6, <1>8, <3>2
      <4>2. \A i \in DOMAIN s[k].path :
              s[k].path[i] \in After(N, E, s[j].path[1])
        BY <1>1, <2>1, <3>1, <3>2 DEF StackOK, E
      <4>3. IsGroup(s[k]) => s[j].path[1] # s[k].path[1]
        BY <1>1, <2>1, <3>1, <3>2 DEF StackOK
      <4> QED
        BY <3>1, <4>1, <4>2, <4>3
    <3>3. CASE k = L + 1
      <4>1. d \in After(N, E, s[j].path[1])
        BY <1>1, <3>1, AheadOfGroup
      <4>2. q[k] = h
        BY <1>4, <3>3
      <4>3. ASSUME IsGroup(h)
            PROVE  s[j].path[1] # d
        BY <3>1, <4>3 DEF Open
      <4> QED
        BY <1>11, <3>1, <4>1, <4>2, <4>3
    <3> QED
      BY <1>9, <3>2, <3>3
  <2>2. ASSUME NEW k \in DOMAIN q
        PROVE  /\ k < Len(q) => q[k].next = 0
               /\ \A m \in Processed(N, R, q[k]) :
                    \/ m \in G
                    \/ k < Len(q) /\ m = q[k + 1].path[1]
    <3>1. CASE k = L + 1
      BY <1>2, <1>4, <3>1
    <3>2. CASE k = L
      <4>1. q[k] = e /\ q[k + 1] = h /\ k < Len(q)
        BY <1>2, <1>4, <3>2
      <4>2. ASSUME NEW m \in Processed(N, R, f)
            PROVE  m \in G
        <5>1. m \in Processed(N, R, s[L]) /\ ~(L < Len(s))
          BY <1>2, <4>2 DEF L
        <5> QED
          BY <1>1, <1>2, <5>1 DEF StackOK, E, G
      <4> QED
        BY <1>11, <4>1, <4>2
    <3>3. CASE k \in DOMAIN s /\ k # L
      <4>1. q[k] = s[k] /\ k < L /\ k + 1 \in DOMAIN s
        BY <1>5, <3>3
      <4>2. /\ s[k].next = 0
            /\ \A m \in Processed(N, R, s[k]) :
                 m \in G \/ m = s[k + 1].path[1]
        BY <1>1, <3>3, <4>1 DEF StackOK, E, G, L
      <4>3. k < Len(q) /\ q[k + 1].path = s[k + 1].path
        BY <1>2, <1>4, <1>6, <4>1
      <4> QED
        BY <4>1, <4>2, <4>3
    <3> QED
      BY <1>9, <3>1, <3>2, <3>3
  <2>3. \A j, k \in DOMAIN q : j < k /\ IsGroup(q[j]) =>
          /\ \A i \in DOMAIN q[k].path :
               q[k].path[i] \in After(N, Edges(N, R), q[j].path[1])
          /\ IsGroup(q[k]) => q[j].path[1] # q[k].path[1]
    BY <2>1 DEF E
  <2>4. \A k \in DOMAIN q :
          /\ k < Len(q) => q[k].next = 0
          /\ \A m \in Processed(N, R, q[k]) :
               \/ m \in Good(N, Edges(N, R), Broken(N, R))
               \/ k < Len(q) /\ m = q[k + 1].path[1]
    BY <2>2 DEF E, G
  <2> QED
    BY <2>3, <2>4 DEF StackOK
<1>18. Covered(N, R, q, p)
  <2>1. ASSUME NEW x \in Added(p) \cap N, NEW y \in E[x]
        PROVE  \/ y \in Added(p) \cup Open(q)
               \/ /\ q # <<>> /\ ~IsGroup(q[Len(q)])
                  /\ x = Last(q[Len(q)]) /\ y = q[Len(q)].next
    <3>1. CASE x \notin Added(o)
      <4>1. /\ x = d /\ ~IsGroup(h) /\ h.next = PreferConfig(R[d])
            /\ ~R[d].group
        BY <2>1, <3>1
      <4>2. y = PreferConfig(R[d])
        BY <1>3, <2>1, <4>1, EdgesNormal
      <4> QED
        BY <1>4, <1>11, <4>1, <4>2
    <3>2. CASE x \in Added(o)
      <4>1. \/ y \in Added(o) \cup Open(s)
            \/ ~IsGroup(f) /\ x = Last(f)
        BY <1>1, <2>1, <3>2 DEF Covered, E
      <4>2. ASSUME ~IsGroup(f), x = Last(f)
            PROVE  y = d
        <5>1. E[Last(f)] = {PreferConfig(R[Last(f)])} \cap N
          BY <1>2, <4>2, ChainFacts
        <5> QED
          BY <2>1, <4>2, <5>1
      <4> QED
        BY <1>14, <4>1, <4>2
    <3> QED
      BY <3>1, <3>2
  <2>2. ASSUME NEW k \in DOMAIN q
        PROVE  IF IsGroup(q[k])
               THEN q[k].members \ q[k].left \subseteq Added(p) \cup Open(q)
               ELSE \A i \in DOMAIN q[k].path : q[k].path[i] \in Added(p)
    <3>1. CASE k = L + 1
      <4>1. q[k] = h
        BY <1>4, <3>1
      <4>2. CASE IsGroup(h)
        BY <4>1, <4>2 DEF Processed
      <4>3. CASE ~IsGroup(h)
        BY <1>11, <4>1, <4>3
      <4> QED
        BY <4>2, <4>3
    <3>2. ASSUME k \in DOMAIN s
          PROVE  IF IsGroup(s[k])
                 THEN s[k].members \ s[k].left \subseteq Added(o) \cup Open(s)
                 ELSE \A i \in DOMAIN s[k].path : s[k].path[i] \in Added(o)
      BY <1>1, <3>2 DEF Covered
    <3>3. CASE k \in DOMAIN s /\ ~IsGroup(s[k])
      <4>1. Added(o) \subseteq Added(p)
        OBVIOUS
      <4> QED
        BY <1>6, <1>8, <3>2, <3>3, <4>1
    <3>4. CASE k \in DOMAIN s /\ IsGroup(s[k]) /\ k # L
      BY <1>5, <1>14, <3>2, <3>4
    <3>5. CASE k \in DOMAIN s /\ IsGroup(s[k]) /\ k = L
      <4>1. q[k] = e /\ s[k] = f /\ IsGroup(e) /\ IsGroup(f)
        BY <1>4, <1>8, <3>5 DEF L
      <4>2. e.members \ e.left \subseteq (f.members \ f.left) \cup {d}
        BY <4>1 DEF Processed
      <4>3. f.members \ f.left \subseteq Added(o) \cup Open(s)
        BY <3>2, <3>5, <4>1
      <4> QED
        BY <1>14, <4>1, <4>2, <4>3
    <3> QED
      BY <1>9, <3>1, <3>3, <3>4, <3>5
  <2> QED
    BY <2>1, <2>2 DEF Covered, E
<1> QED
  BY <1>4, <1>15, <1>16, <1>17, <1>18 DEF WalkOK

\* The frames that a call for node d starts with.
LEMMA ChainFrameIs ==
  ASSUME NEW N, NEW R, TableOK(N, R), NEW n \in N,
         NEW d \in N, d \in Reached(N, Edges(N, R), {n}), ~R[d].group,
         NEW h, h = ChainFrame(d, R[d])
  PROVE  /\ h \in Frame /\ FrameOK(N, R, n, h) /\ ~IsGroup(h)
         /\ h.path = <<d>> /\ h.next = PreferConfig(R[d])
         /\ Processed(N, R, h) = {}
<1>1. d \in Id /\ PreferConfig(R[d]) \in 0..MaxId
  BY RowFields
<1>2. /\ h.path = <<d>> /\ h.next = PreferConfig(R[d])
      /\ h.members = {} /\ h.left = {} /\ h \in Frame
  BY <1>1 DEF ChainFrame, Frame
<1>3. ~IsGroup(h) /\ Last(h) = d
  BY <1>2 DEF IsGroup, Last
<1>4. FrameOK(N, R, n, h)
  BY <1>2, <1>3 DEF FrameOK
<1>5. Processed(N, R, h) = {}
  BY <1>2, <1>3, EdgesNormal DEF Processed
<1> QED
  BY <1>2, <1>3, <1>4, <1>5

LEMMA GroupFrameIs ==
  ASSUME NEW N, NEW R, TableOK(N, R), NEW n \in N,
         NEW d \in N, d \in Reached(N, Edges(N, R), {n}), R[d].group,
         R[d].members # {}, NEW h, h = GroupFrame(d, R[d].members)
  PROVE  /\ h \in Frame /\ FrameOK(N, R, n, h) /\ IsGroup(h)
         /\ h.path = <<d>> /\ Processed(N, R, h) = {}
<1>1. d \in Id /\ R[d].members \subseteq Id /\ 0 \in 0..MaxId
  BY RowFields, Facts
<1>2. /\ h.path = <<d>> /\ h.next = 0
      /\ h.members = R[d].members /\ h.left = R[d].members /\ h \in Frame
  BY <1>1 DEF GroupFrame, Frame
<1>3. IsGroup(h)
  BY <1>2 DEF IsGroup
<1>4. FrameOK(N, R, n, h)
  BY <1>2, <1>3 DEF FrameOK
<1>5. Processed(N, R, h) = {}
  BY <1>2, <1>3 DEF Processed
<1> QED
  BY <1>2, <1>3, <1>4, <1>5

\* Frame f has become e to call for node d.
Calls(N, R, n, f, e, d) ==
  /\ e \in Frame /\ FrameOK(N, R, n, e)
  /\ e.path = f.path /\ e.members = f.members /\ e.next = 0
  /\ d \in Edges(N, R)[Last(f)]
  /\ Processed(N, R, e) \subseteq Processed(N, R, f) \cup {d}

LEMMA SamePath ==
  ASSUME NEW N, NEW R, NEW n, NEW f, FrameOK(N, R, n, f), ~IsGroup(f),
         NEW e, ~IsGroup(e), e.path = f.path, e.next = 0, e.left = f.left
  PROVE  FrameOK(N, R, n, e)
<1>1. Last(e) = Last(f)
  BY DEF Last
<1>2. /\ e.path \in Seq(N) /\ e.path # <<>>
      /\ \A i \in DOMAIN e.path : e.path[i] \in Reached(N, Edges(N, R), {n})
  BY DEF FrameOK
<1>3. /\ \A i \in DOMAIN e.path : ~R[e.path[i]].group
      /\ \A i, j \in DOMAIN e.path : i < j =>
           /\ e.path[i] # e.path[j]
           /\ e.path[j] \in After(N, Edges(N, R), e.path[i])
      /\ \A i \in DOMAIN e.path : i + 1 \in DOMAIN e.path =>
           Edges(N, R)[e.path[i]] = {e.path[i + 1]}
  BY DEF FrameOK
<1>4. e.next \in {0, PreferConfig(R[Last(e)])} /\ e.left = {}
  BY DEF FrameOK
<1> QED
  BY <1>2, <1>3, <1>4 DEF FrameOK

LEMMA ChainCalls ==
  ASSUME NEW N, NEW R, TableOK(N, R), NEW n \in N,
         NEW f \in Frame, FrameOK(N, R, n, f), ~IsGroup(f),
         NEW d \in N, f.next = d, NEW e, e = [f EXCEPT !.next = 0]
  PROVE  Calls(N, R, n, f, e, d)
<1>1. d # 0 /\ 0 \in 0..MaxId
  BY RowFields, Facts
<1>2. /\ e \in Frame /\ e.path = f.path /\ e.members = f.members
      /\ e.left = f.left /\ e.next = 0
  BY <1>1 DEF Frame
<1>3. /\ f.next \in {0, PreferConfig(R[Last(f)])}
      /\ Edges(N, R)[Last(f)] = {PreferConfig(R[Last(f)])} \cap N
  BY ChainFacts
<1>4. Edges(N, R)[Last(f)] = {d}
  BY <1>1, <1>3
<1>5. ~IsGroup(e) /\ Last(e) = Last(f)
  BY <1>2 DEF IsGroup, Last
<1>6. FrameOK(N, R, n, e)
  BY <1>2, <1>5, SamePath
<1>7. Processed(N, R, e) \subseteq {d}
  BY <1>4, <1>5 DEF Processed
<1> QED
  BY <1>2, <1>4, <1>6, <1>7 DEF Calls

LEMMA GroupCalls ==
  ASSUME NEW N, NEW R, TableOK(N, R), NEW n \in N,
         NEW f \in Frame, FrameOK(N, R, n, f), IsGroup(f),
         NEW d \in f.left, d \in N, NEW e, e = [f EXCEPT !.left = @ \ {d}]
  PROVE  Calls(N, R, n, f, e, d)
<1>1. /\ e \in Frame /\ e.path = f.path /\ e.members = f.members
      /\ e.left = f.left \ {d} /\ e.next = f.next
  BY DEF Frame
<1>2. /\ f.left \subseteq f.members /\ f.next = 0
      /\ Edges(N, R)[Last(f)] = f.members \cap N
  BY GroupFacts
<1>3. IsGroup(e)
  BY <1>1 DEF IsGroup
<1>4. FrameOK(N, R, n, e)
  BY <1>1, <1>2, <1>3 DEF FrameOK
<1>5. Processed(N, R, e) \subseteq Processed(N, R, f) \cup {d}
  BY <1>1, <1>3 DEF Processed
<1> QED
  BY <1>1, <1>2, <1>4, <1>5 DEF Calls

LEMMA CallNormal ==
  ASSUME NEW N, NEW R, TableOK(N, R), NEW n \in N,
         NEW s \in Seq(Frame), NEW o \in Built, WalkOK(N, R, n, s, o),
         NEW f, f = s[Len(s)], NEW d, NEW e, Calls(N, R, n, f, e, d),
         ~R[d].group,
         NEW q, q = Append(Replaced(s, e), ChainFrame(d, R[d])),
         NEW p, p = AddTo(o, d, ConfigTargets(R[d]))
  PROVE  WalkOK(N, R, n, q, p)
<1>1. /\ s # <<>> /\ s[1].path[1] = n /\ (IsGroup(s[1]) <=> R[n].group)
      /\ \A k \in DOMAIN s : FrameOK(N, R, n, s[k])
      /\ StackOK(N, R, s) /\ OutboundsOK(N, R, n, o)
  BY DEF WalkOK
<1>2. FrameOK(N, R, n, f)
  BY <1>1, Shape
<1>3. d \in Edges(N, R)[Last(f)]
  BY DEF Calls
<1>4. d \in N /\ d \in Reached(N, Edges(N, R), {n})
  BY <1>2, <1>3, Ahead
<1>5. PICK h : h = ChainFrame(d, R[d])
  OBVIOUS
<1>6. /\ h \in Frame /\ h.path = <<d>> /\ h.next = PreferConfig(R[d])
      /\ Processed(N, R, h) = {}
  <2>1. h \in Frame /\ Processed(N, R, h) = {}
    BY <1>4, <1>5, ChainFrameIs
  <2>2. h.path = <<d>>
    BY <1>5 DEF ChainFrame
  <2>3. h.next = PreferConfig(R[d])
    BY <1>4, <1>5, ChainFrameIs
  <2> QED
    BY <2>1, <2>2, <2>3
<1>a. FrameOK(N, R, n, h)
  BY <1>4, <1>5, ChainFrameIs
<1>b. ~IsGroup(h)
  BY <1>4, <1>5, ChainFrameIs
<1>7. R[n].group => d # n
  OBVIOUS
<1>8. OutboundsOK(N, R, n, p) /\ Added(p) = Added(o) \cup {d}
  BY <1>1, <1>4, <1>7, OutboundsAdd
<1>9. /\ e \in Frame /\ FrameOK(N, R, n, e) /\ e.path = f.path
      /\ e.members = f.members /\ e.next = 0
      /\ Processed(N, R, e) \subseteq Processed(N, R, f) \cup {d}
  BY DEF Calls
<1>10. q = Append(Replaced(s, e), h)
  BY <1>5
<1>11. ~IsGroup(h) /\ h.next = PreferConfig(R[d]) /\ ~R[d].group
         /\ Added(p) = Added(o) \cup {d}
  BY <1>6, <1>b, <1>8
<1> QED
  BY ONLY TableOK(N, R), n \in N, s \in Seq(Frame), o \in Built,
          WalkOK(N, R, n, s, o), f = s[Len(s)],
          <1>3, <1>6, <1>a, <1>8, <1>9, <1>10, <1>11, CallWalk

LEMMA CallGroup ==
  ASSUME NEW N, NEW R, TableOK(N, R), NEW n \in N,
         NEW s \in Seq(Frame), NEW o \in Built, WalkOK(N, R, n, s, o),
         NEW f, f = s[Len(s)], NEW d, NEW e, Calls(N, R, n, f, e, d),
         R[d].group, R[d].members # {}, d \notin Open(s),
         NEW q, q = Append(Replaced(s, e), GroupFrame(d, R[d].members))
  PROVE  WalkOK(N, R, n, q, o)
<1>1. /\ s # <<>> /\ \A k \in DOMAIN s : FrameOK(N, R, n, s[k])
      /\ StackOK(N, R, s) /\ OutboundsOK(N, R, n, o)
  BY DEF WalkOK
<1>2. FrameOK(N, R, n, f)
  BY <1>1, Shape
<1>3. d \in Edges(N, R)[Last(f)]
  BY DEF Calls
<1>4. d \in N /\ d \in Reached(N, Edges(N, R), {n})
  BY <1>2, <1>3, Ahead
<1>5. PICK h : h = GroupFrame(d, R[d].members)
  OBVIOUS
<1>6. h \in Frame /\ h.path = <<d>> /\ Processed(N, R, h) = {}
  <2>1. h \in Frame /\ Processed(N, R, h) = {}
    BY <1>4, <1>5, GroupFrameIs
  <2>2. h.path = <<d>>
    BY <1>5 DEF GroupFrame
  <2> QED
    BY <2>1, <2>2
<1>a. FrameOK(N, R, n, h)
  BY <1>4, <1>5, GroupFrameIs
<1>b. IsGroup(h)
  BY <1>4, <1>5, GroupFrameIs
<1>7. /\ e \in Frame /\ FrameOK(N, R, n, e) /\ e.path = f.path
      /\ e.members = f.members /\ e.next = 0
      /\ Processed(N, R, e) \subseteq Processed(N, R, f) \cup {d}
  BY DEF Calls
<1>8. q = Append(Replaced(s, e), h)
  BY <1>5
<1> QED
  BY <1>1, <1>3, <1>6, <1>a, <1>b, <1>7, <1>8, CallWalk

-----------------------------------------------------------------------------
(* Returns.                                                                  *)

\* The first node of a chain that ends, and a group all of whose members have
\* been processed, are sound.
LEMMA ChainGood ==
  ASSUME NEW N, NEW R, TableOK(N, R), NEW n \in N,
         NEW s \in Seq(Frame), NEW o \in Built, WalkOK(N, R, n, s, o),
         NEW f, f = s[Len(s)], ~IsGroup(f), f.next \notin N
  PROVE  f.path[1] \in Good(N, Edges(N, R), Broken(N, R))
<1>1. /\ s # <<>> /\ \A k \in DOMAIN s : FrameOK(N, R, n, s[k])
      /\ StackOK(N, R, s)
  BY DEF WalkOK
<1>2. /\ Len(s) \in Nat \ {0} /\ Len(s) \in DOMAIN s
      /\ FrameOK(N, R, n, f)
  BY <1>1, Shape
<1>3. Processed(N, R, f) \subseteq Good(N, Edges(N, R), Broken(N, R))
  BY <1>1, <1>2 DEF StackOK
<1>4. PICK E : E = Edges(N, R)
  OBVIOUS
<1>5. PICK B : B = Broken(N, R)
  OBVIOUS
<1>6. E \in [N -> SUBSET N]
  BY <1>4, EdgesIn
<1>7. /\ f.path \in Seq(N) /\ f.path # <<>> /\ Last(f) \in N
      /\ Len(f.path) \in Nat /\ DOMAIN f.path = 1..Len(f.path)
      /\ \A i \in DOMAIN f.path : f.path[i] \in N
  BY <1>2, PathFacts
<1>8. E[Last(f)] \subseteq Good(N, E, B)
  <2>1. Processed(N, R, f) = E[Last(f)] \ {f.next}
    BY <1>4 DEF Processed
  <2>2. E[Last(f)] \subseteq N
    BY <1>6, <1>7
  <2> QED
    BY <1>3, <1>4, <1>5, <2>1, <2>2
<1>9. \A i \in DOMAIN f.path : f.path[i] \notin B
  BY <1>2, <1>5, <1>7, ChainFacts, EdgesNormal
<1>a. \A i, j \in DOMAIN f.path : i < j => f.path[i] # f.path[j]
  BY <1>2, ChainFacts
<1>10. \A i \in DOMAIN f.path : i + 1 \in DOMAIN f.path =>
         E[f.path[i]] = {f.path[i + 1]}
  <2>1. \A i \in DOMAIN f.path : i + 1 \in DOMAIN f.path =>
          Edges(N, R)[f.path[i]] = {f.path[i + 1]}
    BY ONLY <1>2, TableOK(N, R), n \in N, ~IsGroup(f), ChainFacts
  <2> QED
    BY <1>4, <2>1
<1>11. PICK p : p = f.path
  OBVIOUS
<1>12. p[1] \in Good(N, E, B)
  BY <1>6, <1>7, <1>8, <1>9, <1>a, <1>10, <1>11, GoodPath DEF Last
<1> QED
  BY <1>4, <1>5, <1>11, <1>12

LEMMA GroupGood ==
  ASSUME NEW N, NEW R, TableOK(N, R), NEW n \in N,
         NEW s \in Seq(Frame), NEW o \in Built, WalkOK(N, R, n, s, o),
         NEW f, f = s[Len(s)], IsGroup(f), f.left = {}
  PROVE  /\ f.members \subseteq Good(N, Edges(N, R), Broken(N, R))
         /\ f.members \subseteq N
         /\ f.path[1] \in Good(N, Edges(N, R), Broken(N, R))
<1>1. /\ s # <<>> /\ \A k \in DOMAIN s : FrameOK(N, R, n, s[k])
      /\ StackOK(N, R, s)
  BY DEF WalkOK
<1>2. /\ Len(s) \in Nat \ {0} /\ Len(s) \in DOMAIN s
      /\ FrameOK(N, R, n, f)
  BY <1>1, Shape
<1>3. Processed(N, R, f) \subseteq Good(N, Edges(N, R), Broken(N, R))
  BY <1>1, <1>2 DEF StackOK
<1>4. f.members \subseteq Good(N, Edges(N, R), Broken(N, R))
  BY <1>3 DEF Processed
<1>5. Good(N, Edges(N, R), Broken(N, R)) \subseteq N
  BY DEF Good
<1>6. /\ Last(f) = f.path[1] /\ f.members # {}
      /\ f.members = R[f.path[1]].members
      /\ Edges(N, R)[Last(f)] = f.members \cap N
  BY <1>2, GroupFacts
<1>7. PICK x : x = f.path[1]
  OBVIOUS
<1>8. x \in N
  BY <1>2, <1>7, PathFacts
<1>9. x \notin Broken(N, R)
  BY <1>4, <1>5, <1>6, <1>7 DEF Broken
<1>10. Edges(N, R)[x] \subseteq Good(N, Edges(N, R), Broken(N, R))
  BY <1>4, <1>6, <1>7
<1>11. x \in Good(N, Edges(N, R), Broken(N, R))
  BY <1>8, <1>9, <1>10, EdgesIn, GoodUp
<1> QED
  BY <1>4, <1>5, <1>7, <1>11

\* The top returns: its first node is sound, and what its nodes go on to has
\* been added or is open.
LEMMA ReturnWalk ==
  ASSUME NEW N, NEW R, TableOK(N, R), NEW n \in N,
         NEW s \in Seq(Frame), NEW o \in Built, WalkOK(N, R, n, s, o),
         NEW f, f = s[Len(s)], Len(s) # 1,
         f.path[1] \in Good(N, Edges(N, R), Broken(N, R)),
         NEW p, OutboundsOK(N, R, n, p),
         \/ IsGroup(f) /\ f.left = {} /\ Added(p) = Added(o) \cup {f.path[1]}
         \/ ~IsGroup(f) /\ f.next \notin N /\ Added(p) = Added(o),
         NEW q, q = SubSeq(s, 1, Len(s) - 1)
  PROVE  WalkOK(N, R, n, q, p)
<1> DEFINE E == Edges(N, R)
           G == Good(N, E, Broken(N, R))
           L == Len(s)
<1>1. /\ s # <<>> /\ s[1].path[1] = n
      /\ \A k \in DOMAIN s : FrameOK(N, R, n, s[k])
      /\ StackOK(N, R, s) /\ Covered(N, R, s, o)
  BY DEF WalkOK
<1>2. /\ L \in Nat \ {0} /\ DOMAIN s = 1..L
      /\ f \in Frame /\ FrameOK(N, R, n, f) /\ L \in DOMAIN s
  BY <1>1, Shape
<1>3. /\ Len(q) = L - 1 /\ DOMAIN q = 1..(L - 1)
      /\ \A k \in DOMAIN q : q[k] = s[k]
      /\ q = <<>> <=> L = 1
  <2>1. s # <<>>
    BY <1>1
  <2> QED
    BY ONLY <2>1, PoppedIs, s \in Seq(Frame), q = SubSeq(s, 1, Len(s) - 1)
<1>4. /\ \A k \in DOMAIN q : k \in DOMAIN s /\ k < L /\ q[k] = s[k]
      /\ 1 \in DOMAIN q /\ q # <<>>
  BY <1>2, <1>3
<1>5. \A k \in DOMAIN s : k = L \/ k \in DOMAIN q
  BY <1>2, <1>3
<1>6. Open(s) \subseteq Added(p) \cup Open(q)
  <2>1. ASSUME NEW k \in DOMAIN s, IsGroup(s[k])
        PROVE  s[k].path[1] \in Added(p) \cup Open(q)
    <3>1. CASE k = L
      BY <2>1, <3>1
    <3>2. CASE k \in DOMAIN q
      BY <1>4, <2>1, <3>2 DEF Open
    <3> QED
      BY <1>5, <3>1, <3>2
  <2> QED
    BY <2>1 DEF Open
<1>7. Added(o) \cup Open(s) \subseteq Added(p) \cup Open(q)
  BY <1>6
<1>8. q[1].path[1] = n /\ (IsGroup(q[1]) <=> R[n].group)
  BY <1>1, <1>4 DEF WalkOK
<1>9. \A k \in DOMAIN q : FrameOK(N, R, n, q[k])
  BY <1>1, <1>4
<1>10. StackOK(N, R, q)
  <2>1. ASSUME NEW j \in DOMAIN q, NEW k \in DOMAIN q, j < k, IsGroup(q[j])
        PROVE  /\ \A i \in DOMAIN q[k].path :
                    q[k].path[i] \in After(N, E, q[j].path[1])
               /\ IsGroup(q[k]) => q[j].path[1] # q[k].path[1]
    <3>1. /\ j \in DOMAIN s /\ k \in DOMAIN s /\ IsGroup(s[j])
          /\ q[j] = s[j] /\ q[k] = s[k]
      BY <1>4, <2>1
    <3>2. /\ \A i \in DOMAIN s[k].path :
               s[k].path[i] \in After(N, E, s[j].path[1])
          /\ IsGroup(s[k]) => s[j].path[1] # s[k].path[1]
      BY <1>1, <2>1, <3>1 DEF StackOK, E
    <3> QED
      BY <3>1, <3>2
  <2>2. ASSUME NEW k \in DOMAIN q
        PROVE  /\ k < Len(q) => q[k].next = 0
               /\ \A m \in Processed(N, R, q[k]) :
                    \/ m \in G
                    \/ k < Len(q) /\ m = q[k + 1].path[1]
    <3>1. /\ s[k].next = 0
          /\ \A m \in Processed(N, R, s[k]) :
               m \in G \/ m = s[k + 1].path[1]
      BY <1>1, <1>4, <2>2 DEF StackOK, E, G
    <3>2. CASE k = L - 1
      <4>1. k + 1 = L
        BY <1>2, <3>2
      <4> QED
        BY <1>3, <1>4, <2>2, <3>1, <4>1
    <3>3. CASE k # L - 1
      <4>1. k < Len(q) /\ k + 1 \in DOMAIN q
        BY <1>2, <1>3, <2>2, <3>3
      <4> QED
        BY <1>4, <2>2, <3>1, <4>1
    <3> QED
      BY <3>2, <3>3
  <2>3. \A j, k \in DOMAIN q : j < k /\ IsGroup(q[j]) =>
          /\ \A i \in DOMAIN q[k].path :
               q[k].path[i] \in After(N, Edges(N, R), q[j].path[1])
          /\ IsGroup(q[k]) => q[j].path[1] # q[k].path[1]
    BY <2>1 DEF E
  <2>4. \A k \in DOMAIN q :
          /\ k < Len(q) => q[k].next = 0
          /\ \A m \in Processed(N, R, q[k]) :
               \/ m \in Good(N, Edges(N, R), Broken(N, R))
               \/ k < Len(q) /\ m = q[k + 1].path[1]
    BY <2>2 DEF E, G
  <2> QED
    BY <2>3, <2>4 DEF StackOK
<1>11. Covered(N, R, q, p)
  <2>1. ASSUME NEW x \in Added(p) \cap N, NEW y \in E[x]
        PROVE  y \in Added(p) \cup Open(q)
    <3>1. CASE x \notin Added(o)
      <4>1. IsGroup(f) /\ f.left = {} /\ x = f.path[1]
        BY <2>1, <3>1
      <4>2. E[x] \subseteq f.members
        <5>1. E[Last(f)] = f.members \cap N /\ Last(f) = f.path[1]
          BY <1>2, <4>1, GroupFacts
        <5> QED
          BY <4>1, <5>1
      <4>3. f.members \ f.left \subseteq Added(o) \cup Open(s)
        BY <1>1, <1>2, <4>1 DEF Covered
      <4> QED
        BY <1>7, <2>1, <4>1, <4>2, <4>3
    <3>2. CASE x \in Added(o)
      <4>1. \/ y \in Added(o) \cup Open(s)
            \/ ~IsGroup(f) /\ y = f.next
        BY <1>1, <2>1, <3>2 DEF Covered, E
      <4>2. y \in N
        BY <2>1, EdgesIn
      <4> QED
        BY <1>7, <4>1, <4>2
    <3> QED
      BY <3>1, <3>2
  <2>2. ASSUME NEW k \in DOMAIN q
        PROVE  IF IsGroup(q[k])
               THEN q[k].members \ q[k].left \subseteq Added(p) \cup Open(q)
               ELSE \A i \in DOMAIN q[k].path : q[k].path[i] \in Added(p)
    <3>1. IF IsGroup(s[k])
          THEN s[k].members \ s[k].left \subseteq Added(o) \cup Open(s)
          ELSE \A i \in DOMAIN s[k].path : s[k].path[i] \in Added(o)
      BY <1>1, <1>4, <2>2 DEF Covered
    <3>2. Added(o) \subseteq Added(p)
      OBVIOUS
    <3> QED
      BY <1>4, <1>7, <2>2, <3>1, <3>2
  <2> QED
    BY <2>1, <2>2 DEF Covered, E
<1> QED
  BY <1>4, <1>8, <1>9, <1>10, <1>11 DEF WalkOK

-----------------------------------------------------------------------------
(* The end of a walk on a table that rests.                                  *)

\* The tags and what they refer to.
LEMMA Tagged ==
  ASSUME NEW N, NEW R, TableOK(N, R), NEW n \in N,
         NEW o \in Built, OutboundsOK(N, R, n, o)
  PROVE  /\ Added(o) \subseteq Reached(N, Edges(N, R), {n})
         /\ {o[k].tag : k \in DOMAIN o} = {NodeTag(m) : m \in Added(o)}
<1>1. ASSUME NEW k \in DOMAIN o
      PROVE  \E m \in Added(o) \cap Reached(N, Edges(N, R), {n}) :
               o[k].tag = NodeTag(m)
  <2>1. PICK m \in Reached(N, Edges(N, R), {n}) :
               o[k] = Outbound(NodeTag(m), ConfigTargets(R[m]))
    BY DEF OutboundsOK
  <2>2. m \in Id
    BY <2>1, RowFields DEF Reached
  <2>3. o[k].tag = NodeTag(m)
    BY <2>1 DEF Outbound
  <2> QED
    BY <2>1, <2>2, <2>3 DEF Added
<1>2. ASSUME NEW x \in Added(o)
      PROVE  /\ x \in Reached(N, Edges(N, R), {n})
             /\ \E k \in DOMAIN o : o[k].tag = NodeTag(x)
  <2>1. PICK k \in DOMAIN o : o[k].tag = NodeTag(x)
    BY DEF Added
  <2> QED
    BY <1>1, <2>1, TagsDiffer
<1> QED
  BY <1>1, <1>2

LEMMA Referred ==
  ASSUME NEW N, NEW R, TableOK(N, R), NEW n \in N,
         NEW o \in Built, OutboundsOK(N, R, n, o),
         NEW k \in DOMAIN o, NEW t \in o[k].refs
  PROVE  \E m \in Added(o), y \in Id :
           /\ t = NodeTag(y)
           /\ y \in N => y \in Edges(N, R)[m]
<1>1. PICK m \in Reached(N, Edges(N, R), {n}) :
             o[k] = Outbound(NodeTag(m), ConfigTargets(R[m]))
  BY DEF OutboundsOK
<1>2. m \in N /\ m \in Id /\ ConfigTargets(R[m]) \subseteq Id
  BY <1>1, RowFields DEF Reached
<1>3. /\ o[k].tag = NodeTag(m)
      /\ o[k].refs = {NodeTag(y) : y \in ConfigTargets(R[m])}
  BY <1>1 DEF Outbound
<1>4. m \in Added(o)
  BY <1>2, <1>3 DEF Added
<1>5. PICK y \in ConfigTargets(R[m]) : t = NodeTag(y)
  BY <1>3
<1>6. y \in N => y \in Edges(N, R)[m]
  BY <1>2, <1>5, EdgesGroup, EdgesNormal
<1> QED
  BY <1>2, <1>4, <1>5, <1>6

\* A node that is sound is not among those that follow.
LEMMA GoodNotAfter ==
  ASSUME NEW N, NEW E \in [N -> SUBSET N], NEW B, NEW n \in Good(N, E, B),
         NEW x \in Reached(N, E, {n})
  PROVE  n \notin E[x]
<1>1. n \in N /\ n \in Reached(N, E, {n}) /\ n \notin After(N, E, n)
  BY ReachedFrom DEF Good
<1>2. x = n \/ x \in After(N, E, n)
  BY <1>1, ReachedAfter
<1> QED
  BY <1>1, <1>2, AfterFirst, AfterStep

LEMMA ChainEnds ==
  ASSUME NEW N, NEW R, TableOK(N, R), NEW n \in N,
         NEW s \in Seq(Frame), NEW o \in Built, WalkOK(N, R, n, s, o),
         NEW f, f = s[Len(s)], Len(s) = 1, ~IsGroup(f), f.next \notin N
  PROVE  n \in Good(N, Edges(N, R), Broken(N, R)) /\ Complete(N, R, n, o)
<1> DEFINE E == Edges(N, R)
<1>1. /\ f.path[1] = n /\ ~R[n].group /\ FrameOK(N, R, n, f)
      /\ s # <<>> /\ Covered(N, R, s, o) /\ OutboundsOK(N, R, n, o)
  <2>1. 1 \in DOMAIN s
    BY Shape DEF WalkOK
  <2> QED
    BY <2>1 DEF WalkOK
<1>2. n \in Good(N, E, Broken(N, R))
  BY <1>1, ChainGood
<1>3. DOMAIN s = {1}
  BY <1>1, Shape
<1>4. Open(s) = {}
  BY <1>3 DEF Open
<1>5. /\ Added(o) \subseteq Reached(N, E, {n})
      /\ {o[k].tag : k \in DOMAIN o} = {NodeTag(m) : m \in Added(o)}
  BY <1>1, Tagged
<1>6. E \in [N -> SUBSET N] /\ Reached(N, E, {n}) \subseteq N
  BY EdgesIn, ReachedIn
<1>7. n \in Added(o)
  <2>1. 1 \in DOMAIN f.path
    BY <1>1, PathFacts
  <2> QED
    BY <1>1, <1>3, <2>1 DEF Covered
<1>8. Closed(E, Added(o))
  <2>1. ASSUME NEW x \in Added(o), NEW y \in E[x]
        PROVE  y \in Added(o)
    <3>1. x \in N /\ y \in N
      BY <1>5, <1>6, <2>1
    <3>2. y \in Added(o) \/ y = f.next
      BY <1>1, <1>4, <2>1, <3>1 DEF Covered
    <3> QED
      BY <3>1, <3>2
  <2> QED
    BY <2>1 DEF Closed
<1> HIDE DEF E
<1>9. Added(o) = Reached(N, E, {n})
  <2>1. Added(o) \in SUBSET N /\ {n} \cap N \subseteq Added(o)
    BY <1>5, <1>6, <1>7
  <2>2. Reached(N, E, {n}) \subseteq Added(o)
    BY <1>8, <2>1, ReachedLeast
  <2> QED
    BY <1>5, <2>2
<1>10. {o[k].tag : k \in DOMAIN o} =
         {NodeTag(m) : m \in Reached(N, E, {n}) \ {n}} \cup {NodeTag(n)}
  BY <1>5, <1>7, <1>9
<1>11. ASSUME NEW k \in DOMAIN o, NEW t \in o[k].refs
       PROVE  t \in {o[j].tag : j \in DOMAIN o}
                      \cup {NodeTag(m) : m \in Id \ N}
  <2>1. PICK m \in Added(o), y \in Id :
               t = NodeTag(y) /\ (y \in N => y \in E[m])
    BY <1>1, <1>11, Referred DEF E
  <2>2. y \in N => y \in Added(o)
    BY <1>8, <2>1 DEF Closed
  <2> QED
    BY <1>5, <2>1, <2>2
<1>12. Complete(N, R, n, o)
  BY <1>1, <1>10, <1>11 DEF Complete, E
<1> QED
  BY <1>2, <1>12 DEF E

\* What is put in front.
LEMMA InFront ==
  ASSUME NEW o \in Built, NEW b \in [tag : Tag, refs : SUBSET Tag],
         NEW c, c = <<b>>, NEW p, p = c \o o
  PROVE  /\ p \in Built /\ Len(o) \in Nat /\ DOMAIN o = 1..Len(o)
         /\ DOMAIN p = 1..(Len(o) + 1)
         /\ \A k \in DOMAIN p : k = 1 => p[k] = b
         /\ \A k \in 1..Len(o) : p[k + 1] = o[k]
<1>1. /\ c \in Seq([tag : Tag, refs : SUBSET Tag])
      /\ Len(c) = 1 /\ c[1] = b
  OBVIOUS
<1>3. /\ o \in Seq([tag : Tag, refs : SUBSET Tag])
      /\ p = c \o o
  BY DEF Built
<1>4. /\ p \in Seq([tag : Tag, refs : SUBSET Tag])
      /\ Len(p) = Len(c) + Len(o)
      /\ \A i \in 1..(Len(c) + Len(o)) :
           p[i] = IF i <= Len(c) THEN c[i] ELSE o[i - Len(c)]
  BY <1>1, <1>3, ConcatProperties
<1>5. Len(o) \in Nat /\ DOMAIN o = 1..Len(o)
  BY <1>3, LenProperties
<1>6. DOMAIN p = 1..(Len(o) + 1)
  BY <1>1, <1>4, <1>5, LenProperties
<1>7. p[1] = b
  BY <1>1, <1>4, <1>5
<1>8. ASSUME NEW k \in 1..Len(o)
      PROVE  p[k + 1] = o[k]
  <2>1. k + 1 \in 1..(1 + Len(o)) /\ ~(k + 1 <= 1) /\ k + 1 - 1 = k
    BY <1>5
  <2> QED
    BY <1>1, <1>4, <2>1
<1> QED
  BY <1>4, <1>5, <1>6, <1>7, <1>8 DEF Built

LEMMA GroupEnds ==
  ASSUME NEW N, NEW R, TableOK(N, R), NEW n \in N,
         NEW s \in Seq(Frame), NEW o \in Built, WalkOK(N, R, n, s, o),
         NEW f, f = s[Len(s)], Len(s) = 1, IsGroup(f), f.left = {},
         NEW p, p = <<Outbound(PolicyTag(n), f.members)>> \o o
  PROVE  n \in Good(N, Edges(N, R), Broken(N, R)) /\ Complete(N, R, n, p)
<1> DEFINE E == Edges(N, R)
<1>1. /\ f.path[1] = n /\ R[n].group /\ FrameOK(N, R, n, f)
      /\ s # <<>> /\ Covered(N, R, s, o) /\ OutboundsOK(N, R, n, o)
  <2>1. 1 \in DOMAIN s
    BY Shape DEF WalkOK
  <2> QED
    BY <2>1 DEF WalkOK
<1>2. n \in Good(N, E, Broken(N, R)) /\ f.members \subseteq N
  BY <1>1, GroupGood
<1>3. DOMAIN s = {1}
  BY <1>1, Shape
<1>4. Open(s) = {n}
  BY <1>1, <1>3 DEF Open
<1>5. /\ Added(o) \subseteq Reached(N, E, {n})
      /\ {o[k].tag : k \in DOMAIN o} = {NodeTag(m) : m \in Added(o)}
  BY <1>1, Tagged
<1>6. E \in [N -> SUBSET N] /\ Reached(N, E, {n}) \subseteq N
  BY EdgesIn, ReachedIn
<1>7. n \notin Added(o) /\ n \in Reached(N, E, {n})
  BY <1>1, ReachedFrom DEF OutboundsOK
<1>8. f.members \subseteq Added(o) \cup {n} /\ E[n] = f.members
  <2>1. f.members \ f.left \subseteq Added(o) \cup Open(s)
    BY <1>1, <1>3 DEF Covered
  <2>2. E[Last(f)] = f.members \cap N /\ Last(f) = f.path[1]
    BY <1>1, GroupFacts
  <2> QED
    BY <1>1, <1>2, <1>4, <2>1, <2>2
<1>9. Closed(E, Added(o) \cup {n})
  <2>1. ASSUME NEW x \in Added(o), NEW y \in E[x]
        PROVE  y \in Added(o) \cup {n}
    <3>1. x \in N
      BY <1>5, <1>6, <2>1
    <3> QED
      BY <1>1, <1>3, <1>4, <2>1, <3>1 DEF Covered
  <2> QED
    BY <1>8, <2>1 DEF Closed
<1> HIDE DEF E
<1>10. Added(o) = Reached(N, E, {n}) \ {n}
  <2>1. /\ Added(o) \cup {n} \in SUBSET N
        /\ {n} \cap N \subseteq Added(o) \cup {n}
    BY <1>5, <1>6
  <2>2. Reached(N, E, {n}) \subseteq Added(o) \cup {n}
    BY <1>9, <2>1, ReachedLeast
  <2> QED
    BY <1>5, <1>7, <2>2
<1>11. \A x \in Reached(N, E, {n}) : n \notin E[x]
  BY <1>2, <1>6, GoodNotAfter
<1>12. PICK b : b = Outbound(PolicyTag(n), f.members)
  OBVIOUS
<1>13. /\ b \in [tag : Tag, refs : SUBSET Tag] /\ b.tag = PolicyTag(n)
       /\ b.refs = {NodeTag(m) : m \in f.members}
  BY <1>2, <1>12, OutboundTyped, TagsDiffer DEF TableOK
<1>14. /\ p \in Built /\ Len(o) \in Nat /\ DOMAIN o = 1..Len(o)
       /\ DOMAIN p = 1..(Len(o) + 1) /\ p[1] = b
       /\ \A k \in 1..Len(o) : p[k + 1] = o[k]
  <2>1. PICK c : c = <<b>>
    OBVIOUS
  <2>2. p = c \o o
    BY <1>12, <2>1
  <2>3. b \in [tag : Tag, refs : SUBSET Tag]
    BY <1>13
  <2>4. p \in Built /\ Len(o) \in Nat /\ DOMAIN o = 1..Len(o)
    BY <2>1, <2>2, <2>3, InFront
  <2>5. DOMAIN p = 1..(Len(o) + 1)
    BY <2>1, <2>2, <2>3, InFront
  <2>6. p[1] = b
    <3>1. \A k \in DOMAIN p : k = 1 => p[k] = b
      BY ONLY o \in Built, <2>1, <2>2, <2>3, InFront
    <3>2. 1 \in DOMAIN p
      BY <2>4, <2>5
    <3> QED
      BY <3>1, <3>2
  <2>7. \A k \in 1..Len(o) : p[k + 1] = o[k]
    BY <2>1, <2>2, <2>3, InFront
  <2> QED
    BY <2>4, <2>5, <2>6, <2>7
<1>15. /\ \A k \in DOMAIN p : k = 1 \/ (k - 1 \in DOMAIN o /\ p[k] = o[k - 1])
       /\ \A k \in DOMAIN o : k + 1 \in DOMAIN p /\ p[k + 1] = o[k]
       /\ 1 \in DOMAIN p
  <2>1. ASSUME NEW k \in DOMAIN p, k # 1
        PROVE  k - 1 \in DOMAIN o /\ p[k] = o[k - 1]
    <3>1. k - 1 \in 1..Len(o) /\ (k - 1) + 1 = k
      BY <1>14, <2>1
    <3> QED
      BY <1>14, <3>1
  <2> QED
    BY <1>14, <2>1
<1>16. {p[k].tag : k \in DOMAIN p} =
         {NodeTag(m) : m \in Reached(N, E, {n}) \ {n}} \cup {PolicyTag(n)}
  <2>1. {p[k].tag : k \in DOMAIN p} =
          {o[k].tag : k \in DOMAIN o} \cup {PolicyTag(n)}
    <3>1. ASSUME NEW k \in DOMAIN p
          PROVE  p[k].tag \in {o[j].tag : j \in DOMAIN o} \cup {PolicyTag(n)}
      BY <1>13, <1>14, <1>15
    <3>2. ASSUME NEW k \in DOMAIN o
          PROVE  o[k].tag \in {p[j].tag : j \in DOMAIN p}
      <4>1. k + 1 \in DOMAIN p /\ p[k + 1].tag = o[k].tag
        BY <1>15
      <4> QED
        BY <4>1
    <3>3. PolicyTag(n) \in {p[j].tag : j \in DOMAIN p}
      BY <1>13, <1>14, <1>15
    <3>4. {p[k].tag : k \in DOMAIN p} \subseteq
            {o[k].tag : k \in DOMAIN o} \cup {PolicyTag(n)}
      BY <3>1
    <3>5. {o[k].tag : k \in DOMAIN o} \subseteq {p[k].tag : k \in DOMAIN p}
      BY <3>2
    <3>6. PICK tags : tags = {p[k].tag : k \in DOMAIN p}
      OBVIOUS
    <3>7. PICK old : old = {o[k].tag : k \in DOMAIN o}
      OBVIOUS
    <3>8. tags = old \cup {PolicyTag(n)}
      BY <3>3, <3>4, <3>5, <3>6, <3>7
    <3> QED
      BY <3>6, <3>7, <3>8
  <2> QED
    BY <1>5, <1>10, <2>1
<1>17. ASSUME NEW k \in DOMAIN p, NEW t \in p[k].refs
       PROVE  t \in {p[j].tag : j \in DOMAIN p}
                      \cup {NodeTag(m) : m \in Id \ N}
  <2>1. CASE k = 1
    <3>1. PICK y \in f.members : t = NodeTag(y)
      BY <1>13, <1>14, <1>17, <2>1
    <3>2. y # n
      BY <1>7, <1>8, <1>11, <3>1
    <3> QED
      BY <1>8, <1>10, <1>16, <3>1, <3>2
  <2>2. CASE k # 1
    <3>1. k - 1 \in DOMAIN o /\ t \in o[k - 1].refs
      BY <1>15, <1>17, <2>2
    <3>2. PICK m \in Added(o), y \in Id :
                 t = NodeTag(y) /\ (y \in N => y \in E[m])
      BY <1>1, <3>1, Referred DEF E
    <3>3. y \in N => y \in Added(o)
      <4>1. n \notin E[m]
        BY <1>5, <1>11, <3>2
      <4> QED
        BY <1>9, <3>2, <4>1 DEF Closed
    <3> QED
      BY <1>10, <1>16, <3>2, <3>3
  <2> QED
    BY <2>1, <2>2
<1>18. Complete(N, R, n, p)
  <2>1. {p[k].tag : k \in DOMAIN p} =
          {NodeTag(m) : m \in Reached(N, Edges(N, R), {n}) \ {n}}
            \cup {PolicyTag(n)}
    BY <1>16 DEF E
  <2>2. \A k \in DOMAIN p :
          p[k].refs \subseteq {p[j].tag : j \in DOMAIN p}
                                \cup {NodeTag(m) : m \in Id \ N}
    BY <1>17
  <2> QED
    BY <1>1, <2>1, <2>2 DEF Complete
<1> QED
  BY <1>2, <1>18 DEF E

-----------------------------------------------------------------------------
(* Types and tags.                                                           *)

Distinct(o) == \A i, k \in DOMAIN o : o[i].tag = o[k].tag => i = k

OnlyNodes(o) == \A k \in DOMAIN o : \E m \in Id : o[k].tag = NodeTag(m)

Frames == {s \in Seq(Frame) : \A k \in DOMAIN s : s[k].path # <<>>}

\* A generation, whatever the table does meanwhile.
GenOK(p, s, o) ==
  /\ p \in {"detour", "walk", "done", "refused"}
  /\ s \in Frames /\ (s # <<>> <=> p \in {"detour", "walk"})
  /\ o \in Built /\ Distinct(o)
  /\ p \in {"detour", "walk"} => OnlyNodes(o)

LEMMA AddDistinct ==
  ASSUME NEW o \in Built, Distinct(o), OnlyNodes(o),
         NEW n \in Id, NEW targets, targets \subseteq Id,
         NEW p, p = AddTo(o, n, targets)
  PROVE  p \in Built /\ Distinct(p) /\ OnlyNodes(p)
<1>1. /\ p \in Built
      /\ \A k \in DOMAIN p :
           \/ k \in DOMAIN o /\ p[k] = o[k]
           \/ /\ n \notin Added(o) /\ k = Len(o) + 1
              /\ p[k] = Outbound(NodeTag(n), targets)
  BY AddedTo
<1>2. Outbound(NodeTag(n), targets).tag = NodeTag(n)
  BY DEF Outbound
<1>3. ASSUME NEW i \in DOMAIN p, NEW k \in DOMAIN p, p[i].tag = p[k].tag
      PROVE  i = k
  <2>1. CASE i \in DOMAIN o /\ p[i] = o[i] /\ k \in DOMAIN o /\ p[k] = o[k]
    BY <1>3, <2>1 DEF Distinct
  <2>2. ASSUME NEW j \in DOMAIN o, n \notin Added(o)
        PROVE  o[j].tag # NodeTag(n)
    BY <2>2 DEF Added
  <2> QED
    BY <1>1, <1>2, <1>3, <2>1, <2>2
<1>4. ASSUME NEW k \in DOMAIN p
      PROVE  \E m \in Id : p[k].tag = NodeTag(m)
  BY <1>1, <1>2 DEF OnlyNodes
<1> QED
  BY <1>1, <1>3, <1>4 DEF Distinct, OnlyNodes

LEMMA FramesReplaced ==
  ASSUME NEW s \in Frames, s # <<>>, NEW f \in Frame, f.path # <<>>,
         NEW q, q = Replaced(s, f)
  PROVE  q \in Frames /\ q # <<>>
<1>1. s \in Seq(Frame) /\ \A k \in DOMAIN s : s[k].path # <<>>
  BY DEF Frames
<1>2. /\ q \in Seq(Frame) /\ q # <<>> /\ DOMAIN q = DOMAIN s
      /\ \A k \in DOMAIN s : q[k] = f \/ q[k] = s[k]
  BY <1>1 DEF Replaced
<1> QED
  BY <1>1, <1>2 DEF Frames

LEMMA FramesPushed ==
  ASSUME NEW s \in Frames, NEW f \in Frame, f.path # <<>>,
         NEW q, q = Append(s, f)
  PROVE  q \in Frames /\ q # <<>>
<1>1. s \in Seq(Frame) /\ \A k \in DOMAIN s : s[k].path # <<>>
  BY DEF Frames
<1>2. /\ q \in Seq(Frame) /\ q # <<>>
      /\ Len(s) \in Nat /\ DOMAIN s = 1..Len(s)
      /\ DOMAIN q = 1..(Len(s) + 1) /\ q[Len(s) + 1] = f
      /\ \A k \in 1..Len(s) : q[k] = s[k]
  BY <1>1, AppendIs
<1>3. \A k \in DOMAIN q : q[k] = f \/ (k \in DOMAIN s /\ q[k] = s[k])
  BY <1>2
<1> QED
  BY <1>1, <1>2, <1>3 DEF Frames

LEMMA FramesPopped ==
  ASSUME NEW s \in Frames, s # <<>>, NEW q, q = SubSeq(s, 1, Len(s) - 1)
  PROVE  q \in Frames
<1>1. s \in Seq(Frame) /\ \A k \in DOMAIN s : s[k].path # <<>>
  BY DEF Frames
<1>2. /\ q \in Seq(Frame)
      /\ DOMAIN q = 1..(Len(s) - 1) /\ DOMAIN s = 1..Len(s)
      /\ Len(s) \in Nat \ {0}
      /\ \A k \in DOMAIN q : q[k] = s[k]
  BY <1>1, PoppedIs
<1>3. \A k \in DOMAIN q : k \in DOMAIN s /\ q[k] = s[k]
  BY <1>2
<1> QED
  BY <1>1, <1>2, <1>3 DEF Frames

LEMMA NewFrames ==
  ASSUME NEW d \in Id, NEW r \in Row
  PROVE  /\ ChainFrame(d, r) \in Frame /\ ChainFrame(d, r).path # <<>>
         /\ GroupFrame(d, r.members) \in Frame
         /\ GroupFrame(d, r.members).path # <<>>
         /\ ConfigTargets(r) \subseteq Id /\ PreferConfig(r) \in 0..MaxId
         /\ PreferColumn(r) \in 0..MaxId
<1>1. /\ r.detour \in 0..MaxId /\ r.detourId \in 0..MaxId
      /\ r.members \subseteq Id
  BY DEF Row
<1>2. /\ PreferConfig(r) \in 0..MaxId /\ PreferColumn(r) \in 0..MaxId
      /\ 0 \in 0..MaxId
  BY <1>1, Facts DEF PreferConfig, PreferColumn
<1>3. {r.detour} \ {0} \subseteq Id
  BY <1>1, Facts
<1>4. ConfigTargets(r) \subseteq Id
  BY <1>1, <1>3 DEF ConfigTargets
<1>5. ChainFrame(d, r) \in Frame /\ ChainFrame(d, r).path # <<>>
  BY <1>2 DEF ChainFrame, Frame
<1>6. /\ GroupFrame(d, r.members) \in Frame
      /\ GroupFrame(d, r.members).path # <<>>
  BY <1>1, <1>2 DEF GroupFrame, Frame
<1> QED
  BY <1>2, <1>4, <1>5, <1>6

LEMMA TopIs ==
  ASSUME stack \in Frames, stack # <<>>
  PROVE  /\ stack \in Seq(Frame) /\ Len(stack) \in Nat \ {0}
         /\ DOMAIN stack = 1..Len(stack) /\ Len(stack) \in DOMAIN stack
         /\ Top = stack[Len(stack)] /\ Top \in Frame /\ Top.path # <<>>
<1>1. /\ stack \in Seq(Frame)
      /\ \A k \in DOMAIN stack : stack[k].path # <<>>
  BY DEF Frames
<1>2. /\ Len(stack) \in Nat \ {0} /\ DOMAIN stack = 1..Len(stack)
      /\ Len(stack) \in DOMAIN stack
      /\ \A k \in DOMAIN stack : stack[k] \in Frame
  BY <1>1, Shape
<1> QED
  BY <1>1, <1>2 DEF Top

LEMMA RefuseTyped ==
  ASSUME Refuse
  PROVE  GenOK(pc', stack', outbounds')
<1>1. pc' = "refused" /\ stack' = <<>> /\ outbounds' = <<>>
  BY DEF Refuse
<1>2. <<>> \in Frames /\ <<>> \in Built /\ Distinct(<<>>)
  BY DEF Frames, Built, Distinct
<1> QED
  BY <1>1, <1>2 DEF GenOK

LEMMA ProcessIs ==
  ASSUME NEW f, NEW d, Process(f, d)
  PROVE  \/ /\ ~row[d].group /\ pc' = "walk"
            /\ stack' = Append(Replaced(stack, f), ChainFrame(d, row[d]))
            /\ outbounds' = AddTo(outbounds, d, ConfigTargets(row[d]))
         \/ /\ row[d].group /\ (d \in Open(stack) \/ row[d].members = {})
            /\ Refuse
         \/ /\ row[d].group /\ d \notin Open(stack) /\ row[d].members # {}
            /\ pc' = "walk" /\ outbounds' = outbounds
            /\ stack' = Append(Replaced(stack, f),
                               GroupFrame(d, row[d].members))
<1>1. OpenGroups = Open(stack)
  BY DEF OpenGroups, Open, IsGroup
<1>2. ReplaceTop(f) = Replaced(stack, f)
  BY DEF ReplaceTop, Replaced
<1>3. CASE ~row[d].group
  <2>1. /\ stack' = Append(ReplaceTop(f), ChainFrame(d, row[d]))
        /\ Add(d, ConfigTargets(row[d])) /\ pc' = "walk"
    BY <1>3 DEF Process
  <2>2. outbounds' = AddTo(outbounds, d, ConfigTargets(row[d]))
    BY <2>1 DEF Add, AddTo, Tags
  <2> QED
    BY <1>2, <1>3, <2>1, <2>2
<1>4. CASE row[d].group /\ (d \in OpenGroups \/ row[d].members = {})
  <2>1. Refuse
    BY <1>4 DEF Process
  <2> QED
    BY <1>1, <1>4, <2>1
<1>5. CASE row[d].group /\ d \notin OpenGroups /\ row[d].members # {}
  <2>1. /\ stack' = Append(ReplaceTop(f), GroupFrame(d, row[d].members))
        /\ pc' = "walk" /\ UNCHANGED outbounds
    BY <1>5 DEF Process
  <2> QED
    BY <1>1, <1>2, <1>5, <2>1
<1> QED
  BY <1>3, <1>4, <1>5

LEMMA VisitIs ==
  ASSUME NEW d, Visit(d)
  PROVE  \/ (\E i \in DOMAIN Top.path : Top.path[i] = d) /\ Refuse
         \/ /\ \A i \in DOMAIN Top.path : Top.path[i] # d
            /\ ~row[d].group /\ pc' = "walk"
            /\ stack' = Replaced(stack,
                 [Top EXCEPT !.path = Append(@, d), !.next = Hop(row[d])])
            /\ outbounds' = AddTo(outbounds, d, ConfigTargets(row[d]))
         \/ /\ \A i \in DOMAIN Top.path : Top.path[i] # d
            /\ row[d].group /\ Process([Top EXCEPT !.next = 0], d)
<1>1. CASE OnPath(d)
  <2>1. \E i \in DOMAIN Top.path : Top.path[i] = d
    BY <1>1 DEF OnPath
  <2>2. Refuse
    BY <1>1 DEF Visit
  <2> QED
    BY <2>1, <2>2
<1>2. CASE ~OnPath(d)
  <2>1. \A i \in DOMAIN Top.path : Top.path[i] # d
    BY <1>2 DEF OnPath
  <2>2. CASE ~row[d].group
    <3>1. /\ stack' = ReplaceTop(
               [Top EXCEPT !.path = Append(@, d), !.next = Hop(row[d])])
          /\ Add(d, ConfigTargets(row[d])) /\ pc' = "walk"
      BY <1>2, <2>2 DEF Visit
    <3>2. outbounds' = AddTo(outbounds, d, ConfigTargets(row[d]))
      BY <3>1 DEF Add, AddTo, Tags
    <3>3. stack' = Replaced(stack,
                 [Top EXCEPT !.path = Append(@, d), !.next = Hop(row[d])])
      BY <3>1 DEF ReplaceTop, Replaced
    <3> QED
      BY <2>1, <2>2, <3>1, <3>2, <3>3
  <2>3. CASE row[d].group
    <3>1. Process([Top EXCEPT !.next = 0], d)
      BY <1>2, <2>3 DEF Visit
    <3> QED
      BY <2>1, <2>3, <3>1
  <2> QED
    BY <2>2, <2>3
<1> QED
  BY <1>1, <1>2

LEMMA ProcessTyped ==
  ASSUME GenOK(pc, stack, outbounds), pc \in {"detour", "walk"},
         NEW f \in Frame, f.path # <<>>, NEW d \in Id, row[d] \in Row,
         Process(f, d)
  PROVE  GenOK(pc', stack', outbounds')
<1>1. /\ stack \in Frames /\ stack # <<>> /\ outbounds \in Built
      /\ Distinct(outbounds) /\ OnlyNodes(outbounds)
  BY DEF GenOK
<1>2. CASE Refuse
  BY <1>2, RefuseTyped
<1>3. PICK r : r = row[d]
  OBVIOUS
<1>4. PICK q : q = Replaced(stack, f)
  OBVIOUS
<1>5. q \in Frames
  BY <1>1, <1>4, FramesReplaced
<1>6. PICK h : h = ChainFrame(d, r)
  OBVIOUS
<1>7. PICK g : g = GroupFrame(d, r.members)
  OBVIOUS
<1>8. r \in Row
  BY <1>3
<1>9. /\ h \in Frame /\ h.path # <<>> /\ g \in Frame /\ g.path # <<>>
      /\ ConfigTargets(r) \subseteq Id
  BY <1>6, <1>7, <1>8, NewFrames
<1>10. PICK s : s = stack'
  OBVIOUS
<1>11. PICK o : o = outbounds'
  OBVIOUS
<1>12. CASE /\ pc' = "walk" /\ s = Append(q, h)
            /\ o = AddTo(outbounds, d, ConfigTargets(r))
  <2>1. s \in Frames /\ s # <<>>
    BY <1>5, <1>9, <1>12, FramesPushed
  <2>2. PICK b : b = outbounds
    OBVIOUS
  <2>3. o \in Built /\ Distinct(o) /\ OnlyNodes(o)
    BY <1>1, <1>9, <1>12, <2>2, AddDistinct
  <2> QED
    BY <1>10, <1>11, <1>12, <2>1, <2>3 DEF GenOK
<1>13. CASE pc' = "walk" /\ s = Append(q, g) /\ outbounds' = outbounds
  <2>1. s \in Frames /\ s # <<>>
    BY <1>5, <1>9, <1>13, FramesPushed
  <2> QED
    BY <1>1, <1>10, <1>13, <2>1 DEF GenOK
<1> QED
  BY <1>2, <1>3, <1>4, <1>6, <1>7, <1>10, <1>11, <1>12, <1>13, ProcessIs

LEMMA VisitTyped ==
  ASSUME GenOK(pc, stack, outbounds), pc \in {"detour", "walk"},
         NEW d \in Id, row[d] \in Row, Visit(d)
  PROVE  GenOK(pc', stack', outbounds')
<1>1. /\ stack \in Frames /\ stack # <<>> /\ outbounds \in Built
      /\ Distinct(outbounds) /\ OnlyNodes(outbounds)
  BY DEF GenOK
<1>2. CASE Refuse
  BY <1>2, RefuseTyped
<1>3. PICK f : f = Top
  OBVIOUS
<1>4. f \in Frame /\ f.path # <<>>
  BY <1>1, <1>3, TopIs
<1>5. PICK r : r = row[d]
  OBVIOUS
<1>6. Hop(r) \in 0..MaxId /\ ConfigTargets(r) \subseteq Id
  BY <1>5, NewFrames DEF Hop
<1>7. PICK k : k = Hop(r)
  OBVIOUS
<1>8. PICK h : h = [f EXCEPT !.path = Append(@, d), !.next = k]
  OBVIOUS
<1>9. h \in Frame /\ h.path # <<>>
  <2>1. /\ f.path \in Seq(Id) /\ f.members \in SUBSET Id
        /\ f.left \in SUBSET Id
    BY <1>4 DEF Frame
  <2>2. PICK p : p = Append(f.path, d)
    OBVIOUS
  <2>3. p \in Seq(Id) /\ p # <<>>
    BY <2>1, <2>2, AppendIs
  <2>4. h \in Frame /\ h.path = p
    BY <1>4, <1>6, <1>7, <1>8, <2>2, <2>3 DEF Frame
  <2> QED
    BY <2>3, <2>4
<1>10. PICK e : e = [f EXCEPT !.next = 0]
  OBVIOUS
<1>11. e \in Frame /\ e.path # <<>>
  <2>1. 0 \in 0..MaxId
    BY Facts
  <2> QED
    BY <1>4, <1>10, <2>1 DEF Frame
<1>12. CASE Process(e, d)
  BY <1>11, <1>12, ProcessTyped
<1>13. PICK s : s = stack'
  OBVIOUS
<1>14. PICK o : o = outbounds'
  OBVIOUS
<1>15. PICK b : b = outbounds
  OBVIOUS
<1>16. CASE /\ pc' = "walk" /\ s = Replaced(stack, h)
            /\ o = AddTo(b, d, ConfigTargets(r))
  <2>1. s \in Frames /\ s # <<>>
    BY <1>1, <1>9, <1>16, FramesReplaced
  <2>2. o \in Built /\ Distinct(o) /\ OnlyNodes(o)
    BY <1>1, <1>6, <1>15, <1>16, AddDistinct
  <2> QED
    BY <1>13, <1>14, <1>16, <2>1, <2>2 DEF GenOK
<1> QED
  BY <1>2, <1>3, <1>5, <1>7, <1>8, <1>10, <1>12, <1>13, <1>14, <1>15, <1>16,
     VisitIs

LEMMA PopTyped ==
  ASSUME GenOK(pc, stack, outbounds), pc = "walk", Pop,
         outbounds' \in Built, Distinct(outbounds'),
         Len(stack) # 1 => OnlyNodes(outbounds')
  PROVE  GenOK(pc', stack', outbounds')
<1>1. stack \in Frames /\ stack # <<>>
  BY DEF GenOK
<1>2. PICK q : q = SubSeq(stack, 1, Len(stack) - 1)
  OBVIOUS
<1>3. PICK s : s = stack
  OBVIOUS
<1>a. s \in Frames /\ s # <<>> /\ q = SubSeq(s, 1, Len(s) - 1)
  BY <1>1, <1>2, <1>3
<1>4. q \in Frames
  BY <1>a, FramesPopped
<1>5. q = <<>> <=> Len(s) = 1
  BY <1>a, PoppedIs DEF Frames
<1>6. /\ stack' = q
      /\ pc' = IF Len(stack) = 1 THEN "done" ELSE "walk"
  BY <1>2 DEF Pop
<1>7. CASE Len(stack) = 1
  BY <1>3, <1>4, <1>5, <1>6, <1>7 DEF GenOK
<1>8. CASE Len(stack) # 1
  BY <1>3, <1>4, <1>5, <1>6, <1>8 DEF GenOK
<1> QED
  BY <1>7, <1>8

LEMMA FrontDistinct ==
  ASSUME NEW o \in Built, Distinct(o), OnlyNodes(o), NEW n \in Id,
         NEW ms, ms \subseteq Id,
         NEW p, p = <<Outbound(PolicyTag(n), ms)>> \o o
  PROVE  p \in Built /\ Distinct(p)
<1>1. PICK b : b = Outbound(PolicyTag(n), ms)
  OBVIOUS
<1>2. b \in [tag : Tag, refs : SUBSET Tag] /\ b.tag = PolicyTag(n)
  BY <1>1, OutboundTyped, TagsDiffer
<1>3. PICK c : c = <<b>>
  OBVIOUS
<1>4. PICK q : q = c \o o
  OBVIOUS
<1>5. q \in Built /\ Len(o) \in Nat /\ DOMAIN o = 1..Len(o)
  BY ONLY o \in Built, <1>2, <1>3, <1>4, InFront
<1>6. DOMAIN q = 1..(Len(o) + 1)
  BY ONLY o \in Built, <1>2, <1>3, <1>4, InFront
<1>7. \A k \in DOMAIN q : k = 1 => q[k] = b
  BY ONLY o \in Built, <1>2, <1>3, <1>4, InFront
<1>8. \A k \in 1..Len(o) : q[k + 1] = o[k]
  BY ONLY o \in Built, <1>2, <1>3, <1>4, InFront
<1>9. ASSUME NEW k \in DOMAIN q, k # 1
      PROVE  k - 1 \in DOMAIN o /\ q[k] = o[k - 1]
  <2>1. k - 1 \in 1..Len(o) /\ (k - 1) + 1 = k
    BY <1>5, <1>6, <1>9
  <2> QED
    BY <1>5, <1>8, <2>1
<1>10. \A k \in DOMAIN q : k # 1 => q[k].tag # PolicyTag(n)
  BY <1>9, TagsDiffer DEF OnlyNodes
<1>11. ASSUME NEW i \in DOMAIN q, NEW k \in DOMAIN q, q[i].tag = q[k].tag
       PROVE  i = k
  <2>1. CASE i = 1 \/ k = 1
    BY <1>2, <1>7, <1>10, <1>11, <2>1
  <2>2. CASE i # 1 /\ k # 1
    <3>1. i - 1 = k - 1
      BY <1>9, <1>11, <2>2 DEF Distinct
    <3>2. i \in Int /\ k \in Int
      BY <1>5, <1>6
    <3> QED
      BY <3>1, <3>2
  <2> QED
    BY <2>1, <2>2
<1>12. p = q
  BY <1>1, <1>3, <1>4
<1> QED
  BY <1>5, <1>11, <1>12 DEF Distinct

TableTyped(N, R, L) ==
  /\ N \subseteq 1..L /\ L \in 0..MaxId /\ R \in [Id -> Row]
  /\ \A n \in Id : WellFormed(R[n]) /\ (n \notin N => R[n] = BlankRow)

LEMMA Typed ==
  ASSUME TypeOK, TagInv
  PROVE  /\ TableTyped(nodes, row, lastId) /\ nodes \subseteq Id
         /\ \A n \in nodes : n \in Id /\ row[n] \in Row
         /\ copy \in Row /\ edits \in 0..MaxEdits
         /\ pc # "idle" => start \in Id /\ GenOK(pc, stack, outbounds)
<1>1. /\ TableTyped(nodes, row, lastId)
      /\ copy \in Row /\ edits \in 0..MaxEdits
  BY DEF TypeOK, TableTyped
<1>2. nodes \subseteq Id
  BY Facts DEF TypeOK
<1>3. \A n \in nodes : n \in Id /\ row[n] \in Row
  BY <1>2 DEF TypeOK
<1>4. ASSUME pc # "idle"
      PROVE  start \in Id /\ GenOK(pc, stack, outbounds)
  <2>1. start \in Id
    BY <1>4, Facts DEF TypeOK
  <2>2. /\ pc \in {"detour", "walk", "done", "refused"}
        /\ stack # <<>> <=> pc \in {"detour", "walk"}
    BY <1>4 DEF TypeOK
  <2>3. stack \in Frames
    BY DEF TypeOK, Frames
  <2>4. outbounds \in Built
    BY DEF TypeOK, Built
  <2>5. Distinct(outbounds)
    BY DEF TagInv, TagsUnique, Distinct
  <2>6. pc \in {"detour", "walk"} => OnlyNodes(outbounds)
    BY DEF TagInv, OnlyNodes
  <2> QED
    BY <2>1, <2>2, <2>3, <2>4, <2>5, <2>6 DEF GenOK
<1> QED
  BY <1>1, <1>2, <1>3, <1>4

LEMMA GenerateTyped ==
  ASSUME TypeOK, TagInv, Generate
  PROVE  GenOK(pc', stack', outbounds')
<1>1. pc \in {"detour", "walk"} /\ pc # "idle"
  BY DEF Generate, FetchDetour, FollowDetour, NextMember, EndGroup
<1>2. /\ \A n \in nodes : n \in Id /\ row[n] \in Row
      /\ start \in Id /\ GenOK(pc, stack, outbounds)
  BY <1>1, Typed
<1>3. /\ stack \in Frames /\ stack # <<>> /\ outbounds \in Built
      /\ Distinct(outbounds) /\ OnlyNodes(outbounds)
  BY <1>1, <1>2 DEF GenOK
<1>4. Top \in Frame /\ Top.path # <<>>
  BY <1>3, TopIs
<1>5. CASE Refuse
  BY <1>5, RefuseTyped
<1>6. CASE FetchDetour /\ ~Refuse
  <2>1. CASE pc' = "walk" /\ UNCHANGED <<stack, outbounds>>
    BY <1>3, <2>1 DEF GenOK
  <2>2. CASE copy.detourId \in nodes /\ Visit(copy.detourId)
    <3>1. copy.detourId \in Id /\ row[copy.detourId] \in Row
      BY <1>2, <2>2
    <3> QED
      BY <1>1, <1>2, <2>2, <3>1, VisitTyped
  <2> QED
    BY <1>6, <2>1, <2>2 DEF FetchDetour
<1>7. CASE FollowDetour
  <2>1. CASE Top.next \in nodes /\ Visit(Top.next)
    <3>1. Top.next \in Id /\ row[Top.next] \in Row
      BY <1>2, <2>1
    <3> QED
      BY <1>1, <1>2, <2>1, <3>1, VisitTyped
  <2>2. CASE pc = "walk" /\ Pop /\ UNCHANGED outbounds
    BY <1>2, <1>3, <2>2, PopTyped
  <2> QED
    BY <1>7, <2>1, <2>2 DEF FollowDetour
<1>8. CASE NextMember /\ ~Refuse
  <2>1. PICK m \in Top.left :
          m \in nodes /\ Process([Top EXCEPT !.left = @ \ {m}], m)
    BY <1>8 DEF NextMember
  <2>2. PICK f : f = Top
    OBVIOUS
  <2>3. PICK e : e = [f EXCEPT !.left = @ \ {m}]
    OBVIOUS
  <2>4. e \in Frame /\ e.path # <<>>
    BY <1>4, <2>2, <2>3 DEF Frame
  <2>5. Process(e, m)
    BY <2>1, <2>2, <2>3
  <2> QED
    BY <1>1, <1>2, <2>1, <2>4, <2>5, ProcessTyped
<1>9. CASE EndGroup
  <2>1. pc = "walk" /\ Pop
    BY <1>9 DEF EndGroup
  <2>2. PICK f : f = Top
    OBVIOUS
  <2>3. f.path[1] \in Id /\ f.members \subseteq Id
    <3>1. f.path \in Seq(Id) /\ f.path # <<>> /\ f.members \in SUBSET Id
      BY <1>4, <2>2 DEF Frame
    <3>2. PICK p : p = f.path
      OBVIOUS
    <3>3. p[1] \in Id
      BY <3>1, <3>2
    <3> QED
      BY <3>1, <3>2, <3>3
  <2>4. PICK b : b = outbounds
    OBVIOUS
  <2>5. PICK o : o = outbounds'
    OBVIOUS
  <2>6. CASE Len(stack) > 1 /\ Add(Top.path[1], Top.members)
    <3>1. o = AddTo(b, f.path[1], f.members)
      BY <2>2, <2>4, <2>5, <2>6 DEF Add, AddTo, Tags
    <3>2. o \in Built /\ Distinct(o) /\ OnlyNodes(o)
      BY <1>3, <2>3, <2>4, <3>1, AddDistinct
    <3> QED
      BY <1>2, <2>1, <2>5, <3>2, PopTyped
  <2>7. CASE /\ Len(stack) = 1
             /\ outbounds' = <<Outbound(PolicyTag(start), Top.members)>>
                               \o outbounds
    <3>1. PICK n : n = start
      OBVIOUS
    <3>2. o = <<Outbound(PolicyTag(n), f.members)>> \o b
      BY <2>2, <2>4, <2>5, <2>7, <3>1
    <3>3. o \in Built /\ Distinct(o)
      BY <1>2, <1>3, <2>3, <2>4, <3>1, <3>2, FrontDistinct
    <3> QED
      BY <1>2, <2>1, <2>5, <2>7, <3>3, PopTyped
  <2> QED
    BY <1>9, <2>6, <2>7 DEF EndGroup
<1> QED
  BY <1>5, <1>6, <1>7, <1>8, <1>9 DEF Generate

LEMMA Retyped ==
  ASSUME TableTyped(nodes', row', lastId'), GenOK(pc', stack', outbounds'),
         start' \in Id, copy' \in Row, edits' \in 0..MaxEdits
  PROVE  TypeOK' /\ TagInv'
<1>1. /\ pc' \in {"detour", "walk", "done", "refused"}
      /\ stack' \in Frames
      /\ stack' # <<>> <=> pc' \in {"detour", "walk"}
      /\ outbounds' \in Built /\ Distinct(outbounds')
      /\ pc' \in {"detour", "walk"} => OnlyNodes(outbounds')
  BY DEF GenOK
<1>2. start' \in 0..MaxId /\ start' # 0 /\ pc' # "idle"
  BY <1>1, Facts
<1>3. stack' \in Seq(Frame) /\ \A k \in DOMAIN stack' : stack'[k].path # <<>>
  BY <1>1 DEF Frames
<1>4. outbounds' \in Seq([tag : Tag, refs : SUBSET Tag])
  BY <1>1 DEF Built
<1>5. TypeOK'
  BY <1>1, <1>2, <1>3, <1>4 DEF TypeOK, TableTyped
<1>6. TagInv'
  BY <1>1, <1>2 DEF TagInv, TagsUnique, Distinct, OnlyNodes
<1> QED
  BY <1>5, <1>6

\* What clients send is a row.
LEMMA BodyIs ==
  ASSUME NEW n, NEW b \in Body(n)
  PROVE  b \in Row /\ WellFormed(b)
  BY DEF Body

LEMMA MergedIs ==
  ASSUME NEW r \in Row, NEW b \in Row, WellFormed(b)
  PROVE  Merged(r, b) \in Row /\ WellFormed(Merged(r, b))
<1>1. PICK c : c = IF b.detourId = 0 THEN r.detourId ELSE b.detourId
  OBVIOUS
<1>2. c \in 0..MaxId
  BY <1>1 DEF Row
<1>3. Merged(r, b) = [b EXCEPT !.detourId = c]
  BY <1>1 DEF Merged
<1>4. PICK m : m = [b EXCEPT !.detourId = c]
  OBVIOUS
<1>5. /\ m \in Row /\ m.group = b.group /\ m.detour = b.detour
      /\ m.members = b.members
  BY <1>2, <1>4 DEF Row
<1> QED
  BY <1>3, <1>4, <1>5 DEF WellFormed

LEMMA TableStep ==
  ASSUME TypeOK,
         \/ CreateNode
         \/ \E n \in nodes : UpdateNode(n) \/ DeleteNode(n)
  PROVE  /\ TableTyped(nodes', row', lastId') /\ UNCHANGED gen
         /\ edits' \in 0..MaxEdits
         /\ pc # "idle" => edits' # 0
<1>1. /\ TableTyped(nodes, row, lastId) /\ edits \in 0..MaxEdits
      /\ nodes \subseteq Id
  BY Facts DEF TypeOK, TableTyped
<1>2. ASSUME Edit
      PROVE  edits' \in 0..MaxEdits /\ (pc # "idle" => edits' # 0)
  BY <1>1, <1>2, NodeConfigAssumption DEF Edit
<1>3. ASSUME CreateNode
      PROVE  TableTyped(nodes', row', lastId')
  <2>1. PICK b \in Body(lastId + 1) : row' = [row EXCEPT ![lastId + 1] = b]
    BY <1>3 DEF CreateNode
  <2>2. PICK i : i = lastId + 1
    OBVIOUS
  <2>3. /\ lastId' = i /\ i \in 0..MaxId /\ i \in Id
        /\ nodes' = nodes \cup {i} /\ nodes' \subseteq 1..i
    BY <1>1, <1>3, <2>2, Facts DEF CreateNode, TableTyped
  <2>4. b \in Row /\ WellFormed(b)
    BY <2>1, <2>2, <2>3, BodyIs
  <2>5. row' = [row EXCEPT ![i] = b]
    BY <2>1, <2>2
  <2> QED
    BY <1>1, <2>3, <2>4, <2>5 DEF TableTyped
<1>4. ASSUME NEW n \in nodes, UpdateNode(n)
      PROVE  TableTyped(nodes', row', lastId')
  <2>1. PICK b \in Body(n) : row' = [row EXCEPT ![n] = Merged(row[n], b)]
    BY <1>4 DEF UpdateNode
  <2>2. b \in Row /\ WellFormed(b) /\ n \in Id /\ row[n] \in Row
    BY <1>1, BodyIs DEF TableTyped
  <2>3. PICK r : r = Merged(row[n], b)
    OBVIOUS
  <2>4. r \in Row /\ WellFormed(r)
    BY <2>2, <2>3, MergedIs
  <2>5. row' = [row EXCEPT ![n] = r] /\ nodes' = nodes /\ lastId' = lastId
    BY <1>4, <2>1, <2>3 DEF UpdateNode
  <2> QED
    BY <1>1, <2>2, <2>4, <2>5 DEF TableTyped
<1>5. ASSUME NEW n \in nodes, DeleteNode(n)
      PROVE  TableTyped(nodes', row', lastId')
  <2>1. /\ row' = [row EXCEPT ![n] = BlankRow] /\ nodes' = nodes \ {n}
        /\ lastId' = lastId
    BY <1>5 DEF DeleteNode
  <2>2. BlankRow \in Row /\ WellFormed(BlankRow)
    <3>1. 0 \in 0..MaxId
      BY Facts
    <3> QED
      BY <3>1 DEF BlankRow, Row, WellFormed
  <2> QED
    BY <1>1, <2>1, <2>2 DEF TableTyped
<1>6. Edit /\ UNCHANGED gen
  BY DEF CreateNode, UpdateNode, DeleteNode
<1> QED
  BY <1>2, <1>3, <1>4, <1>5, <1>6

LEMMA StartTyped ==
  ASSUME TypeOK, TagInv, NEW n \in nodes, StartNode(n)
  PROVE  /\ GenOK(pc', stack', outbounds') /\ start' \in Id /\ copy' \in Row
         /\ edits' \in 0..MaxEdits /\ UNCHANGED table
<1>1. n \in Id /\ row[n] \in Row
  BY Typed
<1>2. /\ start' \in Id /\ copy' \in Row /\ UNCHANGED table
      /\ edits' \in 0..MaxEdits
  BY <1>1, NodeConfigAssumption DEF StartNode
<1>3. outbounds = <<>>
  BY DEF StartNode, TagInv
<1>4. PICK r : r = row[n]
  OBVIOUS
<1>5. /\ ChainFrame(n, r) \in Frame /\ ChainFrame(n, r).path # <<>>
      /\ GroupFrame(n, r.members) \in Frame
      /\ GroupFrame(n, r.members).path # <<>>
      /\ ConfigTargets(r) \subseteq Id
  BY <1>1, <1>4, NewFrames
<1>6. ASSUME NEW h \in Frame, h.path # <<>>, NEW s, s = <<h>>
      PROVE  s \in Frames /\ s # <<>>
  <2>1. s \in Seq(Frame) /\ s # <<>> /\ DOMAIN s = {1} /\ s[1] = h
    BY <1>6
  <2> QED
    BY <1>6, <2>1 DEF Frames
<1>7. CASE Refuse
  BY <1>2, <1>7, RefuseTyped
<1>8. CASE /\ pc' \in {"detour", "walk"}
           /\ stack' = <<ChainFrame(n, r)>>
           /\ outbounds' = <<Outbound(NodeTag(n), ConfigTargets(r))>>
  <2>1. PICK h : h = ChainFrame(n, r)
    OBVIOUS
  <2>2. PICK s : s = stack'
    OBVIOUS
  <2>3. s \in Frames /\ s # <<>>
    BY <1>5, <1>6, <1>8, <2>1, <2>2
  <2>4. PICK b : b = Outbound(NodeTag(n), ConfigTargets(r))
    OBVIOUS
  <2>5. b \in [tag : Tag, refs : SUBSET Tag] /\ b.tag = NodeTag(n)
    BY <1>1, <1>5, <2>4, OutboundTyped, TagsDiffer
  <2>6. PICK o : o = outbounds'
    OBVIOUS
  <2>7. /\ o \in Seq([tag : Tag, refs : SUBSET Tag])
        /\ DOMAIN o = {1} /\ o[1] = b
    BY <1>8, <2>4, <2>5, <2>6
  <2>8. o \in Built /\ Distinct(o) /\ OnlyNodes(o)
    BY <1>1, <2>5, <2>7 DEF Built, Distinct, OnlyNodes
  <2> QED
    BY <1>2, <1>8, <2>2, <2>3, <2>6, <2>8 DEF GenOK
<1>9. CASE /\ pc' = "walk" /\ UNCHANGED outbounds
           /\ stack' = <<GroupFrame(n, r.members)>>
  <2>1. PICK h : h = GroupFrame(n, r.members)
    OBVIOUS
  <2>2. PICK s : s = stack'
    OBVIOUS
  <2>3. s \in Frames /\ s # <<>>
    BY <1>5, <1>6, <1>9, <2>1, <2>2
  <2>4. outbounds' = <<>>
    BY <1>3, <1>9
  <2>5. <<>> \in Built /\ Distinct(<<>>) /\ OnlyNodes(<<>>)
    BY DEF Built, Distinct, OnlyNodes
  <2> QED
    BY <1>2, <1>9, <2>2, <2>3, <2>4, <2>5 DEF GenOK
<1> QED
  BY <1>4, <1>7, <1>8, <1>9 DEF StartNode

LEMMA TypeInit ==
  ASSUME Init
  PROVE  TypeOK /\ TagInv
<1>1. 0 \in 0..MaxId /\ 0 \in 0..MaxEdits
  BY NodeConfigAssumption
<1>2. BlankRow \in Row /\ WellFormed(BlankRow)
  BY <1>1 DEF BlankRow, Row, WellFormed
<1> QED
  BY <1>1, <1>2 DEF Init, TypeOK, TagInv, TagsUnique

LEMMA TypeNext ==
  ASSUME TypeOK, TagInv, [Next]_vars
  PROVE  TypeOK' /\ TagInv'
<1>1. /\ TableTyped(nodes, row, lastId) /\ copy \in Row
      /\ edits \in 0..MaxEdits
      /\ pc # "idle" => start \in Id /\ GenOK(pc, stack, outbounds)
  BY Typed
<1>2. CASE \/ CreateNode
           \/ \E n \in nodes : UpdateNode(n) \/ DeleteNode(n)
  <2>1. /\ TableTyped(nodes', row', lastId') /\ edits' \in 0..MaxEdits
        /\ UNCHANGED gen
    BY <1>2, TableStep
  <2> QED
    BY <2>1 DEF gen, TypeOK, TagInv, TagsUnique, TableTyped
<1>3. CASE \E n \in nodes : StartNode(n)
  <2>1. /\ GenOK(pc', stack', outbounds') /\ start' \in Id /\ copy' \in Row
        /\ edits' \in 0..MaxEdits /\ UNCHANGED table
    BY <1>3, StartTyped
  <2>2. TableTyped(nodes', row', lastId')
    BY <1>1, <2>1 DEF table
  <2> QED
    BY <2>1, <2>2, Retyped
<1>4. CASE Generate
  <2>1. GenOK(pc', stack', outbounds')
    BY <1>4, GenerateTyped
  <2>2. UNCHANGED <<table, start, copy, edits>> /\ pc # "idle"
    BY <1>4
       DEF Generate, FetchDetour, FollowDetour, NextMember, EndGroup
  <2>3. TableTyped(nodes', row', lastId')
    BY <1>1, <2>2 DEF table
  <2> QED
    BY <1>1, <2>1, <2>2, <2>3, Retyped
<1>5. CASE Return
  <2>1. 0 \in 0..MaxId /\ 0 \in 0..MaxEdits
    BY NodeConfigAssumption
  <2>2. BlankRow \in Row
    BY <2>1 DEF BlankRow, Row
  <2>3. TableTyped(nodes', row', lastId')
    BY <1>1, <1>5 DEF Return, table
  <2>4. /\ pc' = "idle" /\ start' = 0 /\ copy' \in Row
        /\ stack' = <<>> /\ outbounds' = <<>> /\ edits' = 0
    BY <1>5, <2>2 DEF Return
  <2>5. TagInv'
    BY <2>4 DEF TagInv, TagsUnique
  <2>6. TypeOK'
    BY <2>1, <2>3, <2>4 DEF TypeOK, TableTyped
  <2> QED
    BY <2>5, <2>6
<1>6. CASE UNCHANGED vars
  BY <1>6 DEF vars, TypeOK, TagInv, TagsUnique
<1> QED
  BY <1>2, <1>3, <1>4, <1>5, <1>6 DEF Next

\* Rows, frames and outbounds keep their types, a normal node has no members
\* and a policy group no detour, whatever clients send and in whatever order
\* they do.
THEOREM TypeCorrect == Spec => []TypeOK
<1>1. TypeOK /\ TagInv /\ [Next]_vars => (TypeOK /\ TagInv)'
  BY TypeNext
<1> QED
  BY TypeInit, <1>1, PTL DEF Spec

\* No configuration has a tag twice, however the rows change while it is
\* generated.
THEOREM TagsDistinct == Spec => []TagsUnique
<1>1. TypeOK /\ TagInv /\ [Next]_vars => (TypeOK /\ TagInv)'
  BY TypeNext
<1>2. TagInv => TagsUnique
  BY DEF TagInv
<1> QED
  BY TypeInit, <1>1, <1>2, PTL DEF Spec

-----------------------------------------------------------------------------
(* The steps of the generator on a table that rests.                         *)

\* What a step leads to.
Result(N, R, n, p, s, o) ==
  \/ p = "walk" /\ WalkOK(N, R, n, s, o) /\ Found(N, R, n)
  \/ p = "done" /\ Startable(N, R, n) /\ Complete(N, R, n, o)
  \/ p = "refused" /\ ~Startable(N, R, n)

LEMMA WalkTop ==
  ASSUME NEW n, WalkOK(nodes, row, n, stack, outbounds),
         stack \in Seq(Frame)
  PROVE  /\ stack # <<>> /\ Len(stack) \in Nat \ {0}
         /\ Len(stack) \in DOMAIN stack /\ 1 \in DOMAIN stack
         /\ \A k \in DOMAIN stack : FrameOK(nodes, row, n, stack[k])
         /\ StackOK(nodes, row, stack) /\ OutboundsOK(nodes, row, n, outbounds)
         /\ Top = stack[Len(stack)] /\ Top \in Frame
         /\ FrameOK(nodes, row, n, Top)
<1>1. /\ stack # <<>>
      /\ \A k \in DOMAIN stack : FrameOK(nodes, row, n, stack[k])
      /\ StackOK(nodes, row, stack) /\ OutboundsOK(nodes, row, n, outbounds)
  BY DEF WalkOK
<1>2. /\ Len(stack) \in Nat \ {0} /\ Len(stack) \in DOMAIN stack
      /\ 1 \in DOMAIN stack /\ \A k \in DOMAIN stack : stack[k] \in Frame
  BY <1>1, Shape
<1> QED
  BY <1>1, <1>2 DEF Top

LEMMA ProcessRight ==
  ASSUME TableOK(nodes, row), NEW n \in nodes, Found(nodes, row, n),
         stack \in Seq(Frame), outbounds \in Built,
         WalkOK(nodes, row, n, stack, outbounds),
         NEW d, NEW e, Calls(nodes, row, n, Top, e, d), Process(e, d)
  PROVE  Result(nodes, row, n, pc', stack', outbounds')
<1>1. /\ stack # <<>>
      /\ \A k \in DOMAIN stack : FrameOK(nodes, row, n, stack[k])
      /\ StackOK(nodes, row, stack) /\ Top = stack[Len(stack)]
      /\ FrameOK(nodes, row, n, Top)
  BY WalkTop
<1>2. PICK f : f = Top
  OBVIOUS
<1>3. d \in Edges(nodes, row)[Last(f)]
  BY <1>2 DEF Calls
<1>4. d \in nodes /\ d \in Reached(nodes, Edges(nodes, row), {n})
  BY <1>1, <1>2, <1>3, Ahead
<1>5. PICK s : s = stack'
  OBVIOUS
<1>6. PICK o : o = outbounds'
  OBVIOUS
<1>7. CASE /\ ~row[d].group /\ pc' = "walk"
           /\ stack' = Append(Replaced(stack, e), ChainFrame(d, row[d]))
           /\ outbounds' = AddTo(outbounds, d, ConfigTargets(row[d]))
  <2>1. WalkOK(nodes, row, n, s, o)
    BY <1>1, <1>2, <1>5, <1>6, <1>7, CallNormal
  <2> QED
    BY <1>5, <1>6, <1>7, <2>1 DEF Result
<1>8. CASE /\ row[d].group /\ (d \in Open(stack) \/ row[d].members = {})
           /\ Refuse
  <2>1. CASE d \in Open(stack)
    <3>1. n \notin Good(nodes, Edges(nodes, row), Broken(nodes, row))
      BY <1>1, <1>2, <1>3, <2>1, CircleOfGroup
    <3> QED
      BY <1>8, <3>1 DEF Result, Startable, Refuse
  <2>2. CASE row[d].members = {}
    <3>1. d \in Broken(nodes, row)
      BY <1>4, <1>8, <2>2 DEF Broken
    <3>2. n \notin Good(nodes, Edges(nodes, row), Broken(nodes, row))
      BY <1>4, <3>1, NotGood
    <3> QED
      BY <1>8, <3>2 DEF Result, Startable, Refuse
  <2> QED
    BY <1>8, <2>1, <2>2
<1>9. CASE /\ row[d].group /\ d \notin Open(stack) /\ row[d].members # {}
           /\ pc' = "walk" /\ outbounds' = outbounds
           /\ stack' = Append(Replaced(stack, e),
                              GroupFrame(d, row[d].members))
  <2>1. WalkOK(nodes, row, n, s, outbounds)
    BY <1>1, <1>2, <1>5, <1>9, CallGroup
  <2> QED
    BY <1>5, <1>9, <2>1 DEF Result
<1> QED
  BY <1>7, <1>8, <1>9, ProcessIs

LEMMA VisitRight ==
  ASSUME TableOK(nodes, row), NEW n \in nodes, Found(nodes, row, n),
         stack \in Seq(Frame), outbounds \in Built,
         WalkOK(nodes, row, n, stack, outbounds),
         ~IsGroup(Top), NEW d \in nodes, Top.next = d, Visit(d)
  PROVE  Result(nodes, row, n, pc', stack', outbounds')
<1>1. /\ Top = stack[Len(stack)] /\ Top \in Frame
      /\ FrameOK(nodes, row, n, Top)
  BY WalkTop
<1>2. PICK f : f = Top
  OBVIOUS
<1>3. /\ f = stack[Len(stack)] /\ f \in Frame /\ FrameOK(nodes, row, n, f)
      /\ ~IsGroup(f) /\ f.next = d
  BY <1>1, <1>2
<1>4. PICK s : s = stack'
  OBVIOUS
<1>5. PICK o : o = outbounds'
  OBVIOUS
<1>6. CASE (\E i \in DOMAIN Top.path : Top.path[i] = d) /\ Refuse
  <2>1. PICK i \in DOMAIN f.path : f.path[i] = d
    BY <1>2, <1>6
  <2>2. Edges(nodes, row)[Last(f)] = {d}
    <3>1. d # 0
      BY RowFields
    <3>2. /\ f.next \in {0, PreferConfig(row[Last(f)])}
          /\ Edges(nodes, row)[Last(f)] =
               {PreferConfig(row[Last(f)])} \cap nodes
      BY <1>3, ChainFacts
    <3> QED
      BY <1>3, <3>1, <3>2
  <2>3. n \notin Good(nodes, Edges(nodes, row), Broken(nodes, row))
    BY <1>3, <2>1, <2>2, CircleOfChain
  <2> QED
    BY <1>6, <2>3 DEF Result, Startable, Refuse
<1>7. CASE /\ \A i \in DOMAIN Top.path : Top.path[i] # d
           /\ ~row[d].group /\ pc' = "walk"
           /\ stack' = Replaced(stack,
                [Top EXCEPT !.path = Append(@, d), !.next = Hop(row[d])])
           /\ outbounds' = AddTo(outbounds, d, ConfigTargets(row[d]))
  <2>1. Hop(row[d]) = PreferConfig(row[d])
    BY <1>7, EdgesNormal DEF Hop
  <2>2. s = Replaced(stack, ChainOn(row, f, d))
    BY <1>2, <1>4, <1>7, <2>1 DEF ChainOn
  <2>3. WalkOK(nodes, row, n, s, o)
    BY <1>2, <1>3, <1>5, <1>7, <2>2, ChainOnWalk
  <2> QED
    BY <1>4, <1>5, <1>7, <2>3 DEF Result
<1>8. CASE /\ row[d].group /\ Process([Top EXCEPT !.next = 0], d)
  <2>1. PICK e : e = [f EXCEPT !.next = 0]
    OBVIOUS
  <2>2. Calls(nodes, row, n, f, e, d)
    BY <1>3, <2>1, ChainCalls
  <2>3. Calls(nodes, row, n, Top, e, d) /\ Process(e, d)
    BY <1>2, <1>8, <2>1, <2>2
  <2> QED
    BY <2>3, ProcessRight
<1> QED
  BY <1>6, <1>7, <1>8, VisitIs

LEMMA PopIs ==
  ASSUME stack \in Seq(Frame), stack # <<>>, pc = "walk", Pop
  PROVE  /\ stack' = SubSeq(stack, 1, Len(stack) - 1)
         /\ Len(stack) = 1 => pc' = "done"
         /\ Len(stack) # 1 => pc' = "walk"
  BY DEF Pop

LEMMA ChainPopRight ==
  ASSUME TableOK(nodes, row), NEW n \in nodes, Found(nodes, row, n),
         stack \in Seq(Frame), outbounds \in Built,
         WalkOK(nodes, row, n, stack, outbounds),
         pc = "walk", ~IsGroup(Top), Top.next \notin nodes,
         Pop, outbounds' = outbounds
  PROVE  Result(nodes, row, n, pc', stack', outbounds')
<1>1. /\ stack # <<>> /\ Top = stack[Len(stack)]
      /\ OutboundsOK(nodes, row, n, outbounds)
  BY WalkTop
<1>2. PICK f : f = Top
  OBVIOUS
<1>3. f = stack[Len(stack)] /\ ~IsGroup(f) /\ f.next \notin nodes
  BY <1>1, <1>2
<1>4. CASE Len(stack) = 1
  <2>1. /\ n \in Good(nodes, Edges(nodes, row), Broken(nodes, row))
        /\ Complete(nodes, row, n, outbounds)
    BY <1>3, <1>4, ChainEnds
  <2>2. pc' = "done"
    BY <1>1, <1>4, PopIs
  <2> QED
    BY <2>1, <2>2 DEF Result, Startable
<1>5. CASE Len(stack) # 1
  <2>1. f.path[1] \in Good(nodes, Edges(nodes, row), Broken(nodes, row))
    BY <1>3, ChainGood
  <2>2. PICK q : q = SubSeq(stack, 1, Len(stack) - 1)
    OBVIOUS
  <2>3. WalkOK(nodes, row, n, q, outbounds)
    BY <1>1, <1>3, <1>5, <2>1, <2>2, ReturnWalk
  <2>4. pc' = "walk" /\ stack' = q
    BY <1>1, <1>5, <2>2, PopIs
  <2> QED
    BY <2>3, <2>4 DEF Result
<1> QED
  BY <1>4, <1>5

LEMMA EndGroupRight ==
  ASSUME TableOK(nodes, row), start \in nodes, Found(nodes, row, start),
         stack \in Seq(Frame), outbounds \in Built,
         WalkOK(nodes, row, start, stack, outbounds), EndGroup
  PROVE  Result(nodes, row, start, pc', stack', outbounds')
<1>1. pc = "walk" /\ Pop /\ Top.members # {} /\ Top.left = {}
  BY DEF EndGroup
<1>2. PICK n : n = start
  OBVIOUS
<1>3. /\ stack # <<>> /\ Top = stack[Len(stack)] /\ Len(stack) \in Nat \ {0}
      /\ Len(stack) \in DOMAIN stack /\ 1 \in DOMAIN stack
      /\ StackOK(nodes, row, stack) /\ OutboundsOK(nodes, row, n, outbounds)
      /\ FrameOK(nodes, row, n, Top)
  BY <1>2, WalkTop
<1>4. PICK f : f = Top
  OBVIOUS
<1>5. f = stack[Len(stack)] /\ f.left = {} /\ FrameOK(nodes, row, n, f)
  BY <1>1, <1>3, <1>4
<1>6. IsGroup(f)
  BY <1>1, <1>4 DEF IsGroup
<1>7. n \in nodes /\ WalkOK(nodes, row, n, stack, outbounds)
  BY <1>2
<1>8. PICK o : o = outbounds'
  OBVIOUS
<1>9. CASE Len(stack) = 1
  <2>1. outbounds' = <<Outbound(PolicyTag(start), Top.members)>> \o outbounds
    BY <1>9 DEF EndGroup
  <2>2. o = <<Outbound(PolicyTag(n), f.members)>> \o outbounds
    BY <1>2, <1>4, <1>8, <2>1
  <2>3. /\ n \in Good(nodes, Edges(nodes, row), Broken(nodes, row))
        /\ Complete(nodes, row, n, o)
    BY <1>5, <1>6, <1>7, <1>9, <2>2, GroupEnds
  <2>4. pc' = "done"
    BY <1>1, <1>3, <1>9, PopIs
  <2> QED
    BY <1>2, <1>8, <2>3, <2>4 DEF Result, Startable
<1>10. CASE Len(stack) # 1
  <2>1. PICK g : g = f.path[1]
    OBVIOUS
  <2>2. /\ g \in nodes /\ g \in Reached(nodes, Edges(nodes, row), {n})
    BY <1>5, <1>7, <2>1, PathFacts
  <2>3. row[g].group /\ f.members = row[g].members
    BY <1>5, <1>6, <1>7, <2>1, GroupFacts
  <2>4. ConfigTargets(row[g]) = f.members
    BY <2>2, <2>3, EdgesGroup
  <2>5. Add(g, f.members)
    BY <1>4, <1>10, <2>1 DEF EndGroup
  <2>6. outbounds' = AddTo(outbounds, g, ConfigTargets(row[g]))
    BY <2>4, <2>5 DEF Add, AddTo, Tags
  <2>7. ASSUME row[n].group
        PROVE  g # n
    <3>1. IsGroup(stack[1]) /\ stack[1].path[1] = n
      BY <1>7, <2>7 DEF WalkOK
    <3>2. 1 < Len(stack)
      <4>1. PICK k : k = Len(stack)
        OBVIOUS
      <4>2. k \in Nat \ {0}
        BY <1>3, <4>1
      <4>3. 1 < k
        BY <1>10, <4>1, <4>2
      <4> QED
        BY <4>1, <4>3
    <3> QED
      BY <1>3, <1>5, <1>6, <2>1, <3>1, <3>2 DEF StackOK
  <2>8. /\ OutboundsOK(nodes, row, n, o)
        /\ Added(o) = Added(outbounds) \cup {g}
    BY <1>3, <1>7, <1>8, <2>2, <2>6, <2>7, OutboundsAdd
  <2>9. f.path[1] \in Good(nodes, Edges(nodes, row), Broken(nodes, row))
    BY <1>5, <1>6, <1>7, GroupGood
  <2>10. PICK q : q = SubSeq(stack, 1, Len(stack) - 1)
    OBVIOUS
  <2>11. WalkOK(nodes, row, n, q, o)
    BY <1>5, <1>6, <1>7, <1>10, <2>1, <2>8, <2>9, <2>10, ReturnWalk
  <2>12. pc' = "walk" /\ stack' = q
    BY <1>1, <1>3, <1>10, <2>10, PopIs
  <2> QED
    BY <1>2, <1>8, <2>11, <2>12 DEF Result
<1> QED
  BY <1>9, <1>10

\* What the generator starts from.
LEMMA StartChain ==
  ASSUME NEW N, NEW R, TableOK(N, R), NEW n \in N, ~R[n].group,
         NEW s, s = <<ChainFrame(n, R[n])>>,
         NEW o, o = <<Outbound(NodeTag(n), ConfigTargets(R[n]))>>
  PROVE  WalkOK(N, R, n, s, o)
<1>1. PICK h : h = ChainFrame(n, R[n])
  OBVIOUS
<1>2. n \in Reached(N, Edges(N, R), {n}) /\ n \in Id
  BY ReachedFrom, RowFields
<1>3. /\ h \in Frame /\ h.next = PreferConfig(R[n])
      /\ Processed(N, R, h) = {}
  BY <1>1, <1>2, ChainFrameIs
<1>4. h.path = <<n>>
  BY <1>1 DEF ChainFrame
<1>5. FrameOK(N, R, n, h)
  BY <1>1, <1>2, ChainFrameIs
<1>6. ~IsGroup(h)
  BY <1>1, <1>2, ChainFrameIs
<1>7. s # <<>> /\ Len(s) = 1 /\ DOMAIN s = {1} /\ s[1] = h
  BY <1>1
<1>8. PICK b : b = Outbound(NodeTag(n), ConfigTargets(R[n]))
  OBVIOUS
<1>9. DOMAIN o = {1} /\ o[1] = b /\ b.tag = NodeTag(n)
  BY <1>8 DEF Outbound
<1>10. Added(o) = {n}
  BY <1>2, <1>9, TagsDiffer DEF Added
<1>11. Last(h) = n /\ h.path[1] = n /\ DOMAIN h.path = {1}
  BY <1>4 DEF Last
<1>12. StackOK(N, R, s)
  BY <1>3, <1>7 DEF StackOK
<1>13. Covered(N, R, s, o)
  <2>1. Edges(N, R)[n] = {PreferConfig(R[n])} \cap N
    BY EdgesNormal
  <2> QED
    BY <1>3, <1>6, <1>7, <1>10, <1>11, <2>1 DEF Covered
<1>14. OutboundsOK(N, R, n, o)
  BY <1>2, <1>8, <1>9, <1>10 DEF OutboundsOK
<1> QED
  BY <1>5, <1>6, <1>7, <1>11, <1>12, <1>13, <1>14 DEF WalkOK

LEMMA StartGroup ==
  ASSUME NEW N, NEW R, TableOK(N, R), NEW n \in N, R[n].group,
         R[n].members # {},
         NEW s, s = <<GroupFrame(n, R[n].members)>>
  PROVE  WalkOK(N, R, n, s, <<>>)
<1>1. PICK h : h = GroupFrame(n, R[n].members)
  OBVIOUS
<1>2. n \in Reached(N, Edges(N, R), {n}) /\ n \in Id
  BY ReachedFrom, RowFields
<1>3. h \in Frame /\ Processed(N, R, h) = {}
  BY <1>1, <1>2, GroupFrameIs
<1>4. h.path = <<n>> /\ h.members \ h.left = {}
  BY <1>1 DEF GroupFrame
<1>5. FrameOK(N, R, n, h)
  BY <1>1, <1>2, GroupFrameIs
<1>6. IsGroup(h)
  BY <1>1, <1>2, GroupFrameIs
<1>7. s # <<>> /\ Len(s) = 1 /\ DOMAIN s = {1} /\ s[1] = h
  BY <1>1
<1>8. Added(<<>>) = {}
  BY DEF Added
<1>9. h.path[1] = n
  BY <1>4
<1>10. StackOK(N, R, s)
  BY <1>3, <1>7 DEF StackOK
<1>11. Covered(N, R, s, <<>>)
  BY <1>4, <1>6, <1>7, <1>8 DEF Covered
<1>12. OutboundsOK(N, R, n, <<>>)
  BY <1>8 DEF OutboundsOK
<1> QED
  BY <1>5, <1>6, <1>7, <1>9, <1>10, <1>11, <1>12 DEF WalkOK

-----------------------------------------------------------------------------
(* The inductive invariant.                                                  *)

LEMMA Rests ==
  ASSUME TypeOK, Resting
  PROVE  TableOK(nodes, row)
  BY Facts DEF TypeOK, Resting, TableOK

LEMMA GenerateRight ==
  ASSUME IInv, Resting, Generate
  PROVE  Result(nodes, row, start, pc', stack', outbounds')
<1>1. /\ pc \in {"detour", "walk"} /\ pc # "idle"
      /\ UNCHANGED <<table, start, copy, edits>>
  BY DEF Generate, FetchDetour, FollowDetour, NextMember, EndGroup
<1>2. TableOK(nodes, row)
  BY Rests DEF IInv
<1>3. GenOK(pc, stack, outbounds)
  BY <1>1, Typed DEF IInv
<1>4. stack \in Seq(Frame) /\ stack \in Frames /\ outbounds \in Built
  BY <1>3 DEF GenOK, Frames
<1>5. /\ start \in nodes /\ copy = row[start]
      /\ WalkOK(nodes, row, start, stack, outbounds)
      /\ pc = "detour" =>
           /\ stack = <<ChainFrame(start, row[start])>>
           /\ ~row[start].group /\ row[start].detourId # 0
      /\ pc = "walk" => Found(nodes, row, start)
  BY <1>1 DEF IInv, WalkInv
<1>6. PICK n : n = start
  OBVIOUS
<1>7. n \in nodes /\ WalkOK(nodes, row, n, stack, outbounds)
  BY <1>5, <1>6
<1>8. Top = stack[Len(stack)] /\ Top \in Frame /\ FrameOK(nodes, row, n, Top)
  BY <1>4, <1>7, WalkTop
<1>9. CASE FetchDetour
  <2>1. /\ stack = <<ChainFrame(start, row[start])>>
        /\ ~row[start].group /\ row[start].detourId # 0
    BY <1>5, <1>9 DEF FetchDetour
  <2>2. Top = ChainFrame(start, row[start])
    BY <2>1 DEF Top
  <2>3. CASE copy.detourId \notin nodes /\ Refuse
    <3>1. ~Found(nodes, row, start)
      BY <1>5, <2>1, <2>3 DEF Found
    <3> QED
      BY <2>3, <3>1 DEF Result, Startable, Refuse
  <2>4. CASE copy.detourId \in nodes
    <3>1. Found(nodes, row, start)
      BY <1>5, <2>4 DEF Found
    <3>2. CASE pc' = "walk" /\ UNCHANGED <<stack, outbounds>>
      BY <1>5, <3>1, <3>2 DEF Result
    <3>3. CASE copy.detour = 0 /\ Visit(copy.detourId)
      <4>1. PICK d : d = copy.detourId
        OBVIOUS
      <4>2. d \in nodes /\ Visit(d)
        BY <2>4, <3>3, <4>1
      <4>3. Top.next = d /\ Top.members = {}
        BY <1>5, <2>2, <3>3, <4>1 DEF ChainFrame, PreferConfig
      <4>4. ~IsGroup(Top)
        BY <4>3 DEF IsGroup
      <4>5. Found(nodes, row, n)
        BY <1>6, <3>1
      <4>6. Result(nodes, row, n, pc', stack', outbounds')
        BY <1>2, <1>4, <1>7, <4>2, <4>3, <4>4, <4>5, VisitRight
      <4> QED
        BY <1>6, <4>6
    <3> QED
      BY <1>9, <2>4, <3>2, <3>3 DEF FetchDetour
  <2> QED
    BY <1>9, <2>3, <2>4 DEF FetchDetour
<1>10. ASSUME pc = "walk"
       PROVE  Found(nodes, row, n)
  BY <1>5, <1>6, <1>10
<1>11. CASE FollowDetour
  <2>1. pc = "walk" /\ Top.members = {}
    BY <1>11 DEF FollowDetour
  <2>2. ~IsGroup(Top) /\ Found(nodes, row, n)
    BY <1>10, <2>1 DEF IsGroup
  <2>3. CASE Top.next \in nodes /\ Visit(Top.next)
    <3>1. PICK d : d = Top.next
      OBVIOUS
    <3>2. d \in nodes /\ Visit(d)
      BY <2>3, <3>1
    <3>3. Result(nodes, row, n, pc', stack', outbounds')
      BY <1>2, <1>4, <1>7, <2>2, <3>1, <3>2, VisitRight
    <3> QED
      BY <1>6, <3>3
  <2>4. CASE Top.next \notin nodes /\ Pop /\ outbounds' = outbounds
    <3>1. Result(nodes, row, n, pc', stack', outbounds')
      BY <1>2, <1>4, <1>7, <2>1, <2>2, <2>4, ChainPopRight
    <3> QED
      BY <1>6, <3>1
  <2> QED
    BY <1>11, <2>3, <2>4 DEF FollowDetour
<1>12. CASE NextMember
  <2>1. pc = "walk" /\ Found(nodes, row, n)
    BY <1>10, <1>12 DEF NextMember
  <2>2. PICK m \in Top.left :
          \/ m \notin nodes /\ Refuse
          \/ m \in nodes /\ Process([Top EXCEPT !.left = @ \ {m}], m)
    BY <1>12 DEF NextMember
  <2>3. PICK f : f = Top
    OBVIOUS
  <2>4. f \in Frame /\ FrameOK(nodes, row, n, f) /\ m \in f.left
    BY <1>8, <2>2, <2>3
  <2>5. IsGroup(f)
    <3>1. pc = "walk" /\ stack \in Frames /\ stack # <<>>
      BY <1>4, <2>1, <1>3 DEF GenOK
    <3>2. CASE f.members = {}
      <4>1. ~IsGroup(f)
        BY <3>2 DEF IsGroup
      <4>2. f.left = {}
        BY <1>2, <1>7, <2>4, <4>1, ChainFacts
      <4> QED
        BY <2>4, <4>2
    <3> QED
      BY <3>2 DEF IsGroup
  <2>6. CASE m \notin nodes /\ Refuse
    <3>1. PICK g : g = f.path[1]
      OBVIOUS
    <3>2. g \in nodes /\ g \in Reached(nodes, Edges(nodes, row), {n})
      BY <1>7, <2>4, <3>1, PathFacts
    <3>3. /\ row[g].group /\ f.members = row[g].members
          /\ f.left \subseteq f.members
      BY <1>2, <1>7, <2>4, <2>5, <3>1, GroupFacts
    <3>4. g \in Broken(nodes, row)
      BY <2>4, <2>6, <3>2, <3>3 DEF Broken
    <3>5. n \notin Good(nodes, Edges(nodes, row), Broken(nodes, row))
      BY <3>2, <3>4, NotGood
    <3> QED
      BY <1>6, <2>6, <3>5 DEF Result, Startable, Refuse
  <2>7. CASE m \in nodes /\ Process([Top EXCEPT !.left = @ \ {m}], m)
    <3>1. PICK e : e = [f EXCEPT !.left = @ \ {m}]
      OBVIOUS
    <3>2. Calls(nodes, row, n, f, e, m)
      BY <1>2, <1>7, <2>4, <2>5, <2>7, <3>1, GroupCalls
    <3>3. Calls(nodes, row, n, Top, e, m) /\ Process(e, m)
      BY <2>3, <2>7, <3>1, <3>2
    <3>4. Result(nodes, row, n, pc', stack', outbounds')
      BY <1>2, <1>4, <1>7, <2>1, <3>3, ProcessRight
    <3> QED
      BY <1>6, <3>4
  <2> QED
    BY <2>2, <2>6, <2>7
<1>13. CASE EndGroup
  <2>1. Found(nodes, row, start)
    BY <1>6, <1>10, <1>13 DEF EndGroup
  <2> QED
    BY <1>2, <1>4, <1>5, <1>13, <2>1, EndGroupRight
<1> QED
  BY <1>9, <1>11, <1>12, <1>13 DEF Generate

LEMMA StartRight ==
  ASSUME IInv, NEW n \in nodes, StartNode(n), Agree(nodes, row)
  PROVE  /\ start' = n /\ copy' = row[n] /\ UNCHANGED table
         /\ \/ /\ pc' = "refused" /\ ~Startable(nodes, row, n)
            \/ /\ pc' \in {"detour", "walk"}
               /\ WalkOK(nodes, row, n, stack', outbounds')
               /\ pc' = "detour" => /\ stack' = <<ChainFrame(n, row[n])>>
                                    /\ ~row[n].group /\ row[n].detourId # 0
               /\ pc' = "walk" => Found(nodes, row, n)
<1>1. TableOK(nodes, row)
  BY Facts DEF IInv, TypeOK, TableOK
<1>2. outbounds = <<>>
  BY DEF StartNode, IInv, TagInv
<1>3. start' = n /\ copy' = row[n] /\ UNCHANGED table
  BY DEF StartNode
<1>4. CASE row[n].group /\ row[n].members = {}
  <2>1. pc' = "refused"
    BY <1>4 DEF StartNode, Refuse
  <2>2. n \in Broken(nodes, row) /\ n \in Reached(nodes, Edges(nodes, row), {n})
    BY <1>4, ReachedFrom DEF Broken
  <2>3. ~Startable(nodes, row, n)
    BY <2>2, NotGood DEF Startable
  <2> QED
    BY <1>3, <2>1, <2>3
<1>5. CASE row[n].group /\ row[n].members # {}
  <2>1. /\ pc' = "walk" /\ outbounds' = <<>>
        /\ stack' = <<GroupFrame(n, row[n].members)>>
    BY <1>2, <1>5 DEF StartNode
  <2>2. PICK s : s = <<GroupFrame(n, row[n].members)>>
    OBVIOUS
  <2>3. WalkOK(nodes, row, n, s, <<>>)
    BY <1>1, <1>5, <2>2, StartGroup
  <2>4. Found(nodes, row, n)
    BY <1>5 DEF Found
  <2> QED
    BY <1>3, <2>1, <2>2, <2>3, <2>4
<1>6. CASE ~row[n].group
  <2>1. /\ pc' = IF row[n].detourId # 0 THEN "detour" ELSE "walk"
        /\ stack' = <<ChainFrame(n, row[n])>>
        /\ outbounds' = <<Outbound(NodeTag(n), ConfigTargets(row[n]))>>
    BY <1>6 DEF StartNode
  <2>2. PICK s : s = <<ChainFrame(n, row[n])>>
    OBVIOUS
  <2>3. PICK o : o = <<Outbound(NodeTag(n), ConfigTargets(row[n]))>>
    OBVIOUS
  <2>4. WalkOK(nodes, row, n, s, o)
    BY <1>1, <1>6, <2>2, <2>3, StartChain
  <2>5. pc' = "walk" => Found(nodes, row, n)
    BY <2>1 DEF Found
  <2> QED
    BY <1>3, <1>6, <2>1, <2>2, <2>3, <2>4, <2>5
<1> QED
  BY <1>4, <1>5, <1>6

LEMMA InvInit ==
  ASSUME Init
  PROVE  IInv
<1>1. pc = "idle"
  BY DEF Init
<1> QED
  BY <1>1, TypeInit DEF IInv, WalkInv, ResultInv

LEMMA InvNext ==
  ASSUME IInv, [Next]_vars
  PROVE  IInv'
<1>1. TypeOK' /\ TagInv'
  BY TypeNext DEF IInv
<1>2. CASE \/ CreateNode
           \/ \E n \in nodes : UpdateNode(n) \/ DeleteNode(n)
  <2>1. pc' = pc /\ (pc # "idle" => edits' # 0)
    BY <1>2, TableStep DEF IInv, gen
  <2>2. WalkInv' /\ ResultInv'
    BY <2>1 DEF WalkInv, ResultInv, Resting
  <2> QED
    BY <1>1, <2>2 DEF IInv
<1>3. CASE \E n \in nodes : StartNode(n)
  <2>1. PICK n \in nodes : StartNode(n)
    BY <1>3
  <2>2. SUFFICES ASSUME Resting'
                 PROVE  WalkInv' /\ ResultInv'
    BY <1>1 DEF IInv, WalkInv, ResultInv
  <2>3. nodes' = nodes /\ row' = row
    BY <2>1 DEF StartNode, table
  <2>4. Agree(nodes, row)
    BY <2>2, <2>3 DEF Resting
  <2>5. /\ start' = n /\ copy' = row[n]
        /\ \/ /\ pc' = "refused" /\ ~Startable(nodes, row, n)
           \/ /\ pc' \in {"detour", "walk"}
              /\ WalkOK(nodes, row, n, stack', outbounds')
              /\ pc' = "detour" => /\ stack' = <<ChainFrame(n, row[n])>>
                                   /\ ~row[n].group /\ row[n].detourId # 0
              /\ pc' = "walk" => Found(nodes, row, n)
    BY <2>1, <2>4, StartRight
  <2>6. CASE pc' = "refused" /\ ~Startable(nodes, row, n)
    BY <2>3, <2>5, <2>6 DEF WalkInv, ResultInv
  <2>7. CASE /\ pc' \in {"detour", "walk"}
             /\ WalkOK(nodes, row, n, stack', outbounds')
             /\ pc' = "detour" => /\ stack' = <<ChainFrame(n, row[n])>>
                                  /\ ~row[n].group /\ row[n].detourId # 0
             /\ pc' = "walk" => Found(nodes, row, n)
    BY <2>3, <2>5, <2>7 DEF WalkInv, ResultInv
  <2> QED
    BY <2>5, <2>6, <2>7
<1>4. CASE Generate
  <2>1. /\ nodes' = nodes /\ row' = row /\ start' = start /\ copy' = copy
        /\ edits' = edits /\ pc \in {"detour", "walk"}
    BY <1>4
       DEF Generate, FetchDetour, FollowDetour, NextMember, EndGroup, table
  <2>2. SUFFICES ASSUME Resting'
                 PROVE  WalkInv' /\ ResultInv'
    BY <1>1 DEF IInv, WalkInv, ResultInv
  <2>3. Resting
    BY <2>1, <2>2 DEF Resting
  <2>4. Result(nodes, row, start, pc', stack', outbounds')
    BY <1>4, <2>3, GenerateRight
  <2>5. start \in nodes /\ copy = row[start]
    BY <2>1, <2>3 DEF IInv, WalkInv
  <2>6. CASE /\ pc' = "walk" /\ WalkOK(nodes, row, start, stack', outbounds')
             /\ Found(nodes, row, start)
    BY <2>1, <2>5, <2>6 DEF WalkInv, ResultInv
  <2>7. CASE /\ pc' = "done" /\ Startable(nodes, row, start)
             /\ Complete(nodes, row, start, outbounds')
    BY <2>1, <2>5, <2>7 DEF WalkInv, ResultInv
  <2>8. CASE pc' = "refused" /\ ~Startable(nodes, row, start)
    BY <2>1, <2>5, <2>8 DEF WalkInv, ResultInv
  <2> QED
    BY <2>4, <2>6, <2>7, <2>8 DEF Result
<1>5. CASE Return
  <2>1. pc' = "idle"
    BY <1>5 DEF Return
  <2> QED
    BY <1>1, <2>1 DEF IInv, WalkInv, ResultInv
<1>6. CASE UNCHANGED vars
  BY <1>1, <1>6 DEF IInv, WalkInv, ResultInv, Resting, vars
<1> QED
  BY <1>2, <1>3, <1>4, <1>5, <1>6 DEF Next

-----------------------------------------------------------------------------
(* What the properties say, in terms of the graph.                           *)

LEMMA ReachIs ==
  ASSUME NEW S
  PROVE  Reach(S) = Reached(nodes, Edges(nodes, row), S)
<1> DEFINE E == Edges(nodes, row)
<1>1. \A k \in nodes : E[k] = Targets(k) \cap nodes
  BY DEF Edges, Drawn, Targets
<1> HIDE DEF E
<1>2. ASSUME NEW C \in SUBSET nodes
      PROVE  Closed(E, C) <=> \A k \in C : Targets(k) \cap nodes \subseteq C
  BY <1>1 DEF Closed
<1>3. ASSUME NEW m \in nodes
      PROVE  m \in Reach(S) <=> m \in Reached(nodes, E, S)
  BY <1>2 DEF Reach, Reached
<1>4. Reach(S) \subseteq nodes /\ Reached(nodes, E, S) \subseteq nodes
  BY DEF Reach, Reached
<1> QED
  BY <1>3, <1>4 DEF E

LEMMA SoundIs ==
  ASSUME NEW n \in nodes
  PROVE  Sound(n) <=> n \in Good(nodes, Edges(nodes, row), Broken(nodes, row))
<1> DEFINE E == Edges(nodes, row)
           B == Broken(nodes, row)
<1>1. Reach({n}) = Reached(nodes, E, {n})
  BY ReachIs
<1>2. ASSUME NEW m \in nodes
      PROVE  Reach(Targets(m)) = After(nodes, E, m)
  <2>1. E[m] = Targets(m) \cap nodes
    BY DEF Edges, Drawn, Targets
  <2>2. E[m] \cap nodes = Targets(m) \cap nodes
    BY <2>1
  <2>3. Reached(nodes, E, Targets(m)) = Reached(nodes, E, E[m])
    BY <2>2 DEF Reached
  <2> QED
    BY <2>3, ReachIs DEF After
<1>3. ASSUME NEW m \in nodes
      PROVE  Usable(m) <=> m \notin B
  BY DEF Usable, Broken
<1>4. Reached(nodes, E, {n}) \subseteq nodes
  BY DEF Reached
<1> HIDE DEF E, B
<1>5. Sound(n) <=> \A m \in Reached(nodes, E, {n}) :
                     m \notin After(nodes, E, m) /\ m \notin B
  BY <1>1, <1>2, <1>3, <1>4 DEF Sound
<1>6. n \in Good(nodes, E, B) <=>
        \A m \in Reached(nodes, E, {n}) :
          m \notin After(nodes, E, m) /\ m \notin B
  BY DEF Good
<1> QED
  BY <1>5, <1>6 DEF E, B

LEMMA UnambiguousIs == Unambiguous <=> Agree(nodes, row)
  BY DEF Unambiguous, Agree

\* Where the two places that name a detour agree and the table rests while
\* the generator walks, what it refuses is exactly what is broken: circles,
\* groups that cannot be used and a deleted node in the column.
THEOREM RefusesRight == Spec => []RefusesExactlyBroken
<1>1. IInv => RefusesExactlyBroken
  <2>1. SUFFICES ASSUME IInv, Unambiguous, edits = 0,
                        pc \in {"done", "refused"}
                 PROVE  pc = "done" <=>
                          /\ Sound(start)
                          /\ \/ row[start].group
                             \/ row[start].detourId \in nodes \cup {0}
    BY DEF RefusesExactlyBroken
  <2>2. Resting
    BY <2>1, UnambiguousIs DEF Resting
  <2>3. start \in nodes /\ (pc = "done" <=> Startable(nodes, row, start))
    BY <2>1, <2>2 DEF IInv, ResultInv
  <2>4. Sound(start) <=>
          start \in Good(nodes, Edges(nodes, row), Broken(nodes, row))
    BY <2>3, SoundIs
  <2> QED
    BY <2>3, <2>4 DEF Startable, Found
<1>2. IInv /\ [Next]_vars => IInv'
  BY InvNext
<1> QED
  BY InvInit, <1>1, <1>2, PTL DEF Spec

\* Where they agree and the table rests, a configuration has an outbound for
\* exactly the nodes traffic may pass, and refers to nothing that is not
\* there but deleted nodes.
THEOREM ConfigResolved == Spec => []Resolved
<1>1. IInv => Resolved
  <2>1. SUFFICES ASSUME IInv, Unambiguous, edits = 0, pc = "done"
                 PROVE  Resolved
    BY DEF Resolved
  <2>2. Resting
    BY <2>1, UnambiguousIs DEF Resting
  <2>3. Complete(nodes, row, start, outbounds)
    BY <2>1, <2>2 DEF IInv, ResultInv
  <2>4. Reach({start}) = Reached(nodes, Edges(nodes, row), {start})
    BY ReachIs
  <2> QED
    BY <2>3, <2>4 DEF Complete, Resolved, Tags
<1>2. IInv /\ [Next]_vars => IInv'
  BY InvNext
<1> QED
  BY InvInit, <1>1, <1>2, PTL DEF Spec
=============================================================================
