------------------------- MODULE RoutingRulesKernel -------------------------
(***************************************************************************)
(* Theorems about RoutingRules: what the kernel and the router hold, while  *)
(* requests are in flight too, and what holds between requests, if no two   *)
(* requests are in flight on one rule.                                      *)
(***************************************************************************)
EXTENDS RoutingRulesProofs

-----------------------------------------------------------------------------
(* The inductive invariant for clients that never have two requests in       *)
(* flight on one rule: what a thread may count on.                           *)

\* Clients of which there is only one, with one request at a time.
OneClient == \A r, q \in Req : r = q

\* The table number that has been looked up for node n.
Bound(n, tab) == IF HasNode(n) THEN table[n] = tab ELSE tab \in orphaned

\* Row i may be changed: no rule of K stands on it.
Clean(i, K) ==
  row[i].enabled /\ HasNode(row[i].node) =>
    \A k \in K : k.src = row[i].src /\ k.table = table[row[i].node] =>
                   k.table \in orphaned

\* What a thread counts on, with the kernel rules K.
Holds(s, K) ==
  /\ s.pc \in {"checkSource"} \cup Removing
       => s.id \in rules /\ s.old = row[s.id]
  /\ s.pc \in {"mtDelete", "ruleDel"} => Bound(s.old.node, s.tab)
  /\ s.pc \in {"write", "remove"} => s.id \in rules
  /\ s.op = "enable" /\ s.pc = "write"
       => s.new = [row[s.id] EXCEPT !.enabled = TRUE]
  /\ s.op # "enable" /\ s.pc \in {"write", "remove"} => Clean(s.id, K)
  /\ s.pc \in Adding => /\ s.id \in rules /\ row[s.id] = s.new
                        /\ s.new.enabled
  /\ s.pc \in {"mtAdd", "ruleAdd"} => Bound(s.new.node, s.tab)

ClaimInv ==
  \A t, u \in Thread : th[t].id = th[u].id /\ th[t].id # 0 => t = u

HoldInv == \A t \in Thread : Holds(th[t], Firm)

SInv == ClaimInv /\ HoldInv /\ NoStrayRule

\* The kernel rules to speak of stay when the kernel does.
LEMMA SameFirm ==
  ASSUME UNCHANGED local
  PROVE  Firm' = Firm
  BY DEF local, Firm

\* They get no more when rules go and no refusal is forgotten.
LEMMA FewerFirm ==
  ASSUME kernel' \subseteq kernel,
         \A k \in kernel' : Pair(k) \in left => Pair(k) \in left'
  PROVE  Firm' \subseteq Firm
  BY DEF Firm, Pair

-----------------------------------------------------------------------------
(* What the router holds.                                                    *)

\* An entry stands for its row at every moment.
Backed ==
  \A e \in Loose : e.id \in rules /\ row[e.id].enabled /\ row[e.id].src = e.src

\* A row that may be changed has no entry in R.
Gone(s, R) ==
  s.op # "enable" /\ s.pc \in {"ruleDel", "write", "remove"} =>
    \A e \in R : e.id # s.id

EInv == Backed /\ \A t \in Thread : Gone(th[t], Loose)

-----------------------------------------------------------------------------
(* Kernel rules, if no two requests are in flight on one rule.               *)

\* A thread between requests counts on nothing.
LEMMA FreeHolds ==
  ASSUME NEW s, NEW K,
         s.pc \in {"idle", "recLoop", "allocate", "insert"}
  PROVE  Holds(s, K)
  BY DEF Holds, Removing, Adding

\* What a thread counts on does not break when kernel rules go.
LEMMA FewerHolds ==
  ASSUME NEW s, NEW K, NEW L \in SUBSET K, Holds(s, K)
  PROVE  Holds(s, L)
  BY DEF Holds, Clean

\* What a record counts on is what its thread counts on.
LEMMA HoldsAt ==
  ASSUME NEW u, NEW q, q = th'[u], Holds(q, Firm)'
  PROVE  Holds(th[u], Firm)'
  BY ZenonT(30) DEF Holds, Clean, Bound, HasNode

\* A thread's step that changes neither rows nor nodes and adds no kernel
\* rule.
LEMMA HoldStep ==
  ASSUME TInv, SInv, NEW t \in Thread, NEW r, th' = [th EXCEPT ![t] = r],
         UNCHANGED <<db, nodeVars>>, Firm' \subseteq Firm,
         Holds(r, Firm'),
         r.id # 0 => \A u \in Thread : u # t => th[u].id # r.id
  PROVE  SInv'
<1>1. th'[t] = r /\ \A u \in Thread : u # t => th'[u] = th[u]
  BY Facts
<1>2. ClaimInv'
  BY <1>1 DEF SInv, ClaimInv, Thread
<1>3. HoldInv'
  <2> SUFFICES ASSUME NEW u \in Thread
               PROVE  Holds(th[u], Firm)'
    BY DEF HoldInv, Thread
  <2>1. PICK q : q = th'[u]
    OBVIOUS
  <2>2. Holds(q, Firm')
    <3>1. CASE u = t
      BY <1>1, <2>1, <3>1
    <3>2. CASE u # t
      <4>1. q = th[u] /\ Holds(q, Firm)
        BY <1>1, <2>1, <3>2 DEF SInv, HoldInv
      <4> QED
        BY <4>1, FewerHolds
    <3> QED
      BY <3>1, <3>2
  <2>3. Holds(q, Firm)'
    BY <2>2 DEF Holds, Clean, Bound, HasNode, db, nodeVars
  <2> QED
    BY <2>1, <2>3, HoldsAt
<1>4. NoStrayRule'
  BY DEF SInv, NoStrayRule, StandsFor, HasNode, db, nodeVars
<1> QED
  BY <1>2, <1>3, <1>4 DEF SInv

\* A thread's step with the rule it has.
LEMMA OwnStep ==
  ASSUME TInv, SInv, NEW t \in Thread, NEW r, th' = [th EXCEPT ![t] = r],
         UNCHANGED <<db, nodeVars>>, Firm' \subseteq Firm,
         Holds(r, Firm'), r.id \in {0, th[t].id}
  PROVE  SInv'
  BY HoldStep DEF SInv, ClaimInv

\* Requests.
LEMMA ReadHolds ==
  ASSUME Serial \/ OneClient, TInv, SInv, NEW r \in Req, NEW i \in Id,
         NEW o, NEW l, NEW new,
         Read(r, o, i, l, new),
         \/ o = "update" /\ l = "checkSource"
         \/ /\ o = "enable" /\ l = "write"
            /\ new = [row[i] EXCEPT !.enabled = TRUE]
         \/ o \in {"disable", "delete"} /\ l = "delNode"
         \/ o = "delete" /\ l = "remove" /\ ~row[i].enabled
  PROVE  SInv'
<1> DEFINE s == [op |-> o, pc |-> l, id |-> i, old |-> row[i], new |-> new,
                 tab |-> 0]
<1>1. i \in rules /\ r \in Thread
  BY Facts DEF Read
<1>2. ASSUME NEW u \in Thread
      PROVE  th[u].id # i
  <2>1. CASE Serial
    BY <2>1 DEF Read, Claimed
  <2>2. CASE OneClient
    <3>1. th[u].pc = "idle"
      <4>1. u = r \/ u = Main
        BY <2>2 DEF OneClient, Thread
      <4> QED
        BY <4>1 DEF Read, Accepts, TInv, PhaseInv
    <3>2. th[u].id = 0 /\ i # 0
      BY <3>1, Facts, RulesAssumption DEF Form, Id, RulesAssumption
    <3> QED
      BY <3>2
  <2> QED
    BY <2>1, <2>2
<1>3. s.op = o /\ s.pc = l /\ s.id = i /\ s.old = row[i] /\ s.new = new
  OBVIOUS
<1>4. th' = [th EXCEPT ![r] = s] /\ UNCHANGED <<db, nodeVars>>
      /\ Firm' \subseteq Firm
  BY SameFirm DEF Read, net
<1> HIDE DEF s
<1>5. Holds(s, Firm')
  BY <1>1, <1>3 DEF Holds, Clean, Removing, Adding
<1> QED
  BY <1>1, <1>2, <1>3, <1>4, <1>5, HoldStep

\* A thread takes a request.
LEMMA RequestHolds ==
  ASSUME Serial \/ OneClient, TInv, SInv, NEW r \in Req, Request(r)
  PROVE  SInv'
<1>1. CASE CreateRequest(r)
  <2>1. PICK new : th' = [th EXCEPT ![r] = [IdleThread EXCEPT
                     !.op = "create", !.pc = "allocate", !.new = new]]
    BY <1>1 DEF CreateRequest
  <2> DEFINE q == [IdleThread EXCEPT !.op = "create", !.pc = "allocate",
                                     !.new = new]
  <2>2. q.pc = "allocate" /\ q.id = 0
    BY DEF IdleThread
  <2>3. th' = [th EXCEPT ![r] = q] /\ UNCHANGED <<db, nodeVars, net>>
        /\ Firm' = Firm
    BY <1>1, <2>1, SameFirm DEF CreateRequest, net
  <2> HIDE DEF q
  <2>4. Holds(q, Firm')
    BY <2>2, FreeHolds
  <2> QED
    BY <2>2, <2>3, <2>4, Facts, OwnStep DEF net
<1>2. ASSUME NEW i \in Id, UpdateRequest(r, i)
      PROVE  SInv'
  BY <1>2, ReadHolds DEF UpdateRequest
<1>3. ASSUME NEW i \in Id, DeleteRequest(r, i)
      PROVE  SInv'
  BY <1>3, ReadHolds DEF DeleteRequest
<1>4. ASSUME NEW i \in Id, EnableRequest(r, i)
      PROVE  SInv'
  BY <1>4, ReadHolds DEF EnableRequest
<1>5. ASSUME NEW i \in Id, DisableRequest(r, i)
      PROVE  SInv'
  BY <1>5, ReadHolds DEF DisableRequest
<1> QED
  BY <1>1, <1>2, <1>3, <1>4, <1>5 DEF Request

\* A thread forgets the old row and goes on to write or to remove.
LEMMA ForgetHolds ==
  ASSUME TInv, SInv, NEW t \in Req, UNCHANGED <<db, nodeVars>>,
         Firm' \subseteq Firm,
         th[t].pc \in {"checkSource"} \cup Removing,
         Forget(t, AfterRemoval(t)), Clean(th[t].id, Firm')
  PROVE  SInv'
<1> DEFINE s == th[t]
           l == AfterRemoval(t)
           r == [s EXCEPT !.pc = l, !.old = BlankRow, !.tab = 0]
<1>1. s \in ThreadState /\ Form(s) /\ Holds(s, Firm) /\ t \in Thread
  BY Facts DEF SInv, HoldInv
<1>2. s.id \in rules /\ s.op \in {"update", "delete", "disable"}
      /\ l \in {"write", "remove"}
  BY <1>1 DEF Holds, Form, Removing, AfterRemoval
<1>3. th' = [th EXCEPT ![t] = r]
  BY Facts DEF Forget
<1>4. r.pc = l /\ r.id = s.id /\ r.op = s.op
  BY <1>1 DEF ThreadState
<1> HIDE DEF l, r
<1>5. Holds(r, Firm')
  BY <1>2, <1>4 DEF Holds, Removing, Adding
<1> QED
  BY <1>1, <1>3, <1>4, <1>5, OwnStep

\* A thread ends its request.
LEMMA FinishHolds ==
  ASSUME TInv, SInv, NEW t \in Thread, UNCHANGED <<db, nodeVars>>,
         Firm' \subseteq Firm, Finish(t)
  PROVE  SInv'
<1>1. Holds(IdleThread, Firm')
  BY IdleForm, FreeHolds
<1> QED
  BY <1>1, IdleForm, OwnStep DEF Finish

\* The handler looks up the table of the old node, or finds that it is gone.
LEMMA DelNodeHolds ==
  ASSUME TInv, SInv, NEW t \in Req, DelNode(t)
  PROVE  SInv'
<1> DEFINE s == th[t]
           r == [s EXCEPT !.pc = "mtDelete", !.tab = table[s.old.node]]
<1>1. s \in ThreadState /\ Form(s) /\ Holds(s, Firm) /\ t \in Thread
  BY Facts DEF SInv, HoldInv
<1>2. /\ s.pc = "delNode" /\ UNCHANGED <<db, nodeVars>>
      /\ Firm' \subseteq Firm
  BY SameFirm DEF DelNode
<1>3. s.id \in rules /\ s.old = row[s.id]
  BY <1>1, <1>2 DEF Holds, Removing
<1>4. CASE HasNode(s.old.node)
  <2>1. th' = [th EXCEPT ![t] = r]
    BY <1>4, Facts DEF DelNode
  <2>2. r.pc = "mtDelete" /\ r.id = s.id /\ r.op = s.op /\ r.old = s.old
        /\ r.tab = table[s.old.node]
    BY <1>1 DEF ThreadState
  <2> HIDE DEF r
  <2>3. Holds(r, Firm')
    BY <1>3, <1>4, <2>2 DEF Holds, Bound, Removing, Adding
  <2> QED
    BY <1>1, <1>2, <2>1, <2>2, <2>3, OwnStep
<1>5. CASE ~HasNode(s.old.node)
  <2>1. Forget(t, AfterRemoval(t))
    BY <1>5 DEF DelNode
  <2>2. Clean(s.id, Firm')
    BY <1>3, <1>5 DEF Clean
  <2> QED
    BY <1>2, <2>1, <2>2, ForgetHolds DEF Removing
<1> QED
  BY <1>4, <1>5

\* The kernel rule goes, or its removal is refused.  Those with the source and
\* the table of the row are all one rule, unless the table is orphaned or an
\* earlier removal was refused: each is the rule of a row of this address and
\* this node, and there is no other such row.
LEMMA RuleDelHolds ==
  ASSUME TInv, SInv, NEW t \in Req, RuleDel(t)
  PROVE  SInv'
<1> DEFINE s == th[t]
           match == {k \in kernel : Pair(k) = <<s.old.src, s.tab>>}
           first == {k \in match : \A j \in match : k.prio <= j.prio}
<1>1. Form(s) /\ Holds(s, Firm)
  BY Facts DEF SInv, HoldInv
<1>2. /\ s.pc = "ruleDel" /\ UNCHANGED <<db, nodeVars>>
      /\ Forget(t, AfterRemoval(t))
      /\ \/ /\ kernel' = kernel \ first
            /\ left' = left \cap {Pair(k) : k \in kernel'}
         \/ /\ kernel' = kernel
            /\ left' = left \cup {Pair(k) : k \in match}
  BY DEF RuleDel
<1>3. s.id \in rules /\ s.old = row[s.id] /\ Bound(s.old.node, s.tab)
  BY <1>1, <1>2 DEF Holds, Removing
<1>4. Firm' \subseteq Firm
  <2> HIDE DEF match, first
  <2> QED
    BY <1>2, FewerFirm
<1>5. ASSUME row[s.id].enabled, HasNode(row[s.id].node), NEW k \in Firm',
             k.src = row[s.id].src, k.table = table[row[s.id].node],
             k.table \notin orphaned
      PROVE  FALSE
  <2>1. /\ k \in kernel' /\ Pair(k) \notin left'
        /\ k \in kernel /\ Pair(k) \notin left
    BY <1>4, <1>5 DEF Firm
  <2>2. s.tab = table[row[s.id].node] /\ k \in match
    BY <1>3, <1>5, <2>1 DEF Bound, Pair
  <2>3. kernel' = kernel \ first
    BY <1>2, <2>1, <2>2
  <2>4. ASSUME NEW j \in match
        PROVE  j.prio = row[s.id].prio
    <3>1. j \in kernel /\ Pair(j) = Pair(k)
          /\ j.src = row[s.id].src /\ j.table = k.table
      BY <1>3, <1>5, <2>2, <2>4 DEF Pair
    <3>2. j \in Firm
      BY <2>1, <3>1 DEF Firm
    <3>3. PICK i \in rules : StandsFor(i, j)
      BY <1>5, <3>1, <3>2 DEF SInv, NoStrayRule
    <3>4. row[i].node = row[s.id].node
      BY <1>5, <3>1, <3>3 DEF TInv, NodeInv, HasNode, StandsFor
    <3>5. i = s.id
      BY <1>3, <3>1, <3>3, <3>4 DEF TInv, RowInv, StandsFor
    <3> QED
      BY <3>3, <3>5 DEF StandsFor
  <2>5. row[s.id].prio \in Nat
    BY <1>3, Facts, FullRowIsRow, RulesAssumption DEF RulesAssumption
  <2>6. \A j \in match : k.prio <= j.prio
    BY <2>2, <2>4, <2>5
  <2> QED
    BY <2>1, <2>2, <2>3, <2>6
<1>6. Clean(s.id, Firm')
  BY <1>5 DEF Clean
<1> HIDE DEF match, first
<1> QED
  BY <1>2, <1>4, <1>6, ForgetHolds DEF Removing

\* The other steps of a request that leave the rows alone.
LEMMA StepHolds ==
  ASSUME TInv, SInv, NEW t \in Req,
         Allocate(t) \/ CheckSource(t) \/ MtDelete(t) \/ AddNode(t)
  PROVE  SInv'
<1> DEFINE s == th[t]
<1>1. s \in ThreadState /\ Form(s) /\ Holds(s, Firm) /\ t \in Thread
  BY Facts DEF SInv, HoldInv
<1>2. UNCHANGED <<db, nodeVars>> /\ Firm' \subseteq Firm
  BY SameFirm DEF Allocate, CheckSource, MtDelete, AddNode, net
<1>3. CASE Allocate(t)
  <2>1. PICK new : th' = [th EXCEPT ![t] = [s EXCEPT !.pc = "insert",
                                                     !.new = new]]
    BY <1>1, <1>3, Facts DEF Allocate, ThreadState
  <2> DEFINE r == [s EXCEPT !.pc = "insert", !.new = new]
  <2>2. r.pc = "insert" /\ r.id = s.id
    BY <1>1 DEF ThreadState
  <2>3. th' = [th EXCEPT ![t] = r]
    BY <2>1
  <2> HIDE DEF r
  <2>4. Holds(r, Firm')
    BY <2>2, FreeHolds
  <2> QED
    BY <1>1, <1>2, <2>2, <2>3, <2>4, OwnStep
<1>4. CASE CheckSource(t)
  <2>1. s.pc = "checkSource" /\ s.op = "update"
    BY <1>1, <1>4 DEF CheckSource, Form
  <2>2. s.id \in rules /\ s.old = row[s.id]
    BY <1>1, <2>1 DEF Holds
  <2>3. CASE Finish(t)
    BY <1>1, <1>2, <2>3, FinishHolds
  <2>4. CASE Goto(t, "delNode")
    <3> DEFINE r == [s EXCEPT !.pc = "delNode"]
    <3>1. r.pc = "delNode" /\ r.id = s.id /\ r.old = s.old
      BY <1>1 DEF ThreadState
    <3>2. th' = [th EXCEPT ![t] = r]
      BY <2>4, Facts DEF Goto
    <3> HIDE DEF r
    <3>3. Holds(r, Firm')
      BY <2>2, <3>1 DEF Holds, Removing, Adding
    <3> QED
      BY <1>1, <1>2, <3>1, <3>2, <3>3, OwnStep
  <2>5. CASE ~s.old.enabled /\ Forget(t, "write")
    <3>1. Clean(s.id, Firm')
      BY <2>2, <2>5 DEF Clean
    <3>2. Forget(t, AfterRemoval(t))
      BY <2>1, <2>5 DEF AfterRemoval
    <3> QED
      BY <1>2, <2>1, <3>1, <3>2, ForgetHolds
  <2> QED
    BY <1>4, <2>3, <2>4, <2>5 DEF CheckSource
<1>5. CASE MtDelete(t)
  <2> DEFINE r == [s EXCEPT !.pc = "ruleDel"]
  <2>1. s.pc = "mtDelete" /\ th' = [th EXCEPT ![t] = r]
    BY <1>5, Facts DEF MtDelete, Goto
  <2>2. r.pc = "ruleDel" /\ r.id = s.id /\ r.old = s.old /\ r.tab = s.tab
    BY <1>1 DEF ThreadState
  <2> HIDE DEF r
  <2>3. Holds(r, Firm')
    BY <1>1, <2>1, <2>2 DEF Holds, Removing, Adding
  <2> QED
    BY <1>1, <1>2, <2>1, <2>2, <2>3, OwnStep
<1>6. CASE AddNode(t)
  <2>1. s.pc = "addNode"
    BY <1>6 DEF AddNode
  <2>2. CASE HasNode(s.new.node)
    <3> DEFINE r == [s EXCEPT !.pc = "mtAdd", !.tab = table[s.new.node]]
    <3>1. th' = [th EXCEPT ![t] = r]
      BY <1>6, <2>2, Facts DEF AddNode
    <3>2. r.pc = "mtAdd" /\ r.id = s.id /\ r.new = s.new
          /\ r.tab = table[s.new.node]
      BY <1>1 DEF ThreadState
    <3> HIDE DEF r
    <3>3. Holds(r, Firm')
      BY <1>1, <2>1, <2>2, <3>2 DEF Holds, Bound, Removing, Adding
    <3> QED
      BY <1>1, <1>2, <3>1, <3>2, <3>3, OwnStep
  <2>3. CASE Finish(t)
    BY <1>1, <1>2, <2>3, FinishHolds
  <2> QED
    BY <1>6, <2>2, <2>3 DEF AddNode
<1> QED
  BY <1>3, <1>4, <1>5, <1>6

\* A step of thread t that changes row i, which no other thread has.
LEMMA RowHolds ==
  ASSUME TInv, SInv, NEW t \in Req, NEW r, NEW i \in Id,
         th' = [th EXCEPT ![t] = r], UNCHANGED nodeVars, Firm' = Firm,
         \A j \in Id : j # i =>
           row'[j] = row[j] /\ (j \in rules' <=> j \in rules),
         \A u \in Thread : u # t => th[u].id # i,
         r.id \in {0, i}, Holds(r, Firm)', NoStrayRule'
  PROVE  SInv'
<1>1. th'[t] = r /\ \A u \in Thread : u # t => th'[u] = th[u]
  BY Facts
<1>2. ClaimInv'
  BY <1>1 DEF SInv, ClaimInv, Thread
<1>3. HoldInv'
  <2> SUFFICES ASSUME NEW u \in Thread
               PROVE  Holds(th[u], Firm)'
    BY DEF HoldInv, Thread
  <2>1. PICK q : q = th'[u]
    OBVIOUS
  <2>2. CASE u = t
    <3>1. q = r
      BY <1>1, <2>1, <2>2
    <3>2. Holds(q, Firm)'
      BY <3>1
    <3> QED
      BY <2>1, <3>2, HoldsAt
  <2>3. CASE u # t
    <3>1. q = th[u] /\ Holds(q, Firm) /\ Form(q) /\ q.id # i
      BY <1>1, <2>1, <2>3, Facts DEF SInv, HoldInv
    <3>2. CASE q.pc \in {"idle", "allocate", "insert", "recLoop"}
      <4>1. Holds(q, Firm)'
        BY <3>2 DEF Holds, Removing, Adding
      <4> QED
        BY <2>1, <4>1, HoldsAt
    <3>3. CASE q.pc \notin {"idle", "allocate", "insert", "recLoop"}
      <4>1. q.id \in Id
        <5>1. q.id # 0 /\ q.id \in 0..MaxRule /\ MaxRule \in Nat
          BY <3>1, <3>3, Parts, RulesAssumption DEF Form, RulesAssumption
        <5> QED
          BY <5>1 DEF Id
      <4>2. row'[q.id] = row[q.id] /\ (q.id \in rules' <=> q.id \in rules)
        BY <3>1, <4>1
      <4>3. Holds(q, Firm)'
        BY <3>1, <4>2 DEF Holds, Clean, Bound, HasNode, nodeVars
      <4> QED
        BY <2>1, <4>3, HoldsAt
    <3> QED
      BY <3>2, <3>3
  <2> QED
    BY <2>2, <2>3
<1> QED
  BY <1>2, <1>3 DEF SInv

\* Nobody has a rule that is not there yet.
LEMMA InsertHolds ==
  ASSUME TInv, SInv, NEW t \in Req, Insert(t)
  PROVE  SInv'
<1> DEFINE s == th[t]
           i == lastRule + 1
<1>1. /\ s \in ThreadState /\ t \in Thread /\ s.pc = "insert"
      /\ UNCHANGED nodeVars /\ Firm' = Firm
  BY Facts, SameFirm DEF Insert, net
<1>2. CASE Finish(t) /\ UNCHANGED db
  BY <1>1, <1>2, FinishHolds
<1>3. CASE lastRule < MaxRule /\ Unique(0, s.new)
  <2>1. /\ lastRule' = i /\ rules' = rules \cup {i}
        /\ row' = [row EXCEPT ![i] = s.new]
        /\ IF s.new.enabled
           THEN th' = [th EXCEPT ![t].pc = "addNode", ![t].id = i]
           ELSE Finish(t)
    BY <1>3 DEF Insert
  <2>2. /\ i \in Id /\ lastRule \in Nat /\ \A j \in rules : j # i
        /\ \A u \in Thread : th[u].id # i
    <3>1. lastRule \in Nat /\ i \in Id
      BY <1>3, Facts, RulesAssumption DEF RulesAssumption, Id
    <3>2. \A j \in rules : j <= lastRule /\ j \in Nat
      BY Facts, RulesAssumption DEF RulesAssumption, Id
    <3>3. \A u \in Thread : th[u].id <= lastRule /\ th[u].id \in 0..MaxRule
      BY Facts, Parts DEF Past
    <3> QED
      BY <3>1, <3>2, <3>3
  <2>3. \A j \in Id : j # i =>
          row'[j] = row[j] /\ (j \in rules' <=> j \in rules)
    BY <2>1, Facts
  <2>4. i \in rules' /\ row'[i] = s.new
    BY <2>1, <2>2, Facts
  <2>5. NoStrayRule'
    <3>1. \A j \in rules : j \in rules' /\ row'[j] = row[j]
      BY <2>2, <2>3, Facts
    <3> QED
      BY <1>1, <3>1 DEF SInv, NoStrayRule, StandsFor, HasNode, nodeVars
  <2>6. PICK r : r = th'[t]
    OBVIOUS
  <2>7. CASE Finish(t)
    <3>1. r = IdleThread /\ th' = [th EXCEPT ![t] = r]
      BY <1>1, <2>6, <2>7, Facts DEF Finish
    <3>2. Holds(r, Firm)'
      BY <3>1, IdleForm DEF Holds, Removing, Adding
    <3>3. /\ r.id \in {0, i} /\ \A u \in Thread : u # t => th[u].id # i
          /\ UNCHANGED nodeVars /\ Firm' = Firm /\ i \in Id
      BY <1>1, <2>2, <3>1, IdleForm
    <3> HIDE DEF i
    <3> QED
      BY <2>3, <2>5, <3>1, <3>2, <3>3, RowHolds
  <2>8. CASE s.new.enabled /\ th' = [th EXCEPT ![t].pc = "addNode", ![t].id = i]
    <3>1. /\ r = [s EXCEPT !.pc = "addNode", !.id = i]
          /\ th' = [th EXCEPT ![t] = r]
      BY <1>1, <2>6, <2>8, Facts
    <3>2. r.pc = "addNode" /\ r.id = i /\ r.new = s.new
      BY <1>1, <3>1 DEF ThreadState
    <3>3. Holds(r, Firm)'
      BY <2>4, <2>8, <3>2 DEF Holds, Removing, Adding
    <3>4. /\ r.id \in {0, i} /\ \A u \in Thread : u # t => th[u].id # i
          /\ UNCHANGED nodeVars /\ Firm' = Firm /\ i \in Id
      BY <1>1, <2>2, <3>2
    <3> HIDE DEF i
    <3> QED
      BY <2>3, <2>5, <3>1, <3>3, <3>4, RowHolds
  <2> QED
    BY <2>1, <2>7, <2>8
<1> QED
  BY <1>2, <1>3 DEF Insert

\* The row is written when no kernel rule stands on it, or is only enabled.
LEMMA WriteHolds ==
  ASSUME TInv, SInv, NEW t \in Req, Write(t)
  PROVE  SInv'
<1> DEFINE s == th[t]
           i == s.id
<1>1. /\ s \in ThreadState /\ Form(s) /\ Holds(s, Firm) /\ t \in Thread
      /\ s.pc = "write" /\ UNCHANGED <<rules, lastRule, nodeVars>>
      /\ Firm' = Firm
  BY Facts, SameFirm DEF Write, SInv, HoldInv, net
<1>2. /\ i \in rules /\ i \in Id /\ i # 0
      /\ s.op = "enable" => s.new = [row[i] EXCEPT !.enabled = TRUE]
      /\ s.op # "enable" => Clean(i, Firm)
  BY <1>1, Facts DEF Holds, Form
<1>3. CASE Finish(t) /\ UNCHANGED row
  BY <1>1, <1>3, FinishHolds DEF db
<1>4. CASE /\ row' = [row EXCEPT ![i] = s.new]
           /\ IF s.op = "enable" \/ (s.op = "update" /\ s.new.enabled)
              THEN Forget(t, "addNode") ELSE Finish(t)
  <2>1. /\ row' = [row EXCEPT ![i] = s.new]
        /\ IF s.op = "enable" \/ (s.op = "update" /\ s.new.enabled)
           THEN Forget(t, "addNode") ELSE Finish(t)
    BY <1>4
  <2>2. row'[i] = s.new /\ \A j \in Id : j # i =>
          row'[j] = row[j] /\ (j \in rules' <=> j \in rules)
    BY <1>1, <1>2, <2>1, Facts
  <2>3. \A u \in Thread : u # t => th[u].id # i
    BY <1>1, <1>2 DEF SInv, ClaimInv
  <2>4. NoStrayRule'
    <3> SUFFICES ASSUME NEW k \in Firm, k.table \notin orphaned
                 PROVE  \E j \in rules' :
                          /\ row'[j].enabled /\ row'[j].src = k.src
                          /\ row'[j].prio = k.prio
                          /\ HasNode(row'[j].node)
                          /\ table[row'[j].node] = k.table
      BY <1>1 DEF NoStrayRule, StandsFor, HasNode, nodeVars
    <3>1. PICK j \in rules : /\ row[j].enabled /\ row[j].src = k.src
                             /\ row[j].prio = k.prio /\ HasNode(row[j].node)
                             /\ table[row[j].node] = k.table
      BY DEF SInv, NoStrayRule, StandsFor
    <3>2. CASE j # i
      <4>1. row'[j] = row[j] /\ j \in rules'
        BY <2>2, <3>1, <3>2, Facts
      <4> QED
        BY <3>1, <4>1
    <3>3. CASE j = i
      <4>1. s.op = "enable"
        BY <1>2, <3>1, <3>3 DEF Clean
      <4>2. row[i] \in FullRow /\ s.new = [row[i] EXCEPT !.enabled = TRUE]
        BY <1>2, <4>1, Facts
      <4>3. s.new.enabled /\ s.new.src = row[i].src /\ s.new.prio = row[i].prio
            /\ s.new.node = row[i].node
        BY <4>2 DEF FullRow
      <4> QED
        BY <1>1, <1>2, <2>2, <3>1, <3>3, <4>3
    <3> QED
      BY <3>2, <3>3
  <2>5. PICK r : r = th'[t]
    OBVIOUS
  <2>6. CASE Finish(t)
    <3>1. r = IdleThread /\ th' = [th EXCEPT ![t] = r]
      BY <1>1, <2>5, <2>6, Facts DEF Finish
    <3>2. Holds(r, Firm)'
      BY <3>1, IdleForm DEF Holds, Removing, Adding
    <3> QED
      BY <1>1, <1>2, <2>2, <2>3, <2>4, <3>1, <3>2, IdleForm, RowHolds
  <2>7. CASE (s.op = "enable" \/ s.new.enabled) /\ Forget(t, "addNode")
    <3>1. /\ r = [s EXCEPT !.pc = "addNode", !.old = BlankRow, !.tab = 0]
          /\ th' = [th EXCEPT ![t] = r]
      BY <1>1, <2>5, <2>7, Facts DEF Forget
    <3>2. r.pc = "addNode" /\ r.id = i /\ r.new = s.new
      BY <1>1, <3>1 DEF ThreadState
    <3>3. s.new.enabled
      <4>1. row[i] \in FullRow
        BY <1>2, Facts
      <4> QED
        BY <1>2, <2>7, <4>1 DEF FullRow
    <3>4. Holds(r, Firm)'
      BY <1>1, <1>2, <2>2, <3>2, <3>3 DEF Holds, Removing, Adding
    <3>5. /\ r.id \in {0, i} /\ \A u \in Thread : u # t => th[u].id # i
          /\ UNCHANGED nodeVars /\ Firm' = Firm /\ i \in Id
      BY <1>1, <1>2, <2>3, <3>2
    <3> HIDE DEF i
    <3> QED
      BY <2>2, <2>4, <3>1, <3>4, <3>5, RowHolds
  <2> QED
    BY <2>1, <2>6, <2>7
<1> QED
  BY <1>2, <1>3, <1>4 DEF Write

\* The row goes when no kernel rule stands on it.
LEMMA RemoveHolds ==
  ASSUME TInv, SInv, NEW t \in Req, Remove(t)
  PROVE  SInv'
<1> DEFINE i == th[t].id
<1>1. /\ Form(th[t]) /\ Holds(th[t], Firm) /\ t \in Thread
      /\ th[t].pc = "remove" /\ rules' = rules \ {i}
      /\ row' = [row EXCEPT ![i] = BlankRow]
      /\ th' = [th EXCEPT ![t] = IdleThread] /\ UNCHANGED nodeVars
      /\ Firm' = Firm
  BY Facts, SameFirm DEF Remove, Finish, SInv, HoldInv, net
<1>2. i \in rules /\ i \in Id /\ i # 0 /\ Clean(i, Firm)
  BY <1>1, Facts DEF Holds, Form
<1>3. \A j \in Id : j # i => row'[j] = row[j] /\ (j \in rules' <=> j \in rules)
  BY <1>1, Facts
<1>4. \A u \in Thread : u # t => th[u].id # i
  BY <1>1, <1>2 DEF SInv, ClaimInv
<1>5. NoStrayRule'
  <2> SUFFICES ASSUME NEW k \in Firm, k.table \notin orphaned
               PROVE  \E j \in rules' :
                        /\ row'[j].enabled /\ row'[j].src = k.src
                        /\ row'[j].prio = k.prio
                        /\ HasNode(row'[j].node)
                        /\ table[row'[j].node] = k.table
    BY <1>1 DEF NoStrayRule, StandsFor, HasNode, nodeVars
  <2>1. PICK j \in rules : /\ row[j].enabled /\ row[j].src = k.src
                           /\ row[j].prio = k.prio /\ HasNode(row[j].node)
                           /\ table[row[j].node] = k.table
    BY DEF SInv, NoStrayRule, StandsFor
  <2>2. j # i
    BY <1>2, <2>1 DEF Clean
  <2>3. row'[j] = row[j] /\ j \in rules'
    BY <1>1, <2>1, <2>2, Facts
  <2> QED
    BY <2>1, <2>3
<1>6. PICK r : r = IdleThread
  OBVIOUS
<1>7. Holds(r, Firm)'
  BY <1>6, IdleForm DEF Holds, Removing, Adding
<1>8. /\ th' = [th EXCEPT ![t] = r] /\ r.id \in {0, i}
      /\ UNCHANGED nodeVars /\ Firm' = Firm
  BY <1>1, <1>6, IdleForm
<1> HIDE DEF i
<1> QED
  BY <1>2, <1>3, <1>4, <1>5, <1>7, <1>8, RowHolds

\* A rule is applied.  The kernel rule that comes is the row's, so that no
\* other row can be the reason for it: they differ in address or in node.
LEMMA ApplyHolds ==
  ASSUME TInv, SInv, NEW t \in Thread, Apply(t)
  PROVE  SInv'
<1> DEFINE s == th[t]
<1>1. s \in ThreadState /\ Form(s) /\ Holds(s, Firm)
  BY Facts DEF SInv, HoldInv
<1>2. CASE MtAdd(t)
  <2> DEFINE r == [s EXCEPT !.pc = "ruleAdd"]
  <2>1. /\ s.pc = "mtAdd" /\ th' = [th EXCEPT ![t] = r]
        /\ UNCHANGED <<db, nodeVars>> /\ Firm' \subseteq Firm
    BY <1>2, Facts, SameFirm DEF MtAdd, Goto
  <2>2. r.pc = "ruleAdd" /\ r.id = s.id /\ r.new = s.new /\ r.tab = s.tab
    BY <1>1 DEF ThreadState
  <2> HIDE DEF r
  <2>3. Holds(r, Firm')
    BY <1>1, <2>1, <2>2 DEF Holds, Removing, Adding
  <2> QED
    BY <2>1, <2>2, <2>3, OwnStep
<1>3. CASE RuleAdd(t)
  <2> DEFINE k == [src |-> s.new.src, table |-> s.tab, prio |-> s.new.prio]
  <2>1. /\ s.pc = "ruleAdd" /\ Return(t)
        /\ Firm' \subseteq Firm \cup {k} /\ UNCHANGED <<db, nodeVars>>
    BY <1>3 DEF RuleAdd, Firm
  <2>2. /\ s.id \in rules /\ row[s.id] = s.new /\ s.new.enabled
        /\ Bound(s.new.node, s.tab) /\ s.id # 0
    BY <1>1, <2>1 DEF Holds, Form, Adding
  <2>3. PICK r : r = th'[t]
    OBVIOUS
  <2>4. r.pc \in {"idle", "recLoop"} /\ r.id = 0
    BY <2>1, <2>3, Facts, IdleForm DEF Return, Finish, IdleThread
  <2>5. \A u \in Thread : u # t => th'[u] = th[u]
    BY <2>1, Facts DEF Return, Finish
  <2>6. ClaimInv'
    BY <2>3, <2>4, <2>5 DEF SInv, ClaimInv, Thread
  <2>7. ASSUME NEW i \in rules, i # s.id, Clean(i, Firm)
        PROVE  Clean(i, Firm')
    <3> SUFFICES ASSUME row[i].enabled, HasNode(row[i].node),
                        k.src = row[i].src,
                        k.table = table[row[i].node],
                        k.table \notin orphaned
                 PROVE  FALSE
      BY <2>1, <2>7 DEF Clean
    <3>1. HasNode(s.new.node) /\ table[s.new.node] = table[row[i].node]
      BY <2>2 DEF Bound
    <3>2. s.new.node = row[i].node /\ s.new.src = row[i].src
      BY <3>1 DEF TInv, NodeInv, HasNode
    <3> QED
      BY <2>2, <2>7, <3>2 DEF TInv, RowInv
  <2>8. HoldInv'
    <3> SUFFICES ASSUME NEW u \in Thread
                 PROVE  Holds(th[u], Firm)'
      BY DEF HoldInv, Thread
    <3>1. PICK q : q = th'[u]
      OBVIOUS
    <3>2. Holds(q, Firm')
      <4>1. CASE u = t
        BY <2>3, <2>4, <3>1, <4>1, FreeHolds
      <4>2. CASE u # t
        <5>1. q = th[u] /\ Holds(q, Firm) /\ Form(q) /\ q.id # s.id
          BY <2>2, <2>5, <3>1, <4>2, Facts DEF SInv, HoldInv, ClaimInv
        <5> QED
          BY <2>7, <5>1 DEF Holds
      <4> QED
        BY <4>1, <4>2
    <3>3. Holds(q, Firm)'
      BY <2>1, <3>2 DEF Holds, Clean, Bound, HasNode, db, nodeVars
    <3> QED
      BY <3>1, <3>3 DEF Holds, Clean, Bound, HasNode
  <2>9. NoStrayRule'
    <3>1. k.table \in orphaned \/ /\ HasNode(s.new.node)
                                  /\ table[s.new.node] = k.table
      BY <2>2 DEF Bound
    <3>2. k.src = s.new.src /\ k.prio = s.new.prio
      OBVIOUS
    <3> HIDE DEF k
    <3> QED
      BY <2>1, <2>2, <3>1, <3>2
      DEF SInv, NoStrayRule, StandsFor, HasNode, db, nodeVars
  <2> QED
    BY <2>6, <2>8, <2>9 DEF SInv
<1> QED
  BY <1>2, <1>3 DEF Apply

\* While the requests are idle only Main has a rule.
LEMMA AloneStep ==
  ASSUME TInv, SInv, mgr # "serving" \/ \A q \in Req : th[q].pc = "idle",
         NEW r, th' = [th EXCEPT ![Main] = r], UNCHANGED <<db, net>>,
         UNCHANGED <<table, orphaned>>, \A n : HasNode(n)' <=> HasNode(n),
         Holds(r, Firm)
  PROVE  SInv'
<1>1. th'[Main] = r /\ \A q \in Req : th'[q] = th[q] /\ th[q].pc = "idle"
                                        /\ th[q].id = 0
  BY Facts DEF TInv, PhaseInv, Form
<1>2. ClaimInv'
  BY <1>1 DEF ClaimInv, Thread
<1>3. HoldInv'
  <2> SUFFICES ASSUME NEW u \in Thread
               PROVE  Holds(th[u], Firm)'
    BY DEF HoldInv, Thread
  <2>1. PICK q : q = th'[u]
    OBVIOUS
  <2>2. Holds(q, Firm)
    BY <1>1, <2>1, FreeHolds DEF Thread
  <2>3. Firm' = Firm
    BY SameFirm DEF net
  <2>4. Holds(q, Firm)'
    BY <2>2, <2>3 DEF Holds, Clean, Bound, db
  <2> QED
    BY <2>1, <2>4, HoldsAt
<1>4. NoStrayRule'
  BY SameFirm DEF SInv, NoStrayRule, StandsFor, db, net
<1> QED
  BY <1>2, <1>3, <1>4 DEF SInv

\* The recovery, whose only thread works on an enabled rule.
LEMMA RecoveryHolds ==
  ASSUME TInv, SInv, Boot \/ Serve \/ \E i \in Id : RecoverRule(i)
  PROVE  SInv'
<1>1. CASE Boot
  <2>1. PICK r : r = [IdleThread EXCEPT !.op = "recover", !.pc = "recLoop"]
    OBVIOUS
  <2>2. /\ mgr = "down" /\ UNCHANGED <<db, net>>
        /\ UNCHANGED <<table, orphaned>>
        /\ th' = [th EXCEPT ![Main] = r]
        /\ \A n \in Node : status'[n] = "none" <=> status[n] = "none"
    BY <1>1, <2>1 DEF Boot
  <2>3. \A n : HasNode(n)' <=> HasNode(n)
    BY <2>2 DEF HasNode, Node
  <2>4. r.pc = "recLoop"
    BY <2>1 DEF IdleThread
  <2>5. Holds(r, Firm)
    BY <2>4, FreeHolds
  <2> QED
    BY <2>2, <2>3, <2>5, AloneStep
<1>2. CASE Serve
  <2>1. /\ th[Main].pc = "recLoop" /\ th' = [th EXCEPT ![Main] = IdleThread]
        /\ UNCHANGED <<db, nodeVars, net>>
    BY <1>2 DEF Serve, Finish
  <2>2. mgr # "serving" /\ Main \in Thread
    BY <2>1, Facts DEF TInv, PhaseInv
  <2> QED
    BY <2>1, <2>2, FinishHolds, SameFirm DEF Finish, net
<1>3. ASSUME NEW i \in Id, RecoverRule(i)
      PROVE  SInv'
  <2> DEFINE r == [IdleThread EXCEPT !.op = "recover", !.pc = "mtAdd", !.id = i,
                                     !.new = row[i], !.tab = table[row[i].node]]
  <2>1. /\ th[Main].pc = "recLoop" /\ i \in todo
        /\ UNCHANGED <<db, nodeVars, net>>
        /\ \/ UNCHANGED th
           \/ HasNode(row[i].node) /\ th' = [th EXCEPT ![Main] = r]
    BY <1>3 DEF RecoverRule
  <2>2. mgr # "serving" /\ i \in rules /\ row[i].enabled
    BY <2>1 DEF TInv, PhaseInv
  <2>3. CASE UNCHANGED th
    BY <2>1, <2>3, SameFirm
    DEF SInv, ClaimInv, HoldInv, NoStrayRule, StandsFor, Holds, Clean, Bound,
        HasNode, db, nodeVars, net
  <2>4. CASE HasNode(row[i].node) /\ th' = [th EXCEPT ![Main] = r]
    <3>1. r.pc = "mtAdd" /\ r.id = i /\ r.new = row[i]
          /\ r.tab = table[row[i].node]
      BY DEF IdleThread
    <3> HIDE DEF r
    <3>2. Holds(r, Firm)
      BY <2>2, <2>4, <3>1 DEF Holds, Bound, Removing, Adding
    <3>3. \A n : HasNode(n)' <=> HasNode(n)
      BY <2>1 DEF HasNode, nodeVars
    <3>4. UNCHANGED <<db, net>> /\ UNCHANGED <<table, orphaned>>
      BY <2>1 DEF nodeVars
    <3> QED
      BY <2>2, <2>4, <3>2, <3>3, <3>4, AloneStep
  <2> QED
    BY <2>1, <2>3, <2>4
<1> QED
  BY <1>1, <1>2, <1>3

\* The Manager dies, and perhaps the kernel's list with it.
LEMMA CrashHolds ==
  ASSUME TInv, SInv, Crash
  PROVE  SInv'
<1>1. /\ \A t \in Thread : th'[t] = IdleThread
      /\ UNCHANGED <<db, nodeVars>> /\ Firm' \subseteq Firm
  BY FewerFirm DEF Crash
<1>2. ClaimInv' /\ HoldInv'
  BY <1>1, IdleForm DEF ClaimInv, HoldInv, Thread, Holds, Removing, Adding
<1>3. NoStrayRule'
  BY <1>1 DEF SInv, NoStrayRule, StandsFor, HasNode, db, nodeVars
<1> QED
  BY <1>2, <1>3 DEF SInv

\* What becomes of a node that there has been: it stays with its number, or
\* it goes and leaves the number to nobody.
LEMMA NodeStays ==
  ASSUME TInv, Nodes, NEW n \in 0..MaxNode, n <= lastNode
  PROVE  /\ HasNode(n)' => HasNode(n) /\ table'[n] = table[n]
         /\ HasNode(n) /\ ~HasNode(n)' => table[n] \in orphaned'
<1>1. status \in [Node -> {"none", "idle", "running"}] /\ lastNode \in Nat
      /\ table \in [Node -> 0..lastNode]
  BY Facts, RulesAssumption DEF TInv, NodeInv, RulesAssumption
<1>2. ASSUME NEW m \in Node, SetStatus(m)
      PROVE  table' = table /\ (HasNode(n)' <=> HasNode(n))
  BY <1>1, <1>2 DEF SetStatus, HasNode, Node
<1>3. ASSUME CreateNode
      PROVE  /\ HasNode(n)' <=> HasNode(n)
             /\ HasNode(n) => table'[n] = table[n]
  <2> DEFINE m == lastNode + 1
             b == 1 + MaxOf({0} \cup {table[k] : k \in Node})
  <2>1. status' = [status EXCEPT ![m] = "idle"]
        /\ table' = [table EXCEPT ![m] = b]
    BY <1>3 DEF CreateNode
  <2>2. n # m
    BY <1>1, RulesAssumption DEF RulesAssumption
  <2> HIDE DEF m, b
  <2> QED
    BY <1>1, <2>1, <2>2 DEF HasNode, Node
<1>4. ASSUME NEW m \in Node, DeleteNode(m)
      PROVE  /\ HasNode(n)' <=> HasNode(n) /\ n # m
             /\ HasNode(n)' => table'[n] = table[n]
             /\ table[m] \in orphaned'
  BY <1>1, <1>4 DEF DeleteNode, HasNode, Node
<1> QED
  BY <1>2, <1>3, <1>4 DEF Nodes

\* Nodes come and go.  A number that somebody has looked up keeps its node or
\* is orphaned.
LEMMA NodesHolds ==
  ASSUME TInv, SInv, Nodes
  PROVE  SInv'
<1>1. /\ UNCHANGED <<db, th>> /\ orphaned \subseteq orphaned'
      /\ Firm' = Firm
  BY SameFirm DEF Nodes, SetStatus, CreateNode, DeleteNode, net
<1>2. ASSUME NEW n \in 0..MaxNode, n <= lastNode
      PROVE  /\ HasNode(n)' => HasNode(n) /\ table'[n] = table[n]
             /\ HasNode(n) /\ ~HasNode(n)' => table[n] \in orphaned'
  BY <1>2, NodeStays
<1>3. ASSUME NEW n \in 0..MaxNode, NEW tab, n <= lastNode, Bound(n, tab)
      PROVE  Bound(n, tab)'
  <2>1. Bound(n, tab) /\ (HasNode(n)' => HasNode(n) /\ table'[n] = table[n])
        /\ (HasNode(n) /\ ~HasNode(n)' => table[n] \in orphaned')
    BY <1>2, <1>3
  <2> QED
    BY <1>1, <2>1 DEF Bound
<1>4. \A i \in rules : row[i].node \in 0..MaxNode /\ row[i].node <= lastNode
  BY Facts, FullRowIsRow DEF Row
<1>5. ASSUME NEW i \in rules, Clean(i, Firm)
      PROVE  Clean(i, Firm)'
  <2>1. PICK n : n = row[i].node
    OBVIOUS
  <2>2. HasNode(n)' => HasNode(n) /\ table'[n] = table[n]
    BY <1>2, <1>4, <2>1
  <2> QED
    BY <1>1, <1>5, <2>1, <2>2 DEF Clean, HasNode, db
<1>6. HoldInv'
  <2> SUFFICES ASSUME NEW u \in Thread
               PROVE  Holds(th[u], Firm)'
    BY DEF HoldInv, Thread
  <2>1. PICK q : q = th[u]
    OBVIOUS
  <2>2. Holds(q, Firm) /\ Past(q) /\ q.old.node \in 0..MaxNode
        /\ q.new.node \in 0..MaxNode
    BY <2>1, Facts, Parts DEF SInv, HoldInv
  <2>3. /\ Bound(q.old.node, q.tab) => Bound(q.old.node, q.tab)'
        /\ Bound(q.new.node, q.tab) => Bound(q.new.node, q.tab)'
        /\ q.id \in rules /\ Clean(q.id, Firm) => Clean(q.id, Firm)'
    BY <1>3, <1>5, <2>2 DEF Past
  <2>4. Holds(q, Firm)'
    BY <1>1, <2>2, <2>3 DEF Holds, db, Removing, Adding
  <2> QED
    BY <1>1, <2>1, <2>4
<1>7. NoStrayRule'
  <2> SUFFICES ASSUME NEW k \in Firm, k.table \notin orphaned'
               PROVE  \E j \in rules :
                        /\ row[j].enabled /\ row[j].src = k.src
                        /\ row[j].prio = k.prio /\ HasNode(row[j].node)'
                        /\ table'[row[j].node] = k.table
    BY <1>1 DEF NoStrayRule, StandsFor, HasNode, db
  <2>1. PICK j \in rules : /\ row[j].enabled /\ row[j].src = k.src
                           /\ row[j].prio = k.prio /\ HasNode(row[j].node)
                           /\ table[row[j].node] = k.table
    BY <1>1 DEF SInv, NoStrayRule, StandsFor
  <2>2. PICK n : n = row[j].node
    OBVIOUS
  <2>3. HasNode(n)' /\ table'[n] = table[n]
    BY <1>2, <1>4, <2>1, <2>2
  <2> QED
    BY <1>1, <2>1, <2>2, <2>3 DEF HasNode, db
<1> QED
  BY <1>1, <1>6, <1>7 DEF SInv, ClaimInv, Thread

\* In a new installation there is no rule.
LEMMA InitHolds ==
  ASSUME Init
  PROVE  SInv
<1>1. \A t \in Thread : th[t].id = 0 /\ th[t].pc = "idle"
  BY DEF Init, IdleThread
<1> QED
  BY <1>1, FreeHolds DEF Init, SInv, ClaimInv, HoldInv, NoStrayRule, Firm

\* Every step keeps SInv, if no two requests are on one rule.
LEMMA NextHolds ==
  ASSUME Serial \/ OneClient, TInv, SInv, [Next]_vars
  PROVE  SInv'
<1>1. ASSUME NEW r \in Req, Request(r) \/ Step(r) \/ Apply(r)
      PROVE  SInv'
  BY <1>1, Facts, RequestHolds, StepHolds, DelNodeHolds, RuleDelHolds,
     InsertHolds, WriteHolds, RemoveHolds, ApplyHolds DEF Step
<1>2. CASE Recovery
  BY <1>2, Facts, RecoveryHolds, ApplyHolds DEF Recovery
<1>3. CASE UNCHANGED vars
  BY <1>3, SameFirm
  DEF vars, local, SInv, ClaimInv, HoldInv, NoStrayRule, StandsFor, Holds,
      Clean, Bound, HasNode, Thread
<1> QED
  BY <1>1, <1>2, <1>3, CrashHolds, NodesHolds DEF Next

\* If clients never have two requests in flight on one rule, or there is only
\* one client with one request at a time, then at every moment, however often
\* the Manager crashes, whatever becomes of the nodes and whichever calls the
\* kernel and the router refuse, a kernel rule that no enabled row stands for
\* is one the kernel refused to remove, or that of a deleted node's table.
THEOREM KernelFollows ==
  ASSUME Serial \/ OneClient
  PROVE  Spec => []NoStrayRule
<1>1. Init => TInv /\ SInv
  BY InitTypes, InitHolds
<1>2. TInv /\ SInv /\ [Next]_vars => TInv' /\ SInv'
  BY NextTypes, NextHolds
<1>3. SInv => NoStrayRule
  BY DEF SInv
<1> QED
  BY <1>1, <1>2, <1>3, PTL DEF Spec

-----------------------------------------------------------------------------
(* The router, if no two requests are in flight on one rule.                 *)

\* The entries to speak of stay when the router does.
LEMMA SameLoose ==
  ASSUME UNCHANGED remote
  PROVE  Loose' = Loose
  BY DEF remote, Loose

\* A step of thread t, which puts at most its own rule on the router.
LEMMA EntryStep ==
  ASSUME TInv, SInv, EInv, NEW t \in Thread, NEW r, th' = [th EXCEPT ![t] = r],
         Backed', Gone(r, Loose'),
         \A e \in Loose' : e \in Loose \/ (e.id = th[t].id /\ e.id # 0)
  PROVE  EInv'
<1>1. ASSUME NEW u \in Thread
      PROVE  Gone(th'[u], Loose')
  <2>1. CASE u = t
    BY <2>1, Facts
  <2>2. CASE u # t
    <3>1. /\ th'[u] = th[u] /\ Gone(th[u], Loose)
          /\ \A e \in Loose' : e \in Loose \/ e.id # th[u].id
      BY <2>2, Facts DEF EInv, SInv, ClaimInv
    <3> QED
      BY <3>1 DEF Gone
  <2> QED
    BY <2>1, <2>2
<1> QED
  BY <1>1 DEF EInv, Thread, Gone

\* A step of thread t that takes rules off the router at most.
LEMMA SubStep ==
  ASSUME TInv, SInv, EInv, NEW t \in Thread, NEW r, th' = [th EXCEPT ![t] = r],
         UNCHANGED <<db, nodeVars>>, Loose' \subseteq Loose,
         Gone(r, Loose')
  PROVE  EInv'
<1>1. Backed'
  BY DEF EInv, Backed, db
<1> QED
  BY <1>1, EntryStep

\* Which threads claim nothing about the router.
LEMMA FreeGone ==
  ASSUME NEW s, NEW R, s.pc \notin {"ruleDel", "write", "remove"}
  PROVE  Gone(s, R)
  BY DEF Gone

\* A handler reads an enabled row, or one that has no entry.
LEMMA ReadGone ==
  ASSUME TInv, SInv, EInv, NEW r \in Req, NEW i \in Id, NEW o, NEW l, NEW new,
         Read(r, o, i, l, new),
         l \in {"ruleDel", "write", "remove"} => o = "enable" \/ ~row[i].enabled
  PROVE  EInv'
<1>1. PICK s : s = [op |-> o, pc |-> l, id |-> i, old |-> row[i], new |-> new,
                    tab |-> 0]
  OBVIOUS
<1>2. /\ th' = [th EXCEPT ![r] = s] /\ UNCHANGED <<db, nodeVars>>
      /\ Loose' \subseteq Loose /\ r \in Thread
  BY <1>1, Facts, SameLoose DEF Read, net
<1>3. s.op = o /\ s.pc = l /\ s.id = i
  BY <1>1
<1>4. Gone(s, Loose')
  BY <1>2, <1>3 DEF Gone, EInv, Backed
<1> QED
  BY <1>2, <1>4, SubStep

\* A thread takes a request.
LEMMA RequestGone ==
  ASSUME TInv, SInv, EInv, NEW r \in Req, Request(r)
  PROVE  EInv'
<1>1. CASE CreateRequest(r)
  <2>1. PICK new : th' = [th EXCEPT ![r] = [IdleThread EXCEPT
                     !.op = "create", !.pc = "allocate", !.new = new]]
    BY <1>1 DEF CreateRequest
  <2>2. PICK q : q = [IdleThread EXCEPT !.op = "create", !.pc = "allocate",
                                        !.new = new]
    OBVIOUS
  <2>3. q.pc = "allocate"
    BY <2>2 DEF IdleThread
  <2>4. /\ th' = [th EXCEPT ![r] = q] /\ UNCHANGED <<db, nodeVars, net>>
        /\ r \in Thread /\ Loose' \subseteq Loose
    BY <1>1, <2>1, <2>2, Facts, SameLoose DEF CreateRequest, net
  <2>5. Gone(q, Loose')
    BY <2>3, FreeGone
  <2> QED
    BY <2>4, <2>5, SubStep
<1>2. ASSUME NEW i \in Id, UpdateRequest(r, i)
      PROVE  EInv'
  BY <1>2, ReadGone DEF UpdateRequest
<1>3. ASSUME NEW i \in Id, DeleteRequest(r, i)
      PROVE  EInv'
  BY <1>3, ReadGone DEF DeleteRequest
<1>4. ASSUME NEW i \in Id, EnableRequest(r, i)
      PROVE  EInv'
  BY <1>4, ReadGone DEF EnableRequest
<1>5. ASSUME NEW i \in Id, DisableRequest(r, i)
      PROVE  EInv'
  BY <1>5, ReadGone DEF DisableRequest
<1> QED
  BY <1>1, <1>2, <1>3, <1>4, <1>5 DEF Request

\* The steps of a request that leave the rows alone.  Entries of the rule that
\* are still there after a removal, or because there was none, are stuck.
LEMMA StepGone ==
  ASSUME TInv, SInv, EInv, NEW t \in Req,
         \/ Allocate(t) \/ CheckSource(t) \/ DelNode(t) \/ MtDelete(t)
         \/ RuleDel(t) \/ AddNode(t)
  PROVE  EInv'
<1> DEFINE s == th[t]
<1>1. /\ s \in ThreadState /\ Form(s) /\ Past(s) /\ Holds(s, Firm)
      /\ Gone(s, Loose) /\ t \in Thread
  BY Facts DEF SInv, HoldInv, EInv
<1>2. UNCHANGED <<db, nodeVars>> /\ Loose' \subseteq Loose
  <2>1. CASE Allocate(t) \/ CheckSource(t) \/ RuleDel(t) \/ AddNode(t)
    BY <2>1, SameLoose DEF Allocate, CheckSource, RuleDel, AddNode, net
  <2>2. CASE DelNode(t)
    BY <2>2 DEF DelNode, Loose
  <2>3. CASE MtDelete(t)
    BY <2>3 DEF MtDelete, Loose
  <2> QED
    BY <2>1, <2>2, <2>3
<1>3. PICK r : r = th'[t]
  OBVIOUS
<1>4. th' = [th EXCEPT ![t] = r]
  BY <1>1, <1>3, Facts DEF Allocate, CheckSource, DelNode, MtDelete, RuleDel,
     AddNode, Goto, Forget, Finish, ThreadState
<1>5. Gone(r, Loose')
  <2>1. CASE Allocate(t)
    <3>1. r.pc = "insert"
      BY <1>1, <1>3, <2>1, Facts DEF Allocate, ThreadState
    <3> QED
      BY <3>1, FreeGone
  <2>2. CASE CheckSource(t)
    <3>1. s.pc = "checkSource"
      BY <2>2 DEF CheckSource
    <3>2. s.id \in rules /\ s.old = row[s.id]
      BY <1>1, <3>1 DEF Holds
    <3>3. \/ r.pc \in {"idle", "delNode"}
          \/ r.id = s.id /\ ~s.old.enabled
      BY <1>1, <1>3, <2>2, Facts, IdleForm
      DEF CheckSource, Finish, Goto, Forget, ThreadState
    <3> QED
      BY <1>2, <3>2, <3>3 DEF Gone, EInv, Backed
  <2>3. CASE DelNode(t)
    <3>1. CASE HasNode(s.old.node)
      <4>1. r.pc = "mtDelete"
        BY <1>1, <1>3, <2>3, <3>1, Facts DEF DelNode, ThreadState
      <4> QED
        BY <4>1, FreeGone
    <3>2. CASE ~HasNode(s.old.node)
      <4>1. r.id = s.id /\ router' = router /\ stuck' = stuck \cup Entries(s.id)
        BY <1>1, <1>3, <2>3, <3>2, Facts DEF DelNode, Forget, ThreadState
      <4>2. \A e \in Loose' : e.id # s.id
        BY <4>1 DEF Loose, Entries
      <4> QED
        BY <4>1, <4>2 DEF Gone
    <3> QED
      BY <3>1, <3>2
  <2>4. CASE MtDelete(t)
    <3>1. r.id = s.id
      BY <1>1, <1>3, <2>4, Facts DEF MtDelete, Goto, ThreadState
    <3>2. \A e \in Loose' : e.id # s.id
      BY <2>4 DEF MtDelete, Loose, Entries
    <3> QED
      BY <3>1, <3>2 DEF Gone
  <2>5. CASE RuleDel(t)
    <3>1. r.id = s.id /\ r.op = s.op
      BY <1>1, <1>3, <2>5, Facts DEF RuleDel, Forget, ThreadState
    <3>2. s.pc = "ruleDel" /\ s.op # "enable"
      BY <1>1, <2>5 DEF RuleDel, Form, Removing
    <3> QED
      BY <1>1, <1>2, <3>1, <3>2 DEF Gone
  <2>6. CASE AddNode(t)
    <3>1. r.pc \in {"idle", "mtAdd"}
      BY <1>1, <1>3, <2>6, Facts, IdleForm DEF AddNode, Finish, ThreadState
    <3> QED
      BY <3>1, FreeGone
  <2> QED
    BY <2>1, <2>2, <2>3, <2>4, <2>5, <2>6
<1> QED
  BY <1>1, <1>2, <1>4, <1>5, SubStep

\* The steps that change rows: entries of the row are gone, or the row is
\* only enabled.
LEMMA RowGone ==
  ASSUME TInv, SInv, EInv, NEW t \in Req, Insert(t) \/ Write(t) \/ Remove(t)
  PROVE  EInv'
<1> DEFINE s == th[t]
<1>1. /\ s \in ThreadState /\ Form(s) /\ Holds(s, Firm)
      /\ Gone(s, Loose) /\ t \in Thread
  BY Facts DEF SInv, HoldInv, EInv
<1>2. Loose' = Loose
  BY SameLoose DEF Insert, Write, Remove, net
<1>4. PICK r : r = th'[t]
  OBVIOUS
<1>5. r.pc \in {"idle", "addNode"} /\ th' = [th EXCEPT ![t] = r]
  BY <1>1, <1>4, Facts, IdleForm
  DEF Insert, Write, Remove, Forget, Finish, ThreadState
<1>6. Backed'
  <2> SUFFICES ASSUME NEW e \in Loose
               PROVE  /\ e.id \in rules' /\ row'[e.id].enabled
                      /\ row'[e.id].src = e.src
    BY <1>2 DEF Backed
  <2>1. /\ e.id \in rules /\ e.id \in Id /\ row[e.id].enabled
        /\ row[e.id].src = e.src /\ row[e.id] \in FullRow
    BY Facts DEF EInv, Backed
  <2>2. CASE Insert(t)
    <3>1. CASE UNCHANGED db
      BY <2>1, <3>1 DEF db
    <3>2. CASE /\ lastRule' = lastRule + 1 /\ rules' = rules \cup {lastRule'}
               /\ row' = [row EXCEPT ![lastRule'] = s.new]
      <4>1. e.id # lastRule'
        BY <2>1, <3>2, Facts, RulesAssumption DEF RulesAssumption, Id
      <4> QED
        BY <2>1, <3>2, <4>1, Facts
    <3> QED
      BY <2>2, <3>1, <3>2 DEF Insert
  <2>3. CASE Write(t)
    <3>1. CASE UNCHANGED db
      BY <2>1, <3>1 DEF db
    <3>2. CASE rules' = rules /\ row' = [row EXCEPT ![s.id] = s.new]
      <4>1. CASE e.id # s.id
        BY <2>1, <3>2, <4>1, Facts
      <4>2. CASE e.id = s.id
        <5>1. s.op = "enable" /\ s.pc = "write"
          BY <1>1, <2>3, <4>2 DEF Gone, Write
        <5>2. s.new = [row[s.id] EXCEPT !.enabled = TRUE]
          BY <1>1, <5>1 DEF Holds
        <5>3. s.new.enabled /\ s.new.src = row[s.id].src
          BY <2>1, <4>2, <5>2 DEF FullRow
        <5> QED
          BY <2>1, <3>2, <4>2, <5>3, Facts
      <4> QED
        BY <4>1, <4>2
    <3> QED
      BY <2>3, <3>1, <3>2 DEF Write, db
  <2>4. CASE Remove(t)
    <3>1. s.pc = "remove" /\ s.op # "enable"
      BY <1>1, <2>4 DEF Remove, Form
    <3>2. e.id # s.id
      BY <1>1, <3>1 DEF Gone
    <3> QED
      BY <2>1, <2>4, <3>2, Facts DEF Remove
  <2> QED
    BY <2>2, <2>3, <2>4
<1>7. Gone(r, Loose')
  BY <1>5, FreeGone
<1> QED
  BY <1>1, <1>2, <1>5, <1>6, <1>7, EntryStep

\* AddRule puts the row's own address on the router.
LEMMA ApplyGone ==
  ASSUME TInv, SInv, EInv, NEW t \in Thread, Apply(t)
  PROVE  EInv'
<1> DEFINE s == th[t]
<1>1. s \in ThreadState /\ Form(s) /\ Holds(s, Firm)
  BY Facts DEF SInv, HoldInv
<1>2. UNCHANGED <<db, nodeVars>>
  BY DEF Apply, MtAdd, RuleAdd
<1>4. PICK r : r = th'[t]
  OBVIOUS
<1>5. r.pc \in {"idle", "recLoop", "ruleAdd"} /\ th' = [th EXCEPT ![t] = r]
  <2>1. CASE MtAdd(t)
    BY <1>1, <1>4, <2>1, Facts DEF MtAdd, Goto, ThreadState
  <2>2. CASE RuleAdd(t)
    <3> DEFINE loop == [IdleThread EXCEPT !.op = "recover", !.pc = "recLoop"]
    <3>1. th' = [th EXCEPT ![t] = IdleThread] \/ th' = [th EXCEPT ![t] = loop]
      BY <2>2 DEF RuleAdd, Return, Finish
    <3>2. IdleThread.pc = "idle" /\ loop.pc = "recLoop"
      BY DEF IdleThread
    <3> HIDE DEF loop
    <3>3. CASE th' = [th EXCEPT ![t] = IdleThread]
      BY <1>4, <3>2, <3>3, Facts
    <3>4. CASE th' = [th EXCEPT ![t] = loop]
      BY <1>4, <3>2, <3>4, Facts
    <3> QED
      BY <3>1, <3>3, <3>4
  <2> QED
    BY <2>1, <2>2 DEF Apply
<1>6. Gone(r, Loose')
  BY <1>5, FreeGone
<1>7. CASE MtAdd(t)
  <2>1. s.pc = "mtAdd"
        /\ Loose' \subseteq Loose \cup {[id |-> s.id, src |-> s.new.src]}
    BY <1>7 DEF MtAdd, Loose
  <2>2. /\ s.id \in rules /\ row[s.id] = s.new /\ s.new.enabled /\ s.id # 0
    BY <1>1, <2>1 DEF Holds, Form, Adding
  <2>3. Backed'
    BY <1>2, <2>1, <2>2 DEF EInv, Backed, db
  <2>4. \A e \in Loose' : e \in Loose \/ (e.id = s.id /\ e.id # 0)
    BY <2>1, <2>2
  <2> QED
    BY <1>5, <1>6, <2>3, <2>4, EntryStep
<1>8. CASE RuleAdd(t)
  BY <1>2, <1>5, <1>6, <1>8, SubStep, SameLoose DEF RuleAdd
<1> QED
  BY <1>7, <1>8 DEF Apply

\* The recovery, crashes and nodes leave the router alone.
LEMMA OtherGone ==
  ASSUME TInv, SInv, EInv,
         Boot \/ Serve \/ (\E i \in Id : RecoverRule(i)) \/ Crash \/ Nodes
  PROVE  EInv'
<1>1. UNCHANGED db /\ Loose' = Loose
  BY SameLoose DEF Boot, Serve, RecoverRule, Crash, Nodes, SetStatus,
     CreateNode, DeleteNode, net
<1>2. Backed'
  BY <1>1 DEF EInv, Backed, db
<1>4. ASSUME NEW u \in Thread
      PROVE  Gone(th'[u], Loose')
  <2>1. th'[u] = th[u] \/ th'[u].pc \in {"idle", "recLoop", "mtAdd"}
    <3>1. CASE Boot
      BY <3>1, Facts DEF Boot, IdleThread
    <3>2. CASE Serve
      BY <3>2, Facts DEF Serve, Finish, IdleThread
    <3>3. ASSUME NEW i \in Id, RecoverRule(i)
          PROVE  th'[u] = th[u] \/ th'[u].pc \in {"idle", "recLoop", "mtAdd"}
      <4>1. CASE u = Main
        BY <3>3, <4>1, Facts DEF RecoverRule, IdleThread
      <4>2. CASE u # Main
        BY <3>3, <4>2, Facts DEF RecoverRule
      <4> QED
        BY <4>1, <4>2
    <3>4. CASE Crash
      BY <3>4 DEF Crash, IdleThread
    <3>5. CASE Nodes
      BY <3>5 DEF Nodes, SetStatus, CreateNode, DeleteNode
    <3> QED
      BY <3>1, <3>2, <3>3, <3>4, <3>5
  <2> QED
    BY <1>1, <2>1, FreeGone DEF EInv
<1> QED
  BY <1>2, <1>4 DEF EInv, Thread, Gone

\* A new installation has an empty router.
LEMMA InitGone ==
  ASSUME Init
  PROVE  EInv
<1>1. \A t \in Thread : th[t].pc = "idle"
  BY DEF Init, IdleThread
<1> QED
  BY <1>1, FreeGone DEF Init, EInv, Backed, Loose

\* Every step keeps EInv, if no two requests are on one rule.
LEMMA NextGone ==
  ASSUME TInv, SInv, EInv, [Next]_vars
  PROVE  EInv'
<1>1. ASSUME NEW r \in Req, Request(r) \/ Step(r) \/ Apply(r)
      PROVE  EInv'
  BY <1>1, Facts, RequestGone, StepGone, RowGone, ApplyGone DEF Step
<1>2. CASE Recovery
  BY <1>2, Facts, OtherGone, ApplyGone DEF Recovery
<1>3. CASE UNCHANGED vars
  BY <1>3, SameLoose DEF vars, remote, EInv, Backed, Gone, Thread
<1> QED
  BY <1>1, <1>2, <1>3, OtherGone DEF Next

\* If clients never have two requests in flight on one rule, an entry of the
\* router outlives or misstates its rule only if the router did not remove it
\* when it was told to, or was not told because the node was gone, however
\* often the Manager crashes in between.
THEOREM RouterRight ==
  ASSUME Serial \/ OneClient
  PROVE  Spec => []RouterFollows
<1>1. Init => TInv /\ SInv /\ EInv
  BY InitTypes, InitHolds, InitGone
<1>2. TInv /\ SInv /\ EInv /\ [Next]_vars => TInv' /\ SInv' /\ EInv'
  BY NextTypes, NextHolds, NextGone
<1>3. EInv => RouterFollows
  BY DEF EInv, Backed, RouterFollows, Follows
<1> QED
  BY <1>1, <1>2, <1>3, PTL DEF Spec

-----------------------------------------------------------------------------
(* What a removal may take from the kernel: nothing of another rule, though   *)
(* two rules may have one address and a table number may be given out again.  *)

\* What a removal names is what no other rule has.
Sole(s) ==
  s.pc \in {"mtDelete", "ruleDel"} =>
    \A i \in rules :
      i # s.id /\ row[i].src = s.old.src /\ HasNode(row[i].node) =>
        table[row[i].node] # s.tab

\* A thread that is going to write an address of its own choice.
Choosing(s) ==
  \/ s.pc \in {"allocate", "insert"}
  \/ s.op = "update" /\ s.pc \in Removing \cup {"write"}

\* Nor is u going to write it.  While the old node is there the UNIQUE index
\* sees to it; once it is gone, a node that got its number is newer than the
\* check of u's address.
Apart(s, u) ==
  s.pc \in {"mtDelete", "ruleDel"} /\ Choosing(u) =>
    ~ /\ ~HasNode(s.old.node) /\ HasNode(u.new.node)
      /\ u.new.src = s.old.src /\ table[u.new.node] = s.tab

\* Enable and disable write the address and the node the row has.
Keeps(s) ==
  s.op \in {"enable", "disable"} /\ s.pc \in Removing \cup {"write"} =>
    /\ s.new.src = row[s.id].src /\ s.new.node = row[s.id].node
    /\ s.op = "disable" => ~s.new.enabled

SoleInv ==
  /\ \A t \in Thread : Sole(th[t]) /\ Keeps(th[t])
  /\ \A t, u \in Thread : t # u => Apart(th[t], th[u])

\* A thread here is going to put its rule into the kernel, to say that it is
\* not enabled, or to remove it.
Working == {"write", "remove"} \cup Adding

\* A rule that is enabled is in the kernel, or its turn comes.
Due(i) ==
  \/ mgr = "down" \/ i \in todo \/ i \in missed \/ Installed(i)
  \/ \E t \in Thread : th[t].id = i /\ th[t].pc \in Working

DueInv ==
  \A i \in rules : row[i].enabled /\ HasNode(row[i].node) => Due(i)

-----------------------------------------------------------------------------
(* Removals take nothing of another rule.                                    *)

\* A step of a thread that changes neither rows nor nodes.
LEMMA SoleStep ==
  ASSUME TInv, SoleInv, NEW t \in Thread, NEW r, th' = [th EXCEPT ![t] = r],
         UNCHANGED <<db, nodeVars>>, Sole(r), Keeps(r),
         \A u \in Thread : u # t => Apart(r, th[u]) /\ Apart(th[u], r)
  PROVE  SoleInv'
<1>1. th'[t] = r /\ \A u \in Thread : u # t => th'[u] = th[u]
  BY Facts
<1>2. ASSUME NEW u \in Thread
      PROVE  Sole(th'[u]) /\ Keeps(th'[u])
  BY <1>1 DEF SoleInv
<1>3. ASSUME NEW u \in Thread, NEW v \in Thread, u # v
      PROVE  Apart(th'[u], th'[v])
  BY <1>1, <1>3 DEF SoleInv
<1>4. ASSUME NEW u \in Thread
      PROVE  Sole(th[u])' /\ Keeps(th[u])'
  BY <1>2 DEF Sole, Keeps, HasNode, db, nodeVars
<1>5. ASSUME NEW u \in Thread, NEW v \in Thread, u # v
      PROVE  Apart(th[u], th[v])'
  BY <1>3, <1>5 DEF Apart, Choosing, HasNode, nodeVars
<1> QED
  BY <1>4, <1>5 DEF SoleInv, Thread

\* A thread that neither removes nor chooses an address.
Free(s) ==
  /\ s.pc \notin {"mtDelete", "ruleDel"} /\ ~Choosing(s) /\ Keeps(s)

LEMMA FreeSole ==
  ASSUME NEW s, Free(s)
  PROVE  Sole(s) /\ Keeps(s) /\ \A u : Apart(s, u) /\ Apart(u, s)
  BY DEF Free, Sole, Apart

LEMMA FreePlaces ==
  ASSUME NEW s,
         s.pc \in {"idle", "checkSource", "remove", "recLoop"} \cup Adding
  PROVE  Free(s)
  BY DEF Free, Choosing, Keeps, Removing, Adding

\* A step of a thread that then neither removes nor chooses an address.
LEMMA FreeStep ==
  ASSUME TInv, SoleInv, NEW t \in Thread, NEW r, th' = [th EXCEPT ![t] = r],
         UNCHANGED <<db, nodeVars>>, Free(r)
  PROVE  SoleInv'
<1>1. Sole(r) /\ Keeps(r)
      /\ \A u \in Thread : Apart(r, th[u]) /\ Apart(th[u], r)
  BY FreeSole
<1> QED
  BY <1>1, SoleStep

\* A thread chooses an address that no other row has, that of a removal
\* neither.
LEMMA NewAddress ==
  ASSUME TInv, SInv, NEW u \in Thread, NEW r, NEW i,
         th[u].id # i, \A j \in rules : j # i => row[j].src # r.new.src
  PROVE  Apart(th[u], r)
<1>1. CASE th[u].pc \in {"mtDelete", "ruleDel"}
  <2>1. th[u].id \in rules /\ th[u].old = row[th[u].id]
    BY <1>1 DEF SInv, HoldInv, Holds, Removing
  <2> QED
    BY <2>1 DEF Apart
<1> QED
  BY <1>1 DEF Apart

\* A thread takes a request.
LEMMA RequestSole ==
  ASSUME TInv, SInv, SoleInv, NEW t \in Req, Request(t)
  PROVE  SoleInv'
<1>1. t \in Thread
  BY Facts
<1>2. CASE CreateRequest(t)
  <2>1. PICK s \in Src, n \in 1..lastNode, p \in Prios, en \in BOOLEAN :
          /\ ~CheckSourceIPExists(s, 0)
          /\ th' = [th EXCEPT ![t] = [IdleThread EXCEPT
                      !.op = "create", !.pc = "allocate",
                      !.new = [src |-> s, node |-> n, prio |-> p,
                               enabled |-> en]]]
    BY <1>2 DEF CreateRequest
  <2>2. PICK new : new = [src |-> s, node |-> n, prio |-> p, enabled |-> en]
    OBVIOUS
  <2>3. PICK q : q = [IdleThread EXCEPT !.op = "create", !.pc = "allocate",
                                        !.new = new]
    OBVIOUS
  <2>4. q.pc = "allocate" /\ q.op = "create" /\ q.new = new /\ new.src = s
    BY <2>2, <2>3 DEF IdleThread
  <2>5. th' = [th EXCEPT ![t] = q] /\ UNCHANGED <<db, nodeVars>>
    BY <1>2, <2>1, <2>2, <2>3 DEF CreateRequest
  <2>6. \A j \in rules : row[j].src # q.new.src
    BY <2>1, <2>4, Facts, RulesAssumption
    DEF CheckSourceIPExists, Id, RulesAssumption
  <2>7. Sole(q) /\ Keeps(q) /\ \A u : Apart(q, u)
    BY <2>4 DEF Sole, Keeps, Apart
  <2>8. ASSUME NEW u \in Thread
        PROVE  Apart(th[u], q)
    <3>1. PICK i : th[u].id # i
      <4>1. {th[u].id} # {}
        OBVIOUS
      <4> QED
        BY Facts, RulesAssumption, MaxRule + 1 \notin 0..MaxRule
        DEF ThreadState, RulesAssumption
    <3> QED
      BY <2>6, <3>1, NewAddress
  <2> QED
    BY <1>1, <2>5, <2>7, <2>8, SoleStep
<1>3. ASSUME NEW i \in Id, NEW o, NEW l, NEW new, Read(t, o, i, l, new),
             o = "update" => l = "checkSource",
             l \in {"checkSource", "delNode", "write", "remove"},
             o \in {"enable", "disable"} =>
               /\ new.src = row[i].src /\ new.node = row[i].node
               /\ o = "disable" => ~new.enabled
      PROVE  SoleInv'
  <2>1. PICK q : q = [op |-> o, pc |-> l, id |-> i, old |-> row[i],
                      new |-> new, tab |-> 0]
    OBVIOUS
  <2>2. /\ th' = [th EXCEPT ![t] = q] /\ UNCHANGED <<db, nodeVars>>
        /\ q.op = o /\ q.pc = l /\ q.id = i /\ q.new = new
    BY <1>3, <2>1 DEF Read
  <2>3. Free(q)
    BY <1>3, <2>2 DEF Free, Choosing, Keeps, Removing
  <2> QED
    BY <1>1, <2>2, <2>3, FreeStep
<1>4. ASSUME NEW i \in Id, UpdateRequest(t, i)
      PROVE  SoleInv'
  BY <1>3, <1>4 DEF UpdateRequest
<1>5. ASSUME NEW i \in Id, DeleteRequest(t, i)
      PROVE  SoleInv'
  BY <1>3, <1>5 DEF DeleteRequest
<1>6. ASSUME NEW i \in Id, NEW en \in BOOLEAN, NEW new, i \in rules,
             new = [row[i] EXCEPT !.enabled = en]
      PROVE  /\ new.src = row[i].src /\ new.node = row[i].node
             /\ new.enabled = en
  <2>1. row[i] \in FullRow
    BY <1>6, Facts
  <2> QED
    BY <1>6, <2>1 DEF FullRow
<1>7. ASSUME NEW i \in Id, EnableRequest(t, i)
      PROVE  SoleInv'
  <2>1. PICK new : new = [row[i] EXCEPT !.enabled = TRUE]
    OBVIOUS
  <2>2. Read(t, "enable", i, "write", new) /\ i \in rules
    BY <1>7, <2>1 DEF EnableRequest, Read
  <2>3. new.src = row[i].src /\ new.node = row[i].node
    BY <1>6, <2>1, <2>2
  <2> QED
    BY <1>3, <2>2, <2>3
<1>8. ASSUME NEW i \in Id, DisableRequest(t, i)
      PROVE  SoleInv'
  <2>1. PICK new : new = [row[i] EXCEPT !.enabled = FALSE]
    OBVIOUS
  <2>2. Read(t, "disable", i, "delNode", new) /\ i \in rules
    BY <1>8, <2>1 DEF DisableRequest, Read
  <2>3. new.src = row[i].src /\ new.node = row[i].node /\ ~new.enabled
    BY <1>6, <2>1, <2>2
  <2> QED
    BY <1>3, <2>2, <2>3
<1> QED
  BY <1>2, <1>4, <1>5, <1>7, <1>8 DEF Request

\* A thread goes on with its rule.
LEMMA OnwardSole ==
  ASSUME TInv, SInv, SoleInv, NEW t \in Thread, NEW r,
         th' = [th EXCEPT ![t] = r], UNCHANGED <<db, nodeVars>>,
         r.id = th[t].id, r.op = th[t].op,
         r.new.src = th[t].new.src, r.new.node = th[t].new.node,
         r.new.enabled = th[t].new.enabled,
         Choosing(r) => Choosing(th[t]),
         r.pc \in Removing \cup {"write"}
           => th[t].pc \in Removing \cup {"write"},
         r.pc \in {"mtDelete", "ruleDel"} =>
           /\ th[t].pc \in {"mtDelete", "ruleDel"}
           /\ r.old = th[t].old /\ r.tab = th[t].tab
  PROVE  SoleInv'
<1>1. Sole(th[t]) /\ Keeps(th[t])
      /\ \A u \in Thread : u # t => Apart(th[t], th[u]) /\ Apart(th[u], th[t])
  BY DEF SoleInv
<1>2. Sole(r)
  BY <1>1 DEF Sole
<1>3. Keeps(r)
  BY <1>1 DEF Keeps
<1>4. ASSUME NEW u \in Thread, u # t
      PROVE  Apart(r, th[u]) /\ Apart(th[u], r)
  <2>1. Apart(th[t], th[u]) /\ Apart(th[u], th[t])
    BY <1>1, <1>4
  <2>2. Apart(r, th[u])
    BY <2>1 DEF Apart
  <2>3. Apart(th[u], r)
    BY <2>1 DEF Apart
  <2> QED
    BY <2>2, <2>3
<1> QED
  BY <1>2, <1>3, <1>4, SoleStep

\* The handler looks up the table of the old node.  A row with the same
\* address is of another node, which has another number.
LEMMA DelNodeSole ==
  ASSUME TInv, SInv, SoleInv, NEW t \in Req, DelNode(t)
  PROVE  SoleInv'
<1> DEFINE s == th[t]
<1>1. s \in ThreadState /\ Form(s) /\ Holds(s, Firm) /\ t \in Thread
  BY Facts DEF SInv, HoldInv
<1>2. /\ s.pc = "delNode" /\ UNCHANGED <<db, nodeVars>>
      /\ s.id \in rules /\ s.old = row[s.id]
  BY <1>1 DEF DelNode, Holds, Removing
<1>3. CASE HasNode(s.old.node)
  <2>1. PICK r : r = [s EXCEPT !.pc = "mtDelete", !.tab = table[s.old.node]]
    OBVIOUS
  <2>2. th' = [th EXCEPT ![t] = r]
    BY <1>3, <2>1, Facts DEF DelNode
  <2>3. /\ r.pc = "mtDelete" /\ r.id = s.id /\ r.op = s.op /\ r.old = s.old
        /\ r.new = s.new /\ r.tab = table[s.old.node]
    BY <1>1, <2>1 DEF ThreadState
  <2>4. Sole(r)
    <3> SUFFICES ASSUME NEW i \in rules, i # s.id, row[i].src = s.old.src,
                        HasNode(row[i].node),
                        table[row[i].node] = table[s.old.node]
                 PROVE  FALSE
      BY <2>3 DEF Sole
    <3>1. row[i].node = s.old.node
      BY <1>3 DEF TInv, NodeInv, HasNode
    <3> QED
      BY <1>2, <3>1 DEF TInv, RowInv
  <2>5. Keeps(r)
    BY <1>2, <2>3 DEF SoleInv, Keeps, Removing, Thread
  <2>6. ASSUME NEW u \in Thread, u # t
        PROVE  Apart(r, th[u]) /\ Apart(th[u], r)
    <3>1. Apart(th[u], s)
      BY <1>1, <2>6 DEF SoleInv
    <3>2. Choosing(r) => Choosing(s)
      BY <1>2, <2>3 DEF Choosing, Removing
    <3> QED
      BY <1>3, <2>3, <3>1, <3>2 DEF Apart
  <2> QED
    BY <1>1, <1>2, <2>2, <2>4, <2>5, <2>6, SoleStep
<1>4. CASE ~HasNode(s.old.node)
  <2>1. PICK r : r = [s EXCEPT !.pc = AfterRemoval(t), !.old = BlankRow,
                               !.tab = 0]
    OBVIOUS
  <2>2. th' = [th EXCEPT ![t] = r]
    BY <1>4, <2>1, Facts DEF DelNode, Forget
  <2>3. /\ r.pc = AfterRemoval(t) /\ r.id = s.id /\ r.op = s.op
        /\ r.new = s.new
    BY <1>1, <2>1 DEF ThreadState
  <2> QED
    BY <1>1, <1>2, <2>2, <2>3, OnwardSole DEF AfterRemoval, Choosing, Removing
<1> QED
  BY <1>3, <1>4

\* The other steps of a request that leave the rows alone.
LEMMA StepSole ==
  ASSUME TInv, SInv, SoleInv, NEW t \in Req,
         \/ Allocate(t) \/ CheckSource(t) \/ MtDelete(t)
         \/ RuleDel(t) \/ AddNode(t)
  PROVE  SoleInv'
<1> DEFINE s == th[t]
<1>1. s \in ThreadState /\ Form(s) /\ Holds(s, Firm) /\ t \in Thread
  BY Facts DEF SInv, HoldInv
<1>2. UNCHANGED <<db, nodeVars>>
  BY DEF Allocate, CheckSource, MtDelete, RuleDel, AddNode
<1>3. PICK r : r = th'[t]
  OBVIOUS
<1>4. th' = [th EXCEPT ![t] = r]
  BY <1>1, <1>3, Facts DEF Allocate, CheckSource, MtDelete, RuleDel, AddNode,
     Goto, Forget, Finish
<1>5. CASE Finish(t)
  <2>1. r.pc = "idle"
    BY <1>1, <1>3, <1>5, Facts, IdleForm DEF Finish
  <2> QED
    BY <1>1, <1>2, <1>4, <2>1, FreePlaces, FreeStep
<1>6. CASE Allocate(t)
  <2>1. /\ s.pc = "allocate" /\ r.pc = "insert" /\ r.id = s.id /\ r.op = s.op
        /\ s.new \in Row /\ r.new.src = s.new.src /\ r.new.node = s.new.node
        /\ r.new.enabled = s.new.enabled
    BY <1>1, <1>3, <1>6, Facts, Parts DEF Allocate, ThreadState, Row
  <2> QED
    BY <1>1, <1>2, <1>4, <2>1, OnwardSole DEF Choosing, Removing
<1>7. CASE /\ CheckSource(t) /\ ~CheckSourceIPExists(s.new.src, s.id)
           /\ Goto(t, "delNode") \/ Forget(t, "write")
  <2>1. s.pc = "checkSource" /\ s.op = "update"
    BY <1>1, <1>7 DEF CheckSource, Form
  <2>2. /\ r.pc \in {"delNode", "write"} /\ r.new = s.new /\ r.op = s.op
        /\ r.id = s.id
    BY <1>1, <1>3, <1>7, Facts DEF Goto, Forget, ThreadState
  <2>3. Sole(r) /\ Keeps(r) /\ \A u : Apart(r, u)
    BY <2>1, <2>2 DEF Sole, Keeps, Apart
  <2>4. \A j \in rules : j # s.id => row[j].src # r.new.src
    BY <1>7, <2>2 DEF CheckSourceIPExists
  <2>5. s.id # 0
    BY <1>1, <2>1 DEF Form
  <2>6. ASSUME NEW u \in Thread, u # t
        PROVE  Apart(th[u], r)
    <3>1. th[u].id # s.id
      BY <1>1, <2>5, <2>6 DEF SInv, ClaimInv
    <3> QED
      BY <2>4, <3>1, NewAddress
  <2> QED
    BY <1>1, <1>2, <1>4, <2>3, <2>6, SoleStep
<1>8. CASE MtDelete(t)
  <2>1. /\ s.pc = "mtDelete" /\ r.pc = "ruleDel" /\ r.id = s.id
        /\ r.op = s.op /\ r.old = s.old /\ r.new = s.new /\ r.tab = s.tab
    BY <1>1, <1>3, <1>8, Facts DEF MtDelete, Goto, ThreadState
  <2> QED
    BY <1>1, <1>2, <1>4, <2>1, OnwardSole DEF Choosing, Removing
<1>9. CASE RuleDel(t)
  <2>1. /\ s.pc = "ruleDel" /\ r.pc = AfterRemoval(t) /\ r.id = s.id
        /\ r.op = s.op /\ r.new = s.new
    BY <1>1, <1>3, <1>9, Facts DEF RuleDel, Forget, ThreadState
  <2> QED
    BY <1>1, <1>2, <1>4, <2>1, OnwardSole DEF AfterRemoval, Choosing, Removing
<1>10. CASE AddNode(t) /\ ~Finish(t)
  <2>1. r.pc = "mtAdd"
    BY <1>1, <1>3, <1>10, Facts DEF AddNode, ThreadState
  <2> QED
    BY <1>1, <1>2, <1>4, <2>1, FreePlaces, FreeStep DEF Adding
<1> QED
  BY <1>5, <1>6, <1>7, <1>8, <1>9, <1>10 DEF CheckSource

\* A step of thread t that changes row i, which no other thread has, when no
\* other thread is removing what the row has now.
LEMMA RowSole ==
  ASSUME TInv, SInv, SoleInv, NEW t \in Req, NEW r, NEW i \in Id,
         th' = [th EXCEPT ![t] = r], UNCHANGED nodeVars, Free(r),
         r.pc \notin Removing \cup {"write"},
         \A j \in Id : j # i =>
           row'[j] = row[j] /\ (j \in rules' <=> j \in rules),
         rules' \subseteq Id,
         \A u \in Thread : u # t =>
           /\ th[u].id # i
           /\ i \in rules' /\ th[u].pc \in {"mtDelete", "ruleDel"} =>
                ~ /\ row'[i].src = th[u].old.src /\ HasNode(row'[i].node)
                  /\ table[row'[i].node] = th[u].tab
  PROVE  SoleInv'
<1>1. th'[t] = r /\ t \in Thread /\ \A u \in Thread : u # t => th'[u] = th[u]
  BY Facts
<1>2. ASSUME NEW u \in Thread
      PROVE  Sole(th[u])'
  <2>1. CASE u = t
    BY <1>1, <2>1 DEF Sole, Free
  <2>2. CASE u # t
    <3> SUFFICES ASSUME th[u].pc \in {"mtDelete", "ruleDel"}, NEW j \in rules',
                        j # th[u].id, row'[j].src = th[u].old.src,
                        HasNode(row'[j].node)
                 PROVE  table[row'[j].node] # th[u].tab
      BY <1>1, <2>2 DEF Sole, HasNode, nodeVars
    <3>1. CASE j = i
      BY <2>2, <3>1
    <3>2. CASE j # i
      <4>1. j \in rules /\ row'[j] = row[j]
        BY <3>2
      <4> QED
        BY <4>1 DEF SoleInv, Sole
    <3> QED
      BY <3>1, <3>2
  <2> QED
    BY <2>1, <2>2
<1>3. ASSUME NEW u \in Thread
      PROVE  Keeps(th[u])'
  <2>1. CASE u = t
    BY <1>1, <2>1 DEF Keeps
  <2>2. CASE u # t
    <3>1. CASE th[u].pc \in Removing \cup {"write"}
      <4>1. th[u].id \in rules /\ th[u].id \in Id /\ th[u].id # i
        BY <2>2, <3>1, Facts DEF SInv, HoldInv, Holds, Removing
      <4>2. row'[th[u].id] = row[th[u].id]
        BY <4>1
      <4> QED
        BY <1>1, <2>2, <4>2 DEF SoleInv, Keeps
    <3>2. CASE th[u].pc \notin Removing \cup {"write"}
      BY <1>1, <2>2, <3>2 DEF Keeps
    <3> QED
      BY <3>1, <3>2
  <2> QED
    BY <2>1, <2>2
<1>4. ASSUME NEW u \in Thread, NEW v \in Thread, u # v
      PROVE  Apart(th[u], th[v])'
  <2>1. Apart(th'[u], th'[v])
    BY <1>1, <1>4, FreeSole DEF SoleInv
  <2> QED
    BY <2>1 DEF Apart, Choosing, HasNode, nodeVars
<1> QED
  BY <1>2, <1>3, <1>4 DEF SoleInv, Thread

\* What a thread writes is not what another is removing: if the old node of
\* the removal is there, the UNIQUE index refuses the row.
LEMMA WrittenSole ==
  ASSUME TInv, SInv, SoleInv, NEW t \in Thread, NEW u \in Thread, t # u,
         th[t].pc \in {"insert", "write"},
         th[t].pc = "insert" => th[t].op = "create" /\ Unique(0, th[t].new),
         th[t].pc = "write" => Unique(th[t].id, th[t].new),
         th[u].pc \in {"mtDelete", "ruleDel"},
         th[t].new.src = th[u].old.src, HasNode(th[t].new.node),
         table[th[t].new.node] = th[u].tab
  PROVE  FALSE
<1> DEFINE s == th[t]
           v == th[u]
<1>1. /\ v.id \in rules /\ v.old = row[v.id] /\ Bound(v.old.node, v.tab)
      /\ Form(s) /\ Form(v) /\ Holds(s, Firm)
  BY Facts DEF SInv, HoldInv, Holds, Removing
<1>2. v.id # 0 /\ v.id # s.id
  BY <1>1 DEF SInv, ClaimInv, Form
<1>3. CASE HasNode(v.old.node)
  <2>1. s.new.node = v.old.node
    BY <1>1, <1>3 DEF Bound, TInv, NodeInv, HasNode
  <2> QED
    BY <1>1, <1>2, <2>1 DEF Unique
<1>4. CASE ~HasNode(v.old.node) /\ Choosing(s)
  BY <1>4 DEF SoleInv, Apart
<1>5. CASE ~Choosing(s)
  <2>1. s.pc = "write" /\ s.op \in {"enable", "disable"} /\ s.id \in rules
    BY <1>1, <1>5 DEF Choosing, Form, Holds
  <2>2. s.new.src = row[s.id].src /\ s.new.node = row[s.id].node
    BY <2>1 DEF SoleInv, Keeps
  <2> QED
    BY <1>2, <2>1, <2>2 DEF SoleInv, Sole
<1> QED
  BY <1>3, <1>4, <1>5

\* The steps that change rows.
LEMMA ChangeSole ==
  ASSUME TInv, SInv, SoleInv, NEW t \in Req, Insert(t) \/ Write(t) \/ Remove(t)
  PROVE  SoleInv'
<1> DEFINE s == th[t]
<1>1. s \in ThreadState /\ Form(s) /\ Holds(s, Firm) /\ t \in Thread
  BY Facts DEF SInv, HoldInv
<1>2. PICK r : r = th'[t]
  OBVIOUS
<1>3. r.pc \in {"idle", "addNode"} /\ th' = [th EXCEPT ![t] = r]
      /\ UNCHANGED nodeVars
  BY <1>1, <1>2, Facts, IdleForm
  DEF Insert, Write, Remove, Forget, Finish, ThreadState
<1>4. Free(r) /\ r.pc \notin Removing \cup {"write"}
  BY <1>3, FreePlaces DEF Adding, Removing
<1>5. RowInv' /\ rules' \subseteq Id
  BY NextTypes DEF Next, Step, TInv, RowInv
<1>6. CASE UNCHANGED db
  BY <1>1, <1>3, <1>4, <1>6, FreeStep
<1>7. CASE Insert(t) /\ lastRule < MaxRule /\ Unique(0, s.new)
  <2>1. PICK i : i = lastRule + 1
    OBVIOUS
  <2>2. /\ rules' = rules \cup {i} /\ row' = [row EXCEPT ![i] = s.new]
        /\ s.pc = "insert" /\ s.op = "create"
    BY <1>1, <1>7, <2>1 DEF Insert, Form
  <2>3. i \in Id /\ \A u \in Thread : th[u].id # i
    <3>1. lastRule \in Nat /\ i \in Id
      BY <1>7, <2>1, Facts, RulesAssumption DEF RulesAssumption, Id
    <3>2. \A u \in Thread : th[u].id <= lastRule /\ th[u].id \in 0..MaxRule
      BY Facts, Parts DEF Past
    <3> QED
      BY <2>1, <3>1, <3>2, RulesAssumption DEF RulesAssumption
  <2>4. row'[i] = s.new /\ \A j \in Id : j # i =>
          row'[j] = row[j] /\ (j \in rules' <=> j \in rules)
    BY <2>2, <2>3, Facts
  <2>5. ASSUME NEW u \in Thread, u # t, th[u].pc \in {"mtDelete", "ruleDel"}
        PROVE  ~ /\ row'[i].src = th[u].old.src /\ HasNode(row'[i].node)
                 /\ table[row'[i].node] = th[u].tab
    BY <1>1, <1>7, <2>2, <2>4, <2>5, WrittenSole
  <2> QED
    BY <1>3, <1>4, <1>5, <2>3, <2>4, <2>5, RowSole
<1>8. CASE Write(t) /\ s.id \in rules /\ Unique(s.id, s.new)
           /\ row' = [row EXCEPT ![s.id] = s.new]
  <2>1. s.pc = "write" /\ rules' = rules /\ s.id \in Id /\ s.id # 0
    BY <1>1, <1>8, Facts DEF Write, Form
  <2>2. \A u \in Thread : u # t => th[u].id # s.id
    BY <1>1, <2>1 DEF SInv, ClaimInv
  <2>3. row'[s.id] = s.new /\ \A j \in Id : j # s.id =>
          row'[j] = row[j] /\ (j \in rules' <=> j \in rules)
    BY <1>8, <2>1, Facts
  <2>4. ASSUME NEW u \in Thread, u # t, th[u].pc \in {"mtDelete", "ruleDel"}
        PROVE  ~ /\ row'[s.id].src = th[u].old.src
                 /\ HasNode(row'[s.id].node)
                 /\ table[row'[s.id].node] = th[u].tab
    BY <1>1, <1>8, <2>1, <2>3, <2>4, WrittenSole
  <2> QED
    BY <1>3, <1>4, <1>5, <2>1, <2>2, <2>3, <2>4, RowSole
<1>9. CASE Remove(t)
  <2>1. /\ rules' = rules \ {s.id} /\ row' = [row EXCEPT ![s.id] = BlankRow]
        /\ s.id \in Id /\ s.id # 0
    BY <1>1, <1>9, Facts DEF Remove, Holds, Form
  <2>2. \A u \in Thread : u # t => th[u].id # s.id
    BY <1>1, <2>1 DEF SInv, ClaimInv
  <2>3. s.id \notin rules' /\ \A j \in Id : j # s.id =>
          row'[j] = row[j] /\ (j \in rules' <=> j \in rules)
    BY <2>1, Facts
  <2>4. PICK i \in Id : i = s.id
    BY <2>1
  <2> HIDE DEF s
  <2>5. /\ i \notin rules' /\ \A u \in Thread : u # t => th[u].id # i
        /\ \A j \in Id : j # i =>
             row'[j] = row[j] /\ (j \in rules' <=> j \in rules)
    BY <2>2, <2>3, <2>4
  <2> QED
    BY <1>3, <1>4, <1>5, <2>5, RowSole
<1> QED
  BY <1>6, <1>7, <1>8, <1>9 DEF Insert, Write, Remove, db

\* A rule is applied.
LEMMA ApplySole ==
  ASSUME TInv, SInv, SoleInv, NEW t \in Thread, Apply(t)
  PROVE  SoleInv'
<1>1. th[t] \in ThreadState /\ UNCHANGED <<db, nodeVars>>
  BY Facts DEF Apply, MtAdd, RuleAdd
<1>2. PICK r : r = th'[t]
  OBVIOUS
<1>3. CASE MtAdd(t)
  <2>1. th' = [th EXCEPT ![t] = r] /\ r.pc = "ruleAdd"
    BY <1>1, <1>2, <1>3, Facts DEF MtAdd, Goto, ThreadState
  <2> QED
    BY <1>1, <2>1, FreePlaces, FreeStep DEF Adding
<1>4. CASE RuleAdd(t)
  <2> DEFINE loop == [IdleThread EXCEPT !.op = "recover", !.pc = "recLoop"]
  <2>1. th' = [th EXCEPT ![t] = IdleThread] \/ th' = [th EXCEPT ![t] = loop]
    BY <1>4 DEF RuleAdd, Return, Finish
  <2>2. IdleThread.pc = "idle" /\ loop.pc = "recLoop"
    BY DEF IdleThread
  <2> HIDE DEF loop
  <2> QED
    BY <1>1, <2>1, <2>2, FreePlaces, FreeStep
<1> QED
  BY <1>3, <1>4 DEF Apply

\* The recovery and crashes: threads that remove nothing.
LEMMA OtherSole ==
  ASSUME TInv, SInv, SoleInv,
         Boot \/ Serve \/ (\E i \in Id : RecoverRule(i)) \/ Crash
  PROVE  SoleInv'
<1>1. ASSUME NEW u \in Thread
      PROVE  Free(th'[u])
  <2>1. CASE Crash
    BY <2>1, FreePlaces, IdleForm DEF Crash
  <2>2. CASE Boot \/ Serve \/ \E i \in Id : RecoverRule(i)
    <3>1. u # Main => th'[u] = th[u] /\ th[u].pc = "idle"
      <4>1. mgr # "serving"
        BY <2>2 DEF Boot, Serve, RecoverRule, TInv, PhaseInv
      <4> QED
        BY <2>2, <4>1, Facts DEF Boot, Serve, RecoverRule, Finish, TInv,
           PhaseInv, Thread
    <3>2. th'[Main] = th[Main] \/ th'[Main].pc \in {"idle", "recLoop", "mtAdd"}
      <4>1. CASE Boot
        BY <4>1, Facts DEF Boot, IdleThread
      <4>2. CASE Serve
        BY <4>2, Facts DEF Serve, Finish, IdleThread
      <4>3. ASSUME NEW i \in Id, RecoverRule(i)
            PROVE  th'[Main] = th[Main] \/ th'[Main].pc = "mtAdd"
        BY <4>3, Facts DEF RecoverRule, IdleThread
      <4> QED
        BY <2>2, <4>1, <4>2, <4>3
    <3>3. th[Main].pc \in {"idle", "recLoop", "mtAdd", "ruleAdd"}
      BY DEF TInv, PhaseInv
    <3>4. th'[u].pc \in {"idle", "recLoop", "mtAdd", "ruleAdd"}
      BY <3>1, <3>2, <3>3
    <3> QED
      BY <3>4, FreePlaces DEF Adding
  <2> QED
    BY <2>1, <2>2
<1>2. ASSUME NEW u \in Thread
      PROVE  Sole(th[u])' /\ Keeps(th[u])'
  <2>1. /\ th'[u].pc \notin {"mtDelete", "ruleDel"} /\ ~Choosing(th'[u])
        /\ Keeps(th'[u])
    BY <1>1 DEF Free
  <2>2. UNCHANGED db
    BY DEF Boot, Serve, RecoverRule, Crash
  <2> QED
    BY <2>1, <2>2 DEF Sole, Keeps, db
<1>3. ASSUME NEW u \in Thread, NEW v \in Thread
      PROVE  Apart(th[u], th[v])'
  BY <1>1 DEF Apart, Free
<1> QED
  BY <1>2, <1>3 DEF SoleInv, Thread

\* Nodes come and go.  A number is given out again to a node that no row and
\* no thread names; a node that goes was not that of another row or thread.
LEMMA NodesSole ==
  ASSUME TInv, SInv, SoleInv, Nodes
  PROVE  SoleInv'
<1>1. UNCHANGED <<db, th>>
  BY DEF Nodes, SetStatus, CreateNode, DeleteNode
<1>2. ASSUME NEW i \in rules
      PROVE  HasNode(row[i].node)' =>
               HasNode(row[i].node) /\ table'[row[i].node] = table[row[i].node]
  <2>1. PICK n \in 0..MaxNode : n = row[i].node /\ n <= lastNode
    BY Facts, FullRowIsRow DEF Row
  <2>2. HasNode(n)' => HasNode(n) /\ table'[n] = table[n]
    BY <2>1, NodeStays
  <2> QED
    BY <1>1, <2>1, <2>2 DEF HasNode, db
<1>3. ASSUME NEW u \in Thread
      PROVE  Sole(th[u])' /\ Keeps(th[u])'
  <2>1. Sole(th[u]) /\ Keeps(th[u])
    BY DEF SoleInv
  <2>2. Sole(th[u])'
    BY <1>1, <1>2, <2>1 DEF Sole, HasNode, db
  <2> QED
    BY <1>1, <2>1, <2>2 DEF Keeps, db
<1>4. ASSUME NEW u \in Thread, NEW v \in Thread, u # v
      PROVE  Apart(th[u], th[v])'
  <2>1. PICK s : s = th[u] /\ th'[u] = s
    BY <1>1
  <2>2. PICK w : w = th[v] /\ th'[v] = w
    BY <1>1
  <2>3. CASE s.pc \in {"mtDelete", "ruleDel"} /\ Choosing(w)
    <3>1. /\ s.old.node \in 0..MaxNode /\ s.old.node <= lastNode
          /\ w.new.node \in 0..MaxNode /\ w.new.node <= lastNode
          /\ Bound(s.old.node, s.tab) /\ Apart(s, w)
      BY <1>4, <2>1, <2>2, <2>3, Facts, Parts
      DEF Past, SInv, HoldInv, Holds, SoleInv
    <3>2. PICK n \in 0..MaxNode : n = s.old.node /\ n <= lastNode
      BY <3>1
    <3>3. PICK m \in 0..MaxNode : m = w.new.node /\ m <= lastNode
      BY <3>1
    <3>4. HasNode(m)' => HasNode(m) /\ table'[m] = table[m]
      BY <3>3, NodeStays
    <3>5. ~ (~HasNode(n)' /\ HasNode(m)' /\ w.new.src = s.old.src
             /\ table'[m] = s.tab)
      <4> SUFFICES ASSUME ~HasNode(n)', HasNode(m)', w.new.src = s.old.src,
                          table'[m] = s.tab
                   PROVE  FALSE
        OBVIOUS
      <4>1. HasNode(m) /\ table[m] = s.tab
        BY <3>4
      <4>2. HasNode(n) /\ table[n] = s.tab
        BY <2>3, <3>1, <3>2, <3>3, <4>1 DEF Apart, Bound
      <4>3. n = m
        BY <4>1, <4>2 DEF TInv, NodeInv, HasNode
      <4> QED
        BY <4>3
    <3> QED
      BY <2>1, <2>2, <3>2, <3>3, <3>5 DEF Apart, HasNode
  <2>4. CASE ~(s.pc \in {"mtDelete", "ruleDel"} /\ Choosing(w))
    BY <2>1, <2>2, <2>4 DEF Apart, Choosing
  <2> QED
    BY <2>3, <2>4
<1> QED
  BY <1>1, <1>3, <1>4 DEF SoleInv, Thread

\* In a new installation nothing is removed.
LEMMA InitSole ==
  ASSUME Init
  PROVE  SoleInv
<1>1. \A t \in Thread : th[t].pc = "idle"
  BY DEF Init, IdleThread
<1> QED
  BY <1>1, FreePlaces, FreeSole DEF SoleInv

\* Every step keeps SoleInv.
LEMMA NextSole ==
  ASSUME TInv, SInv, SoleInv, [Next]_vars
  PROVE  SoleInv'
<1>1. ASSUME NEW r \in Req, Request(r) \/ Step(r) \/ Apply(r)
      PROVE  SoleInv'
  BY <1>1, Facts, RequestSole, StepSole, DelNodeSole, ChangeSole, ApplySole
  DEF Step
<1>2. CASE Recovery
  BY <1>2, Facts, OtherSole, ApplySole DEF Recovery
<1>3. CASE UNCHANGED vars
  BY <1>3 DEF vars, SoleInv, Sole, Keeps, Apart, Choosing, HasNode, Thread
<1> QED
  BY <1>1, <1>2, <1>3, OtherSole, NodesSole DEF Next

-----------------------------------------------------------------------------
(* Rules in the kernel.                                                      *)

\* A step of thread t that changes no row: other rules stay where they are,
\* and the thread's own rule is in the kernel, or the thread goes on with it,
\* or did not work on it.
LEMMA DueStep ==
  ASSUME TInv, DueInv, NEW t \in Thread, NEW r, th' = [th EXCEPT ![t] = r],
         UNCHANGED <<db, nodeVars, mgr, todo>>,
         \A i \in rules : i # th[t].id /\ HasNode(row[i].node) =>
           (Installed(i) => Installed(i)') /\ (i \in missed => i \in missed'),
         \A i \in rules : i = th[t].id /\ row[i].enabled /\ HasNode(row[i].node)
           => \/ Installed(i)' \/ (r.id = i /\ r.pc \in Working)
              \/ /\ th[t].pc \notin Working
                 /\ kernel' = kernel /\ missed' = missed
  PROVE  DueInv'
<1>1. th'[t] = r /\ \A u \in Thread : u # t => th'[u] = th[u]
  BY Facts
<1> SUFFICES ASSUME NEW i \in rules, row[i].enabled, HasNode(row[i].node)
             PROVE  Due(i)'
  BY DEF DueInv, HasNode, db, nodeVars
<1>2. Due(i)
  BY DEF DueInv
<1>3. CASE i # th[t].id
  BY <1>1, <1>2, <1>3 DEF Due, Thread
<1>4. CASE i = th[t].id
  <2>1. CASE Installed(i)'
    BY <2>1 DEF Due
  <2>2. CASE r.id = i /\ r.pc \in Working
    BY <1>1, <2>2 DEF Due, Thread
  <2>3. CASE th[t].pc \notin Working /\ kernel' = kernel /\ missed' = missed
    BY <1>1, <1>2, <2>3 DEF Due, Thread, Installed, db, nodeVars
  <2> QED
    BY <1>4, <2>1, <2>2, <2>3
<1> QED
  BY <1>3, <1>4

\* A request is taken, or goes on without touching the kernel.
LEMMA QuietDue ==
  ASSUME TInv, SInv, DueInv, NEW t \in Req,
         \/ Request(t) \/ Allocate(t) \/ CheckSource(t) \/ DelNode(t)
         \/ MtDelete(t) \/ AddNode(t)
  PROVE  DueInv'
<1> DEFINE s == th[t]
<1>1. s \in ThreadState /\ Form(s) /\ Holds(s, Firm) /\ t \in Thread
  BY Facts DEF SInv, HoldInv
<1>2. UNCHANGED <<db, nodeVars, mgr, todo>> /\ UNCHANGED <<kernel, missed>>
  BY DEF Request, CreateRequest, UpdateRequest, DeleteRequest, EnableRequest,
         DisableRequest, Read, Allocate, CheckSource, DelNode, MtDelete,
         AddNode, net, local, ctl
<1>3. PICK r : r = th'[t]
  OBVIOUS
<1>4. th' = [th EXCEPT ![t] = r]
  <2>a. ASSUME NEW x, th' = [th EXCEPT ![t] = x]
        PROVE  th' = [th EXCEPT ![t] = r]
    BY <1>1, <1>3, <2>a, Facts
  <2>b. ASSUME NEW o, NEW i, NEW l, NEW new, Read(t, o, i, l, new)
        PROVE  th' = [th EXCEPT ![t] = r]
    BY <2>a, <2>b DEF Read
  <2>1. CASE Request(t)
    <3>1. CASE CreateRequest(t)
      BY <2>a, <3>1 DEF CreateRequest
    <3>2. ASSUME NEW i \in Id,
                 \/ UpdateRequest(t, i) \/ DeleteRequest(t, i)
                 \/ EnableRequest(t, i) \/ DisableRequest(t, i)
          PROVE  th' = [th EXCEPT ![t] = r]
      BY <2>b, <3>2 DEF UpdateRequest, DeleteRequest, EnableRequest,
         DisableRequest
    <3> QED
      BY <2>1, <3>1, <3>2 DEF Request
  <2>2. CASE Allocate(t)
    BY <1>1, <1>3, <2>2, Facts DEF Allocate
  <2>3. CASE CheckSource(t)
    BY <1>1, <1>3, <2>3, Facts DEF CheckSource, Goto, Forget, Finish
  <2>4. CASE DelNode(t)
    BY <1>1, <1>3, <2>4, Facts DEF DelNode, Forget
  <2>5. CASE MtDelete(t)
    BY <1>1, <1>3, <2>5, Facts DEF MtDelete, Goto
  <2>6. CASE AddNode(t)
    BY <1>1, <1>3, <2>6, Facts DEF AddNode, Finish
  <2> QED
    BY <2>1, <2>2, <2>3, <2>4, <2>5, <2>6
<1>5. \A i \in rules : Installed(i) => Installed(i)'
  BY <1>2 DEF Installed, db, nodeVars
<1>6. CASE AddNode(t)
  <2>1. s.pc = "addNode"
    BY <1>6 DEF AddNode
  <2>2. row[s.id] = s.new
    BY <1>1, <2>1 DEF Holds, Adding
  <2>3. CASE HasNode(s.new.node)
    <3>1. r.pc = "mtAdd" /\ r.id = s.id
      BY <1>1, <1>3, <1>6, <2>3, Facts DEF AddNode, ThreadState
    <3>2. r.pc \in Working
      BY <3>1 DEF Working, Adding
    <3> QED
      BY <1>1, <1>2, <1>4, <1>5, <3>1, <3>2, DueStep
  <2>4. CASE ~HasNode(s.new.node)
    <3>1. \A i \in rules : i # th[t].id =>
            (Installed(i) => Installed(i)') /\ (i \in missed => i \in missed')
      BY <1>2, <1>5
    <3>2. \A i \in rules : ~(i = th[t].id /\ HasNode(row[i].node))
      BY <1>1, <2>2, <2>4
    <3> QED
      BY <1>1, <1>2, <1>4, <3>1, <3>2, DueStep
  <2> QED
    BY <2>3, <2>4
<1>7. CASE ~AddNode(t)
  <2>1. s.pc \in {"idle", "allocate", "checkSource", "delNode", "mtDelete"}
    BY <1>7 DEF Request, CreateRequest, UpdateRequest, DeleteRequest,
       EnableRequest, DisableRequest, Read, Accepts, Allocate, CheckSource,
       DelNode, MtDelete
  <2>2. s.pc \notin Working
    BY <2>1 DEF Working, Adding
  <2> QED
    BY <1>1, <1>2, <1>4, <1>5, <2>2, DueStep
<1> QED
  BY <1>6, <1>7

\* Only kernel rules with the address and the table of the thread's own row
\* go.
LEMMA RuleDelDue ==
  ASSUME TInv, SInv, SoleInv, DueInv, NEW t \in Req, RuleDel(t)
  PROVE  DueInv'
<1> DEFINE s == th[t]
<1>1. /\ s \in ThreadState /\ t \in Thread /\ s.pc = "ruleDel"
      /\ UNCHANGED <<db, nodeVars, mgr, todo>> /\ UNCHANGED missed
  BY Facts DEF RuleDel, ctl
<1>2. PICK r : r = th'[t]
  OBVIOUS
<1>3. th' = [th EXCEPT ![t] = r] /\ r.id = s.id /\ r.pc = AfterRemoval(t)
  BY <1>1, <1>2, Facts DEF RuleDel, Forget, ThreadState
<1>4. r.pc \in Working
  BY <1>3 DEF Working, AfterRemoval
<1>5. ASSUME NEW i \in rules, i # s.id, HasNode(row[i].node), Installed(i)
      PROVE  Installed(i)'
  <2>1. PICK k : k = [src |-> row[i].src, table |-> table[row[i].node],
                      prio |-> row[i].prio]
    OBVIOUS
  <2>2. k \in kernel /\ k.src = row[i].src /\ k.table = table[row[i].node]
    BY <1>5, <2>1 DEF Installed
  <2>3. Pair(k) # <<s.old.src, s.tab>>
    BY <1>1, <1>5, <2>2 DEF SoleInv, Sole, Pair
  <2>4. k \in kernel'
    BY <2>2, <2>3 DEF RuleDel
  <2> QED
    BY <1>1, <2>1, <2>4 DEF Installed, db, nodeVars
<1> QED
  BY <1>1, <1>3, <1>4, <1>5, DueStep

\* AddRule puts the rule into the kernel, with the number of its node, or the
\* kernel refuses it.
LEMMA ApplyDue ==
  ASSUME TInv, SInv, DueInv, NEW t \in Thread, Apply(t)
  PROVE  DueInv'
<1> DEFINE s == th[t]
<1>1. s \in ThreadState /\ Form(s) /\ Holds(s, Firm)
  BY Facts DEF SInv, HoldInv
<1>2. UNCHANGED <<db, nodeVars, mgr, todo>>
  BY DEF Apply, MtAdd, RuleAdd, ctl
<1>3. PICK r : r = th'[t]
  OBVIOUS
<1>4. CASE MtAdd(t)
  <2>1. /\ th' = [th EXCEPT ![t] = r] /\ r.id = s.id /\ r.pc = "ruleAdd"
        /\ UNCHANGED <<kernel, missed>>
    BY <1>1, <1>3, <1>4, Facts DEF MtAdd, Goto, ThreadState, local, ctl
  <2>2. \A i \in rules : Installed(i) => Installed(i)'
    BY <1>2, <2>1 DEF Installed, db, nodeVars
  <2>3. r.pc \in Working
    BY <2>1 DEF Working, Adding
  <2> QED
    BY <1>2, <2>1, <2>2, <2>3, DueStep
<1>5. CASE RuleAdd(t)
  <2>1. PICK k : k = [src |-> s.new.src, table |-> s.tab, prio |-> s.new.prio]
    OBVIOUS
  <2>2. /\ th' = [th EXCEPT ![t] = r] /\ s.pc = "ruleAdd"
        /\ kernel \subseteq kernel'
        /\ missed' = IF k \in kernel' THEN missed \ {s.id}
                     ELSE missed \cup ({s.id} \cap rules)
    BY <1>3, <1>5, <2>1, Facts DEF RuleAdd, Return, Finish
  <2>3. row[s.id] = s.new /\ Bound(s.new.node, s.tab)
    BY <1>1, <2>2 DEF Holds, Adding
  <2>4. \A i \in rules : Installed(i) => Installed(i)'
    BY <1>2, <2>2 DEF Installed, db, nodeVars
  <2>5. ASSUME NEW i \in rules, i # s.id, i \in missed
        PROVE  i \in missed'
    BY <2>2, <2>5
  <2>6. CASE k \in kernel'
    <3>1. ASSUME NEW i \in rules, i = s.id, HasNode(row[i].node)
          PROVE  Installed(i)'
      BY <1>2, <2>1, <2>3, <2>6, <3>1 DEF Bound, Installed, db, nodeVars
    <3> QED
      BY <1>2, <2>2, <2>4, <2>5, <3>1, DueStep
  <2>7. CASE k \notin kernel'
    <3>1. \A i \in rules : i \in missed \/ i = s.id => i \in missed'
      BY <2>2, <2>7
    <3> SUFFICES ASSUME NEW i \in rules, row[i].enabled,
                        HasNode(row[i].node)
                 PROVE  Due(i)'
      BY <1>2 DEF DueInv, HasNode, db, nodeVars
    <3>2. CASE i = s.id
      BY <3>1, <3>2 DEF Due
    <3>3. CASE i # s.id
      <4>1. Due(i) /\ \A u \in Thread : th[u].id = i => th'[u] = th[u]
        BY <2>2, <3>3, Facts DEF DueInv
      <4> QED
        BY <1>2, <2>4, <3>1, <4>1 DEF Due, Thread
    <3> QED
      BY <3>2, <3>3
  <2> QED
    BY <2>6, <2>7
<1> QED
  BY <1>4, <1>5 DEF Apply

\* The steps that change rows.  The row is written and the thread goes on to
\* put the rule into the kernel, or the rule is missed.
LEMMA RowDue ==
  ASSUME TInv, SInv, SoleInv, DueInv, NEW t \in Req,
         Insert(t) \/ Write(t) \/ Remove(t)
  PROVE  DueInv'
<1> DEFINE s == th[t]
<1>1. /\ s \in ThreadState /\ Form(s) /\ Holds(s, Firm) /\ Keeps(s)
      /\ t \in Thread
  BY Facts DEF SInv, HoldInv, SoleInv
<1>2. UNCHANGED nodeVars /\ UNCHANGED <<kernel, mgr, todo>>
      /\ \A j \in rules : j \in missed /\ j # s.id => j \in missed'
  BY DEF Insert, Write, Remove, net, local, ctl
<1>3. PICK r : r = th'[t]
  OBVIOUS
<1>4. \A u \in Thread : u # t => th'[u] = th[u]
  BY <1>1, Facts DEF Insert, Write, Remove, Forget, Finish
<1>5. ASSUME NEW i \in rules, row'[i] = row[i], i # s.id,
             row[i].enabled, HasNode(row[i].node)
      PROVE  Due(i)'
  <2>1. Due(i)
    BY <1>5 DEF DueInv
  <2> QED
    BY <1>2, <1>4, <1>5, <2>1 DEF Due, Thread, Installed, nodeVars
<1>6. ASSUME NEW i \in rules', r.id = i, r.pc = "addNode"
      PROVE  Due(i)'
  BY <1>1, <1>3, <1>6 DEF Due, Working, Adding, Thread
<1> SUFFICES ASSUME NEW i \in rules', row'[i].enabled, HasNode(row'[i].node)
             PROVE  Due(i)'
  BY <1>2 DEF DueInv, HasNode, nodeVars
<1>7. CASE Insert(t)
  <2>1. s.pc = "insert" /\ s.id = 0
    BY <1>1, <1>7 DEF Insert, Form
  <2>2. CASE i \in rules
    <3>1. row'[i] = row[i]
      <4>1. i # lastRule + 1
        BY <2>2, Facts, RulesAssumption DEF RulesAssumption, Id
      <4> QED
        BY <1>7, <2>2, <4>1, Facts DEF Insert, db
    <3>2. i # s.id
      BY <2>1, <2>2, Facts, RulesAssumption DEF Id, RulesAssumption
    <3> QED
      BY <1>5, <2>2, <3>1, <3>2
  <2>3. CASE i \notin rules
    <3>1. /\ i = lastRule' /\ lastRule' = lastRule + 1 /\ lastRule < MaxRule
          /\ row' = [row EXCEPT ![lastRule'] = s.new]
          /\ IF s.new.enabled
             THEN th' = [th EXCEPT ![t].pc = "addNode", ![t].id = lastRule']
             ELSE Finish(t)
      BY <1>7, <2>3 DEF Insert, db
    <3>2. i \in Id
      BY <3>1, Facts, RulesAssumption DEF RulesAssumption, Id
    <3>3. s.new.enabled
      BY <3>1, <3>2, Facts
    <3>4. r.id = i /\ r.pc = "addNode"
      BY <1>1, <1>3, <3>1, <3>3, Facts DEF ThreadState
    <3> QED
      BY <1>6, <3>4
  <2> QED
    BY <2>2, <2>3
<1>8. CASE Write(t)
  <2>1. /\ s.pc = "write" /\ s.id \in rules /\ rules' = rules
        /\ s.op \in {"update", "enable", "disable"}
    BY <1>1, <1>8 DEF Write, Holds, Form
  <2>2. CASE row' = row /\ missed' = missed \cup ({s.id} \cap rules)
    <3>1. CASE i # s.id
      BY <1>2, <1>5, <2>1, <2>2, <3>1
    <3>2. CASE i = s.id
      BY <2>1, <2>2, <3>2 DEF Due
    <3> QED
      BY <3>1, <3>2
  <2>3. CASE /\ row' = [row EXCEPT ![s.id] = s.new]
             /\ IF s.op = "enable" \/ (s.op = "update" /\ s.new.enabled)
                THEN Forget(t, "addNode") ELSE Finish(t)
    <3>1. CASE i # s.id
      BY <1>2, <1>5, <2>1, <2>3, <3>1, Facts
    <3>2. CASE i = s.id
      <4>1. s.new.enabled
        BY <2>1, <2>3, <3>2, Facts
      <4>2. s.op # "disable"
        BY <1>1, <2>1, <4>1 DEF Keeps
      <4>3. Forget(t, "addNode")
        BY <2>1, <2>3, <4>1, <4>2
      <4>4. r.id = i /\ r.pc = "addNode"
        BY <1>1, <1>3, <3>2, <4>3, Facts DEF Forget, ThreadState
      <4> QED
        BY <1>6, <4>4
    <3> QED
      BY <3>1, <3>2
  <2> QED
    BY <1>8, <2>2, <2>3 DEF Write
<1>9. CASE Remove(t)
  <2>1. i \in rules /\ i # s.id /\ row'[i] = row[i]
    BY <1>9, Facts DEF Remove
  <2> QED
    BY <1>5, <2>1
<1> QED
  BY <1>7, <1>8, <1>9

\* The recovery, crashes and nodes.
LEMMA OtherDue ==
  ASSUME TInv, DueInv,
         Boot \/ Serve \/ (\E i \in Id : RecoverRule(i)) \/ Crash \/ Nodes
  PROVE  DueInv'
<1>1. UNCHANGED db
  BY DEF Boot, Serve, RecoverRule, Crash, Nodes, SetStatus, CreateNode,
         DeleteNode
<1> SUFFICES ASSUME NEW i \in rules, row[i].enabled, HasNode(row[i].node)'
             PROVE  Due(i)'
  BY <1>1 DEF DueInv, HasNode, db
<1>2. Main \in Thread /\ row[i].node \in 0..MaxNode /\ row[i].node <= lastNode
      /\ lastNode \in Nat
  BY Facts, FullRowIsRow, RulesAssumption DEF Row, RulesAssumption
<1>3. CASE Boot
  BY <1>3 DEF Boot, Due
<1>4. CASE Crash
  BY <1>4 DEF Crash, Due
<1>5. CASE Serve
  <2>1. /\ UNCHANGED <<nodeVars, kernel, todo, missed>> /\ mgr = "recovering"
        /\ th[Main].pc = "recLoop"
        /\ \A u \in Thread : u # Main => th'[u] = th[u]
    BY <1>5, Facts DEF Serve, Finish, net, local, TInv, PhaseInv
  <2>2. Due(i)
    BY <1>1, <2>1 DEF DueInv, HasNode, nodeVars, db
  <2>3. "recLoop" \notin Working
    BY DEF Working, Adding
  <2> QED
    BY <1>1, <2>1, <2>2, <2>3 DEF Due, Installed, Thread, db, nodeVars
<1>6. ASSUME NEW j \in Id, RecoverRule(j)
      PROVE  Due(i)'
  <2>1. /\ UNCHANGED <<nodeVars, kernel, mgr>> /\ mgr = "recovering"
        /\ th[Main].pc = "recLoop"
        /\ \A u \in Thread : u # Main => th'[u] = th[u]
        /\ todo' = todo \ {j} /\ missed \subseteq missed'
    BY <1>6, Facts DEF RecoverRule, net, local, TInv, PhaseInv
  <2>2. Due(i)
    BY <1>1, <2>1 DEF DueInv, HasNode, nodeVars, db
  <2>3. "recLoop" \notin Working /\ "mtAdd" \in Working
    BY DEF Working, Adding
  <2>4. CASE i # j
    BY <1>1, <2>1, <2>2, <2>3, <2>4
    DEF Due, Installed, Thread, db, nodeVars
  <2>5. CASE i = j
    <3>1. CASE j \in missed'
      BY <2>5, <3>1 DEF Due
    <3>2. CASE th'[Main].id = j /\ th'[Main].pc = "mtAdd"
      BY <1>2, <2>3, <2>5, <3>2 DEF Due, Thread
    <3>3. CASE HasNode(row[j].node) /\ status[row[j].node] = "running"
      <4>1. PICK q : q = [IdleThread EXCEPT !.op = "recover", !.pc = "mtAdd",
                            !.id = j, !.new = row[j],
                            !.tab = table[row[j].node]]
        OBVIOUS
      <4>2. q.id = j /\ q.pc = "mtAdd"
        BY <4>1 DEF IdleThread
      <4>3. th' = [th EXCEPT ![Main] = q]
        BY <1>6, <3>3, <4>1 DEF RecoverRule
      <4> QED
        BY <1>2, <3>2, <4>2, <4>3, Facts
    <3> QED
      BY <1>6, <3>1, <3>3 DEF RecoverRule
  <2> QED
    BY <2>4, <2>5
<1>7. CASE Nodes
  <2>1. UNCHANGED <<kernel, ctl, th>>
    BY <1>7 DEF Nodes, SetStatus, CreateNode, DeleteNode, net, local
  <2>2. HasNode(row[i].node) /\ table'[row[i].node] = table[row[i].node]
    <3>1. PICK n : n = row[i].node
      OBVIOUS
    <3>2. HasNode(n)'
      BY <1>1, <3>1 DEF HasNode, db
    <3> QED
      BY <1>2, <1>7, <3>1, <3>2, NodeStays
  <2>3. Due(i)
    BY <2>2 DEF DueInv
  <2> QED
    BY <1>1, <2>1, <2>2, <2>3 DEF Due, Installed, Thread, db, ctl
<1> QED
  BY <1>3, <1>4, <1>5, <1>6, <1>7

\* Every step keeps DueInv, if no two requests are on one rule.
LEMMA NextDue ==
  ASSUME TInv, SInv, SoleInv, DueInv, [Next]_vars
  PROVE  DueInv'
<1>1. ASSUME NEW r \in Req, Request(r) \/ Step(r) \/ Apply(r)
      PROVE  DueInv'
  BY <1>1, Facts, QuietDue, RuleDelDue, RowDue, ApplyDue DEF Step
<1>2. CASE Recovery
  BY <1>2, Facts, OtherDue, ApplyDue DEF Recovery
<1>3. CASE UNCHANGED vars
  BY <1>3 DEF vars, DueInv, Due, Installed, HasNode, Thread
<1> QED
  BY <1>1, <1>2, <1>3, OtherDue DEF Next

\* If clients never have two requests in flight on one rule, an enabled rule of
\* an existing node that nobody is working on is in the kernel, whatever has
\* crashed and failed and though other rules may have its address, unless the
\* last attempt to put it there was refused, an UPDATE of it failed after it
\* had been taken away, or the recovery left it out.
THEOREM EnabledInstalled ==
  ASSUME Serial \/ OneClient
  PROVE  Spec => []InstalledUnlessMissed
<1>1. Init => TInv /\ SInv /\ SoleInv /\ DueInv
  BY InitTypes, InitHolds, InitSole DEF Init, DueInv
<1>2. TInv /\ SInv /\ SoleInv /\ DueInv /\ [Next]_vars
        => TInv' /\ SInv' /\ SoleInv' /\ DueInv'
  BY NextTypes, NextHolds, NextSole, NextDue
<1>3. TInv /\ DueInv => InstalledUnlessMissed
  <2> SUFFICES ASSUME TInv, DueInv, NEW i \in Id, Settled(i), row[i].enabled,
                      HasNode(row[i].node)
               PROVE  Installed(i) \/ i \in missed
    BY DEF InstalledUnlessMissed
  <2>1. Due(i) /\ mgr = "serving" /\ todo = {}
    BY DEF Settled, DueInv, TInv, PhaseInv
  <2> QED
    BY <2>1 DEF Due, Settled
<1> QED
  BY <1>1, <1>2, <1>3, PTL DEF Spec
=============================================================================
