------------------------- MODULE RoutingRulesProofs -------------------------
(***************************************************************************)
(* Theorems about RoutingRules for every number of requests, rules, nodes,  *)
(* addresses, priorities and crashes.                                       *)
(***************************************************************************)
EXTENDS RoutingRules, FiniteSetTheorems, FunctionTheorems, TLAPS

-----------------------------------------------------------------------------
(* The inductive invariant: first what needs no assumption about clients.   *)

\* A row that a handler has completed.
FullRow == [src : Src, node : Node, prio : 1..MaxPrio, enabled : BOOLEAN]

Removing == {"delNode", "mtDelete", "ruleDel"}

Adding == {"addNode", "mtAdd", "ruleAdd"}

\* A thread in type: which operation is where, that it has an id from the
\* moment its rule has a row, and complete rows where it uses them.
Form(s) ==
  /\ s \in ThreadState
  /\ s.id = 0 <=> s.pc \in {"idle", "allocate", "insert", "recLoop"}
  /\ s.pc \in {"allocate", "insert"} =>
       s.op = "create" /\ s.new.src \in Src /\ s.new.node \in Node
  /\ s.pc = "checkSource" => s.op = "update"
  /\ s.pc \in Removing => s.op \in {"update", "delete", "disable"}
  /\ s.pc = "write" => s.op \in {"update", "enable", "disable"}
  /\ s.pc = "remove" => s.op = "delete"
  /\ s.pc \in {"insert", "checkSource", "write"} \cup Adding
       => s.new \in FullRow
  /\ s.pc \in Removing /\ s.op # "delete" => s.new \in FullRow
  /\ s.pc \in {"checkSource"} \cup Removing => s.old \in FullRow
  /\ s.pc \in {"mtAdd", "ruleAdd"} => s.tab \in Table

\* No thread knows a node or a rule that there has never been.
Past(s) ==
  s.old.node <= lastNode /\ s.new.node <= lastNode /\ s.id <= lastRule

RowInv ==
  /\ rules \subseteq Id /\ row \in [Id -> Row] /\ lastRule \in 0..MaxRule
  /\ \A i \in rules :
       row[i] \in FullRow /\ row[i].node <= lastNode /\ i <= lastRule
  /\ \A i, j \in rules :
       row[i].src = row[j].src /\ row[i].node = row[j].node => i = j

\* Table numbers belong to one node each.
NodeInv ==
  /\ status \in [Node -> {"none", "idle", "running"}]
  /\ lastNode \in 0..MaxNode
  /\ table \in [Node -> 0..lastNode] /\ orphaned \subseteq Table
  /\ \A n \in Node : HasNode(n) => n <= lastNode /\ table[n] # 0
  /\ \A n, m \in Node : HasNode(n) /\ HasNode(m) /\ table[n] = table[m] => n = m

NetInv ==
  /\ kernel \subseteq KernelRule /\ left \subseteq Src \X Table
  /\ router \subseteq Entry /\ stuck \subseteq Entry
  /\ missed \subseteq Id

\* The recovery is alone.
PhaseInv ==
  /\ mgr \in {"down", "recovering", "serving"} /\ crashes \in 0..MaxCrash
  /\ todo \subseteq {i \in rules : row[i].enabled}
  /\ mgr # "recovering" => todo = {} /\ th[Main].pc = "idle"
  /\ mgr # "serving" => \A r \in Req : th[r].pc = "idle"
  /\ th[Main].pc \in {"idle", "recLoop", "mtAdd", "ruleAdd"}

ThreadInv ==
  th \in [Thread -> ThreadState] /\ \A t \in Thread : Form(th[t]) /\ Past(th[t])

TInv == RowInv /\ NodeInv /\ NetInv /\ PhaseInv /\ ThreadInv

-----------------------------------------------------------------------------
(* Facts about numbers and states.                                           *)

\* A set of numbers that is not empty and has a bound has a greatest one:
\* else what lies below some member would be mapped into itself, one to one
\* and without 0, by adding 1.
LEMMA MaxOfBounded ==
  ASSUME NEW N \in Nat, NEW S \in SUBSET (0..N), S # {}
  PROVE  MaxOf(S) \in S /\ \A y \in S : y <= MaxOf(S)
<1> DEFINE D == {y \in 0..N : \E x \in S : y <= x}
           f == [y \in D |-> y + 1]
<1>1. SUFFICES ASSUME \A x \in S : \E y \in S : ~(y <= x)
               PROVE  FALSE
  BY DEF MaxOf
<1>2. f \in Injection(D, D)
  <2>1. ASSUME NEW y \in D
        PROVE  y + 1 \in D
    <3>1. PICK x \in S : y <= x
      OBVIOUS
    <3>2. PICK z \in S : ~(z <= x)
      BY <1>1
    <3> QED
      BY <3>1, <3>2
  <2>2. f \in [D -> D]
    BY <2>1
  <2>3. \A a, b \in D : f[a] = f[b] => a = b
    OBVIOUS
  <2> QED
    BY <2>2, <2>3, Fun_IsInj
<1>3. IsFiniteSet(D)
  <2>1. IsFiniteSet(0..N) /\ D \in SUBSET (0..N)
    BY FS_Interval
  <2> HIDE DEF D
  <2> QED
    BY <2>1, FS_Subset
<1>4. 0 \in D
  <2>1. PICK x \in S : TRUE
    OBVIOUS
  <2>2. 0 <= x /\ 0 \in 0..N
    OBVIOUS
  <2> QED
    BY <2>1, <2>2
<1>5. \A y \in D : f[y] # 0
  OBVIOUS
<1> HIDE DEF D, f
<1>6. f \in Surjection(D, D)
  BY <1>2, <1>3, FS_Injection
<1>7. \A z \in D : \E y \in D : f[y] = z
  BY <1>6, Fun_SurjectionProperties
<1> QED
  BY <1>4, <1>5, <1>7

\* The facts of TInv about one thread and about one row.
LEMMA Facts ==
  ASSUME TInv
  PROVE  /\ th \in [Thread -> ThreadState] /\ rules \subseteq Id
         /\ row \in [Id -> Row] /\ lastRule \in 0..MaxRule
         /\ lastNode \in 0..MaxNode
         /\ \A i \in rules : row[i] \in FullRow /\ row[i].node <= lastNode
                             /\ i <= lastRule
         /\ \A t \in Thread : /\ th[t] \in ThreadState /\ Form(th[t])
                              /\ Past(th[t])
         /\ Main \in Thread /\ \A r \in Req : r \in Thread /\ r # Main
  BY RulesAssumption
  DEF TInv, RowInv, NodeInv, ThreadInv, Thread, RulesAssumption

\* The parts of a thread.
LEMMA Parts ==
  ASSUME NEW s \in ThreadState
  PROVE  /\ s.id \in 0..MaxRule /\ s.old \in Row /\ s.new \in Row
         /\ s.tab \in 0..MaxNode /\ s.pc \in Label
         /\ s.old.node \in 0..MaxNode /\ s.new.node \in 0..MaxNode
  BY DEF ThreadState, Row

\* A complete row is a row of a node.
LEMMA FullRowIsRow ==
  ASSUME NEW r \in FullRow
  PROVE  /\ r \in Row /\ r.src \in Src /\ r.node \in Node
         /\ r.prio \in 1..MaxPrio /\ r.prio > 0 /\ r.enabled \in BOOLEAN
  BY RulesAssumption DEF FullRow, Row, Node, RulesAssumption

\* A thread that does nothing is in type.
LEMMA IdleForm ==
  ASSUME TInv
  PROVE  /\ IdleThread \in ThreadState /\ Form(IdleThread)
         /\ Past(IdleThread) /\ BlankRow \in Row
         /\ IdleThread.pc = "idle" /\ IdleThread.id = 0
<1>1. 0 \in 0..MaxRule /\ 0 \in 0..MaxNode /\ 0 \in 0..MaxPrio
      /\ 0 <= lastNode /\ 0 <= lastRule
  BY Facts, RulesAssumption DEF RulesAssumption
<1>2. BlankRow \in Row /\ BlankRow.node = 0
  BY <1>1 DEF BlankRow, Row
<1>3. IdleThread \in ThreadState
  BY <1>1, <1>2 DEF IdleThread, ThreadState, Label
<1>4. IdleThread.pc = "idle" /\ IdleThread.id = 0 /\ IdleThread.op = "none"
      /\ IdleThread.old = BlankRow /\ IdleThread.new = BlankRow
  BY DEF IdleThread
<1> QED
  BY <1>1, <1>2, <1>3, <1>4 DEF Form, Past, Removing, Adding

-----------------------------------------------------------------------------
(* Types.                                                                    *)

\* A step of thread t that changes no row and no node.
LEMMA ThreadStep ==
  ASSUME TInv, NEW t \in Thread, NEW r, th' = [th EXCEPT ![t] = r],
         Form(r), Past(r), UNCHANGED <<db, nodeVars, mgr, crashes, todo>>,
         NetInv',
         t # Main => mgr = "serving" \/ r.pc = "idle",
         t = Main => /\ r.pc \in {"idle", "recLoop", "mtAdd", "ruleAdd"}
                     /\ mgr = "recovering" \/ r.pc = "idle"
  PROVE  TInv'
<1>1. r \in ThreadState
  BY DEF Form
<1>2. th' \in [Thread -> ThreadState] /\ th'[t] = r
      /\ \A u \in Thread \ {t} : th'[u] = th[u]
  BY <1>1, Facts
<1>3. RowInv' /\ NodeInv'
  BY DEF TInv, RowInv, NodeInv, HasNode, db, nodeVars
<1>4. NetInv'
  OBVIOUS
<1>5. PhaseInv'
  <2>1. mgr' # "recovering" => th'[Main].pc = "idle"
    BY <1>2, Facts DEF TInv, PhaseInv
  <2>2. ASSUME mgr' # "serving", NEW q \in Req
        PROVE  th'[q].pc = "idle"
    BY <1>2, <2>2, Facts DEF TInv, PhaseInv
  <2>3. th'[Main].pc \in {"idle", "recLoop", "mtAdd", "ruleAdd"}
    BY <1>2, Facts DEF TInv, PhaseInv
  <2> QED
    BY <2>1, <2>2, <2>3 DEF TInv, PhaseInv, db
<1>6. ThreadInv'
  <2> SUFFICES ASSUME NEW u \in Thread
               PROVE  Form(th'[u]) /\ Past(th[u])'
    BY <1>2 DEF ThreadInv, Form, ThreadState, Row, Label, Table, Id,
                Node, Removing, Adding, FullRow
  <2>1. CASE u = t
    BY <1>2, <2>1 DEF Past, db, nodeVars
  <2>2. CASE u # t
    BY <1>2, <2>2, Facts DEF Past, db, nodeVars
  <2> QED
    BY <2>1, <2>2
<1> QED
  BY <1>3, <1>4, <1>5, <1>6 DEF TInv

\* The network and the history of a step that leaves them alone.
LEMMA SameNet ==
  ASSUME TInv, UNCHANGED <<net, missed>>
  PROVE  NetInv'
  BY DEF TInv, NetInv, net, local, remote, Entry, KernelRule, Table, Id

\* The handlers that read the row first.
LEMMA ReadTypes ==
  ASSUME TInv, NEW r \in Req, NEW i \in Id, NEW o, NEW l, NEW new,
         Read(r, o, i, l, new), new \in Row, new.node <= lastNode,
         \/ o = "update" /\ l = "checkSource" /\ new \in FullRow
         \/ o = "enable" /\ l = "write" /\ new \in FullRow
         \/ o = "disable" /\ l = "delNode" /\ new \in FullRow
         \/ o = "delete" /\ l \in {"delNode", "remove"}
  PROVE  TInv'
<1> DEFINE s == [op |-> o, pc |-> l, id |-> i, old |-> row[i], new |-> new,
                 tab |-> 0]
<1>1. /\ i \in rules /\ mgr = "serving" /\ r \in Thread /\ r # Main
      /\ row[i] \in FullRow /\ row[i] \in Row /\ row[i].node <= lastNode
      /\ i <= lastRule
  BY Facts, FullRowIsRow DEF Read, Accepts
<1>2. i \in 0..MaxRule /\ i # 0 /\ 0 \in 0..MaxNode
  BY RulesAssumption DEF RulesAssumption, Id
<1>3. s \in ThreadState
  BY <1>1, <1>2 DEF ThreadState, Label
<1>4. /\ s.op = o /\ s.pc = l /\ s.id = i /\ s.old = row[i] /\ s.new = new
      /\ s.tab = 0
  OBVIOUS
<1>5. th' = [th EXCEPT ![r] = s] /\ UNCHANGED <<db, nodeVars, net, ctl>>
  BY DEF Read
<1> HIDE DEF s
<1>6. Form(s)
  BY <1>1, <1>2, <1>3, <1>4 DEF Form, Removing, Adding
<1>7. Past(s)
  BY <1>1, <1>4 DEF Past
<1>8. NetInv'
  BY <1>5, SameNet DEF ctl
<1> QED
  BY <1>1, <1>5, <1>6, <1>7, <1>8, ThreadStep DEF ctl

\* A thread takes a request.
LEMMA RequestTypes ==
  ASSUME TInv, NEW r \in Req, Request(r)
  PROVE  TInv'
<1>1. /\ lastNode \in 0..MaxNode /\ lastRule \in 0..MaxRule
      /\ 1..lastNode \subseteq Node /\ \A n \in 1..lastNode : n <= lastNode
      /\ 0..MaxPrio \ {0} = 1..MaxPrio /\ Prios \subseteq 0..MaxPrio
      /\ 0 <= lastNode
  BY Facts, RulesAssumption DEF RulesAssumption, Node
<1>2. CASE CreateRequest(r)
  <2>1. PICK s \in Src, n \in 1..lastNode, p \in Prios, en \in BOOLEAN :
          th' = [th EXCEPT ![r] = [IdleThread EXCEPT
                   !.op = "create", !.pc = "allocate",
                   !.new = [src |-> s, node |-> n, prio |-> p,
                            enabled |-> en]]]
    BY <1>2 DEF CreateRequest
  <2> DEFINE new == [src |-> s, node |-> n, prio |-> p, enabled |-> en]
             q == [IdleThread EXCEPT !.op = "create", !.pc = "allocate",
                                     !.new = new]
  <2>2. new \in Row /\ new.src \in Src /\ new.node \in Node
        /\ new.node <= lastNode
    BY <1>1, RulesAssumption DEF Row, RulesAssumption, Node
  <2> HIDE DEF new
  <2>3. q \in ThreadState
    BY <2>2, IdleForm DEF ThreadState, Label
  <2>4. /\ q.op = "create" /\ q.pc = "allocate" /\ q.id = 0 /\ q.new = new
        /\ q.old = BlankRow
    BY DEF IdleThread
  <2>5. th' = [th EXCEPT ![r] = q] /\ UNCHANGED <<db, nodeVars, net, ctl>>
        /\ mgr = "serving"
    BY <1>2, <2>1 DEF CreateRequest, Accepts, new
  <2> HIDE DEF q
  <2>6. Form(q)
    BY <2>2, <2>3, <2>4 DEF Form, Removing, Adding
  <2>7. Past(q)
    BY <1>1, <2>2, <2>4 DEF Past, BlankRow
  <2>8. NetInv'
    BY <2>5, SameNet DEF ctl
  <2> QED
    BY <2>5, <2>6, <2>7, <2>8, Facts, ThreadStep DEF ctl
<1>3. ASSUME NEW i \in Id, UpdateRequest(r, i)
      PROVE  TInv'
  <2>1. PICK s \in Src, n \in 1..lastNode, p \in Prios, en \in BOOLEAN :
          Read(r, "update", i, "checkSource",
               [src |-> s, node |-> n,
                prio |-> IF p > 0 THEN p ELSE row[i].prio, enabled |-> en])
    BY <1>3 DEF UpdateRequest
  <2> DEFINE x == IF p > 0 THEN p ELSE row[i].prio
             new == [src |-> s, node |-> n, prio |-> x, enabled |-> en]
  <2>2. x \in 1..MaxPrio
    <3>1. row[i].prio \in 1..MaxPrio
      BY <2>1, Facts, FullRowIsRow DEF Read
    <3>2. p \in 0..MaxPrio
      BY <1>1
    <3> QED
      BY <3>1, <3>2
  <2> HIDE DEF x
  <2>3. new \in FullRow /\ new.node <= lastNode
    BY <1>1, <2>2 DEF FullRow
  <2>4. Read(r, "update", i, "checkSource", new)
    BY <2>1 DEF x
  <2> HIDE DEF new
  <2> QED
    BY <2>3, <2>4, FullRowIsRow, ReadTypes
<1>4. ASSUME NEW i \in Id, DeleteRequest(r, i)
      PROVE  TInv'
  <2>1. BlankRow \in Row /\ BlankRow.node <= lastNode
    BY <1>1, IdleForm DEF BlankRow
  <2> QED
    BY <1>4, <2>1, ReadTypes DEF DeleteRequest
<1>5. ASSUME NEW i \in Id, NEW en \in BOOLEAN, i \in rules
      PROVE  /\ [row[i] EXCEPT !.enabled = en] \in FullRow
             /\ [row[i] EXCEPT !.enabled = en].node <= lastNode
  <2>1. row[i] \in FullRow /\ row[i].node <= lastNode
    BY <1>5, Facts
  <2> QED
    BY <2>1 DEF FullRow
<1>6. ASSUME NEW i \in Id, EnableRequest(r, i)
      PROVE  TInv'
  <2> DEFINE new == [row[i] EXCEPT !.enabled = TRUE]
  <2>1. Read(r, "enable", i, "write", new) /\ i \in rules
    BY <1>6 DEF EnableRequest, Read
  <2>2. new \in FullRow /\ new.node <= lastNode
    BY <1>5, <2>1
  <2> HIDE DEF new
  <2> QED
    BY <2>1, <2>2, FullRowIsRow, ReadTypes
<1>7. ASSUME NEW i \in Id, DisableRequest(r, i)
      PROVE  TInv'
  <2> DEFINE new == [row[i] EXCEPT !.enabled = FALSE]
  <2>1. Read(r, "disable", i, "delNode", new) /\ i \in rules
    BY <1>7 DEF DisableRequest, Read
  <2>2. new \in FullRow /\ new.node <= lastNode
    BY <1>5, <2>1
  <2> HIDE DEF new
  <2> QED
    BY <2>1, <2>2, FullRowIsRow, ReadTypes
<1> QED
  BY <1>2, <1>3, <1>4, <1>6, <1>7 DEF Request

\* Threads other than Main move only while the Manager serves.
LEMMA Busy ==
  ASSUME TInv, NEW r \in Req, th[r].pc # "idle"
  PROVE  mgr = "serving" /\ r \in Thread /\ r # Main
  BY Facts DEF TInv, PhaseInv

\* A thread goes on to label l with what it has.
LEMMA GotoTypes ==
  ASSUME TInv, NEW t \in Thread, NEW l \in Label, Goto(t, l),
         Form([th[t] EXCEPT !.pc = l]),
         UNCHANGED <<db, nodeVars, mgr, crashes, todo>>,
         NetInv',
         t # Main => mgr = "serving",
         t = Main => mgr = "recovering" /\ l \in {"mtAdd", "ruleAdd"}
  PROVE  TInv'
<1> DEFINE r == [th[t] EXCEPT !.pc = l]
<1>1. th[t] \in ThreadState /\ Past(th[t])
  BY Facts
<1>2. r.pc = l /\ r.old = th[t].old /\ r.new = th[t].new /\ r.id = th[t].id
  BY <1>1 DEF ThreadState
<1>3. th' = [th EXCEPT ![t] = r]
  BY Facts DEF Goto
<1> HIDE DEF r
<1>4. Past(r)
  BY <1>1, <1>2 DEF Past
<1>5. Form(r)
  BY DEF r
<1> QED
  BY <1>2, <1>3, <1>4, <1>5, ThreadStep

\* A thread goes on to label l and forgets the old row.
LEMMA ForgetTypes ==
  ASSUME TInv, NEW t \in Req, NEW l \in {"write", "remove", "addNode"},
         Forget(t, l), mgr = "serving",
         th[t].id # 0,
         l = "write" => /\ th[t].op \in {"update", "enable", "disable"}
                        /\ th[t].new \in FullRow,
         l = "remove" => th[t].op = "delete",
         l = "addNode" => th[t].new \in FullRow,
         UNCHANGED <<db, nodeVars, mgr, crashes, todo>>,
         NetInv'
  PROVE  TInv'
<1> DEFINE r == [th[t] EXCEPT !.pc = l, !.old = BlankRow, !.tab = 0]
<1>1. th[t] \in ThreadState /\ Past(th[t]) /\ t \in Thread /\ t # Main
  BY Facts
<1>2. BlankRow \in Row /\ 0 \in 0..MaxNode /\ l \in Label
      /\ BlankRow.node <= lastNode
  BY IdleForm, Facts, RulesAssumption DEF RulesAssumption, Label, BlankRow
<1>3. r \in ThreadState
  BY <1>1, <1>2 DEF ThreadState
<1>4. /\ r.pc = l /\ r.old = BlankRow /\ r.new = th[t].new /\ r.id = th[t].id
      /\ r.op = th[t].op
  BY <1>1 DEF ThreadState
<1>5. th' = [th EXCEPT ![t] = r]
  BY Facts DEF Forget
<1> HIDE DEF r
<1>6. Past(r)
  BY <1>1, <1>2, <1>4 DEF Past
<1>7. Form(r)
  BY <1>3, <1>4 DEF Form, Removing, Adding
<1> QED
  BY <1>1, <1>4, <1>5, <1>6, <1>7, ThreadStep

\* A thread ends its request.
LEMMA FinishTypes ==
  ASSUME TInv, NEW t \in Req, Finish(t),
         UNCHANGED <<db, nodeVars, mgr, crashes, todo>>,
         NetInv'
  PROVE  TInv'
  BY IdleForm, Facts, ThreadStep DEF Finish

\* The first half of AddRule, and the handler's look at the table number.
LEMMA LookTypes ==
  ASSUME TInv, NEW t \in Req, NEW l \in {"mtDelete", "mtAdd"}, NEW n \in Node,
         HasNode(n),
         th[t].pc = IF l = "mtDelete" THEN "delNode" ELSE "addNode",
         th' = [th EXCEPT ![t].pc = l, ![t].tab = table[n]],
         UNCHANGED <<db, nodeVars, net, ctl>>
  PROVE  TInv'
<1> DEFINE r == [th[t] EXCEPT !.pc = l, !.tab = table[n]]
<1>1. /\ th[t] \in ThreadState /\ Past(th[t]) /\ Form(th[t]) /\ mgr = "serving"
      /\ t \in Thread /\ t # Main
  BY Facts, Busy
<1>2. /\ table[n] \in 0..MaxNode /\ table[n] # 0 /\ table[n] \in Table
      /\ l \in Label
  <2>1. table[n] \in 0..lastNode /\ table[n] # 0 /\ lastNode \in 0..MaxNode
    BY DEF TInv, NodeInv
  <2> QED
    BY <2>1, RulesAssumption DEF Label, Table, RulesAssumption
<1>3. r \in ThreadState
  BY <1>1, <1>2 DEF ThreadState
<1>4. /\ r.pc = l /\ r.old = th[t].old /\ r.new = th[t].new /\ r.id = th[t].id
      /\ r.op = th[t].op /\ r.tab = table[n]
  BY <1>1 DEF ThreadState
<1>5. th' = [th EXCEPT ![t] = r]
  BY Facts
<1> HIDE DEF r
<1>6. Past(r)
  BY <1>1, <1>4 DEF Past
<1>7. Form(r)
  BY <1>1, <1>2, <1>3, <1>4 DEF Form, Removing, Adding
<1>8. UNCHANGED <<db, nodeVars, mgr, crashes, todo, net, missed>>
  BY DEF ctl
<1> QED
  BY <1>1, <1>4, <1>5, <1>6, <1>7, <1>8, ThreadStep, SameNet

\* The steps of a request that leave the table of rules alone.
LEMMA StepTypes ==
  ASSUME TInv, NEW t \in Req,
         CheckSource(t) \/ DelNode(t) \/ MtDelete(t) \/ RuleDel(t) \/ AddNode(t)
  PROVE  TInv'
<1> DEFINE s == th[t]
<1>1. s \in ThreadState /\ Form(s) /\ Past(s) /\ t \in Thread /\ t # Main
  BY Facts
<1>2. ASSUME s.pc # "idle"
      PROVE  mgr = "serving"
  BY <1>2, Busy
<1>3. ASSUME s.pc \in {"checkSource"} \cup Removing
      PROVE  /\ s.id # 0
             /\ AfterRemoval(t) = "write" =>
                  s.op \in {"update", "enable", "disable"} /\ s.new \in FullRow
             /\ AfterRemoval(t) = "remove" => s.op = "delete"
             /\ AfterRemoval(t) \in {"write", "remove"}
  BY <1>1, <1>3 DEF Form, Removing, AfterRemoval
<1>4. CASE CheckSource(t)
  <2>1. /\ s.pc = "checkSource" /\ UNCHANGED <<db, nodeVars, net, ctl>>
        /\ UNCHANGED <<db, nodeVars, mgr, crashes, todo, net, missed>>
    BY <1>4 DEF CheckSource, ctl
  <2>2. /\ s.op = "update" /\ s.new \in FullRow /\ s.old \in FullRow
        /\ s.id # 0 /\ mgr = "serving"
    BY <1>1, <1>2, <2>1 DEF Form
  <2>3. CASE Finish(t)
    BY <2>1, <2>3, FinishTypes, SameNet
  <2>4. CASE Goto(t, "delNode")
    <3> DEFINE r == [s EXCEPT !.pc = "delNode"]
    <3>1. r \in ThreadState
      BY <1>1 DEF ThreadState, Label
    <3>2. r.pc = "delNode" /\ r.op = s.op /\ r.id = s.id /\ r.new = s.new
          /\ r.old = s.old /\ r.tab = s.tab
      BY <1>1 DEF ThreadState
    <3> HIDE DEF r
    <3>3. Form(r)
      BY <2>2, <3>1, <3>2 DEF Form, Removing, Adding
    <3>4. "delNode" \in Label /\ Form([th[t] EXCEPT !.pc = "delNode"])
      BY <3>3 DEF Label, r
    <3> QED
      BY <1>1, <2>1, <2>2, <2>4, <3>4, GotoTypes, SameNet
  <2>5. CASE Forget(t, "write")
    BY <2>1, <2>2, <2>5, ForgetTypes, SameNet
  <2> QED
    BY <1>4, <2>3, <2>4, <2>5 DEF CheckSource
<1>5. CASE DelNode(t)
  <2>1. /\ s.pc = "delNode" /\ UNCHANGED <<db, nodeVars, local, router, ctl>>
        /\ UNCHANGED <<db, nodeVars, mgr, crashes, todo>>
    BY <1>5 DEF DelNode, ctl
  <2>2. CASE HasNode(s.old.node)
    BY <1>5, <2>1, <2>2, LookTypes DEF DelNode, HasNode, net, remote
  <2>3. CASE ~HasNode(s.old.node)
    <3>1. Forget(t, AfterRemoval(t))
      BY <1>5, <2>3 DEF DelNode
    <3>2. s.pc \in {"checkSource"} \cup Removing
      BY <2>1 DEF Removing
    <3>3. stuck' = stuck \cup Entries(s.id)
      BY <1>5, <2>3 DEF DelNode
    <3>4. NetInv'
      BY <2>1, <3>3
      DEF TInv, NetInv, local, ctl, Entries, KernelRule, Table, Id, Entry
    <3> QED
      BY <1>2, <1>3, <2>1, <3>1, <3>2, <3>4, ForgetTypes
  <2> QED
    BY <2>2, <2>3
<1>6. CASE MtDelete(t)
  <2>1. /\ s.pc = "mtDelete" /\ UNCHANGED <<db, nodeVars, local, ctl>>
        /\ UNCHANGED <<db, nodeVars, mgr, crashes, todo>>
        /\ Goto(t, "ruleDel")
    BY <1>6 DEF MtDelete, ctl
  <2>2. router' \subseteq router /\ stuck' \subseteq router'
    BY <1>6 DEF MtDelete
  <2>3. NetInv'
    BY <2>1, <2>2
    DEF TInv, NetInv, local, ctl, KernelRule, Table, Id, Entry
  <2> DEFINE r == [s EXCEPT !.pc = "ruleDel"]
  <2>4. r \in ThreadState
    BY <1>1 DEF ThreadState, Label
  <2>5. r.pc = "ruleDel" /\ r.op = s.op /\ r.id = s.id /\ r.new = s.new
        /\ r.old = s.old /\ r.tab = s.tab
    BY <1>1 DEF ThreadState
  <2> HIDE DEF r
  <2>6. Form(r)
    BY <1>1, <2>1, <2>4, <2>5 DEF Form, Removing, Adding
  <2>7. "ruleDel" \in Label /\ Form([th[t] EXCEPT !.pc = "ruleDel"])
    BY <2>6 DEF Label, r
  <2> QED
    BY <1>1, <1>2, <2>1, <2>3, <2>7, GotoTypes
<1>7. CASE RuleDel(t)
  <2>1. /\ s.pc = "ruleDel" /\ UNCHANGED <<db, nodeVars, remote, ctl>>
        /\ UNCHANGED <<db, nodeVars, mgr, crashes, todo>>
        /\ Forget(t, AfterRemoval(t)) /\ kernel' \subseteq kernel
        /\ left' \subseteq left \cup {Pair(k) : k \in kernel}
    BY <1>7 DEF RuleDel, ctl
  <2>2. NetInv'
    <3>1. \A k \in kernel : Pair(k) \in Src \X Table
      BY DEF TInv, NetInv, Pair, KernelRule
    <3> QED
      BY <2>1, <3>1
      DEF TInv, NetInv, remote, ctl, KernelRule, Table, Id, Entry
  <2>3. s.pc \in {"checkSource"} \cup Removing
    BY <2>1 DEF Removing
  <2> QED
    BY <1>2, <1>3, <2>1, <2>2, <2>3, ForgetTypes
<1>8. CASE AddNode(t)
  <2>1. /\ s.pc = "addNode" /\ UNCHANGED <<db, nodeVars, net, ctl>>
        /\ UNCHANGED <<db, nodeVars, mgr, crashes, todo, net, missed>>
    BY <1>8 DEF AddNode, ctl
  <2>2. CASE HasNode(s.new.node)
    BY <1>8, <2>1, <2>2, LookTypes DEF AddNode, HasNode
  <2>3. CASE ~HasNode(s.new.node)
    BY <1>8, <2>1, <2>3, FinishTypes, SameNet DEF AddNode
  <2> QED
    BY <2>2, <2>3
<1> QED
  BY <1>4, <1>5, <1>6, <1>7, <1>8

\* A step of a request that changes the table of rules.
LEMMA RowStep ==
  ASSUME TInv, NEW t \in Req, NEW r, mgr = "serving",
         th' = [th EXCEPT ![t] = r], Form(r),
         r.old.node <= lastNode, r.new.node <= lastNode, r.id <= lastRule',
         RowInv', NetInv', lastRule <= lastRule',
         UNCHANGED <<nodeVars, mgr, crashes, todo>>
  PROVE  TInv'
<1>1. r \in ThreadState /\ t \in Thread /\ t # Main
  BY Facts DEF Form
<1>2. th' \in [Thread -> ThreadState] /\ th'[t] = r
      /\ \A u \in Thread \ {t} : th'[u] = th[u]
  BY <1>1, Facts
<1>3. NodeInv' /\ NetInv'
  BY DEF TInv, NodeInv, HasNode, nodeVars
<1>4. PhaseInv'
  <2>1. th'[Main] = th[Main]
    BY <1>1, <1>2, Facts
  <2> QED
    BY <2>1 DEF TInv, PhaseInv
<1>5. ThreadInv'
  <2> SUFFICES ASSUME NEW u \in Thread
               PROVE  Form(th'[u]) /\ Past(th[u])'
    BY <1>2 DEF ThreadInv, Form, ThreadState, Row, Label, Table, Id,
                Node, Removing, Adding, FullRow
  <2>1. CASE u = t
    BY <1>2, <2>1 DEF Past, nodeVars
  <2>2. CASE u # t
    <3>1. /\ Form(th[u]) /\ Past(th[u]) /\ th[u].id \in 0..MaxRule
          /\ lastRule \in Nat /\ lastRule' \in Nat
      BY Facts, Parts, RulesAssumption DEF RowInv, RulesAssumption
    <3>2. th[u].id <= lastRule'
      BY <3>1, RulesAssumption DEF Past, RulesAssumption
    <3> QED
      BY <1>2, <2>2, <3>1, <3>2 DEF Past, nodeVars
  <2> QED
    BY <2>1, <2>2
<1> QED
  BY <1>3, <1>4, <1>5 DEF TInv

\* The priority that GetNextPriority gives out.
LEMMA PriorityType ==
  ASSUME TInv
  PROVE  NextPriority \in Nat \ {0}
<1> DEFINE S == {0} \cup {row[i].prio : i \in rules}
<1>1. S \in SUBSET (0..MaxPrio) /\ S # {} /\ MaxPrio \in Nat
  <2>1. \A i \in rules : row[i].prio \in 0..MaxPrio
    BY Facts, FullRowIsRow DEF Row
  <2>2. MaxPrio \in Nat
    BY RulesAssumption DEF RulesAssumption
  <2> QED
    BY <2>1, <2>2
<1>2. NextPriority = 1 + MaxOf(S)
  BY DEF NextPriority
<1> HIDE DEF S
<1>3. MaxOf(S) \in S
  BY <1>1, MaxOfBounded
<1>4. MaxOf(S) \in 0..MaxPrio
  BY <1>1, <1>3
<1>5. \A x \in 0..MaxPrio : x \in Nat
  BY <1>1
<1>6. MaxOf(S) \in Nat
  BY <1>4, <1>5
<1> QED
  BY <1>2, <1>6

\* CreateRule settles the priority.
LEMMA AllocateTypes ==
  ASSUME TInv, NEW t \in Req, Allocate(t)
  PROVE  TInv'
<1> DEFINE s == th[t]
           p == IF s.new.prio = 0 THEN NextPriority ELSE s.new.prio
           new == [s.new EXCEPT !.prio = p]
           r == [s EXCEPT !.pc = "insert", !.new = new]
<1>1. /\ s \in ThreadState /\ Form(s) /\ Past(s) /\ t \in Thread /\ t # Main
      /\ s.pc = "allocate" /\ mgr = "serving"
      /\ UNCHANGED <<db, nodeVars, net, ctl>>
  BY Facts, Busy DEF Allocate
<1>2. s.new \in Row /\ s.new.src \in Src /\ s.new.node \in Node
      /\ s.new.node <= lastNode
  BY <1>1, Parts DEF Form, Past
<1>3. p \in 1..MaxPrio
  <2>1. s.new.prio \in 0..MaxPrio /\ MaxPrio \in Nat
    BY <1>2, RulesAssumption DEF Row, RulesAssumption
  <2>2. CASE s.new.prio = 0
    BY <2>1, <2>2, PriorityType DEF Allocate
  <2>3. CASE s.new.prio # 0
    BY <2>1, <2>3
  <2> QED
    BY <2>2, <2>3
<1>4. th' = [th EXCEPT ![t] = r]
  BY <1>1, <1>2, Facts DEF Allocate, ThreadState, Row
<1> HIDE DEF p
<1>5. new \in FullRow /\ new.node = s.new.node
  BY <1>2, <1>3 DEF Row, FullRow
<1> HIDE DEF new
<1>6. r \in ThreadState
  BY <1>1, <1>5, FullRowIsRow DEF ThreadState, Label
<1>7. /\ r.pc = "insert" /\ r.new = new /\ r.old = s.old /\ r.id = s.id
      /\ r.op = s.op
  BY <1>1 DEF ThreadState
<1> HIDE DEF r
<1>8. Form(r)
  BY <1>1, <1>5, <1>6, <1>7, FullRowIsRow DEF Form, Removing, Adding
<1>9. Past(r)
  BY <1>1, <1>2, <1>5, <1>7 DEF Past
<1> QED
  BY <1>1, <1>4, <1>8, <1>9, ThreadStep, SameNet DEF ctl

\* A new row, under an id never used before.
LEMMA InsertTypes ==
  ASSUME TInv, NEW t \in Req, Insert(t)
  PROVE  TInv'
<1> DEFINE s == th[t]
           i == lastRule + 1
<1>1. /\ s \in ThreadState /\ Form(s) /\ Past(s) /\ t \in Thread /\ t # Main
      /\ s.pc = "insert" /\ mgr = "serving"
      /\ UNCHANGED <<nodeVars, mgr, crashes, todo>> /\ NetInv'
  BY Facts, Busy, SameNet DEF Insert, ctl
<1>2. s.new \in FullRow /\ s.new.node <= lastNode
  BY <1>1 DEF Form, Past
<1>3. CASE Finish(t) /\ UNCHANGED db
  BY <1>1, <1>3, FinishTypes
<1>4. CASE lastRule < MaxRule /\ Unique(0, s.new)
  <2>1. /\ lastRule' = i /\ rules' = rules \cup {i}
        /\ row' = [row EXCEPT ![i] = s.new]
    BY <1>4 DEF Insert
  <2>2. /\ i \in Id /\ i \in 0..MaxRule /\ lastRule \in Nat /\ i \notin rules
        /\ i # 0
        /\ \A j \in rules : j <= lastRule /\ j \in Nat /\ j # i
    BY <1>4, Facts, RulesAssumption DEF RulesAssumption, Id
  <2>3. RowInv'
    <3>1. /\ rules' \subseteq Id /\ row' \in [Id -> Row]
          /\ lastRule' \in 0..MaxRule
      BY <1>2, <2>1, <2>2, Facts, FullRowIsRow, RulesAssumption
      DEF RulesAssumption, Id
    <3>2. row'[i] = s.new /\ \A j \in rules : row'[j] = row[j]
      BY <2>1, <2>2, Facts
    <3>3. ASSUME NEW j \in rules'
          PROVE  /\ row'[j] \in FullRow /\ row'[j].node <= lastNode
                 /\ j <= lastRule'
      BY <1>2, <2>1, <2>2, <3>2, <3>3, Facts
    <3>4. ASSUME NEW j \in rules', NEW k \in rules',
                 row'[j].src = row'[k].src, row'[j].node = row'[k].node
          PROVE  j = k
      <4>1. ASSUME NEW m \in rules
            PROVE  row[m].src # s.new.src \/ row[m].node # s.new.node
        BY <1>4, <2>2, <4>1, Facts DEF Unique, Id
      <4> QED
        BY <2>1, <2>2, <3>2, <3>4, <4>1 DEF TInv, RowInv
    <3> QED
      BY <1>1, <3>1, <3>3, <3>4
      DEF RowInv, nodeVars, Id, Row, FullRow, Node
  <2>4. CASE th' = [th EXCEPT ![t].pc = "addNode", ![t].id = lastRule']
    <3> DEFINE r == [s EXCEPT !.pc = "addNode", !.id = i]
    <3>1. th' = [th EXCEPT ![t] = r]
      BY <2>1, <2>4, Facts
    <3>2. r \in ThreadState
      BY <1>1, <2>2, Facts DEF ThreadState, Label
    <3>3. /\ r.pc = "addNode" /\ r.new = s.new /\ r.old = s.old /\ r.id = i
          /\ r.op = s.op
      BY <1>1 DEF ThreadState
    <3> HIDE DEF r
    <3>4. Form(r)
      BY <1>2, <2>2, <3>2, <3>3 DEF Form, Removing, Adding
    <3>5. /\ r.old.node <= lastNode /\ r.new.node <= lastNode
          /\ r.id <= lastRule' /\ lastRule <= lastRule'
      BY <1>1, <2>1, <2>2, <3>3 DEF Past
    <3> QED
      BY <1>1, <2>3, <3>1, <3>4, <3>5, RowStep
  <2>5. CASE Finish(t)
    <3>1. /\ IdleThread.old.node <= lastNode /\ IdleThread.new.node <= lastNode
          /\ IdleThread.id <= lastRule' /\ lastRule <= lastRule'
      BY <2>1, <2>2, IdleForm DEF Past
    <3> QED
      BY <1>1, <2>3, <2>5, <3>1, RowStep, IdleForm DEF Finish
  <2> QED
    BY <1>4, <2>4, <2>5 DEF Insert
<1> QED
  BY <1>3, <1>4 DEF Insert

\* A handler's change of its row.
LEMMA WriteTypes ==
  ASSUME TInv, NEW t \in Req, Write(t)
  PROVE  TInv'
<1> DEFINE s == th[t]
           i == s.id
<1>1. /\ s \in ThreadState /\ Form(s) /\ Past(s) /\ t \in Thread /\ t # Main
      /\ s.pc = "write" /\ mgr = "serving"
      /\ UNCHANGED <<rules, lastRule, nodeVars, net, mgr, crashes, todo>>
      /\ missed' \subseteq missed \cup rules
  BY Facts, Busy DEF Write
<1>2. /\ s.new \in FullRow /\ s.new.node <= lastNode /\ s.id # 0
      /\ s.op \in {"update", "enable", "disable"}
  BY <1>1 DEF Form, Past
<1> NetInv'
  BY <1>1, Facts DEF TInv, NetInv, net, local, remote, Entry, KernelRule, Table
<1>3. CASE Finish(t) /\ UNCHANGED row
  BY <1>1, <1>3, FinishTypes DEF db
<1>4. CASE i \in rules /\ Unique(i, s.new)
  <2>1. row' = [row EXCEPT ![i] = s.new]
    BY <1>4 DEF Write
  <2>2. RowInv'
    <3>1. /\ rules' \subseteq Id /\ row' \in [Id -> Row]
          /\ lastRule' \in 0..MaxRule
      BY <1>1, <1>2, <1>4, <2>1, Facts, FullRowIsRow
    <3>2. row'[i] = s.new /\ \A j \in rules : j # i => row'[j] = row[j]
      BY <1>4, <2>1, Facts
    <3>3. ASSUME NEW j \in rules
          PROVE  /\ row'[j] \in FullRow /\ row'[j].node <= lastNode
                 /\ j <= lastRule
      BY <1>2, <1>4, <3>2, <3>3, Facts
    <3>4. ASSUME NEW j \in rules, NEW k \in rules,
                 row'[j].src = row'[k].src, row'[j].node = row'[k].node
          PROVE  j = k
      <4>1. ASSUME NEW m \in rules, m # i
            PROVE  row[m].src # s.new.src \/ row[m].node # s.new.node
        BY <1>4, <4>1 DEF Unique
      <4> QED
        BY <3>2, <3>4, <4>1 DEF TInv, RowInv
    <3> QED
      BY <1>1, <3>1, <3>3, <3>4
      DEF RowInv, nodeVars, Id, Row, FullRow, Node
  <2>3. CASE Forget(t, "addNode")
    <3> DEFINE r == [s EXCEPT !.pc = "addNode", !.old = BlankRow, !.tab = 0]
    <3>1. th' = [th EXCEPT ![t] = r]
      BY <2>3, Facts DEF Forget
    <3>2. BlankRow \in Row /\ 0 \in 0..MaxNode /\ BlankRow.node <= lastNode
      BY IdleForm, Facts, RulesAssumption DEF RulesAssumption, BlankRow
    <3>3. r \in ThreadState
      BY <1>1, <3>2 DEF ThreadState, Label
    <3>4. /\ r.pc = "addNode" /\ r.new = s.new /\ r.old = BlankRow
          /\ r.id = s.id /\ r.op = s.op
      BY <1>1 DEF ThreadState
    <3> HIDE DEF r
    <3>5. Form(r)
      BY <1>2, <3>3, <3>4 DEF Form, Removing, Adding
    <3>6. /\ r.old.node <= lastNode /\ r.new.node <= lastNode
          /\ r.id <= lastRule' /\ lastRule <= lastRule'
      BY <1>1, <3>2, <3>4, Facts, RulesAssumption DEF Past, RulesAssumption
    <3> QED
      BY <1>1, <2>2, <3>1, <3>5, <3>6, RowStep
  <2>4. CASE Finish(t)
    <3>1. /\ IdleThread.old.node <= lastNode /\ IdleThread.new.node <= lastNode
          /\ IdleThread.id <= lastRule' /\ lastRule <= lastRule'
      BY <1>1, IdleForm, Facts, RulesAssumption DEF Past, RulesAssumption
    <3> QED
      BY <1>1, <2>2, <2>4, <3>1, RowStep, IdleForm DEF Finish
  <2> QED
    BY <1>4, <2>3, <2>4 DEF Write
<1> QED
  BY <1>3, <1>4 DEF Write

\* A row goes.
LEMMA RemoveTypes ==
  ASSUME TInv, NEW t \in Req, Remove(t)
  PROVE  TInv'
<1> DEFINE i == th[t].id
<1>1. /\ Form(th[t]) /\ Past(th[t]) /\ mgr = "serving" /\ t \in Thread
      /\ th[t].pc = "remove" /\ rules' = rules \ {i}
      /\ row' = [row EXCEPT ![i] = BlankRow] /\ Finish(t)
      /\ UNCHANGED <<lastRule, nodeVars, net, mgr, crashes, todo>>
      /\ missed' \subseteq missed
  BY Facts, Busy DEF Remove
<1>2. RowInv'
  <2>1. rules' \subseteq Id /\ row' \in [Id -> Row] /\ lastRule' \in 0..MaxRule
    BY <1>1, Facts, IdleForm
  <2>2. \A j \in rules' : row'[j] = row[j] /\ j \in rules
    BY <1>1, Facts
  <2>3. \A j \in rules' : /\ row'[j] \in FullRow /\ row'[j].node <= lastNode
                          /\ j <= lastRule
    BY <2>2, Facts
  <2>4. \A j, k \in rules' :
          row'[j].src = row'[k].src /\ row'[j].node = row'[k].node => j = k
    BY <2>2 DEF TInv, RowInv
  <2> QED
    BY <1>1, <2>1, <2>3, <2>4 DEF RowInv, nodeVars, Id, Row, FullRow, Node
<1>3. /\ IdleThread.old.node <= lastNode /\ IdleThread.new.node <= lastNode
      /\ IdleThread.id <= lastRule' /\ lastRule <= lastRule'
  BY <1>1, IdleForm, Facts, RulesAssumption DEF Past, RulesAssumption
<1>4. NetInv'
  BY <1>1 DEF TInv, NetInv, net, local, remote, Entry, KernelRule, Table, Id
<1> QED
  BY <1>1, <1>2, <1>3, <1>4, RowStep, IdleForm DEF Finish

\* A rule is applied, by a request or by the recovery.
LEMMA ApplyTypes ==
  ASSUME TInv, NEW t \in Thread, Apply(t)
  PROVE  TInv'
<1> DEFINE s == th[t]
<1>1. s \in ThreadState /\ Form(s) /\ Past(s)
  BY Facts
<1>2. ASSUME s.pc \in {"mtAdd", "ruleAdd"}
      PROVE  /\ t # Main => mgr = "serving" /\ t \in Req
             /\ t = Main => mgr = "recovering"
             /\ s.id \in Id /\ s.new \in FullRow /\ s.tab \in Table /\ s.id # 0
  <2>1. s.id # 0 /\ s.new \in FullRow /\ s.tab \in Table
    BY <1>1, <1>2 DEF Form, Adding
  <2>2. s.id \in 0..MaxRule /\ MaxRule \in Nat
    BY <1>1, Parts, RulesAssumption DEF RulesAssumption
  <2>3. s.id \in Id
    BY <2>1, <2>2 DEF Id
  <2>4. t # Main => t \in Req
    BY DEF Thread
  <2>5. t # Main => mgr = "serving"
    BY <1>2, <2>4, Busy
  <2>6. t = Main => mgr = "recovering"
    BY <1>2 DEF TInv, PhaseInv
  <2> QED
    BY <2>1, <2>3, <2>4, <2>5, <2>6
<1>3. CASE MtAdd(t)
  <2>1. /\ s.pc = "mtAdd" /\ Goto(t, "ruleAdd")
        /\ UNCHANGED <<db, nodeVars, local, stuck, ctl>>
        /\ UNCHANGED <<db, nodeVars, mgr, crashes, todo>>
    BY <1>3 DEF MtAdd, ctl
  <2>2. router' \subseteq router \cup {[id |-> s.id, src |-> s.new.src]}
    BY <1>3 DEF MtAdd
  <2>3. [id |-> s.id, src |-> s.new.src] \in Entry
    BY <1>2, <2>1, FullRowIsRow DEF Entry
  <2>4. NetInv'
    BY <2>1, <2>2, <2>3
    DEF TInv, NetInv, local, ctl, KernelRule, Table, Id, Entry
  <2> DEFINE r == [s EXCEPT !.pc = "ruleAdd"]
  <2>5. r \in ThreadState
    BY <1>1 DEF ThreadState, Label
  <2>6. r.pc = "ruleAdd" /\ r.op = s.op /\ r.id = s.id /\ r.new = s.new
        /\ r.old = s.old /\ r.tab = s.tab
    BY <1>1 DEF ThreadState
  <2> HIDE DEF r
  <2>7. Form(r)
    BY <1>2, <2>1, <2>5, <2>6 DEF Form, Removing, Adding
  <2>8. "ruleAdd" \in Label /\ Form([th[t] EXCEPT !.pc = "ruleAdd"])
    BY <2>7 DEF Label, r
  <2> QED
    BY <1>2, <2>1, <2>4, <2>8, GotoTypes
<1>4. CASE RuleAdd(t)
  <2> DEFINE k == [src |-> s.new.src, table |-> s.tab, prio |-> s.new.prio]
  <2>1. /\ s.pc = "ruleAdd" /\ Return(t) /\ kernel' \subseteq kernel \cup {k}
        /\ missed' \subseteq missed \cup rules /\ UNCHANGED <<left, remote>>
        /\ UNCHANGED <<db, nodeVars, mgr, crashes, todo>>
    BY <1>4 DEF RuleAdd
  <2>2. k \in KernelRule
    BY <1>2, <2>1, FullRowIsRow DEF KernelRule
  <2>3. NetInv'
    BY <2>1, <2>2, Facts
    DEF TInv, NetInv, remote, KernelRule, Table, Id, Entry
  <2>4. CASE t # Main
    BY <1>2, <2>1, <2>3, <2>4, FinishTypes DEF Return
  <2>5. CASE t = Main
    <3> DEFINE r == [IdleThread EXCEPT !.op = "recover", !.pc = "recLoop"]
    <3>1. r \in ThreadState
      BY IdleForm DEF ThreadState, Label
    <3>2. r.pc = "recLoop" /\ r.op = "recover" /\ r.id = 0
          /\ r.new = IdleThread.new /\ r.old = IdleThread.old
      BY DEF IdleThread
    <3>3. th' = [th EXCEPT ![t] = r]
      BY <2>1, <2>5 DEF Return
    <3> HIDE DEF r
    <3>4. Form(r)
      BY <3>1, <3>2 DEF Form, Removing, Adding
    <3>5. Past(r)
      BY <3>2, IdleForm DEF Past
    <3> QED
      BY <1>2, <2>1, <2>3, <2>5, <3>2, <3>3, <3>4, <3>5, ThreadStep
  <2> QED
    BY <2>4, <2>5
<1> QED
  BY <1>3, <1>4 DEF Apply

\* A step of the nodes: the threads know only of nodes that have been.
LEMMA NodeStep ==
  ASSUME TInv, NodeInv', lastNode <= lastNode', UNCHANGED <<db, net, ctl, th>>
  PROVE  TInv'
<1>1. lastNode \in Nat /\ lastNode' \in Nat
  BY Facts, RulesAssumption DEF NodeInv, RulesAssumption
<1>2. \A n \in 0..MaxNode : n <= lastNode => n <= lastNode'
  BY <1>1, RulesAssumption DEF RulesAssumption
<1>3. RowInv'
  <2>1. \A i \in rules : row[i].node \in 0..MaxNode
    BY Facts, FullRowIsRow DEF Row
  <2> QED
    BY <1>2, <2>1 DEF TInv, RowInv, db, Id, Row, FullRow, Node
<1>4. NetInv' /\ PhaseInv'
  BY DEF TInv, NetInv, PhaseInv, net, local, remote, ctl, db
<1>5. ThreadInv'
  <2> SUFFICES ASSUME NEW u \in Thread
               PROVE  Form(th[u]) /\ Past(th[u])'
    BY Facts DEF ThreadInv, Form, ThreadState, Row, Label, Table, Id,
                 Node, Removing, Adding, FullRow
  <2>1. Form(th[u]) /\ Past(th[u]) /\ th[u].old.node \in 0..MaxNode
        /\ th[u].new.node \in 0..MaxNode
    BY Facts, Parts
  <2> QED
    BY <1>2, <2>1 DEF Past, db
<1> QED
  BY <1>3, <1>4, <1>5 DEF TInv

\* The nodes' handlers.
LEMMA NodesTypes ==
  ASSUME TInv, Nodes
  PROVE  TInv'
<1>1. /\ status \in [Node -> {"none", "idle", "running"}]
      /\ lastNode \in 0..MaxNode /\ lastNode \in Nat
      /\ table \in [Node -> 0..lastNode] /\ orphaned \subseteq Table
      /\ \A n \in Node : HasNode(n) => n <= lastNode /\ table[n] # 0
      /\ \A n, m \in Node :
           HasNode(n) /\ HasNode(m) /\ table[n] = table[m] => n = m
  BY RulesAssumption DEF TInv, NodeInv, RulesAssumption
<1>2. ASSUME NEW n \in Node, SetStatus(n)
      PROVE  TInv'
  <2>1. /\ UNCHANGED <<db, net, ctl, th, table, lastNode, orphaned>>
        /\ HasNode(n)
    BY <1>2 DEF SetStatus
  <2>2. PICK s \in {"idle", "running"} : status' = [status EXCEPT ![n] = s]
    BY <1>2 DEF SetStatus
  <2>3. \A m : HasNode(m)' <=> HasNode(m)
    BY <1>1, <2>1, <2>2 DEF HasNode, Node
  <2>4. NodeInv'
    BY <1>1, <2>1, <2>2, <2>3 DEF NodeInv, Node, Table
  <2> QED
    BY <1>1, <2>1, <2>4, NodeStep
<1>3. ASSUME NEW n \in Node, DeleteNode(n)
      PROVE  TInv'
  <2>1. /\ UNCHANGED <<db, net, ctl, th, lastNode>>
        /\ status' = [status EXCEPT ![n] = "none"]
        /\ table' = [table EXCEPT ![n] = 0]
        /\ orphaned' = orphaned \cup {table[n]} /\ HasNode(n)
    BY <1>3 DEF DeleteNode
  <2>2. \A m : HasNode(m)' <=> HasNode(m) /\ m # n
    BY <1>1, <2>1 DEF HasNode, Node
  <2>3. table[n] \in Table /\ 0 \in 0..lastNode
    BY <1>1, <2>1, RulesAssumption DEF RulesAssumption, Table
  <2>4. table' \in [Node -> 0..lastNode]
    BY <1>1, <2>1, <2>3
  <2>5. /\ status' \in [Node -> {"none", "idle", "running"}]
        /\ orphaned' \subseteq Table
    BY <1>1, <2>1, <2>3
  <2>6. \A m \in Node : HasNode(m)' => m <= lastNode /\ table'[m] = table[m]
                                       /\ table[m] # 0
    BY <1>1, <2>1, <2>2
  <2>7. \A m, k \in Node :
          HasNode(m)' /\ HasNode(k)' /\ table'[m] = table'[k] => m = k
    BY <1>1, <2>2, <2>6
  <2>8. NodeInv'
    BY <1>1, <2>1, <2>4, <2>5, <2>6, <2>7 DEF NodeInv, Node, Table
  <2> QED
    BY <1>1, <2>1, <2>8, NodeStep
<1>4. CASE CreateNode
  <2> DEFINE m == lastNode + 1
             S == {0} \cup {table[n] : n \in Node}
             top == MaxOf(S)
             b == 1 + top
  <2>1. /\ UNCHANGED <<db, net, ctl, th, orphaned>> /\ lastNode' = m
        /\ status' = [status EXCEPT ![m] = "idle"]
        /\ table' = [table EXCEPT ![m] = b] /\ lastNode < MaxNode
    BY <1>4 DEF CreateNode
  <2>2. S \in SUBSET (0..lastNode) /\ S # {}
    BY <1>1
  <2>3. \A n \in Node : table[n] \in S
    OBVIOUS
  <2> HIDE DEF S
  <2>4. top \in S /\ \A y \in S : y <= top
    BY <1>1, <2>2, MaxOfBounded
  <2> HIDE DEF top
  <2>5. top \in 0..lastNode
    BY <2>2, <2>4
  <2>6. /\ m \in Node /\ b \in 0..m /\ b # 0 /\ m \in 0..MaxNode
        /\ \A n \in Node : table[n] # b
    <3>1. \A n \in Node : table[n] <= top /\ table[n] \in 0..lastNode
      BY <1>1, <2>3, <2>4
    <3>2. \A n \in Node : table[n] # b
      BY <1>1, <2>5, <3>1
    <3> QED
      BY <1>1, <2>1, <2>5, <3>2, RulesAssumption DEF RulesAssumption, Node
  <2> HIDE DEF b
  <2>7. table' \in [Node -> 0..m]
    <3>1. \A x \in 0..lastNode : x \in 0..m
      BY <1>1
    <3> QED
      BY <1>1, <2>1, <2>6, <3>1
  <2>8. status' \in [Node -> {"none", "idle", "running"}]
    BY <1>1, <2>1
  <2>9. \A n \in Node : HasNode(n)' => n = m \/ HasNode(n)
    BY <1>1, <2>1 DEF HasNode
  <2>10. /\ table'[m] = b /\ \A n \in Node : n # m => table'[n] = table[n]
    BY <1>1, <2>1, <2>6
  <2>11. \A n \in Node : HasNode(n)' => n <= m /\ table'[n] # 0
    BY <1>1, <2>6, <2>9, <2>10, RulesAssumption DEF Node, RulesAssumption
  <2>12. \A n, k \in Node :
           HasNode(n)' /\ HasNode(k)' /\ table'[n] = table'[k] => n = k
    BY <1>1, <2>6, <2>9, <2>10
  <2>13. NodeInv'
    BY <1>1, <2>1, <2>6, <2>7, <2>8, <2>11, <2>12 DEF NodeInv, Node, Table
  <2> QED
    BY <1>1, <2>1, <2>13, NodeStep
<1> QED
  BY <1>2, <1>3, <1>4 DEF Nodes

\* The recovery and its loop.
LEMMA RecoveryTypes ==
  ASSUME TInv, Boot \/ Serve \/ \E i \in Id : RecoverRule(i)
  PROVE  TInv'
<1> DEFINE loop == [IdleThread EXCEPT !.op = "recover", !.pc = "recLoop"]
<1>1. /\ loop \in ThreadState /\ loop.pc = "recLoop" /\ loop.op = "recover"
      /\ loop.id = 0 /\ loop.new = IdleThread.new /\ loop.old = IdleThread.old
  BY IdleForm DEF ThreadState, Label, IdleThread
<1> HIDE DEF loop
<1>2. Form(loop) /\ Past(loop)
  BY <1>1, IdleForm DEF Form, Past, Removing, Adding
<1>3. CASE Boot
  <2>1. /\ mgr = "down" /\ mgr' = "recovering" /\ missed' = {}
        /\ todo' = {i \in rules : row[i].enabled}
        /\ th' = [th EXCEPT ![Main] = loop]
        /\ UNCHANGED <<db, net, crashes, table, lastNode, orphaned>>
    BY <1>3 DEF Boot, loop
  <2>2. /\ status' \in [Node -> {"none", "idle", "running"}]
        /\ \A n \in Node : status'[n] = "none" <=> status[n] = "none"
    BY <1>3 DEF Boot
  <2>3. NodeInv'
    <3>1. \A n : HasNode(n)' <=> HasNode(n)
      BY <2>2 DEF HasNode, Node
    <3> QED
      BY <2>1, <2>2, <3>1 DEF TInv, NodeInv, Node, Table
  <2>4. RowInv' /\ NetInv'
    BY <2>1 DEF TInv, RowInv, NetInv, db, net, Id, Row, FullRow, Node,
                local, remote, Entry, KernelRule, Table
  <2>5. /\ th' \in [Thread -> ThreadState] /\ th'[Main] = loop
        /\ \A u \in Thread \ {Main} : th'[u] = th[u]
    BY <1>1, <2>1, Facts
  <2>6. ASSUME NEW r \in Req
        PROVE  th'[r].pc = "idle"
    BY <2>1, <2>5, Facts DEF TInv, PhaseInv
  <2>7. PhaseInv'
    BY <1>1, <2>1, <2>5, <2>6 DEF TInv, PhaseInv, db
  <2>8. ThreadInv'
    <3> SUFFICES ASSUME NEW u \in Thread
                 PROVE  Form(th'[u]) /\ Past(th[u])'
      BY <2>5 DEF ThreadInv, Form, ThreadState, Row, Label, Table, Id,
                  Node, Removing, Adding, FullRow
    <3> QED
      BY <1>2, <2>1, <2>5, Facts DEF Past, db
  <2> QED
    BY <2>3, <2>4, <2>7, <2>8 DEF TInv
<1>4. CASE Serve
  <2>1. /\ th[Main].pc = "recLoop" /\ todo = {} /\ mgr' = "serving"
        /\ th' = [th EXCEPT ![Main] = IdleThread]
        /\ UNCHANGED <<db, nodeVars, net, crashes, todo, missed>>
    BY <1>4 DEF Serve, Finish
  <2>2. mgr = "recovering"
    BY <2>1 DEF TInv, PhaseInv
  <2>3. /\ th' \in [Thread -> ThreadState] /\ th'[Main] = IdleThread
        /\ \A u \in Thread \ {Main} : th'[u] = th[u]
    BY <2>1, Facts, IdleForm
  <2>4. PhaseInv'
    BY <2>1, <2>3, IdleForm DEF TInv, PhaseInv, db
  <2>5. RowInv' /\ NodeInv' /\ NetInv'
    BY <2>1
    DEF TInv, RowInv, NodeInv, NetInv, HasNode, db, nodeVars, net, local,
        remote
  <2>6. ThreadInv'
    <3> SUFFICES ASSUME NEW u \in Thread
                 PROVE  Form(th'[u]) /\ Past(th[u])'
      BY <2>3 DEF ThreadInv, Form, ThreadState, Row, Label, Table, Id,
                  Node, Removing, Adding, FullRow
    <3> QED
      BY <2>1, <2>3, Facts, IdleForm DEF Past, db, nodeVars
  <2> QED
    BY <2>4, <2>5, <2>6 DEF TInv
<1>5. ASSUME NEW i \in Id, RecoverRule(i)
      PROVE  TInv'
  <2> DEFINE r == [IdleThread EXCEPT !.op = "recover", !.pc = "mtAdd", !.id = i,
                                     !.new = row[i], !.tab = table[row[i].node]]
  <2>1. /\ th[Main].pc = "recLoop" /\ i \in todo /\ todo' = todo \ {i}
        /\ UNCHANGED <<db, nodeVars, net, mgr, crashes>>
    BY <1>5 DEF RecoverRule
  <2>2. /\ mgr = "recovering" /\ i \in rules /\ row[i] \in FullRow
        /\ row[i].node <= lastNode /\ i <= lastRule /\ row[i] \in Row
    BY <2>1, Facts, FullRowIsRow DEF TInv, PhaseInv
  <2>3. missed' \subseteq Id
    BY <1>5 DEF RecoverRule, TInv, NetInv
  <2>4. /\ \/ UNCHANGED th
           \/ HasNode(row[i].node) /\ th' = [th EXCEPT ![Main] = r]
    BY <1>5 DEF RecoverRule
  <2>5. CASE UNCHANGED th
    <3>1. RowInv' /\ NodeInv' /\ NetInv'
      BY <2>1, <2>3
      DEF TInv, RowInv, NodeInv, NetInv, HasNode, db, nodeVars, net, local,
          remote
    <3>2. PhaseInv'
      BY <2>1, <2>2, <2>5 DEF TInv, PhaseInv, db
    <3>3. ThreadInv'
      BY <2>1, <2>5 DEF TInv, ThreadInv, Form, Past, db, nodeVars
    <3> QED
      BY <3>1, <3>2, <3>3 DEF TInv
  <2>6. CASE HasNode(row[i].node) /\ th' = [th EXCEPT ![Main] = r]
    <3>1. /\ table[row[i].node] \in 0..MaxNode
          /\ table[row[i].node] \in Table
      <4>1. table[row[i].node] \in 0..lastNode /\ table[row[i].node] # 0
        BY <2>2, <2>6, FullRowIsRow DEF TInv, NodeInv
      <4> QED
        BY <4>1, Facts, RulesAssumption DEF RulesAssumption, Table
    <3>2. i \in 0..MaxRule /\ i # 0
      BY RulesAssumption DEF Id, RulesAssumption
    <3>3. r \in ThreadState
      BY <2>2, <3>1, <3>2, IdleForm DEF ThreadState, Label
    <3>4. /\ r.op = "recover" /\ r.pc = "mtAdd" /\ r.id = i /\ r.new = row[i]
          /\ r.tab = table[row[i].node] /\ r.old = IdleThread.old
      BY DEF IdleThread
    <3> HIDE DEF r
    <3>5. Form(r)
      BY <2>2, <3>1, <3>2, <3>3, <3>4 DEF Form, Removing, Adding
    <3>6. Past(r)
      BY <2>2, <3>4, IdleForm DEF Past
    <3>7. /\ th' \in [Thread -> ThreadState] /\ th'[Main] = r
          /\ \A u \in Thread \ {Main} : th'[u] = th[u]
      BY <2>6, <3>3, Facts
    <3>8. RowInv' /\ NodeInv' /\ NetInv'
      BY <2>1, <2>3
      DEF TInv, RowInv, NodeInv, NetInv, HasNode, db, nodeVars, net, local,
          remote
    <3>9. PhaseInv'
      BY <2>1, <2>2, <3>4, <3>7, Facts DEF TInv, PhaseInv, db
    <3>10. ThreadInv'
      <4> SUFFICES ASSUME NEW u \in Thread
                   PROVE  Form(th'[u]) /\ Past(th[u])'
        BY <3>7 DEF ThreadInv, Form, ThreadState, Row, Label, Table, Id,
                    Node, Removing, Adding, FullRow
      <4> QED
        BY <2>1, <3>5, <3>6, <3>7, Facts DEF Past, db, nodeVars
    <3> QED
      BY <3>8, <3>9, <3>10 DEF TInv
  <2> QED
    BY <2>4, <2>5, <2>6
<1> QED
  BY <1>3, <1>4, <1>5

\* The Manager dies.
LEMMA CrashTypes ==
  ASSUME TInv, Crash
  PROVE  TInv'
<1>1. /\ crashes < MaxCrash /\ crashes' = crashes + 1 /\ mgr' = "down"
      /\ kernel' \in {kernel, {}} /\ th' = [t \in Thread |-> IdleThread]
      /\ todo' = {} /\ UNCHANGED <<db, nodeVars, remote, missed>>
      /\ left' \subseteq left
  BY DEF Crash
<1>2. RowInv' /\ NodeInv' /\ NetInv'
  BY <1>1 DEF TInv, RowInv, NodeInv, NetInv, HasNode, db, nodeVars, remote
<1>3. crashes' \in 0..MaxCrash
  BY <1>1, RulesAssumption DEF TInv, PhaseInv, RulesAssumption
<1>4. \A t \in Thread : th'[t] = IdleThread
  BY <1>1
<1>5. PhaseInv'
  BY <1>1, <1>3, <1>4, Facts, IdleForm DEF PhaseInv
<1>6. ThreadInv'
  <2>1. Form(IdleThread) /\ Past(IdleThread)' /\ th' \in [Thread -> ThreadState]
    BY <1>1, IdleForm DEF Past, db, nodeVars
  <2> QED
    BY <1>4, <2>1 DEF ThreadInv, Form, ThreadState, Row, Label, Table, Id,
                      Node, Removing, Adding, FullRow
<1> QED
  BY <1>2, <1>5, <1>6 DEF TInv

\* A new installation is in type.
LEMMA InitTypes ==
  ASSUME Init
  PROVE  TInv
<1>1. RowInv
  <2>1. BlankRow \in Row
    BY RulesAssumption DEF RulesAssumption, Row, BlankRow
  <2> QED
    BY <2>1, RulesAssumption DEF Init, RowInv, RulesAssumption
<1>2. NodeInv
  <2>1. table \in [Node -> 0..lastNode]
    BY RulesAssumption DEF Init, Node, RulesAssumption
  <2>2. \A n \in Node : HasNode(n) => n <= lastNode /\ table[n] = n /\ n # 0
    BY RulesAssumption DEF Init, HasNode, Node, RulesAssumption
  <2> QED
    BY <2>1, <2>2, RulesAssumption DEF Init, NodeInv, RulesAssumption
<1>3. NetInv
  BY DEF Init, NetInv
<1>4. \A t \in Thread : th[t] = IdleThread
  BY DEF Init
<1>5. 0 \in 0..MaxRule /\ 0 \in 0..MaxNode /\ 0 \in 0..MaxPrio
      /\ 0 \in 0..MaxCrash /\ lastNode >= 0 /\ lastRule >= 0
      /\ lastNode \in Nat /\ lastRule \in Nat
  BY RulesAssumption DEF Init, RulesAssumption
<1>6. IdleThread.pc = "idle" /\ IdleThread.id = 0 /\ IdleThread.op = "none"
      /\ IdleThread.old = BlankRow /\ IdleThread.new = BlankRow
      /\ BlankRow.node = 0
  BY DEF IdleThread, BlankRow
<1>7. PhaseInv
  BY <1>4, <1>5, <1>6 DEF Init, PhaseInv, Thread
<1>8. ThreadInv
  <2>1. IdleThread \in ThreadState
    BY <1>5 DEF IdleThread, ThreadState, Label, BlankRow, Row
  <2>2. Form(IdleThread) /\ Past(IdleThread)
    BY <1>5, <1>6, <2>1 DEF Form, Past, Removing, Adding
  <2> QED
    BY <1>4, <2>1, <2>2 DEF Init, ThreadInv
<1> QED
  BY <1>1, <1>2, <1>3, <1>7, <1>8 DEF TInv

\* Every step keeps the types.
LEMMA NextTypes ==
  ASSUME TInv, [Next]_vars
  PROVE  TInv'
<1>1. ASSUME NEW r \in Req, Request(r) \/ Step(r) \/ Apply(r)
      PROVE  TInv'
  BY <1>1, Facts, RequestTypes, StepTypes, AllocateTypes, InsertTypes,
     WriteTypes, RemoveTypes, ApplyTypes DEF Step
<1>2. CASE Recovery
  BY <1>2, Facts, RecoveryTypes, ApplyTypes DEF Recovery
<1>3. CASE UNCHANGED vars
  BY <1>3 DEF vars, TInv, RowInv, NodeInv, NetInv, PhaseInv, ThreadInv, HasNode,
              Form, Past
<1> QED
  BY <1>1, <1>2, <1>3, CrashTypes, NodesTypes DEF Next

\* Every variable of the routing rules has its type in every reachable state,
\* whatever clients ask for at the same time, however often the Manager
\* crashes and whichever calls to the router and the kernel fail: in
\* particular the priority that GetNextPriority gives and the table number
\* after the highest are in range, and only complete rows are written.
THEOREM TypeCorrect == Spec => []TypeOK
<1>1. Init => TInv
  BY InitTypes
<1>2. TInv /\ [Next]_vars => TInv'
  BY NextTypes
<1>3. TInv => TypeOK
  <2> SUFFICES ASSUME TInv
               PROVE  TypeOK
    OBVIOUS
  <2>1. table \in [Node -> 0..MaxNode]
    <3>1. \A x \in 0..lastNode : x \in 0..MaxNode
      BY Facts, RulesAssumption DEF RulesAssumption
    <3> QED
      BY <3>1 DEF TInv, NodeInv
  <2>2. todo \subseteq Id
    BY Facts DEF TInv, PhaseInv
  <2> QED
    BY <2>1, <2>2, Facts DEF TInv, NodeInv, NetInv, PhaseInv, TypeOK
<1> QED
  BY <1>1, <1>2, <1>3, PTL DEF Spec
=============================================================================
