------------------------ MODULE PortMappingNATProofs ------------------------
(***************************************************************************)
(* Theorems about PortMappingNAT for every number of requests, mappings,    *)
(* ports and failures: types, the mutex, and that what the client does with *)
(* the router's NAT rules implements NatMirror.                             *)
(***************************************************************************)
EXTENDS PortMappingNAT, TLAPS

-----------------------------------------------------------------------------
(* The inductive invariant.  MirrorsWhole is about router at the moments the *)
(* mutex is free; what makes it true is a relation between router and what  *)
(* the thread that holds the mutex has still to delete and to add.           *)

\* What a thread's request is about, and what it is to delete next.
ScopeOf(s) == IF s.op = "sync" THEN Id ELSE {s.id} \ {0}

StaleOf(s) ==
  IF s.cur = 0 THEN {x \in s.gone : x.id \notin {m.id : m \in s.want}}
  ELSE Of(s.cur, s.gone)

Critical(s) == s.pc \in {"list", "print", "work"}

\* What a thread is to install when it begins.
PlanOf(s) ==
  IF s.op = "sync" THEN s.want
  ELSE IF s.op \in {"create", "update", "enable"} /\ s.m.enabled
    THEN {[id |-> s.id, port |-> s.m.port, masq |-> s.m.masq]}
  ELSE {}

\* The rules of mapping i among those it has taken up.
Done(s, i) ==
  UNION {RulesOf(m) : m \in {n \in s.plan \ s.want : n.id = i}}

\* A thread in type.  A request past its first SQL statement knows its
\* mapping, a full synchronisation has none; a copy of a row that is still to
\* be written or installed has a port; no mapping is planned twice; only the
\* rewrite has rules to add.
Good(s) ==
  /\ s \in ThreadState
  /\ s.op \in {"update", "enable", "disable", "delete"} => s.id \in Id
  /\ s.op = "create" /\ s.pc # "write" => s.id \in Id
  /\ s.op = "sync" => s.id = 0
  /\ s.pc = "list" => s.op = "sync"
  /\ s.pc \in {"check", "write"}
       => s.op \in {"create", "update", "enable", "disable"}
  /\ s.op \in {"create", "update", "enable"}
        /\ s.pc \in {"check", "write", "lock", "print"}
       => s.m.port \in Port
  /\ s.op = "disable" => s.m.port \in Port
  /\ s.op = "none" => s.pc = "idle"
  /\ s.pc # "work" => s.add = {}
  /\ s.pc \notin {"print", "work"} => s.want = {}
  /\ \A m, n \in s.plan : m.id = n.id => m = n
  /\ s.pc \in {"print", "work"} => \A m \in s.plan : m.id \in ScopeOf(s)
  /\ s.pc = "print" => s.plan = PlanOf(s)

\* What the router will hold when thread s has deleted and added what is left
\* to delete and to add of what it has begun.
Ahead(s, R) == (R \ s.gone) \cup s.add

\* A thread s in the middle of its rewrite of the router's rules R, which were
\* those of S when it took the mutex.
Rewriting(s, R, S) ==
  /\ s.bad \subseteq ScopeOf(s)
  /\ s.cur \in ScopeOf(s) \cup {0}
  /\ \A x \in s.gone : x.id \in ScopeOf(s)
  /\ s.want \subseteq s.plan
  /\ \A x \in s.add : x.id = s.cur
  /\ \A x \in s.gone :
       s.cur = 0 \/ x.id = s.cur \/ \E m \in s.want : x.id = m.id
  /\ \A i \in Id \ ScopeOf(s) : Of(i, R) = Of(i, S)
  /\ \A i \in ScopeOf(s) \ s.bad : Of(i, Ahead(s, R)) = Done(s, i)

RowsInv ==
  /\ rows \subseteq Id /\ row \in [Id -> Row] /\ lastId \in 0..MaxId
  /\ \A i \in rows : row[i].port \in Port

CountInv == reqs \in 0..MaxReq /\ faults \in 0..MaxFault

SetsInv ==
  /\ router \subseteq Rule /\ stable \subseteq Rule
  /\ failed \subseteq Id /\ blurred \subseteq Id /\ lock \in Req \cup {NoReq}

ThreadsInv == th \in [Req -> ThreadState] /\ \A t \in Req : Good(th[t])

LockInv == \A t \in Req : Critical(th[t]) <=> lock = t

\* The router changes only while some thread rewrites it.
RewriteInv ==
  /\ \A t \in Req : th[t].pc = "work" => Rewriting(th[t], router, stable)
  /\ (\A t \in Req : th[t].pc # "work") => router = stable

IInv ==
  RowsInv /\ CountInv /\ SetsInv /\ ThreadsInv /\ LockInv /\ RewriteInv
-----------------------------------------------------------------------------
(* Facts about rules.                                                        *)

\* The rules of a mapping are rules and bear its id.
LEMMA RulesOfMapping ==
  ASSUME NEW m \in Mapping
  PROVE  /\ RulesOf(m) \subseteq Rule
         /\ \A x \in RulesOf(m) : x.id = m.id
         /\ m.id \in Id
  BY DEF RulesOf, Mirror!RulesOf, Rule, Mirror!Rule, Mirror!Kind, Mapping,
         Mirror!Mapping, Id

\* Rules bear ids of mappings, never 0.
LEMMA RuleIds ==
  ASSUME NEW x \in Rule
  PROVE  x.id \in Id /\ x.id # 0
  BY NATAssumption DEF NATAssumption, Rule, Mirror!Rule, Id, Mirror!Id

-----------------------------------------------------------------------------
(* The steps of a rewrite, as facts about one thread and two sets of rules.  *)

\* The listed rules are those of the mappings in scope: once they are gone
\* those mappings have none.
LEMMA BeginRewriting ==
  ASSUME NEW s, s \in ThreadState, NEW R \in SUBSET Rule,
         s.add = {}, s.cur \in ScopeOf(s) \cup {0},
         s.op # "sync" => s.cur = s.id,
         s.op = "sync" => s.cur = 0,
         s.want = s.plan,
         \/ s.gone = {x \in R : x.id \in ScopeOf(s)} /\ s.bad = {}
         \/ s.gone = {} /\ s.bad = ScopeOf(s)
  PROVE  Rewriting(s, R, R)
<1>1. /\ s.bad \subseteq ScopeOf(s) /\ s.want \subseteq s.plan
      /\ \A x \in s.gone : x.id \in ScopeOf(s)
      /\ \A x \in s.add : x.id = s.cur
  OBVIOUS
<1>2. \A x \in s.gone : s.cur = 0 \/ x.id = s.cur
  BY <1>1 DEF ScopeOf
<1>3. ASSUME NEW i \in ScopeOf(s) \ s.bad
      PROVE  Of(i, Ahead(s, R)) = {}
  BY <1>3 DEF Of, Mirror!Of, Ahead
<1>4. \A i : Done(s, i) = {}
  BY DEF Done
<1> QED
  BY <1>1, <1>2, <1>3, <1>4 DEF Rewriting

\* A rule is deleted, or its deletion fails.
LEMMA DeleteKeeps ==
  ASSUME NEW s \in ThreadState, NEW R \in SUBSET Rule, NEW S,
         Rewriting(s, R, S), NEW x, x \in s.gone, NEW Q,
         Q = R \/ Q = R \ {x},
         NEW r \in ThreadState, r.op = s.op, r.id = s.id, r.cur = s.cur,
         r.plan = s.plan, r.want = s.want, r.add = s.add, r.gone = s.gone \ {x},
         \/ r.bad = s.bad /\ Q = R \ {x}
         \/ r.bad = s.bad \cup {x.id}
  PROVE  Rewriting(r, Q, S)
<1>1. ScopeOf(r) = ScopeOf(s) /\ x.id \in ScopeOf(s)
  BY DEF ScopeOf, Rewriting
<1>2. /\ r.bad \subseteq ScopeOf(r)
      /\ r.cur \in ScopeOf(r) \cup {0}
      /\ \A y \in r.gone : y.id \in ScopeOf(r)
      /\ r.want \subseteq r.plan
      /\ \A y \in r.add : y.id = r.cur
      /\ \A y \in r.gone :
           r.cur = 0 \/ y.id = r.cur \/ \E m \in r.want : y.id = m.id
  BY <1>1 DEF Rewriting
<1>3. ASSUME NEW i \in Id \ ScopeOf(r)
      PROVE  Of(i, Q) = Of(i, S)
  <2>1. Of(i, Q) = Of(i, R)
    BY <1>1 DEF Of, Mirror!Of
  <2> QED
    BY <1>1, <2>1 DEF Rewriting
<1>4. ASSUME NEW i, i \notin r.bad
      PROVE  i \notin s.bad /\ Of(i, Ahead(r, Q)) = Of(i, Ahead(s, R))
  BY <1>4 DEF Of, Mirror!Of, Ahead
<1>5. \A i : Done(r, i) = Done(s, i)
  BY DEF Done
<1>6. \A i \in ScopeOf(r) \ r.bad : Of(i, Ahead(r, Q)) = Done(r, i)
  BY <1>1, <1>4, <1>5 DEF Rewriting
<1> QED
  BY <1>2, <1>3, <1>6 DEF Rewriting

\* A mapping is taken up once nothing listed is to be deleted before it.
LEMMA TakeKeeps ==
  ASSUME NEW s \in ThreadState, NEW R \in SUBSET Rule, NEW S,
         Rewriting(s, R, S), StaleOf(s) = {}, s.add = {}, NEW m \in s.want,
         \A n \in s.plan : n.id = m.id => n = m,
         NEW r \in ThreadState, r.op = s.op, r.id = s.id, r.cur = m.id,
         r.plan = s.plan, m.id \in ScopeOf(s),
         r.want = s.want \ {m}, r.add = RulesOf(m), r.gone = s.gone,
         r.bad = s.bad
  PROVE  Rewriting(r, R, S)
<1>1. ScopeOf(r) = ScopeOf(s)
  BY DEF ScopeOf
<1>2. m \in Mapping
  BY DEF ThreadState
<1>3. ASSUME NEW y \in s.gone
      PROVE  \E n \in s.want : y.id = n.id
  BY <1>3 DEF StaleOf, Of, Mirror!Of, Rewriting
<1>4. \A y \in r.gone : y.id = r.cur \/ \E n \in r.want : y.id = n.id
  BY <1>3
<1>5. /\ r.bad \subseteq ScopeOf(r)
      /\ r.cur \in ScopeOf(r)
      /\ \A y \in r.gone : y.id \in ScopeOf(r)
      /\ r.want \subseteq r.plan
      /\ \A i \in Id \ ScopeOf(r) : Of(i, R) = Of(i, S)
  BY <1>1 DEF Rewriting
<1>6. \A y \in r.add : y.id = r.cur
  BY <1>2, RulesOfMapping
<1>7. ASSUME NEW i, i # m.id
      PROVE  Of(i, Ahead(r, R)) = Of(i, Ahead(s, R))
  BY <1>6, <1>7 DEF Of, Mirror!Of, Ahead
<1>8. ASSUME m.id \notin s.bad
      PROVE  Of(m.id, Ahead(r, R)) = Done(r, m.id)
  <2>1. {n \in s.plan \ s.want : n.id = m.id} = {}
    OBVIOUS
  <2>2. Of(m.id, Ahead(s, R)) = {}
    BY <1>8, <2>1 DEF Rewriting, Done
  <2>3. Of(m.id, Ahead(r, R)) = RulesOf(m)
    BY <1>6, <2>2 DEF Of, Mirror!Of, Ahead
  <2>4. {n \in r.plan \ r.want : n.id = m.id} = {m}
    BY DEF Rewriting
  <2>5. Done(r, m.id) = RulesOf(m)
    BY <2>4 DEF Done
  <2> QED
    BY <2>3, <2>5
<1>9. ASSUME NEW i, i # m.id
      PROVE  Done(r, i) = Done(s, i)
  <2>1. {n \in r.plan \ r.want : n.id = i} = {n \in s.plan \ s.want : n.id = i}
    BY <1>9
  <2> QED
    BY <2>1 DEF Done
<1>10. \A i \in ScopeOf(r) \ r.bad : Of(i, Ahead(r, R)) = Done(r, i)
  <2> TAKE i \in ScopeOf(r) \ r.bad
  <2>1. CASE i = m.id
    BY <1>8, <2>1
  <2>2. CASE i # m.id
    BY <1>1, <1>7, <1>9, <2>2 DEF Rewriting
  <2> QED
    BY <2>1, <2>2
<1> QED
  BY <1>4, <1>5, <1>6, <1>10 DEF Rewriting

\* A rule is added, or its addition fails.
LEMMA AddKeeps ==
  ASSUME NEW s \in ThreadState, NEW R \in SUBSET Rule, NEW S,
         Rewriting(s, R, S), StaleOf(s) = {}, NEW x, x \in s.add,
         NEW Q, Q = R \/ Q = R \cup {x},
         NEW r \in ThreadState, r.op = s.op, r.id = s.id, r.cur = s.cur,
         r.plan = s.plan, r.want = s.want, r.add = s.add \ {x}, r.gone = s.gone,
         \/ r.bad = s.bad /\ Q = R \cup {x}
         \/ r.bad = s.bad \cup {x.id}
  PROVE  Rewriting(r, Q, S)
<1>1. ScopeOf(r) = ScopeOf(s)
  BY DEF ScopeOf
<1>2. x \in Rule /\ x.id = s.cur /\ s.cur # 0
  <2>1. x \in Rule
    BY DEF ThreadState
  <2> QED
    BY <2>1, RuleIds DEF Rewriting
<1>3. x.id \in ScopeOf(s) /\ x \notin s.gone
  BY <1>2 DEF Rewriting, StaleOf, Of, Mirror!Of
<1>4. /\ r.bad \subseteq ScopeOf(r)
      /\ r.cur \in ScopeOf(r) \cup {0}
      /\ \A y \in r.gone : y.id \in ScopeOf(r)
      /\ r.want \subseteq r.plan
      /\ \A y \in r.add : y.id = r.cur
      /\ \A y \in r.gone :
           r.cur = 0 \/ y.id = r.cur \/ \E m \in r.want : y.id = m.id
  BY <1>1, <1>3 DEF Rewriting
<1>5. ASSUME NEW i \in Id \ ScopeOf(r)
      PROVE  Of(i, Q) = Of(i, S)
  <2>1. Of(i, Q) = Of(i, R)
    BY <1>1, <1>3 DEF Of, Mirror!Of
  <2> QED
    BY <1>1, <2>1 DEF Rewriting
<1>6. ASSUME NEW i, i \notin r.bad
      PROVE  i \notin s.bad /\ Of(i, Ahead(r, Q)) = Of(i, Ahead(s, R))
  BY <1>3, <1>6 DEF Of, Mirror!Of, Ahead
<1>7. \A i : Done(r, i) = Done(s, i)
  BY DEF Done
<1>8. \A i \in ScopeOf(r) \ r.bad : Of(i, Ahead(r, Q)) = Done(r, i)
  BY <1>1, <1>6, <1>7 DEF Rewriting
<1> QED
  BY <1>4, <1>5, <1>8 DEF Rewriting

\* When nothing is left to do, every mapping in scope that no failure hit has
\* the rules it was planned to have.
LEMMA DoneWhole ==
  ASSUME NEW s \in ThreadState, NEW R \in SUBSET Rule, NEW S,
         Rewriting(s, R, S), StaleOf(s) = {}, s.add = {}, s.want = {},
         NEW i \in ScopeOf(s) \ s.bad
  PROVE  Of(i, R) = Mirror!Planned([scope |-> ScopeOf(s), plan |-> s.plan], i)
<1>1. s.gone = {}
  BY DEF Rewriting, StaleOf, Of, Mirror!Of
<1>2. Ahead(s, R) = R
  BY <1>1 DEF Ahead
<1>3. s.plan \ s.want = s.plan
  OBVIOUS
<1>4. Done(s, i) = Mirror!Planned([scope |-> ScopeOf(s), plan |-> s.plan], i)
  BY <1>3 DEF Done, Mirror!Planned, RulesOf
<1> QED
  BY <1>2, <1>4 DEF Rewriting

-----------------------------------------------------------------------------
(* What a step of one thread keeps.                                          *)

CoreInv == SetsInv /\ ThreadsInv /\ LockInv /\ RewriteInv

\* A step keeps the invariant (but for reqs) and is a step of NatMirror, or
\* none.
StepKeeps ==
  /\ RowsInv' /\ CoreInv' /\ faults' \in 0..MaxFault
  /\ [Mirror!Next]_(Mirror!vars)

\* Two states of a thread that differ in no more than the history mixed.
Alike(r, s) ==
  /\ r.op = s.op /\ r.pc = s.pc /\ r.id = s.id /\ r.m = s.m
  /\ r.gone = s.gone /\ r.want = s.want /\ r.cur = s.cur
  /\ r.add = s.add /\ r.bad = s.bad /\ r.plan = s.plan

\* A thread about which only the history changes keeps all that is required
\* of it.
LEMMA AlikeKeeps ==
  ASSUME NEW s, NEW r \in ThreadState, Alike(r, s), Good(s)
  PROVE  /\ Good(r)
         /\ Critical(r) <=> Critical(s)
         /\ \A R, S : Rewriting(s, R, S) => Rewriting(r, R, S)
<1>1. Good(r) /\ (Critical(r) <=> Critical(s))
  BY DEF Alike, Good, Critical, ScopeOf, PlanOf
<1>2. /\ ScopeOf(r) = ScopeOf(s) /\ \A R : Ahead(r, R) = Ahead(s, R)
      /\ \A i : Done(r, i) = Done(s, i)
  BY DEF Alike, ScopeOf, Ahead, Done
<1>3. ASSUME NEW R, NEW S, Rewriting(s, R, S)
      PROVE  Rewriting(r, R, S)
  BY <1>2, <1>3 DEF Alike, Rewriting
<1> QED
  BY <1>1, <1>3

\* A thread that is done is in type.
LEMMA IdleGood == IdleThread \in ThreadState /\ Good(IdleThread)
<1>1. 0 \in 0..MaxId /\ BlankRow \in Row
  BY NATAssumption DEF NATAssumption, BlankRow, Row
<1>2. IdleThread \in ThreadState
  BY <1>1 DEF IdleThread, ThreadState, Op, Label
<1> QED
  BY <1>2 DEF Good, IdleThread

\* The helpers of the steps, as operators of a thread's state.
LEMMA ScopeIsScopeOf ==
  ASSUME ThreadsInv, NEW t \in Req
  PROVE  /\ Scope(t) = ScopeOf(th[t])
         /\ Scope(t) \subseteq Id /\ th[t].mixed \subseteq Id
         /\ InCritical(t) <=> Critical(th[t])
         /\ Stale(t) = StaleOf(th[t])
<1>1. th[t] \in ThreadState /\ Good(th[t])
  BY DEF ThreadsInv
<1>2. Scope(t) = ScopeOf(th[t]) /\ Stale(t) = StaleOf(th[t])
      /\ (InCritical(t) <=> Critical(th[t]))
  BY DEF Scope, ScopeOf, Stale, StaleOf, InCritical, Critical, Id, Mirror!Id
<1>3. th[t].id \in 0..MaxId /\ th[t].mixed \subseteq Id
  BY <1>1 DEF ThreadState
<1>4. Scope(t) \subseteq Id
  BY <1>3, NATAssumption DEF NATAssumption, Scope, Id, Mirror!Id
<1> QED
  BY <1>2, <1>3, <1>4

\* A step of a thread that gives up no mutex.
LEMMA InsideStep ==
  ASSUME CoreInv, SetsInv', th' \in [Req -> ThreadState], NEW t \in Req,
         Good(th'[t]), \A u \in Req \ {t} : Alike(th'[u], th[u]),
         lock' = lock \/ (lock = NoReq /\ lock' = t),
         Critical(th'[t]) <=> lock' = t,
         stable' = stable, router' = router \/ th[t].pc = "work",
         th'[t].pc = "work" => Rewriting(th'[t], router', stable),
         th[t].pc = "work" => th'[t].pc = "work"
  PROVE  CoreInv'
<1>1. \A u \in Req : th'[u] \in ThreadState /\ Good(th[u])
  BY DEF CoreInv, ThreadsInv
<1>2. ASSUME NEW u \in Req, u # t
      PROVE  /\ Good(th'[u]) /\ (Critical(th'[u]) <=> Critical(th[u]))
             /\ th'[u].pc = th[u].pc
             /\ \A R, S : Rewriting(th[u], R, S) => Rewriting(th'[u], R, S)
  <2>1. Alike(th'[u], th[u])
    BY <1>2
  <2> QED
    BY <1>1, <2>1, AlikeKeeps DEF Alike
<1>3. ThreadsInv'
  BY <1>2 DEF ThreadsInv
<1>4. LockInv'
  BY <1>2, NATAssumption DEF LockInv, CoreInv, NATAssumption
<1>5. ASSUME NEW u \in Req, th'[u].pc = "work"
      PROVE  Rewriting(th'[u], router', stable')
  <2>1. CASE u = t
    BY <1>5, <2>1
  <2>2. CASE u # t
    <3>1. th[u].pc = "work" /\ lock = u
      BY <1>2, <1>5, <2>2 DEF CoreInv, LockInv, Critical
    <3>2. router' = router
      BY <2>2, <3>1 DEF CoreInv, LockInv, Critical
    <3> QED
      BY <1>2, <2>2, <3>1, <3>2 DEF CoreInv, RewriteInv
  <2> QED
    BY <2>1, <2>2
<1>6. ASSUME \A u \in Req : th'[u].pc # "work"
      PROVE  router' = stable'
  <2>1. \A u \in Req : th[u].pc # "work"
    BY <1>2, <1>6
  <2> QED
    BY <2>1 DEF CoreInv, RewriteInv
<1> QED
  BY <1>3, <1>4, <1>5, <1>6 DEF CoreInv, RewriteInv

\* The operation under way, as an operator of the state of its thread.
LEMMA SectionIs ==
  ASSUME IInv
  PROVE  /\ lock = NoReq => Section = Mirror!Idle
         /\ \A t \in Req :
              lock = t =>
                Section = IF th[t].pc = "list" THEN Mirror!Idle
                          ELSE [scope |-> ScopeOf(th[t]), plan |-> th[t].plan]
<1>1. \A t \in Req : Scope(t) = ScopeOf(th[t]) /\ t # NoReq
  BY ScopeIsScopeOf, NATAssumption DEF IInv, NATAssumption
<1> QED
  BY <1>1 DEF Section, Mirror!Idle

\* It stays the same while its thread keeps its place and its request.
LEMMA SectionSame ==
  ASSUME IInv, lock' = lock,
         \A u \in Req :
           u = lock => /\ th'[u].pc = "list" <=> th[u].pc = "list"
                       /\ th'[u].op = th[u].op /\ th'[u].id = th[u].id
                       /\ th'[u].plan = th[u].plan
  PROVE  Section' = Section
<1>1. lock \in Req \cup {NoReq}
  BY DEF IInv, SetsInv
<1> QED
  BY <1>1 DEF Section, Scope

\* A step outside the work on the router, to state r.
LEMMA OwnStep ==
  ASSUME IInv, NEW t \in Req, NEW r, Good(r), th' = [th EXCEPT ![t] = r],
         Critical(r) <=> Critical(th[t]), th[t].pc # "work",
         Critical(r) => /\ r.pc # "list" /\ th[t].pc # "list"
                        /\ r.op = th[t].op /\ r.id = th[t].id
                        /\ r.plan = th[t].plan,
         r.pc = "work" => Rewriting(r, router, stable),
         RowsInv', faults' \in 0..MaxFault, blurred' \subseteq Id,
         UNCHANGED <<router, lock, stable, failed>>
  PROVE  StepKeeps
<1>1. r \in ThreadState /\ th \in [Req -> ThreadState]
  BY DEF Good, IInv, ThreadsInv
<1>2. th' \in [Req -> ThreadState] /\ th'[t] = r
      /\ \A u \in Req \ {t} : th'[u] = th[u]
  BY <1>1
<1>3. \A u \in Req \ {t} : Alike(th'[u], th[u])
  BY <1>2 DEF Alike
<1>4. SetsInv'
  BY DEF IInv, SetsInv
<1>5. Critical(th'[t]) <=> lock' = t
  BY <1>2 DEF IInv, LockInv
<1>6. CoreInv'
  BY <1>2, <1>3, <1>4, <1>5, InsideStep DEF IInv, CoreInv
<1>7. lock' = lock /\ (lock = t => Critical(r))
  BY DEF IInv, LockInv
<1>8. Section' = Section
  BY <1>2, <1>7, SectionSame
<1> QED
  BY <1>6, <1>8 DEF StepKeeps, Mirror!vars

\* A step of the work on the router, to state r.
LEMMA WorkStep ==
  ASSUME IInv, NEW t \in Req, NEW r, Good(r), th' = [th EXCEPT ![t] = r],
         th[t].pc = "work", r.pc = "work", router' \subseteq Rule,
         Rewriting(r, router', stable), faults' \in 0..MaxFault,
         r.op = th[t].op, r.id = th[t].id, r.plan = th[t].plan,
         UNCHANGED <<db, lock, stable, failed, blurred>>
  PROVE  StepKeeps
<1>1. r \in ThreadState /\ th \in [Req -> ThreadState]
  BY DEF Good, IInv, ThreadsInv
<1>2. th' \in [Req -> ThreadState] /\ th'[t] = r
      /\ \A u \in Req \ {t} : th'[u] = th[u]
  BY <1>1
<1>3. \A u \in Req \ {t} : Alike(th'[u], th[u])
  BY <1>2 DEF Alike
<1>4. SetsInv' /\ RowsInv'
  BY DEF IInv, SetsInv, RowsInv, db
<1>5. Critical(th'[t]) <=> lock' = t
  BY <1>2 DEF IInv, LockInv, Critical
<1>6. CoreInv'
  BY <1>2, <1>3, <1>4, <1>5, InsideStep DEF IInv, CoreInv
<1>7. Section' = Section
  BY <1>2, SectionSame
<1> QED
  BY <1>4, <1>6, <1>7 DEF StepKeeps, Mirror!vars

\* The end of a critical section.
LEMMA ReleaseStep ==
  ASSUME IInv, NEW t \in Req, NEW R \in SUBSET Rule, NEW bad \in SUBSET Id,
         th[t].pc \in {"print", "work"}, Release(t, R, bad),
         bad \subseteq Scope(t),
         \A i \in Id \ Scope(t) : Of(i, R) = Of(i, stable),
         \A i \in Scope(t) \ bad : Of(i, R) = Mirror!Planned(Section, i),
         faults' \in 0..MaxFault, UNCHANGED db
  PROVE  StepKeeps
<1>1. th \in [Req -> ThreadState] /\ th[t] \in ThreadState /\ Good(th[t])
  BY DEF IInv, ThreadsInv
<1>2. Scope(t) \subseteq Id /\ th[t].mixed \subseteq Id
  BY ScopeIsScopeOf DEF IInv
<1>3. PICK r \in ThreadState :
        /\ th' = [th EXCEPT ![t] = r] /\ Good(r) /\ ~Critical(r)
        /\ blurred' \subseteq Id
  <2>1. CASE th[t].op = "disable"
    <3> DEFINE r == [IdleThread EXCEPT !.op = "disable", !.pc = "check",
                       !.id = th[t].id, !.m = th[t].m, !.mixed = th[t].mixed]
    <3>1. r \in ThreadState
      BY <1>1, <1>2, IdleGood DEF ThreadState, Op, Label
    <3>2. Good(r) /\ ~Critical(r)
      BY <1>1, <2>1, <3>1, IdleGood
      DEF Good, Critical, IdleThread, ThreadState
    <3>3. th' = [th EXCEPT ![t] = r] /\ blurred' = blurred
      BY <2>1 DEF Release
    <3> QED
      BY <3>1, <3>2, <3>3 DEF IInv, SetsInv
  <2>2. CASE th[t].op = "delete"
    <3> DEFINE r == [IdleThread EXCEPT !.op = "delete", !.pc = "remove",
                       !.id = th[t].id, !.mixed = th[t].mixed]
    <3>1. r \in ThreadState
      BY <1>1, <1>2, IdleGood DEF ThreadState, Op, Label
    <3>2. Good(r) /\ ~Critical(r)
      BY <1>1, <2>2, <3>1, IdleGood
      DEF Good, Critical, IdleThread, ThreadState
    <3>3. th' = [th EXCEPT ![t] = r] /\ blurred' = blurred
      BY <2>2 DEF Release
    <3> QED
      BY <3>1, <3>2, <3>3 DEF IInv, SetsInv
  <2>3. CASE th[t].op \notin {"disable", "delete"}
    <3>1. Finish(t)
      BY <2>3 DEF Release
    <3>2. ~Critical(IdleThread)
      BY DEF IdleThread, Critical
    <3> QED
      BY <1>2, <3>1, <3>2, IdleGood DEF Finish, IInv, SetsInv
  <2> QED
    BY <2>1, <2>2, <2>3
<1>4. th' \in [Req -> ThreadState] /\ th'[t] = r
      /\ \A u \in Req \ {t} : th'[u] = th[u]
  BY <1>1, <1>3
<1>5. /\ lock = t /\ lock' = NoReq /\ router' = R /\ stable' = R
      /\ failed' = (failed \ Scope(t)) \cup bad
  BY DEF Release, IInv, LockInv, Critical
<1>6. SetsInv' /\ RowsInv'
  BY <1>2, <1>3, <1>5 DEF IInv, SetsInv, RowsInv, db
<1>7. ThreadsInv'
  BY <1>3, <1>4 DEF IInv, ThreadsInv
<1>8. \A u \in Req : ~Critical(th'[u])
  BY <1>3, <1>4, <1>5 DEF IInv, LockInv
<1>9. LockInv' /\ RewriteInv'
  BY <1>5, <1>8, NATAssumption
  DEF LockInv, RewriteInv, Critical, NATAssumption
<1>10. Section.scope = Scope(t) /\ Section' = Mirror!Idle
  <2>1. lock = t /\ Scope(t) = ScopeOf(th[t]) /\ th[t].pc # "list"
    BY <1>5, ScopeIsScopeOf DEF IInv
  <2>2. Section = [scope |-> ScopeOf(th[t]), plan |-> th[t].plan]
    BY <2>1, SectionIs
  <2>3. Section' = Mirror!Idle
    BY <1>5 DEF Section, Mirror!Idle
  <2> QED
    BY <2>1, <2>2, <2>3
<1>11. Mirror!Next
  <2>1. stable' \subseteq Mirror!Rule
    BY <1>5 DEF Rule
  <2>2. \A i \in Mirror!Id \ Section.scope :
          Mirror!Of(i, stable') = Mirror!Of(i, stable)
    BY <1>5, <1>10 DEF Of, Id
  <2>3. /\ bad \in SUBSET Section.scope
        /\ \A i \in Section.scope \ bad :
             Mirror!Of(i, stable') = Mirror!Planned(Section, i)
        /\ failed' = (failed \ Section.scope) \cup bad
    BY <1>5, <1>10 DEF Of
  <2>4. Mirror!End
    BY <1>10, <2>1, <2>2, <2>3 DEF Mirror!End
  <2> QED
    BY <2>4 DEF Mirror!Next
<1> QED
  BY <1>6, <1>7, <1>9, <1>11 DEF StepKeeps, CoreInv

-----------------------------------------------------------------------------
(* The actions.                                                              *)

\* A new request on scope: the threads it races with take note of it.
LEMMA EnterStep ==
  ASSUME IInv, NEW t \in Req, NEW o \in Op, NEW scope \in SUBSET Id, NEW r,
         Good(r), r.mixed = {}, ~Critical(r), ~Busy(t),
         Enter(t, o, scope, r), UNCHANGED <<db, net, blurred>>
  PROVE  StepKeeps
<1> DEFINE N == Rivals(t, o, scope)
           mix(u) == IF u = t THEN UNION {scope \cap Scope(v) : v \in N}
                     ELSE IF u \in N THEN th[u].mixed \cup (scope \cap Scope(u))
                     ELSE th[u].mixed
           base(u) == IF u = t THEN r ELSE th[u]
<1>1. th \in [Req -> ThreadState] /\ r \in ThreadState
      /\ \A u \in Req : Good(th[u]) /\ Scope(u) \subseteq Id
                        /\ th[u].mixed \subseteq Id
  BY ScopeIsScopeOf DEF IInv, ThreadsInv, Good
<1>2. \A u \in Req : mix(u) \in SUBSET Id /\ base(u) \in ThreadState
  BY <1>1
<1>3. ASSUME NEW u \in Req
      PROVE  /\ th'[u] = [base(u) EXCEPT !.mixed = mix(u)] \/ th'[u] = base(u)
             /\ th'[u] \in ThreadState /\ Alike(th'[u], base(u))
  <2>1. th'[u] = [base(u) EXCEPT !.mixed = mix(u)] \/ th'[u] = base(u)
    BY DEF Enter
  <2> HIDE DEF mix, base
  <2> QED
    BY <1>2, <2>1 DEF ThreadState, Alike
<1>4. th' \in [Req -> ThreadState]
  <2>1. DOMAIN th' = Req /\ th' = [u \in Req |-> th'[u]]
    BY DEF Enter
  <2> QED
    BY <1>3, <2>1
<1>5. Alike(th'[t], r) /\ \A u \in Req \ {t} : Alike(th'[u], th[u])
  BY <1>3
<1>6. Good(th'[t]) /\ ~Critical(th'[t])
  BY <1>3, <1>5, AlikeKeeps
<1>7. SetsInv' /\ RowsInv' /\ faults' \in 0..MaxFault
  BY DEF IInv, SetsInv, RowsInv, CountInv, db, net
<1>8. lock' = lock /\ lock' # t /\ th'[t].pc # "work" /\ th[t].pc # "work"
  BY <1>6 DEF IInv, LockInv, Critical, Busy, net
<1>9. CoreInv'
  BY <1>4, <1>5, <1>6, <1>7, <1>8, InsideStep DEF IInv, CoreInv, net
<1>10. Section' = Section
  BY <1>5, <1>8, SectionSame DEF Alike
<1> QED
  BY <1>7, <1>9, <1>10 DEF StepKeeps, Mirror!vars, net

\* A thread takes a request and runs its first statement.
LEMMA RequestKeeps ==
  ASSUME IInv, NEW t \in Req, Request(t)
  PROVE  StepKeeps
<1>1. 0 \in 0..MaxId /\ Id \subseteq 0..MaxId
  BY NATAssumption DEF NATAssumption, Id, Mirror!Id
<1>2. CASE CreateRequest(t)
  <2>1. PICK p \in Port, q \in Masqs, e \in BOOLEAN :
          th' = [th EXCEPT ![t] = [IdleThread EXCEPT
                   !.op = "create", !.pc = "write",
                   !.m = [port |-> p, masq |-> q, enabled |-> e]]]
    BY <1>2 DEF CreateRequest
  <2> DEFINE m == [port |-> p, masq |-> q, enabled |-> e]
             r == [IdleThread EXCEPT !.op = "create", !.pc = "write", !.m = m]
  <2>2. m \in Row /\ m.port \in Port
    BY NATAssumption DEF NATAssumption, Row
  <2> HIDE DEF m
  <2>3. r \in ThreadState
    BY <2>2, IdleGood DEF ThreadState, Op, Label
  <2>4. Good(r) /\ ~Critical(r) /\ r.pc # "work"
    BY <2>2, <2>3, IdleGood DEF Good, Critical, IdleThread, ThreadState
  <2>5. th' = [th EXCEPT ![t] = r] /\ th[t].pc = "idle"
    BY <1>2, <2>1 DEF m, CreateRequest, Busy
  <2>6. ~Critical(th[t]) /\ th[t].pc # "work"
    BY <2>5 DEF Critical
  <2> HIDE DEF r
  <2>7. RowsInv' /\ faults' \in 0..MaxFault /\ blurred' \subseteq Id
    BY <1>2 DEF CreateRequest, IInv, RowsInv, CountInv, SetsInv, db, net
  <2> QED
    BY <1>2, <2>4, <2>5, <2>6, <2>7, OwnStep DEF CreateRequest, net
<1>3. ASSUME NEW o \in {"update", "enable", "disable"}, NEW i \in Id,
             NEW l \in {"check", "lock"}, NEW m \in Row, Read(t, o, i, l, m),
             m.port \in Port
      PROVE  StepKeeps
  <2> DEFINE r == [IdleThread EXCEPT !.op = o, !.pc = l, !.id = i, !.m = m]
  <2>1. r \in ThreadState
    BY <1>1, IdleGood DEF ThreadState, Op, Label
  <2>2. Good(r) /\ r.mixed = {} /\ ~Critical(r)
    BY <1>3, <2>1, IdleGood DEF Good, Critical, IdleThread, ThreadState
  <2> HIDE DEF r
  <2>3. ~Busy(t) /\ Enter(t, o, {i}, r) /\ UNCHANGED <<db, net, blurred>>
    BY <1>3 DEF Read, r
  <2>4. o \in Op /\ {i} \in SUBSET Id
    BY DEF Op
  <2> QED
    BY <2>2, <2>3, <2>4, EnterStep
<1>4. CASE SyncRequest(t)
  <2> DEFINE r == [IdleThread EXCEPT !.op = "sync", !.pc = "lock"]
  <2>1. r \in ThreadState
    BY IdleGood DEF ThreadState, Op, Label
  <2>2. Good(r) /\ r.mixed = {} /\ ~Critical(r)
    BY <2>1, IdleGood DEF Good, Critical, IdleThread, ThreadState
  <2> HIDE DEF r
  <2>3. ~Busy(t) /\ Enter(t, "sync", Id, r) /\ UNCHANGED <<db, net, blurred>>
    BY <1>4 DEF SyncRequest, r
  <2>4. "sync" \in Op
    BY DEF Op
  <2> QED
    BY <2>2, <2>3, <2>4, EnterStep
<1>5. ASSUME NEW i \in Id, DeleteRequest(t, i)
      PROVE  StepKeeps
  <2> DEFINE r == [IdleThread EXCEPT !.op = "delete", !.pc = "lock", !.id = i]
  <2>1. r \in ThreadState
    BY <1>1, IdleGood DEF ThreadState, Op, Label
  <2>2. Good(r) /\ r.mixed = {} /\ ~Critical(r)
    BY <2>1, IdleGood DEF Good, Critical, IdleThread, ThreadState
  <2> HIDE DEF r
  <2>3. ~Busy(t) /\ Enter(t, "delete", {i}, r)
        /\ UNCHANGED <<db, net, blurred>>
    BY <1>5 DEF DeleteRequest, r
  <2>4. "delete" \in Op /\ {i} \in SUBSET Id
    BY DEF Op
  <2> QED
    BY <2>2, <2>3, <2>4, EnterStep
<1>6. ASSUME NEW i \in Id, UpdateRequest(t, i)
      PROVE  StepKeeps
  <2>1. PICK p \in Port, q \in Masqs, e \in BOOLEAN :
          Read(t, "update", i, "check", [port |-> p, masq |-> q, enabled |-> e])
    BY <1>6 DEF UpdateRequest
  <2>2. [port |-> p, masq |-> q, enabled |-> e] \in Row
    BY NATAssumption DEF NATAssumption, Row
  <2> QED
    BY <1>3, <2>1, <2>2
<1>7. ASSUME NEW i \in Id, EnableRequest(t, i)
      PROVE  StepKeeps
  <2>1. row[i] \in Row /\ row[i].port \in Port
    BY <1>7 DEF EnableRequest, Read, IInv, RowsInv
  <2>2. [row[i] EXCEPT !.enabled = TRUE] \in Row
        /\ [row[i] EXCEPT !.enabled = TRUE].port \in Port
    BY <2>1 DEF Row
  <2> QED
    BY <1>3, <1>7, <2>2 DEF EnableRequest
<1>8. ASSUME NEW i \in Id, DisableRequest(t, i)
      PROVE  StepKeeps
  <2>1. row[i] \in Row /\ row[i].port \in Port
    BY <1>8 DEF DisableRequest, Read, IInv, RowsInv
  <2>2. [row[i] EXCEPT !.enabled = FALSE] \in Row
        /\ [row[i] EXCEPT !.enabled = FALSE].port \in Port
    BY <2>1 DEF Row
  <2> QED
    BY <1>3, <1>8, <2>2 DEF DisableRequest
<1> QED
  BY <1>2, <1>4, <1>5, <1>6, <1>7, <1>8 DEF Request

\* A thread outside a critical section ends its request.
LEMMA EndStep ==
  ASSUME IInv, NEW t \in Req, Finish(t) \/ GiveUp(t), ~Critical(th[t]),
         RowsInv', faults' \in 0..MaxFault,
         UNCHANGED <<router, lock, stable, failed>>
  PROVE  StepKeeps
<1>1. th' = [th EXCEPT ![t] = IdleThread] /\ blurred' \subseteq Id
  BY ScopeIsScopeOf DEF Finish, GiveUp, IInv, SetsInv
<1>2. ~Critical(IdleThread) /\ IdleThread.pc # "work" /\ th[t].pc # "work"
  BY DEF IdleThread, Critical
<1> QED
  BY <1>1, <1>2, IdleGood, OwnStep

\* An SQL statement: what is written into a row has a port.
LEMMA StatementKeeps ==
  ASSUME IInv, NEW t \in Req, Statement(t)
  PROVE  StepKeeps
<1>1. /\ th \in [Req -> ThreadState] /\ th[t] \in ThreadState /\ Good(th[t])
      /\ th[t].m \in Row /\ th[t].id \in 0..MaxId
  BY DEF IInv, ThreadsInv, ThreadState
<1>2. th[t].pc \in {"check", "write", "remove"}
  BY DEF Statement, Insert, Check, Write, Remove
<1>3. ~Critical(th[t]) /\ th[t].pc # "work"
  BY <1>2 DEF Critical
<1>4. CASE Insert(t)
  <2>1. CASE GiveUp(t) /\ UNCHANGED db
    BY <1>3, <1>4, <2>1, EndStep DEF Insert, IInv, RowsInv, CountInv, db, net
  <2>2. CASE ~(GiveUp(t) /\ UNCHANGED db)
    <3>1. /\ lastId < MaxId /\ lastId' = lastId + 1
          /\ rows' = rows \cup {lastId + 1}
          /\ row' = [row EXCEPT ![lastId + 1] = th[t].m]
          /\ IF th[t].m.enabled
               THEN th' = [th EXCEPT ![t].pc = "lock", ![t].id = lastId + 1]
               ELSE th' = [th EXCEPT ![t] = IdleThread]
          /\ blurred' = blurred /\ UNCHANGED net
          /\ th[t].op = "create" /\ th[t].pc = "write"
      BY <1>4, <2>2 DEF Insert
    <3>2. lastId' \in 0..MaxId /\ lastId' \in Id
      BY <3>1, NATAssumption
      DEF IInv, RowsInv, NATAssumption, Id, Mirror!Id
    <3>3. th[t].m.port \in Port
      BY <1>1, <3>1 DEF Good
    <3>4. RowsInv'
      BY <1>1, <3>1, <3>2, <3>3 DEF IInv, RowsInv
    <3>5. faults' \in 0..MaxFault /\ blurred' \subseteq Id
          /\ UNCHANGED <<router, lock, stable, failed>>
      BY <3>1 DEF IInv, CountInv, SetsInv, net
    <3>6. CASE th[t].m.enabled
      <4> DEFINE r == [th[t] EXCEPT !.pc = "lock", !.id = lastId']
      <4>1. th' = [th EXCEPT ![t] = r]
        BY <1>1, <3>1, <3>6
      <4>2. r \in ThreadState
        BY <1>1, <3>2 DEF ThreadState, Label
      <4>3. Good(r) /\ ~Critical(r) /\ r.pc # "work"
        BY <1>1, <3>1, <3>2, <3>3, <4>2 DEF Good, Critical, ThreadState
      <4> HIDE DEF r
      <4> QED
        BY <1>3, <3>4, <3>5, <4>1, <4>3, OwnStep
    <3>7. CASE ~th[t].m.enabled
      <4>1. th' = [th EXCEPT ![t] = IdleThread]
        BY <3>1, <3>7
      <4>2. ~Critical(IdleThread) /\ IdleThread.pc # "work"
        BY DEF IdleThread, Critical
      <4> QED
        BY <1>3, <3>4, <3>5, <4>1, <4>2, IdleGood, OwnStep
    <3> QED
      BY <3>6, <3>7
  <2> QED
    BY <2>1, <2>2
<1>5. CASE Check(t)
  <2>1. RowsInv' /\ faults' \in 0..MaxFault
        /\ UNCHANGED <<router, lock, stable, failed>>
    BY <1>5 DEF Check, IInv, RowsInv, CountInv, db, net
  <2>2. CASE Finish(t) \/ GiveUp(t)
    BY <1>3, <2>1, <2>2, EndStep
  <2>3. CASE Goto(t, "write") /\ blurred' = blurred
    <3> DEFINE r == [th[t] EXCEPT !.pc = "write"]
    <3>1. th' = [th EXCEPT ![t] = r]
      BY <1>1, <2>3 DEF Goto
    <3>2. r \in ThreadState
      BY <1>1 DEF ThreadState, Label
    <3>3. Good(r) /\ ~Critical(r) /\ r.pc # "work"
      BY <1>1, <1>5, <3>2 DEF Check, Good, Critical, ThreadState
    <3>4. blurred' \subseteq Id
      BY <2>3 DEF IInv, SetsInv
    <3> HIDE DEF r
    <3> QED
      BY <1>3, <2>1, <3>1, <3>3, <3>4, OwnStep
  <2> QED
    BY <1>5, <2>2, <2>3 DEF Check
<1>6. CASE Write(t)
  <2>1. faults' \in 0..MaxFault /\ UNCHANGED <<router, lock, stable, failed>>
    BY <1>6 DEF Write, IInv, CountInv, net
  <2>2. th[t].op \in {"update", "enable", "disable"} /\ th[t].m.port \in Port
        /\ th[t].pc = "write"
    BY <1>1, <1>6 DEF Write, Good
  <2>3. RowsInv'
    <3>1. CASE UNCHANGED db
      BY <3>1 DEF IInv, RowsInv, db
    <3>2. CASE /\ row' = IF th[t].id \in rows
                           THEN [row EXCEPT ![th[t].id] = th[t].m] ELSE row
               /\ UNCHANGED <<rows, lastId>>
      BY <1>1, <2>2, <3>2 DEF IInv, RowsInv
    <3> QED
      BY <1>6, <3>1, <3>2 DEF Write
  <2>4. CASE Finish(t) \/ GiveUp(t)
    BY <1>3, <2>1, <2>3, <2>4, EndStep
  <2>5. CASE Goto(t, "lock") /\ blurred' = blurred
    <3> DEFINE r == [th[t] EXCEPT !.pc = "lock"]
    <3>1. th' = [th EXCEPT ![t] = r]
      BY <1>1, <2>5 DEF Goto
    <3>2. r \in ThreadState
      BY <1>1 DEF ThreadState, Label
    <3>3. Good(r) /\ ~Critical(r) /\ r.pc # "work"
      BY <1>1, <2>2, <3>2 DEF Good, Critical, ThreadState
    <3>4. blurred' \subseteq Id
      BY <2>5 DEF IInv, SetsInv
    <3> HIDE DEF r
    <3> QED
      BY <1>3, <2>1, <2>3, <3>1, <3>3, <3>4, OwnStep
  <2> QED
    BY <1>6, <2>4, <2>5 DEF Write
<1>7. CASE Remove(t)
  <2>1. BlankRow \in Row
    BY DEF BlankRow, Row
  <2>2. RowsInv'
    BY <1>1, <1>7, <2>1 DEF Remove, IInv, RowsInv
  <2>3. Finish(t) /\ faults' \in 0..MaxFault
        /\ UNCHANGED <<router, lock, stable, failed>>
    BY <1>7 DEF Remove, IInv, CountInv, net
  <2> QED
    BY <1>3, <2>2, <2>3, EndStep
<1> QED
  BY <1>4, <1>5, <1>6, <1>7 DEF Statement

\* What a thread that has the mutex is to install: of its own mapping only,
\* one version of each.
LEMMA WantedPlan ==
  ASSUME IInv, NEW t \in Req, th[t].pc \in {"lock", "print"}
  PROVE  /\ Wanted(t) = PlanOf(th[t]) /\ Wanted(t) \subseteq Mapping
         /\ th[t].op # "sync" =>
              /\ \A m \in Wanted(t) : m.id \in Scope(t)
              /\ \A m, n \in Wanted(t) : m.id = n.id => m = n
              /\ Wanted(t) = {} \/ \E m \in Mapping : Wanted(t) = {m}
<1>1. th[t] \in ThreadState /\ Good(th[t]) /\ th[t].m \in Row
      /\ th[t].want \subseteq Mapping
  BY DEF IInv, ThreadsInv, ThreadState
<1>2. Wanted(t) = PlanOf(th[t])
  BY DEF Wanted, PlanOf
<1>3. CASE th[t].op = "sync"
  BY <1>1, <1>2, <1>3 DEF PlanOf
<1>4. CASE th[t].op \in {"create", "update", "enable"} /\ th[t].m.enabled
  <2>1. th[t].id \in Id /\ th[t].m.port \in Port /\ th[t].m.masq \in BOOLEAN
    BY <1>1, <1>4 DEF Good, Row
  <2>2. th[t].id # 0
    BY <2>1, NATAssumption DEF NATAssumption, Id, Mirror!Id
  <2>3. Scope(t) = {th[t].id}
    BY <1>4, <2>2 DEF Scope
  <2> DEFINE m == [id |-> th[t].id, port |-> th[t].m.port,
                   masq |-> th[t].m.masq]
  <2>4. Wanted(t) = {m}
    BY <1>4 DEF Wanted
  <2>5. m \in Mapping /\ m.id = th[t].id
    BY <2>1 DEF Mapping, Mirror!Mapping, Id
  <2> HIDE DEF m
  <2> QED
    BY <1>2, <2>3, <2>4, <2>5
<1>5. CASE Wanted(t) = {} /\ th[t].op # "sync"
  BY <1>2, <1>5
<1>6. \/ th[t].op = "sync"
      \/ th[t].op \in {"create", "update", "enable"} /\ th[t].m.enabled
      \/ Wanted(t) = {} /\ th[t].op # "sync"
  BY DEF Wanted
<1> QED
  BY <1>3, <1>4, <1>5, <1>6

\* The mutex is taken only from nobody, and the operation on one mapping
\* begins.
LEMMA LockKeeps ==
  ASSUME IInv, NEW t \in Req, Lock(t)
  PROVE  StepKeeps
<1> DEFINE l == IF th[t].op = "sync" THEN "list" ELSE "print"
           r == [th[t] EXCEPT !.pc = l, !.plan = Wanted(t)]
<1>1. /\ th \in [Req -> ThreadState] /\ th[t] \in ThreadState /\ Good(th[t])
      /\ th[t].pc = "lock" /\ lock = NoReq /\ lock' = t
  BY DEF Lock, IInv, ThreadsInv
<1>2. th' = [th EXCEPT ![t] = r]
  BY <1>1 DEF Lock
<1>3. /\ l \in {"list", "print"} /\ l \in Label
      /\ l = "list" <=> th[t].op = "sync"
  BY DEF Label
<1>4. /\ Wanted(t) = PlanOf(th[t]) /\ Wanted(t) \subseteq Mapping
      /\ th[t].op # "sync" =>
           /\ \A m \in Wanted(t) : m.id \in Scope(t)
           /\ \A m, n \in Wanted(t) : m.id = n.id => m = n
           /\ Wanted(t) = {} \/ \E m \in Mapping : Wanted(t) = {m}
  BY <1>1, WantedPlan
<1>5. Scope(t) = ScopeOf(th[t])
  BY ScopeIsScopeOf DEF IInv
<1>6. th[t].op = "sync" => \A m, n \in Wanted(t) : m.id = n.id => m = n
  BY <1>1, <1>4 DEF Good, PlanOf
<1> HIDE DEF l
<1>7. /\ r \in ThreadState /\ r.pc = l /\ r.op = th[t].op /\ r.id = th[t].id
      /\ r.m = th[t].m /\ r.want = th[t].want /\ r.add = th[t].add
      /\ r.plan = Wanted(t)
  BY <1>1, <1>3, <1>4 DEF ThreadState
<1> HIDE DEF r
<1>8. ScopeOf(r) = Scope(t) /\ PlanOf(r) = Wanted(t)
  BY <1>4, <1>5, <1>7 DEF ScopeOf, PlanOf
<1>9. Good(r) /\ Critical(r) /\ r.pc # "work"
  BY <1>1, <1>3, <1>4, <1>6, <1>7, <1>8 DEF Good, Critical
<1>10. th' \in [Req -> ThreadState] /\ th'[t] = r
       /\ \A u \in Req \ {t} : Alike(th'[u], th[u])
  BY <1>1, <1>2, <1>7 DEF Alike
<1>11. SetsInv' /\ RowsInv' /\ faults' \in 0..MaxFault
       /\ UNCHANGED <<router, stable, failed>>
  BY DEF Lock, IInv, SetsInv, RowsInv, CountInv, db
<1>12. CoreInv'
  BY <1>1, <1>9, <1>10, <1>11, InsideStep DEF IInv, CoreInv
<1>13. Section = Mirror!Idle
  BY <1>1, SectionIs
<1>14. Section' = IF l = "list" THEN Mirror!Idle
                  ELSE [scope |-> ScopeOf(r), plan |-> Wanted(t)]
  <2>1. t # NoReq /\ th'[t] = r /\ lock' = t
    BY <1>1, <1>10, NATAssumption DEF NATAssumption
  <2>2. Scope(t)' = ScopeOf(r)
    BY <2>1 DEF Scope, ScopeOf, Id, Mirror!Id
  <2>3. Section' = IF th'[t].pc = "list" THEN [scope |-> {}, plan |-> {}]
                   ELSE [scope |-> Scope(t)', plan |-> th'[t].plan]
    BY <2>1 DEF Section, Scope
  <2> QED
    BY <1>7, <2>1, <2>2, <2>3 DEF Mirror!Idle
<1>15. CASE l = "list"
  BY <1>11, <1>12, <1>13, <1>14, <1>15 DEF StepKeeps, Mirror!vars
<1>16. CASE l # "list"
  <2>1. th[t].op # "sync" /\ th[t].id \in Id /\ th[t].id # 0
    <3>1. th[t].op \in {"create", "update", "enable", "disable", "delete"}
      BY <1>1, <1>3, <1>16 DEF Good, ThreadState, Op
    <3> QED
      BY <1>1, <3>1, NATAssumption DEF Good, NATAssumption, Id, Mirror!Id
  <2>2. Section' = [scope |-> {th[t].id}, plan |-> Wanted(t)]
    BY <1>5, <1>8, <1>14, <1>16, <2>1 DEF ScopeOf
  <2>3. Mirror!Single(Section')
    <3>1. CASE Wanted(t) = {}
      BY <2>1, <2>2, <3>1 DEF Mirror!Single, Id
    <3>2. ASSUME NEW m \in Mapping, Wanted(t) = {m}
          PROVE  Mirror!Single(Section')
      <4>1. m.id = th[t].id
        BY <1>4, <1>5, <2>1, <3>2 DEF ScopeOf
      <4> QED
        BY <2>2, <3>2, <4>1 DEF Mirror!Single, Mapping
    <3> QED
      BY <1>4, <2>1, <3>1, <3>2
  <2>4. Mirror!Begin
    BY <1>11, <1>13, <2>3 DEF Mirror!Begin
  <2> QED
    BY <1>11, <1>12, <2>4 DEF StepKeeps, Mirror!Next
<1> QED
  BY <1>15, <1>16

\* The enabled mappings that a full synchronisation reads; it begins.
LEMMA ListKeeps ==
  ASSUME IInv, NEW t \in Req, List(t)
  PROVE  StepKeeps
<1> DEFINE W == {[id |-> i, port |-> row[i].port, masq |-> row[i].masq] :
                   i \in {j \in rows : row[j].enabled}}
           r == [th[t] EXCEPT !.pc = "print", !.want = W, !.plan = W]
<1>1. /\ th \in [Req -> ThreadState] /\ th[t] \in ThreadState /\ Good(th[t])
      /\ th[t].pc = "list" /\ th[t].op = "sync"
  BY DEF List, IInv, ThreadsInv, Good
<1>2. th' = [th EXCEPT ![t] = r]
  BY <1>1 DEF List
<1>3. W \subseteq Mapping /\ \A m, n \in W : m.id = n.id => m = n
  <2>1. \A i \in rows :
          i \in Id /\ row[i].port \in Port /\ row[i].masq \in BOOLEAN
    BY DEF IInv, RowsInv, Row
  <2> QED
    BY <2>1 DEF Mapping, Mirror!Mapping, Id
<1> HIDE DEF W
<1>4. r \in ThreadState
  BY <1>1, <1>3 DEF ThreadState, Label
<1>5. /\ r.op = "sync" /\ r.pc = "print" /\ r.id = th[t].id /\ r.want = W
      /\ r.add = th[t].add /\ r.plan = W
  BY <1>1 DEF ThreadState
<1> HIDE DEF r
<1>6. Good(r) /\ Critical(r) /\ Critical(th[t]) /\ r.pc # "work"
  <2>1. \A m, n \in r.plan : m.id = n.id => m = n
    BY <1>3, <1>5
  <2>2. th[t].add = {} /\ th[t].id = 0
    BY <1>1 DEF Good
  <2>3. \A m \in r.plan : m.id \in ScopeOf(r)
    BY <1>3, <1>5, RulesOfMapping DEF ScopeOf
  <2>4. PlanOf(r) = W
    BY <1>5 DEF PlanOf
  <2> QED
    BY <1>1, <1>4, <1>5, <2>1, <2>2, <2>3, <2>4 DEF Good, Critical
<1>7. th' \in [Req -> ThreadState] /\ th'[t] = r
      /\ \A u \in Req \ {t} : Alike(th'[u], th[u])
  BY <1>1, <1>2, <1>4 DEF Alike
<1>8. RowsInv' /\ SetsInv' /\ faults' \in 0..MaxFault
      /\ UNCHANGED <<router, lock, stable, failed>>
  BY DEF List, IInv, RowsInv, SetsInv, CountInv, db, net
<1>9. lock = t
  BY <1>6 DEF IInv, LockInv
<1>10. CoreInv'
  BY <1>1, <1>6, <1>7, <1>8, <1>9, InsideStep DEF IInv, CoreInv
<1>11. Section = Mirror!Idle
  BY <1>1, <1>9, SectionIs
<1>12. Section' = [scope |-> Id, plan |-> W]
  <2>1. t # NoReq /\ th'[t] = r /\ lock' = t
    BY <1>7, <1>8, <1>9, NATAssumption DEF NATAssumption
  <2>2. Scope(t)' = Id
    BY <1>5, <2>1 DEF Scope, Id, Mirror!Id
  <2>3. Section' = [scope |-> Scope(t)', plan |-> th'[t].plan]
    BY <1>5, <2>1 DEF Section, Scope
  <2> QED
    BY <1>5, <2>1, <2>2, <2>3
<1>13. Mirror!Full(Section')
  BY <1>3, <1>12 DEF Mirror!Full, Id, Mapping
<1>14. Mirror!Begin
  BY <1>8, <1>11, <1>13 DEF Mirror!Begin
<1> QED
  BY <1>8, <1>10, <1>14 DEF StepKeeps, Mirror!Next

\* The listing, answered or refused, begins the rewrite.
LEMMA PrintKeeps ==
  ASSUME IInv, NEW t \in Req, NEW list, NEW bad, PrintRules(t, list, bad),
         \/ list = Listed(t) /\ bad = {}
         \/ list = {} /\ bad = Scope(t),
         faults' \in 0..MaxFault
  PROVE  StepKeeps
<1> DEFINE r == [th[t] EXCEPT !.pc = "work", !.gone = list,
                   !.want = Wanted(t), !.cur = th[t].id, !.bad = bad,
                   !.m = IF th[t].op = "disable" THEN @ ELSE BlankRow]
<1>1. /\ th \in [Req -> ThreadState] /\ th[t] \in ThreadState /\ Good(th[t])
      /\ th[t].pc = "print" /\ th[t].id \in 0..MaxId /\ th[t].m \in Row
      /\ th[t].want \subseteq Mapping
  BY DEF PrintRules, IInv, ThreadsInv, ThreadState
<1>2. /\ Scope(t) = ScopeOf(th[t]) /\ Scope(t) \subseteq Id
      /\ router \in SUBSET Rule /\ list \subseteq Rule /\ bad \subseteq Id
  BY ScopeIsScopeOf DEF IInv, SetsInv, Listed
<1>3. th' = [th EXCEPT ![t] = r]
  BY <1>1 DEF PrintRules
<1>4. /\ Wanted(t) = th[t].plan /\ Wanted(t) \subseteq Mapping
      /\ \A m \in th[t].plan : m.id \in Scope(t)
  BY <1>1, <1>2, WantedPlan DEF Good
<1>5. BlankRow \in Row
  BY DEF BlankRow, Row
<1>6. r \in ThreadState
  BY <1>1, <1>2, <1>4, <1>5 DEF ThreadState, Label
<1>7. /\ r.op = th[t].op /\ r.pc = "work" /\ r.gone = list /\ r.cur = th[t].id
      /\ r.id = th[t].id /\ r.want = Wanted(t) /\ r.bad = bad
      /\ r.add = th[t].add /\ (r.op = "disable" => r.m = th[t].m)
      /\ r.plan = th[t].plan
  BY <1>1 DEF ThreadState
<1> HIDE DEF r
<1>8. Good(r) /\ Critical(r) /\ Critical(th[t])
  <2>1. ScopeOf(r) = ScopeOf(th[t])
    BY <1>7 DEF ScopeOf
  <2> QED
    BY <1>1, <1>4, <1>6, <1>7, <2>1 DEF Good, Critical
<1>9. ScopeOf(r) = Scope(t)
  BY <1>2, <1>7 DEF ScopeOf
<1>10. r.add = {} /\ r.cur \in ScopeOf(r) \cup {0}
       /\ (r.op = "sync" => r.cur = 0)
  BY <1>1, <1>7, <1>9 DEF Good, Scope
<1>11. Rewriting(r, router, router)
  BY <1>2, <1>4, <1>6, <1>7, <1>9, <1>10, BeginRewriting DEF Listed
<1>12. \A u \in Req : th[u].pc # "work"
  BY <1>1 DEF IInv, LockInv, Critical
<1>13. router = stable
  BY <1>12 DEF IInv, RewriteInv
<1>14. RowsInv' /\ blurred' \subseteq Id
       /\ UNCHANGED <<router, lock, stable, failed>>
  BY DEF PrintRules, IInv, RowsInv, SetsInv, db
<1> QED
  BY <1>1, <1>3, <1>7, <1>8, <1>11, <1>13, <1>14, OwnStep

\* A rule is deleted; the deletion may fail.
LEMMA DeletionKeeps ==
  ASSUME IInv, NEW t \in Req, DeleteNATRule(t) \/ DeleteFails(t)
  PROVE  StepKeeps
<1>1. /\ th \in [Req -> ThreadState] /\ th[t] \in ThreadState /\ Good(th[t])
      /\ th[t].pc = "work" /\ Rewriting(th[t], router, stable)
      /\ router \in SUBSET Rule
  BY DEF DeleteNATRule, DeleteFails, IInv, ThreadsInv, SetsInv, RewriteInv
<1>2. PICK x \in Stale(t), B \in SUBSET Id :
        /\ th' = [th EXCEPT ![t] = [th[t] EXCEPT !.gone = @ \ {x}, !.bad = B]]
        /\ router' \in {router, router \ {x}}
        /\ \/ B = th[t].bad /\ router' = router \ {x}
           \/ B = th[t].bad \cup {x.id}
  <2>1. CASE DeleteNATRule(t)
    <3>1. PICK x \in Stale(t) :
            /\ router' = router \ {x}
            /\ th' = [th EXCEPT ![t].gone = @ \ {x}]
      BY <2>1 DEF DeleteNATRule
    <3>2. [th[t] EXCEPT !.gone = @ \ {x}]
            = [th[t] EXCEPT !.gone = @ \ {x}, !.bad = th[t].bad]
      BY <1>1 DEF ThreadState
    <3>3. th[t].bad \in SUBSET Id
      BY <1>1 DEF ThreadState
    <3> QED
      BY <1>1, <3>1, <3>2, <3>3
  <2>2. CASE DeleteFails(t)
    <3>1. PICK x \in Stale(t) :
            /\ router' \in {router, router \ {x}}
            /\ th' = [th EXCEPT ![t].gone = @ \ {x}, ![t].bad = @ \cup {x.id}]
      BY <2>2 DEF DeleteFails
    <3>2. x \in Rule /\ x.id \in Id
      BY <1>1, <3>1, RuleIds DEF Stale, Of, Mirror!Of, ThreadState
    <3>3. th[t].bad \cup {x.id} \in SUBSET Id
      BY <1>1, <3>2 DEF ThreadState
    <3> QED
      BY <1>1, <3>1, <3>3
  <2> QED
    BY <2>1, <2>2
<1>3. x \in th[t].gone /\ x \in Rule /\ x.id \in Id
  BY <1>1, <1>2, RuleIds DEF Stale, Of, Mirror!Of, ThreadState
<1> DEFINE r == [th[t] EXCEPT !.gone = @ \ {x}, !.bad = B]
<1>4. r \in ThreadState
  BY <1>1, <1>2, <1>3 DEF ThreadState
<1>5. /\ r.op = th[t].op /\ r.id = th[t].id /\ r.cur = th[t].cur
      /\ r.want = th[t].want /\ r.add = th[t].add /\ r.bad = B
      /\ r.gone = th[t].gone \ {x} /\ r.pc = "work" /\ r.m = th[t].m
      /\ r.plan = th[t].plan
  BY <1>1 DEF ThreadState
<1>6. th' = [th EXCEPT ![t] = r]
  BY <1>2
<1> HIDE DEF r
<1>7. Good(r)
  BY <1>1, <1>4, <1>5 DEF Good, ScopeOf
<1>8. Rewriting(r, router', stable)
  <2>1. /\ th[t] \in ThreadState /\ router \in SUBSET Rule
        /\ Rewriting(th[t], router, stable)
    BY <1>1
  <2>2. /\ router' = router \/ router' = router \ {x}
        /\ \/ r.bad = th[t].bad /\ router' = router \ {x}
           \/ r.bad = th[t].bad \cup {x.id}
    BY <1>2, <1>5
  <2> QED
    BY <1>3, <1>4, <1>5, <2>1, <2>2, DeleteKeeps
<1>9. faults' \in 0..MaxFault
      /\ UNCHANGED <<db, lock, stable, failed, blurred>>
  BY NATAssumption
  DEF DeleteNATRule, DeleteFails, Fault, IInv, CountInv, NATAssumption
<1>10. router' \subseteq Rule
  BY <1>1, <1>2
<1> QED
  BY <1>1, <1>5, <1>6, <1>7, <1>8, <1>9, <1>10, WorkStep

\* The next mapping to install.
LEMMA TakeKeepsInv ==
  ASSUME IInv, NEW t \in Req, Take(t)
  PROVE  StepKeeps
<1>1. /\ th \in [Req -> ThreadState] /\ th[t] \in ThreadState /\ Good(th[t])
      /\ th[t].pc = "work" /\ Rewriting(th[t], router, stable)
      /\ router \in SUBSET Rule
  BY DEF Take, IInv, ThreadsInv, SetsInv, RewriteInv
<1>2. PICK m \in th[t].want :
        th' = [th EXCEPT ![t].want = @ \ {m}, ![t].cur = m.id,
                         ![t].add = RulesOf(m)]
  BY DEF Take
<1>3. m \in Mapping /\ m.id \in 0..MaxId /\ RulesOf(m) \subseteq Rule
  BY <1>1, RulesOfMapping, NATAssumption
  DEF ThreadState, NATAssumption, Id, Mirror!Id
<1> DEFINE r == [th[t] EXCEPT !.want = @ \ {m}, !.cur = m.id,
                              !.add = RulesOf(m)]
<1>4. r \in ThreadState
  BY <1>1, <1>3 DEF ThreadState
<1>5. /\ r.op = th[t].op /\ r.id = th[t].id /\ r.cur = m.id
      /\ r.want = th[t].want \ {m} /\ r.add = RulesOf(m) /\ r.bad = th[t].bad
      /\ r.gone = th[t].gone /\ r.pc = "work" /\ r.m = th[t].m
      /\ r.plan = th[t].plan
  BY <1>1 DEF ThreadState
<1>6. th' = [th EXCEPT ![t] = r]
  BY <1>1, <1>2
<1> HIDE DEF r
<1>7. Good(r)
  BY <1>1, <1>4, <1>5 DEF Good, ScopeOf
<1>8. StaleOf(th[t]) = {} /\ th[t].add = {}
  BY ScopeIsScopeOf DEF Take, IInv
<1>9. Rewriting(r, router, stable)
  <2>1. m \in th[t].plan
    BY <1>1 DEF Rewriting
  <2>2. m.id \in ScopeOf(th[t]) /\ \A n \in th[t].plan : n.id = m.id => n = m
    BY <1>1, <2>1 DEF Good
  <2> QED
    BY <1>1, <1>4, <1>5, <1>8, <2>2, TakeKeeps
<1>10. /\ faults' \in 0..MaxFault /\ router' = router /\ router' \subseteq Rule
       /\ UNCHANGED <<db, lock, stable, failed, blurred>>
  BY <1>1 DEF Take, IInv, CountInv, net
<1> QED
  BY <1>1, <1>5, <1>6, <1>7, <1>9, <1>10, WorkStep

\* A rule is added; the addition may fail.
LEMMA AdditionKeeps ==
  ASSUME IInv, NEW t \in Req, AddNATRule(t) \/ AddFails(t)
  PROVE  StepKeeps
<1>1. /\ th \in [Req -> ThreadState] /\ th[t] \in ThreadState /\ Good(th[t])
      /\ th[t].pc = "work" /\ Rewriting(th[t], router, stable)
      /\ router \in SUBSET Rule
  BY DEF AddNATRule, AddFails, IInv, ThreadsInv, SetsInv, RewriteInv
<1>2. PICK x \in th[t].add, B \in SUBSET Id :
        /\ th' = [th EXCEPT ![t] = [th[t] EXCEPT !.add = @ \ {x}, !.bad = B]]
        /\ router' \in {router, router \cup {x}}
        /\ \/ B = th[t].bad /\ router' = router \cup {x}
           \/ B = th[t].bad \cup {x.id}
  <2>1. CASE AddNATRule(t)
    <3>1. PICK x \in th[t].add :
            /\ router' = router \cup {x}
            /\ th' = [th EXCEPT ![t].add = @ \ {x}]
      BY <2>1 DEF AddNATRule, FirstToAdd
    <3>2. [th[t] EXCEPT !.add = @ \ {x}]
            = [th[t] EXCEPT !.add = @ \ {x}, !.bad = th[t].bad]
      BY <1>1 DEF ThreadState
    <3>3. th[t].bad \in SUBSET Id
      BY <1>1 DEF ThreadState
    <3> QED
      BY <1>1, <3>1, <3>2, <3>3
  <2>2. CASE AddFails(t)
    <3>1. PICK x \in th[t].add :
            /\ router' \in {router, router \cup {x}}
            /\ th' = [th EXCEPT ![t].add = @ \ {x}, ![t].bad = @ \cup {x.id}]
      BY <2>2 DEF AddFails, FirstToAdd
    <3>2. x \in Rule /\ x.id \in Id
      BY <1>1, <3>1, RuleIds DEF ThreadState
    <3>3. th[t].bad \cup {x.id} \in SUBSET Id
      BY <1>1, <3>2 DEF ThreadState
    <3> QED
      BY <1>1, <3>1, <3>3
  <2> QED
    BY <2>1, <2>2
<1>3. x \in Rule /\ x.id \in Id
  BY <1>1, <1>2, RuleIds DEF ThreadState
<1> DEFINE r == [th[t] EXCEPT !.add = @ \ {x}, !.bad = B]
<1>4. r \in ThreadState
  BY <1>1, <1>2, <1>3 DEF ThreadState
<1>5. /\ r.op = th[t].op /\ r.id = th[t].id /\ r.cur = th[t].cur
      /\ r.want = th[t].want /\ r.add = th[t].add \ {x} /\ r.bad = B
      /\ r.gone = th[t].gone /\ r.pc = "work" /\ r.m = th[t].m
      /\ r.plan = th[t].plan
  BY <1>1 DEF ThreadState
<1>6. th' = [th EXCEPT ![t] = r]
  BY <1>2
<1> HIDE DEF r
<1>7. Good(r)
  BY <1>1, <1>4, <1>5 DEF Good, ScopeOf
<1>8. StaleOf(th[t]) = {}
  BY ScopeIsScopeOf DEF AddNATRule, AddFails, IInv
<1>9. Rewriting(r, router', stable)
  <2>1. /\ th[t] \in ThreadState /\ router \in SUBSET Rule
        /\ Rewriting(th[t], router, stable)
    BY <1>1
  <2>2. /\ router' = router \/ router' = router \cup {x}
        /\ \/ r.bad = th[t].bad /\ router' = router \cup {x}
           \/ r.bad = th[t].bad \cup {x.id}
    BY <1>2, <1>5
  <2> QED
    BY <1>8, <1>4, <1>5, <2>1, <2>2, AddKeeps
<1>10. faults' \in 0..MaxFault
       /\ UNCHANGED <<db, lock, stable, failed, blurred>>
  BY NATAssumption
  DEF AddNATRule, AddFails, Fault, IInv, CountInv, NATAssumption
<1>11. router' \subseteq Rule
  BY <1>1, <1>2, <1>3
<1> QED
  BY <1>1, <1>5, <1>6, <1>7, <1>9, <1>10, <1>11, WorkStep

\* The three ways out of a critical section.
LEMMA UnlockKeeps ==
  ASSUME IInv, NEW t \in Req, Unlock(t) \/ PrintFails(t) \/ AddAborts(t)
  PROVE  StepKeeps
<1>1. /\ th[t] \in ThreadState /\ Good(th[t]) /\ router \in SUBSET Rule
      /\ Scope(t) = ScopeOf(th[t]) /\ Scope(t) \subseteq Id
      /\ Stale(t) = StaleOf(th[t])
  BY ScopeIsScopeOf DEF IInv, ThreadsInv, SetsInv
<1>2. th[t].pc = "work" => Rewriting(th[t], router, stable)
  BY DEF IInv, RewriteInv
<1>3. faults' \in 0..MaxFault /\ UNCHANGED db
  BY NATAssumption
  DEF Unlock, PrintFails, AddAborts, Fault, IInv, CountInv, NATAssumption
<1>4. CASE Unlock(t)
  <2>1. /\ th[t].pc = "work" /\ StaleOf(th[t]) = {} /\ th[t].add = {}
        /\ th[t].want = {} /\ Release(t, router, th[t].bad)
    BY <1>1, <1>4 DEF Unlock
  <2>2. lock = t
    BY <2>1 DEF IInv, LockInv, Critical
  <2>4. Section = [scope |-> ScopeOf(th[t]), plan |-> th[t].plan]
    BY <2>1, <2>2, SectionIs
  <2>5. \A i \in Scope(t) \ th[t].bad :
          Of(i, router) = Mirror!Planned(Section, i)
    BY <1>1, <1>2, <2>1, <2>4, DoneWhole
  <2>3. /\ \A i \in Id \ Scope(t) : Of(i, router) = Of(i, stable)
        /\ th[t].bad \subseteq Scope(t)
    BY <1>1, <1>2, <2>1 DEF Rewriting
  <2> QED
    BY <1>1, <1>3, <2>1, <2>3, <2>5, ReleaseStep
<1>5. CASE PrintFails(t)
  <2>1. Release(t, router, Scope(t)) /\ th[t].pc = "print"
    BY <1>5 DEF PrintFails
  <2>2. \A u \in Req : th[u].pc # "work"
    BY <2>1 DEF IInv, LockInv, Critical
  <2>3. router = stable
    BY <2>2 DEF IInv, RewriteInv
  <2> QED
    BY <1>1, <1>3, <2>1, <2>3, ReleaseStep
<1>6. CASE AddAborts(t)
  <2>1. PICK x \in th[t].add :
          \E R \in {router, router \cup {x}} : Release(t, R, Scope(t))
    BY <1>6 DEF AddAborts, FirstToAdd
  <2>2. PICK R \in {router, router \cup {x}} : Release(t, R, Scope(t))
    BY <2>1
  <2>3. th[t].pc = "work" /\ Rewriting(th[t], router, stable)
    BY <1>2, <1>6 DEF AddAborts
  <2>4. x \in Rule /\ x.id \in Id /\ x.id # 0
    BY <1>1, <2>1, RuleIds DEF ThreadState
  <2>5. x.id \in Scope(t)
    BY <1>1, <2>3, <2>4 DEF Rewriting
  <2>6. ASSUME NEW i \in Id \ Scope(t)
        PROVE  Of(i, R) = Of(i, stable)
    <3>1. Of(i, R) = Of(i, router)
      BY <2>5 DEF Of, Mirror!Of
    <3> QED
      BY <1>1, <2>3, <3>1 DEF Rewriting
  <2>7. R \in SUBSET Rule
    BY <1>1, <2>4
  <2> QED
    BY <1>1, <1>3, <2>2, <2>3, <2>6, <2>7, ReleaseStep
<1> QED
  BY <1>4, <1>5, <1>6

\* The mappings that the holder of the mutex worked on have failed.
LEMMA CrashKeeps ==
  ASSUME IInv, Crash
  PROVE  StepKeeps
<1>1. \A t \in Req : Scope(t) \subseteq Id
  BY ScopeIsScopeOf DEF IInv
<1>2. /\ th' = [t \in Req |-> IdleThread] /\ lock' = NoReq
      /\ router' = router /\ stable' = router
      /\ failed' = failed \cup Section.scope
      /\ blurred' = blurred \cup UNION {Scope(t) : t \in {u \in Req : Busy(u)}}
      /\ faults' = faults + 1 /\ faults < MaxFault /\ UNCHANGED db
  BY DEF Crash, Fault
<1>3. RowsInv' /\ faults' \in 0..MaxFault
  BY <1>2, NATAssumption DEF IInv, RowsInv, CountInv, NATAssumption, db
<1>4. Section' = Mirror!Idle
  BY <1>2 DEF Section, Mirror!Idle
<1>5. ThreadsInv' /\ LockInv' /\ RewriteInv'
  <2>1. ~Critical(IdleThread) /\ IdleThread.pc # "work"
    BY DEF IdleThread, Critical
  <2> QED
    BY <1>2, <2>1, IdleGood, NATAssumption
    DEF ThreadsInv, LockInv, RewriteInv, NATAssumption
<1>6. Section = Mirror!Idle \/ \E t \in Req : lock = t /\ th[t].pc # "list"
  <2>1. lock \in Req \cup {NoReq}
    BY DEF IInv, SetsInv
  <2> QED
    BY <2>1, SectionIs
<1>7. Section.scope \subseteq Id
  <2>1. CASE Section = Mirror!Idle
    BY <2>1 DEF Mirror!Idle
  <2>2. ASSUME NEW t \in Req, lock = t, th[t].pc # "list"
        PROVE  Section.scope \subseteq Id
    BY <1>1, <2>2, SectionIs, ScopeIsScopeOf DEF IInv
  <2> QED
    BY <1>6, <2>1, <2>2
<1>8. SetsInv'
  BY <1>1, <1>2, <1>7 DEF IInv, SetsInv
<1>9. \A i \in Id \ Section.scope : Of(i, router) = Of(i, stable)
  <2>1. CASE \A t \in Req : th[t].pc # "work"
    BY <2>1 DEF IInv, RewriteInv
  <2>2. ASSUME NEW t \in Req, th[t].pc = "work"
        PROVE  \A i \in Id \ Section.scope : Of(i, router) = Of(i, stable)
    <3>1. lock = t /\ Rewriting(th[t], router, stable)
      BY <2>2 DEF IInv, LockInv, Critical, RewriteInv
    <3>2. Section.scope = ScopeOf(th[t])
      BY <2>2, <3>1, SectionIs
    <3> QED
      BY <3>1, <3>2 DEF Rewriting
  <2> QED
    BY <2>1, <2>2
<1>10. Mirror!Next
  <2>1. stable' \subseteq Mirror!Rule
    BY <1>2 DEF Rule, IInv, SetsInv
  <2>2. \A i \in Mirror!Id \ Section.scope :
          Mirror!Of(i, stable') = Mirror!Of(i, stable)
    BY <1>2, <1>9 DEF Of, Id
  <2>3. failed' = (failed \ Section.scope) \cup Section.scope
    BY <1>2
  <2>4. \A i \in Section.scope \ Section.scope :
          Mirror!Of(i, stable') = Mirror!Planned(Section, i)
    OBVIOUS
  <2>5. Mirror!End
    BY <1>4, <2>1, <2>2, <2>3, <2>4 DEF Mirror!End
  <2> QED
    BY <2>5 DEF Mirror!Next
<1> QED
  BY <1>3, <1>5, <1>8, <1>10 DEF StepKeeps, CoreInv

-----------------------------------------------------------------------------
(* The theorems.                                                             *)

\* A new installation satisfies the invariant.
LEMMA InitIInv == Init => IInv /\ Mirror!Init
<1> SUFFICES ASSUME Init PROVE IInv /\ Mirror!Init
  OBVIOUS
<1>1. BlankRow \in Row
  BY DEF BlankRow, Row
<1>2. RowsInv /\ CountInv /\ SetsInv
  BY <1>1, NATAssumption
  DEF Init, RowsInv, CountInv, SetsInv, NATAssumption
<1>3. ~Critical(IdleThread) /\ IdleThread.pc # "work"
  BY DEF IdleThread, Critical
<1>4. ThreadsInv /\ LockInv /\ RewriteInv
  BY <1>3, IdleGood, NATAssumption
  DEF Init, ThreadsInv, LockInv, RewriteInv, NATAssumption
<1> QED
  BY <1>2, <1>4 DEF IInv, Init, Mirror!Init, Section, Mirror!Idle

\* Every step keeps the invariant and is a step of NatMirror, or none.
LEMMA NextIInv == IInv /\ [Next]_vars => IInv' /\ [Mirror!Next]_(Mirror!vars)
<1> SUFFICES ASSUME IInv, [Next]_vars
             PROVE  IInv' /\ [Mirror!Next]_(Mirror!vars)
  OBVIOUS
<1>1. CASE UNCHANGED vars
  BY <1>1
  DEF vars, IInv, RowsInv, CountInv, SetsInv, ThreadsInv, LockInv, RewriteInv,
      Mirror!vars, Section, Scope
<1>2. ASSUME StepKeeps, reqs' \in 0..MaxReq
      PROVE  IInv' /\ [Mirror!Next]_(Mirror!vars)
  BY <1>2 DEF StepKeeps, IInv, CoreInv, CountInv
<1>3. reqs \in 0..MaxReq
  BY DEF IInv, CountInv
<1>4. CASE Crash /\ UNCHANGED reqs
  BY <1>2, <1>3, <1>4, CrashKeeps
<1>5. ASSUME NEW t \in Req, Request(t)
      PROVE  IInv' /\ [Mirror!Next]_(Mirror!vars)
  <2>1. reqs' \in 0..MaxReq
    BY <1>3, <1>5, NATAssumption DEF Request, NATAssumption
  <2> QED
    BY <1>2, <1>5, <2>1, RequestKeeps
<1>6. ASSUME NEW t \in Req, UNCHANGED reqs,
             Statement(t) \/ Lock(t) \/ Command(t) \/ Failure(t)
      PROVE  IInv' /\ [Mirror!Next]_(Mirror!vars)
  <2>1. CASE Statement(t) \/ Lock(t)
    BY <1>2, <1>3, <1>6, <2>1, StatementKeeps, LockKeeps
  <2>2. CASE Command(t)
    <3>1. CASE PrintNAT(t)
      BY <1>2, <1>3, <1>6, <3>1, PrintKeeps DEF PrintNAT, IInv, CountInv
    <3>2. CASE ~PrintNAT(t)
      BY <1>2, <1>3, <1>6, <2>2, <3>2, ListKeeps, DeletionKeeps, TakeKeepsInv,
         AdditionKeeps, UnlockKeeps DEF Command
    <3> QED
      BY <3>1, <3>2
  <2>3. CASE Failure(t)
    <3>1. CASE PrintRefused(t)
      <4>1. faults' \in 0..MaxFault
        BY <3>1, NATAssumption
        DEF PrintRefused, Fault, IInv, CountInv, NATAssumption
      <4> QED
        BY <1>2, <1>3, <1>6, <3>1, <4>1, PrintKeeps DEF PrintRefused
    <3>2. CASE ~PrintRefused(t)
      BY <1>2, <1>3, <1>6, <2>3, <3>2, DeletionKeeps, AdditionKeeps,
         UnlockKeeps DEF Failure
    <3> QED
      BY <3>1, <3>2
  <2> QED
    BY <1>6, <2>1, <2>2, <2>3
<1> QED
  BY <1>1, <1>4, <1>5, <1>6 DEF Next

\* The inductive invariant holds in every reachable state.
THEOREM RewritesTracked == Spec => []IInv
<1>1. Init => IInv
  BY InitIInv
<1>2. IInv /\ [Next]_vars => IInv'
  BY NextIInv
<1> QED
  BY <1>1, <1>2, PTL DEF Spec

\* Every variable keeps its type: no request, race, failure or crash makes a
\* thread install a mapping without a port, or a rule of no mapping.
THEOREM TypeCorrect == Spec => []TypeOK
<1>1. IInv => TypeOK
  BY DEF IInv, RowsInv, CountInv, SetsInv, ThreadsInv, TypeOK
<1> QED
  BY <1>1, RewritesTracked, PTL

\* Client.syncMux is held exactly by the thread that is between Lock and the
\* deferred Unlock, whatever fails.
THEOREM MutexHeld == Spec => []MutexHolder
<1>1. IInv => MutexHolder
  BY DEF IInv, LockInv, MutexHolder, InCritical, Critical
<1> QED
  BY <1>1, RewritesTracked, PTL

\* The three operations of the client implement NatMirror: seen at the moments
\* nobody rewrites the rules, each of them is one step, which leaves exactly
\* the rules it was to install of the mappings it is about (but for those a
\* failure hit) and every rule of every other mapping.
THEOREM MirrorImplemented == Spec => MirrorsWhole
<1>1. Init => Mirror!Init
  BY InitIInv
<1>2. IInv /\ [Next]_vars => [Mirror!Next]_(Mirror!vars)
  BY NextIInv
<1> QED
  BY <1>1, <1>2, RewritesTracked, PTL DEF Spec, MirrorsWhole, Mirror!Spec
=============================================================================
