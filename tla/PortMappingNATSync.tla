------------------------ MODULE PortMappingNATSync ------------------------
(***************************************************************************)
(* Theorem about PortMappingNAT for every number of requests, mappings,     *)
(* ports and failures: once no request about a mapping is in flight, the    *)
(* router holds exactly the rules of its row.                               *)
(***************************************************************************)
EXTENDS PortMappingNATProofs

-----------------------------------------------------------------------------
(* The inductive invariant.  A thread that races with nobody on mapping i    *)
(* keeps a promise about it, from the row it has read or written to the      *)
(* rules it leaves on the router; where no thread has a promise to keep, the *)
(* rules are those of the row already.                                       *)

Writers == {"create", "update", "enable"}

Clearers == {"disable", "delete"}

\* Thread t works on mapping i, and nobody it races with does.
Alone(t, i) == Busy(t) /\ i \in Scope(t) /\ i \notin th[t].mixed

\* Two rows never have the same port.
PortsInv == \A i, j \in rows : row[i].port = row[j].port => i = j

\* Ids are given out in turn.
KnownInv ==
  /\ \A i \in rows : i <= lastId
  /\ \A t \in Req : th[t].id <= lastId

\* Whoever races on a mapping knows.
MixedInv ==
  \A t, u \in Req : \A i \in Id :
    /\ t # u /\ Alone(t, i) /\ Busy(u) /\ i \in Scope(u)
    => ~Races(th[t].op, th[u].op)

\* The row of a mapping is what the thread that is alone on it has read or
\* written.
CopyInv ==
  \A t \in Req : \A i \in Id :
    Alone(t, i) /\ th[t].op \in Writers \cup {"disable"} =>
      /\ i \in rows
      /\ th[t].op = "disable" => row[i].port = th[t].m.port
      /\ th[t].op # "disable" /\ th[t].pc \in {"lock", "print"}
           => row[i] = th[t].m

\* A disable always writes a disabled row, only a delete removes one, a create
\* has no mapping before its INSERT, and whoever works has an operation.
StageInv ==
  \A t \in Req :
    /\ th[t].op = "disable" => ~th[t].m.enabled
    /\ th[t].pc = "remove" => th[t].op = "delete"
    /\ Busy(t) => th[t].op # "none"
    /\ th[t].op = "create" =>
         th[t].pc # "check" /\ (th[t].pc = "write" => th[t].id = 0)

\* The rules of mapping i when thread s has done all it is to do.
WantedOf(s, i) == UNION {RulesOf(m) : m \in {n \in s.want : n.id = i}}

Plan(s, i, R) == Of(i, Ahead(s, R)) \cup WantedOf(s, i)

\* A thread that has written the row of mapping i and waits for the mutex.
Coming(i) ==
  \E u \in Req : th[u].op \in Writers /\ th[u].pc = "lock" /\ th[u].id = i

\* What the rewrite of mapping i by a thread alone on it comes to: the rules
\* of the row, unless a newer row is about to be installed, or none.
Aim(t, i, S) ==
  IF th[t].op \in Clearers THEN S = {} ELSE S = Desired(i) \/ Coming(i)

PlanInv ==
  \A t \in Req : \A i \in Id : Alone(t, i) =>
    /\ th[t].pc = "work" /\ i \notin th[t].bad
         => Aim(t, i, Plan(th[t], i, router))
    /\ th[t].pc = "print" /\ th[t].op = "sync"
         => Aim(t, i, WantedOf(th[t], i))

\* Once a thread alone on mapping i has cleared its rules there are none.
Cleared(t) == th[t].op \in Clearers /\ th[t].pc \in {"check", "write", "remove"}

ClearInv ==
  \A t \in Req : \A i \in Id \ failed :
    Alone(t, i) /\ Cleared(t) => Of(i, router) = {}

\* Thread t is about to change the rules or the row of its mappings, or races.
Unsettled(t, i) ==
  /\ Busy(t) /\ i \in Scope(t)
  /\ \/ i \in th[t].mixed
     \/ th[t].pc = "work"
     \/ Cleared(t)
     \/ th[t].op \in Writers /\ th[t].pc \in {"lock", "print"}

SettledInv ==
  \A i \in Id \ (failed \cup blurred) :
    (\A t \in Req : ~Unsettled(t, i)) => Of(i, router) = Desired(i)

\* Who works on what, and what comes of it on the router.
RaceInv == PortsInv /\ KnownInv /\ MixedInv /\ CopyInv /\ StageInv

PromiseInv == PlanInv /\ ClearInv /\ SettledInv

SInv == RaceInv /\ PromiseInv

-----------------------------------------------------------------------------
(* Facts about threads.                                                      *)

\* The types that IInv gives.
LEMMA Types ==
  ASSUME IInv
  PROVE  /\ th \in [Req -> ThreadState]
         /\ \A t \in Req : /\ th[t] \in ThreadState /\ Good(th[t])
                           /\ Scope(t) = ScopeOf(th[t]) /\ Scope(t) \subseteq Id
                           /\ th[t].id \in 0..MaxId
                           /\ th[t].mixed \subseteq Id
  BY ScopeIsScopeOf DEF IInv, ThreadsInv, ThreadState

\* Mappings have positive ids.
LEMMA IdPositive ==
  ASSUME NEW i \in Id
  PROVE  i # 0 /\ i \in Nat
  BY NATAssumption DEF NATAssumption, Id, Mirror!Id

\* The scope of a request on one mapping.
LEMMA ScopeSingle ==
  ASSUME NEW t \in Req, NEW i \in Id, th[t].op # "sync"
  PROVE  i \in Scope(t) <=> th[t].id = i
  BY IdPositive DEF Scope

\* Requests on one mapping race, unless one is a full synchronisation and
\* the other does not clear the rules first.
LEMMA NoRival ==
  ASSUME MixedInv, NEW t \in Req, NEW u \in Req, t # u, NEW i \in Id,
         Alone(u, i), Busy(t), i \in Scope(t)
  PROVE  /\ th[t].op \notin Clearers
         /\ th[u].op \notin Clearers
         /\ th[t].op = "sync" \/ th[u].op = "sync"
  BY DEF MixedInv, Races, Clearers

\* A step of thread t leaves the others as they are.
LEMMA Others ==
  ASSUME th \in [Req -> ThreadState], NEW t \in Req, NEW r,
         th' = [th EXCEPT ![t] = r], NEW u \in Req, u # t
  PROVE  /\ th'[u] = th[u]
         /\ Busy(u)' <=> Busy(u)
         /\ Scope(u)' = Scope(u)
         /\ Cleared(u)' <=> Cleared(u)
         /\ \A i \in Id : Alone(u, i)' <=> Alone(u, i)
         /\ \A i \in Id : Unsettled(u, i)' <=> Unsettled(u, i)
<1>1. th'[u] = th[u]
  OBVIOUS
<1>2. Busy(u)' <=> Busy(u)
  BY <1>1 DEF Busy
<1>3. Scope(u)' = Scope(u)
  BY <1>1 DEF Scope, Id, Mirror!Id
<1>4. Cleared(u)' <=> Cleared(u)
  BY <1>1 DEF Cleared
<1> QED
  BY <1>1, <1>2, <1>3, <1>4 DEF Alone, Unsettled

\* Thread t goes on with its request, or ends it.
Onward(t, r) ==
  \/ r = IdleThread
  \/ /\ Busy(t) /\ r.pc # "idle"
     /\ r.op = th[t].op /\ r.id = th[t].id /\ r.mixed = th[t].mixed

\* It keeps its scope and its rivals while it goes on.
LEMMA OnwardKeeps ==
  ASSUME th \in [Req -> ThreadState], NEW t \in Req, NEW r,
         th' = [th EXCEPT ![t] = r], Onward(t, r)
  PROVE  /\ th'[t] = r
         /\ r = IdleThread => ~Busy(t)'
         /\ Busy(t)' => /\ Busy(t) /\ r # IdleThread
                        /\ Scope(t)' = Scope(t)
                        /\ r.op = th[t].op /\ r.id = th[t].id
                        /\ r.mixed = th[t].mixed
         /\ \A i \in Id : Alone(t, i)' => Alone(t, i)
<1>1. th'[t] = r
  OBVIOUS
<1>2. r = IdleThread => ~Busy(t)'
  BY <1>1 DEF Busy, IdleThread
<1>3. Busy(t)' => /\ Busy(t) /\ r # IdleThread
                  /\ r.op = th[t].op /\ r.id = th[t].id
                  /\ r.mixed = th[t].mixed
  BY <1>1, <1>2 DEF Onward, Busy
<1>4. Busy(t)' => Scope(t)' = Scope(t)
  BY <1>1, <1>3 DEF Scope, Id, Mirror!Id
<1> QED
  BY <1>1, <1>2, <1>3, <1>4 DEF Alone

\* What is asked of the rows and of the requests, after a step of a request
\* that changes no row.
LEMMA QuietStep ==
  ASSUME IInv, RaceInv, NEW t \in Req, NEW r, th' = [th EXCEPT ![t] = r],
         Onward(t, r), UNCHANGED db,
         r.op = "disable" => ~r.m.enabled /\ r.m.port = th[t].m.port,
         r.pc = "remove" => r.op = "delete",
         r.op = "create" => r.pc \notin {"check", "write"},
         r.op \in Writers /\ r.pc \in {"lock", "print"} =>
           r.m = th[t].m /\ th[t].pc \in {"lock", "print"}
  PROVE  RaceInv'
<1>1. th \in [Req -> ThreadState]
  BY Types
<1>2. /\ th'[t] = r
      /\ Busy(t)' => /\ Busy(t) /\ Scope(t)' = Scope(t) /\ r # IdleThread
                     /\ r.op = th[t].op /\ r.id = th[t].id
      /\ \A i \in Id : Alone(t, i)' => Alone(t, i)
  BY <1>1, OnwardKeeps
<1>3. ASSUME NEW u \in Req, u # t
      PROVE  /\ th'[u] = th[u] /\ (Busy(u)' <=> Busy(u))
             /\ Scope(u)' = Scope(u)
             /\ \A i \in Id : Alone(u, i)' <=> Alone(u, i)
  BY <1>1, <1>3, Others
<1>4. PortsInv'
  BY DEF RaceInv, PortsInv, db
<1>5. KnownInv'
  <2>1. th'[t].id <= lastId
    <3>1. CASE r = IdleThread
      <4>1. 0 <= lastId
        BY NATAssumption DEF IInv, RowsInv, NATAssumption
      <4> QED
        BY <1>2, <3>1, <4>1 DEF IdleThread
    <3>2. CASE r # IdleThread
      BY <1>2, <3>2 DEF Onward, RaceInv, KnownInv
    <3> QED
      BY <3>1, <3>2
  <2> QED
    BY <1>3, <2>1 DEF RaceInv, KnownInv, db
<1>6. MixedInv'
  <2> SUFFICES ASSUME NEW u \in Req, NEW v \in Req, NEW i \in Id, u # v,
                      Alone(u, i)', Busy(v)', i \in Scope(v)'
               PROVE  ~Races(th'[u].op, th'[v].op)
    BY DEF MixedInv, Races, Id, Mirror!Id
  <2>1. Alone(u, i) /\ Busy(v) /\ i \in Scope(v)
    BY <1>2, <1>3
  <2>2. th'[u].op = th[u].op /\ th'[v].op = th[v].op
    BY <1>2, <1>3 DEF Alone
  <2> QED
    BY <2>1, <2>2 DEF RaceInv, MixedInv
<1>7. CopyInv'
  <2> SUFFICES ASSUME NEW u \in Req, NEW i \in Id, Alone(u, i)',
                      th'[u].op \in Writers \cup {"disable"}
               PROVE  /\ i \in rows
                      /\ th'[u].op = "disable" => row[i].port = th'[u].m.port
                      /\ th'[u].op # "disable"
                            /\ th'[u].pc \in {"lock", "print"}
                           => row[i] = th'[u].m
    BY DEF CopyInv, db, Writers, Id, Mirror!Id
  <2>1. CASE u # t
    BY <1>3, <2>1 DEF RaceInv, CopyInv
  <2>2. CASE u = t
    <3>1. Alone(t, i) /\ r.op = th[t].op
      BY <1>2, <2>2 DEF Alone
    <3> QED
      BY <1>2, <2>2, <3>1 DEF RaceInv, CopyInv
  <2> QED
    BY <2>1, <2>2
<1>8. StageInv'
  <2>1. r = IdleThread => r.op = "none" /\ r.pc = "idle"
    BY DEF IdleThread
  <2>2. \A u \in Req \ {t} : th'[u] = th[u]
    BY <1>3
  <2> QED
    BY <1>2, <2>1, <2>2 DEF RaceInv, StageInv, Busy, Onward
<1> QED
  BY <1>4, <1>5, <1>6, <1>7, <1>8 DEF RaceInv

-----------------------------------------------------------------------------
(* Facts about rules.                                                        *)

\* The rules wanted of a mapping are those of its one version that is wanted.
LEMMA WantedOne ==
  ASSUME NEW s, NEW m \in s.want, \A n \in s.want : n.id = m.id => n = m
  PROVE  WantedOf(s, m.id) = RulesOf(m)
<1>1. {n \in s.want : n.id = m.id} = {m}
  OBVIOUS
<1> QED
  BY <1>1 DEF WantedOf

\* A mapping of which no version is wanted has no wanted rules.
LEMMA WantedNone ==
  ASSUME NEW s, NEW i, \A n \in s.want : n.id # i
  PROVE  WantedOf(s, i) = {}
<1>1. {n \in s.want : n.id = i} = {}
  OBVIOUS
<1> QED
  BY <1>1 DEF WantedOf

\* With nothing left to delete and to add, the plan is what is wanted.
LEMMA PlanAtStart ==
  ASSUME NEW s, NEW i, NEW R, s.add = {}, \A x \in Of(i, R) : x \in s.gone
  PROVE  Plan(s, i, R) = WantedOf(s, i)
  BY DEF Plan, Ahead, Of, Mirror!Of

\* With nothing left to do, it is what is there.
LEMMA PlanAtEnd ==
  ASSUME NEW s, NEW i, NEW R, s.add = {}, s.want = {}, Of(i, s.gone) = {}
  PROVE  Plan(s, i, R) = Of(i, R)
<1>1. WantedOf(s, i) = {}
  BY WantedNone
<1> QED
  BY <1>1 DEF Plan, Ahead, Of, Mirror!Of

\* The rules of the row, of a mapping that is enabled.
LEMMA DesiredOfRow ==
  ASSUME NEW i
  PROVE  /\ i \in rows /\ row[i].enabled =>
              Desired(i) = RulesOf([id |-> i, port |-> row[i].port,
                                    masq |-> row[i].masq])
         /\ i \notin rows \/ ~row[i].enabled => Desired(i) = {}
  BY DEF Desired

-----------------------------------------------------------------------------
(* The promises, after a step that changes no row.                           *)

\* Only the holder of the mutex prints and works.
LEMMA OneInside ==
  ASSUME IInv, NEW t \in Req, NEW u \in Req, u # t,
         lock = t \/ lock = NoReq
  PROVE  th[u].pc \notin {"list", "print", "work"}
  BY NATAssumption DEF IInv, LockInv, Critical, NATAssumption

\* A step that changes neither the rows nor the rules: what thread t, alone on
\* a mapping, then promises must hold, and where it no longer unsettles a
\* mapping that mapping is either settled or blurred.
LEMMA CalmStep ==
  ASSUME IInv, SInv, NEW t \in Req, NEW r, th' = [th EXCEPT ![t] = r],
         Onward(t, r), UNCHANGED <<db, router, failed>>,
         th[t].pc = "lock" => lock = NoReq /\ (r.pc = "print" => r.op # "sync")
                              /\ r.pc # "work",
         \A i \in Id : Alone(t, i)' =>
           /\ r.pc = "work" /\ i \notin r.bad
                => Aim(t, i, Plan(r, i, router))
           /\ r.pc = "print" /\ r.op = "sync"
                => Aim(t, i, WantedOf(r, i)),
         \A i \in Id \ failed : Alone(t, i)' /\ Cleared(t)' =>
           Of(i, router) = {},
         \A i \in Id : Unsettled(t, i) \/ i \in blurred =>
           Unsettled(t, i)' \/ i \in blurred'
  PROVE  PromiseInv'
<1>1. th \in [Req -> ThreadState]
  BY Types
<1>2. /\ th'[t] = r
      /\ Busy(t)' => /\ Busy(t) /\ Scope(t)' = Scope(t)
                     /\ r.op = th[t].op /\ r.id = th[t].id
      /\ \A i \in Id : Alone(t, i)' => Alone(t, i)
  BY <1>1, OnwardKeeps
<1>3. ASSUME NEW u \in Req, u # t
      PROVE  /\ th'[u] = th[u]
             /\ (Cleared(u)' <=> Cleared(u))
             /\ \A i \in Id : Alone(u, i)' <=> Alone(u, i)
             /\ \A i \in Id : Unsettled(u, i)' <=> Unsettled(u, i)
  BY <1>1, <1>3, Others
<1>4. \A i \in Id : Desired(i)' = Desired(i)
  BY DEF Desired, db, RulesOf, Mirror!RulesOf
<1>5. ASSUME NEW i \in Id, th[t].pc # "lock", Coming(i)
      PROVE  Coming(i)'
  BY <1>3, <1>5 DEF Coming, Writers
<1>6. PlanInv'
  <2> SUFFICES ASSUME NEW u \in Req, NEW i \in Id, Alone(u, i)'
               PROVE  /\ th'[u].pc = "work" /\ i \notin th'[u].bad
                           => Aim(u, i, Plan(th[u], i, router))'
                      /\ th'[u].pc = "print" /\ th'[u].op = "sync"
                           => Aim(u, i, WantedOf(th[u], i))'
    BY DEF PlanInv, Id, Mirror!Id
  <2>1. CASE u # t /\ th[t].pc # "lock"
    <3>1. Alone(u, i) /\ th'[u] = th[u]
      BY <1>3, <2>1
    <3>2. \A S : Aim(u, i, S) => Aim(u, i, S)'
      BY <1>4, <1>5, <2>1, <3>1 DEF Aim
    <3> QED
      BY <3>1, <3>2 DEF SInv, PromiseInv, PlanInv
  <2>2. CASE u # t /\ lock = NoReq
    BY <1>3, <2>2, OneInside
  <2>3. CASE u = t
    <3>1. Alone(t, i)' /\ th'[u] = r /\ r.op = th[t].op
      BY <1>2, <2>3 DEF Alone
    <3>2. th[t].pc # "lock" => \A S : Aim(t, i, S) => Aim(t, i, S)'
      BY <1>2, <1>4, <1>5, <3>1 DEF Aim
    <3> QED
      BY <2>3, <3>1, <3>2
  <2> QED
    BY <2>1, <2>2, <2>3
<1>7. ClearInv'
  <2> SUFFICES ASSUME NEW u \in Req, NEW i \in Id \ failed, Alone(u, i)',
                      Cleared(u)'
               PROVE  Of(i, router) = {}
    BY DEF ClearInv, Id, Mirror!Id, Of, Mirror!Of
  <2>1. CASE u # t
    BY <1>3, <2>1 DEF SInv, PromiseInv, ClearInv
  <2>2. CASE u = t
    BY <2>2
  <2> QED
    BY <2>1, <2>2
<1>8. SettledInv'
  <2> SUFFICES ASSUME NEW i \in Id \ (failed \cup blurred'),
                      \A u \in Req : ~Unsettled(u, i)'
               PROVE  Of(i, router) = Desired(i)
    BY <1>4 DEF SettledInv, Id, Mirror!Id, Of, Mirror!Of
  <2>1. \A u \in Req : ~Unsettled(u, i)
    BY <1>3
  <2>2. i \notin blurred
    OBVIOUS
  <2> QED
    BY <2>1, <2>2 DEF SInv, PromiseInv, SettledInv
<1> QED
  BY <1>6, <1>7, <1>8 DEF PromiseInv

\* A step of the work on the router keeps the plan.
LEMMA WorkingStep ==
  ASSUME IInv, IInv', SInv, NEW t \in Req, NEW r, th' = [th EXCEPT ![t] = r],
         Onward(t, r), th[t].pc = "work", r.pc = "work",
         UNCHANGED <<db, stable, failed, blurred>>,
         th[t].bad \subseteq r.bad,
         \A i \in Id \ r.bad : Plan(r, i, router') = Plan(th[t], i, router)
  PROVE  PromiseInv'
<1>1. th \in [Req -> ThreadState] /\ Scope(t) = ScopeOf(th[t])
  BY Types
<1>2. /\ th'[t] = r /\ Busy(t) /\ Busy(t)'
      /\ Scope(t)' = Scope(t) /\ r.op = th[t].op /\ r.id = th[t].id
      /\ \A i \in Id : Alone(t, i)' => Alone(t, i)
  <2>1. Busy(t) /\ th'[t] = r
    BY <1>1 DEF Busy
  <2>2. Busy(t)'
    BY <2>1 DEF Busy
  <2> QED
    BY <1>1, <2>1, <2>2, OnwardKeeps
<1>3. ASSUME NEW u \in Req, u # t
      PROVE  /\ th'[u] = th[u]
             /\ (Cleared(u)' <=> Cleared(u))
             /\ \A i \in Id : Alone(u, i)' <=> Alone(u, i)
             /\ \A i \in Id : Unsettled(u, i)' <=> Unsettled(u, i)
  BY <1>1, <1>3, Others
<1>4. /\ \A i \in Id : Desired(i)' = Desired(i)
      /\ \A i \in Id : Coming(i) => Coming(i)'
  <2>1. \A i \in Id : Desired(i)' = Desired(i)
    BY DEF Desired, db, RulesOf, Mirror!RulesOf
  <2>2. \A i \in Id : Coming(i) => Coming(i)'
    BY <1>3 DEF Coming, Writers
  <2> QED
    BY <2>1, <2>2
<1>5. ASSUME NEW i \in Id \ Scope(t)
      PROVE  Of(i, router') = Of(i, router)
  <2>1. Rewriting(th[t], router, stable)
    BY DEF IInv, RewriteInv
  <2>2. Rewriting(r, router', stable)
    BY <1>2 DEF IInv, RewriteInv
  <2>3. ScopeOf(r) = ScopeOf(th[t])
    BY <1>2 DEF ScopeOf
  <2> QED
    BY <1>1, <2>1, <2>2, <2>3 DEF Rewriting
<1>6. PlanInv'
  <2> SUFFICES ASSUME NEW u \in Req, NEW i \in Id, Alone(u, i)',
                      th'[u].pc \in {"print", "work"}
               PROVE  /\ th'[u].pc = "work" /\ i \notin th'[u].bad
                           => Aim(u, i, Plan(th[u], i, router))'
                      /\ th'[u].pc = "print" /\ th'[u].op = "sync"
                           => Aim(u, i, WantedOf(th[u], i))'
    BY DEF PlanInv, Id, Mirror!Id
  <2>1. u = t
    <3>1. lock = t
      BY DEF IInv, LockInv, Critical
    <3> QED
      BY <1>3, <3>1, OneInside
  <2>2. Alone(t, i) /\ th'[u] = r
    BY <1>2, <2>1
  <2>3. \A S : Aim(t, i, S) => Aim(t, i, S)'
    BY <1>2, <1>4 DEF Aim
  <2>4. i \notin r.bad => Aim(t, i, Plan(th[t], i, router))
    BY <2>2 DEF SInv, PromiseInv, PlanInv
  <2> QED
    BY <2>1, <2>2, <2>3, <2>4
<1>7. ClearInv'
  <2> SUFFICES ASSUME NEW u \in Req, NEW i \in Id \ failed, Alone(u, i)',
                      Cleared(u)'
               PROVE  Of(i, router') = {}
    BY DEF ClearInv, Id, Mirror!Id, Of, Mirror!Of
  <2>1. u # t
    BY <1>2 DEF Cleared
  <2>2. Alone(u, i) /\ Cleared(u)
    BY <1>3, <2>1
  <2>3. i \notin Scope(t)
    BY <1>2, <2>1, <2>2, NoRival DEF Cleared, SInv, RaceInv
  <2> QED
    BY <1>5, <2>2, <2>3 DEF SInv, PromiseInv, ClearInv
<1>8. SettledInv'
  <2> SUFFICES ASSUME NEW i \in Id \ (failed \cup blurred),
                      \A u \in Req : ~Unsettled(u, i)'
               PROVE  Of(i, router') = Desired(i)
    BY <1>4 DEF SettledInv, Id, Mirror!Id, Of, Mirror!Of
  <2>1. i \notin Scope(t)
    BY <1>2 DEF Unsettled
  <2>2. \A u \in Req : ~Unsettled(u, i)
    BY <1>3, <2>1 DEF Unsettled
  <2> QED
    BY <1>5, <2>1, <2>2 DEF SInv, PromiseInv, SettledInv
<1> QED
  BY <1>6, <1>7, <1>8 DEF PromiseInv

\* The end of a rewrite that leaves the rules R.
LEMMA LeavingStep ==
  ASSUME IInv, SInv, NEW t \in Req, NEW R, NEW bad,
         th[t].pc \in {"print", "work"}, Release(t, R, bad), UNCHANGED db,
         \A i \in Id \ Scope(t) : Of(i, R) = Of(i, router),
         \A i \in Id \ bad : Alone(t, i) => Aim(t, i, Of(i, R))
  PROVE  SInv'
<1>1. /\ th \in [Req -> ThreadState] /\ th[t] \in ThreadState
      /\ Scope(t) \subseteq Id /\ Scope(t) = ScopeOf(th[t])
  BY Types
<1>2. PICK r :
        /\ th' = [th EXCEPT ![t] = r] /\ Onward(t, r)
        /\ r.pc \in {"idle", "check", "remove"}
        /\ r.pc = "remove" => r.op = "delete"
        /\ r.op \in {"none", "disable", "delete"}
        /\ r.op = "disable" => r.m = th[t].m
        /\ \/ /\ th[t].op \notin Clearers /\ r = IdleThread
              /\ blurred' = (blurred \ Scope(t)) \cup th[t].mixed
           \/ /\ th[t].op \in Clearers /\ r.pc # "idle" /\ blurred' = blurred
              /\ r.op = th[t].op
  <2>1. Busy(t)
    BY DEF Busy
  <2>2. CASE th[t].op = "disable"
    <3> DEFINE r == [IdleThread EXCEPT !.op = "disable", !.pc = "check",
                       !.id = th[t].id, !.m = th[t].m, !.mixed = th[t].mixed]
    <3>1. /\ r.op = "disable" /\ r.pc = "check" /\ r.id = th[t].id
          /\ r.m = th[t].m /\ r.mixed = th[t].mixed
      BY DEF IdleThread
    <3>2. th' = [th EXCEPT ![t] = r] /\ blurred' = blurred
      BY <2>2 DEF Release
    <3> HIDE DEF r
    <3> QED
      BY <2>1, <2>2, <3>1, <3>2 DEF Onward, Clearers
  <2>3. CASE th[t].op = "delete"
    <3> DEFINE r == [IdleThread EXCEPT !.op = "delete", !.pc = "remove",
                       !.id = th[t].id, !.mixed = th[t].mixed]
    <3>1. /\ r.op = "delete" /\ r.pc = "remove" /\ r.id = th[t].id
          /\ r.mixed = th[t].mixed
      BY DEF IdleThread
    <3>2. th' = [th EXCEPT ![t] = r] /\ blurred' = blurred
      BY <2>3 DEF Release
    <3> HIDE DEF r
    <3> QED
      BY <2>1, <2>3, <3>1, <3>2 DEF Onward, Clearers
  <2>4. CASE th[t].op \notin {"disable", "delete"}
    <3>1. Finish(t)
      BY <2>4 DEF Release
    <3>2. IdleThread.op = "none" /\ IdleThread.pc = "idle"
      BY DEF IdleThread
    <3> QED
      BY <2>4, <3>1, <3>2 DEF Finish, Onward, Clearers
  <2> QED
    BY <2>2, <2>3, <2>4
<1>3. /\ th'[t] = r
      /\ r = IdleThread => ~Busy(t)'
      /\ Busy(t)' => /\ Scope(t)' = Scope(t) /\ r.op = th[t].op
                     /\ r.mixed = th[t].mixed
      /\ \A i \in Id : Alone(t, i)' => Alone(t, i)
  BY <1>1, <1>2, OnwardKeeps
<1>4. ASSUME NEW u \in Req, u # t
      PROVE  /\ th'[u] = th[u]
             /\ (Cleared(u)' <=> Cleared(u))
             /\ \A i \in Id : Alone(u, i)' <=> Alone(u, i)
             /\ \A i \in Id : Unsettled(u, i)' <=> Unsettled(u, i)
  BY <1>1, <1>2, <1>4, Others
<1>5. /\ router' = R /\ failed' = (failed \ Scope(t)) \cup bad
      /\ \A i \in Id : Desired(i)' = Desired(i)
  BY DEF Release, Desired, db, RulesOf, Mirror!RulesOf
<1>6. RaceInv'
  <2>1. r.op = "disable" => ~r.m.enabled /\ r.m.port = th[t].m.port
    BY <1>2 DEF SInv, RaceInv, StageInv, Clearers, IdleThread
  <2> QED
    BY <1>2, <2>1, QuietStep DEF SInv, Writers
<1>7. PlanInv'
  <2> SUFFICES ASSUME NEW u \in Req, th'[u].pc \in {"print", "work"}
               PROVE  FALSE
    BY DEF PlanInv, Id, Mirror!Id
  <2>1. u # t
    BY <1>2, <1>3
  <2>2. lock = t
    BY DEF IInv, LockInv, Critical
  <2> QED
    BY <1>4, <2>1, <2>2, OneInside
<1>8. ClearInv'
  <2> SUFFICES ASSUME NEW u \in Req, NEW i \in Id \ failed', Alone(u, i)',
                      Cleared(u)'
               PROVE  Of(i, R) = {}
    BY <1>5 DEF ClearInv, Id, Mirror!Id, Of, Mirror!Of
  <2>1. CASE u = t
    <3>1. Alone(t, i) /\ i \notin bad /\ th[t].op \in Clearers
      BY <1>2, <1>3, <1>5, <2>1 DEF Cleared, IdleThread, Clearers
    <3> QED
      BY <3>1 DEF Aim
  <2>2. CASE u # t
    <3>1. Alone(u, i) /\ Cleared(u)
      BY <1>4, <2>2
    <3>2. i \notin Scope(t)
      BY <2>2, <3>1, NoRival DEF Cleared, SInv, RaceInv, Busy
    <3>3. i \notin failed
      BY <1>5, <3>2
    <3> QED
      BY <3>1, <3>2, <3>3 DEF SInv, PromiseInv, ClearInv
  <2> QED
    BY <2>1, <2>2
<1>9. SettledInv'
  <2> SUFFICES ASSUME NEW i \in Id \ (failed' \cup blurred'),
                      \A u \in Req : ~Unsettled(u, i)'
               PROVE  Of(i, R) = Desired(i)
    BY <1>5 DEF SettledInv, Id, Mirror!Id, Of, Mirror!Of
  <2>1. \A u \in Req \ {t} : ~Unsettled(u, i)
    BY <1>4
  <2>2. CASE i \notin Scope(t)
    <3>1. i \notin failed \cup blurred /\ ~Unsettled(t, i)
      BY <1>2, <1>5, <2>2 DEF Unsettled
    <3> QED
      BY <2>1, <2>2, <3>1 DEF SInv, PromiseInv, SettledInv
  <2>3. CASE i \in Scope(t)
    <3>1. th[t].op \notin Clearers
      <4>1. ASSUME th[t].op \in Clearers
            PROVE  Unsettled(t, i)'
        <5>1. Busy(t)' /\ i \in Scope(t)'
          BY <1>2, <1>3, <2>3, <4>1 DEF Busy
        <5>2. Cleared(t)'
          BY <1>2, <1>3, <4>1 DEF Cleared, Clearers
        <5> QED
          BY <5>1, <5>2 DEF Unsettled
      <4> QED
        BY <4>1
    <3>2. i \notin th[t].mixed /\ i \notin bad
      BY <1>2, <1>5, <3>1
    <3>3. Alone(t, i)
      BY <2>3, <3>2 DEF Alone, Busy
    <3>4. Of(i, R) = Desired(i) \/ Coming(i)
      BY <3>1, <3>2, <3>3 DEF Aim
    <3>5. ~Coming(i)
      <4> SUFFICES ASSUME NEW u \in Req, th[u].op \in Writers,
                          th[u].pc = "lock", th[u].id = i
                   PROVE  FALSE
        BY DEF Coming
      <4>1. u # t /\ Busy(u)
        BY DEF Busy
      <4>2. i \in Scope(u)
        BY ScopeSingle DEF Writers
      <4> QED
        BY <2>1, <4>1, <4>2 DEF Unsettled
    <3> QED
      BY <3>4, <3>5
  <2> QED
    BY <2>2, <2>3
<1> QED
  BY <1>6, <1>7, <1>8, <1>9 DEF SInv, PromiseInv

-----------------------------------------------------------------------------
(* The actions under the mutex.                                              *)

\* Taking the mutex promises nothing yet.
LEMMA LockSettles ==
  ASSUME IInv, SInv, NEW t \in Req, Lock(t)
  PROVE  SInv'
<1> DEFINE l == IF th[t].op = "sync" THEN "list" ELSE "print"
           r == [th[t] EXCEPT !.pc = l, !.plan = Wanted(t)]
<1>1. /\ th \in [Req -> ThreadState] /\ th[t] \in ThreadState
      /\ th[t].pc = "lock" /\ lock = NoReq
      /\ UNCHANGED <<db, router, failed, blurred>>
  BY Types DEF Lock
<1>2. th' = [th EXCEPT ![t] = r]
  BY <1>1 DEF Lock
<1>3. /\ r.op = th[t].op /\ r.id = th[t].id /\ r.mixed = th[t].mixed
      /\ r.m = th[t].m /\ r.pc = l /\ l \in {"list", "print"}
      /\ l = "print" <=> th[t].op # "sync"
  BY <1>1 DEF ThreadState
<1> HIDE DEF r, l
<1>4. Onward(t, r)
  BY <1>1, <1>3 DEF Onward, Busy
<1>5. RaceInv'
  BY <1>1, <1>2, <1>3, <1>4, QuietStep DEF SInv, RaceInv, StageInv
<1>6. th'[t] = r
  BY <1>1, <1>2
<1>7. ASSUME NEW i \in Id, Unsettled(t, i)
      PROVE  Unsettled(t, i)'
  <2>1. Busy(t)' /\ Scope(t)' = Scope(t)
    BY <1>3, <1>6 DEF Busy, Scope, Id, Mirror!Id
  <2> QED
    BY <1>1, <1>3, <1>6, <1>7, <2>1 DEF Unsettled, Cleared, Writers
<1>8. ~Cleared(t)'
  BY <1>3, <1>6 DEF Cleared
<1>9. PromiseInv'
  BY <1>1, <1>2, <1>3, <1>4, <1>7, <1>8, CalmStep
<1> QED
  BY <1>5, <1>9 DEF SInv

\* A full synchronisation reads the rows as they are.
LEMMA ListSettles ==
  ASSUME IInv, SInv, NEW t \in Req, List(t)
  PROVE  SInv'
<1> DEFINE W == {[id |-> i, port |-> row[i].port, masq |-> row[i].masq] :
                   i \in {j \in rows : row[j].enabled}}
           r == [th[t] EXCEPT !.pc = "print", !.want = W, !.plan = W]
<1>1. /\ th \in [Req -> ThreadState] /\ th[t] \in ThreadState
      /\ th[t].pc = "list" /\ th[t].op = "sync"
      /\ UNCHANGED <<db, router, failed, blurred>>
  BY Types DEF List, IInv, ThreadsInv, Good, net
<1>2. th' = [th EXCEPT ![t] = r]
  BY <1>1 DEF List
<1>3. /\ r.op = "sync" /\ r.id = th[t].id /\ r.mixed = th[t].mixed
      /\ r.pc = "print" /\ r.want = W
  BY <1>1 DEF ThreadState
<1>4. ASSUME NEW i \in Id
      PROVE  WantedOf(r, i) = Desired(i)
  <2> DEFINE m == [id |-> i, port |-> row[i].port, masq |-> row[i].masq]
  <2>1. CASE i \in rows /\ row[i].enabled
    <3>1. m \in r.want /\ m.id = i
      BY <1>3, <2>1
    <3>2. \A n \in r.want : n.id = i => n = m
      BY <1>3
    <3>3. WantedOf(r, m.id) = RulesOf(m)
      BY <3>1, <3>2, WantedOne
    <3> QED
      BY <2>1, <3>1, <3>3, DesiredOfRow
  <2>2. CASE i \notin rows \/ ~row[i].enabled
    <3>1. \A n \in r.want : n.id # i
      BY <1>3, <2>2
    <3> QED
      BY <2>2, <3>1, WantedNone, DesiredOfRow
  <2> QED
    BY <2>1, <2>2
<1> HIDE DEF r, W
<1>5. Onward(t, r)
  BY <1>1, <1>3 DEF Onward, Busy
<1>6. RaceInv'
  BY <1>1, <1>2, <1>3, <1>5, QuietStep DEF SInv, Writers
<1>7. th'[t] = r
  BY <1>1, <1>2
<1>8. ASSUME NEW i \in Id, Unsettled(t, i)
      PROVE  Unsettled(t, i)'
  <2>1. Busy(t)' /\ Scope(t)' = Scope(t)
    BY <1>1, <1>3, <1>7 DEF Busy, Scope, Id, Mirror!Id
  <2> QED
    BY <1>1, <1>3, <1>7, <1>8, <2>1 DEF Unsettled, Cleared, Writers
<1>9. ~Cleared(t)'
  BY <1>3, <1>7 DEF Cleared
<1>10. ASSUME NEW i \in Id
       PROVE  Aim(t, i, WantedOf(r, i))
  BY <1>1, <1>4 DEF Aim, Clearers
<1>11. PromiseInv'
  BY <1>1, <1>2, <1>3, <1>5, <1>8, <1>9, <1>10, CalmStep
<1> QED
  BY <1>6, <1>11 DEF SInv

\* What a thread alone on a mapping is to install is what its row says, or
\* nothing if it clears the rules.
LEMMA WantedAims ==
  ASSUME IInv, SInv, NEW t \in Req, th[t].pc = "print", NEW r,
         r.want = Wanted(t), NEW i \in Id, Alone(t, i)
  PROVE  Aim(t, i, WantedOf(r, i))
<1>1. i \in Scope(t)
  BY DEF Alone
<1>2. CASE th[t].op = "sync"
  <2>1. WantedOf(r, i) = WantedOf(th[t], i)
    BY <1>2 DEF WantedOf, Wanted
  <2> QED
    BY <1>2, <2>1 DEF SInv, PromiseInv, PlanInv
<1>3. CASE th[t].op \in Writers
  <2> DEFINE m == [id |-> th[t].id, port |-> th[t].m.port,
                   masq |-> th[t].m.masq]
  <2>1. i \in rows /\ row[i] = th[t].m /\ th[t].id = i
    BY <1>1, <1>3, ScopeSingle DEF SInv, RaceInv, CopyInv, Writers
  <2>2. CASE th[t].m.enabled
    <3>1. r.want = {m} /\ m.id = i
      BY <1>3, <2>1, <2>2 DEF Wanted, Writers
    <3>2. WantedOf(r, m.id) = RulesOf(m)
      BY <3>1, WantedOne
    <3>3. Desired(i) = RulesOf(m)
      BY <2>1, <2>2, DesiredOfRow
    <3> QED
      BY <1>3, <3>1, <3>2, <3>3 DEF Aim, Writers, Clearers
  <2>3. CASE ~th[t].m.enabled
    <3>1. r.want = {}
      BY <1>3, <2>3 DEF Wanted, Writers
    <3>2. WantedOf(r, i) = {}
      BY <3>1, WantedNone
    <3>3. Desired(i) = {}
      BY <2>1, <2>3, DesiredOfRow
    <3> QED
      BY <1>3, <3>2, <3>3 DEF Aim, Writers, Clearers
  <2> QED
    BY <2>2, <2>3
<1>4. CASE th[t].op \in Clearers
  <2>1. r.want = {}
    BY <1>4 DEF Wanted, Clearers
  <2> QED
    BY <1>4, <2>1, WantedNone DEF Aim
<1>5. th[t].op # "none"
  BY DEF SInv, RaceInv, StageInv, Busy
<1> QED
  BY <1>2, <1>3, <1>4, <1>5, Types DEF ThreadState, Op, Writers, Clearers

\* The listing, answered or refused: the rewrite begins.
LEMMA PrintSettles ==
  ASSUME IInv, SInv, NEW t \in Req, NEW list, NEW bad, PrintRules(t, list, bad),
         \/ list = Listed(t) /\ bad = {}
         \/ list = {} /\ bad = Scope(t)
  PROVE  SInv'
<1> DEFINE r == [th[t] EXCEPT !.pc = "work", !.gone = list,
                   !.want = Wanted(t), !.cur = th[t].id, !.bad = bad,
                   !.m = IF th[t].op = "disable" THEN @ ELSE BlankRow]
<1>1. /\ th \in [Req -> ThreadState] /\ th[t] \in ThreadState /\ Good(th[t])
      /\ th[t].pc = "print" /\ router \subseteq Rule
      /\ UNCHANGED <<db, router, failed, blurred>>
  BY Types DEF PrintRules, IInv, SetsInv
<1>2. th' = [th EXCEPT ![t] = r]
  BY <1>1 DEF PrintRules
<1>3. /\ r.op = th[t].op /\ r.id = th[t].id /\ r.mixed = th[t].mixed
      /\ r.pc = "work" /\ r.want = Wanted(t) /\ r.gone = list /\ r.bad = bad
      /\ r.add = th[t].add /\ (r.op = "disable" => r.m = th[t].m)
  BY <1>1 DEF ThreadState
<1> HIDE DEF r
<1>4. Onward(t, r)
  BY <1>1, <1>3 DEF Onward, Busy
<1>5. RaceInv'
  BY <1>1, <1>2, <1>3, <1>4, QuietStep DEF SInv, RaceInv, StageInv
<1>6. th'[t] = r
  BY <1>1, <1>2
<1>7. ASSUME NEW i \in Id, Unsettled(t, i)
      PROVE  Unsettled(t, i)'
  <2>1. Busy(t)' /\ Scope(t)' = Scope(t)
    BY <1>3, <1>6 DEF Busy, Scope, Id, Mirror!Id
  <2> QED
    BY <1>3, <1>6, <1>7, <2>1 DEF Unsettled
<1>8. ~Cleared(t)'
  BY <1>3, <1>6 DEF Cleared
<1>9. ASSUME NEW i \in Id \ bad, Alone(t, i)
      PROVE  Aim(t, i, Plan(r, i, router))
  <2>1. i \in Scope(t)
    BY <1>9 DEF Alone
  <2>2. list = Listed(t) /\ r.add = {}
    BY <1>1, <1>3, <1>9, <2>1 DEF Good
  <2>3. \A x \in Of(i, router) : x \in r.gone
    BY <1>3, <2>1, <2>2 DEF Of, Mirror!Of, Listed
  <2>4. Plan(r, i, router) = WantedOf(r, i)
    BY <2>2, <2>3, PlanAtStart
  <2> QED
    BY <1>1, <1>3, <1>9, <2>4, WantedAims
<1>10. PromiseInv'
  BY <1>1, <1>2, <1>3, <1>4, <1>7, <1>8, <1>9, OnwardKeeps, CalmStep
<1> QED
  BY <1>5, <1>10 DEF SInv

\* A rule is deleted: the plan did not count on it.
LEMMA DeletionSettles ==
  ASSUME IInv, IInv', SInv, NEW t \in Req, DeleteNATRule(t) \/ DeleteFails(t)
  PROVE  SInv'
<1>1. /\ th \in [Req -> ThreadState] /\ th[t] \in ThreadState
      /\ th[t].pc = "work" /\ UNCHANGED <<db, stable, failed, blurred>>
  BY Types DEF DeleteNATRule, DeleteFails
<1>2. PICK x, B :
        /\ x \in th[t].gone
        /\ th' = [th EXCEPT ![t] = [th[t] EXCEPT !.gone = @ \ {x}, !.bad = B]]
        /\ th[t].bad \subseteq B
        /\ \/ router' = router \ {x}
           \/ router' = router /\ x.id \in B
  <2>1. CASE DeleteNATRule(t)
    <3>1. PICK x \in th[t].gone :
            /\ router' = router \ {x}
            /\ th' = [th EXCEPT ![t].gone = @ \ {x}]
      BY <2>1 DEF DeleteNATRule, Stale, Of, Mirror!Of
    <3>2. [th[t] EXCEPT !.gone = @ \ {x}]
            = [th[t] EXCEPT !.gone = @ \ {x}, !.bad = th[t].bad]
      BY <1>1 DEF ThreadState
    <3> QED
      BY <1>1, <3>1, <3>2
  <2>2. CASE DeleteFails(t)
    <3>1. PICK x \in th[t].gone :
            /\ router' \in {router, router \ {x}}
            /\ th' = [th EXCEPT ![t].gone = @ \ {x}, ![t].bad = @ \cup {x.id}]
      BY <2>2 DEF DeleteFails, Stale, Of, Mirror!Of
    <3> DEFINE b == th[t].bad \cup {x.id}
    <3>2. th' = [th EXCEPT ![t] = [th[t] EXCEPT !.gone = @ \ {x}, !.bad = b]]
      BY <1>1, <3>1
    <3>3. th[t].bad \subseteq b /\ x.id \in b
      OBVIOUS
    <3> HIDE DEF b
    <3> QED
      BY <3>1, <3>2, <3>3
  <2> QED
    BY <2>1, <2>2
<1> DEFINE r == [th[t] EXCEPT !.gone = @ \ {x}, !.bad = B]
<1>3. /\ r.op = th[t].op /\ r.id = th[t].id /\ r.mixed = th[t].mixed
      /\ r.pc = "work" /\ r.want = th[t].want /\ r.gone = th[t].gone \ {x}
      /\ r.bad = B /\ r.add = th[t].add /\ r.m = th[t].m
  BY <1>1 DEF ThreadState
<1>4. th' = [th EXCEPT ![t] = r]
  BY <1>2
<1> HIDE DEF r
<1>5. Onward(t, r)
  BY <1>1, <1>3 DEF Onward, Busy
<1>6. RaceInv'
  BY <1>1, <1>3, <1>4, <1>5, QuietStep DEF SInv, RaceInv, StageInv
<1>7. ASSUME NEW i \in Id \ r.bad
      PROVE  Plan(r, i, router') = Plan(th[t], i, router)
  <2>1. Of(i, Ahead(r, router')) = Of(i, Ahead(th[t], router))
    BY <1>2, <1>3, <1>7 DEF Of, Mirror!Of, Ahead
  <2>2. WantedOf(r, i) = WantedOf(th[t], i)
    BY <1>3 DEF WantedOf
  <2> QED
    BY <2>1, <2>2 DEF Plan
<1>8. PromiseInv'
  BY <1>1, <1>2, <1>3, <1>4, <1>5, <1>7, WorkingStep
<1> QED
  BY <1>6, <1>8 DEF SInv

\* The next mapping: its rules are now to be added instead of wanted.
LEMMA TakeSettles ==
  ASSUME IInv, IInv', SInv, NEW t \in Req, Take(t)
  PROVE  SInv'
<1>1. /\ th \in [Req -> ThreadState] /\ th[t] \in ThreadState /\ Good(th[t])
      /\ th[t].pc = "work" /\ th[t].add = {}
      /\ UNCHANGED <<db, router, stable, failed, blurred>>
  BY Types DEF Take, net
<1>2. PICK m \in th[t].want :
        th' = [th EXCEPT ![t].want = @ \ {m}, ![t].cur = m.id,
                         ![t].add = RulesOf(m)]
  BY DEF Take
<1> DEFINE r == [th[t] EXCEPT !.want = @ \ {m}, !.cur = m.id,
                              !.add = RulesOf(m)]
<1>3. /\ r.op = th[t].op /\ r.id = th[t].id /\ r.mixed = th[t].mixed
      /\ r.pc = "work" /\ r.want = th[t].want \ {m} /\ r.gone = th[t].gone
      /\ r.bad = th[t].bad /\ r.add = RulesOf(m) /\ r.m = th[t].m
  BY <1>1 DEF ThreadState
<1>4. th' = [th EXCEPT ![t] = r]
  BY <1>1, <1>2
<1> HIDE DEF r
<1>5. Onward(t, r)
  BY <1>1, <1>3 DEF Onward, Busy
<1>6. RaceInv'
  BY <1>1, <1>3, <1>4, <1>5, QuietStep DEF SInv, RaceInv, StageInv
<1>7. ASSUME NEW i \in Id
      PROVE  Plan(r, i, router) = Plan(th[t], i, router)
  <2>1. m \in Mapping /\ \A n \in th[t].want : n.id = m.id => n = m
    <3>1. Rewriting(th[t], router, stable)
      BY <1>1 DEF IInv, RewriteInv
    <3>2. th[t].want \subseteq th[t].plan
      BY <3>1 DEF Rewriting
    <3> QED
      BY <1>1, <3>2 DEF ThreadState, Good
  <2>2. \A x \in RulesOf(m) : x.id = m.id
    BY <2>1, RulesOfMapping
  <2>3. CASE i = m.id
    <3>1. WantedOf(th[t], i) = RulesOf(m)
      BY <2>1, <2>3, WantedOne
    <3>2. WantedOf(r, i) = {}
      BY <1>3, <2>1, <2>3, WantedNone
    <3>3. Of(i, Ahead(r, router)) = Of(i, Ahead(th[t], router)) \cup RulesOf(m)
      BY <1>1, <1>3, <2>2, <2>3 DEF Of, Mirror!Of, Ahead
    <3> QED
      BY <3>1, <3>2, <3>3 DEF Plan
  <2>4. CASE i # m.id
    <3>1. {n \in r.want : n.id = i} = {n \in th[t].want : n.id = i}
      BY <1>3, <2>4
    <3>2. WantedOf(r, i) = WantedOf(th[t], i)
      BY <3>1 DEF WantedOf
    <3>3. Of(i, Ahead(r, router)) = Of(i, Ahead(th[t], router))
      BY <1>1, <1>3, <2>2, <2>4 DEF Of, Mirror!Of, Ahead
    <3> QED
      BY <3>2, <3>3 DEF Plan
  <2> QED
    BY <2>3, <2>4
<1>8. PromiseInv'
  BY <1>1, <1>3, <1>4, <1>5, <1>7, WorkingStep
<1> QED
  BY <1>6, <1>8 DEF SInv

\* A rule is added: the plan had counted on it.
LEMMA AdditionSettles ==
  ASSUME IInv, IInv', SInv, NEW t \in Req, AddNATRule(t) \/ AddFails(t)
  PROVE  SInv'
<1>1. /\ th \in [Req -> ThreadState] /\ th[t] \in ThreadState
      /\ th[t].pc = "work" /\ Rewriting(th[t], router, stable)
      /\ StaleOf(th[t]) = {} /\ UNCHANGED <<db, stable, failed, blurred>>
  BY Types, ScopeIsScopeOf DEF AddNATRule, AddFails, IInv, RewriteInv
<1>2. PICK x, B :
        /\ x \in th[t].add
        /\ th' = [th EXCEPT ![t] = [th[t] EXCEPT !.add = @ \ {x}, !.bad = B]]
        /\ th[t].bad \subseteq B
        /\ \/ router' = router \cup {x}
           \/ router' = router /\ x.id \in B
  <2>1. CASE AddNATRule(t)
    <3>1. PICK x \in th[t].add :
            /\ router' = router \cup {x}
            /\ th' = [th EXCEPT ![t].add = @ \ {x}]
      BY <2>1 DEF AddNATRule, FirstToAdd
    <3>2. [th[t] EXCEPT !.add = @ \ {x}]
            = [th[t] EXCEPT !.add = @ \ {x}, !.bad = th[t].bad]
      BY <1>1 DEF ThreadState
    <3> QED
      BY <1>1, <3>1, <3>2
  <2>2. CASE AddFails(t)
    <3>1. PICK x \in th[t].add :
            /\ router' \in {router, router \cup {x}}
            /\ th' = [th EXCEPT ![t].add = @ \ {x}, ![t].bad = @ \cup {x.id}]
      BY <2>2 DEF AddFails, FirstToAdd
    <3> DEFINE b == th[t].bad \cup {x.id}
    <3>2. th' = [th EXCEPT ![t] = [th[t] EXCEPT !.add = @ \ {x}, !.bad = b]]
      BY <1>1, <3>1
    <3>3. th[t].bad \subseteq b /\ x.id \in b
      OBVIOUS
    <3> HIDE DEF b
    <3> QED
      BY <3>1, <3>2, <3>3
  <2> QED
    BY <2>1, <2>2
<1> DEFINE r == [th[t] EXCEPT !.add = @ \ {x}, !.bad = B]
<1>3. /\ r.op = th[t].op /\ r.id = th[t].id /\ r.mixed = th[t].mixed
      /\ r.pc = "work" /\ r.want = th[t].want /\ r.gone = th[t].gone
      /\ r.bad = B /\ r.add = th[t].add \ {x} /\ r.m = th[t].m
  BY <1>1 DEF ThreadState
<1>4. th' = [th EXCEPT ![t] = r]
  BY <1>2
<1> HIDE DEF r
<1>5. Onward(t, r)
  BY <1>1, <1>3 DEF Onward, Busy
<1>6. RaceInv'
  BY <1>1, <1>3, <1>4, <1>5, QuietStep DEF SInv, RaceInv, StageInv
<1>7. x \notin th[t].gone
  <2>1. x.id = th[t].cur /\ x.id # 0
    BY <1>1, <1>2, RuleIds DEF Rewriting, ThreadState
  <2> QED
    BY <1>1, <2>1 DEF StaleOf, Of, Mirror!Of
<1>8. ASSUME NEW i \in Id \ r.bad
      PROVE  Plan(r, i, router') = Plan(th[t], i, router)
  <2>1. Of(i, Ahead(r, router')) = Of(i, Ahead(th[t], router))
    BY <1>2, <1>3, <1>7, <1>8 DEF Of, Mirror!Of, Ahead
  <2>2. WantedOf(r, i) = WantedOf(th[t], i)
    BY <1>3 DEF WantedOf
  <2> QED
    BY <2>1, <2>2 DEF Plan
<1>9. PromiseInv'
  BY <1>1, <1>2, <1>3, <1>4, <1>5, <1>8, WorkingStep
<1> QED
  BY <1>6, <1>9 DEF SInv

\* The three ways out of a critical section.
LEMMA UnlockSettles ==
  ASSUME IInv, SInv, NEW t \in Req, Unlock(t) \/ PrintFails(t) \/ AddAborts(t)
  PROVE  SInv'
<1>1. /\ th[t] \in ThreadState /\ Scope(t) = ScopeOf(th[t])
      /\ Stale(t) = StaleOf(th[t]) /\ UNCHANGED db
  BY Types, ScopeIsScopeOf DEF IInv, Unlock, PrintFails, AddAborts
<1>2. th[t].pc = "work" => Rewriting(th[t], router, stable)
  BY DEF IInv, RewriteInv
<1>3. CASE Unlock(t)
  <2>1. /\ th[t].pc = "work" /\ StaleOf(th[t]) = {} /\ th[t].add = {}
        /\ th[t].want = {} /\ Release(t, router, th[t].bad)
    BY <1>1, <1>3 DEF Unlock
  <2>2. ASSUME NEW i \in Id \ th[t].bad, Alone(t, i)
        PROVE  Aim(t, i, Of(i, router))
    <3>1. Of(i, th[t].gone) = {}
      BY <1>2, <2>1 DEF Rewriting, StaleOf, Of, Mirror!Of
    <3>2. Plan(th[t], i, router) = Of(i, router)
      BY <2>1, <3>1, PlanAtEnd
    <3> QED
      BY <2>1, <2>2, <3>2 DEF SInv, PromiseInv, PlanInv
  <2> QED
    BY <1>1, <2>1, <2>2, LeavingStep
<1>4. CASE PrintFails(t)
  <2>1. Release(t, router, Scope(t)) /\ th[t].pc = "print"
    BY <1>4 DEF PrintFails
  <2> QED
    BY <1>1, <2>1, LeavingStep DEF Alone
<1>5. CASE AddAborts(t)
  <2>1. PICK x \in th[t].add :
          \E R \in {router, router \cup {x}} : Release(t, R, Scope(t))
    BY <1>5 DEF AddAborts, FirstToAdd
  <2>2. PICK R \in {router, router \cup {x}} : Release(t, R, Scope(t))
    BY <2>1
  <2>3. th[t].pc = "work" /\ Rewriting(th[t], router, stable)
    BY <1>2, <1>5 DEF AddAborts
  <2>4. x.id \in Scope(t)
    BY <1>1, <2>1, <2>3, RuleIds DEF Rewriting, ThreadState
  <2>5. \A i \in Id \ Scope(t) : Of(i, R) = Of(i, router)
    BY <2>4 DEF Of, Mirror!Of
  <2> QED
    BY <1>1, <2>2, <2>3, <2>5, LeavingStep DEF Alone
<1> QED
  BY <1>3, <1>4, <1>5

-----------------------------------------------------------------------------
(* SQL statements.                                                           *)

\* A thread alone on a mapping that writes the row finds its port free.
LEMMA PortFree ==
  ASSUME IInv, SInv, NEW t \in Req, NEW i \in Id, Alone(t, i),
         th[t].op = "disable"
  PROVE  i \in rows /\ th[t].id = i /\ ~PortTaken(th[t].m.port, th[t].id)
<1>1. th[t].id = i
  BY ScopeSingle DEF Alone
<1>2. i \in rows /\ row[i].port = th[t].m.port
  BY DEF SInv, RaceInv, CopyInv
<1> QED
  BY <1>1, <1>2 DEF SInv, RaceInv, PortsInv, PortTaken

\* A request that ends without a change of the rows, outside the mutex.
LEMMA EndingStep ==
  ASSUME IInv, SInv, NEW t \in Req, th[t].pc \in {"check", "write"},
         UNCHANGED <<db, router, failed>>,
         \/ GiveUp(t) /\ th[t].op # "disable"
         \/ Finish(t) /\ th[t].op = "disable"
              /\ PortTaken(th[t].m.port, th[t].id)
  PROVE  SInv'
<1>1. th \in [Req -> ThreadState] /\ Good(th[t])
  BY Types
<1>2. th' = [th EXCEPT ![t] = IdleThread]
  BY DEF GiveUp, Finish
<1>3. Onward(t, IdleThread)
  BY DEF Onward
<1>4. RaceInv'
  BY <1>2, <1>3, QuietStep DEF SInv, IdleThread, Writers
<1>5. ~Busy(t)' /\ IdleThread.pc = "idle"
  BY <1>1, <1>2 DEF Busy, IdleThread
<1>6. ASSUME NEW i \in Id, Unsettled(t, i)
      PROVE  i \in blurred'
  <2>1. i \in th[t].mixed
    <3>1. CASE th[t].op = "disable"
      BY <1>6, <3>1, PortFree DEF Alone, Unsettled
    <3>2. CASE th[t].op # "disable"
      <4>1. th[t].op # "delete"
        BY <1>1 DEF Good
      <4> QED
        BY <1>6, <3>2, <4>1 DEF Unsettled, Cleared, Clearers
    <3> QED
      BY <3>1, <3>2
  <2> QED
    BY <2>1 DEF GiveUp, Finish
<1>7. ASSUME NEW i \in Id, i \in blurred
      PROVE  i \in blurred'
  <2>1. CASE GiveUp(t)
    BY <1>7, <2>1 DEF GiveUp
  <2>2. CASE th[t].op = "disable" /\ Finish(t)
            /\ PortTaken(th[t].m.port, th[t].id)
    <3>1. i \in Scope(t) => i \in th[t].mixed
      BY <2>2, PortFree DEF Alone, Busy
    <3> QED
      BY <1>7, <2>2, <3>1 DEF Finish
  <2> QED
    BY <2>1, <2>2
<1>8. PromiseInv'
  <2>1. \A i \in Id : ~Alone(t, i)'
    BY <1>5 DEF Alone
  <2> QED
    BY <1>2, <1>3, <1>5, <1>6, <1>7, <2>1, CalmStep
<1> QED
  BY <1>4, <1>8 DEF SInv

\* The check of the port.
LEMMA CheckSettles ==
  ASSUME IInv, SInv, NEW t \in Req, Check(t)
  PROVE  SInv'
<1>1. /\ th \in [Req -> ThreadState] /\ th[t] \in ThreadState /\ Good(th[t])
      /\ th[t].pc = "check" /\ UNCHANGED <<db, router, failed>>
  BY Types DEF Check, net
<1>2. CASE PortTaken(th[t].m.port, th[t].id)
  BY <1>1, <1>2, EndingStep DEF Check
<1>3. CASE ~PortTaken(th[t].m.port, th[t].id)
  <2> DEFINE r == [th[t] EXCEPT !.pc = "write"]
  <2>1. th' = [th EXCEPT ![t] = r] /\ blurred' = blurred
    BY <1>1, <1>3 DEF Check, Goto
  <2>2. /\ r.op = th[t].op /\ r.id = th[t].id /\ r.mixed = th[t].mixed
        /\ r.pc = "write" /\ r.m = th[t].m
    BY <1>1 DEF ThreadState
  <2> HIDE DEF r
  <2>3. Onward(t, r)
    BY <1>1, <2>2 DEF Onward, Busy
  <2>4. RaceInv'
    <3>1. r.op # "create" /\ (r.op = "disable" => ~r.m.enabled)
      BY <1>1, <2>2 DEF SInv, RaceInv, StageInv
    <3> QED
      BY <1>1, <2>1, <2>2, <2>3, <3>1, QuietStep DEF SInv
  <2>5. th'[t] = r
    BY <1>1, <2>1
  <2>6. Busy(t)' /\ Scope(t)' = Scope(t) /\ (Cleared(t)' <=> Cleared(t))
    BY <1>1, <2>2, <2>5 DEF Busy, Scope, Cleared, Id, Mirror!Id
  <2>7. ASSUME NEW i \in Id, Unsettled(t, i)
        PROVE  Unsettled(t, i)'
    BY <1>1, <2>2, <2>5, <2>6, <2>7 DEF Unsettled
  <2>8. ASSUME NEW i \in Id \ failed, Alone(t, i)', Cleared(t)'
        PROVE  Of(i, router) = {}
    <3>1. Alone(t, i) /\ Cleared(t)
      BY <1>1, <2>2, <2>5, <2>6, <2>8 DEF Alone, Busy
    <3> QED
      BY <3>1 DEF SInv, PromiseInv, ClearInv
  <2>9. PromiseInv'
    BY <1>1, <2>1, <2>2, <2>3, <2>7, <2>8, CalmStep
  <2> QED
    BY <2>4, <2>9 DEF SInv
<1> QED
  BY <1>2, <1>3

\* A statement that changes the row of mapping i and of no other, by the only
\* thread that may count on that row.
LEMMA RowStep ==
  ASSUME IInv, SInv, NEW t \in Req, NEW r, th' = [th EXCEPT ![t] = r],
         NEW i \in Id, th[t].pc \in {"write", "remove"},
         r.pc = "idle" \/ (r.pc = "lock" /\ r.op \in Writers /\ r.id = i),
         UNCHANGED <<router, failed>>,
         \A j \in Id \ {i} : /\ j \notin Scope(t)
                             /\ j \in rows' <=> j \in rows
                             /\ row'[j] = row[j]
                             /\ j \in blurred => j \in blurred',
         \A u \in Req \ {t} : Alone(u, i) =>
           th[u].op = "sync" /\ (r.pc = "lock" \/ Desired(i)' = Desired(i)),
         r.pc = "idle" /\ i \notin failed \cup blurred'
           /\ (\A u \in Req \ {t} : ~Unsettled(u, i))
           => Of(i, router) = Desired(i)'
  PROVE  PromiseInv'
<1>1. th \in [Req -> ThreadState]
  BY Types
<1>2. th'[t] = r
  BY <1>1
<1>3. ASSUME NEW u \in Req, u # t
      PROVE  /\ th'[u] = th[u]
             /\ (Cleared(u)' <=> Cleared(u))
             /\ \A j \in Id : Alone(u, j)' <=> Alone(u, j)
             /\ \A j \in Id : Unsettled(u, j)' <=> Unsettled(u, j)
  BY <1>1, <1>3, Others
<1>4. ASSUME NEW j \in Id \ {i}
      PROVE  Desired(j)' = Desired(j)
  BY DEF Desired, RulesOf, Mirror!RulesOf
<1>5. ASSUME NEW j \in Id, Coming(j)
      PROVE  Coming(j)'
  BY <1>3, <1>5 DEF Coming, Writers
<1>6. r.pc = "lock" => Coming(i)'
  BY <1>2 DEF Coming, Writers
<1>7. PlanInv'
  <2> SUFFICES ASSUME NEW u \in Req, NEW j \in Id, Alone(u, j)',
                      th'[u].pc \in {"print", "work"}
               PROVE  /\ th'[u].pc = "work" /\ j \notin th'[u].bad
                           => Aim(u, j, Plan(th[u], j, router))'
                      /\ th'[u].pc = "print" /\ th'[u].op = "sync"
                           => Aim(u, j, WantedOf(th[u], j))'
    BY DEF PlanInv, Id, Mirror!Id
  <2>1. u # t
    BY <1>2
  <2>2. Alone(u, j) /\ th'[u] = th[u]
    BY <1>3, <2>1
  <2>3. ASSUME NEW S, Aim(u, j, S)
        PROVE  Aim(u, j, S)'
    <3>1. CASE j # i
      BY <1>4, <1>5, <2>2, <2>3, <3>1 DEF Aim
    <3>2. CASE j = i
      <4>1. th'[u].op \notin Clearers
        BY <2>1, <2>2, <3>2 DEF Clearers
      <4>2. S = Desired(i) \/ Coming(i)
        BY <2>2, <2>3, <3>2, <4>1 DEF Aim
      <4>3. S = Desired(i)' \/ Coming(i)'
        BY <1>5, <1>6, <2>1, <2>2, <3>2, <4>2
      <4> QED
        BY <3>2, <4>1, <4>3 DEF Aim, Clearers
    <3> QED
      BY <3>1, <3>2
  <2> QED
    BY <2>2, <2>3 DEF SInv, PromiseInv, PlanInv
<1>8. ClearInv'
  <2> SUFFICES ASSUME NEW u \in Req, NEW j \in Id \ failed, Alone(u, j)',
                      Cleared(u)'
               PROVE  Of(j, router) = {}
    BY DEF ClearInv, Id, Mirror!Id, Of, Mirror!Of
  <2>1. u # t
    BY <1>2 DEF Cleared
  <2> QED
    BY <1>3, <2>1 DEF SInv, PromiseInv, ClearInv
<1>9. SettledInv'
  <2> SUFFICES ASSUME NEW j \in Id \ (failed \cup blurred'),
                      \A u \in Req : ~Unsettled(u, j)'
               PROVE  Of(j, router) = Desired(j)'
    BY DEF SettledInv, Id, Mirror!Id, Of, Mirror!Of
  <2>1. \A u \in Req \ {t} : ~Unsettled(u, j)
    BY <1>3
  <2>2. CASE j # i
    <3>1. ~Unsettled(t, j) /\ j \notin blurred
      BY <2>2 DEF Unsettled
    <3> QED
      BY <1>4, <2>1, <2>2, <3>1 DEF SInv, PromiseInv, SettledInv
  <2>3. CASE j = i
    <3>1. r.pc # "lock"
      <4>1. ASSUME r.pc = "lock"
            PROVE  Unsettled(t, i)'
        <5>1. Busy(t)'
          BY <1>2, <4>1 DEF Busy
        <5>2. i \in Scope(t)'
          BY <1>2, <4>1, IdPositive DEF Scope, Writers
        <5> QED
          BY <1>2, <4>1, <5>1, <5>2 DEF Unsettled, Writers
      <4> QED
        BY <2>3, <4>1
    <3> QED
      BY <2>1, <2>3, <3>1
  <2> QED
    BY <2>2, <2>3
<1> QED
  BY <1>7, <1>8, <1>9 DEF PromiseInv

\* What is asked of the rows and the requests, after the same.
LEMMA RowRaceStep ==
  ASSUME IInv, SInv, NEW t \in Req, NEW r, th' = [th EXCEPT ![t] = r],
         NEW i \in Id, Onward(t, r), i \in Scope(t), th[t].op # "sync",
         Busy(t),
         r.pc = "idle" \/ (r.pc = "lock" /\ r.m = th[t].m /\ r.op # "disable"),
         i \in rows /\ r.pc = "lock" => row'[i] = th[t].m,
         rows' \subseteq rows, lastId' = lastId,
         \A j \in Id \ {i} : (j \in rows' <=> j \in rows) /\ row'[j] = row[j],
         th[t].op \in Writers => rows' = rows,
         i \in rows' => \A j \in rows \ {i} : row[j].port # row'[i].port
  PROVE  RaceInv'
<1>1. th \in [Req -> ThreadState] /\ rows \subseteq Id
  BY Types DEF IInv, RowsInv
<1>2. /\ th'[t] = r
      /\ Busy(t)' => /\ Busy(t) /\ Scope(t)' = Scope(t) /\ r # IdleThread
                     /\ r.op = th[t].op /\ r.id = th[t].id
      /\ \A j \in Id : Alone(t, j)' => Alone(t, j)
  BY <1>1, OnwardKeeps
<1>3. ASSUME NEW u \in Req, u # t
      PROVE  /\ th'[u] = th[u] /\ (Busy(u)' <=> Busy(u))
             /\ Scope(u)' = Scope(u)
             /\ \A j \in Id : Alone(u, j)' <=> Alone(u, j)
  BY <1>1, <1>3, Others
<1>4. PortsInv'
  BY <1>1 DEF SInv, RaceInv, PortsInv
<1>5. KnownInv'
  <2>1. th'[t].id <= lastId
    <3>1. CASE r = IdleThread
      <4>1. 0 <= lastId
        BY NATAssumption DEF IInv, RowsInv, NATAssumption
      <4> QED
        BY <1>2, <3>1, <4>1 DEF IdleThread
    <3>2. CASE r # IdleThread
      BY <1>2, <3>2 DEF Onward, SInv, RaceInv, KnownInv
    <3> QED
      BY <3>1, <3>2
  <2> QED
    BY <1>3, <2>1 DEF SInv, RaceInv, KnownInv
<1>6. MixedInv'
  <2> SUFFICES ASSUME NEW u \in Req, NEW v \in Req, NEW j \in Id, u # v,
                      Alone(u, j)', Busy(v)', j \in Scope(v)'
               PROVE  ~Races(th'[u].op, th'[v].op)
    BY DEF MixedInv, Races, Id, Mirror!Id
  <2>1. Alone(u, j) /\ Busy(v) /\ j \in Scope(v)
    BY <1>2, <1>3
  <2>2. th'[u].op = th[u].op /\ th'[v].op = th[v].op
    BY <1>2, <1>3 DEF Alone
  <2> QED
    BY <2>1, <2>2 DEF SInv, RaceInv, MixedInv
<1>7. CopyInv'
  <2> SUFFICES ASSUME NEW u \in Req, NEW j \in Id, Alone(u, j)',
                      th'[u].op \in Writers \cup {"disable"}
               PROVE  /\ j \in rows'
                      /\ th'[u].op = "disable" => row'[j].port = th'[u].m.port
                      /\ th'[u].op # "disable"
                            /\ th'[u].pc \in {"lock", "print"}
                           => row'[j] = th'[u].m
    BY DEF CopyInv, Writers, Id, Mirror!Id
  <2>1. CASE u # t
    <3>1. Alone(u, j) /\ th'[u] = th[u]
      BY <1>3, <2>1
    <3>2. j # i
      <4>1. j = i => th[u].op = "sync"
        BY <2>1, <3>1, NoRival DEF SInv, RaceInv
      <4> QED
        BY <3>1, <4>1 DEF Writers
    <3> QED
      BY <3>1, <3>2 DEF SInv, RaceInv, CopyInv
  <2>2. CASE u = t
    <3>1. Alone(t, j) /\ r.op = th[t].op /\ r.pc = "lock"
      BY <1>2, <2>2 DEF Alone, Busy
    <3>2. j = i
      BY <3>1, ScopeSingle DEF Alone
    <3>3. i \in rows /\ r.op \in Writers
      BY <2>2, <1>2, <3>1, <3>2 DEF SInv, RaceInv, CopyInv
    <3> QED
      BY <1>2, <2>2, <3>1, <3>2, <3>3
  <2> QED
    BY <2>1, <2>2
<1>8. StageInv'
  <2>1. r = IdleThread => r.op = "none" /\ r.pc = "idle"
    BY DEF IdleThread
  <2>2. \A u \in Req \ {t} : th'[u] = th[u]
    BY <1>3
  <2>3. Busy(t)' => r.op # "none"
    BY <1>2, <2>1 DEF Onward, SInv, RaceInv, StageInv
  <2>4. \A u \in Req : Busy(u)' => th'[u].op # "none"
    BY <1>2, <1>3, <2>3 DEF SInv, RaceInv, StageInv
  <2>5. r.op # "disable"
    BY <1>2, <2>1 DEF Onward, Busy
  <2> QED
    BY <1>2, <2>1, <2>2, <2>4, <2>5 DEF SInv, RaceInv, StageInv
<1> QED
  BY <1>4, <1>5, <1>6, <1>7, <1>8 DEF RaceInv

\* The UPDATE: a disable has cleared the rules of the row it writes, the
\* others have still to install theirs.
LEMMA WriteSettles ==
  ASSUME IInv, SInv, NEW t \in Req, Write(t)
  PROVE  SInv'
<1>1. /\ th \in [Req -> ThreadState] /\ th[t] \in ThreadState /\ Good(th[t])
      /\ th[t].pc = "write" /\ th[t].op \in {"update", "enable", "disable"}
      /\ UNCHANGED <<router, failed>> /\ rows \subseteq Id
      /\ row \in [Id -> Row]
  BY Types DEF Write, net, Good, IInv, RowsInv
<1>2. PICK i \in Id : i = th[t].id
  BY <1>1 DEF Good
<1>3. i \in Scope(t) /\ Busy(t) /\ \A j \in Id \ {i} : j \notin Scope(t)
  BY <1>1, <1>2, ScopeSingle DEF Busy
<1>4. CASE i \in rows /\ PortTaken(th[t].m.port, i)
  BY <1>1, <1>2, <1>4, EndingStep DEF Write
<1>5. CASE ~(i \in rows /\ PortTaken(th[t].m.port, i))
  <2>1. /\ UNCHANGED <<rows, lastId>>
        /\ i \in rows => row'[i] = th[t].m
        /\ \A j \in Id \ {i} : row'[j] = row[j]
    BY <1>1, <1>2, <1>5 DEF Write
  <2>2. i \in rows' => \A j \in rows \ {i} : row[j].port # row'[i].port
    BY <1>5, <2>1 DEF PortTaken
  <2>3. ASSUME NEW u \in Req \ {t}, Alone(u, i)
        PROVE  th[u].op = "sync" /\ th[t].op # "disable"
    BY <1>1, <1>3, <2>3, NoRival DEF SInv, RaceInv, Clearers
  <2>4. CASE th[t].op = "disable"
    <3>1. th' = [th EXCEPT ![t] = IdleThread] /\ IdleThread.pc = "idle"
          /\ blurred' = (blurred \ Scope(t)) \cup th[t].mixed
      BY <1>2, <1>5, <2>4 DEF Write, Finish, IdleThread
    <3>2. Onward(t, IdleThread)
      BY DEF Onward
    <3>3. ASSUME i \notin failed \cup blurred'
          PROVE  Of(i, router) = Desired(i)'
      <4>1. Alone(t, i) /\ Cleared(t)
        BY <1>1, <1>3, <2>4, <3>1, <3>3 DEF Alone, Cleared, Clearers
      <4>2. Of(i, router) = {}
        BY <3>3, <4>1 DEF SInv, PromiseInv, ClearInv
      <4>3. i \in rows /\ ~th[t].m.enabled
        BY <2>4, <4>1, PortFree DEF SInv, RaceInv, StageInv
      <4> QED
        BY <2>1, <4>2, <4>3 DEF Desired
    <3>4. RaceInv'
      BY <1>1, <1>3, <2>1, <2>2, <2>4, <3>1, <3>2, RowRaceStep DEF Writers
    <3>5. PromiseInv'
      <4>1. \A j \in Id \ {i} : j \in blurred => j \in blurred'
        BY <1>3, <3>1
      <4> QED
        BY <1>1, <1>3, <2>1, <2>3, <2>4, <3>1, <3>3, <4>1, RowStep
    <3> QED
      BY <3>4, <3>5 DEF SInv
  <2>5. CASE th[t].op # "disable"
    <3> DEFINE r == [th[t] EXCEPT !.pc = "lock"]
    <3>1. th' = [th EXCEPT ![t] = r] /\ blurred' = blurred
      BY <1>1, <1>2, <1>5, <2>5 DEF Write, Goto
    <3>2. /\ r.op = th[t].op /\ r.id = th[t].id /\ r.mixed = th[t].mixed
          /\ r.pc = "lock" /\ r.m = th[t].m
      BY <1>1 DEF ThreadState
    <3> HIDE DEF r
    <3>3. Onward(t, r)
      BY <1>3, <3>2 DEF Onward
    <3>4. RaceInv'
      BY <1>1, <1>3, <2>1, <2>2, <2>5, <3>1, <3>2, <3>3, RowRaceStep
    <3>5. PromiseInv'
      <4>1. r.op \in Writers /\ r.id = i
        BY <1>1, <1>2, <2>5, <3>2 DEF Writers
      <4> QED
        BY <1>1, <1>3, <2>1, <2>3, <3>1, <3>2, <4>1, RowStep
    <3> QED
      BY <3>4, <3>5 DEF SInv
  <2> QED
    BY <2>4, <2>5
<1> QED
  BY <1>4, <1>5

\* The DELETE: the rules of the row are gone already.
LEMMA RemoveSettles ==
  ASSUME IInv, SInv, NEW t \in Req, Remove(t)
  PROVE  SInv'
<1>1. /\ th \in [Req -> ThreadState] /\ Good(th[t])
      /\ th[t].pc = "remove" /\ th[t].op = "delete"
      /\ UNCHANGED <<router, failed, lastId>> /\ rows \subseteq Id
      /\ row \in [Id -> Row]
  BY Types DEF Remove, net, IInv, RowsInv, SInv, RaceInv, StageInv
<1>2. PICK i \in Id : i = th[t].id
  BY <1>1 DEF Good
<1>3. i \in Scope(t) /\ Busy(t) /\ \A j \in Id \ {i} : j \notin Scope(t)
  BY <1>1, <1>2, ScopeSingle DEF Busy
<1>4. /\ rows' = rows \ {i} /\ \A j \in Id \ {i} : row'[j] = row[j]
      /\ th' = [th EXCEPT ![t] = IdleThread] /\ IdleThread.pc = "idle"
      /\ blurred' = (blurred \ Scope(t)) \cup th[t].mixed
  BY <1>1, <1>2 DEF Remove, Finish, IdleThread
<1>5. Onward(t, IdleThread)
  BY DEF Onward
<1>6. ASSUME i \notin failed \cup blurred'
      PROVE  Of(i, router) = Desired(i)'
  <2>1. Alone(t, i) /\ Cleared(t)
    BY <1>1, <1>3, <1>4, <1>6 DEF Alone, Cleared, Clearers
  <2>2. Of(i, router) = {}
    BY <1>6, <2>1 DEF SInv, PromiseInv, ClearInv
  <2> QED
    BY <1>4, <2>2 DEF Desired
<1>7. RaceInv'
  <2>1. th[t].op \notin Writers
    BY <1>1 DEF Writers
  <2>2. /\ rows' \subseteq rows /\ i \notin rows'
        /\ \A j \in Id \ {i} : (j \in rows' <=> j \in rows) /\ row'[j] = row[j]
    BY <1>4
  <2> QED
    BY <1>1, <1>3, <1>4, <1>5, <2>1, <2>2, RowRaceStep
<1>8. PromiseInv'
  <2>1. \A u \in Req \ {t} : ~Alone(u, i)
    BY <1>1, <1>3, NoRival DEF SInv, RaceInv, Clearers
  <2>2. \A j \in Id \ {i} : j \in blurred => j \in blurred'
    BY <1>3, <1>4
  <2> QED
    BY <1>1, <1>3, <1>4, <1>6, <2>1, <2>2, RowStep
<1> QED
  BY <1>7, <1>8 DEF SInv

\* The INSERT: nobody but a full synchronisation works on the new mapping.
LEMMA InsertSettles ==
  ASSUME IInv, SInv, NEW t \in Req, Insert(t)
  PROVE  SInv'
<1>1. /\ th \in [Req -> ThreadState] /\ th[t] \in ThreadState
      /\ th[t].pc = "write" /\ th[t].op = "create" /\ th[t].id = 0
      /\ UNCHANGED <<router, failed>> /\ rows \subseteq Id
      /\ row \in [Id -> Row] /\ lastId \in Nat
  BY Types, NATAssumption
  DEF Insert, net, IInv, RowsInv, SInv, RaceInv, StageInv, NATAssumption
<1>2. CASE PortTaken(th[t].m.port, 0)
  BY <1>1, <1>2, EndingStep DEF Insert
<1>3. CASE ~PortTaken(th[t].m.port, 0)
  <2>1. /\ lastId < MaxId /\ lastId' = lastId + 1
        /\ rows' = rows \cup {lastId + 1}
        /\ row' = [row EXCEPT ![lastId + 1] = th[t].m]
        /\ IF th[t].m.enabled
             THEN th' = [th EXCEPT ![t].pc = "lock", ![t].id = lastId + 1]
             ELSE th' = [th EXCEPT ![t] = IdleThread]
        /\ blurred' = blurred
    BY <1>3 DEF Insert
  <2>2. PICK i \in Id : i = lastId + 1
    BY <1>1, <2>1, NATAssumption DEF NATAssumption, Id, Mirror!Id
  <2>3. PICK r :
          /\ th' = [th EXCEPT ![t] = r]
          /\ \/ r.pc = "idle" /\ r.op = "none" /\ r.id = 0 /\ ~th[t].m.enabled
             \/ r.pc = "lock" /\ r.op = "create" /\ r.id = i /\ r.m = th[t].m
    <3>1. CASE th[t].m.enabled
      <4> DEFINE r == [th[t] EXCEPT !.pc = "lock", !.id = i]
      <4>1. th' = [th EXCEPT ![t] = r]
        BY <1>1, <2>1, <2>2, <3>1
      <4>2. r.pc = "lock" /\ r.op = "create" /\ r.id = i /\ r.m = th[t].m
        BY <1>1 DEF ThreadState
      <4> QED
        BY <4>1, <4>2
    <3>2. CASE ~th[t].m.enabled
      <4>1. th' = [th EXCEPT ![t] = IdleThread]
        BY <2>1, <3>2
      <4>2. /\ IdleThread.pc = "idle" /\ IdleThread.op = "none"
            /\ IdleThread.id = 0
        BY DEF IdleThread
      <4> QED
        BY <3>2, <4>1, <4>2
    <3> QED
      BY <3>1, <3>2
  <2>4. i \notin rows /\ \A u \in Req : th[u].id # i /\ th[u].id \in Nat
    <3>1. \A u \in Req : th[u].id \in Nat /\ th[u].id <= lastId
      BY Types, NATAssumption
      DEF SInv, RaceInv, KnownInv, NATAssumption
    <3>2. \A j \in rows : j \in Nat /\ j <= lastId
      BY <1>1, IdPositive DEF SInv, RaceInv, KnownInv
    <3> QED
      BY <1>1, <2>2, <3>1, <3>2
  <2>5. \A u \in Req : i \in Scope(u) => th[u].op = "sync"
    BY <2>4, ScopeSingle
  <2>6. \A j \in Id : j \notin Scope(t)
    BY <1>1, IdPositive DEF Scope
  <2>7. th'[t] = r
    BY <1>1, <2>3
  <2>8. ASSUME NEW u \in Req, u # t
        PROVE  /\ th'[u] = th[u] /\ (Busy(u)' <=> Busy(u))
               /\ Scope(u)' = Scope(u)
               /\ \A j \in Id : Alone(u, j)' <=> Alone(u, j)
    BY <1>1, <2>3, <2>8, Others
  <2>9. Busy(t)' => /\ r.op = "create" /\ r.pc = "lock" /\ r.m = th[t].m
                    /\ \A j \in Id : j \in Scope(t)' => j = i
    <3>1. Busy(t)' => r.op = "create" /\ r.pc = "lock" /\ r.id = i
                      /\ r.m = th[t].m
      BY <2>3, <2>7 DEF Busy
    <3> QED
      BY <2>7, <3>1 DEF Scope
  <2>10. /\ rows' = rows \cup {i} /\ row'[i] = th[t].m
         /\ \A j \in rows : row'[j] = row[j]
         /\ \A j \in Id \ {i} : row'[j] = row[j]
    BY <1>1, <2>1, <2>2, <2>4
  <2>11. RaceInv'
    <3>1. PortsInv'
      <4>1. \A j \in rows : row[j].port # th[t].m.port
        BY <1>1, <1>3, IdPositive DEF PortTaken
      <4> QED
        BY <2>4, <2>10, <4>1 DEF SInv, RaceInv, PortsInv
    <3>2. KnownInv'
      <4>1. \A j \in rows' : j <= lastId'
        <5>1. \A j \in rows : j \in Nat /\ j <= lastId
          BY <1>1, IdPositive DEF SInv, RaceInv, KnownInv
        <5> QED
          BY <1>1, <2>1, <2>2, <2>10, <5>1
      <4>2. th'[t].id <= lastId'
        BY <1>1, <2>1, <2>2, <2>3, <2>7
      <4>3. \A u \in Req \ {t} : th[u].id <= lastId'
        BY <1>1, <2>1, <2>4 DEF SInv, RaceInv, KnownInv
      <4> QED
        BY <2>8, <4>1, <4>2, <4>3 DEF KnownInv
    <3>3. MixedInv'
      <4> SUFFICES ASSUME NEW u \in Req, NEW v \in Req, NEW j \in Id, u # v,
                          Alone(u, j)', Busy(v)', j \in Scope(v)'
                   PROVE  ~Races(th'[u].op, th'[v].op)
        BY DEF MixedInv, Races, Id, Mirror!Id
      <4>1. CASE u # t /\ v # t
        BY <2>8, <4>1 DEF SInv, RaceInv, MixedInv
      <4>2. CASE u = t
        <5>1. j = i /\ th'[u].op = "create"
          BY <2>7, <2>9, <4>2 DEF Alone
        <5>2. th'[v].op = "sync"
          BY <2>5, <2>8, <4>2, <5>1
        <5> QED
          BY <5>1, <5>2 DEF Races
      <4>3. CASE v = t
        <5>1. j = i /\ th'[v].op = "create"
          BY <2>7, <2>9, <4>3
        <5>2. th'[u].op = "sync"
          BY <2>5, <2>8, <4>3, <5>1 DEF Alone
        <5> QED
          BY <5>1, <5>2 DEF Races
      <4> QED
        BY <4>1, <4>2, <4>3
    <3>4. CopyInv'
      <4> SUFFICES ASSUME NEW u \in Req, NEW j \in Id, Alone(u, j)',
                          th'[u].op \in Writers \cup {"disable"}
                   PROVE  /\ j \in rows'
                          /\ th'[u].op = "disable"
                               => row'[j].port = th'[u].m.port
                          /\ th'[u].op # "disable"
                                /\ th'[u].pc \in {"lock", "print"}
                               => row'[j] = th'[u].m
        BY DEF CopyInv, Writers, Id, Mirror!Id
      <4>1. CASE u # t
        <5>1. Alone(u, j) /\ th'[u] = th[u]
          BY <2>8, <4>1
        <5>2. j \in rows
          BY <5>1 DEF SInv, RaceInv, CopyInv
        <5> QED
          BY <2>10, <5>1, <5>2 DEF SInv, RaceInv, CopyInv
      <4>2. CASE u = t
        <5>1. j = i /\ r.op = "create" /\ r.m = th[t].m
          BY <2>9, <4>2 DEF Alone
        <5> QED
          BY <2>7, <2>10, <4>2, <5>1
      <4> QED
        BY <4>1, <4>2
    <3>5. StageInv'
      <4>1. \A u \in Req \ {t} : th'[u] = th[u] /\ (Busy(u)' <=> Busy(u))
        BY <2>8
      <4>2. r.op \notin {"disable", "delete"} /\ r.pc \notin {"remove", "check"}
            /\ r.pc # "write"
        BY <2>3
      <4>3. \A u \in Req : Busy(u)' => th'[u].op # "none"
        BY <2>7, <2>9, <4>1 DEF SInv, RaceInv, StageInv
      <4> QED
        BY <2>7, <4>1, <4>2, <4>3 DEF SInv, RaceInv, StageInv
    <3> QED
      BY <3>1, <3>2, <3>3, <3>4, <3>5 DEF RaceInv
  <2>12. PromiseInv'
    <3>1. \A j \in Id \ {i} : /\ j \notin Scope(t)
                              /\ j \in rows' <=> j \in rows
                              /\ row'[j] = row[j]
                              /\ j \in blurred => j \in blurred'
      BY <2>1, <2>6, <2>10
    <3>2. r.pc # "lock" => Desired(i)' = Desired(i)
      BY <2>3, <2>4, <2>10 DEF Desired
    <3>3. \A u \in Req \ {t} : Alone(u, i) =>
            th[u].op = "sync" /\ (r.pc = "lock" \/ Desired(i)' = Desired(i))
      BY <2>5, <3>2 DEF Alone
    <3>4. ASSUME r.pc = "idle", i \notin failed \cup blurred',
                 \A u \in Req \ {t} : ~Unsettled(u, i)
          PROVE  Of(i, router) = Desired(i)'
      <4>1. \A u \in Req : ~Unsettled(u, i)
        BY <2>6, <3>4 DEF Unsettled
      <4> QED
        BY <2>1, <3>2, <3>4, <4>1 DEF SInv, PromiseInv, SettledInv
    <3>5. r.pc = "idle" \/ (r.pc = "lock" /\ r.op \in Writers /\ r.id = i)
      BY <2>3 DEF Writers
    <3>6. r.pc = "idle" /\ i \notin failed \cup blurred'
            /\ (\A u \in Req \ {t} : ~Unsettled(u, i))
            => Of(i, router) = Desired(i)'
      BY <3>4
    <3> QED
      BY <1>1, <2>3, <3>1, <3>3, <3>5, <3>6, RowStep
  <2> QED
    BY <2>11, <2>12 DEF SInv
<1> QED
  BY <1>2, <1>3

-----------------------------------------------------------------------------
(* Requests, crashes, and the invariant.                                     *)

\* A request on a mapping, or on all, begins: those it races with lose their
\* promises about what both work on, and it makes none about that.
LEMMA EnterSettles ==
  ASSUME IInv, SInv, NEW t \in Req, NEW o, NEW scope \in SUBSET Id, NEW s,
         s \in ThreadState, ~Busy(t), Enter(t, o, scope, s),
         UNCHANGED <<db, net, blurred>>,
         s.op = o, s.id <= lastId, ScopeOf(s) = scope,
         \/ o \in {"update", "enable"} /\ s.pc = "check"
         \/ o \in {"disable", "delete", "sync"} /\ s.pc = "lock",
         o = "disable" => ~s.m.enabled,
         o \in {"update", "enable", "disable"} =>
           \A i \in scope : i \in rows /\ (o = "disable" =>
                                             row[i].port = s.m.port)
  PROVE  SInv'
<1>1. th \in [Req -> ThreadState] /\ \A u \in Req : th[u] \in ThreadState
  BY Types
<1> DEFINE N == Rivals(t, o, scope)
<1>2. /\ th'[t].op = o /\ th'[t].pc = s.pc /\ th'[t].id = s.id
      /\ th'[t].m = s.m
      /\ \A v \in N : scope \cap Scope(v) \subseteq th'[t].mixed
  <2> DEFINE W == UNION {scope \cap Scope(v) : v \in N}
  <2>1. th'[t] = [s EXCEPT !.mixed = W]
    BY DEF Enter
  <2>2. \A v \in N : scope \cap Scope(v) \subseteq W
    OBVIOUS
  <2> HIDE DEF W, N
  <2> QED
    BY <2>1, <2>2 DEF ThreadState
<1>3. ASSUME NEW u \in Req, u # t
      PROVE  /\ th'[u].op = th[u].op /\ th'[u].pc = th[u].pc
             /\ th'[u].id = th[u].id /\ th'[u].m = th[u].m
             /\ th'[u].gone = th[u].gone /\ th'[u].want = th[u].want
             /\ th'[u].add = th[u].add /\ th'[u].bad = th[u].bad
             /\ th[u].mixed \subseteq th'[u].mixed
             /\ u \in N => scope \cap Scope(u) \subseteq th'[u].mixed
  <2> DEFINE W == th[u].mixed \cup (scope \cap Scope(u))
  <2>1. th'[u] = IF u \in N THEN [th[u] EXCEPT !.mixed = W] ELSE th[u]
    BY <1>3 DEF Enter
  <2>2. th[u].mixed \subseteq W /\ scope \cap Scope(u) \subseteq W
    OBVIOUS
  <2>3. th[u] \in ThreadState
    BY <1>1
  <2> HIDE DEF W, N
  <2> QED
    BY <2>1, <2>2, <2>3 DEF ThreadState
<1>4. Busy(t)' /\ Scope(t)' = scope
  <2>1. Busy(t)'
    BY <1>2 DEF Busy
  <2>2. Scope(t)' = scope
    BY <1>2 DEF Scope, ScopeOf, Id, Mirror!Id
  <2> QED
    BY <2>1, <2>2
<1>5. ASSUME NEW u \in Req, u # t
      PROVE  /\ (Busy(u)' <=> Busy(u)) /\ Scope(u)' = Scope(u)
             /\ (Cleared(u)' <=> Cleared(u))
             /\ \A i \in Id : Alone(u, i)' => Alone(u, i)
             /\ \A i \in Id : Unsettled(u, i) => Unsettled(u, i)'
  <2>1. Busy(u)' <=> Busy(u)
    BY <1>3, <1>5 DEF Busy
  <2>2. Scope(u)' = Scope(u)
    BY <1>3, <1>5 DEF Scope, Id, Mirror!Id
  <2>3. Cleared(u)' <=> Cleared(u)
    BY <1>3, <1>5 DEF Cleared
  <2>4. \A i \in Id : Alone(u, i)' => Alone(u, i)
    BY <1>3, <1>5, <2>1, <2>2 DEF Alone
  <2>5. \A i \in Id : Unsettled(u, i) => Unsettled(u, i)'
    BY <1>3, <1>5, <2>1, <2>2, <2>3 DEF Unsettled
  <2> QED
    BY <2>1, <2>2, <2>3, <2>4, <2>5
<1>6. /\ UNCHANGED <<rows, row, lastId, router, failed, blurred>>
      /\ \A i \in Id : Desired(i)' = Desired(i)
  BY DEF db, net, Desired, RulesOf, Mirror!RulesOf
<1>7. ASSUME NEW i \in Id, Coming(i)
      PROVE  Coming(i)'
  <2>1. PICK u \in Req : th[u].op \in Writers /\ th[u].pc = "lock"
                         /\ th[u].id = i
    BY <1>7 DEF Coming
  <2>2. u # t
    BY <2>1 DEF Busy
  <2> QED
    BY <1>3, <2>1, <2>2 DEF Coming, Writers
<1>8. MixedInv'
  <2> SUFFICES ASSUME NEW u \in Req, NEW v \in Req, NEW i \in Id, u # v,
                      Alone(u, i)', Busy(v)', i \in Scope(v)'
               PROVE  ~Races(th'[u].op, th'[v].op)
    BY DEF MixedInv, Races, Id, Mirror!Id
  <2>1. CASE u # t /\ v # t
    BY <1>3, <1>5, <2>1 DEF SInv, RaceInv, MixedInv
  <2>2. CASE u = t
    <3>1. Busy(v) /\ i \in scope \cap Scope(v) /\ i \notin th'[t].mixed
      BY <1>4, <1>5, <2>2 DEF Alone
    <3>2. v \notin N
      BY <1>2, <3>1
    <3> QED
      BY <1>2, <1>3, <2>2, <3>1, <3>2 DEF Rivals
  <2>3. CASE v = t
    <3>1. Busy(u) /\ i \in scope \cap Scope(u) /\ i \notin th'[u].mixed
      BY <1>4, <1>5, <2>3 DEF Alone
    <3>2. u \notin N
      BY <1>3, <2>3, <3>1
    <3>3. ~Races(o, th[u].op)
      BY <2>3, <3>1, <3>2 DEF Rivals
    <3> QED
      BY <1>2, <1>3, <2>3, <3>3 DEF Races
  <2> QED
    BY <2>1, <2>2, <2>3
<1>9. CopyInv'
  <2> SUFFICES ASSUME NEW u \in Req, NEW i \in Id, Alone(u, i)',
                      th'[u].op \in Writers \cup {"disable"}
               PROVE  /\ i \in rows
                      /\ th'[u].op = "disable" => row[i].port = th'[u].m.port
                      /\ th'[u].op # "disable"
                            /\ th'[u].pc \in {"lock", "print"}
                           => row[i] = th'[u].m
    BY <1>6 DEF CopyInv, Writers, Id, Mirror!Id
  <2>1. CASE u # t
    BY <1>3, <1>5, <2>1 DEF SInv, RaceInv, CopyInv
  <2>2. CASE u = t
    <3>1. i \in scope
      BY <1>4, <2>2 DEF Alone
    <3> QED
      BY <1>2, <2>2, <3>1 DEF Writers
  <2> QED
    BY <2>1, <2>2
<1>10. StageInv'
  BY <1>2, <1>3, <1>5 DEF SInv, RaceInv, StageInv
<1>11. PortsInv' /\ KnownInv'
  BY <1>2, <1>3, <1>6 DEF SInv, RaceInv, PortsInv, KnownInv
<1>12. PlanInv'
  <2> SUFFICES ASSUME NEW u \in Req, NEW i \in Id, Alone(u, i)',
                      th'[u].pc \in {"print", "work"}
               PROVE  /\ th'[u].pc = "work" /\ i \notin th'[u].bad
                           => Aim(u, i, Plan(th[u], i, router))'
                      /\ th'[u].pc = "print" /\ th'[u].op = "sync"
                           => Aim(u, i, WantedOf(th[u], i))'
    BY DEF PlanInv, Id, Mirror!Id
  <2>1. u # t
    BY <1>2
  <2>2. /\ Plan(th[u], i, router)' = Plan(th[u], i, router)
        /\ WantedOf(th[u], i)' = WantedOf(th[u], i)
    BY <1>3, <1>6, <2>1
    DEF Plan, Ahead, WantedOf, Of, Mirror!Of, RulesOf, Mirror!RulesOf
  <2>3. \A S : Aim(u, i, S) => Aim(u, i, S)'
    BY <1>3, <1>6, <1>7, <2>1 DEF Aim
  <2> QED
    BY <1>3, <1>5, <2>1, <2>2, <2>3 DEF SInv, PromiseInv, PlanInv
<1>13. ClearInv'
  <2> SUFFICES ASSUME NEW u \in Req, NEW i \in Id \ failed, Alone(u, i)',
                      Cleared(u)'
               PROVE  Of(i, router) = {}
    BY <1>6 DEF ClearInv, Id, Mirror!Id, Of, Mirror!Of
  <2>1. u # t
    BY <1>2 DEF Cleared, Clearers
  <2> QED
    BY <1>5, <2>1 DEF SInv, PromiseInv, ClearInv
<1>14. SettledInv'
  <2> SUFFICES ASSUME NEW i \in Id \ (failed \cup blurred),
                      \A u \in Req : ~Unsettled(u, i)'
               PROVE  Of(i, router) = Desired(i)
    BY <1>6 DEF SettledInv, Id, Mirror!Id, Of, Mirror!Of
  <2>1. \A u \in Req : ~Unsettled(u, i)
    BY <1>5 DEF Unsettled
  <2> QED
    BY <2>1 DEF SInv, PromiseInv, SettledInv
<1> QED
  BY <1>8, <1>9, <1>10, <1>11, <1>12, <1>13, <1>14
  DEF SInv, RaceInv, PromiseInv

\* A crash: what was in flight is blurred, what was being rewritten failed.
LEMMA CrashSettles ==
  ASSUME IInv, SInv, Crash
  PROVE  SInv'
<1>1. /\ UNCHANGED <<rows, row, lastId, router>>
      /\ \A t \in Req : th'[t] = IdleThread /\ ~Busy(t)'
  BY DEF Crash, db, Busy, IdleThread
<1>2. 0 <= lastId
  BY NATAssumption DEF IInv, RowsInv, NATAssumption
<1>3. RaceInv'
  <2>1. PortsInv' /\ KnownInv'
    BY <1>1, <1>2 DEF SInv, RaceInv, PortsInv, KnownInv, IdleThread
  <2>2. MixedInv' /\ CopyInv'
    BY <1>1 DEF MixedInv, CopyInv, Alone
  <2>3. StageInv'
    BY <1>1 DEF StageInv, IdleThread
  <2> QED
    BY <2>1, <2>2, <2>3 DEF RaceInv
<1>4. PlanInv' /\ ClearInv'
  BY <1>1 DEF PlanInv, ClearInv, Alone
<1>5. SettledInv'
  <2> SUFFICES ASSUME NEW i \in Id \ (failed' \cup blurred')
               PROVE  Of(i, router) = Desired(i)'
    BY <1>1 DEF SettledInv, Id, Mirror!Id, Of, Mirror!Of
  <2>1. i \notin failed /\ i \notin blurred
    BY DEF Crash
  <2>2. \A u \in Req : Busy(u) => i \notin Scope(u)
    BY DEF Crash
  <2>3. \A u \in Req : ~Unsettled(u, i)
    BY <2>2 DEF Unsettled
  <2>4. Desired(i)' = Desired(i)
    BY <1>1 DEF Desired, RulesOf, Mirror!RulesOf
  <2> QED
    BY <2>1, <2>3, <2>4 DEF SInv, PromiseInv, SettledInv
<1> QED
  BY <1>3, <1>4, <1>5 DEF SInv, PromiseInv

\* A thread takes a request and runs its first statement.
LEMMA RequestSettles ==
  ASSUME IInv, SInv, NEW t \in Req, Request(t)
  PROVE  SInv'
<1>1. /\ 0 \in 0..MaxId /\ Id \subseteq 0..MaxId /\ 0 <= lastId
      /\ IdleThread \in ThreadState
      /\ th \in [Req -> ThreadState]
  BY NATAssumption, IdleGood, Types
  DEF NATAssumption, Id, Mirror!Id, IInv, RowsInv
<1>2. CASE CreateRequest(t)
  <2>1. PICK m :
          th' = [th EXCEPT ![t] = [IdleThread EXCEPT
                   !.op = "create", !.pc = "write", !.m = m]]
    BY <1>2 DEF CreateRequest
  <2> DEFINE r == [IdleThread EXCEPT !.op = "create", !.pc = "write", !.m = m]
  <2>2. r.op = "create" /\ r.pc = "write" /\ r.id = 0
    BY DEF IdleThread
  <2>3. th' = [th EXCEPT ![t] = r] /\ ~Busy(t)
        /\ UNCHANGED <<rows, row, lastId, router, failed, blurred>>
    BY <1>2, <2>1 DEF CreateRequest, db, net
  <2> HIDE DEF r
  <2>4. th'[t] = r
    BY <1>1, <2>3
  <2>5. ASSUME NEW u \in Req, u # t
        PROVE  /\ th'[u] = th[u] /\ (Busy(u)' <=> Busy(u))
               /\ Scope(u)' = Scope(u) /\ (Cleared(u)' <=> Cleared(u))
               /\ \A i \in Id : Alone(u, i)' <=> Alone(u, i)
               /\ \A i \in Id : Unsettled(u, i)' <=> Unsettled(u, i)
    BY <1>1, <2>3, <2>5, Others
  <2>6. \A i \in Id : i \notin Scope(t)'
    BY <2>2, <2>4, IdPositive DEF Scope
  <2>7. \A i \in Id : ~Alone(t, i)' /\ ~Unsettled(t, i) /\ ~Unsettled(t, i)'
    BY <2>3, <2>6 DEF Alone, Unsettled
  <2>8. /\ \A i \in Id : Desired(i)' = Desired(i)
        /\ \A i \in Id : Coming(i) => Coming(i)'
    <3>1. \A i \in Id : Desired(i)' = Desired(i)
      BY <2>3 DEF Desired, RulesOf, Mirror!RulesOf
    <3>2. ASSUME NEW i \in Id, Coming(i)
          PROVE  Coming(i)'
      <4>1. PICK u \in Req : th[u].op \in Writers /\ th[u].pc = "lock"
                             /\ th[u].id = i
        BY <3>2 DEF Coming
      <4>2. u # t
        BY <2>3, <4>1 DEF Busy
      <4> QED
        BY <2>5, <4>1, <4>2 DEF Coming, Writers
    <3> QED
      BY <3>1, <3>2
  <2>9. PortsInv' /\ KnownInv'
    BY <1>1, <2>2, <2>3, <2>4, <2>5 DEF SInv, RaceInv, PortsInv, KnownInv
  <2>10. MixedInv'
    <3> SUFFICES ASSUME NEW u \in Req, NEW v \in Req, NEW i \in Id, u # v,
                        Alone(u, i)', Busy(v)', i \in Scope(v)'
                 PROVE  ~Races(th'[u].op, th'[v].op)
      BY DEF MixedInv, Races, Id, Mirror!Id
    <3>1. u # t /\ v # t
      BY <2>6, <2>7
    <3> QED
      BY <2>5, <3>1 DEF SInv, RaceInv, MixedInv
  <2>11. CopyInv'
    <3> SUFFICES ASSUME NEW u \in Req, NEW i \in Id, Alone(u, i)',
                        th'[u].op \in Writers \cup {"disable"}
                 PROVE  /\ i \in rows
                        /\ th'[u].op = "disable"
                             => row[i].port = th'[u].m.port
                        /\ th'[u].op # "disable"
                              /\ th'[u].pc \in {"lock", "print"}
                             => row[i] = th'[u].m
      BY <2>3 DEF CopyInv, Writers, Id, Mirror!Id
    <3> QED
      BY <2>5, <2>7 DEF SInv, RaceInv, CopyInv
  <2>12. StageInv'
    BY <2>2, <2>4, <2>5 DEF SInv, RaceInv, StageInv
  <2>13. PlanInv'
    <3> SUFFICES ASSUME NEW u \in Req, NEW i \in Id, Alone(u, i)'
                 PROVE  /\ th'[u].pc = "work" /\ i \notin th'[u].bad
                             => Aim(u, i, Plan(th[u], i, router))'
                        /\ th'[u].pc = "print" /\ th'[u].op = "sync"
                             => Aim(u, i, WantedOf(th[u], i))'
      BY DEF PlanInv, Id, Mirror!Id
    <3>1. u # t /\ th'[u] = th[u] /\ Alone(u, i)
      BY <2>5, <2>7
    <3>2. \A S : Aim(u, i, S) => Aim(u, i, S)'
      BY <2>8, <3>1 DEF Aim
    <3> QED
      BY <2>3, <3>1, <3>2 DEF SInv, PromiseInv, PlanInv
  <2>14. ClearInv'
    <3> SUFFICES ASSUME NEW u \in Req, NEW i \in Id \ failed, Alone(u, i)',
                        Cleared(u)'
                 PROVE  Of(i, router) = {}
      BY <2>3 DEF ClearInv, Id, Mirror!Id, Of, Mirror!Of
    <3> QED
      BY <2>5, <2>7 DEF SInv, PromiseInv, ClearInv
  <2>15. SettledInv'
    <3> SUFFICES ASSUME NEW i \in Id \ (failed \cup blurred),
                        \A u \in Req : ~Unsettled(u, i)'
                 PROVE  Of(i, router) = Desired(i)
      BY <2>3, <2>8 DEF SettledInv, Id, Mirror!Id, Of, Mirror!Of
    <3>1. \A u \in Req : ~Unsettled(u, i)
      BY <2>5, <2>7
    <3> QED
      BY <3>1 DEF SInv, PromiseInv, SettledInv
  <2> QED
    BY <2>9, <2>10, <2>11, <2>12, <2>13, <2>14, <2>15
    DEF SInv, RaceInv, PromiseInv
<1>3. ASSUME NEW o \in {"update", "enable", "disable"}, NEW i \in Id,
             NEW l, NEW m \in Row, Read(t, o, i, l, m),
             l = IF o = "disable" THEN "lock" ELSE "check",
             o = "disable" => ~m.enabled /\ m.port = row[i].port
      PROVE  SInv'
  <2> DEFINE r == [IdleThread EXCEPT !.op = o, !.pc = l, !.id = i, !.m = m]
  <2>1. r \in ThreadState
    BY <1>1, <1>3 DEF ThreadState, Op, Label
  <2>2. r.op = o /\ r.pc = l /\ r.id = i /\ r.m = m
    BY DEF IdleThread
  <2> HIDE DEF r
  <2>3. ~Busy(t) /\ Enter(t, o, {i}, r) /\ UNCHANGED <<db, net, blurred>>
        /\ i \in rows
    BY <1>3 DEF Read, r
  <2>4. ScopeOf(r) = {i} /\ i <= lastId
    BY <2>2, <2>3, IdPositive DEF ScopeOf, SInv, RaceInv, KnownInv
  <2>5. {i} \in SUBSET Id
    OBVIOUS
  <2> QED
    BY <1>3, <2>1, <2>2, <2>3, <2>4, <2>5, EnterSettles
<1>4. CASE SyncRequest(t)
  <2> DEFINE r == [IdleThread EXCEPT !.op = "sync", !.pc = "lock"]
  <2>1. r \in ThreadState
    BY <1>1 DEF ThreadState, Op, Label
  <2>2. r.op = "sync" /\ r.pc = "lock" /\ r.id = 0
    BY DEF IdleThread
  <2> HIDE DEF r
  <2>3. ~Busy(t) /\ Enter(t, "sync", Id, r) /\ UNCHANGED <<db, net, blurred>>
    BY <1>4 DEF SyncRequest, r
  <2>4. ScopeOf(r) = Id
    BY <2>2 DEF ScopeOf
  <2> QED
    BY <1>1, <2>1, <2>2, <2>3, <2>4, EnterSettles
<1>5. ASSUME NEW i \in Id, DeleteRequest(t, i)
      PROVE  SInv'
  <2> DEFINE r == [IdleThread EXCEPT !.op = "delete", !.pc = "lock", !.id = i]
  <2>1. r \in ThreadState
    BY <1>1 DEF ThreadState, Op, Label
  <2>2. r.op = "delete" /\ r.pc = "lock" /\ r.id = i
    BY DEF IdleThread
  <2> HIDE DEF r
  <2>3. ~Busy(t) /\ Enter(t, "delete", {i}, r) /\ i <= lastId
        /\ UNCHANGED <<db, net, blurred>>
    BY <1>5 DEF DeleteRequest, r
  <2>4. ScopeOf(r) = {i}
    BY <2>2, IdPositive DEF ScopeOf
  <2>5. {i} \in SUBSET Id
    OBVIOUS
  <2> QED
    BY <2>1, <2>2, <2>3, <2>4, <2>5, EnterSettles
<1>6. ASSUME NEW i \in Id, UpdateRequest(t, i)
      PROVE  SInv'
  <2>1. PICK p \in Port, q \in Masqs, e \in BOOLEAN :
          Read(t, "update", i, "check", [port |-> p, masq |-> q, enabled |-> e])
    BY <1>6 DEF UpdateRequest
  <2>2. [port |-> p, masq |-> q, enabled |-> e] \in Row
    BY NATAssumption DEF NATAssumption, Row
  <2> QED
    BY <1>3, <2>1, <2>2
<1>7. ASSUME NEW i \in Id, EnableRequest(t, i)
      PROVE  SInv'
  <2>1. row[i] \in Row
    BY DEF IInv, RowsInv
  <2>2. [row[i] EXCEPT !.enabled = TRUE] \in Row
    BY <2>1 DEF Row
  <2> QED
    BY <1>3, <1>7, <2>2 DEF EnableRequest
<1>8. ASSUME NEW i \in Id, DisableRequest(t, i)
      PROVE  SInv'
  <2> DEFINE m == [row[i] EXCEPT !.enabled = FALSE]
  <2>1. row[i] \in Row
    BY DEF IInv, RowsInv
  <2>2. m \in Row /\ ~m.enabled /\ m.port = row[i].port
    BY <2>1 DEF Row
  <2>3. Read(t, "disable", i, "lock", m)
    BY <1>8 DEF DisableRequest
  <2> HIDE DEF m
  <2> QED
    BY <1>3, <2>2, <2>3
<1> QED
  BY <1>2, <1>4, <1>5, <1>6, <1>7, <1>8 DEF Request

\* At first there is no mapping and no rule.
LEMMA InitSInv == Init => SInv
<1> SUFFICES ASSUME Init
             PROVE  SInv
  OBVIOUS
<1>1. \A t \in Req : th[t] = IdleThread /\ ~Busy(t)
  BY DEF Init, Busy, IdleThread
<1>2. RaceInv
  BY <1>1 DEF RaceInv, PortsInv, KnownInv, MixedInv, CopyInv, StageInv, Alone,
              Init, IdleThread
<1>3. PromiseInv
  <2>1. \A i \in Id : Of(i, router) = {} /\ Desired(i) = {}
    BY DEF Init, Of, Mirror!Of, Desired
  <2> QED
    BY <1>1, <2>1 DEF PromiseInv, PlanInv, ClearInv, SettledInv, Alone
<1> QED
  BY <1>2, <1>3 DEF SInv

\* Every step keeps the promises.
LEMMA NextSInv == IInv /\ IInv' /\ SInv /\ [Next]_vars => SInv'
<1> SUFFICES ASSUME IInv, IInv', SInv, [Next]_vars
             PROVE  SInv'
  OBVIOUS
<1>1. CASE UNCHANGED vars
  BY <1>1
  DEF vars, SInv, RaceInv, PromiseInv, PortsInv, KnownInv, MixedInv, CopyInv,
      StageInv, PlanInv, ClearInv, SettledInv, Alone, Busy, Scope, Races,
      Unsettled, Cleared, Aim, Coming, Plan, WantedOf, Ahead, Of, Mirror!Of,
      Desired, RulesOf, Mirror!RulesOf, Id, Mirror!Id
<1>2. ASSUME NEW t \in Req, Request(t)
      PROVE  SInv'
  BY <1>2, RequestSettles
<1>3. ASSUME NEW t \in Req, Statement(t)
      PROVE  SInv'
  BY <1>3, InsertSettles, CheckSettles, WriteSettles, RemoveSettles
  DEF Statement
<1>4. ASSUME NEW t \in Req, Lock(t)
      PROVE  SInv'
  BY <1>4, LockSettles
<1>5. ASSUME NEW t \in Req, Command(t)
      PROVE  SInv'
  <2>1. ASSUME PrintNAT(t)
        PROVE  SInv'
    BY <2>1, PrintSettles DEF PrintNAT
  <2> QED
    BY <1>5, <2>1, ListSettles, DeletionSettles, TakeSettles,
       AdditionSettles, UnlockSettles DEF Command
<1>6. ASSUME NEW t \in Req, Failure(t)
      PROVE  SInv'
  <2>1. ASSUME PrintRefused(t)
        PROVE  SInv'
    BY <2>1, PrintSettles DEF PrintRefused
  <2> QED
    BY <1>6, <2>1, DeletionSettles, AdditionSettles, UnlockSettles
    DEF Failure
<1>7. CASE Crash
  BY <1>7, CrashSettles
<1> QED
  BY <1>1, <1>2, <1>3, <1>4, <1>5, <1>6, <1>7 DEF Next

\* Once no request about a mapping is in flight, none of its rewrites has
\* failed and none of its requests has raced with another one, the router
\* holds exactly the rules its row asks for.
THEOREM RouterInSync == Spec => []InSync
<1>1. IInv /\ SInv => InSync
  BY DEF SInv, PromiseInv, SettledInv, InSync, Unsettled
<1>2. Init => IInv /\ SInv
  BY InitIInv, InitSInv
<1>3. IInv /\ SInv /\ [Next]_vars => IInv' /\ SInv'
  BY NextIInv, NextSInv
<1> QED
  BY <1>1, <1>2, <1>3, PTL DEF Spec
=============================================================================
