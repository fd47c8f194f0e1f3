--------------------------- MODULE PortMappingNAT ---------------------------
(***************************************************************************)
(* Port mappings: their rows in port_mappings, the NAT rules of the         *)
(* MikroTik router that stand for them, the six API handlers and the three  *)
(* operations of the client that rewrite the rules.                         *)
(*                                                                          *)
(* The handlers take no lock; a thread has a label between every two SQL    *)
(* statements.  The client's operations hold syncMux from before they look  *)
(* at the router until they return; each command sent to the router is a    *)
(* step.  A command may be refused (a !trap reply, which runCommand does    *)
(* not report) or break off with an error (done or not), and the Manager    *)
(* may crash; none of this is repaired until somebody asks for a sync.      *)
(***************************************************************************)
EXTENDS Naturals

CONSTANTS
  Req,        \* goroutines that serve API requests
  NoReq,      \* nobody
  NoPort,     \* the port of a blank row
  MaxId,      \* bound: number of mappings ever created
  Port,       \* external ports (with the protocol and target behind them)
  Masqs,      \* values of enable_masquerade that clients send
  MaxReq,     \* bound: number of requests
  MaxFault    \* bound: number of failed router commands and crashes

ASSUME NATAssumption ==
  /\ MaxId \in Nat /\ NoReq \notin Req /\ NoPort \notin Port
  /\ Masqs \subseteq BOOLEAN /\ MaxReq \in Nat /\ MaxFault \in Nat

VARIABLES
  rows,       \* ids that have a row in port_mappings
  row,        \* the row of each id (blank where there is none)
  lastId,     \* the AUTOINCREMENT counter of port_mappings
  router,     \* the managed rules on the router, those of a mapping at most
              \* counted once
  reqs,       \* requests so far
  lock,       \* who holds Client.syncMux
  th,         \* the threads
  faults,     \* failures so far
  stable,     \* history: router when the mutex was last free
  failed,     \* history: ids whose last rewrite met a failure or a crash
  blurred     \* history: ids whose last request raced with another one

db == <<rows, row, lastId>>
net == <<router, lock, faults, stable, failed>>
vars ==
  <<rows, row, lastId, router, lock, reqs, th, faults, stable, failed, blurred>>

\* The mappings a thread's request is about.
Scope(t) == IF th[t].op = "sync" THEN 1..MaxId ELSE {th[t].id} \ {0}

\* The operation under way: begun once its thread has the mutex and, of a full
\* synchronisation, has read the rows.
Section ==
  IF lock = NoReq \/ th[lock].pc = "list"
    THEN [scope |-> {}, plan |-> {}]
    ELSE [scope |-> Scope(lock), plan |-> th[lock].plan]

Mirror == INSTANCE NatMirror WITH rules <- stable, op <- Section

-----------------------------------------------------------------------------
(* State. *)

Id == Mirror!Id
Mapping == Mirror!Mapping
Rule == Mirror!Rule
RulesOf(m) == Mirror!RulesOf(m)
Of(i, R) == Mirror!Of(i, R)

Row == [port : Port \cup {NoPort}, masq : BOOLEAN, enabled : BOOLEAN]

BlankRow == [port |-> NoPort, masq |-> FALSE, enabled |-> FALSE]

Op == {"none", "create", "update", "enable", "disable", "delete", "sync"}

Label == {"idle", "check", "write", "lock", "list", "print", "work", "remove"}

\* m is the handler's copy of the row.  While it holds the mutex, gone are the
\* listed rules still to be deleted, want the mappings still to be installed,
\* cur the one being installed (0 while orphans are deleted), add the rules
\* it still lacks, bad the ids a failure hit.  plan: what it had to install
\* when it began (history); mixed: ids a racing request works on as well
\* (history).
ThreadState ==
  [op : Op, pc : Label, id : 0..MaxId, m : Row, gone : SUBSET Rule,
   want : SUBSET Mapping, cur : 0..MaxId, add : SUBSET Rule,
   bad : SUBSET Id, plan : SUBSET Mapping, mixed : SUBSET Id]

IdleThread ==
  [op |-> "none", pc |-> "idle", id |-> 0, m |-> BlankRow, gone |-> {},
   want |-> {}, cur |-> 0, add |-> {}, bad |-> {}, plan |-> {},
   mixed |-> {}]

TypeOK ==
  /\ rows \subseteq Id /\ row \in [Id -> Row] /\ lastId \in 0..MaxId
  /\ router \subseteq Rule /\ lock \in Req \cup {NoReq}
  /\ th \in [Req -> ThreadState]
  /\ reqs \in 0..MaxReq /\ faults \in 0..MaxFault
  /\ stable \subseteq Rule /\ failed \subseteq Id /\ blurred \subseteq Id

\* A new installation: no mapping, no rule.
Init ==
  /\ rows = {} /\ row = [i \in Id |-> BlankRow] /\ lastId = 0
  /\ router = {} /\ lock = NoReq
  /\ th = [t \in Req |-> IdleThread]
  /\ reqs = 0 /\ faults = 0 /\ stable = {} /\ failed = {} /\ blurred = {}

-----------------------------------------------------------------------------
(* What the steps are built from. *)

Fault == faults < MaxFault /\ faults' = faults + 1

Goto(t, l) == th' = [th EXCEPT ![t].pc = l]

Busy(t) == th[t].pc # "idle"

InCritical(t) == th[t].pc \in {"list", "print", "work"}

\* Two requests on one mapping race; a full synchronisation races only with
\* those that clear the rules before they write the row.
Races(o, p) ==
  IF o = "sync" THEN p \in {"disable", "delete"}
  ELSE p # "sync" \/ o \in {"disable", "delete"}

\* Thread t begins to work on scope with operation o.
Rivals(t, o, scope) ==
  {u \in Req \ {t} : Busy(u) /\ Races(o, th[u].op) /\ scope \cap Scope(u) # {}}

Enter(t, o, scope, state) ==
  LET R == Rivals(t, o, scope) IN
  th' = [u \in Req |->
           IF u = t THEN [state EXCEPT !.mixed =
                            UNION {scope \cap Scope(v) : v \in R}]
           ELSE IF u \in R THEN [th[u] EXCEPT !.mixed =
                                   @ \cup (scope \cap Scope(u))]
           ELSE th[u]]

\* The answer to the client, of a request that has done all its work.
Finish(t) ==
  /\ th' = [th EXCEPT ![t] = IdleThread]
  /\ blurred' = (blurred \ Scope(t)) \cup th[t].mixed

\* The same, of a request that gave up before it changed anything.
GiveUp(t) ==
  /\ th' = [th EXCEPT ![t] = IdleThread]
  /\ blurred' = blurred \cup th[t].mixed

PortTaken(p, i) == \E j \in rows \ {i} : row[j].port = p

Desired(i) ==
  IF i \in rows /\ row[i].enabled
    THEN RulesOf([id |-> i, port |-> row[i].port, masq |-> row[i].masq])
    ELSE {}

-----------------------------------------------------------------------------
(* Requests: a thread takes one and runs its first statement. *)

CreateRequest(t) ==
  /\ ~Busy(t) /\ lastId < MaxId
  /\ \E p \in Port, q \in Masqs, e \in BOOLEAN :
       /\ ~PortTaken(p, 0)
       /\ th' = [th EXCEPT ![t] = [IdleThread EXCEPT
                   !.op = "create", !.pc = "write",
                   !.m = [port |-> p, masq |-> q, enabled |-> e]]]
  /\ UNCHANGED <<db, net, blurred>>

\* The update, enable and disable handlers read the row first.
Read(t, o, i, l, m) ==
  /\ ~Busy(t) /\ i \in rows
  /\ Enter(t, o, {i},
           [IdleThread EXCEPT !.op = o, !.pc = l, !.id = i, !.m = m])
  /\ UNCHANGED <<db, net, blurred>>

UpdateRequest(t, i) ==
  \E p \in Port, q \in Masqs, e \in BOOLEAN :
    Read(t, "update", i, "check", [port |-> p, masq |-> q, enabled |-> e])

EnableRequest(t, i) ==
  Read(t, "enable", i, "check", [row[i] EXCEPT !.enabled = TRUE])

DisableRequest(t, i) ==
  Read(t, "disable", i, "lock", [row[i] EXCEPT !.enabled = FALSE])

\* Nothing is read: the id is that of a mapping the client once saw.
DeleteRequest(t, i) ==
  /\ ~Busy(t) /\ i <= lastId
  /\ Enter(t, "delete", {i},
           [IdleThread EXCEPT !.op = "delete", !.pc = "lock", !.id = i])
  /\ UNCHANGED <<db, net, blurred>>

SyncRequest(t) ==
  /\ ~Busy(t)
  /\ Enter(t, "sync", Id,
           [IdleThread EXCEPT !.op = "sync", !.pc = "lock"])
  /\ UNCHANGED <<db, net, blurred>>

-----------------------------------------------------------------------------
(* SQL statements. *)

\* CreatePortMapping's INSERT; UNIQUE (dst_port) may still refuse it.
Insert(t) ==
  /\ th[t].pc = "write" /\ th[t].op = "create"
  /\ \/ /\ PortTaken(th[t].m.port, 0)
        /\ GiveUp(t)
        /\ UNCHANGED db
     \/ /\ ~PortTaken(th[t].m.port, 0) /\ lastId < MaxId
        /\ lastId' = lastId + 1
        /\ rows' = rows \cup {lastId + 1}
        /\ row' = [row EXCEPT ![lastId + 1] = th[t].m]
        /\ IF th[t].m.enabled
             THEN th' = [th EXCEPT ![t].pc = "lock", ![t].id = lastId + 1]
             ELSE th' = [th EXCEPT ![t] = IdleThread]
        /\ UNCHANGED blurred
  /\ UNCHANGED net

\* CheckDstPortExists of UpdatePortMapping.
Check(t) ==
  /\ th[t].pc = "check"
  /\ IF PortTaken(th[t].m.port, th[t].id)
       THEN IF th[t].op = "disable" THEN Finish(t) ELSE GiveUp(t)
       ELSE Goto(t, "write") /\ UNCHANGED blurred
  /\ UNCHANGED <<db, net>>

\* Its UPDATE.  A row that is gone is not an error: nothing is written and the
\* handler goes on.
Write(t) ==
  /\ th[t].pc = "write" /\ th[t].op # "create"
  /\ IF th[t].id \in rows /\ PortTaken(th[t].m.port, th[t].id)
       THEN /\ IF th[t].op = "disable" THEN Finish(t) ELSE GiveUp(t)
            /\ UNCHANGED db
       ELSE /\ row' = IF th[t].id \in rows
                        THEN [row EXCEPT ![th[t].id] = th[t].m] ELSE row
            /\ IF th[t].op = "disable" THEN Finish(t)
               ELSE Goto(t, "lock") /\ UNCHANGED blurred
            /\ UNCHANGED <<rows, lastId>>
  /\ UNCHANGED net

\* DeletePortMapping's DELETE.
Remove(t) ==
  /\ th[t].pc = "remove"
  /\ rows' = rows \ {th[t].id}
  /\ row' = [row EXCEPT ![th[t].id] = BlankRow]
  /\ Finish(t)
  /\ UNCHANGED <<lastId, net>>

-----------------------------------------------------------------------------
(* The critical sections of SyncPortMappings, SyncSinglePortMapping and      *)
(* DeletePortMappingRules.                                                   *)

\* Mutant: SyncSinglePortMapping's steps run for every operation.
WantedAlways(t) ==
  IF th[t].op = "sync" THEN th[t].want
  ELSE {[id |-> th[t].id, port |-> th[t].m.port, masq |-> th[t].m.masq]}

\* What a thread is to install: the handler's copy, however old it is.
Wanted(t) ==
  IF th[t].op = "sync" THEN th[t].want
  ELSE IF th[t].op \in {"create", "update", "enable"} /\ th[t].m.enabled
    THEN {[id |-> th[t].id, port |-> th[t].m.port, masq |-> th[t].m.masq]}
  ELSE {}

\* The mapping is an argument of the operation; a full synchronisation has
\* read nothing yet.
Lock(t) ==
  /\ th[t].pc = "lock" /\ lock = NoReq
  /\ lock' = t
  /\ th' = [th EXCEPT ![t].pc = IF th[t].op = "sync" THEN "list" ELSE "print",
                      ![t].plan = Wanted(t)]
  /\ UNCHANGED <<db, router, faults, stable, failed, blurred>>

\* The deferred Unlock, and what the handler does next.
Release(t, R, bad) ==
  /\ lock' = NoReq
  /\ router' = R
  /\ stable' = R
  /\ failed' = (failed \ Scope(t)) \cup bad
  /\ CASE th[t].op = "disable" ->
            /\ th' = [th EXCEPT ![t] = [IdleThread EXCEPT
                        !.op = "disable", !.pc = "check", !.id = th[t].id,
                        !.m = th[t].m, !.mixed = th[t].mixed]]
            /\ UNCHANGED blurred
       [] th[t].op = "delete" ->
            /\ th' = [th EXCEPT ![t] = [IdleThread EXCEPT
                        !.op = "delete", !.pc = "remove", !.id = th[t].id,
                        !.mixed = th[t].mixed]]
            /\ UNCHANGED blurred
       [] OTHER -> Finish(t)

\* SyncPortMappings reads the enabled rows once it has the mutex.
List(t) ==
  LET M == {[id |-> i, port |-> row[i].port, masq |-> row[i].masq] :
              i \in {j \in rows : row[j].enabled}} IN
  /\ th[t].pc = "list"
  /\ th' = [th EXCEPT ![t].pc = "print", ![t].want = M, ![t].plan = M]
  /\ UNCHANGED <<db, net, blurred>>

\* Mutant: the suffix of the masquerade rules' comment is not recognised.
ListedUnsuffixed(t) ==
  {x \in router : x.id \in Scope(t) /\ x.kind # "masq"}

\* GetManagedNATRules, as far as the operation uses its result.
Listed(t) == {x \in router : x.id \in Scope(t)}

PrintRules(t, list, bad) ==
  /\ th[t].pc = "print"
  /\ th' = [th EXCEPT ![t].pc = "work", ![t].gone = list,
              ![t].want = Wanted(t), ![t].cur = th[t].id, ![t].bad = bad,
              ![t].m = IF th[t].op = "disable" THEN @ ELSE BlankRow]
  /\ UNCHANGED <<db, router, lock, stable, failed, blurred>>

PrintNAT(t) == PrintRules(t, Listed(t), {}) /\ UNCHANGED faults

\* The listed rules to delete now: orphans first, then, mapping by mapping,
\* those of the one that is installed next.
Stale(t) ==
  IF th[t].cur = 0
    THEN {x \in th[t].gone : x.id \notin {m.id : m \in th[t].want}}
    ELSE Of(th[t].cur, th[t].gone)

\* The interface rule is added before the address rule, masquerade last.
Rank(k) == IF k = "interface" THEN 1 ELSE IF k = "address" THEN 2 ELSE 3

FirstToAdd(t) ==
  {x \in th[t].add : \A y \in th[t].add : Rank(x.kind) <= Rank(y.kind)}

\* Mutant: the rules are deleted by their external port.
DeleteByPort(t) ==
  /\ th[t].pc = "work"
  /\ \E x \in Stale(t) :
       /\ router' = {y \in router : y.port # x.port}
       /\ th' = [th EXCEPT ![t].gone = @ \ {x}]
  /\ UNCHANGED <<db, lock, faults, stable, failed, blurred>>

DeleteNATRule(t) ==
  /\ th[t].pc = "work"
  /\ \E x \in Stale(t) :
       /\ router' = router \ {x}
       /\ th' = [th EXCEPT ![t].gone = @ \ {x}]
  /\ UNCHANGED <<db, lock, faults, stable, failed, blurred>>

\* The next mapping to install.
Take(t) ==
  /\ th[t].pc = "work" /\ Stale(t) = {} /\ th[t].add = {}
  /\ \E m \in th[t].want :
       th' = [th EXCEPT ![t].want = @ \ {m}, ![t].cur = m.id,
                        ![t].add = RulesOf(m)]
  /\ UNCHANGED <<db, net, blurred>>

AddNATRule(t) ==
  /\ th[t].pc = "work" /\ Stale(t) = {}
  /\ \E x \in FirstToAdd(t) :
       /\ router' = router \cup {x}
       /\ th' = [th EXCEPT ![t].add = @ \ {x}]
  /\ UNCHANGED <<db, lock, faults, stable, failed, blurred>>

Unlock(t) ==
  /\ th[t].pc = "work"
  /\ Stale(t) = {} /\ th[t].add = {} /\ th[t].want = {}
  /\ Release(t, router, th[t].bad)
  /\ UNCHANGED <<db, faults>>

-----------------------------------------------------------------------------
(* Failures. *)

\* The listing is refused: it reads as an empty one.
PrintRefused(t) == Fault /\ PrintRules(t, {}, Scope(t))

\* Mutant: an error return that does not unlock.
PrintFailsLocked(t) ==
  /\ Fault /\ th[t].pc = "print"
  /\ Finish(t)
  /\ UNCHANGED <<db, router, lock, stable, failed>>

\* The listing breaks off: the operation returns the error.
PrintFails(t) ==
  /\ Fault /\ th[t].pc = "print"
  /\ Release(t, router, Scope(t))
  /\ UNCHANGED db

\* A deletion is refused or breaks off, done or not: the loop goes on.
DeleteFails(t) ==
  /\ Fault /\ th[t].pc = "work"
  /\ \E x \in Stale(t) :
       /\ router' \in {router, router \ {x}}
       /\ th' = [th EXCEPT ![t].gone = @ \ {x}, ![t].bad = @ \cup {x.id}]
  /\ UNCHANGED <<db, lock, stable, failed, blurred>>

\* An addition is refused, or breaks off in SyncPortMappings, which logs it.
AddFails(t) ==
  /\ Fault /\ th[t].pc = "work" /\ Stale(t) = {}
  /\ \E x \in FirstToAdd(t) :
       /\ router' \in {router} \cup
                      (IF th[t].op = "sync" THEN {router \cup {x}} ELSE {})
       /\ th' = [th EXCEPT ![t].add = @ \ {x}, ![t].bad = @ \cup {x.id}]
  /\ UNCHANGED <<db, lock, stable, failed, blurred>>

\* An addition breaks off in SyncSinglePortMapping, which returns the error.
AddAborts(t) ==
  /\ Fault /\ th[t].pc = "work" /\ Stale(t) = {}
  /\ th[t].op # "sync"
  /\ \E x \in FirstToAdd(t) : \E R \in {router, router \cup {x}} :
       Release(t, R, Scope(t))
  /\ UNCHANGED db

\* The Manager dies and systemd starts it again; nothing synchronises the
\* rules then.
Crash ==
  /\ Fault /\ \E t \in Req : Busy(t)
  /\ th' = [t \in Req |-> IdleThread]
  /\ lock' = NoReq
  /\ stable' = router
  /\ failed' = failed \cup Section.scope
  /\ blurred' = blurred \cup UNION {Scope(t) : t \in {u \in Req : Busy(u)}}
  /\ UNCHANGED <<db, router>>

-----------------------------------------------------------------------------
Request(t) ==
  /\ reqs < MaxReq /\ reqs' = reqs + 1
  /\ \/ CreateRequest(t) \/ SyncRequest(t)
     \/ \E i \in Id : \/ UpdateRequest(t, i) \/ EnableRequest(t, i)
                      \/ DisableRequest(t, i) \/ DeleteRequest(t, i)

Command(t) ==
  \/ List(t) \/ PrintNAT(t) \/ DeleteNATRule(t) \/ Take(t)
  \/ AddNATRule(t) \/ Unlock(t)

Failure(t) ==
  \/ PrintRefused(t) \/ PrintFails(t) \/ DeleteFails(t)
  \/ AddFails(t) \/ AddAborts(t)

Statement(t) == Insert(t) \/ Check(t) \/ Write(t) \/ Remove(t)

Next ==
  \/ \E t \in Req : \/ Request(t)
                    \/ /\ Statement(t) \/ Lock(t) \/ Command(t) \/ Failure(t)
                       /\ UNCHANGED reqs
  \/ Crash /\ UNCHANGED reqs

Spec == Init /\ [][Next]_vars

-----------------------------------------------------------------------------
(* Properties. *)

\* Once no request about a mapping is in flight, the router holds exactly the
\* rules of its row: all of them if it is enabled, none otherwise, and none
\* of a mapping that is gone.  Left out are the mappings whose last rewrite
\* met a failure, and those whose last request raced with another one on the
\* same mapping (or cleared the rules while a full synchronisation ran).
InSync ==
  \A i \in Id \ (failed \cup blurred) :
    (\A t \in Req : Busy(t) => i \notin Scope(t)) => Of(i, router) = Desired(i)

\* Whatever races, fails or crashes: the mutex makes every operation one step
\* that leaves exactly the rules its handler's copy (or the rows it read) asks
\* for of the mappings it is about and touches no rule of any other mapping.
MirrorsWhole == Mirror!Spec

\* The mutex is held exactly by the thread that is between Lock and the
\* deferred Unlock: never by two, and no return path, error or crash keeps it.
MutexHolder == \A t \in Req : InCritical(t) <=> lock = t
=============================================================================
