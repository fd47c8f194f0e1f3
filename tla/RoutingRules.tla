---------------------------- MODULE RoutingRules ----------------------------
(***************************************************************************)
(* Policy routing: the rows of routing_rules, the kernel's "ip rule" list,  *)
(* the rules the Manager puts on the MikroTik router, the API handlers that *)
(* create, update, delete, enable and disable a rule, and their recovery    *)
(* when the Manager starts.                                                 *)
(*                                                                          *)
(* A handler is a thread with a label between every two accesses to shared  *)
(* state: SQL statements, calls to the router, netlink calls.  Nodes come,  *)
(* go, start and stop as NodeLifecycle describes; here a node is its row's  *)
(* status and its table number.                                             *)
(***************************************************************************)
EXTENDS Naturals, FiniteSets

CONSTANTS
  Req,        \* goroutines that serve API requests
  Main,       \* the main goroutine, which runs the recovery
  Src,        \* source addresses
  Bad,        \* those that net.ParseIP does not accept
  NoSrc,
  Prios,      \* priorities a request may carry, 0 for none
  InitNodes,  \* number of nodes at first
  MaxNode,    \* bound: number of nodes ever created
  MaxRule,    \* bound: number of rules ever created
  MaxPrio,    \* bound: highest priority (100 in the code is 1 here)
  MaxCrash,   \* bound: number of Manager crashes and host reboots
  Serial,     \* TRUE: never two requests in flight on one rule
  Churn,      \* TRUE: nodes are created and deleted
  Starts,     \* TRUE: nodes start and stop between two recoveries
  Faults      \* TRUE: calls to the router and to the kernel may fail

Id == 1..MaxRule
Node == 1..MaxNode
Table == 1..MaxNode     \* table 100 in the code is 1 here
Thread == Req \cup {Main}

ASSUME RulesAssumption ==
  /\ MaxNode \in Nat /\ InitNodes \in 0..MaxNode
  /\ MaxRule \in Nat /\ MaxPrio \in Nat /\ MaxCrash \in Nat
  /\ Prios \subseteq 0..MaxPrio
  /\ Main \notin Req
  /\ NoSrc \notin Src /\ Bad \subseteq Src
  /\ Serial \in BOOLEAN /\ Churn \in BOOLEAN /\ Starts \in BOOLEAN
  /\ Faults \in BOOLEAN

VARIABLES
  rules,      \* ids that have a row in routing_rules
  row,        \* the row of each id
  lastRule,   \* the AUTOINCREMENT counter of routing_rules
  status,     \* "none" (no row), "idle" or "running" for each node
  table,      \* table_id of each node, 0 without a row
  lastNode,   \* the AUTOINCREMENT counter of proxy_nodes
  kernel,     \* the kernel's rules
  router,     \* the router's rules: rule id (in the comment) and source
  mgr,        \* "down", "recovering" or "serving"
  crashes,    \* crashes so far
  th,         \* the threads
  todo,       \* rules the recovery has still to visit
  missed,     \* history: rules that were to be installed and were not
  left,       \* history: sources and tables the kernel did not let go
  stuck,      \* history: router rules not removed when they should be
  orphaned    \* history: tables whose node was deleted

db == <<rules, row, lastRule>>
nodeVars == <<status, table, lastNode, orphaned>>
local == <<kernel, left>>
remote == <<router, stuck>>
net == <<local, remote>>
ctl == <<mgr, crashes, todo, missed>>
vars == <<rules, row, lastRule, status, table, lastNode, kernel, router, mgr,
          crashes, th, todo, missed, left, stuck, orphaned>>

-----------------------------------------------------------------------------
(* State. *)

Row == [src : Src \cup {NoSrc}, node : 0..MaxNode, prio : 0..MaxPrio,
        enabled : BOOLEAN]

BlankRow == [src |-> NoSrc, node |-> 0, prio |-> 0, enabled |-> FALSE]

KernelRule == [src : Src, table : Table, prio : 1..MaxPrio]

\* What a removal names of a kernel rule.
Pair(k) == <<k.src, k.table>>

Entry == [id : Id, src : Src]

Label == {"idle", "allocate", "insert", "checkSource", "delNode", "mtDelete",
          "ruleDel", "write", "remove", "addNode", "mtAdd", "ruleAdd",
          "recLoop"}

\* old is the row as the handler read it, new the row it writes or has
\* written, tab the table number it has looked up.
ThreadState == [op : {"none", "create", "update", "delete", "enable",
                      "disable", "recover"},
                pc : Label, id : 0..MaxRule, old : Row, new : Row,
                tab : 0..MaxNode]

IdleThread == [op |-> "none", pc |-> "idle", id |-> 0, old |-> BlankRow,
               new |-> BlankRow, tab |-> 0]

TypeOK ==
  /\ rules \subseteq Id
  /\ row \in [Id -> Row]
  /\ lastRule \in 0..MaxRule
  /\ status \in [Node -> {"none", "idle", "running"}]
  /\ table \in [Node -> 0..MaxNode]
  /\ lastNode \in 0..MaxNode
  /\ kernel \subseteq KernelRule
  /\ router \subseteq Entry
  /\ mgr \in {"down", "recovering", "serving"}
  /\ crashes \in 0..MaxCrash
  /\ th \in [Thread -> ThreadState]
  /\ todo \subseteq Id /\ missed \subseteq Id
  /\ left \subseteq Src \X Table /\ stuck \subseteq Entry
  /\ orphaned \subseteq Table

\* A new installation with some nodes, up and serving.
Init ==
  /\ rules = {} /\ row = [i \in Id |-> BlankRow] /\ lastRule = 0
  /\ lastNode = InitNodes
  /\ status = [n \in Node |-> IF n <= InitNodes THEN "idle" ELSE "none"]
  /\ table = [n \in Node |-> IF n <= InitNodes THEN n ELSE 0]
  /\ kernel = {} /\ router = {}
  /\ mgr = "serving" /\ crashes = 0
  /\ th = [t \in Thread |-> IdleThread]
  /\ todo = {} /\ missed = {} /\ orphaned = {}
  /\ left = {} /\ stuck = {}

-----------------------------------------------------------------------------
(* What the steps are built from. *)

Goto(t, l) == th' = [th EXCEPT ![t].pc = l]

Finish(t) == th' = [th EXCEPT ![t] = IdleThread]

\* The same as Goto, when the old row and its table are used no more.
Forget(t, l) ==
  th' = [th EXCEPT ![t].pc = l, ![t].old = BlankRow, ![t].tab = 0]

\* The next rule, or the answer to the client.
Return(t) ==
  IF t = Main THEN th' = [th EXCEPT ![t] = [IdleThread EXCEPT
                            !.op = "recover", !.pc = "recLoop"]]
  ELSE Finish(t)

HasNode(n) == n \in Node /\ status[n] # "none"

CheckSourceIPExists(s, i) == \E j \in rules \ {i} : row[j].src = s

MaxOf(S) == CHOOSE x \in S : \A y \in S : y <= x

NextPriority == 1 + MaxOf({0} \cup {row[i].prio : i \in rules})

\* UNIQUE (source_ip, node_id).
Unique(i, r) ==
  \A j \in rules \ {i} : row[j].src # r.src \/ row[j].node # r.node

Claimed(i) == Serial /\ \E t \in Thread : th[t].id = i

Entries(i) == {e \in router : e.id = i}

-----------------------------------------------------------------------------
(* Requests: a thread takes one and runs its first statement.  A body names  *)
(* a node the client has seen, which may be gone since.                      *)

Accepts(r) == mgr = "serving" /\ th[r].pc = "idle"

CreateRequest(r) ==
  /\ Accepts(r)
  /\ lastRule < MaxRule
  /\ \E s \in Src, n \in 1..lastNode, p \in Prios, en \in BOOLEAN :
       /\ ~CheckSourceIPExists(s, 0)
       /\ th' = [th EXCEPT ![r] = [IdleThread EXCEPT
                   !.op = "create", !.pc = "allocate",
                   !.new = [src |-> s, node |-> n, prio |-> p,
                            enabled |-> en]]]
  /\ UNCHANGED <<db, nodeVars, net, ctl>>

\* The other handlers read the row first.
Read(r, o, i, l, new) ==
  /\ Accepts(r)
  /\ i \in rules
  /\ ~Claimed(i)
  /\ th' = [th EXCEPT ![r] = [op |-> o, pc |-> l, id |-> i, old |-> row[i],
                              new |-> new, tab |-> 0]]
  /\ UNCHANGED <<db, nodeVars, net, ctl>>

\* Mutant: a priority of 0 is written.
UpdateZeroPriority(r, i) ==
  \E s \in Src, n \in 1..lastNode, p \in Prios, en \in BOOLEAN :
    Read(r, "update", i, "checkSource",
         [src |-> s, node |-> n, prio |-> p, enabled |-> en])

\* A priority of 0 in the body leaves the old one.
UpdateRequest(r, i) ==
  \E s \in Src, n \in 1..lastNode, p \in Prios, en \in BOOLEAN :
    Read(r, "update", i, "checkSource",
         [src |-> s, node |-> n, prio |-> IF p > 0 THEN p ELSE row[i].prio,
          enabled |-> en])

\* Mutant: only the row of a deleted rule goes.
DeleteRowOnly(r, i) == Read(r, "delete", i, "remove", BlankRow)

DeleteRequest(r, i) ==
  Read(r, "delete", i, IF row[i].enabled THEN "delNode" ELSE "remove",
       BlankRow)

EnableRequest(r, i) ==
  Read(r, "enable", i, "write", [row[i] EXCEPT !.enabled = TRUE])

\* Disable removes the rule whatever the column says.
DisableRequest(r, i) ==
  Read(r, "disable", i, "delNode", [row[i] EXCEPT !.enabled = FALSE])

-----------------------------------------------------------------------------
(* CreateRule. *)

Allocate(t) ==
  /\ th[t].pc = "allocate"
  /\ th[t].new.prio = 0 => NextPriority <= MaxPrio
  /\ th' = [th EXCEPT ![t].pc = "insert",
                      ![t].new.prio = IF @ = 0 THEN NextPriority ELSE @]
  /\ UNCHANGED <<db, nodeVars, net, ctl>>

\* storage.CreateRule; at the bound MaxRule it fails like any other INSERT.
Insert(t) ==
  /\ th[t].pc = "insert"
  /\ IF lastRule < MaxRule /\ Unique(0, th[t].new)
     THEN /\ lastRule' = lastRule + 1
          /\ rules' = rules \cup {lastRule'}
          /\ row' = [row EXCEPT ![lastRule'] = th[t].new]
          /\ IF th[t].new.enabled
             THEN th' = [th EXCEPT ![t].pc = "addNode", ![t].id = lastRule']
             ELSE Finish(t)
     ELSE Finish(t) /\ UNCHANGED db
  /\ UNCHANGED <<nodeVars, net, ctl>>

-----------------------------------------------------------------------------
(* UpdateRule, DeleteRule, EnableRule and DisableRule. *)

CheckSource(t) ==
  /\ th[t].pc = "checkSource"
  /\ IF CheckSourceIPExists(th[t].new.src, th[t].id) THEN Finish(t)
     ELSE IF th[t].old.enabled THEN Goto(t, "delNode") ELSE Forget(t, "write")
  /\ UNCHANGED <<db, nodeVars, net, ctl>>

AfterRemoval(t) == IF th[t].op = "delete" THEN "remove" ELSE "write"

\* Mutant: the table of the new node.
DelNodeNew(t) ==
  /\ th[t].pc = "delNode"
  /\ \/ /\ HasNode(th[t].new.node)
        /\ th' = [th EXCEPT ![t].pc = "mtDelete",
                             ![t].tab = table[th[t].new.node]]
        /\ UNCHANGED stuck
     \/ /\ ~HasNode(th[t].new.node)
        /\ Forget(t, AfterRemoval(t))
        /\ stuck' = stuck \cup Entries(th[t].id)
  /\ UNCHANGED <<db, nodeVars, local, router, ctl>>

\* The table of the old node; without the node nothing is removed, in the
\* kernel or on the router.
DelNode(t) ==
  /\ th[t].pc = "delNode"
  /\ \/ /\ HasNode(th[t].old.node)
        /\ th' = [th EXCEPT ![t].pc = "mtDelete",
                             ![t].tab = table[th[t].old.node]]
        /\ UNCHANGED stuck
     \/ /\ ~HasNode(th[t].old.node)
        /\ Forget(t, AfterRemoval(t))
        /\ stuck' = stuck \cup Entries(th[t].id)
  /\ UNCHANGED <<db, nodeVars, local, router, ctl>>

\* Mutant: the router keeps the rule.
MtDeleteNothing(t) ==
  /\ th[t].pc = "mtDelete"
  /\ Goto(t, "ruleDel")
  /\ UNCHANGED <<db, nodeVars, net, ctl>>

\* mikrotik.DeleteRoutingRule: all entries with the comment; the errors that
\* leave some of them there are only logged.
MtDelete(t) ==
  /\ th[t].pc = "mtDelete"
  /\ \E gone \in SUBSET Entries(th[t].id) :
       /\ gone # Entries(th[t].id) => Faults
       /\ router' = router \ gone
  /\ stuck' = (stuck \cup Entries(th[t].id)) \cap router'
  /\ Goto(t, "ruleDel")
  /\ UNCHANGED <<db, nodeVars, local, ctl>>

\* Mutant: the kernel removes the first rule with this source.
RuleDelSource(t) ==
  /\ th[t].pc = "ruleDel"
  /\ LET match == {k \in kernel : k.src = th[t].old.src}
         first == {k \in match : \A j \in match : k.prio <= j.prio}
     IN kernel' = kernel \ first
  /\ left' = left \cap {Pair(k) : k \in kernel'}
  /\ Forget(t, AfterRemoval(t))
  /\ UNCHANGED <<db, nodeVars, remote, ctl>>

\* The kernel removes the first rule with this source and table, or refuses
\* (an address that does not parse is not even sent there).  Whatever it
\* answers, the handler goes on to the row.
RuleDel(t) ==
  /\ th[t].pc = "ruleDel"
  /\ LET match == {k \in kernel : Pair(k) = <<th[t].old.src, th[t].tab>>}
         first == {k \in match : \A j \in match : k.prio <= j.prio}
     IN \/ /\ th[t].old.src \notin Bad
           /\ kernel' = kernel \ first
           /\ left' = left \cap {Pair(k) : k \in kernel'}
        \/ /\ Faults \/ th[t].old.src \in Bad
           /\ left' = left \cup {Pair(k) : k \in match}
           /\ UNCHANGED kernel
  /\ Forget(t, AfterRemoval(t))
  /\ UNCHANGED <<db, nodeVars, remote, ctl>>

\* storage.UpdateRule: the whole row.  Refused, it leaves an enabled rule
\* without the kernel rule that was removed before.
Write(t) ==
  /\ th[t].pc = "write"
  /\ LET i == th[t].id
     IN \/ /\ i \in rules /\ Unique(i, th[t].new)
           /\ row' = [row EXCEPT ![i] = th[t].new]
           /\ IF \/ th[t].op = "enable"
                 \/ th[t].op = "update" /\ th[t].new.enabled
              THEN Forget(t, "addNode")
              ELSE Finish(t)
           /\ missed' = missed \ {i}
        \/ /\ ~(i \in rules /\ Unique(i, th[t].new))
           /\ Finish(t)
           /\ missed' = missed \cup ({i} \cap rules)
           /\ UNCHANGED row
  /\ UNCHANGED <<rules, lastRule, nodeVars, net, mgr, crashes, todo>>

Remove(t) ==
  /\ th[t].pc = "remove"
  /\ rules' = rules \ {th[t].id}
  /\ row' = [row EXCEPT ![th[t].id] = BlankRow]
  /\ missed' = missed \ {th[t].id}
  /\ Finish(t)
  /\ UNCHANGED <<lastRule, nodeVars, net, mgr, crashes, todo>>

-----------------------------------------------------------------------------
(* RoutingManager.AddRule, and what a caller does before. *)

AddNode(t) ==
  /\ th[t].pc = "addNode"
  /\ IF HasNode(th[t].new.node)
     THEN th' = [th EXCEPT ![t].pc = "mtAdd",
                           ![t].tab = table[th[t].new.node]]
     ELSE Finish(t)
  /\ UNCHANGED <<db, nodeVars, net, ctl>>

\* mikrotik.AddRoutingRule does nothing when an entry has the comment.  When
\* the list cannot be read it adds all the same; an error is only logged.
MtAdd(t) ==
  /\ th[t].pc = "mtAdd"
  /\ LET entry == [id |-> th[t].id, src |-> th[t].new.src]
         listed == \E e \in router : e.id = th[t].id
     IN \/ router' = IF listed THEN router ELSE router \cup {entry}
        \/ Faults /\ router' \in {router, router \cup {entry}}
  /\ Goto(t, "ruleAdd")
  /\ UNCHANGED <<db, nodeVars, local, stuck, ctl>>

\* The kernel takes the rule, has it already (an error, which comes to the
\* same), or refuses.  Whatever it answers, the row says enabled.
RuleAdd(t) ==
  /\ th[t].pc = "ruleAdd"
  /\ LET rule == [src |-> th[t].new.src, table |-> th[t].tab,
                  prio |-> th[t].new.prio]
     IN /\ \/ th[t].new.src \notin Bad /\ kernel' = kernel \cup {rule}
           \/ (Faults \/ th[t].new.src \in Bad) /\ UNCHANGED kernel
        /\ missed' = IF rule \in kernel' THEN missed \ {th[t].id}
                     ELSE missed \cup ({th[t].id} \cap rules)
  /\ Return(t)
  /\ UNCHANGED <<db, nodeVars, left, remote, mgr, crashes, todo>>

-----------------------------------------------------------------------------
(* The Manager starts.  RecoverNodes has left every node running or not;     *)
(* then recoverRoutingRules goes through the enabled rules.                  *)

Boot ==
  /\ mgr = "down"
  /\ mgr' = "recovering"
  /\ \E up \in SUBSET {n \in Node : status[n] # "none"} :
       status' = [n \in Node |-> IF status[n] = "none" THEN "none"
                                 ELSE IF n \in up THEN "running" ELSE "idle"]
  /\ todo' = {i \in rules : row[i].enabled}
  /\ missed' = {}
  /\ th' = [th EXCEPT ![Main] = [IdleThread EXCEPT !.op = "recover",
                                                  !.pc = "recLoop"]]
  /\ UNCHANGED <<db, net, crashes, table, lastNode, orphaned>>

\* Mutant: the loop applies no rule.
RecoverNone(i) ==
  /\ th[Main].pc = "recLoop" /\ i \in todo
  /\ todo' = todo \ {i}
  /\ UNCHANGED <<th, missed, db, nodeVars, net, mgr, crashes>>

\* Only rules of running nodes are applied.
RecoverRule(i) ==
  /\ th[Main].pc = "recLoop" /\ i \in todo
  /\ todo' = todo \ {i}
  /\ LET n == row[i].node
     IN IF HasNode(n) /\ status[n] = "running"
        THEN /\ th' = [th EXCEPT ![Main] = [IdleThread EXCEPT
                         !.op = "recover", !.pc = "mtAdd", !.id = i,
                         !.new = row[i], !.tab = table[n]]]
             /\ UNCHANGED missed
        ELSE missed' = missed \cup {i} /\ UNCHANGED th
  /\ UNCHANGED <<db, nodeVars, net, mgr, crashes>>

Serve ==
  /\ th[Main].pc = "recLoop"
  /\ todo = {}
  /\ mgr' = "serving"
  /\ Finish(Main)
  /\ UNCHANGED <<db, nodeVars, net, crashes, todo, missed>>

\* The Manager dies; the kernel, the router and the database keep what they
\* have.  A reboot of the host empties the kernel's list.
Crash ==
  /\ mgr # "down"
  /\ crashes < MaxCrash
  /\ crashes' = crashes + 1
  /\ mgr' = "down"
  /\ kernel' \in {kernel, {}}
  /\ left' = IF kernel' = {} THEN {} ELSE left
  /\ th' = [t \in Thread |-> IdleThread]
  /\ todo' = {}
  /\ UNCHANGED <<db, nodeVars, remote, missed>>

-----------------------------------------------------------------------------
(* What the other handlers do to the nodes meanwhile. *)

SetStatus(n) ==
  /\ mgr = "serving" /\ Starts
  /\ HasNode(n)
  /\ \E s \in {"idle", "running"} \ {status[n]} :
       status' = [status EXCEPT ![n] = s]
  /\ UNCHANGED <<db, net, ctl, th, table, lastNode, orphaned>>

\* MAX(table_id) + 1: the number of a deleted last node is given out again.
CreateNode ==
  /\ mgr = "serving" /\ Churn
  /\ lastNode < MaxNode
  /\ lastNode' = lastNode + 1
  /\ status' = [status EXCEPT ![lastNode'] = "idle"]
  /\ table' = [table EXCEPT ![lastNode'] =
                 1 + MaxOf({0} \cup {table[n] : n \in Node})]
  /\ UNCHANGED <<db, net, ctl, th, orphaned>>

\* The rules of the node are left alone: foreign keys are not enforced.
DeleteNode(n) ==
  /\ mgr = "serving" /\ Churn
  /\ HasNode(n)
  /\ status' = [status EXCEPT ![n] = "none"]
  /\ table' = [table EXCEPT ![n] = 0]
  /\ orphaned' = orphaned \cup {table[n]}
  /\ UNCHANGED <<db, net, ctl, th, lastNode>>

-----------------------------------------------------------------------------
Request(r) ==
  \/ CreateRequest(r)
  \/ \E i \in Id : \/ UpdateRequest(r, i) \/ DeleteRequest(r, i)
                   \/ EnableRequest(r, i) \/ DisableRequest(r, i)

Step(r) ==
  \/ Allocate(r) \/ Insert(r) \/ CheckSource(r) \/ DelNode(r) \/ MtDelete(r)
  \/ RuleDel(r) \/ Write(r) \/ Remove(r) \/ AddNode(r)

Apply(t) == MtAdd(t) \/ RuleAdd(t)

Recovery ==
  \/ Boot \/ Serve \/ Apply(Main)
  \/ \E i \in Id : RecoverRule(i)

Nodes == CreateNode \/ \E n \in Node : SetStatus(n) \/ DeleteNode(n)

Next ==
  \/ \E r \in Req : Request(r) \/ Step(r) \/ Apply(r)
  \/ Recovery \/ Crash \/ Nodes

Spec == Init /\ [][Next]_vars

-----------------------------------------------------------------------------
(* Properties. *)

\* Kernel rules whose removal was not refused.
Firm == {k \in kernel : Pair(k) \notin left}

\* Router rules whose removal neither failed nor was left out.
Loose == router \ stuck

\* Rule i, as its row is now, stands for kernel rule k.
StandsFor(i, k) ==
  /\ row[i].enabled /\ row[i].src = k.src /\ row[i].prio = k.prio
  /\ HasNode(row[i].node) /\ table[row[i].node] = k.table

\* The kernel routes no address that the table of rules does not: a kernel
\* rule is the rule of an enabled row, with that row's address, priority and
\* node, at every moment and whatever crashed, because each handler removes
\* it before and adds it after it writes the row.  There are two ways out: the
\* kernel refused a removal of this address and table and has had such a rule
\* ever since, or the node of the table was deleted, which leaves its rules
\* where no handler finds them.
NoStrayRule ==
  \A k \in Firm : k.table \in orphaned \/ \E i \in rules : StandsFor(i, k)

\* A rule nobody is working on.
Settled(i) ==
  mgr = "serving" /\ i \in rules /\ \A t \in Thread : th[t].id # i

Installed(i) ==
  [src |-> row[i].src, table |-> table[row[i].node], prio |-> row[i].prio]
    \in kernel

\* When no request about it is in flight, an enabled rule of an existing node
\* is in the kernel, unless the last attempt to put it there was refused, the
\* UPDATE between the removal and that attempt failed, or the recovery left
\* it out because its node did not run.  No other rule's request, no crash
\* and nothing that becomes of the nodes takes it away.
InstalledUnlessMissed ==
  \A i \in Id :
    Settled(i) /\ row[i].enabled /\ HasNode(row[i].node) =>
      Installed(i) \/ i \in missed

\* The rules of a running node are in the kernel after a restart of the
\* Manager, as before ("recovers all routing rules").
InstalledWhileRunning ==
  \A i \in Id :
    Settled(i) /\ row[i].enabled /\ HasNode(row[i].node) =>
      Installed(i) \/ status[row[i].node] # "running"

\* A router rule of an enabled rule, with that rule's address.
Follows(e) ==
  Settled(e.id) \/ (mgr = "serving" /\ e.id \notin rules) =>
    e.id \in rules /\ row[e.id].enabled /\ row[e.id].src = e.src

\* The router sends a client's address to this host only under a rule that
\* is enabled and has this very address: no entry survives a change of the
\* address (AddRoutingRule would leave it as it is), but for those whose
\* removal failed at the router or was left out because the node was gone.
RouterFollows == \A e \in Loose : Follows(e)
=============================================================================
