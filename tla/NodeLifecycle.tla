--------------------------- MODULE NodeLifecycle ---------------------------
(***************************************************************************)
(* The life of a proxy node: its row in proxy_nodes, the sing-box process   *)
(* and the TUN device behind it, the API handlers that start, stop, restart,*)
(* delete, update, create and probe it, and the recovery the Manager runs   *)
(* before it serves requests.                                               *)
(*                                                                          *)
(* Every handler runs in a goroutine of its own and takes no lock.  The     *)
(* database allows one connection, so one SQL statement is atomic and       *)
(* nothing larger is: a thread has a label (pc) between every two accesses  *)
(* to shared state, which are the SQL statements, the system calls on       *)
(* processes and the kernel's routing tables.                               *)
(***************************************************************************)
EXTENDS Naturals, FiniteSets

CONSTANTS
  Req,        \* goroutines that serve API requests
  Main,       \* the main goroutine, which runs the recovery
  InitNodes,  \* number of nodes in the database at first
  MaxNode,    \* bound: number of nodes ever created
  MaxPid,     \* bound: number of processes started between two boots
  MaxCrash,   \* bound: number of Manager crashes and host reboots
  Ops,        \* kinds of request the clients send
  Serial      \* TRUE: clients never have two requests in flight on one node

Id == 1..MaxNode
Pid == 1..MaxPid
Thread == Req \cup {Main}
AllOps == {"create", "start", "stop", "restart", "delete", "update", "status"}

ASSUME LifecycleAssumption ==
  /\ MaxNode \in Nat /\ InitNodes \in 0..MaxNode
  /\ MaxPid \in Nat /\ MaxCrash \in Nat
  /\ Main \notin Req
  /\ Ops \subseteq AllOps
  /\ Serial \in BOOLEAN

VARIABLES
  nodes,      \* ids that have a row in proxy_nodes
  row,        \* the row of each id (blank where there is none)
  lastId,     \* the AUTOINCREMENT counter of proxy_nodes
  proc,       \* processes by pid
  lastPid,    \* last pid the kernel gave out since boot
  via,        \* the process whose TUN device the default route of each
              \* node's routing table goes through, 0 where there is no route
  mgr,        \* "down", "recovering" (main before the API) or "serving"
  crashes,    \* crashes so far
  lost,       \* history: pids whose starter died before it recorded them
  th,         \* the threads
  todo        \* nodes the recovery has still to visit

db == <<nodes, row, lastId>>
os == <<proc, lastPid, via>>
ctl == <<mgr, crashes, lost>>
vars == <<nodes, row, lastId, proc, lastPid, via, mgr, crashes, lost, th, todo>>

-----------------------------------------------------------------------------
(* State. *)

Status == {"", "stopped", "starting", "running", "error"}

Row == [enabled : BOOLEAN, status : Status, pid : 0..MaxPid, named : BOOLEAN]

BlankRow == [enabled |-> FALSE, status |-> "stopped", pid |-> 0,
             named |-> TRUE]

\* A process is live, live but told to terminate, exited and not reaped, or
\* free (never started, or exited and reaped).  Its owner is the node it was
\* started for, 0 for a program that is not ours.
Process == [state : {"free", "live", "term", "zombie"},
            owner : 0..MaxNode, child : BOOLEAN]

FreeProcess == [state |-> "free", owner |-> 0, child |-> FALSE]

Label == {"idle", "createFix", "check", "markStarting", "spawn", "verify",
          "markRunning", "markError", "reread", "route", "kill",
          "markStopped", "reget", "deleteRow", "write", "probed",
          "recLoop", "recErr", "routeLoop"}

\* n is the node id, snap the row as the handler last read it, pid the
\* process id StartNode holds in a local variable.
ThreadState == [op : AllOps \cup {"none", "recover"}, pc : Label,
                n : 0..MaxNode, snap : Row, pid : 0..MaxPid]

IdleThread == [op |-> "none", pc |-> "idle", n |-> 0, snap |-> BlankRow,
               pid |-> 0]

TypeOK ==
  /\ nodes \subseteq Id
  /\ row \in [Id -> Row]
  /\ lastId \in 0..MaxNode
  /\ proc \in [Pid -> Process]
  /\ lastPid \in 0..MaxPid
  /\ via \in [Id -> 0..MaxPid]
  /\ mgr \in {"down", "recovering", "serving"}
  /\ crashes \in 0..MaxCrash
  /\ lost \subseteq Pid
  /\ th \in [Thread -> ThreadState]
  /\ todo \subseteq Id

\* The Manager is about to start, for the first time on this host, on a
\* database whose nodes (if any) have never run.
Init ==
  /\ lastId = InitNodes
  /\ nodes = 1..InitNodes
  /\ \E en \in SUBSET nodes :
       row = [n \in Id |-> [BlankRow EXCEPT !.enabled = n \in en]]
  /\ proc = [p \in Pid |-> FreeProcess]
  /\ lastPid = 0
  /\ via = [n \in Id |-> 0]
  /\ mgr = "down"
  /\ crashes = 0
  /\ lost = {}
  /\ th = [t \in Thread |-> IdleThread]
  /\ todo = {}

-----------------------------------------------------------------------------
(* What the steps are built from. *)

\* Signal 0 succeeds on every pid the kernel still holds, a zombie included.
IsProcessRunning(p) == p # 0 /\ proc[p].state # "free"

Goto(t, l) == th' = [th EXCEPT ![t].pc = l]

\* The same, when the row and the pid the thread has read are used no more.
Fresh(t, l) ==
  th' = [th EXCEPT ![t].pc = l, ![t].snap = BlankRow, ![t].pid = 0]

Finish(t) == th' = [th EXCEPT ![t] = IdleThread]

UpdateNodeStatus(n, s, p) ==
  /\ row' = IF n \in nodes
            THEN [row EXCEPT ![n].status = s, ![n].pid = p] ELSE row
  /\ UNCHANGED <<nodes, lastId>>

\* The whole row; UNIQUE refuses a second row without a TUN name.
UpdateNode(n, r) ==
  /\ row' = IF n \in nodes /\ (r.named \/ \A m \in nodes \ {n} : row[m].named)
            THEN [row EXCEPT ![n] = r] ELSE row
  /\ UNCHANGED <<nodes, lastId>>

\* Manager.StartNode returns nil, or an error: a handler goes on or answers,
\* RecoverNodes takes the next node or records the error first.
StartDone(t) ==
  CASE th[t].op = "recover" -> Fresh(t, "recLoop")
    [] th[t].op = "status" -> Finish(t)
    [] OTHER -> Fresh(t, "reread")

StartFailed(t) ==
  IF th[t].op = "recover" THEN Goto(t, "recErr") ELSE Finish(t)

-----------------------------------------------------------------------------
(* A request arrives and its handler reads the row (a request for a node    *)
(* that does not exist, and one that changes nothing, is no step).           *)

Accepts(r, o) == mgr = "serving" /\ th[r].pc = "idle" /\ o \in Ops

\* The first statement of a handler on node n: GetNode.
Read(r, o, n, l) ==
  /\ Accepts(r, o)
  /\ n \in nodes
  /\ Serial => \A s \in Req : th[s].n # n
  /\ th' = [th EXCEPT ![r] = [op |-> o, pc |-> l, n |-> n,
                              snap |-> row[n], pid |-> 0]]
  /\ UNCHANGED <<db, os, ctl, todo>>

StartRequest(r, n) == Read(r, "start", n, "check")

\* StopNode on a row without a pid is a no-op that leaves the status alone.
StopRequest(r, n) == row[n].pid # 0 /\ Read(r, "stop", n, "kill")

RestartRequest(r, n) ==
  Read(r, "restart", n, IF row[n].pid = 0 THEN "reget" ELSE "kill")

\* Mutant: the row goes and nothing stops the process first.
DeleteUnstopped(r, n) == Read(r, "delete", n, "deleteRow")

DeleteRequest(r, n) ==
  Read(r, "delete", n, IF row[n].pid = 0 THEN "deleteRow" ELSE "kill")

UpdateRequest(r, n) == Read(r, "update", n, "write")

StatusRequest(r, n) == row[n].pid # 0 /\ Read(r, "status", n, "probed")

\* INSERT, of a body without the columns the server fills in.  tun_name is
\* UNIQUE and still empty here, so the INSERT fails as long as another row
\* has no TUN name.
CreateRequest(r) ==
  /\ Accepts(r, "create")
  /\ lastId < MaxNode
  /\ \A m \in nodes : row[m].named
  /\ lastId' = lastId + 1
  /\ nodes' = nodes \cup {lastId'}
  /\ \E en \in BOOLEAN :
       LET new == [enabled |-> en, status |-> "", pid |-> 0, named |-> FALSE]
       IN /\ row' = [row EXCEPT ![lastId'] = new]
          /\ th' = [th EXCEPT ![r] =
                      [op |-> "create", pc |-> "createFix", n |-> lastId',
                       snap |-> [new EXCEPT !.status = "stopped",
                                            !.named = TRUE],
                       pid |-> 0]]
  /\ UNCHANGED <<os, ctl, todo>>

\* The handler's second statement writes the whole row it has built.
CreateFix(t) ==
  /\ th[t].pc = "createFix"
  /\ UpdateNode(th[t].n, th[t].snap)
  /\ Finish(t)
  /\ UNCHANGED <<os, ctl, todo>>

-----------------------------------------------------------------------------
(* Manager.StartNode, from the row the caller read. *)

\* Mutant: a process that runs already is not noticed.
CheckNothing(t) ==
  /\ th[t].pc = "check"
  /\ Fresh(t, "markStarting")
  /\ UNCHANGED <<db, os, ctl, todo>>

\* Already running: done.  Otherwise the configuration is generated and
\* saved, or that fails before anything has changed.
Check(t) ==
  /\ th[t].pc = "check"
  /\ IF IsProcessRunning(th[t].snap.pid)
     THEN StartDone(t)
     ELSE Fresh(t, "markStarting") \/ StartFailed(t)
  /\ UNCHANGED <<db, os, ctl, todo>>

\* Mutant: the old pid stays in the row while the node starts.
MarkStartingOldPid(t) ==
  /\ th[t].pc = "markStarting"
  /\ UpdateNodeStatus(th[t].n, "starting", IF th[t].n \in nodes
                                          THEN row[th[t].n].pid ELSE 0)
  /\ IF th[t].n \in nodes THEN Goto(t, "spawn") ELSE StartFailed(t)
  /\ UNCHANGED <<os, ctl, todo>>

MarkStarting(t) ==
  /\ th[t].pc = "markStarting"
  /\ UpdateNodeStatus(th[t].n, "starting", 0)
  /\ IF th[t].n \in nodes THEN Goto(t, "spawn") ELSE StartFailed(t)
  /\ UNCHANGED <<os, ctl, todo>>

\* fork and exec; the kernel numbers processes upwards.
Spawn(t) ==
  /\ th[t].pc = "spawn"
  /\ lastPid < MaxPid
  /\ lastPid' = lastPid + 1
  /\ proc' = [proc EXCEPT ![lastPid'] = [state |-> "live",
                                         owner |-> th[t].n, child |-> TRUE]]
  /\ th' = [th EXCEPT ![t].pc = "verify", ![t].pid = lastPid']
  /\ UNCHANGED <<db, via, ctl, todo>>

SpawnFails(t) ==
  /\ th[t].pc = "spawn"
  /\ Goto(t, "markError")
  /\ UNCHANGED <<db, os, ctl, todo>>

\* After one second the process is looked up again.
Verify(t) ==
  /\ th[t].pc = "verify"
  /\ Goto(t, IF IsProcessRunning(th[t].pid) THEN "markRunning"
             ELSE "markError")
  /\ UNCHANGED <<db, os, ctl, todo>>

\* Mutant: a status the API does not know.
MarkFailed(t) ==
  /\ th[t].pc = "markError"
  /\ UpdateNodeStatus(th[t].n, "failed", 0)
  /\ StartFailed(t)
  /\ UNCHANGED <<os, ctl, todo>>

MarkError(t) ==
  /\ th[t].pc = "markError"
  /\ UpdateNodeStatus(th[t].n, "error", 0)
  /\ StartFailed(t)
  /\ UNCHANGED <<os, ctl, todo>>

\* Mutant: the pid is kept in a field the threads share, not in a local.
MarkRunningShared(t) ==
  /\ th[t].pc = "markRunning"
  /\ UpdateNodeStatus(th[t].n, "running", lastPid)
  /\ IF th[t].n \in nodes THEN StartDone(t) ELSE StartFailed(t)
  /\ UNCHANGED <<os, ctl, todo>>

\* When the row is gone the error is returned and the process stays.
MarkRunning(t) ==
  /\ th[t].pc = "markRunning"
  /\ UpdateNodeStatus(th[t].n, "running", th[t].pid)
  /\ IF th[t].n \in nodes THEN StartDone(t) ELSE StartFailed(t)
  /\ UNCHANGED <<os, ctl, todo>>

\* The handler reads the row again; when it is gone the nil row panics and
\* gin.Recovery ends the request.
Reread(t) ==
  /\ th[t].pc = "reread"
  /\ IF th[t].n \in nodes THEN Goto(t, "route") ELSE Finish(t)
  /\ UNCHANGED <<db, os, ctl, todo>>

\* AddTableRoute waits for the node's TUN device, which some process of the
\* node holds, and points the table's default route at it; or ten seconds
\* pass.
AddTableRoute(t) ==
  /\ th[t].pc = "route"
  /\ \/ \E p \in Pid : /\ proc[p].owner = th[t].n
                       /\ proc[p].state \in {"live", "term"}
                       /\ via' = [via EXCEPT ![th[t].n] = p]
     \/ UNCHANGED via
  /\ IF th[t].op = "recover" THEN Goto(t, "routeLoop") ELSE Finish(t)
  /\ UNCHANGED <<db, proc, lastPid, ctl, todo>>

-----------------------------------------------------------------------------
(* Manager.StopNode and the handlers built on it. *)

\* Mutant: the signal is not sent.
KillNothing(t) ==
  /\ th[t].pc = "kill"
  /\ Fresh(t, "markStopped")
  /\ UNCHANGED <<db, os, ctl, todo>>

\* SIGTERM to the pid that was read; a pid that is gone is only logged.
Kill(t) ==
  /\ th[t].pc = "kill"
  /\ proc' = IF proc[th[t].snap.pid].state = "live"
             THEN [proc EXCEPT ![th[t].snap.pid].state = "term"] ELSE proc
  /\ Fresh(t, "markStopped")
  /\ UNCHANGED <<db, lastPid, via, ctl, todo>>

\* A row that is gone ends a restart; delete only warns and goes on.
MarkStopped(t) ==
  /\ th[t].pc = "markStopped"
  /\ UpdateNodeStatus(th[t].n, "stopped", 0)
  /\ CASE th[t].op = "delete" -> Goto(t, "deleteRow")
       [] th[t].op = "restart" /\ th[t].n \in nodes -> Goto(t, "reget")
       [] OTHER -> Finish(t)
  /\ UNCHANGED <<os, ctl, todo>>

\* RestartNode sleeps two seconds, reads the row again and goes on as a start.
Reget(t) ==
  /\ th[t].pc = "reget"
  /\ IF th[t].n \in nodes
     THEN th' = [th EXCEPT ![t].op = "start", ![t].pc = "check",
                           ![t].snap = row[th[t].n]]
     ELSE Finish(t)
  /\ UNCHANGED <<db, os, ctl, todo>>

DeleteRow(t) ==
  /\ th[t].pc = "deleteRow"
  /\ nodes' = nodes \ {th[t].n}
  /\ row' = [row EXCEPT ![th[t].n] = BlankRow]
  /\ Finish(t)
  /\ UNCHANGED <<lastId, os, ctl, todo>>

-----------------------------------------------------------------------------
(* UpdateNode and GetNodeStatus. *)

\* The whole row is written back; the body can only switch enabled on.
WriteRow(t) ==
  /\ th[t].pc = "write"
  /\ \E en \in {th[t].snap.enabled, TRUE} :
       UpdateNode(th[t].n, [th[t].snap EXCEPT !.enabled = en])
  /\ Finish(t)
  /\ UNCHANGED <<os, ctl, todo>>

\* The process is looked up and a row that disagrees is corrected.  The
\* look-up and the write are two steps: the second uses the first's answer.
Probe(t) ==
  /\ th[t].pc = "probed"
  /\ LET up == IsProcessRunning(th[t].snap.pid)
         agrees == IF up THEN th[t].snap.status = "running"
                   ELSE th[t].snap.status \in {"stopped", "error"}
     IN IF agrees THEN Finish(t)
        ELSE th' = [th EXCEPT ![t].pc = IF up THEN "markRunning"
                                        ELSE "markError",
                              ![t].pid = th[t].snap.pid]
  /\ UNCHANGED <<db, os, ctl, todo>>

-----------------------------------------------------------------------------
(* The Manager starts: RecoverNodes over the enabled nodes, in id order,    *)
(* then the default route of each one that runs, then the API.  No request  *)
(* is served before that, so the rows are those of the list read first.     *)

MainAt(l) == th[Main].pc = l

EnabledNodes == {n \in nodes : row[n].enabled}

FirstOf(n, S) == n \in S /\ \A m \in S : n <= m

\* Mutant: only the nodes that were running are recovered.
BootRunning ==
  /\ mgr = "down"
  /\ mgr' = "recovering"
  /\ todo' = {n \in EnabledNodes : row[n].status = "running"}
  /\ th' = [th EXCEPT ![Main] = [IdleThread EXCEPT !.op = "recover",
                                                  !.pc = "recLoop"]]
  /\ UNCHANGED <<db, os, crashes, lost>>

Boot ==
  /\ mgr = "down"
  /\ mgr' = "recovering"
  /\ todo' = EnabledNodes
  /\ th' = [th EXCEPT ![Main] = [IdleThread EXCEPT !.op = "recover",
                                                  !.pc = "recLoop"]]
  /\ UNCHANGED <<db, os, crashes, lost>>

\* A recorded process that still exists is taken over; any other node is
\* started afresh.
RecoverNext ==
  /\ MainAt("recLoop")
  /\ \E n \in todo :
       /\ FirstOf(n, todo)
       /\ todo' = todo \ {n}
       /\ th' = [th EXCEPT ![Main] =
                   [op |-> "recover", n |-> n, snap |-> row[n],
                    pc |-> IF IsProcessRunning(row[n].pid)
                           THEN "markRunning" ELSE "check",
                    pid |-> IF IsProcessRunning(row[n].pid)
                            THEN row[n].pid ELSE 0]]
  /\ UNCHANGED <<db, os, ctl>>

\* Mutant: a node that cannot be started keeps its status.
RecoverErrorIgnored ==
  /\ MainAt("recErr")
  /\ Fresh(Main, "recLoop")
  /\ UNCHANGED <<db, os, ctl, todo>>

RecoverError ==
  /\ MainAt("recErr")
  /\ UpdateNodeStatus(th[Main].n, "error", 0)
  /\ Fresh(Main, "recLoop")
  /\ UNCHANGED <<os, ctl, todo>>

\* The enabled nodes are read again for their routes.
RecoverEnd ==
  /\ MainAt("recLoop")
  /\ todo = {}
  /\ todo' = {n \in EnabledNodes : row[n].status = "running"}
  /\ Goto(Main, "routeLoop")
  /\ UNCHANGED <<db, os, ctl>>

RouteNext ==
  /\ MainAt("routeLoop")
  /\ \E n \in todo :
       /\ FirstOf(n, todo)
       /\ todo' = todo \ {n}
       /\ th' = [th EXCEPT ![Main] = [IdleThread EXCEPT
                   !.op = "recover", !.pc = "route", !.n = n]]
  /\ UNCHANGED <<db, os, ctl>>

Serve ==
  /\ MainAt("routeLoop")
  /\ todo = {}
  /\ mgr' = "serving"
  /\ Finish(Main)
  /\ UNCHANGED <<db, os, crashes, lost, todo>>

-----------------------------------------------------------------------------
(* The host. *)

\* A process ends, told to or by itself.  Nobody waits for it: it stays a
\* zombie while its parent lives.  Its device goes, and the routes with it.
ProcExit(p) ==
  /\ proc[p].state \in {"live", "term"}
  /\ proc' = [proc EXCEPT ![p].state =
                IF proc[p].child THEN "zombie" ELSE "free"]
  /\ via' = [n \in Id |-> IF via[n] = p THEN 0 ELSE via[n]]
  /\ UNCHANGED <<db, lastPid, ctl, th, todo>>

\* The Manager process dies (or is told to exit: requests in flight are cut
\* just the same).  Its children go on and belong to init, which reaps them.
Crash ==
  /\ mgr # "down"
  /\ crashes < MaxCrash
  /\ crashes' = crashes + 1
  /\ mgr' = "down"
  /\ lost' = lost \cup ({th[t].pid : t \in {u \in Thread :
                            th[u].pc \in {"verify", "markRunning"}}}
                          \ {row[n].pid : n \in nodes})
  /\ proc' = [p \in Pid |->
               [proc[p] EXCEPT !.child = FALSE,
                  !.state = IF @ = "zombie" THEN "free" ELSE @]]
  /\ th' = [t \in Thread |-> IdleThread]
  /\ todo' = {}
  /\ UNCHANGED <<db, lastPid, via>>

\* The host restarts: only the database survives and pids start over.
Reboot ==
  /\ crashes < MaxCrash
  /\ crashes' = crashes + 1
  /\ mgr' = "down"
  /\ lost' = {}
  /\ proc' = [p \in Pid |-> FreeProcess]
  /\ lastPid' = 0
  /\ via' = [n \in Id |-> 0]
  /\ th' = [t \in Thread |-> IdleThread]
  /\ todo' = {}
  /\ UNCHANGED db

\* Some other program of the host takes the next pid.
OtherProgram ==
  /\ lastPid < MaxPid
  /\ lastPid' = lastPid + 1
  /\ proc' = [proc EXCEPT ![lastPid'] = [FreeProcess EXCEPT !.state = "live"]]
  /\ UNCHANGED <<db, via, ctl, th, todo>>

-----------------------------------------------------------------------------
(* Specifications. *)

StartStep(t) ==
  \/ Check(t) \/ MarkStarting(t) \/ Spawn(t) \/ SpawnFails(t) \/ Verify(t)
  \/ MarkError(t) \/ MarkRunning(t) \/ AddTableRoute(t)

HandlerStep(r) ==
  \/ StartStep(r) \/ Reread(r) \/ CreateFix(r) \/ Kill(r) \/ MarkStopped(r)
  \/ Reget(r) \/ DeleteRow(r) \/ WriteRow(r) \/ Probe(r)

MainStep ==
  \/ StartStep(Main) \/ RecoverNext \/ RecoverError \/ RecoverEnd
  \/ RouteNext \/ Serve

Request(r) ==
  \/ CreateRequest(r)
  \/ \E n \in Id :
       \/ StartRequest(r, n) \/ StopRequest(r, n) \/ RestartRequest(r, n)
       \/ DeleteRequest(r, n) \/ UpdateRequest(r, n) \/ StatusRequest(r, n)

Next ==
  \/ \E r \in Req : Request(r) \/ HandlerStep(r)
  \/ Boot \/ MainStep \/ Crash
  \/ \E p \in Pid : ProcExit(p)

\* The host stays up.
Spec == Init /\ [][Next]_vars

\* The host may restart, after which pids are given out again.
RebootSpec == Init /\ [][Next \/ Reboot \/ OtherProgram]_vars

\* Goroutines are scheduled, systemd starts the Manager again, and a process
\* told to terminate ends.  Nothing says that a healthy process ends, that a
\* client sends a request, or that the Manager crashes.
Fairness ==
  /\ \A r \in Req : WF_vars(HandlerStep(r))
  /\ WF_vars(Boot) /\ WF_vars(MainStep)
  /\ \A p \in Pid : WF_vars(proc[p].state = "term" /\ ProcExit(p))

FairSpec == Spec /\ Fairness

-----------------------------------------------------------------------------
(* Properties. *)

\* A pid recorded in a row was started for the node of that row: no mix of
\* stale rows, whole-row writes, crashes and recoveries ever makes a node
\* record the process of another one (storage.UpdateNode, UpdateNodeStatus).
RecordedPidIsOwn ==
  \A n \in nodes : row[n].pid # 0 => proc[row[n].pid].owner = n

\* The two columns that four writers set agree at every moment: a row says
\* "running" exactly when it records a pid, so StopNode, which looks only at
\* the pid, never leaves a node marked as running alone.
StatusMatchesPid ==
  \A n \in nodes : row[n].status = "running" <=> row[n].pid # 0

\* SIGTERM only ever reaches a process of the node whose handler sends it
\* (ProcessManager.StopProcess gets a bare pid and verifies nothing).
SignalsOwnProcess ==
  [][\A p \in Pid :
       proc[p].state = "live" /\ proc'[p].state = "term" =>
         \E t \in Thread : th[t].pc = "kill" /\ th[t].n = proc[p].owner]_vars

\* When RecoverNodes is through, whatever a crash left in the rows, every
\* enabled node is either running or marked as failed.
RecoverySettles ==
  th[Main].pc = "routeLoop" =>
    \A n \in EnabledNodes : row[n].status \in {"running", "error"}

\* RecoverNodes takes over a recorded pid only when it is the sing-box process
\* of that node (docs/PROJECT_STATUS.md: "if the process exists and is
\* sing-box").  False once the host has restarted: signal 0 is the only test.
RecoveryTakesOwnProcess ==
  th[Main].pc = "markRunning" => proc[th[Main].pid].owner = th[Main].n

\* A sing-box process that nobody told to stop is recorded in its node's row
\* or in the hands of the thread that started it, unless a crash of the
\* Manager cut that thread off.
InHand(p) ==
  \E t \in Thread : /\ th[t].pid = p /\ th[t].n = proc[p].owner
                    /\ th[t].pc \in {"verify", "markRunning"}

NoProcessLeaks ==
  \A p \in Pid :
    LET n == proc[p].owner
    IN proc[p].state = "live" /\ n # 0 /\ p \notin lost =>
         (n \in nodes /\ row[n].pid = p) \/ InHand(p)

\* A node has at most one sing-box process that is meant to run.
OneProcessPerNode ==
  \A p, q \in Pid \ lost :
    /\ proc[p].state = "live" /\ proc[q].state = "live"
    /\ proc[p].owner = proc[q].owner /\ proc[p].owner # 0
    => p = q

\* The start of an enabled node comes to an end: the row does not stay in
\* "starting" even when the Manager dies half-way, because RecoverNodes takes
\* the node up again.  (A disabled one does stay there.)
StartResolves ==
  \A n \in Id :
    (n \in EnabledNodes /\ \E t \in Thread : th[t].n = n /\ th[t].pc = "spawn")
      ~> (n \notin EnabledNodes \/ row[n].status # "starting")

\* Once a node is deleted its processes end and the default route of its
\* table goes with the device, leaving the table empty for the next node that
\* is given its number; processes orphaned by a crash excepted.
DeletedNodesVanish ==
  \A n \in Id :
    (n <= lastId /\ n \notin nodes)
      ~> /\ \A p \in Pid \ lost : proc[p].owner = n =>
              proc[p].state \notin {"live", "term"}
         /\ via[n] \in lost \cup {0}
=============================================================================
