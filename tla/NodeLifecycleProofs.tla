------------------------ MODULE NodeLifecycleProofs ------------------------
(***************************************************************************)
(* Theorems about NodeLifecycle for every number of nodes, processes,       *)
(* request threads and crashes: first for every mix of concurrent requests; *)
(* then those that relate rows, processes and the threads in between: what  *)
(* the recovery leaves, and, if no client has two requests in flight on one *)
(* node, that no process is forgotten or doubled.                           *)
(***************************************************************************)
EXTENDS NodeLifecycle, TLAPS

-----------------------------------------------------------------------------
(* Type correctness.  The set lost stays a set of pids only because a       *)
(* thread that is about to verify or record a process holds its pid; kill    *)
(* and probed look a process up by the pid that was read.                    *)

HandInv ==
  \A t \in Thread :
    /\ th[t].pc \in {"verify", "markRunning"} => th[t].pid # 0
    /\ th[t].pc \in {"kill", "probed"} => th[t].snap.pid # 0

ThreadInv == th \in [Thread -> ThreadState] /\ HandInv

TypeInv == TypeOK /\ HandInv

\* The constant records are in type.
LEMMA Blanks ==
  /\ BlankRow \in Row /\ FreeProcess \in Process
  /\ IdleThread \in ThreadState
<1>1. 0 \in 0..MaxPid /\ 0 \in 0..MaxNode
  BY LifecycleAssumption DEF LifecycleAssumption
<1>2. BlankRow \in Row
  BY <1>1 DEF BlankRow, Row, Status
<1>3. FreeProcess \in Process
  BY <1>1 DEF FreeProcess, Process
<1>4. IdleThread \in ThreadState
  BY <1>1, <1>2 DEF IdleThread, ThreadState, Label
<1> QED
  BY <1>2, <1>3, <1>4

\* What the helpers of the steps keep in type.
LEMMA GotoInv ==
  ASSUME TypeInv, NEW t \in Thread, NEW l \in Label, Goto(t, l),
         l \in {"verify", "markRunning"} => th[t].pid # 0,
         l \in {"kill", "probed"} => th[t].snap.pid # 0
  PROVE  ThreadInv'
<1>1. th' \in [Thread -> ThreadState]
  BY DEF TypeInv, TypeOK, Goto, ThreadState
<1>2. HandInv'
  BY DEF TypeInv, TypeOK, HandInv, Goto, ThreadState
<1> QED
  BY <1>1, <1>2 DEF ThreadInv

LEMMA FreshInv ==
  ASSUME TypeInv, NEW t \in Thread, NEW l \in Label, Fresh(t, l),
         l \notin {"verify", "markRunning", "kill", "probed"}
  PROVE  ThreadInv'
<1>1. BlankRow \in Row /\ 0 \in 0..MaxPid
  BY Blanks, LifecycleAssumption DEF LifecycleAssumption
<1>2. th' \in [Thread -> ThreadState]
  <2>1. PICK s : s = [th[t] EXCEPT !.pc = l, !.snap = BlankRow, !.pid = 0]
    OBVIOUS
  <2>2. th[t] \in ThreadState
    BY DEF TypeInv, TypeOK, Thread
  <2>3. s \in ThreadState
    BY ONLY <1>1, <2>1, <2>2, l \in Label DEF ThreadState
  <2>4. th' = [th EXCEPT ![t] = s]
    BY <2>1 DEF Fresh
  <2> QED
    BY <2>3, <2>4 DEF TypeInv, TypeOK
<1>3. HandInv'
  BY DEF TypeInv, TypeOK, HandInv, Fresh, ThreadState
<1> QED
  BY <1>2, <1>3 DEF ThreadInv

LEMMA FinishInv ==
  ASSUME TypeInv, NEW t \in Thread, Finish(t)
  PROVE  ThreadInv'
  BY Blanks DEF TypeInv, TypeOK, HandInv, ThreadInv, Finish, IdleThread

LEMMA StartReturnInv ==
  ASSUME TypeInv, NEW t \in Thread, StartDone(t) \/ StartFailed(t)
  PROVE  ThreadInv'
<1>1. {"recLoop", "reread", "recErr"} \subseteq Label
  BY DEF Label
<1>2. CASE StartDone(t)
  BY <1>1, <1>2, FreshInv, FinishInv DEF StartDone
<1>3. CASE StartFailed(t)
  BY <1>1, <1>3, GotoInv, FinishInv DEF StartFailed
<1> QED
  BY <1>2, <1>3

LEMMA StatusType ==
  ASSUME TypeOK, NEW n, NEW s \in Status, NEW p \in 0..MaxPid,
         UpdateNodeStatus(n, s, p)
  PROVE  row' \in [Id -> Row] /\ nodes' \subseteq Id /\ lastId' \in 0..MaxNode
  BY DEF TypeOK, UpdateNodeStatus, Row

LEMMA RowType ==
  ASSUME TypeOK, NEW n, NEW r \in Row, UpdateNode(n, r)
  PROVE  row' \in [Id -> Row] /\ nodes' \subseteq Id /\ lastId' \in 0..MaxNode
  BY DEF TypeOK, UpdateNode

LEMMA InitTypeInv == Init => TypeInv
<1> SUFFICES ASSUME Init PROVE TypeInv
  OBVIOUS
<1>1. row \in [Id -> Row]
  <2>1. PICK en \in SUBSET nodes :
          row = [n \in Id |-> [BlankRow EXCEPT !.enabled = n \in en]]
    BY DEF Init
  <2>2. \A n \in Id : [BlankRow EXCEPT !.enabled = n \in en] \in Row
    <3> SUFFICES ASSUME NEW n \in Id
                 PROVE  [BlankRow EXCEPT !.enabled = n \in en] \in Row
      OBVIOUS
    <3>1. (n \in en) \in BOOLEAN
      OBVIOUS
    <3> QED
      BY Blanks, <3>1 DEF Row
  <2> QED
    BY <2>1, <2>2
<1>2. nodes \subseteq Id /\ lastId \in 0..MaxNode
  BY LifecycleAssumption DEF Init, LifecycleAssumption, Id
<1>3. 0 \in 0..MaxPid /\ 0 \in 0..MaxCrash
  BY LifecycleAssumption DEF LifecycleAssumption
<1>4. TypeOK
  BY Blanks, <1>1, <1>2, <1>3 DEF Init, TypeOK
<1>5. HandInv
  BY DEF Init, HandInv, IdleThread
<1> QED
  BY <1>4, <1>5 DEF TypeInv

\* A thread is given a whole new record.
LEMMA SetThreadInv ==
  ASSUME TypeInv, NEW t \in Thread, NEW r \in ThreadState,
         th' = [th EXCEPT ![t] = r],
         r.pc \in {"verify", "markRunning"} => r.pid # 0,
         r.pc \in {"kill", "probed"} => r.snap.pid # 0
  PROVE  ThreadInv'
  BY DEF TypeInv, TypeOK, HandInv, ThreadInv

LEMMA ReadTypeInv ==
  ASSUME TypeInv, NEW r \in Req, NEW o \in AllOps, NEW n \in Id,
         NEW l \in Label, Read(r, o, n, l),
         l \notin {"verify", "markRunning"},
         l \in {"kill", "probed"} => row[n].pid # 0
  PROVE  TypeInv'
<1> DEFINE new == [op |-> o, pc |-> l, n |-> n, snap |-> row[n], pid |-> 0]
<1>1. new \in ThreadState
  <2>1. n \in 0..MaxNode /\ 0 \in 0..MaxPid
    BY LifecycleAssumption DEF LifecycleAssumption, Id
  <2> QED
    BY <2>1 DEF ThreadState, TypeInv, TypeOK
<1>2. th' = [th EXCEPT ![r] = new]
  BY DEF Read
<1>3. r \in Thread
  BY DEF Thread
<1> HIDE DEF new
<1>4. (new.pc \in {"verify", "markRunning"} => new.pid # 0)
      /\ (new.pc \in {"kill", "probed"} => new.snap.pid # 0)
  BY DEF new
<1>5. ThreadInv'
  BY <1>1, <1>2, <1>3, <1>4, SetThreadInv
<1> QED
  BY <1>5 DEF Read, TypeInv, TypeOK, ThreadInv, db, os, ctl

LEMMA RequestTypeInv ==
  ASSUME TypeInv, NEW r \in Req, Request(r)
  PROVE  TypeInv'
<1>1. CASE CreateRequest(r)
  <2>1. PICK en \in BOOLEAN :
          LET new == [enabled |-> en, status |-> "", pid |-> 0,
                      named |-> FALSE]
          IN /\ row' = [row EXCEPT ![lastId'] = new]
             /\ th' = [th EXCEPT ![r] =
                         [op |-> "create", pc |-> "createFix", n |-> lastId',
                          snap |-> [new EXCEPT !.status = "stopped",
                                               !.named = TRUE],
                          pid |-> 0]]
    BY <1>1 DEF CreateRequest
  <2>2. 0 \in 0..MaxPid /\ lastId' \in 0..MaxNode /\ lastId' \in Id
    <3>1. lastId < MaxNode /\ lastId' = lastId + 1
      BY <1>1 DEF CreateRequest
    <3>2. lastId \in 0..MaxNode
      BY DEF TypeInv, TypeOK
    <3> QED
      BY <3>1, <3>2, LifecycleAssumption DEF LifecycleAssumption, Id
  <2>3. [enabled |-> en, status |-> "", pid |-> 0, named |-> FALSE] \in Row
    BY <2>2 DEF Row, Status
  <2> DEFINE fixed == [[enabled |-> en, status |-> "", pid |-> 0,
                        named |-> FALSE]
                         EXCEPT !.status = "stopped", !.named = TRUE]
             new == [op |-> "create", pc |-> "createFix", n |-> lastId',
                     snap |-> fixed, pid |-> 0]
  <2>4. fixed \in Row
    BY <2>2 DEF Row, Status
  <2> HIDE DEF fixed
  <2>5. new \in ThreadState /\ new.pc = "createFix"
    BY <2>2, <2>4 DEF ThreadState, AllOps, Label
  <2>6. th' = [th EXCEPT ![r] = new] /\ r \in Thread
    BY <2>1 DEF fixed, Thread
  <2> HIDE DEF new
  <2>7. ThreadInv'
    BY <2>5, <2>6, SetThreadInv
  <2>8. row' \in [Id -> Row] /\ nodes' \subseteq Id
    BY <1>1, <2>1, <2>2, <2>3 DEF CreateRequest, TypeInv, TypeOK
  <2> QED
    BY <1>1, <2>2, <2>7, <2>8
    DEF CreateRequest, TypeInv, TypeOK, ThreadInv, os, ctl
<1>2. ASSUME NEW n \in Id,
             \/ StartRequest(r, n) \/ StopRequest(r, n)
             \/ RestartRequest(r, n) \/ DeleteRequest(r, n)
             \/ UpdateRequest(r, n) \/ StatusRequest(r, n)
      PROVE  TypeInv'
  <2>1. {"check", "kill", "reget", "deleteRow", "write", "probed"}
          \subseteq Label
        /\ {"start", "stop", "restart", "delete", "update", "status"}
          \subseteq AllOps
    BY DEF Label, AllOps
  <2> QED
    BY <1>2, <2>1, ReadTypeInv
    DEF StartRequest, StopRequest, RestartRequest, DeleteRequest,
        UpdateRequest, StatusRequest
<1> QED
  BY <1>1, <1>2 DEF Request

LEMMA StartStepTypeInv ==
  ASSUME TypeInv, NEW t \in Thread, StartStep(t)
  PROVE  TypeInv'
<1> USE DEF TypeInv, db, os, ctl
<1>1. {"markStarting", "spawn", "verify", "markRunning", "markError", "route",
       "routeLoop"} \subseteq Label
      /\ {"starting", "error", "running"} \subseteq Status /\ 0 \in 0..MaxPid
  BY LifecycleAssumption DEF LifecycleAssumption, Label, Status
<1>2. th[t].pid \in 0..MaxPid
  BY DEF TypeOK, ThreadState
<1>3. CASE Check(t)
  <2>1. ThreadInv'
    BY <1>1, <1>3, StartReturnInv, FreshInv DEF Check
  <2> QED
    BY <1>3, <2>1 DEF Check, ThreadInv, TypeOK
<1>4. CASE MarkStarting(t)
  <2>1. ThreadInv'
    BY <1>1, <1>4, StartReturnInv, GotoInv DEF MarkStarting
  <2>2. row' \in [Id -> Row] /\ nodes' \subseteq Id /\ lastId' \in 0..MaxNode
    BY <1>1, <1>4, StatusType DEF MarkStarting
  <2> QED
    BY <1>4, <2>1, <2>2 DEF MarkStarting, ThreadInv, TypeOK
<1>5. CASE Spawn(t)
  <2>1. lastPid' \in 0..MaxPid /\ lastPid' # 0 /\ lastPid' \in Pid
    <3>1. lastPid < MaxPid /\ lastPid' = lastPid + 1 /\ lastPid \in 0..MaxPid
      BY <1>5 DEF Spawn, TypeOK
    <3> QED
      BY <3>1, LifecycleAssumption DEF LifecycleAssumption, Pid
  <2>2. th' \in [Thread -> ThreadState]
    <3>1. PICK s : s = [th[t] EXCEPT !.pc = "verify", !.pid = lastPid']
      OBVIOUS
    <3>2. th[t] \in ThreadState /\ "verify" \in Label
      BY <1>1 DEF TypeOK
    <3>3. s \in ThreadState
      BY ONLY <2>1, <3>1, <3>2 DEF ThreadState
    <3>4. th' = [th EXCEPT ![t] = s]
      BY <1>5, <3>1 DEF Spawn
    <3> QED
      BY <3>3, <3>4 DEF TypeOK
  <2>3. HandInv'
    BY <1>5, <2>1 DEF Spawn, TypeOK, HandInv, ThreadState
  <2>4. th[t].n \in 0..MaxNode
    BY DEF TypeOK, ThreadState
  <2>5. [state |-> "live", owner |-> th[t].n, child |-> TRUE] \in Process
    BY <2>4 DEF Process
  <2>6. proc' \in [Pid -> Process]
    BY <1>5, <2>5 DEF Spawn, TypeOK
  <2> QED
    BY <1>5, <2>1, <2>2, <2>3, <2>6 DEF Spawn, TypeOK
<1>6. CASE SpawnFails(t)
  <2>1. ThreadInv'
    BY <1>1, <1>6, GotoInv DEF SpawnFails
  <2> QED
    BY <1>6, <2>1 DEF SpawnFails, ThreadInv, TypeOK
<1>7. CASE Verify(t)
  <2>1. th[t].pid # 0
    BY <1>7 DEF Verify, HandInv
  <2>2. ThreadInv'
    BY <1>1, <1>7, <2>1, GotoInv DEF Verify
  <2> QED
    BY <1>7, <2>2 DEF Verify, ThreadInv, TypeOK
<1>8. CASE MarkError(t)
  <2>1. ThreadInv'
    BY <1>8, StartReturnInv DEF MarkError
  <2>2. row' \in [Id -> Row] /\ nodes' \subseteq Id /\ lastId' \in 0..MaxNode
    BY <1>1, <1>8, StatusType DEF MarkError
  <2> QED
    BY <1>8, <2>1, <2>2 DEF MarkError, ThreadInv, TypeOK
<1>9. CASE MarkRunning(t)
  <2>1. ThreadInv'
    BY <1>9, StartReturnInv DEF MarkRunning
  <2>2. row' \in [Id -> Row] /\ nodes' \subseteq Id /\ lastId' \in 0..MaxNode
    BY <1>1, <1>2, <1>9, StatusType DEF MarkRunning
  <2> QED
    BY <1>9, <2>1, <2>2 DEF MarkRunning, ThreadInv, TypeOK
<1>10. CASE AddTableRoute(t)
  <2>1. ThreadInv'
    BY <1>1, <1>10, GotoInv, FinishInv DEF AddTableRoute
  <2>2. Pid \subseteq 0..MaxPid
    BY LifecycleAssumption DEF LifecycleAssumption, Pid
  <2>3. via' \in [Id -> 0..MaxPid]
    BY <1>10, <2>2 DEF AddTableRoute, TypeOK
  <2> QED
    BY <1>10, <2>1, <2>3 DEF AddTableRoute, ThreadInv, TypeOK
<1> QED
  BY <1>3, <1>4, <1>5, <1>6, <1>7, <1>8, <1>9, <1>10 DEF StartStep

LEMMA HandlerStepTypeInv ==
  ASSUME TypeInv, NEW t \in Req, HandlerStep(t)
  PROVE  TypeInv'
<1> USE DEF TypeInv, db, os, ctl
<1>1. {"route", "markStopped", "deleteRow", "reget", "check", "markRunning",
       "markError"} \subseteq Label
      /\ "stopped" \in Status /\ 0 \in 0..MaxPid
  BY LifecycleAssumption DEF LifecycleAssumption, Label, Status
<1>2. t \in Thread /\ th[t] \in ThreadState
  BY DEF Thread, TypeOK
<1>3. th[t].snap \in Row /\ th[t].snap.pid \in 0..MaxPid
      /\ th[t].n \in 0..MaxNode
  BY <1>2 DEF ThreadState, Row
<1>4. CASE StartStep(t)
  BY <1>2, <1>4, StartStepTypeInv
<1>5. CASE Reread(t)
  <2>1. ThreadInv'
    BY <1>1, <1>2, <1>5, GotoInv, FinishInv DEF Reread
  <2> QED
    BY <1>5, <2>1 DEF Reread, ThreadInv, TypeOK
<1>6. CASE CreateFix(t)
  <2>1. ThreadInv'
    BY <1>2, <1>6, FinishInv DEF CreateFix
  <2>2. row' \in [Id -> Row] /\ nodes' \subseteq Id /\ lastId' \in 0..MaxNode
    BY <1>3, <1>6, RowType DEF CreateFix
  <2> QED
    BY <1>6, <2>1, <2>2 DEF CreateFix, ThreadInv, TypeOK
<1>7. CASE Kill(t)
  <2>1. ThreadInv'
    BY <1>1, <1>2, <1>7, FreshInv DEF Kill
  <2>2. proc' \in [Pid -> Process]
    <3>1. \A p \in Pid : [proc[p] EXCEPT !.state = "term"] \in Process
      BY DEF TypeOK, Process
    <3>2. \/ proc' = proc
          \/ \E p : proc' = [proc EXCEPT ![p] =
                                [proc[p] EXCEPT !.state = "term"]]
      BY <1>7 DEF Kill
    <3> QED
      BY <3>1, <3>2 DEF TypeOK
  <2> QED
    BY <1>7, <2>1, <2>2 DEF Kill, ThreadInv, TypeOK
<1>8. CASE MarkStopped(t)
  <2>1. ThreadInv'
    BY <1>1, <1>2, <1>8, GotoInv, FinishInv DEF MarkStopped
  <2>2. row' \in [Id -> Row] /\ nodes' \subseteq Id /\ lastId' \in 0..MaxNode
    BY <1>1, <1>8, StatusType DEF MarkStopped
  <2> QED
    BY <1>8, <2>1, <2>2 DEF MarkStopped, ThreadInv, TypeOK
<1>9. CASE Reget(t)
  <2>1. CASE th[t].n \in nodes
    <3>1. th' = [th EXCEPT ![t].op = "start", ![t].pc = "check",
                           ![t].snap = row[th[t].n]]
      BY <1>9, <2>1 DEF Reget
    <3>2. row[th[t].n] \in Row
      BY <2>1 DEF TypeOK
    <3>3. "start" \in AllOps
      BY DEF AllOps
    <3>4. th' \in [Thread -> ThreadState]
      <4>1. PICK s : s = [th[t] EXCEPT !.op = "start", !.pc = "check",
                                       !.snap = row[th[t].n]]
        OBVIOUS
      <4>2. s \in ThreadState
        BY ONLY <1>1, <1>2, <3>2, <3>3, <4>1 DEF ThreadState
      <4>3. th' = [th EXCEPT ![t] = s]
        BY <3>1, <4>1
      <4> QED
        BY <4>2, <4>3 DEF TypeOK
    <3>5. HandInv'
      BY <3>1 DEF TypeOK, HandInv, ThreadState
    <3> QED
      BY <1>9, <3>4, <3>5 DEF Reget, TypeOK
  <2>2. CASE th[t].n \notin nodes
    BY <1>2, <1>9, <2>2, FinishInv DEF Reget, ThreadInv, TypeOK
  <2> QED
    BY <2>1, <2>2
<1>10. CASE DeleteRow(t)
  <2>1. ThreadInv'
    BY <1>2, <1>10, FinishInv DEF DeleteRow
  <2>2. row' \in [Id -> Row] /\ nodes' \subseteq Id
    BY <1>10, Blanks DEF DeleteRow, TypeOK
  <2> QED
    BY <1>10, <2>1, <2>2 DEF DeleteRow, ThreadInv, TypeOK
<1>11. CASE WriteRow(t)
  <2>1. ThreadInv'
    BY <1>2, <1>11, FinishInv DEF WriteRow
  <2>2. PICK en \in {th[t].snap.enabled, TRUE} :
          UpdateNode(th[t].n, [th[t].snap EXCEPT !.enabled = en])
    BY <1>11 DEF WriteRow
  <2>3. [th[t].snap EXCEPT !.enabled = en] \in Row
    BY <1>3 DEF Row
  <2>4. row' \in [Id -> Row] /\ nodes' \subseteq Id /\ lastId' \in 0..MaxNode
    BY <2>2, <2>3, RowType
  <2> QED
    BY <1>11, <2>1, <2>4 DEF WriteRow, ThreadInv, TypeOK
<1>12. CASE Probe(t)
  <2>1. th[t].snap.pid # 0
    BY <1>2, <1>12 DEF Probe, HandInv
  <2>2. CASE Finish(t)
    BY <1>2, <1>12, <2>2, FinishInv DEF Probe, ThreadInv, TypeOK
  <2>3. ASSUME NEW l \in {"markRunning", "markError"},
               th' = [th EXCEPT ![t].pc = l, ![t].pid = th[t].snap.pid]
        PROVE  TypeInv'
    <3>1. th' \in [Thread -> ThreadState]
      <4>1. PICK s : s = [th[t] EXCEPT !.pc = l, !.pid = th[t].snap.pid]
        OBVIOUS
      <4>2. s \in ThreadState
        BY ONLY <1>1, <1>2, <1>3, <2>3, <4>1 DEF ThreadState
      <4>3. th' = [th EXCEPT ![t] = s]
        BY <2>3, <4>1
      <4> QED
        BY <4>2, <4>3 DEF TypeOK
    <3>2. HandInv'
      BY <2>1, <2>3 DEF TypeOK, HandInv, ThreadState
    <3> QED
      BY <1>12, <3>1, <3>2 DEF Probe, TypeOK
  <2> QED
    BY <1>12, <2>2, <2>3 DEF Probe
<1> QED
  BY <1>4, <1>5, <1>6, <1>7, <1>8, <1>9, <1>10, <1>11, <1>12 DEF HandlerStep

LEMMA MainStepTypeInv ==
  ASSUME TypeInv, MainStep
  PROVE  TypeInv'
<1> USE DEF TypeInv, db, os, ctl
<1>1. {"recLoop", "routeLoop", "route", "check", "markRunning"} \subseteq Label
      /\ "error" \in Status /\ 0 \in 0..MaxPid /\ Main \in Thread
  BY LifecycleAssumption DEF LifecycleAssumption, Label, Status, Thread
<1>2. CASE StartStep(Main)
  BY <1>1, <1>2, StartStepTypeInv
<1>3. CASE RecoverNext
  <2>1. PICK n \in todo :
          /\ todo' = todo \ {n}
          /\ th' = [th EXCEPT ![Main] =
                     [op |-> "recover", n |-> n, snap |-> row[n],
                      pc |-> IF IsProcessRunning(row[n].pid)
                             THEN "markRunning" ELSE "check",
                      pid |-> IF IsProcessRunning(row[n].pid)
                              THEN row[n].pid ELSE 0]]
    BY <1>3 DEF RecoverNext
  <2> DEFINE up == IsProcessRunning(row[n].pid)
             new == [op |-> "recover", n |-> n, snap |-> row[n],
                     pc |-> IF up THEN "markRunning" ELSE "check",
                     pid |-> IF up THEN row[n].pid ELSE 0]
  <2>2. up => row[n].pid # 0
    BY DEF IsProcessRunning
  <2>3. row[n] \in Row /\ n \in 0..MaxNode /\ row[n].pid \in 0..MaxPid
    BY LifecycleAssumption DEF LifecycleAssumption, TypeOK, Id, Row
  <2> HIDE DEF up
  <2>4. new \in ThreadState
    BY <1>1, <2>3 DEF ThreadState
  <2>5. (new.pc \in {"verify", "markRunning"} => new.pid # 0)
        /\ new.pc \notin {"kill", "probed"}
    BY <2>2
  <2>6. th' = [th EXCEPT ![Main] = new]
    BY <2>1 DEF up
  <2> HIDE DEF new
  <2>7. ThreadInv'
    BY <1>1, <2>4, <2>5, <2>6, SetThreadInv
  <2> QED
    BY <1>3, <2>1, <2>7 DEF RecoverNext, ThreadInv, TypeOK
<1>4. CASE RecoverError
  <2>1. ThreadInv'
    BY <1>1, <1>4, FreshInv DEF RecoverError
  <2>2. row' \in [Id -> Row] /\ nodes' \subseteq Id /\ lastId' \in 0..MaxNode
    BY <1>1, <1>4, StatusType DEF RecoverError
  <2> QED
    BY <1>4, <2>1, <2>2 DEF RecoverError, ThreadInv, TypeOK
<1>5. CASE RecoverEnd
  <2>1. ThreadInv'
    BY <1>1, <1>5, GotoInv DEF RecoverEnd
  <2> QED
    BY <1>5, <2>1 DEF RecoverEnd, ThreadInv, TypeOK, EnabledNodes
<1>6. CASE RouteNext
  <2>1. PICK n \in todo :
          /\ todo' = todo \ {n}
          /\ th' = [th EXCEPT ![Main] = [IdleThread EXCEPT
                     !.op = "recover", !.pc = "route", !.n = n]]
    BY <1>6 DEF RouteNext
  <2> DEFINE new == [IdleThread EXCEPT
                       !.op = "recover", !.pc = "route", !.n = n]
  <2>2. n \in 0..MaxNode
    BY LifecycleAssumption DEF LifecycleAssumption, TypeOK, Id
  <2>3. new \in ThreadState /\ new.pc = "route"
    BY <1>1, <2>2, Blanks DEF ThreadState, IdleThread
  <2>4. th' = [th EXCEPT ![Main] = new]
    BY <2>1
  <2> HIDE DEF new
  <2>5. ThreadInv'
    BY <1>1, <2>3, <2>4, SetThreadInv
  <2> QED
    BY <1>6, <2>1, <2>5 DEF RouteNext, ThreadInv, TypeOK
<1>7. CASE Serve
  <2>1. ThreadInv'
    BY <1>1, <1>7, FinishInv DEF Serve
  <2> QED
    BY <1>7, <2>1 DEF Serve, ThreadInv, TypeOK
<1> QED
  BY <1>2, <1>3, <1>4, <1>5, <1>6, <1>7 DEF MainStep

LEMMA HostTypeInv ==
  ASSUME TypeInv, Boot \/ Crash \/ (\E p \in Pid : ProcExit(p))
  PROVE  TypeInv'
<1> USE DEF TypeInv, db, os, ctl
<1>1. "recLoop" \in Label /\ Main \in Thread
  BY DEF Label, Thread
<1>2. CASE Boot
  <2> DEFINE new == [IdleThread EXCEPT !.op = "recover", !.pc = "recLoop"]
  <2>1. new \in ThreadState /\ new.pc = "recLoop"
    BY <1>1, Blanks DEF ThreadState, IdleThread
  <2>2. th' = [th EXCEPT ![Main] = new]
    BY <1>2 DEF Boot
  <2> HIDE DEF new
  <2>3. ThreadInv'
    BY <1>1, <2>1, <2>2, SetThreadInv
  <2> QED
    BY <1>2, <2>3 DEF Boot, ThreadInv, TypeOK, EnabledNodes
<1>3. CASE Crash
  <2>1. crashes' \in 0..MaxCrash
    <3>1. /\ crashes < MaxCrash /\ crashes' = crashes + 1
          /\ crashes \in 0..MaxCrash
      BY <1>3 DEF Crash, TypeOK
    <3> QED
      BY <3>1, LifecycleAssumption DEF LifecycleAssumption
  <2>2. lost' \subseteq Pid
    <3>1. \A t \in Thread : th[t].pid \in 0..MaxPid
      BY DEF TypeOK, ThreadState
    <3>2. \A t \in Thread :
            th[t].pc \in {"verify", "markRunning"} => th[t].pid \in Pid
      BY <3>1, LifecycleAssumption DEF LifecycleAssumption, HandInv, Pid
    <3>3. \A p \in lost' :
            \/ p \in lost
            \/ \E t \in Thread :
                 th[t].pc \in {"verify", "markRunning"} /\ p = th[t].pid
      BY <1>3 DEF Crash
    <3> QED
      BY <3>2, <3>3 DEF TypeOK
  <2>3. proc' \in [Pid -> Process]
    BY <1>3 DEF Crash, TypeOK, Process
  <2>4. th' \in [Thread -> ThreadState] /\ HandInv'
    BY <1>3, Blanks DEF Crash, HandInv, IdleThread
  <2> QED
    BY <1>3, <2>1, <2>2, <2>3, <2>4 DEF Crash, TypeOK
<1>4. ASSUME NEW p \in Pid, ProcExit(p)
      PROVE  TypeInv'
  <2>1. proc' \in [Pid -> Process]
    BY <1>4 DEF ProcExit, TypeOK, Process
  <2>2. 0 \in 0..MaxPid
    BY LifecycleAssumption DEF LifecycleAssumption
  <2>3. via' \in [Id -> 0..MaxPid]
    BY <1>4, <2>2 DEF ProcExit, TypeOK
  <2> QED
    BY <1>4, <2>1, <2>3 DEF ProcExit, TypeOK, HandInv
<1> QED
  BY <1>2, <1>3, <1>4

LEMMA NextTypeInv == TypeInv /\ [Next]_vars => TypeInv'
<1>1. TypeInv /\ Next => TypeInv'
  BY RequestTypeInv, HandlerStepTypeInv, MainStepTypeInv, HostTypeInv DEF Next
<1>2. TypeInv /\ UNCHANGED vars => TypeInv'
  BY DEF TypeInv, TypeOK, HandInv, vars
<1> QED
  BY <1>1, <1>2

\* The types, and that a thread about to use a pid holds one (StartNode after
\* the fork, StopNode and GetNodeStatus after their test for a pid).
THEOREM TypesHold == Spec => []TypeInv
<1> QED
  BY InitTypeInv, NextTypeInv, PTL DEF Spec

\* Every variable keeps its type, whatever requests run together.
THEOREM TypeCorrect == Spec => []TypeOK
<1>1. TypeInv => TypeOK
  BY DEF TypeInv
<1> QED
  BY <1>1, TypesHold, PTL

-----------------------------------------------------------------------------
(* Rows and processes.  What the code passes around are whole rows, read at  *)
(* one time and written at another, and pids held in locals.  The invariant  *)
(* says that all of them, the copies in the threads included, carry a pid of *)
(* a process started for their own node, and a status that fits it.          *)

Owned(n) == {0} \cup {p \in 1..lastPid : proc[p].owner = n}

GoodRow(n, r) == r.pid \in Owned(n) /\ (r.status = "running" <=> r.pid # 0)

GoodThread(r) == GoodRow(r.n, r.snap) /\ r.pid \in Owned(r.n)

RecordInv ==
  /\ TypeInv
  /\ \A n \in Id : GoodRow(n, row[n])
  /\ \A t \in Thread : GoodThread(th[t])

\* What a step leaves in the rows and the threads, judged by the processes
\* there were before it.
GoodRows == \A n \in Id : GoodRow(n, row'[n])

GoodThreads == \A t \in Thread : GoodThread(th'[t])

\* A process keeps its owner as long as the host is up.
LEMMA OwnedGrows ==
  ASSUME TypeInv, Next
  PROVE  \A n : Owned(n) \subseteq Owned(n)'
<1> SUFFICES /\ lastPid \in Nat /\ lastPid' \in Nat /\ lastPid <= lastPid'
             /\ \A p \in 1..lastPid : proc'[p].owner = proc[p].owner
  BY DEF Owned
<1> USE DEF TypeInv, os
<1>1. lastPid \in 0..MaxPid /\ MaxPid \in Nat /\ proc \in [Pid -> Process]
  BY LifecycleAssumption DEF LifecycleAssumption, TypeOK
<1>2. \A p \in 1..lastPid : p \in Pid
  BY <1>1 DEF Pid
<1>3. CASE UNCHANGED <<proc, lastPid>>
  BY <1>1, <1>3
<1>4. ASSUME NEW t \in Thread, Spawn(t)
      PROVE  /\ lastPid' = lastPid + 1
             /\ \A p \in 1..lastPid : proc'[p].owner = proc[p].owner
  BY <1>1, <1>2, <1>4 DEF Spawn
<1>5. ASSUME NEW t \in Thread, Kill(t)
      PROVE  /\ lastPid' = lastPid
             /\ \A p \in 1..lastPid : proc'[p].owner = proc[p].owner
  BY <1>1, <1>2, <1>5 DEF Kill, Process
<1>6. ASSUME Crash
      PROVE  /\ lastPid' = lastPid
             /\ \A p \in 1..lastPid : proc'[p].owner = proc[p].owner
  <2>1. \A p \in Pid : proc'[p].owner = proc[p].owner
    BY <1>1, <1>6 DEF Crash, Process
  <2> QED
    BY <1>2, <1>6, <2>1 DEF Crash
<1>7. ASSUME NEW p \in Pid, ProcExit(p)
      PROVE  /\ lastPid' = lastPid
             /\ \A q \in 1..lastPid : proc'[q].owner = proc[q].owner
  BY <1>1, <1>2, <1>7 DEF ProcExit, Process
<1>8. Req \subseteq Thread /\ Main \in Thread
  BY DEF Thread
<1>9. ASSUME NEW t \in Thread, StartStep(t)
      PROVE  UNCHANGED <<proc, lastPid>> \/ Spawn(t)
  BY <1>9 DEF StartStep, Check, MarkStarting, SpawnFails, Verify, MarkError,
              MarkRunning, AddTableRoute
<1>10. ASSUME NEW t \in Req, HandlerStep(t)
       PROVE  UNCHANGED <<proc, lastPid>> \/ Spawn(t) \/ Kill(t)
  BY <1>8, <1>9, <1>10
  DEF HandlerStep, Reread, CreateFix, MarkStopped, Reget, DeleteRow, WriteRow,
      Probe
<1>11. ASSUME MainStep
       PROVE  UNCHANGED <<proc, lastPid>> \/ Spawn(Main)
  BY <1>8, <1>9, <1>11
  DEF MainStep, RecoverNext, RecoverError, RecoverEnd, RouteNext, Serve
<1>12. ASSUME NEW r \in Req, Request(r)
       PROVE  UNCHANGED <<proc, lastPid>>
  BY <1>12
  DEF Request, CreateRequest, StartRequest, StopRequest, RestartRequest,
      DeleteRequest, UpdateRequest, StatusRequest, Read
<1>13. CASE Boot
  BY <1>3, <1>13 DEF Boot
<1>14. lastPid + 1 \in Nat /\ lastPid <= lastPid + 1 /\ lastPid \in Nat
  BY <1>1
<1> QED
  BY <1>3, <1>4, <1>5, <1>6, <1>7, <1>8, <1>10, <1>11, <1>12, <1>13, <1>14
  DEF Next

LEMMA RecordCarried ==
  ASSUME TypeInv', GoodRows, GoodThreads,
         \A n : Owned(n) \subseteq Owned(n)'
  PROVE  RecordInv'
  BY DEF RecordInv, GoodRows, GoodThreads, GoodRow, GoodThread

\* The helpers of the steps.
LEMMA BlankGood ==
  ASSUME NEW n
  PROVE  GoodRow(n, BlankRow) /\ 0 \in Owned(n) /\ GoodThread(IdleThread)
  BY DEF GoodRow, GoodThread, BlankRow, IdleThread, Owned

LEMMA SetThreadGood ==
  ASSUME RecordInv, NEW t \in Thread, NEW r, GoodThread(r),
         th' = [th EXCEPT ![t] = r]
  PROVE  GoodThreads
  BY DEF RecordInv, TypeInv, TypeOK, GoodThreads

LEMMA GotoGood ==
  ASSUME RecordInv, NEW t \in Thread, NEW l, Goto(t, l)
  PROVE  GoodThreads
<1>1. th \in [Thread -> ThreadState]
  BY DEF RecordInv, TypeInv, TypeOK
<1>2. \A u \in Thread : /\ th'[u].n = th[u].n /\ th'[u].snap = th[u].snap
                        /\ th'[u].pid = th[u].pid
  BY <1>1 DEF Goto, ThreadState
<1> QED
  BY <1>2 DEF RecordInv, GoodThreads, GoodThread

LEMMA FreshGood ==
  ASSUME RecordInv, NEW t \in Thread, NEW l, Fresh(t, l)
  PROVE  GoodThreads
<1>1. th \in [Thread -> ThreadState]
  BY DEF RecordInv, TypeInv, TypeOK
<1>2. \A u \in Thread \ {t} : th'[u] = th[u]
  BY <1>1 DEF Fresh
<1>3. th'[t].n = th[t].n /\ th'[t].snap = BlankRow /\ th'[t].pid = 0
  BY <1>1 DEF Fresh, ThreadState
<1> QED
  BY <1>2, <1>3, BlankGood DEF RecordInv, GoodThreads, GoodThread

LEMMA FinishGood ==
  ASSUME RecordInv, NEW t \in Thread, Finish(t)
  PROVE  GoodThreads
  BY SetThreadGood, BlankGood DEF Finish

LEMMA StartReturnGood ==
  ASSUME RecordInv, NEW t \in Thread, StartDone(t) \/ StartFailed(t)
  PROVE  GoodThreads
  BY GotoGood, FreshGood, FinishGood DEF StartDone, StartFailed

LEMMA StatusGood ==
  ASSUME RecordInv, NEW n, NEW s, NEW p \in Owned(n), s = "running" <=> p # 0,
         UpdateNodeStatus(n, s, p)
  PROVE  GoodRows
<1>1. row \in [Id -> Row] /\ nodes \subseteq Id
  BY DEF RecordInv, TypeInv, TypeOK
<1>2. CASE n \in nodes
  <2>1. row' = [row EXCEPT ![n].status = s, ![n].pid = p]
    BY <1>2 DEF UpdateNodeStatus
  <2>2. \A m \in Id \ {n} : row'[m] = row[m]
    BY <1>1, <2>1
  <2>3. row'[n].status = s /\ row'[n].pid = p
    BY <1>1, <1>2, <2>1 DEF Row
  <2> QED
    BY <2>2, <2>3 DEF RecordInv, GoodRows, GoodRow
<1>3. CASE n \notin nodes
  BY <1>3 DEF UpdateNodeStatus, RecordInv, GoodRows
<1> QED
  BY <1>2, <1>3

LEMMA RowGood ==
  ASSUME RecordInv, NEW n, NEW r, GoodRow(n, r), UpdateNode(n, r)
  PROVE  GoodRows
  BY DEF UpdateNode, RecordInv, TypeInv, TypeOK, GoodRows

\* A thread hands on only what it has read for its own node.
LEMMA RequestGood ==
  ASSUME RecordInv, NEW r \in Req, Request(r)
  PROVE  GoodRows /\ GoodThreads
<1>1. r \in Thread /\ row \in [Id -> Row]
  BY DEF Thread, RecordInv, TypeInv, TypeOK
<1>2. CASE CreateRequest(r)
  <2>1. PICK en \in BOOLEAN :
          LET new == [enabled |-> en, status |-> "", pid |-> 0,
                      named |-> FALSE]
          IN /\ row' = [row EXCEPT ![lastId'] = new]
             /\ th' = [th EXCEPT ![r] =
                         [op |-> "create", pc |-> "createFix", n |-> lastId',
                          snap |-> [new EXCEPT !.status = "stopped",
                                               !.named = TRUE],
                          pid |-> 0]]
    BY <1>2 DEF CreateRequest
  <2> DEFINE new == [enabled |-> en, status |-> "", pid |-> 0, named |-> FALSE]
             fixed == [new EXCEPT !.status = "stopped", !.named = TRUE]
             rec == [op |-> "create", pc |-> "createFix", n |-> lastId',
                     snap |-> fixed, pid |-> 0]
  <2>2. \A m : GoodRow(m, new) /\ GoodRow(m, fixed)
    BY BlankGood DEF GoodRow
  <2> HIDE DEF fixed
  <2>3. GoodThread(rec)
    BY <2>2, BlankGood DEF GoodThread
  <2>4. th' = [th EXCEPT ![r] = rec] /\ row' = [row EXCEPT ![lastId'] = new]
    BY <2>1 DEF fixed
  <2> HIDE DEF rec, new
  <2>5. GoodThreads
    BY <1>1, <2>3, <2>4, SetThreadGood
  <2>6. GoodRows
    BY <1>1, <2>2, <2>4 DEF RecordInv, GoodRows
  <2> QED
    BY <2>5, <2>6
<1>3. ASSUME NEW n \in Id, NEW o, NEW l, Read(r, o, n, l)
      PROVE  GoodRows /\ GoodThreads
  <2> DEFINE rec == [op |-> o, pc |-> l, n |-> n, snap |-> row[n], pid |-> 0]
  <2>1. GoodThread(rec)
    BY BlankGood DEF RecordInv, GoodThread
  <2>2. th' = [th EXCEPT ![r] = rec] /\ row' = row
    BY <1>3 DEF Read, db
  <2> HIDE DEF rec
  <2> QED
    BY <1>1, <2>1, <2>2, SetThreadGood DEF RecordInv, GoodRows
<1> QED
  BY <1>2, <1>3
  DEF Request, StartRequest, StopRequest, RestartRequest, DeleteRequest,
      UpdateRequest, StatusRequest

\* Only Spawn makes a pid that no process had before.
LEMMA SpawnGood ==
  ASSUME RecordInv, NEW t \in Thread, Spawn(t), TypeInv',
         \A n : Owned(n) \subseteq Owned(n)'
  PROVE  RecordInv'
<1>1. /\ th \in [Thread -> ThreadState] /\ proc \in [Pid -> Process]
      /\ lastPid \in Nat
  BY LifecycleAssumption
  DEF LifecycleAssumption, RecordInv, TypeInv, TypeOK
<1>2. /\ lastPid' = lastPid + 1 /\ lastPid' \in Pid
      /\ proc' = [proc EXCEPT ![lastPid'] = [state |-> "live",
                                            owner |-> th[t].n, child |-> TRUE]]
  <2>1. lastPid < MaxPid /\ lastPid' = lastPid + 1
    BY DEF Spawn
  <2> QED
    BY <1>1, <2>1, LifecycleAssumption DEF LifecycleAssumption, Pid, Spawn
<1>3. proc'[lastPid'].owner = th[t].n
  BY <1>1, <1>2
<1>4. lastPid' \in Owned(th[t].n)'
  <2>1. lastPid' \in 1..lastPid'
    BY <1>1, <1>2
  <2>2. th'[t].n = th[t].n
    BY <1>1 DEF Spawn, ThreadState
  <2> QED
    BY <1>3, <2>1, <2>2 DEF Owned
<1>5. GoodThread(th[t])' /\ \A u \in Thread \ {t} : th'[u] = th[u]
  <2>1. /\ th'[t].n = th[t].n /\ th'[t].snap = th[t].snap
        /\ th'[t].pid = lastPid'
    BY <1>1 DEF Spawn, ThreadState
  <2>2. GoodRow(th[t].n, th[t].snap)'
    BY <2>1 DEF RecordInv, GoodThread, GoodRow
  <2>3. \A u \in Thread \ {t} : th'[u] = th[u]
    BY <1>1 DEF Spawn
  <2> QED
    BY <1>4, <2>1, <2>2, <2>3 DEF GoodThread
<1>6. \A u \in Thread : GoodThread(th[u])'
  BY <1>5 DEF RecordInv, GoodThread, GoodRow
<1>7. \A n \in Id : GoodRow(n, row[n])'
  BY DEF Spawn, db, RecordInv, GoodRow
<1> QED
  BY <1>6, <1>7 DEF RecordInv

LEMMA StartStepGood ==
  ASSUME RecordInv, NEW t \in Thread, StartStep(t), ~Spawn(t)
  PROVE  GoodRows /\ GoodThreads
<1>1. UNCHANGED row => GoodRows
  BY DEF RecordInv, GoodRows
<1>2. 0 \in Owned(th[t].n) /\ th[t].pid \in Owned(th[t].n)
  BY BlankGood DEF RecordInv, GoodThread
<1>3. CASE Check(t)
  BY <1>1, <1>3, StartReturnGood, FreshGood DEF Check, db
<1>4. CASE MarkStarting(t)
  BY <1>2, <1>4, StatusGood, StartReturnGood, GotoGood DEF MarkStarting
<1>5. CASE SpawnFails(t) \/ Verify(t)
  BY <1>1, <1>5, GotoGood DEF SpawnFails, Verify, db
<1>6. CASE MarkError(t)
  BY <1>2, <1>6, StatusGood, StartReturnGood DEF MarkError
<1>7. CASE MarkRunning(t)
  <2>1. th[t].pid # 0
    BY <1>7 DEF MarkRunning, RecordInv, TypeInv, HandInv
  <2> QED
    BY <1>2, <1>7, <2>1, StatusGood, StartReturnGood DEF MarkRunning
<1>8. CASE AddTableRoute(t)
  BY <1>1, <1>8, GotoGood, FinishGood DEF AddTableRoute, db
<1> QED
  BY <1>3, <1>4, <1>5, <1>6, <1>7, <1>8 DEF StartStep

LEMMA HandlerStepGood ==
  ASSUME RecordInv, NEW t \in Req, HandlerStep(t), ~Spawn(t)
  PROVE  GoodRows /\ GoodThreads
<1>1. UNCHANGED row => GoodRows
  BY DEF RecordInv, GoodRows
<1>2. t \in Thread /\ th \in [Thread -> ThreadState]
  BY DEF Thread, RecordInv, TypeInv, TypeOK
<1>3. /\ 0 \in Owned(th[t].n) /\ th[t].snap.pid \in Owned(th[t].n)
      /\ GoodRow(th[t].n, th[t].snap)
  BY <1>2, BlankGood DEF RecordInv, GoodThread, GoodRow
<1>4. CASE StartStep(t)
  BY <1>2, <1>4, StartStepGood
<1>5. CASE Reread(t)
  BY <1>1, <1>2, <1>5, GotoGood, FinishGood DEF Reread, db
<1>6. CASE CreateFix(t)
  BY <1>2, <1>3, <1>6, RowGood, FinishGood DEF CreateFix
<1>7. CASE Kill(t)
  BY <1>1, <1>2, <1>7, FreshGood DEF Kill, db
<1>8. CASE MarkStopped(t)
  BY <1>2, <1>3, <1>8, StatusGood, GotoGood, FinishGood DEF MarkStopped
<1>9. CASE Reget(t)
  <2>1. CASE th[t].n \in nodes
    <3> DEFINE n == th[t].n
    <3>1. th' = [th EXCEPT ![t].op = "start", ![t].pc = "check",
                           ![t].snap = row[n]]
      BY <1>9, <2>1 DEF Reget
    <3>2. GoodRow(n, row[n])
      BY <2>1 DEF RecordInv, TypeInv, TypeOK
    <3>3. \A u \in Thread \ {t} : th'[u] = th[u]
      BY <1>2, <3>1
    <3>4. th'[t].n = n /\ th'[t].pid = th[t].pid /\ th'[t].snap = row[n]
      BY <1>2, <3>1 DEF ThreadState
    <3>5. GoodThreads
      BY <1>2, <3>2, <3>3, <3>4 DEF RecordInv, GoodThreads, GoodThread
    <3> QED
      BY <1>1, <1>9, <3>5 DEF Reget, db
  <2>2. CASE th[t].n \notin nodes
    BY <1>1, <1>2, <1>9, <2>2, FinishGood DEF Reget, db
  <2> QED
    BY <2>1, <2>2
<1>10. CASE DeleteRow(t)
  <2>1. GoodRows
    BY <1>10, BlankGood DEF DeleteRow, GoodRows, RecordInv, TypeInv, TypeOK
  <2> QED
    BY <1>2, <1>10, <2>1, FinishGood DEF DeleteRow
<1>11. CASE WriteRow(t)
  <2>1. PICK en \in {th[t].snap.enabled, TRUE} :
          UpdateNode(th[t].n, [th[t].snap EXCEPT !.enabled = en])
    BY <1>11 DEF WriteRow
  <2>2. th[t].snap \in Row
    BY <1>2 DEF ThreadState
  <2>3. GoodRow(th[t].n, [th[t].snap EXCEPT !.enabled = en])
    BY <1>3, <2>2 DEF GoodRow, Row
  <2>4. GoodRows
    BY <2>1, <2>3, RowGood
  <2> QED
    BY <1>2, <1>11, <2>4, FinishGood DEF WriteRow
<1>12. CASE Probe(t)
  <2>1. CASE Finish(t)
    BY <1>1, <1>2, <1>12, <2>1, FinishGood DEF Probe, db
  <2>2. ASSUME NEW l, th' = [th EXCEPT ![t].pc = l, ![t].pid = th[t].snap.pid]
        PROVE  GoodThreads
    <3>1. \A u \in Thread \ {t} : th'[u] = th[u]
      BY <1>2, <2>2
    <3>2. /\ th'[t].n = th[t].n /\ th'[t].snap = th[t].snap
          /\ th'[t].pid = th[t].snap.pid
      BY <1>2, <2>2 DEF ThreadState
    <3> QED
      BY <1>2, <1>3, <3>1, <3>2 DEF RecordInv, GoodThreads, GoodThread
  <2> QED
    BY <1>1, <1>12, <2>1, <2>2 DEF Probe, db
<1> QED
  BY <1>4, <1>5, <1>6, <1>7, <1>8, <1>9, <1>10, <1>11, <1>12 DEF HandlerStep

LEMMA MainStepGood ==
  ASSUME RecordInv, MainStep, ~Spawn(Main)
  PROVE  GoodRows /\ GoodThreads
<1>1. UNCHANGED row => GoodRows
  BY DEF RecordInv, GoodRows
<1>2. Main \in Thread
  BY DEF Thread
<1>3. CASE StartStep(Main)
  BY <1>2, <1>3, StartStepGood
<1>4. CASE RecoverNext
  <2>1. PICK n \in todo :
          th' = [th EXCEPT ![Main] =
                  [op |-> "recover", n |-> n, snap |-> row[n],
                   pc |-> IF IsProcessRunning(row[n].pid)
                          THEN "markRunning" ELSE "check",
                   pid |-> IF IsProcessRunning(row[n].pid)
                           THEN row[n].pid ELSE 0]]
    BY <1>4 DEF RecoverNext
  <2> DEFINE up == IsProcessRunning(row[n].pid)
             rec == [op |-> "recover", n |-> n, snap |-> row[n],
                     pc |-> IF up THEN "markRunning" ELSE "check",
                     pid |-> IF up THEN row[n].pid ELSE 0]
  <2>2. GoodRow(n, row[n]) /\ 0 \in Owned(n)
    BY BlankGood DEF RecordInv, TypeInv, TypeOK
  <2> HIDE DEF up
  <2>3. GoodThread(rec)
    BY <2>2 DEF GoodThread, GoodRow
  <2>4. th' = [th EXCEPT ![Main] = rec]
    BY <2>1 DEF up
  <2> HIDE DEF rec
  <2> QED
    BY <1>1, <1>2, <1>4, <2>3, <2>4, SetThreadGood DEF RecoverNext, db
<1>5. CASE RecoverError
  BY <1>2, <1>5, BlankGood, StatusGood, FreshGood DEF RecoverError
<1>6. CASE RecoverEnd
  BY <1>1, <1>2, <1>6, GotoGood DEF RecoverEnd, db
<1>7. CASE RouteNext
  <2>1. PICK n \in todo :
          th' = [th EXCEPT ![Main] = [IdleThread EXCEPT
                  !.op = "recover", !.pc = "route", !.n = n]]
    BY <1>7 DEF RouteNext
  <2>2. GoodThread([IdleThread EXCEPT
                      !.op = "recover", !.pc = "route", !.n = n])
    BY BlankGood DEF GoodThread, IdleThread
  <2> QED
    BY <1>1, <1>2, <1>7, <2>1, <2>2, SetThreadGood DEF RouteNext, db
<1>8. CASE Serve
  BY <1>1, <1>2, <1>8, FinishGood DEF Serve, db
<1> QED
  BY <1>3, <1>4, <1>5, <1>6, <1>7, <1>8 DEF MainStep

LEMMA HostGood ==
  ASSUME RecordInv, Boot \/ Crash \/ (\E p \in Pid : ProcExit(p))
  PROVE  GoodRows /\ GoodThreads
<1>1. UNCHANGED row => GoodRows
  BY DEF RecordInv, GoodRows
<1>2. CASE Boot
  <2>1. GoodThread([IdleThread EXCEPT !.op = "recover", !.pc = "recLoop"])
    BY BlankGood DEF GoodThread, IdleThread
  <2> QED
    BY <1>1, <1>2, <2>1, SetThreadGood DEF Boot, db, Thread
<1>3. CASE Crash
  BY <1>1, <1>3, BlankGood DEF Crash, db, GoodThreads
<1>4. CASE \E p \in Pid : ProcExit(p)
  BY <1>1, <1>4 DEF ProcExit, db, RecordInv, GoodThreads
<1> QED
  BY <1>2, <1>3, <1>4

LEMMA InitRecordInv == Init => RecordInv
<1> SUFFICES ASSUME Init PROVE RecordInv
  OBVIOUS
<1>1. TypeInv
  BY InitTypeInv
<1>2. PICK en \in SUBSET nodes :
        row = [n \in Id |-> [BlankRow EXCEPT !.enabled = n \in en]]
  BY DEF Init
<1>3. \A n \in Id : row[n].pid = 0 /\ row[n].status = "stopped"
  BY <1>2 DEF BlankRow
<1>4. \A n \in Id : GoodRow(n, row[n])
  BY <1>3, BlankGood DEF GoodRow
<1>5. \A t \in Thread : GoodThread(th[t])
  BY BlankGood DEF Init
<1> QED
  BY <1>1, <1>4, <1>5 DEF RecordInv

LEMMA NextRecordInv == RecordInv /\ [Next]_vars => RecordInv'
<1>1. ASSUME RecordInv, Next PROVE RecordInv'
  <2>1. TypeInv'
    BY <1>1, NextTypeInv DEF RecordInv
  <2>2. \A n : Owned(n) \subseteq Owned(n)'
    BY <1>1, OwnedGrows DEF RecordInv
  <2>3. Req \subseteq Thread /\ Main \in Thread
    BY DEF Thread
  <2>4. CASE \E t \in Thread : Spawn(t)
    BY <1>1, <2>1, <2>2, <2>4, SpawnGood
  <2>5. CASE ~ \E t \in Thread : Spawn(t)
    <3>1. GoodRows /\ GoodThreads
      BY <1>1, <2>3, <2>5, RequestGood, HandlerStepGood, MainStepGood, HostGood
      DEF Next
    <3> QED
      BY <2>1, <2>2, <3>1, RecordCarried
  <2> QED
    BY <2>4, <2>5
<1>2. ASSUME RecordInv, UNCHANGED vars PROVE RecordInv'
  <2>1. TypeInv'
    BY <1>2, NextTypeInv DEF RecordInv
  <2>2. GoodRows /\ GoodThreads /\ \A n : Owned(n) \subseteq Owned(n)'
    BY <1>2 DEF vars, RecordInv, GoodRows, GoodThreads, Owned
  <2> QED
    BY <2>1, <2>2, RecordCarried
<1> QED
  BY <1>1, <1>2

\* Every row, and every copy of a row or pid that a handler holds on to between
\* two statements, carries a pid of its own node and a status that fits it.
THEOREM RecordsHold == Spec => []RecordInv
<1> QED
  BY InitRecordInv, NextRecordInv, PTL DEF Spec

\* No node ever records the process of another one, whatever requests,
\* crashes and recoveries interleave.
THEOREM PidsAreOwn == Spec => []RecordedPidIsOwn
<1>1. RecordInv => RecordedPidIsOwn
  BY DEF RecordInv, TypeInv, TypeOK, GoodRow, Owned, RecordedPidIsOwn
<1> QED
  BY <1>1, RecordsHold, PTL

\* The status and the pid of a row agree at every moment.
THEOREM StatusFitsPid == Spec => []StatusMatchesPid
<1>1. RecordInv => StatusMatchesPid
  BY DEF RecordInv, TypeInv, TypeOK, GoodRow, StatusMatchesPid
<1> QED
  BY <1>1, RecordsHold, PTL

\* A handler that stops, restarts or deletes a node never signals the process
\* of another node, nor one that is not ours.
THEOREM SignalsStayHome == Spec => SignalsOwnProcess
<1> DEFINE Told(p) == proc[p].state = "live" /\ proc'[p].state = "term"
           Home(p) == \E t \in Thread :
                        th[t].pc = "kill" /\ th[t].n = proc[p].owner
<1>1. ASSUME RecordInv, [Next]_vars, NEW p \in Pid, Told(p)
      PROVE  Home(p)
  <2> USE <1>1 DEF os
  <2>1. proc \in [Pid -> Process] /\ Req \subseteq Thread
    BY DEF RecordInv, TypeInv, TypeOK, Thread
  <2>2. proc' # proc
    OBVIOUS
  <2>3. ASSUME NEW t \in Thread, Kill(t)
        PROVE  Home(p)
    <3>1. p = th[t].snap.pid
      BY <2>1, <2>3 DEF Kill
    <3>2. p \in Owned(th[t].n) /\ p # 0
      BY <2>3, <3>1
      DEF RecordInv, GoodThread, GoodRow, Kill, TypeInv, HandInv
    <3> QED
      BY <2>3, <3>2 DEF Owned, Kill
  <2>4. ASSUME NEW t \in Thread PROVE ~Spawn(t)
    BY <2>1 DEF Spawn
  <2>5. ASSUME NEW t \in Thread PROVE ~StartStep(t)
    BY <2>2, <2>4 DEF StartStep, Check, MarkStarting, SpawnFails, Verify,
                      MarkError, MarkRunning, AddTableRoute
  <2>6. ASSUME Crash PROVE FALSE
    <3>1. proc'[p] = [proc[p] EXCEPT !.child = FALSE,
                        !.state = IF @ = "zombie" THEN "free" ELSE @]
      BY <2>6 DEF Crash
    <3>2. proc[p] \in Process
      BY <2>1
    <3>3. proc'[p].state = "live"
      BY <3>1, <3>2 DEF Process
    <3> QED
      BY <3>3
  <2>7. ASSUME NEW q \in Pid PROVE ~ProcExit(q)
    BY <2>1 DEF ProcExit, Process
  <2>8. ASSUME NEW r \in Req PROVE ~Request(r)
    BY <2>2 DEF Request, CreateRequest, StartRequest, StopRequest,
                RestartRequest, DeleteRequest, UpdateRequest, StatusRequest,
                Read
  <2>9. ~MainStep /\ ~Boot
    BY <2>2, <2>5 DEF MainStep, RecoverNext, RecoverError, RecoverEnd,
                      RouteNext, Serve, Boot, Thread
  <2>10. ASSUME NEW r \in Req, HandlerStep(r) PROVE Kill(r)
    BY <2>1, <2>2, <2>5, <2>10
    DEF HandlerStep, Reread, CreateFix, MarkStopped, Reget, DeleteRow,
        WriteRow, Probe
  <2>11. Next
    BY <2>2 DEF vars
  <2> QED
    BY <2>1, <2>3, <2>6, <2>7, <2>8, <2>9, <2>10, <2>11 DEF Next
<1>2. RecordInv /\ [Next]_vars => [\A p \in Pid : Told(p) => Home(p)]_vars
  BY <1>1
<1> QED
  BY <1>2, RecordsHold, PTL DEF Spec, SignalsOwnProcess

-----------------------------------------------------------------------------
(* Main and the request threads take turns.                                  *)

AloneInv ==
  /\ mgr # "serving" => \A r \in Req : th[r].pc = "idle"
  /\ mgr # "recovering" => th[Main].pc = "idle"
  /\ th[Main].pc # "idle" => th[Main].op = "recover"
  /\ \A r \in Req : th[r].op # "recover"

\* Only thread t has moved.
Others(t) == \A u \in Thread : u # t => th'[u] = th[u]

\* What the helpers of the steps do to the thread that takes the step.
LEMMA SetMoves ==
  ASSUME RecordInv, NEW t \in Thread, NEW s, th' = [th EXCEPT ![t] = s]
  PROVE  Others(t) /\ th'[t] = s
  BY DEF RecordInv, TypeInv, TypeOK, Others

LEMMA GotoMoves ==
  ASSUME RecordInv, NEW t \in Thread, NEW l, Goto(t, l)
  PROVE  /\ Others(t) /\ th'[t].pc = l /\ th'[t].op = th[t].op
         /\ th'[t].n = th[t].n /\ th'[t].pid = th[t].pid
         /\ th'[t].snap = th[t].snap
  BY DEF RecordInv, TypeInv, TypeOK, ThreadState, Others, Goto

LEMMA FreshMoves ==
  ASSUME RecordInv, NEW t \in Thread, NEW l, Fresh(t, l)
  PROVE  /\ Others(t) /\ th'[t].pc = l /\ th'[t].op = th[t].op
         /\ th'[t].n = th[t].n /\ th'[t].pid = 0
  BY DEF RecordInv, TypeInv, TypeOK, ThreadState, Others, Fresh

LEMMA FinishMoves ==
  ASSUME RecordInv, NEW t \in Thread, Finish(t)
  PROVE  Others(t) /\ th'[t] = IdleThread
  BY SetMoves DEF Finish

\* What StartNode returns to.
LEMMA DoneMoves ==
  ASSUME RecordInv, NEW t \in Thread, StartDone(t)
  PROVE  /\ Others(t)
         /\ \/ th'[t] = IdleThread /\ th[t].op # "recover"
            \/ /\ th'[t].op = th[t].op /\ th'[t].n = th[t].n
               /\ th'[t].pc = IF th[t].op = "recover" THEN "recLoop"
                              ELSE "reread"
<1>1. CASE th[t].op = "recover"
  BY <1>1, FreshMoves DEF StartDone
<1>2. CASE th[t].op = "status"
  BY <1>2, FinishMoves DEF StartDone
<1>3. CASE th[t].op \notin {"recover", "status"}
  BY <1>3, FreshMoves DEF StartDone
<1> QED
  BY <1>1, <1>2, <1>3

LEMMA FailedMoves ==
  ASSUME RecordInv, NEW t \in Thread, StartFailed(t)
  PROVE  /\ Others(t)
         /\ \/ th'[t] = IdleThread /\ th[t].op # "recover"
            \/ /\ th'[t].op = "recover" /\ th[t].op = "recover"
               /\ th'[t].n = th[t].n /\ th'[t].pc = "recErr"
  BY GotoMoves, FinishMoves DEF StartFailed

\* A start keeps the kind of the request it is part of.
LEMMA StartStepMoves ==
  ASSUME RecordInv, NEW t \in Thread, StartStep(t)
  PROVE  /\ th[t].pc # "idle" /\ Others(t) /\ mgr' = mgr /\ todo' = todo
         /\ nodes' = nodes /\ lastId' = lastId /\ lost' = lost
         /\ \/ th'[t] = IdleThread /\ th[t].op # "recover"
            \/ th'[t].op = th[t].op /\ th'[t].n = th[t].n
<1> USE DEF db, os, ctl
<1>1. CASE Check(t)
  BY <1>1, DoneMoves, FailedMoves, FreshMoves DEF Check
<1>2. CASE MarkStarting(t)
  BY <1>2, GotoMoves, FailedMoves DEF MarkStarting, UpdateNodeStatus
<1>3. CASE Spawn(t)
  <2>1. th' = [th EXCEPT ![t].pc = "verify", ![t].pid = lastPid']
    BY <1>3 DEF Spawn
  <2>2. /\ Others(t) /\ th'[t].op = th[t].op /\ th'[t].n = th[t].n
    BY <2>1 DEF RecordInv, TypeInv, TypeOK, ThreadState, Others
  <2> QED
    BY <1>3, <2>2 DEF Spawn
<1>4. CASE SpawnFails(t)
  BY <1>4, GotoMoves DEF SpawnFails
<1>5. CASE Verify(t)
  BY <1>5, GotoMoves DEF Verify
<1>6. CASE MarkError(t)
  BY <1>6, FailedMoves DEF MarkError, UpdateNodeStatus
<1>7. CASE MarkRunning(t)
  BY <1>7, DoneMoves, FailedMoves DEF MarkRunning, UpdateNodeStatus
<1>8. CASE AddTableRoute(t)
  BY <1>8, GotoMoves, FinishMoves DEF AddTableRoute
<1> QED
  BY <1>1, <1>2, <1>3, <1>4, <1>5, <1>6, <1>7, <1>8 DEF StartStep

\* A request, too, except that a restart goes on as a start.
LEMMA HandlerStepMoves ==
  ASSUME RecordInv, NEW r \in Req, HandlerStep(r)
  PROVE  /\ th[r].pc # "idle" /\ Others(r) /\ mgr' = mgr /\ todo' = todo
         /\ \/ th'[r] = IdleThread
            \/ /\ th'[r].op \in {th[r].op, "start"} /\ th'[r].n = th[r].n
<1> USE DEF db, os, ctl
<1>1. r \in Thread
  BY DEF Thread
<1>2. CASE StartStep(r)
  BY <1>1, <1>2, StartStepMoves
<1>3. CASE Reread(r)
  BY <1>1, <1>3, GotoMoves, FinishMoves DEF Reread
<1>4. CASE CreateFix(r) \/ DeleteRow(r) \/ WriteRow(r)
  BY <1>1, <1>4, FinishMoves DEF CreateFix, DeleteRow, WriteRow
<1>5. CASE Kill(r)
  BY <1>1, <1>5, FreshMoves DEF Kill
<1>6. CASE MarkStopped(r)
  BY <1>1, <1>6, GotoMoves, FinishMoves DEF MarkStopped
<1>7. CASE Reget(r)
  <2>1. CASE th' = [th EXCEPT ![r].op = "start", ![r].pc = "check",
                              ![r].snap = row[th[r].n]]
    <3>1. Others(r) /\ th'[r].op = "start" /\ th'[r].n = th[r].n
      BY <1>1, <2>1 DEF RecordInv, TypeInv, TypeOK, ThreadState, Others
    <3> QED
      BY <1>7, <3>1 DEF Reget
  <2>2. CASE Finish(r)
    BY <1>1, <1>7, <2>2, FinishMoves DEF Reget
  <2> QED
    BY <1>7, <2>1, <2>2 DEF Reget
<1>8. CASE Probe(r)
  <2>1. ASSUME NEW l, th' = [th EXCEPT ![r].pc = l,
                                       ![r].pid = th[r].snap.pid]
        PROVE  Others(r) /\ th'[r].op = th[r].op /\ th'[r].n = th[r].n
    BY <1>1, <2>1 DEF RecordInv, TypeInv, TypeOK, ThreadState, Others
  <2> QED
    BY <1>1, <1>8, <2>1, FinishMoves DEF Probe
<1> QED
  BY <1>2, <1>3, <1>4, <1>5, <1>6, <1>7, <1>8 DEF HandlerStep

\* The row CreateNode inserts, and the step that inserts it.
NewRow(en) == [enabled |-> en, status |-> "", pid |-> 0, named |-> FALSE]

CreateWith(r, en) ==
  /\ row' = [row EXCEPT ![lastId'] = NewRow(en)]
  /\ th' = [th EXCEPT ![r] =
              [op |-> "create", pc |-> "createFix", n |-> lastId',
               snap |-> [NewRow(en) EXCEPT !.status = "stopped",
                                           !.named = TRUE],
               pid |-> 0]]

LEMMA CreateShape ==
  ASSUME NEW r, CreateRequest(r)
  PROVE  \E en \in BOOLEAN : CreateWith(r, en)
  BY DEF CreateRequest, CreateWith, NewRow

\* Requests are taken while the API serves.
LEMMA RequestMoves ==
  ASSUME RecordInv, NEW r \in Req, Request(r)
  PROVE  /\ mgr = "serving" /\ Others(r) /\ mgr' = mgr
         /\ th'[r].op # "recover"
<1>1. r \in Thread
  BY DEF Thread
<1>2. ASSUME NEW o \in AllOps, NEW n, NEW l, Read(r, o, n, l)
      PROVE  /\ mgr = "serving" /\ Others(r) /\ mgr' = mgr
             /\ th'[r].op # "recover"
  <2> DEFINE s == [op |-> o, pc |-> l, n |-> n, snap |-> row[n], pid |-> 0]
  <2>1. s.op = o /\ o # "recover"
    BY DEF AllOps
  <2>2. th' = [th EXCEPT ![r] = s]
    BY <1>2 DEF Read
  <2> HIDE DEF s
  <2>3. Others(r) /\ th'[r] = s
    BY <1>1, <2>2, SetMoves
  <2> QED
    BY <1>2, <2>1, <2>3 DEF Read, Accepts, ctl
<1>3. CASE CreateRequest(r)
  <2>1. PICK en \in BOOLEAN : CreateWith(r, en)
    BY <1>3, CreateShape
  <2> DEFINE s == [op |-> "create", pc |-> "createFix", n |-> lastId',
                   snap |-> [NewRow(en) EXCEPT !.status = "stopped",
                                               !.named = TRUE],
                   pid |-> 0]
  <2>2. th' = [th EXCEPT ![r] = s] /\ s.op = "create"
    BY <2>1 DEF CreateWith
  <2> HIDE DEF s
  <2>3. Others(r) /\ th'[r] = s
    BY <1>1, <2>2, SetMoves
  <2> QED
    BY <1>3, <2>2, <2>3 DEF CreateRequest, Accepts, ctl
<1> QED
  BY <1>2, <1>3
  DEF Request, StartRequest, StopRequest, RestartRequest, DeleteRequest,
      UpdateRequest, StatusRequest, AllOps

\* Main is the recovery until it serves.
LEMMA MainStepMoves ==
  ASSUME RecordInv, AloneInv, MainStep
  PROVE  /\ th[Main].pc # "idle" /\ Others(Main) /\ th[Main].op = "recover"
         /\ \/ mgr' = mgr /\ th'[Main].op = "recover"
            \/ Serve /\ th'[Main] = IdleThread
<1> USE DEF db, os, ctl
<1>1. Main \in Thread
  BY DEF Thread
<1>2. th[Main].pc # "idle" => th[Main].op = "recover"
  BY DEF AloneInv
<1>3. CASE StartStep(Main)
  BY <1>1, <1>2, <1>3, StartStepMoves
<1>4. CASE RecoverNext
  <2>1. PICK n \in todo : th' = [th EXCEPT ![Main] =
                   [op |-> "recover", n |-> n, snap |-> row[n],
                    pc |-> IF IsProcessRunning(row[n].pid)
                           THEN "markRunning" ELSE "check",
                    pid |-> IF IsProcessRunning(row[n].pid)
                            THEN row[n].pid ELSE 0]]
    BY <1>4 DEF RecoverNext
  <2> DEFINE s == [op |-> "recover", n |-> n, snap |-> row[n],
                    pc |-> IF IsProcessRunning(row[n].pid)
                           THEN "markRunning" ELSE "check",
                    pid |-> IF IsProcessRunning(row[n].pid)
                            THEN row[n].pid ELSE 0]
  <2>2. s.op = "recover" /\ th' = [th EXCEPT ![Main] = s]
    BY <2>1
  <2> HIDE DEF s
  <2>3. Others(Main) /\ th'[Main] = s
    BY <1>1, <2>2, SetMoves
  <2> QED
    BY <1>2, <1>4, <2>2, <2>3 DEF RecoverNext, MainAt
<1>5. CASE RecoverError
  BY <1>1, <1>2, <1>5, FreshMoves DEF RecoverError, MainAt
<1>6. CASE RecoverEnd
  BY <1>1, <1>2, <1>6, GotoMoves DEF RecoverEnd, MainAt
<1>7. CASE RouteNext
  <2>1. PICK n \in todo : th' = [th EXCEPT ![Main] = [IdleThread EXCEPT
                   !.op = "recover", !.pc = "route", !.n = n]]
    BY <1>7 DEF RouteNext
  <2> DEFINE s == [IdleThread EXCEPT
                   !.op = "recover", !.pc = "route", !.n = n]
  <2>2. s.op = "recover" /\ th' = [th EXCEPT ![Main] = s]
    BY <2>1 DEF IdleThread
  <2> HIDE DEF s
  <2>3. Others(Main) /\ th'[Main] = s
    BY <1>1, <2>2, SetMoves
  <2> QED
    BY <1>2, <1>7, <2>2, <2>3 DEF RouteNext, MainAt
<1>8. CASE Serve
  BY <1>1, <1>2, <1>8, FinishMoves DEF Serve, MainAt
<1> QED
  BY <1>3, <1>4, <1>5, <1>6, <1>7, <1>8 DEF MainStep

\* Main and the request threads go on taking turns.
LEMMA NextAlone ==
  ASSUME RecordInv, AloneInv, [Next]_vars
  PROVE  AloneInv'
<1>1. Main \in Thread /\ Req \subseteq Thread /\ Main \notin Req
  BY LifecycleAssumption DEF Thread, LifecycleAssumption
<1>2. IdleThread.pc = "idle" /\ IdleThread.op = "none"
  BY DEF IdleThread
<1>3. ASSUME NEW r \in Req, Request(r) PROVE AloneInv'
  BY <1>1, <1>3, RequestMoves DEF AloneInv, Others
<1>4. ASSUME NEW r \in Req, HandlerStep(r) PROVE AloneInv'
  BY <1>1, <1>2, <1>4, HandlerStepMoves DEF AloneInv, Others
<1>5. CASE MainStep
  BY <1>1, <1>2, <1>5, MainStepMoves DEF AloneInv, Others, Serve
<1>6. CASE Boot
  <2> DEFINE s == [IdleThread EXCEPT !.op = "recover", !.pc = "recLoop"]
  <2>1. s.op = "recover" /\ th' = [th EXCEPT ![Main] = s]
    BY <1>6 DEF Boot, IdleThread
  <2> HIDE DEF s
  <2>2. Others(Main) /\ th'[Main] = s
    BY <1>1, <2>1, SetMoves
  <2> QED
    BY <1>1, <1>6, <2>1, <2>2 DEF Boot, AloneInv, Others
<1>7. CASE Crash
  BY <1>1, <1>2, <1>7 DEF Crash, AloneInv
<1>8. ASSUME NEW p \in Pid, ProcExit(p) PROVE AloneInv'
  BY <1>8 DEF ProcExit, ctl, AloneInv
<1>9. CASE UNCHANGED vars
  BY <1>9 DEF vars, AloneInv
<1> QED
  BY <1>3, <1>4, <1>5, <1>6, <1>7, <1>8, <1>9 DEF Next

-----------------------------------------------------------------------------
(* The recovery: each enabled node has its outcome in the row, waits in     *)
(* todo, or is the one Main works on.                                        *)

Working == {"check", "markStarting", "spawn", "verify", "markRunning",
            "markError", "recErr"}

Recovering == Working \cup {"recLoop"}

HasOutcome(n) == row[n].status \in {"running", "error"}

RecInv ==
  /\ th[Main].pc \in Working => th[Main].n \in nodes
  /\ th[Main].pc = "check" => th[Main].snap = row[th[Main].n]
  /\ th[Main].pc # "idle" => todo \subseteq nodes
  /\ th[Main].pc \in Recovering =>
       \A n \in EnabledNodes :
         \/ HasOutcome(n) \/ n \in todo
         \/ n = th[Main].n /\ th[Main].pc \in Working
  /\ th[Main].pc \in {"routeLoop", "route"} =>
       \A n \in EnabledNodes : HasOutcome(n)

MainInv == RecordInv /\ AloneInv /\ RecInv

\* The row of an existing node after UpdateNodeStatus.
LEMMA StatusWritten ==
  ASSUME TypeOK, NEW n \in nodes, NEW s, NEW p, UpdateNodeStatus(n, s, p)
  PROVE  /\ nodes' = nodes /\ lastId' = lastId
         /\ row'[n].status = s /\ row'[n].pid = p
         /\ row'[n].enabled = row[n].enabled
         /\ \A m \in Id : m # n => row'[m] = row[m]
<1>1. row \in [Id -> Row] /\ n \in Id
  BY DEF TypeOK
<1>2. row' = [row EXCEPT ![n].status = s, ![n].pid = p]
  BY DEF UpdateNodeStatus
<1> QED
  BY <1>1, <1>2 DEF UpdateNodeStatus, Row

\* Main works on a node, and its row alone may change.
LEMMA WorkStep ==
  ASSUME MainInv, NEW n \in nodes, n = th[Main].n,
         th[Main].pc \in Working, nodes' = nodes, todo' = todo,
         \A m \in Id : m # n => row'[m] = row[m],
         th'[Main].n = n,
         \/ th'[Main].pc \in Working \ {"check"}
         \/ th'[Main].pc = "recLoop" /\ row'[n].status \in {"running", "error"}
  PROVE  RecInv'
<1>1. nodes \subseteq Id /\ todo \subseteq nodes
  BY DEF MainInv, RecordInv, TypeInv, TypeOK, RecInv, Working
<1>2. ASSUME NEW m \in nodes, row'[m].enabled
      PROVE  \/ row'[m].status \in {"running", "error"} \/ m \in todo
             \/ m = n /\ th'[Main].pc \in Working
  <2>1. CASE m = n
    BY <2>1
  <2>2. CASE m # n
    <3>1. row'[m] = row[m] /\ m \in EnabledNodes
      BY <1>1, <1>2, <2>2 DEF EnabledNodes
    <3>2. HasOutcome(m) \/ m \in todo
      BY <2>2, <3>1 DEF MainInv, RecInv, Recovering
    <3> QED
      BY <3>1, <3>2 DEF HasOutcome
  <2> QED
    BY <2>1, <2>2
<1>3. th'[Main].pc \notin {"check", "routeLoop", "route"}
  BY DEF Working
<1> QED
  BY <1>1, <1>2, <1>3
  DEF RecInv, Recovering, HasOutcome, EnabledNodes

\* A start by the recovery: the node is Main's until its row has an outcome.
LEMMA StartStepRec ==
  ASSUME MainInv, StartStep(Main)
  PROVE  RecInv'
<1> USE DEF db, os, ctl, MainInv
<1> DEFINE n == th[Main].n
<1>1. /\ Main \in Thread /\ th[Main].op = "recover" /\ TypeOK
      /\ nodes' = nodes /\ todo' = todo
  BY StartStepMoves DEF Thread, AloneInv, RecordInv, TypeInv
<1>2. PICK k : k = th[Main].n
  OBVIOUS
<1>3. th[Main].pc \in Working => k \in nodes
  BY <1>2 DEF RecInv
<1>4. th'[Main].n = k
  BY <1>1, <1>2, StartStepMoves
<1>5. CASE Check(Main)
  <2>1. th[Main].pc = "check" /\ k \in nodes /\ row' = row
    BY <1>3, <1>5 DEF Check, Working
  <2>2. CASE IsProcessRunning(th[Main].snap.pid) /\ StartDone(Main)
    <3>1. row[k].pid # 0
      BY <1>2, <2>1, <2>2 DEF IsProcessRunning, RecInv
    <3>2. row[k].status = "running"
      BY <2>1, <3>1 DEF RecordInv, TypeInv, TypeOK, GoodRow
    <3> QED
      BY <1>1, <1>2, <1>4, <2>1, <2>2, <3>2, DoneMoves, WorkStep DEF Working
  <2>3. CASE Fresh(Main, "markStarting") \/ StartFailed(Main)
    BY <1>1, <1>2, <1>4, <2>1, <2>3, FreshMoves, FailedMoves, WorkStep
    DEF Working
  <2> QED
    BY <1>5, <2>2, <2>3 DEF Check
<1>6. CASE MarkStarting(Main)
  <2>1. k \in nodes /\ th[Main].pc \in Working
    BY <1>3, <1>6 DEF MarkStarting, Working
  <2>2. \A m \in Id : m # k => row'[m] = row[m]
    BY <1>1, <1>2, <1>6, <2>1, StatusWritten DEF MarkStarting
  <2>3. th'[Main].pc = "spawn"
    BY <1>1, <1>2, <1>6, <2>1, GotoMoves DEF MarkStarting
  <2> QED
    BY <1>1, <1>2, <1>4, <2>1, <2>2, <2>3, WorkStep DEF Working
<1>7. CASE Spawn(Main)
  <2>1. k \in nodes /\ th[Main].pc \in Working /\ row' = row
    BY <1>3, <1>7 DEF Spawn, Working
  <2>2. th'[Main].pc = "verify"
    BY <1>1, <1>7 DEF Spawn, TypeOK, ThreadState
  <2> QED
    BY <1>1, <1>2, <1>4, <2>1, <2>2, WorkStep DEF Working
<1>8. CASE SpawnFails(Main)
  <2>1. k \in nodes /\ th[Main].pc \in Working /\ row' = row
    BY <1>3, <1>8 DEF SpawnFails, Working
  <2> QED
    BY <1>1, <1>2, <1>4, <1>8, <2>1, GotoMoves, WorkStep
    DEF SpawnFails, Working
<1>9. CASE Verify(Main)
  <2>1. k \in nodes /\ th[Main].pc \in Working /\ row' = row
    BY <1>3, <1>9 DEF Verify, Working
  <2> QED
    BY <1>1, <1>2, <1>4, <1>9, <2>1, GotoMoves, WorkStep
    DEF Verify, Working
<1>10. CASE MarkError(Main)
  <2>1. k \in nodes /\ th[Main].pc \in Working
    BY <1>3, <1>10 DEF MarkError, Working
  <2>2. \A m \in Id : m # k => row'[m] = row[m]
    BY <1>1, <1>2, <1>10, <2>1, StatusWritten DEF MarkError
  <2>3. th'[Main].pc = "recErr"
    BY <1>1, <1>10, FailedMoves DEF MarkError
  <2> QED
    BY <1>1, <1>2, <1>4, <2>1, <2>2, <2>3, WorkStep DEF Working
<1>11. CASE MarkRunning(Main)
  <2>1. k \in nodes /\ th[Main].pc \in Working
    BY <1>3, <1>11 DEF MarkRunning, Working
  <2>2. /\ \A m \in Id : m # k => row'[m] = row[m]
        /\ row'[k].status = "running"
    BY <1>1, <1>2, <1>11, <2>1, StatusWritten DEF MarkRunning
  <2>3. th'[Main].pc = "recLoop"
    BY <1>1, <1>2, <1>11, <2>1, DoneMoves DEF MarkRunning
  <2> QED
    BY <1>1, <1>2, <1>4, <2>1, <2>2, <2>3, WorkStep DEF Working
<1>12. CASE AddTableRoute(Main)
  <2>1. th[Main].pc = "route" /\ row' = row
    BY <1>12 DEF AddTableRoute
  <2>2. th'[Main].pc = "routeLoop"
    BY <1>1, <1>12, GotoMoves DEF AddTableRoute
  <2> QED
    BY <1>1, <2>1, <2>2
    DEF RecInv, HasOutcome, EnabledNodes, Working, Recovering
<1> QED
  BY <1>5, <1>6, <1>7, <1>8, <1>9, <1>10, <1>11, <1>12 DEF StartStep

\* RecoverNodes takes the next node, ends, or records an error.
LEMMA RecoverNextRec ==
  ASSUME MainInv, RecoverNext
  PROVE  RecInv'
<1> USE DEF MainInv, db
<1>1. PICK n \in todo :
        /\ todo' = todo \ {n}
        /\ th' = [th EXCEPT ![Main] =
                   [op |-> "recover", n |-> n, snap |-> row[n],
                    pc |-> IF IsProcessRunning(row[n].pid)
                           THEN "markRunning" ELSE "check",
                    pid |-> IF IsProcessRunning(row[n].pid)
                            THEN row[n].pid ELSE 0]]
  BY DEF RecoverNext
<1> DEFINE s == [op |-> "recover", n |-> n, snap |-> row[n],
                 pc |-> IF IsProcessRunning(row[n].pid)
                        THEN "markRunning" ELSE "check",
                 pid |-> IF IsProcessRunning(row[n].pid)
                         THEN row[n].pid ELSE 0]
<1>2. /\ s.n = n /\ s.snap = row[n] /\ s.pc \in {"markRunning", "check"}
      /\ th' = [th EXCEPT ![Main] = s]
  BY <1>1
<1> HIDE DEF s
<1>3. th'[Main] = s
  BY <1>2, SetMoves DEF Thread
<1>4. row' = row /\ nodes' = nodes /\ th[Main].pc = "recLoop"
  BY DEF RecoverNext, MainAt
<1>5. /\ todo \subseteq nodes
      /\ \A m \in EnabledNodes : HasOutcome(m) \/ m \in todo
  BY <1>4 DEF RecInv, Recovering, Working
<1> QED
  BY <1>1, <1>2, <1>3, <1>4, <1>5
  DEF RecInv, Recovering, Working, HasOutcome, EnabledNodes

LEMMA RecoverErrorRec ==
  ASSUME MainInv, RecoverError
  PROVE  RecInv'
<1> USE DEF MainInv, db
<1>1. Main \in Thread /\ th[Main].pc = "recErr" /\ todo' = todo /\ TypeOK
  BY DEF Thread, RecoverError, MainAt, RecordInv, TypeInv
<1>2. PICK n \in nodes : n = th[Main].n
  BY <1>1 DEF RecInv, Working
<1>3. /\ nodes' = nodes /\ row'[n].status = "error"
      /\ \A m \in Id : m # n => row'[m] = row[m]
  BY <1>1, <1>2, StatusWritten DEF RecoverError
<1>4. th'[Main].pc = "recLoop" /\ th'[Main].n = n
  BY <1>1, <1>2, FreshMoves DEF RecoverError
<1> QED
  BY <1>1, <1>2, <1>3, <1>4, WorkStep DEF Working

LEMMA MainStepRec ==
  ASSUME MainInv, MainStep
  PROVE  RecInv'
<1> USE DEF MainInv, db
<1>1. Main \in Thread
  BY DEF Thread
<1>2. CASE RecoverEnd
  <2>1. /\ th[Main].pc = "recLoop" /\ todo = {} /\ todo' \subseteq nodes
        /\ row' = row /\ nodes' = nodes
    BY <1>2 DEF RecoverEnd, MainAt, EnabledNodes
  <2>2. th'[Main].pc = "routeLoop"
    BY <1>1, <1>2, GotoMoves DEF RecoverEnd
  <2> QED
    BY <2>1, <2>2 DEF RecInv, Recovering, Working, HasOutcome, EnabledNodes
<1>3. CASE RouteNext
  <2>1. PICK n \in todo :
          /\ todo' = todo \ {n}
          /\ th' = [th EXCEPT ![Main] = [IdleThread EXCEPT
                     !.op = "recover", !.pc = "route", !.n = n]]
    BY <1>3 DEF RouteNext
  <2> DEFINE s == [IdleThread EXCEPT !.op = "recover", !.pc = "route",
                                     !.n = n]
  <2>2. s.pc = "route" /\ th' = [th EXCEPT ![Main] = s]
    BY <2>1 DEF IdleThread
  <2> HIDE DEF s
  <2>3. th'[Main] = s
    BY <1>1, <2>2, SetMoves
  <2>4. row' = row /\ nodes' = nodes /\ th[Main].pc = "routeLoop"
    BY <1>3 DEF RouteNext, MainAt
  <2> QED
    BY <2>1, <2>2, <2>3, <2>4
    DEF RecInv, Recovering, Working, HasOutcome, EnabledNodes
<1>4. CASE Serve
  <2>1. th'[Main].pc = "idle"
    BY <1>1, <1>4, FinishMoves DEF Serve, IdleThread
  <2> QED
    BY <2>1 DEF RecInv, Recovering, Working
<1> QED
  BY <1>2, <1>3, <1>4, StartStepRec, RecoverNextRec, RecoverErrorRec
  DEF MainStep

\* Requests come when Main is through; a crash starts it over.
LEMMA NextMainInv == MainInv /\ [Next]_vars => MainInv'
<1> SUFFICES ASSUME MainInv, [Next]_vars PROVE RecInv'
  BY NextRecordInv, NextAlone DEF MainInv
<1> USE DEF MainInv, db
<1>1. Main \in Thread /\ Req \subseteq Thread /\ Main \notin Req
  BY LifecycleAssumption DEF Thread, LifecycleAssumption
<1>2. ASSUME th'[Main].pc = "idle" PROVE RecInv'
  BY <1>2 DEF RecInv, Recovering, Working
<1>3. ASSUME NEW r \in Req, Request(r) \/ HandlerStep(r) PROVE RecInv'
  <2>1. Others(r) /\ mgr = "serving"
    BY <1>1, <1>3, RequestMoves, HandlerStepMoves DEF AloneInv
  <2> QED
    BY <1>1, <1>2, <2>1 DEF Others, AloneInv
<1>4. CASE Boot
  <2>1. /\ th'[Main] = [IdleThread EXCEPT !.op = "recover", !.pc = "recLoop"]
        /\ todo' = EnabledNodes /\ nodes' = nodes /\ row' = row
    BY <1>1, <1>4, SetMoves DEF Boot
  <2>2. th'[Main].pc = "recLoop"
    BY <2>1 DEF IdleThread
  <2> QED
    BY <2>1, <2>2
    DEF RecInv, Recovering, Working, HasOutcome, EnabledNodes
<1>5. CASE Crash
  <2>1. th'[Main].pc = "idle"
    BY <1>1, <1>5 DEF Crash, IdleThread
  <2> QED
    BY <1>2, <2>1
<1>6. ASSUME UNCHANGED <<db, th, todo>> PROVE RecInv'
  BY <1>6 DEF RecInv, HasOutcome, EnabledNodes
<1> QED
  BY <1>3, <1>4, <1>5, <1>6, MainStepRec DEF Next, vars, ProcExit

LEMMA InitMainInv == Init => MainInv
<1> SUFFICES ASSUME Init PROVE AloneInv /\ RecInv
  BY InitRecordInv DEF MainInv
<1>1. \A t \in Thread : th[t].pc = "idle" /\ th[t].op = "none"
  BY DEF Init, IdleThread
<1>2. mgr = "down" /\ todo = {}
  BY DEF Init
<1> QED
  BY <1>1, <1>2 DEF AloneInv, RecInv, Thread, Working, Recovering

\* Whatever a crash left in the rows, and at whatever statement, every enabled
\* node is running or marked as failed when RecoverNodes is through.
THEOREM RecoveryEnds == Spec => []RecoverySettles
<1>1. MainInv => RecoverySettles
  BY DEF MainInv, RecInv, HasOutcome, RecoverySettles
<1> QED
  BY <1>1, InitMainInv, NextMainInv, PTL DEF Spec

-----------------------------------------------------------------------------
(* Requests on one node take turns.  What a thread counts on is then still   *)
(* so when it acts: its copy is the row, and the process the row names is    *)
(* not to be kept by the time the row is given another one, or goes.         *)

Dead(p, P) == p = 0 \/ P[p].state # "live"

Copying == {"check", "write", "kill", "probed"}

Replacing == {"createFix", "markStarting", "spawn", "verify", "markError",
              "recErr", "markStopped", "deleteRow"}

\* What thread record s counts on in nodes N, rows R and processes P.
Holds(s, N, R, P) ==
  /\ s.pc = "idle" => s.n = 0
  /\ s.pc \notin {"idle", "recLoop", "routeLoop"} => s.n \in N
  /\ s.pc \in Copying => s.snap = R[s.n]
  /\ s.pc \in Replacing => Dead(R[s.n].pid, P)
  /\ s.pc = "markRunning" => Dead(R[s.n].pid, P) \/ R[s.n].pid = s.pid

HoldInv == \A t \in Thread : Holds(th[t], nodes, row, proc)

\* No two threads work on one node.
TurnInv ==
  \A t, u \in Thread : th[t].n = th[u].n /\ t # u => th[t].n = 0

\* No id that was given out is given out again.
BoundInv == nodes \subseteq 1..lastId /\ \A t \in Thread : th[t].n <= lastId

KeepInv ==
  /\ MainInv /\ BoundInv
  /\ TurnInv /\ HoldInv /\ NoProcessLeaks

\* Process p of node n is in its row or in the hands of s.
Kept(n, p, s, N, R) ==
  \/ n \in N /\ R[n].pid = p
  \/ s.n = n /\ s.pid = p /\ s.pc \in {"verify", "markRunning"}

\* No process is started, none changes its owner, and nothing is lost.
NoneStarted ==
  /\ lost' = lost
  /\ \A p \in Pid : proc'[p].owner = proc[p].owner
  /\ \A p \in Pid : proc'[p].state = "live" => proc[p].state = "live"

\* Only node n may change.
Elsewhere(n) ==
  \A m \in Id : m # n => /\ row'[m] = row[m]
                         /\ m \in nodes => m \in nodes'

\* The types that the steps below use.
LEMMA Facts ==
  ASSUME MainInv
  PROVE  /\ th \in [Thread -> ThreadState] /\ proc \in [Pid -> Process]
         /\ row \in [Id -> Row] /\ nodes \subseteq Id
         /\ Main \in Thread /\ Req \subseteq Thread /\ Main \notin Req
         /\ 0 \notin Id /\ 0 \notin Pid
         /\ \A t \in Thread : th[t].n \in Id \cup {0}
         /\ \A n \in Id : row[n].pid \in Pid \cup {0}
         /\ \A t \in Thread : /\ th[t].pid \in Pid \cup {0}
                              /\ th[t].snap.pid \in Pid \cup {0}
         /\ lastPid \in Nat /\ lastId \in Nat
         /\ \A n \in Id : row[n].pid \in Owned(n)
<1> USE DEF MainInv, RecordInv, TypeInv, TypeOK
<1>1. MaxPid \in Nat /\ MaxNode \in Nat /\ Main \notin Req
  BY LifecycleAssumption DEF LifecycleAssumption
<1>2. 0..MaxPid = Pid \cup {0} /\ 0..MaxNode = Id \cup {0}
  BY <1>1 DEF Pid, Id
<1>3. 0 \notin Id /\ 0 \notin Pid /\ lastPid \in Nat /\ lastId \in Nat
  BY <1>1 DEF Pid, Id
<1>4. \A n \in Id : row[n].pid \in Owned(n) /\ row[n].pid \in Pid \cup {0}
  BY <1>2 DEF GoodRow, Row
<1>5. \A t \in Thread : /\ th[t].n \in Id \cup {0}
                        /\ th[t].pid \in Pid \cup {0}
                        /\ th[t].snap.pid \in Pid \cup {0}
  BY <1>2 DEF ThreadState, Row
<1> QED
  BY <1>1, <1>3, <1>4, <1>5 DEF Thread

\* A step of one thread that leaves the nodes alone that others work on.
LEMMA HoldAny ==
  ASSUME KeepInv, NEW t \in Thread, NEW n,
         \A u \in Thread : u # t /\ th[u].n = n => n = 0,
         Others(t), th'[t].n \in {0, n}, Elsewhere(n),
         \A p \in Pid : p <= lastPid /\ Dead(p, proc) => Dead(p, proc'),
         Holds(th'[t], nodes', row', proc')
  PROVE  TurnInv' /\ HoldInv'
<1>1. TurnInv'
  <2> SUFFICES ASSUME NEW u \in Thread, NEW v \in Thread, u # v,
                      th'[u].n = th'[v].n
               PROVE  th'[u].n = 0
    BY DEF TurnInv
  <2> QED
    BY DEF KeepInv, TurnInv, Others
<1>2. ASSUME NEW u \in Thread PROVE Holds(th'[u], nodes', row', proc')
  <2>1. CASE u = t
    BY <2>1
  <2>2. CASE u # t
    <3>1. th'[u] = th[u] /\ Holds(th[u], nodes, row, proc)
      BY <2>2 DEF Others, KeepInv, HoldInv
    <3>2. CASE th[u].n = 0
      <4>1. th[u].pc \in {"idle", "recLoop", "routeLoop"}
        BY <3>1, <3>2, Facts DEF KeepInv, Holds
      <4> QED
        BY <3>1, <3>2, <4>1 DEF Holds, Copying, Replacing
    <3>3. CASE th[u].n # 0
      <4>1. th[u].n \in Id /\ th[u].n # n
        BY <2>2, <3>3, Facts DEF KeepInv, TurnInv
      <4>2. /\ row'[th[u].n] = row[th[u].n]
            /\ th[u].n \in nodes => th[u].n \in nodes'
        BY <4>1 DEF Elsewhere
      <4>3. Dead(row[th[u].n].pid, proc) => Dead(row[th[u].n].pid, proc')
        BY <4>1, Facts DEF KeepInv, Owned, Dead
      <4> QED
        BY <3>1, <4>2, <4>3 DEF Holds
    <3> QED
      BY <3>2, <3>3
  <2> QED
    BY <2>1, <2>2
<1> QED
  BY <1>1, <1>2 DEF HoldInv

\* The same for the node the thread works on already.
LEMMA HoldStep ==
  ASSUME KeepInv, NEW t \in Thread, NEW n, n = th[t].n,
         Others(t), th'[t].n \in {0, n}, Elsewhere(n),
         \A p \in Pid : p <= lastPid /\ Dead(p, proc) => Dead(p, proc'),
         Holds(th'[t], nodes', row', proc')
  PROVE  TurnInv' /\ HoldInv'
<1>1. \A u \in Thread : u # t /\ th[u].n = n => n = 0
  BY DEF KeepInv, TurnInv
<1> QED
  BY <1>1, HoldAny

\* A process that is kept elsewhere stays kept; that of the thread's own node
\* is looked at by the caller.
LEMMA LeakStep ==
  ASSUME KeepInv, NEW t \in Thread, NEW n, n = th[t].n,
         Others(t), Elsewhere(n), NoneStarted,
         \A p \in Pid : /\ proc'[p].state = "live" /\ proc[p].owner = n
                        /\ Kept(n, p, th[t], nodes, row)
                        => Kept(n, p, th'[t], nodes', row')
  PROVE  NoProcessLeaks'
<1> SUFFICES ASSUME NEW p \in Pid, NEW m, m = proc'[p].owner,
                    proc'[p].state = "live", m # 0, p \notin lost'
             PROVE  \/ m \in nodes' /\ row'[m].pid = p
                    \/ \E u \in Thread : /\ th'[u].pid = p /\ th'[u].n = m
                                         /\ th'[u].pc \in {"verify",
                                                           "markRunning"}
  BY DEF NoProcessLeaks, InHand
<1>1. proc[p].state = "live" /\ m = proc[p].owner /\ p \notin lost
  BY DEF NoneStarted
<1>2. (m \in nodes /\ row[m].pid = p) \/ InHand(p)
  BY <1>1 DEF KeepInv, NoProcessLeaks
<1>3. CASE m \in nodes /\ row[m].pid = p /\ m # n
  BY <1>3, Facts DEF Elsewhere, KeepInv
<1>4. CASE m \in nodes /\ row[m].pid = p /\ m = n
  BY <1>1, <1>4 DEF Kept
<1>5. CASE InHand(p)
  <2>1. PICK u \in Thread : /\ th[u].pid = p /\ th[u].n = m
                            /\ th[u].pc \in {"verify", "markRunning"}
    BY <1>1, <1>5 DEF InHand
  <2>2. CASE u = t
    BY <1>1, <2>1, <2>2 DEF Kept
  <2>3. CASE u # t
    BY <2>1, <2>3 DEF Others
  <2> QED
    BY <2>2, <2>3
<1> QED
  BY <1>2, <1>3, <1>4, <1>5

\* Both, for a step that starts no process.
LEMMA ThreadStep ==
  ASSUME KeepInv, NEW t \in Thread, NEW n, n = th[t].n,
         Others(t), th'[t].n \in {0, n}, Elsewhere(n), NoneStarted,
         Holds(th'[t], nodes', row', proc'),
         \A p \in Pid : /\ proc'[p].state = "live" /\ proc[p].owner = n
                        /\ Kept(n, p, th[t], nodes, row)
                        => Kept(n, p, th'[t], nodes', row')
  PROVE  TurnInv' /\ HoldInv' /\ NoProcessLeaks'
<1>1. \A p \in Pid : p <= lastPid /\ Dead(p, proc) => Dead(p, proc')
  BY Facts DEF NoneStarted, Dead, KeepInv
<1> QED
  BY <1>1, HoldStep, LeakStep

StillKept == TurnInv' /\ HoldInv' /\ NoProcessLeaks'

\* A step that leaves the processes as they are and at most writes the row.
LEMMA RowStep ==
  ASSUME KeepInv, NEW t \in Thread, NEW n, n = th[t].n,
         Others(t), th'[t].n \in {0, n}, Elsewhere(n),
         nodes' = nodes, proc' = proc, lost' = lost,
         Holds(th'[t], nodes, row', proc),
         Dead(row[n].pid, proc) \/ row'[n].pid = row[n].pid,
         th[t].pc \in {"verify", "markRunning"} =>
           \/ Dead(th[t].pid, proc)
           \/ n \in nodes /\ row'[n].pid = th[t].pid
           \/ /\ th'[t].n = n /\ th'[t].pid = th[t].pid
              /\ th'[t].pc \in {"verify", "markRunning"}
  PROVE  StillKept
<1>1. NoneStarted
  BY DEF NoneStarted
<1>2. ASSUME NEW p \in Pid, proc[p].state = "live",
             Kept(n, p, th[t], nodes, row)
      PROVE  Kept(n, p, th'[t], nodes, row')
  <2>1. p # 0 /\ ~Dead(p, proc)
    BY <1>2, Facts DEF KeepInv, Dead
  <2>2. CASE n \in nodes /\ row[n].pid = p
    BY <2>1, <2>2 DEF Kept
  <2>3. CASE th[t].pid = p /\ th[t].pc \in {"verify", "markRunning"}
    BY <2>1, <2>3 DEF Kept
  <2> QED
    BY <1>2, <2>2, <2>3 DEF Kept
<1>3. Holds(th'[t], nodes', row', proc')
  OBVIOUS
<1> QED
  BY <1>1, <1>2, <1>3, ThreadStep DEF StillKept

\* A thread that has come to one of these labels counts on nothing but its
\* node.
LEMMA Rests ==
  ASSUME NEW s, NEW N, NEW R, NEW P,
         \/ s = IdleThread
         \/ s.pc \in {"reread", "route", "reget"} /\ s.n \in N
         \/ s.pc \in {"recLoop", "routeLoop"}
  PROVE  Holds(s, N, R, P)
  BY DEF Holds, IdleThread, Copying, Replacing

\* A thread that has come to one of these, its node's process being dead.
LEMMA MayReplace ==
  ASSUME NEW s, NEW N, NEW R, NEW P, s.pc \in Replacing \cup {"markRunning"},
         s.n \in N, Dead(R[s.n].pid, P)
  PROVE  Holds(s, N, R, P)
  BY DEF Holds, Copying, Replacing

\* A start: from the check that no process runs to the row that records one.
LEMMA StartStepKeeps ==
  ASSUME KeepInv, NEW t \in Thread, StartStep(t), ~Spawn(t)
  PROVE  StillKept
<1> USE DEF db, os, ctl
<1>1. RecordInv /\ TypeOK /\ MainInv /\ Holds(th[t], nodes, row, proc)
  BY DEF KeepInv, HoldInv, MainInv, RecordInv, TypeInv
<1>2. PICK n : n = th[t].n
  OBVIOUS
<1>3. /\ Others(t) /\ nodes' = nodes /\ lost' = lost /\ IdleThread.n = 0
      /\ th'[t].n \in {0, n}
  BY <1>1, <1>2, StartStepMoves DEF IdleThread
<1>4. row' = row => Elsewhere(n)
  BY <1>3 DEF Elsewhere
<1>5. CASE Check(t)
  <2>1. /\ th[t].pc = "check" /\ n \in nodes /\ th[t].snap = row[n]
        /\ row' = row /\ proc' = proc
    BY <1>1, <1>2, <1>5 DEF Check, Holds, Copying
  <2>2. Holds(th'[t], nodes, row, proc)
    <3>1. CASE IsProcessRunning(th[t].snap.pid) /\ StartDone(t)
      BY <1>1, <1>2, <2>1, <3>1, DoneMoves, Rests
    <3>2. CASE /\ ~IsProcessRunning(th[t].snap.pid)
               /\ Fresh(t, "markStarting") \/ StartFailed(t)
      <4>1. Dead(row[n].pid, proc)
        BY <2>1, <3>2 DEF IsProcessRunning, Dead
      <4>2. \/ th'[t] = IdleThread
            \/ th'[t].pc \in {"markStarting", "recErr"} /\ th'[t].n = n
        BY <1>1, <1>2, <3>2, FreshMoves, FailedMoves
      <4> QED
        BY <2>1, <4>1, <4>2, Rests, MayReplace DEF Replacing
    <3> QED
      BY <1>5, <3>1, <3>2 DEF Check
  <2> QED
    BY <1>2, <1>3, <1>4, <2>1, <2>2, RowStep
<1>6. CASE MarkStarting(t)
  <2>1. /\ th[t].pc = "markStarting" /\ n \in nodes /\ proc' = proc
        /\ Dead(row[n].pid, proc)
    BY <1>1, <1>2, <1>6 DEF MarkStarting, Holds, Replacing
  <2>2. row'[n].pid = 0 /\ Elsewhere(n)
    BY <1>1, <1>2, <1>6, <2>1, StatusWritten DEF MarkStarting, Elsewhere
  <2>3. th'[t].pc = "spawn" /\ th'[t].n = n
    BY <1>1, <1>2, <1>6, <2>1, GotoMoves DEF MarkStarting
  <2>4. Holds(th'[t], nodes, row', proc)
    BY <2>1, <2>2, <2>3, MayReplace DEF Replacing, Dead
  <2> QED
    BY <1>2, <1>3, <2>1, <2>2, <2>4, RowStep
<1>7. CASE SpawnFails(t)
  <2>1. /\ th[t].pc = "spawn" /\ n \in nodes /\ proc' = proc /\ row' = row
        /\ Dead(row[n].pid, proc)
    BY <1>1, <1>2, <1>7 DEF SpawnFails, Holds, Replacing
  <2>2. th'[t].pc = "markError" /\ th'[t].n = n
    BY <1>1, <1>2, <1>7, GotoMoves DEF SpawnFails
  <2>3. Holds(th'[t], nodes, row', proc)
    BY <2>1, <2>2, MayReplace DEF Replacing
  <2> QED
    BY <1>2, <1>3, <1>4, <2>1, <2>3, RowStep
<1>8. CASE Verify(t)
  <2>1. /\ th[t].pc = "verify" /\ n \in nodes /\ proc' = proc /\ row' = row
        /\ Dead(row[n].pid, proc)
    BY <1>1, <1>2, <1>8 DEF Verify, Holds, Replacing
  <2>2. /\ th'[t].n = n /\ th'[t].pid = th[t].pid
        /\ th'[t].pc \in {"markRunning", "markError"}
        /\ th'[t].pc = "markError" => Dead(th[t].pid, proc)
    BY <1>1, <1>2, <1>8, GotoMoves DEF Verify, IsProcessRunning, Dead
  <2>3. Holds(th'[t], nodes, row', proc)
    BY <2>1, <2>2, MayReplace DEF Replacing
  <2> QED
    BY <1>2, <1>3, <1>4, <2>1, <2>2, <2>3, RowStep
<1>9. CASE MarkError(t)
  <2>1. /\ th[t].pc = "markError" /\ n \in nodes /\ proc' = proc
        /\ Dead(row[n].pid, proc)
    BY <1>1, <1>2, <1>9 DEF MarkError, Holds, Replacing
  <2>2. row'[n].pid = 0 /\ Elsewhere(n)
    BY <1>1, <1>2, <1>9, <2>1, StatusWritten DEF MarkError, Elsewhere
  <2>3. \/ th'[t] = IdleThread
        \/ th'[t].pc = "recErr" /\ th'[t].n = n
    BY <1>1, <1>2, <1>9, FailedMoves DEF MarkError
  <2>4. Holds(th'[t], nodes, row', proc)
    BY <2>1, <2>2, <2>3, Rests, MayReplace DEF Replacing, Dead
  <2> QED
    BY <1>2, <1>3, <2>1, <2>2, <2>4, RowStep
<1>10. CASE MarkRunning(t)
  <2>1. /\ th[t].pc = "markRunning" /\ n \in nodes /\ proc' = proc
        /\ Dead(row[n].pid, proc) \/ row[n].pid = th[t].pid
    BY <1>1, <1>2, <1>10 DEF MarkRunning, Holds
  <2>2. row'[n].pid = th[t].pid /\ Elsewhere(n)
    BY <1>1, <1>2, <1>10, <2>1, StatusWritten DEF MarkRunning, Elsewhere
  <2>3. \/ th'[t] = IdleThread
        \/ th'[t].pc \in {"recLoop", "reread"} /\ th'[t].n = n
    BY <1>1, <1>2, <1>10, <2>1, DoneMoves DEF MarkRunning
  <2>4. Holds(th'[t], nodes, row', proc)
    BY <2>1, <2>3, Rests
  <2> QED
    BY <1>2, <1>3, <2>1, <2>2, <2>4, RowStep
<1>11. CASE AddTableRoute(t)
  <2>1. th[t].pc = "route" /\ n \in nodes /\ proc' = proc /\ row' = row
    BY <1>1, <1>2, <1>11 DEF AddTableRoute, Holds
  <2>2. th'[t] = IdleThread \/ th'[t].pc = "routeLoop"
    BY <1>1, <1>11, GotoMoves, FinishMoves DEF AddTableRoute
  <2>3. Holds(th'[t], nodes, row', proc)
    BY <2>1, <2>2, Rests
  <2> QED
    BY <1>2, <1>3, <1>4, <2>1, <2>3, RowStep
<1> QED
  BY <1>5, <1>6, <1>7, <1>8, <1>9, <1>10, <1>11 DEF StartStep

\* A new process is in the hands of the thread that started it.
LEMMA SpawnKeeps ==
  ASSUME KeepInv, NEW t \in Thread, Spawn(t)
  PROVE  StillKept
<1> USE DEF db, ctl
<1>1. RecordInv /\ MainInv /\ Holds(th[t], nodes, row, proc)
  BY DEF KeepInv, HoldInv, MainInv
<1>2. PICK n, q : n = th[t].n /\ q = lastPid + 1
  OBVIOUS
<1>3. /\ q \in Pid /\ lastPid \in Nat /\ proc \in [Pid -> Process]
      /\ proc' = [proc EXCEPT ![q] = [state |-> "live", owner |-> n,
                                      child |-> TRUE]]
      /\ th' = [th EXCEPT ![t].pc = "verify", ![t].pid = q]
      /\ UNCHANGED <<nodes, row, lost>> /\ th[t].pc = "spawn"
  <2>1. lastPid < MaxPid /\ lastPid \in Nat /\ MaxPid \in Nat
    BY <1>1, LifecycleAssumption, Facts DEF LifecycleAssumption, Spawn
  <2>2. q \in Pid
    BY <1>2, <2>1 DEF Pid
  <2> QED
    BY <1>1, <1>2, <2>1, <2>2, Facts DEF Spawn
<1>4. /\ Others(t) /\ th'[t].pc = "verify" /\ th'[t].n = n /\ th'[t].pid = q
  BY <1>1, <1>2, <1>3, Facts DEF ThreadState, Others
<1>5. n \in nodes /\ Dead(row[n].pid, proc) /\ row[n].pid # q
  <2>1. n \in nodes /\ Dead(row[n].pid, proc)
    BY <1>1, <1>2, <1>3 DEF Holds, Replacing
  <2>2. row[n].pid \in Owned(n)
    BY <1>1, <2>1, Facts
  <2> QED
    BY <1>2, <1>3, <2>1, <2>2 DEF Owned
<1>6. \A p \in Pid : p # q => proc'[p] = proc[p]
  BY <1>3
<1>7. proc'[q].state = "live" /\ proc'[q].owner = n
  BY <1>3
<1>8. Elsewhere(n)
  BY <1>3 DEF Elsewhere
<1>9. TurnInv' /\ HoldInv'
  <2>1. \A p \in Pid : p <= lastPid /\ Dead(p, proc) => Dead(p, proc')
    BY <1>2, <1>3, <1>6 DEF Dead
  <2>2. Dead(row[n].pid, proc')
    BY <1>1, <1>5, <1>6, Facts DEF Dead
  <2>3. Holds(th'[t], nodes', row', proc')
    BY <1>3, <1>4, <1>5, <2>2, MayReplace DEF Replacing
  <2> QED
    BY <1>2, <1>4, <1>8, <2>1, <2>3, HoldStep
<1>10. NoProcessLeaks'
  <2> SUFFICES ASSUME NEW p \in Pid, NEW m, m = proc'[p].owner,
                      proc'[p].state = "live", m # 0, p \notin lost'
               PROVE  \/ m \in nodes' /\ row'[m].pid = p
                      \/ \E u \in Thread : /\ th'[u].pid = p /\ th'[u].n = m
                                           /\ th'[u].pc \in {"verify",
                                                             "markRunning"}
    BY DEF NoProcessLeaks, InHand
  <2>1. CASE p = q
    BY <1>4, <1>7, <2>1
  <2>2. CASE p # q
    <3>1. (m \in nodes /\ row[m].pid = p) \/ InHand(p)
      BY <1>3, <1>6, <2>2 DEF KeepInv, NoProcessLeaks
    <3>2. CASE m \in nodes /\ row[m].pid = p
      BY <1>3, <3>2
    <3>3. CASE InHand(p)
      <4>1. PICK u \in Thread : /\ th[u].pid = p /\ th[u].n = m
                                /\ th[u].pc \in {"verify", "markRunning"}
        BY <1>6, <2>2, <3>3 DEF InHand
      <4>2. u # t
        BY <1>3, <4>1
      <4> QED
        BY <1>4, <4>1, <4>2 DEF Others
    <3> QED
      BY <3>1, <3>2, <3>3
  <2> QED
    BY <2>1, <2>2
<1> QED
  BY <1>9, <1>10 DEF StillKept

\* What a handler does to its node besides starting it.
LEMMA HandlerStepKeeps ==
  ASSUME KeepInv, NEW t \in Req, HandlerStep(t)
  PROVE  StillKept
<1> USE DEF db, os, ctl
<1>1. /\ RecordInv /\ TypeOK /\ MainInv /\ HandInv /\ t \in Thread
      /\ Holds(th[t], nodes, row, proc)
  BY DEF KeepInv, HoldInv, MainInv, RecordInv, TypeInv, Thread
<1>2. PICK n : n = th[t].n
  OBVIOUS
<1>3. Others(t) /\ IdleThread.n = 0 /\ th'[t].n \in {0, n}
  BY <1>1, <1>2, HandlerStepMoves DEF IdleThread
<1>4. row' = row /\ nodes' = nodes => Elsewhere(n)
  BY DEF Elsewhere
<1>5. CASE Reread(t)
  <2>1. /\ th[t].pc = "reread" /\ n \in nodes
        /\ UNCHANGED <<nodes, row, proc, lost>>
    BY <1>1, <1>2, <1>5 DEF Reread, Holds
  <2>2. th'[t] = IdleThread \/ (th'[t].pc = "route" /\ th'[t].n = n)
    BY <1>1, <1>2, <1>5, GotoMoves, FinishMoves DEF Reread
  <2>3. Holds(th'[t], nodes, row', proc)
    BY <2>1, <2>2, Rests
  <2> QED
    BY <1>1, <1>2, <1>3, <1>4, <2>1, <2>3, RowStep
<1>6. CASE CreateFix(t)
  <2>1. /\ th[t].pc = "createFix" /\ UNCHANGED <<nodes, proc, lost>>
        /\ Dead(row[n].pid, proc)
    BY <1>1, <1>2, <1>6 DEF CreateFix, UpdateNode, Holds, Replacing
  <2>2. Elsewhere(n)
    BY <1>1, <1>2, <1>6, Facts DEF CreateFix, UpdateNode, Elsewhere
  <2>3. Holds(th'[t], nodes, row', proc)
    BY <1>1, <1>6, FinishMoves, Rests DEF CreateFix
  <2> QED
    BY <1>1, <1>2, <1>3, <2>1, <2>2, <2>3, RowStep
<1>7. CASE Kill(t)
  <2>1. PICK q : q = th[t].snap.pid
    OBVIOUS
  <2>2. /\ th[t].pc = "kill" /\ n \in nodes /\ row[n].pid = q /\ q \in Pid
        /\ UNCHANGED <<nodes, row, lost>>
    BY <1>1, <1>2, <1>7, <2>1, Facts DEF Kill, Holds, Copying, HandInv
  <2>3. proc' = IF proc[q].state = "live"
                THEN [proc EXCEPT ![q].state = "term"] ELSE proc
    BY <1>7, <2>1 DEF Kill
  <2>4. /\ \A p \in Pid : proc'[p].owner = proc[p].owner
        /\ \A p \in Pid : proc'[p].state = "live" => proc[p].state = "live"
        /\ proc'[q].state # "live"
    BY <1>1, <2>2, <2>3, Facts DEF Process
  <2>5. NoneStarted
    BY <2>2, <2>4 DEF NoneStarted
  <2>6. th'[t].pc = "markStopped" /\ th'[t].n = n
    BY <1>1, <1>2, <1>7, FreshMoves DEF Kill
  <2>7. Holds(th'[t], nodes', row', proc')
    BY <2>2, <2>4, <2>6, MayReplace DEF Replacing, Dead
  <2>8. ASSUME NEW p, Kept(n, p, th[t], nodes, row)
        PROVE  Kept(n, p, th'[t], nodes', row')
    BY <2>2, <2>8 DEF Kept
  <2> QED
    BY <1>1, <1>2, <1>3, <1>4, <2>2, <2>5, <2>7, <2>8, ThreadStep
    DEF StillKept
<1>8. CASE MarkStopped(t)
  <2>1. /\ th[t].pc = "markStopped" /\ n \in nodes /\ UNCHANGED <<proc, lost>>
        /\ Dead(row[n].pid, proc)
    BY <1>1, <1>2, <1>8 DEF MarkStopped, Holds, Replacing
  <2>2. row'[n].pid = 0 /\ Elsewhere(n) /\ nodes' = nodes
    BY <1>1, <1>2, <1>8, <2>1, StatusWritten DEF MarkStopped, Elsewhere
  <2>3. \/ th'[t] = IdleThread
        \/ th'[t].pc \in {"deleteRow", "reget"} /\ th'[t].n = n
    BY <1>1, <1>2, <1>8, GotoMoves, FinishMoves DEF MarkStopped
  <2>4. Holds(th'[t], nodes, row', proc)
    BY <2>1, <2>2, <2>3, Rests, MayReplace DEF Replacing, Dead
  <2> QED
    BY <1>1, <1>2, <1>3, <2>1, <2>2, <2>4, RowStep
<1>9. CASE Reget(t)
  <2>1. /\ th[t].pc = "reget" /\ n \in nodes
        /\ UNCHANGED <<nodes, row, proc, lost>>
    BY <1>1, <1>2, <1>9 DEF Reget, Holds
  <2>2. th' = [th EXCEPT ![t].op = "start", ![t].pc = "check",
                         ![t].snap = row[th[t].n]]
    BY <1>2, <1>9, <2>1 DEF Reget
  <2>3. th'[t].pc = "check" /\ th'[t].n = n /\ th'[t].snap = row[n]
    BY <1>1, <1>2, <2>2, Facts DEF ThreadState
  <2>4. Holds(th'[t], nodes, row', proc)
    BY <2>1, <2>3 DEF Holds, Replacing
  <2> QED
    BY <1>1, <1>2, <1>3, <1>4, <2>1, <2>4, RowStep
<1>10. CASE DeleteRow(t)
  <2>1. /\ th[t].pc = "deleteRow" /\ n \in nodes /\ UNCHANGED <<proc, lost>>
        /\ Dead(row[n].pid, proc)
    BY <1>1, <1>2, <1>10 DEF DeleteRow, Holds, Replacing
  <2>2. Elsewhere(n) /\ NoneStarted
    BY <1>1, <1>2, <1>10, <2>1, Facts DEF DeleteRow, Elsewhere, NoneStarted
  <2>3. Holds(th'[t], nodes', row', proc')
    BY <1>1, <1>10, FinishMoves, Rests DEF DeleteRow
  <2>4. ASSUME NEW p \in Pid, proc'[p].state = "live",
               Kept(n, p, th[t], nodes, row)
        PROVE  FALSE
    BY <1>1, <2>1, <2>4, Facts DEF Kept, Dead
  <2> QED
    BY <1>1, <1>2, <1>3, <2>2, <2>3, <2>4, ThreadStep DEF StillKept
<1>11. CASE WriteRow(t)
  <2>1. /\ th[t].pc = "write" /\ n \in nodes /\ th[t].snap = row[n]
        /\ UNCHANGED <<proc, lost>>
    BY <1>1, <1>2, <1>11 DEF WriteRow, Holds, Copying
  <2>2. PICK en : UpdateNode(n, [th[t].snap EXCEPT !.enabled = en])
    BY <1>2, <1>11 DEF WriteRow
  <2>3. PICK new : new.pid = row[n].pid /\ UpdateNode(n, new)
    <3>1. [row[n] EXCEPT !.enabled = en].pid = row[n].pid
      BY <1>1, <2>1, Facts DEF Row
    <3> QED
      BY <2>1, <2>2, <3>1
  <2>4. Elsewhere(n) /\ row'[n].pid = row[n].pid /\ nodes' = nodes
    BY <1>1, <2>1, <2>3, Facts DEF UpdateNode, Elsewhere
  <2>5. Holds(th'[t], nodes, row', proc)
    BY <1>1, <1>11, FinishMoves, Rests DEF WriteRow
  <2> QED
    BY <1>1, <1>2, <1>3, <2>1, <2>4, <2>5, RowStep
<1>12. CASE Probe(t)
  <2>1. /\ th[t].pc = "probed" /\ n \in nodes /\ th[t].snap = row[n]
        /\ UNCHANGED <<nodes, row, proc, lost>>
    BY <1>1, <1>2, <1>12 DEF Probe, Holds, Copying
  <2>2. Holds(th'[t], nodes, row', proc)
    <3>1. CASE Finish(t)
      BY <1>1, <3>1, FinishMoves, Rests
    <3>2. ASSUME NEW l, th' = [th EXCEPT ![t].pc = l,
                                         ![t].pid = th[t].snap.pid]
          PROVE  /\ th'[t].pc = l /\ th'[t].n = n
                 /\ th'[t].pid = row[n].pid
      BY <1>1, <1>2, <2>1, <3>2, Facts DEF ThreadState
    <3>3. CASE /\ IsProcessRunning(th[t].snap.pid)
               /\ th' = [th EXCEPT ![t].pc = "markRunning",
                                   ![t].pid = th[t].snap.pid]
      <4>1. /\ th'[t].pc = "markRunning" /\ th'[t].n = n
            /\ th'[t].pid = row'[n].pid
        BY <2>1, <3>2, <3>3
      <4> QED
        BY <2>1, <4>1 DEF Holds, Copying, Replacing
    <3>4. CASE /\ ~IsProcessRunning(th[t].snap.pid)
               /\ th' = [th EXCEPT ![t].pc = "markError",
                                   ![t].pid = th[t].snap.pid]
      <4>1. Dead(row[n].pid, proc)
        BY <2>1, <3>4 DEF IsProcessRunning, Dead
      <4>2. th'[t].pc = "markError" /\ th'[t].n = n
        BY <3>2, <3>4
      <4> QED
        BY <2>1, <4>1, <4>2, MayReplace DEF Replacing
    <3> QED
      BY <1>12, <3>1, <3>3, <3>4 DEF Probe
  <2> QED
    BY <1>1, <1>2, <1>3, <1>4, <2>1, <2>2, RowStep
<1> QED
  BY <1>1, <1>5, <1>6, <1>7, <1>8, <1>9, <1>10, <1>11, <1>12,
     StartStepKeeps, SpawnKeeps
  DEF HandlerStep

\* A thread takes up a node that no other thread works on.
LEMMA TakeNode ==
  ASSUME KeepInv, NEW t \in Thread, NEW n \in Id,
         th[t].pc \notin {"verify", "markRunning"},
         \A u \in Thread : u # t => th[u].n # n,
         Others(t), th'[t].n = n, proc' = proc, lost' = lost, Elsewhere(n),
         n \in nodes => row'[n] = row[n] /\ n \in nodes',
         Holds(th'[t], nodes', row', proc)
  PROVE  StillKept
<1>1. TurnInv' /\ HoldInv'
  BY HoldAny
<1>2. NoProcessLeaks'
  <2> SUFFICES ASSUME NEW p \in Pid, NEW m, m = proc[p].owner,
                      proc[p].state = "live", m # 0, p \notin lost
               PROVE  \/ m \in nodes' /\ row'[m].pid = p
                      \/ \E u \in Thread : /\ th'[u].pid = p /\ th'[u].n = m
                                           /\ th'[u].pc \in {"verify",
                                                             "markRunning"}
    BY DEF NoProcessLeaks, InHand
  <2>1. (m \in nodes /\ row[m].pid = p) \/ InHand(p)
    BY DEF KeepInv, NoProcessLeaks
  <2>2. CASE m \in nodes /\ row[m].pid = p
    BY <2>2, Facts DEF Elsewhere, KeepInv
  <2>3. CASE InHand(p)
    <3>1. PICK u \in Thread : /\ th[u].pid = p /\ th[u].n = m
                              /\ th[u].pc \in {"verify", "markRunning"}
      BY <2>3 DEF InHand
    <3> QED
      BY <3>1 DEF Others
  <2> QED
    BY <2>1, <2>2, <2>3
<1> QED
  BY <1>1, <1>2 DEF StillKept

\* While the API serves Main has no node, and while it does not the request
\* threads have none.
LEMMA FreeThreads ==
  ASSUME KeepInv
  PROVE  /\ mgr = "serving" => th[Main].n = 0
         /\ mgr # "serving" => \A r \in Req : th[r].n = 0
         /\ \A t \in Thread : th[t].pc = "idle" => th[t].n = 0
  BY Facts DEF KeepInv, HoldInv, Holds, MainInv, AloneInv

\* A request takes up a node that nobody works on; here Serial is needed.
LEMMA RequestKeeps ==
  ASSUME Serial, KeepInv, NEW r \in Req, Request(r)
  PROVE  StillKept
<1> USE DEF db, os, ctl
<1>1. RecordInv /\ MainInv /\ r \in Thread
  BY DEF KeepInv, MainInv, Thread
<1>2. ASSUME NEW o, NEW n \in Id, NEW l, Read(r, o, n, l),
             \/ l \in {"check", "write", "kill", "probed", "reget"}
             \/ l = "deleteRow" /\ row[n].pid = 0
      PROVE  StillKept
  <2> DEFINE s == [op |-> o, pc |-> l, n |-> n, snap |-> row[n], pid |-> 0]
  <2>1. /\ s.n = n /\ s.snap = row[n] /\ s.pc = l /\ s.pid = 0
        /\ th' = [th EXCEPT ![r] = s]
    BY <1>2 DEF Read
  <2> HIDE DEF s
  <2>2. Others(r) /\ th'[r] = s
    BY <1>1, <2>1, SetMoves
  <2>3. /\ n \in nodes /\ th[r].pc = "idle" /\ mgr = "serving"
        /\ \A u \in Req : th[u].n # n
        /\ UNCHANGED <<nodes, row, proc, lost>>
    BY <1>2 DEF Read, Accepts
  <2>4. \A u \in Thread : th[u].n # n
    BY <2>3, FreeThreads, Facts, <1>1 DEF Thread
  <2>5. Holds(s, nodes, row, proc)
    BY <1>2, <2>1, <2>3 DEF Holds, Copying, Replacing, Dead
  <2>6. Elsewhere(n)
    BY <2>3 DEF Elsewhere
  <2> QED
    BY <1>1, <2>1, <2>2, <2>3, <2>4, <2>5, <2>6, TakeNode
<1>3. CASE CreateRequest(r)
  <2>1. PICK en \in BOOLEAN : CreateWith(r, en)
    BY <1>3, CreateShape
  <2>2. PICK n : n = lastId'
    OBVIOUS
  <2> DEFINE s == [op |-> "create", pc |-> "createFix", n |-> n,
                   snap |-> [NewRow(en) EXCEPT !.status = "stopped",
                                               !.named = TRUE],
                   pid |-> 0]
  <2>3. /\ th' = [th EXCEPT ![r] = s] /\ s.pc = "createFix" /\ s.n = n
        /\ row' = [row EXCEPT ![n] = NewRow(en)]
    BY <2>1, <2>2 DEF CreateWith
  <2> HIDE DEF s
  <2>4. Others(r) /\ th'[r] = s
    BY <1>1, <2>3, SetMoves
  <2>5. /\ n = lastId + 1 /\ n \in Id /\ nodes' = nodes \cup {n}
        /\ th[r].pc = "idle" /\ UNCHANGED <<proc, lost>>
    <3>1. lastId \in Nat /\ lastId < MaxNode /\ MaxNode \in Nat
      BY <1>1, <1>3, Facts, LifecycleAssumption
      DEF CreateRequest, LifecycleAssumption
    <3>2. /\ lastId' = lastId + 1 /\ nodes' = nodes \cup {n}
          /\ th[r].pc = "idle" /\ proc' = proc /\ lost' = lost
      BY <1>3, <2>2 DEF CreateRequest, Accepts
    <3>3. lastId + 1 \in Id
      BY <3>1 DEF Id
    <3> QED
      BY <2>2, <3>2, <3>3
  <2>6. n \notin nodes /\ \A u \in Thread : th[u].n # n
    <3>1. lastId \in Nat /\ \A u \in Thread : th[u].n \in Nat
      BY <1>1, Facts DEF Id
    <3> QED
      BY <2>5, <3>1 DEF KeepInv, BoundInv
  <2>7. Elsewhere(n) /\ row'[n].pid = 0
    BY <1>1, <2>3, <2>5, Facts DEF Elsewhere, NewRow
  <2>8. Holds(s, nodes', row', proc)
    BY <2>3, <2>5, <2>7, MayReplace DEF Replacing, Dead
  <2> QED
    BY <1>1, <2>3, <2>4, <2>5, <2>6, <2>7, <2>8, TakeNode
<1> QED
  BY <1>2, <1>3
  DEF Request, StartRequest, StopRequest, RestartRequest, DeleteRequest,
      UpdateRequest, StatusRequest

\* The recovery works on one node at a time, and no request runs.
LEMMA MainStepKeeps ==
  ASSUME KeepInv, MainStep
  PROVE  StillKept
<1> USE DEF db, os, ctl
<1>1. /\ RecordInv /\ MainInv /\ TypeOK /\ RecInv /\ Main \in Thread
      /\ Holds(th[Main], nodes, row, proc)
  BY DEF KeepInv, HoldInv, MainInv, RecordInv, TypeInv, Thread
<1>2. /\ Others(Main) /\ th[Main].pc # "idle"
      /\ \A u \in Thread : u # Main => th[u].n = 0
  BY <1>1, MainStepMoves, FreeThreads DEF MainInv, AloneInv, Thread
<1>3. /\ \A m \in Id : m # 0 /\ (m \in todo => m \in nodes)
      /\ todo \subseteq Id
  BY <1>1, <1>2, Facts DEF RecInv
<1>4. CASE RecoverNext
  <2>1. PICK n \in todo :
          th' = [th EXCEPT ![Main] =
                   [op |-> "recover", n |-> n, snap |-> row[n],
                    pc |-> IF IsProcessRunning(row[n].pid)
                           THEN "markRunning" ELSE "check",
                    pid |-> IF IsProcessRunning(row[n].pid)
                            THEN row[n].pid ELSE 0]]
    BY <1>4 DEF RecoverNext
  <2> DEFINE s == [op |-> "recover", n |-> n, snap |-> row[n],
                   pc |-> IF IsProcessRunning(row[n].pid)
                          THEN "markRunning" ELSE "check",
                   pid |-> IF IsProcessRunning(row[n].pid)
                           THEN row[n].pid ELSE 0]
  <2>2. /\ s.n = n /\ s.snap = row[n] /\ s.pc \in {"markRunning", "check"}
        /\ s.pc = "markRunning" => s.pid = row[n].pid
        /\ th' = [th EXCEPT ![Main] = s]
    BY <2>1
  <2> HIDE DEF s
  <2>3. th'[Main] = s
    BY <1>1, <2>2, SetMoves
  <2>4. /\ th[Main].pc = "recLoop" /\ n \in nodes /\ n \in Id /\ n # 0
        /\ UNCHANGED <<nodes, row, proc, lost>>
    BY <1>3, <1>4 DEF RecoverNext, MainAt
  <2>5. Holds(s, nodes, row, proc)
    BY <2>2, <2>4 DEF Holds, Copying, Replacing
  <2>6. Elsewhere(n)
    BY <2>4 DEF Elsewhere
  <2> QED
    BY <1>1, <1>2, <2>2, <2>3, <2>4, <2>5, <2>6, TakeNode
<1>5. CASE RouteNext
  <2>1. PICK n \in todo :
          th' = [th EXCEPT ![Main] = [IdleThread EXCEPT
                   !.op = "recover", !.pc = "route", !.n = n]]
    BY <1>5 DEF RouteNext
  <2> DEFINE s == [IdleThread EXCEPT !.op = "recover", !.pc = "route",
                                     !.n = n]
  <2>2. s.pc = "route" /\ s.n = n /\ th' = [th EXCEPT ![Main] = s]
    BY <2>1 DEF IdleThread
  <2> HIDE DEF s
  <2>3. th'[Main] = s
    BY <1>1, <2>2, SetMoves
  <2>4. /\ th[Main].pc = "routeLoop" /\ n \in nodes /\ n \in Id /\ n # 0
        /\ UNCHANGED <<nodes, row, proc, lost>>
    BY <1>3, <1>5 DEF RouteNext, MainAt
  <2>5. Holds(s, nodes, row, proc)
    BY <2>2, <2>4, Rests
  <2>6. Elsewhere(n)
    BY <2>4 DEF Elsewhere
  <2> QED
    BY <1>1, <1>2, <2>2, <2>3, <2>4, <2>5, <2>6, TakeNode
<1>6. PICK n : n = th[Main].n
  OBVIOUS
<1>7. CASE RecoverError
  <2>1. /\ th[Main].pc = "recErr" /\ n \in nodes /\ UNCHANGED <<proc, lost>>
        /\ Dead(row[n].pid, proc)
    BY <1>1, <1>6, <1>7 DEF RecoverError, MainAt, Holds, Replacing
  <2>2. Elsewhere(n) /\ nodes' = nodes
    BY <1>1, <1>6, <1>7, <2>1, StatusWritten DEF RecoverError, Elsewhere
  <2>3. th'[Main].pc = "recLoop" /\ th'[Main].n = n
    BY <1>1, <1>6, <1>7, FreshMoves DEF RecoverError
  <2>4. Holds(th'[Main], nodes, row', proc)
    BY <2>3, Rests
  <2> QED
    BY <1>1, <1>2, <1>6, <2>1, <2>2, <2>3, <2>4, RowStep
<1>8. CASE RecoverEnd \/ Serve
  <2>1. /\ th[Main].pc \in {"recLoop", "routeLoop"}
        /\ UNCHANGED <<nodes, row, proc, lost>>
    BY <1>8 DEF RecoverEnd, Serve, MainAt
  <2>2. \/ th'[Main] = IdleThread
        \/ th'[Main].pc = "routeLoop" /\ th'[Main].n = n
    BY <1>1, <1>6, <1>8, GotoMoves, FinishMoves DEF RecoverEnd, Serve
  <2>3. Holds(th'[Main], nodes, row', proc) /\ th'[Main].n \in {0, n}
    BY <2>2, Rests DEF IdleThread
  <2>4. Elsewhere(n)
    BY <2>1 DEF Elsewhere
  <2> QED
    BY <1>1, <1>2, <1>6, <2>1, <2>3, <2>4, RowStep
<1> QED
  BY <1>1, <1>4, <1>5, <1>7, <1>8, StartStepKeeps, SpawnKeeps DEF MainStep

\* What happens without a thread.
LEMMA HostKeeps ==
  ASSUME KeepInv, Boot \/ Crash \/ \E p \in Pid : ProcExit(p)
  PROVE  StillKept
<1> USE DEF db, ctl
<1>1. /\ RecordInv /\ MainInv /\ Main \in Thread
      /\ IdleThread.n = 0 /\ IdleThread.pc = "idle"
  BY DEF KeepInv, MainInv, Thread, IdleThread
<1>2. CASE Boot
  <2> DEFINE s == [IdleThread EXCEPT !.op = "recover", !.pc = "recLoop"]
  <2>1. s.n = 0 /\ s.pc = "recLoop" /\ th' = [th EXCEPT ![Main] = s]
    BY <1>2 DEF Boot, IdleThread
  <2> HIDE DEF s
  <2>2. Others(Main) /\ th'[Main] = s
    BY <1>1, <2>1, SetMoves
  <2>3. UNCHANGED <<nodes, row, proc, lost>> /\ th[Main].pc = "idle"
    BY <1>1, <1>2 DEF Boot, os, MainInv, AloneInv
  <2>4. PICK n : n = th[Main].n
    OBVIOUS
  <2>5. Elsewhere(n) /\ Holds(s, nodes, row, proc)
    BY <2>1, <2>3, Rests DEF Elsewhere
  <2> QED
    BY <1>1, <2>1, <2>2, <2>3, <2>4, <2>5, RowStep
<1>3. CASE Crash
  <2>1. /\ \A t \in Thread : th'[t] = IdleThread
        /\ UNCHANGED <<nodes, row>>
    BY <1>3 DEF Crash
  <2>2. TurnInv'
    BY <1>1, <2>1 DEF TurnInv
  <2>3. \A t \in Thread : Holds(th'[t], nodes', row', proc')
    BY <2>1, Rests
  <2>4. \A p \in Pid : /\ proc'[p].owner = proc[p].owner
                       /\ proc'[p].state = "live" => proc[p].state = "live"
    <3> SUFFICES ASSUME NEW p \in Pid
                 PROVE  /\ proc'[p].owner = proc[p].owner
                        /\ proc'[p].state = "live" => proc[p].state = "live"
      OBVIOUS
    <3>1. proc'[p] = [proc[p] EXCEPT !.child = FALSE,
                        !.state = IF @ = "zombie" THEN "free" ELSE @]
      BY <1>3 DEF Crash
    <3>2. proc[p] \in Process
      BY <1>1, Facts
    <3> QED
      BY <3>1, <3>2 DEF Process
  <2>5. NoProcessLeaks'
    <3> SUFFICES ASSUME NEW p \in Pid, NEW m, m = proc[p].owner,
                        proc[p].state = "live", m # 0, p \notin lost'
                 PROVE  m \in nodes /\ row[m].pid = p
      BY <2>1, <2>4 DEF NoProcessLeaks
    <3>1. p \notin lost
      BY <1>3 DEF Crash
    <3>2. (m \in nodes /\ row[m].pid = p) \/ InHand(p)
      BY <3>1 DEF KeepInv, NoProcessLeaks
    <3>3. CASE InHand(p)
      <4>1. \E t \in Thread : /\ th[t].pc \in {"verify", "markRunning"}
                              /\ th[t].pid = p
        BY <3>3 DEF InHand
      <4>2. p \in {th[t].pid : t \in {u \in Thread :
                            th[u].pc \in {"verify", "markRunning"}}}
        BY <4>1
      <4>3. p \in {row[k].pid : k \in nodes}
        BY <1>3, <4>2 DEF Crash
      <4>4. PICK k \in nodes : row[k].pid = p
        BY <4>3
      <4>5. k \in Id /\ p \in Owned(k) /\ p # 0
        BY <1>1, <4>4, Facts
      <4>6. m = k
        BY <4>5 DEF Owned
      <4> QED
        BY <4>4, <4>6
    <3> QED
      BY <3>2, <3>3
  <2> QED
    BY <2>2, <2>3, <2>5 DEF StillKept, HoldInv
<1>4. ASSUME NEW q \in Pid, ProcExit(q) PROVE StillKept
  <2>1. UNCHANGED <<nodes, row, lost, th>> /\ proc \in [Pid -> Process]
    BY <1>1, <1>4, Facts DEF ProcExit
  <2>2. \A p \in Pid : /\ proc'[p].owner = proc[p].owner
                       /\ proc'[p].state = "live" => proc[p].state = "live"
    BY <1>4, <2>1 DEF ProcExit, Process
  <2>3. PICK n : n = th[Main].n
    OBVIOUS
  <2>4. Holds(th[Main], nodes, row, proc')
    <3>1. Holds(th[Main], nodes, row, proc)
      BY <1>1 DEF KeepInv, HoldInv
    <3>2. CASE th[Main].n \in nodes
      <4>1. row[n].pid \in Pid \cup {0}
        BY <1>1, <2>3, <3>2, Facts
      <4>2. Dead(row[n].pid, proc) => Dead(row[n].pid, proc')
        BY <2>2, <4>1 DEF Dead
      <4> QED
        BY <2>3, <3>1, <4>2 DEF Holds
    <3>3. CASE th[Main].n \notin nodes
      BY <3>1, <3>3 DEF Holds, Copying, Replacing
    <3> QED
      BY <3>2, <3>3
  <2>5. Others(Main) /\ Elsewhere(n) /\ NoneStarted
    BY <2>1, <2>2 DEF Others, Elsewhere, NoneStarted
  <2>6. \A p : Kept(n, p, th[Main], nodes, row)
               => Kept(n, p, th'[Main], nodes', row')
    BY <2>1
  <2> QED
    BY <1>1, <2>1, <2>3, <2>4, <2>5, <2>6, ThreadStep DEF StillKept
<1> QED
  BY <1>2, <1>3, <1>4

\* Ids only grow.
LEMMA BoundStep ==
  ASSUME KeepInv, Next
  PROVE  BoundInv'
<1> USE DEF db
<1>1. /\ RecordInv /\ MainInv /\ TypeOK /\ BoundInv /\ AloneInv /\ RecInv
      /\ Main \in Thread /\ Req \subseteq Thread /\ lastId \in Nat
      /\ IdleThread.n = 0
  BY Facts DEF KeepInv, MainInv, RecordInv, TypeInv, Thread, IdleThread
<1>2. ASSUME NEW t \in Thread, Others(t), nodes' \subseteq nodes,
             lastId' = lastId, th'[t].n \in nodes \cup {0, th[t].n}
      PROVE  BoundInv'
  <2>1. \A u \in Thread : th'[u].n <= lastId
    <3>1. /\ 0 <= lastId /\ \A n \in nodes : n <= lastId
          /\ \A u \in Thread : th[u].n <= lastId
      BY <1>1 DEF BoundInv
    <3> QED
      BY <1>2, <3>1 DEF Others
  <2> QED
    BY <1>2, <2>1 DEF BoundInv, KeepInv
<1>3. ASSUME NEW r \in Req, HandlerStep(r) PROVE BoundInv'
  <2>1. nodes' \subseteq nodes /\ lastId' = lastId
    BY <1>3 DEF HandlerStep, StartStep, Check, MarkStarting, Spawn, SpawnFails,
       Verify, MarkError, MarkRunning, AddTableRoute, Reread, CreateFix, Kill,
       MarkStopped, Reget, DeleteRow, WriteRow, Probe, UpdateNode,
       UpdateNodeStatus
  <2> QED
    BY <1>1, <1>2, <1>3, <2>1, HandlerStepMoves
<1>4. ASSUME NEW r \in Req, NEW o, NEW n, NEW l, Read(r, o, n, l)
      PROVE  BoundInv'
  <2> DEFINE s == [op |-> o, pc |-> l, n |-> n, snap |-> row[n], pid |-> 0]
  <2>1. s.n = n /\ n \in nodes /\ th' = [th EXCEPT ![r] = s]
        /\ nodes' = nodes /\ lastId' = lastId
    BY <1>4 DEF Read
  <2> HIDE DEF s
  <2>2. Others(r) /\ th'[r] = s
    BY <1>1, <2>1, SetMoves
  <2> QED
    BY <1>1, <1>2, <2>1, <2>2
<1>5. ASSUME NEW r \in Req, CreateRequest(r) PROVE BoundInv'
  <2>1. PICK en \in BOOLEAN : CreateWith(r, en)
    BY <1>5, CreateShape
  <2> DEFINE s == [op |-> "create", pc |-> "createFix", n |-> lastId',
                   snap |-> [NewRow(en) EXCEPT !.status = "stopped",
                                               !.named = TRUE],
                   pid |-> 0]
  <2>2. s.n = lastId' /\ th' = [th EXCEPT ![r] = s]
    BY <2>1 DEF CreateWith
  <2> HIDE DEF s
  <2>3. Others(r) /\ th'[r] = s
    BY <1>1, <2>2, SetMoves
  <2>4. lastId' = lastId + 1 /\ nodes' = nodes \cup {lastId'}
    BY <1>5 DEF CreateRequest
  <2>5. \A u \in Thread : th[u].n \in Nat
    BY <1>1, Facts DEF Id
  <2>6. \A u \in Thread : th'[u].n <= lastId'
    BY <1>1, <2>2, <2>3, <2>4, <2>5 DEF BoundInv, Others
  <2>7. nodes' \subseteq 1..lastId'
    BY <1>1, <2>4 DEF BoundInv
  <2> QED
    BY <2>6, <2>7 DEF BoundInv
<1>6. ASSUME NEW r \in Req, Request(r) PROVE BoundInv'
  BY <1>4, <1>5, <1>6
  DEF Request, StartRequest, StopRequest, RestartRequest, DeleteRequest,
      UpdateRequest, StatusRequest
<1>7. CASE MainStep
  <2>1. Others(Main) /\ todo \subseteq nodes
    BY <1>1, <1>7, MainStepMoves DEF RecInv
  <2>2. nodes' = nodes /\ lastId' = lastId
    BY <1>1, <1>7, StartStepMoves
    DEF MainStep, RecoverNext, RecoverError, RecoverEnd, RouteNext, Serve,
        UpdateNodeStatus
  <2>3. th'[Main].n \in nodes \cup {0, th[Main].n}
    <3>1. CASE StartStep(Main)
      BY <1>1, <3>1, StartStepMoves
    <3>2. CASE RecoverNext
      BY <1>1, <2>1, <3>2 DEF RecoverNext, TypeOK
    <3>3. CASE RouteNext
      BY <1>1, <2>1, <3>3 DEF RouteNext, TypeOK, IdleThread
    <3>4. CASE RecoverError \/ RecoverEnd \/ Serve
      BY <1>1, <3>4, FreshMoves, GotoMoves, FinishMoves
      DEF RecoverError, RecoverEnd, Serve
    <3> QED
      BY <1>7, <3>1, <3>2, <3>3, <3>4 DEF MainStep
  <2> QED
    BY <1>1, <1>2, <2>1, <2>2, <2>3
<1>8. CASE Boot
  <2> DEFINE s == [IdleThread EXCEPT !.op = "recover", !.pc = "recLoop"]
  <2>1. s.n = 0 /\ th' = [th EXCEPT ![Main] = s]
    BY <1>8 DEF Boot, IdleThread
  <2> HIDE DEF s
  <2>2. Others(Main) /\ th'[Main] = s
    BY <1>1, <2>1, SetMoves
  <2> QED
    BY <1>1, <1>2, <1>8, <2>1, <2>2 DEF Boot
<1>9. CASE Crash
  <2>1. 0 <= lastId
    BY <1>1
  <2>2. UNCHANGED <<nodes, lastId>>
    BY <1>9 DEF Crash
  <2>3. \A t \in Thread : th'[t].n = 0
    BY <1>1, <1>9 DEF Crash
  <2> QED
    BY <1>1, <2>1, <2>2, <2>3 DEF BoundInv
<1>10. ASSUME NEW p \in Pid, ProcExit(p) PROVE BoundInv'
  BY <1>1, <1>10 DEF ProcExit, BoundInv
<1> QED
  BY <1>3, <1>6, <1>7, <1>8, <1>9, <1>10 DEF Next

\* All together.
LEMMA NextKeepInv ==
  ASSUME Serial
  PROVE  KeepInv /\ [Next]_vars => KeepInv'
<1> SUFFICES ASSUME KeepInv, [Next]_vars PROVE KeepInv'
  OBVIOUS
<1>1. MainInv'
  BY NextMainInv DEF KeepInv
<1>2. CASE Next
  BY <1>1, <1>2, BoundStep, RequestKeeps, HandlerStepKeeps, MainStepKeeps,
     HostKeeps
  DEF Next, StillKept, KeepInv
<1>3. CASE UNCHANGED vars
  BY <1>1, <1>3
  DEF vars, KeepInv, BoundInv, TurnInv, HoldInv, NoProcessLeaks, InHand
<1> QED
  BY <1>2, <1>3

LEMMA InitKeepInv == Init => KeepInv
<1> SUFFICES ASSUME Init PROVE KeepInv
  OBVIOUS
<1>1. MainInv
  BY InitMainInv
<1>2. \A t \in Thread : th[t] = IdleThread /\ th[t].n = 0
  BY DEF Init, IdleThread
<1>3. BoundInv
  BY <1>2, LifecycleAssumption DEF Init, BoundInv, LifecycleAssumption
<1>4. TurnInv /\ HoldInv
  BY <1>2, Rests DEF TurnInv, HoldInv
<1>5. NoProcessLeaks
  <2>1. \A p \in Pid : proc[p].state = "free"
    BY DEF Init, FreeProcess
  <2> QED
    BY <2>1 DEF NoProcessLeaks
<1> QED
  BY <1>1, <1>3, <1>4, <1>5 DEF KeepInv

\* No process is forgotten: one that nobody told to stop is recorded in its
\* node's row or about to be, unless the Manager died in between.
THEOREM NothingLeaks ==
  ASSUME Serial
  PROVE  Spec => []NoProcessLeaks
<1>1. KeepInv => NoProcessLeaks
  BY DEF KeepInv
<1> QED
  BY <1>1, InitKeepInv, NextKeepInv, PTL DEF Spec

\* No node has two processes that are both meant to run.
THEOREM OneEach ==
  ASSUME Serial
  PROVE  Spec => []OneProcessPerNode
<1>1. KeepInv => OneProcessPerNode
  <2> SUFFICES ASSUME KeepInv, NEW p \in Pid \ lost, NEW q \in Pid \ lost,
                      NEW n, n = proc[p].owner, n = proc[q].owner, n # 0,
                      proc[p].state = "live", proc[q].state = "live"
               PROVE  p = q
    BY DEF OneProcessPerNode
  <2>1. ASSUME NEW r \in Pid \ lost, proc[r].owner = n,
               proc[r].state = "live"
        PROVE  \/ n \in nodes /\ row[n].pid = r
               \/ \E t \in Thread : /\ th[t].pid = r /\ th[t].n = n
                                    /\ th[t].pc \in {"verify", "markRunning"}
    BY <2>1 DEF KeepInv, NoProcessLeaks, InHand
  <2>2. ASSUME NEW t \in Thread, NEW r \in Pid, th[t].n = n,
               proc[r].state = "live", row[n].pid = r,
               th[t].pc \in {"verify", "markRunning"}
        PROVE  th[t].pid = r
    <3>1. Holds(th[t], nodes, row, proc) /\ r # 0
      BY Facts DEF KeepInv, HoldInv
    <3> QED
      BY <2>2, <3>1 DEF Holds, Replacing, Dead
  <2>3. \A t, u \in Thread : th[t].n = n /\ th[u].n = n => t = u
    BY DEF KeepInv, TurnInv
  <2>4. CASE n \in nodes /\ row[n].pid = p
    BY <2>1, <2>2, <2>4
  <2>5. ASSUME NEW t \in Thread, th[t].pid = p, th[t].n = n,
               th[t].pc \in {"verify", "markRunning"}
        PROVE  p = q
    BY <2>1, <2>2, <2>3, <2>5
  <2> QED
    BY <2>1, <2>4, <2>5
<1> QED
  BY <1>1, InitKeepInv, NextKeepInv, PTL DEF Spec
=============================================================================
