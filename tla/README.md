# A formal model of the sing-box manager

TLA+ modules, TLC configurations and TLAPS proofs for the Manager in
`src/cmd/manager` and `src/internal`: a Go server that runs one sing-box process
and one TUN device per proxy node, routes LAN clients to nodes with Linux policy
routing, and configures a MikroTik router and DNS records along with it. The
models are written from the source; the documents under `src/docs` are only
quoted where they promise something the code can be compared with.

Paths below are relative to `src/`.

- [The system](#the-system)
- [Modules](#modules)
- [NodeLifecycle](#nodelifecycle)
- [RoutingRules](#routingrules)
- [PortMappingNAT and NatMirror](#portmappingnat-and-natmirror)
- [DDNS](#ddns)
- [NodeConfig](#nodeconfig)
- [WordLength](#wordlength)
- [Runs and bounds](#runs-and-bounds)
- [Where documents and code differ](#where-documents-and-code-differ)
- [Proofs](#proofs)
- [What is not modelled](#what-is-not-modelled)
- [Plan](#plan)

## The system

The Manager is one process. `main` (cmd/manager/main.go) opens the database,
connects to the router, recovers nodes and rules, starts the health checker and
the DDNS updater, and then serves the API. Each API request is a goroutine (gin).
Handlers take no lock; the only mutex of the program is in the MikroTik client,
for port mappings. SQLite is opened with one connection (storage/db.go), so a
single SQL statement is atomic and nothing larger is; foreign keys are declared
and never enabled.

| Component | State | Operations | Hard behaviour | What makes it correct |
|---|---|---|---|---|
| Node lifecycle: `singbox/manager.go`, `singbox/process.go`, `api/handlers/node.go`, `storage/node.go` | rows of `proxy_nodes` (status, pid, enabled), processes, TUN devices, table routes | create, start, stop, restart, update, delete, status; recovery at start | requests on one node interleave; whole rows are written back after a while; the Manager or the host goes down between fork and record; children are never reaped | a row records only its own node's process; status and pid agree; no process is forgotten or doubled; signals hit their own process; the recovery settles every node |
| Routing rules: `api/handlers/rule.go`, `storage/rule.go`, `network/routing.go` | rows of `routing_rules`, the kernel's rules, the router's rules | create, update, delete, enable, disable; recovery | one change spans a row, a kernel rule and a router entry; any of them may fail, and crashes come between; nodes vanish under rules | the kernel holds a rule only if a row stands for it; enabled rules are installed; one rule per address |
| Port mappings: `api/handlers/port_mapping.go`, `storage/port_mapping.go`, `mikrotik/nat.go` | rows of `port_mappings`, NAT rules on the router | create, update, delete, enable, disable, sync | the mapping is read before the mutex is taken; old NAT rules go before new ones come | the router's managed rules are those of the enabled mappings |
| MikroTik client: `mikrotik/client.go` | one TCP connection | login, run a command, test | the connection is shared by goroutines and `runCommand` takes no lock; replies go to whoever reads | each caller gets its own reply; word lengths survive encoding |
| DDNS: `ddns/updater.go`, `cloudflare/client.go`, `storage/ddns.go`, `api/handlers/ddns.go` | rows of `ddns_records`, DNS records | periodic and manual update, CRUD | updater and manual update race; search-then-create | one record per name; the record follows the address |
| Configuration: `singbox/config.go` | the generated file | generate for a node or a policy group | detour chains with cycles and missing nodes | generation ends; every outbound referred to exists |
| Allocation: `storage/node.go`, `storage/rule.go` | MAX+1 numbers | table ids, priorities, TUN names and addresses, ports | reuse after a delete; reserved and end values | numbers are unique and in range |
| Health checker, statistics: `health/checker.go`, `storage/stats.go` | rows of `node_stats` | periodic and manual latency test | select-then-insert from two goroutines | one row per node, no lost update |
| Settings: `api/handlers/settings.go`, `config/config.go` | configuration in memory and on file | update, login, restart | fields change in memory before the save | memory and file agree |
| Schema: `storage/db.go`, `storage/models.go` | tables | open, migrate | columns are added at each start | constraints the handlers count on |
| Address detection, API server, pages, logs, certificates | none of their own | | | |

Interactions. Handlers call the storage package, `singbox.Manager` (processes),
`network.RoutingManager` (kernel) and, through it or directly, the MikroTik client
(router). A rule refers to a node by id and uses its table number, which it reads
at the time; deleting a node neither removes nor changes its rules. The recovery
runs before the API, alone, on what the last Manager left in the database and the
kernel.

## Modules

| Module | Contents |
|---|---|
| `NodeLifecycle` | rows, processes, routes, all node handlers, the recovery, crashes, reboots |
| `NodeLifecycleProofs` | theorems about any overlap of requests, the recovery, and requests that take turns on a node |
| `RoutingRules` | rule rows, kernel, router, all rule handlers, the recovery of rules, crashes, reboots |
| `RoutingRulesProofs` | its type theorem and the invariants the others rest on |
| `RoutingRulesKernel` | theorems: kernel and router follow the rows, whatever calls fail |
| `NatMirror` | abstract: one operation on the router's NAT rules at a time, what it is about, what it installs, what it may not touch |
| `PortMappingNAT` | port mappings, all their handlers, the client's rewrites command by command under the mutex, failures, crashes; implements `NatMirror` |
| `PortMappingNATProofs` | theorems about single steps of `PortMappingNAT` and the refinement |
| `PortMappingNATSync` | the theorem that router and rows agree once requests are done |
| `DDNS` | one DNS name: its rows, its DNS records, updater, manual update, pages, failures, crashes, the address |
| `DDNSProofs` | its theorems |
| `NodeConfig` | detours and policy groups: the table, and the configuration generator row by row |
| `NodeConfigProofs` | its theorems |
| `WordLength` | the length encoding of the router's protocol, with its theorems |
| `MC*` | what TLC needs for a small instance: symmetry, sets of inputs |

Conventions. A handler is a thread `t` with a label `th[t].pc` between every two
accesses to shared state; an action runs from one label to the next and is named
after the function or the statement it stands for. Locals of the handler are
fields of `th[t]`. A crash of the Manager clears all threads. Definitions marked
"Mutant" are plausible slips of the code, used by nothing in the specification: they are
put in the place of a definition to see that a property notices. Variables marked
"history" exist for the properties only.

`PortMappingNAT` and `NatMirror` are composed by refinement; the others are not composed
into one. A rule sees of a node only its status and
its table number, which `RoutingRules` lets change at any time while the Manager
serves, exactly as `NodeLifecycle` may change them (a status change per action,
`CreateNode`, `DeleteNode`), and the recovery of the nodes may leave any of them
running. So what holds in `RoutingRules` holds with the real node handlers beside
it. No handler of nodes depends on rules. `NodeConfig` gives what `Manager.StartNode`
writes to the file before it forks; in `NodeLifecycle` a refused configuration is one of the
failures of `Check`. Port mappings and DDNS records refer to nothing else.

## NodeLifecycle

State. `nodes`, `row`, `lastId` are the table `proxy_nodes` with the columns
that control depends on: `enabled`, `status`, `pid`, and whether the second
statement of CreateNode has named the TUN device (`named`). `proc` holds the processes
of the host by pid with their owner, whether they are live, told to terminate, a
zombie or free, and whether the Manager is their parent. `via[n]` is the process
through whose device the default route of node n's table goes. `mgr`, `todo` belong to `main`.

| Action | Code |
|---|---|
| `StartRequest` … `StatusRequest` | a handler up to its first statement, the SELECT of the row, which it keeps (`snap`) |
| `Check`, `MarkStarting`, `Spawn`, `SpawnFails`, `Verify`, `MarkError`, `MarkRunning` | `Manager.StartNode`: the test of the pid it was given, the two status updates, the fork, the check two seconds later, the error path |
| `Reread`, `AddTableRoute` | `NodeHandler.StartNode` after the start |
| `Kill`, `MarkStopped` | `ProcessManager.StopProcess` and the update after it |
| `Reget` | `Manager.RestartNode` between stop and start |
| `DeleteRow`, `WriteRow`, `CreateRequest`, `CreateFix`, `Probe` | delete, the whole-row UPDATE, the two statements of create, the correction in `GetNodeStatus` |
| `Boot`, `RecoverNext`, `RecoverError`, `RecoverEnd`, `RouteNext`, `Serve` | `main`, `Manager.RecoverNodes`, `recoverNodes` |
| `ProcExit`, `Crash`, `Reboot`, `OtherProgram` | the host |

Assumptions. Clients send bodies without `status`, `pid` and `tun_name`, as the web
page does, although the JSON tags would take them. Processes of one boot get distinct
pids (a wrap-around of the pid counter within one boot is left out; a reboot, after
which pids start over, is in `RebootSpec`). sing-box processes survive the
Manager, as the code's recovery and docs/design.md intend. (With the unit
file of docs/deployment.md, `systemctl stop` under the default KillMode would end them too:
then `ProcExit` follows the crash, which is also a behaviour of the model.)

Properties.

- `RecordedPidIsOwn`: no row ever records another node's process. Rows and pids are
  read at one time and written back at another by four writers, so this is about
  every stale copy in flight.
- `StatusMatchesPid`: status "running" exactly when a pid is recorded.
- `SignalsOwnProcess`: SIGTERM reaches only a process of the node being stopped.
- `RecoverySettles`: after RecoverNodes every enabled node is running or in error.
- `NoProcessLeaks`: a process nobody told to stop is in its row or in the hands of its
  starter, except one whose starter a crash cut off (`lost`).
- `OneProcessPerNode`: at most one process per node is meant to run.
- `StartResolves`, `DeletedNodesVanish`: a start of an enabled node comes to an end,
  across crashes; a deleted node's processes and route go.

`NoProcessLeaks` and `OneProcessPerNode` need clients that do not overlap requests
on one node (`Serial`); with overlapping ones they fail, see below.

Fairness (`Fairness`): weak fairness of each handler and of `main`, since goroutines
are scheduled and none of their calls waits for another's; of `Boot`, as the
service has `Restart=on-failure` (docs/deployment.md:76; this is about crashes, a clean exit on
SIGTERM, main.go:131-136, is not restarted by it); and of the exit of a process told
to terminate. Nothing is assumed of clients, crashes or healthy processes.

## RoutingRules

State. `rules`, `row`, `lastRule` are the table `routing_rules` (address, node,
priority, enabled); `kernel` is the kernel's rule list (address, table, priority);
`router` the router's entries by the rule id in their comment; `status` and
`table` the nodes. Priority 100 and table 100 of the code are 1 here.

| Action | Code |
|---|---|
| `CreateRequest`, `Allocate`, `Insert` | `RuleHandler.CreateRule`: the check of the address, the priority MAX+1, the INSERT |
| `UpdateRequest`, `DeleteRequest`, `EnableRequest`, `DisableRequest` | the other handlers up to `GetRule`, the row they keep (`old`) and the one they will write (`new`) |
| `CheckSource` | the check of the address in an update |
| `DelNode`, `MtDelete`, `RuleDel` | the look-up of the old node, then `RoutingManager.DeleteRule`: router, then kernel |
| `Write`, `Remove` | UPDATE and DELETE, with UNIQUE(source_ip, node_id) |
| `AddNode`, `MtAdd`, `RuleAdd` | the look-up of the new node, then `RoutingManager.AddRule` |
| `Boot`, `RecoverRule`, `Serve`, `Crash` | `recoverRoutingRules` and the rest of `main` |
| `SetStatus`, `CreateNode`, `DeleteNode` | what the node handlers do to a rule's node |

The list-then-add and the list-then-remove of the router are one step each: two
requests on one rule are the only ones that could tell, and the runs with two clients are
`Serial`. With `Faults` any call may fail. A router call that fails, or partly fails, is only
logged (routing.go:34-37, 70-73). A kernel call fails when netlink does, or, for the addresses of
`Bad`, because they do not parse (routing.go:41-44, 77-80); the handlers drop its error (rule.go:150, 208),
log it (98, 178, 281) or answer with it (253), and in each case the row stays as it is or is changed as
if it had succeeded. A deleted node's table number is given out again by MAX+1, as in the code.

So kernel and router may disagree with the rows, and the properties say which failures make
them. History variables remember those: `left` the pairs of source and table the kernel refused to
let go (until no such rule is there), `missed` the rules it refused to take, whose UPDATE failed after the
removal, or which the recovery left out (until they are installed), `stuck` the router's entries whose
removal failed or was skipped.

Properties.

- `NoStrayRule`: a kernel rule is that of an enabled row, with the row's address,
  priority and node, at every step of every handler and whatever crashed. It holds
  because each handler removes the kernel rule before, and adds it after, it
  writes the row. The rules of a pair in `left` are excepted, and nothing else is spoilt by them. Tables of
  deleted nodes are excepted: their rules cannot be removed any more,
  `DELETE`, `disable` and `update` all skip a rule whose node is gone, and a new node may be
  given the number. (The schema says ON DELETE CASCADE, storage/db.go:92, which is without
  effect.)
- `InstalledUnlessMissed`: an enabled rule of an existing node that no request is working on is in the kernel,
  unless it is in `missed`. The kernel removes by source and table, so this is also about a
  removal taking another rule's.
- `RouterFollows`: a router entry of a rule that no request is working on, or that is deleted, is of an enabled
  rule and has its address, but for those in `stuck`.
  AddRoutingRule would leave an entry with an old address as it is, so a wrong one stays.
- `InstalledWhileRunning`: the rules of running nodes are installed after a restart; does not hold, see below.

`InstalledUnlessMissed` and the others are checked for requests that do not overlap on one rule: with an enable
and a disable of one rule in flight together, row and kernel come apart at once.

## PortMappingNAT and NatMirror

State. `rows`, `row`, `lastId` are the table `port_mappings`: the external port
(with the protocol and target behind it), `enable_masquerade`, `enabled`. `router`
holds the managed NAT rules, by the mapping id in their comment, their kind and the port;
`lock` is `Client.syncMux`. A handler keeps its copy of the row (`m`); the thread that
holds the mutex keeps the listed rules still to be deleted (`gone`), the mappings still to be
installed (`want`) and the rules the current one still lacks (`add`).

| Action | Code |
|---|---|
| `CreateRequest` … `SyncRequest` | the six handlers of handlers/port_mapping.go up to their first statement |
| `Insert`, `Check`, `Write`, `Remove` | INSERT, `CheckDstPortExists`, UPDATE and DELETE of storage/port_mapping.go, with UNIQUE(dst_port) |
| `Lock`, `Unlock` | `syncMux.Lock` and the deferred `Unlock`, with what the handler does next |
| `List` | `GetEnabledPortMappings`, under the mutex, in a full synchronisation |
| `PrintNAT`, `DeleteNATRule`, `Take`, `AddNATRule` | the commands of `SyncPortMappings`, `SyncSinglePortMapping` and `DeletePortMappingRules`, each with its reply |
| `PrintRefused`, `PrintFails`, `DeleteFails`, `AddFails`, `AddAborts` | a command the router refuses (a `!trap`, which `runCommand` does not report) or that breaks off, done or not, and what each loop makes of it |
| `Crash` | the Manager dies; at the start nothing synchronises |

Create, update and enable install the copy of the row the handler holds; only the full
synchronisation reads the rows under the mutex. Disable and delete clear the rules first
and change the row afterwards.

`NatMirror` is the abstract specification: the rules as they are whenever the mutex
is free, and the operation that holds it. `Begin` fixes what the operation is about (`scope`) and what it is to
install there (`plan`): one mapping or nothing for one id (`Single`: create, update, enable; disable,
delete), or at most one version of each mapping for all ids (`Full`). `End` replaces the rules of the
mappings in `scope` by those of `plan`, and leaves all others as they were, as
docs/port-mapping-optimization.md:129 claims ("现在每个操作都只影响相关的规则，不会干扰其他映射", each operation now
affects only the rules concerned and disturbs no other mapping). Only mappings in `scope` that a failure hit
may be left with something else, and they are remembered in `failed`. `PortMappingNAT` implements it
with `stable`, the router at the last release of the mutex, for `rules`, and with `Section`, what the holder of
the mutex is about, for `op`.

Properties.

- `MirrorsWhole`: the refinement. A rewrite is some ten commands, any of which may fail;
  nobody who takes the mutex ever meets the half of one, except of a mapping a failure hit, and no
  operation, however it fails, changes a rule of another mapping.
- `MutexHolder`: the mutex is held exactly by the thread inside; no error return, crash or
  race leaves it locked.
- `InSync`: when no request about a mapping is in flight, the router has exactly the rules of
  its row. It leaves out `failed` and `blurred` mappings. A mapping is blurred when its last
  request raced with another one on the same mapping: two single rewrites may then install in
  another order than they wrote the row (port_mapping.go:154), an update may install a mapping a
  delete has removed, a full synchronisation may install again what a disable or delete has
  just cleared. One request that runs alone, the full synchronisation included, heals it.
  An update, create or enable beside a full synchronisation is *not* a race: whichever
  has the mutex last installs the newer row.

## DDNS

One DNS name, since names share nothing: `rows` and `row`, the rows of the name with `current_ip`,
`dns_record_id` and `enabled`; there may be several, as the schema tells them apart by `dns_record_id`, a missing one
included (`Free`; storage/db.go:153). `cf` are the DNS records of the name at Cloudflare; `addr` is the public
address. The threads are the updater, which works through `list`, the rows it read at the tick, one after the
other, and clients; each keeps the copy of the row it read
(`snap`), the address it detected and the record it found.

| Action | Code |
|---|---|
| `Tick`, `NextRecord`, `UpdateRequest` | the list of enabled records at a tick and the loop over it, the manual update's `GetDDNSRecord` |
| `Detect` | the detection of the address and the comparison with the copy's `current_ip` |
| `PutById` | `UpdateDNSRecordByID`; a record that is gone leads to the search |
| `Find`, `Put`, `Post` | `UpdateOrCreateDNSRecord`: `GetDNSRecord`, then `UpdateDNSRecord` or `CreateDNSRecord` |
| `SaveRow`, `SaveIP` | `UpdateDDNSRecord` of the whole copy, which UNIQUE may refuse, and `UpdateDDNSRecordIP` |
| `OpenPage`, `Submit`, `ClosePage`, `Enable`, `Disable`, `Delete` | the page and the handlers of handlers/ddns.go |
| `DetectFails`, `PutByIdFails`, `FindFails`, `ChangeFails`, `Crash` | requests that break off, done or not; the Manager dies |
| `DetectHangs`, `RouterAnswers` | an address read from the router, over a connection without a deadline (mikrotik/client.go:365) |
| `AddressMoves`, `RemoteChange` | the world |

`Find` sees any part of the name's records: `GetDNSRecord` looks at the first 100 records of the zone
(cloudflare/client.go:170), and the zone may have more, unless `OnePage`. When the part is empty, a record is created.

Properties. The updater never asks Cloudflare whether there is anything to do: it compares
`current_ip`, so everything depends on the row telling the truth.

- `RowTellsTruth`: with no update under way, the record `dns_record_id` of a row has the address
  `current_ip`. `dirty` marks what the code may not notice by itself: a row whose update failed half-way,
  raced, or was refused its record by UNIQUE, or whose record was changed by the update of another
  row of the name or at Cloudflare, until an update of it has run alone.
- `OneRecordPerName`: retries, fallbacks, refusals and crashes, of all rows of the name, make no second record. `blind`
  excepts a creation after a list of the zone that failed (`UpdateOrCreateDNSRecord` takes any
  error for "no record", cloudflare/client.go:309) or did not show the first record, and one by two racing updates.
- `Converges`: when address and users have settled, every enabled row and its DNS record come to
  show the address, or the updater hangs in a read from the router. A dirty row owes only its `current_ip`.
- `DisableHolds`: does not hold, see below.

A change that Cloudflare refuses (an identical record, a revoked token) is a failed change, `ChangeFails`.

Fairness (`FairSpec`): of `Tick` and `NextRecord`, as the ticker ticks every interval and the updater is its
only receiver; of `Work(t)`, as goroutines are scheduled and every HTTP request ends (10 seconds for the
address, ipdetect.go:42 and 48; 30 for Cloudflare). A read from the router need not end: a thread may go to `hung`, and
nothing is assumed of `RouterAnswers`; as the updater has one goroutine, all rows then wait. Users, faults and the world
owe nothing.

## NodeConfig

`nodes`, `row`, `lastId` are again `proxy_nodes`, now with what the generator reads: whether a
node is a policy group, its members, the node "detour" names in its config, and the column
`detour_id`. `CreateNode`, `UpdateNode` and `DeleteNode` are the handlers; an update with a
null `detour_id` leaves the column alone (handlers/node.go:185), and a delete leaves references
dangling.

The generator (singbox/config.go) reads the rows one at a time, and the handlers may change the
table between two reads. `start` is the node that starts, `copy` its row as StartNode's caller read
it, `stack` the calls that have not returned, and `outbounds` what has been built, each outbound with
its tag and the tags it refers to. A frame of the stack is a chain of detours (the nodes passed,
`path`, which is `visited` or `chainVisited`; the one to be read next, `next`) or a policy group
(`path[1]`; its `members`; those `left`). `policyVisited` is the groups on the stack,
`globalAdded` the nodes whose tag is in `outbounds`. Generations share nothing but the table, so
there is one at a time.

| Action | Code |
|---|---|
| `StartNode` | `Manager.StartNode` with the row its caller read, up to the first read of another |
| `FetchDetour` | `Manager.StartNode` reads the node of `detour_id`, which `GenerateConfig` uses if the config names none |
| `FollowDetour` | the loops over a chain, in `GenerateConfig` and in `processNodeRecursive`: read the next node, visit it (`Visit`), or return where there is none |
| `NextMember` | the loops over the members, in `GeneratePolicyGroupConfig` and in `processNodeRecursive`; `Process` is the call for the member |
| `EndGroup` | the outbound of a group, after its members |
| `Return` | the file is written, or the error reported |

The properties compare the walk with definitions that do not recur: `Reach` is the
intersection of closed sets.

- `TagsUnique`: no tag is given twice (sing-box would refuse the file), whatever changes meanwhile:
  nodes shared by groups, chains and nested groups are added once.
- `RefusesExactlyBroken`: refused are exactly circles, empty groups, deleted members and a
  `detour_id` of a deleted node, and never two branches that merely meet.
- `Resolved`: there is an outbound for exactly the nodes traffic may pass, and what an
  outbound refers to is there, or is a deleted node.
- `GenerationEnds`: a generation ends, in circles too, and whatever changes meanwhile.

Fairness (`FairSpec`): of `Generate`, as the goroutine of the handler is scheduled and reads the
database only. `RefusesExactlyBroken` and `Resolved` are about a table that rests during the
generation (`edits = 0`): from a mixture of two tables no code could promise either.

They are also about rows whose two places for the detour agree (`Unambiguous`). Where
they do not, the code prefers one place for the first hop and the other
for later hops, while the outbound refers to the config's only: an outbound may then refer to a
tag that is not there, and a circle may go unnoticed.

## WordLength

A module of operators: `writeLen` and `readLen` of mikrotik/client.go, the shifts, masks and
or-ings as arithmetic on bytes. What is read back is what was written, for every length, see
[Proofs](#proofs).

## Runs and bounds

Deadlock is not checked in any run: the bounds stop the counters, and a server with
no request left to take is idle, not stuck.

| Run | Instance | States | Shows |
|---|---|---|---|
| `lifecycle_concurrent` | 2 requests, 2 nodes, 2 pids; start, stop, update; any overlap | 2.1 M | rows never mix nodes, status fits pid, signals stay home |
| `lifecycle_serial` | 1 client, 1 node and one to create, 2 pids, 1 crash; all seven requests, with fairness | 0.2 M | nothing is leaked or doubled, the recovery settles, starts end, deleted nodes vanish |
| `lifecycle_race` | 2 overlapping requests, 1 node | violation | two processes of one node |
| `lifecycle_reboot` | 1 client, 1 node, 1 reboot | violation | the recovery takes over another program |
| `rules_concurrent` | 2 requests (never on one rule), 1 address, 1 node and one to create, 2 rules, failing router and kernel calls | 3.4 M | no request spoils another's rule, in the kernel or on the router |
| `rules_restart` | 1 client, 2 addresses, 1 node that starts, stops and goes, 2 rules, given and allocated priorities, failing calls, 1 crash or reboot | 1.5 M | rows, kernel and router agree, after a recovery too |
| `rules_recovery` | 1 client, 2 addresses, 2 nodes, 2 rules, 1 crash | violation | a rule left out stays out |
| `nat_sync` | 2 requests at a time, 4 in all, 2 mappings, 2 ports, masquerade on, 1 refused or broken command or crash | 1.2 M | the router follows the rows; every operation is one step to the others and touches its own mappings only |
| `ddns_updates` | the updater and 1 client with 3 requests, 2 addresses, 1 row, 5 DNS records, any part of them listed, 1 move, 1 failure, crash or hung read, 1 change at Cloudflare | 3.4 M | the row tells the truth, one record per name |
| `ddns_fair` | the updater and 1 client with 3 requests, 2 rows of the name, 5 DNS records, all listed, 1 move, 1 failure, crash or hung read, with fairness | 0.5 M | the same of two rows that share a name, and the DNS follows |
| `ddns_disable` | 1 row, no failures | violation | a running update undoes a disable |
| `config_detours` | 3 nodes, groups of up to 2, one `detour_id`, 1 edit during a generation, with fairness | 0.7 M | what the generator makes of every way to link them, and that it ends |

Why these sizes. Two requests are enough for every race the code has: no handler
waits for another, and every hazard listed relates a stale copy and one writer. Two
nodes (addresses) are needed to tell one node's pid (address) from another's; two
pids, to have an old and a new process; one crash, to have every prefix of every handler
before a recovery, and its repetition changes nothing as a recovery starts
from rows and processes only. `lifecycle_concurrent` leaves out the kinds of request that
only repeat start and stop steps, to have two nodes; the theorems below cover all kinds.

`lifecycle_serial` has one client, since under `Serial` two
requests are always about two nodes, which share nothing but the pids; the theorems are about any number.

Of the rules, `rules_concurrent` has two requests, two nodes and the table number given out again, `rules_restart` two rules of
two addresses and the recovery; each has failing calls, any number of them. A call for an address that does not parse (`Bad`) fails
for sure, which is one of the ways a call may go with `Faults`, so `Bad` is empty in the runs. One address is enough where
rules compete for it, two where one must be told from the other, and the theorems below cover all of it together.

For `nat_sync`, two mappings are needed to see a rewrite touch another's rules and two ports for
two versions of one and for UNIQUE(dst_port); four requests make two that race and two more
that repair or spoil what the race left. Masquerade is always on, as it only adds a third
rule; the theorems cover both. One failure is enough, since a second one in the same rewrite
adds only to the mappings left out, and one in a later rewrite meets a router that the first
run already reaches.

For the DDNS runs, two addresses, as every comparison is with one
other; the address may move once, and a record there before with either address, or a form that holds one, makes an old
`current_ip` look right; two rows are the first that can
take each other's record; five DNS records are more than it takes to show a second one. In `ddns_fair` the
list shows every record, so that the number of records stays below its bound and no creation is blocked
by it. For
`config_detours`, three nodes hold every kind of meeting and circle: a group and two members of
which one is the other's detour, a group in a group, a circle of three; one edit, made at any step,
gives a generation two tables to mix; the theorems cover all sizes, and every `detour_id`.

## Where documents and code differ

- `lifecycle_race`: README.md:15 promises one sing-box process per node. StartNode
  tests the pid of a row its caller read earlier and takes no lock; two starts in flight
  leave two live processes of one node, one of them unrecorded.
- `lifecycle_reboot`: docs/PROJECT_STATUS.md:100 says a recorded process is taken over "if the
  process exists and is sing-box". RecoverNodes only sends signal 0; VerifySingboxProcess
  (process.go:137) has no caller.
- `ddns_disable`: docs/ddns.md:169 says that a disabled record is no longer updated. An
  update that was under way writes back the whole row it read before, `enabled` included
  (updater.go:158, handlers/ddns.go:409 and 430), so the record is enabled again and stays so.
- `rules_recovery`: docs/PROJECT_STATUS.md:102 and docs/api.md:563 say that all rules are
  recovered. Rules of nodes not running at that moment are left out, and StartNode does not
  install them.

Met while modelling, without a run of their own. The models have the first five; the history variables in
brackets are how the properties name what comes of them:

- rule.go:62 and 70 mean that a source address has one rule ("Source IP already exists"). The check and the
  INSERT are separate statements and the schema has UNIQUE(source_ip, node_id) only, so two requests at a
  time make two rules for one address on two nodes (they occur in `rules_concurrent`).
- rule.go:204 says "如果启用，先删除路由规则" (if enabled, first delete the routing rule). The
  error of that removal (routing.go:91) is dropped and the row goes, so a refused removal leaves a kernel rule nobody
  can name any more (`left`).
- rule.go:146 says "如果旧规则启用，先删除旧的路由规则" (if the old rule is enabled, first delete the old
  routing rule). When the old node is gone, the whole removal is skipped, the router's part too, which does not
  need the node; the entry goes on redirecting the client (`stuck`).
- docs/ddns.md:65 has UNIQUE(zone_id, record_name, record_type); db.go:153 adds `dns_record_id`, so
  a name may have several rows, which then write each other's DNS record (`dirty`).
- docs/ddns.md:21 and updater.go:143 say that an existing record is looked up by its name and updated. The look-up sees
  the first 100 records of the zone (cloudflare/client.go:170); a name further on gets a second record (`blind`).
- The example of docs/api.md:487-496 sends a `detour_id` and no "detour" in the config. The generator
  adds the detour's outbound and never writes "detour" into the node's own, so its
  traffic goes out directly. The web page cannot send a `detour_id` at all
  (nodes.html:2005 parses "node-3" as a number), so a stale one stays.
- config.go:78-79 says the detour in the config is preferred; line 131 prefers `DetourID` on later hops.
- port_mapping.go:180-181 says that clearing the rules before deleting the row leaves no orphans; a
  full synchronisation between the two does. nat.go:170 names a synchronisation at the
  start, which nobody calls.
- docs/port-mapping-optimization.md counts on the mutex to keep synchronisations
  apart, which it does, but other users of the connection (routing rules, the interface address for DDNS)
  take no lock, and `runCommand` has none (client.go:365). Replies have no read deadline, so a
  router that hangs keeps the mutex, and stops the DDNS updater (`DetectHangs`).
- The second test for "!done" at client.go:93 is never reached, so the login of old RouterOS
  versions is dead code; a "!trap" reply is not reported by `runCommand`.

## Proofs

Two modules about each of `RoutingRules` and `PortMappingNAT`, one about each of `NodeLifecycle`,
`DDNS`, `NodeConfig` and `WordLength` hold theorems; tlapm checks each to the last leaf.

Node lifecycle. The theorems hold for any number of nodes, pids, request threads and crashes, any mix of requests and
any overlap, from `LifecycleAssumption` alone (sizes are naturals, `Main` is not
a request thread).

- `TypeCorrect`: `Spec => []TypeOK`. TypeOK is not inductive: `Crash` adds to `lost` the
  pids of threads about to verify or record a process, which is a pid only if such
  a thread holds one. `TypeInv` adds `HandInv`, which says that, and the same of the threads about
  to signal or look up a process.
- `PidsAreOwn` and `StatusFitsPid`: `Spec => []RecordedPidIsOwn`, `Spec => []StatusMatchesPid`.
  The inductive invariant is `RecordInv`. Rows alone are not enough: UpdateNode
  writes back a whole row read long before, and MarkRunning writes a pid held in a local. So
  `RecordInv` says of every row, of every snapshot `th[t].snap` and of every local `th[t].pid` that
  the pid is 0 or was started for that same node, and of rows and snapshots that
  "running" goes with a pid. What makes it stable is `OwnedGrows`: in `Next` a pid,
  once started, keeps its owner, so a stale copy stays right. Under
  `RebootSpec` that fails, and so does the conclusion (`lifecycle_reboot`).
- `SignalsStayHome`: `Spec => SignalsOwnProcess`, from `RecordInv`: only `Kill` tells a
  process to terminate, and the pid it uses is its snapshot's.
- `RecoveryEnds`: `Spec => []RecoverySettles`. `MainInv` adds to `RecordInv` that the recovery and
  the requests take turns (`AloneInv`) and, while it runs, that each enabled node has its outcome
  in the row, waits in `todo` or is the one being worked on (`RecInv`). Where the recovery finds
  a process alive, it is `RecordInv` that makes the row say "running".
- `NothingLeaks`, `OneEach`: with `Serial`, `Spec => []NoProcessLeaks` and
  `Spec => []OneProcessPerNode`. `KeepInv` adds that no node is in two threads' hands
  (`TurnInv`, which needs that ids are not given out twice, `BoundInv`) and what a
  thread then counts on (`HoldInv`): its copy is the row, and by the time it replaces the pid in
  the row or deletes it, the process of that pid has ended or been told to. Of two processes of a
  node, neither lost, one thread or one row would have to name both. `lifecycle_race`
  shows that `Serial` cannot go.

Routing rules. The theorems hold for any number of rules, nodes, sources, priorities, table
numbers, threads and crashes, with failing router and kernel calls, addresses that do not parse, and nodes
that come and go. `TypeCorrect` needs `RulesAssumption` alone; the others need `Serial` (no two requests in
flight on one rule) or `OneClient` (there is one request thread), as in the runs that check the properties.

- `TypeCorrect`: `Spec => []TypeOK`. `TInv` adds what the numbers need: rows are complete and
  no two share source and node (`RowInv`), a table number belongs to one node (`NodeInv`), the
  recovery is alone (`PhaseInv`), each thread is at a label of its operation with
  what it holds there (`ThreadInv`). `MaxOfBounded` keeps MAX + 1 of `GetNextPriority` and
  `GetNextAvailableTableID` in range: as many different numbers as rows ever made.
- `KernelFollows`: `Spec => []NoStrayRule`. `SInv` adds that a rule
  is in the hands of one thread (`ClaimInv`), and what such a thread counts on (`HoldInv`): its
  copy is the row, its table number is still that of the node, and, unless the kernel has refused the removal
  (`Firm`), no kernel rule stands on the row by the time it is written or removed. A deletion by source and table takes
  the first match; it is right because all firm matches stand for the same row.
- `RouterRight`: `Spec => []RouterFollows`. `EInv`: each
  entry of the router's list that is not stuck stands for its row at every moment, and that of a row about to
  be changed is gone or stuck.
- `EnabledInstalled`: `Spec => []InstalledUnlessMissed`. `DueInv`: every
  enabled rule of an existing node is installed, missed, still to be
  recovered, or in the hands of a thread that is going to install, change or remove it. A removal for another rule cannot
  take it: `SoleInv` says that two rules of one source never look to the kernel like one, because UNIQUE keeps them on two nodes and
  nodes have tables of their own, and a node that got a deleted one's number is newer than any check still in flight (`Apart`).

Port mappings. The theorems hold for any number of threads, mappings, ports, requests
and failures, from `NATAssumption` alone (bounds are naturals, "nobody" is no thread and "no port"
no port).

- `RewritesTracked`: `Spec => []IInv`, the inductive invariant. `MirrorsWhole` speaks of the router
  when the mutex is free; in the middle of a rewrite it holds anything. What is preserved is
  a statement about the end: `Ahead`, the router minus the listed rules still to be deleted plus the
  rules still to be added, has for every mapping in scope no failure has hit exactly the planned rules of the mappings
  taken so far (`Done`), and outside the scope the router equals `stable` (`Rewriting`). A deletion does not change
  `Ahead`; taking the next mapping adds the rules of one version to a mapping that has
  none ahead, as all wanted mappings have until they are taken; the plan never changes in between.
- `TypeCorrect`, `MutexHeld`: `[]TypeOK` and `[]MutexHolder`, parts of it.
- `MirrorImplemented`: `Spec => MirrorsWhole`. Taking the mutex (with the list, for a full synchronisation) maps to
  `Begin`, its release and a crash inside to `End`, everything else to stuttering.
- `RouterInSync`: `Spec => []InSync`. `InSync` says nothing of a mapping while a request about it
  is in flight; the inductive invariant `SInv` says what such a request promises. `RaceInv`: a
  thread that is alone on a mapping (`Alone`: nobody it races with) has a true copy of
  the row it is going to install, and no other thread changes that row; rows have distinct
  ports, so its UPDATE is not refused. `PlanInv`: what is still to delete and to add gives
  the rules of the row, or a thread that has written a newer row is waiting for the mutex
  (`Coming`), or no rule, for a disable or a delete. `ClearInv`: between that and the UPDATE or
  DELETE nobody installs rules of the mapping. `SettledInv`: rows and
  router agree wherever no thread is between two of these points (`Unsettled`). The last one
  implies `InSync`.

DDNS. The theorems hold for any number of threads, addresses, rows of the name, DNS records, failures and
changes by others, and for lists of the zone that show any part of the records, from `DDNSAssumption` alone (bounds are
naturals, there may be at least one DNS record, "no address" is no address).

- `TypeCorrect`: `Spec => []TypeOK`. `Formed` adds that a thread has a row from its first step on.
- `RowIsRight`, `OneRecord`: `Spec => []RowTellsTruth` and `Spec => []OneRecordPerName`, from one
  inductive invariant, `Inv`. Neither property is inductive: the row is made true by the last of up to
  six requests and statements, and what that last one writes was decided by the first. `RaceInv`: of two threads at
  work both know it. So one that does not (`raced` is FALSE) has been alone since it began, and
  `AloneInv` says what it may then count on at each label (`Counts`): the row is the one it copied
  or is gone (`Copies` says it of the rows in the updater's list); the record it is about to save, or the page holds, has the
  address that goes with it; after a complete list without a record there is still none. `GoOn` is the argument that nothing a
  thread writes can surprise another that counts on anything, `OthersRight` that a record it changes belongs to no other
  row but those marked dirty with it.

Configurations. The theorems hold for any number of nodes, members and edits and every set of
`detour_id`s, from `NodeConfigAssumption` alone (sizes are naturals, a `detour_id` is an id).

- `TypeCorrect`, `TagsDistinct`: `Spec => []TypeOK`, `Spec => []TagsUnique`, whatever edits
  come between two reads. `TagInv`: during the walk only nodes have outbounds, so the tag of
  the group that starts, put in front at the end, is new.
- `RefusesRight`, `ConfigResolved`: `Spec => []RefusesExactlyBroken`, `Spec => []Resolved`. The
  rows are a graph (`Edges`); a depth-first walk of it is compared with a definition by
  reachability. `Good` are the nodes that should be accepted. `WalkInv` says of the stack, with
  `FrameOK`: the nodes of a frame are all reachable from `start`, and those of a chain follow each other;
  `StackOK`: frames higher up come after the open groups below, so meeting an open group, or the own
  path, is a real circle; and what a frame has processed is good, or being processed by the frame
  above. When a frame is popped, all that its first node leads to is good and
  no circle was met, so that node is good (the lemmas about `Good`, by closed sets, as
  there is no induction). `Covered`: whatever an added node refers to is added, open, or about to
  be read, so that at the end the added nodes are a closed set, hence everything
  reachable; `OutboundsOK` is the other inclusion. `ResultInv` is what remains at the end.
  In a frame of a chain only the last node may still have something to process, which is where
  `Unambiguous` is used: the next node read and the one referred to are the same.

Word lengths. `LengthRoundTrip`: for every length below 2^32 and every stream that begins
with its encoding, `readLen` gives the length and consumes exactly the encoding's bytes, so
the next word is found. `ZeroEndsSentence`: only the length 0 is encoded as the single byte 0, so a
word is never taken for the end of a sentence. The five encodings have a lemma each; one step takes a
length apart into bytes.

Only model-checked: the liveness properties (`StartResolves`, `DeletedNodesVanish`, `Converges`,
`GenerationEnds`), which rest on fairness, and the four violations. Every invariant and action
property of a passing run is a theorem.

## What is not modelled

- Contents of a node's configuration, addresses and names; the sleeps (a step may
  take any time); errors of SQLite other than its constraints; a client that
  disconnects (handlers ignore it).
- Health checker and statistics: a second row of a node in `node_stats`, from two testers that both
  select and then insert, changes only what the page shows.
- Settings: a save changes the shared configuration field by field and then writes the file;
  all fields but the token and the password are read once at the start.
- Login and the sentences of two goroutines on the router's one connection.
- Reserved table numbers and port arithmetic, which need over 150 nodes to matter.
- Of policy groups the type, the default member, the order of the members and the health check;
  inbounds. Two overlapping updates of one node, in `NodeConfig` (not in `NodeLifecycle`): they add
  only that a `detour_id` is put back to the one that was there before.
- Public address detection, pages, log viewing, certificates and scripts, which keep no state
  that others depend on. The migration of old databases runs once before anything else.

## Plan

1. `MikrotikClient`: two goroutines that mix sentences on one connection.
2. `HealthStats` and settings as small modules; table numbers with their reserved values.
