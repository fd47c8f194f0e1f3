----------------------------- MODULE NodeConfig -----------------------------
(***************************************************************************)
(* The sing-box configuration of a node.  A normal node names at most one   *)
(* node its traffic goes through, its detour, in the JSON of its config and *)
(* again in the column detour_id; a policy group names its members.  What a *)
(* node starts with is generated from the rows: the outbounds of every node *)
(* its traffic may pass, each under its tag, each with the tags it refers   *)
(* to.  The clients may link the nodes in any way, to themselves and to     *)
(* deleted nodes included, as the foreign key of detour_id is not enforced. *)
(*                                                                          *)
(* The generator reads the rows one by one, by a walk of detours and        *)
(* members, and other handlers may change the table between two reads.  The *)
(* model has the table with the handlers that write it, and one generation  *)
(* at a time, as generations share nothing but the table.  The calls of the *)
(* recursive functions that have not returned are the frames of a stack.    *)
(* The inbounds, the type, health check and default member of a policy      *)
(* group and the outbounds "direct" and "block", to which no node refers,   *)
(* are left out, and so is the order of the members.                        *)
(***************************************************************************)
EXTENDS Naturals, Sequences, FiniteSets

CONSTANTS
  MaxId,       \* bound: number of nodes ever created
  MaxMembers,  \* bound: members of a policy group
  DetourIds,   \* bound: pairs of a node and a detour_id that clients send
  MaxEdits     \* bound: changes of the table during one generation

Id == 1..MaxId

ASSUME NodeConfigAssumption ==
  /\ MaxId \in Nat /\ MaxMembers \in Nat /\ MaxEdits \in Nat
  /\ DetourIds \subseteq Id \X Id

VARIABLES
  nodes,      \* ids that have a row in proxy_nodes
  row,        \* the row of each id (blank where there is none)
  lastId,     \* the AUTOINCREMENT counter of proxy_nodes
  pc,         \* where the generation is
  start,      \* the node that starts, 0 if none
  copy,       \* its row, as StartNode has read it
  stack,      \* the calls under way
  outbounds,  \* what has been built; globalAdded are the nodes whose tag it has
  edits       \* history: changes of the table since the generation began

table == <<nodes, row, lastId>>
gen == <<pc, start, copy, stack, outbounds>>
vars == <<nodes, row, lastId, pc, start, copy, stack, outbounds, edits>>

-----------------------------------------------------------------------------
(* State. *)

\* detour is the node that "detour" names in the config of a normal node,
\* detourId the column; 0 where there is none.
Row == [group : BOOLEAN, detour : 0..MaxId, detourId : 0..MaxId,
        members : SUBSET Id]

BlankRow == [group |-> FALSE, detour |-> 0, detourId |-> 0, members |-> {}]

\* The config is of the kind the type says: one without a detour or one
\* without members.
WellFormed(r) == IF r.group THEN r.detour = 0 ELSE r.members = {}

\* A chain of detours has passed path and goes on to next.  A policy group
\* path[1] has members, of which those in left are still to be processed.
Frame == [path : Seq(Id), next : 0..MaxId, members : SUBSET Id,
          left : SUBSET Id]

NodeTag(n) == <<"node", n>>
PolicyTag(n) == <<"policy", n>>
Tag == {"node", "policy"} \X Id

Outbound(tag, targets) == [tag |-> tag, refs |-> {NodeTag(m) : m \in targets}]

Tags == {outbounds[k].tag : k \in DOMAIN outbounds}

TypeOK ==
  /\ nodes \subseteq 1..lastId /\ lastId \in 0..MaxId
  /\ row \in [Id -> Row]
  /\ \A n \in Id : WellFormed(row[n]) /\ (n \notin nodes => row[n] = BlankRow)
  /\ pc \in {"idle", "detour", "walk", "done", "refused"}
  /\ start \in 0..MaxId /\ copy \in Row /\ (start = 0 <=> pc = "idle")
  /\ stack \in Seq(Frame) /\ (stack # <<>> <=> pc \in {"detour", "walk"})
  /\ \A k \in DOMAIN stack : stack[k].path # <<>>
  /\ outbounds \in Seq([tag : Tag, refs : SUBSET Tag])
  /\ edits \in 0..MaxEdits

Init ==
  /\ nodes = {} /\ row = [n \in Id |-> BlankRow] /\ lastId = 0
  /\ pc = "idle" /\ start = 0 /\ copy = BlankRow
  /\ stack = <<>> /\ outbounds = <<>> /\ edits = 0

-----------------------------------------------------------------------------
(* The table. *)

\* What clients send for node n.
Body(n) ==
  {r \in Row : /\ WellFormed(r) /\ Cardinality(r.members) <= MaxMembers
               /\ r.detourId = 0 \/ <<n, r.detourId>> \in DetourIds}

Edit ==
  IF pc = "idle" THEN UNCHANGED edits
  ELSE edits < MaxEdits /\ edits' = edits + 1

CreateNode ==
  /\ Edit
  /\ lastId < MaxId
  /\ lastId' = lastId + 1
  /\ nodes' = nodes \cup {lastId + 1}
  /\ \E body \in Body(lastId + 1) : row' = [row EXCEPT ![lastId + 1] = body]
  /\ UNCHANGED gen

\* Mutant: a config sent without a detour keeps the one there was.
MergedByField(old, body) ==
  [body EXCEPT !.detourId = IF body.detourId = 0 THEN old.detourId ELSE @,
               !.detour = IF body.detour = 0 THEN old.detour ELSE @]

\* Type and config are replaced; a null detour_id leaves the column alone.
Merged(old, body) ==
  [body EXCEPT !.detourId = IF body.detourId = 0 THEN old.detourId ELSE @]

\* Two updates of one node that overlap, which NodeLifecycle has, are taken
\* one after the other: what one reads and the other changes is detour_id.
UpdateNode(n) ==
  /\ Edit
  /\ \E body \in Body(n) : row' = [row EXCEPT ![n] = Merged(row[n], body)]
  /\ UNCHANGED <<nodes, lastId, gen>>

\* References to the node stay.
DeleteNode(n) ==
  /\ Edit
  /\ nodes' = nodes \ {n}
  /\ row' = [row EXCEPT ![n] = BlankRow]
  /\ UNCHANGED <<lastId, gen>>

-----------------------------------------------------------------------------
(* What the steps of the generator are built from. *)

\* The next node of a chain by a row, 0 for its end.  A name in the config is
\* preferred, but by the chain of the node that starts only for its first
\* hop.
PreferConfig(r) == IF r.detour # 0 THEN r.detour ELSE r.detourId

PreferColumn(r) == IF r.detourId # 0 THEN r.detourId ELSE r.detour

Hop(r) == IF Len(stack) = 1 THEN PreferColumn(r) ELSE PreferConfig(r)

\* What the outbound of a node refers to: the detour of the config, never
\* detour_id, or the members.
ConfigTargets(r) == r.members \cup ({r.detour} \ {0})

Top == stack[Len(stack)]

ReplaceTop(f) == [stack EXCEPT ![Len(stack)] = f]

\* policyVisited: the groups being processed.
OpenGroups ==
  {stack[k].path[1] : k \in {j \in DOMAIN stack : stack[j].members # {}}}

ChainFrame(n, r) ==
  [path |-> <<n>>, next |-> PreferConfig(r), members |-> {}, left |-> {}]

GroupFrame(g, ms) == [path |-> <<g>>, next |-> 0, members |-> ms, left |-> ms]

\* Mutant: globalAdded is not asked.
AddTwice(n, targets) ==
  outbounds' = Append(outbounds, Outbound(NodeTag(n), targets))

\* A node is added once.
Add(n, targets) ==
  outbounds' = IF NodeTag(n) \in Tags THEN outbounds
               ELSE Append(outbounds, Outbound(NodeTag(n), targets))

Refuse == pc' = "refused" /\ stack' = <<>> /\ outbounds' = <<>>

\* The call on the top returns.
Pop ==
  /\ stack' = SubSeq(stack, 1, Len(stack) - 1)
  /\ pc' = IF Len(stack) = 1 THEN "done" ELSE pc

\* processNodeRecursive of node d, whose row has been read, is called by the
\* frame on the top, which becomes f.
Process(f, d) ==
  \/ /\ ~row[d].group
     /\ stack' = Append(ReplaceTop(f), ChainFrame(d, row[d]))
     /\ Add(d, ConfigTargets(row[d])) /\ pc' = "walk"
  \/ /\ row[d].group /\ (d \in OpenGroups \/ row[d].members = {})
     /\ Refuse
  \/ /\ row[d].group /\ d \notin OpenGroups /\ row[d].members # {}
     /\ stack' = Append(ReplaceTop(f), GroupFrame(d, row[d].members))
     /\ pc' = "walk" /\ UNCHANGED outbounds

OnPath(d) == \E i \in DOMAIN Top.path : Top.path[i] = d

\* Mutant: a chain of detours ends at a policy group.
VisitNoGroup(d) ==
  \/ OnPath(d) /\ Refuse
  \/ /\ ~OnPath(d) /\ ~row[d].group
     /\ stack' = ReplaceTop([Top EXCEPT !.path = Append(@, d),
                                        !.next = Hop(row[d])])
     /\ Add(d, ConfigTargets(row[d])) /\ pc' = "walk"
  \/ ~OnPath(d) /\ row[d].group /\ Pop /\ UNCHANGED outbounds

\* Mutant: the nodes of a chain are not remembered.
VisitForgetful(d) ==
  \/ /\ ~row[d].group
     /\ stack' = ReplaceTop([Top EXCEPT !.next = Hop(row[d])])
     /\ Add(d, ConfigTargets(row[d])) /\ pc' = "walk"
  \/ row[d].group /\ Process([Top EXCEPT !.next = 0], d)

\* The chain on the top comes to node d, whose row has been read.  A node met
\* before closes a circle; a policy group ends the chain.
Visit(d) ==
  \/ OnPath(d) /\ Refuse
  \/ /\ ~OnPath(d) /\ ~row[d].group
     /\ stack' = ReplaceTop([Top EXCEPT !.path = Append(@, d),
                                        !.next = Hop(row[d])])
     /\ Add(d, ConfigTargets(row[d])) /\ pc' = "walk"
  \/ ~OnPath(d) /\ row[d].group /\ Process([Top EXCEPT !.next = 0], d)

-----------------------------------------------------------------------------
(* The generator. *)

\* StartNode has read the row of node n.
StartNode(n) ==
  /\ pc = "idle"
  /\ start' = n /\ copy' = row[n] /\ edits' = 0
  /\ \/ /\ ~row[n].group
        /\ pc' = IF row[n].detourId # 0 THEN "detour" ELSE "walk"
        /\ stack' = <<ChainFrame(n, row[n])>>
        /\ outbounds' = <<Outbound(NodeTag(n), ConfigTargets(row[n]))>>
     \/ row[n].group /\ row[n].members = {} /\ Refuse
     \/ /\ row[n].group /\ row[n].members # {}
        /\ pc' = "walk" /\ UNCHANGED outbounds
        /\ stack' = <<GroupFrame(n, row[n].members)>>
  /\ UNCHANGED table

\* StartNode reads the node detour_id names, which must exist, but is used
\* only if the config names none.
FetchDetour ==
  /\ pc = "detour"
  /\ \/ copy.detourId \notin nodes /\ Refuse
     \/ /\ copy.detourId \in nodes /\ copy.detour # 0
        /\ pc' = "walk" /\ UNCHANGED <<stack, outbounds>>
     \/ copy.detourId \in nodes /\ copy.detour = 0 /\ Visit(copy.detourId)
  /\ UNCHANGED <<table, start, copy, edits>>

FollowDetour ==
  /\ pc = "walk" /\ Top.members = {}
  /\ \/ Top.next \in nodes /\ Visit(Top.next)
     \/ Top.next \notin nodes /\ Pop /\ UNCHANGED outbounds
  /\ UNCHANGED <<table, start, copy, edits>>

\* Mutant: a member that has no row is left out.
NextMemberTolerant ==
  /\ pc = "walk"
  /\ \E m \in Top.left :
       LET f == [Top EXCEPT !.left = @ \ {m}]
       IN \/ /\ m \notin nodes /\ stack' = ReplaceTop(f)
             /\ UNCHANGED <<pc, outbounds>>
          \/ m \in nodes /\ Process(f, m)
  /\ UNCHANGED <<table, start, copy, edits>>

NextMember ==
  /\ pc = "walk"
  /\ \E m \in Top.left :
       \/ m \notin nodes /\ Refuse
       \/ m \in nodes /\ Process([Top EXCEPT !.left = @ \ {m}], m)
  /\ UNCHANGED <<table, start, copy, edits>>

\* A group is added after its members.  The one that starts is the first
\* outbound, under a tag of its own.
EndGroup ==
  /\ pc = "walk" /\ Top.members # {} /\ Top.left = {}
  /\ \/ Len(stack) > 1 /\ Add(Top.path[1], Top.members)
     \/ /\ Len(stack) = 1
        /\ outbounds' = <<Outbound(PolicyTag(start), Top.members)>> \o outbounds
  /\ Pop
  /\ UNCHANGED <<table, start, copy, edits>>

\* The configuration is written to its file, or the error reported.
Return ==
  /\ pc \in {"done", "refused"}
  /\ pc' = "idle" /\ start' = 0 /\ copy' = BlankRow
  /\ stack' = <<>> /\ outbounds' = <<>> /\ edits' = 0
  /\ UNCHANGED table

Generate == FetchDetour \/ FollowDetour \/ NextMember \/ EndGroup

Next ==
  \/ CreateNode
  \/ \E n \in nodes : UpdateNode(n) \/ DeleteNode(n) \/ StartNode(n)
  \/ Generate \/ Return

Spec == Init /\ [][Next]_vars

\* The goroutine of the handler is scheduled.
FairSpec == Spec /\ WF_vars(Generate)

-----------------------------------------------------------------------------
(* Properties.                                                              *)

\* What the user has drawn: the nodes that traffic of n may go to next.
Targets(n) ==
  (IF row[n].group THEN row[n].members ELSE {PreferConfig(row[n])}) \ {0}

\* The nodes of S and those their traffic may reach: every set that has
\* them and is closed.
Reach(S) ==
  {m \in nodes : \A C \in SUBSET nodes :
     /\ S \cap nodes \subseteq C
     /\ \A k \in C : Targets(k) \cap nodes \subseteq C
     => m \in C}

\* The two places that name a detour name the same node, where both do.
Unambiguous ==
  \A n \in nodes : ~row[n].group =>
    row[n].detour = 0 \/ row[n].detourId \in {0, row[n].detour}

\* A group is usable if it has members and they all exist.
Usable(n) ==
  row[n].group => row[n].members # {} /\ row[n].members \subseteq nodes

\* Traffic of n can come neither back to a node it has passed nor to a group
\* that is not usable.
Sound(n) == \A m \in Reach({n}) : m \notin Reach(Targets(m)) /\ Usable(m)

\* No tag is given to two outbounds of a configuration, which sing-box would
\* refuse, whatever the rows say and however they change meanwhile: a node
\* may be a member of several groups, the detour of several others, or both.
TagsUnique ==
  \A i, k \in DOMAIN outbounds : outbounds[i].tag = outbounds[k].tag => i = k

\* Whatever the rows say and however they change meanwhile, a generation
\* ends.
GenerationEnds == pc \in {"detour", "walk"} ~> pc \in {"done", "refused"}

\* The circles the generator refuses are exactly the real ones.  Where the
\* two places agree and the table rests, a node is refused if its traffic
\* can come back to a node it has passed, if it can come to an empty group or
\* one with a deleted member, or if its own detour_id names a deleted node;
\* never because two branches of a group meet in one node or group.
RefusesExactlyBroken ==
  Unambiguous /\ edits = 0 /\ pc \in {"done", "refused"} =>
    (pc = "done" <=>
       /\ Sound(start)
       /\ row[start].group \/ row[start].detourId \in nodes \cup {0})

\* Where the two places agree and the table rests, a configuration has an
\* outbound for exactly the nodes traffic may pass and the one that starts is
\* among them, and what an outbound refers to has an outbound too, or names a
\* deleted node.
Resolved ==
  LET rest == {NodeTag(m) : m \in Reach({start}) \ {start}}
      own == IF row[start].group THEN PolicyTag(start) ELSE NodeTag(start)
  IN Unambiguous /\ edits = 0 /\ pc = "done" =>
       /\ Tags = rest \cup {own}
       /\ \A k \in DOMAIN outbounds :
            outbounds[k].refs \subseteq
              Tags \cup {NodeTag(m) : m \in Id \ nodes}
=============================================================================
