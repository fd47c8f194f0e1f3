----------------------------- MODULE NatMirror -----------------------------
(***************************************************************************)
(* What the port mappings promise of the router's NAT table, seen only at   *)
(* the moments nobody is rewriting it.  One operation at a time is under    *)
(* way; what it is about and what it is to install are fixed when it begins *)
(* and it ends in one step: each mapping it is about holds exactly the      *)
(* rules it was to install for it, and no other mapping's rules change      *)
(* ("every operation now affects only the rules concerned and disturbs no   *)
(* other mapping").  Only a mapping that a failed router command or a crash *)
(* hit may hold something else; it is remembered in failed until it is      *)
(* rewritten.                                                               *)
(***************************************************************************)
EXTENDS Naturals

CONSTANTS
  MaxId,      \* bound: ids of port_mappings are 1..MaxId
  Port        \* external ports (dst_port, with protocol and target)

VARIABLES
  rules,      \* the managed rules of the router's NAT table
  failed,     \* ids whose last rewrite met a failure
  op          \* the operation under way

Id == 1..MaxId

\* A port mapping as a handler holds it, and the rules "web-id-N" and
\* "web-id-N-masq" that stand for it on the router.
Mapping == [id : Id, port : Port, masq : BOOLEAN]

Kind == {"interface", "address", "masq"}

Rule == [id : Id, kind : Kind, port : Port]

RulesOf(m) ==
  {[id |-> m.id, kind |-> k, port |-> m.port] :
     k \in {"interface", "address"} \cup (IF m.masq THEN {"masq"} ELSE {})}

Of(i, R) == {x \in R : x.id = i}

Idle == [scope |-> {}, plan |-> {}]

\* SyncSinglePortMapping installs one mapping, or clears it when it is
\* disabled; DeletePortMappingRules clears one.
Single(o) ==
  \/ \E m \in Mapping : o = [scope |-> {m.id}, plan |-> {m}]
  \/ \E i \in Id : o = [scope |-> {i}, plan |-> {}]

\* SyncPortMappings rewrites all, with one version at most of each mapping.
Full(o) ==
  /\ o = [scope |-> Id, plan |-> o.plan] /\ o.plan \subseteq Mapping
  /\ \A m, n \in o.plan : m.id = n.id => m = n

\* The rules of mapping i once operation o is done.
Planned(o, i) == UNION {RulesOf(m) : m \in {n \in o.plan : n.id = i}}

Init == rules = {} /\ failed = {} /\ op = Idle

Begin ==
  /\ op = Idle /\ (Single(op') \/ Full(op'))
  /\ UNCHANGED <<rules, failed>>

\* bad is what a failure hit meanwhile.
End ==
  /\ op' = Idle
  /\ rules' \subseteq Rule
  /\ \A i \in Id \ op.scope : Of(i, rules') = Of(i, rules)
  /\ \E bad \in SUBSET op.scope :
       /\ \A i \in op.scope \ bad : Of(i, rules') = Planned(op, i)
       /\ failed' = (failed \ op.scope) \cup bad

Next == Begin \/ End

vars == <<rules, failed, op>>

Spec == Init /\ [][Next]_vars
=============================================================================
