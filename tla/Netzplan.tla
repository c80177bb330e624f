------------------------------ MODULE Netzplan ------------------------------
(***************************************************************************)
(* The network plan that build_netzplan_data() of acl.py draws from the    *)
(* tables: a node per client, destination and group around the server, and *)
(* an edge per client and destination that bundles the allowed services.   *)
(* Positions, labels and the tunnel edges to all clients are left out, and *)
(* the page is drawn from one state of the tables.                         *)
(***************************************************************************)
EXTENDS AclManager

CONSTANT Server   \* the node in the middle

ASSUME NetzplanAssumption == Server \notin Ips \cup Dests \cup Groups

RuleSet == {rules[r] : r \in {q \in RuleIds : rules[q] # NoRow}}

(* The keys of the outer ring and of the inner one, which holds groups. *)
ring_ips == {row.ip : row \in Rows} \cup ({rule.dest : rule \in RuleSet} \ Groups)

group_keys == {rule.dest : rule \in RuleSet} \cap Groups

nodes ==
    {[ip |-> k,
      unrestricted |-> \E row \in Rows : row.ip = k /\ ~row.restricted,
      is_client    |-> \E row \in Rows : row.ip = k,
      is_group     |-> k \in Groups,
      is_server    |-> k = Server] : k \in {Server} \cup ring_ips \cup group_keys}

(* Mutant: rules for groups are not drawn. *)
EdgesToAddresses ==
    {[from |-> clients[rule.client].ip, to |-> rule.dest,
      services |-> {other.service : other \in {q \in RuleSet :
                        q.client = rule.client /\ q.dest = rule.dest}}] :
        rule \in {q \in RuleSet : q.dest \notin Groups}}

acl_edges ==
    {[from |-> clients[rule.client].ip, to |-> rule.dest,
      services |-> {other.service : other \in {q \in RuleSet :
                        q.client = rule.client /\ q.dest = rule.dest}}] :
        rule \in RuleSet}

-----------------------------------------------------------------------------
(* What a reader of the plan takes client c to be allowed: the services at *)
(* its edges, for the address or for each other member of the group.       *)
Drawn(c) ==
    UNION {(IF e.to \in Groups THEN tag_member_ips(e.to, c) ELSE {e.to})
               \X {Filter(services[s]) : s \in e.services} :
              e \in {a \in acl_edges : a.from = clients[c].ip}}

Highlighted(c) ==
    \E n \in nodes : n.ip = clients[c].ip /\ n.is_client /\ n.unrestricted

(* The plan is drawn from the tables and never asks the server; still, for *)
(* a client whose last request succeeded and whose rows have not changed   *)
(* since, the packets meet on the server what the plan shows: nothing if   *)
(* it is highlighted as unrestricted, otherwise an ACCEPT for exactly what *)
(* its edges say, and a DROP.                                              *)
PlanShowsChains ==
    \A c \in Existing :
        LET ip == clients[c].ip
        IN  standing[c] = "applied" /\ ~InProgress(c) =>
                IF Highlighted(c) THEN Hooked(ip) => chains[ip] = EmptyChain
                ELSE Hooked(ip) /\ chains[ip] = [accepts |-> Drawn(c), drop |-> TRUE]

-----------------------------------------------------------------------------
(* Behind it: no rule outlives its client (ON DELETE CASCADE), so that no  *)
(* edge begins at a client that is gone.                                   *)
RulesHaveClients ==
    \A r \in RuleIds : rules[r] # NoRow => rules[r].client \in Existing

=============================================================================
