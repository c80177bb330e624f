----------------------------- MODULE AclManager -----------------------------
(***************************************************************************)
(* The app above the target server: the SQLite tables that say who may     *)
(* reach what, and the HTTP requests of the worker threads that change     *)
(* them and carry them over to iptables (acl.py, routes/permissions.py,    *)
(* routes/maintenance.py, routes/services.py, tags.py).                    *)
(*                                                                         *)
(* One action per database statement and per call to the server: between   *)
(* two of them any other thread can run, since waitress serves requests on *)
(* several threads and nothing in the app locks.  An HTTP handler that     *)
(* consists of a single transaction is a single action.                    *)
(***************************************************************************)
EXTENDS Target, Functions

CONSTANTS
    MaxClients,   \* bound: rows ever inserted into clients
    MaxRules,     \* bound: rows ever inserted into rules
    MaxServices,  \* bound: rows ever inserted into services
    Dests,        \* addresses and networks that rules name
    Groups,       \* tags: those there will ever be
    Kinds,        \* services the administrators add
    NoPort,       \* a service without a port
    LocalMode,    \* EXEC_MODE == "local"?
    Ops,          \* the requests the administrators make
    Faults,       \* what can go wrong
    NoRow         \* the SELECT found nothing

ClientIds == 1..MaxClients
RuleIds == 1..MaxRules
ServiceIds == 1..MaxServices

AllOps == {"add_client", "toggle_client", "set_client_wg_ip", "delete_client",
           "add_rule", "delete_rule", "set_full_access_targets",
           "apply_single", "apply_all", "cleanup",
           "add_tag", "delete_tag", "set_tag_members", "add_service", "delete_service"}

QueueOps == {"apply_all", "startup"}

Row == [id : ClientIds, ip : Ips, restricted : BOOLEAN]

RuleRow == [client : ClientIds, dest : Dests \cup Groups, service : ServiceIds]

(* The builtin service "Alle Ports", the first of the table.               *)
AllPorts == [protocol |-> "all", port |-> NoPort]

AllPortsId == 1

(* What the ACCEPT line of a service matches besides the destination: a    *)
(* protocol without a port is left out of it.                              *)
Filter(s) == IF s.protocol = "all" \/ s.port = NoPort THEN AllPorts ELSE s

Filters == {Filter(s) : s \in Kinds \cup {AllPorts}}

ASSUME AclAssumption ==
    /\ MaxClients \in Nat /\ MaxRules \in Nat /\ MaxServices \in Nat \ {0}
    /\ \A s \in Kinds : DOMAIN s = {"protocol", "port"}
    /\ Dests \X Filters \subseteq Targets
    /\ Groups # {} => Ips \X Filters \subseteq Targets
    /\ Groups \cap (Dests \cup Ips) = {}
    /\ IsFiniteSet(Dests)
    /\ LocalMode \in BOOLEAN
    /\ LocalMode => Strays = {}
    /\ Ops \subseteq AllOps
    /\ Faults \subseteq {"probe", "timeout", "restart", "reboot"}
    /\ NoRow \notin Row \cup RuleRow \cup Kinds \cup {AllPorts}

VARIABLES
    clients,    \* the table clients
    rules,      \* the table rules
    services,   \* the table services
    tags,       \* the table tags: which are not yet, still or no longer there
    members,    \* the table client_tags
    autoinc,    \* sqlite_sequence: the last id given out, per table
    req,        \* the request of each thread and what it has read so far
    serving,    \* does the app answer requests?
    disturbed,  \* history: threads in whose affairs somebody else has meddled
    standing    \* history: what the last answers said of each client

dbvars == <<clients, rules, services, tags, members, autoinc>>
vars == <<tvars, dbvars, req, serving, disturbed, standing>>

RequestSteps == {"idle", "toggle", "eraseRule", "eraseService", "grants", "grant", "reread",
                 "list", "detect", "read", "resolve", "run", "next", "orphans",
                 "eraseClient", "readdress", "unchanged", "reply"}

Request == [op : AllOps \cup {"none", "startup"}, at : RequestSteps,
            cid : ClientIds \cup {0}, rid : Nat, sid : ServiceIds \cup {0},
            row : Row \cup {NoRow}, queue : SUBSET Row, ips : SUBSET Ips,
            picked : SUBSET Dests, grants : SUBSET (Dests \X RuleIds),
            groups : SUBSET (Groups \X Filters), targets : SUBSET Targets,
            hook : Hooks, failed : BOOLEAN]

Idle == [op |-> "none", at |-> "idle", cid |-> 0, rid |-> 0, sid |-> 0, row |-> NoRow,
         queue |-> {}, ips |-> {}, picked |-> {}, grants |-> {}, groups |-> {},
         targets |-> {}, hook |-> "FORWARD", failed |-> FALSE]

Existing == {c \in ClientIds : clients[c] # NoRow}

Rows == {clients[c] : c \in Existing}

RulesWith(column, value) == {r \in RuleIds : rules[r] # NoRow /\ rules[r][column] = value}

(* The rules of client c joined with their services, groups unresolved.    *)
RawLines(c) ==
    {<<rules[r].dest, Filter(services[rules[r].service])>> : r \in RulesWith("client", c)}

(* Mutant: the members' ids instead of their addresses. *)
MemberIds(g, c) == (members[g] \cap Existing) \ {c}

tag_member_ips(g, c) == {clients[m].ip : m \in (members[g] \cap Existing) \ {c}}

(* What the rules of client c say right now, groups resolved.              *)
Policy(c) == (RawLines(c) \ (Groups \X Filters))
                \cup UNION {tag_member_ips(l[1], c) \X {l[2]} :
                               l \in RawLines(c) \cap (Groups \X Filters)}

Init ==
    /\ TargetInit
    /\ clients = [c \in ClientIds |-> NoRow]
    /\ rules = [r \in RuleIds |-> NoRow]
    /\ services = [s \in ServiceIds |-> IF s = AllPortsId THEN AllPorts ELSE NoRow]
    /\ tags = [g \in Groups |-> "new"]
    /\ members = [g \in Groups |-> {}]
    /\ autoinc = [clients |-> 0, rules |-> 0, services |-> AllPortsId]
    /\ req = [t \in Threads |-> Idle]
    /\ serving = TRUE
    /\ disturbed = {}
    /\ standing = [c \in ClientIds |-> "unknown"]

-----------------------------------------------------------------------------
(* A thread takes up a request, or moves on with it. *)

Ready(t, op) == serving /\ req[t].at = "idle" /\ op \in Ops

Move(t, r) == req' = [req EXCEPT ![t] = r]

(* DELETE FROM rules, directly or by ON DELETE CASCADE. *)
EraseRules(R) == rules' = [r \in RuleIds |-> IF r \in R THEN NoRow ELSE rules[r]]

(* The changes of the matrix that may still add a rule for each destination. *)
Pending == {o \in Threads : req[o].at \in {"grants", "grant"}}

(* Bound: n more rules, and those of the pending matrix changes. *)
RoomForRules(n) ==
    autoinc.rules + n + Cardinality(Pending) * Cardinality(Dests) <= MaxRules

(* run_on_target: the thread hands a script to the server and waits. *)
Launch(t, r, s) ==
    /\ Start(t, s)
    /\ Move(t, [r EXCEPT !.at = "run", !.groups = {}, !.targets = {}])

-----------------------------------------------------------------------------
(* Requests that are one transaction and leave the server alone *)

add_client(t) ==
    /\ Ready(t, "add_client")
    /\ autoinc.clients < MaxClients
    /\ \E ip \in Ips \ {row.ip : row \in Rows}, b \in BOOLEAN :
          LET id == autoinc.clients + 1
          IN  /\ clients' = [clients EXCEPT ![id] = [id |-> id, ip |-> ip, restricted |-> b]]
              /\ autoinc' = [autoinc EXCEPT !.clients = id]
    /\ UNCHANGED <<tvars, rules, services, tags, members, req, serving>>

add_service(t) ==
    /\ Ready(t, "add_service")
    /\ autoinc.services < MaxServices
    /\ \E k \in Kinds :
          LET id == autoinc.services + 1
          IN  /\ services' = [services EXCEPT ![id] = k]
              /\ autoinc' = [autoinc EXCEPT !.services = id]
    /\ UNCHANGED <<tvars, clients, rules, tags, members, req, serving>>

add_tag(t) ==
    /\ Ready(t, "add_tag")
    /\ \E g \in Groups : tags[g] = "new" /\ tags' = [tags EXCEPT ![g] = "live"]
    /\ UNCHANGED <<tvars, clients, rules, services, members, autoinc, req, serving>>

(* With the rules for the group (CASCADE); no chain follows. *)
delete_tag(t) ==
    /\ Ready(t, "delete_tag")
    /\ \E g \in Groups :
          /\ tags[g] = "live"
          /\ tags' = [tags EXCEPT ![g] = "gone"]
          /\ members' = [members EXCEPT ![g] = {}]
          /\ EraseRules(RulesWith("dest", g))
    /\ UNCHANGED <<tvars, clients, services, autoinc, req, serving>>

set_tag_members(t) ==
    /\ Ready(t, "set_tag_members")
    /\ \E g \in Groups, S \in SUBSET Existing :
          tags[g] = "live" /\ members' = [members EXCEPT ![g] = S]
    /\ UNCHANGED <<tvars, clients, rules, services, tags, autoinc, req, serving>>

-----------------------------------------------------------------------------
(* The first statements of the other requests *)

toggle_client(t) ==
    /\ Ready(t, "toggle_client")
    /\ \E c \in Existing :
          Move(t, [Idle EXCEPT !.op = "toggle_client", !.at = "toggle", !.cid = c, !.row = clients[c]])
    /\ UNCHANGED <<tvars, dbvars, serving>>

add_rule(t) ==
    /\ Ready(t, "add_rule")
    /\ RoomForRules(1)
    /\ \E c \in Existing, d \in Dests \cup {g \in Groups : tags[g] = "live"}, s \in ServiceIds :
          LET id == autoinc.rules + 1
          IN  /\ services[s] # NoRow
              /\ rules' = [rules EXCEPT ![id] = [client |-> c, dest |-> d, service |-> s]]
              /\ autoinc' = [autoinc EXCEPT !.rules = id]
              /\ Move(t, [Idle EXCEPT !.op = "add_rule", !.at = "reread", !.cid = c])
    /\ UNCHANGED <<tvars, clients, services, tags, members, serving>>

delete_rule(t) ==
    /\ Ready(t, "delete_rule")
    /\ \E r \in RuleIds :
          /\ rules[r] # NoRow
          /\ Move(t, [Idle EXCEPT !.op = "delete_rule", !.at = "eraseRule",
                                  !.cid = rules[r].client, !.rid = r])
    /\ UNCHANGED <<tvars, dbvars, serving>>

apply_single(t) ==
    /\ Ready(t, "apply_single")
    /\ \E c \in Existing :
          Move(t, [Idle EXCEPT !.op = "apply_single", !.at = "detect", !.cid = c, !.row = clients[c]])
    /\ UNCHANGED <<tvars, dbvars, serving>>

apply_all(t) ==
    /\ Ready(t, "apply_all")
    /\ Move(t, [Idle EXCEPT !.op = "apply_all", !.at = "next", !.queue = Rows])
    /\ UNCHANGED <<tvars, dbvars, serving>>

(* Mutant: the row is deleted and the server left alone. *)
DeleteRowOnly(t) ==
    /\ Ready(t, "delete_client")
    /\ \E c \in Existing :
          Move(t, [Idle EXCEPT !.op = "delete_client", !.at = "eraseClient", !.cid = c])
    /\ UNCHANGED <<tvars, dbvars, serving>>

delete_client(t) ==
    /\ Ready(t, "delete_client")
    /\ \E c \in Existing :
          Move(t, [Idle EXCEPT !.op = "delete_client", !.at = "detect", !.cid = c, !.row = clients[c]])
    /\ UNCHANGED <<tvars, dbvars, serving>>

(* It removes the chain of the old address before it tries the new one. *)
set_client_wg_ip(t) ==
    /\ Ready(t, "set_client_wg_ip")
    /\ \E c \in Existing : \E ip \in Ips \ {clients[c].ip} :
          Move(t, [Idle EXCEPT !.op = "set_client_wg_ip", !.at = "detect", !.cid = c,
                               !.row = clients[c], !.ips = {ip}])
    /\ UNCHANGED <<tvars, dbvars, serving>>

(* The matrix: the destinations that shall have the service "Alle Ports". *)
set_full_access_targets(t) ==
    /\ Ready(t, "set_full_access_targets")
    /\ RoomForRules(Cardinality(Dests))
    /\ \E c \in Existing, D \in SUBSET Dests :
          /\ clients[c].restricted
          /\ Move(t, [Idle EXCEPT !.op = "set_full_access_targets", !.at = "grants", !.cid = c,
                                  !.row = clients[c], !.picked = D])
    /\ UNCHANGED <<tvars, dbvars, serving>>

(* Mutant: the rules are not counted. *)
DeleteAnyService(t) ==
    /\ Ready(t, "delete_service")
    /\ \E s \in ServiceIds \ {AllPortsId} :
          /\ services[s] # NoRow
          /\ Move(t, [Idle EXCEPT !.op = "delete_service", !.at = "eraseService", !.sid = s,
                                  !.rid = autoinc.rules])
    /\ UNCHANGED <<tvars, dbvars, serving>>

(* It counts the rules that use the service; rid is the last of all then.  *)
delete_service(t) ==
    /\ Ready(t, "delete_service")
    /\ \E s \in ServiceIds \ {AllPortsId} :
          /\ services[s] # NoRow
          /\ RulesWith("service", s) = {}
          /\ Move(t, [Idle EXCEPT !.op = "delete_service", !.at = "eraseService", !.sid = s,
                                  !.rid = autoinc.rules])
    /\ UNCHANGED <<tvars, dbvars, serving>>

cleanup_orphaned_chains(t) ==
    /\ Ready(t, "cleanup")
    /\ Move(t, [Idle EXCEPT !.op = "cleanup", !.at = "list", !.queue = Rows])
    /\ UNCHANGED <<tvars, dbvars, serving>>

-----------------------------------------------------------------------------
(* Their later statements *)

(* UPDATE clients SET restricted = the negation of what was read. *)
Negate(t, next) ==
    /\ req[t].at = "toggle"
    /\ clients' = IF req[t].cid \in Existing
                  THEN [clients EXCEPT ![req[t].cid].restricted = ~req[t].row.restricted]
                  ELSE clients
    /\ Move(t, [req[t] EXCEPT !.at = next])
    /\ UNCHANGED <<tvars, rules, services, tags, members, autoinc, serving>>

(* Mutant: the row read before the update is applied. *)
ToggleWithoutReread(t) == Negate(t, "detect")

ToggleWrite(t) == Negate(t, "reread")

(* Mutant: the rule is deleted and the chain left as it is. *)
EraseRuleOnly(t) ==
    /\ req[t].at = "eraseRule"
    /\ EraseRules({req[t].rid})
    /\ Move(t, [req[t] EXCEPT !.at = "reply"])
    /\ UNCHANGED <<tvars, clients, services, tags, members, autoinc, serving>>

EraseRule(t) ==
    /\ req[t].at = "eraseRule"
    /\ EraseRules({req[t].rid})
    /\ Move(t, [req[t] EXCEPT !.at = "reread"])
    /\ UNCHANGED <<tvars, clients, services, tags, members, autoinc, serving>>

(* DELETE FROM services, with the rules that use it by now (CASCADE). *)
EraseService(t) ==
    /\ req[t].at = "eraseService"
    /\ services' = [services EXCEPT ![req[t].sid] = NoRow]
    /\ EraseRules(RulesWith("service", req[t].sid))
    /\ Move(t, Idle)
    /\ UNCHANGED <<tvars, clients, tags, members, autoinc, serving>>

(* The rules that give client c all ports of a destination, by their ids.  *)
Granted(c) ==
    {<<rules[r].dest, r>> :
        r \in {q \in RulesWith("client", c) \cap RulesWith("service", AllPortsId) : rules[q].dest \notin Groups}}

ReadGrants(t) ==
    /\ req[t].at = "grants"
    /\ Move(t, [req[t] EXCEPT !.grants = Granted(req[t].cid), !.at = "grant"])
    /\ UNCHANGED <<tvars, dbvars, serving>>

(* existing_by_ip: for each destination the last of the rules read.        *)
ByDest(grants) == {g \in grants : \A k \in grants : k[1] = g[1] => k[2] <= g[2]}

(* Mutant: what is no longer chosen stays. *)
AddOnly(existing, desired) == [added |-> desired \ existing, removed |-> {}]

diff_target_sets(existing, desired) ==
    [added |-> desired \ existing, removed |-> existing \ desired]

(* The INSERTs and DELETEs of the difference in one transaction, and then  *)
(* apply_client with the row read at the beginning.                        *)
Grant(t) ==
    /\ req[t].at = "grant"
    /\ LET diff == diff_target_sets({g[1] : g \in req[t].grants}, req[t].picked)
           added == diff.added
           removed == {g[2] : g \in {k \in ByDest(req[t].grants) : k[1] \in diff.removed}}
           ids == (autoinc.rules + 1)..(autoinc.rules + Cardinality(added))
       IN  \/ /\ added = {} /\ removed = {}
              /\ Move(t, [req[t] EXCEPT !.at = "unchanged"])
              /\ UNCHANGED <<rules, autoinc>>
           \/ /\ added # {} /\ req[t].cid \notin Existing
              /\ Move(t, [req[t] EXCEPT !.failed = TRUE, !.at = "reply"])
              /\ UNCHANGED <<rules, autoinc>>
           \/ /\ added # {} => req[t].cid \in Existing
              /\ added # {} \/ removed # {}
              /\ \E dest \in Bijection(ids, added) :
                    rules' = [r \in RuleIds |->
                        IF r \in ids THEN [client |-> req[t].cid, dest |-> dest[r], service |-> AllPortsId]
                        ELSE IF r \in removed THEN NoRow ELSE rules[r]]
              /\ autoinc' = [autoinc EXCEPT !.rules = @ + Cardinality(added)]
              /\ Move(t, [req[t] EXCEPT !.at = "detect"])
    /\ UNCHANGED <<tvars, clients, services, tags, members, serving>>

Reread(t) ==
    /\ req[t].at = "reread"
    /\ Move(t, [req[t] EXCEPT !.row = clients[req[t].cid], !.at = "detect"])
    /\ UNCHANGED <<tvars, dbvars, serving>>

(* The addresses of the clients that cleanup has read. *)
Known(t) == {row.ip : row \in req[t].queue}

(* list_remote_wgacl_chains: what is not among the addresses read before. *)
ListChains(t) ==
    /\ req[t].at = "list"
    /\ \/ Move(t, [req[t] EXCEPT !.ips = {ip \in Ips : chains[ip] # NoChain} \ Known(t),
                                 !.at = "detect"])
       \/ "probe" \in Faults /\ Move(t, [req[t] EXCEPT !.failed = TRUE, !.at = "reply"])
    /\ UNCHANGED <<tvars, dbvars, serving>>

(* detect_hook_chain() takes every failure of its probe for "no Docker". *)
detect_hook_chain == {RealHook} \cup IF "probe" \in Faults THEN {"FORWARD"} ELSE {}

(* Deleting or moving a client begins with the removal of its chain. *)
Removing(r) == r.op = "delete_client" \/ (r.op = "set_client_wg_ip" /\ r.ips # {})

(* What follows the probe: cleanup goes through its list, a removal and    *)
(* apply_client for an unrestricted client run the remove script,          *)
(* apply_client for a restricted one reads the rules, and for a client     *)
(* that is gone it raises.                                                 *)
Detect(t) ==
    /\ req[t].at = "detect"
    /\ \E h \in detect_hook_chain :
          LET r == [req[t] EXCEPT !.hook = h]
              open == Removing(r) \/ (r.row # NoRow /\ ~r.row.restricted)
          IN  \/ /\ r.op = "cleanup"
                 /\ Move(t, [r EXCEPT !.at = "orphans"])
                 /\ UNCHANGED tvars
              \/ /\ r.op # "cleanup" /\ open
                 /\ Launch(t, r, build_remove_script(r.row.ip, h))
              \/ /\ r.op # "cleanup" /\ ~open /\ r.row # NoRow
                 /\ Move(t, [r EXCEPT !.at = "read"])
                 /\ UNCHANGED tvars
              \/ /\ r.op # "cleanup" /\ r.row = NoRow
                 /\ Move(t, [r EXCEPT !.failed = TRUE, !.at = "reply"])
                 /\ UNCHANGED tvars
    /\ UNCHANGED <<dbvars, serving>>

(* apply_client: the rules of the client as it was read. *)
ReadRules(t) ==
    /\ req[t].at = "read"
    /\ LET found == RawLines(req[t].row.id)
           r == [req[t] EXCEPT !.groups = found \cap (Groups \X Filters), !.targets = found \ (Groups \X Filters)]
       IN  \/ r.groups = {} /\ Launch(t, r, build_apply_script(r.row.ip, r.targets, r.hook))
           \/ r.groups # {} /\ Move(t, [r EXCEPT !.at = "resolve"]) /\ UNCHANGED tvars
    /\ UNCHANGED <<dbvars, serving>>

(* resolve_rule_targets: one SELECT per group rule, then the script. *)
ResolveGroup(t) ==
    /\ req[t].at = "resolve"
    /\ \E l \in req[t].groups :
          LET r == [req[t] EXCEPT !.groups = @ \ {l},
                                  !.targets = @ \cup tag_member_ips(l[1], req[t].row.id) \X {l[2]}]
          IN  \/ r.groups = {} /\ Launch(t, r, build_apply_script(r.row.ip, r.targets, r.hook))
              \/ r.groups # {} /\ Move(t, r) /\ UNCHANGED tvars
    /\ UNCHANGED <<dbvars, serving>>

(* run_on_target returns.  A removal does not look at the result. *)
AfterRun(r) ==
    CASE r.op \in QueueOps        -> "next"
      [] r.op = "cleanup"         -> "orphans"
      [] r.op = "delete_client"   -> "eraseClient"
      [] Removing(r) /\ r.op # "delete_client" -> "readdress"
      [] OTHER                    -> "reply"

Return(t, ok) ==
    /\ req[t].at = "run"
    /\ Move(t, [req[t] EXCEPT !.failed = @ \/ (~ok /\ ~Removing(req[t])),
                             !.at = AfterRun(req[t])])
    /\ script' = [script EXCEPT ![t] = NoScript]
    /\ UNCHANGED <<chains, hooks, saved, opened, dbvars, serving>>

(* Mutants: TimeoutExpired is not caught; a timeout counts as success; the *)
(* caller does not wait.                                                   *)
UncaughtTimeout(t) == Ended(t) /\ Return(t, At(t, "done"))

TimeoutIsSuccess(t) == (script[t] = NoScript \/ Ended(t)) /\ Return(t, ~At(t, "failed"))

NoWait(t) == Return(t, At(t, "done"))

FinishRun(t) == (script[t] = NoScript \/ Ended(t)) /\ Return(t, At(t, "done"))

(* The loop of apply_all and of reapply_all_on_startup, in table order. *)
NextClient(t) ==
    /\ req[t].at = "next"
    /\ \/ \E row \in req[t].queue :
             /\ \A other \in req[t].queue : row.id <= other.id
             /\ Move(t, [req[t] EXCEPT !.row = row, !.queue = @ \ {row}, !.at = "detect"])
       \/ req[t].queue = {} /\ Move(t, [req[t] EXCEPT !.at = "reply"])
    /\ UNCHANGED <<tvars, dbvars, serving>>

(* The loop of cleanup_orphaned_chains. *)
NextOrphan(t) ==
    /\ req[t].at = "orphans"
    /\ \/ \E ip \in req[t].ips :
             Launch(t, [req[t] EXCEPT !.ips = @ \ {ip}], build_remove_script(ip, req[t].hook))
       \/ req[t].ips = {} /\ Move(t, [req[t] EXCEPT !.at = "reply"]) /\ UNCHANGED tvars
    /\ UNCHANGED <<dbvars, serving>>

(* DELETE FROM clients, with its rules and group memberships (CASCADE). *)
EraseClient(t) ==
    /\ req[t].at = "eraseClient"
    /\ clients' = [clients EXCEPT ![req[t].cid] = NoRow]
    /\ EraseRules(RulesWith("client", req[t].cid))
    /\ members' = [g \in Groups |-> members[g] \ {req[t].cid}]
    /\ Move(t, [req[t] EXCEPT !.at = "reply"])
    /\ UNCHANGED <<tvars, services, tags, autoinc, serving>>

(* UPDATE clients SET wg_ip: refused if another client has the address,    *)
(* when the chain of the old one is gone already.                          *)
Readdress(t) ==
    /\ req[t].at = "readdress"
    /\ LET c == req[t].cid
           taken == c \in Existing /\ \E row \in Rows : row.id # c /\ row.ip \in req[t].ips
       IN  \/ /\ taken
              /\ Move(t, [req[t] EXCEPT !.failed = TRUE, !.at = "reply"])
              /\ UNCHANGED clients
           \/ /\ ~taken
              /\ \E ip \in req[t].ips :
                    clients' = IF c \in Existing THEN [clients EXCEPT ![c].ip = ip] ELSE clients
              /\ Move(t, [req[t] EXCEPT !.ips = {}, !.at = "reread"])
    /\ UNCHANGED <<tvars, rules, services, tags, members, autoinc, serving>>

(* The response; after reapply_all_on_startup the app starts to listen. *)
Reply(t) ==
    /\ req[t].at \in {"unchanged", "reply"}
    /\ Move(t, Idle)
    /\ serving' = (serving \/ req[t].op = "startup")
    /\ UNCHANGED <<tvars, dbvars>>

Continue(t) ==
    \/ ToggleWrite(t) \/ EraseRule(t) \/ EraseService(t) \/ ReadGrants(t) \/ Grant(t)
    \/ Reread(t) \/ ListChains(t) \/ Detect(t) \/ ReadRules(t) \/ ResolveGroup(t)
    \/ FinishRun(t) \/ NextClient(t) \/ NextOrphan(t) \/ EraseClient(t) \/ Readdress(t)
    \/ Reply(t)

Begin(t) ==
    \/ add_client(t) \/ toggle_client(t) \/ set_client_wg_ip(t) \/ delete_client(t)
    \/ add_rule(t) \/ delete_rule(t) \/ set_full_access_targets(t)
    \/ apply_single(t) \/ apply_all(t) \/ cleanup_orphaned_chains(t)
    \/ add_tag(t) \/ delete_tag(t) \/ set_tag_members(t)
    \/ add_service(t) \/ delete_service(t)

-----------------------------------------------------------------------------
(* History: t stays undisturbed as long as nobody else changes what its   *)
(* request is about in the tables, no other script works on one of its     *)
(* clients, and the server does not reboot under it.  Scripts for other    *)
(* clients do not count: they share the hook chain.                        *)

About(t) == IF req[t].op \in QueueOps THEN ClientIds ELSE {req[t].cid} \ {0}

Concerned(t) == About(t) \cap Existing

InProgress(c) == \E t \in Threads : c \in Concerned(t)

(* What apply_client reads of client c, statement by statement.            *)
Reading(c) ==
    LET lines == RawLines(c)
    IN  <<clients[c], lines,
          [l \in lines \cap (Groups \X Filters) |-> tag_member_ips(l[1], c)]>>

Changed(c) == dbvars' # dbvars /\ Reading(c)' # Reading(c)

(* To the matrix it matters which rules there are, not only what they say. *)
Regranted(t) ==
    /\ req[t].op = "set_full_access_targets" /\ rules' # rules
    /\ Granted(req[t].cid)' # Granted(req[t].cid)

(* cleanup may only touch addresses that it did not know as a client's.    *)
Meddles(j, ip) ==
    On(j, ip) /\ ~(j \in Threads /\ req[j].op = "cleanup" /\ ip \in Known(j))

Alone(t) == \A j \in Jobs \ {t}, c \in Concerned(t) : ~Meddles(j, clients[c].ip)

(* The standing of a client: what the last answer about it said, unless    *)
(* its rows have changed since, a script has been on its address that is   *)
(* not of a request about it, or the server has rebooted.  Unknown, too,   *)
(* if the app was restarted in the middle of a request about it.           *)
Answered(t) == req[t].at = "reply" /\ req'[t].at = "idle"

Verdict(t, c) ==
    CASE t \in disturbed -> "unknown"
      [] t \notin disturbed /\ ~req[t].failed -> "applied"
      [] t \notin disturbed /\ req[t].failed ->
            IF Removing(req[t]) /\ standing[c] = "applied" THEN "refused" ELSE "unknown"

Upset(c) ==
    \/ Changed(c)
    \/ \E j \in Jobs : Meddles(j, clients[c].ip)' /\ (j \in Strays \/ c \notin Concerned(j)')

Watch ==
    /\ disturbed' = {t \in Threads :
          /\ req'[t].at # "idle"
          /\ \/ t \in disturbed
             \/ UNCHANGED req[t] /\ (Regranted(t) \/ \E c \in About(t) : Changed(c))
             \/ ~Alone(t)'}
    /\ standing' = [c \in ClientIds |->
          IF c \notin Existing \/ clients'[c] = NoRow \/ Upset(c) THEN "unknown"
          ELSE IF \E t \in Threads : Answered(t) /\ c \in Concerned(t)
               THEN Verdict(CHOOSE t \in Threads : Answered(t), c)
               ELSE standing[c]]

-----------------------------------------------------------------------------
(* The server and the circumstances *)

(* subprocess.TimeoutExpired: in local mode bash is killed; over SSH the   *)
(* script may have broken off, or run on without anybody waiting for it.   *)
Timeout(t) ==
    /\ "timeout" \in Faults
    /\ req[t].at = "run" /\ script[t] # NoScript /\ ~Ended(t)
    /\ \/ Kill({t})
       \/ ~LocalMode /\ \E s \in Strays : Detach(t, s)
    /\ UNCHANGED <<dbvars, req, serving>>

(* Mutant: only the clients whose jump is missing are set up again. *)
StartupUnhooked == [Idle EXCEPT !.op = "startup", !.at = "next",
                                !.queue = {row \in Rows : ~Hooked(row.ip)}]

StartupRequest == [Idle EXCEPT !.op = "startup", !.at = "next", !.queue = Rows]

(* The process starts anew: in local mode reapply_all_on_startup() comes   *)
(* before the first request is served.                                     *)
StartApp ==
    /\ \E b \in Threads :
          req' = [t \in Threads |-> IF LocalMode /\ t = b THEN StartupRequest ELSE Idle]
    /\ serving' = ~LocalMode
    /\ disturbed' = {}

(* The container is restarted.  A script it runs dies with it, or, over    *)
(* SSH, runs on without anybody waiting for it (one of them at most).      *)
Restart ==
    /\ "restart" \in Faults
    /\ \/ Kill(Threads)
       \/ /\ ~LocalMode
          /\ \E t \in Threads, s \in Strays :
                Detach(t, s) /\ \A o \in Threads \ {t} : script[o] = NoScript
    /\ StartApp
    /\ standing' = [c \in ClientIds |->
                       IF InProgress(c) THEN "unknown" ELSE standing[c]]
    /\ UNCHANGED dbvars

(* The server reboots, in local mode with the container on it. *)
ServerReboot ==
    /\ "reboot" \in Faults
    /\ Reboot
    /\ \/ LocalMode /\ StartApp
       \/ /\ ~LocalMode
          /\ disturbed' = {t \in Threads : req[t].at # "idle"}
          /\ UNCHANGED <<req, serving>>
    /\ standing' = [c \in ClientIds |-> "unknown"]
    /\ UNCHANGED dbvars

ServerStep ==
    /\ \/ \E j \in Jobs : Command(j)
       \/ \E s \in Strays : Collect(s)
    /\ UNCHANGED <<dbvars, req, serving>>

-----------------------------------------------------------------------------
Next ==
    \/ \E t \in Threads : (Begin(t) \/ Continue(t) \/ Timeout(t)) /\ Watch
    \/ ServerStep /\ Watch
    \/ Restart
    \/ ServerReboot

(* Threads are scheduled, and run_on_target waits no longer than 15 s.     *)
(* Nothing is assumed about the server.                                    *)
Fairness ==
    \A t \in Threads : WF_vars(Continue(t) /\ Watch) /\ WF_vars(Timeout(t) /\ Watch)

Spec == Init /\ [][Next]_vars

LiveSpec == Spec /\ Fairness

-----------------------------------------------------------------------------
TablesTypeOK ==
    /\ clients \in [ClientIds -> Row \cup {NoRow}]
    /\ \A c \in Existing : clients[c].id = c
    /\ rules \in [RuleIds -> RuleRow \cup {NoRow}]
    /\ services \in [ServiceIds -> Kinds \cup {AllPorts, NoRow}]
    /\ tags \in [Groups -> {"new", "live", "gone"}]
    /\ members \in [Groups -> SUBSET ClientIds]
    /\ autoinc \in [clients : 0..MaxClients, rules : Nat, services : ServiceIds]

(* Every variable has its type: above all, what a thread has read and will *)
(* hand to a script is a row, an address, a target of the right table.     *)
TypeOK ==
    /\ TargetTypeOK
    /\ TablesTypeOK
    /\ req \in [Threads -> Request]
    /\ serving \in BOOLEAN
    /\ disturbed \subseteq Threads
    /\ standing \in [ClientIds -> {"unknown", "applied", "refused"}]

(* The traffic of client c meets exactly what the tables say: an accept    *)
(* for each of its targets and then a DROP, or no filter at all.           *)
Enforced(c) ==
    LET row == clients[c]
    IN  IF row.restricted
        THEN Hooked(row.ip) /\ chains[row.ip] = [accepts |-> Policy(c), drop |-> TRUE]
        ELSE Hooked(row.ip) => chains[row.ip] = EmptyChain

(* A request that reports success, and in whose affairs nobody meddled     *)
(* while it ran, leaves its client enforced as the tables say, whatever    *)
(* was left on the server by scripts that broke off, by jumps in the wrong *)
(* hook chain, by a restart or a reboot; and the client stays so until its *)
(* rows change or the server reboots, whatever requests for other clients  *)
(* and cleanups do: they edit the same hook chain.                         *)
SettledStaysEnforced ==
    \A c \in Existing : standing[c] = "applied" /\ ~InProgress(c) => Enforced(c)

(* Nothing of this app is on the server for ip. *)
Bare(ip) == chains[ip] = NoChain /\ ~Hooked(ip)

(* What there is for ip is the filter of a restricted client. *)
Filtered(ip) == \E row \in Rows : row.ip = ip /\ row.restricted /\ Hooked(ip) /\ HasDrop(ip)

Tidy(ip) == Bare(ip) \/ Filtered(ip)

(* Between requests, and as long as nothing has gone wrong, only clients   *)
(* of the app that are restricted have a chain or a jump: everybody else   *)
(* is left to the server's own rules.                                      *)
NoResidue ==
    (\A t \in Threads : req[t].at = "idle") => \A ip \in Ips : Tidy(ip)

(* After an undisturbed change of the matrix the client has full access    *)
(* to what was chosen there and to nothing else, unless it read two rules  *)
(* for one destination (permissions.py:442 keeps one id for each).         *)
FullAccessAsChosen ==
    \A t \in Threads :
        /\ req[t].op = "set_full_access_targets" /\ req[t].at \in {"unchanged", "reply"}
        /\ ~req[t].failed /\ t \notin disturbed
        /\ \A g, k \in req[t].grants : g[1] = k[1] => g = k
        => {g[1] : g \in Granted(req[t].cid)} = req[t].picked

(* The step that takes rule r away has been asked to. *)
Meant(r) ==
    \/ clients'[rules[r].client] = NoRow
    \/ rules[r].dest \in Groups /\ tags'[rules[r].dest] = "gone"
    \/ \E t \in Threads :
          \/ req[t].at = "eraseRule" /\ req[t].rid = r
          \/ req[t].at = "eraseService" /\ req[t].sid = rules[r].service /\ r > req[t].rid
          \/ /\ req[t].at = "grant" /\ req[t].cid = rules[r].client
             /\ rules[r].service = AllPortsId /\ rules[r].dest \notin req[t].picked

(* A rule goes only by a request that names it, its client or its group,   *)
(* by the matrix if it gives all ports to a destination no longer chosen   *)
(* there, or with its service - and then it was added after delete_service *)
(* had found the service unused (services.py:71).                          *)
RulesGoByRequest == [][\A r \in RuleIds : rules[r] # NoRow /\ rules'[r] = NoRow => Meant(r)]_vars

(* Every request is answered, whatever the server does with its scripts.   *)
RequestsEnd ==
    \A t \in Threads : req[t].at # "idle" ~> req[t].at = "idle"

-----------------------------------------------------------------------------
(* The inductive invariant behind TypeOK and TargetSpec.                   *)

(* What a request has read is there when the next step needs it.           *)
RequestOK(r) ==
    /\ r.hook = "FORWARD" \/ Docker
    /\ r.op = "set_client_wg_ip" => r.cid \in ClientIds
    /\ r.at = "readdress" => r.op = "set_client_wg_ip"
    /\ r.at \in {"toggle", "eraseRule", "reread", "grants", "grant"} => r.cid \in ClientIds
    /\ r.at \in {"toggle", "eraseRule", "reread", "grants", "grant"} => ~Removing(r)
    /\ r.at = "list" => r.op = "cleanup"
    /\ r.at \in {"read", "resolve"} => r.row # NoRow
    /\ r.at = "detect" /\ Removing(r) => r.row # NoRow
    /\ r.at = "eraseService" => r.sid # AllPortsId

SoundRequest == {r \in Request : RequestOK(r)}

(* No rule names a service that is gone (FOREIGN KEY ... CASCADE), and the *)
(* builtin one stays.                                                      *)
ReferencesInv ==
    /\ services[AllPortsId] # NoRow
    /\ \A r \in RuleIds : rules[r] # NoRow => services[rules[r].service] # NoRow

AppInv == TypeOK /\ req \in [Threads -> SoundRequest] /\ ReferencesInv

(* Behind RulesGoByRequest: ids are given out once, and delete_service and *)
(* the matrix hold ids of rules that are what they were, or gone.          *)
RuleIdsInv ==
    /\ \A r \in RuleIds : rules[r] # NoRow => r <= autoinc.rules
    /\ \A t \in Threads :
          /\ req[t].at = "eraseService" =>
                /\ req[t].rid <= autoinc.rules
                /\ \A r \in RulesWith("service", req[t].sid) : r > req[t].rid
          /\ req[t].at = "grant" => \A g \in req[t].grants :
                /\ g[2] <= autoinc.rules
                /\ rules[g[2]] # NoRow =>
                      rules[g[2]] = [client |-> req[t].cid, dest |-> g[1], service |-> AllPortsId]

-----------------------------------------------------------------------------
(* The inductive invariant behind SettledStaysEnforced.                    *)

(* UNIQUE (wg_ip): otherwise scripts for two clients would share a chain.  *)
UniqueAddresses ==
    \A c, d \in Existing : clients[c].ip = clients[d].ip => c = d

(* apply_client and the removals, from detect_hook_chain() to the script.  *)
InHand == {"detect", "read", "resolve", "run"}

StepsOf(op) ==
    CASE op \in QueueOps         -> InHand \cup {"next", "reply"}
      [] op = "cleanup"          -> {"list", "detect", "run", "orphans", "reply"}
      [] op = "delete_service"   -> {"eraseService"}
      [] OTHER -> RequestSteps \ {"next", "list", "orphans", "eraseService"}

PhaseInv ==
    \A t \in Threads :
        /\ req[t].at \in StepsOf(req[t].op)
        /\ req[t].at = "idle" => req[t] = Idle
        /\ req[t].op \in {"cleanup", "delete_service"} => req[t].cid = 0

(* The script of a thread works on the client it has in hand, and that of  *)
(* a cleanup on none it knew.                                              *)
OwnersInv ==
    \A t \in Threads :
        /\ script[t] # NoScript =>
              /\ req[t].at = "run"
              /\ req[t].op # "cleanup" => req[t].row # NoRow /\ script[t].ip = req[t].row.ip
        /\ req[t].op = "cleanup" =>
              /\ req[t].ips \cap Known(t) = {}
              /\ \A ip \in Known(t) : ~On(t, ip)

(* What resolve_rule_targets will have found when it is through. *)
Resolved(t) ==
    req[t].targets \cup UNION {tag_member_ips(l[1], req[t].row.id) \X {l[2]} : l \in req[t].groups}

(* The script of t, line by line, will leave its client with a filter that *)
(* accepts P, or with none.                                                *)
Applies(t, P) ==
    LET s == script[t]
        chain == chains[s.ip]
    IN  /\ s.at \in ApplySteps \cup {"save"} \cup EndSteps
        /\ s.at \in {"new", "flush"} => s.todo = P
        /\ s.at = "accept" => chain # NoChain /\ ~chain.drop /\ chain.accepts \cup s.todo = P
        /\ Hooking(t) \/ s.at \in {"save", "done"} => chain = [accepts |-> P, drop |-> TRUE]
        /\ s.at \in {"save", "done"} => Hooked(s.ip)

Clears(t) ==
    LET s == script[t]
    IN  /\ s.at \in RemoveSteps \cup {"save"} \cup EndSteps
        /\ s.at \in {"delete", "save", "done"} => chains[s.ip] \in {NoChain, EmptyChain}

ScriptServes(t, c) ==
    IF clients[c].restricted THEN Applies(t, Policy(c)) ELSE Clears(t)

(* Nobody has meddled with the request of t, and it is about client c: it  *)
(* has c before it, in hand as the tables have it, or enforced behind it.  *)
OnCourse(t, c) ==
    LET r == req[t]
        mine == r.row = clients[c]
    IN  /\ r.op \in QueueOps /\ r.at \in InHand \cup {"next"} =>
              clients[c] \in r.queue \/ (r.at # "next" /\ mine) \/ Enforced(c)
        /\ r.op \notin QueueOps /\ r.at \in InHand \cup {"grants", "grant"} => Removing(r) \/ mine
        /\ r.at \in {"read", "resolve"} /\ mine => clients[c].restricted
        /\ r.at = "resolve" /\ mine => r.groups \subseteq RawLines(c) /\ Resolved(t) = Policy(c)
        /\ r.at = "run" /\ ~Removing(r) /\ mine /\ script[t] # NoScript => ScriptServes(t, c)
        /\ r.at = "reply" => Enforced(c)

(* The rows that apply_all and the start-up have read are still those.     *)
RowsCurrent(t) ==
    req[t].op \in QueueOps =>
        /\ req[t].queue \subseteq Rows
        /\ req[t].at \in InHand => req[t].row \in Rows

CourseInv ==
    \A t \in Threads : t \notin disturbed /\ ~req[t].failed =>
        RowsCurrent(t) /\ \A c \in Concerned(t) : OnCourse(t, c)

(* From here on a request answers for what becomes of its clients. *)
Committed(t) == req[t].at \notin {"idle", "grants", "grant", "unchanged"}

(* A client whose last answer was a success is enforced, or the next       *)
(* request about it is on its way.                                         *)
StandingInv ==
    \A c \in Existing : standing[c] = "applied" =>
        Enforced(c) \/ \E t \in Threads : c \in Concerned(t) /\ Committed(t)

SettledInv == UniqueAddresses /\ PhaseInv /\ OwnersInv /\ CourseInv /\ StandingInv

-----------------------------------------------------------------------------
(* The inductive invariant behind FullAccessAsChosen.                      *)

(* The rules that pending matrix changes may add have their ids. *)
RoomInv == IsFiniteSet(Pending) /\ RoomForRules(0)

OnePerDest(grants) == \A g, k \in grants : g[1] = k[1] => g = k

AsChosen(t) ==
    OnePerDest(req[t].grants) => {g[1] : g \in Granted(req[t].cid)} = req[t].picked

(* What an undisturbed change of the matrix has read is what there is, and *)
(* once written its client has what was chosen.                            *)
MatrixInv ==
    \A t \in Threads : req[t].op = "set_full_access_targets" =>
        /\ req[t].at \in {"grants", "grant", "unchanged", "reply"} \cup InHand
        /\ t \notin disturbed /\ ~req[t].failed =>
              /\ req[t].at = "grant" => req[t].grants = Granted(req[t].cid)
              /\ req[t].at \notin {"grants", "grant"} => AsChosen(t)

AccessInv == RoomInv /\ MatrixInv

-----------------------------------------------------------------------------
(* The inductive invariant behind NoResidue: for one request at a time,    *)
(* with nothing that fails.                                                *)

Single(s, r) == \A i, k \in 1..Len(s) : s[i] = r /\ s[k] = r => i = k

(* Jumps are where the probe looks for them, and -D finds the only one.    *)
OneJump(ip) ==
    /\ \A h \in Hooks \ {RealHook} : ~Holds(hooks[h], ip)
    /\ Single(hooks[RealHook], ip)

(* What a request has in hand is what there is, and a client is deleted or *)
(* moved when nothing is left for its old address.                         *)
HandOK(r) ==
    /\ r.at \in {"toggle", "eraseClient"} => (r.at = "toggle" <=> r.op = "toggle_client")
    /\ r.at \in {"grants", "grant"} => r.op = "set_full_access_targets"
    /\ r.at \in {"read", "resolve"} => ~Removing(r) /\ r.row.restricted
    /\ r.at \in {"read", "resolve", "run", "orphans"} => r.hook = RealHook
    /\ r.op \in QueueOps => r.queue \subseteq Rows
    /\ r.op # "cleanup" /\ r.at \in InHand \cup {"grants", "grant"} => r.row \in Rows \cup {NoRow}
    /\ r.op = "toggle_client" => r.cid \in Existing
    /\ (Removing(r) \/ r.op = "toggle_client") /\ r.at \in InHand
          => r.cid \in Existing /\ r.row = clients[r.cid]
    /\ r.at \in {"eraseClient", "readdress"} /\ r.cid \in Existing => Bare(clients[r.cid].ip)

(* A script ends with the address as bare as a removal promises, or        *)
(* filtered for a restricted client that there is.                         *)
Tidies(t) ==
    LET r == req[t]
        s == script[t]
    IN  /\ r.at = "run" <=> s # NoScript
        /\ s # NoScript =>
              /\ s.hook = RealHook /\ s.at # "failed"
              /\ r.op # "cleanup" => r.row # NoRow /\ s.ip = r.row.ip
              /\ s.at \in ApplySteps => r.op # "cleanup" /\ ~Removing(r) /\ r.row.restricted
              /\ s.at \in ApplySteps \ {"new"} => chains[s.ip] # NoChain
              /\ Hooking(t) => HasDrop(s.ip)
              /\ s.at \in {"insertJump", "clear", "delete"} => ~Hooked(s.ip)
              /\ s.at = "delete" => chains[s.ip] \in {NoChain, EmptyChain}
              /\ s.at \in {"save", "done"} => Bare(s.ip) \/ (~Removing(r) /\ Filtered(s.ip))

(* The addresses that a request has still to make good. *)
Unsettled(t, ip) ==
    \/ On(t, ip)
    \/ /\ req[t].op = "toggle_client" /\ req[t].at \in {"reread", "detect", "read", "resolve"}
       /\ ip = clients[req[t].cid].ip

ResidueInv ==
    /\ \A c \in Existing : c <= autoinc.clients
    /\ \A s \in Strays : script[s] = NoScript
    /\ \A ip \in Ips : OneJump(ip)
    /\ \A t \in Threads : HandOK(req[t]) /\ Tidies(t)
    /\ \A ip \in Ips : Tidy(ip) \/ \E t \in Threads : Unsettled(t, ip)

=============================================================================
