---------------------------- MODULE PeerRegistry ----------------------------
(***************************************************************************)
(* The WireGuard peers of the server, which exist twice: live in the       *)
(* kernel ("wg set") and as [Peer] blocks of /etc/wireguard/<iface>.conf,  *)
(* from which wg-quick builds the live ones at every start.  The app       *)
(* changes both from one script (provisioning.register_peer_on_target,     *)
(* wireguard.set_peer_allowed_ips) and keeps the networks behind a peer in *)
(* its own tables as well.                                                 *)
(*                                                                         *)
(* Abstractions.  A host route a/32 is named by the address a; a block is  *)
(* kept up to what the parser and the awk program of the app read of it.   *)
(* Of the platforms' tags there is one.  Rows and tags are not deleted     *)
(* here.  A script is one step per command; the app is on another host     *)
(* than the server, and waits for the script.                              *)
(***************************************************************************)
EXTENDS PeerBlocks

CONSTANTS
    Threads,     \* worker threads of the app
    HandMade,    \* the configs an administrator may have written beforehand
    Ops,         \* the requests the administrators make
    MaxRequests, \* bound: requests ever made
    Faults,      \* what can go wrong
    NoKey, NoRow, NoFile

Cidrs == Addrs \cup Nets \cup {MeshNet}

Row == [ip : Addrs, router : BOOLEAN, nets : SUBSET (Nets \cup {MeshNet})]

(* Addresses are unique in the table: there are never more rows than them. *)
ClientIds == 1..Cardinality(Addrs)

ASSUME PeerAssumption ==
    /\ IsFiniteSet(Addrs)
    /\ MaxRequests \in Nat
    /\ HandMade \subseteq Seq(Block)
    /\ NoAddr \notin Addrs /\ NoKey \notin Keys
    /\ NoRow \notin Row /\ NoFile \notin Seq(Block)
    /\ Ops \subseteq {"provision_register", "set_client_networks", "import_peers",
                      "add_client", "set_client_kind", "set_client_wg_ip",
                      "provision_desktop_config", "suggest_free_ip"}
    /\ Faults \subseteq {"command", "read", "reboot"}

VARIABLES
    live,      \* the AllowedIPs of each peer in the kernel, {} if it has no such peer
    routes,    \* the kernel's routes into the WireGuard interface
    conf,      \* the [Peer] blocks of the config file
    tmp,       \* the file $CONF.tmp, while a script needs it
    clients,   \* the tables clients and client_networks
    tag,       \* does the table tags have the tag of the platform?
    tagged,    \* the clients that have it (client_tags)
    begun,     \* requests made so far
    req,       \* the request of each thread
    refused,   \* history: the routes that the kernel has refused since the last boot
    astray     \* history: has a request since then left it other than the file says?

server == <<live, routes, conf, tmp, refused>>
dbvars == <<clients, tag, tagged>>
vars == <<server, dbvars, begun, req, astray>>

ScriptSteps == {"wgSet", "routes", "grep", "append", "openTmp", "awk", "mv"}

RequestSteps == ScriptSteps \cup {"idle", "hub", "insert", "findTag", "addTag", "assignTag",
                                  "store", "list", "fetch", "readdress", "info", "existing",
                                  "fetchAll", "rows", "subnet", "inUse", "free", "reply"}

(* from: the address the client had when it was read; out: what has become *)
(* of the file that the shell has opened for awk; told: the answer says    *)
(* that the client existed already ("existing") or does not.               *)
Request == [op : Ops \cup {"none"}, at : RequestSteps, key : Keys \cup {NoKey},
            cid : ClientIds \cup {0}, from : Addrs \cup {NoAddr},
            ip : Addrs \cup {NoAddr}, nets : SUBSET (Nets \cup {MeshNet}),
            tagging : BOOLEAN, told : {"new", "existing"},
            known : BOOLEAN, out : {"tmp", "conf", "gone"}, mesh : BOOLEAN,
            ips : SUBSET Addrs, peers : Seq(Block), failed : BOOLEAN]

Idle == [op |-> "none", at |-> "idle", key |-> NoKey, cid |-> 0, from |-> NoAddr, ip |-> NoAddr,
         nets |-> {}, tagging |-> FALSE, told |-> "new", known |-> FALSE, out |-> "tmp",
         mesh |-> TRUE, ips |-> {}, peers |-> <<>>, failed |-> FALSE]

Registering(r) == r.op \in {"provision_register", "provision_desktop_config"}

Existing == {c \in ClientIds : clients[c] # NoRow}

Taken == {clients[c].ip : c \in Existing}

NextId == Cardinality(Existing) + 1

-----------------------------------------------------------------------------
(* WireGuard *)

(* wg set <iface> peer k allowed-ips S: an address belongs to one peer.    *)
Assign(peers, k, S) ==
    [q \in Keys |-> IF q = k THEN S ELSE peers[q] \ S]

(* wg-quick up: the blocks one after the other, so that the last block of  *)
(* a peer counts, and each address belongs to the last block that has it.  *)
Loaded(c) ==
    [q \in Keys |-> {a \in Cidrs : \E i \in DOMAIN c :
        /\ c[i].key = q /\ a \in AllowedIPs(c[i])
        /\ \A j \in DOMAIN c : j > i => c[j].key # q /\ a \notin AllowedIPs(c[j])}]

Routed(c) == UNION {AllowedIPs(c[i]) : i \in DOMAIN c}

-----------------------------------------------------------------------------

Init ==
    /\ conf \in HandMade
    /\ live = Loaded(conf)
    /\ routes = Routed(conf)
    /\ tmp = NoFile
    /\ clients = [c \in ClientIds |-> NoRow]
    /\ tag = FALSE
    /\ tagged = {}
    /\ begun = 0
    /\ req = [t \in Threads |-> Idle]
    /\ refused = {}
    /\ astray = FALSE

Ready(t, op) ==
    /\ req[t].at = "idle"
    /\ op \in Ops
    /\ begun < MaxRequests /\ begun' = begun + 1

Move(t, r) == req' = [req EXCEPT ![t] = r]

Goto(t, step) == Move(t, [req[t] EXCEPT !.at = step])

(* A failure ends the request; set_client_wg_ip notes that its script has  *)
(* failed and goes on.                                                     *)
Broken(r) ==
    [r EXCEPT !.failed = TRUE,
              !.at = IF r.op = "set_client_wg_ip" /\ r.at \in ScriptSteps THEN "readdress" ELSE "reply"]

Fail(t) == Move(t, Broken(req[t]))

-----------------------------------------------------------------------------
(* One transaction, or the first statement *)

add_client(t) ==
    /\ Ready(t, "add_client")
    /\ \E a \in Addrs \ Taken, b \in BOOLEAN :
          clients' = [clients EXCEPT ![NextId] = [ip |-> a, router |-> b, nets |-> {}]]
    /\ UNCHANGED <<server, tag, tagged, req>>

set_client_kind(t) ==
    /\ Ready(t, "set_client_kind")
    /\ \E c \in Existing, b \in BOOLEAN : clients' = [clients EXCEPT ![c].router = b]
    /\ UNCHANGED <<server, tag, tagged, req>>

provision_register(t) ==
    /\ Ready(t, "provision_register")
    /\ \E k \in Keys, a \in Addrs, S \in SUBSET Nets, b \in BOOLEAN :
          Move(t, [Idle EXCEPT !.op = "provision_register", !.at = "wgSet", !.key = k, !.ip = a,
                               !.nets = S, !.tagging = b])
    /\ UNCHANGED <<server, dbvars>>

provision_desktop_config(t) ==
    /\ Ready(t, "provision_desktop_config")
    /\ \E k \in Keys, a \in Addrs :
          Move(t, [Idle EXCEPT !.op = "provision_desktop_config", !.at = "hub", !.key = k, !.ip = a,
                               !.tagging = TRUE])
    /\ UNCHANGED <<server, dbvars>>

(* Only a router may be given networks; anybody's may be taken away. *)
set_client_networks(t) ==
    /\ Ready(t, "set_client_networks")
    /\ \E c \in Existing, S \in SUBSET Nets :
          /\ S # {} => clients[c].router
          /\ Move(t, [Idle EXCEPT !.op = "set_client_networks", !.at = "store", !.cid = c,
                                  !.from = clients[c].ip, !.ip = clients[c].ip, !.nets = S])
    /\ UNCHANGED <<server, dbvars>>

(* What it does to the chains is in AclManager. *)
set_client_wg_ip(t) ==
    /\ Ready(t, "set_client_wg_ip")
    /\ \E c \in Existing : \E a \in Addrs \ {clients[c].ip} :
          Move(t, [Idle EXCEPT !.op = "set_client_wg_ip", !.at = "fetch", !.cid = c,
                               !.from = clients[c].ip, !.ip = a])
    /\ UNCHANGED <<server, dbvars>>

import_peers(t) ==
    /\ Ready(t, "import_peers")
    /\ Move(t, [Idle EXCEPT !.op = "import_peers", !.at = "info"])
    /\ UNCHANGED <<server, dbvars>>

(* The page of the provisioning wizard. *)
provision(t) ==
    /\ Ready(t, "suggest_free_ip")
    /\ Move(t, [Idle EXCEPT !.op = "suggest_free_ip", !.at = "subnet"])
    /\ UNCHANGED <<server, dbvars>>

-----------------------------------------------------------------------------
(* The scripts, line by line *)

WgSet(t) ==
    /\ req[t].at = "wgSet"
    /\ live' = Assign(live, req[t].key, {req[t].ip} \cup req[t].nets)
    /\ Goto(t, "routes")
    /\ UNCHANGED <<routes, conf, tmp, refused, dbvars>>

(* Mutant: the peer's own address is all that gets a route. *)
HostRoute(t) ==
    /\ req[t].at = "routes"
    /\ routes' = routes \cup {req[t].ip}
    /\ Goto(t, IF Registering(req[t]) THEN "grep" ELSE "openTmp")
    /\ UNCHANGED <<live, conf, tmp, refused, dbvars>>

(* "ip route replace ... || true" for each of them: what the kernel refuses *)
(* is passed over.                                                          *)
RouteReplace(t) ==
    /\ req[t].at = "routes"
    /\ LET cidrs == {req[t].ip} \cup req[t].nets
       IN  \E accepted \in IF "command" \in Faults THEN SUBSET cidrs ELSE {cidrs} :
              /\ routes' = routes \cup accepted
              /\ refused' = (refused \cup cidrs) \ accepted
    /\ Goto(t, IF Registering(req[t]) THEN "grep" ELSE "openTmp")
    /\ UNCHANGED <<live, conf, tmp, dbvars>>

Grep(t) ==
    /\ req[t].at = "grep"
    /\ LET found == \E i \in DOMAIN conf : conf[i].key = req[t].key
       IN  Move(t, [req[t] EXCEPT !.known = found, !.at = IF found THEN "insert" ELSE "append"])
    /\ UNCHANGED <<server, dbvars>>

AppendBlock(t) ==
    /\ req[t].at = "append"
    /\ conf' = Append(conf, [key |-> req[t].key, host |-> req[t].ip, hint |-> NoAddr,
                             nets |-> req[t].nets, plain |-> TRUE])
    /\ Goto(t, "insert")
    /\ UNCHANGED <<live, routes, tmp, refused, dbvars>>

(* The shell opens $CONF.tmp for awk, and empties it if it exists. *)
OpenTmp(t) ==
    /\ req[t].at = "openTmp"
    /\ tmp' = <<>>
    /\ Move(t, [req[t] EXCEPT !.out = "tmp", !.at = "awk"])
    /\ UNCHANGED <<live, routes, conf, refused, dbvars>>

(* awk reads $CONF and writes to the file it was given, which by now other *)
(* threads may have renamed to $CONF, and then replaced.  (The tail that a *)
(* longer text leaves behind a shorter one is abstracted.)                 *)
Awk(t) ==
    /\ req[t].at = "awk"
    /\ LET c == Rewritten(conf, req[t].key, req[t].ip, req[t].nets)
       IN  \/ req[t].out = "tmp" /\ tmp' = c /\ UNCHANGED conf
           \/ req[t].out = "conf" /\ conf' = c /\ UNCHANGED tmp
           \/ req[t].out = "gone" /\ UNCHANGED <<conf, tmp>>
    /\ Goto(t, "mv")
    /\ UNCHANGED <<live, routes, refused, dbvars>>

(* mv fails if another thread has renamed the file meanwhile. *)
Rename(t) ==
    /\ req[t].at = "mv"
    /\ IF tmp = NoFile
       THEN Fail(t) /\ UNCHANGED <<conf, tmp>>
       ELSE /\ conf' = tmp
            /\ tmp' = NoFile
            /\ req' = [u \in Threads |->
                   IF u = t
                   THEN [req[u] EXCEPT !.at = IF req[u].op = "set_client_wg_ip" THEN "readdress" ELSE "reply"]
                   ELSE [req[u] EXCEPT !.out = IF @ = "tmp" THEN "conf" ELSE "gone"]]
    /\ UNCHANGED <<live, routes, refused, dbvars>>

(* A command fails and the script with it (set -e), unless it is one that  *)
(* may fail: see RouteReplace.  The file it leaves behind is as good as    *)
(* none, unless others have it open: OpenTmp empties it.                   *)
CommandFails(t) ==
    /\ "command" \in Faults
    /\ req[t].at \in {"wgSet", "append", "openTmp", "awk", "mv"}
    /\ tmp' = IF \E u \in Threads \ {t} : req[u].at \in {"awk", "mv"} THEN tmp ELSE NoFile
    /\ Fail(t)
    /\ UNCHANGED <<live, routes, conf, refused, dbvars>>

ScriptStep(t) ==
    \/ WgSet(t) \/ RouteReplace(t) \/ Grep(t) \/ AppendBlock(t)
    \/ OpenTmp(t) \/ Awk(t) \/ Rename(t) \/ CommandFails(t)

-----------------------------------------------------------------------------
(* provision_register and provision_desktop_config around their script *)

(* _fetch_hub_context: the subnet and the public key of the server. *)
FetchHub(t) ==
    /\ req[t].at = "hub"
    /\ \/ Goto(t, "wgSet")
       \/ "read" \in Faults /\ Fail(t)
    /\ UNCHANGED <<server, dbvars>>

(* What follows the tag: set_client_networks, if there are any.            *)
StoreOrReply(r) == IF r.nets = {} THEN "reply" ELSE "store"

(* An IntegrityError, of this statement or of a later one, is taken for a  *)
(* client that existed already.  Who has networks behind him is a router.  *)
InsertClient(t) ==
    /\ req[t].at = "insert"
    /\ \/ /\ req[t].ip \notin Taken
          /\ \E b \in BOOLEAN :
                /\ req[t].nets # {} => b
                /\ req[t].op = "provision_desktop_config" => ~b
                /\ clients' = [clients EXCEPT ![NextId] = [ip |-> req[t].ip, router |-> b, nets |-> {}]]
          /\ Move(t, [req[t] EXCEPT !.cid = NextId,
                                    !.at = IF req[t].tagging THEN "findTag" ELSE StoreOrReply(req[t])])
       \/ /\ req[t].ip \in Taken
          /\ Move(t, [req[t] EXCEPT !.told = "existing", !.at = "reply"])
          /\ UNCHANGED clients
    /\ UNCHANGED <<server, tag, tagged>>

(* get_or_create_tag: SELECT, then INSERT; names of tags are unique. *)
FindTag(t) ==
    /\ req[t].at = "findTag"
    /\ Goto(t, IF tag THEN "assignTag" ELSE "addTag")
    /\ UNCHANGED <<server, dbvars>>

AddTag(t) ==
    /\ req[t].at = "addTag"
    /\ tag' = TRUE
    /\ Move(t, IF tag THEN [req[t] EXCEPT !.told = "existing", !.at = "reply"]
               ELSE [req[t] EXCEPT !.at = "assignTag"])
    /\ UNCHANGED <<server, clients, tagged>>

(* Mutant: a group is all that is recorded. *)
TagsOnly(t) ==
    /\ req[t].at = "assignTag"
    /\ tagged' = tagged \cup {req[t].cid}
    /\ Goto(t, "reply")
    /\ UNCHANGED <<server, clients, tag>>

set_client_tags(t) ==
    /\ req[t].at = "assignTag"
    /\ tagged' = tagged \cup {req[t].cid}
    /\ Goto(t, StoreOrReply(req[t]))
    /\ UNCHANGED <<server, clients, tag>>

(* networks.set_client_networks, for both of its callers. *)
StoreNetworks(t) ==
    /\ req[t].at = "store"
    /\ clients' = [clients EXCEPT ![req[t].cid].nets = req[t].nets]
    /\ Goto(t, IF Registering(req[t]) THEN "reply" ELSE "list")
    /\ UNCHANGED <<server, tag, tagged>>

-----------------------------------------------------------------------------
(* set_client_networks and set_client_wg_ip around their script *)

(* Mutant: a new address costs the peer its networks. *)
ListNothing(t) ==
    /\ req[t].at = "list"
    /\ Goto(t, IF req[t].op = "set_client_wg_ip" THEN "wgSet" ELSE "fetch")
    /\ UNCHANGED <<server, dbvars>>

(* What is in the table now becomes AllowedIPs. *)
ListNetworks(t) ==
    /\ req[t].at = "list"
    /\ Move(t, [req[t] EXCEPT !.nets = clients[req[t].cid].nets,
                              !.at = IF req[t].op = "set_client_wg_ip" THEN "wgSet" ELSE "fetch"])
    /\ UNCHANGED <<server, dbvars>>

(* Mutant: "peer is None" is not looked at. *)
FindPeerUnchecked(t) ==
    /\ req[t].at = "fetch"
    /\ LET own == {i \in DOMAIN conf : peer_own_ip(conf[i]) = req[t].from}
       IN  Move(t, [req[t] EXCEPT !.key = IF own = {} THEN NoKey ELSE conf[Min(own)].key,
                                  !.at = "wgSet"])
    /\ UNCHANGED <<server, dbvars>>

(* The first peer of the config with the address the client had.  Without  *)
(* one, or if the config cannot be read, set_client_networks gives up and  *)
(* set_client_wg_ip leaves the peer alone.                                 *)
FindPeer(t) ==
    /\ req[t].at = "fetch"
    /\ LET own == {i \in DOMAIN conf : peer_own_ip(conf[i]) = req[t].from}
           moving == req[t].op = "set_client_wg_ip"
       IN  \/ /\ own # {}
              /\ Move(t, [req[t] EXCEPT !.key = conf[Min(own)].key,
                                        !.at = IF moving THEN "list" ELSE "wgSet"])
           \/ /\ own = {} \/ "read" \in Faults
              /\ IF moving THEN Goto(t, "readdress") ELSE Fail(t)
    /\ UNCHANGED <<server, dbvars>>

(* UPDATE clients SET wg_ip, whatever has become of the peer. *)
Readdress(t) ==
    /\ req[t].at = "readdress"
    /\ \/ /\ req[t].ip \notin Taken \ {clients[req[t].cid].ip}
          /\ clients' = [clients EXCEPT ![req[t].cid].ip = req[t].ip]
          /\ Goto(t, "reply")
       \/ /\ req[t].ip \in Taken \ {clients[req[t].cid].ip}
          /\ Fail(t)
          /\ UNCHANGED clients
    /\ UNCHANGED <<server, tag, tagged>>

-----------------------------------------------------------------------------
(* import_peers_from_config: interface, table, peers, then the new rows *)

FetchInfo(t) ==
    /\ req[t].at = "info"
    /\ \E b \in BOOLEAN :
          /\ ~b => "read" \in Faults
          /\ Move(t, [req[t] EXCEPT !.mesh = b, !.at = "existing"])
    /\ UNCHANGED <<server, dbvars>>

ReadExisting(t) ==
    /\ req[t].at = "existing"
    /\ Move(t, [req[t] EXCEPT !.ips = Taken, !.at = "fetchAll"])
    /\ UNCHANGED <<server, dbvars>>

FetchPeers(t) ==
    /\ req[t].at = "fetchAll"
    /\ \/ Move(t, [req[t] EXCEPT !.peers = conf, !.at = "rows"])
       \/ "read" \in Faults /\ Fail(t)
    /\ UNCHANGED <<server, dbvars>>

(* The rows that the next transaction inserts: those of the new peers up   *)
(* to the next one with networks, whose set_client_networks() commits.     *)
NewPeers(r) ==
    LET own(i) == peer_own_ip(r.peers[i])
    IN  {i \in DOMAIN r.peers : /\ own(i) \notin r.ips \cup {NoAddr}
                                /\ \A j \in 1..(i - 1) : own(j) # own(i)}

NetworksOf(r, i) == peer_managed_networks(r.peers[i], r.mesh)

(* Mutant: no commit() after the loop. *)
WithoutLastCommit(r) ==
    LET commits == {i \in NewPeers(r) : NetworksOf(r, i) # {}}
    IN  {i \in NewPeers(r) : commits # {} /\ i <= Min(commits)}

Batch(r) ==
    LET commits == {i \in NewPeers(r) : NetworksOf(r, i) # {}}
    IN  {i \in NewPeers(r) : commits = {} \/ i <= Min(commits)}

IdOf(batch, i) == NextId + Cardinality({j \in batch : j < i})

(* The table with the rows of a batch, inserted in the order of the peers. *)
WithRows(r, batch) ==
    [c \in ClientIds |->
        IF \E i \in batch : IdOf(batch, i) = c
        THEN LET i == CHOOSE j \in batch : IdOf(batch, j) = c
             IN  [ip |-> peer_own_ip(r.peers[i]), router |-> NetworksOf(r, i) # {}, nets |-> NetworksOf(r, i)]
        ELSE clients[c]]

(* A row that somebody else has inserted meanwhile rolls the batch back.   *)
ImportRows(t) ==
    /\ req[t].at = "rows"
    /\ LET batch == Batch(req[t])
           ips == {peer_own_ip(req[t].peers[i]) : i \in batch}
       IN  \/ /\ batch = {}
              /\ Goto(t, "reply")
              /\ UNCHANGED clients
           \/ /\ batch # {}
              /\ ips \cap Taken = {}
              /\ clients' = WithRows(req[t], batch)
              /\ Move(t, [req[t] EXCEPT !.ips = @ \cup ips])
           \/ /\ ips \cap Taken # {}
              /\ Fail(t)
              /\ UNCHANGED clients
    /\ UNCHANGED <<server, tag, tagged>>

-----------------------------------------------------------------------------
(* suggest_free_ip: interface, peers, table.  The range of the client's    *)
(* kind is Addrs here; which of its addresses is the lowest is left open.  *)

FetchSubnet(t) ==
    /\ req[t].at = "subnet"
    /\ \/ Goto(t, "inUse")
       \/ "read" \in Faults /\ Fail(t)
    /\ UNCHANGED <<server, dbvars>>

(* A config that cannot be read has no peers. *)
FetchInUse(t) ==
    /\ req[t].at = "inUse"
    /\ \E c \in {conf} \cup (IF "read" \in Faults THEN {<<>>} ELSE {}) :
          Move(t, [req[t] EXCEPT !.peers = c, !.at = "free"])
    /\ UNCHANGED <<server, dbvars>>

SuggestFree(t) ==
    /\ req[t].at = "free"
    /\ LET used == {peer_own_ip(req[t].peers[i]) : i \in DOMAIN req[t].peers} \cup Taken
       IN  \/ \E a \in Addrs \ used : Move(t, [req[t] EXCEPT !.ip = a, !.at = "reply"])
           \/ Addrs \subseteq used /\ Fail(t)
    /\ UNCHANGED <<server, dbvars>>

-----------------------------------------------------------------------------
Reply(t) ==
    /\ req[t].at = "reply"
    /\ Move(t, Idle)
    /\ UNCHANGED <<server, dbvars>>

(* The server reboots: scripts die, wg-quick builds everything anew. *)
Reboot ==
    /\ "reboot" \in Faults
    /\ live' = Loaded(conf)
    /\ routes' = Routed(conf)
    /\ tmp' = NoFile
    /\ refused' = {}
    /\ req' = [t \in Threads |-> IF req[t].at \in ScriptSteps
                                 THEN Broken(req[t]) ELSE req[t]]
    /\ UNCHANGED <<conf, dbvars>>

Begin(t) ==
    \/ add_client(t) \/ set_client_kind(t) \/ provision_register(t)
    \/ provision_desktop_config(t) \/ set_client_networks(t)
    \/ set_client_wg_ip(t) \/ import_peers(t) \/ provision(t)

Continue(t) ==
    \/ ScriptStep(t) \/ FetchHub(t) \/ InsertClient(t) \/ FindTag(t) \/ AddTag(t)
    \/ set_client_tags(t) \/ StoreNetworks(t) \/ ListNetworks(t) \/ FindPeer(t)
    \/ Readdress(t) \/ FetchInfo(t) \/ ReadExisting(t) \/ FetchPeers(t)
    \/ ImportRows(t) \/ FetchSubnet(t) \/ FetchInUse(t) \/ SuggestFree(t) \/ Reply(t)

(* Does another peer's block name an address that peer k has or gets, or   *)
(* is a block of k none that the awk program recognises?                   *)
Contested(k, cidrs) ==
    LET mine == {i \in DOMAIN conf : conf[i].key = k}
        own == cidrs \cup UNION {AllowedIPs(conf[i]) : i \in mine}
    IN  \/ \E i \in mine : ~conf[i].plain
        \/ \E i \in DOMAIN conf \ mine : AllowedIPs(conf[i]) \cap own # {}

(* The kernel and the file part when a script breaks off behind "wg set",  *)
(* when a key is registered that the file has, and when a contested peer   *)
(* is changed.  A boot brings them together.                               *)
GoesAstray(t) ==
    LET r == req[t]
    IN  \/ r.at \in ScriptSteps \ {"wgSet"} /\ req'[t].failed
        \/ r.at = "grep" /\ req'[t].known
        \/ r.at = "wgSet" /\ ~Registering(r) /\ Contested(r.key, {r.ip} \cup r.nets)

Next ==
    \/ \E t \in Threads : /\ Begin(t) \/ (Continue(t) /\ UNCHANGED begun)
                          /\ astray' = (astray \/ GoesAstray(t))
    \/ Reboot /\ UNCHANGED begun /\ astray' = FALSE

Spec == Init /\ [][Next]_vars

-----------------------------------------------------------------------------

(* Every variable has its type, and no script runs for an unknown peer.    *)
TypeOK ==
    /\ live \in [Keys -> SUBSET Cidrs]
    /\ routes \subseteq Cidrs
    /\ conf \in Seq(Block)
    /\ tmp = NoFile \/ tmp \in Seq(Block)
    /\ clients \in [ClientIds -> Row \cup {NoRow}]
    /\ tag \in BOOLEAN
    /\ tagged \subseteq ClientIds
    /\ begun \in 0..MaxRequests
    /\ refused \subseteq Cidrs /\ astray \in BOOLEAN
    /\ req \in [Threads -> Request]
    /\ \A t \in Threads : req[t].at \in ScriptSteps => req[t].key \in Keys /\ req[t].ip \in Addrs

(* The blocks of peer k, each at its place in the file. *)
BlocksOf(k) == [i \in {j \in DOMAIN conf : conf[j].key = k} |-> conf[i]]

Writes(t, k) == req[t].at \in ScriptSteps /\ req[t].key = k

(* The peer's addresses are in the config and, unless another peer claims  *)
(* one of them, in the kernel now and after the next start of wg-quick,    *)
(* which routes them all; until then they are routed but for those that    *)
(* the kernel has refused.                                                 *)
LiveAndPersistent(k, cidrs) ==
    /\ cidrs \subseteq routes \cup refused
    /\ \E i \in DOMAIN conf : conf[i].key = k /\ AllowedIPs(conf[i]) = cidrs
    /\ (\A i \in DOMAIN conf : conf[i].key # k => AllowedIPs(conf[i]) \cap cidrs = {})
         => live[k] = cidrs /\ Loaded(conf)[k] = cidrs

Succeeded(t) == req[t].at = "reply" /\ ~req[t].failed

(* A request that reports success and has changed a peer leaves the row of *)
(* the client, the config and the kernel in agreement on the address and   *)
(* the networks, and its routes but for those that the kernel refused,     *)
(* which "|| true" keeps from the answer.  For register_peer_on_target     *)
(* that takes a key that the config has not had and an address that the    *)
(* app has not had; for set_peer_allowed_ips it takes a block written as   *)
(* the app writes it.                                                      *)
SuccessMeansPersisted ==
    \A t \in Threads :
        LET r == req[t]
            plain == \A i \in DOMAIN conf : conf[i].key = r.key => conf[i].plain
        IN  /\ Succeeded(t) /\ r.key # NoKey
            /\ IF Registering(r) THEN ~r.known /\ r.told = "new" ELSE plain
            => /\ clients[r.cid].ip = r.ip
               /\ LiveAndPersistent(r.key, {r.ip} \cup clients[r.cid].nets)

(* routes/provisioning.py:239-241: "Ein Client mit dieser IP existierte in *)
(* der App bereits - Datensatz nicht veraendert."  Who is told so has not  *)
(* created the client himself, and everybody else has what he asked for:   *)
(* the client, its networks and the group of its platform.                 *)
RegisteredAsReported ==
    \A t \in Threads :
        LET r == req[t]
        IN  Succeeded(t) /\ Registering(r) =>
                IF r.told = "existing" THEN r.cid = 0
                ELSE /\ clients[r.cid].ip = r.ip /\ clients[r.cid].nets = r.nets
                     /\ r.tagging => r.cid \in tagged

LeavesOthers == \A k \in Keys : (\A t \in Threads : ~Writes(t, k)) => BlocksOf(k)' = BlocksOf(k)

(* No step, and no reboot, touches the blocks of a peer that no script is  *)
(* just working on (set_peer_allowed_ips replaces one line and renames).   *)
OthersUntouched == [][LeavesOthers]_vars

(* An import that reports success has left no peer of the config with an   *)
(* address of its own without a row, across all of its transactions.       *)
ImportComplete ==
    \A t \in Threads : Succeeded(t) /\ req[t].op = "import_peers" =>
        \A i \in DOMAIN conf : peer_own_ip(conf[i]) \in Taken \cup {NoAddr}

(* What the live half of the scripts has changed is what the file makes of *)
(* it, for all peers and across requests: between scripts a start of       *)
(* wg-quick would build the very peers that the kernel has, "wg set" and   *)
(* the order of the blocks taking contested addresses from the same peers, *)
(* and only routes that were refused would be new.  The exceptions are     *)
(* those of GoesAstray, none else.                                         *)
KernelMatchesFile ==
    ~astray /\ (\A t \in Threads : req[t].at \notin ScriptSteps) =>
        live = Loaded(conf) /\ Routed(conf) \subseteq routes \cup refused

(* routes/networks.py:50: "verwaltete Netze gespeichert und AllowedIPs auf *)
(* dem Server aktualisiert."  When nobody is at work any more, the server  *)
(* has the networks that the table has.                                    *)
StoredNetworksAreLive ==
    \A t \in Threads :
        LET r == req[t]
            alone == \A u \in Threads \ {t} : req[u].at \in {"idle", "reply"}
        IN  Succeeded(t) /\ r.op = "set_client_networks" /\ alone =>
                live[r.key] = {r.ip} \cup clients[r.cid].nets

(* wireguard.py:285-286: for every network of the list "eine Kernel-Route  *)
(* ueber das WG-Interface sicherstellen", and routes/networks.py:50        *)
(* reports the update as done.                                             *)
SuccessMeansRouted ==
    \A t \in Threads : Succeeded(t) /\ req[t].op = "set_client_networks" =>
        clients[req[t].cid].nets \subseteq routes

(* routes/permissions.py:292-295: "Kein Peer unter der bisherigen IP in    *)
(* der Ziel-Config gefunden", in an answer of the category "success".      *)
NoPeerToMove ==
    \A t \in Threads : Succeeded(t) /\ req[t].op = "set_client_wg_ip" /\ req[t].key = NoKey =>
        \A i \in DOMAIN conf : peer_own_ip(conf[i]) # req[t].from

(* provisioning.py:25-27: suggest_free_ip "schliesst bereits vergebene IPs *)
(* aus (WireGuard-Peers laut Config, Clients laut DB", with no condition.  *)
SuggestionAvoidsPeers ==
    \A t \in Threads :
        Succeeded(t) /\ req[t].op = "suggest_free_ip" =>
            \A i \in DOMAIN conf : peer_own_ip(conf[i]) # req[t].ip

-----------------------------------------------------------------------------
(* The inductive invariant behind TypeOK.                                  *)

(* Rows get the ids 1, 2, ... and no two of them have one address: so      *)
(* there is always an id for the next one.                                 *)
RowsInv ==
    /\ Existing = 1..Cardinality(Existing)
    /\ \A c, d \in Existing : clients[c].ip = clients[d].ip => c = d

StepsOf(op) ==
    CASE op = "none" -> {"idle"}
      [] op \in {"provision_register", "provision_desktop_config"} ->
            {"hub", "wgSet", "routes", "grep", "append", "insert", "findTag", "addTag",
             "assignTag", "store", "reply"}
      [] op = "set_client_networks" ->
            {"store", "list", "fetch", "wgSet", "routes", "openTmp", "awk", "mv", "reply"}
      [] op = "set_client_wg_ip" ->
            {"fetch", "list", "wgSet", "routes", "openTmp", "awk", "mv", "readdress", "reply"}
      [] op = "import_peers" -> {"info", "existing", "fetchAll", "rows", "reply"}
      [] op = "suggest_free_ip" -> {"subnet", "inUse", "free", "reply"}

(* The requests for the peer of a client that there is. *)
Changing(r) == r.op \in {"set_client_networks", "set_client_wg_ip"}

(* What the next step of a request needs is there, in the tables too.      *)
RequestOK(r) ==
    /\ r.op # "add_client" /\ r.op # "set_client_kind" /\ r.at \in StepsOf(r.op)
    /\ Registering(r) \/ Changing(r) => r.ip \in Addrs
    /\ Registering(r) \/ r.at \in ScriptSteps => r.key \in Keys
    /\ r.op = "set_client_wg_ip" /\ r.at = "list" => r.key \in Keys
    /\ Changing(r) \/ r.at \in {"findTag", "addTag", "assignTag", "store"} => r.cid \in Existing

PeerInv == TypeOK /\ RowsInv /\ \A t \in Threads : RequestOK(req[t])

-----------------------------------------------------------------------------
(* The inductive invariant of a single thread.                             *)

(* What a registration has recorded of its client so far. *)
RecordOK(r) ==
    Registering(r) =>
        /\ r.at \notin {"findTag", "addTag", "assignTag", "store", "reply"} => r.cid = 0 /\ r.told = "new"
        /\ r.told = "existing" => r.cid = 0 /\ r.at = "reply"
        /\ r.at = "addTag" => ~tag
        /\ r.at \in {"findTag", "addTag", "assignTag", "store"} =>
              clients[r.cid].ip = r.ip /\ clients[r.cid].nets = {}
        /\ r.at = "store" /\ r.tagging => r.cid \in tagged
        /\ r.at = "reply" /\ ~r.failed /\ r.told = "new" =>
              /\ clients[r.cid].ip = r.ip /\ clients[r.cid].nets = r.nets
              /\ r.tagging => r.cid \in tagged

(* What a change of networks or of the address knows of its client. *)
ChangeOK(r) ==
    /\ r.key # NoKey => Registering(r) \/ Changing(r)
    /\ r.op = "set_client_wg_ip" /\ r.at = "fetch" => r.key = NoKey
    /\ r.op = "set_client_networks" =>
          /\ r.ip = clients[r.cid].ip
          /\ r.at # "store" => r.nets = clients[r.cid].nets
    /\ r.op = "set_client_wg_ip" =>
          /\ r.at \notin {"fetch", "list"} /\ r.key # NoKey => r.nets = clients[r.cid].nets
          /\ r.at = "reply" /\ ~r.failed => clients[r.cid].ip = r.ip

Plain(k) == \A i \in DOMAIN conf : conf[i].key = k => conf[i].plain

(* What a script has done, and, when it has run to its end, leaves behind. *)
ScriptOK(r) ==
    LET cidrs == {r.ip} \cup r.nets
    IN  /\ r.at \in {"routes", "grep", "append", "openTmp", "awk", "mv"} => live[r.key] = cidrs
        /\ r.at \in {"grep", "append", "openTmp", "awk", "mv"} => cidrs \subseteq routes \cup refused
        /\ r.at = "append" => \A i \in DOMAIN conf : conf[i].key # r.key
        /\ \/ Changing(r) /\ r.at \in ScriptSteps
           \/ r.op = "set_client_wg_ip" /\ r.at = "list"
           => \E i \in DOMAIN conf : conf[i].key = r.key
        /\ r.at = "awk" => r.out = "tmp"
        /\ r.at = "mv" => tmp = Rewritten(conf, r.key, r.ip, r.nets)
        /\ /\ Registering(r) /\ ~r.known /\ ~r.failed
           /\ r.at \in {"insert", "findTag", "addTag", "assignTag", "store", "reply"}
           => LiveAndPersistent(r.key, cidrs)
        /\ Changing(r) /\ r.key # NoKey /\ Plain(r.key) /\ ~r.failed /\ r.at \in {"readdress", "reply"} =>
              LiveAndPersistent(r.key, cidrs)

(* What an import has read is what there is, and has its rows. *)
ImportOK(r) ==
    r.op = "import_peers" =>
        /\ r.at = "rows" => r.peers = conf
        /\ r.at \in {"fetchAll", "rows", "reply"} /\ ~r.failed => r.ips \subseteq Taken
        /\ r.at = "reply" /\ ~r.failed =>
              \A i \in DOMAIN conf : peer_own_ip(conf[i]) \in r.ips \cup {NoAddr}

AloneInv ==
    \A t \in Threads : RecordOK(req[t]) /\ ChangeOK(req[t]) /\ ScriptOK(req[t]) /\ ImportOK(req[t])

(* As long as nothing has gone astray: what the kernel has while a script  *)
(* is on its way to the file, and that the way is clear.                   *)
AgreeOK(r) ==
    LET cidrs == {r.ip} \cup r.nets
        ahead == r.at \in ScriptSteps \ {"wgSet"}
    IN  ~astray =>
            /\ live = IF ahead THEN Assign(Loaded(conf), r.key, cidrs) ELSE Loaded(conf)
            /\ Routed(conf) \subseteq routes \cup refused
            /\ ahead /\ Changing(r) => ~Contested(r.key, cidrs)

AgreeInv == \A t \in Threads : AgreeOK(req[t])

=============================================================================
