------------------------------ MODULE PeerConf ------------------------------
(***************************************************************************)
(* The text of /etc/wireguard/<iface>.conf, line by line.  An administra-  *)
(* tor writes it by hand, the app appends blocks to it and replaces lines  *)
(* in it, and reads it with a parser of its own.  Three programs look for  *)
(* a peer in it, each in its own way: the parser (any spelling), grep (the *)
(* key anywhere) and awk (the app's own spelling only).                    *)
(*                                                                         *)
(* A script is one step here; its commands are in PeerRegistry.  Lines     *)
(* that none of the three looks at are left out.                           *)
(***************************************************************************)
EXTENDS PeerBlocks

CONSTANTS
    HandLines,  \* the lines an administrator writes
    MaxLines,   \* bound: lines of a config that are written by hand
    NoKey,
    NoText      \* a comment that names the peer, or says anything else

(* An entry of AllowedIPs: the address as written, unless it is the        *)
(* network's own, and the network it stands for (of a/32 the address).     *)
Entry == [host : Addrs \cup {NoAddr}, net : Addrs \cup Nets \cup {MeshNet}]

(* exact: written as the app writes it, a header or AllowedIPs without in- *)
(* dentation; of comments it is "#IP: a" and "#PublicKey = k" that are     *)
(* told apart from others.                                                 *)
Lines == [kind : {"header"},  exact : BOOLEAN, value : {"peer", "interface"}]
    \cup [kind : {"key"},     exact : BOOLEAN, value : Keys]
    \cup [kind : {"allowed"}, exact : BOOLEAN, value : Seq(Entry)]
    \cup [kind : {"comment"}, exact : BOOLEAN, value : {NoText} \cup Addrs \cup Keys]

ASSUME ConfAssumption ==
    /\ HandLines \subseteq Lines
    /\ MaxLines \in Nat
    /\ IsFiniteSet(Nets)
    /\ NoAddr \notin Addrs \cup Nets \cup {MeshNet}
    /\ NoKey \notin Keys /\ NoText \notin Keys
    /\ Addrs \cap Nets = {} /\ MeshNet \notin Addrs \cup Nets

VARIABLE text

Line(kind, value) == [kind |-> kind, exact |-> TRUE, value |-> value]

Entries(a, S) ==
    <<[host |-> a, net |-> a]>> \o SetToSeq({[host |-> NoAddr, net |-> n] : n \in S})

-----------------------------------------------------------------------------
(* fetch_wg_peers_from_config: what the parser makes of the lines *)

NewPeer == [key |-> NoKey, allowed |-> <<>>, hint |-> NoAddr]

(* current is <<>> outside of [Peer]; first is first_line_of_block.  The   *)
(* first line under [Peer] is the name if it is a comment, even "#IP: a".  *)
ReadLine(s, l) ==
    LET With(p) == [s EXCEPT !.current = <<p>>, !.first = FALSE]
        p == s.current[1]
    IN  CASE l.kind = "header" ->
               [peers |-> s.peers \o s.current, first |-> l.value = "peer",
                current |-> IF l.value = "peer" THEN <<NewPeer>> ELSE <<>>]
          [] l.kind # "header" /\ s.current = <<>> -> s
          [] l.kind = "comment" /\ s.current # <<>> ->
               With(IF l.value \in Addrs /\ ~s.first THEN [p EXCEPT !.hint = l.value] ELSE p)
          [] l.kind = "key" /\ s.current # <<>> -> With([p EXCEPT !.key = l.value])
          [] l.kind = "allowed" /\ s.current # <<>> -> With([p EXCEPT !.allowed = l.value])

Outside == [peers |-> <<>>, current |-> <<>>, first |-> FALSE]

(* Mutant: the last block of the file is not closed. *)
PeersWithoutLast(c) ==
    FoldLeft(ReadLine, Outside, c).peers

fetch_wg_peers_from_config(c) ==
    LET end == FoldLeft(ReadLine, Outside, c)
    IN  end.peers \o end.current

(* peer_own_ip and peer_managed_networks on what was parsed. *)
OwnIp(p) ==
    IF p.allowed # <<>> /\ p.allowed[1].host # NoAddr THEN p.allowed[1].host ELSE p.hint

ManagedNetworks(p, meshKnown) ==
    {p.allowed[i].net : i \in DOMAIN p.allowed}
        \ ({OwnIp(p)} \cup (IF meshKnown THEN {MeshNet} \cup Addrs ELSE {}))

-----------------------------------------------------------------------------
(* What the scripts make of the lines *)

Headers(c, which) == {i \in DOMAIN c : c[i].kind = "header" /\ c[i].value \in which}

(* grep -qF key *)
Mentions(l, k) == l.kind \in {"key", "comment"} /\ l.value = k

(* index($0, "PublicKey = " key), in comments too *)
Names(l, k) == Mentions(l, k) /\ l.exact

(* /^\[Peer\]/ *)
Starts(c) == {i \in Headers(c, {"peer"}) : c[i].exact}

(* Mutant: inpeer is not reset by the next [Peer]. *)
InPeerOnward(c, k, i) ==
    \E s \in Starts(c) : \E j \in s..i : Names(c[j], k)

(* inpeer, when awk is at line i: the key was in a line since the last     *)
(* header that awk recognises.                                             *)
InPeer(c, k, i) ==
    \E s \in Starts(c) :
        /\ s <= i /\ \A z \in Starts(c) : z <= i => z <= s
        /\ \E j \in s..i : Names(c[j], k)

Replaced(c, k, a, S) ==
    [i \in DOMAIN c |-> IF c[i].kind = "allowed" /\ c[i].exact /\ InPeer(c, k, i)
                        THEN Line("allowed", Entries(a, S)) ELSE c[i]]

(* Mutant: the block has no header. *)
HeadlessAppended(c, k, a, S) ==
    IF \E i \in DOMAIN c : Mentions(c[i], k) THEN c
    ELSE c \o <<Line("key", k), Line("allowed", Entries(a, S))>>

(* Mutant: no grep. *)
AlwaysAppended(c, k, a, S) ==
    c \o <<Line("header", "peer"), Line("comment", NoText), Line("key", k),
           Line("allowed", Entries(a, S))>>

Registered(c, k, a, S) ==
    IF \E i \in DOMAIN c : Mentions(c[i], k) THEN c
    ELSE c \o <<Line("header", "peer"), Line("comment", NoText), Line("key", k),
                Line("allowed", Entries(a, S))>>

-----------------------------------------------------------------------------
Init == text = <<>>

(* The administrator goes on writing: AllowedIPs and a key belong to a     *)
(* peer, and a peer has one key, which no other has.                       *)
Write(l) ==
    /\ Len(text) < MaxLines
    /\ LET heads == Headers(text, {"peer", "interface"})
       IN  /\ l.kind \in {"key", "allowed"} => heads # {} /\ text[Max(heads)].value = "peer"
           /\ l.kind = "key" => \A i \in DOMAIN text :
                  text[i].kind = "key" => i < Max(heads) /\ text[i].value # l.value
    /\ text' = Append(text, l)

register_peer_on_target(k, a, S) == text' = Registered(text, k, a, S)

set_peer_allowed_ips(k, a, S) == text' = Replaced(text, k, a, S)

Next ==
    \/ \E l \in HandLines : Write(l)
    \/ \E k \in Keys, a \in Addrs, S \in SUBSET Nets :
          register_peer_on_target(k, a, S) \/ set_peer_allowed_ips(k, a, S)

Spec == Init /\ [][Next]_text

-----------------------------------------------------------------------------
(* The blocks, by the line they begin with *)

(* The lines of the block that begins with line i, in two kinds. *)
LinesOf(c, i, kinds) ==
    {j \in DOMAIN c : /\ j > i /\ c[j].kind \in kinds
                      /\ \A z \in Headers(c, {"peer", "interface"}) : z <= i \/ z > j}

LastOf(c, L, default) == IF L = {} THEN default ELSE c[Max(L)].value

Written(c, i) ==
    [key |-> LastOf(c, LinesOf(c, i, {"key"}), NoKey),
     allowed |-> LastOf(c, LinesOf(c, i, {"allowed"}), <<>>),
     hint |-> LastOf(c, {j \in LinesOf(c, i, {"comment"}) : j > i + 1 /\ c[j].value \in Addrs}, NoAddr)]

(* Are the lines that the app reads in its own spelling, the key first?    *)
Plain(c, i) ==
    LET keys == LinesOf(c, i, {"key"})
        allowed == LinesOf(c, i, {"allowed"})
    IN  /\ keys # {} /\ allowed # {}
        /\ Max(keys) < Max(allowed)
        /\ c[Max(keys)].exact /\ c[Max(allowed)].exact

BlockOf(c, i) ==
    LET p == Written(c, i)
        host == IF p.allowed = <<>> THEN NoAddr ELSE p.allowed[1].host
    IN  [key |-> p.key, host |-> host, hint |-> p.hint, plain |-> Plain(c, i),
         nets |-> {p.allowed[j].net : j \in DOMAIN p.allowed} \ {host}]

(* The config as PeerRegistry keeps it, up to the numbers of the blocks. *)
Blocks(c) == [i \in Headers(c, {"peer"}) |-> BlockOf(c, i)]

-----------------------------------------------------------------------------
(* The parser reads every block that is there, whatever its spelling and   *)
(* wherever it ends, and tells the name from the "#IP:" comment; and what  *)
(* it makes of them is what PeerRegistry makes of its blocks.              *)
ParserReadsBlocks ==
    LET peers == fetch_wg_peers_from_config(text)
        blocks == Blocks(text)
        heads == DOMAIN blocks
    IN  /\ Len(peers) = Cardinality(heads)
        /\ \A i \in heads :
              LET p == peers[Cardinality({z \in heads : z <= i})]
              IN  /\ p = Written(text, i)
                  /\ OwnIp(p) = peer_own_ip(blocks[i])
                  /\ \A b \in BOOLEAN :
                        ManagedNetworks(p, b) = peer_managed_networks(blocks[i], b)

(* set_peer_allowed_ips replaces lines; on the blocks it does what         *)
(* PeerRegistry says it does: the plain block of its peer, and no other.   *)
RewriteActsOnBlocks ==
    LET blocks == Blocks(text)
    IN  \A k \in Keys, a \in Addrs, S \in SUBSET Nets :
            Blocks(Replaced(text, k, a, S)) = Rewritten(blocks, k, a, S)

(* register_peer_on_target appends lines; on the blocks it appends one for *)
(* a peer that has none and leaves the others alone, however the file ends;*)
(* for a peer that has a block it does nothing.                            *)
RegisterActsOnBlocks ==
    LET blocks == Blocks(text)
        New(k, a, S) == [key |-> k, host |-> a, hint |-> NoAddr, nets |-> S, plain |-> TRUE]
        With(k, a, S) == [i \in DOMAIN blocks \cup {Len(text) + 1} |->
                            IF i \in DOMAIN blocks THEN blocks[i] ELSE New(k, a, S)]
    IN  \A k \in Keys :
            LET known == \E i \in DOMAIN blocks : blocks[i].key = k
            IN  \A a \in Addrs, S \in SUBSET Nets :
                    IF known THEN Registered(text, k, a, S) = text
                    ELSE Blocks(Registered(text, k, a, S)) = With(k, a, S)

(* wireguard.py:318-319: the line is replaced within its block, "ohne      *)
(* andere Peers oder Zeilen zu beruehren".                                 *)
OtherPeersKept ==
    LET before == fetch_wg_peers_from_config(text)
    IN  \A k \in Keys, a \in Addrs, S \in SUBSET Nets :
            LET after == fetch_wg_peers_from_config(Replaced(text, k, a, S))
            IN  /\ Len(after) = Len(before)
                /\ \A i \in DOMAIN before : before[i].key \notin {k, NoKey} => after[i] = before[i]

(* provisioning.py:476-478: the block is appended "falls noch nicht        *)
(* vorhanden", so that the peer survives a restart.                        *)
RegisteredSurvives ==
    \A k \in Keys, a \in Addrs, S \in SUBSET Nets :
        LET peers == fetch_wg_peers_from_config(Registered(text, k, a, S))
        IN  \E i \in DOMAIN peers : peers[i].key = k

-----------------------------------------------------------------------------
(* For the theorems *)

(* An administrator who writes the headers of peers as the app does, and   *)
(* comments no key out.                                                    *)
AppStyle ==
    \A l \in HandLines :
        /\ l.kind = "header" /\ l.value = "peer" => l.exact
        /\ l.kind = "comment" => l.value \notin Keys

TypeOK == text \in Seq(Lines)

(* Every key belongs to a peer, and a peer has one key. *)
KeysInv ==
    \A i \in DOMAIN text : text[i].kind = "key" =>
        /\ \E h \in Headers(text, {"peer"}) : i \in LinesOf(text, h, {"key"})
        /\ \A j \in DOMAIN text : text[j].kind = "key" /\ j < i =>
              \E z \in Headers(text, {"peer", "interface"}) : j < z /\ z < i

StyleInv ==
    \A i \in DOMAIN text :
        /\ i \in Headers(text, {"peer"}) => text[i].exact
        /\ text[i].kind = "comment" => text[i].value \notin Keys

(* What grep and awk rely on: with AppStyle, every line that names a key   *)
(* is the key line of one block, whose header awk recognises.              *)
TextInv == TypeOK /\ KeysInv /\ StyleInv

=============================================================================
