----------------------------- MODULE PeerBlocks -----------------------------
(***************************************************************************)
(* A [Peer] block of the WireGuard config, as far as the app reads it, and *)
(* what it makes of one.  PeerRegistry keeps the config as a sequence of   *)
(* blocks; PeerConf, line by line, shows when that is the same.            *)
(***************************************************************************)
EXTENDS Integers, FiniteSetsExt, SequencesExt

CONSTANTS
    Keys,     \* public keys
    Addrs,    \* tunnel addresses
    Nets,     \* networks behind peers
    MeshNet,  \* the network of the tunnel addresses
    NoAddr

(* host: the address the first entry of AllowedIPs names, unless that is a *)
(* network address; hint: the "#IP:" comment; plain: are the lines written *)
(* as the app itself writes them, the key first?                           *)
Block == [key : Keys, host : Addrs \cup {NoAddr}, hint : Addrs \cup {NoAddr},
          nets : SUBSET (Nets \cup {MeshNet}), plain : BOOLEAN]

AllowedIPs(b) == ({b.host} \ {NoAddr}) \cup b.nets

peer_own_ip(b) == IF b.host # NoAddr THEN b.host ELSE b.hint

(* Without the peer's own address, and without what lies in the mesh.      *)
peer_managed_networks(b, meshKnown) ==
    b.nets \ ({peer_own_ip(b)} \cup (IF meshKnown THEN {MeshNet} \cup Addrs ELSE {}))

(* Mutant: awk does not notice the next [Peer]. *)
RewrittenOn(c, k, ip, nets) ==
    [i \in DOMAIN c |-> IF \E j \in 1..i : c[j].key = k /\ c[j].plain
                        THEN [c[i] EXCEPT !.host = ip, !.nets = nets] ELSE c[i]]

(* The awk program of set_peer_allowed_ips. *)
Rewritten(c, k, ip, nets) ==
    [i \in DOMAIN c |-> IF c[i].key = k /\ c[i].plain
                        THEN [c[i] EXCEPT !.host = ip, !.nets = nets] ELSE c[i]]

=============================================================================
