------------------------------ MODULE MCPeers ------------------------------
(* The peers of the server, for TLC. *)
EXTENDS PeerRegistry, TLC

CONSTANTS k1, k2, a1, a2, n1, mesh, t1, t2

Peer(k, a) == [key |-> k, host |-> a, hint |-> NoAddr, nets |-> {}, plain |-> TRUE]

(* A router, and an administrator's computer that may reach every peer. *)
Router == [Peer(k1, a1) EXCEPT !.nets = {n1}]
Admin == [Peer(k2, NoAddr) EXCEPT !.hint = a2, !.nets = {mesh}]

(* A block the awk program does not recognise, a second one for a1, and a  *)
(* second router of the network.                                           *)
Foreign == [Peer(k2, a2) EXCEPT !.nets = {mesh}, !.plain = FALSE]
Twin == [Admin EXCEPT !.hint = a1]
Rival == [Peer(k2, a2) EXCEPT !.nets = {n1}]

MCHandMade == {<<Admin>>, <<Foreign, Router>>, <<Peer(k1, a1), Twin>>, <<Router, Rival>>}
MCTwoPeers == {<<Peer(k1, a1), Peer(k2, a2)>>}
MCRouter == {<<Router>>}
MCEmpty == {<<>>}

=============================================================================
