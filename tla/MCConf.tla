------------------------------- MODULE MCConf -------------------------------
(* The config of the WireGuard interface, for TLC. *)
EXTENDS PeerConf

CONSTANTS k1, k2, a1, a2, n1, mesh

Host(a) == [host |-> a, net |-> a]
Net(n) == [host |-> NoAddr, net |-> n]

(* "AllowedIPs = 10.250.0.0/24, 10.250.0.2/32, 192.168.1.0/24" *)
Wide == Line("allowed", <<Net(mesh), Host(a2), Net(n1)>>)

Tidy == {Line("header", "peer"), Line("header", "interface"), Line("comment", a2), Line("key", k1),
         [Line("key", k2) EXCEPT !.exact = FALSE], Wide}

(* "[peer]", which wg-quick and the parser of the app accept *)
LowerCase == {Line("header", "peer"), [Line("header", "peer") EXCEPT !.exact = FALSE],
              Line("key", k1), Line("key", k2), Line("allowed", <<Host(a1)>>)}

(* A peer that has been commented out *)
CommentedOut == {Line("header", "peer"), Line("comment", k1), Line("key", k2)}

=============================================================================
