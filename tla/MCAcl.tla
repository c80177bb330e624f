------------------------------- MODULE MCAcl -------------------------------
(* The app and its server, for TLC. *)
EXTENDS AclClaims, TLC

CONSTANTS i1, i2, d1, v6, g1, t1, t2, s1

MCBase == <<Mesh>>

MCSsh22 == [protocol |-> "tcp", port |-> 22]
MCKinds == {MCSsh22}

MCTargets == (Dests \cup Ips) \X Filters
MCRefused == (Dests \cap {v6}) \X Filters

(* Addresses are interchangeable, and so are threads. *)
MCSymmetry == Permutations(Ips) \cup Permutations(Threads)

=============================================================================
