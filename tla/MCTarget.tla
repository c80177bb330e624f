------------------------------ MODULE MCTarget ------------------------------
(* The target server with two scripts at a time, for TLC. *)
EXTENDS Target, TLC

CONSTANTS i1, i2, ok1, t1, s1

MCIps == {i1, i2}
MCTargets == {ok1}
MCRefused == {}
MCBase == <<Mesh>>
MCThreads == {t1}
MCStrays == {s1}

(* Addresses are interchangeable. *)
MCSymmetry == Permutations(MCIps)

=============================================================================
