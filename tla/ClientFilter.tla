---------------------------- MODULE ClientFilter ----------------------------
(***************************************************************************)
(* What firewall.py promises about the traffic of each client, without the *)
(* hook chains, the jumps and the order of iptables commands: a client is  *)
(* open (the server's own rules decide) or it meets a filter of its own,   *)
(* and only a script for that client changes which.                        *)
(***************************************************************************)
CONSTANTS
    Ips,        \* clients, by tunnel address
    Targets,    \* what one ACCEPT line can match
    Jobs,       \* what scripts run in
    Open,       \* no filter of this app
    NoWork      \* no script there has anything left to do to a client

Filter == [accepts : SUBSET Targets, drop : BOOLEAN]

Cleared == [accepts |-> {}, drop |-> FALSE]

Work == [ip : Ips, kind : {"apply", "remove"}, lines : SUBSET Targets]

VARIABLES
    filter,   \* what the traffic of each client meets
    work      \* what each job is doing, and the lines it may still add

vars == <<filter, work>>

Init ==
    /\ filter = [ip \in Ips |-> Open]
    /\ work = [j \in Jobs |-> NoWork]

(* Scripts start, end, get killed or go on without their caller. *)
Schedule ==
    /\ UNCHANGED filter
    /\ work' \in [Jobs -> Work \cup {NoWork}]

Doing(j, kind) == work[j] # NoWork /\ work[j].kind = kind

(* An apply script never opens its client, and while the client is         *)
(* filtered it accepts no line that is not its own.                        *)
Apply(j) ==
    /\ Doing(j, "apply")
    /\ \E f \in Filter :
          /\ filter[work[j].ip] = Open
                \/ f.accepts \subseteq filter[work[j].ip].accepts \cup work[j].lines
          /\ filter' = [filter EXCEPT ![work[j].ip] = f]
    /\ \A k \in Jobs \ {j} : work'[k] = work[k]
    /\ work' \in [Jobs -> Work \cup {NoWork}]

(* A remove script opens its client, or leaves an empty filter that other  *)
(* jumps still lead to.                                                    *)
Remove(j) ==
    /\ Doing(j, "remove")
    /\ \E f \in {Open, Cleared} : filter' = [filter EXCEPT ![work[j].ip] = f]
    /\ \A k \in Jobs \ {j} : work'[k] = work[k]
    /\ work' \in [Jobs -> Work \cup {NoWork}]

(* The server comes back with whatever it has saved. *)
Reboot ==
    /\ filter' \in [Ips -> Filter \cup {Open}]
    /\ work' = [j \in Jobs |-> NoWork]

Next ==
    \/ Schedule
    \/ \E j \in Jobs : Apply(j) \/ Remove(j)
    \/ Reboot

Spec == Init /\ [][Next]_vars

=============================================================================
