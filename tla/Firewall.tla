------------------------------ MODULE Firewall ------------------------------
(***************************************************************************)
(* The data of firewall.py: what one WGACL_<ip> chain and the two hook     *)
(* chains of the WireGuard server hold, the iptables operations the        *)
(* generated scripts use on them, and the scripts themselves.              *)
(*                                                                         *)
(* Abstractions.  A chain is kept up to the verdicts it gives: the set of  *)
(* ACCEPT lines in front of the first DROP, and whether there is a DROP;   *)
(* a line appended behind a DROP is never reached.  chain_name() is        *)
(* injective on addresses, so a chain and the jump to it are both named    *)
(* by the client's tunnel IP.  An ACCEPT line is named by what it matches  *)
(* (destination, protocol, port).                                          *)
(***************************************************************************)
EXTENDS Integers, SequencesExt

CONSTANTS
    Ips,          \* tunnel addresses of WireGuard peers
    Targets,      \* what one ACCEPT line can match
    Refused,      \* targets the app accepts and "iptables -A" rejects (IPv6)
    Docker,       \* does the server have a DOCKER-USER chain?
    Base,         \* the rules of a hook chain that are not this app's
    Established,  \* the ESTABLISHED,RELATED accept rule of the hook chain
    Mesh,         \* a foreign rule of the hook chain (blanket mesh accept)
    NoChain,      \* there is no chain of that name
    NoScript      \* no script is running there

Hooks == {"DOCKER-USER", "FORWARD"}

Chain == [accepts : SUBSET Targets, drop : BOOLEAN]

EmptyChain == [accepts |-> {}, drop |-> FALSE]

HookRule == Ips \cup {Established, Mesh}

ASSUME FirewallAssumption ==
    /\ Refused \subseteq Targets
    /\ Docker \in BOOLEAN
    /\ Base \in Seq({Mesh})
    /\ Established \notin Ips
    /\ Mesh \notin Ips \cup {Established}
    /\ NoChain \notin Chain

-----------------------------------------------------------------------------
(* The hook chains and the client chains of a freshly booted server. *)

BootHooks == [h \in Hooks |-> IF h = "FORWARD" \/ Docker THEN Base ELSE <<>>]

BootChains == [ip \in Ips |-> NoChain]

(* detect_hook_chain() when its probe reaches the server. *)
RealHook == IF Docker THEN "DOCKER-USER" ELSE "FORWARD"

(* iptables -C: does rule r occur in the hook chain s? *)
Holds(s, r) == \E i \in 1..Len(s) : s[i] = r

(* iptables -D <hook> takes out the first rule that matches. *)
FirstMatch(s, r) ==
    {i \in 1..Len(s) : s[i] = r /\ \A k \in 1..(i - 1) : s[k] # r}

(* iptables -A <chain> <target> -j ACCEPT, and -A <chain> -j DROP. *)
AppendAcceptTo(chain, t) ==
    IF chain.drop THEN chain ELSE [chain EXCEPT !.accepts = @ \cup {t}]

AppendDropTo(chain) == [chain EXCEPT !.drop = TRUE]

-----------------------------------------------------------------------------
(* The generated scripts.  "at" is the line to be executed next and "todo" *)
(* the ACCEPT lines still to be appended: the rule SELECT has no ORDER BY, *)
(* and the verdicts do not depend on their order.                          *)

ApplySteps == {"new", "flush", "accept", "checkEstablished",
               "insertEstablished", "checkJump", "insertJump"}

RemoveSteps == {"unhook", "clear", "delete"}

EndSteps == {"done", "failed"}

Script == [ip : Ips, hook : Hooks, todo : SUBSET Targets,
           at : ApplySteps \cup RemoveSteps \cup {"save"} \cup EndSteps]

ASSUME ScriptAssumption == NoScript \notin Script

build_apply_script(ip, targets, hook) ==
    [ip |-> ip, hook |-> hook, todo |-> targets, at |-> "new"]

(* Mutant: swapped arguments. *)
SwappedRemove(ip, hook) ==
    [ip |-> hook, hook |-> ip, todo |-> {}, at |-> "unhook"]

build_remove_script(ip, hook) ==
    [ip |-> ip, hook |-> hook, todo |-> {}, at |-> "unhook"]

=============================================================================
