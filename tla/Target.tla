------------------------------- MODULE Target -------------------------------
(***************************************************************************)
(* The WireGuard server as the app drives it: its iptables state, and the  *)
(* bash scripts that run on it, one iptables command per step.  Several    *)
(* scripts can run at once, because every worker thread of the app starts  *)
(* its own (wireguard.run_on_target takes no lock), and because a script   *)
(* sent over SSH can outlive the 15 s its caller waits.  A script can be   *)
(* cut short at any line, and the server can reboot.                       *)
(*                                                                         *)
(* The module is an open system: any script may be started at any time.    *)
(* What holds here holds whatever the app's requests do.                   *)
(***************************************************************************)
EXTENDS Firewall

CONSTANTS
    Threads,      \* worker threads of the app, each waiting for one script
    Strays,       \* slots for scripts whose caller no longer waits
    Persistent    \* is netfilter-persistent installed on the server?

Jobs == Threads \cup Strays

ASSUME TargetAssumption ==
    /\ Threads \cap Strays = {}
    /\ Persistent \in BOOLEAN

VARIABLES
    chains,   \* the client chains in the kernel
    hooks,    \* the hook chains in the kernel
    saved,    \* what the server restores at boot
    script,   \* the script of each job
    opened    \* history: addresses whose chain was left without DROP by a
              \* removal, by a script that broke off, or by a boot

tvars == <<chains, hooks, saved, script, opened>>

Hooked(ip) == \E h \in Hooks : Holds(hooks[h], ip)

HasDrop(ip) == chains[ip] # NoChain /\ chains[ip].drop

At(j, step) == script[j] # NoScript /\ script[j].at = step

On(j, ip) == script[j] # NoScript /\ script[j].ip = ip

(* The script has flushed the chain and not yet appended the DROP. *)
Filling(j) == At(j, "accept")

Ended(j) == script[j] # NoScript /\ script[j].at \in EndSteps

Goto(j, step) == script' = [script EXCEPT ![j].at = step]

TargetInit ==
    /\ chains = BootChains
    /\ hooks = BootHooks
    /\ saved = [chains |-> BootChains, hooks |-> BootHooks]
    /\ script = [j \in Jobs |-> NoScript]
    /\ opened = {}

-----------------------------------------------------------------------------
(* build_apply_script, line by line *)

NewChain(j) ==
    /\ At(j, "new")
    /\ chains' = [chains EXCEPT ![script[j].ip] =
                                    IF @ = NoChain THEN EmptyChain ELSE @]
    /\ Goto(j, "flush")
    /\ UNCHANGED <<hooks, saved, opened>>

Flush(j) ==
    /\ At(j, "flush")
    /\ chains[script[j].ip] # NoChain
    /\ chains' = [chains EXCEPT ![script[j].ip] = EmptyChain]
    /\ Goto(j, "accept")
    /\ UNCHANGED <<hooks, saved, opened>>

AppendAccept(j) ==
    /\ At(j, "accept")
    /\ chains[script[j].ip] # NoChain
    /\ \E t \in script[j].todo \ Refused :
          /\ chains' = [chains EXCEPT ![script[j].ip] = AppendAcceptTo(@, t)]
          /\ script' = [script EXCEPT ![j].todo = @ \ {t}]
    /\ UNCHANGED <<hooks, saved, opened>>

(* Mutant: DROP only behind at least one ACCEPT. *)
DropIfAccepts(j) ==
    /\ At(j, "accept")
    /\ script[j].todo = {}
    /\ chains[script[j].ip] # NoChain
    /\ chains' = [chains EXCEPT ![script[j].ip] =
                                    IF @.accepts = {} THEN @ ELSE AppendDropTo(@)]
    /\ opened' = opened \ {script[j].ip}
    /\ Goto(j, "checkEstablished")
    /\ UNCHANGED <<hooks, saved>>

AppendDrop(j) ==
    /\ At(j, "accept")
    /\ script[j].todo = {}
    /\ chains[script[j].ip] # NoChain
    /\ chains' = [chains EXCEPT ![script[j].ip] = AppendDropTo(@)]
    /\ opened' = opened \ {script[j].ip}
    /\ Goto(j, "checkEstablished")
    /\ UNCHANGED <<hooks, saved>>

CheckEstablished(j) ==
    /\ At(j, "checkEstablished")
    /\ Goto(j, IF Holds(hooks[script[j].hook], Established)
               THEN "checkJump" ELSE "insertEstablished")
    /\ UNCHANGED <<chains, hooks, saved, opened>>

InsertEstablished(j) ==
    /\ At(j, "insertEstablished")
    /\ hooks' = [hooks EXCEPT ![script[j].hook] = InsertAt(@, 1, Established)]
    /\ Goto(j, "checkJump")
    /\ UNCHANGED <<chains, saved, opened>>

CheckJump(j) ==
    /\ At(j, "checkJump")
    /\ Goto(j, IF Holds(hooks[script[j].hook], script[j].ip)
               THEN "save" ELSE "insertJump")
    /\ UNCHANGED <<chains, hooks, saved, opened>>

(* Mutants: a bare -I, and -A instead of -I. *)
InsertJumpFirst(j) ==
    /\ At(j, "insertJump")
    /\ chains[script[j].ip] # NoChain
    /\ hooks' = [hooks EXCEPT ![script[j].hook] = <<script[j].ip>> \o @]
    /\ Goto(j, "save")
    /\ UNCHANGED <<chains, saved, opened>>

AppendJump(j) ==
    /\ At(j, "insertJump")
    /\ chains[script[j].ip] # NoChain
    /\ hooks' = [hooks EXCEPT ![script[j].hook] = Append(@, script[j].ip)]
    /\ Goto(j, "save")
    /\ UNCHANGED <<chains, saved, opened>>

InsertJump(j) ==
    /\ At(j, "insertJump")
    /\ chains[script[j].ip] # NoChain
    /\ Len(hooks[script[j].hook]) > 0
    /\ hooks' = [hooks EXCEPT ![script[j].hook] = InsertAt(@, 2, script[j].ip)]
    /\ Goto(j, "save")
    /\ UNCHANGED <<chains, saved, opened>>

(* A command of the apply script that fails ends it (set -e): the chain is *)
(* gone, iptables rejects the line, or the hook has no first rule.         *)
Abort(j) ==
    /\ \/ /\ script[j] # NoScript
          /\ script[j].at \in {"flush", "accept", "insertJump"}
          /\ chains[script[j].ip] = NoChain
       \/ At(j, "accept") /\ script[j].todo \cap Refused # {}
       \/ At(j, "insertJump") /\ Len(hooks[script[j].hook]) = 0
    /\ opened' = IF Filling(j) THEN opened \cup {script[j].ip} ELSE opened
    /\ Goto(j, "failed")
    /\ UNCHANGED <<chains, hooks, saved>>

-----------------------------------------------------------------------------
(* build_remove_script, line by line: every failure is ignored *)

(* Mutant: -D by number, the place where -I 2 has put it. *)
UnhookSecond(j) ==
    /\ At(j, "unhook")
    /\ hooks' = [hooks EXCEPT ![script[j].hook] =
                                  IF Holds(@, script[j].ip) THEN RemoveAt(@, 2) ELSE @]
    /\ Goto(j, "clear")
    /\ UNCHANGED <<chains, saved, opened>>

Unhook(j) ==
    /\ At(j, "unhook")
    /\ \/ \E i \in FirstMatch(hooks[script[j].hook], script[j].ip) :
             hooks' = [hooks EXCEPT ![script[j].hook] = RemoveAt(@, i)]
       \/ ~Holds(hooks[script[j].hook], script[j].ip) /\ UNCHANGED hooks
    /\ Goto(j, "clear")
    /\ UNCHANGED <<chains, saved, opened>>

Clear(j) ==
    /\ At(j, "clear")
    /\ chains' = [chains EXCEPT ![script[j].ip] =
                                    IF @ = NoChain THEN NoChain ELSE EmptyChain]
    /\ opened' = opened \cup {script[j].ip}
    /\ Goto(j, "delete")
    /\ UNCHANGED <<hooks, saved>>

(* iptables -X refuses a chain that holds rules or that a rule jumps to. *)
DeleteChain(j) ==
    /\ At(j, "delete")
    /\ chains' = [chains EXCEPT ![script[j].ip] =
                                    IF @ = EmptyChain /\ ~Hooked(script[j].ip)
                                    THEN NoChain ELSE @]
    /\ Goto(j, "save")
    /\ UNCHANGED <<hooks, saved, opened>>

(* The last line of both scripts. *)
Save(j) ==
    /\ At(j, "save")
    /\ saved' = IF Persistent THEN [chains |-> chains, hooks |-> hooks] ELSE saved
    /\ Goto(j, "done")
    /\ UNCHANGED <<chains, hooks, opened>>

Command(j) ==
    \/ NewChain(j) \/ Flush(j) \/ AppendAccept(j) \/ AppendDrop(j)
    \/ CheckEstablished(j) \/ InsertEstablished(j)
    \/ CheckJump(j) \/ InsertJump(j) \/ Abort(j)
    \/ Unhook(j) \/ Clear(j) \/ DeleteChain(j) \/ Save(j)

-----------------------------------------------------------------------------
(* run_on_target: a script starts, its caller collects it, it is killed by *)
(* the timeout, or it runs on after the caller has given up.               *)

Start(j, s) ==
    /\ script[j] = NoScript
    /\ script' = [script EXCEPT ![j] = s]
    /\ UNCHANGED <<chains, hooks, saved, opened>>

Collect(j) ==
    /\ Ended(j)
    /\ script' = [script EXCEPT ![j] = NoScript]
    /\ UNCHANGED <<chains, hooks, saved, opened>>

Kill(K) ==
    /\ script' = [j \in Jobs |-> IF j \in K THEN NoScript ELSE script[j]]
    /\ opened' = opened \cup {script[j].ip : j \in {k \in K : Filling(k)}}
    /\ UNCHANGED <<chains, hooks, saved>>

Detach(t, s) ==
    /\ script[t] # NoScript
    /\ script[s] = NoScript
    /\ script' = [script EXCEPT ![s] = script[t], ![t] = NoScript]
    /\ UNCHANGED <<chains, hooks, saved, opened>>

Reboot ==
    /\ chains' = saved.chains
    /\ hooks' = saved.hooks
    /\ script' = [j \in Jobs |-> NoScript]
    /\ opened' = {ip \in Ips : ~(saved.chains[ip] # NoChain /\ saved.chains[ip].drop)}
    /\ UNCHANGED saved

TargetNext ==
    \/ \E j \in Jobs : Command(j) \/ Collect(j)
    \/ \E j \in Jobs, ip \in Ips, h \in Hooks :
          /\ h = "FORWARD" \/ Docker
          /\ \/ Start(j, build_remove_script(ip, h))
             \/ \E ts \in SUBSET Targets : Start(j, build_apply_script(ip, ts, h))
    \/ \E K \in SUBSET Jobs : Kill(K)
    \/ \E t \in Threads, s \in Strays : Detach(t, s)
    \/ Reboot

TargetSpec == TargetInit /\ [][TargetNext]_tvars

-----------------------------------------------------------------------------
Tables == [chains : [Ips -> Chain \cup {NoChain}], hooks : [Hooks -> Seq(HookRule)]]

(* Every variable has its type. *)
TargetTypeOK ==
    /\ chains \in [Ips -> Chain \cup {NoChain}]
    /\ hooks \in [Hooks -> Seq(HookRule)]
    /\ saved \in Tables
    /\ script \in [Jobs -> Script \cup {NoScript}]
    /\ opened \subseteq Ips

(* The rule that lets replies through stays the first rule of a hook chain *)
(* that holds a jump of this app: firewall.py inserts it at 1 and the      *)
(* jumps at 2, and the check-then-insert pairs of concurrent scripts       *)
(* interleave.  Otherwise the answer of a restricted peer dies in its own  *)
(* chain's DROP.                                                           *)
EstablishedFirst ==
    \A h \in Hooks, ip \in Ips :
        Holds(hooks[h], ip) => hooks[h][1] = Established

(* Every jump of this app stands in front of the foreign rules, a blanket  *)
(* mesh accept among them: behind one, the client's chain is never reached.*)
JumpsBeforeMesh ==
    \A h \in Hooks : \A i, k \in 1..Len(hooks[h]) :
        hooks[h][i] = Mesh /\ i < k => hooks[h][k] \notin Ips

(* A chain that traffic is sent through and that has no DROP is explained: *)
(* a script is just filling it, or a removal, a script that broke off or a *)
(* boot left it so (and no later script has appended the DROP again).      *)
(* Concurrent apply scripts for one client may mix their ACCEPT lines, but *)
(* between them they never lose the DROP that "iptables -F" took away.     *)
DropNeverLost ==
    \A ip \in Ips :
        Hooked(ip) /\ ~HasDrop(ip) =>
            ip \in opened \/ \E j \in Jobs : On(j, ip) /\ Filling(j)

-----------------------------------------------------------------------------
(* Target implements ClientFilter.  A packet of ip walks through a hook    *)
(* chain until a rule takes it: the jump of ip, or a blanket accept before.*)
Reached(s, ip) ==
    \E i \in 1..Len(s) : s[i] = ip /\ \A k \in 1..(i - 1) : s[k] # Mesh

Meets(ip) == IF \E h \in Hooks : Reached(hooks[h], ip) THEN chains[ip] ELSE NoChain

(* What a script has still to do to its client, if anything. *)
WorkOf(j) ==
    IF script[j] = NoScript \/ script[j].at \notin ApplySteps \cup RemoveSteps THEN NoScript
    ELSE [ip |-> script[j].ip, lines |-> script[j].todo,
          kind |-> IF script[j].at \in ApplySteps THEN "apply" ELSE "remove"]

Clients == INSTANCE ClientFilter WITH
    Open <- NoChain, NoWork <- NoScript,
    filter <- [ip \in Ips |-> Meets(ip)], work <- [j \in Jobs |-> WorkOf(j)]

ASSUME WorkAssumption == NoScript \notin Clients!Work

(* Only a script for a client changes what the client's packets meet, an   *)
(* apply script never opens a filtered client and adds no foreign lines,   *)
(* and a remove script never closes one: build_apply_script() and          *)
(* build_remove_script() edit hook chains that all clients share.          *)
ScriptsKeepToTheirClient == Clients!Spec

-----------------------------------------------------------------------------
(* The inductive invariant behind the properties. *)

(* A hook chain the app has worked on: whenever a rule of the app is in it *)
(* the established rule is first, and no jump stands behind a foreign rule.*)
HookOK(s) ==
    /\ \A i \in 1..Len(s) : s[i] \in Ips \cup {Established} => s[1] = Established
    /\ \A i, k \in 1..Len(s) : s[i] = Mesh /\ i < k => s[k] \notin Ips

HooksInv ==
    /\ \A h \in Hooks : HookOK(hooks[h]) /\ HookOK(saved.hooks[h])
    /\ \A j \in Jobs : At(j, "checkJump") \/ At(j, "insertJump") =>
                          Holds(hooks[script[j].hook], Established)

(* The script is past its DROP and about to send traffic to the chain. *)
Hooking(j) ==
    \/ At(j, "checkEstablished") \/ At(j, "insertEstablished")
    \/ At(j, "checkJump") \/ At(j, "insertJump")

(* Traffic from ip goes through its chain, or is about to. *)
InUse(ip) == Hooked(ip) \/ \E j \in Jobs : On(j, ip) /\ Hooking(j)

(* The chain of ip has its DROP, or it is explained why it has not. *)
Covered(ip) ==
    \/ HasDrop(ip)
    \/ ip \in opened
    \/ \E j \in Jobs : On(j, ip) /\ Filling(j)

DropInv == \A ip \in Ips : InUse(ip) => Covered(ip)

TargetInv == TargetTypeOK /\ HooksInv /\ DropInv

(* No jump leads to a chain that is not there: -X leaves it alone. *)
JumpInv ==
    \A ip \in Ips :
        /\ Hooked(ip) => chains[ip] # NoChain
        /\ (\E h \in Hooks : Holds(saved.hooks[h], ip)) => saved.chains[ip] # NoChain

=============================================================================
