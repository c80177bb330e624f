----------------------------- MODULE AclClaims ------------------------------
(***************************************************************************)
(* What the README and the app's own messages say of the server's state    *)
(* when all requests have been answered, and the code does not keep.       *)
(***************************************************************************)
EXTENDS Netzplan

(* No request is being worked on and no script is running. *)
Quiet == (\A t \in Threads : req[t].at = "idle") /\ (\A j \in Jobs : script[j] = NoScript)

(* README.md:25-28: a restricted client's chain holds its ACCEPT rules and *)
(* then a concluding DROP.  A destination that validate_dest_ip() takes    *)
(* and iptables rejects (IPv6) ends the script between "-F" and the DROP.  *)
ChainEndsInDrop ==
    Quiet => \A row \in Rows : row.restricted /\ Hooked(row.ip) => HasDrop(row.ip)

(* routes/permissions.py:376, :358: "Regel entfernt / hinzugefuegt und     *)
(* angewendet."  When every request has said so, the chain of a client     *)
(* accepts what its rules allow.  Two requests for one client read the     *)
(* rules in one order and run their scripts in another.                    *)
AppliedRulesStand ==
    Quiet => \A row \in Rows :
        row.restricted /\ Hooked(row.ip) => chains[row.ip].accepts = Policy(row.id)

(* routes/permissions.py:302: "Ein Client mit IP ... existiert bereits."   *)
(* A change of address that is refused so has changed nothing: a client    *)
(* that was enforced before still is.  Its chain is removed before the     *)
(* UPDATE that can be refused.                                             *)
RefusedMeansUnchanged ==
    Quiet => \A c \in Existing : standing[c] = "refused" => Enforced(c)

(* README.md:219-222: in the matrix "laesst sich voller Zugriff von einem   *)
(* Peer auf beliebige andere Peers umschalten", and routes/permissions.py: *)
(* 452 reports the destinations as removed.  Undisturbed, the client has   *)
(* the destinations that were ticked.  Of a rule added twice, one stays.   *)
MatrixTogglesAccess ==
    \A t \in Threads :
        /\ req[t].op = "set_full_access_targets" /\ req[t].at \in {"unchanged", "reply"}
        /\ ~req[t].failed /\ t \notin disturbed
        => {g[1] : g \in Granted(req[t].cid)} = req[t].picked

=============================================================================
