--------------------------- MODULE SettledProofs ----------------------------
(***************************************************************************)
(* A client whose last answer was a success is enforced, and stays so:     *)
(* SettledStaysEnforced for every number of threads, clients, rules and    *)
(* groups, and whatever times out, breaks off, restarts or reboots. From   *)
(* it follows that the network plan shows what the packets of the clients  *)
(* meet (PlanShowsChains).                                                 *)
(***************************************************************************)
EXTENDS Netzplan, AppProofs

-----------------------------------------------------------------------------
(* What one line of a script changes *)

LEMMA CommandScripts ==
    ASSUME TargetInv, NEW j \in Jobs, Command(j)
    PROVE  /\ script[j] \in Script /\ script[j] # NoScript
           /\ script'[j] # NoScript /\ script'[j].ip = script[j].ip
           /\ \A k \in Jobs \ {j} : script'[k] = script[k]
<1>1. TargetTypeOK
  BY DEF TargetInv
<1>2. script[j] # NoScript
  BY DEF Command, NewChain, Flush, AppendAccept, AppendDrop, CheckEstablished, InsertEstablished,
         CheckJump, InsertJump, Abort, Unhook, Clear, DeleteChain, Save, At
<1>3. script[j] \in Script
  BY <1>1, <1>2 DEF TargetTypeOK
<1>4. CASE AppendAccept(j)
  BY <1>1, <1>2, <1>3, <1>4, ScriptAssumption DEF AppendAccept, TargetTypeOK, Script
<1>5. CASE \E step \in ApplySteps \cup RemoveSteps \cup {"save"} \cup EndSteps : Goto(j, step)
  BY <1>1, <1>2, <1>3, <1>5, GotoType
<1>6. QED
  BY <1>2, <1>3, <1>4, <1>5
  DEF Command, NewChain, Flush, AppendDrop, CheckEstablished, InsertEstablished, CheckJump,
      InsertJump, Abort, Unhook, Clear, DeleteChain, Save, ApplySteps, RemoveSteps, EndSteps

LEMMA CommandElsewhere ==
    ASSUME TargetInv, NEW j \in Jobs, Command(j), NEW ip \in Ips, ~On(j, ip)
    PROVE  chains'[ip] = chains[ip] /\ (Hooked(ip)' <=> Hooked(ip))
<1>1. script[j].ip # ip /\ script[j].ip \in Ips
  BY CommandScripts DEF On, Script
<1>2. chains'[ip] = chains[ip]
  BY <1>1
  DEF Command, NewChain, Flush, AppendAccept, AppendDrop, CheckEstablished, InsertEstablished,
      CheckJump, InsertJump, Abort, Unhook, Clear, DeleteChain, Save, TargetInv, TargetTypeOK
<1>3. CASE InsertEstablished(j)
  BY <1>2, <1>3, InsertEstablishedEffect
<1>4. CASE InsertJump(j)
  BY <1>1, <1>2, <1>4, InsertJumpEffect
<1>5. CASE Unhook(j)
  BY <1>1, <1>2, <1>5, UnhookEffect
<1>6. CASE UNCHANGED hooks
  BY <1>2, <1>6, HooksUnchanged
<1>7. QED
  BY <1>3, <1>4, <1>5, <1>6
  DEF Command, NewChain, Flush, AppendAccept, AppendDrop, CheckEstablished, CheckJump, Abort,
      Clear, DeleteChain, Save

(* An apply script gets where it is going, unless it breaks off. *)
LEMMA AppliesStep ==
    ASSUME TargetInv, NEW j \in Jobs, Command(j), NEW P, Applies(j, P)
    PROVE  Applies(j, P)'
<1> DEFINE ip == script[j].ip
<1>1. TargetTypeOK /\ script[j] \in Script /\ script[j] # NoScript /\ ip \in Ips
  BY CommandScripts DEF TargetInv, Script
<1>2. script[j].at \in ApplySteps \cup {"save"} \cup EndSteps
  BY DEF Applies
<1>3. CASE NewChain(j)
  <2>1. script'[j].at = "flush" /\ script'[j].todo = script[j].todo
    BY <1>1, <1>3 DEF NewChain, Goto, TargetTypeOK, Script
  <2>2. script[j].todo = P
    BY <1>3 DEF NewChain, Applies, At
  <2>3. QED
    BY <2>1, <2>2 DEF Applies, At, Hooking, ApplySteps
<1>4. CASE Flush(j)
  <2>1. script'[j].at = "accept" /\ script'[j].ip = ip /\ script'[j].todo = P /\ script'[j] # NoScript
    BY <1>1, <1>4, GotoType DEF Flush, Applies, At, Script, Goto, TargetTypeOK, ApplySteps
  <2>2. chains'[ip] = EmptyChain
    BY <1>1, <1>4 DEF Flush, TargetTypeOK
  <2>3. EmptyChain.accepts = {}
    BY DEF EmptyChain
  <2>4. QED
    BY <2>1, <2>2, <2>3, EmptyChainType DEF Applies, At, Hooking, ApplySteps
<1>5. CASE AppendAccept(j)
  <2>1. PICK t \in script[j].todo :
           /\ chains' = [chains EXCEPT ![ip] = AppendAcceptTo(@, t)]
           /\ script' = [script EXCEPT ![j].todo = @ \ {t}]
    BY <1>5 DEF AppendAccept
  <2>2. /\ script'[j].at = "accept" /\ script'[j].ip = ip
        /\ script'[j].todo = script[j].todo \ {t} /\ script'[j] # NoScript
    BY <1>1, <1>5, <2>1, CommandScripts DEF AppendAccept, At, Script, TargetTypeOK
  <2>3. chains[ip] # NoChain /\ ~chains[ip].drop /\ chains[ip].accepts \cup script[j].todo = P
    BY <1>5 DEF Applies, AppendAccept, At
  <2>4. chains'[ip] = [chains[ip] EXCEPT !.accepts = @ \cup {t}] /\ chains[ip] \in Chain
    BY <1>1, <2>1, <2>3 DEF AppendAcceptTo, TargetTypeOK
  <2>5. /\ chains'[ip] \in Chain /\ ~chains'[ip].drop
        /\ chains'[ip].accepts = chains[ip].accepts \cup {t}
    <3>1. t \in Targets
      BY <1>1 DEF Script
    <3>2. QED
      BY <2>3, <2>4, <3>1 DEF Chain
  <2>6. chains'[ip] # NoChain /\ chains'[ip].accepts \cup script'[j].todo = P
    BY <2>2, <2>3, <2>5, FirewallAssumption
  <2>7. QED
    BY <2>2, <2>5, <2>6 DEF Applies, At, Hooking, ApplySteps
<1>6. CASE AppendDrop(j)
  <2>1. /\ script'[j].at = "checkEstablished" /\ script'[j].ip = ip
        /\ chains'[ip] = AppendDropTo(chains[ip])
    BY <1>1, <1>6, GotoType DEF AppendDrop, ApplySteps, TargetTypeOK
  <2>2. chains[ip] \in Chain /\ chains[ip].accepts = P
    BY <1>1, <1>6 DEF AppendDrop, Applies, At, TargetTypeOK
  <2>3. chains'[ip] = [accepts |-> P, drop |-> TRUE]
    BY <2>1, <2>2 DEF AppendDropTo, Chain
  <2>4. QED
    BY <2>1, <2>3 DEF Applies, ApplySteps
<1>7. CASE CheckEstablished(j) \/ InsertEstablished(j)
  <2>1. /\ script'[j].at \in {"insertEstablished", "checkJump"} /\ script'[j].ip = ip
        /\ UNCHANGED chains
    BY <1>1, <1>7, GotoType DEF CheckEstablished, InsertEstablished, ApplySteps
  <2>2. chains[ip] = [accepts |-> P, drop |-> TRUE]
    BY <1>7 DEF CheckEstablished, InsertEstablished, Applies, Hooking
  <2>3. QED
    BY <2>1, <2>2 DEF Applies, ApplySteps
<1>8. CASE CheckJump(j) \/ InsertJump(j)
  <2>1. /\ script'[j].at \in {"insertJump", "save"} /\ script'[j].ip = ip
        /\ UNCHANGED chains
    BY <1>1, <1>8, GotoType DEF CheckJump, InsertJump, ApplySteps
  <2>2. chains[ip] = [accepts |-> P, drop |-> TRUE]
    BY <1>8 DEF CheckJump, InsertJump, Applies, Hooking
  <2>3. script'[j].at = "save" => Hooked(script[j].ip)'
    <3>1. CASE InsertJump(j)
      <4>1. PICK q \in Ips : q = ip
        BY <1>1
      <4>2. Hooked(q)' /\ script'[j].ip = q
        BY <2>1, <3>1, <4>1, InsertJumpEffect
      <4>3. QED
        BY <4>2 DEF Hooked, Holds
    <3>2. CASE CheckJump(j)
      <4>1. script'[j].at = "save" => Holds(hooks[script[j].hook], ip)
        BY <1>1, <3>2, GotoType DEF CheckJump, ApplySteps
      <4>2. script[j].hook \in Hooks /\ UNCHANGED hooks
        BY <1>1, <3>2 DEF CheckJump, Script
      <4>3. QED
        BY <2>1, <4>1, <4>2 DEF Hooked, Holds
    <3>3. QED
      BY <1>8, <3>1, <3>2
  <2>4. QED
    BY <2>1, <2>2, <2>3 DEF Applies, ApplySteps
<1>9. CASE Abort(j)
  BY <1>1, <1>9, GotoType DEF Abort, Applies, At, Hooking, EndSteps
<1>10. CASE Save(j)
  <2>1. /\ script'[j].at = "done" /\ script'[j].ip = ip
        /\ UNCHANGED <<chains, hooks>>
    BY <1>1, <1>10, GotoType DEF Save, EndSteps
  <2>2. chains[ip] = [accepts |-> P, drop |-> TRUE] /\ Hooked(ip)
    BY <1>10 DEF Save, Applies, At
  <2>3. Hooked(script[j].ip)'
    BY <2>1, <2>2 DEF Hooked, Holds
  <2>4. QED
    BY <2>1, <2>2, <2>3 DEF Applies, ApplySteps, EndSteps
<1>11. ~Unhook(j) /\ ~Clear(j) /\ ~DeleteChain(j)
  BY <1>2 DEF Unhook, Clear, DeleteChain, At, ApplySteps, EndSteps
<1>12. QED
  BY <1>3, <1>4, <1>5, <1>6, <1>7, <1>8, <1>9, <1>10, <1>11 DEF Command

LEMMA ClearsStep ==
    ASSUME TargetInv, NEW j \in Jobs, Command(j), Clears(j)
    PROVE  Clears(j)'
<1> DEFINE ip == script[j].ip
<1>1. TargetTypeOK /\ script[j] \in Script /\ script[j] # NoScript /\ ip \in Ips
  BY CommandScripts DEF TargetInv, Script
<1>2. script[j].at \in RemoveSteps \cup {"save"} \cup EndSteps
  BY DEF Clears
<1>3. CASE Unhook(j)
  BY <1>1, <1>3, GotoType DEF Unhook, Clears, RemoveSteps
<1>4. CASE Clear(j)
  <2>1. script'[j].at = "delete" /\ script'[j].ip = ip /\ chains'[ip] \in {NoChain, EmptyChain}
    BY <1>1, <1>4, GotoType DEF Clear, RemoveSteps, TargetTypeOK
  <2>2. QED
    BY <2>1 DEF Clears, RemoveSteps
<1>5. CASE DeleteChain(j)
  <2>1. script'[j].at = "save" /\ script'[j].ip = ip /\ chains'[ip] \in {NoChain, chains[ip]}
    BY <1>1, <1>5, GotoType DEF DeleteChain, TargetTypeOK
  <2>2. chains[ip] \in {NoChain, EmptyChain}
    BY <1>5 DEF DeleteChain, Clears, At
  <2>3. QED
    BY <2>1, <2>2 DEF Clears
<1>6. CASE Save(j)
  BY <1>1, <1>6, GotoType DEF Save, Clears, At, EndSteps
<1>7. /\ ~NewChain(j) /\ ~Flush(j) /\ ~AppendAccept(j) /\ ~AppendDrop(j) /\ ~CheckEstablished(j)
      /\ ~InsertEstablished(j) /\ ~CheckJump(j) /\ ~InsertJump(j) /\ ~Abort(j)
  BY <1>2 DEF NewChain, Flush, AppendAccept, AppendDrop, CheckEstablished, InsertEstablished,
     CheckJump, InsertJump, Abort, At, RemoveSteps, EndSteps
<1>8. QED
  BY <1>3, <1>4, <1>5, <1>6, <1>7 DEF Command

-----------------------------------------------------------------------------
(* What a step leaves as it was *)

(* Nothing has happened to the traffic of ip. *)
Kept(ip) == chains'[ip] = chains[ip] /\ (Hooked(ip)' <=> Hooked(ip))

LEMMA KeptIfUnchanged ==
    ASSUME UNCHANGED <<chains, hooks>>, NEW ip
    PROVE  Kept(ip)
BY HooksUnchanged DEF Kept

LEMMA NotChanged ==
    ASSUME NEW c, ~Changed(c)
    PROVE  /\ clients'[c] = clients[c]
           /\ RawLines(c)' = RawLines(c)
           /\ \A l \in RawLines(c) \cap (Groups \X Filters) :
                 tag_member_ips(l[1], c)' = tag_member_ips(l[1], c)
           /\ Policy(c)' = Policy(c)
<1>1. CASE UNCHANGED dbvars
  <2>1. UNCHANGED <<clients, rules, services, members>>
    BY <1>1 DEF dbvars
  <2>2. QED
    BY <2>1 DEF RawLines, RulesWith, tag_member_ips, Existing, Policy
<1>2. CASE Reading(c)' = Reading(c)
  <2> DEFINE G == RawLines(c) \cap (Groups \X Filters)
             G1 == RawLines(c)' \cap (Groups \X Filters)
  <2>1. /\ clients'[c] = clients[c] /\ RawLines(c)' = RawLines(c)
        /\ [l \in G1 |-> tag_member_ips(l[1], c)'] = [l \in G |-> tag_member_ips(l[1], c)]
    BY <1>2 DEF Reading
  <2>2. \A l \in G : tag_member_ips(l[1], c)' = tag_member_ips(l[1], c)
    BY <2>1
  <2>3. {tag_member_ips(l[1], c)' \X {l[2]} : l \in G1} = {tag_member_ips(l[1], c) \X {l[2]} : l \in G}
    BY <2>1, <2>2
  <2>4. QED
    BY <2>1, <2>2, <2>3 DEF Policy
<1>3. QED
  BY <1>1, <1>2 DEF Changed

LEMMA EnforcedFrame ==
    ASSUME NEW c, ~Changed(c), NEW ip, ip = clients[c].ip, Kept(ip)
    PROVE  Enforced(c)' <=> Enforced(c)
<1>1. clients'[c] = clients[c] /\ Policy(c)' = Policy(c)
  BY NotChanged
<1>2. Hooked(clients[c].ip)' <=> Hooked(ip)'
  BY <1>1 DEF Hooked, Holds
<1>3. QED
  BY <1>1, <1>2 DEF Enforced, Kept

LEMMA UnchangedTables ==
    ASSUME UNCHANGED dbvars
    PROVE  /\ \A c : ~Changed(c)
           /\ Existing' = Existing /\ Rows' = Rows
BY DEF Changed, dbvars, Existing, Rows

LEMMA ReqType == AppInv => req \in [Threads -> Request]
BY DEF AppInv, TypeOK

(* A step of one thread touches neither the chains nor another thread. *)
LEMMA ThreadFrame ==
    ASSUME TargetInv, AppInv, NEW t \in Threads, Begin(t) \/ Continue(t) \/ Timeout(t)
    PROVE  /\ UNCHANGED <<chains, hooks>>
           /\ \A k \in Threads \ {t} : script'[k] = script[k] /\ req'[k] = req[k]
<1> USE DEF TargetInv, TargetTypeOK, AppInv, Jobs
<1>1. CASE Begin(t)
  BY <1>1
  DEF Begin, tvars, Move, add_client, toggle_client, set_client_wg_ip, delete_client, add_rule,
      delete_rule, set_full_access_targets, apply_single, apply_all, cleanup_orphaned_chains,
      add_tag, delete_tag, set_tag_members, add_service, delete_service
<1>2. CASE Timeout(t)
  BY <1>2, TargetAssumption DEF Timeout, Kill, Detach
<1>3. CASE FinishRun(t)
  BY <1>3 DEF FinishRun, Return, Move
<1>4. CASE Detect(t)
  BY <1>4 DEF Detect, Launch, Start, Move, tvars
<1>5. CASE ReadRules(t)
  BY <1>5 DEF ReadRules, Launch, Start, Move, tvars
<1>6. CASE ResolveGroup(t)
  BY <1>6 DEF ResolveGroup, Launch, Start, Move, tvars
<1>7. CASE NextOrphan(t)
  BY <1>7 DEF NextOrphan, Launch, Start, Move, tvars
<1>8. CASE Grant(t)
  BY <1>8 DEF Grant, Move, tvars
<1>9. CASE ToggleWrite(t) \/ EraseRule(t) \/ EraseService(t) \/ ReadGrants(t) \/ Reread(t)
           \/ ListChains(t) \/ NextClient(t) \/ EraseClient(t) \/ Readdress(t) \/ Reply(t)
  BY <1>9
  DEF ToggleWrite, Negate, EraseRule, EraseService, ReadGrants, Reread, ListChains, NextClient,
      EraseClient, Readdress, Reply, Move, tvars
<1>10. QED
  BY <1>1, <1>2, <1>3, <1>4, <1>5, <1>6, <1>7, <1>8, <1>9 DEF Continue

-----------------------------------------------------------------------------
(* How requests begin and go on *)

(* What a request is after its first statement. *)
Begun(t) ==
    LET r == req'[t]
    IN  /\ r.at # "idle" /\ r.at \in StepsOf(r.op)
        /\ r.op \in {"cleanup", "delete_service"} => r.cid = 0 /\ r.ips = {}
        /\ ~r.failed
        /\ \/ r.op \notin QueueOps /\ r.at \in {"toggle", "eraseRule", "reread", "eraseService", "list"}
           \/ r.op = "apply_all" /\ r.at = "next" /\ r.queue = Rows
           \/ /\ r.op \in {"apply_single", "delete_client", "set_client_wg_ip", "set_full_access_targets"}
              /\ r.at \in {"detect", "grants"} /\ r.row = clients[r.cid]

LEMMA BeginEffect ==
    ASSUME AppInv, NEW t \in Threads, Begin(t)
    PROVE  /\ req[t].at = "idle" /\ UNCHANGED tvars
           /\ UNCHANGED req \/ (UNCHANGED clients /\ Begun(t))
<1>1. req[t].at = "idle" /\ UNCHANGED tvars
  BY DEF Begin, Ready, add_client, toggle_client, set_client_wg_ip, delete_client, add_rule,
      delete_rule, set_full_access_targets, apply_single, apply_all, cleanup_orphaned_chains,
      add_tag, delete_tag, set_tag_members, add_service, delete_service
<1>2. CASE toggle_client(t)
  <2>1. \E c \in Existing :
           req'[t] = [Idle EXCEPT !.op = "toggle_client", !.at = "toggle",
                                !.cid = c, !.row = clients[c]]
    BY <1>2, ReqType DEF toggle_client, Move
  <2>2. UNCHANGED clients
    BY <1>2 DEF toggle_client, dbvars
  <2>3. QED
    BY <1>1, <2>1, <2>2 DEF Begun, Idle, StepsOf, QueueOps, InHand, RequestSteps
<1>3. CASE add_rule(t)
  <2>1. \E c \in Existing :
           req'[t] = [Idle EXCEPT !.op = "add_rule", !.at = "reread", !.cid = c]
    BY <1>3, ReqType DEF add_rule, Move
  <2>2. UNCHANGED clients
    BY <1>3 DEF add_rule, dbvars
  <2>3. QED
    BY <1>1, <2>1, <2>2 DEF Begun, Idle, StepsOf, QueueOps, InHand, RequestSteps
<1>4. CASE delete_rule(t)
  <2>1. \E c, r :
           req'[t] = [Idle EXCEPT !.op = "delete_rule", !.at = "eraseRule",
                                !.cid = c, !.rid = r]
    BY <1>4, ReqType DEF delete_rule, Move
  <2>2. UNCHANGED clients
    BY <1>4 DEF delete_rule, dbvars
  <2>3. QED
    BY <1>1, <2>1, <2>2 DEF Begun, Idle, StepsOf, QueueOps, InHand, RequestSteps
<1>5. CASE apply_single(t)
  <2>1. \E c \in Existing :
           req'[t] = [Idle EXCEPT !.op = "apply_single", !.at = "detect",
                                !.cid = c, !.row = clients[c]]
    BY <1>5, ReqType DEF apply_single, Move
  <2>2. UNCHANGED clients
    BY <1>5 DEF apply_single, dbvars
  <2>3. QED
    BY <1>1, <2>1, <2>2 DEF Begun, Idle, StepsOf, QueueOps, InHand, RequestSteps
<1>6. CASE apply_all(t)
  <2>1. req'[t] = [Idle EXCEPT !.op = "apply_all", !.at = "next", !.queue = Rows]
    BY <1>6, ReqType DEF apply_all, Move
  <2>2. UNCHANGED clients
    BY <1>6 DEF apply_all, dbvars
  <2>3. QED
    BY <1>1, <2>1, <2>2 DEF Begun, Idle, StepsOf, QueueOps, InHand, RequestSteps
<1>7. CASE delete_client(t)
  <2>1. \E c \in Existing :
           req'[t] = [Idle EXCEPT !.op = "delete_client", !.at = "detect",
                                !.cid = c, !.row = clients[c]]
    BY <1>7, ReqType DEF delete_client, Move
  <2>2. UNCHANGED clients
    BY <1>7 DEF delete_client, dbvars
  <2>3. QED
    BY <1>1, <2>1, <2>2 DEF Begun, Idle, StepsOf, QueueOps, InHand, RequestSteps
<1>8. CASE set_client_wg_ip(t)
  <2>1. \E c \in Existing : \E I :
           req'[t] = [Idle EXCEPT !.op = "set_client_wg_ip", !.at = "detect",
                                !.cid = c, !.row = clients[c], !.ips = I]
    BY <1>8, ReqType DEF set_client_wg_ip, Move
  <2>2. UNCHANGED clients
    BY <1>8 DEF set_client_wg_ip, dbvars
  <2>3. QED
    BY <1>1, <2>1, <2>2 DEF Begun, Idle, StepsOf, QueueOps, InHand, RequestSteps
<1>9. CASE set_full_access_targets(t)
  <2>1. \E c \in Existing : \E D :
           req'[t] = [Idle EXCEPT !.op = "set_full_access_targets", !.at = "grants",
                                !.cid = c, !.row = clients[c], !.picked = D]
    BY <1>9, ReqType DEF set_full_access_targets, Move
  <2>2. UNCHANGED clients
    BY <1>9 DEF set_full_access_targets, dbvars
  <2>3. QED
    BY <1>1, <2>1, <2>2 DEF Begun, Idle, StepsOf, QueueOps, InHand, RequestSteps
<1>10. CASE delete_service(t)
  <2>1. \E s, n :
           req'[t] = [Idle EXCEPT !.op = "delete_service", !.at = "eraseService", !.sid = s, !.rid = n]
    BY <1>10, ReqType DEF delete_service, Move
  <2>2. UNCHANGED clients
    BY <1>10 DEF delete_service, dbvars
  <2>3. QED
    BY <1>1, <2>1, <2>2 DEF Begun, Idle, StepsOf, QueueOps, InHand, RequestSteps
<1>11. CASE cleanup_orphaned_chains(t)
  <2>1. req'[t] = [Idle EXCEPT !.op = "cleanup", !.at = "list", !.queue = Rows]
    BY <1>11, ReqType DEF cleanup_orphaned_chains, Move
  <2>2. UNCHANGED clients
    BY <1>11 DEF cleanup_orphaned_chains, dbvars
  <2>3. QED
    BY <1>1, <2>1, <2>2 DEF Begun, Idle, StepsOf, QueueOps, InHand, RequestSteps
<1>12. CASE add_client(t) \/ add_service(t) \/ add_tag(t) \/ delete_tag(t) \/ set_tag_members(t)
  BY <1>1, <1>12 DEF add_client, add_service, add_tag, delete_tag, set_tag_members
<1>13. QED
  BY <1>2, <1>3, <1>4, <1>5, <1>6, <1>7, <1>8, <1>9, <1>10, <1>11, <1>12 DEF Begin

(* The request of t is still about the same clients, and at another step. *)
Goes(t, step) ==
    LET r == req[t]
        q == req'[t]
    IN  /\ q.at = step /\ q.op = r.op /\ q.cid = r.cid /\ q.row = r.row
        /\ q.queue = r.queue /\ q.ips = r.ips /\ q.picked = r.picked
        /\ step # "grant" => q.grants = r.grants
        /\ r.failed => q.failed

LEMMA RequestIsTyped == AppInv => \A t \in Threads : req[t] \in Request
BY ReqSound

LEMMA QuietEffect ==
    ASSUME AppInv, NEW t \in Threads
    PROVE  /\ ToggleWrite(t) => req[t].at = "toggle" /\ Goes(t, "reread")
           /\ EraseRule(t) => req[t].at = "eraseRule" /\ Goes(t, "reread")
           /\ ReadGrants(t) => req[t].at = "grants" /\ Goes(t, "grant")
           /\ EraseClient(t) => req[t].at = "eraseClient" /\ Goes(t, "reply")
           /\ EraseService(t) => req[t].at = "eraseService" /\ req'[t] = Idle
           /\ Reply(t) => req[t].at \in {"unchanged", "reply"} /\ req'[t] = Idle
<1>1. ASSUME ToggleWrite(t) PROVE req[t].at = "toggle" /\ Goes(t, "reread")
  BY <1>1, ReqType DEF ToggleWrite, Negate, Move, Goes, Request
<1>2. ASSUME EraseRule(t) PROVE req[t].at = "eraseRule" /\ Goes(t, "reread")
  BY <1>2, ReqType DEF EraseRule, Move, Goes, Request
<1>3. ASSUME ReadGrants(t) PROVE req[t].at = "grants" /\ Goes(t, "grant")
  <2>1. req[t].at = "grants" /\ \E G : req'[t] = [req[t] EXCEPT !.grants = G, !.at = "grant"]
    BY <1>3, ReqType DEF ReadGrants, Move
  <2>2. QED
    BY <2>1, RequestIsTyped DEF Goes, Request
<1>4. ASSUME EraseClient(t) PROVE req[t].at = "eraseClient" /\ Goes(t, "reply")
  BY <1>4, ReqType DEF EraseClient, Move, Goes, Request
<1>5. ASSUME EraseService(t) PROVE req[t].at = "eraseService" /\ req'[t] = Idle
  BY <1>5, ReqType DEF EraseService, Move
<1>6. ASSUME Reply(t) PROVE req[t].at \in {"unchanged", "reply"} /\ req'[t] = Idle
  BY <1>6, ReqType DEF Reply, Move
<1>7. QED
  BY <1>1, <1>2, <1>3, <1>4, <1>5, <1>6

LEMMA GrantEffect ==
    ASSUME AppInv, NEW t \in Threads, Grant(t)
    PROVE  /\ req[t].at = "grant" /\ UNCHANGED clients
           /\ Goes(t, "unchanged") \/ (Goes(t, "reply") /\ req'[t].failed) \/ Goes(t, "detect")
<1>1. \/ req'[t] = [req[t] EXCEPT !.at = "unchanged"]
      \/ req'[t] = [req[t] EXCEPT !.failed = TRUE, !.at = "reply"]
      \/ req'[t] = [req[t] EXCEPT !.at = "detect"]
  BY ReqType DEF Grant, Move
<1>2. req[t].at = "grant" /\ UNCHANGED clients
  BY DEF Grant
<1>3. QED
  BY <1>1, <1>2, RequestIsTyped DEF Goes, Request

LEMMA RereadEffect ==
    ASSUME AppInv, NEW t \in Threads, Reread(t)
    PROVE  /\ req[t].at = "reread" /\ UNCHANGED dbvars
           /\ req'[t].at = "detect" /\ req'[t].row = clients[req[t].cid]
           /\ req'[t].op = req[t].op /\ req'[t].cid = req[t].cid /\ req'[t].queue = req[t].queue
           /\ req'[t].ips = req[t].ips /\ req'[t].failed = req[t].failed
<1>1. \E row : row = clients[req[t].cid] /\ req'[t] = [req[t] EXCEPT !.row = row, !.at = "detect"]
  BY ReqType DEF Reread, Move
<1>2. QED
  BY <1>1, RequestIsTyped DEF Reread, Request

LEMMA ListChainsEffect ==
    ASSUME AppInv, NEW t \in Threads, ListChains(t)
    PROVE  /\ req[t].at = "list" /\ UNCHANGED dbvars
           /\ req'[t].op = req[t].op /\ req'[t].cid = req[t].cid /\ req'[t].queue = req[t].queue
           /\ req[t].failed => req'[t].failed
           /\ (req'[t].at = "detect" /\ req'[t].ips \cap Known(t) = {}) \/ Goes(t, "reply")
<1> DEFINE I == {ip \in Ips : chains[ip] # NoChain} \ Known(t)
<1>1. /\ req[t].at = "list" /\ UNCHANGED dbvars
      /\ \/ req'[t] = [req[t] EXCEPT !.ips = I, !.at = "detect"]
         \/ req'[t] = [req[t] EXCEPT !.failed = TRUE, !.at = "reply"]
  BY ReqType DEF ListChains, Move
<1>2. I \cap Known(t) = {}
  OBVIOUS
<1> HIDE DEF I
<1>3. QED
  BY <1>1, <1>2, RequestIsTyped DEF Goes, Request

LEMMA DetectEffect ==
    ASSUME AppInv, NEW t \in Threads, Detect(t)
    PROVE  /\ req[t].at = "detect" /\ UNCHANGED dbvars
           /\ \/ req[t].op = "cleanup" /\ Goes(t, "orphans") /\ UNCHANGED script
              \/ /\ req[t].op # "cleanup" /\ Goes(t, "run")
                 /\ Removing(req[t]) \/ (req[t].row # NoRow /\ ~req[t].row.restricted)
                 /\ \E h : script' = [script EXCEPT ![t] = build_remove_script(req[t].row.ip, h)]
              \/ /\ req[t].op # "cleanup" /\ Goes(t, "read") /\ UNCHANGED script
                 /\ ~Removing(req[t]) /\ req[t].row # NoRow /\ req[t].row.restricted
              \/ /\ req[t].op # "cleanup" /\ Goes(t, "reply") /\ req'[t].failed /\ UNCHANGED script
                 /\ req[t].row = NoRow
<1> DEFINE open == Removing(req[t]) \/ (req[t].row # NoRow /\ ~req[t].row.restricted)
<1>1. PICK h \in detect_hook_chain :
         LET r == [req[t] EXCEPT !.hook = h]
             opened_ == Removing(r) \/ (r.row # NoRow /\ ~r.row.restricted)
         IN  \/ /\ r.op = "cleanup"
                /\ Move(t, [r EXCEPT !.at = "orphans"])
                /\ UNCHANGED tvars
             \/ /\ r.op # "cleanup" /\ opened_
                /\ Launch(t, r, build_remove_script(r.row.ip, h))
             \/ /\ r.op # "cleanup" /\ ~opened_ /\ r.row # NoRow
                /\ Move(t, [r EXCEPT !.at = "read"])
                /\ UNCHANGED tvars
             \/ /\ r.op # "cleanup" /\ r.row = NoRow
                /\ Move(t, [r EXCEPT !.failed = TRUE, !.at = "reply"])
                /\ UNCHANGED tvars
  BY DEF Detect
<1> DEFINE r == [req[t] EXCEPT !.hook = h]
<1>2. /\ r \in Request /\ r.op = req[t].op /\ r.cid = req[t].cid /\ r.row = req[t].row
      /\ r.queue = req[t].queue /\ r.ips = req[t].ips /\ r.failed = req[t].failed
      /\ r.picked = req[t].picked /\ r.grants = req[t].grants
      /\ Removing(r) <=> Removing(req[t])
  BY HookType, RequestIsTyped DEF Request, Removing
<1> HIDE DEF r
<1>3. \/ /\ req[t].op = "cleanup" /\ req'[t] = [r EXCEPT !.at = "orphans"]
         /\ UNCHANGED script
      \/ /\ req[t].op # "cleanup" /\ open
         /\ req'[t] = [r EXCEPT !.at = "run", !.groups = {}, !.targets = {}]
         /\ script' = [script EXCEPT ![t] = build_remove_script(req[t].row.ip, h)]
      \/ /\ req[t].op # "cleanup" /\ ~open /\ req[t].row # NoRow
         /\ req'[t] = [r EXCEPT !.at = "read"] /\ UNCHANGED script
      \/ /\ req[t].op # "cleanup" /\ req'[t] = [r EXCEPT !.failed = TRUE, !.at = "reply"]
         /\ UNCHANGED script /\ req[t].row = NoRow
  BY <1>1, <1>2, ReqType DEF r, Move, Launch, Start, tvars
<1>4. req[t].at = "detect" /\ UNCHANGED dbvars
  BY DEF Detect
<1>5. QED
  BY <1>2, <1>3, <1>4 DEF Goes, Request

LEMMA ReadRulesEffect ==
    ASSUME AppInv, NEW t \in Threads, ReadRules(t)
    PROVE  LET lines == RawLines(req[t].row.id) \ (Groups \X Filters)
               groups == RawLines(req[t].row.id) \cap (Groups \X Filters)
           IN  /\ req[t].at = "read" /\ UNCHANGED dbvars
               /\ \/ /\ groups = {} /\ Goes(t, "run")
                     /\ \E h : script' = [script EXCEPT ![t] = build_apply_script(req[t].row.ip, lines, h)]
                  \/ /\ Goes(t, "resolve") /\ UNCHANGED script
                     /\ req'[t].groups = groups /\ req'[t].targets = lines
<1> DEFINE L == RawLines(req[t].row.id) \ (Groups \X Filters)
           G == RawLines(req[t].row.id) \cap (Groups \X Filters)
           r == [req[t] EXCEPT !.groups = G, !.targets = L]
<1>1. \/ r.groups = {} /\ Launch(t, r, build_apply_script(r.row.ip, r.targets, r.hook))
      \/ r.groups # {} /\ Move(t, [r EXCEPT !.at = "resolve"]) /\ UNCHANGED tvars
  BY DEF ReadRules
<1>2. req[t].at = "read" /\ UNCHANGED dbvars
  BY DEF ReadRules
<1>3. L \subseteq Targets /\ G \subseteq Groups \X Filters
  BY LinesType, AclAssumption
<1> HIDE DEF L, G
<1>4. /\ r \in Request /\ r.groups = G /\ r.targets = L
      /\ r.op = req[t].op /\ r.cid = req[t].cid /\ r.row = req[t].row
      /\ r.queue = req[t].queue /\ r.ips = req[t].ips /\ r.failed = req[t].failed
      /\ r.picked = req[t].picked /\ r.grants = req[t].grants
  <2>1. r \in Request
    BY <1>3, LinesRead, RequestIsTyped
  <2>2. QED
    BY <2>1, RequestIsTyped DEF Request
<1> HIDE DEF r
<1>5. \/ /\ G = {} /\ req'[t] = [r EXCEPT !.at = "run", !.groups = {}, !.targets = {}]
         /\ script' = [script EXCEPT ![t] = build_apply_script(req[t].row.ip, L, r.hook)]
      \/ req'[t] = [r EXCEPT !.at = "resolve"] /\ UNCHANGED script
  BY <1>1, <1>4, ReqType DEF Move, Launch, Start, tvars
<1>6. QED
  BY <1>2, <1>4, <1>5 DEF Goes, Request, L, G

LEMMA ResolveGroupEffect ==
    ASSUME AppInv, NEW t \in Threads, ResolveGroup(t)
    PROVE  /\ req[t].at = "resolve" /\ UNCHANGED dbvars
           /\ \E l \in req[t].groups :
                 LET groups == req[t].groups \ {l}
                     targets == req[t].targets \cup tag_member_ips(l[1], req[t].row.id) \X {l[2]}
                 IN  \/ /\ groups = {} /\ Goes(t, "run")
                        /\ \E h : script' = [script EXCEPT ![t] = build_apply_script(req[t].row.ip, targets, h)]
                     \/ /\ Goes(t, "resolve") /\ UNCHANGED script
                        /\ req'[t].groups = groups /\ req'[t].targets = targets
<1>1. PICK l \in req[t].groups :
         LET r == [req[t] EXCEPT !.groups = @ \ {l},
                                 !.targets = @ \cup tag_member_ips(l[1], req[t].row.id) \X {l[2]}]
         IN  \/ r.groups = {} /\ Launch(t, r, build_apply_script(r.row.ip, r.targets, r.hook))
             \/ r.groups # {} /\ Move(t, r) /\ UNCHANGED tvars
  BY DEF ResolveGroup
<1> DEFINE G == req[t].groups \ {l}
           L == req[t].targets \cup tag_member_ips(l[1], req[t].row.id) \X {l[2]}
           r == [req[t] EXCEPT !.groups = G, !.targets = L]
<1>2. req[t].at = "resolve" /\ UNCHANGED dbvars
  BY DEF ResolveGroup
<1>3. L \subseteq Targets /\ G \subseteq Groups \X Filters
  <2>1. req[t] \in Request
    BY ReqSound
  <2>2. /\ G \subseteq Groups \X Filters
        /\ l \in Groups \X Filters
        /\ req[t].targets \subseteq Targets
    BY <2>1 DEF Request
  <2>3. tag_member_ips(l[1], req[t].row.id) \X {l[2]} \subseteq Targets
    BY <2>2, MembersType, AclAssumption
  <2>4. QED
    BY <2>2, <2>3
<1> HIDE DEF L, G
<1>4. /\ r \in Request /\ r.groups = G /\ r.targets = L /\ r.at = req[t].at
      /\ r.op = req[t].op /\ r.cid = req[t].cid /\ r.row = req[t].row
      /\ r.queue = req[t].queue /\ r.ips = req[t].ips /\ r.failed = req[t].failed
      /\ r.picked = req[t].picked /\ r.grants = req[t].grants
  <2>1. r \in Request
    BY <1>3, LinesRead, RequestIsTyped
  <2>2. QED
    BY <2>1, RequestIsTyped DEF Request
<1>5. \/ r.groups = {} /\ Launch(t, r, build_apply_script(r.row.ip, r.targets, r.hook))
      \/ r.groups # {} /\ Move(t, r) /\ UNCHANGED tvars
  BY <1>1 DEF G, L
<1> HIDE DEF r
<1>6. \/ /\ G = {} /\ req'[t] = [r EXCEPT !.at = "run", !.groups = {}, !.targets = {}]
         /\ script' = [script EXCEPT ![t] = build_apply_script(req[t].row.ip, L, r.hook)]
      \/ req'[t] = r /\ UNCHANGED script
  BY <1>4, <1>5, ReqType DEF Move, Launch, Start, tvars
<1>7. CASE G = {} /\ req'[t] = [r EXCEPT !.at = "run", !.groups = {}, !.targets = {}]
  <2>1. Goes(t, "run")
    BY <1>4, <1>7 DEF Goes, Request
  <2>2. script' = [script EXCEPT ![t] = build_apply_script(req[t].row.ip, L, r.hook)]
    <3>1. req'[t].at = "run"
      BY <2>1 DEF Goes
    <3>2. QED
      BY <1>2, <1>4, <1>6, <3>1
  <2>3. QED
    BY <1>2, <1>7, <2>1, <2>2 DEF G, L
<1>8. CASE req'[t] = r /\ UNCHANGED script
  <2>1. Goes(t, "resolve") /\ req'[t].groups = G /\ req'[t].targets = L
    BY <1>2, <1>4, <1>8 DEF Goes
  <2>2. QED
    BY <1>2, <1>8, <2>1 DEF G, L
<1>9. QED
  BY <1>6, <1>7, <1>8

LEMMA FinishRunEffect ==
    ASSUME AppInv, NEW t \in Threads, FinishRun(t)
    PROVE  /\ req[t].at = "run" /\ Goes(t, AfterRun(req[t])) /\ UNCHANGED dbvars
           /\ script' = [script EXCEPT ![t] = NoScript]
           /\ ~req'[t].failed => At(t, "done") \/ Removing(req[t])
<1> DEFINE f == req[t].failed \/ (~At(t, "done") /\ ~Removing(req[t]))
           step == AfterRun(req[t])
<1>1. /\ req[t].at = "run" /\ UNCHANGED dbvars
      /\ req'[t] = [req[t] EXCEPT !.failed = f, !.at = step]
      /\ script' = [script EXCEPT ![t] = NoScript]
  BY ReqType DEF FinishRun, Return, Move
<1>2. f \in BOOLEAN /\ (~f => At(t, "done") \/ Removing(req[t])) /\ (req[t].failed => f)
  OBVIOUS
<1> HIDE DEF f, step
<1>3. Goes(t, step) /\ req'[t].failed = f
  BY <1>1, <1>2, RequestIsTyped DEF Goes, Request
<1>4. QED
  BY <1>1, <1>2, <1>3 DEF step

LEMMA NextClientEffect ==
    ASSUME AppInv, NEW t \in Threads, NextClient(t)
    PROVE  /\ req[t].at = "next" /\ UNCHANGED <<tvars, dbvars>>
           /\ \/ \E row \in req[t].queue :
                    /\ req'[t].at = "detect" /\ req'[t].row = row
                    /\ req'[t].queue = req[t].queue \ {row}
                    /\ req'[t].op = req[t].op /\ req'[t].cid = req[t].cid /\ req'[t].ips = req[t].ips
                    /\ req'[t].failed = req[t].failed
              \/ req[t].queue = {} /\ Goes(t, "reply")
<1>1. req[t].at = "next" /\ UNCHANGED <<tvars, dbvars>>
  BY DEF NextClient
<1>2. ASSUME NEW row \in req[t].queue,
             req'[t] = [req[t] EXCEPT !.row = row, !.queue = @ \ {row}, !.at = "detect"]
      PROVE  /\ req'[t].at = "detect" /\ req'[t].row = row
             /\ req'[t].queue = req[t].queue \ {row}
             /\ req'[t].op = req[t].op /\ req'[t].cid = req[t].cid /\ req'[t].ips = req[t].ips
             /\ req'[t].failed = req[t].failed
  BY <1>2, RequestIsTyped DEF Request
<1>3. \/ \E row \in req[t].queue :
            req'[t] = [req[t] EXCEPT !.row = row, !.queue = @ \ {row}, !.at = "detect"]
      \/ req[t].queue = {} /\ req'[t] = [req[t] EXCEPT !.at = "reply"]
  BY ReqType DEF NextClient, Move
<1>4. req'[t] = [req[t] EXCEPT !.at = "reply"] => Goes(t, "reply")
  BY RequestIsTyped DEF Goes, Request
<1>5. QED
  BY <1>1, <1>2, <1>3, <1>4

LEMMA NextOrphanEffect ==
    ASSUME AppInv, NEW t \in Threads, NextOrphan(t)
    PROVE  /\ req[t].at = "orphans" /\ UNCHANGED dbvars
           /\ \/ \E ip \in req[t].ips :
                    /\ req'[t].at = "run" /\ req'[t].ips = req[t].ips \ {ip}
                    /\ req'[t].op = req[t].op /\ req'[t].cid = req[t].cid
                    /\ req'[t].queue = req[t].queue /\ req'[t].failed = req[t].failed
                    /\ \E h : script' = [script EXCEPT ![t] = build_remove_script(ip, h)]
              \/ Goes(t, "reply") /\ UNCHANGED script
<1>1. req[t].at = "orphans" /\ UNCHANGED dbvars
  BY DEF NextOrphan
<1>2. ASSUME NEW ip \in req[t].ips,
             Launch(t, [req[t] EXCEPT !.ips = @ \ {ip}], build_remove_script(ip, req[t].hook))
      PROVE  /\ req'[t].at = "run" /\ req'[t].ips = req[t].ips \ {ip}
             /\ req'[t].op = req[t].op /\ req'[t].cid = req[t].cid
             /\ req'[t].queue = req[t].queue /\ req'[t].failed = req[t].failed
             /\ \E h : script' = [script EXCEPT ![t] = build_remove_script(ip, h)]
  <2> DEFINE I == req[t].ips \ {ip}
             r == [req[t] EXCEPT !.ips = I]
  <2>1. I \subseteq Ips
    BY RequestIsTyped DEF Request
  <2> HIDE DEF I
  <2>2. /\ r \in Request /\ r.ips = I /\ r.op = req[t].op /\ r.cid = req[t].cid
        /\ r.queue = req[t].queue /\ r.failed = req[t].failed
    BY <2>1, RequestIsTyped DEF Request
  <2>3. Launch(t, r, build_remove_script(ip, req[t].hook))
    BY <1>2 DEF I
  <2> HIDE DEF r
  <2>4. /\ req'[t] = [r EXCEPT !.at = "run", !.groups = {}, !.targets = {}]
        /\ script' = [script EXCEPT ![t] = build_remove_script(ip, req[t].hook)]
    BY <2>3, ReqType DEF Launch, Start, Move
  <2>5. QED
    BY <2>2, <2>4 DEF Request, I
<1>3. \/ \E ip \in req[t].ips :
            Launch(t, [req[t] EXCEPT !.ips = @ \ {ip}], build_remove_script(ip, req[t].hook))
      \/ req'[t] = [req[t] EXCEPT !.at = "reply"] /\ UNCHANGED script
  BY ReqType DEF NextOrphan, Move, tvars
<1>4. req'[t] = [req[t] EXCEPT !.at = "reply"] => Goes(t, "reply")
  BY RequestIsTyped DEF Goes, Request
<1>5. QED
  BY <1>1, <1>2, <1>3, <1>4

LEMMA ReaddressEffect ==
    ASSUME AppInv, NEW t \in Threads, Readdress(t)
    PROVE  /\ req[t].at = "readdress"
           /\ req'[t].op = req[t].op /\ req'[t].cid = req[t].cid
           /\ req'[t].at = "reread" \/ (req'[t].at = "reply" /\ req'[t].failed)
           /\ req[t].failed => req'[t].failed
<1>1. /\ req[t].at = "readdress"
      /\ \/ req'[t] = [req[t] EXCEPT !.failed = TRUE, !.at = "reply"]
         \/ \E I : req'[t] = [req[t] EXCEPT !.ips = I, !.at = "reread"]
  BY ReqType DEF Readdress, Move
<1>2. QED
  BY <1>1, RequestIsTyped DEF Request

(* A request stays the request it is until it is answered. *)
LEMMA ContinueKeeps ==
    ASSUME AppInv, NEW t \in Threads, Continue(t)
    PROVE  \/ Reply(t) \/ EraseService(t)
           \/ /\ req'[t].op = req[t].op /\ req'[t].cid = req[t].cid
              /\ req'[t].at # "idle"
              /\ req[t].failed => req'[t].failed
<1> DEFINE Stays == /\ req'[t].op = req[t].op /\ req'[t].cid = req[t].cid
                    /\ req'[t].at # "idle"
                    /\ req[t].failed => req'[t].failed
<1>1. ASSUME NEW step \in RequestSteps \ {"idle"}, Goes(t, step) PROVE Stays
  BY <1>1 DEF Goes
<1>2. AfterRun(req[t]) \in RequestSteps \ {"idle"}
  BY DEF AfterRun, RequestSteps
<1>3. {"reread", "grant", "reply", "unchanged", "detect", "orphans", "run", "read", "resolve"}
         \subseteq RequestSteps \ {"idle"}
  BY DEF RequestSteps
<1>4. CASE ToggleWrite(t) \/ EraseRule(t) \/ ReadGrants(t) \/ EraseClient(t)
  BY <1>1, <1>3, <1>4, QuietEffect
<1>5. CASE Grant(t)
  BY <1>1, <1>3, <1>5, GrantEffect
<1>6. CASE Reread(t)
  BY <1>6, RereadEffect
<1>7. CASE ListChains(t)
  BY <1>1, <1>3, <1>7, ListChainsEffect
<1>8. CASE Detect(t)
  BY <1>1, <1>3, <1>8, DetectEffect
<1>9. CASE ReadRules(t)
  BY <1>1, <1>3, <1>9, ReadRulesEffect
<1>10. CASE ResolveGroup(t)
  BY <1>1, <1>3, <1>10, ResolveGroupEffect
<1>11. CASE FinishRun(t)
  BY <1>1, <1>2, <1>11, FinishRunEffect
<1>12. CASE NextClient(t)
  BY <1>1, <1>3, <1>12, NextClientEffect
<1>13. CASE NextOrphan(t)
  BY <1>1, <1>3, <1>13, NextOrphanEffect
<1>14. CASE Readdress(t)
  BY <1>14, ReaddressEffect
<1>15. QED
  BY <1>4, <1>5, <1>6, <1>7, <1>8, <1>9, <1>10, <1>11, <1>12, <1>13, <1>14 DEF Continue

-----------------------------------------------------------------------------
(* One address per client *)

LEMMA ClientsWriters ==
    ASSUME [Next]_vars
    PROVE  \/ UNCHANGED clients
           \/ \E t \in Threads : add_client(t) \/ ToggleWrite(t) \/ EraseClient(t) \/ Readdress(t)
<1>1. ASSUME NEW t \in Threads, Begin(t)
      PROVE  add_client(t) \/ UNCHANGED clients
  BY <1>1
  DEF Begin, dbvars, toggle_client, set_client_wg_ip, delete_client, add_rule, delete_rule,
      set_full_access_targets, apply_single, apply_all, cleanup_orphaned_chains, add_tag,
      delete_tag, set_tag_members, add_service, delete_service
<1>2. ASSUME NEW t \in Threads, Continue(t)
      PROVE  ToggleWrite(t) \/ EraseClient(t) \/ Readdress(t) \/ UNCHANGED clients
  BY <1>2
  DEF Continue, dbvars, EraseRule, EraseService, ReadGrants, Grant, Reread, ListChains, Detect,
      ReadRules, ResolveGroup, FinishRun, Return, NextClient, NextOrphan, Reply
<1>3. ASSUME NEW t \in Threads, Timeout(t) PROVE UNCHANGED clients
  BY <1>3 DEF Timeout, dbvars
<1>4. CASE ServerStep \/ Restart \/ ServerReboot \/ UNCHANGED vars
  BY <1>4 DEF ServerStep, Restart, ServerReboot, vars, dbvars
<1>5. QED
  BY <1>1, <1>2, <1>3, <1>4 DEF Next

LEMMA UniqueStep ==
    ASSUME AppInv, UniqueAddresses, [Next]_vars
    PROVE  UniqueAddresses'
<1> USE TablesTyped DEF TablesTypeOK
<1>1. CASE UNCHANGED clients
  BY <1>1 DEF UniqueAddresses, Existing
<1>2. ASSUME NEW t \in Threads, add_client(t) PROVE UniqueAddresses'
  <2>1. PICK ip \in Ips \ {row.ip : row \in Rows}, b \in BOOLEAN :
           clients' = [clients EXCEPT ![autoinc.clients + 1] =
                          [id |-> autoinc.clients + 1, ip |-> ip, restricted |-> b]]
    BY <1>2 DEF add_client
  <2>2. \A c \in Existing : clients[c].ip # ip
    BY <2>1 DEF Rows
  <2>3. ASSUME NEW c \in Existing'
        PROVE  \/ c = autoinc.clients + 1 /\ clients'[c].ip = ip
               \/ c \in Existing /\ clients'[c] = clients[c]
    BY <2>1, <2>3 DEF Existing
  <2>4. QED
    BY <2>2, <2>3 DEF UniqueAddresses
<1>3. ASSUME NEW t \in Threads, ToggleWrite(t) PROVE UniqueAddresses'
  <2>1. \A c \in Existing' : c \in Existing /\ clients'[c].ip = clients[c].ip
    BY <1>3, AclAssumption DEF ToggleWrite, Negate, Existing, Row
  <2>2. QED
    BY <2>1 DEF UniqueAddresses
<1>4. ASSUME NEW t \in Threads, EraseClient(t) PROVE UniqueAddresses'
  <2>1. \A c \in Existing' : c \in Existing /\ clients'[c] = clients[c]
    BY <1>4 DEF EraseClient, Existing
  <2>2. QED
    BY <2>1 DEF UniqueAddresses
<1>5. ASSUME NEW t \in Threads, Readdress(t) PROVE UniqueAddresses'
  <2> DEFINE n == req[t].cid
  <2>1. CASE n \notin Existing
    <3>1. UNCHANGED clients
      BY <1>5, <2>1 DEF Readdress
    <3>2. QED
      BY <3>1, <1>1
  <2>2. CASE n \in Existing
    <3>1. UNCHANGED clients \/ \E ip \in req[t].ips : /\ clients' = [clients EXCEPT ![n].ip = ip]
                                                    /\ \A row \in Rows : row.id = n \/ row.ip # ip
      <4>1. CASE UNCHANGED clients
        BY <4>1
      <4>2. CASE /\ \A row \in Rows : row.id = n \/ row.ip \notin req[t].ips
                 /\ \E ip \in req[t].ips : clients' = IF n \in Existing THEN [clients EXCEPT ![n].ip = ip] ELSE clients
        <5>1. PICK ip \in req[t].ips : clients' = [clients EXCEPT ![n].ip = ip]
          BY <2>2, <4>2
        <5>2. \A row \in Rows : row.id = n \/ row.ip # ip
          BY <4>2, <5>1
        <5>3. QED
          BY <5>1, <5>2
      <4>3. QED
        BY <1>5, <2>2, <4>1, <4>2, Zenon DEF Readdress
    <3>2. ASSUME NEW ip \in req[t].ips, clients' = [clients EXCEPT ![n].ip = ip],
                 \A row \in Rows : row.id = n \/ row.ip # ip
          PROVE  UniqueAddresses'
      <4>1. \A c \in Existing : c = n \/ clients[c].ip # ip
        BY <3>2 DEF Rows
      <4>2. \A c \in Existing' : c \in Existing /\ clients'[c].ip = IF c = n THEN ip ELSE clients[c].ip
        BY <2>2, <3>2 DEF Existing, Row
      <4>3. QED
        BY <4>1, <4>2 DEF UniqueAddresses
    <3>3. QED
      BY <3>1, <3>2, <1>1
  <2>3. QED
    BY <2>1, <2>2
<1>6. QED
  BY <1>1, <1>2, <1>3, <1>4, <1>5, ClientsWriters

-----------------------------------------------------------------------------
(* Where a request can be *)

LEMMA StepsAre ==
    ASSUME NEW op, NEW step
    PROVE  step \in StepsOf(op) <=>
             \/ op \in QueueOps /\ step \in {"detect", "read", "resolve", "run", "next", "reply"}
             \/ op = "cleanup" /\ step \in {"list", "detect", "run", "orphans", "reply"}
             \/ op = "delete_service" /\ step = "eraseService"
             \/ /\ op \notin QueueOps \cup {"cleanup", "delete_service"}
                /\ step \in {"idle", "toggle", "eraseRule", "grants", "grant", "reread", "detect", "read",
                            "resolve", "run", "eraseClient", "readdress", "unchanged", "reply"}
BY DEF StepsOf, QueueOps, InHand, RequestSteps

PhaseOf(t) ==
    /\ req[t].at \in StepsOf(req[t].op)
    /\ req[t].at = "idle" => req[t] = Idle
    /\ req[t].op \in {"cleanup", "delete_service"} => req[t].cid = 0

LEMMA PhaseContinue ==
    ASSUME AppInv, PhaseInv, NEW t \in Threads, Continue(t)
    PROVE  PhaseOf(t)'
<1>1. /\ req[t].at \in StepsOf(req[t].op)
      /\ req[t].op \in {"cleanup", "delete_service"} => req[t].cid = 0
  BY DEF PhaseInv
<1>2. CASE req'[t] = Idle
  BY <1>2, StepsAre DEF PhaseOf, Idle, QueueOps
<1>3. CASE Reply(t) \/ EraseService(t)
  BY <1>2, <1>3, QuietEffect
<1>4. CASE ~Reply(t) /\ ~EraseService(t)
  <2>1. req'[t].op = req[t].op /\ req'[t].cid = req[t].cid /\ req'[t].at # "idle"
    BY <1>4, ContinueKeeps
  <2>2. ASSUME NEW op, op = req[t].op,
               NEW step, step = req[t].at,
               NEW next, next = req'[t].at
        PROVE  next \in StepsOf(op)
    <3>1. step \in StepsOf(op)
      BY <1>1, <2>2
    <3> USE <2>2 DEF Goes
    <3>2. CASE ToggleWrite(t) \/ EraseRule(t)
      BY <3>1, <3>2, QuietEffect, StepsAre
    <3>3. CASE ReadGrants(t) \/ EraseClient(t)
      BY <3>1, <3>3, QuietEffect, StepsAre
    <3>4. CASE Grant(t)
      BY <3>1, <3>4, GrantEffect, StepsAre
    <3>5. CASE Reread(t)
      BY <3>1, <3>5, RereadEffect, StepsAre
    <3>6. CASE ListChains(t)
      BY <3>1, <3>6, ListChainsEffect, StepsAre
    <3>7. CASE Detect(t)
      BY <3>1, <3>7, DetectEffect, StepsAre
    <3>8. CASE ReadRules(t)
      BY <3>1, <3>8, ReadRulesEffect, StepsAre
    <3>9. CASE ResolveGroup(t)
      BY <3>1, <3>9, ResolveGroupEffect, StepsAre
    <3>10. CASE FinishRun(t)
      <4>1. step = "run" /\ next = AfterRun(req[t])
        BY <3>10, FinishRunEffect
      <4>2. QED
        BY <3>1, <4>1, StepsAre DEF AfterRun, Removing, QueueOps
    <3>11. CASE NextClient(t)
      BY <3>1, <3>11, NextClientEffect, StepsAre
    <3>12. CASE NextOrphan(t)
      BY <3>1, <3>12, NextOrphanEffect, StepsAre
    <3>13. CASE Readdress(t)
      BY <3>1, <3>13, ReaddressEffect, StepsAre
    <3>14. QED
      BY <1>4, <3>2, <3>3, <3>4, <3>5, <3>6, <3>7, <3>8, <3>9, <3>10, <3>11, <3>12, <3>13 DEF Continue
  <2>3. QED
    BY <1>1, <2>1, <2>2 DEF PhaseOf
<1>5. QED
  BY <1>3, <1>4

(* After a restart a thread is idle, or on the start-up. *)
LEMMA StartAppEffect ==
    ASSUME StartApp, NEW t \in Threads
    PROVE  /\ t \notin disturbed'
           /\ req'[t] = Idle \/ (LocalMode /\ req'[t] = StartupRequest)
BY DEF StartApp

LEMMA IdleIs ==
    Idle.op = "none" /\ Idle.at = "idle" /\ Idle.cid = 0 /\ ~Idle.failed
BY DEF Idle

LEMMA StartupIs ==
    /\ StartupRequest.op = "startup" /\ StartupRequest.at = "next"
    /\ StartupRequest.queue = Rows /\ ~StartupRequest.failed
BY DEF StartupRequest, Idle

LEMMA StartAppPhase ==
    ASSUME StartApp, NEW t \in Threads
    PROVE  PhaseOf(t)'
<1>1. CASE req'[t] = Idle
  BY <1>1, StepsAre DEF PhaseOf, Idle, QueueOps
<1>2. CASE req'[t] = StartupRequest
  <2>1. req'[t].op = "startup" /\ req'[t].at = "next"
    BY <1>2, StartupIs
  <2>2. QED
    BY <2>1, StepsAre DEF PhaseOf, QueueOps
<1>3. QED
  BY <1>1, <1>2, StartAppEffect

LEMMA PhaseStep ==
    ASSUME TargetInv, AppInv, PhaseInv, [Next]_vars
    PROVE  PhaseInv'
<1>1. \A t \in Threads : PhaseOf(t)
  BY DEF PhaseInv, PhaseOf
<1>2. \A t \in Threads : req'[t] = req[t] => PhaseOf(t)'
  BY <1>1 DEF PhaseOf
<1>3. ASSUME NEW t \in Threads, Begin(t) PROVE PhaseOf(t)'
  BY <1>2, <1>3, BeginEffect DEF Begun, PhaseOf
<1>4. ASSUME NEW t \in Threads, Begin(t) \/ Continue(t) \/ Timeout(t)
      PROVE  \A k \in Threads : PhaseOf(k)'
  BY <1>2, <1>3, <1>4, PhaseContinue, ThreadFrame DEF Timeout
<1>5. ASSUME ServerStep \/ Restart \/ ServerReboot \/ UNCHANGED vars
      PROVE  StartApp \/ UNCHANGED req
  BY <1>5 DEF ServerStep, Restart, ServerReboot, vars
<1>6. \A k \in Threads : PhaseOf(k)'
  BY <1>2, <1>4, <1>5, StartAppPhase DEF Next
<1>7. QED
  BY <1>6 DEF PhaseInv, PhaseOf

-----------------------------------------------------------------------------
(* Whose scripts are running *)

OwnsScript(t) ==
    /\ script[t] # NoScript =>
          /\ req[t].at = "run"
          /\ req[t].op # "cleanup" => req[t].row # NoRow /\ script[t].ip = req[t].row.ip
    /\ req[t].op = "cleanup" =>
          /\ req[t].ips \cap Known(t) = {}
          /\ \A ip \in Known(t) : ~On(t, ip)

LEMMA Launched ==
    ASSUME TargetInv, NEW t \in Threads, NEW s, script' = [script EXCEPT ![t] = s]
    PROVE  script'[t] = s
BY DEF TargetInv, TargetTypeOK, Jobs

LEMMA LaunchedRemove ==
    ASSUME TargetInv, NEW t \in Threads, NEW ip, NEW h,
           script' = [script EXCEPT ![t] = build_remove_script(ip, h)]
    PROVE  script'[t].ip = ip /\ script'[t].at = "unhook"
<1>1. script'[t] = build_remove_script(ip, h)
  BY Launched
<1>2. QED
  BY <1>1 DEF build_remove_script

LEMMA LaunchedApply ==
    ASSUME TargetInv, NEW t \in Threads, NEW ip, NEW P, NEW h,
           script' = [script EXCEPT ![t] = build_apply_script(ip, P, h)]
    PROVE  script'[t].ip = ip /\ script'[t].at = "new" /\ script'[t].todo = P
<1>1. script'[t] = build_apply_script(ip, P, h)
  BY Launched
<1>2. QED
  BY <1>1 DEF build_apply_script

(* Where a thread has no script, only its list of orphans matters. *)
LEMMA OwnsNothing ==
    ASSUME NEW t, script'[t] = NoScript,
           req'[t].op = "cleanup" => req'[t].ips \cap Known(t)' = {}
    PROVE  OwnsScript(t)'
BY DEF OwnsScript, On

LEMMA KnownFrame ==
    ASSUME NEW t, req'[t].queue = req[t].queue
    PROVE  Known(t)' = Known(t)
BY DEF Known

LEMMA OwnsGoes ==
    ASSUME NEW t, OwnsScript(t), NEW step, Goes(t, step), script'[t] = NoScript
    PROVE  OwnsScript(t)'
BY OwnsNothing, KnownFrame DEF OwnsScript, Goes

LEMMA OwnsContinue ==
    ASSUME TargetInv, AppInv, PhaseInv, NEW t \in Threads, OwnsScript(t), Continue(t)
    PROVE  OwnsScript(t)'
<1> USE DEF Jobs
<1>1. req[t].at # "run" => script[t] = NoScript
  BY DEF OwnsScript
<1>2. ASSUME req'[t] = Idle PROVE req'[t].op # "cleanup"
  BY <1>2 DEF Idle
<1>3. CASE Reply(t) \/ EraseService(t)
  <2>1. UNCHANGED script /\ req[t].at # "run"
    BY <1>3, QuietEffect DEF Reply, EraseService, tvars
  <2>2. QED
    BY <1>1, <1>2, <1>3, <2>1, QuietEffect, OwnsNothing
<1>4. CASE ToggleWrite(t) \/ EraseRule(t) \/ ReadGrants(t) \/ EraseClient(t)
  <2>1. UNCHANGED script
    BY <1>4 DEF ToggleWrite, Negate, EraseRule, ReadGrants, EraseClient, tvars
  <2>2. QED
    BY <1>1, <1>4, <2>1, QuietEffect, OwnsGoes
<1>5. CASE Grant(t)
  <2>1. UNCHANGED script
    BY <1>5 DEF Grant, tvars
  <2>2. QED
    BY <1>1, <1>5, <2>1, GrantEffect, OwnsGoes
<1>6. CASE Reread(t)
  <2>1. UNCHANGED script
    BY <1>6 DEF Reread, tvars
  <2>2. QED
    BY <1>1, <1>6, <2>1, RereadEffect, OwnsNothing, KnownFrame DEF OwnsScript
<1>7. CASE ListChains(t)
  <2>1. UNCHANGED script
    BY <1>7 DEF ListChains, tvars
  <2>2. QED
    BY <1>1, <1>7, <2>1, ListChainsEffect, OwnsNothing, OwnsGoes, KnownFrame
<1>8. CASE Detect(t)
  <2>1. CASE /\ req[t].op # "cleanup" /\ Goes(t, "run")
             /\ Removing(req[t]) \/ (req[t].row # NoRow /\ ~req[t].row.restricted)
             /\ \E h : script' = [script EXCEPT ![t] = build_remove_script(req[t].row.ip, h)]
    <3>1. script'[t].ip = req[t].row.ip
      BY <2>1, LaunchedRemove
    <3>2. req[t].row # NoRow
      BY <1>8, <2>1, ReqSound, DetectEffect DEF RequestOK
    <3>3. QED
      BY <2>1, <3>1, <3>2 DEF Goes, OwnsScript
  <2>2. QED
    BY <1>1, <1>8, <2>1, DetectEffect, OwnsGoes
<1>9. ASSUME req[t].at \in {"read", "resolve"}, Goes(t, "run"),
             \E P, h : script' = [script EXCEPT ![t] = build_apply_script(req[t].row.ip, P, h)]
      PROVE  OwnsScript(t)'
  <2>1. PICK P, h : script' = [script EXCEPT ![t] = build_apply_script(req[t].row.ip, P, h)]
    BY <1>9
  <2>2. script'[t].ip = req[t].row.ip
    BY <2>1, LaunchedApply
  <2>3. req[t].row # NoRow /\ req[t].op # "cleanup"
    BY <1>9, ReqSound, StepsAre DEF RequestOK, PhaseInv, QueueOps
  <2>4. QED
    BY <1>9, <2>2, <2>3 DEF Goes, OwnsScript
<1>10. CASE ReadRules(t)
  BY <1>1, <1>9, <1>10, ReadRulesEffect, OwnsGoes
<1>11. CASE ResolveGroup(t)
  BY <1>1, <1>9, <1>11, ResolveGroupEffect, OwnsGoes
<1>12. CASE FinishRun(t)
  BY <1>12, FinishRunEffect, Launched, OwnsGoes
<1>13. CASE NextClient(t)
  <2>1. UNCHANGED script /\ script[t] = NoScript
    BY <1>1, <1>13, NextClientEffect DEF tvars
  <2>2. req[t].op # "cleanup"
    BY <1>13, NextClientEffect, StepsAre DEF PhaseInv, QueueOps
  <2>3. QED
    BY <1>13, <2>1, <2>2, NextClientEffect, OwnsNothing DEF Goes
<1>14. CASE NextOrphan(t)
  <2>1. req[t].op = "cleanup"
    BY <1>14, NextOrphanEffect, StepsAre DEF PhaseInv, QueueOps
  <2>2. CASE UNCHANGED script /\ Goes(t, "reply")
    BY <1>1, <1>14, <2>2, NextOrphanEffect, OwnsGoes
  <2>3. ASSUME NEW ip \in req[t].ips, NEW h,
               req'[t].at = "run", req'[t].ips = req[t].ips \ {ip}, req'[t].op = req[t].op,
               req'[t].queue = req[t].queue,
               script' = [script EXCEPT ![t] = build_remove_script(ip, h)]
        PROVE  OwnsScript(t)'
    <3>1. script'[t].ip = ip /\ Known(t)' = Known(t)
      BY <2>3, LaunchedRemove, KnownFrame
    <3>2. ip \notin Known(t) /\ req'[t].ips \cap Known(t) = {}
      BY <2>1, <2>3 DEF OwnsScript
    <3>3. QED
      BY <2>1, <2>3, <3>1, <3>2 DEF OwnsScript, On
  <2>4. QED
    BY <1>14, <2>2, <2>3, NextOrphanEffect
<1>15. CASE Readdress(t)
  <2>1. UNCHANGED script /\ req[t].op = "set_client_wg_ip"
    BY <1>15, ReqSound DEF Readdress, tvars, RequestOK
  <2>2. QED
    BY <1>1, <1>15, <2>1, ReaddressEffect, OwnsNothing
<1>16. QED
  BY <1>3, <1>4, <1>5, <1>6, <1>7, <1>8, <1>10, <1>11, <1>12, <1>13, <1>14, <1>15 DEF Continue

LEMMA OwnsServer ==
    ASSUME TargetInv, NEW t \in Threads, OwnsScript(t), UNCHANGED req,
           script'[t] = script[t] \/ script'[t] = NoScript \/ Command(t)
    PROVE  OwnsScript(t)'
<1> USE DEF Jobs
<1>1. Known(t)' = Known(t)
  BY DEF Known
<1>2. CASE script'[t] = NoScript
  BY <1>1, <1>2, OwnsNothing DEF OwnsScript
<1>3. CASE Command(t) \/ script'[t] = script[t]
  <2>1. /\ script'[t] # NoScript => script[t] # NoScript /\ script'[t].ip = script[t].ip
        /\ \A ip : On(t, ip)' => On(t, ip)
    BY <1>3, CommandScripts DEF On
  <2>2. QED
    BY <1>1, <2>1 DEF OwnsScript
<1>4. QED
  BY <1>2, <1>3

(* What the server does to the scripts of the threads. *)
LEMMA ServerFrame ==
    ASSUME TargetInv, ServerStep
    PROVE  \/ \E j \in Jobs : Command(j)
           \/ UNCHANGED <<chains, hooks>> /\ \A t \in Threads : script'[t] = script[t]
BY TargetAssumption DEF ServerStep, Collect, Jobs, TargetInv, TargetTypeOK

LEMMA NoScriptsLeft ==
    ASSUME TargetInv, Restart \/ ServerReboot, NEW t \in Threads
    PROVE  script'[t] = NoScript
<1> USE TargetAssumption DEF TargetInv, TargetTypeOK, Jobs
<1>1. CASE ServerReboot
  BY <1>1 DEF ServerReboot, Reboot
<1>2. CASE Restart
  <2>1. CASE Kill(Threads)
    BY <2>1 DEF Kill
  <2>2. CASE \E o \in Threads, s \in Strays :
                Detach(o, s) /\ \A k \in Threads \ {o} : script[k] = NoScript
    BY <2>2 DEF Detach
  <2>3. QED
    BY <1>2, <2>1, <2>2 DEF Restart
<1>3. QED
  BY <1>1, <1>2

LEMMA OwnersStep ==
    ASSUME TargetInv, AppInv, PhaseInv, OwnersInv, [Next]_vars
    PROVE  OwnersInv'
<1> USE DEF Jobs
<1>1. \A t \in Threads : OwnsScript(t)
  BY DEF OwnersInv, OwnsScript
<1>2. ASSUME NEW t \in Threads, req'[t] = req[t], script'[t] = script[t] PROVE OwnsScript(t)'
  BY <1>1, <1>2 DEF OwnsScript, Known, On
<1>3. ASSUME NEW t \in Threads, Begin(t) PROVE OwnsScript(t)'
  <2>1. UNCHANGED script /\ script[t] = NoScript
    BY <1>1, <1>3, BeginEffect DEF tvars, OwnsScript
  <2>2. QED
    BY <1>2, <1>3, <2>1, BeginEffect, OwnsNothing DEF Begun
<1>4. ASSUME NEW t \in Threads, Timeout(t) PROVE OwnsScript(t)'
  <2>1. script'[t] = NoScript /\ UNCHANGED req
    BY <1>4, TargetAssumption DEF Timeout, Kill, Detach, TargetInv, TargetTypeOK
  <2>2. QED
    BY <1>1, <2>1, OwnsServer
<1>5. ASSUME NEW t \in Threads, Begin(t) \/ Continue(t) \/ Timeout(t)
      PROVE  \A k \in Threads : OwnsScript(k)'
  <2>1. OwnsScript(t)'
    BY <1>1, <1>3, <1>4, <1>5, OwnsContinue
  <2>2. \A k \in Threads \ {t} : OwnsScript(k)'
    BY <1>2, <1>5, ThreadFrame
  <2>3. QED
    BY <2>1, <2>2
<1>6. ASSUME ServerStep, NEW t \in Threads PROVE OwnsScript(t)'
  <2>1. UNCHANGED req
    BY <1>6 DEF ServerStep
  <2>2. script'[t] = script[t] \/ Command(t)
    BY <1>6, ServerFrame, CommandScripts
  <2>3. QED
    BY <1>1, <2>1, <2>2, OwnsServer
<1>7. ASSUME Restart \/ ServerReboot, NEW t \in Threads PROVE OwnsScript(t)'
  <2>1. script'[t] = NoScript
    BY <1>7, NoScriptsLeft
  <2>2. CASE UNCHANGED req
    BY <1>1, <2>1, <2>2, OwnsServer
  <2>3. CASE StartApp
    <3>1. req'[t].op # "cleanup"
      BY <2>3, StartAppEffect, IdleIs, StartupIs
    <3>2. QED
      BY <2>1, <3>1, OwnsNothing
  <2>4. QED
    BY <1>7, <2>2, <2>3 DEF Restart, ServerReboot
<1>8. ASSUME UNCHANGED vars PROVE \A t \in Threads : OwnsScript(t)'
  BY <1>2, <1>8 DEF vars, tvars
<1>9. \A t \in Threads : OwnsScript(t)'
  BY <1>5, <1>6, <1>7, <1>8 DEF Next
<1>10. QED
  BY <1>9 DEF OwnersInv, OwnsScript

-----------------------------------------------------------------------------
(* A request that nobody meddles with stays on its course *)

CourseOf(t) ==
    t \notin disturbed /\ ~req[t].failed =>
        RowsCurrent(t) /\ \A c \in Concerned(t) : OnCourse(t, c)

LEMMA WatchKeeps ==
    ASSUME Watch, NEW t \in Threads, t \notin disturbed', req'[t].at # "idle"
    PROVE  /\ t \notin disturbed
           /\ UNCHANGED req[t] => \A c \in About(t) : ~Changed(c)
           /\ Alone(t)'
BY DEF Watch

LEMMA SameConcern ==
    ASSUME NEW t, req'[t].op = req[t].op, req'[t].cid = req[t].cid
    PROVE  /\ About(t)' = About(t)
           /\ UNCHANGED clients => Concerned(t)' = Concerned(t)
BY DEF About, Concerned, Existing

LEMMA ServesFrame ==
    ASSUME NEW t, NEW c, ~Changed(c), script'[t] = script[t], NEW ip, ip = script[t].ip, Kept(ip),
           ScriptServes(t, c)
    PROVE  ScriptServes(t, c)'
<1>1. clients'[c] = clients[c] /\ Policy(c)' = Policy(c)
  BY NotChanged
<1>2. chains'[ip] = chains[ip] /\ (Hooked(script[t].ip)' <=> Hooked(script[t].ip))
  <2>1. Hooked(script[t].ip)' <=> Hooked(ip)'
    BY DEF Hooked, Holds
  <2>2. QED
    BY <2>1 DEF Kept
<1>3. Hooking(t)' <=> Hooking(t)
  BY DEF Hooking, At
<1>4. CASE clients[c].restricted
  <2>1. Applies(t, Policy(c))
    BY <1>4 DEF ScriptServes
  <2>2. Applies(t, Policy(c))'
    BY <1>1, <1>2, <1>3, <2>1 DEF Applies
  <2>3. QED
    BY <1>1, <1>4, <2>2 DEF ScriptServes
<1>5. CASE ~clients[c].restricted
  BY <1>1, <1>2, <1>5 DEF ScriptServes, Clears
<1>6. QED
  BY <1>4, <1>5

LEMMA ResolvedFrame ==
    ASSUME NEW t, NEW c, ~Changed(c), req'[t] = req[t], req[t].row.id = c,
           req[t].groups \subseteq RawLines(c) \cap (Groups \X Filters)
    PROVE  Resolved(t)' = Resolved(t)
<1>1. \A l \in req[t].groups : tag_member_ips(l[1], c)' = tag_member_ips(l[1], c)
  BY NotChanged
<1>2. {tag_member_ips(l[1], c)' \X {l[2]} : l \in req[t].groups}
         = {tag_member_ips(l[1], c) \X {l[2]} : l \in req[t].groups}
  BY <1>1
<1>3. QED
  BY <1>2 DEF Resolved

LEMMA MineId ==
    ASSUME AppInv, NEW c \in Existing, NEW row, row = clients[c]
    PROVE  row.id = c /\ row.ip \in Ips /\ row # NoRow
BY ExistingType, TablesTyped DEF TablesTypeOK, Existing, Row

(* Nothing has been done to t, to what it reads, or to its clients. *)
LEMMA OnCourseFrame ==
    ASSUME TargetInv, AppInv, OwnersInv, PhaseInv, NEW t \in Threads, NEW c \in Concerned(t),
           OnCourse(t, c), req'[t] = req[t], ~Changed(c),
           script'[t] \in {script[t], NoScript},
           NEW ip, ip = clients[c].ip, Kept(ip)
    PROVE  OnCourse(t, c)'
<1>1. clients'[c] = clients[c] /\ RawLines(c)' = RawLines(c) /\ Policy(c)' = Policy(c)
  BY NotChanged
<1>2. Enforced(c)' <=> Enforced(c)
  BY EnforcedFrame
<1>3. Removing(req[t])' <=> Removing(req[t])
  BY DEF Removing
<1>4. ASSUME req[t].at = "resolve", req[t].row = clients[c]
      PROVE  Resolved(t)' = Resolved(t)
  <2>1. req[t].groups \subseteq RawLines(c)
    BY <1>4 DEF OnCourse
  <2>2. req[t].groups \subseteq Groups \X Filters
    BY ReqSound DEF Request
  <2>3. QED
    BY <1>4, <2>1, <2>2, MineId, ResolvedFrame DEF Concerned
<1>5. ASSUME req[t].at = "run", ~Removing(req[t]), req[t].row = clients[c], script'[t] # NoScript
      PROVE  ScriptServes(t, c)'
  <2>1. script'[t] = script[t] /\ ScriptServes(t, c)
    BY <1>5 DEF OnCourse
  <2>2. req[t].op # "cleanup"
    BY <1>5, ReqSound DEF PhaseInv, Concerned, About, QueueOps
  <2>3. script[t].ip = ip
    BY <1>5, <2>1, <2>2 DEF OwnersInv
  <2>4. QED
    BY <2>1, <2>3, ServesFrame
<1>6. QED
  BY <1>1, <1>2, <1>3, <1>4, <1>5 DEF OnCourse

LEMMA ConcernedFrame ==
    ASSUME NEW t, req'[t] = req[t], NEW c \in Concerned(t)', clients'[c] = clients[c]
    PROVE  c \in Concerned(t)
BY DEF Concerned, About, Existing

LEMMA RowsCurrentFrame ==
    ASSUME NEW t, req'[t] = req[t], \A c \in About(t) : clients'[c] = clients[c], RowsCurrent(t)
    PROVE  RowsCurrent(t)'
<1>1. CASE req[t].op \in QueueOps
  <2>1. Existing' = Existing /\ \A c \in Existing : clients'[c] = clients[c]
    BY <1>1 DEF About, Existing
  <2>2. Rows' = Rows
    BY <2>1 DEF Rows
  <2>3. QED
    BY <2>2 DEF RowsCurrent
<1>2. CASE req[t].op \notin QueueOps
  BY <1>2 DEF RowsCurrent
<1>3. QED
  BY <1>1, <1>2

LEMMA IdleCourse ==
    ASSUME PhaseInv', NEW t \in Threads, req'[t].at = "idle"
    PROVE  CourseOf(t)'
<1>1. req'[t] = Idle
  BY DEF PhaseInv
<1>2. Concerned(t)' = {} /\ req'[t].op \notin QueueOps
  BY <1>1, IdleIs DEF Concerned, About, QueueOps
<1>3. QED
  BY <1>2 DEF CourseOf, RowsCurrent

LEMMA Bystander ==
    ASSUME TargetInv, AppInv, PhaseInv, PhaseInv', OwnersInv, Watch,
           NEW t \in Threads, CourseOf(t), req'[t] = req[t], script'[t] \in {script[t], NoScript},
           \A c \in Concerned(t), ip \in Ips : t \notin disturbed' /\ ip = clients[c].ip => Kept(ip)
    PROVE  CourseOf(t)'
<1>1. CASE req'[t].at = "idle"
  BY <1>1, IdleCourse
<1>2. CASE req'[t].at # "idle"
  <2> SUFFICES ASSUME t \notin disturbed', ~req'[t].failed
               PROVE  RowsCurrent(t)' /\ \A c \in Concerned(t)' : OnCourse(t, c)'
    BY DEF CourseOf
  <2>1. /\ RowsCurrent(t) /\ \A c \in Concerned(t) : OnCourse(t, c)
        /\ \A c \in About(t) : ~Changed(c)
    BY <1>2, WatchKeeps DEF CourseOf
  <2>2. \A c \in About(t) : clients'[c] = clients[c]
    BY <2>1, NotChanged
  <2>3. RowsCurrent(t)'
    BY <2>1, <2>2, RowsCurrentFrame
  <2>4. ASSUME NEW c \in Concerned(t)' PROVE OnCourse(t, c)'
    <3>1. c \in About(t)
      BY <2>4 DEF Concerned, About
    <3>2. c \in Concerned(t)
      BY <2>2, <2>4, <3>1, ConcernedFrame
    <3>3. ~Changed(c) /\ OnCourse(t, c)
      BY <2>1, <3>1, <3>2
    <3>4. PICK ip \in Ips : ip = clients[c].ip
      BY <3>2, ExistingType DEF Concerned, Row
    <3>5. Kept(ip)
      BY <3>2, <3>4
    <3>6. QED
      BY <3>2, <3>3, <3>4, <3>5, OnCourseFrame
  <2>5. QED
    BY <2>3, <2>4
<1>3. QED
  BY <1>1, <1>2

(* A line of another script: it is not on the clients of t, or the request *)
(* counts as disturbed.                                                    *)
LEMMA OthersCommand ==
    ASSUME TargetInv, AppInv, PhaseInv, OwnersInv, ServerStep, Watch,
           NEW t \in Threads, NEW j \in Jobs \ {t}, Command(j),
           NEW c \in Concerned(t), NEW ip \in Ips, ip = clients[c].ip,
           t \notin disturbed', req[t].at # "idle"
    PROVE  Kept(ip)
<1>1. UNCHANGED <<dbvars, req>>
  BY DEF ServerStep
<1>2. c \in Concerned(t)' /\ clients'[c] = clients[c]
  BY <1>1 DEF Concerned, About, Existing, dbvars
<1>3. Alone(t)'
  BY <1>1, WatchKeeps
<1>4. ~Meddles(j, ip)'
  <2>1. ~Meddles(j, clients[c].ip)'
    BY <1>2, <1>3 DEF Alone
  <2>2. QED
    BY <1>2, <1>2, <2>1 DEF Meddles, On, Known
<1>5. ~On(j, ip)
  <2>1. SUFFICES ASSUME On(j, ip) PROVE FALSE
    OBVIOUS
  <2>2. On(j, ip)'
    BY <2>1, CommandScripts DEF On
  <2>3. j \in Threads /\ req[j].op = "cleanup" /\ ip \in Known(j)
    BY <1>1, <1>4, <2>2 DEF Meddles, Known
  <2>4. QED
    BY <2>1, <2>3 DEF OwnersInv
<1>6. QED
  BY <1>5, CommandElsewhere DEF Kept

LEMMA StillEnforced ==
    ASSUME AppInv, UNCHANGED dbvars, UNCHANGED <<chains, hooks>>, NEW c \in Existing
    PROVE  /\ clients'[c] = clients[c] /\ RawLines(c)' = RawLines(c) /\ Policy(c)' = Policy(c)
           /\ Enforced(c)' <=> Enforced(c)
<1>1. ~Changed(c)
  BY UnchangedTables
<1>2. PICK ip \in Ips : ip = clients[c].ip
  BY ExistingType DEF Row
<1>3. Kept(ip)
  BY KeptIfUnchanged
<1>4. QED
  BY <1>1, <1>2, <1>3, NotChanged, EnforcedFrame

(* A line of the thread's own script. *)
LEMMA OwnCommand ==
    ASSUME TargetInv, AppInv, PhaseInv, OwnersInv, UniqueAddresses, ServerStep, Watch,
           NEW t \in Threads, CourseOf(t), Command(t)
    PROVE  CourseOf(t)'
<1> USE DEF Jobs
<1>1. UNCHANGED <<dbvars, req>>
  BY DEF ServerStep
<1>2. script[t] # NoScript /\ req[t].at = "run"
  BY CommandScripts DEF OwnersInv
<1> SUFFICES ASSUME t \notin disturbed', ~req'[t].failed
             PROVE  RowsCurrent(t)' /\ \A c \in Concerned(t)' : OnCourse(t, c)'
  BY DEF CourseOf
<1>3. RowsCurrent(t) /\ \A c \in Concerned(t) : OnCourse(t, c)
  BY <1>1, <1>2, WatchKeeps DEF CourseOf
<1>4. Existing' = Existing /\ Rows' = Rows /\ \A c : ~Changed(c)
  BY <1>1, UnchangedTables
<1>5. RowsCurrent(t)'
  BY <1>1, <1>3, <1>4 DEF RowsCurrent
<1>6. ASSUME NEW c \in Concerned(t)' PROVE OnCourse(t, c)'
  <2>1. c \in Concerned(t) /\ c \in Existing /\ OnCourse(t, c)
    BY <1>1, <1>3, <1>4, <1>6 DEF Concerned, About
  <2>2. clients'[c] = clients[c] /\ Policy(c)' = Policy(c)
    BY <1>4, NotChanged
  <2>3. PICK ip \in Ips : ip = clients[c].ip
    BY <2>1, ExistingType DEF Row
  <2>4. ASSUME req[t].op \in QueueOps, req[t].row # clients[c], Enforced(c)
        PROVE  Enforced(c)'
    <3>1. req[t].row \in Rows
      BY <1>2, <1>3, <2>4 DEF RowsCurrent, InHand
    <3>2. req[t].row.ip # ip
      BY <2>1, <2>3, <2>4, <3>1 DEF Rows, UniqueAddresses
    <3>3. ~On(t, ip)
      BY <1>2, <2>4, <3>2 DEF OwnersInv, On, QueueOps
    <3>4. Kept(ip)
      BY <3>3, CommandElsewhere DEF Kept
    <3>5. QED
      BY <1>4, <2>3, <2>4, <3>4, EnforcedFrame
  <2>5. ASSUME ScriptServes(t, c) PROVE ScriptServes(t, c)'
    <3>1. PICK P : P = Policy(c)
      OBVIOUS
    <3>2. CASE clients[c].restricted
      <4>1. Applies(t, P)'
        BY <2>5, <3>1, <3>2, AppliesStep DEF ScriptServes
      <4>2. Applies(t, Policy(c))'
        BY <2>2, <3>1, <4>1 DEF Applies
      <4>3. QED
        BY <2>2, <3>2, <4>2 DEF ScriptServes
    <3>3. CASE ~clients[c].restricted
      BY <2>2, <2>5, <3>3, ClearsStep DEF ScriptServes
    <3>4. QED
      BY <3>2, <3>3
  <2>6. Removing(req[t])' <=> Removing(req[t])
    BY <1>1 DEF Removing
  <2>7. QED
    BY <1>1, <1>2, <2>1, <2>2, <2>4, <2>5, <2>6 DEF OnCourse
<1>7. QED
  BY <1>5, <1>6

(* Before it has a row in hand, a request can not be off course. *)
LEMMA QuietCourse ==
    ASSUME NEW t, req'[t].op \notin QueueOps,
           req'[t].at \notin InHand \cup {"grants", "grant", "reply"}
    PROVE  CourseOf(t)'
BY DEF CourseOf, RowsCurrent, OnCourse, InHand

LEMMA NoConcern ==
    ASSUME PhaseInv', NEW t \in Threads, req'[t].op \in {"cleanup", "delete_service"}
    PROVE  CourseOf(t)'
<1>1. req'[t].cid = 0 /\ req'[t].op \notin QueueOps
  BY DEF PhaseInv, QueueOps
<1>2. Concerned(t)' = {}
  BY <1>1 DEF Concerned, About
<1>3. QED
  BY <1>1, <1>2 DEF CourseOf, RowsCurrent

LEMMA MineCourse ==
    ASSUME NEW t, req'[t].op \notin QueueOps, req'[t].at \in {"detect", "grants", "grant"},
           \A c \in Concerned(t)' : Removing(req[t])' \/ req'[t].row = clients'[c]
    PROVE  CourseOf(t)'
BY DEF CourseOf, RowsCurrent, OnCourse, InHand

LEMMA BegunCourse ==
    ASSUME PhaseInv', NEW t \in Threads, UNCHANGED clients, Begun(t)
    PROVE  CourseOf(t)'
<1>1. CASE req'[t].op \notin QueueOps
           /\ req'[t].at \in {"toggle", "eraseRule", "reread", "eraseService", "list"}
  BY <1>1, QuietCourse DEF InHand
<1>2. CASE req'[t].op = "apply_all" /\ req'[t].at = "next" /\ req'[t].queue = Rows
  <2>1. Rows' = Rows
    BY DEF Rows, Existing
  <2>2. \A c \in Concerned(t)' : clients'[c] \in Rows'
    BY DEF Rows, Concerned
  <2>3. QED
    BY <1>2, <2>1, <2>2 DEF CourseOf, RowsCurrent, OnCourse, InHand, QueueOps
<1>3. CASE /\ req'[t].op \in {"apply_single", "delete_client", "set_client_wg_ip", "set_full_access_targets"}
           /\ req'[t].at \in {"detect", "grants"} /\ req'[t].row = clients[req'[t].cid]
  <2>1. \A c \in Concerned(t)' : c = req'[t].cid
    BY <1>3 DEF Concerned, About, QueueOps
  <2>2. QED
    BY <1>3, <2>1, MineCourse DEF QueueOps
<1>4. QED
  BY <1>1, <1>2, <1>3 DEF Begun

(* A thread that moves on with a request that is on its course, its row    *)
(* still in hand.                                                          *)
LEMMA HeldCourse ==
    ASSUME AppInv, UNCHANGED dbvars, UNCHANGED <<chains, hooks>>,
           NEW t \in Threads, RowsCurrent(t), NEW step \in {"read", "resolve", "run"},
           Goes(t, step), req[t].at \in {"detect", "read", "resolve"},
           \A c \in Concerned(t) :
              /\ OnCourse(t, c)
              /\ step \in {"read", "resolve"} /\ req[t].row = clients[c] => clients[c].restricted
              /\ step = "resolve" /\ req[t].row = clients[c] =>
                    (req[t].groups \subseteq RawLines(c))' /\ Resolved(t)' = Policy(c)
              /\ step = "run" /\ ~Removing(req[t]) /\ req[t].row = clients[c] => ScriptServes(t, c)'
    PROVE  CourseOf(t)'
<1>1. Existing' = Existing /\ Rows' = Rows
  BY UnchangedTables
<1>2. RowsCurrent(t)'
  BY <1>1 DEF RowsCurrent, Goes, InHand
<1>3. ASSUME NEW c \in Concerned(t)' PROVE OnCourse(t, c)'
  <2>1. c \in Concerned(t) /\ c \in Existing
    BY <1>1, <1>3 DEF Concerned, About, Goes
  <2>2. /\ clients'[c] = clients[c] /\ Policy(c)' = Policy(c)
        /\ Enforced(c)' <=> Enforced(c)
    BY <2>1, StillEnforced
  <2>3. Removing(req[t])' <=> Removing(req[t])
    BY DEF Removing, Goes
  <2>4. QED
    BY <2>1, <2>2, <2>3 DEF OnCourse, Goes, InHand
<1>4. QED
  BY <1>2, <1>3 DEF CourseOf

(* What every step of a request on its course can rely on. *)
OnTheWay(t) ==
    /\ RowsCurrent(t) /\ \A c \in Concerned(t) : OnCourse(t, c)
    /\ req'[t].op = req[t].op /\ req'[t].cid = req[t].cid

LEMMA DetectCourse ==
    ASSUME TargetInv, AppInv, PhaseInv', NEW t \in Threads, Detect(t), OnTheWay(t),
           UNCHANGED <<chains, hooks>>
    PROVE  CourseOf(t)'
<1>1. req[t].at = "detect" /\ UNCHANGED dbvars
  BY DetectEffect
<1>2. CASE req[t].op = "cleanup"
  BY <1>2, NoConcern DEF OnTheWay
<1>3. CASE req'[t].failed
  BY <1>3 DEF CourseOf
<1>4. CASE /\ Goes(t, "run")
           /\ Removing(req[t]) \/ (req[t].row # NoRow /\ ~req[t].row.restricted)
           /\ \E h : script' = [script EXCEPT ![t] = build_remove_script(req[t].row.ip, h)]
  <2>1. script'[t].at = "unhook"
    BY <1>4, LaunchedRemove
  <2>2. Clears(t)'
    BY <2>1 DEF Clears, RemoveSteps
  <2>3. ASSUME NEW c \in Concerned(t), ~Removing(req[t]), req[t].row = clients[c]
        PROVE  ScriptServes(t, c)'
    <3>1. ~clients[c].restricted /\ c \in Existing
      BY <1>4, <2>3 DEF Concerned
    <3>2. ~clients'[c].restricted
      BY <1>1, <3>1, StillEnforced
    <3>3. QED
      BY <2>2, <3>2 DEF ScriptServes
  <2>4. QED
    BY <1>1, <1>4, <2>3, HeldCourse DEF OnTheWay
<1>5. CASE Goes(t, "read") /\ req[t].row.restricted
  BY <1>1, <1>5, HeldCourse DEF OnTheWay
<1>6. QED
  BY <1>2, <1>3, <1>4, <1>5, DetectEffect

(* The script of a launched apply is about to do its work. *)
LEMMA LaunchedServes ==
    ASSUME TargetInv, AppInv, UNCHANGED dbvars, UNCHANGED <<chains, hooks>>,
           NEW t \in Threads, NEW c \in Existing, clients[c].restricted, NEW ip, NEW P, NEW h,
           script' = [script EXCEPT ![t] = build_apply_script(ip, P, h)], P = Policy(c)
    PROVE  ScriptServes(t, c)'
<1>1. script'[t].at = "new" /\ script'[t].todo = P
  BY LaunchedApply
<1>2. Policy(c)' = P /\ clients'[c].restricted
  BY StillEnforced
<1>3. script'[t] # NoScript \/ script'[t] = NoScript
  OBVIOUS
<1>4. Applies(t, Policy(c))'
  BY <1>1, <1>2 DEF Applies, ApplySteps, Hooking, At
<1>5. QED
  BY <1>2, <1>4 DEF ScriptServes

LEMMA ReadRulesCourse ==
    ASSUME TargetInv, AppInv, NEW t \in Threads, ReadRules(t), OnTheWay(t),
           UNCHANGED <<chains, hooks>>
    PROVE  CourseOf(t)'
<1> DEFINE lines(c) == RawLines(c) \ (Groups \X Filters)
           groups(c) == RawLines(c) \cap (Groups \X Filters)
<1>1. req[t].at = "read" /\ UNCHANGED dbvars
  BY ReadRulesEffect
<1>2. ASSUME NEW c \in Concerned(t), req[t].row = clients[c]
      PROVE  clients[c].restricted /\ req[t].row.id = c /\ c \in Existing
  BY <1>1, <1>2, MineId DEF OnTheWay, OnCourse, Concerned
<1>3. CASE /\ groups(req[t].row.id) = {} /\ Goes(t, "run")
           /\ \E h : script' = [script EXCEPT ![t] =
                        build_apply_script(req[t].row.ip, lines(req[t].row.id), h)]
  <2>1. ASSUME NEW c \in Concerned(t), req[t].row = clients[c]
        PROVE  ScriptServes(t, c)'
    <3>1. groups(c) = {}
      BY <1>2, <1>3, <2>1
    <3>2. Policy(c) = lines(c)
      BY <3>1 DEF Policy
    <3>3. PICK P, h : script' = [script EXCEPT ![t] = build_apply_script(req[t].row.ip, P, h)]
                      /\ P = Policy(c)
      BY <1>2, <1>3, <2>1, <3>2
    <3>4. QED
      BY <1>1, <1>2, <2>1, <3>3, LaunchedServes
  <2>2. QED
    BY <1>1, <1>3, <2>1, HeldCourse DEF OnTheWay
<1>4. CASE /\ Goes(t, "resolve")
           /\ req'[t].groups = groups(req[t].row.id) /\ req'[t].targets = lines(req[t].row.id)
  <2>1. ASSUME NEW c \in Concerned(t), req[t].row = clients[c]
        PROVE  (req[t].groups \subseteq RawLines(c))' /\ Resolved(t)' = Policy(c)
    <3>1. /\ req'[t].groups = groups(c) /\ req'[t].targets = lines(c) /\ req'[t].row.id = c
          /\ RawLines(c)' = RawLines(c)
      BY <1>1, <1>2, <1>4, <2>1, StillEnforced DEF Goes
    <3>2. \A g : tag_member_ips(g, c)' = tag_member_ips(g, c)
      BY <1>1 DEF dbvars, tag_member_ips, Existing
    <3>3. Resolved(t)' = lines(c) \cup UNION {tag_member_ips(l[1], c) \X {l[2]} : l \in groups(c)}
      BY <3>1, <3>2 DEF Resolved
    <3>4. QED
      BY <3>1, <3>3 DEF Policy
  <2>2. QED
    BY <1>1, <1>2, <1>4, <2>1, HeldCourse DEF OnTheWay
<1>5. QED
  BY <1>3, <1>4, ReadRulesEffect

LEMMA ResolveGroupCourse ==
    ASSUME TargetInv, AppInv, NEW t \in Threads, ResolveGroup(t), OnTheWay(t),
           UNCHANGED <<chains, hooks>>
    PROVE  CourseOf(t)'
<1> DEFINE found(l) == tag_member_ips(l[1], req[t].row.id) \X {l[2]}
<1>1. req[t].at = "resolve" /\ UNCHANGED dbvars
  BY ResolveGroupEffect
<1>2. PICK l \in req[t].groups :
         LET groups == req[t].groups \ {l}
             targets == req[t].targets \cup found(l)
         IN  \/ /\ groups = {} /\ Goes(t, "run")
                /\ \E h : script' = [script EXCEPT ![t] = build_apply_script(req[t].row.ip, targets, h)]
             \/ /\ Goes(t, "resolve") /\ UNCHANGED script
                /\ req'[t].groups = groups /\ req'[t].targets = targets
  BY ResolveGroupEffect
<1>3. ASSUME NEW c \in Concerned(t), req[t].row = clients[c]
      PROVE  /\ clients[c].restricted /\ c \in Existing
             /\ req[t].groups \subseteq RawLines(c)
             /\ req[t].targets \cup UNION {found(k) : k \in req[t].groups} = Policy(c)
  BY <1>1, <1>3 DEF OnTheWay, OnCourse, Concerned, Resolved
<1>4. CASE /\ req[t].groups \ {l} = {} /\ Goes(t, "run")
           /\ \E h : script' = [script EXCEPT ![t] =
                        build_apply_script(req[t].row.ip, req[t].targets \cup found(l), h)]
  <2>1. ASSUME NEW c \in Concerned(t), req[t].row = clients[c]
        PROVE  ScriptServes(t, c)'
    <3>1. req[t].groups = {l}
      BY <1>4
    <3>2. UNION {found(k) : k \in req[t].groups} = found(l)
      BY <3>1
    <3>3. PICK P, h : script' = [script EXCEPT ![t] = build_apply_script(req[t].row.ip, P, h)]
                      /\ P = Policy(c)
      BY <1>3, <1>4, <2>1, <3>2
    <3>4. QED
      BY <1>1, <1>3, <2>1, <3>3, LaunchedServes
  <2>2. QED
    BY <1>1, <1>4, <2>1, HeldCourse DEF OnTheWay
<1>5. CASE /\ Goes(t, "resolve")
           /\ req'[t].groups = req[t].groups \ {l} /\ req'[t].targets = req[t].targets \cup found(l)
  <2>1. ASSUME NEW c \in Concerned(t), req[t].row = clients[c]
        PROVE  (req[t].groups \subseteq RawLines(c))' /\ Resolved(t)' = Policy(c)
    <3>1. RawLines(c)' = RawLines(c) /\ req'[t].row = req[t].row
      BY <1>1, <1>3, <1>5, <2>1, StillEnforced DEF Goes
    <3>2. \A g : tag_member_ips(g, req[t].row.id)' = tag_member_ips(g, req[t].row.id)
      BY <1>1, <3>1 DEF dbvars, tag_member_ips, Existing
    <3>3. Resolved(t)' = (req[t].targets \cup found(l))
                            \cup UNION {found(k) : k \in req[t].groups \ {l}}
      BY <1>5, <3>1, <3>2 DEF Resolved
    <3>4. UNION {found(k) : k \in req[t].groups}
             = found(l) \cup UNION {found(k) : k \in req[t].groups \ {l}}
      OBVIOUS
    <3>5. QED
      BY <1>3, <1>5, <2>1, <3>1, <3>3, <3>4
  <2>2. QED
    BY <1>1, <1>3, <1>5, <2>1, HeldCourse DEF OnTheWay
<1>6. QED
  BY <1>2, <1>4, <1>5

(* A script that has come to its end has done what it was for. *)
LEMMA ServedEnforces ==
    ASSUME TargetInv, AppInv, JumpInv, OwnersInv, NEW t \in Threads, NEW c \in Existing,
           At(t, "done"), req[t].row = clients[c], req[t].op # "cleanup", ScriptServes(t, c)
    PROVE  Enforced(c)
<1>1. PICK ip \in Ips : ip = clients[c].ip
  BY ExistingType DEF Row
<1>2. script[t].ip = ip /\ script[t].at = "done"
  BY <1>1 DEF OwnersInv, At
<1>3. CASE clients[c].restricted
  BY <1>1, <1>2, <1>3 DEF ScriptServes, Applies, Enforced
<1>4. CASE ~clients[c].restricted
  <2>1. chains[ip] \in {NoChain, EmptyChain}
    BY <1>2, <1>4 DEF ScriptServes, Clears
  <2>2. Hooked(ip) => chains[ip] # NoChain
    BY DEF JumpInv
  <2>3. QED
    BY <1>1, <1>4, <2>1, <2>2 DEF Enforced
<1>5. QED
  BY <1>3, <1>4

LEMMA FinishRunCourse ==
    ASSUME TargetInv, AppInv, JumpInv, PhaseInv, PhaseInv', OwnersInv,
           NEW t \in Threads, FinishRun(t), OnTheWay(t), UNCHANGED <<chains, hooks>>
    PROVE  CourseOf(t)'
<1>1. req[t].at = "run" /\ Goes(t, AfterRun(req[t])) /\ UNCHANGED dbvars
  BY FinishRunEffect
<1>2. CASE req[t].op = "cleanup"
  BY <1>2, NoConcern DEF OnTheWay
<1>3. CASE req'[t].failed
  BY <1>3 DEF CourseOf
<1>4. ASSUME ~req'[t].failed, req[t].op # "cleanup", ~Removing(req[t]),
             NEW c \in Concerned(t), req[t].row = clients[c]
      PROVE  Enforced(c)
  <2>1. At(t, "done")
    BY <1>4, FinishRunEffect
  <2>2. ScriptServes(t, c) /\ c \in Existing
    BY <1>1, <1>4, <2>1 DEF OnTheWay, OnCourse, At, Concerned
  <2>3. QED
    BY <1>4, <2>1, <2>2, ServedEnforces
<1>5. Existing' = Existing /\ Rows' = Rows
  BY <1>1, UnchangedTables
<1>6. \A c \in Concerned(t)' : /\ c \in Concerned(t) /\ clients'[c] = clients[c]
                               /\ Enforced(c)' <=> Enforced(c)
  BY <1>1, <1>5, StillEnforced DEF Concerned, About, Goes
<1>7. CASE req[t].op \in QueueOps /\ ~req'[t].failed
  <2>1. req'[t].at = "next" /\ ~Removing(req[t]) /\ req[t].op # "cleanup"
    BY <1>1, <1>7 DEF Goes, AfterRun, Removing, QueueOps
  <2>2. ASSUME NEW c \in Concerned(t)' PROVE OnCourse(t, c)'
    <3>1. clients[c] \in req[t].queue \/ Enforced(c)
      BY <1>1, <1>4, <1>6, <1>7, <2>1, <2>2 DEF OnTheWay, OnCourse, InHand
    <3>2. QED
      BY <1>1, <1>6, <1>7, <2>1, <2>2, <3>1 DEF OnCourse, Goes
  <2>3. RowsCurrent(t)'
    BY <1>1, <1>5, <2>1 DEF OnTheWay, RowsCurrent, Goes, InHand
  <2>4. QED
    BY <2>2, <2>3 DEF CourseOf
<1>8. CASE req[t].op \notin QueueOps \cup {"cleanup"} /\ Removing(req[t])
  <2>1. req'[t].at \in {"eraseClient", "readdress"}
    BY <1>1, <1>8 DEF Goes, AfterRun, QueueOps, Removing
  <2>2. QED
    BY <1>1, <1>8, <2>1, QuietCourse DEF Goes, InHand
<1>9. CASE req[t].op \notin QueueOps \cup {"cleanup"} /\ ~Removing(req[t]) /\ ~req'[t].failed
  <2>1. req'[t].at = "reply" /\ req'[t].op = req[t].op
    BY <1>1, <1>9 DEF Goes, AfterRun, Removing
  <2>2. ASSUME NEW c \in Concerned(t)' PROVE Enforced(c)'
    <3>1. req[t].row = clients[c]
      BY <1>1, <1>6, <1>9, <2>2 DEF OnTheWay, OnCourse, InHand
    <3>2. QED
      BY <1>4, <1>6, <1>9, <2>2, <3>1
  <2>3. QED
    BY <1>9, <2>1, <2>2 DEF CourseOf, RowsCurrent, OnCourse, InHand
<1>10. QED
  BY <1>2, <1>3, <1>7, <1>8, <1>9

LEMMA NextClientCourse ==
    ASSUME AppInv, PhaseInv, NEW t \in Threads, NextClient(t), OnTheWay(t),
           UNCHANGED <<chains, hooks>>
    PROVE  CourseOf(t)'
<1>1. req[t].at = "next" /\ UNCHANGED dbvars
  BY NextClientEffect
<1>2. req[t].op \in QueueOps /\ req'[t].op \in QueueOps
  BY <1>1, StepsAre DEF PhaseInv, OnTheWay
<1>3. Existing' = Existing /\ Rows' = Rows
  BY <1>1, UnchangedTables
<1>4. ASSUME NEW c \in Concerned(t)'
      PROVE  /\ clients'[c] = clients[c]
             /\ clients[c] \in req[t].queue \/ Enforced(c)'
  <2>1. c \in Concerned(t) /\ c \in Existing
    BY <1>3, <1>4 DEF Concerned, About, OnTheWay
  <2>2. clients[c] \in req[t].queue \/ Enforced(c)
    BY <1>1, <1>2, <2>1 DEF OnTheWay, OnCourse
  <2>3. QED
    BY <1>1, <2>1, <2>2, StillEnforced
<1>5. req[t].queue \subseteq Rows
  BY <1>2 DEF OnTheWay, RowsCurrent
<1>6. ASSUME NEW row \in req[t].queue, req'[t].at = "detect", req'[t].row = row,
             req'[t].queue = req[t].queue \ {row}
      PROVE  CourseOf(t)'
  <2>1. RowsCurrent(t)'
    BY <1>3, <1>5, <1>6 DEF RowsCurrent
  <2>2. \A c \in Concerned(t)' : OnCourse(t, c)'
    BY <1>2, <1>4, <1>6 DEF OnCourse
  <2>3. QED
    BY <2>1, <2>2 DEF CourseOf
<1>7. CASE req[t].queue = {} /\ Goes(t, "reply")
  <2>1. RowsCurrent(t)'
    BY <1>7 DEF RowsCurrent, Goes, InHand
  <2>2. \A c \in Concerned(t)' : OnCourse(t, c)'
    BY <1>2, <1>4, <1>7 DEF OnCourse, Goes, InHand
  <2>3. QED
    BY <2>1, <2>2 DEF CourseOf
<1>8. QED
  BY <1>6, <1>7, NextClientEffect

LEMMA ContinueCourse ==
    ASSUME TargetInv, AppInv, JumpInv, PhaseInv, PhaseInv', OwnersInv, Watch,
           NEW t \in Threads, CourseOf(t), Continue(t)
    PROVE  CourseOf(t)'
<1>1. UNCHANGED <<chains, hooks>>
  BY ThreadFrame
<1>2. CASE Reply(t) \/ EraseService(t)
  <2>1. req'[t].at = "idle"
    BY <1>2, QuietEffect, IdleIs
  <2>2. QED
    BY <2>1, IdleCourse
<1>3. CASE ~Reply(t) /\ ~EraseService(t)
  <2>1. /\ req'[t].op = req[t].op /\ req'[t].cid = req[t].cid /\ req'[t].at # "idle"
        /\ req[t].failed => req'[t].failed
    BY <1>3, ContinueKeeps
  <2> SUFFICES ASSUME t \notin disturbed', ~req'[t].failed
               PROVE  CourseOf(t)'
    BY DEF CourseOf
  <2>2. OnTheWay(t)
    BY <2>1, WatchKeeps DEF CourseOf, OnTheWay
  <2>3. req'[t].at \in StepsOf(req'[t].op)
    BY DEF PhaseInv
  <2>4. ASSUME req[t].at \in {"toggle", "eraseRule", "reread", "grants", "grant", "eraseClient", "readdress"}
        PROVE  req[t].op \notin QueueOps
    BY <2>4, StepsAre DEF PhaseInv, QueueOps
  <2>5. CASE ToggleWrite(t) \/ EraseRule(t)
    <3>1. req'[t].at = "reread" /\ req'[t].op \notin QueueOps
      BY <2>1, <2>4, <2>5, QuietEffect DEF Goes
    <3>2. QED
      BY <3>1, QuietCourse DEF InHand
  <2>6. ASSUME UNCHANGED clients, req[t].at \in {"grants", "grant"},
               Goes(t, "grant") \/ Goes(t, "detect")
        PROVE  CourseOf(t)'
    <3>1. req[t].op \notin QueueOps /\ ~Removing(req[t])
      BY <2>4, <2>6, ReqSound DEF RequestOK
    <3>2. Concerned(t)' = Concerned(t)
      BY <2>1, <2>6, SameConcern
    <3>3. \A c \in Concerned(t)' : req'[t].row = clients'[c]
      BY <2>2, <2>6, <3>1, <3>2 DEF OnTheWay, OnCourse, Goes
    <3>4. QED
      BY <2>1, <2>6, <3>1, <3>3, MineCourse DEF Goes
  <2>7. CASE ReadGrants(t)
    BY <2>6, <2>7, QuietEffect DEF ReadGrants, dbvars
  <2>8. CASE Grant(t)
    <3>1. CASE Goes(t, "unchanged")
      BY <2>1, <2>4, <2>8, <3>1, GrantEffect, QuietCourse DEF Goes, InHand
    <3>2. QED
      BY <2>6, <2>8, <3>1, GrantEffect
  <2>9. CASE Reread(t)
    <3>1. /\ req'[t].at = "detect" /\ req'[t].row = clients'[req'[t].cid]
          /\ req'[t].op \notin QueueOps
      BY <2>1, <2>4, <2>9, RereadEffect DEF dbvars
    <3>2. \A c \in Concerned(t)' : c = req'[t].cid
      BY <3>1 DEF Concerned, About
    <3>3. QED
      BY <3>1, <3>2, MineCourse
  <2>10. CASE ListChains(t) \/ NextOrphan(t)
    <3>1. req[t].op = "cleanup"
      BY <2>10, StepsAre DEF PhaseInv, ListChains, NextOrphan, QueueOps
    <3>2. QED
      BY <2>1, <3>1, NoConcern
  <2>11. CASE Detect(t)
    BY <1>1, <2>2, <2>11, DetectCourse
  <2>12. CASE ReadRules(t)
    BY <1>1, <2>2, <2>12, ReadRulesCourse
  <2>13. CASE ResolveGroup(t)
    BY <1>1, <2>2, <2>13, ResolveGroupCourse
  <2>14. CASE FinishRun(t)
    BY <1>1, <2>2, <2>14, FinishRunCourse
  <2>15. CASE NextClient(t)
    BY <1>1, <2>2, <2>15, NextClientCourse
  <2>16. CASE EraseClient(t)
    <3>1. req[t].at = "eraseClient" /\ req[t].op \notin QueueOps
      BY <2>4, <2>16, QuietEffect
    <3>2. req'[t].cid \notin Existing'
      BY <2>1, <2>16, TablesTyped DEF EraseClient, Existing, TablesTypeOK
    <3>3. Concerned(t)' = {}
      BY <2>1, <3>1, <3>2 DEF Concerned, About
    <3>4. QED
      BY <2>1, <3>1, <3>3 DEF CourseOf, RowsCurrent
  <2>17. CASE Readdress(t)
    <3>1. req'[t].at = "reread" /\ req'[t].op \notin QueueOps
      BY <2>1, <2>4, <2>17, ReaddressEffect
    <3>2. QED
      BY <3>1, QuietCourse DEF InHand
  <2>18. QED
    BY <1>3, <2>5, <2>7, <2>8, <2>9, <2>10, <2>11, <2>12, <2>13, <2>14, <2>15, <2>16, <2>17 DEF Continue
<1>4. QED
  BY <1>2, <1>3

LEMMA StartAppCourse ==
    ASSUME PhaseInv', StartApp, UNCHANGED dbvars, NEW t \in Threads
    PROVE  CourseOf(t)'
<1>1. CASE req'[t] = Idle
  BY <1>1, IdleIs, IdleCourse
<1>2. CASE req'[t] = StartupRequest
  <2>1. Rows' = Rows /\ req'[t].op = "startup" /\ req'[t].at = "next" /\ req'[t].queue = Rows
    BY <1>2, StartupIs, UnchangedTables
  <2>2. \A c \in Concerned(t)' : clients'[c] \in Rows'
    BY DEF Rows, Concerned
  <2>3. QED
    BY <2>1, <2>2 DEF CourseOf, RowsCurrent, OnCourse, InHand, QueueOps
<1>3. QED
  BY <1>1, <1>2, StartAppEffect

LEMMA NotIdleConcerned ==
    ASSUME PhaseInv, NEW t \in Threads, NEW c \in Concerned(t)
    PROVE  req[t].at # "idle"
BY IdleIs DEF PhaseInv, Concerned, About, QueueOps

LEMMA StutterCourse ==
    ASSUME TargetInv, AppInv, PhaseInv, OwnersInv, UNCHANGED vars, NEW t \in Threads, CourseOf(t)
    PROVE  CourseOf(t)'
<1>1. UNCHANGED <<dbvars, req, script, chains, hooks, disturbed>>
  BY DEF vars, tvars
<1>2. Existing' = Existing /\ \A c : ~Changed(c)
  BY <1>1, UnchangedTables
<1>3. RowsCurrent(t) => RowsCurrent(t)'
  BY <1>1 DEF RowsCurrent, Rows, Existing, dbvars
<1>4. ASSUME NEW c \in Concerned(t)', OnCourse(t, c) PROVE OnCourse(t, c)'
  <2>1. c \in Concerned(t) /\ c \in Existing
    BY <1>1, <1>2, <1>4 DEF Concerned, About
  <2>2. PICK ip \in Ips : ip = clients[c].ip
    BY <2>1, ExistingType DEF Row
  <2>3. Kept(ip)
    BY <1>1, KeptIfUnchanged
  <2>4. QED
    BY <1>1, <1>2, <1>4, <2>1, <2>2, <2>3, OnCourseFrame
<1>5. Concerned(t)' = Concerned(t)
  BY <1>1, <1>2 DEF Concerned, About
<1>6. QED
  BY <1>1, <1>3, <1>4, <1>5 DEF CourseOf

LEMMA CourseStep ==
    ASSUME TargetInv, AppInv, JumpInv, SettledInv, PhaseInv', [Next]_vars
    PROVE  CourseInv'
<1> USE DEF SettledInv
<1>1. \A t \in Threads : CourseOf(t)
  BY DEF CourseInv, CourseOf
<1>2. ASSUME Watch, NEW t \in Threads, req'[t] = req[t], script'[t] \in {script[t], NoScript},
             UNCHANGED <<chains, hooks>>
      PROVE  CourseOf(t)'
  <2>1. \A ip \in Ips : Kept(ip)
    BY <1>2, KeptIfUnchanged
  <2>2. QED
    BY <1>1, <1>2, <2>1, Bystander
<1>3. ASSUME NEW t \in Threads, Begin(t) \/ Continue(t) \/ Timeout(t), Watch
      PROVE  \A k \in Threads : CourseOf(k)'
  <2>1. ASSUME NEW k \in Threads, k # t PROVE CourseOf(k)'
    BY <1>2, <1>3, <2>1, ThreadFrame
  <2>2. CourseOf(t)'
    <3>1. CASE Begin(t)
      <4>1. CASE req'[t] = req[t]
        BY <3>1, <4>1, BeginEffect, IdleCourse
      <4>2. QED
        BY <3>1, <4>1, BeginEffect, BegunCourse
    <3>2. CASE Continue(t)
      BY <1>1, <1>3, <3>2, ContinueCourse
    <3>3. CASE Timeout(t)
      <4>1. script'[t] = NoScript /\ UNCHANGED req
        BY <3>3, TargetAssumption DEF Timeout, Kill, Detach, TargetInv, TargetTypeOK, Jobs
      <4>2. QED
        BY <1>2, <1>3, <3>3, <4>1, ThreadFrame
    <3>4. QED
      BY <1>3, <3>1, <3>2, <3>3
  <2>3. QED
    BY <2>1, <2>2
<1>4. ASSUME ServerStep, Watch, NEW t \in Threads PROVE CourseOf(t)'
  <2>1. UNCHANGED req
    BY <1>4 DEF ServerStep
  <2>2. CASE UNCHANGED <<chains, hooks>> /\ script'[t] = script[t]
    BY <1>2, <1>4, <2>1, <2>2
  <2>3. ASSUME NEW j \in Jobs, Command(j) PROVE CourseOf(t)'
    <3>1. CASE j = t
      BY <1>1, <1>4, <2>3, <3>1, OwnCommand
    <3>2. CASE j # t
      <4>1. script'[t] = script[t]
        BY <2>3, <3>2, CommandScripts DEF Jobs
      <4>2. ASSUME NEW c \in Concerned(t), NEW ip \in Ips, t \notin disturbed', ip = clients[c].ip
            PROVE  Kept(ip)
        BY <1>4, <2>3, <3>2, <4>2, OthersCommand, NotIdleConcerned
      <4>3. QED
        BY <1>1, <1>4, <2>1, <4>1, <4>2, Bystander
    <3>3. QED
      BY <3>1, <3>2
  <2>4. QED
    BY <1>4, <2>2, <2>3, ServerFrame
<1>5. ASSUME Restart \/ ServerReboot, NEW t \in Threads PROVE CourseOf(t)'
  <2>1. CASE StartApp
    BY <1>5, <2>1, StartAppCourse DEF Restart, ServerReboot
  <2>2. CASE disturbed' = {k \in Threads : req[k].at # "idle"} /\ UNCHANGED req
    BY <2>2, IdleCourse DEF CourseOf
  <2>3. QED
    BY <1>5, <2>1, <2>2 DEF Restart, ServerReboot
<1>6. ASSUME UNCHANGED vars, NEW t \in Threads PROVE CourseOf(t)'
  BY <1>1, <1>6, StutterCourse
<1>7. \A t \in Threads : CourseOf(t)'
  BY <1>3, <1>4, <1>5, <1>6 DEF Next
<1>8. QED
  BY <1>7 DEF CourseInv, CourseOf


-----------------------------------------------------------------------------
(* What the last answer said still holds, or is being seen to *)

LEMMA CommittedStays ==
    ASSUME AppInv, PhaseInv, NEW t \in Threads, Continue(t), Committed(t),
           ~Reply(t), ~EraseService(t)
    PROVE  Committed(t)'
<1> DEFINE Busy == RequestSteps \ {"idle", "grants", "grant", "unchanged"}
<1> USE DEF Committed
<1>1. ASSUME NEW step \in Busy, Goes(t, step) PROVE Committed(t)'
  BY <1>1 DEF Goes
<1>2. AfterRun(req[t]) \in Busy
  BY DEF AfterRun, RequestSteps
<1>3. {"reread", "reply", "detect", "orphans", "run", "read", "resolve"} \subseteq Busy
  BY DEF RequestSteps
<1>4. CASE ToggleWrite(t) \/ EraseRule(t) \/ EraseClient(t)
  BY <1>1, <1>3, <1>4, QuietEffect
<1>5. CASE ReadGrants(t) \/ Grant(t)
  BY <1>5, QuietEffect, GrantEffect
<1>6. CASE Reread(t) \/ NextOrphan(t)
  BY <1>1, <1>3, <1>6, RereadEffect, NextOrphanEffect
<1>7. CASE ListChains(t)
  BY <1>1, <1>3, <1>7, ListChainsEffect
<1>8. CASE Detect(t)
  BY <1>1, <1>3, <1>8, DetectEffect
<1>9. CASE ReadRules(t)
  BY <1>1, <1>3, <1>9, ReadRulesEffect
<1>10. CASE ResolveGroup(t)
  BY <1>1, <1>3, <1>10, ResolveGroupEffect
<1>11. CASE FinishRun(t)
  BY <1>1, <1>2, <1>11, FinishRunEffect
<1>12. CASE NextClient(t)
  BY <1>1, <1>3, <1>12, NextClientEffect
<1>13. CASE Readdress(t)
  BY <1>13, ReaddressEffect
<1>14. QED
  BY <1>4, <1>5, <1>6, <1>7, <1>8, <1>9, <1>10, <1>11, <1>12, <1>13 DEF Continue

(* A request about c that is under way stays so until it is answered. *)
LEMMA StaysCommitted ==
    ASSUME AppInv, PhaseInv, NEW t \in Threads, Begin(t) \/ Continue(t) \/ Timeout(t),
           NEW c \in Concerned(t), c \in Existing', Committed(t), ~Answered(t)
    PROVE  c \in Concerned(t)' /\ Committed(t)'
<1>1. ~Begin(t)
  BY BeginEffect DEF Committed
<1>2. ~Reply(t)
  <2>1. SUFFICES ASSUME Reply(t) PROVE FALSE
    OBVIOUS
  <2>2. req[t].at = "reply" /\ req'[t].at = "idle"
    BY <2>1, QuietEffect, IdleIs DEF Committed
  <2>3. QED
    BY <2>2 DEF Answered
<1>3. ~EraseService(t)
  <2>1. SUFFICES ASSUME EraseService(t) PROVE FALSE
    OBVIOUS
  <2>2. req[t].op = "delete_service"
    BY <2>1, QuietEffect, StepsAre DEF PhaseInv, QueueOps
  <2>3. QED
    BY <2>2 DEF PhaseInv, Concerned, About, QueueOps
<1>4. CASE Timeout(t)
  BY <1>4 DEF Timeout, Concerned, About, Committed
<1>5. CASE Continue(t)
  <2>1. req'[t].op = req[t].op /\ req'[t].cid = req[t].cid
    BY <1>2, <1>3, <1>5, ContinueKeeps
  <2>2. c \in Concerned(t)'
    BY <2>1, SameConcern DEF Concerned
  <2>3. QED
    BY <1>2, <1>3, <1>5, <2>2, CommittedStays
<1>6. QED
  BY <1>1, <1>4, <1>5

(* What Watch demands of a client that is recorded as applied. *)
LEMMA WatchApplied ==
    ASSUME Watch, NEW c \in Existing', standing'[c] = "applied"
    PROVE  /\ c \in Existing /\ ~Upset(c) /\ clients'[c] = clients[c]
           /\ \/ /\ \E t \in Threads : Answered(t) /\ c \in Concerned(t)
                 /\ Verdict(CHOOSE t \in Threads : Answered(t), c) = "applied"
              \/ /\ \A t \in Threads : ~(Answered(t) /\ c \in Concerned(t))
                 /\ standing[c] = "applied"
<1>1. c \in ClientIds /\ clients'[c] # NoRow
  BY DEF Existing
<1> DEFINE answered == \E t \in Threads : Answered(t) /\ c \in Concerned(t)
           verdict == Verdict(CHOOSE t \in Threads : Answered(t), c)
<1>2. "applied" = IF c \notin Existing \/ clients'[c] = NoRow \/ Upset(c) THEN "unknown"
                  ELSE IF answered THEN verdict ELSE standing[c]
  BY <1>1 DEF Watch
<1> HIDE DEF answered, verdict
<1>3. c \in Existing /\ ~Upset(c) /\ ((answered /\ verdict = "applied") \/ (~answered /\ standing[c] = "applied"))
  BY <1>2
<1>4. clients'[c] = clients[c]
  BY <1>3, NotChanged DEF Upset
<1>5. QED
  BY <1>3, <1>4 DEF answered, verdict

LEMMA AppliedVerdict ==
    ASSUME NEW t, NEW c, Verdict(t, c) = "applied"
    PROVE  t \notin disturbed /\ ~req[t].failed
<1>1. CASE t \in disturbed
  BY <1>1 DEF Verdict
<1>2. CASE t \notin disturbed /\ req[t].failed
  BY <1>2 DEF Verdict
<1>3. QED
  BY <1>1, <1>2

LEMMA AnsweredEnforced ==
    ASSUME AppInv, CourseInv, NEW t \in Threads, \A k \in Threads \ {t} : req'[k] = req[k],
           NEW c \in Existing, \E k \in Threads : Answered(k) /\ c \in Concerned(k),
           Verdict(CHOOSE k \in Threads : Answered(k), c) = "applied"
    PROVE  Enforced(c)
<1>1. \A k \in Threads : Answered(k) => k = t
  BY DEF Answered
<1>2. Answered(t) /\ c \in Concerned(t) /\ (CHOOSE k \in Threads : Answered(k)) = t
  BY <1>1
<1>3. t \notin disturbed /\ ~req[t].failed
  BY <1>2, AppliedVerdict
<1>4. OnCourse(t, c) /\ req[t].at = "reply"
  BY <1>2, <1>3 DEF CourseInv, Answered
<1>5. QED
  BY <1>4 DEF OnCourse

LEMMA StandingStep ==
    ASSUME TargetInv, AppInv, SettledInv, [Next]_vars
    PROVE  StandingInv'
<1> USE DEF SettledInv
<1> DEFINE Good(c) == Enforced(c) \/ \E t \in Threads : c \in Concerned(t) /\ Committed(t)
<1>1. ASSUME NEW t \in Threads, Begin(t) \/ Continue(t) \/ Timeout(t), Watch,
             NEW c \in Existing', standing'[c] = "applied"
      PROVE  Good(c)'
  <2>1. c \in Existing /\ ~Changed(c)
    BY <1>1, WatchApplied DEF Upset
  <2>2. UNCHANGED <<chains, hooks>> /\ \A k \in Threads \ {t} : req'[k] = req[k]
    BY <1>1, ThreadFrame
  <2>3. Enforced(c)' <=> Enforced(c)
    <3>1. PICK ip \in Ips : ip = clients[c].ip
      BY <2>1, ExistingType DEF Row
    <3>2. QED
      BY <2>1, <2>2, <3>1, KeptIfUnchanged, EnforcedFrame
  <2>4. CASE /\ \A k \in Threads : ~(Answered(k) /\ c \in Concerned(k))
             /\ standing[c] = "applied"
    <3>1. CASE Enforced(c)
      BY <2>3, <3>1
    <3>2. ASSUME NEW k \in Threads, c \in Concerned(k), Committed(k) PROVE Good(c)'
      <4>1. CASE k = t
        BY <1>1, <2>4, <3>2, <4>1, StaysCommitted
      <4>2. CASE k # t
        <5>1. req'[k] = req[k]
          BY <2>2, <4>2
        <5>2. c \in Concerned(k)' /\ Committed(k)'
          BY <1>1, <3>2, <5>1 DEF Concerned, About, Committed
        <5>3. QED
          BY <5>2
      <4>3. QED
        BY <4>1, <4>2
    <3>3. QED
      BY <2>1, <2>4, <3>1, <3>2 DEF StandingInv
  <2>5. CASE /\ \E k \in Threads : Answered(k) /\ c \in Concerned(k)
             /\ Verdict(CHOOSE k \in Threads : Answered(k), c) = "applied"
    BY <2>1, <2>2, <2>3, <2>5, AnsweredEnforced
  <2>6. QED
    BY <1>1, <2>4, <2>5, WatchApplied
<1>2. ASSUME ServerStep, Watch, NEW c \in Existing', standing'[c] = "applied"
      PROVE  Good(c)'
  <2>1. UNCHANGED <<dbvars, req>>
    BY <1>2 DEF ServerStep
  <2>2. c \in Existing /\ ~Changed(c) /\ ~Upset(c) /\ standing[c] = "applied"
    BY <1>2, <2>1, WatchApplied DEF Upset, Answered
  <2>3. PICK ip \in Ips : ip = clients[c].ip /\ ip = clients'[c].ip
    BY <1>2, <2>2, ExistingType, WatchApplied DEF Row
  <2>4. ASSUME NEW k \in Threads, c \in Concerned(k), Committed(k) PROVE Good(c)'
    BY <1>2, <2>1, <2>4 DEF Concerned, About, Committed
  <2>5. ASSUME Enforced(c), Kept(ip) PROVE Good(c)'
    BY <2>2, <2>3, <2>5, EnforcedFrame
  <2>6. ASSUME NEW j \in Jobs, Command(j), On(j, ip) PROVE Good(c)'
    <3>1. On(j, ip)' /\ script[j] # NoScript
      BY <2>6, CommandScripts DEF On
    <3>2. Meddles(j, ip)'
      BY <2>1, <2>6, <3>1 DEF Meddles, Known, OwnersInv
    <3>3. Meddles(j, clients[c].ip)'
      BY <2>3, <3>2 DEF Meddles, On, Known
    <3>4. j \in Threads /\ c \in Concerned(j)'
      BY <2>2, <3>3 DEF Upset, Jobs
    <3>5. Committed(j)'
      BY <2>1, <3>1, <3>4 DEF OwnersInv, Committed
    <3>6. QED
      BY <3>4, <3>5
  <2>7. CASE Enforced(c)
    <3>1. ASSUME NEW j \in Jobs, Command(j), ~On(j, ip) PROVE Good(c)'
      BY <2>5, <2>7, <3>1, CommandElsewhere DEF Kept
    <3>2. CASE UNCHANGED <<chains, hooks>>
      BY <2>5, <2>7, <3>2, KeptIfUnchanged
    <3>3. QED
      BY <1>2, <2>6, <3>1, <3>2, ServerFrame
  <2>8. QED
    BY <2>2, <2>4, <2>7 DEF StandingInv
<1>3. ASSUME Restart, NEW c \in Existing', standing'[c] = "applied"
      PROVE  Good(c)'
  <2>1. UNCHANGED <<chains, hooks>> /\ UNCHANGED dbvars
    BY <1>3 DEF Restart, Kill, Detach
  <2>2. c \in Existing
    BY <1>3, <2>1, UnchangedTables
  <2>3. standing[c] = "applied" /\ ~InProgress(c)
    BY <1>3, <2>2 DEF Restart, Existing
  <2>4. Enforced(c)
    BY <2>2, <2>3 DEF StandingInv, InProgress
  <2>5. QED
    BY <2>1, <2>2, <2>4, StillEnforced
<1>4. ASSUME ServerReboot, NEW c \in Existing', standing'[c] = "applied"
      PROVE  FALSE
  BY <1>4 DEF ServerReboot, Existing
<1>5. ASSUME UNCHANGED vars, NEW c \in Existing', standing'[c] = "applied"
      PROVE  Good(c)'
  <2>1. UNCHANGED <<chains, hooks, dbvars, req, standing>>
    BY <1>5 DEF vars, tvars
  <2>2. c \in Existing
    BY <1>5, <2>1, UnchangedTables
  <2>3. CASE Enforced(c)
    BY <2>1, <2>2, <2>3, StillEnforced
  <2>4. ASSUME NEW k \in Threads, c \in Concerned(k), Committed(k) PROVE Good(c)'
    BY <1>5, <2>1, <2>4 DEF Concerned, About, Committed
  <2>5. QED
    BY <1>5, <2>1, <2>2, <2>3, <2>4 DEF StandingInv
<1>6. QED
  BY <1>1, <1>2, <1>3, <1>4, <1>5 DEF Next, StandingInv


-----------------------------------------------------------------------------
(* The inductive invariant, and what follows from it *)

LEMMA SettledInit == Init => JumpInv /\ SettledInv
<1> SUFFICES ASSUME Init PROVE JumpInv /\ SettledInv
  OBVIOUS
<1>1. TargetInit /\ Existing = {} /\ \A t \in Threads : req[t] = Idle /\ script[t] = NoScript
  BY DEF Init, TargetInit, Existing, Jobs
<1>2. JumpInv
  BY <1>1, JumpInit
<1>3. UniqueAddresses /\ StandingInv
  BY <1>1 DEF UniqueAddresses, StandingInv
<1>4. PhaseInv
  <2>1. Idle.at \in StepsOf(Idle.op) /\ Idle.op \notin {"cleanup", "delete_service"}
    BY IdleIs, StepsAre DEF QueueOps
  <2>2. QED
    BY <1>1, <2>1 DEF PhaseInv
<1>5. OwnersInv
  BY <1>1, IdleIs DEF OwnersInv
<1>6. CourseInv
  BY <1>1, IdleIs DEF CourseInv, Concerned, RowsCurrent, QueueOps
<1>7. QED
  BY <1>2, <1>3, <1>4, <1>5, <1>6 DEF SettledInv

LEMMA SettledStep ==
    (TargetInv /\ AppInv) /\ (JumpInv /\ SettledInv) /\ [Next]_vars => (JumpInv /\ SettledInv)'
<1> SUFFICES ASSUME TargetInv, AppInv, JumpInv, SettledInv, [Next]_vars
             PROVE  JumpInv' /\ SettledInv'
  OBVIOUS
<1>1. JumpInv'
  BY AppStep, JumpStep
<1>2. UniqueAddresses' /\ PhaseInv' /\ OwnersInv'
  BY UniqueStep, PhaseStep, OwnersStep DEF SettledInv
<1>3. CourseInv' /\ StandingInv'
  BY <1>2, CourseStep, StandingStep
<1>4. QED
  BY <1>1, <1>2, <1>3 DEF SettledInv

LEMMA SettledInvariant == Spec => [](JumpInv /\ SettledInv)
BY AppInvariant, SettledInit, SettledStep, PTL DEF Spec

(* No two clients have one address, whatever add_client() and              *)
(* set_client_wg_ip() do between each other's statements: so no two        *)
(* clients share a chain.                                                  *)
THEOREM AddressesStayUnique == Spec => []UniqueAddresses
<1>1. SettledInv => UniqueAddresses
  BY DEF SettledInv
<1>2. QED
  BY SettledInvariant, <1>1, PTL

(* A request of permissions.py that reports success, with nobody meddling  *)
(* in its affairs, has made the chain what the tables say, and so it stays *)
(* until the client's rows change or the server reboots: whatever times    *)
(* out, breaks off or runs on over SSH, whatever the app's restart cuts    *)
(* short, and whatever other requests do to the shared hook chain.         *)
THEOREM SettledClientsStayEnforced == Spec => []SettledStaysEnforced
<1>1. SettledInv => SettledStaysEnforced
  BY DEF SettledInv, StandingInv, SettledStaysEnforced, InProgress
<1>2. QED
  BY SettledInvariant, <1>1, PTL

-----------------------------------------------------------------------------
(* No rule outlives its client *)

LEMMA ClientsStay ==
    ASSUME AppInv, [Next]_vars, NEW c \in Existing, c \notin Existing'
    PROVE  \E t \in Threads : EraseClient(t) /\ req[t].cid = c
<1>1. ASSUME NEW n \in ClientIds, NEW row \in Row, clients' = [clients EXCEPT ![n] = row] PROVE FALSE
  BY <1>1, TablesTyped, AclAssumption DEF TablesTypeOK, Existing
<1>2. ASSUME NEW t \in Threads, add_client(t) PROVE FALSE
  <2>1. PICK ip \in Ips, b \in BOOLEAN :
           clients' = [clients EXCEPT ![autoinc.clients + 1] =
                          [id |-> autoinc.clients + 1, ip |-> ip, restricted |-> b]]
    BY <1>2 DEF add_client
  <2>2. autoinc.clients + 1 \in ClientIds
    BY <1>2, TablesTyped, AclAssumption DEF TablesTypeOK, add_client, ClientIds
  <2>3. [id |-> autoinc.clients + 1, ip |-> ip, restricted |-> b] \in Row
    BY <2>2 DEF Row
  <2>4. QED
    BY <1>1, <2>1, <2>2, <2>3
<1>3. ASSUME NEW t \in Threads, ToggleWrite(t) PROVE FALSE
  <2> DEFINE n == req[t].cid
             row == [clients[n] EXCEPT !.restricted = ~req[t].row.restricted]
  <2>1. UNCHANGED clients \/ (n \in Existing /\ clients' = [clients EXCEPT ![n] = row])
    BY <1>3 DEF ToggleWrite, Negate
  <2>2. n \in Existing => row \in Row
    BY ExistingType DEF Row
  <2> HIDE DEF row
  <2>3. QED
    BY <1>1, <2>1, <2>2 DEF Existing
<1>4. ASSUME NEW t \in Threads, Readdress(t) PROVE FALSE
  <2> DEFINE n == req[t].cid
             row(ip) == [clients[n] EXCEPT !.ip = ip]
  <2>1. UNCHANGED clients \/ (n \in Existing /\ \E ip \in req[t].ips : clients' = [clients EXCEPT ![n] = row(ip)])
    BY <1>4 DEF Readdress
  <2>2. req[t].ips \subseteq Ips
    BY <1>4, ReqSound DEF Request
  <2>3. \A ip \in Ips : n \in Existing => row(ip) \in Row
    BY ExistingType DEF Row
  <2> HIDE DEF row
  <2>4. QED
    BY <1>1, <2>1, <2>2, <2>3 DEF Existing
<1>5. ASSUME NEW t \in Threads, EraseClient(t) PROVE req[t].cid = c
  BY <1>5, TablesTyped DEF TablesTypeOK, EraseClient, Existing
<1>6. QED
  BY <1>2, <1>3, <1>4, <1>5, ClientsWriters DEF Existing

(* A new rule is for a client that is there. *)
LEMMA NewRules ==
    ASSUME AppInv, [Next]_vars, NEW r \in RuleIds, rules'[r] \notin {rules[r], NoRow}
    PROVE  rules'[r].client \in Existing /\ UNCHANGED clients
<1>1. ASSUME NEW t \in Threads, add_rule(t) PROVE rules'[r].client \in Existing /\ UNCHANGED clients
  <2>1. PICK c \in Existing : \E d, s :
           rules' = [rules EXCEPT ![autoinc.rules + 1] = [client |-> c, dest |-> d, service |-> s]]
    BY <1>1 DEF add_rule
  <2>2. UNCHANGED clients
    BY <1>1 DEF add_rule
  <2>3. QED
    BY <2>1, <2>2, TablesTyped DEF TablesTypeOK
<1>2. ASSUME NEW t \in Threads, Grant(t) PROVE rules'[r].client \in Existing /\ UNCHANGED clients
  BY <1>2, GrantStep DEF Grant
<1>3. ASSUME NEW R, EraseRules(R) PROVE FALSE
  BY <1>3, EraseType
<1>4. ASSUME NEW t \in Threads, add_client(t) \/ add_service(t) PROVE FALSE
  BY <1>4 DEF add_client, add_service
<1>5. ASSUME NEW t \in Threads, delete_tag(t) \/ EraseRule(t) \/ EraseService(t) \/ EraseClient(t)
      PROVE  \E R : EraseRules(R)
  BY <1>5 DEF delete_tag, EraseRule, EraseService, EraseClient
<1>6. QED
  BY <1>1, <1>2, <1>3, <1>4, <1>5, RuleWriters DEF RuleWriter

LEMMA RulesHaveClientsStep ==
    ASSUME AppInv, RulesHaveClients, [Next]_vars
    PROVE  RulesHaveClients'
<1> SUFFICES ASSUME NEW r \in RuleIds, rules'[r] # NoRow PROVE rules'[r].client \in Existing'
  BY DEF RulesHaveClients
<1>1. CASE rules'[r] # rules[r]
  BY <1>1, NewRules DEF Existing
<1>2. CASE rules'[r] = rules[r]
  <2> DEFINE c == rules[r].client
  <2>1. c \in Existing
    BY <1>2 DEF RulesHaveClients
  <2>2. ASSUME NEW t \in Threads, EraseClient(t), req[t].cid = c PROVE FALSE
    BY <1>2, <2>2, EraseType DEF EraseClient, RulesWith
  <2>3. QED
    BY <1>2, <2>1, <2>2, ClientsStay
<1>3. QED
  BY <1>1, <1>2

LEMMA RulesHaveClientsInvariant == Spec => []RulesHaveClients
<1>1. Init => RulesHaveClients
  BY DEF Init, RulesHaveClients
<1>2. (TargetInv /\ AppInv) /\ RulesHaveClients /\ [Next]_vars => RulesHaveClients'
  BY RulesHaveClientsStep
<1>3. QED
  BY <1>1, <1>2, AppInvariant, PTL DEF Spec

-----------------------------------------------------------------------------
(* Reading the plan *)

(* The addresses behind a rule's destination. *)
Reach(d, c) == IF d \in Groups THEN tag_member_ips(d, c) ELSE {d}

(* What rule r allows its client c. *)
Allowed(r, c) == Reach(rules[r].dest, c) \X {Filter(services[rules[r].service])}

LEMMA RuleFilter ==
    ASSUME AppInv, NEW r \in RuleIds, rules[r] # NoRow
    PROVE  Filter(services[rules[r].service]) \in Filters
<1>1. rules[r].service \in ServiceIds
  BY TablesTyped DEF TablesTypeOK, RuleRow
<1>2. services[rules[r].service] \in Kinds \cup {AllPorts}
  BY <1>1, TablesTyped DEF TablesTypeOK, ReferencesInv
<1>3. QED
  BY <1>2 DEF Filters

LEMMA PolicyByRule ==
    ASSUME AppInv, NEW c, NEW x
    PROVE  x \in Policy(c) <=> \E r \in RulesWith("client", c) : x \in Allowed(r, c)
<1> DEFINE L == RawLines(c)
           G == Groups \X Filters
           line(r) == <<rules[r].dest, Filter(services[rules[r].service])>>
<1>1. \A l : l \in L <=> \E r \in RulesWith("client", c) : l = line(r)
  BY DEF RawLines
<1>2. \A r \in RulesWith("client", c) : line(r) \in G <=> rules[r].dest \in Groups
  BY RuleFilter DEF RulesWith
<1>3. \A r : line(r)[1] = rules[r].dest /\ line(r)[2] = Filter(services[rules[r].service])
  OBVIOUS
<1>4. \A r \in RulesWith("client", c) : rules[r].dest \notin Groups => (x \in Allowed(r, c) <=> x = line(r))
  BY DEF Allowed, Reach
<1>5. \A r \in RulesWith("client", c) : rules[r].dest \in Groups =>
         (x \in Allowed(r, c) <=> x \in tag_member_ips(line(r)[1], c) \X {line(r)[2]})
  BY <1>3 DEF Allowed, Reach
<1>6. x \in Policy(c) <=> \/ x \in L /\ x \notin G
                          \/ \E l \in L : l \in G /\ x \in tag_member_ips(l[1], c) \X {l[2]}
  BY DEF Policy
<1> HIDE DEF L, G, line
<1>7. QED
  BY <1>1, <1>2, <1>4, <1>5, <1>6

LEMMA DrawnByRule ==
    ASSUME AppInv, UniqueAddresses, RulesHaveClients, NEW c \in Existing, NEW x
    PROVE  x \in Drawn(c) <=> \E r \in RulesWith("client", c) : x \in Allowed(r, c)
<1> DEFINE edge(rule) ==
             [from |-> clients[rule.client].ip, to |-> rule.dest,
              services |-> {other.service : other \in {q \in RuleSet :
                               q.client = rule.client /\ q.dest = rule.dest}}]
           reads(e) == Reach(e.to, c) \X {Filter(services[s]) : s \in e.services}
<1>1. x \in Drawn(c) <=> \E rule \in RuleSet : edge(rule).from = clients[c].ip /\ x \in reads(edge(rule))
  <2>1. acl_edges = {edge(rule) : rule \in RuleSet}
    BY DEF acl_edges
  <2>2. Drawn(c) = UNION {reads(e) : e \in {a \in acl_edges : a.from = clients[c].ip}}
    BY DEF Drawn, Reach
  <2> HIDE DEF edge, reads
  <2>3. QED
    BY <2>1, <2>2
<1>2. \A rule \in RuleSet : edge(rule).from = clients[c].ip <=> rule.client = c
  BY DEF RuleSet, RulesHaveClients, UniqueAddresses
<1>3. \A rule : x \in reads(edge(rule)) <=>
         \E q \in RuleSet : /\ q.client = rule.client /\ q.dest = rule.dest
                            /\ x \in Reach(q.dest, c) \X {Filter(services[q.service])}
  OBVIOUS
<1> HIDE DEF edge, reads
<1>4. x \in Drawn(c) <=>
         \E q \in RuleSet : q.client = c /\ x \in Reach(q.dest, c) \X {Filter(services[q.service])}
  BY <1>1, <1>2, <1>3
<1>5. QED
  BY <1>4 DEF RuleSet, RulesWith, Allowed

LEMMA PlanReads ==
    ASSUME AppInv, UniqueAddresses, RulesHaveClients, NEW c \in Existing
    PROVE  /\ Drawn(c) = Policy(c)
           /\ Highlighted(c) <=> ~clients[c].restricted
<1>1. Drawn(c) = Policy(c)
  <2>1. \A x : x \in Drawn(c) <=> x \in Policy(c)
    BY PolicyByRule, DrawnByRule
  <2>2. QED
    BY <2>1
<1>2. Highlighted(c) <=> \E row \in Rows : row.ip = clients[c].ip /\ ~row.restricted
  <2>1. clients[c].ip \in ring_ips /\ clients[c] \in Rows
    BY DEF ring_ips, Rows
  <2> DEFINE node(k) ==
               [ip |-> k,
                unrestricted |-> \E row \in Rows : row.ip = k /\ ~row.restricted,
                is_client    |-> \E row \in Rows : row.ip = k,
                is_group     |-> k \in Groups,
                is_server    |-> k = Server]
  <2>2. nodes = {node(k) : k \in {Server} \cup ring_ips \cup group_keys}
    BY DEF nodes
  <2>3. \A k : /\ node(k).ip = k
               /\ node(k).is_client <=> \E row \in Rows : row.ip = k
               /\ node(k).unrestricted <=> \E row \in Rows : row.ip = k /\ ~row.restricted
    OBVIOUS
  <2> HIDE DEF node
  <2>4. Highlighted(c) <=>
           \E k \in {Server} \cup ring_ips \cup group_keys :
              node(k).ip = clients[c].ip /\ node(k).is_client /\ node(k).unrestricted
    BY <2>2, Zenon DEF Highlighted
  <2>5. QED
    BY <2>1, <2>3, <2>4, Zenon
<1>3. \A row \in Rows : row.ip = clients[c].ip => row = clients[c]
  BY DEF Rows, UniqueAddresses
<1>4. QED
  BY <1>1, <1>2, <1>3 DEF Rows

(* build_netzplan_data() never asks the server; still, for a client whose  *)
(* last request succeeded and whose rows have not changed since, the       *)
(* packets meet on the server what the plan shows.                         *)
THEOREM PlanShowsWhatPacketsMeet == Spec => []PlanShowsChains
<1>1. AppInv /\ RulesHaveClients /\ SettledInv => PlanShowsChains
  <2> SUFFICES ASSUME AppInv, RulesHaveClients, SettledInv, NEW c \in Existing,
                      standing[c] = "applied", ~InProgress(c)
               PROVE  LET ip == clients[c].ip
                      IN  IF Highlighted(c) THEN Hooked(ip) => chains[ip] = EmptyChain
                          ELSE Hooked(ip) /\ chains[ip] = [accepts |-> Drawn(c), drop |-> TRUE]
    BY DEF PlanShowsChains
  <2>1. Enforced(c)
    BY DEF SettledInv, StandingInv, InProgress
  <2>2. QED
    BY <2>1, PlanReads DEF SettledInv, Enforced
<1>2. QED
  BY <1>1, AppInvariant, SettledInvariant, RulesHaveClientsInvariant, PTL

=============================================================================
