---------------------------- MODULE ResidueProofs ----------------------------
(***************************************************************************)
(* Nothing is left behind on the server: NoResidue for any number of       *)
(* addresses, clients, rules and groups, as long as requests come one at a *)
(* time and nothing fails.                                                 *)
(***************************************************************************)
EXTENDS SettledProofs

-----------------------------------------------------------------------------
(* What stays while chains and jumps do *)

LEMMA ServerStays ==
    ASSUME UNCHANGED <<chains, hooks>>
    PROVE  \A ip : /\ Bare(ip)' <=> Bare(ip)
                   /\ HasDrop(ip)' <=> HasDrop(ip)
                   /\ Hooked(ip)' <=> Hooked(ip)
                   /\ OneJump(ip)' <=> OneJump(ip)
BY DEF Bare, HasDrop, Hooked, Holds, OneJump, Single

(* Somebody's row is overwritten, and the others stay. *)
LEMMA OtherRowsStay ==
    ASSUME AppInv, NEW n, NEW x, clients' = [clients EXCEPT ![n] = x],
           NEW d \in Existing, d # n
    PROVE  d \in Existing' /\ clients[d] \in Rows'
BY TablesTyped DEF TablesTypeOK, Existing, Rows

LEMMA TidyStays ==
    ASSUME UNCHANGED <<chains, hooks>>, NEW ip, Tidy(ip),
           \A d \in Existing : clients[d].ip = ip /\ ~Bare(ip) => clients[d] \in Rows'
    PROVE  Tidy(ip)'
<1>1. CASE Bare(ip)
  BY <1>1, ServerStays DEF Tidy
<1>2. CASE ~Bare(ip)
  BY <1>2, ServerStays DEF Tidy, Filtered, Rows
<1>3. QED
  BY <1>1, <1>2

LEMMA TidyWithRows ==
    ASSUME UNCHANGED <<chains, hooks, clients>>, NEW ip
    PROVE  Tidy(ip)' <=> Tidy(ip)
BY ServerStays DEF Tidy, Filtered, Rows, Existing

-----------------------------------------------------------------------------
(* The scripts that requests hand over *)

LEMMA RemoveType ==
    ASSUME NEW ip \in Ips, NEW h \in Hooks
    PROVE  build_remove_script(ip, h) \in Script
BY DEF build_remove_script, Script, RemoveSteps

LEMMA ApplyType ==
    ASSUME NEW ip \in Ips, NEW h \in Hooks, NEW P \in SUBSET Targets
    PROVE  build_apply_script(ip, P, h) \in Script
BY DEF build_apply_script, Script, ApplySteps

(* The script that t hands over, if any, works on the hook chain detected. *)
HandsOver(t) ==
    IF req'[t].at = "run" THEN script'[t] \in Script /\ script'[t].hook = req'[t].hook
                          ELSE UNCHANGED script

LEMMA LaunchHandsOver ==
    ASSUME TargetInv, AppInv, NEW t \in Threads, NEW r \in Request, NEW s \in Script,
           s.hook = r.hook, Launch(t, r, s)
    PROVE  HandsOver(t) /\ req'[t].hook = r.hook
<1>1. script'[t] = s
  BY DEF Launch, Start, TargetInv, TargetTypeOK, Jobs
<1>2. req'[t] = [r EXCEPT !.at = "run", !.groups = {}, !.targets = {}]
  BY ReqType DEF Launch, Move
<1>3. req'[t].hook = r.hook /\ req'[t].at = "run"
  BY <1>2 DEF Request
<1>4. QED
  BY <1>1, <1>3 DEF HandsOver

LEMMA DetectHandsOver ==
    ASSUME TargetInv, AppInv, NEW t \in Threads, Detect(t)
    PROVE  HandsOver(t) /\ req'[t].hook \in detect_hook_chain
<1>1. PICK h \in detect_hook_chain :
         LET r == [req[t] EXCEPT !.hook = h]
         IN  \/ /\ Removing(r) \/ (r.row # NoRow /\ ~r.row.restricted)
                /\ Launch(t, r, build_remove_script(r.row.ip, h))
             \/ /\ \/ Move(t, [r EXCEPT !.at = "orphans"]) \/ Move(t, [r EXCEPT !.at = "read"])
                   \/ Move(t, [r EXCEPT !.failed = TRUE, !.at = "reply"])
                /\ UNCHANGED tvars
  BY Zenon DEF Detect
<1> DEFINE r == [req[t] EXCEPT !.hook = h]
<1>2. h \in Hooks
  BY HookType
<1>3. r \in Request /\ r.hook = h /\ r.row = req[t].row
  BY <1>2, RequestIsTyped DEF Request
<1>4. Removing(r) <=> Removing(req[t])
  BY RequestIsTyped DEF Removing, Request
<1>5. Removing(r) \/ r.row # NoRow => r.row \in Row
  BY <1>3, <1>4, ReqSound DEF Request, RequestOK, Detect
<1>6. \/ /\ r.row \in Row
         /\ Launch(t, r, build_remove_script(r.row.ip, h))
      \/ /\ \/ req'[t] = [r EXCEPT !.at = "orphans"] \/ req'[t] = [r EXCEPT !.at = "read"]
            \/ req'[t] = [r EXCEPT !.failed = TRUE, !.at = "reply"]
         /\ UNCHANGED script
  BY <1>1, <1>5, ReqType DEF Move, tvars
<1> HIDE DEF r
<1>7. CASE r.row \in Row /\ Launch(t, r, build_remove_script(r.row.ip, h))
  <2> DEFINE s == build_remove_script(r.row.ip, h)
  <2>1. s \in Script /\ s.hook = h
    BY <1>2, <1>7, RemoveType DEF Row, build_remove_script
  <2> HIDE DEF s
  <2>2. QED
    BY <1>3, <1>7, <2>1, LaunchHandsOver DEF s
<1>8. QED
  BY <1>3, <1>6, <1>7, Zenon DEF HandsOver, Request

LEMMA ReadRulesHandsOver ==
    ASSUME TargetInv, AppInv, NEW t \in Threads, ReadRules(t)
    PROVE  HandsOver(t) /\ req'[t].hook = req[t].hook
<1> DEFINE L == RawLines(req[t].row.id) \ (Groups \X Filters)
           G == RawLines(req[t].row.id) \cap (Groups \X Filters)
           r == [req[t] EXCEPT !.groups = G, !.targets = L]
<1>1. \/ Launch(t, r, build_apply_script(r.row.ip, r.targets, r.hook))
      \/ req'[t] = [r EXCEPT !.at = "resolve"] /\ UNCHANGED script
  BY ReqType DEF ReadRules, Move, tvars
<1>2. L \subseteq Targets /\ G \subseteq Groups \X Filters
  BY LinesType, AclAssumption
<1>3. req[t].row \in Row
  BY ReqSound DEF ReadRules, RequestOK, Request
<1> HIDE DEF L, G
<1>4. r \in Request
  BY <1>2, LinesRead, RequestIsTyped, Zenon
<1>5. r.targets = L /\ r.row = req[t].row /\ r.hook = req[t].hook /\ r.hook \in Hooks
  BY RequestIsTyped DEF Request
<1> HIDE DEF r
<1>6. CASE Launch(t, r, build_apply_script(r.row.ip, r.targets, r.hook))
  <2> DEFINE s == build_apply_script(r.row.ip, r.targets, r.hook)
  <2>1. s \in Script /\ s.hook = r.hook
    BY <1>2, <1>3, <1>5, ApplyType DEF Row, build_apply_script
  <2> HIDE DEF s
  <2>2. QED
    BY <1>4, <1>5, <1>6, <2>1, LaunchHandsOver DEF s
<1>7. QED
  BY <1>1, <1>4, <1>5, <1>6 DEF HandsOver, Request

LEMMA ResolveGroupHandsOver ==
    ASSUME TargetInv, AppInv, NEW t \in Threads, ResolveGroup(t)
    PROVE  HandsOver(t) /\ req'[t].hook = req[t].hook
<1>1. PICK l \in req[t].groups :
         LET r == [req[t] EXCEPT !.groups = @ \ {l},
                                 !.targets = @ \cup tag_member_ips(l[1], req[t].row.id) \X {l[2]}]
         IN  \/ Launch(t, r, build_apply_script(r.row.ip, r.targets, r.hook))
             \/ Move(t, r) /\ UNCHANGED tvars
  BY Zenon DEF ResolveGroup
<1> DEFINE L == req[t].targets \cup tag_member_ips(l[1], req[t].row.id) \X {l[2]}
           G == req[t].groups \ {l}
           r == [req[t] EXCEPT !.groups = G, !.targets = L]
<1>2. L \subseteq Targets /\ G \subseteq Groups \X Filters
  <2>1. /\ G \subseteq Groups \X Filters /\ l \in Groups \X Filters
        /\ req[t].targets \subseteq Targets
    BY RequestIsTyped DEF Request
  <2>2. tag_member_ips(l[1], req[t].row.id) \X {l[2]} \subseteq Targets
    BY <2>1, MembersType, AclAssumption
  <2>3. QED
    BY <2>1, <2>2
<1>3. req[t].row \in Row
  BY ReqSound DEF ResolveGroup, RequestOK, Request
<1>4. \/ Launch(t, r, build_apply_script(r.row.ip, r.targets, r.hook))
      \/ req'[t] = r /\ UNCHANGED script
  BY <1>1, ReqType DEF Move, tvars
<1> HIDE DEF L, G
<1>5. r \in Request
  BY <1>2, LinesRead, RequestIsTyped, Zenon
<1>6. /\ r.targets = L /\ r.row = req[t].row /\ r.hook = req[t].hook /\ r.hook \in Hooks
      /\ r.at = "resolve"
  BY RequestIsTyped DEF Request, ResolveGroup
<1> HIDE DEF r
<1>7. CASE Launch(t, r, build_apply_script(r.row.ip, r.targets, r.hook))
  <2> DEFINE s == build_apply_script(r.row.ip, r.targets, r.hook)
  <2>1. s \in Script /\ s.hook = r.hook
    BY <1>2, <1>3, <1>6, ApplyType DEF Row, build_apply_script
  <2> HIDE DEF s
  <2>2. QED
    BY <1>5, <1>6, <1>7, <2>1, LaunchHandsOver DEF s
<1>8. QED
  BY <1>4, <1>5, <1>6, <1>7 DEF HandsOver, Request

LEMMA NextOrphanHandsOver ==
    ASSUME TargetInv, AppInv, NEW t \in Threads, NextOrphan(t)
    PROVE  HandsOver(t) /\ req'[t].hook = req[t].hook
<1>1. CASE req'[t] = [req[t] EXCEPT !.at = "reply"] /\ UNCHANGED script
  BY <1>1, RequestIsTyped DEF HandsOver, Request
<1>2. ASSUME NEW ip \in req[t].ips,
             Launch(t, [req[t] EXCEPT !.ips = @ \ {ip}], build_remove_script(ip, req[t].hook))
      PROVE  HandsOver(t) /\ req'[t].hook = req[t].hook
  <2> DEFINE I == req[t].ips \ {ip}
             r == [req[t] EXCEPT !.ips = I]
             s == build_remove_script(ip, req[t].hook)
  <2>1. I \subseteq Ips /\ ip \in Ips /\ req[t].hook \in Hooks
    BY RequestIsTyped DEF Request
  <2> HIDE DEF I
  <2>2. r \in Request /\ r.hook = req[t].hook
    BY <2>1, RequestIsTyped DEF Request
  <2>3. s \in Script /\ s.hook = req[t].hook
    BY <2>1, RemoveType DEF build_remove_script
  <2>4. Launch(t, r, s)
    BY <1>2 DEF I
  <2> HIDE DEF r, s
  <2>5. QED
    BY <2>2, <2>3, <2>4, LaunchHandsOver
<1>3. QED
  BY <1>1, <1>2, ReqType DEF NextOrphan, Move, tvars

LEMMA FinishRunKeepsHook ==
    ASSUME AppInv, NEW t \in Threads, FinishRun(t)
    PROVE  req'[t].hook = req[t].hook
<1>1. \E f, step : req'[t] = [req[t] EXCEPT !.failed = f, !.at = step]
  BY ReqType, Zenon DEF FinishRun, Return, Move
<1>2. QED
  BY <1>1, RequestIsTyped DEF Request

-----------------------------------------------------------------------------
(* What a request has in hand stays what there is *)

LEMMA SameRows ==
    ASSUME UNCHANGED clients
    PROVE  Existing' = Existing /\ Rows' = Rows
BY DEF Existing, Rows

LEMMA ProbeFinds ==
    ASSUME Faults = {}, NEW h \in detect_hook_chain
    PROVE  h = RealHook
BY DEF detect_hook_chain

(* The statements that change the table have no client in hand. *)
LEMMA WritersHand ==
    ASSUME AppInv, PhaseInv, NEW t \in Threads, HandOK(req[t]),
           ToggleWrite(t) \/ EraseClient(t) \/ Readdress(t)
    PROVE  HandOK(req[t])'
<1>1. req[t].at \in StepsOf(req[t].op)
  BY DEF PhaseInv
<1>2. CASE ToggleWrite(t)
  <2> DEFINE n == req[t].cid
             row == [clients[n] EXCEPT !.restricted = ~req[t].row.restricted]
  <2>1. req[t].at = "toggle" /\ Goes(t, "reread")
    BY <1>2, QuietEffect
  <2>2. req[t].op = "toggle_client" /\ n \in Existing
    BY <2>1 DEF HandOK
  <2>3. clients' = [clients EXCEPT ![n] = row]
    BY <1>2, <2>2 DEF ToggleWrite, Negate
  <2>4. row \in Row
    BY <2>2, ExistingType DEF Row
  <2> HIDE DEF row
  <2>5. n \in Existing'
    BY <2>2, <2>3, <2>4, TablesTyped, AclAssumption DEF TablesTypeOK, Existing
  <2>6. QED
    BY <2>1, <2>2, <2>5 DEF HandOK, Goes, Removing, InHand, QueueOps
<1>3. CASE EraseClient(t)
  <2>1. req[t].at = "eraseClient" /\ Goes(t, "reply")
    BY <1>3, QuietEffect
  <2>2. req[t].op \notin QueueOps /\ req[t].op # "toggle_client"
    BY <1>1, <2>1, StepsAre DEF HandOK
  <2>3. QED
    BY <2>1, <2>2 DEF HandOK, Goes, Removing, InHand
<1>4. CASE Readdress(t)
  <2>1. /\ req[t].at = "readdress" /\ req'[t].op = req[t].op
        /\ req'[t].at \in {"reread", "reply"}
    BY <1>4, ReaddressEffect
  <2>2. req[t].op = "set_client_wg_ip"
    BY <2>1, ReqSound DEF RequestOK
  <2>3. QED
    BY <2>1, <2>2 DEF HandOK, Removing, InHand, QueueOps
<1>5. QED
  BY <1>2, <1>3, <1>4

LEMMA DetectHand ==
    ASSUME TargetInv, AppInv, PhaseInv, Faults = {}, NEW t \in Threads, HandOK(req[t]), Detect(t)
    PROVE  HandOK(req[t])'
<1>1. req[t].at = "detect" /\ UNCHANGED clients
  BY DetectEffect DEF dbvars
<1>2. req'[t].hook = RealHook
  BY DetectHandsOver, ProbeFinds
<1>3. Existing' = Existing /\ Rows' = Rows
  BY <1>1, SameRows
<1>4. \/ req[t].op = "cleanup" /\ Goes(t, "orphans")
      \/ Goes(t, "run")
      \/ Goes(t, "read") /\ ~Removing(req[t]) /\ req[t].row.restricted
      \/ Goes(t, "reply")
  BY DetectEffect
<1>5. QED
  BY <1>1, <1>2, <1>3, <1>4 DEF HandOK, Goes, Removing, InHand, QueueOps

LEMMA FinishRunHand ==
    ASSUME TargetInv, AppInv, PhaseInv, NEW t \in Threads, HandOK(req[t]), Tidies(t), FinishRun(t)
    PROVE  HandOK(req[t])'
<1>1. /\ req[t].at = "run" /\ Goes(t, AfterRun(req[t])) /\ UNCHANGED clients
      /\ script' = [script EXCEPT ![t] = NoScript]
  BY FinishRunEffect DEF dbvars
<1>2. UNCHANGED <<chains, hooks>>
  BY DEF FinishRun, Return
<1>3. req'[t].hook = req[t].hook
  BY FinishRunKeepsHook
<1>4. Existing' = Existing /\ Rows' = Rows
  BY <1>1, SameRows
<1>5. AfterRun(req[t]) \in {"next", "orphans", "eraseClient", "readdress", "reply"}
  BY DEF AfterRun
<1>6. AfterRun(req[t]) \in {"eraseClient", "readdress"} => Removing(req[t])
  BY DEF AfterRun, Removing
<1>7. AfterRun(req[t]) = "eraseClient" => req[t].op = "delete_client"
  BY DEF AfterRun
<1>8. ASSUME Removing(req[t]), req[t].cid \in Existing
      PROVE  Bare(clients[req[t].cid].ip)
  <2>1. script[t].at = "done"
    BY <1>1 DEF Tidies, FinishRun, Ended, EndSteps
  <2>2. Bare(script[t].ip)
    BY <1>1, <1>8, <2>1 DEF Tidies
  <2>3. script[t].ip = clients[req[t].cid].ip
    BY <1>1, <1>8 DEF Tidies, HandOK, InHand, Removing
  <2>4. QED
    BY <2>2, <2>3
<1>9. \A ip : Bare(ip) => Bare(ip)'
  BY <1>2, ServerStays
<1>10. \A c : Bare(clients[c].ip) => Bare(clients[c].ip)'
  BY <1>1, <1>9 DEF Bare, Hooked, Holds
<1>11. QED
  BY <1>1, <1>3, <1>4, <1>5, <1>6, <1>7, <1>8, <1>10 DEF HandOK, Goes, Removing, InHand, QueueOps

LEMMA ContinueHand ==
    ASSUME TargetInv, AppInv, PhaseInv, Faults = {}, NEW t \in Threads,
           HandOK(req[t]), Tidies(t), Continue(t)
    PROVE  HandOK(req[t])'
<1>1. req[t].at \in StepsOf(req[t].op)
  BY DEF PhaseInv
<1>2. ASSUME UNCHANGED clients PROVE Existing' = Existing /\ Rows' = Rows
  BY <1>2, SameRows
<1>3. CASE EraseService(t) \/ Reply(t)
  <2>1. req'[t] = Idle
    BY <1>3, QuietEffect
  <2>2. QED
    BY <2>1 DEF HandOK, Idle, Removing, InHand, QueueOps
<1>4. CASE EraseRule(t) \/ ReadGrants(t)
  <2>1. UNCHANGED clients
    BY <1>4 DEF EraseRule, ReadGrants, dbvars
  <2>2. \/ req[t].at = "eraseRule" /\ Goes(t, "reread")
        \/ req[t].at = "grants" /\ Goes(t, "grant")
    BY <1>4, QuietEffect
  <2>3. QED
    BY <1>2, <2>1, <2>2 DEF HandOK, Goes, Removing, InHand, QueueOps
<1>5. CASE Grant(t)
  <2>1. /\ req[t].at = "grant" /\ UNCHANGED clients
        /\ Goes(t, "unchanged") \/ Goes(t, "reply") \/ Goes(t, "detect")
    BY <1>5, GrantEffect
  <2>2. QED
    BY <1>2, <2>1 DEF HandOK, Goes, Removing, InHand, QueueOps
<1>6. CASE Reread(t)
  <2>1. /\ req[t].at = "reread" /\ UNCHANGED clients
        /\ req'[t].at = "detect" /\ req'[t].row = clients[req[t].cid]
        /\ req'[t].op = req[t].op /\ req'[t].cid = req[t].cid
        /\ req'[t].queue = req[t].queue /\ req'[t].ips = req[t].ips
    BY <1>6, RereadEffect DEF dbvars
  <2>2. req[t].cid \in ClientIds /\ ~Removing(req[t])
    BY <2>1, ReqSound DEF RequestOK
  <2>3. clients[req[t].cid] \in Rows \cup {NoRow}
    BY <2>2 DEF Rows, Existing
  <2>4. QED
    BY <1>2, <2>1, <2>2, <2>3 DEF HandOK, Removing, InHand, QueueOps
<1>7. CASE ListChains(t)
  <2>1. /\ req[t].at = "list" /\ UNCHANGED clients
        /\ req'[t].op = req[t].op /\ req'[t].cid = req[t].cid
        /\ req'[t].at \in {"detect", "reply"}
    BY <1>7, ListChainsEffect DEF Goes, dbvars
  <2>2. req[t].op = "cleanup"
    BY <2>1, ReqSound DEF RequestOK
  <2>3. QED
    BY <1>2, <2>1, <2>2 DEF HandOK, Removing, InHand, QueueOps
<1>8. CASE ReadRules(t)
  <2>1. /\ req[t].at = "read" /\ UNCHANGED clients
        /\ Goes(t, "run") \/ Goes(t, "resolve")
    BY <1>8, ReadRulesEffect DEF dbvars
  <2>2. req'[t].hook = req[t].hook
    BY <1>8, ReadRulesHandsOver
  <2>3. QED
    BY <1>2, <2>1, <2>2 DEF HandOK, Goes, Removing, InHand, QueueOps
<1>9. CASE ResolveGroup(t)
  <2>1. /\ req[t].at = "resolve" /\ UNCHANGED clients
        /\ Goes(t, "run") \/ Goes(t, "resolve")
    BY <1>9, ResolveGroupEffect DEF dbvars
  <2>2. req'[t].hook = req[t].hook
    BY <1>9, ResolveGroupHandsOver
  <2>3. QED
    BY <1>2, <2>1, <2>2 DEF HandOK, Goes, Removing, InHand, QueueOps
<1>10. CASE NextClient(t)
  <2>1. req[t].at = "next" /\ UNCHANGED clients
    BY <1>10, NextClientEffect DEF dbvars
  <2>2. req[t].op \in QueueOps
    BY <1>1, <2>1, StepsAre DEF QueueOps
  <2>3. CASE Goes(t, "reply")
    BY <1>2, <2>1, <2>2, <2>3 DEF HandOK, Goes, Removing, InHand, QueueOps
  <2>4. ASSUME NEW row \in req[t].queue,
               req'[t].at = "detect", req'[t].row = row, req'[t].queue = req[t].queue \ {row},
               req'[t].op = req[t].op, req'[t].cid = req[t].cid
        PROVE  HandOK(req[t])'
    BY <1>2, <2>1, <2>2, <2>4 DEF HandOK, Removing, InHand, QueueOps
  <2>5. QED
    BY <1>10, <2>3, <2>4, NextClientEffect
<1>11. CASE NextOrphan(t)
  <2>1. /\ req[t].at = "orphans" /\ UNCHANGED clients
        /\ req'[t].op = req[t].op /\ req'[t].at \in {"run", "reply"}
    BY <1>11, NextOrphanEffect DEF Goes, dbvars
  <2>2. req'[t].hook = req[t].hook
    BY <1>11, NextOrphanHandsOver
  <2>3. req[t].op = "cleanup"
    BY <1>1, <2>1, StepsAre
  <2>4. QED
    BY <1>2, <2>1, <2>2, <2>3 DEF HandOK, Removing, InHand, QueueOps
<1>12. QED
  BY <1>3, <1>4, <1>5, <1>6, <1>7, <1>8, <1>9, <1>10, <1>11,
     WritersHand, DetectHand, FinishRunHand DEF Continue

-----------------------------------------------------------------------------
(* A script begins, and ends, as tidily as it should *)

LEMMA QuietTidies ==
    ASSUME NEW t \in Threads, Tidies(t), req[t].at # "run", req'[t].at # "run", UNCHANGED script
    PROVE  Tidies(t)'
BY DEF Tidies

LEMMA RemoveTidies ==
    ASSUME TargetInv, NEW t \in Threads, HandsOver(t), req'[t].at = "run", req'[t].hook = RealHook,
           NEW ip, NEW h, script' = [script EXCEPT ![t] = build_remove_script(ip, h)],
           req'[t].op # "cleanup" => req'[t].row # NoRow /\ ip = req'[t].row.ip
    PROVE  Tidies(t)'
<1>1. script'[t].ip = ip /\ script'[t].at = "unhook"
  BY LaunchedRemove
<1>2. script'[t] # NoScript /\ script'[t].hook = RealHook
  BY ScriptAssumption DEF HandsOver
<1>3. QED
  BY <1>1, <1>2 DEF Tidies, Hooking, At, ApplySteps

LEMMA ApplyTidies ==
    ASSUME TargetInv, NEW t \in Threads, HandsOver(t), req'[t].at = "run", req'[t].hook = RealHook,
           NEW ip, NEW P, NEW h, script' = [script EXCEPT ![t] = build_apply_script(ip, P, h)],
           req'[t].op # "cleanup", req'[t].row # NoRow, ip = req'[t].row.ip,
           ~Removing(req[t])', req'[t].row.restricted
    PROVE  Tidies(t)'
<1>1. script'[t].ip = ip /\ script'[t].at = "new"
  BY LaunchedApply
<1>2. script'[t] # NoScript /\ script'[t].hook = RealHook
  BY ScriptAssumption DEF HandsOver
<1>3. QED
  BY <1>1, <1>2 DEF Tidies, Hooking, At, ApplySteps

LEMMA ContinueTidies ==
    ASSUME TargetInv, AppInv, PhaseInv, Faults = {}, NEW t \in Threads,
           HandOK(req[t]), Tidies(t), Continue(t)
    PROVE  Tidies(t)'
<1>1. req[t].at \in StepsOf(req[t].op)
  BY DEF PhaseInv
<1>2. CASE Detect(t)
  <2>1. HandsOver(t) /\ req'[t].hook = RealHook
    BY <1>2, DetectHandsOver, ProbeFinds
  <2>2. req[t].at = "detect"
    BY <1>2, DetectEffect
  <2>3. CASE req'[t].at # "run"
    BY <2>1, <2>2, <2>3, QuietTidies DEF HandsOver
  <2>4. CASE req'[t].at = "run"
    <3>1. PICK h : /\ req[t].op # "cleanup" /\ Goes(t, "run")
                   /\ Removing(req[t]) \/ req[t].row # NoRow
                   /\ script' = [script EXCEPT ![t] = build_remove_script(req[t].row.ip, h)]
      BY <1>2, <2>4, DetectEffect DEF Goes
    <3>2. req[t].row # NoRow
      BY <2>2, <3>1, ReqSound DEF RequestOK
    <3>3. QED
      BY <2>1, <3>1, <3>2, RemoveTidies DEF Goes
  <2>5. QED
    BY <2>3, <2>4
<1>3. ASSUME req[t].at \in {"read", "resolve"}, HandsOver(t), req'[t].hook = req[t].hook,
             Goes(t, "resolve") \/
             (Goes(t, "run") /\ \E P, h : script' = [script EXCEPT ![t] = build_apply_script(req[t].row.ip, P, h)])
      PROVE  Tidies(t)'
  <2>1. CASE Goes(t, "resolve")
    BY <1>3, <2>1, QuietTidies DEF HandsOver, Goes
  <2>2. CASE Goes(t, "run") /\ \E P, h : script' = [script EXCEPT ![t] = build_apply_script(req[t].row.ip, P, h)]
    <3>1. PICK P, h : script' = [script EXCEPT ![t] = build_apply_script(req[t].row.ip, P, h)]
      BY <2>2
    <3>2. /\ req[t].op # "cleanup" /\ req[t].row # NoRow
          /\ ~Removing(req[t]) /\ req[t].row.restricted /\ req[t].hook = RealHook
      BY <1>1, <1>3, StepsAre, ReqSound DEF HandOK, RequestOK, QueueOps
    <3>3. /\ req'[t].op # "cleanup" /\ req'[t].row = req[t].row /\ ~Removing(req[t])'
          /\ req'[t].at = "run"
      BY <2>2, <3>2 DEF Goes, Removing
    <3>4. QED
      BY <1>3, <3>1, <3>2, <3>3, ApplyTidies
  <2>3. QED
    BY <1>3, <2>1, <2>2
<1>4. CASE ReadRules(t)
  BY <1>3, <1>4, ReadRulesHandsOver, ReadRulesEffect
<1>5. CASE ResolveGroup(t)
  <2>1. HandsOver(t) /\ req'[t].hook = req[t].hook /\ req[t].at = "resolve"
    BY <1>5, ResolveGroupHandsOver, ResolveGroupEffect
  <2>2. \/ Goes(t, "resolve")
        \/ Goes(t, "run") /\ \E P, h : script' = [script EXCEPT ![t] = build_apply_script(req[t].row.ip, P, h)]
    BY <1>5, ResolveGroupEffect
  <2>3. QED
    BY <1>3, <2>1, <2>2
<1>6. CASE NextOrphan(t)
  <2>1. HandsOver(t) /\ req'[t].hook = req[t].hook /\ req[t].at = "orphans"
    BY <1>6, NextOrphanHandsOver, NextOrphanEffect
  <2>2. req[t].op = "cleanup" /\ req[t].hook = RealHook
    BY <1>1, <2>1, StepsAre DEF HandOK
  <2>3. CASE req'[t].at # "run"
    BY <2>1, <2>3, QuietTidies DEF HandsOver
  <2>4. CASE req'[t].at = "run"
    <3>1. PICK ip, h : /\ req'[t].op = req[t].op
                       /\ script' = [script EXCEPT ![t] = build_remove_script(ip, h)]
      BY <1>6, <2>4, NextOrphanEffect DEF Goes
    <3>2. QED
      BY <2>1, <2>2, <2>4, <3>1, RemoveTidies
  <2>5. QED
    BY <2>3, <2>4
<1>7. CASE FinishRun(t)
  <2>1. /\ Goes(t, AfterRun(req[t])) /\ script' = [script EXCEPT ![t] = NoScript]
    BY <1>7, FinishRunEffect
  <2>2. AfterRun(req[t]) # "run"
    BY DEF AfterRun
  <2>3. script'[t] = NoScript
    <3>1. script' = [script EXCEPT ![t] = NoScript]
      BY <2>1
    <3>2. QED
      BY <3>1, Launched
  <2>4. QED
    BY <2>1, <2>2, <2>3 DEF Tidies, Goes
<1>8. CASE ToggleWrite(t) \/ EraseRule(t) \/ EraseService(t) \/ ReadGrants(t) \/ Grant(t) \/ Reread(t)
           \/ ListChains(t) \/ NextClient(t) \/ EraseClient(t) \/ Readdress(t) \/ Reply(t)
  <2>1. UNCHANGED script
    BY <1>8, Zenon
    DEF ToggleWrite, Negate, EraseRule, EraseService, ReadGrants, Grant, Reread, ListChains, NextClient,
        EraseClient, Readdress, Reply, tvars
  <2>2. req[t].at # "run"
    BY <1>8, Zenon
    DEF ToggleWrite, Negate, EraseRule, EraseService, ReadGrants, Grant, Reread, ListChains, NextClient,
        EraseClient, Readdress, Reply
  <2>3. req'[t].at # "run"
    BY <1>8, QuietEffect, GrantEffect, RereadEffect, ListChainsEffect, NextClientEffect, ReaddressEffect
    DEF Goes, Idle
  <2>4. QED
    BY <2>1, <2>2, <2>3, QuietTidies
<1>9. QED
  BY <1>2, <1>4, <1>5, <1>6, <1>7, <1>8 DEF Continue

-----------------------------------------------------------------------------
(* A request leaves the addresses tidy, or answers for them *)

LEMMA WritersTidy ==
    ASSUME TargetInv, AppInv, NEW t \in Threads, HandOK(req[t]), Tidies(t),
           ToggleWrite(t) \/ EraseClient(t) \/ Readdress(t),
           NEW ip \in Ips, Tidy(ip) \/ Unsettled(t, ip)
    PROVE  Tidy(ip)' \/ Unsettled(t, ip)'
<1> DEFINE n == req[t].cid
<1>1. req[t].at \in {"toggle", "eraseClient", "readdress"} /\ UNCHANGED <<chains, hooks>>
  BY DEF ToggleWrite, Negate, EraseClient, Readdress, tvars
<1>2. Tidy(ip)
  BY <1>1 DEF Unsettled, On, Tidies
<1>3. ASSUME NEW x, clients' = [clients EXCEPT ![n] = x],
             n \in Existing /\ clients[n].ip = ip => Bare(ip)
      PROVE  Tidy(ip)'
  <2>1. \A d \in Existing : d # n => clients[d] \in Rows'
    BY <1>3, OtherRowsStay
  <2>2. \A d \in Existing : clients[d].ip = ip /\ ~Bare(ip) => clients[d] \in Rows'
    BY <1>3, <2>1
  <2>3. QED
    BY <1>1, <1>2, <2>2, TidyStays
<1>4. CASE UNCHANGED clients
  BY <1>1, <1>2, <1>4, TidyWithRows
<1>5. CASE ToggleWrite(t)
  <2> DEFINE row == [clients[n] EXCEPT !.restricted = ~req[t].row.restricted]
  <2>1. req[t].at = "toggle" /\ Goes(t, "reread")
    BY <1>5, QuietEffect
  <2>2. req[t].op = "toggle_client" /\ n \in Existing
    BY <2>1 DEF HandOK
  <2>3. clients' = [clients EXCEPT ![n] = row]
    BY <1>5, <2>2 DEF ToggleWrite, Negate
  <2>4. row.ip = clients[n].ip
    BY <2>2, ExistingType DEF Row
  <2> HIDE DEF row
  <2>5. CASE clients[n].ip = ip
    <3>1. clients'[n].ip = ip
      BY <2>2, <2>3, <2>4, <2>5, ExistingType, TablesTyped DEF TablesTypeOK
    <3>2. QED
      BY <2>1, <2>2, <3>1 DEF Unsettled, Goes
  <2>6. QED
    BY <1>3, <2>3, <2>5
<1>6. CASE EraseClient(t)
  <2>1. req[t].at = "eraseClient" /\ clients' = [clients EXCEPT ![n] = NoRow]
    BY <1>6 DEF EraseClient
  <2>2. QED
    BY <1>3, <2>1 DEF HandOK
<1>7. CASE Readdress(t)
  <2>1. /\ req[t].at = "readdress"
        /\ UNCHANGED clients \/ \E x : clients' = [clients EXCEPT ![n] = x]
    BY <1>7 DEF Readdress
  <2>2. QED
    BY <1>3, <1>4, <2>1 DEF HandOK
<1>8. QED
  BY <1>5, <1>6, <1>7

(* A client that is toggled is seen to until its script takes over. *)
LEMMA ToggledTidy ==
    ASSUME TargetInv, AppInv, NEW t \in Threads, HandOK(req[t]),
           req[t].op = "toggle_client", req[t].at \in {"reread", "detect", "read", "resolve"},
           Reread(t) \/ Detect(t) \/ ReadRules(t) \/ ResolveGroup(t)
    PROVE  Unsettled(t, clients[req[t].cid].ip)'
<1> DEFINE n == req[t].cid
<1>1. req[t].at \in InHand => req[t].row = clients[n] /\ n \in Existing
  BY DEF HandOK
<1>2. NoRow \notin Row
  BY AclAssumption
<1>3. CASE Reread(t)
  BY <1>3, RereadEffect DEF Unsettled, dbvars
<1>4. ASSUME UNCHANGED clients, Goes(t, "run"), HandsOver(t), req[t].at \in InHand,
             script'[t].ip = req[t].row.ip
      PROVE  Unsettled(t, clients[n].ip)'
  <2>1. script'[t] # NoScript
    BY <1>4, ScriptAssumption DEF HandsOver, Goes
  <2>2. script'[t].ip = clients'[req'[t].cid].ip
    BY <1>1, <1>4 DEF Goes
  <2>3. QED
    BY <2>1, <2>2 DEF Unsettled, On
<1>5. ASSUME UNCHANGED clients, Goes(t, "read") \/ Goes(t, "resolve")
      PROVE  Unsettled(t, clients[n].ip)'
  BY <1>5 DEF Unsettled, Goes
<1>6. CASE Detect(t)
  <2>1. req[t].at = "detect" /\ UNCHANGED clients /\ HandsOver(t)
    BY <1>6, DetectEffect, DetectHandsOver DEF dbvars
  <2>2. req[t].row # NoRow
    BY <1>1, <2>1 DEF InHand, Existing
  <2>3. CASE Goes(t, "run")
    <3>1. \E h : script' = [script EXCEPT ![t] = build_remove_script(req[t].row.ip, h)]
      BY <1>6, <2>3, DetectEffect DEF Goes
    <3>2. QED
      BY <1>4, <2>1, <2>3, <3>1, LaunchedRemove DEF InHand
  <2>4. Goes(t, "run") \/ Goes(t, "read")
    BY <1>6, <2>2, DetectEffect
  <2>5. QED
    BY <1>5, <2>1, <2>3, <2>4
<1>7. ASSUME req[t].at \in {"read", "resolve"}, HandsOver(t), UNCHANGED clients,
             Goes(t, "resolve") \/
             (Goes(t, "run") /\ \E P, h : script' = [script EXCEPT ![t] = build_apply_script(req[t].row.ip, P, h)])
      PROVE  Unsettled(t, clients[n].ip)'
  BY <1>4, <1>5, <1>7, LaunchedApply DEF InHand
<1>8. CASE ReadRules(t)
  BY <1>7, <1>8, ReadRulesHandsOver, ReadRulesEffect DEF dbvars
<1>9. CASE ResolveGroup(t)
  <2>1. /\ HandsOver(t) /\ req[t].at = "resolve" /\ UNCHANGED clients
        /\ \/ Goes(t, "resolve")
           \/ Goes(t, "run") /\ \E P, h : script' = [script EXCEPT ![t] = build_apply_script(req[t].row.ip, P, h)]
    BY <1>9, ResolveGroupHandsOver, ResolveGroupEffect DEF dbvars
  <2>2. QED
    BY <1>7, <2>1
<1>10. QED
  BY <1>3, <1>6, <1>8, <1>9

LEMMA ContinueTidy ==
    ASSUME TargetInv, AppInv, NEW t \in Threads, HandOK(req[t]), Tidies(t), Continue(t),
           NEW ip \in Ips, Tidy(ip) \/ Unsettled(t, ip)
    PROVE  Tidy(ip)' \/ Unsettled(t, ip)'
<1>1. UNCHANGED <<chains, hooks>>
  BY ThreadFrame
<1>2. CASE ToggleWrite(t) \/ EraseClient(t) \/ Readdress(t)
  BY <1>2, WritersTidy
<1>3. CASE FinishRun(t)
  <2>1. req[t].at = "run" /\ UNCHANGED clients
    BY <1>3, FinishRunEffect DEF dbvars
  <2>2. script[t] # NoScript /\ script[t].at = "done"
    BY <1>3, <2>1 DEF Tidies, FinishRun, Ended, EndSteps
  <2>3. Tidy(script[t].ip)
    BY <2>1, <2>2 DEF Tidies, Tidy
  <2>4. Tidy(ip)
    BY <2>1, <2>3 DEF Unsettled, On
  <2>5. QED
    BY <1>1, <2>1, <2>4, TidyWithRows
<1>4. CASE \/ EraseRule(t) \/ EraseService(t) \/ ReadGrants(t) \/ Grant(t) \/ Reread(t) \/ ListChains(t)
           \/ Detect(t) \/ ReadRules(t) \/ ResolveGroup(t) \/ NextClient(t) \/ NextOrphan(t) \/ Reply(t)
  <2>1. UNCHANGED clients
    BY <1>4, Zenon
    DEF EraseRule, EraseService, ReadGrants, Grant, Reread, ListChains, Detect, ReadRules, ResolveGroup,
        NextClient, NextOrphan, Reply, dbvars
  <2>2. CASE Tidy(ip)
    BY <1>1, <2>1, <2>2, TidyWithRows
  <2>3. CASE ~Tidy(ip)
    <3>1. req[t].at # "run"
      BY <1>4, Zenon
      DEF EraseRule, EraseService, ReadGrants, Grant, Reread, ListChains, Detect, ReadRules, ResolveGroup,
          NextClient, NextOrphan, Reply
    <3>2. /\ req[t].op = "toggle_client" /\ req[t].at \in {"reread", "detect", "read", "resolve"}
          /\ ip = clients[req[t].cid].ip
      BY <2>3, <3>1 DEF Unsettled, On, Tidies
    <3>3. Reread(t) \/ Detect(t) \/ ReadRules(t) \/ ResolveGroup(t)
      BY <1>4, <3>2, Zenon
      DEF EraseRule, EraseService, ReadGrants, Grant, ListChains, NextClient, NextOrphan, Reply
    <3>4. Unsettled(t, clients[req[t].cid].ip)'
      BY <3>2, <3>3, ToggledTidy
    <3>5. (clients[req[t].cid].ip)' = ip
      <4>1. req'[t].cid = req[t].cid
        BY <3>3, RereadEffect, DetectEffect, ReadRulesEffect, ResolveGroupEffect DEF Goes
      <4>2. QED
        BY <2>1, <3>2, <4>1
    <3>6. QED
      BY <3>4, <3>5 DEF Unsettled, On
  <2>4. QED
    BY <2>2, <2>3
<1>5. QED
  BY <1>2, <1>3, <1>4 DEF Continue

-----------------------------------------------------------------------------
(* One jump is enough, and -D finds it *)

LEMMA SingleInsert ==
    ASSUME NEW S, NEW s \in Seq(S), NEW n \in 1..(Len(s) + 1), NEW e \in S,
           NEW r, Single(s, r), r # e \/ ~Holds(s, r)
    PROVE  Single(InsertAt(s, n, e), r)
<1> SUFFICES ASSUME NEW w, w = InsertAt(s, n, e) PROVE Single(w, r)
  OBVIOUS
<1>0. /\ Len(InsertAt(s, n, e)) = Len(s) + 1
      /\ \A i \in 1..(Len(s) + 1) :
            InsertAt(s, n, e)[i] = IF i < n THEN s[i] ELSE IF i = n THEN e ELSE s[i - 1]
  BY InsertAtProperties
<1>1. /\ Len(w) = Len(s) + 1
      /\ \A i \in 1..(Len(s) + 1) : w[i] = IF i < n THEN s[i] ELSE IF i = n THEN e ELSE s[i - 1]
  BY <1>0
<1>2. Len(s) \in Nat
  OBVIOUS
<1> SUFFICES ASSUME NEW i \in 1..Len(w), NEW k \in 1..Len(w), w[i] = r, w[k] = r PROVE i = k
  BY DEF Single
<1> DEFINE from(m) == IF m < n THEN m ELSE m - 1
<1>3. ASSUME NEW m \in 1..Len(w), w[m] = r, m # n
      PROVE  from(m) \in 1..Len(s) /\ s[from(m)] = r
  BY <1>1, <1>2, <1>3
<1>4. CASE r # e
  <2>1. i # n /\ k # n
    BY <1>1, <1>2, <1>4
  <2>2. from(i) = from(k)
    BY <1>3, <2>1 DEF Single
  <2>3. QED
    BY <1>1, <1>2, <2>1, <2>2
<1>5. CASE ~Holds(s, r)
  <2>1. i = n /\ k = n
    BY <1>3, <1>5 DEF Holds
  <2>2. QED
    BY <2>1
<1>6. QED
  BY <1>4, <1>5

LEMMA SingleRemove ==
    ASSUME NEW S, NEW s \in Seq(S), NEW n \in 1..Len(s), NEW r, Single(s, r)
    PROVE  /\ Single(RemoveAt(s, n), r)
           /\ s[n] = r => ~Holds(RemoveAt(s, n), r)
<1> SUFFICES ASSUME NEW w, w = RemoveAt(s, n)
             PROVE  Single(w, r) /\ (s[n] = r => ~Holds(w, r))
  OBVIOUS
<1> DEFINE from(m) == IF m < n THEN m ELSE m + 1
<1>0. /\ Len(RemoveAt(s, n)) = Len(s) - 1
      /\ \A i \in 1..(Len(s) - 1) : RemoveAt(s, n)[i] = IF i < n THEN s[i] ELSE s[i + 1]
  BY RemoveAtProperties
<1>1. /\ Len(w) = Len(s) - 1
      /\ \A i \in 1..(Len(s) - 1) : w[i] = IF i < n THEN s[i] ELSE s[i + 1]
  BY <1>0
<1>2. Len(s) \in Nat
  OBVIOUS
<1>3. ASSUME NEW m \in 1..Len(w), w[m] = r
      PROVE  from(m) \in 1..Len(s) /\ s[from(m)] = r /\ from(m) # n
  BY <1>1, <1>2, <1>3
<1>4. Single(w, r)
  <2> SUFFICES ASSUME NEW i \in 1..Len(w), NEW k \in 1..Len(w), w[i] = r, w[k] = r PROVE i = k
    BY DEF Single
  <2>1. from(i) = from(k)
    BY <1>3 DEF Single
  <2>2. QED
    BY <1>1, <1>2, <2>1
<1>5. s[n] = r => ~Holds(w, r)
  BY <1>3 DEF Holds, Single
<1>6. QED
  BY <1>4, <1>5

(* An edit of the hook chain that the probe finds. *)
LEMMA OneJumpAfter ==
    ASSUME TargetInv, NEW w, hooks' = [hooks EXCEPT ![RealHook] = w],
           NEW ip, OneJump(ip), Single(w, ip)
    PROVE  OneJump(ip)'
<1>1. RealHook \in Hooks
  BY FirewallAssumption DEF RealHook, Hooks
<1>2. hooks'[RealHook] = w /\ \A h \in Hooks \ {RealHook} : hooks'[h] = hooks[h]
  BY <1>1 DEF TargetInv, TargetTypeOK
<1>3. QED
  BY <1>2 DEF OneJump, Single, Holds

LEMMA CommandJumps ==
    ASSUME TargetInv, NEW t \in Jobs, Command(t), script[t].hook = RealHook,
           At(t, "insertJump") => ~Hooked(script[t].ip),
           NEW ip \in Ips, OneJump(ip)
    PROVE  OneJump(ip)'
<1> DEFINE s == hooks[RealHook]
           S == HookRule
<1>1. RealHook \in Hooks /\ s \in Seq(S)
  BY FirewallAssumption DEF RealHook, Hooks, TargetInv, TargetTypeOK
<1>2. Single(s, ip)
  BY DEF OneJump
<1>3. CASE UNCHANGED hooks
  BY <1>3 DEF OneJump, Single, Holds
<1>4. CASE InsertEstablished(t)
  <2>1. hooks' = [hooks EXCEPT ![RealHook] = InsertAt(s, 1, Established)]
    BY <1>4 DEF InsertEstablished
  <2>2. Established \in S /\ ip # Established /\ 1 \in 1..(Len(s) + 1)
    BY <1>1, FirewallAssumption DEF HookRule
  <2> HIDE DEF S, s
  <2>3. Single(InsertAt(s, 1, Established), ip)
    BY <1>1, <1>2, <2>2, SingleInsert
  <2>4. QED
    BY <2>1, <2>3, OneJumpAfter
<1>5. CASE InsertJump(t)
  <2>1. hooks' = [hooks EXCEPT ![RealHook] = InsertAt(s, 2, script[t].ip)] /\ Len(s) > 0
    BY <1>5 DEF InsertJump
  <2>2. script[t].ip \in S
    BY <1>5, AtType DEF InsertJump, TargetInv, HookRule
  <2>3. ip # script[t].ip \/ ~Holds(s, ip)
    BY <1>1, <1>5 DEF InsertJump, Hooked
  <2>4. 2 \in 1..(Len(s) + 1)
    BY <1>1, <2>1
  <2> HIDE DEF S, s
  <2>5. Single(InsertAt(s, 2, script[t].ip), ip)
    BY <1>1, <1>2, <2>2, <2>3, <2>4, SingleInsert
  <2>6. QED
    BY <2>1, <2>5, OneJumpAfter
<1>6. CASE Unhook(t)
  <2>1. CASE UNCHANGED hooks
    BY <1>3, <2>1
  <2>2. ASSUME NEW i \in FirstMatch(s, script[t].ip), hooks' = [hooks EXCEPT ![RealHook] = RemoveAt(s, i)]
        PROVE  OneJump(ip)'
    <3>1. i \in 1..Len(s)
      BY <2>2 DEF FirstMatch
    <3> HIDE DEF S, s
    <3>2. Single(RemoveAt(s, i), ip)
      BY <1>1, <1>2, <3>1, SingleRemove
    <3>3. QED
      BY <2>2, <3>2, OneJumpAfter
  <2>3. QED
    BY <1>6, <2>1, <2>2 DEF Unhook
<1>7. QED
  BY <1>3, <1>4, <1>5, <1>6
  DEF Command, NewChain, Flush, AppendAccept, AppendDrop, CheckEstablished, CheckJump, Abort,
      Clear, DeleteChain, Save

(* iptables -D takes away the jump, if there is one. *)
LEMMA UnhookUnhooks ==
    ASSUME TargetInv, NEW t \in Jobs, Unhook(t), script[t].hook = RealHook, OneJump(script[t].ip)
    PROVE  ~Hooked(script[t].ip)'
<1> DEFINE s == hooks[RealHook]
           ip == script[t].ip
<1>1. RealHook \in Hooks /\ s \in Seq(HookRule) /\ Single(s, ip)
  BY FirewallAssumption DEF RealHook, Hooks, TargetInv, TargetTypeOK, OneJump
<1>2. ~Holds(hooks'[RealHook], ip) /\ \A h \in Hooks \ {RealHook} : hooks'[h] = hooks[h]
  <2>1. CASE UNCHANGED hooks /\ ~Holds(s, ip)
    BY <2>1
  <2>2. ASSUME NEW i \in FirstMatch(s, ip), hooks' = [hooks EXCEPT ![RealHook] = RemoveAt(s, i)]
        PROVE  ~Holds(hooks'[RealHook], ip) /\ \A h \in Hooks \ {RealHook} : hooks'[h] = hooks[h]
    <3>1. i \in 1..Len(s) /\ s[i] = ip
      BY <2>2 DEF FirstMatch
    <3>2. hooks'[RealHook] = RemoveAt(s, i) /\ \A h \in Hooks \ {RealHook} : hooks'[h] = hooks[h]
      BY <1>1, <2>2 DEF TargetInv, TargetTypeOK
    <3> HIDE DEF s, ip
    <3>3. ~Holds(RemoveAt(s, i), ip)
      BY <1>1, <3>1, SingleRemove
    <3>4. QED
      BY <3>2, <3>3
  <2>3. QED
    BY <2>1, <2>2 DEF Unhook
<1>3. \A h \in Hooks : ~Holds(hooks'[h], ip)
  BY <1>2 DEF OneJump
<1>4. script'[t].ip = ip
  BY GotoType DEF Unhook, At, RemoveSteps, TargetInv
<1>5. QED
  BY <1>3, <1>4 DEF Hooked, Holds


-----------------------------------------------------------------------------
(* A script keeps to its promise, line by line *)

LEMMA CommandTidies ==
    ASSUME TargetInv, AppInv, Refused = {}, NEW t \in Threads, Command(t), HandOK(req[t]), Tidies(t),
           OneJump(script[t].ip), UNCHANGED <<req, clients>>
    PROVE  Tidies(t)'
<1>1. /\ TargetTypeOK /\ t \in Jobs /\ script[t] \in Script /\ script[t] # NoScript
      /\ script'[t] # NoScript /\ script'[t].ip = script[t].ip
  BY CommandScripts DEF TargetInv, Jobs
<1>2. PICK ip \in Ips : ip = script[t].ip
  BY <1>1 DEF Script
<1>3. PICK step : step = script[t].at
  OBVIOUS
<1>4. /\ req[t].at = "run" /\ script[t].hook = RealHook
      /\ req[t].op # "cleanup" => req[t].row # NoRow /\ ip = req[t].row.ip
      /\ step \in ApplySteps => req[t].op # "cleanup" /\ ~Removing(req[t]) /\ req[t].row.restricted
      /\ step \in ApplySteps \ {"new"} => chains[ip] # NoChain
      /\ Hooking(t) => HasDrop(ip)
      /\ step \in {"insertJump", "clear", "delete"} => ~Hooked(ip)
      /\ step = "delete" => chains[ip] \in {NoChain, EmptyChain}
      /\ step \in {"save", "done"} => Bare(ip) \/ (~Removing(req[t]) /\ Filtered(ip))
  BY <1>1, <1>2, <1>3 DEF Tidies
<1>5. /\ Hooking(t) <=> step \in {"checkEstablished", "insertEstablished", "checkJump", "insertJump"}
      /\ \A k : At(t, k) <=> step = k
  BY <1>1, <1>3 DEF Hooking, At
<1>6. Removing(req[t])' <=> Removing(req[t])
  BY DEF Removing
<1>7. ASSUME NEW next, script'[t].at = next, script'[t].hook = script[t].hook, next # "failed",
             next \in ApplySteps => step \in ApplySteps,
             next \in ApplySteps \ {"new"} => chains'[ip] # NoChain,
             next \in {"checkEstablished", "insertEstablished", "checkJump", "insertJump"} => HasDrop(ip)',
             next \in {"insertJump", "clear", "delete"} => ~Hooked(ip)',
             next = "delete" => chains'[ip] \in {NoChain, EmptyChain},
             next \in {"save", "done"} => Bare(ip)' \/ (~Removing(req[t]) /\ Filtered(ip)')
      PROVE  Tidies(t)'
  <2>1. Hooking(t)' <=> next \in {"checkEstablished", "insertEstablished", "checkJump", "insertJump"}
    BY <1>1, <1>7 DEF Hooking, At
  <2>2. /\ HasDrop(script[t].ip)' <=> HasDrop(ip)'
        /\ Hooked(script[t].ip)' <=> Hooked(ip)'
        /\ Bare(script[t].ip)' <=> Bare(ip)'
        /\ Filtered(script[t].ip)' <=> Filtered(ip)'
    BY <1>1, <1>2 DEF HasDrop, Hooked, Bare, Filtered
  <2>3. req'[t] = req[t]
    OBVIOUS
  <2>4. QED
    BY <1>1, <1>2, <1>4, <1>6, <1>7, <2>1, <2>2, <2>3 DEF Tidies
<1>8. ASSUME NEW next \in ApplySteps \cup RemoveSteps \cup {"save"} \cup EndSteps, Goto(t, next)
      PROVE  script'[t].at = next /\ script'[t].hook = script[t].hook
  BY <1>1, <1>8, GotoType
<1>9. chains[ip] \in Chain \cup {NoChain} /\ EmptyChain \in Chain /\ NoChain \notin Chain
  BY <1>1, <1>2, EmptyChainType, FirewallAssumption DEF TargetTypeOK
<1>10. step \in ApplySteps => \E row \in Rows : row.ip = ip /\ row.restricted
  BY <1>4 DEF HandOK, InHand
<1>11. ASSUME UNCHANGED <<chains, hooks>>
       PROVE  /\ HasDrop(ip)' <=> HasDrop(ip)
              /\ Hooked(ip)' <=> Hooked(ip)
              /\ Bare(ip)' <=> Bare(ip)
              /\ Filtered(ip)' <=> Filtered(ip)
  BY <1>11, ServerStays, SameRows DEF Filtered
<1>12. CASE NewChain(t)
  <2>1. Goto(t, "flush") /\ step = "new" /\ chains'[ip] # NoChain
    BY <1>1, <1>2, <1>5, <1>9, <1>12 DEF NewChain, TargetTypeOK
  <2>2. QED
    BY <1>7, <1>8, <2>1 DEF ApplySteps
<1>13. CASE Flush(t)
  <2>1. Goto(t, "accept") /\ step = "flush" /\ chains'[ip] # NoChain
    BY <1>1, <1>2, <1>5, <1>9, <1>13 DEF Flush, TargetTypeOK
  <2>2. QED
    BY <1>7, <1>8, <2>1 DEF ApplySteps
<1>14. CASE AppendAccept(t)
  <2>1. PICK x \in Targets : /\ chains' = [chains EXCEPT ![script[t].ip] = AppendAcceptTo(@, x)]
                             /\ script' = [script EXCEPT ![t].todo = @ \ {x}]
    BY <1>1, <1>14 DEF AppendAccept, Script
  <2>2. chains'[ip] = AppendAcceptTo(chains[ip], x) /\ chains[ip] \in Chain
    BY <1>1, <1>2, <1>9, <1>14, <2>1 DEF AppendAccept, TargetTypeOK
  <2>3. AppendAcceptTo(chains[ip], x) \in Chain
    BY <2>2 DEF AppendAcceptTo, Chain
  <2>4. script'[t].at = "accept" /\ script'[t].hook = script[t].hook /\ step = "accept"
    BY <1>1, <1>5, <1>3, <1>14, <2>1 DEF AppendAccept, TargetTypeOK, Script
  <2>5. QED
    BY <1>7, <1>9, <2>2, <2>3, <2>4 DEF ApplySteps
<1>15. CASE AppendDrop(t)
  <2>1. Goto(t, "checkEstablished") /\ step = "accept" /\ chains'[ip] = AppendDropTo(chains[ip])
    BY <1>1, <1>2, <1>5, <1>15 DEF AppendDrop, TargetTypeOK
  <2>2. chains[ip] \in Chain
    BY <1>2, <1>9, <1>15 DEF AppendDrop
  <2>3. AppendDropTo(chains[ip]) \in Chain /\ AppendDropTo(chains[ip]).drop
    BY <2>2 DEF AppendDropTo, Chain
  <2>4. HasDrop(ip)' /\ chains'[ip] # NoChain
    BY <1>9, <2>1, <2>3 DEF HasDrop
  <2>5. QED
    BY <1>7, <1>8, <2>1, <2>4 DEF ApplySteps
<1>16. CASE CheckEstablished(t)
  <2>1. \E next \in {"checkJump", "insertEstablished"} : Goto(t, next)
    BY <1>16 DEF CheckEstablished
  <2>2. step = "checkEstablished" /\ UNCHANGED <<chains, hooks>>
    BY <1>5, <1>16 DEF CheckEstablished
  <2>3. HasDrop(ip)' /\ chains'[ip] # NoChain
    BY <1>4, <1>5, <1>11, <2>2 DEF HasDrop
  <2>4. QED
    BY <1>7, <1>8, <2>1, <2>2, <2>3 DEF ApplySteps
<1>17. CASE InsertEstablished(t)
  <2>1. Goto(t, "checkJump") /\ step = "insertEstablished" /\ UNCHANGED chains
    BY <1>5, <1>17 DEF InsertEstablished
  <2>2. HasDrop(ip)' /\ chains'[ip] # NoChain
    BY <1>4, <1>5, <2>1 DEF HasDrop
  <2>3. QED
    BY <1>7, <1>8, <2>1, <2>2 DEF ApplySteps
<1>18. CASE CheckJump(t)
  <2>1. step = "checkJump" /\ UNCHANGED <<chains, hooks>> /\ RealHook \in Hooks
    BY <1>5, <1>18 DEF CheckJump, RealHook, Hooks
  <2>2. HasDrop(ip) /\ chains[ip] # NoChain
    BY <1>4, <1>5, <2>1 DEF HasDrop
  <2>3. Goto(t, IF Holds(hooks[RealHook], ip) THEN "save" ELSE "insertJump")
    BY <1>2, <1>4, <1>18 DEF CheckJump
  <2>4. CASE Holds(hooks[RealHook], ip)
    <3>1. Filtered(ip)
      BY <1>10, <2>1, <2>2, <2>4 DEF Filtered, Hooked, ApplySteps
    <3>2. Filtered(ip)'
      BY <1>11, <2>1, <3>1
    <3>3. Goto(t, "save")
      BY <2>3, <2>4
    <3>4. QED
      BY <1>4, <1>7, <1>8, <2>1, <3>2, <3>3 DEF ApplySteps
  <2>5. CASE ~Holds(hooks[RealHook], ip)
    <3>1. ~Hooked(ip)'
      BY <1>2, <1>11, <2>1, <2>5 DEF Hooked, OneJump
    <3>2. Goto(t, "insertJump")
      BY <2>3, <2>5
    <3>3. HasDrop(ip)' /\ chains'[ip] # NoChain
      BY <1>11, <2>1, <2>2
    <3>4. QED
      BY <1>7, <1>8, <2>1, <3>1, <3>2, <3>3 DEF ApplySteps
  <2>6. QED
    BY <2>4, <2>5
<1>19. CASE InsertJump(t)
  <2>1. Goto(t, "save") /\ step = "insertJump" /\ UNCHANGED chains
    BY <1>5, <1>19 DEF InsertJump
  <2>2. Hooked(ip)'
    BY <1>1, <1>2, <1>19, InsertJumpEffect
  <2>3. HasDrop(ip)'
    BY <1>4, <1>5, <2>1 DEF HasDrop
  <2>4. Filtered(ip)'
    BY <1>10, <2>1, <2>2, <2>3, SameRows DEF Filtered, ApplySteps
  <2>5. QED
    BY <1>4, <1>7, <1>8, <2>1, <2>4 DEF ApplySteps
<1>20. ~Abort(t)
  <2>1. step = "insertJump" => Len(hooks[RealHook]) # 0
    <3> SUFFICES ASSUME step = "insertJump" PROVE Len(hooks[RealHook]) # 0
      OBVIOUS
    <3>1. Holds(hooks[RealHook], Established)
      BY <1>1, <1>4, <1>5 DEF TargetInv, HooksInv
    <3>2. QED
      BY <3>1 DEF Holds
  <2>2. step \in {"flush", "accept", "insertJump"} => chains[ip] # NoChain
    BY <1>4 DEF ApplySteps
  <2>3. QED
    BY <1>2, <1>3, <1>4, <1>5, <2>1, <2>2 DEF Abort
<1>21. CASE Unhook(t)
  <2>1. Goto(t, "clear") /\ step = "unhook"
    BY <1>5, <1>21 DEF Unhook
  <2>2. ~Hooked(script[t].ip)'
    BY <1>1, <1>4, <1>21, UnhookUnhooks
  <2>3. ~Hooked(ip)'
    BY <1>1, <1>2, <2>2 DEF Hooked
  <2>4. QED
    BY <1>7, <1>8, <2>1, <2>3 DEF ApplySteps, RemoveSteps
<1>22. CASE Clear(t)
  <2>1. Goto(t, "delete") /\ step = "clear" /\ chains'[ip] \in {NoChain, EmptyChain} /\ UNCHANGED hooks
    BY <1>1, <1>2, <1>5, <1>22 DEF Clear, TargetTypeOK
  <2>2. ~Hooked(ip)'
    BY <1>4, <2>1 DEF Hooked
  <2>3. QED
    BY <1>7, <1>8, <2>1, <2>2 DEF ApplySteps, RemoveSteps
<1>23. CASE DeleteChain(t)
  <2>1. Goto(t, "save") /\ step = "delete" /\ UNCHANGED hooks
    BY <1>5, <1>23 DEF DeleteChain
  <2>2. chains'[ip] = NoChain
    BY <1>1, <1>2, <1>4, <1>23, <2>1 DEF DeleteChain, TargetTypeOK
  <2>3. Bare(ip)'
    BY <1>4, <2>1, <2>2 DEF Bare, Hooked
  <2>4. QED
    BY <1>7, <1>8, <2>1, <2>3 DEF ApplySteps
<1>24. CASE Save(t)
  <2>1. Goto(t, "done") /\ step = "save" /\ UNCHANGED <<chains, hooks>>
    BY <1>5, <1>24 DEF Save
  <2>2. QED
    BY <1>4, <1>7, <1>8, <1>11, <2>1 DEF ApplySteps, EndSteps
<1>25. QED
  BY <1>12, <1>13, <1>14, <1>15, <1>16, <1>17, <1>18, <1>19, <1>20, <1>21, <1>22, <1>23, <1>24 DEF Command


(* A line of a script leaves its request as it is, and the other addresses. *)
LEMMA CommandTidy ==
    ASSUME TargetInv, AppInv, NEW t \in Threads, Command(t), Tidies(t), UNCHANGED <<req, clients>>
    PROVE  /\ HandOK(req[t]) => HandOK(req[t])'
           /\ \A ip \in Ips : Tidy(ip) \/ Unsettled(t, ip) => Tidy(ip)' \/ Unsettled(t, ip)'
<1>1. t \in Jobs /\ req[t].at = "run" /\ script'[t] # NoScript /\ script'[t].ip = script[t].ip
  BY CommandScripts DEF Jobs, Tidies
<1>2. HandOK(req[t]) => HandOK(req[t])'
  BY <1>1, SameRows DEF HandOK, Removing, InHand
<1>3. ASSUME NEW ip \in Ips, Tidy(ip) \/ Unsettled(t, ip)
      PROVE  Tidy(ip)' \/ Unsettled(t, ip)'
  <2>1. CASE On(t, ip)
    BY <1>1, <2>1 DEF Unsettled, On
  <2>2. CASE ~On(t, ip)
    <3>1. chains'[ip] = chains[ip] /\ (Hooked(ip)' <=> Hooked(ip))
      BY <1>1, <2>2, CommandElsewhere
    <3>2. Tidy(ip)
      BY <1>1, <1>3, <2>2 DEF Unsettled
    <3>3. QED
      BY <3>1, <3>2, SameRows DEF Tidy, Bare, Filtered, HasDrop
  <2>3. QED
    BY <2>1, <2>2
<1>4. QED
  BY <1>2, <1>3

-----------------------------------------------------------------------------
(* A request begins when everything is tidy *)

LEMMA IdleHand ==
    ASSUME NEW t, req'[t] = Idle
    PROVE  HandOK(req[t])'
BY DEF HandOK, Idle, Removing, InHand, QueueOps

LEMMA Moved ==
    ASSUME AppInv, NEW t \in Threads, NEW r, Move(t, r)
    PROVE  req'[t] = r
BY ReqType DEF Move

LEMMA QuietHand ==
    ASSUME NEW t, req'[t].op \notin QueueOps \cup {"toggle_client"},
           req'[t].at \in {"reread", "eraseRule", "list", "eraseService"}
    PROVE  HandOK(req[t])'
BY DEF HandOK, Removing, InHand

(* Whoever holds the row of a client just read. *)
LEMMA ReadHand ==
    ASSUME NEW t, NEW c \in Existing, UNCHANGED clients, req'[t].row = clients[c], req'[t].cid = c,
           req'[t].op \notin QueueOps,
           req'[t].at = "toggle" <=> req'[t].op = "toggle_client",
           req'[t].at = "grants" <=> req'[t].op = "set_full_access_targets",
           req'[t].at \in {"toggle", "grants", "detect"}
    PROVE  HandOK(req[t])'
<1>1. Existing' = Existing /\ Rows' = Rows /\ clients[c] \in Rows
  BY SameRows DEF Rows
<1>2. QED
  BY <1>1 DEF HandOK, Removing, InHand

LEMMA BeginHand ==
    ASSUME TargetInv, AppInv, PhaseInv, NEW t \in Threads, Begin(t)
    PROVE  HandOK(req[t])'
<1>1. req[t] = Idle
  BY BeginEffect DEF PhaseInv
<1>2. CASE UNCHANGED req
  BY <1>1, <1>2, IdleHand
<1>3. CASE toggle_client(t)
  <2>1. PICK c \in Existing :
           /\ Move(t, [Idle EXCEPT !.op = "toggle_client", !.at = "toggle", !.cid = c, !.row = clients[c]])
           /\ UNCHANGED clients
    BY <1>3, Zenon DEF toggle_client, dbvars
  <2>2. req'[t] = [Idle EXCEPT !.op = "toggle_client", !.at = "toggle", !.cid = c, !.row = clients[c]]
    BY <2>1, Moved
  <2>3. req'[t].op = "toggle_client" /\ req'[t].at = "toggle" /\ req'[t].row = clients[c] /\ req'[t].cid = c
    BY <2>2 DEF Idle
  <2>4. UNCHANGED clients
    BY <2>1
  <2>5. QED
    BY <2>3, <2>4, ReadHand DEF QueueOps
<1>4. CASE set_full_access_targets(t)
  <2>1. PICK c \in Existing, D \in SUBSET Dests :
           /\ Move(t, [Idle EXCEPT !.op = "set_full_access_targets", !.at = "grants", !.cid = c,
                                   !.row = clients[c], !.picked = D])
           /\ UNCHANGED clients
    BY <1>4, Zenon DEF set_full_access_targets, dbvars
  <2>2. req'[t] = [Idle EXCEPT !.op = "set_full_access_targets", !.at = "grants", !.cid = c,
                               !.row = clients[c], !.picked = D]
    BY <2>1, Moved
  <2>3. req'[t].op = "set_full_access_targets" /\ req'[t].at = "grants" /\ req'[t].row = clients[c] /\ req'[t].cid = c
    BY <2>2 DEF Idle
  <2>4. UNCHANGED clients
    BY <2>1
  <2>5. QED
    BY <2>3, <2>4, ReadHand DEF QueueOps
<1>5. CASE apply_single(t)
  <2>1. PICK c \in Existing :
           /\ Move(t, [Idle EXCEPT !.op = "apply_single", !.at = "detect", !.cid = c, !.row = clients[c]])
           /\ UNCHANGED clients
    BY <1>5, Zenon DEF apply_single, dbvars
  <2>2. req'[t] = [Idle EXCEPT !.op = "apply_single", !.at = "detect", !.cid = c, !.row = clients[c]]
    BY <2>1, Moved
  <2>3. req'[t].op = "apply_single" /\ req'[t].at = "detect" /\ req'[t].row = clients[c] /\ req'[t].cid = c
    BY <2>2 DEF Idle
  <2>4. UNCHANGED clients
    BY <2>1
  <2>5. QED
    BY <2>3, <2>4, ReadHand DEF QueueOps
<1>6. CASE delete_client(t)
  <2>1. PICK c \in Existing :
           /\ Move(t, [Idle EXCEPT !.op = "delete_client", !.at = "detect", !.cid = c, !.row = clients[c]])
           /\ UNCHANGED clients
    BY <1>6, Zenon DEF delete_client, dbvars
  <2>2. req'[t] = [Idle EXCEPT !.op = "delete_client", !.at = "detect", !.cid = c, !.row = clients[c]]
    BY <2>1, Moved
  <2>3. req'[t].op = "delete_client" /\ req'[t].at = "detect" /\ req'[t].row = clients[c] /\ req'[t].cid = c
    BY <2>2 DEF Idle
  <2>4. UNCHANGED clients
    BY <2>1
  <2>5. QED
    BY <2>3, <2>4, ReadHand DEF QueueOps
<1>7. CASE set_client_wg_ip(t)
  <2>1. PICK c \in Existing : \E ip \in Ips \ {clients[c].ip} :
           /\ Move(t, [Idle EXCEPT !.op = "set_client_wg_ip", !.at = "detect", !.cid = c,
                                   !.row = clients[c], !.ips = {ip}])
           /\ UNCHANGED clients
    BY <1>7, Zenon DEF set_client_wg_ip, dbvars
  <2>2. PICK ip : /\ Move(t, [Idle EXCEPT !.op = "set_client_wg_ip", !.at = "detect", !.cid = c,
                                         !.row = clients[c], !.ips = {ip}])
                  /\ UNCHANGED clients
    BY <2>1, Zenon
  <2>3. req'[t] = [Idle EXCEPT !.op = "set_client_wg_ip", !.at = "detect", !.cid = c,
                               !.row = clients[c], !.ips = {ip}]
    BY <2>2, Moved
  <2>4. /\ req'[t].op = "set_client_wg_ip" /\ req'[t].at = "detect"
        /\ req'[t].row = clients[c] /\ req'[t].cid = c
    BY <2>3 DEF Idle
  <2>5. UNCHANGED clients
    BY <2>2
  <2>6. QED
    BY <2>4, <2>5, ReadHand DEF QueueOps
<1>8. CASE apply_all(t)
  <2>1. Move(t, [Idle EXCEPT !.op = "apply_all", !.at = "next", !.queue = Rows]) /\ UNCHANGED clients
    BY <1>8, Zenon DEF apply_all, dbvars
  <2>2. req'[t] = [Idle EXCEPT !.op = "apply_all", !.at = "next", !.queue = Rows]
    BY <2>1, Moved
  <2>3. QED
    BY <2>1, <2>2, SameRows DEF HandOK, Idle, Removing, InHand, QueueOps
<1>9. CASE add_rule(t) \/ delete_rule(t) \/ cleanup_orphaned_chains(t) \/ delete_service(t)
  <2>1. CASE add_rule(t)
    <3>1. PICK c : Move(t, [Idle EXCEPT !.op = "add_rule", !.at = "reread", !.cid = c])
      BY <2>1, Zenon DEF add_rule
    <3>2. req'[t] = [Idle EXCEPT !.op = "add_rule", !.at = "reread", !.cid = c]
      BY <3>1, Moved
    <3>3. req'[t].op = "add_rule" /\ req'[t].at = "reread"
      BY <3>2 DEF Idle
    <3>4. QED
      BY <3>3, QuietHand DEF QueueOps
  <2>2. CASE delete_rule(t)
    <3>1. PICK c, r : Move(t, [Idle EXCEPT !.op = "delete_rule", !.at = "eraseRule", !.cid = c, !.rid = r])
      BY <2>2, Zenon DEF delete_rule
    <3>2. req'[t] = [Idle EXCEPT !.op = "delete_rule", !.at = "eraseRule", !.cid = c, !.rid = r]
      BY <3>1, Moved
    <3>3. req'[t].op = "delete_rule" /\ req'[t].at = "eraseRule"
      BY <3>2 DEF Idle
    <3>4. QED
      BY <3>3, QuietHand DEF QueueOps
  <2>3. CASE cleanup_orphaned_chains(t)
    <3>1. req'[t] = [Idle EXCEPT !.op = "cleanup", !.at = "list", !.queue = Rows]
      BY <2>3, Moved DEF cleanup_orphaned_chains
    <3>2. QED
      BY <3>1, QuietHand DEF Idle, QueueOps
  <2>4. CASE delete_service(t)
    <3>1. PICK s, r : Move(t, [Idle EXCEPT !.op = "delete_service", !.at = "eraseService", !.sid = s, !.rid = r])
      BY <2>4, Zenon DEF delete_service
    <3>2. req'[t] = [Idle EXCEPT !.op = "delete_service", !.at = "eraseService", !.sid = s, !.rid = r]
      BY <3>1, Moved
    <3>3. req'[t].op = "delete_service" /\ req'[t].at = "eraseService"
      BY <3>2 DEF Idle
    <3>4. QED
      BY <3>3, QuietHand DEF QueueOps
  <2>5. QED
    BY <1>9, <2>1, <2>2, <2>3, <2>4
<1>10. CASE add_client(t) \/ add_tag(t) \/ delete_tag(t) \/ set_tag_members(t) \/ add_service(t)
  BY <1>2, <1>10 DEF add_client, add_tag, delete_tag, set_tag_members, add_service
<1>11. QED
  BY <1>3, <1>4, <1>5, <1>6, <1>7, <1>8, <1>9, <1>10 DEF Begin

LEMMA BeginWrites ==
    ASSUME NEW t, Begin(t)
    PROVE  /\ UNCHANGED clients \/ add_client(t)
           /\ UNCHANGED autoinc \/ add_client(t) \/ add_rule(t) \/ add_service(t)
<1>1. CASE \/ toggle_client(t) \/ set_client_wg_ip(t) \/ delete_client(t) \/ delete_rule(t)
           \/ set_full_access_targets(t) \/ apply_single(t) \/ apply_all(t) \/ cleanup_orphaned_chains(t)
           \/ delete_service(t)
  <2>1. UNCHANGED dbvars
    BY <1>1, Zenon
    DEF toggle_client, set_client_wg_ip, delete_client, delete_rule, set_full_access_targets,
        apply_single, apply_all, cleanup_orphaned_chains, delete_service
  <2>2. QED
    BY <2>1 DEF dbvars
<1>2. CASE add_tag(t) \/ delete_tag(t) \/ set_tag_members(t)
  BY <1>2 DEF add_tag, delete_tag, set_tag_members
<1>3. CASE add_rule(t)
  <2>1. UNCHANGED clients
    BY <1>3 DEF add_rule
  <2>2. QED
    BY <1>3, <2>1
<1>4. CASE add_service(t)
  BY <1>4 DEF add_service
<1>5. CASE add_client(t)
  BY <1>5
<1>6. QED
  BY <1>1, <1>2, <1>3, <1>4, <1>5 DEF Begin

(* A new client gets an id that nobody has. *)
LEMMA BeginTidy ==
    ASSUME TargetInv, AppInv, NEW t \in Threads, Begin(t), Tidies(t),
           \A c \in Existing : c <= autoinc.clients
    PROVE  /\ Tidies(t)'
           /\ \A ip \in Ips : Tidy(ip) \/ Unsettled(t, ip) => Tidy(ip)'
<1>1. req[t].at = "idle" /\ UNCHANGED tvars
  BY BeginEffect
<1>2. req'[t].at # "run"
  <2>1. CASE UNCHANGED req
    BY <1>1, <2>1
  <2>2. CASE Begun(t)
    BY <2>2 DEF Begun
  <2>3. QED
    BY <2>1, <2>2, BeginEffect
<1>3. Tidies(t)'
  BY <1>1, <1>2, QuietTidies DEF tvars
<1>4. ASSUME NEW ip \in Ips, Tidy(ip) \/ Unsettled(t, ip)
      PROVE  Tidy(ip)'
  <2>1. Tidy(ip)
    BY <1>1, <1>4 DEF Unsettled, On, Tidies
  <2>2. CASE UNCHANGED clients
    BY <1>1, <2>1, <2>2, TidyWithRows DEF tvars
  <2>3. CASE add_client(t)
    <3>1. PICK x : clients' = [clients EXCEPT ![autoinc.clients + 1] = x]
      BY <2>3 DEF add_client
    <3>2. autoinc.clients \in Nat
      BY TablesTyped DEF TablesTypeOK
    <3>3. \A d \in Existing : d # autoinc.clients + 1
      BY <3>2
    <3>4. \A d \in Existing : clients[d] \in Rows'
      BY <3>1, <3>3, OtherRowsStay
    <3>5. QED
      BY <1>1, <2>1, <3>4, TidyStays DEF tvars
  <2>4. UNCHANGED clients \/ add_client(t)
    BY BeginWrites
  <2>5. QED
    BY <2>2, <2>3, <2>4
<1>5. QED
  BY <1>3, <1>4

-----------------------------------------------------------------------------
(* The ids of clients *)

LEMMA AutoincKept ==
    ASSUME AppInv, [Next]_vars
    PROVE  autoinc'.clients = autoinc.clients \/ \E t \in Threads : add_client(t)
<1>1. autoinc \in [clients : 0..MaxClients, rules : Nat, services : ServiceIds]
  BY TablesTyped DEF TablesTypeOK
<1>2. CASE UNCHANGED autoinc
  BY <1>2
<1>3. ASSUME NEW t \in Threads, Begin(t)
      PROVE  autoinc'.clients = autoinc.clients \/ add_client(t)
  <2>1. CASE add_rule(t)
    BY <1>1, <2>1 DEF add_rule
  <2>2. CASE add_service(t)
    BY <1>1, <2>2 DEF add_service
  <2>3. QED
    BY <1>2, <1>3, <2>1, <2>2, BeginWrites
<1>4. ASSUME NEW t \in Threads, Continue(t)
      PROVE  autoinc'.clients = autoinc.clients
  <2>1. CASE Grant(t)
    <3>1. UNCHANGED autoinc \/ \E n : autoinc' = [autoinc EXCEPT !.rules = n]
      BY <2>1 DEF Grant
    <3>2. QED
      BY <1>1, <3>1
  <2>2. CASE ~Grant(t)
    BY <1>4, <2>2, Zenon
    DEF Continue, dbvars, ToggleWrite, Negate, EraseRule, EraseService, ReadGrants, Reread, ListChains,
        Detect, ReadRules, ResolveGroup, FinishRun, Return, NextClient, NextOrphan, EraseClient,
        Readdress, Reply
  <2>3. QED
    BY <2>1, <2>2
<1>5. ASSUME NEW t \in Threads, Timeout(t) PROVE UNCHANGED autoinc
  BY <1>5 DEF Timeout, dbvars
<1>6. CASE ServerStep \/ Restart \/ ServerReboot \/ UNCHANGED vars
  BY <1>2, <1>6 DEF ServerStep, Restart, ServerReboot, vars, dbvars
<1>7. QED
  BY <1>2, <1>3, <1>4, <1>5, <1>6 DEF Next

LEMMA ClientIdsStep ==
    ASSUME AppInv, [Next]_vars, \A c \in Existing : c <= autoinc.clients
    PROVE  \A c \in Existing' : c <= autoinc'.clients
<1>1. autoinc \in [clients : 0..MaxClients, rules : Nat, services : ServiceIds]
  BY TablesTyped DEF TablesTypeOK
<1>2. \A c \in Existing : c \in Nat
  BY DEF Existing, ClientIds
<1>3. ASSUME Existing' \subseteq Existing, autoinc'.clients = autoinc.clients
      PROVE  \A c \in Existing' : c <= autoinc'.clients
  BY <1>3
<1>4. ASSUME NEW t \in Threads, add_client(t)
      PROVE  \A c \in Existing' : c <= autoinc'.clients
  <2>1. /\ \E x : clients' = [clients EXCEPT ![autoinc.clients + 1] = x]
        /\ autoinc' = [autoinc EXCEPT !.clients = autoinc.clients + 1]
    BY <1>4 DEF add_client
  <2>2. autoinc'.clients = autoinc.clients + 1 /\ autoinc.clients \in Nat
    BY <1>1, <2>1
  <2>3. \A c \in Existing' : c \in Existing \/ c = autoinc.clients + 1
    BY <2>1, TablesTyped DEF TablesTypeOK, Existing
  <2>4. QED
    BY <1>2, <2>2, <2>3
<1>5. ASSUME NEW t \in Threads, ToggleWrite(t) \/ EraseClient(t) \/ Readdress(t)
      PROVE  Existing' \subseteq Existing
  <2> DEFINE n == req[t].cid
  <2>1. CASE UNCHANGED clients
    BY <2>1 DEF Existing
  <2>2. CASE n \in Existing /\ \E x : clients' = [clients EXCEPT ![n] = x]
    BY <2>2, TablesTyped DEF TablesTypeOK, Existing
  <2>3. CASE clients' = [clients EXCEPT ![n] = NoRow]
    BY <2>3, TablesTyped DEF TablesTypeOK, Existing
  <2>4. QED
    BY <1>5, <2>1, <2>2, <2>3 DEF ToggleWrite, Negate, EraseClient, Readdress
<1>6. CASE \E t \in Threads : add_client(t)
  BY <1>4, <1>6
<1>7. CASE ~\E t \in Threads : add_client(t)
  <2>1. autoinc'.clients = autoinc.clients
    BY <1>7, AutoincKept
  <2>2. Existing' \subseteq Existing
    BY <1>5, <1>7, ClientsWriters DEF Existing
  <2>3. QED
    BY <1>3, <2>1, <2>2
<1>8. QED
  BY <1>6, <1>7

-----------------------------------------------------------------------------
(* The invariant *)

LEMMA OnlyItsOwn ==
    ASSUME TargetInv, NEW t \in Threads, Continue(t), NEW j \in Jobs, j # t
    PROVE  script'[j] = script[j]
<1>1. ASSUME NEW s, script' = [script EXCEPT ![t] = s] PROVE script'[j] = script[j]
  BY <1>1 DEF TargetInv, TargetTypeOK
<1>2. ASSUME NEW r, NEW s, Launch(t, r, s) PROVE script'[j] = script[j]
  BY <1>1, <1>2 DEF Launch, Start
<1>3. CASE Detect(t)
  BY <1>2, <1>3 DEF Detect, tvars
<1>4. CASE ReadRules(t)
  <2>1. (\E r, s : Launch(t, r, s)) \/ UNCHANGED tvars
    BY <1>4 DEF ReadRules
  <2>2. QED
    BY <1>2, <2>1 DEF tvars
<1>5. CASE ResolveGroup(t)
  <2>1. (\E r, s : Launch(t, r, s)) \/ UNCHANGED tvars
    BY <1>5 DEF ResolveGroup
  <2>2. QED
    BY <1>2, <2>1 DEF tvars
<1>6. CASE NextOrphan(t)
  <2>1. (\E r, s : Launch(t, r, s)) \/ UNCHANGED tvars
    BY <1>6 DEF NextOrphan
  <2>2. QED
    BY <1>2, <2>1 DEF tvars
<1>7. CASE FinishRun(t)
  BY <1>1, <1>7 DEF FinishRun, Return
<1>8. CASE \/ ToggleWrite(t) \/ EraseRule(t) \/ EraseService(t) \/ ReadGrants(t) \/ Grant(t) \/ Reread(t)
           \/ ListChains(t) \/ NextClient(t) \/ EraseClient(t) \/ Readdress(t) \/ Reply(t)
  <2>1. UNCHANGED tvars
    BY <1>8, Zenon
    DEF ToggleWrite, Negate, EraseRule, EraseService, ReadGrants, Grant, Reread, ListChains, NextClient,
        EraseClient, Readdress, Reply
  <2>2. QED
    BY <2>1 DEF tvars
<1>9. QED
  BY <1>3, <1>4, <1>5, <1>6, <1>7, <1>8 DEF Continue

LEMMA ResidueInit == Init => ResidueInv
<1> SUFFICES ASSUME Init PROVE ResidueInv
  OBVIOUS
<1>1. Existing = {} /\ \A t \in Threads : req[t] = Idle
  BY DEF Init, Existing
<1>2. \A j \in Jobs : script[j] = NoScript
  BY DEF Init, TargetInit
<1>3. ASSUME NEW ip \in Ips PROVE OneJump(ip) /\ Bare(ip)
  <2>1. \A h \in Hooks : hooks[h] \in {Base, <<>>}
    BY DEF Init, TargetInit, BootHooks
  <2>2. ~Holds(Base, ip) /\ ~Holds(<<>>, ip)
    BY FirewallAssumption DEF Holds
  <2>3. \A h \in Hooks : ~Holds(hooks[h], ip)
    BY <2>1, <2>2
  <2>4. RealHook \in Hooks
    BY DEF RealHook, Hooks
  <2>5. OneJump(ip)
    BY <2>3, <2>4 DEF OneJump, Single, Holds
  <2>6. chains[ip] = NoChain
    BY DEF Init, TargetInit, BootChains
  <2>7. QED
    BY <2>3, <2>5, <2>6 DEF Bare, Hooked
<1>4. ASSUME NEW t \in Threads PROVE HandOK(req[t]) /\ Tidies(t)
  <2>1. HandOK(Idle)
    BY DEF HandOK, Idle, Removing, InHand, QueueOps
  <2>2. Tidies(t)
    BY <1>1, <1>2 DEF Tidies, Idle, Jobs
  <2>3. QED
    BY <1>1, <2>1, <2>2
<1>5. QED
  BY <1>1, <1>2, <1>3, <1>4 DEF ResidueInv, Tidy, Jobs

LEMMA ResidueStep ==
    ASSUME NEW t, Threads = {t}, Faults = {}, Refused = {},
           TargetInv, AppInv, PhaseInv, ResidueInv, [Next]_vars
    PROVE  ResidueInv'
<1>1. /\ t \in Threads /\ t \in Jobs
      /\ \A c \in Existing : c <= autoinc.clients
      /\ \A s \in Strays : script[s] = NoScript
      /\ \A ip \in Ips : OneJump(ip)
      /\ HandOK(req[t]) /\ Tidies(t)
      /\ \A ip \in Ips : Tidy(ip) \/ Unsettled(t, ip)
  BY DEF ResidueInv, Jobs
<1>2. \A c \in Existing' : c <= autoinc'.clients
  BY <1>1, ClientIdsStep
<1>3. ASSUME \A s \in Strays : script'[s] = NoScript, \A ip \in Ips : OneJump(ip)',
             HandOK(req[t])', Tidies(t)', \A ip \in Ips : Tidy(ip)' \/ Unsettled(t, ip)'
      PROVE  ResidueInv'
  BY <1>2, <1>3 DEF ResidueInv
<1>4. ASSUME UNCHANGED <<chains, hooks>> PROVE \A ip \in Ips : OneJump(ip)'
  BY <1>1, <1>4, ServerStays
<1>5. \A s \in Strays : s # t /\ s \in Jobs
  BY TargetAssumption DEF Jobs
<1>6. CASE Begin(t)
  <2>1. UNCHANGED <<chains, hooks, script>>
    BY <1>6, BeginEffect DEF tvars
  <2>2. QED
    BY <1>1, <1>3, <1>4, <1>6, <2>1, BeginHand, BeginTidy
<1>7. CASE Continue(t)
  <2>1. UNCHANGED <<chains, hooks>>
    BY <1>1, <1>7, ThreadFrame
  <2>2. \A s \in Strays : script'[s] = script[s]
    BY <1>1, <1>5, <1>7, OnlyItsOwn
  <2>3. QED
    BY <1>1, <1>3, <1>4, <1>7, <2>1, <2>2, ContinueHand, ContinueTidies, ContinueTidy
<1>8. CASE ServerStep
  <2>1. PICK j \in Jobs : Command(j) \/ (j \in Strays /\ Collect(j))
    BY <1>8 DEF ServerStep, Jobs
  <2>2. script[j] # NoScript
    BY <2>1, CommandScripts DEF Collect, Ended
  <2>3. j = t /\ Command(t)
    BY <1>1, <2>1, <2>2 DEF Jobs
  <2>4. UNCHANGED <<req, clients>>
    BY <1>8 DEF ServerStep, dbvars
  <2>5. \A s \in Strays : script'[s] = NoScript
    BY <1>1, <1>5, <2>3, CommandScripts
  <2>6. script[t] # NoScript /\ script[t] \in Script
    BY <1>1, <2>3, CommandScripts
  <2>7. script[t].ip \in Ips
    BY <2>6 DEF Script
  <2>8. script[t].hook = RealHook /\ (At(t, "insertJump") => ~Hooked(script[t].ip))
    BY <1>1, <2>6 DEF Tidies, At
  <2>9. \A ip \in Ips : OneJump(ip)'
    BY <1>1, <2>3, <2>8, CommandJumps
  <2>10. Tidies(t)'
    BY <1>1, <2>3, <2>4, <2>7, CommandTidies
  <2>11. QED
    BY <1>1, <1>3, <2>3, <2>4, <2>5, <2>9, <2>10, CommandTidy
<1>9. CASE UNCHANGED vars
  <2>1. UNCHANGED <<chains, hooks, script, req, clients>>
    BY <1>9 DEF vars, tvars, dbvars
  <2>2. HandOK(req[t])' /\ Tidies(t)'
    BY <1>1, <2>1, SameRows, ServerStays DEF HandOK, Removing, InHand, QueueOps, Tidies, Hooking, At, Filtered
  <2>3. \A ip \in Ips : Tidy(ip)' \/ Unsettled(t, ip)'
    BY <1>1, <2>1, TidyWithRows DEF Unsettled, On
  <2>4. QED
    BY <1>1, <1>3, <1>4, <2>1, <2>2, <2>3
<1>10. ~Timeout(t) /\ ~Restart /\ ~ServerReboot
  BY DEF Timeout, Restart, ServerReboot
<1>11. QED
  BY <1>6, <1>7, <1>8, <1>9, <1>10 DEF Next

(* One request at a time, a server on which every command and every script *)
(* ends as it should: between the requests only restricted clients of the  *)
(* app have a chain or a jump on it, however clients are added, moved,     *)
(* toggled and deleted in between (apply_client(), remove_client_chain(),  *)
(* cleanup_orphaned_chains()).                                             *)
THEOREM AloneLeavesNoResidue ==
    ASSUME NEW t, Threads = {t}, Faults = {}, Refused = {}
    PROVE  Spec => []NoResidue
<1>1. (TargetInv /\ AppInv) /\ (JumpInv /\ SettledInv) /\ ResidueInv /\ [Next]_vars => ResidueInv'
  BY ResidueStep DEF SettledInv
<1>2. ASSUME SettledInv, ResidueInv PROVE NoResidue
  <2> SUFFICES ASSUME \A k \in Threads : req[k].at = "idle", NEW ip \in Ips PROVE Tidy(ip)
    BY DEF NoResidue
  <2>1. req[t].at = "idle" /\ (Tidy(ip) \/ Unsettled(t, ip)) /\ Tidies(t)
    BY <1>2 DEF ResidueInv
  <2>2. QED
    BY <2>1 DEF Unsettled, On, Tidies
<1>3. QED
  BY <1>1, <1>2, AppInvariant, SettledInvariant, ResidueInit, PTL DEF Spec

=============================================================================
