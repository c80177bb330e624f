----------------------------- MODULE AppProofs ------------------------------
(***************************************************************************)
(* The app implements Target: its requests reach the server only through   *)
(* the two scripts and run_on_target, with rows, addresses and targets of  *)
(* the right kind, whatever has happened to the tables between two of      *)
(* their statements.  So what TargetProofs shows of any scripts holds for  *)
(* the app; and rules go only when somebody means it.                      *)
(***************************************************************************)
EXTENDS AclManager, TargetProofs, FiniteSetTheorems

-----------------------------------------------------------------------------
(* The requests of the threads *)

LEMMA IdleSound == Idle \in SoundRequest
BY AclAssumption DEF Idle, SoundRequest, Request, RequestOK, Removing, Hooks, RequestSteps

(* The type of a request after the updates that the steps make. *)
LEMMA MovedType ==
    ASSUME NEW r \in Request, NEW step \in RequestSteps
    PROVE  /\ [r EXCEPT !.at = step] \in Request
           /\ \A f \in BOOLEAN : [r EXCEPT !.failed = f, !.at = step] \in Request
           /\ \A I \in SUBSET Ips : [r EXCEPT !.ips = I, !.at = step] \in Request
           /\ \A row \in Row \cup {NoRow} : [r EXCEPT !.row = row, !.at = step] \in Request
           /\ \A G \in SUBSET (Dests \X RuleIds) : [r EXCEPT !.grants = G, !.at = step] \in Request
<1>1. \A q \in Request : [q EXCEPT !.at = step] \in Request
  BY DEF Request
<1>2. ASSUME NEW f \in BOOLEAN
      PROVE  [r EXCEPT !.failed = f, !.at = step] \in Request
  <2>1. [r EXCEPT !.failed = f] \in Request
    BY DEF Request
  <2>2. QED
    BY <1>1, <2>1
<1>3. ASSUME NEW I \in SUBSET Ips
      PROVE  [r EXCEPT !.ips = I, !.at = step] \in Request
  <2>1. [r EXCEPT !.ips = I] \in Request
    BY DEF Request
  <2>2. QED
    BY <1>1, <2>1
<1>4. ASSUME NEW row \in Row \cup {NoRow}
      PROVE  [r EXCEPT !.row = row, !.at = step] \in Request
  <2>1. [r EXCEPT !.row = row] \in Request
    BY DEF Request
  <2>2. QED
    BY <1>1, <2>1
<1>5. ASSUME NEW G \in SUBSET (Dests \X RuleIds)
      PROVE  [r EXCEPT !.grants = G, !.at = step] \in Request
  <2>1. [r EXCEPT !.grants = G] \in Request
    BY DEF Request
  <2>2. QED
    BY <1>1, <2>1
<1>6. QED
  BY <1>1, <1>2, <1>3, <1>4, <1>5

LEMMA ReqSound ==
    ASSUME AppInv, NEW t \in Threads
    PROVE  req[t] \in Request /\ RequestOK(req[t])
BY DEF AppInv, SoundRequest

LEMMA MoveSound ==
    ASSUME AppInv, NEW t \in Threads, NEW r \in Request, RequestOK(r), Move(t, r)
    PROVE  req' \in [Threads -> SoundRequest]
BY DEF AppInv, Move, SoundRequest

LEMMA ExistingType ==
    ASSUME AppInv, NEW c \in Existing
    PROVE  c \in ClientIds /\ clients[c] \in Row
BY DEF Existing, AppInv, TypeOK, TablesTypeOK

LEMMA RowsType == AppInv => Rows \subseteq Row
BY ExistingType DEF Rows

(* The first statement of a request reads what is in the tables. *)
LEMMA BeginSound ==
    ASSUME AppInv, NEW t \in Threads, Begin(t)
    PROVE  req' \in [Threads -> SoundRequest]
<1> DEFINE Sound == req' \in [Threads -> SoundRequest]
<1>1. ASSUME toggle_client(t) PROVE Sound
  <2>1. PICK c \in Existing :
           Move(t, [Idle EXCEPT !.op = "toggle_client", !.at = "toggle", !.cid = c, !.row = clients[c]])
    BY <1>1 DEF toggle_client
  <2> DEFINE r == [Idle EXCEPT !.op = "toggle_client", !.at = "toggle", !.cid = c, !.row = clients[c]]
  <2>2. r \in Request
    BY ExistingType DEF Idle, Request, RequestSteps, AllOps, Hooks
  <2>3. RequestOK(r)
    BY ExistingType DEF Idle, RequestOK, Removing
  <2>4. QED
    BY <2>1, <2>2, <2>3, MoveSound
<1>2. ASSUME set_client_wg_ip(t) PROVE Sound
  <2>1. PICK c \in Existing, ip \in Ips :
           Move(t, [Idle EXCEPT !.op = "set_client_wg_ip", !.at = "detect", !.cid = c,
                                !.row = clients[c], !.ips = {ip}])
    BY <1>2 DEF set_client_wg_ip
  <2> DEFINE r == [Idle EXCEPT !.op = "set_client_wg_ip", !.at = "detect", !.cid = c,
                                !.row = clients[c], !.ips = {ip}]
  <2>2. r \in Request
    BY ExistingType DEF Idle, Request, RequestSteps, AllOps, Hooks
  <2>3. RequestOK(r)
    BY ExistingType, AclAssumption DEF Idle, RequestOK, Removing
  <2>4. QED
    BY <2>1, <2>2, <2>3, MoveSound
<1>3. ASSUME delete_client(t) PROVE Sound
  <2>1. PICK c \in Existing :
           Move(t, [Idle EXCEPT !.op = "delete_client", !.at = "detect", !.cid = c, !.row = clients[c]])
    BY <1>3 DEF delete_client
  <2> DEFINE r == [Idle EXCEPT !.op = "delete_client", !.at = "detect", !.cid = c, !.row = clients[c]]
  <2>2. r \in Request
    BY ExistingType DEF Idle, Request, RequestSteps, AllOps, Hooks
  <2>3. RequestOK(r)
    BY ExistingType, AclAssumption DEF Idle, RequestOK, Removing
  <2>4. QED
    BY <2>1, <2>2, <2>3, MoveSound
<1>4. ASSUME add_rule(t) PROVE Sound
  <2>1. PICK c \in Existing : Move(t, [Idle EXCEPT !.op = "add_rule", !.at = "reread", !.cid = c])
    BY <1>4 DEF add_rule
  <2> DEFINE r == [Idle EXCEPT !.op = "add_rule", !.at = "reread", !.cid = c]
  <2>2. r \in Request
    BY ExistingType DEF Idle, Request, RequestSteps, AllOps, Hooks
  <2>3. RequestOK(r)
    BY ExistingType DEF Idle, RequestOK, Removing
  <2>4. QED
    BY <2>1, <2>2, <2>3, MoveSound
<1>5. ASSUME delete_rule(t) PROVE Sound
  <2>1. PICK n \in RuleIds :
           /\ rules[n] # NoRow
           /\ Move(t, [Idle EXCEPT !.op = "delete_rule", !.at = "eraseRule",
                                   !.cid = rules[n].client, !.rid = n])
    BY <1>5 DEF delete_rule
  <2> DEFINE r == [Idle EXCEPT !.op = "delete_rule", !.at = "eraseRule",
                               !.cid = rules[n].client, !.rid = n]
  <2>2. rules[n].client \in ClientIds /\ n \in Nat
    BY <2>1 DEF AppInv, TypeOK, TablesTypeOK, RuleRow, RuleIds
  <2>3. r \in Request
    BY <2>2 DEF Idle, Request, RequestSteps, AllOps, Hooks
  <2>4. RequestOK(r)
    BY <2>2 DEF Idle, RequestOK, Removing
  <2>5. QED
    BY <2>1, <2>3, <2>4, MoveSound
<1>6. ASSUME set_full_access_targets(t) PROVE Sound
  <2>1. PICK c \in Existing, D \in SUBSET Dests :
           Move(t, [Idle EXCEPT !.op = "set_full_access_targets", !.at = "grants", !.cid = c,
                                !.row = clients[c], !.picked = D])
    BY <1>6 DEF set_full_access_targets
  <2> DEFINE r == [Idle EXCEPT !.op = "set_full_access_targets", !.at = "grants", !.cid = c,
                                !.row = clients[c], !.picked = D]
  <2>2. r \in Request
    BY ExistingType DEF Idle, Request, RequestSteps, AllOps, Hooks
  <2>3. RequestOK(r)
    BY ExistingType DEF Idle, RequestOK, Removing
  <2>4. QED
    BY <2>1, <2>2, <2>3, MoveSound
<1>7. ASSUME apply_single(t) PROVE Sound
  <2>1. PICK c \in Existing :
           Move(t, [Idle EXCEPT !.op = "apply_single", !.at = "detect", !.cid = c, !.row = clients[c]])
    BY <1>7 DEF apply_single
  <2> DEFINE r == [Idle EXCEPT !.op = "apply_single", !.at = "detect", !.cid = c, !.row = clients[c]]
  <2>2. r \in Request
    BY ExistingType DEF Idle, Request, RequestSteps, AllOps, Hooks
  <2>3. RequestOK(r)
    BY DEF Idle, RequestOK, Removing
  <2>4. QED
    BY <2>1, <2>2, <2>3, MoveSound
<1>8. ASSUME apply_all(t) PROVE Sound
  <2> DEFINE r == [Idle EXCEPT !.op = "apply_all", !.at = "next", !.queue = Rows]
  <2>1. r \in Request
    BY RowsType, IdleSound DEF Idle, Request, RequestSteps, AllOps, Hooks
  <2>2. RequestOK(r)
    BY DEF Idle, RequestOK, Removing
  <2>3. QED
    BY <1>8, <2>1, <2>2, MoveSound DEF apply_all
<1>9. ASSUME cleanup_orphaned_chains(t) PROVE Sound
  <2> DEFINE r == [Idle EXCEPT !.op = "cleanup", !.at = "list", !.queue = Rows]
  <2>1. r \in Request
    BY RowsType DEF Idle, Request, RequestSteps, AllOps, Hooks
  <2>2. RequestOK(r)
    BY DEF Idle, RequestOK, Removing
  <2>3. QED
    BY <1>9, <2>1, <2>2, MoveSound DEF cleanup_orphaned_chains
<1>10. ASSUME delete_service(t) PROVE Sound
  <2>1. PICK s \in ServiceIds \ {AllPortsId} :
           Move(t, [Idle EXCEPT !.op = "delete_service", !.at = "eraseService", !.sid = s,
                                !.rid = autoinc.rules])
    BY <1>10 DEF delete_service
  <2> DEFINE r == [Idle EXCEPT !.op = "delete_service", !.at = "eraseService", !.sid = s,
                                !.rid = autoinc.rules]
  <2>2. autoinc.rules \in Nat
    BY DEF AppInv, TypeOK, TablesTypeOK
  <2>3. r \in Request
    BY <2>2 DEF Idle, Request, RequestSteps, AllOps, Hooks
  <2>4. RequestOK(r)
    BY DEF Idle, RequestOK, Removing
  <2>5. QED
    BY <2>1, <2>3, <2>4, MoveSound
<1>11. ASSUME UNCHANGED req PROVE Sound
  BY <1>11 DEF AppInv
<1>12. QED
  BY <1>1, <1>2, <1>3, <1>4, <1>5, <1>6, <1>7, <1>8, <1>9, <1>10, <1>11
  DEF Begin, add_client, add_service, add_tag, delete_tag, set_tag_members

(* What a request reads of the rules: lines that a script can have. *)
LEMMA LinesType ==
    ASSUME AppInv, NEW c
    PROVE  RawLines(c) \subseteq (Dests \cup Groups) \X Filters
<1> SUFFICES ASSUME NEW n \in RuleIds, rules[n] # NoRow
             PROVE  <<rules[n].dest, Filter(services[rules[n].service])>> \in (Dests \cup Groups) \X Filters
  BY DEF RawLines, RulesWith
<1>1. rules[n].dest \in Dests \cup Groups /\ rules[n].service \in ServiceIds
  BY DEF AppInv, TypeOK, TablesTypeOK, RuleRow
<1>2. services[rules[n].service] \in Kinds \cup {AllPorts}
  BY <1>1 DEF AppInv, TypeOK, TablesTypeOK, ReferencesInv
<1>3. QED
  BY <1>1, <1>2 DEF Filters

LEMMA MembersType ==
    ASSUME AppInv, NEW g, NEW c
    PROVE  tag_member_ips(g, c) \subseteq Ips
BY ExistingType DEF tag_member_ips, Row

LEMMA LaunchSound ==
    ASSUME AppInv, NEW t \in Threads, NEW r \in Request, RequestOK(r), NEW s, Launch(t, r, s)
    PROVE  req' \in [Threads -> SoundRequest]
<1> DEFINE q == [r EXCEPT !.at = "run", !.groups = {}, !.targets = {}]
<1>1. q \in Request
  BY DEF Request, RequestSteps
<1>2. RequestOK(q)
  BY DEF RequestOK, Request
<1>3. QED
  BY <1>1, <1>2, MoveSound DEF Launch

(* A step that only moves on to one whose needs are met already. *)
LEMMA StepSound ==
    ASSUME AppInv, NEW t \in Threads, NEW step \in RequestSteps,
           step \in {"orphans", "next", "eraseClient", "unchanged", "reply", "run"},
           Move(t, [req[t] EXCEPT !.at = step])
    PROVE  req' \in [Threads -> SoundRequest]
<1> DEFINE r == [req[t] EXCEPT !.at = step]
<1>1. r \in Request
  BY ReqSound DEF Request
<1>2. RequestOK(r)
  BY ReqSound DEF RequestOK, Request
<1>3. QED
  BY <1>1, <1>2, MoveSound

LEMMA ToggleWriteSound ==
    ASSUME AppInv, NEW t \in Threads, ToggleWrite(t) \/ EraseRule(t)
    PROVE  req' \in [Threads -> SoundRequest]
<1> DEFINE r == [req[t] EXCEPT !.at = "reread"]
<1>1. Move(t, r) /\ req[t].at \in {"toggle", "eraseRule"}
  BY DEF ToggleWrite, Negate, EraseRule
<1>2. r \in Request
  BY ReqSound, MovedType DEF RequestSteps
<1>3. RequestOK(r)
  BY <1>1, ReqSound DEF RequestOK, Request, Removing
<1>4. QED
  BY <1>1, <1>2, <1>3, MoveSound

LEMMA GrantedType ==
    ASSUME AppInv, NEW c
    PROVE  Granted(c) \subseteq Dests \X RuleIds
BY DEF Granted, RulesWith, AppInv, TypeOK, TablesTypeOK, RuleRow

LEMMA ReadGrantsSound ==
    ASSUME AppInv, NEW t \in Threads, ReadGrants(t)
    PROVE  req' \in [Threads -> SoundRequest]
<1> DEFINE G == Granted(req[t].cid)
           r == [req[t] EXCEPT !.grants = G, !.at = "grant"]
<1>1. Move(t, r) /\ req[t].at = "grants"
  BY DEF ReadGrants
<1>3. G \subseteq Dests \X RuleIds
  BY GrantedType
<1> HIDE DEF G
<1>4. r \in Request
  BY <1>3, ReqSound, MovedType DEF RequestSteps
<1>5. RequestOK(r)
  BY <1>1, ReqSound DEF RequestOK, Request, Removing
<1>6. QED
  BY <1>1, <1>4, <1>5, MoveSound

LEMMA GrantSound ==
    ASSUME AppInv, NEW t \in Threads, Grant(t)
    PROVE  req' \in [Threads -> SoundRequest]
<1>1. CASE Move(t, [req[t] EXCEPT !.at = "unchanged"])
  BY <1>1, StepSound DEF RequestSteps
<1>2. CASE Move(t, [req[t] EXCEPT !.failed = TRUE, !.at = "reply"])
  <2> DEFINE r == [req[t] EXCEPT !.failed = TRUE, !.at = "reply"]
  <2>1. r \in Request
    BY ReqSound, MovedType DEF RequestSteps
  <2>2. RequestOK(r)
    BY ReqSound DEF RequestOK, Request
  <2>3. QED
    BY <1>2, <2>1, <2>2, MoveSound
<1>3. CASE Move(t, [req[t] EXCEPT !.at = "detect"])
  <2> DEFINE r == [req[t] EXCEPT !.at = "detect"]
  <2>1. r \in Request
    BY ReqSound, MovedType DEF RequestSteps
  <2>2. RequestOK(r)
    BY ReqSound DEF Grant, RequestOK, Request, Removing
  <2>3. QED
    BY <1>3, <2>1, <2>2, MoveSound
<1>4. QED
  BY <1>1, <1>2, <1>3 DEF Grant

LEMMA RereadSound ==
    ASSUME AppInv, NEW t \in Threads, Reread(t)
    PROVE  req' \in [Threads -> SoundRequest]
<1> DEFINE row == clients[req[t].cid]
           r == [req[t] EXCEPT !.row = row, !.at = "detect"]
<1>1. req[t].cid \in ClientIds /\ ~Removing(req[t])
  BY ReqSound DEF Reread, RequestOK
<1>2. row \in Row \cup {NoRow}
  BY <1>1 DEF AppInv, TypeOK, TablesTypeOK
<1> HIDE DEF row
<1>3. r \in Request
  BY <1>2, ReqSound, MovedType DEF RequestSteps
<1>4. RequestOK(r)
  BY <1>1, ReqSound DEF RequestOK, Request, Removing
<1>5. QED
  BY <1>3, <1>4, MoveSound DEF Reread, row

LEMMA ListChainsSound ==
    ASSUME AppInv, NEW t \in Threads, ListChains(t)
    PROVE  req' \in [Threads -> SoundRequest]
<1> DEFINE found == {ip \in Ips : chains[ip] # NoChain} \ Known(t)
<1>1. CASE Move(t, [req[t] EXCEPT !.ips = found, !.at = "detect"])
  <2> DEFINE r == [req[t] EXCEPT !.ips = found, !.at = "detect"]
  <2>1. found \subseteq Ips
    OBVIOUS
  <2> HIDE DEF found
  <2>2. r \in Request
    BY <2>1, ReqSound, MovedType DEF RequestSteps
  <2>3. RequestOK(r)
    BY ReqSound DEF ListChains, RequestOK, Request, Removing
  <2>4. QED
    BY <1>1, <2>2, <2>3, MoveSound
<1>2. CASE Move(t, [req[t] EXCEPT !.failed = TRUE, !.at = "reply"])
  <2> DEFINE r == [req[t] EXCEPT !.failed = TRUE, !.at = "reply"]
  <2>1. r \in Request
    BY ReqSound, MovedType DEF RequestSteps
  <2>2. RequestOK(r)
    BY ReqSound DEF RequestOK, Request
  <2>3. QED
    BY <1>2, <2>1, <2>2, MoveSound
<1>3. QED
  BY <1>1, <1>2 DEF ListChains

-----------------------------------------------------------------------------
(* The steps that hand a script to the server *)

LEMMA LaunchApply ==
    ASSUME NEW t \in Threads, NEW r, NEW ip \in Ips, NEW lines \in SUBSET Targets, NEW h \in Hooks,
           h = "FORWARD" \/ Docker, Launch(t, r, build_apply_script(ip, lines, h))
    PROVE  TargetNext
BY DEF Launch, TargetNext, Jobs

LEMMA LaunchRemove ==
    ASSUME NEW t \in Threads, NEW r, NEW ip \in Ips, NEW h \in Hooks,
           h = "FORWARD" \/ Docker, Launch(t, r, build_remove_script(ip, h))
    PROVE  TargetNext
BY DEF Launch, TargetNext, Jobs

LEMMA HookType ==
    ASSUME NEW h \in detect_hook_chain
    PROVE  h \in Hooks /\ (h = "FORWARD" \/ Docker)
BY FirewallAssumption DEF detect_hook_chain, RealHook, Hooks

LEMMA DetectSound ==
    ASSUME AppInv, NEW t \in Threads, Detect(t)
    PROVE  /\ req' \in [Threads -> SoundRequest]
           /\ [TargetNext]_tvars
<1>1. PICK h \in detect_hook_chain :
         LET r == [req[t] EXCEPT !.hook = h]
             open == Removing(r) \/ (r.row # NoRow /\ ~r.row.restricted)
         IN  \/ /\ r.op = "cleanup"
                /\ Move(t, [r EXCEPT !.at = "orphans"])
                /\ UNCHANGED tvars
             \/ /\ r.op # "cleanup" /\ open
                /\ Launch(t, r, build_remove_script(r.row.ip, h))
             \/ /\ r.op # "cleanup" /\ ~open /\ r.row # NoRow
                /\ Move(t, [r EXCEPT !.at = "read"])
                /\ UNCHANGED tvars
             \/ /\ r.op # "cleanup" /\ r.row = NoRow
                /\ Move(t, [r EXCEPT !.failed = TRUE, !.at = "reply"])
                /\ UNCHANGED tvars
  BY DEF Detect
<1> DEFINE r == [req[t] EXCEPT !.hook = h]
<1>2. h \in Hooks /\ (h = "FORWARD" \/ Docker)
  BY HookType
<1>3. r \in Request
  BY <1>2, ReqSound DEF Request
<1>4. RequestOK(r) /\ r.at = "detect" /\ r.row = req[t].row
  BY <1>2, ReqSound DEF Detect, RequestOK, Request, Removing
<1>5. Removing(r) => r.row # NoRow
  BY <1>4 DEF RequestOK
<1> HIDE DEF r
<1>6. CASE r.op = "cleanup" /\ Move(t, [r EXCEPT !.at = "orphans"]) /\ UNCHANGED tvars
  <2> DEFINE q == [r EXCEPT !.at = "orphans"]
  <2>1. q \in Request
    BY <1>3, MovedType DEF RequestSteps
  <2>2. RequestOK(q)
    BY <1>3, <1>4 DEF RequestOK, Request
  <2>3. QED
    BY <1>6, <2>1, <2>2, MoveSound
<1>7. CASE r.row # NoRow /\ Launch(t, r, build_remove_script(r.row.ip, h))
  <2>1. r.row.ip \in Ips
    BY <1>3, <1>7 DEF Request, Row
  <2>2. QED
    BY <1>2, <1>3, <1>4, <1>7, <2>1, LaunchSound, LaunchRemove
<1>8. CASE r.row # NoRow /\ Move(t, [r EXCEPT !.at = "read"]) /\ UNCHANGED tvars
  <2> DEFINE q == [r EXCEPT !.at = "read"]
  <2>1. q \in Request
    BY <1>3, MovedType DEF RequestSteps
  <2>2. RequestOK(q)
    BY <1>3, <1>4, <1>8 DEF RequestOK, Request
  <2>3. QED
    BY <1>8, <2>1, <2>2, MoveSound
<1>9. CASE Move(t, [r EXCEPT !.failed = TRUE, !.at = "reply"]) /\ UNCHANGED tvars
  <2> DEFINE q == [r EXCEPT !.failed = TRUE, !.at = "reply"]
  <2>1. q \in Request
    BY <1>3, MovedType DEF RequestSteps
  <2>2. RequestOK(q)
    BY <1>3, <1>4 DEF RequestOK, Request
  <2>3. QED
    BY <1>9, <2>1, <2>2, MoveSound
<1>10. QED
  BY <1>1, <1>5, <1>6, <1>7, <1>8, <1>9 DEF r

(* A request that has read some of its lines. *)
LEMMA LinesRead ==
    ASSUME NEW r \in Request, NEW G \in SUBSET (Groups \X Filters), NEW L \in SUBSET Targets
    PROVE  [r EXCEPT !.groups = G, !.targets = L] \in Request
<1>1. [r EXCEPT !.groups = G] \in Request
  BY DEF Request
<1>2. \A q \in Request : [q EXCEPT !.targets = L] \in Request
  BY DEF Request
<1>3. QED
  BY <1>1, <1>2

LEMMA ReadRulesSound ==
    ASSUME AppInv, NEW t \in Threads, ReadRules(t)
    PROVE  /\ req' \in [Threads -> SoundRequest]
           /\ [TargetNext]_tvars
<1> DEFINE found == RawLines(req[t].row.id)
           G == found \cap (Groups \X Filters)
           L == found \ (Groups \X Filters)
           r == [req[t] EXCEPT !.groups = G, !.targets = L]
<1>1. found \subseteq (Dests \cup Groups) \X Filters
  BY LinesType
<1>2. L \subseteq Targets
  BY <1>1, AclAssumption
<1>3. \/ r.groups = {} /\ Launch(t, r, build_apply_script(r.row.ip, r.targets, r.hook))
      \/ Move(t, [r EXCEPT !.at = "resolve"]) /\ UNCHANGED tvars
  BY DEF ReadRules
<1> HIDE DEF found
<1>4. r \in Request
  BY <1>2, ReqSound, LinesRead
<1>5. RequestOK(r) /\ r.at = "read"
  BY ReqSound DEF ReadRules, RequestOK, Request, Removing
<1> HIDE DEF r
<1>6. CASE Launch(t, r, build_apply_script(r.row.ip, r.targets, r.hook))
  <2>1. r.row.ip \in Ips /\ r.targets \subseteq Targets /\ r.hook \in Hooks
    BY <1>4, <1>5 DEF Request, Row, RequestOK
  <2>2. QED
    BY <1>4, <1>5, <1>6, <2>1, LaunchSound, LaunchApply DEF RequestOK
<1>7. CASE Move(t, [r EXCEPT !.at = "resolve"]) /\ UNCHANGED tvars
  <2> DEFINE q == [r EXCEPT !.at = "resolve"]
  <2>1. q \in Request
    BY <1>4, MovedType DEF RequestSteps
  <2>2. RequestOK(q)
    BY <1>4, <1>5 DEF RequestOK, Request
  <2>3. QED
    BY <1>7, <2>1, <2>2, MoveSound
<1>8. QED
  BY <1>3, <1>6, <1>7

LEMMA ResolveGroupSound ==
    ASSUME AppInv, NEW t \in Threads, ResolveGroup(t)
    PROVE  /\ req' \in [Threads -> SoundRequest]
           /\ [TargetNext]_tvars
<1>1. PICK l \in req[t].groups :
         LET r == [req[t] EXCEPT !.groups = @ \ {l},
                                 !.targets = @ \cup tag_member_ips(l[1], req[t].row.id) \X {l[2]}]
         IN  \/ r.groups = {} /\ Launch(t, r, build_apply_script(r.row.ip, r.targets, r.hook))
             \/ r.groups # {} /\ Move(t, r) /\ UNCHANGED tvars
  BY DEF ResolveGroup
<1> DEFINE G == req[t].groups \ {l}
           L == req[t].targets \cup tag_member_ips(l[1], req[t].row.id) \X {l[2]}
           r == [req[t] EXCEPT !.groups = G, !.targets = L]
<1>2. req[t].groups \subseteq Groups \X Filters /\ req[t].targets \subseteq Targets
  BY ReqSound DEF Request
<1>3. L \subseteq Targets
  <2>1. Groups # {} /\ l[2] \in Filters
    BY <1>2
  <2>2. tag_member_ips(l[1], req[t].row.id) \X {l[2]} \subseteq Ips \X Filters
    BY <2>1, MembersType
  <2>3. QED
    BY <1>2, <2>1, <2>2, AclAssumption
<1>4. \/ Launch(t, r, build_apply_script(r.row.ip, r.targets, r.hook))
      \/ Move(t, r) /\ UNCHANGED tvars
  BY <1>1, ReqSound DEF Request
<1> HIDE DEF L
<1>5. r \in Request
  BY <1>2, <1>3, ReqSound, LinesRead
<1>6. RequestOK(r) /\ r.at = "resolve"
  BY ReqSound DEF ResolveGroup, RequestOK, Request, Removing
<1> HIDE DEF r
<1>7. CASE Launch(t, r, build_apply_script(r.row.ip, r.targets, r.hook))
  <2>1. r.row.ip \in Ips /\ r.targets \subseteq Targets /\ r.hook \in Hooks
    BY <1>5, <1>6 DEF Request, Row, RequestOK
  <2>2. QED
    BY <1>5, <1>6, <1>7, <2>1, LaunchSound, LaunchApply DEF RequestOK
<1>8. QED
  BY <1>4, <1>5, <1>6, <1>7, MoveSound

LEMMA NextOrphanSound ==
    ASSUME AppInv, NEW t \in Threads, NextOrphan(t)
    PROVE  /\ req' \in [Threads -> SoundRequest]
           /\ [TargetNext]_tvars
<1>1. ASSUME NEW ip \in req[t].ips,
             Launch(t, [req[t] EXCEPT !.ips = @ \ {ip}], build_remove_script(ip, req[t].hook))
      PROVE  req' \in [Threads -> SoundRequest] /\ TargetNext
  <2> DEFINE I == req[t].ips \ {ip}
             r == [req[t] EXCEPT !.ips = I]
  <2>1. ip \in Ips /\ I \subseteq Ips /\ req[t].hook \in Hooks
    BY ReqSound DEF Request
  <2>2. r \in Request
    BY <2>1, ReqSound DEF Request
  <2>3. RequestOK(r) /\ (req[t].hook = "FORWARD" \/ Docker)
    BY ReqSound DEF NextOrphan, RequestOK, Request, Removing
  <2>4. Launch(t, r, build_remove_script(ip, req[t].hook))
    BY <1>1, ReqSound DEF Request
  <2>5. QED
    BY <2>1, <2>2, <2>3, <2>4, LaunchSound, LaunchRemove
<1>2. ASSUME Move(t, [req[t] EXCEPT !.at = "reply"]), UNCHANGED tvars
      PROVE  req' \in [Threads -> SoundRequest] /\ UNCHANGED tvars
  BY <1>2, StepSound DEF RequestSteps
<1>3. QED
  BY <1>1, <1>2 DEF NextOrphan

(* run_on_target returns what the script has become. *)
LEMMA FinishRunSound ==
    ASSUME AppInv, NEW t \in Threads, FinishRun(t)
    PROVE  /\ req' \in [Threads -> SoundRequest]
           /\ [TargetNext]_tvars
<1> DEFINE f == req[t].failed \/ (~At(t, "done") /\ ~Removing(req[t]))
           step == AfterRun(req[t])
           r == [req[t] EXCEPT !.failed = f, !.at = step]
<1>1. Move(t, r)
  BY ReqSound DEF FinishRun, Return, Request
<1>2. step \in {"next", "orphans", "eraseClient", "readdress", "reply"}
  BY DEF AfterRun
<1>3. step = "readdress" => req[t].op = "set_client_wg_ip"
  BY DEF AfterRun, Removing
<1> HIDE DEF step
<1>4. r \in Request
  <2>1. f \in BOOLEAN
    OBVIOUS
  <2> HIDE DEF f
  <2>2. step \in RequestSteps
    BY <1>2 DEF RequestSteps
  <2>3. QED
    BY <2>1, <2>2, ReqSound, MovedType
<1>5. RequestOK(r)
  BY <1>2, <1>3, ReqSound DEF RequestOK, Request
<1>6. ASSUME Ended(t) PROVE TargetNext
  BY <1>6 DEF FinishRun, Return, Collect, TargetNext, Jobs
<1>7. ASSUME script[t] = NoScript PROVE UNCHANGED tvars
  BY <1>7 DEF FinishRun, Return, tvars, AppInv, TypeOK, TargetTypeOK
<1>8. QED
  BY <1>1, <1>4, <1>5, <1>6, <1>7, MoveSound DEF FinishRun

LEMMA NextClientSound ==
    ASSUME AppInv, NEW t \in Threads, NextClient(t)
    PROVE  req' \in [Threads -> SoundRequest]
<1>1. ASSUME NEW row \in req[t].queue,
             Move(t, [req[t] EXCEPT !.row = row, !.queue = @ \ {row}, !.at = "detect"])
      PROVE  req' \in [Threads -> SoundRequest]
  <2> DEFINE Q == req[t].queue \ {row}
             q == [req[t] EXCEPT !.row = row, !.queue = Q]
             r == [q EXCEPT !.at = "detect"]
  <2>1. row \in Row /\ Q \in SUBSET Row
    BY ReqSound DEF Request
  <2>2. q \in Request
    <3>1. [req[t] EXCEPT !.row = row] \in Request
      BY <2>1, ReqSound DEF Request
    <3>2. \A p \in Request : [p EXCEPT !.queue = Q] \in Request
      BY <2>1 DEF Request
    <3>3. QED
      BY <3>1, <3>2
  <2>3. r \in Request
    BY <2>2, MovedType DEF RequestSteps
  <2>4. RequestOK(r)
    BY <2>1, ReqSound, AclAssumption DEF RequestOK, Request
  <2>5. Move(t, r)
    BY <1>1, ReqSound DEF Request
  <2>6. QED
    BY <2>3, <2>4, <2>5, MoveSound
<1>2. ASSUME Move(t, [req[t] EXCEPT !.at = "reply"])
      PROVE  req' \in [Threads -> SoundRequest]
  BY <1>2, StepSound DEF RequestSteps
<1>3. QED
  BY <1>1, <1>2 DEF NextClient

LEMMA ReaddressSound ==
    ASSUME AppInv, NEW t \in Threads, Readdress(t)
    PROVE  req' \in [Threads -> SoundRequest]
<1>1. CASE Move(t, [req[t] EXCEPT !.failed = TRUE, !.at = "reply"])
  <2> DEFINE r == [req[t] EXCEPT !.failed = TRUE, !.at = "reply"]
  <2>1. r \in Request
    BY ReqSound, MovedType DEF RequestSteps
  <2>2. RequestOK(r)
    BY ReqSound DEF RequestOK, Request
  <2>3. QED
    BY <1>1, <2>1, <2>2, MoveSound
<1>2. CASE Move(t, [req[t] EXCEPT !.ips = {}, !.at = "reread"])
  <2> DEFINE r == [req[t] EXCEPT !.ips = {}, !.at = "reread"]
  <2>1. r \in Request
    BY ReqSound, MovedType DEF RequestSteps
  <2>2. RequestOK(r)
    BY ReqSound DEF Readdress, RequestOK, Request, Removing
  <2>3. QED
    BY <1>2, <2>1, <2>2, MoveSound
<1>3. QED
  BY <1>1, <1>2 DEF Readdress

(* Together: every step of a thread keeps the requests sound and is a step *)
(* of Target, or none.                                                     *)
LEMMA ThreadStep ==
    ASSUME AppInv, NEW t \in Threads, Begin(t) \/ Continue(t) \/ Timeout(t)
    PROVE  /\ req' \in [Threads -> SoundRequest]
           /\ [TargetNext]_tvars
<1>1. CASE Begin(t)
  <2>1. UNCHANGED tvars
    BY <1>1 DEF Begin, add_client, toggle_client, set_client_wg_ip, delete_client, add_rule,
       delete_rule, set_full_access_targets, apply_single, apply_all, cleanup_orphaned_chains,
       add_tag, delete_tag, set_tag_members, add_service, delete_service
  <2>2. QED
    BY <1>1, <2>1, BeginSound
<1>2. CASE ToggleWrite(t) \/ EraseRule(t)
  BY <1>2, ToggleWriteSound DEF ToggleWrite, Negate, EraseRule
<1>3. CASE EraseService(t) \/ Reply(t)
  BY <1>3, IdleSound, MoveSound DEF EraseService, Reply, SoundRequest
<1>4. CASE ReadGrants(t) \/ Grant(t)
  BY <1>4, ReadGrantsSound, GrantSound DEF ReadGrants, Grant
<1>5. CASE Reread(t) \/ ListChains(t)
  BY <1>5, RereadSound, ListChainsSound DEF Reread, ListChains
<1>6. CASE EraseClient(t)
  BY <1>6, StepSound DEF EraseClient, RequestSteps
<1>7. CASE NextClient(t) \/ Readdress(t)
  BY <1>7, NextClientSound, ReaddressSound DEF NextClient, Readdress
<1>8. CASE Timeout(t)
  <2>1. UNCHANGED req /\ TargetNext
    BY <1>8 DEF Timeout, TargetNext, Jobs
  <2>2. QED
    BY <2>1 DEF AppInv
<1>9. QED
  BY <1>1, <1>2, <1>3, <1>4, <1>5, <1>6, <1>7, <1>8,
     DetectSound, ReadRulesSound, ResolveGroupSound, FinishRunSound, NextOrphanSound
  DEF Continue

(* A restart of the app, alone or with its server. *)
LEMMA StartAppSound ==
    ASSUME AppInv, StartApp
    PROVE  req' \in [Threads -> SoundRequest]
<1>1. StartupRequest \in Request
  BY RowsType DEF StartupRequest, Idle, Request, RequestSteps, Hooks
<1>2. RequestOK(StartupRequest)
  BY DEF StartupRequest, Idle, RequestOK, Removing
<1>3. QED
  BY <1>1, <1>2, IdleSound DEF StartApp, SoundRequest

(* No step of the app goes by the scripts or by run_on_target. *)
LEMMA AppStep ==
    ASSUME AppInv, [Next]_vars
    PROVE  /\ req' \in [Threads -> SoundRequest]
           /\ [TargetNext]_tvars
<1>1. ASSUME ServerStep PROVE UNCHANGED req /\ TargetNext
  BY <1>1 DEF ServerStep, TargetNext, Jobs
<1>2. ASSUME Restart PROVE StartApp /\ TargetNext
  BY <1>2 DEF Restart, TargetNext, Jobs
<1>3. ASSUME ServerReboot PROVE (StartApp \/ UNCHANGED req) /\ TargetNext
  BY <1>3 DEF ServerReboot, TargetNext
<1>4. ASSUME UNCHANGED vars PROVE UNCHANGED req /\ UNCHANGED tvars
  BY <1>4 DEF vars
<1>5. UNCHANGED req => req' \in [Threads -> SoundRequest]
  BY DEF AppInv
<1>6. QED
  BY <1>1, <1>2, <1>3, <1>4, <1>5, ThreadStep, StartAppSound DEF Next

-----------------------------------------------------------------------------
(* The tables *)

LEMMA TablesTyped ==
    ASSUME AppInv
    PROVE  TablesTypeOK /\ ReferencesInv
BY DEF AppInv, TypeOK

LEMMA EraseType ==
    ASSUME AppInv, NEW R, EraseRules(R)
    PROVE  /\ rules' \in [RuleIds -> RuleRow \cup {NoRow}]
           /\ \A r \in RuleIds : rules'[r] = IF r \in R THEN NoRow ELSE rules[r]
BY TablesTyped DEF EraseRules, TablesTypeOK

LEMMA BuiltinService == AllPortsId \in ServiceIds
BY AclAssumption DEF AllPortsId, ServiceIds

LEMMA ClientsStep ==
    ASSUME AppInv, NEW t \in Threads, add_client(t) \/ ToggleWrite(t) \/ EraseClient(t) \/ Readdress(t)
    PROVE  /\ clients' \in [ClientIds -> Row \cup {NoRow}]
           /\ \A c \in ClientIds : clients'[c] # NoRow => clients'[c].id = c
           /\ autoinc' \in [clients : 0..MaxClients, rules : Nat, services : ServiceIds]
<1> USE TablesTyped DEF TablesTypeOK
<1>1. CASE add_client(t)
  <2>1. PICK ip \in Ips, b \in BOOLEAN :
           LET id == autoinc.clients + 1
           IN  /\ clients' = [clients EXCEPT ![id] = [id |-> id, ip |-> ip, restricted |-> b]]
               /\ autoinc' = [autoinc EXCEPT !.clients = id]
    BY <1>1 DEF add_client
  <2>2. autoinc.clients + 1 \in ClientIds /\ autoinc.clients + 1 \in 0..MaxClients
    BY <1>1, AclAssumption DEF add_client, ClientIds
  <2>3. QED
    BY <2>1, <2>2 DEF Row, Existing
<1>2. ASSUME NEW c \in Existing, NEW row \in Row, row.id = c, clients' = [clients EXCEPT ![c] = row]
      PROVE  /\ clients' \in [ClientIds -> Row \cup {NoRow}]
             /\ \A i \in ClientIds : clients'[i] # NoRow => clients'[i].id = i
  BY <1>2 DEF Existing
<1>3. CASE ToggleWrite(t)
  <2> DEFINE c == req[t].cid
             row == [clients[c] EXCEPT !.restricted = ~req[t].row.restricted]
  <2>1. UNCHANGED clients \/ (c \in Existing /\ clients' = [clients EXCEPT ![c] = row])
    BY <1>3 DEF ToggleWrite, Negate
  <2>2. UNCHANGED autoinc
    BY <1>3 DEF ToggleWrite, Negate
  <2>3. c \in Existing => row \in Row /\ row.id = c
    BY ExistingType DEF Row
  <2> HIDE DEF row
  <2>4. QED
    BY <1>2, <2>1, <2>2, <2>3 DEF Existing
<1>4. CASE EraseClient(t)
  BY <1>4 DEF EraseClient, Existing
<1>5. CASE Readdress(t)
  <2> DEFINE c == req[t].cid
             row(ip) == [clients[c] EXCEPT !.ip = ip]
  <2>1. UNCHANGED clients \/ (c \in Existing /\ \E ip \in req[t].ips : clients' = [clients EXCEPT ![c] = row(ip)])
    BY <1>5 DEF Readdress
  <2>2. UNCHANGED autoinc /\ req[t].ips \subseteq Ips
    BY <1>5, ReqSound DEF Readdress, Request
  <2>3. \A ip \in Ips : c \in Existing => row(ip) \in Row /\ row(ip).id = c
    BY ExistingType DEF Row
  <2> HIDE DEF row
  <2>4. QED
    BY <1>2, <2>1, <2>2, <2>3 DEF Existing
<1>6. QED
  BY <1>1, <1>3, <1>4, <1>5

LEMMA GrantStep ==
    ASSUME AppInv, NEW t \in Threads, Grant(t)
    PROVE  /\ rules' \in [RuleIds -> RuleRow \cup {NoRow}]
           /\ autoinc' \in [clients : 0..MaxClients, rules : Nat, services : ServiceIds]
           /\ autoinc'.rules >= autoinc.rules
           /\ \A r \in RuleIds : rules'[r] \notin {rules[r], NoRow} =>
                 /\ rules'[r].service = AllPortsId /\ rules'[r].client \in Existing
                 /\ r > autoinc.rules /\ r <= autoinc'.rules
           /\ \A r \in RuleIds : rules[r] # NoRow /\ rules'[r] = NoRow =>
                 \E d \in Dests \ req[t].picked : <<d, r>> \in req[t].grants
<1> USE TablesTyped DEF TablesTypeOK
<1>1. CASE UNCHANGED <<rules, autoinc>>
  BY <1>1
<1>2. CASE ~UNCHANGED <<rules, autoinc>>
  <2> DEFINE diff == diff_target_sets({g[1] : g \in req[t].grants}, req[t].picked)
             added == diff.added
             removed == {g[2] : g \in {k \in ByDest(req[t].grants) : k[1] \in diff.removed}}
             n == Cardinality(added)
             ids == (autoinc.rules + 1)..(autoinc.rules + n)
  <2>1. /\ added # {} => req[t].cid \in Existing
        /\ \E dest \in Bijection(ids, added) :
              rules' = [r \in RuleIds |->
                  IF r \in ids THEN [client |-> req[t].cid, dest |-> dest[r], service |-> AllPortsId]
                  ELSE IF r \in removed THEN NoRow ELSE rules[r]]
        /\ autoinc' = [autoinc EXCEPT !.rules = @ + n]
    BY <1>2 DEF Grant
  <2>2. added \subseteq Dests /\ req[t].picked \subseteq Dests /\ req[t].grants \subseteq Dests \X RuleIds
    BY ReqSound DEF Request, diff_target_sets
  <2>3. n \in Nat
    BY <2>2, AclAssumption, FS_Subset, FS_CardinalityType
  <2>4. autoinc.rules \in Nat
    OBVIOUS
  <2>5. \A r \in removed : \E d \in Dests \ req[t].picked : <<d, r>> \in req[t].grants
    BY <2>2 DEF diff_target_sets, ByDest
  <2> HIDE DEF n, removed, added
  <2>6. PICK dest \in [ids -> added] :
           rules' = [r \in RuleIds |->
                  IF r \in ids THEN [client |-> req[t].cid, dest |-> dest[r], service |-> AllPortsId]
                  ELSE IF r \in removed THEN NoRow ELSE rules[r]]
    BY <2>1 DEF Bijection, Injection
  <2>7. ASSUME NEW r \in ids
        PROVE  [client |-> req[t].cid, dest |-> dest[r], service |-> AllPortsId] \in RuleRow
    <3>1. dest[r] \in added /\ req[t].cid \in ClientIds
      BY <2>1 DEF Existing
    <3>2. QED
      BY <2>2, <3>1, BuiltinService DEF RuleRow
  <2>8. \A r \in ids : r > autoinc.rules /\ r <= autoinc'.rules
    BY <2>1, <2>3, <2>4
  <2>9. rules' \in [RuleIds -> RuleRow \cup {NoRow}]
    BY <2>6, <2>7
  <2>10. /\ autoinc' \in [clients : 0..MaxClients, rules : Nat, services : ServiceIds]
         /\ autoinc'.rules >= autoinc.rules
    BY <2>1, <2>3, <2>4
  <2>11. \A r \in RuleIds : rules'[r] \notin {rules[r], NoRow} => r \in ids /\ rules'[r].service = AllPortsId
    BY <2>6
  <2>14. \A r \in RuleIds : rules'[r] \notin {rules[r], NoRow} => rules'[r].client \in Existing
    BY <2>1, <2>6
  <2>12. \A r \in RuleIds : rules[r] # NoRow /\ rules'[r] = NoRow => r \in removed
    BY <2>6, <2>7, AclAssumption
  <2>13. QED
    BY <2>5, <2>8, <2>9, <2>10, <2>11, <2>12, <2>14
<1>3. QED
  BY <1>1, <1>2

LEMMA TablesFrame ==
    ASSUME AppInv, UNCHANGED dbvars
    PROVE  TablesTypeOK' /\ ReferencesInv'
BY TablesTyped DEF dbvars, TablesTypeOK, ReferencesInv, Existing

LEMMA TablesStep ==
    ASSUME AppInv, [Next]_vars
    PROVE  TablesTypeOK' /\ ReferencesInv'
<1> DEFINE Goal == TablesTypeOK' /\ ReferencesInv'
<1> USE TablesTyped
<1>1. ASSUME NEW t \in Threads, add_client(t) \/ ToggleWrite(t) \/ Readdress(t) PROVE Goal
  <2>1. UNCHANGED <<rules, services, tags, members>>
    BY <1>1 DEF add_client, ToggleWrite, Negate, Readdress
  <2>2. QED
    BY <1>1, <2>1, ClientsStep DEF TablesTypeOK, ReferencesInv, Existing
<1>2. ASSUME NEW t \in Threads, EraseClient(t) PROVE Goal
  <2>1. UNCHANGED <<services, tags>> /\ EraseRules(RulesWith("client", req[t].cid))
    BY <1>2 DEF EraseClient
  <2>2. members' \in [Groups -> SUBSET ClientIds]
    BY <1>2 DEF EraseClient, TablesTypeOK
  <2>3. QED
    BY <1>2, <2>1, <2>2, ClientsStep, EraseType DEF TablesTypeOK, ReferencesInv, Existing
<1>3. ASSUME NEW t \in Threads, add_service(t) PROVE Goal
  <2>1. PICK k \in Kinds :
           LET id == autoinc.services + 1
           IN  /\ services' = [services EXCEPT ![id] = k]
               /\ autoinc' = [autoinc EXCEPT !.services = id]
    BY <1>3 DEF add_service
  <2>2. autoinc.services + 1 \in ServiceIds
    BY <1>3, AclAssumption DEF add_service, TablesTypeOK, ServiceIds
  <2>3. UNCHANGED <<clients, rules, tags, members>>
    BY <1>3 DEF add_service
  <2>4. autoinc' \in [clients : 0..MaxClients, rules : Nat, services : ServiceIds]
    BY <2>1, <2>2 DEF TablesTypeOK
  <2>5. services' \in [ServiceIds -> Kinds \cup {AllPorts, NoRow}] /\ \A s \in ServiceIds : services'[s] \in {services[s], k}
    BY <2>1, <2>2 DEF TablesTypeOK
  <2>6. \A s \in ServiceIds : services[s] # NoRow => services'[s] # NoRow
    BY <2>5, AclAssumption
  <2>7. \A r \in RuleIds : rules[r] # NoRow => rules[r].service \in ServiceIds
    BY DEF TablesTypeOK, RuleRow
  <2>8. QED
    BY <2>3, <2>4, <2>5, <2>6, <2>7, BuiltinService DEF TablesTypeOK, ReferencesInv, Existing
<1>4. ASSUME NEW t \in Threads, add_tag(t) \/ set_tag_members(t) PROVE Goal
  <2>1. UNCHANGED <<clients, rules, services, autoinc>>
    BY <1>4 DEF add_tag, set_tag_members
  <2>2. tags' \in [Groups -> {"new", "live", "gone"}]
    BY <1>4 DEF add_tag, set_tag_members, TablesTypeOK
  <2>3. members' \in [Groups -> SUBSET ClientIds]
    BY <1>4 DEF add_tag, set_tag_members, TablesTypeOK, Existing
  <2>4. QED
    BY <2>1, <2>2, <2>3 DEF TablesTypeOK, ReferencesInv, Existing
<1>5. ASSUME NEW t \in Threads, delete_tag(t) PROVE Goal
  <2>1. PICK g \in Groups :
           /\ tags' = [tags EXCEPT ![g] = "gone"]
           /\ members' = [members EXCEPT ![g] = {}]
           /\ EraseRules(RulesWith("dest", g))
    BY <1>5 DEF delete_tag
  <2>2. UNCHANGED <<clients, services, autoinc>>
    BY <1>5 DEF delete_tag
  <2>3. QED
    BY <2>1, <2>2, EraseType DEF TablesTypeOK, ReferencesInv, Existing
<1>6. ASSUME NEW t \in Threads, add_rule(t) PROVE Goal
  <2>1. PICK c \in Existing, d \in Dests \cup {g \in Groups : tags[g] = "live"}, s \in ServiceIds :
           LET id == autoinc.rules + 1
           IN  /\ services[s] # NoRow
               /\ rules' = [rules EXCEPT ![id] = [client |-> c, dest |-> d, service |-> s]]
               /\ autoinc' = [autoinc EXCEPT !.rules = id]
    BY <1>6 DEF add_rule
  <2>2. UNCHANGED <<clients, services, tags, members>>
    BY <1>6 DEF add_rule
  <2>3. [client |-> c, dest |-> d, service |-> s] \in RuleRow
    BY ExistingType DEF RuleRow
  <2>4. rules' \in [RuleIds -> RuleRow \cup {NoRow}]
    BY <2>1, <2>3 DEF TablesTypeOK
  <2>5. autoinc' \in [clients : 0..MaxClients, rules : Nat, services : ServiceIds]
    BY <2>1 DEF TablesTypeOK
  <2>6. \A r \in RuleIds : rules'[r] # NoRow => services[rules'[r].service] # NoRow
    BY <2>1 DEF TablesTypeOK, ReferencesInv
  <2>7. QED
    BY <2>2, <2>4, <2>5, <2>6 DEF TablesTypeOK, ReferencesInv, Existing
<1>7. ASSUME NEW t \in Threads, EraseRule(t) PROVE Goal
  BY <1>7, EraseType DEF EraseRule, TablesTypeOK, ReferencesInv, Existing
<1>8. ASSUME NEW t \in Threads, EraseService(t) PROVE Goal
  <2> DEFINE s == req[t].sid
  <2>1. s # AllPortsId
    BY <1>8, ReqSound DEF EraseService, RequestOK
  <2>2. /\ services' = [services EXCEPT ![s] = NoRow]
        /\ EraseRules(RulesWith("service", s))
        /\ UNCHANGED <<clients, tags, members, autoinc>>
    BY <1>8 DEF EraseService
  <2> HIDE DEF s
  <2>3. \A r \in RuleIds : rules'[r] # NoRow => rules'[r] = rules[r] /\ rules[r].service # s
    BY <2>2, EraseType DEF RulesWith
  <2>4. \A r \in RuleIds : rules[r] # NoRow => rules[r].service \in ServiceIds
    BY DEF TablesTypeOK, RuleRow
  <2>5. services' \in [ServiceIds -> Kinds \cup {AllPorts, NoRow}]
        /\ \A q \in ServiceIds \ {s} : services'[q] = services[q]
    BY <2>2 DEF TablesTypeOK
  <2>6. QED
    BY <2>1, <2>2, <2>3, <2>4, <2>5, EraseType, BuiltinService DEF TablesTypeOK, ReferencesInv, Existing
<1>9. ASSUME NEW t \in Threads, Grant(t) PROVE Goal
  <2>1. UNCHANGED <<clients, services, tags, members>>
    BY <1>9 DEF Grant
  <2>2. \A r \in RuleIds : rules'[r] # NoRow => rules'[r] = rules[r] \/ rules'[r].service = AllPortsId
    BY <1>9, GrantStep
  <2>3. QED
    BY <1>9, <2>1, <2>2, GrantStep DEF TablesTypeOK, ReferencesInv, Existing
<1>10. CASE UNCHANGED dbvars
  BY <1>10, TablesFrame
<1>11. QED
  BY <1>1, <1>2, <1>3, <1>4, <1>5, <1>6, <1>7, <1>8, <1>9, <1>10
  DEF Next, Begin, Continue, Timeout, ServerStep, Restart, ServerReboot, vars,
      toggle_client, set_client_wg_ip, delete_client, delete_rule, set_full_access_targets,
      apply_single, apply_all, cleanup_orphaned_chains, delete_service,
      ReadGrants, Reread, ListChains, Detect, ReadRules, ResolveGroup, FinishRun, Return,
      NextClient, NextOrphan, Reply

-----------------------------------------------------------------------------
(* The history variables, and whether the app listens *)

LEMMA WatchType ==
    ASSUME AppInv, Watch
    PROVE  /\ disturbed' \subseteq Threads
           /\ standing' \in [ClientIds -> {"unknown", "applied", "refused"}]
<1>1. \A t, c : Verdict(t, c) \in {"unknown", "applied", "refused"}
  BY DEF Verdict
<1>2. standing \in [ClientIds -> {"unknown", "applied", "refused"}]
  BY DEF AppInv, TypeOK
<1>3. standing' = [c \in ClientIds |->
          IF c \notin Existing \/ clients'[c] = NoRow \/ Upset(c) THEN "unknown"
          ELSE IF \E t \in Threads : Answered(t) /\ c \in Concerned(t)
               THEN Verdict(CHOOSE t \in Threads : Answered(t), c)
               ELSE standing[c]]
  BY DEF Watch
<1>4. disturbed' \subseteq Threads
  BY DEF Watch
<1>5. QED
  BY <1>1, <1>2, <1>3, <1>4

LEMMA HistoryStep ==
    ASSUME AppInv, [Next]_vars
    PROVE  /\ serving' \in BOOLEAN
           /\ disturbed' \subseteq Threads
           /\ standing' \in [ClientIds -> {"unknown", "applied", "refused"}]
<1>1. /\ serving \in BOOLEAN
      /\ disturbed \subseteq Threads
      /\ standing \in [ClientIds -> {"unknown", "applied", "refused"}]
  BY DEF AppInv, TypeOK
<1>2. ASSUME NEW t \in Threads, Begin(t) \/ Continue(t) \/ Timeout(t)
      PROVE  serving' \in BOOLEAN
  <2>1. serving' = serving \/ serving' = (serving \/ req[t].op = "startup")
    BY <1>2 DEF Begin, Continue, Timeout, add_client, toggle_client, set_client_wg_ip, delete_client,
       add_rule, delete_rule, set_full_access_targets, apply_single, apply_all,
       cleanup_orphaned_chains, add_tag, delete_tag, set_tag_members, add_service, delete_service,
       ToggleWrite, Negate, EraseRule, EraseService, ReadGrants, Grant, Reread, ListChains, Detect,
       ReadRules, ResolveGroup, FinishRun, Return, NextClient, NextOrphan, EraseClient, Readdress,
       Reply
  <2>2. QED
    BY <1>1, <2>1
<1>3. ASSUME Restart \/ ServerReboot
      PROVE  /\ serving' \in BOOLEAN
             /\ disturbed' \subseteq Threads
             /\ standing' \in [ClientIds -> {"unknown", "applied", "refused"}]
  BY <1>1, <1>3, AclAssumption DEF Restart, ServerReboot, StartApp
<1>4. QED
  BY <1>1, <1>2, <1>3, WatchType DEF Next, ServerStep, vars

-----------------------------------------------------------------------------
(* The inductive invariant, and what follows from it *)

LEMMA AppInit == Init => TargetInv /\ AppInv
<1> SUFFICES ASSUME Init PROVE TargetInv /\ AppInv
  OBVIOUS
<1>1. TargetInv
  BY TargetInitInv DEF Init
<1>2. TablesTypeOK
  BY AclAssumption DEF Init, TablesTypeOK, Existing, ServiceIds, AllPortsId
<1>3. req \in [Threads -> SoundRequest]
  BY IdleSound DEF Init
<1>4. ReferencesInv
  BY BuiltinService, AclAssumption DEF Init, ReferencesInv
<1>5. req \in [Threads -> Request]
  BY <1>3 DEF SoundRequest
<1>6. TypeOK
  BY <1>1, <1>2, <1>5 DEF Init, TypeOK, TargetInv
<1>7. QED
  BY <1>1, <1>3, <1>4, <1>6 DEF AppInv

LEMMA AppInvStep == TargetInv /\ AppInv /\ [Next]_vars => (TargetInv /\ AppInv)'
<1> SUFFICES ASSUME TargetInv, AppInv, [Next]_vars PROVE TargetInv' /\ AppInv'
  OBVIOUS
<1>1. req' \in [Threads -> SoundRequest] /\ [TargetNext]_tvars
  BY AppStep
<1>2. TargetInv'
  BY <1>1, TypeStep, HooksStep, DropStep DEF TargetInv
<1>3. req' \in [Threads -> Request]
  BY <1>1 DEF SoundRequest
<1>4. TypeOK'
  BY <1>2, <1>3, TablesStep, HistoryStep DEF TypeOK, TargetInv
<1>5. QED
  BY <1>1, <1>2, <1>4, TablesStep DEF AppInv, SoundRequest, RequestOK, Request

LEMMA AppInvariant == Spec => [](TargetInv /\ AppInv)
BY AppInit, AppInvStep, PTL DEF Spec

(* Whatever two requests do to the tables between each other's statements, *)
(* what a thread has read and hands to a script is of the right kind.      *)
THEOREM AppTypes == Spec => []TypeOK
<1>1. TargetInv /\ AppInv => TypeOK
  BY DEF AppInv
<1>2. QED
  BY AppInvariant, <1>1, PTL

(* apply_client, delete_client, set_client_wg_ip, cleanup_orphaned_chains  *)
(* and the start-up touch the server through the two scripts and           *)
(* run_on_target only, also after a timeout, a restart or a reboot.        *)
THEOREM AppImplementsTarget == Spec => TargetSpec
<1>1. Init => TargetInit
  BY DEF Init
<1>2. (TargetInv /\ AppInv) /\ [Next]_vars => [TargetNext]_tvars
  BY AppStep
<1>3. QED
  BY AppInvariant, <1>1, <1>2, PTL DEF Spec, TargetSpec

(* So requests for one client change what that client meets and no other,  *)
(* and no interleaving of requests loses a DROP or the order of the hooks. *)
THEOREM AppKeepsToItsClients ==
    Spec => ScriptsKeepToTheirClient /\ [](EstablishedFirst /\ JumpsBeforeMesh /\ DropNeverLost)
BY AppImplementsTarget, TargetImplementsClientFilter, EstablishedStaysFirst, JumpsStayBeforeMesh,
   DropIsNeverLost, PTL

-----------------------------------------------------------------------------
(* Rules go only when somebody means it *)

(* The actions that write rules or their counter. *)
RuleWriter(t) ==
    \/ add_client(t) \/ add_service(t) \/ add_rule(t) \/ delete_tag(t)
    \/ EraseRule(t) \/ EraseService(t) \/ EraseClient(t) \/ Grant(t)

LEMMA RuleWriters ==
    ASSUME [Next]_vars
    PROVE  (\E t \in Threads : RuleWriter(t)) \/ UNCHANGED <<rules, autoinc>>
<1>1. ASSUME NEW t \in Threads, Begin(t)
      PROVE  RuleWriter(t) \/ UNCHANGED <<rules, autoinc>>
  BY <1>1
  DEF Begin, RuleWriter, dbvars, toggle_client, set_client_wg_ip, delete_client, delete_rule,
      set_full_access_targets, apply_single, apply_all, cleanup_orphaned_chains, add_tag,
      set_tag_members, delete_service
<1>2. ASSUME NEW t \in Threads, Continue(t)
      PROVE  RuleWriter(t) \/ UNCHANGED <<rules, autoinc>>
  BY <1>2
  DEF Continue, RuleWriter, dbvars, ToggleWrite, Negate, ReadGrants, Reread, ListChains,
      Detect, ReadRules, ResolveGroup, FinishRun, Return, NextClient, NextOrphan, Readdress,
      Reply
<1>3. ASSUME NEW t \in Threads, Timeout(t) PROVE UNCHANGED <<rules, autoinc>>
  BY <1>3 DEF Timeout, dbvars
<1>4. CASE ServerStep \/ Restart \/ ServerReboot \/ UNCHANGED vars
  BY <1>4 DEF ServerStep, Restart, ServerReboot, vars, dbvars
<1>5. QED
  BY <1>1, <1>2, <1>3, <1>4 DEF Next

(* An id is given out once, with the row that gets it. *)
IdsGrow ==
    /\ autoinc.rules \in Nat /\ autoinc'.rules \in Nat
    /\ autoinc'.rules >= autoinc.rules
    /\ \A r \in RuleIds : rules'[r] \notin {rules[r], NoRow} =>
          r > autoinc.rules /\ r <= autoinc'.rules

LEMMA RulesChange ==
    ASSUME AppInv, [Next]_vars
    PROVE  IdsGrow
<1>1. autoinc.rules \in Nat
  BY TablesTyped DEF TablesTypeOK
<1>2. CASE UNCHANGED <<rules, autoinc>>
  BY <1>1, <1>2 DEF IdsGrow
<1>3. ASSUME NEW t \in Threads, RuleWriter(t) PROVE IdsGrow
  <2>1. CASE add_client(t) \/ add_service(t)
    <3>1. UNCHANGED rules /\ autoinc'.rules = autoinc.rules
      BY <2>1, TablesTyped DEF add_client, add_service, TablesTypeOK
    <3>2. QED
      BY <1>1, <3>1 DEF IdsGrow
  <2>2. CASE add_rule(t)
    <3>1. PICK row :
             /\ rules' = [rules EXCEPT ![autoinc.rules + 1] = row]
             /\ autoinc' = [autoinc EXCEPT !.rules = autoinc.rules + 1]
      BY <2>2 DEF add_rule
    <3>2. autoinc'.rules = autoinc.rules + 1
      BY <3>1, TablesTyped DEF TablesTypeOK
    <3>3. \A r \in RuleIds : rules'[r] # rules[r] => r = autoinc.rules + 1
      BY <3>1, TablesTyped DEF TablesTypeOK
    <3>4. QED
      BY <1>1, <3>2, <3>3 DEF IdsGrow, RuleIds
  <2>3. CASE Grant(t)
    BY <1>1, <2>3, GrantStep DEF IdsGrow
  <2>4. CASE delete_tag(t) \/ EraseRule(t) \/ EraseService(t) \/ EraseClient(t)
    <3>1. UNCHANGED autoinc /\ \E R : EraseRules(R)
      BY <2>4 DEF delete_tag, EraseRule, EraseService, EraseClient
    <3>2. QED
      BY <1>1, <3>1, EraseType DEF IdsGrow
  <2>5. QED
    BY <1>3, <2>1, <2>2, <2>3, <2>4 DEF RuleWriter
<1>4. QED
  BY <1>2, <1>3, RuleWriters

(* The steps before which a thread holds ids of rules. *)
Holding == {"eraseService", "grant"}

Elsewhere(t) == req'[t].at \notin Holding /\ \A o \in Threads \ {t} : UNCHANGED req[o]

LEMMA MoveElsewhere ==
    ASSUME AppInv, NEW t \in Threads, NEW r, r.at \notin Holding, Move(t, r)
    PROVE  Elsewhere(t)
BY DEF AppInv, Move, Elsewhere

LEMMA BeginElsewhere ==
    ASSUME AppInv, NEW t \in Threads, Begin(t)
    PROVE  UNCHANGED req \/ delete_service(t) \/ Elsewhere(t)
<1>1. CASE toggle_client(t)
  BY <1>1, MoveElsewhere DEF toggle_client, Idle, Holding
<1>2. CASE set_client_wg_ip(t)
  BY <1>2, MoveElsewhere DEF set_client_wg_ip, Idle, Holding
<1>3. CASE delete_client(t)
  BY <1>3, MoveElsewhere DEF delete_client, Idle, Holding
<1>4. CASE add_rule(t)
  BY <1>4, MoveElsewhere DEF add_rule, Idle, Holding
<1>5. CASE delete_rule(t)
  BY <1>5, MoveElsewhere DEF delete_rule, Idle, Holding
<1>6. CASE set_full_access_targets(t)
  BY <1>6, MoveElsewhere DEF set_full_access_targets, Idle, Holding
<1>7. CASE apply_single(t)
  BY <1>7, MoveElsewhere DEF apply_single, Idle, Holding
<1>8. CASE apply_all(t)
  BY <1>8, MoveElsewhere DEF apply_all, Idle, Holding
<1>9. CASE cleanup_orphaned_chains(t)
  BY <1>9, MoveElsewhere DEF cleanup_orphaned_chains, Idle, Holding
<1>10. CASE UNCHANGED req
  BY <1>10
<1>11. QED
  BY <1>1, <1>2, <1>3, <1>4, <1>5, <1>6, <1>7, <1>8, <1>9, <1>10
  DEF Begin, add_client, add_service, add_tag, delete_tag, set_tag_members

LEMMA LaunchElsewhere ==
    ASSUME AppInv, NEW t \in Threads, NEW r, "at" \in DOMAIN r, NEW s, Launch(t, r, s)
    PROVE  Elsewhere(t)
<1>1. [r EXCEPT !.at = "run", !.groups = {}, !.targets = {}].at = "run"
  OBVIOUS
<1>2. QED
  BY <1>1, MoveElsewhere DEF Launch, Holding

LEMMA ContinueElsewhere ==
    ASSUME AppInv, NEW t \in Threads, Continue(t)
    PROVE  ReadGrants(t) \/ Elsewhere(t)
<1>1. CASE ToggleWrite(t) \/ EraseRule(t)
  BY <1>1, ReqSound, MoveElsewhere DEF ToggleWrite, Negate, EraseRule, Request, Holding
<1>2. CASE EraseService(t) \/ Reply(t)
  BY <1>2, MoveElsewhere DEF EraseService, Reply, Idle, Holding
<1>3. CASE Grant(t)
  BY <1>3, ReqSound, MoveElsewhere DEF Grant, Request, Holding
<1>4. CASE Reread(t)
  BY <1>4, ReqSound, MoveElsewhere DEF Reread, Request, Holding
<1>5. CASE ListChains(t)
  BY <1>5, ReqSound, MoveElsewhere DEF ListChains, Request, Holding
<1>6. CASE Detect(t)
  <2>1. PICK h \in detect_hook_chain :
           LET r == [req[t] EXCEPT !.hook = h]
           IN  \/ Move(t, [r EXCEPT !.at = "orphans"])
               \/ \E s : Launch(t, r, s)
               \/ Move(t, [r EXCEPT !.at = "read"])
               \/ Move(t, [r EXCEPT !.failed = TRUE, !.at = "reply"])
    BY <1>6 DEF Detect
  <2> DEFINE r == [req[t] EXCEPT !.hook = h]
  <2>2. "at" \in DOMAIN r
    BY ReqSound DEF Request
  <2> HIDE DEF r
  <2>3. \A step : [r EXCEPT !.at = step].at = step /\ [r EXCEPT !.failed = TRUE, !.at = step].at = step
    BY <2>2
  <2>4. QED
    BY <2>1, <2>2, <2>3, LaunchElsewhere, MoveElsewhere DEF r, Holding
<1>7. CASE FinishRun(t)
  <2>1. AfterRun(req[t]) \notin Holding
    BY DEF AfterRun, Holding
  <2>2. QED
    BY <1>7, <2>1, ReqSound, MoveElsewhere DEF FinishRun, Return, Request
<1>8. CASE NextClient(t)
  BY <1>8, ReqSound, MoveElsewhere DEF NextClient, Request, Holding
<1>9. CASE EraseClient(t)
  BY <1>9, ReqSound, MoveElsewhere DEF EraseClient, Request, Holding
<1>10. CASE Readdress(t)
  BY <1>10, ReqSound, MoveElsewhere DEF Readdress, Request, Holding
<1>11. ASSUME NEW G, NEW L, NEW s, NEW r, r = [req[t] EXCEPT !.groups = G, !.targets = L],
              Launch(t, r, s) \/ Move(t, [r EXCEPT !.at = "resolve"])
       PROVE  Elsewhere(t)
  <2>1. "at" \in DOMAIN r
    BY <1>11, ReqSound DEF Request
  <2>2. [r EXCEPT !.at = "resolve"].at = "resolve"
    BY <2>1
  <2>3. QED
    BY <1>11, <2>1, <2>2, LaunchElsewhere, MoveElsewhere DEF Holding
<1>12. CASE ReadRules(t)
  BY <1>11, <1>12 DEF ReadRules
<1>13. CASE ResolveGroup(t)
  <2>1. PICK G, L, s :
           LET r == [req[t] EXCEPT !.groups = G, !.targets = L]
           IN  Launch(t, r, s) \/ Move(t, r)
    BY <1>13 DEF ResolveGroup
  <2> DEFINE r == [req[t] EXCEPT !.groups = G, !.targets = L]
  <2>2. r.at = "resolve" /\ "at" \in DOMAIN r
    BY <1>13, ReqSound DEF ResolveGroup, Request
  <2>3. QED
    BY <2>1, <2>2, LaunchElsewhere, MoveElsewhere DEF Holding
<1>14. CASE NextOrphan(t)
  <2>1. PICK I, s : Launch(t, [req[t] EXCEPT !.ips = I], s) \/ Move(t, [req[t] EXCEPT !.at = "reply"])
    BY <1>14 DEF NextOrphan
  <2>2. "at" \in DOMAIN [req[t] EXCEPT !.ips = I] /\ [req[t] EXCEPT !.at = "reply"].at = "reply"
    BY ReqSound DEF Request
  <2>3. QED
    BY <2>1, <2>2, LaunchElsewhere, MoveElsewhere DEF Holding
<1>15. QED
  BY <1>1, <1>2, <1>3, <1>4, <1>5, <1>6, <1>7, <1>8, <1>9, <1>10, <1>12, <1>13, <1>14 DEF Continue

LEMMA HoldersStep ==
    ASSUME AppInv, [Next]_vars, NEW o \in Threads, req'[o].at \in Holding
    PROVE  UNCHANGED req[o] \/ delete_service(o) \/ ReadGrants(o)
<1>1. ASSUME NEW t \in Threads, Begin(t) \/ Continue(t)
      PROVE  UNCHANGED req[o] \/ delete_service(o) \/ ReadGrants(o)
  <2>1. CASE UNCHANGED req \/ Elsewhere(t)
    BY <2>1 DEF Elsewhere
  <2>2. CASE delete_service(t) \/ ReadGrants(t)
    BY <2>2 DEF delete_service, ReadGrants, Move, AppInv
  <2>3. QED
    BY <1>1, <2>1, <2>2, BeginElsewhere, ContinueElsewhere
<1>2. CASE StartApp
  BY <1>2 DEF StartApp, StartupRequest, Idle, Holding
<1>3. QED
  BY <1>1, <1>2 DEF Next, Timeout, ServerStep, Restart, ServerReboot, vars

LEMMA RuleIdsStep ==
    ASSUME AppInv, RuleIdsInv, [Next]_vars
    PROVE  RuleIdsInv'
<1> USE RulesChange
<1>1. \A r \in RuleIds : rules'[r] # NoRow => r <= autoinc'.rules
  BY DEF RuleIds, IdsGrow, RuleIdsInv
<1>2. ASSUME NEW o \in Threads, req'[o].at = "eraseService"
      PROVE  /\ req'[o].rid <= autoinc'.rules
             /\ \A r \in RuleIds : rules'[r] # NoRow /\ rules'[r].service = req'[o].sid => r > req'[o].rid
  <2>1. req'[o].rid \in Nat
    BY AppStep DEF SoundRequest, Request
  <2>2. CASE UNCHANGED req[o]
    BY <1>2, <2>1, <2>2 DEF RulesWith, RuleIds, IdsGrow, RuleIdsInv
  <2>3. CASE delete_service(o)
    <3>1. PICK s \in ServiceIds \ {AllPortsId} :
             /\ RulesWith("service", s) = {}
             /\ Move(o, [Idle EXCEPT !.op = "delete_service", !.at = "eraseService", !.sid = s,
                                     !.rid = autoinc.rules])
      BY <2>3 DEF delete_service
    <3>2. req'[o].sid = s /\ req'[o].rid = autoinc.rules
      BY <3>1 DEF Move, Idle, AppInv
    <3>3. UNCHANGED <<rules, autoinc>>
      BY <2>3 DEF delete_service, dbvars
    <3>4. QED
      BY <3>1, <3>2, <3>3 DEF RulesWith, IdsGrow
  <2>4. ASSUME ReadGrants(o) PROVE FALSE
    <3>1. PICK G : Move(o, [req[o] EXCEPT !.grants = G, !.at = "grant"])
      BY <2>4 DEF ReadGrants
    <3>2. req'[o].at = "grant"
      BY <3>1, ReqSound DEF Move, AppInv, Request
    <3>3. QED
      BY <1>2, <3>2
  <2>5. req'[o].at \in Holding
    BY <1>2 DEF Holding
  <2>6. UNCHANGED req[o] \/ delete_service(o) \/ ReadGrants(o)
    BY <2>5, HoldersStep
  <2>7. QED
    BY <2>2, <2>3, <2>4, <2>6
<1>3. ASSUME NEW o \in Threads, req'[o].at = "grant", NEW g \in req'[o].grants
      PROVE  /\ g[2] <= autoinc'.rules
             /\ rules'[g[2]] # NoRow =>
                   rules'[g[2]] = [client |-> req'[o].cid, dest |-> g[1], service |-> AllPortsId]
  <2>1. g \in Dests \X RuleIds
    BY AppStep DEF SoundRequest, Request
  <2>2. CASE UNCHANGED req[o]
    BY <1>3, <2>1, <2>2 DEF RuleIds, IdsGrow, RuleIdsInv
  <2>3. CASE ReadGrants(o)
    <3> DEFINE found == {r \in RulesWith("client", req[o].cid) \cap RulesWith("service", AllPortsId) :
                            rules[r].dest \notin Groups}
    <3>1. Move(o, [req[o] EXCEPT !.grants = Granted(req[o].cid), !.at = "grant"])
      BY <2>3 DEF ReadGrants
    <3>2. req'[o].grants = Granted(req[o].cid) /\ req'[o].cid = req[o].cid
      BY <3>1, ReqSound DEF Move, AppInv, Request
    <3>3. UNCHANGED <<rules, autoinc>>
      BY <2>3 DEF ReadGrants, dbvars
    <3>4. PICK r \in found : g = <<rules[r].dest, r>>
      BY <3>2, <1>3 DEF Granted
    <3>5. /\ r \in RuleIds /\ rules[r] \in RuleRow /\ rules[r] # NoRow
          /\ rules[r].client = req[o].cid /\ rules[r].service = AllPortsId
      BY TablesTyped DEF RulesWith, TablesTypeOK
    <3>6. rules[r] = [client |-> req[o].cid, dest |-> rules[r].dest, service |-> AllPortsId]
      BY <3>5 DEF RuleRow
    <3>7. g[1] = rules[r].dest /\ g[2] = r
      BY <3>4
    <3>8. r <= autoinc'.rules
      BY <3>3, <3>5 DEF RuleIdsInv
    <3>9. QED
      BY <3>2, <3>3, <3>6, <3>7, <3>8
  <2>4. ASSUME delete_service(o) PROVE FALSE
    <3>1. req'[o].at = "eraseService"
      BY <2>4 DEF delete_service, Move, Idle, AppInv
    <3>2. QED
      BY <1>3, <3>1
  <2>5. req'[o].at \in Holding
    BY <1>3 DEF Holding
  <2>6. UNCHANGED req[o] \/ delete_service(o) \/ ReadGrants(o)
    BY <2>5, HoldersStep
  <2>7. QED
    BY <2>2, <2>3, <2>4, <2>6
<1>4. QED
  BY <1>1, <1>2, <1>3 DEF RulesWith, RuleIdsInv

LEMMA MeantStep ==
    ASSUME AppInv, RuleIdsInv, [Next]_vars, NEW r \in RuleIds, rules[r] # NoRow, rules'[r] = NoRow
    PROVE  Meant(r)
<1>1. rules[r] \in RuleRow
  BY TablesTyped DEF TablesTypeOK
<1>2. ASSUME NEW t \in Threads, delete_tag(t) PROVE Meant(r)
  <2>1. PICK g \in Groups : tags' = [tags EXCEPT ![g] = "gone"] /\ EraseRules(RulesWith("dest", g))
    BY <1>2 DEF delete_tag
  <2>2. rules[r].dest = g
    BY <2>1, EraseType DEF RulesWith
  <2>3. QED
    BY <2>1, <2>2, TablesTyped DEF Meant, TablesTypeOK
<1>3. ASSUME NEW t \in Threads, EraseRule(t) PROVE Meant(r)
  BY <1>3, EraseType DEF EraseRule, Meant
<1>4. ASSUME NEW t \in Threads, EraseService(t) PROVE Meant(r)
  BY <1>4, EraseType DEF EraseService, RulesWith, Meant, RuleIdsInv
<1>5. ASSUME NEW t \in Threads, EraseClient(t) PROVE Meant(r)
  <2>1. clients' = [clients EXCEPT ![req[t].cid] = NoRow] /\ EraseRules(RulesWith("client", req[t].cid))
    BY <1>5 DEF EraseClient
  <2>2. rules[r].client = req[t].cid /\ req[t].cid \in ClientIds
    BY <1>1, <2>1, EraseType DEF RulesWith, RuleRow
  <2>3. QED
    BY <2>1, <2>2, TablesTyped DEF Meant, TablesTypeOK
<1>6. ASSUME NEW t \in Threads, Grant(t) PROVE Meant(r)
  <2>1. PICK d \in Dests \ req[t].picked : <<d, r>> \in req[t].grants
    BY <1>6, GrantStep
  <2>2. req[t].at = "grant"
    BY <1>6 DEF Grant
  <2>3. rules[r] = [client |-> req[t].cid, dest |-> d, service |-> AllPortsId]
    BY <2>1, <2>2 DEF RuleIdsInv
  <2>4. QED
    BY <2>1, <2>2, <2>3 DEF Meant
<1>7. ASSUME NEW t \in Threads, add_rule(t) PROVE Meant(r)
  <2>1. PICK c, d, s : rules' = [rules EXCEPT ![autoinc.rules + 1] = [client |-> c, dest |-> d, service |-> s]]
                       /\ c \in ClientIds /\ d \in Dests \cup Groups /\ s \in ServiceIds
    BY <1>7, ExistingType DEF add_rule
  <2>2. [client |-> c, dest |-> d, service |-> s] # NoRow
    BY <2>1, AclAssumption DEF RuleRow
  <2>3. QED
    BY <2>1, <2>2, TablesTyped DEF TablesTypeOK
<1>8. ASSUME NEW t \in Threads, add_client(t) \/ add_service(t) PROVE UNCHANGED rules
  BY <1>8 DEF add_client, add_service
<1>9. QED
  BY <1>2, <1>3, <1>4, <1>5, <1>6, <1>7, <1>8, RuleWriters DEF RuleWriter

(* No interleaving of rule requests, matrix changes and deletions takes a  *)
(* rule away that none of them is about: ids read before other statements  *)
(* still name the rule that was read, or none, and of a service that was   *)
(* found unused only rules added later go with it.                         *)
THEOREM RulesGoOnlyIfMeant == Spec => RulesGoByRequest
<1>1. Init => RuleIdsInv
  BY DEF Init, RuleIdsInv, Idle
<1>2. (TargetInv /\ AppInv) /\ RuleIdsInv /\ [Next]_vars => RuleIdsInv'
  BY RuleIdsStep
<1>3. (TargetInv /\ AppInv) /\ RuleIdsInv /\ [Next]_vars
         => [\A r \in RuleIds : rules[r] # NoRow /\ rules'[r] = NoRow => Meant(r)]_vars
  BY MeantStep
<1>4. QED
  BY AppInvariant, <1>1, <1>2, <1>3, PTL DEF Spec, RulesGoByRequest

=============================================================================
