---------------------------- MODULE MatrixProofs -----------------------------
(***************************************************************************)
(* The matrix of routes/permissions.py: after a change that nobody has     *)
(* meddled with, the client has full access to what was chosen and to      *)
(* nothing else, for every number of threads, clients and rules.           *)
(***************************************************************************)
EXTENDS SettledProofs

-----------------------------------------------------------------------------
(* There are ids for the rules that pending changes add *)

LEMMA DestsCount == IsFiniteSet(Dests) /\ Cardinality(Dests) \in Nat
BY AclAssumption, FS_CardinalityType

LEMMA RulesCount == AppInv => autoinc.rules \in Nat /\ MaxRules \in Nat
BY TablesTyped, AclAssumption DEF TablesTypeOK

LEMMA PendingCount ==
    ASSUME NEW n \in Nat, NEW k \in Nat, NEW m \in Nat, k <= n
    PROVE  k * m \in Nat /\ k * m <= n * m /\ (k + 1) * m = k * m + m
<1>1. PICK d \in Nat : n = k + d
  <2>1. n - k \in Nat /\ n = k + (n - k)
    OBVIOUS
  <2>2. QED
    BY <2>1
<1>2. n * m = k * m + d * m /\ d * m \in Nat /\ k * m \in Nat
  BY <1>1
<1>3. QED
  BY <1>2

LEMMA RoomShrinks ==
    ASSUME AppInv, RoomInv, Pending' \subseteq Pending, autoinc'.rules = autoinc.rules
    PROVE  RoomInv'
<1> DEFINE n == Cardinality(Pending)
           k == Cardinality(Pending')
           m == Cardinality(Dests)
<1>1. IsFiniteSet(Pending') /\ k \in Nat /\ n \in Nat /\ k <= n
  BY FS_Subset, FS_CardinalityType DEF RoomInv
<1>2. m \in Nat /\ autoinc.rules \in Nat /\ MaxRules \in Nat
  BY DestsCount, RulesCount
<1>3. autoinc.rules + n * m <= MaxRules
  BY <1>2 DEF RoomInv, RoomForRules
<1> HIDE DEF n, k, m
<1>4. autoinc.rules + k * m <= MaxRules
  BY <1>1, <1>2, <1>3, PendingCount
<1>5. QED
  BY <1>1, <1>2, <1>4 DEF RoomInv, RoomForRules, k, m

LEMMA PendingWriters ==
    ASSUME AppInv, NEW t \in Threads, Continue(t), ~Grant(t),
           req'[t].at \in {"grants", "grant"}
    PROVE  req[t].at \in {"grants", "grant"}
<1> DEFINE Others == RequestSteps \ {"grants", "grant"}
<1>1. \A step \in Others : ~Goes(t, step)
  BY DEF Goes
<1>2. AfterRun(req[t]) \in Others
  BY DEF AfterRun, RequestSteps
<1>3. {"reread", "reply", "detect", "orphans", "run", "read", "resolve"} \subseteq Others
  BY DEF RequestSteps
<1> HIDE DEF Others
<1>4. CASE ToggleWrite(t) \/ EraseRule(t) \/ EraseClient(t)
  BY <1>1, <1>3, <1>4, QuietEffect
<1>5. CASE ReadGrants(t)
  BY <1>5, QuietEffect
<1>6. CASE Reply(t) \/ EraseService(t)
  BY <1>6, QuietEffect, IdleIs
<1>7. CASE Reread(t) \/ NextOrphan(t)
  BY <1>1, <1>3, <1>7, RereadEffect, NextOrphanEffect
<1>8. CASE ListChains(t)
  BY <1>1, <1>3, <1>8, ListChainsEffect
<1>9. CASE Detect(t)
  BY <1>1, <1>3, <1>9, DetectEffect
<1>10. CASE ReadRules(t)
  BY <1>1, <1>3, <1>10, ReadRulesEffect
<1>11. CASE ResolveGroup(t)
  BY <1>1, <1>3, <1>11, ResolveGroupEffect
<1>12. CASE FinishRun(t)
  BY <1>1, <1>2, <1>12, FinishRunEffect
<1>13. CASE NextClient(t)
  BY <1>1, <1>3, <1>13, NextClientEffect
<1>14. CASE Readdress(t)
  BY <1>14, ReaddressEffect
<1>15. QED
  BY <1>4, <1>5, <1>6, <1>7, <1>8, <1>9, <1>10, <1>11, <1>12, <1>13, <1>14 DEF Continue

LEMMA CounterWriters ==
    ASSUME AppInv, [Next]_vars
    PROVE  \/ autoinc'.rules = autoinc.rules
           \/ \E t \in Threads : add_rule(t) \/ Grant(t)
<1>1. ASSUME NEW t \in Threads, add_client(t) \/ add_service(t)
      PROVE  autoinc'.rules = autoinc.rules
  BY <1>1, TablesTyped DEF add_client, add_service, TablesTypeOK
<1>2. ASSUME NEW t \in Threads, delete_tag(t) \/ EraseRule(t) \/ EraseService(t) \/ EraseClient(t)
      PROVE  autoinc'.rules = autoinc.rules
  BY <1>2 DEF delete_tag, EraseRule, EraseService, EraseClient
<1>3. QED
  BY <1>1, <1>2, RuleWriters DEF RuleWriter

LEMMA AddRuleRoom ==
    ASSUME AppInv, RoomInv, NEW t \in Threads, add_rule(t)
    PROVE  RoomInv'
<1>1. Pending' \subseteq Pending
  <2>1. PICK c \in Existing : Move(t, [Idle EXCEPT !.op = "add_rule", !.at = "reread", !.cid = c])
    BY DEF add_rule
  <2>2. req' = [req EXCEPT ![t] = [Idle EXCEPT !.op = "add_rule", !.at = "reread", !.cid = c]]
    BY <2>1 DEF Move
  <2>3. req'[t].at = "reread" /\ \A k \in Threads \ {t} : req'[k] = req[k]
    BY <2>2, ReqType DEF Idle
  <2>4. QED
    BY <2>3 DEF Pending
<1>2. autoinc'.rules = autoinc.rules + 1 /\ RoomForRules(1)
  BY TablesTyped DEF add_rule, TablesTypeOK
<1> DEFINE n == Cardinality(Pending)
           k == Cardinality(Pending')
           m == Cardinality(Dests)
<1>3. IsFiniteSet(Pending') /\ k \in Nat /\ n \in Nat /\ k <= n
  BY <1>1, FS_Subset, FS_CardinalityType DEF RoomInv
<1>4. m \in Nat /\ autoinc.rules \in Nat /\ MaxRules \in Nat
  BY DestsCount, RulesCount
<1>5. autoinc.rules + 1 + n * m <= MaxRules
  BY <1>2 DEF RoomForRules
<1> HIDE DEF n, k, m
<1>6. autoinc'.rules + 0 + k * m <= MaxRules
  BY <1>2, <1>3, <1>4, <1>5, PendingCount
<1>7. QED
  BY <1>3, <1>6 DEF RoomInv, RoomForRules, k, m

LEMMA BeginMatrix ==
    ASSUME AppInv, PhaseInv, NEW t \in Threads, Begin(t), ~set_full_access_targets(t)
    PROVE  /\ req'[t].op # "set_full_access_targets" /\ req'[t].at \notin {"grants", "grant"}
           /\ \A k \in Threads \ {t} : req'[k] = req[k]
<1> DEFINE Other(r) == r.op # "set_full_access_targets" /\ r.at \notin {"grants", "grant"}
<1>1. ASSUME NEW r, Move(t, r), Other(r)
      PROVE  Other(req'[t]) /\ \A k \in Threads \ {t} : req'[k] = req[k]
  BY <1>1, ReqType DEF Move
<1>2. ASSUME UNCHANGED req
      PROVE  Other(req'[t]) /\ \A k \in Threads \ {t} : req'[k] = req[k]
  <2>1. req[t] = Idle
    BY BeginEffect DEF PhaseInv
  <2>2. QED
    BY <1>2, <2>1, IdleIs
<1>3. CASE toggle_client(t)
  <2>1. PICK c : Move(t, [Idle EXCEPT !.op = "toggle_client", !.at = "toggle", !.cid = c, !.row = clients[c]])
    BY <1>3 DEF toggle_client
  <2>2. Other([Idle EXCEPT !.op = "toggle_client", !.at = "toggle", !.cid = c, !.row = clients[c]])
    BY DEF Idle
  <2>3. QED
    BY <1>1, <2>1, <2>2
<1>4. CASE add_rule(t)
  <2>1. PICK c : Move(t, [Idle EXCEPT !.op = "add_rule", !.at = "reread", !.cid = c])
    BY <1>4 DEF add_rule
  <2>2. Other([Idle EXCEPT !.op = "add_rule", !.at = "reread", !.cid = c])
    BY DEF Idle
  <2>3. QED
    BY <1>1, <2>1, <2>2
<1>5. CASE delete_rule(t)
  <2>1. PICK c, r : Move(t, [Idle EXCEPT !.op = "delete_rule", !.at = "eraseRule", !.cid = c, !.rid = r])
    BY <1>5 DEF delete_rule
  <2>2. Other([Idle EXCEPT !.op = "delete_rule", !.at = "eraseRule", !.cid = c, !.rid = r])
    BY DEF Idle
  <2>3. QED
    BY <1>1, <2>1, <2>2
<1>6. CASE apply_single(t)
  <2>1. PICK c : Move(t, [Idle EXCEPT !.op = "apply_single", !.at = "detect", !.cid = c, !.row = clients[c]])
    BY <1>6 DEF apply_single
  <2>2. Other([Idle EXCEPT !.op = "apply_single", !.at = "detect", !.cid = c, !.row = clients[c]])
    BY DEF Idle
  <2>3. QED
    BY <1>1, <2>1, <2>2
<1>7. CASE apply_all(t)
  <2>1. Move(t, [Idle EXCEPT !.op = "apply_all", !.at = "next", !.queue = Rows])
    BY <1>7 DEF apply_all
  <2>2. Other([Idle EXCEPT !.op = "apply_all", !.at = "next", !.queue = Rows])
    BY DEF Idle
  <2>3. QED
    BY <1>1, <2>1, <2>2
<1>8. CASE delete_client(t)
  <2>1. PICK c : Move(t, [Idle EXCEPT !.op = "delete_client", !.at = "detect", !.cid = c, !.row = clients[c]])
    BY <1>8 DEF delete_client
  <2>2. Other([Idle EXCEPT !.op = "delete_client", !.at = "detect", !.cid = c, !.row = clients[c]])
    BY DEF Idle
  <2>3. QED
    BY <1>1, <2>1, <2>2
<1>9. CASE set_client_wg_ip(t)
  <2>1. PICK c, I : Move(t, [Idle EXCEPT !.op = "set_client_wg_ip", !.at = "detect", !.cid = c,
                                         !.row = clients[c], !.ips = I])
    BY <1>9 DEF set_client_wg_ip
  <2>2. Other([Idle EXCEPT !.op = "set_client_wg_ip", !.at = "detect", !.cid = c,
                           !.row = clients[c], !.ips = I])
    BY DEF Idle
  <2>3. QED
    BY <1>1, <2>1, <2>2
<1>10. CASE delete_service(t)
  <2>1. PICK s, n : Move(t, [Idle EXCEPT !.op = "delete_service", !.at = "eraseService", !.sid = s, !.rid = n])
    BY <1>10 DEF delete_service
  <2>2. Other([Idle EXCEPT !.op = "delete_service", !.at = "eraseService", !.sid = s, !.rid = n])
    BY DEF Idle
  <2>3. QED
    BY <1>1, <2>1, <2>2
<1>11. CASE cleanup_orphaned_chains(t)
  <2>1. Move(t, [Idle EXCEPT !.op = "cleanup", !.at = "list", !.queue = Rows])
    BY <1>11 DEF cleanup_orphaned_chains
  <2>2. Other([Idle EXCEPT !.op = "cleanup", !.at = "list", !.queue = Rows])
    BY DEF Idle
  <2>3. QED
    BY <1>1, <2>1, <2>2
<1>12. CASE add_client(t) \/ add_service(t) \/ add_tag(t) \/ delete_tag(t) \/ set_tag_members(t)
  BY <1>2, <1>12 DEF add_client, add_service, add_tag, delete_tag, set_tag_members
<1>13. QED
  BY <1>3, <1>4, <1>5, <1>6, <1>7, <1>8, <1>9, <1>10, <1>11, <1>12 DEF Begin

LEMMA MatrixBegins ==
    ASSUME AppInv, NEW t \in Threads, set_full_access_targets(t)
    PROVE  /\ req[t].at = "idle" /\ req'[t].at = "grants" /\ ~req'[t].failed
           /\ UNCHANGED dbvars /\ RoomForRules(Cardinality(Dests))
           /\ \A k \in Threads \ {t} : req'[k] = req[k]
<1>1. PICK c, D : Move(t, [Idle EXCEPT !.op = "set_full_access_targets", !.at = "grants", !.cid = c,
                                      !.row = clients[c], !.picked = D])
  BY DEF set_full_access_targets
<1> DEFINE r == [Idle EXCEPT !.op = "set_full_access_targets", !.at = "grants", !.cid = c,
                             !.row = clients[c], !.picked = D]
<1>2. r.at = "grants" /\ ~r.failed
  BY DEF Idle
<1> HIDE DEF r
<1>3. req'[t] = r /\ \A k \in Threads \ {t} : req'[k] = req[k]
  BY <1>1, ReqType DEF Move, r
<1>4. req[t].at = "idle" /\ UNCHANGED dbvars /\ RoomForRules(Cardinality(Dests))
  BY DEF set_full_access_targets, Ready
<1>5. QED
  BY <1>2, <1>3, <1>4

LEMMA MatrixRoom ==
    ASSUME AppInv, RoomInv, NEW t \in Threads, set_full_access_targets(t)
    PROVE  RoomInv'
<1>1. Pending' = Pending \cup {t} /\ t \notin Pending /\ autoinc' = autoinc
  BY MatrixBegins DEF Pending, dbvars
<1> DEFINE n == Cardinality(Pending)
           k == Cardinality(Pending')
           m == Cardinality(Dests)
<1>2. IsFiniteSet(Pending') /\ k = n + 1 /\ n \in Nat
  BY <1>1, FS_AddElement, FS_CardinalityType DEF RoomInv
<1>3. m \in Nat /\ autoinc.rules \in Nat /\ MaxRules \in Nat
  BY DestsCount, RulesCount
<1>4. autoinc.rules + m + n * m <= MaxRules
  BY MatrixBegins DEF RoomForRules
<1> HIDE DEF n, k, m
<1>5. autoinc'.rules + 0 + k * m <= MaxRules
  BY <1>1, <1>2, <1>3, <1>4, PendingCount
<1>6. QED
  BY <1>2, <1>5 DEF RoomInv, RoomForRules, k, m

LEMMA GrantPending ==
    ASSUME AppInv, RoomInv, NEW t \in Threads, Grant(t)
    PROVE  /\ Pending' = Pending \ {t} /\ IsFiniteSet(Pending')
           /\ Cardinality(Pending) = Cardinality(Pending') + 1
           /\ Cardinality(Pending') \in Nat
<1>1. req[t].at = "grant" /\ req'[t].at \notin {"grants", "grant"}
  BY GrantEffect DEF Goes
<1>2. \A k \in Threads \ {t} : req'[k] = req[k]
  BY ReqType DEF Grant, Move
<1>3. Pending' = Pending \ {t} /\ t \in Pending
  BY <1>1, <1>2 DEF Pending
<1>4. /\ IsFiniteSet(Pending) /\ IsFiniteSet(Pending \ {t})
      /\ Cardinality(Pending) \in Nat /\ Cardinality(Pending \ {t}) \in Nat
      /\ Cardinality(Pending \ {t}) = Cardinality(Pending) - 1
  BY <1>3, FS_RemoveElement, FS_CardinalityType DEF RoomInv
<1>5. QED
  BY <1>3, <1>4

LEMMA AddedCount ==
    ASSUME AppInv, NEW t \in Threads, NEW D
    PROVE  LET n == Cardinality(diff_target_sets(D, req[t].picked).added)
           IN  n \in Nat /\ n <= Cardinality(Dests)
<1>1. diff_target_sets(D, req[t].picked).added \subseteq Dests
  BY ReqSound DEF Request, diff_target_sets
<1>2. QED
  BY <1>1, AclAssumption, FS_Subset, FS_CardinalityType

LEMMA GrantRoom ==
    ASSUME AppInv, RoomInv, NEW t \in Threads, Grant(t)
    PROVE  RoomInv'
<1> DEFINE n == Cardinality(Pending)
           k == Cardinality(Pending')
           m == Cardinality(Dests)
           a == Cardinality(diff_target_sets({g[1] : g \in req[t].grants}, req[t].picked).added)
<1>1. IsFiniteSet(Pending') /\ n = k + 1 /\ k \in Nat
  BY GrantPending
<1>2. a \in Nat /\ a <= m
  BY AddedCount
<1>3. m \in Nat /\ autoinc.rules \in Nat /\ MaxRules \in Nat
  BY DestsCount, RulesCount
<1>4. autoinc.rules + 0 + n * m <= MaxRules
  BY DEF RoomInv, RoomForRules
<1>5. autoinc' = autoinc \/ autoinc' = [autoinc EXCEPT !.rules = @ + a]
  BY DEF Grant
<1> HIDE DEF n, k, m, a
<1>6. autoinc'.rules = autoinc.rules \/ autoinc'.rules = autoinc.rules + a
  BY <1>5, TablesTyped DEF TablesTypeOK
<1>7. autoinc'.rules + 0 + k * m <= MaxRules
  <2>1. n * m = k * m + m /\ k * m \in Nat
    BY <1>1, <1>3, PendingCount
  <2>2. QED
    BY <1>2, <1>3, <1>4, <1>6, <2>1
<1>8. QED
  BY <1>1, <1>7 DEF RoomInv, RoomForRules, k, m

LEMMA RoomStep ==
    ASSUME TargetInv, AppInv, PhaseInv, RoomInv, [Next]_vars
    PROVE  RoomInv'
<1>1. ASSUME NEW t \in Threads, ~set_full_access_targets(t), ~Grant(t),
             Begin(t) \/ Continue(t) \/ Timeout(t)
      PROVE  Pending' \subseteq Pending
  <2>1. req'[t].at \in {"grants", "grant"} => req[t].at \in {"grants", "grant"}
    BY <1>1, BeginMatrix, PendingWriters DEF Timeout
  <2>2. \A k \in Threads \ {t} : req'[k] = req[k]
    BY <1>1, ThreadFrame
  <2>3. QED
    BY <2>1, <2>2 DEF Pending
<1>2. ASSUME StartApp PROVE Pending' \subseteq Pending
  <2>1. \A t \in Threads : req'[t].at \in {"idle", "next"}
    BY <1>2, StartAppEffect, IdleIs, StartupIs
  <2>2. QED
    BY <2>1 DEF Pending
<1>3. UNCHANGED req => Pending' \subseteq Pending
  BY DEF Pending
<1>4. \/ Pending' \subseteq Pending
      \/ \E t \in Threads : set_full_access_targets(t) \/ Grant(t)
  BY <1>1, <1>2, <1>3 DEF Next, ServerStep, Restart, ServerReboot, vars
<1>5. ASSUME NEW t \in Threads, set_full_access_targets(t) \/ Grant(t) \/ add_rule(t)
      PROVE  RoomInv'
  BY <1>5, MatrixRoom, GrantRoom, AddRuleRoom
<1>6. QED
  BY <1>4, <1>5, CounterWriters, RoomShrinks


-----------------------------------------------------------------------------
(* What is written is what was chosen *)

FullRule(c, d, r) ==
    rules[r] # NoRow /\ rules[r].client = c /\ rules[r].service = AllPortsId
        /\ rules[r].dest = d /\ d \notin Groups

LEMMA GrantedIs ==
    ASSUME NEW c, NEW d
    PROVE  /\ \A r : <<d, r>> \in Granted(c) <=> r \in RuleIds /\ FullRule(c, d, r)
           /\ d \in {g[1] : g \in Granted(c)} <=> \E r \in RuleIds : FullRule(c, d, r)
<1> DEFINE Found == {q \in RulesWith("client", c) \cap RulesWith("service", AllPortsId) :
                        rules[q].dest \notin Groups}
<1>1. Granted(c) = {<<rules[r].dest, r>> : r \in Found}
  BY DEF Granted
<1>2. \A r : r \in Found <=> r \in RuleIds /\ FullRule(c, rules[r].dest, r)
  BY DEF RulesWith, FullRule
<1> HIDE DEF Found
<1>3. \A r : <<d, r>> \in Granted(c) <=> r \in Found /\ rules[r].dest = d
  BY <1>1
<1>4. d \in {g[1] : g \in Granted(c)} <=> \E r \in Found : rules[r].dest = d
  <2>1. ASSUME NEW g \in Granted(c), g[1] = d PROVE \E r \in Found : rules[r].dest = d
    <3>1. PICK r \in Found : g = <<rules[r].dest, r>>
      BY <1>1
    <3>2. QED
      BY <2>1, <3>1
  <2>2. ASSUME NEW r \in Found, rules[r].dest = d PROVE \E g \in Granted(c) : g[1] = d
    <3>1. <<d, r>> \in Granted(c) /\ <<d, r>>[1] = d
      BY <1>1, <2>2
    <3>2. QED
      BY <3>1
  <2>3. QED
    BY <2>1, <2>2
<1>5. QED
  BY <1>2, <1>3, <1>4 DEF FullRule

LEMMA GrantedIsNext ==
    ASSUME NEW c, NEW d
    PROVE  d \in {g[1] : g \in Granted(c)'} <=> \E r \in RuleIds : FullRule(c, d, r)'
<1> DEFINE Found == {q \in RulesWith("client", c)' \cap RulesWith("service", AllPortsId)' :
                        rules'[q].dest \notin Groups}
<1>1. Granted(c)' = {<<rules'[r].dest, r>> : r \in Found}
  BY DEF Granted
<1>2. \A r : r \in Found <=> r \in RuleIds /\ FullRule(c, rules[r].dest, r)'
  BY DEF RulesWith, FullRule
<1> HIDE DEF Found
<1>3. d \in {g[1] : g \in Granted(c)'} <=> \E r \in Found : rules'[r].dest = d
  <2>1. ASSUME NEW g \in Granted(c)', g[1] = d PROVE \E r \in Found : rules'[r].dest = d
    <3>1. PICK r \in Found : g = <<rules'[r].dest, r>>
      BY <1>1
    <3>2. QED
      BY <2>1, <3>1
  <2>2. ASSUME NEW r \in Found, rules'[r].dest = d PROVE \E g \in Granted(c)' : g[1] = d
    <3>1. <<d, r>> \in Granted(c)' /\ <<d, r>>[1] = d
      BY <1>1, <2>2
    <3>2. QED
      BY <3>1
  <2>3. QED
    BY <2>1, <2>2
<1>4. QED
  BY <1>2, <1>3 DEF FullRule

(* The ids that Grant takes are there, and nobody has had them. *)
LEMMA GrantIds ==
    ASSUME AppInv, RoomInv, NEW t \in Threads, Grant(t), NEW n \in Nat, n <= Cardinality(Dests)
    PROVE  (autoinc.rules + 1)..(autoinc.rules + n) \subseteq RuleIds
<1> DEFINE k == Cardinality(Pending)
           m == Cardinality(Dests)
           j == Cardinality(Pending')
<1>1. k = j + 1 /\ j \in Nat
  BY GrantPending
<1>2. m \in Nat /\ autoinc.rules \in Nat /\ MaxRules \in Nat
  BY DestsCount, RulesCount
<1>3. autoinc.rules + 0 + k * m <= MaxRules
  BY DEF RoomInv, RoomForRules
<1>4. n <= m
  OBVIOUS
<1> HIDE DEF k, m, j
<1>5. j * m \in Nat /\ k * m = j * m + m
  BY <1>1, <1>2, PendingCount
<1>6. autoinc.rules + n <= MaxRules
  BY <1>2, <1>3, <1>4, <1>5
<1>7. QED
  BY <1>2, <1>6 DEF RuleIds

LEMMA GrantDests ==
    ASSUME AppInv, RuleIdsInv, RoomInv, NEW t \in Threads, Grant(t), ~req'[t].failed,
           NEW c, c = req[t].cid, NEW D, D = req[t].picked,
           NEW G, G = req[t].grants, G = Granted(c), OnePerDest(G)
    PROVE  {g[1] : g \in Granted(c)'} = D
<1> DEFINE X == {g[1] : g \in G}
           added == diff_target_sets(X, D).added
           removed == {g[2] : g \in {k \in ByDest(G) : k[1] \in diff_target_sets(X, D).removed}}
           n == Cardinality(added)
           ids == (autoinc.rules + 1)..(autoinc.rules + n)
<1>3. D \subseteq Dests /\ G \subseteq Dests \X RuleIds
  BY ReqSound DEF Request
<1>4. added = D \ X
  BY DEF diff_target_sets
<1>5. \A d, r : <<d, r>> \in G /\ d \notin D => r \in removed
  <2> SUFFICES ASSUME NEW d, NEW r, <<d, r>> \in G, d \notin D PROVE r \in removed
    OBVIOUS
  <2>1. r \in RuleIds /\ r <= r
    BY <1>3 DEF RuleIds
  <2>2. \A k \in G : k[1] = d => k = <<d, r>>
    BY DEF OnePerDest
  <2>3. <<d, r>> \in ByDest(G)
    BY <2>1, <2>2 DEF ByDest
  <2>4. d \in diff_target_sets(X, D).removed
    BY DEF diff_target_sets
  <2>5. <<d, r>> \in {k \in ByDest(G) : k[1] \in diff_target_sets(X, D).removed}
    BY <2>3, <2>4
  <2>6. <<d, r>>[2] = r
    OBVIOUS
  <2>7. QED
    BY <2>5, <2>6
<1>6. \A d \in D : \A r : <<d, r>> \in G => r \notin removed
  <2> SUFFICES ASSUME NEW d \in D, NEW r, <<d, r>> \in G, NEW k \in ByDest(G),
                      k[1] \in diff_target_sets(X, D).removed, k[2] = r
               PROVE  FALSE
    OBVIOUS
  <2>1. k \in G /\ k[1] \notin D
    BY DEF ByDest, diff_target_sets
  <2>2. k = <<k[1], r>>
    BY <1>3, <2>1
  <2>3. k[1] = d
    <3>1. PICK e : e = k[1]
      OBVIOUS
    <3>2. <<d, r>> \in Granted(c) /\ <<e, r>> \in Granted(c)
      BY <2>1, <2>2, <3>1
    <3>3. FullRule(c, d, r) /\ FullRule(c, e, r)
      BY <3>2, GrantedIs
    <3>4. QED
      BY <3>1, <3>3 DEF FullRule
  <2>4. QED
    BY <2>1, <2>3
<1> HIDE DEF removed, added
<1>7. CASE added = {} /\ removed = {} /\ UNCHANGED rules
  <2>1. Granted(c)' = G
    BY <1>7 DEF Granted, RulesWith
  <2>2. X \subseteq D
    BY <1>3, <1>5, <1>7
  <2>3. QED
    BY <1>4, <1>7, <2>1, <2>2
<1>8. ASSUME NEW dest \in Bijection(ids, added),
             rules' = [r \in RuleIds |->
                 IF r \in ids THEN [client |-> c, dest |-> dest[r], service |-> AllPortsId]
                 ELSE IF r \in removed THEN NoRow ELSE rules[r]]
      PROVE  {g[1] : g \in Granted(c)'} = D
  <2>1. ids \subseteq RuleIds
    BY AddedCount, GrantIds DEF added
  <2> HIDE DEF ids
  <2>2. /\ \A r \in ids : dest[r] \in added
        /\ \A d \in added : \E r \in ids : dest[r] = d
    BY <1>8 DEF Bijection, Injection, Surjection
  <2>3. ASSUME NEW d \in D PROVE \E r \in RuleIds : FullRule(c, d, r)'
    <3>1. d \notin Groups
      BY <1>3, AclAssumption
    <3>2. CASE d \in added
      <4>1. PICK r \in ids : dest[r] = d
        BY <2>2, <3>2
      <4>2. rules'[r] = [client |-> c, dest |-> d, service |-> AllPortsId]
        BY <1>8, <2>1, <4>1
      <4>3. rules'[r] \in RuleRow
        <5>1. c \in ClientIds
          BY ReqSound, <4>1, GrantEffect DEF RequestOK
        <5>2. QED
          BY <1>3, <4>2, <5>1, BuiltinService DEF RuleRow
      <4>4. QED
        BY <2>1, <3>1, <4>1, <4>2, <4>3, AclAssumption DEF FullRule
    <3>3. CASE d \in X
      <4>1. PICK r \in RuleIds : FullRule(c, d, r) /\ <<d, r>> \in G
        BY <3>3, GrantedIs
      <4>2. r \in RuleIds /\ FullRule(c, d, r)
        BY <4>1
      <4>3. r <= autoinc.rules
        BY <4>2 DEF RuleIdsInv, FullRule
      <4>4. r \notin ids
        BY <4>2, <4>3, RulesCount DEF ids, RuleIds
      <4>5. rules'[r] = rules[r]
        BY <1>6, <1>8, <4>1, <4>2, <4>4
      <4>6. QED
        BY <4>2, <4>5 DEF FullRule
    <3>4. QED
      BY <1>4, <3>2, <3>3
  <2>4. ASSUME NEW d, NEW r \in RuleIds, FullRule(c, d, r)' PROVE d \in D
    <3>1. CASE r \in ids
      BY <1>4, <1>8, <2>2, <2>4, <3>1 DEF FullRule
    <3>2. CASE r \notin ids
      <4>1. rules'[r] = rules[r] /\ r \notin removed
        BY <1>8, <2>4, <3>2 DEF FullRule
      <4>2. <<d, r>> \in G
        BY <2>4, <4>1, GrantedIs DEF FullRule
      <4>3. QED
        BY <1>5, <4>1, <4>2
    <3>3. QED
      BY <3>1, <3>2
  <2>5. QED
    BY <2>3, <2>4, GrantedIsNext
<1>9. QED
  <2>1. req[t].at = "grant"
    BY GrantEffect
  <2>2. LET diff == diff_target_sets({g[1] : g \in req[t].grants}, req[t].picked)
            gone == {g[2] : g \in {k \in ByDest(req[t].grants) : k[1] \in diff.removed}}
            news == (autoinc.rules + 1)..(autoinc.rules + Cardinality(diff.added))
        IN  \/ diff.added = {} /\ gone = {} /\ UNCHANGED rules
            \/ req' = [req EXCEPT ![t] = [req[t] EXCEPT !.failed = TRUE, !.at = "reply"]]
            \/ \E dest \in Bijection(news, diff.added) :
                    rules' = [r \in RuleIds |->
                        IF r \in news THEN [client |-> req[t].cid, dest |-> dest[r], service |-> AllPortsId]
                        ELSE IF r \in gone THEN NoRow ELSE rules[r]]
    BY DEF Grant, Move
  <2>3. req' # [req EXCEPT ![t] = [req[t] EXCEPT !.failed = TRUE, !.at = "reply"]]
    BY ReqType DEF Request
  <2>4. \/ added = {} /\ removed = {} /\ UNCHANGED rules
        \/ req' = [req EXCEPT ![t] = [req[t] EXCEPT !.failed = TRUE, !.at = "reply"]]
        \/ \E dest \in Bijection(ids, added) :
                    rules' = [r \in RuleIds |->
                        IF r \in ids THEN [client |-> c, dest |-> dest[r], service |-> AllPortsId]
                        ELSE IF r \in removed THEN NoRow ELSE rules[r]]
    <3>1. PICK C, P, H : C = req[t].cid /\ P = req[t].picked /\ H = req[t].grants
      OBVIOUS
    <3>2. C = c /\ P = D /\ H = G
      BY <3>1
    <3>3. QED
      BY <2>2, <3>1, <3>2 DEF added, removed
  <2>5. QED
    BY <1>7, <1>8, <2>3, <2>4

LEMMA GrantAsChosen ==
    ASSUME AppInv, RuleIdsInv, RoomInv, NEW t \in Threads, Grant(t),
           req[t].grants = Granted(req[t].cid), ~req'[t].failed
    PROVE  AsChosen(t)'
<1>1. PICK c, D, G : c = req[t].cid /\ D = req[t].picked /\ G = req[t].grants
  OBVIOUS
<1>2. req'[t].cid = c /\ req'[t].picked = D /\ req'[t].grants = G
  BY <1>1, GrantEffect DEF Goes
<1>3. OnePerDest(G) => {g[1] : g \in Granted(c)'} = D
  BY <1>1, GrantDests
<1>4. Granted(req[t].cid)' = Granted(c)'
  BY <1>2 DEF Granted, RulesWith
<1>5. QED
  BY <1>2, <1>3, <1>4 DEF AsChosen, OnePerDest

-----------------------------------------------------------------------------
(* An undisturbed change of the matrix on its way *)

MatrixOf(t) ==
    req[t].op = "set_full_access_targets" =>
        /\ req[t].at \in {"grants", "grant", "unchanged", "reply"} \cup InHand
        /\ t \notin disturbed /\ ~req[t].failed =>
              /\ req[t].at = "grant" => req[t].grants = Granted(req[t].cid)
              /\ req[t].at \notin {"grants", "grant"} => AsChosen(t)

(* No rule is written, and the request goes on with what it has read. *)
LEMMA MatrixGoes ==
    ASSUME NEW t \in Threads, MatrixOf(t), UNCHANGED rules,
           req[t].at \notin {"grants", "grant"},
           NEW step \in InHand \cup {"unchanged", "reply"}, Goes(t, step),
           t \notin disturbed' => t \notin disturbed
    PROVE  MatrixOf(t)'
<1>1. /\ req'[t].op = req[t].op /\ req'[t].cid = req[t].cid /\ req'[t].at = step
      /\ req'[t].picked = req[t].picked /\ req'[t].grants = req[t].grants
      /\ req[t].failed => req'[t].failed
  BY DEF Goes, InHand
<1>2. Granted(req[t].cid)' = Granted(req[t].cid)
  BY <1>1 DEF Granted, RulesWith
<1>3. AsChosen(t) => AsChosen(t)'
  BY <1>1, <1>2 DEF AsChosen
<1>4. QED
  BY <1>1, <1>3 DEF MatrixOf, InHand

LEMMA MatrixFrame ==
    ASSUME NEW t \in Threads, MatrixOf(t), req'[t] = req[t],
           t \notin disturbed' /\ req[t].op = "set_full_access_targets" =>
               t \notin disturbed /\ Granted(req[t].cid)' = Granted(req[t].cid)
    PROVE  MatrixOf(t)'
BY DEF MatrixOf, AsChosen

LEMMA MatrixBystander ==
    ASSUME Watch, NEW t \in Threads, MatrixOf(t), req'[t] = req[t]
    PROVE  MatrixOf(t)'
<1>1. CASE req[t].op = "set_full_access_targets" /\ t \notin disturbed'
  <2>1. req'[t].at # "idle"
    BY <1>1 DEF MatrixOf, InHand
  <2>2. t \notin disturbed /\ ~Regranted(t)
    BY <1>1, <2>1 DEF Watch
  <2>3. Granted(req[t].cid)' = Granted(req[t].cid)
    <3>1. CASE rules' = rules
      BY <3>1 DEF Granted, RulesWith
    <3>2. CASE rules' # rules
      BY <1>1, <2>2, <3>2 DEF Regranted
    <3>3. QED
      BY <3>1, <3>2
  <2>4. QED
    BY <2>2, <2>3, MatrixFrame
<1>2. QED
  BY <1>1, MatrixFrame

LEMMA MatrixContinue ==
    ASSUME TargetInv, AppInv, RuleIdsInv, RoomInv, Watch,
           NEW t \in Threads, MatrixOf(t), Continue(t)
    PROVE  MatrixOf(t)'
<1>1. CASE req[t].op # "set_full_access_targets"
  <2>1. req'[t].op # "set_full_access_targets"
    BY <1>1, ContinueKeeps, QuietEffect, IdleIs
  <2>2. QED
    BY <2>1 DEF MatrixOf
<1>2. CASE Reply(t)
  BY <1>2, QuietEffect, IdleIs DEF MatrixOf
<1>3. CASE req[t].op = "set_full_access_targets" /\ ~Reply(t)
  <2>1. /\ req[t].at \in {"grants", "grant", "unchanged", "reply"} \cup InHand
        /\ ~Removing(req[t]) /\ req[t].op \notin QueueOps /\ req[t].op # "cleanup"
    BY <1>3 DEF MatrixOf, Removing, QueueOps
  <2>2. ~EraseService(t)
    BY <2>1, QuietEffect DEF InHand
  <2>3. req'[t].at # "idle" /\ (t \notin disturbed' => t \notin disturbed)
    BY <1>3, <2>2, ContinueKeeps, WatchKeeps
  <2>4. CASE ReadGrants(t)
    <3>1. req'[t].grants = Granted(req[t].cid) /\ UNCHANGED rules /\ req'[t].cid = req[t].cid
      <4>1. PICK G : G = Granted(req[t].cid)
        OBVIOUS
      <4>2. req'[t] = [req[t] EXCEPT !.grants = G, !.at = "grant"] /\ UNCHANGED rules
        BY <2>4, <4>1, ReqType DEF ReadGrants, Move, dbvars
      <4>3. QED
        BY <4>1, <4>2, RequestIsTyped DEF Request
    <3>2. Granted(req[t].cid)' = Granted(req[t].cid)
      BY <3>1 DEF Granted, RulesWith
    <3>3. req'[t].at = "grant"
      BY <2>4, QuietEffect DEF Goes
    <3>4. QED
      BY <3>1, <3>2, <3>3 DEF MatrixOf
  <2>5. CASE Grant(t)
    <3>1. req'[t].at \in {"unchanged", "reply", "detect"} /\ req[t].at = "grant"
          /\ (req[t].failed => req'[t].failed)
      BY <2>5, GrantEffect DEF Goes
    <3>2. ASSUME t \notin disturbed', ~req'[t].failed PROVE AsChosen(t)'
      <4>1. req[t].grants = Granted(req[t].cid)
        BY <1>3, <2>3, <3>1, <3>2 DEF MatrixOf
      <4>2. QED
        BY <2>5, <3>2, <4>1, GrantAsChosen
    <3>3. QED
      BY <3>1, <3>2 DEF MatrixOf, InHand
  <2>6. ASSUME NEW step \in InHand \cup {"reply"}, Goes(t, step), UNCHANGED dbvars, req[t].at \in InHand
        PROVE  MatrixOf(t)'
    BY <2>3, <2>6, MatrixGoes DEF dbvars, InHand
  <2>7. CASE Detect(t)
    <3>1. req[t].at \in InHand /\ UNCHANGED dbvars
      BY <2>7, DetectEffect DEF InHand
    <3>2. Goes(t, "run") \/ Goes(t, "read") \/ Goes(t, "reply")
      BY <2>1, <2>7, DetectEffect
    <3>3. QED
      BY <2>6, <3>1, <3>2 DEF InHand
  <2>8. CASE ReadRules(t)
    <3>1. req[t].at \in InHand /\ UNCHANGED dbvars
      BY <2>8, ReadRulesEffect DEF InHand
    <3>2. Goes(t, "run") \/ Goes(t, "resolve")
      BY <2>8, ReadRulesEffect
    <3>3. QED
      BY <2>6, <3>1, <3>2 DEF InHand
  <2>9. CASE ResolveGroup(t)
    <3>1. req[t].at \in InHand /\ UNCHANGED dbvars
      BY <2>9, ResolveGroupEffect DEF InHand
    <3>2. Goes(t, "run") \/ Goes(t, "resolve")
      BY <2>9, ResolveGroupEffect
    <3>3. QED
      BY <2>6, <3>1, <3>2 DEF InHand
  <2>10. CASE FinishRun(t)
    <3>1. req[t].at \in InHand /\ UNCHANGED dbvars
      BY <2>10, FinishRunEffect DEF InHand
    <3>2. Goes(t, "reply")
      BY <1>3, <2>1, <2>10, FinishRunEffect DEF AfterRun
    <3>3. QED
      BY <2>6, <3>1, <3>2
  <2>11. /\ ~ToggleWrite(t) /\ ~EraseRule(t) /\ ~Reread(t) /\ ~ListChains(t) /\ ~NextClient(t)
         /\ ~NextOrphan(t) /\ ~EraseClient(t) /\ ~Readdress(t)
    BY <2>1 DEF InHand, ToggleWrite, Negate, EraseRule, Reread, ListChains, NextClient, NextOrphan,
       EraseClient, Readdress
  <2>12. QED
    BY <1>3, <2>2, <2>4, <2>5, <2>7, <2>8, <2>9, <2>10, <2>11 DEF Continue
<1>4. QED
  BY <1>1, <1>2, <1>3

LEMMA MatrixStep ==
    ASSUME TargetInv, AppInv, PhaseInv, RuleIdsInv, RoomInv, MatrixInv, [Next]_vars
    PROVE  MatrixInv'
<1>1. \A t \in Threads : MatrixOf(t)
  BY DEF MatrixInv, MatrixOf
<1>2. ASSUME NEW t \in Threads, Begin(t) \/ Continue(t) \/ Timeout(t), Watch
      PROVE  \A k \in Threads : MatrixOf(k)'
  <2>1. \A k \in Threads \ {t} : MatrixOf(k)'
    BY <1>1, <1>2, ThreadFrame, MatrixBystander
  <2>2. MatrixOf(t)'
    <3>1. CASE set_full_access_targets(t)
      BY <3>1, MatrixBegins DEF MatrixOf
    <3>2. CASE Begin(t) /\ ~set_full_access_targets(t)
      BY <3>2, BeginMatrix DEF MatrixOf
    <3>3. CASE Continue(t)
      BY <1>1, <1>2, <3>3, MatrixContinue
    <3>4. CASE Timeout(t)
      BY <1>1, <1>2, <3>4, MatrixBystander DEF Timeout
    <3>5. QED
      BY <1>2, <3>1, <3>2, <3>3, <3>4
  <2>3. QED
    BY <2>1, <2>2
<1>3. ASSUME ServerStep, Watch, NEW t \in Threads PROVE MatrixOf(t)'
  BY <1>1, <1>3, MatrixBystander DEF ServerStep
<1>4. ASSUME Restart \/ ServerReboot, NEW t \in Threads PROVE MatrixOf(t)'
  <2>1. CASE StartApp
    BY <2>1, StartAppEffect, IdleIs, StartupIs DEF MatrixOf
  <2>2. CASE disturbed' = {k \in Threads : req[k].at # "idle"} /\ UNCHANGED req
    BY <1>1, <2>2, MatrixFrame DEF MatrixOf, InHand
  <2>3. QED
    BY <1>4, <2>1, <2>2 DEF Restart, ServerReboot
<1>5. ASSUME UNCHANGED vars, NEW t \in Threads PROVE MatrixOf(t)'
  <2>1. UNCHANGED <<req, rules, disturbed>>
    BY <1>5 DEF vars, dbvars
  <2>2. Granted(req[t].cid)' = Granted(req[t].cid)
    BY <2>1 DEF Granted, RulesWith
  <2>3. QED
    BY <1>1, <2>1, <2>2, MatrixFrame
<1>6. \A t \in Threads : MatrixOf(t)'
  BY <1>2, <1>3, <1>4, <1>5 DEF Next
<1>7. QED
  BY <1>6 DEF MatrixInv, MatrixOf

-----------------------------------------------------------------------------
(* The inductive invariant, and what follows from it *)

LEMMA AccessInit == Init => RuleIdsInv /\ AccessInv
<1> SUFFICES ASSUME Init PROVE RuleIdsInv /\ AccessInv
  OBVIOUS
<1>1. \A t \in Threads : req[t].at = "idle" /\ req[t].op = "none"
  BY IdleIs DEF Init
<1>2. RuleIdsInv
  BY <1>1 DEF Init, RuleIdsInv
<1>3. MatrixInv
  BY <1>1 DEF MatrixInv
<1>4. Pending = {} /\ autoinc.rules = 0
  BY <1>1 DEF Pending, Init
<1>5. IsFiniteSet(Pending) /\ Cardinality(Pending) = 0
  BY <1>4, FS_EmptySet
<1>6. 0 + 0 + 0 * Cardinality(Dests) <= MaxRules
  BY DestsCount, AclAssumption
<1>7. RoomInv
  BY <1>4, <1>5, <1>6 DEF RoomInv, RoomForRules
<1>8. QED
  BY <1>2, <1>3, <1>7 DEF AccessInv

LEMMA AccessStep ==
    (TargetInv /\ AppInv) /\ (JumpInv /\ SettledInv) /\ (RuleIdsInv /\ AccessInv) /\ [Next]_vars
        => (RuleIdsInv /\ AccessInv)'
BY RuleIdsStep, RoomStep, MatrixStep DEF SettledInv, AccessInv

(* set_full_access_targets() compares what it reads in one statement with  *)
(* what was chosen, writes the difference in a second one and applies the  *)
(* client with a row read before: unless somebody else changes the         *)
(* client's rules in between, it ends with full access to what was chosen  *)
(* and to nothing else, the ids of the rules it deletes still naming the   *)
(* rules it read.                                                          *)
THEOREM FullAccessIsAsChosen == Spec => []FullAccessAsChosen
<1>1. AccessInv => FullAccessAsChosen
  BY DEF AccessInv, MatrixInv, FullAccessAsChosen, AsChosen, OnePerDest
<1>2. QED
  BY AppInvariant, SettledInvariant, AccessInit, AccessStep, <1>1, PTL DEF Spec


=============================================================================
