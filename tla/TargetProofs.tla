---------------------------- MODULE TargetProofs ----------------------------
(***************************************************************************)
(* What the target server guarantees for any number of scripts, addresses  *)
(* and targets: the types, the order of the hook chains, that the DROP of  *)
(* a chain in use is never lost between concurrent scripts; and that it    *)
(* implements ClientFilter: firewall.py works on hook chains that all      *)
(* clients share, and yet a script changes what the packets of its own     *)
(* client meet, and of no other.                                           *)
(***************************************************************************)
EXTENDS Target, SequenceTheorems, TLAPS

-----------------------------------------------------------------------------
(* Sequences: what -I and -D do to a hook chain. *)

LEMMA InsertAtProperties ==
    ASSUME NEW S, NEW s \in Seq(S), NEW n \in 1..(Len(s) + 1), NEW e \in S
    PROVE  /\ InsertAt(s, n, e) \in Seq(S)
           /\ Len(InsertAt(s, n, e)) = Len(s) + 1
           /\ \A i \in 1..(Len(s) + 1) :
                 InsertAt(s, n, e)[i] = IF i < n THEN s[i]
                                        ELSE IF i = n THEN e ELSE s[i - 1]
<1> DEFINE a == SubSeq(s, 1, n - 1)
           b == SubSeq(s, n, Len(s))
<1>1. a \in Seq(S) /\ Len(a) = n - 1 /\ \A i \in 1..(n - 1) : a[i] = s[i]
  BY SubSeqProperties, LenProperties
<1>2. b \in Seq(S) /\ Len(b) = Len(s) - n + 1
      /\ \A i \in 1..(Len(s) - n + 1) : b[i] = s[n + i - 1]
  BY SubSeqProperties, LenProperties
<1>3. <<e>> \in Seq(S) /\ Len(<<e>>) = 1 /\ <<e>>[1] = e
  OBVIOUS
<1> HIDE DEF a, b
<1> DEFINE c == a \o <<e>>
<1>4. c \in Seq(S) /\ Len(c) = n
      /\ \A i \in 1..n : c[i] = IF i < n THEN s[i] ELSE e
  BY <1>1, <1>3, ConcatProperties
<1> HIDE DEF c
<1>5. /\ c \o b \in Seq(S)
      /\ Len(c \o b) = Len(c) + Len(b)
      /\ \A i \in 1..(Len(c) + Len(b)) :
            (c \o b)[i] = IF i <= Len(c) THEN c[i] ELSE b[i - Len(c)]
  BY <1>2, <1>4, ConcatProperties
<1>6. InsertAt(s, n, e) = c \o b
  BY DEF InsertAt, a, b, c
<1> DEFINE w == c \o b
<1> HIDE DEF w
<1>7. w \in Seq(S) /\ Len(w) = Len(s) + 1
  BY <1>2, <1>4, <1>5, LenProperties DEF w
<1>8. \A i \in 1..(Len(s) + 1) :
         w[i] = IF i < n THEN s[i] ELSE IF i = n THEN e ELSE s[i - 1]
  <2> SUFFICES ASSUME NEW i \in 1..(Len(s) + 1)
               PROVE  w[i] = IF i < n THEN s[i] ELSE IF i = n THEN e ELSE s[i - 1]
    OBVIOUS
  <2>1. w[i] = IF i <= n THEN c[i] ELSE b[i - n]
    BY <1>2, <1>4, <1>5, LenProperties DEF w
  <2>2. CASE i <= n
    BY <2>1, <2>2, <1>4
  <2>3. CASE i > n
    <3>1. i - n \in 1..(Len(s) - n + 1)
      BY <2>3, LenProperties
    <3>2. b[i - n] = s[n + (i - n) - 1]
      BY <3>1, <1>2
    <3>3. n + (i - n) - 1 = i - 1
      OBVIOUS
    <3>4. QED
      BY <2>1, <2>3, <3>2, <3>3, LenProperties
  <2>4. QED
    BY <2>2, <2>3
<1>9. QED
  BY <1>6, <1>7, <1>8 DEF w

LEMMA RemoveAtProperties ==
    ASSUME NEW S, NEW s \in Seq(S), NEW n \in 1..Len(s)
    PROVE  /\ RemoveAt(s, n) \in Seq(S)
           /\ Len(RemoveAt(s, n)) = Len(s) - 1
           /\ \A i \in 1..(Len(s) - 1) :
                 RemoveAt(s, n)[i] = IF i < n THEN s[i] ELSE s[i + 1]
<1> DEFINE a == SubSeq(s, 1, n - 1)
           b == SubSeq(s, n + 1, Len(s))
<1>1. a \in Seq(S) /\ Len(a) = n - 1 /\ \A i \in 1..(n - 1) : a[i] = s[i]
  BY SubSeqProperties, LenProperties
<1>2. b \in Seq(S) /\ Len(b) = Len(s) - n
      /\ \A i \in 1..(Len(s) - n) : b[i] = s[n + i]
  BY SubSeqProperties, LenProperties
<1> HIDE DEF a, b
<1>3. /\ a \o b \in Seq(S)
      /\ Len(a \o b) = Len(a) + Len(b)
      /\ \A i \in 1..(Len(a) + Len(b)) :
            (a \o b)[i] = IF i <= Len(a) THEN a[i] ELSE b[i - Len(a)]
  BY <1>1, <1>2, ConcatProperties
<1>4. RemoveAt(s, n) = a \o b
  BY DEF RemoveAt, a, b
<1> DEFINE w == a \o b
<1> HIDE DEF w
<1>5. w \in Seq(S) /\ Len(w) = Len(s) - 1
  BY <1>1, <1>2, <1>3, LenProperties DEF w
<1>6. \A i \in 1..(Len(s) - 1) : w[i] = IF i < n THEN s[i] ELSE s[i + 1]
  <2> SUFFICES ASSUME NEW i \in 1..(Len(s) - 1)
               PROVE  w[i] = IF i < n THEN s[i] ELSE s[i + 1]
    OBVIOUS
  <2>1. w[i] = IF i < n THEN a[i] ELSE b[i - (n - 1)]
    BY <1>1, <1>2, <1>3, LenProperties DEF w
  <2>2. CASE i < n
    BY <2>1, <2>2, <1>1
  <2>3. CASE i >= n
    <3>1. i - (n - 1) \in 1..(Len(s) - n)
      BY <2>3, LenProperties
    <3>2. b[i - (n - 1)] = s[n + (i - (n - 1))]
      BY <3>1, <1>2
    <3>3. n + (i - (n - 1)) = i + 1
      OBVIOUS
    <3>4. QED
      BY <2>1, <2>3, <3>2, <3>3, LenProperties
  <2>4. QED
    BY <2>2, <2>3
<1>7. QED
  BY <1>4, <1>5, <1>6 DEF w

-----------------------------------------------------------------------------
(* The effect of the two insertions and of the removal on one hook chain.  *)

LEMMA InsertEstablishedOK ==
    ASSUME NEW s \in Seq(HookRule), HookOK(s)
    PROVE  LET w == InsertAt(s, 1, Established)
           IN  /\ w \in Seq(HookRule)
               /\ HookOK(w)
               /\ \A r : Holds(w, r) <=> r = Established \/ Holds(s, r)
<1> DEFINE w == InsertAt(s, 1, Established)
<1>1. /\ w \in Seq(HookRule)
      /\ Len(w) = Len(s) + 1
      /\ \A i \in 1..(Len(s) + 1) :
            w[i] = IF i < 1 THEN s[i] ELSE IF i = 1 THEN Established ELSE s[i - 1]
  <2>1. Len(s) \in Nat /\ 1 \in 1..(Len(s) + 1) /\ Established \in HookRule
    BY LenProperties DEF HookRule
  <2>2. QED
    BY <2>1, InsertAtProperties
<1> HIDE DEF w
<1>2. Len(s) \in Nat
  BY LenProperties
<1>3. w[1] = Established /\ \A i \in 1..Len(s) : w[i + 1] = s[i]
  BY <1>1, <1>2
<1>4. HookOK(w)
  <2>1. ASSUME NEW i \in 1..Len(w), NEW k \in 1..Len(w), w[i] = Mesh, i < k
        PROVE  w[k] \notin Ips
    <3>1. i # 1
      BY <2>1, <1>3, FirewallAssumption
    <3>2. i - 1 \in 1..Len(s) /\ k - 1 \in 1..Len(s) /\ i - 1 < k - 1
      BY <2>1, <3>1, <1>1, <1>2
    <3>3. s[i - 1] = Mesh /\ s[k - 1] = w[k]
      BY <2>1, <3>1, <3>2, <1>1, <1>2
    <3>4. QED
      BY <3>2, <3>3 DEF HookOK
  <2>2. QED
    BY <2>1, <1>3 DEF HookOK
<1>5. ASSUME NEW r
      PROVE  Holds(w, r) <=> r = Established \/ Holds(s, r)
  <2>1. ASSUME Holds(w, r), r # Established PROVE Holds(s, r)
    <3>1. PICK i \in 1..Len(w) : w[i] = r
      BY <2>1 DEF Holds
    <3>2. i - 1 \in 1..Len(s) /\ s[i - 1] = r
      BY <3>1, <2>1, <1>1, <1>2, <1>3
    <3>3. QED
      BY <3>2 DEF Holds
  <2>2. ASSUME Holds(s, r) PROVE Holds(w, r)
    <3>1. PICK i \in 1..Len(s) : s[i] = r
      BY <2>2 DEF Holds
    <3>2. i + 1 \in 1..Len(w) /\ w[i + 1] = r
      BY <3>1, <1>1, <1>2, <1>3
    <3>3. QED
      BY <3>2 DEF Holds
  <2>3. ASSUME r = Established PROVE Holds(w, r)
    BY <2>3, <1>1, <1>2, <1>3 DEF Holds
  <2>4. QED
    BY <2>1, <2>2, <2>3
<1>6. QED
  BY <1>1, <1>4, <1>5 DEF w

LEMMA InsertJumpOK ==
    ASSUME NEW s \in Seq(HookRule), NEW ip \in Ips, HookOK(s), Holds(s, Established)
    PROVE  LET w == InsertAt(s, 2, ip)
           IN  /\ w \in Seq(HookRule)
               /\ HookOK(w)
               /\ \A r : Holds(w, r) <=> r = ip \/ Holds(s, r)
<1> DEFINE w == InsertAt(s, 2, ip)
<1>1. Len(s) \in Nat
  BY LenProperties
<1>2. Len(s) >= 1 /\ s[1] = Established
  BY <1>1 DEF Holds, HookOK
<1>3. /\ w \in Seq(HookRule)
      /\ Len(w) = Len(s) + 1
      /\ \A i \in 1..(Len(s) + 1) :
            w[i] = IF i < 2 THEN s[i] ELSE IF i = 2 THEN ip ELSE s[i - 1]
  <2>1. 2 \in 1..(Len(s) + 1) /\ ip \in HookRule
    BY <1>1, <1>2 DEF HookRule
  <2>2. QED
    BY <2>1, InsertAtProperties
<1> HIDE DEF w
<1>4. w[1] = Established /\ w[2] = ip /\ \A i \in 2..Len(s) : w[i + 1] = s[i]
  BY <1>1, <1>2, <1>3
<1>5. HookOK(w)
  <2>1. ASSUME NEW i \in 1..Len(w), NEW k \in 1..Len(w), w[i] = Mesh, i < k
        PROVE  w[k] \notin Ips
    <3>1. i # 1 /\ i # 2
      BY <2>1, <1>4, FirewallAssumption
    <3>2. i - 1 \in 1..Len(s) /\ k - 1 \in 1..Len(s) /\ i - 1 < k - 1
      BY <2>1, <3>1, <1>1, <1>3
    <3>3. s[i - 1] = Mesh /\ s[k - 1] = w[k]
      BY <2>1, <3>1, <3>2, <1>1, <1>3
    <3>4. QED
      BY <3>2, <3>3 DEF HookOK
  <2>2. QED
    BY <2>1, <1>4 DEF HookOK
<1>6. ASSUME NEW r
      PROVE  Holds(w, r) <=> r = ip \/ Holds(s, r)
  <2>1. ASSUME Holds(w, r), r # ip PROVE Holds(s, r)
    <3>1. PICK i \in 1..Len(w) : w[i] = r
      BY <2>1 DEF Holds
    <3>2. CASE i = 1
      BY <3>1, <3>2, <1>1, <1>2, <1>4 DEF Holds
    <3>3. CASE i # 1
      <4>1. i - 1 \in 1..Len(s) /\ s[i - 1] = r
        BY <3>1, <3>3, <2>1, <1>1, <1>3, <1>4
      <4>2. QED
        BY <4>1 DEF Holds
    <3>4. QED
      BY <3>2, <3>3
  <2>2. ASSUME Holds(s, r) PROVE Holds(w, r)
    <3>1. PICK i \in 1..Len(s) : s[i] = r
      BY <2>2 DEF Holds
    <3>2. CASE i = 1
      BY <3>1, <3>2, <1>1, <1>2, <1>3, <1>4 DEF Holds
    <3>3. CASE i # 1
      <4>1. i + 1 \in 1..Len(w) /\ w[i + 1] = r
        BY <3>1, <3>3, <1>1, <1>3, <1>4
      <4>2. QED
        BY <4>1 DEF Holds
    <3>4. QED
      BY <3>2, <3>3
  <2>3. ASSUME r = ip PROVE Holds(w, r)
    <3>1. 2 \in 1..Len(w)
      BY <1>1, <1>2, <1>3
    <3>2. QED
      BY <3>1, <2>3, <1>4 DEF Holds
  <2>4. QED
    BY <2>1, <2>2, <2>3
<1>7. QED
  BY <1>3, <1>5, <1>6 DEF w

LEMMA RemoveJumpOK ==
    ASSUME NEW s \in Seq(HookRule), NEW ip \in Ips, HookOK(s),
           NEW n \in FirstMatch(s, ip)
    PROVE  LET w == RemoveAt(s, n)
           IN  /\ w \in Seq(HookRule)
               /\ HookOK(w)
               /\ Holds(s, Established) => Holds(w, Established)
               /\ \A r : Holds(w, r) => Holds(s, r)
<1> DEFINE w == RemoveAt(s, n)
<1>1. n \in 1..Len(s) /\ s[n] = ip /\ Len(s) \in Nat
  BY LenProperties DEF FirstMatch
<1>2. s[1] = Established /\ n # 1
  BY <1>1, FirewallAssumption DEF HookOK
<1>3. /\ w \in Seq(HookRule)
      /\ Len(w) = Len(s) - 1
      /\ \A i \in 1..(Len(s) - 1) : w[i] = IF i < n THEN s[i] ELSE s[i + 1]
  BY <1>1, RemoveAtProperties
<1> HIDE DEF w
<1>4. Len(w) \in Nat /\ 1 \in 1..Len(w) /\ w[1] = Established
  BY <1>1, <1>2, <1>3
<1>5. HookOK(w)
  <2>1. ASSUME NEW i \in 1..Len(w), NEW k \in 1..Len(w), w[i] = Mesh, i < k
        PROVE  w[k] \notin Ips
    <3> DEFINE o(x) == IF x < n THEN x ELSE x + 1
    <3>1. o(i) \in 1..Len(s) /\ o(k) \in 1..Len(s) /\ o(i) < o(k)
      BY <2>1, <1>1, <1>3
    <3>2. s[o(i)] = Mesh /\ s[o(k)] = w[k]
      BY <2>1, <1>1, <1>3
    <3>3. QED
      BY <3>1, <3>2 DEF HookOK
  <2>2. QED
    BY <2>1, <1>4 DEF HookOK
<1>6. ASSUME NEW r, Holds(w, r)
      PROVE  Holds(s, r)
  <2>1. PICK i \in 1..Len(w) : w[i] = r
    BY <1>6 DEF Holds
  <2>2. i \in 1..Len(s) /\ i + 1 \in 1..Len(s)
    BY <1>1, <1>3
  <2>3. QED
    BY <2>1, <2>2, <1>3 DEF Holds
<1>7. Holds(w, Established)
  BY <1>4 DEF Holds
<1>8. QED
  BY <1>3, <1>5, <1>6, <1>7 DEF w

-----------------------------------------------------------------------------
(* Types *)

LEMMA BuiltScripts ==
    ASSUME NEW ip \in Ips, NEW h \in Hooks, NEW ts \in SUBSET Targets
    PROVE  build_remove_script(ip, h) \in Script /\ build_apply_script(ip, ts, h) \in Script
BY DEF build_remove_script, build_apply_script, Script, ApplySteps, RemoveSteps, EndSteps

LEMMA BaseType == BootHooks \in [Hooks -> Seq(HookRule)] /\ BootChains \in [Ips -> Chain \cup {NoChain}]
<1>1. Base \in Seq(HookRule)
  BY FirewallAssumption, SeqMonotonic DEF HookRule
<1>2. <<>> \in Seq(HookRule)
  OBVIOUS
<1>3. QED
  BY <1>1, <1>2 DEF BootHooks, BootChains

(* The script a job runs, with the line to execute next. *)
LEMMA AtType ==
    ASSUME TargetTypeOK, NEW j \in Jobs, NEW step, At(j, step)
    PROVE  /\ script[j] \in Script
           /\ script[j].ip \in Ips
           /\ script[j].hook \in Hooks
           /\ script[j].todo \subseteq Targets
           /\ script[j].at = step
BY DEF TargetTypeOK, At, Script

LEMMA GotoType ==
    ASSUME TargetTypeOK, NEW j \in Jobs, script[j] # NoScript, NEW step, Goto(j, step),
           step \in ApplySteps \cup RemoveSteps \cup {"save"} \cup EndSteps
    PROVE  /\ script' \in [Jobs -> Script \cup {NoScript}]
           /\ script'[j] # NoScript
           /\ script'[j].ip = script[j].ip
           /\ script'[j].hook = script[j].hook
           /\ script'[j].at = step
           /\ \A k \in Jobs \ {j} : script'[k] = script[k]
<1>1. script[j] \in Script
  BY DEF TargetTypeOK
<1> DEFINE n == [script[j] EXCEPT !.at = step]
<1>2. n \in Script /\ n.ip = script[j].ip /\ n.hook = script[j].hook /\ n.at = step
  BY <1>1 DEF Script
<1>3. script' = [script EXCEPT ![j] = n]
  BY DEF Goto
<1> HIDE DEF n
<1>4. script' \in [Jobs -> Script \cup {NoScript}] /\ script'[j] = n
      /\ \A k \in Jobs \ {j} : script'[k] = script[k]
  BY <1>2, <1>3 DEF TargetTypeOK
<1>5. n # NoScript
  BY <1>2, ScriptAssumption
<1>6. QED
  BY <1>2, <1>4, <1>5

LEMMA ChainType ==
    ASSUME NEW c \in Chain, NEW t \in Targets
    PROVE  /\ EmptyChain \in Chain
           /\ AppendAcceptTo(c, t) \in Chain
           /\ AppendAcceptTo(c, t).drop = c.drop
           /\ AppendDropTo(c) \in Chain
           /\ AppendDropTo(c).drop
BY DEF EmptyChain, AppendAcceptTo, AppendDropTo, Chain

LEMMA EmptyChainType == EmptyChain \in Chain /\ ~EmptyChain.drop /\ EmptyChain # NoChain
<1>1. EmptyChain \in Chain /\ ~EmptyChain.drop
  BY DEF EmptyChain, Chain
<1>2. QED
  BY <1>1, FirewallAssumption


LEMMA TypeStep == TargetTypeOK /\ HooksInv /\ [TargetNext]_tvars => TargetTypeOK'
<1> SUFFICES ASSUME TargetTypeOK, HooksInv, [TargetNext]_tvars
             PROVE  TargetTypeOK'
  OBVIOUS
<1>1. ASSUME NEW j \in Jobs, NewChain(j) PROVE TargetTypeOK'
  <2>1. script[j].ip \in Ips /\ script' \in [Jobs -> Script \cup {NoScript}]
    BY <1>1, AtType, GotoType DEF NewChain, At, ApplySteps
  <2>2. QED
    BY <1>1, <2>1, EmptyChainType DEF NewChain, TargetTypeOK
<1>2. ASSUME NEW j \in Jobs, Flush(j) PROVE TargetTypeOK'
  <2>1. script[j].ip \in Ips /\ script' \in [Jobs -> Script \cup {NoScript}]
    BY <1>2, AtType, GotoType DEF Flush, At, ApplySteps
  <2>2. QED
    BY <1>2, <2>1, EmptyChainType DEF Flush, TargetTypeOK
<1>3. ASSUME NEW j \in Jobs, AppendAccept(j) PROVE TargetTypeOK'
  <2>1. script[j] \in Script /\ script[j].ip \in Ips /\ script[j].todo \subseteq Targets
    BY <1>3, AtType DEF AppendAccept
  <2>2. PICK t \in script[j].todo \ Refused :
           /\ chains' = [chains EXCEPT ![script[j].ip] = AppendAcceptTo(@, t)]
           /\ script' = [script EXCEPT ![j].todo = @ \ {t}]
    BY <1>3 DEF AppendAccept
  <2>3. [script[j] EXCEPT !.todo = @ \ {t}] \in Script
    BY <2>1 DEF Script
  <2>4. script' \in [Jobs -> Script \cup {NoScript}]
    BY <2>2, <2>3 DEF TargetTypeOK
  <2>5. chains[script[j].ip] \in Chain
    BY <1>3, <2>1 DEF AppendAccept, TargetTypeOK
  <2>6. AppendAcceptTo(chains[script[j].ip], t) \in Chain
    BY <2>1, <2>2, <2>5, ChainType
  <2>7. chains' \in [Ips -> Chain \cup {NoChain}]
    BY <2>1, <2>2, <2>6 DEF TargetTypeOK
  <2>8. QED
    BY <1>3, <2>4, <2>7 DEF AppendAccept, TargetTypeOK
<1>4. ASSUME NEW j \in Jobs, AppendDrop(j) PROVE TargetTypeOK'
  <2>1. script[j].ip \in Ips /\ script' \in [Jobs -> Script \cup {NoScript}]
    BY <1>4, AtType, GotoType DEF AppendDrop, At, ApplySteps
  <2>2. AppendDropTo(chains[script[j].ip]) \in Chain
    BY <1>4, <2>1 DEF AppendDrop, TargetTypeOK, AppendDropTo, Chain
  <2>3. QED
    BY <1>4, <2>1, <2>2 DEF AppendDrop, TargetTypeOK
<1>5. ASSUME NEW j \in Jobs, CheckEstablished(j) \/ CheckJump(j) PROVE TargetTypeOK'
  <2>1. script' \in [Jobs -> Script \cup {NoScript}]
    BY <1>5, GotoType DEF CheckEstablished, CheckJump, At, ApplySteps
  <2>2. QED
    BY <1>5, <2>1 DEF CheckEstablished, CheckJump, TargetTypeOK
<1>6. ASSUME NEW j \in Jobs, InsertEstablished(j) PROVE TargetTypeOK'
  <2>1. script[j].hook \in Hooks /\ script' \in [Jobs -> Script \cup {NoScript}]
    BY <1>6, AtType, GotoType DEF InsertEstablished, At, ApplySteps
  <2>2. InsertAt(hooks[script[j].hook], 1, Established) \in Seq(HookRule)
    BY <2>1, InsertEstablishedOK DEF TargetTypeOK, HooksInv
  <2>3. QED
    BY <1>6, <2>1, <2>2 DEF InsertEstablished, TargetTypeOK
<1>7. ASSUME NEW j \in Jobs, InsertJump(j) PROVE TargetTypeOK'
  <2>1. /\ script[j].hook \in Hooks /\ script[j].ip \in Ips
        /\ script' \in [Jobs -> Script \cup {NoScript}]
    BY <1>7, AtType, GotoType DEF InsertJump, At
  <2>2. Holds(hooks[script[j].hook], Established)
    BY <1>7 DEF InsertJump, HooksInv
  <2>3. InsertAt(hooks[script[j].hook], 2, script[j].ip) \in Seq(HookRule)
    BY <2>1, <2>2, InsertJumpOK DEF TargetTypeOK, HooksInv
  <2>4. QED
    BY <1>7, <2>1, <2>3 DEF InsertJump, TargetTypeOK
<1>8. ASSUME NEW j \in Jobs, Abort(j) PROVE TargetTypeOK'
  <2>1. script[j] # NoScript
    BY <1>8 DEF Abort, At
  <2>2. script[j].ip \in Ips /\ script' \in [Jobs -> Script \cup {NoScript}]
    BY <1>8, <2>1, GotoType DEF Abort, EndSteps, TargetTypeOK, Script
  <2>3. QED
    BY <1>8, <2>2 DEF Abort, TargetTypeOK
<1>9. ASSUME NEW j \in Jobs, Unhook(j) PROVE TargetTypeOK'
  <2>1. /\ script[j].hook \in Hooks /\ script[j].ip \in Ips
        /\ script' \in [Jobs -> Script \cup {NoScript}]
    BY <1>9, AtType, GotoType DEF Unhook, At, RemoveSteps
  <2>2. hooks' \in [Hooks -> Seq(HookRule)]
    <3>1. CASE UNCHANGED hooks
      BY <3>1 DEF TargetTypeOK
    <3>2. ASSUME NEW i \in FirstMatch(hooks[script[j].hook], script[j].ip),
                 hooks' = [hooks EXCEPT ![script[j].hook] = RemoveAt(@, i)]
          PROVE  hooks' \in [Hooks -> Seq(HookRule)]
      <4>1. RemoveAt(hooks[script[j].hook], i) \in Seq(HookRule)
        BY <2>1, RemoveJumpOK DEF TargetTypeOK, HooksInv
      <4>2. QED
        BY <3>2, <2>1, <4>1 DEF TargetTypeOK
    <3>3. QED
      BY <1>9, <3>1, <3>2 DEF Unhook
  <2>3. QED
    BY <1>9, <2>1, <2>2 DEF Unhook, TargetTypeOK
<1>10. ASSUME NEW j \in Jobs, Clear(j) PROVE TargetTypeOK'
  <2>1. script[j].ip \in Ips /\ script' \in [Jobs -> Script \cup {NoScript}]
    BY <1>10, AtType, GotoType DEF Clear, At, RemoveSteps
  <2>2. QED
    BY <1>10, <2>1, EmptyChainType DEF Clear, TargetTypeOK
<1>11. ASSUME NEW j \in Jobs, DeleteChain(j) PROVE TargetTypeOK'
  <2>1. script[j].ip \in Ips /\ script' \in [Jobs -> Script \cup {NoScript}]
    BY <1>11, AtType, GotoType DEF DeleteChain, At
  <2>2. QED
    BY <1>11, <2>1 DEF DeleteChain, TargetTypeOK
<1>12. ASSUME NEW j \in Jobs, Save(j) PROVE TargetTypeOK'
  <2>1. script' \in [Jobs -> Script \cup {NoScript}]
    BY <1>12, GotoType DEF Save, At, EndSteps
  <2>2. saved' \in Tables
    BY <1>12 DEF Save, TargetTypeOK, Tables
  <2>3. QED
    BY <1>12, <2>1, <2>2 DEF Save, TargetTypeOK
<1>13. ASSUME NEW j \in Jobs, Collect(j) PROVE TargetTypeOK'
  BY <1>13 DEF Collect, TargetTypeOK
<1>14. ASSUME NEW j \in Jobs, NEW s \in Script, Start(j, s) PROVE TargetTypeOK'
  BY <1>14 DEF Start, TargetTypeOK
<1>15. ASSUME NEW K \in SUBSET Jobs, Kill(K) PROVE TargetTypeOK'
  <2>1. {script[j].ip : j \in {k \in K : Filling(k)}} \subseteq Ips
    BY AtType DEF Filling
  <2>2. QED
    BY <1>15, <2>1 DEF Kill, TargetTypeOK
<1>16. ASSUME NEW t \in Threads, NEW s \in Strays, Detach(t, s) PROVE TargetTypeOK'
  BY <1>16 DEF Detach, TargetTypeOK, Jobs
<1>17. ASSUME Reboot PROVE TargetTypeOK'
  BY <1>17 DEF Reboot, TargetTypeOK, Tables
<1>18. CASE UNCHANGED tvars
  BY <1>18 DEF tvars, TargetTypeOK, Tables
<1>19. QED
  BY <1>1, <1>2, <1>3, <1>4, <1>5, <1>6, <1>7, <1>8, <1>9, <1>10, <1>11, <1>12, <1>13,
     <1>14, <1>15, <1>16, <1>17, <1>18, BuiltScripts DEF TargetNext, Command

-----------------------------------------------------------------------------
(* The order of the hook chains *)

(* A step that leaves the hook chains and the saved tables alone, and      *)
(* brings no script to the jump that was not there before.                 *)
LEMMA HooksFrame ==
    ASSUME HooksInv, UNCHANGED <<hooks, saved>>,
           \A j \in Jobs : At(j, "checkJump")' \/ At(j, "insertJump")' =>
              \E k \in Jobs : script'[j] = script[k]
    PROVE  HooksInv'
<1>1. \A h \in Hooks : (HookOK(hooks[h]) /\ HookOK(saved.hooks[h]))'
  BY DEF HooksInv, HookOK
<1>2. ASSUME NEW j \in Jobs, At(j, "checkJump")' \/ At(j, "insertJump")'
      PROVE  Holds(hooks[script[j].hook], Established)'
  <2>1. PICK k \in Jobs : script'[j] = script[k]
    BY <1>2
  <2>2. At(k, "checkJump") \/ At(k, "insertJump")
    BY <1>2, <2>1 DEF At
  <2>3. QED
    BY <2>1, <2>2 DEF HooksInv, Holds
<1>3. QED
  BY <1>1, <1>2 DEF HooksInv

(* A step of job j whose script does not stand at the jump afterwards. *)
LEMMA HooksGoto ==
    ASSUME TargetTypeOK, HooksInv, UNCHANGED <<hooks, saved>>,
           NEW j \in Jobs, script[j] # NoScript, NEW step, Goto(j, step),
           step \in {"flush", "accept", "checkEstablished", "insertEstablished",
                     "clear", "delete", "save", "done", "failed"}
    PROVE  HooksInv'
<1>1. step \in ApplySteps \cup RemoveSteps \cup {"save"} \cup EndSteps
  BY DEF ApplySteps, RemoveSteps, EndSteps
<1>2. script'[j].at = step /\ \A k \in Jobs \ {j} : script'[k] = script[k]
  BY <1>1, GotoType
<1>3. QED
  BY <1>2, HooksFrame DEF At

LEMMA HooksStep == TargetTypeOK /\ HooksInv /\ [TargetNext]_tvars => HooksInv'
<1> SUFFICES ASSUME TargetTypeOK, HooksInv, [TargetNext]_tvars
             PROVE  HooksInv'
  OBVIOUS
<1>1. ASSUME NEW j \in Jobs, NewChain(j) \/ Flush(j) PROVE HooksInv'
  BY <1>1, HooksGoto DEF NewChain, Flush, At
<1>2. ASSUME NEW j \in Jobs, AppendAccept(j) PROVE HooksInv'
  <2>1. \A k \in Jobs : At(k, "checkJump")' \/ At(k, "insertJump")' => script'[k] = script[k]
    BY <1>2 DEF AppendAccept, At, TargetTypeOK, Script
  <2>2. QED
    BY <1>2, <2>1, HooksFrame DEF AppendAccept
<1>3. ASSUME NEW j \in Jobs, AppendDrop(j) PROVE HooksInv'
  BY <1>3, HooksGoto DEF AppendDrop, At
<1>4. ASSUME NEW j \in Jobs, CheckEstablished(j) PROVE HooksInv'
  <2>1. CASE Holds(hooks[script[j].hook], Established)
    <3>1. /\ script'[j].hook = script[j].hook
          /\ \A k \in Jobs \ {j} : script'[k] = script[k]
      BY <1>4, <2>1, GotoType DEF CheckEstablished, At, ApplySteps
    <3>2. ASSUME NEW k \in Jobs, At(k, "checkJump")' \/ At(k, "insertJump")'
          PROVE  Holds(hooks[script[k].hook], Established)'
      BY <1>4, <2>1, <3>1, <3>2 DEF CheckEstablished, HooksInv, Holds, At
    <3>3. QED
      BY <1>4, <3>2 DEF CheckEstablished, HooksInv, HookOK
  <2>2. CASE ~Holds(hooks[script[j].hook], Established)
    BY <1>4, <2>2, HooksGoto DEF CheckEstablished, At
  <2>3. QED
    BY <2>1, <2>2
<1>5. ASSUME NEW j \in Jobs, InsertEstablished(j) PROVE HooksInv'
  <2> DEFINE g == script[j].hook
             w == InsertAt(hooks[g], 1, Established)
  <2>1. /\ g \in Hooks
        /\ script'[j].hook = g
        /\ \A k \in Jobs \ {j} : script'[k] = script[k]
    BY <1>5, AtType, GotoType DEF InsertEstablished, At, ApplySteps
  <2>2. HookOK(w) /\ \A r : Holds(w, r) <=> r = Established \/ Holds(hooks[g], r)
    BY <2>1, InsertEstablishedOK DEF HooksInv, TargetTypeOK
  <2> HIDE DEF w
  <2>3. hooks' = [hooks EXCEPT ![g] = w]
    BY <1>5 DEF InsertEstablished, w
  <2>4. hooks'[g] = w /\ \A h \in Hooks \ {g} : hooks'[h] = hooks[h]
    BY <2>1, <2>3 DEF TargetTypeOK
  <2>5. \A h \in Hooks : HookOK(hooks'[h]) /\ HookOK(saved'.hooks[h])
    BY <1>5, <2>2, <2>4 DEF InsertEstablished, HooksInv
  <2>6. ASSUME NEW k \in Jobs, At(k, "checkJump")' \/ At(k, "insertJump")'
        PROVE  Holds(hooks'[script'[k].hook], Established)
    <3>1. CASE script'[k].hook = g
      BY <3>1, <2>2, <2>4
    <3>2. CASE script'[k].hook # g
      <4>1. k # j /\ script'[k] = script[k] /\ (At(k, "checkJump") \/ At(k, "insertJump"))
        BY <3>2, <2>1, <2>6 DEF At
      <4>2. script[k].hook \in Hooks
        BY <4>1, AtType
      <4>3. QED
        BY <4>1, <4>2, <3>2, <2>4 DEF HooksInv
    <3>3. QED
      BY <3>1, <3>2
  <2>7. QED
    BY <2>5, <2>6 DEF HooksInv, HookOK, Holds
<1>6. ASSUME NEW j \in Jobs, CheckJump(j) PROVE HooksInv'
  <2>1. CASE Holds(hooks[script[j].hook], script[j].ip)
    BY <1>6, <2>1, HooksGoto DEF CheckJump, At
  <2>2. CASE ~Holds(hooks[script[j].hook], script[j].ip)
    <3>1. /\ script'[j].hook = script[j].hook
          /\ \A k \in Jobs \ {j} : script'[k] = script[k]
      BY <1>6, <2>2, GotoType DEF CheckJump, At, ApplySteps
    <3>2. ASSUME NEW k \in Jobs, At(k, "checkJump")' \/ At(k, "insertJump")'
          PROVE  Holds(hooks[script[k].hook], Established)'
      BY <1>6, <3>1, <3>2 DEF CheckJump, HooksInv, Holds, At
    <3>3. QED
      BY <1>6, <3>2 DEF CheckJump, HooksInv, HookOK
  <2>3. QED
    BY <2>1, <2>2
<1>7. ASSUME NEW j \in Jobs, InsertJump(j) PROVE HooksInv'
  <2> DEFINE g == script[j].hook
             w == InsertAt(hooks[g], 2, script[j].ip)
  <2>1. /\ g \in Hooks /\ script[j].ip \in Ips
        /\ script'[j].at = "save"
        /\ \A k \in Jobs \ {j} : script'[k] = script[k]
    BY <1>7, AtType, GotoType DEF InsertJump, At
  <2>2. Holds(hooks[g], Established)
    BY <1>7 DEF InsertJump, HooksInv
  <2>3. HookOK(w) /\ \A r : Holds(w, r) <=> r = script[j].ip \/ Holds(hooks[g], r)
    BY <2>1, <2>2, InsertJumpOK DEF HooksInv, TargetTypeOK
  <2> HIDE DEF w
  <2>4. hooks' = [hooks EXCEPT ![g] = w]
    BY <1>7 DEF InsertJump, w
  <2>5. hooks'[g] = w /\ \A h \in Hooks \ {g} : hooks'[h] = hooks[h]
    BY <2>1, <2>4 DEF TargetTypeOK
  <2>6. \A h \in Hooks : HookOK(hooks'[h]) /\ HookOK(saved'.hooks[h])
    BY <1>7, <2>3, <2>5 DEF InsertJump, HooksInv
  <2>7. ASSUME NEW k \in Jobs, At(k, "checkJump")' \/ At(k, "insertJump")'
        PROVE  Holds(hooks'[script'[k].hook], Established)
    <3>1. k # j /\ script'[k] = script[k] /\ (At(k, "checkJump") \/ At(k, "insertJump"))
      BY <2>1, <2>7 DEF At
    <3>2. script[k].hook \in Hooks /\ Holds(hooks[script[k].hook], Established)
      BY <3>1, AtType DEF HooksInv
    <3>3. QED
      BY <3>1, <3>2, <2>3, <2>5
  <2>8. QED
    BY <2>6, <2>7 DEF HooksInv, HookOK, Holds
<1>8. ASSUME NEW j \in Jobs, Abort(j) PROVE HooksInv'
  BY <1>8, HooksGoto DEF Abort, At
<1>9. ASSUME NEW j \in Jobs, Unhook(j) PROVE HooksInv'
  <2>1. /\ script[j].hook \in Hooks /\ script[j].ip \in Ips
        /\ script'[j].at = "clear"
        /\ \A k \in Jobs \ {j} : script'[k] = script[k]
    BY <1>9, AtType, GotoType DEF Unhook, At, RemoveSteps
  <2>2. CASE UNCHANGED hooks
    BY <1>9, <2>2, HooksGoto DEF Unhook, At
  <2>3. ASSUME NEW i \in FirstMatch(hooks[script[j].hook], script[j].ip),
               hooks' = [hooks EXCEPT ![script[j].hook] = RemoveAt(@, i)]
        PROVE  HooksInv'
    <3> DEFINE g == script[j].hook
               w == RemoveAt(hooks[g], i)
    <3>1. HookOK(w) /\ (Holds(hooks[g], Established) => Holds(w, Established))
      BY <2>1, RemoveJumpOK DEF HooksInv, TargetTypeOK
    <3> HIDE DEF w
    <3>2. hooks' = [hooks EXCEPT ![g] = w]
      BY <2>3 DEF w
    <3>3. hooks'[g] = w /\ \A h \in Hooks \ {g} : hooks'[h] = hooks[h]
      BY <2>1, <3>2 DEF TargetTypeOK
    <3>4. \A h \in Hooks : HookOK(hooks'[h]) /\ HookOK(saved'.hooks[h])
      BY <1>9, <3>1, <3>3 DEF Unhook, HooksInv
    <3>5. ASSUME NEW k \in Jobs, At(k, "checkJump")' \/ At(k, "insertJump")'
          PROVE  Holds(hooks'[script'[k].hook], Established)
      <4>1. k # j /\ script'[k] = script[k] /\ (At(k, "checkJump") \/ At(k, "insertJump"))
        BY <2>1, <3>5 DEF At
      <4>2. script[k].hook \in Hooks /\ Holds(hooks[script[k].hook], Established)
        BY <4>1, AtType DEF HooksInv
      <4>3. QED
        BY <4>1, <4>2, <3>1, <3>3
    <3>6. QED
      BY <3>4, <3>5 DEF HooksInv, HookOK, Holds
  <2>4. QED
    BY <1>9, <2>2, <2>3 DEF Unhook
<1>10. ASSUME NEW j \in Jobs, Clear(j) \/ DeleteChain(j) PROVE HooksInv'
  BY <1>10, HooksGoto DEF Clear, DeleteChain, At
<1>11. ASSUME NEW j \in Jobs, Save(j) PROVE HooksInv'
  <2>1. /\ script'[j].at = "done"
        /\ \A k \in Jobs \ {j} : script'[k] = script[k]
    BY <1>11, GotoType DEF Save, At, EndSteps
  <2>2. \A h \in Hooks : HookOK(hooks'[h]) /\ HookOK(saved'.hooks[h])
    BY <1>11 DEF Save, HooksInv
  <2>3. ASSUME NEW k \in Jobs, At(k, "checkJump")' \/ At(k, "insertJump")'
        PROVE  Holds(hooks'[script'[k].hook], Established)
    BY <1>11, <2>1, <2>3 DEF Save, HooksInv, At
  <2>4. QED
    BY <2>2, <2>3 DEF HooksInv, HookOK, Holds
<1>12. ASSUME NEW j \in Jobs, Collect(j) PROVE HooksInv'
  BY <1>12, HooksFrame DEF Collect, At, TargetTypeOK
<1>13. ASSUME NEW j \in Jobs, NEW s \in Script, s.at \in {"new", "unhook"}, Start(j, s)
       PROVE  HooksInv'
  BY <1>13, HooksFrame DEF Start, At, TargetTypeOK
<1>14. ASSUME NEW K \in SUBSET Jobs, Kill(K) PROVE HooksInv'
  BY <1>14, HooksFrame DEF Kill, At
<1>15. ASSUME NEW t \in Threads, NEW s \in Strays, Detach(t, s) PROVE HooksInv'
  BY <1>15, HooksFrame DEF Detach, At, TargetTypeOK, Jobs
<1>16. ASSUME Reboot PROVE HooksInv'
  <2>1. \A h \in Hooks : HookOK(hooks'[h]) /\ HookOK(saved'.hooks[h])
    BY <1>16 DEF Reboot, HooksInv
  <2>2. QED
    BY <1>16, <2>1 DEF Reboot, HooksInv, HookOK, At
<1>17. CASE UNCHANGED tvars
  BY <1>17, HooksFrame DEF tvars
<1>18. QED
  BY <1>1, <1>2, <1>3, <1>4, <1>5, <1>6, <1>7, <1>8, <1>9, <1>10, <1>11, <1>12, <1>13,
     <1>14, <1>15, <1>16, <1>17, BuiltScripts
  DEF TargetNext, Command, build_apply_script, build_remove_script

-----------------------------------------------------------------------------
(* The DROP of a chain in use *)

(* A step of job j, seen from the address of its script and from another. *)
LEMMA DropFrame ==
    ASSUME TargetTypeOK, NEW j \in Jobs, script[j] # NoScript, NEW step, Goto(j, step),
           step \in ApplySteps \cup RemoveSteps \cup {"save"} \cup EndSteps,
           NEW ip \in Ips
    PROVE  /\ (\E k \in Jobs : On(k, ip) /\ Hooking(k))' =>
                  \/ \E k \in Jobs : On(k, ip) /\ Hooking(k)
                  \/ /\ script[j].ip = ip
                     /\ step \in {"checkEstablished", "insertEstablished", "checkJump", "insertJump"}
           /\ (\E k \in Jobs : On(k, ip) /\ Filling(k)) =>
                  \/ (\E k \in Jobs : On(k, ip) /\ Filling(k))'
                  \/ script[j].ip = ip /\ Filling(j) /\ step # "accept"
           /\ script[j].ip = ip /\ step = "accept" =>
                  (\E k \in Jobs : On(k, ip) /\ Filling(k))'
<1>1. /\ script'[j] # NoScript /\ script'[j].ip = script[j].ip /\ script'[j].at = step
      /\ \A k \in Jobs \ {j} : script'[k] = script[k]
  BY GotoType
<1>2. ASSUME NEW k \in Jobs, On(k, ip)', Hooking(k)', k # j
      PROVE  On(k, ip) /\ Hooking(k)
  BY <1>1, <1>2 DEF On, Hooking, At
<1>3. ASSUME On(j, ip)', Hooking(j)'
      PROVE  /\ script[j].ip = ip
             /\ step \in {"checkEstablished", "insertEstablished", "checkJump", "insertJump"}
  BY <1>1, <1>3 DEF On, Hooking, At
<1>4. ASSUME NEW k \in Jobs, On(k, ip), Filling(k), k # j
      PROVE  On(k, ip)' /\ Filling(k)'
  BY <1>1, <1>4 DEF On, Filling, At
<1>5. ASSUME script[j].ip = ip, step = "accept"
      PROVE  On(j, ip)' /\ Filling(j)'
  BY <1>1, <1>5 DEF On, Filling, At
<1>6. ASSUME On(j, ip), Filling(j), step # "accept"
      PROVE  script[j].ip = ip /\ Filling(j)
  BY <1>6 DEF On
<1>7. ASSUME On(j, ip), step = "accept"
      PROVE  (\E k \in Jobs : On(k, ip) /\ Filling(k))'
  BY <1>5, <1>7 DEF On
<1>8. QED
  BY <1>2, <1>3, <1>4, <1>5, <1>6, <1>7

(* The same for a step that changes neither the hook chains nor any DROP. *)
LEMMA DropGoto ==
    ASSUME TargetTypeOK, DropInv, NEW j \in Jobs, script[j] # NoScript, ~Filling(j),
           NEW step, Goto(j, step), UNCHANGED <<hooks, opened>>,
           step \in ApplySteps \cup RemoveSteps \cup {"save"} \cup EndSteps,
           \A ip \in Ips : HasDrop(ip) => HasDrop(ip)',
           Hooking(j) \/
              step \notin {"checkEstablished", "insertEstablished", "checkJump", "insertJump"}
    PROVE  DropInv'
<1> SUFFICES ASSUME NEW ip \in Ips, InUse(ip)'
             PROVE  Covered(ip)'
  BY DEF DropInv
<1>1. InUse(ip)
  <2>1. CASE Hooked(ip)'
    BY <2>1 DEF InUse, Hooked, Holds
  <2>2. CASE (\E k \in Jobs : On(k, ip) /\ Hooking(k))'
    BY <2>2, DropFrame DEF InUse, On
  <2>3. QED
    BY <2>1, <2>2 DEF InUse
<1>2. Covered(ip)
  BY <1>1 DEF DropInv
<1>3. QED
  BY <1>2, DropFrame DEF Covered

LEMMA DropStep == TargetInv /\ [TargetNext]_tvars => DropInv'
<1> SUFFICES ASSUME TargetTypeOK, HooksInv, DropInv, [TargetNext]_tvars
             PROVE  DropInv'
  BY DEF TargetInv
<1>1. ASSUME NEW j \in Jobs, NewChain(j) PROVE DropInv'
  <2>1. \A ip \in Ips : HasDrop(ip) => HasDrop(ip)'
    BY <1>1 DEF NewChain, HasDrop, TargetTypeOK
  <2>2. QED
    BY <1>1, <2>1, DropGoto DEF NewChain, At, Filling, ApplySteps
<1>2. ASSUME NEW j \in Jobs, Flush(j) PROVE DropInv'
  <2> SUFFICES ASSUME NEW ip \in Ips, InUse(ip)'
               PROVE  Covered(ip)'
    BY DEF DropInv
  <2>1. script[j] # NoScript /\ Goto(j, "accept") /\ "accept" \in ApplySteps
    BY <1>2 DEF Flush, At, ApplySteps
  <2>2. CASE script[j].ip = ip
    BY <2>1, <2>2, DropFrame DEF Covered
  <2>3. CASE script[j].ip # ip
    <3>1. InUse(ip)
      BY <1>2, <2>1, <2>3, DropFrame DEF InUse, Hooked, Holds, Flush
    <3>2. HasDrop(ip) => HasDrop(ip)'
      BY <1>2, <2>3 DEF Flush, HasDrop, TargetTypeOK
    <3>3. QED
      BY <1>2, <2>1, <2>3, <3>1, <3>2, DropFrame DEF Flush, DropInv, Covered
  <2>4. QED
    BY <2>2, <2>3
<1>3. ASSUME NEW j \in Jobs, AppendAccept(j) PROVE DropInv'
  <2>1. PICK t \in script[j].todo \ Refused :
           /\ chains' = [chains EXCEPT ![script[j].ip] = AppendAcceptTo(@, t)]
           /\ script' = [script EXCEPT ![j].todo = @ \ {t}]
    BY <1>3 DEF AppendAccept
  <2>2. script[j] \in Script /\ script[j].ip \in Ips /\ t \in Targets /\ chains[script[j].ip] \in Chain
    BY <1>3, AtType DEF AppendAccept, TargetTypeOK
  <2>3. \A ip \in Ips : HasDrop(ip) => HasDrop(ip)'
    <3>1. AppendAcceptTo(chains[script[j].ip], t).drop = chains[script[j].ip].drop
          /\ AppendAcceptTo(chains[script[j].ip], t) # NoChain
      BY <2>2, ChainType, FirewallAssumption
    <3>2. QED
      BY <2>1, <2>2, <3>1 DEF HasDrop, TargetTypeOK
  <2> DEFINE n == [script[j] EXCEPT !.todo = @ \ {t}]
  <2>4. n \in Script /\ n.ip = script[j].ip /\ n.at = script[j].at
    BY <2>2 DEF Script
  <2>5. n # NoScript
    BY <2>4, ScriptAssumption
  <2> HIDE DEF n
  <2>6. script'[j] = n /\ \A k \in Jobs \ {j} : script'[k] = script[k]
    BY <2>1 DEF n, TargetTypeOK
  <2>7. script[j] # NoScript
    BY <1>3 DEF AppendAccept, At
  <2>8. ASSUME NEW k \in Jobs, NEW ip
        PROVE  On(k, ip)' = On(k, ip) /\ Hooking(k)' = Hooking(k) /\ Filling(k)' = Filling(k)
    <3>1. CASE k = j
      BY <3>1, <2>4, <2>5, <2>6, <2>7 DEF On, Hooking, Filling, At
    <3>2. CASE k # j
      BY <3>2, <2>6 DEF On, Hooking, Filling, At
    <3>3. QED
      BY <3>1, <3>2
  <2>9. UNCHANGED <<hooks, opened>>
    BY <1>3 DEF AppendAccept
  <2>10. ASSUME NEW ip \in Ips, InUse(ip)' PROVE Covered(ip)'
    <3>1. InUse(ip)
      BY <2>8, <2>9, <2>10 DEF InUse, Hooked, Holds
    <3>2. QED
      BY <3>1, <2>3, <2>8, <2>9 DEF DropInv, Covered
  <2>11. QED
    BY <2>10 DEF DropInv
<1>4. ASSUME NEW j \in Jobs, AppendDrop(j) PROVE DropInv'
  <2> SUFFICES ASSUME NEW ip \in Ips, InUse(ip)'
               PROVE  Covered(ip)'
    BY DEF DropInv
  <2>1. /\ script[j] # NoScript /\ Goto(j, "checkEstablished") /\ script[j].ip \in Ips
        /\ "checkEstablished" \in ApplySteps
    BY <1>4, AtType DEF AppendDrop, At, ApplySteps
  <2>2. CASE script[j].ip = ip
    <3>1. chains[ip] \in Chain
      BY <1>4, <2>2 DEF AppendDrop, TargetTypeOK
    <3>2. AppendDropTo(chains[ip]) \in Chain /\ AppendDropTo(chains[ip]).drop
      BY <3>1 DEF AppendDropTo, Chain
    <3>3. chains'[ip] = AppendDropTo(chains[ip])
      BY <1>4, <2>2 DEF AppendDrop, TargetTypeOK
    <3>4. QED
      BY <3>2, <3>3, FirewallAssumption DEF Covered, HasDrop
  <2>3. CASE script[j].ip # ip
    <3>1. InUse(ip)
      BY <1>4, <2>1, <2>3, DropFrame DEF InUse, Hooked, Holds, AppendDrop
    <3>2. (HasDrop(ip) => HasDrop(ip)') /\ (ip \in opened => ip \in opened')
      BY <1>4, <2>1, <2>3 DEF AppendDrop, HasDrop, TargetTypeOK
    <3>3. QED
      BY <2>1, <2>3, <3>1, <3>2, DropFrame DEF DropInv, Covered
  <2>4. QED
    BY <2>2, <2>3
<1>5. ASSUME NEW j \in Jobs, CheckEstablished(j) \/ CheckJump(j) PROVE DropInv'
  <2>1. \A ip \in Ips : HasDrop(ip) => HasDrop(ip)'
    BY <1>5 DEF CheckEstablished, CheckJump, HasDrop
  <2>2. Hooking(j) /\ ~Filling(j) /\ script[j] # NoScript
    BY <1>5 DEF CheckEstablished, CheckJump, Hooking, Filling, At
  <2>3. QED
    BY <1>5, <2>1, <2>2, DropGoto DEF CheckEstablished, CheckJump, ApplySteps
<1>6. ASSUME NEW j \in Jobs, InsertEstablished(j) PROVE DropInv'
  <2> SUFFICES ASSUME NEW ip \in Ips, InUse(ip)'
               PROVE  Covered(ip)'
    BY DEF DropInv
  <2>1. /\ script[j] # NoScript /\ Goto(j, "checkJump") /\ "checkJump" \in ApplySteps
        /\ Hooking(j) /\ ~Filling(j) /\ script[j].hook \in Hooks
    BY <1>6, AtType DEF InsertEstablished, At, ApplySteps, Hooking, Filling
  <2>2. Hooked(ip)' => Hooked(ip)
    <3> DEFINE g == script[j].hook
               w == InsertAt(hooks[g], 1, Established)
    <3>1. \A r : Holds(w, r) <=> r = Established \/ Holds(hooks[g], r)
      BY <2>1, InsertEstablishedOK DEF HooksInv, TargetTypeOK
    <3> HIDE DEF w
    <3>2. hooks'[g] = w /\ \A h \in Hooks \ {g} : hooks'[h] = hooks[h]
      BY <1>6, <2>1 DEF InsertEstablished, TargetTypeOK, w
    <3>3. Hooked(ip)' => \E h \in Hooks : Holds(hooks'[h], ip)
      BY DEF Hooked, Holds
    <3>4. QED
      BY <2>1, <3>1, <3>2, <3>3, FirewallAssumption DEF Hooked
  <2>3. InUse(ip)
    BY <2>1, <2>2, DropFrame DEF InUse, On
  <2>4. QED
    BY <1>6, <2>1, <2>3, DropFrame DEF InsertEstablished, DropInv, Covered, HasDrop
<1>7. ASSUME NEW j \in Jobs, InsertJump(j) PROVE DropInv'
  <2> SUFFICES ASSUME NEW ip \in Ips, InUse(ip)'
               PROVE  Covered(ip)'
    BY DEF DropInv
  <2>1. /\ script[j] # NoScript /\ Goto(j, "save")
        /\ Hooking(j) /\ ~Filling(j) /\ script[j].hook \in Hooks /\ script[j].ip \in Ips
        /\ Holds(hooks[script[j].hook], Established)
    BY <1>7, AtType DEF InsertJump, At, Hooking, Filling, HooksInv
  <2>2. Hooked(ip)' => Hooked(ip) \/ script[j].ip = ip
    <3> DEFINE g == script[j].hook
               w == InsertAt(hooks[g], 2, script[j].ip)
    <3>1. \A r : Holds(w, r) <=> r = script[j].ip \/ Holds(hooks[g], r)
      BY <2>1, InsertJumpOK DEF HooksInv, TargetTypeOK
    <3> HIDE DEF w
    <3>2. hooks'[g] = w /\ \A h \in Hooks \ {g} : hooks'[h] = hooks[h]
      BY <1>7, <2>1 DEF InsertJump, TargetTypeOK, w
    <3>3. Hooked(ip)' => \E h \in Hooks : Holds(hooks'[h], ip)
      BY DEF Hooked, Holds
    <3>4. QED
      BY <2>1, <3>1, <3>2, <3>3 DEF Hooked
  <2>3. InUse(ip)
    BY <2>1, <2>2, DropFrame DEF InUse, On
  <2>4. QED
    BY <1>7, <2>1, <2>3, DropFrame DEF InsertJump, DropInv, Covered, HasDrop
<1>8. ASSUME NEW j \in Jobs, Abort(j) PROVE DropInv'
  <2> SUFFICES ASSUME NEW ip \in Ips, InUse(ip)'
               PROVE  Covered(ip)'
    BY DEF DropInv
  <2>1. script[j] # NoScript /\ Goto(j, "failed") /\ "failed" \in EndSteps
    BY <1>8 DEF Abort, At, EndSteps
  <2>2. InUse(ip)
    BY <1>8, <2>1, DropFrame DEF InUse, Hooked, Holds, Abort
  <2>3. CASE script[j].ip = ip /\ Filling(j)
    BY <1>8, <2>3 DEF Abort, Covered
  <2>4. CASE ~(script[j].ip = ip /\ Filling(j))
    BY <1>8, <2>1, <2>2, <2>4, DropFrame DEF Abort, DropInv, Covered, HasDrop
  <2>5. QED
    BY <2>3, <2>4
<1>9. ASSUME NEW j \in Jobs, Unhook(j) PROVE DropInv'
  <2> SUFFICES ASSUME NEW ip \in Ips, InUse(ip)'
               PROVE  Covered(ip)'
    BY DEF DropInv
  <2>1. /\ script[j] # NoScript /\ Goto(j, "clear") /\ "clear" \in RemoveSteps
        /\ ~Filling(j) /\ script[j].hook \in Hooks /\ script[j].ip \in Ips
    BY <1>9, AtType DEF Unhook, At, RemoveSteps, Filling
  <2>2. Hooked(ip)' => Hooked(ip)
    <3>1. CASE UNCHANGED hooks
      BY <3>1 DEF Hooked, Holds
    <3>2. ASSUME NEW i \in FirstMatch(hooks[script[j].hook], script[j].ip),
                 hooks' = [hooks EXCEPT ![script[j].hook] = RemoveAt(@, i)]
          PROVE  Hooked(ip)' => Hooked(ip)
      <4> DEFINE g == script[j].hook
                 w == RemoveAt(hooks[g], i)
      <4>1. \A r : Holds(w, r) => Holds(hooks[g], r)
        BY <2>1, RemoveJumpOK DEF HooksInv, TargetTypeOK
      <4> HIDE DEF w
      <4>2. hooks' = [hooks EXCEPT ![g] = w]
        BY <3>2 DEF w
      <4>3. hooks'[g] = w /\ \A h \in Hooks \ {g} : hooks'[h] = hooks[h]
        BY <2>1, <4>2 DEF TargetTypeOK
      <4>4. Hooked(ip)' => \E h \in Hooks : Holds(hooks'[h], ip)
        BY DEF Hooked, Holds
      <4>5. QED
        BY <4>1, <4>3, <4>4 DEF Hooked
    <3>3. QED
      BY <1>9, <3>1, <3>2 DEF Unhook
  <2>3. InUse(ip)
    BY <2>1, <2>2, DropFrame DEF InUse
  <2>4. QED
    BY <1>9, <2>1, <2>3, DropFrame DEF Unhook, DropInv, Covered, HasDrop
<1>10. ASSUME NEW j \in Jobs, Clear(j) PROVE DropInv'
  <2> SUFFICES ASSUME NEW ip \in Ips, InUse(ip)'
               PROVE  Covered(ip)'
    BY DEF DropInv
  <2>1. /\ script[j] # NoScript /\ Goto(j, "delete") /\ "delete" \in RemoveSteps
        /\ ~Filling(j)
    BY <1>10 DEF Clear, At, RemoveSteps, Filling
  <2>2. CASE script[j].ip = ip
    BY <1>10, <2>2 DEF Clear, Covered
  <2>3. CASE script[j].ip # ip
    <3>1. InUse(ip)
      BY <1>10, <2>1, DropFrame DEF InUse, Hooked, Holds, Clear
    <3>2. HasDrop(ip) => HasDrop(ip)'
      BY <1>10, <2>3 DEF Clear, HasDrop, TargetTypeOK
    <3>3. QED
      BY <1>10, <2>1, <3>1, <3>2, DropFrame DEF Clear, DropInv, Covered
  <2>4. QED
    BY <2>2, <2>3
<1>11. ASSUME NEW j \in Jobs, DeleteChain(j) PROVE DropInv'
  <2>1. \A ip \in Ips : HasDrop(ip) => HasDrop(ip)'
    BY <1>11, EmptyChainType DEF DeleteChain, HasDrop, TargetTypeOK
  <2>2. QED
    BY <1>11, <2>1, DropGoto DEF DeleteChain, At, Filling
<1>12. ASSUME NEW j \in Jobs, Save(j) PROVE DropInv'
  BY <1>12, DropGoto DEF Save, At, Filling, HasDrop, EndSteps
<1>13. ASSUME NEW j \in Jobs, Collect(j) PROVE DropInv'
  <2>1. \A k \in Jobs : script'[k] = IF k = j THEN NoScript ELSE script[k]
    BY <1>13 DEF Collect, TargetTypeOK
  <2>2. \A k \in Jobs, ip \in Ips :
           /\ On(k, ip)' /\ Hooking(k)' => On(k, ip) /\ Hooking(k)
           /\ On(k, ip) /\ Filling(k) => On(k, ip)' /\ Filling(k)'
    BY <1>13, <2>1 DEF Collect, Ended, EndSteps, On, Hooking, Filling, At
  <2>3. QED
    BY <1>13, <2>2 DEF Collect, DropInv, InUse, Covered, Hooked, Holds, HasDrop
<1>14. ASSUME NEW j \in Jobs, NEW s \in Script, s.at \in {"new", "unhook"}, Start(j, s)
       PROVE  DropInv'
  <2>1. \A k \in Jobs : script'[k] = IF k = j THEN s ELSE script[k]
    BY <1>14 DEF Start, TargetTypeOK
  <2>2. \A k \in Jobs, ip \in Ips :
           /\ On(k, ip)' /\ Hooking(k)' => On(k, ip) /\ Hooking(k)
           /\ On(k, ip) /\ Filling(k) => On(k, ip)' /\ Filling(k)'
    BY <1>14, <2>1 DEF Start, On, Hooking, Filling, At
  <2>3. QED
    BY <1>14, <2>2 DEF Start, DropInv, InUse, Covered, Hooked, Holds, HasDrop
<1>15. ASSUME NEW K \in SUBSET Jobs, Kill(K) PROVE DropInv'
  <2>1. \A k \in Jobs : script'[k] = IF k \in K THEN NoScript ELSE script[k]
    BY <1>15 DEF Kill
  <2>2. \A k \in Jobs, ip \in Ips :
           /\ On(k, ip)' /\ Hooking(k)' => On(k, ip) /\ Hooking(k)
           /\ On(k, ip) /\ Filling(k) => (On(k, ip)' /\ Filling(k)') \/ ip \in opened'
    BY <1>15, <2>1 DEF Kill, On, Hooking, Filling, At
  <2>3. QED
    BY <1>15, <2>2 DEF Kill, DropInv, InUse, Covered, Hooked, Holds, HasDrop
<1>16. ASSUME NEW t \in Threads, NEW s \in Strays, Detach(t, s) PROVE DropInv'
  <2>1. t \in Jobs /\ s \in Jobs /\ s # t
    BY TargetAssumption DEF Jobs
  <2>2. \A k \in Jobs : script'[k] = IF k = t THEN NoScript
                                     ELSE IF k = s THEN script[t] ELSE script[k]
    BY <1>16, <2>1 DEF Detach, TargetTypeOK
  <2>3. \A k \in Jobs, ip \in Ips : On(k, ip)' /\ Hooking(k)' =>
           \E m \in Jobs : On(m, ip) /\ Hooking(m)
    BY <2>1, <2>2 DEF On, Hooking, At
  <2>4. \A k \in Jobs, ip \in Ips : On(k, ip) /\ Filling(k) =>
           \E m \in Jobs : On(m, ip)' /\ Filling(m)'
    BY <1>16, <2>1, <2>2 DEF Detach, On, Filling, At
  <2>5. QED
    BY <1>16, <2>3, <2>4 DEF Detach, DropInv, InUse, Covered, Hooked, Holds, HasDrop
<1>17. ASSUME Reboot PROVE DropInv'
  BY <1>17 DEF Reboot, DropInv, Covered, HasDrop
<1>18. CASE UNCHANGED tvars
  BY <1>18 DEF tvars, DropInv, InUse, Covered, Hooked, Holds, HasDrop, On, Hooking, Filling, At
<1>19. QED
  BY <1>1, <1>2, <1>3, <1>4, <1>5, <1>6, <1>7, <1>8, <1>9, <1>10, <1>11, <1>12, <1>13,
     <1>14, <1>15, <1>16, <1>17, <1>18, BuiltScripts
  DEF TargetNext, Command, build_apply_script, build_remove_script

-----------------------------------------------------------------------------
(* The theorems *)

LEMMA TargetInitInv == TargetInit => TargetInv
<1> SUFFICES ASSUME TargetInit PROVE TargetInv
  OBVIOUS
<1>1. TargetTypeOK
  BY BaseType DEF TargetInit, TargetTypeOK, Tables
<1>2. \A h \in Hooks : hooks[h] \in Seq({Mesh}) /\ saved.hooks[h] \in Seq({Mesh})
  <2>1. <<>> \in Seq({Mesh})
    OBVIOUS
  <2>2. QED
    BY <2>1, FirewallAssumption DEF TargetInit, BootHooks
<1>3. ASSUME NEW s \in Seq({Mesh}), NEW i \in 1..Len(s)
      PROVE  s[i] = Mesh
  BY <1>3
<1>4. \A h \in Hooks : HookOK(hooks[h]) /\ HookOK(saved.hooks[h])
  BY <1>2, <1>3, FirewallAssumption DEF HookOK
<1>5. HooksInv
  BY <1>4 DEF HooksInv, TargetInit, At
<1>6. \A ip \in Ips : ~InUse(ip)
  <2>1. \A ip \in Ips : ~Hooked(ip)
    BY <1>2, <1>3, FirewallAssumption DEF Hooked, Holds
  <2>2. QED
    BY <2>1 DEF InUse, TargetInit, On
<1>7. QED
  BY <1>1, <1>5, <1>6 DEF TargetInv, DropInv

LEMMA TargetInvariant == TargetSpec => []TargetInv
<1>1. TargetInv /\ [TargetNext]_tvars => TargetInv'
  BY TypeStep, HooksStep, DropStep DEF TargetInv
<1>2. QED
  BY TargetInitInv, <1>1, PTL DEF TargetSpec

(* Whatever scripts run, however they interleave, break off or are late,   *)
(* the tables of the server and the scripts keep their types.              *)
THEOREM TargetTypes == TargetSpec => []TargetTypeOK
<1>1. TargetInv => TargetTypeOK
  BY DEF TargetInv
<1>2. QED
  BY TargetInvariant, <1>1, PTL

(* The ESTABLISHED,RELATED rule of _ensure_established_related_rule_line   *)
(* is the first rule of every hook chain that holds a jump.                *)
THEOREM EstablishedStaysFirst == TargetSpec => []EstablishedFirst
<1>1. TargetInv => EstablishedFirst
  BY DEF TargetInv, HooksInv, HookOK, EstablishedFirst, Holds
<1>2. QED
  BY TargetInvariant, <1>1, PTL

(* No jump ever stands behind a foreign rule of the hook chain.            *)
THEOREM JumpsStayBeforeMesh == TargetSpec => []JumpsBeforeMesh
<1>1. TargetInv => JumpsBeforeMesh
  BY DEF TargetInv, HooksInv, HookOK, JumpsBeforeMesh
<1>2. QED
  BY TargetInvariant, <1>1, PTL

(* A chain in use loses its DROP only for the length of one rewriting, or  *)
(* to a removal, a script that broke off or a boot.                        *)
THEOREM DropIsNeverLost == TargetSpec => []DropNeverLost
<1>1. TargetInv => DropNeverLost
  BY DEF TargetInv, DropInv, DropNeverLost, InUse, Covered
<1>2. QED
  BY TargetInvariant, <1>1, PTL

-----------------------------------------------------------------------------
(* What a packet meets.  In a hook chain as the scripts keep it no blanket *)
(* accept stands before a jump.                                            *)

LEMMA ReachedIs ==
    ASSUME NEW s \in Seq(HookRule), HookOK(s), NEW ip \in Ips
    PROVE  Reached(s, ip) <=> Holds(s, ip)
<1>1. ASSUME Holds(s, ip) PROVE Reached(s, ip)
  <2>1. PICK i \in 1..Len(s) : s[i] = ip
    BY <1>1 DEF Holds
  <2>2. \A k \in 1..(i - 1) : k \in 1..Len(s) /\ k < i
    BY LenProperties
  <2>3. \A k \in 1..(i - 1) : s[k] # Mesh
    BY <2>1, <2>2 DEF HookOK
  <2>4. QED
    BY <2>1, <2>3 DEF Reached
<1>2. ASSUME Reached(s, ip) PROVE Holds(s, ip)
  BY <1>2 DEF Reached, Holds
<1>3. QED
  BY <1>1, <1>2

LEMMA MeetsIs ==
    ASSUME TargetInv, NEW ip \in Ips
    PROVE  Meets(ip) = IF Hooked(ip) THEN chains[ip] ELSE NoChain
<1>1. \A h \in Hooks : Reached(hooks[h], ip) <=> Holds(hooks[h], ip)
  BY ReachedIs DEF TargetInv, TargetTypeOK, HooksInv
<1>2. QED
  BY <1>1 DEF Meets, Hooked

LEMMA MeetsIsNext ==
    ASSUME TargetInv', NEW ip \in Ips
    PROVE  Meets(ip)' = IF Hooked(ip)' THEN chains'[ip] ELSE NoChain
<1>1. \A h \in Hooks : hooks'[h] \in Seq(HookRule) /\ HookOK(hooks'[h])
  BY DEF TargetInv, TargetTypeOK, HooksInv, HookOK
<1>2. \A h \in Hooks : Reached(hooks'[h], ip) <=> Holds(hooks'[h], ip)
  BY <1>1, ReachedIs
<1>3. Hooked(ip)' <=> \E h \in Hooks : Holds(hooks'[h], ip)
  BY DEF Hooked, Holds
<1>4. Meets(ip)' = IF \E h \in Hooks : Reached(hooks'[h], ip) THEN chains'[ip] ELSE NoChain
  BY DEF Meets, Reached
<1>5. QED
  BY <1>2, <1>3, <1>4

-----------------------------------------------------------------------------
(* Which clients have a jump, before and after a step *)

LEMMA RemoveJumpKeeps ==
    ASSUME NEW s \in Seq(HookRule), NEW ip \in Ips, NEW n \in FirstMatch(s, ip),
           NEW r, r # ip, Holds(s, r)
    PROVE  Holds(RemoveAt(s, n), r)
<1> DEFINE w == RemoveAt(s, n)
<1>1. n \in 1..Len(s) /\ s[n] = ip /\ Len(s) \in Nat
  BY LenProperties DEF FirstMatch
<1>2. /\ Len(w) = Len(s) - 1
      /\ \A i \in 1..(Len(s) - 1) : w[i] = IF i < n THEN s[i] ELSE s[i + 1]
  BY <1>1, RemoveAtProperties
<1> HIDE DEF w
<1>3. PICK i \in 1..Len(s) : s[i] = r
  BY DEF Holds
<1>4. i # n
  BY <1>1, <1>3
<1>5. CASE i < n
  <2>1. i \in 1..Len(w) /\ w[i] = r
    BY <1>1, <1>2, <1>3, <1>5
  <2>2. QED
    BY <2>1 DEF Holds, w
<1>6. CASE i > n
  <2>1. i - 1 \in 1..Len(w) /\ w[i - 1] = r
    BY <1>1, <1>2, <1>3, <1>6
  <2>2. QED
    BY <2>1 DEF Holds, w
<1>7. QED
  BY <1>4, <1>5, <1>6, <1>1

LEMMA HooksUnchanged ==
    ASSUME UNCHANGED hooks
    PROVE  \A ip : Hooked(ip)' <=> Hooked(ip)
BY DEF Hooked, Holds

LEMMA InsertEstablishedEffect ==
    ASSUME TargetInv, NEW j \in Jobs, InsertEstablished(j)
    PROVE  \A ip \in Ips : Hooked(ip)' <=> Hooked(ip)
<1> DEFINE g == script[j].hook
           w == InsertAt(hooks[g], 1, Established)
<1>1. g \in Hooks
  BY AtType DEF InsertEstablished, TargetInv
<1>2. \A r : Holds(w, r) <=> r = Established \/ Holds(hooks[g], r)
  BY <1>1, InsertEstablishedOK DEF TargetInv, HooksInv, TargetTypeOK
<1> HIDE DEF w
<1>3. hooks'[g] = w /\ \A h \in Hooks \ {g} : hooks'[h] = hooks[h]
  BY <1>1 DEF InsertEstablished, TargetInv, TargetTypeOK, w
<1>4. \A ip : Hooked(ip)' <=> \E h \in Hooks : Holds(hooks'[h], ip)
  BY DEF Hooked, Holds
<1>5. QED
  BY <1>1, <1>2, <1>3, <1>4, FirewallAssumption DEF Hooked

LEMMA InsertJumpEffect ==
    ASSUME TargetInv, NEW j \in Jobs, InsertJump(j)
    PROVE  \A ip \in Ips : Hooked(ip)' <=> ip = script[j].ip \/ Hooked(ip)
<1> DEFINE g == script[j].hook
           w == InsertAt(hooks[g], 2, script[j].ip)
<1>1. g \in Hooks /\ script[j].ip \in Ips /\ Holds(hooks[g], Established)
  BY AtType DEF InsertJump, TargetInv, HooksInv
<1>2. \A r : Holds(w, r) <=> r = script[j].ip \/ Holds(hooks[g], r)
  BY <1>1, InsertJumpOK DEF TargetInv, HooksInv, TargetTypeOK
<1> HIDE DEF w
<1>3. hooks'[g] = w /\ \A h \in Hooks \ {g} : hooks'[h] = hooks[h]
  BY <1>1 DEF InsertJump, TargetInv, TargetTypeOK, w
<1>4. \A ip : Hooked(ip)' <=> \E h \in Hooks : Holds(hooks'[h], ip)
  BY DEF Hooked, Holds
<1>5. QED
  BY <1>1, <1>2, <1>3, <1>4 DEF Hooked

LEMMA UnhookEffect ==
    ASSUME TargetInv, NEW j \in Jobs, Unhook(j)
    PROVE  \A ip \in Ips : /\ Hooked(ip)' => Hooked(ip)
                           /\ ip # script[j].ip /\ Hooked(ip) => Hooked(ip)'
<1>1. CASE UNCHANGED hooks
  BY <1>1, HooksUnchanged
<1>2. ASSUME NEW i \in FirstMatch(hooks[script[j].hook], script[j].ip),
             hooks' = [hooks EXCEPT ![script[j].hook] = RemoveAt(@, i)]
      PROVE  \A ip \in Ips : /\ Hooked(ip)' => Hooked(ip)
                             /\ ip # script[j].ip /\ Hooked(ip) => Hooked(ip)'
  <2> DEFINE g == script[j].hook
             w == RemoveAt(hooks[g], i)
  <2>1. g \in Hooks /\ script[j].ip \in Ips
    BY AtType DEF Unhook, TargetInv
  <2>2. hooks[g] \in Seq(HookRule) /\ HookOK(hooks[g])
    BY <2>1 DEF TargetInv, HooksInv, TargetTypeOK
  <2>3. \A r : Holds(w, r) => Holds(hooks[g], r)
    BY <2>1, <2>2, RemoveJumpOK
  <2>4. \A r : r # script[j].ip /\ Holds(hooks[g], r) => Holds(w, r)
    BY <2>1, <2>2, RemoveJumpKeeps
  <2> HIDE DEF w
  <2>5. hooks' = [hooks EXCEPT ![g] = w]
    BY <1>2 DEF w
  <2>6. hooks'[g] = w /\ \A h \in Hooks \ {g} : hooks'[h] = hooks[h]
    BY <2>1, <2>5 DEF TargetInv, TargetTypeOK
  <2>7. \A ip : Hooked(ip)' <=> \E h \in Hooks : Holds(hooks'[h], ip)
    BY DEF Hooked, Holds
  <2>8. QED
    BY <2>1, <2>3, <2>4, <2>6, <2>7 DEF Hooked
<1>3. QED
  BY <1>1, <1>2 DEF Unhook

-----------------------------------------------------------------------------
(* No jump leads to a missing chain.  A step may create chains and may take *)
(* jumps away without harm; the lemma leaves the other steps to be looked   *)
(* at one by one.                                                           *)

LEMMA JumpFrame ==
    ASSUME JumpInv, UNCHANGED saved,
           \A ip \in Ips : Hooked(ip)' => Hooked(ip) /\ (chains[ip] # NoChain => chains'[ip] # NoChain)
    PROVE  JumpInv'
BY DEF JumpInv, Holds

LEMMA JumpStep == TargetInv /\ JumpInv /\ [TargetNext]_tvars => JumpInv'
<1> SUFFICES ASSUME TargetInv, TargetTypeOK, JumpInv, [TargetNext]_tvars
             PROVE  JumpInv'
  BY DEF TargetInv
<1>1. ASSUME NEW j \in Jobs, NewChain(j) PROVE JumpInv'
  BY <1>1, HooksUnchanged, EmptyChainType, JumpFrame DEF NewChain, TargetTypeOK
<1>2. ASSUME NEW j \in Jobs, Flush(j) PROVE JumpInv'
  BY <1>2, HooksUnchanged, EmptyChainType, JumpFrame DEF Flush, TargetTypeOK
<1>3. ASSUME NEW j \in Jobs, AppendAccept(j) PROVE JumpInv'
  <2>1. PICK t \in script[j].todo \ Refused :
           chains' = [chains EXCEPT ![script[j].ip] = AppendAcceptTo(@, t)]
    BY <1>3 DEF AppendAccept
  <2>2. script[j].ip \in Ips /\ t \in Targets /\ chains[script[j].ip] \in Chain
    BY <1>3, AtType DEF AppendAccept, TargetTypeOK
  <2>3. AppendAcceptTo(chains[script[j].ip], t) # NoChain
    BY <2>2, ChainType, FirewallAssumption
  <2>4. QED
    BY <1>3, <2>1, <2>3, HooksUnchanged, JumpFrame DEF AppendAccept, TargetTypeOK
<1>4. ASSUME NEW j \in Jobs, AppendDrop(j) PROVE JumpInv'
  <2>1. script[j].ip \in Ips /\ chains[script[j].ip] \in Chain
    BY <1>4, AtType DEF AppendDrop, TargetTypeOK
  <2>2. AppendDropTo(chains[script[j].ip]) # NoChain
    BY <2>1, FirewallAssumption DEF AppendDropTo, Chain
  <2>3. QED
    BY <1>4, <2>2, HooksUnchanged, JumpFrame DEF AppendDrop, TargetTypeOK
<1>5. ASSUME NEW j \in Jobs, InsertEstablished(j) PROVE JumpInv'
  BY <1>5, InsertEstablishedEffect, JumpFrame DEF InsertEstablished
<1>6. ASSUME NEW j \in Jobs, InsertJump(j) PROVE JumpInv'
  BY <1>6, InsertJumpEffect DEF InsertJump, JumpInv, Holds
<1>7. ASSUME NEW j \in Jobs, Unhook(j) PROVE JumpInv'
  BY <1>7, UnhookEffect, JumpFrame DEF Unhook
<1>8. ASSUME NEW j \in Jobs, Clear(j) PROVE JumpInv'
  BY <1>8, HooksUnchanged, EmptyChainType, JumpFrame DEF Clear, TargetTypeOK
<1>9. ASSUME NEW j \in Jobs, DeleteChain(j) PROVE JumpInv'
  BY <1>9, HooksUnchanged, JumpFrame DEF DeleteChain, TargetTypeOK
<1>10. ASSUME NEW j \in Jobs, Save(j) PROVE JumpInv'
  <2>1. saved' = saved \/ (saved'.chains = chains /\ saved'.hooks = hooks)
    BY <1>10 DEF Save
  <2>2. UNCHANGED <<chains, hooks>>
    BY <1>10 DEF Save
  <2>3. QED
    BY <2>1, <2>2 DEF JumpInv, Hooked, Holds
<1>11. ASSUME Reboot PROVE JumpInv'
  BY <1>11 DEF Reboot, JumpInv, Hooked, Holds
<1>12. CASE UNCHANGED <<chains, hooks, saved>>
  BY <1>12, HooksUnchanged, JumpFrame
<1>13. QED
  BY <1>1, <1>2, <1>3, <1>4, <1>5, <1>6, <1>7, <1>8, <1>9, <1>10, <1>11, <1>12
  DEF TargetNext, Command, CheckEstablished, CheckJump, Abort, Collect, Start, Kill, Detach, tvars

LEMMA JumpInit == TargetInit => JumpInv
<1> SUFFICES ASSUME TargetInit PROVE JumpInv
  OBVIOUS
<1>1. \A h \in Hooks : hooks[h] \in Seq({Mesh}) /\ saved.hooks[h] = hooks[h]
  <2>1. <<>> \in Seq({Mesh})
    OBVIOUS
  <2>2. QED
    BY <2>1, FirewallAssumption DEF TargetInit, BootHooks
<1>2. ASSUME NEW s \in Seq({Mesh}), NEW i \in 1..Len(s)
      PROVE  s[i] = Mesh
  BY <1>2
<1>3. \A h \in Hooks, ip \in Ips : ~Holds(hooks[h], ip)
  BY <1>1, <1>2, FirewallAssumption DEF Holds
<1>4. QED
  BY <1>1, <1>3 DEF JumpInv, Hooked

LEMMA JumpInvariant == TargetSpec => [](TargetInv /\ JumpInv)
<1>1. TargetInv /\ JumpInv /\ [TargetNext]_tvars => (TargetInv /\ JumpInv)'
  BY TypeStep, HooksStep, DropStep, JumpStep DEF TargetInv
<1>2. QED
  BY TargetInitInv, JumpInit, <1>1, PTL DEF TargetSpec

-----------------------------------------------------------------------------
(* The abstract state *)

LEMMA WorkType == TargetTypeOK => [j \in Jobs |-> WorkOf(j)] \in [Jobs -> Clients!Work \cup {NoScript}]
<1> SUFFICES ASSUME TargetTypeOK, NEW j \in Jobs
             PROVE  WorkOf(j) \in Clients!Work \cup {NoScript}
  OBVIOUS
<1>1. CASE script[j] = NoScript
  BY <1>1 DEF WorkOf
<1>2. CASE script[j] \in Script
  BY <1>2 DEF WorkOf, Script, Clients!Work
<1>3. QED
  BY <1>1, <1>2 DEF TargetTypeOK

LEMMA WorkTypeNext ==
    TargetTypeOK' => [j \in Jobs |-> WorkOf(j)]' \in [Jobs -> Clients!Work \cup {NoScript}]
<1>1. (TargetTypeOK => [j \in Jobs |-> WorkOf(j)] \in [Jobs -> Clients!Work \cup {NoScript}])'
  BY WorkType, PTL
<1>2. QED
  BY <1>1

LEMMA WorkFrame ==
    ASSUME NEW k \in Jobs, script'[k] = script[k]
    PROVE  WorkOf(k)' = WorkOf(k)
BY DEF WorkOf

(* A job in the middle of an apply or a remove script. *)
LEMMA WorkIs ==
    ASSUME TargetTypeOK, NEW j \in Jobs, NEW step, At(j, step), step \in ApplySteps \cup RemoveSteps
    PROVE  /\ WorkOf(j) # NoScript
           /\ WorkOf(j).ip = script[j].ip
           /\ WorkOf(j).lines = script[j].todo
           /\ WorkOf(j).kind = IF step \in ApplySteps THEN "apply" ELSE "remove"
<1>1. WorkOf(j) \in Clients!Work \cup {NoScript}
  BY WorkType
<1>2. WorkOf(j) = [ip |-> script[j].ip, lines |-> script[j].todo,
                   kind |-> IF step \in ApplySteps THEN "apply" ELSE "remove"]
  BY DEF WorkOf, At
<1>3. script[j].ip \in Ips /\ script[j].todo \subseteq Targets
  BY AtType
<1>4. WorkOf(j) \in Clients!Work
  BY <1>2, <1>3 DEF Clients!Work
<1>5. QED
  BY <1>2, <1>4, WorkAssumption

-----------------------------------------------------------------------------
(* The ways in which a step of Target is a step of ClientFilter: it changes *)
(* what no client meets, or what the client of the script j meets.          *)

LEMMA ScheduleStep ==
    ASSUME TargetTypeOK', \A ip \in Ips : Meets(ip)' = Meets(ip)
    PROVE  Clients!Next
<1>1. [j \in Jobs |-> WorkOf(j)]' \in [Jobs -> Clients!Work \cup {NoScript}]
  BY WorkTypeNext
<1>2. [ip \in Ips |-> Meets(ip)]' = [ip \in Ips |-> Meets(ip)]
  OBVIOUS
<1>3. QED
  BY <1>1, <1>2 DEF Clients!Next, Clients!Schedule

LEMMA ApplyStep ==
    ASSUME TargetTypeOK, TargetTypeOK', NEW j \in Jobs, NEW step \in ApplySteps, At(j, step),
           \A k \in Jobs \ {j} : script'[k] = script[k],
           NEW f \in Chain,
           \A ip \in Ips : Meets(ip)' = IF ip = script[j].ip THEN f ELSE Meets(ip),
           \/ Meets(script[j].ip) = NoChain
           \/ f.accepts \subseteq Meets(script[j].ip).accepts \cup script[j].todo
    PROVE  Clients!Next
<1>1. [k \in Jobs |-> WorkOf(k)]' \in [Jobs -> Clients!Work \cup {NoScript}]
  BY WorkTypeNext
<1>2. /\ WorkOf(j) # NoScript /\ WorkOf(j).kind = "apply"
      /\ WorkOf(j).ip = script[j].ip /\ WorkOf(j).lines = script[j].todo
  BY WorkIs
<1>3. script[j].ip \in Ips
  BY AtType
<1>4. [ip \in Ips |-> Meets(ip)]' = [[ip \in Ips |-> Meets(ip)] EXCEPT ![script[j].ip] = f]
  BY <1>3
<1>5. \A k \in Jobs \ {j} : [i \in Jobs |-> WorkOf(i)]'[k] = [i \in Jobs |-> WorkOf(i)][k]
  BY WorkFrame
<1>6. f \in Clients!Filter
  BY DEF Chain, Clients!Filter
<1>7. Clients!Apply(j)
  BY <1>1, <1>2, <1>3, <1>4, <1>5, <1>6 DEF Clients!Apply, Clients!Doing
<1>8. QED
  BY <1>7 DEF Clients!Next

LEMMA RemoveStep ==
    ASSUME TargetTypeOK, TargetTypeOK', NEW j \in Jobs, NEW step \in RemoveSteps, At(j, step),
           \A k \in Jobs \ {j} : script'[k] = script[k],
           NEW f \in {NoChain, EmptyChain},
           \A ip \in Ips : Meets(ip)' = IF ip = script[j].ip THEN f ELSE Meets(ip)
    PROVE  Clients!Next
<1>1. [k \in Jobs |-> WorkOf(k)]' \in [Jobs -> Clients!Work \cup {NoScript}]
  BY WorkTypeNext
<1>2. WorkOf(j) # NoScript /\ WorkOf(j).kind = "remove" /\ WorkOf(j).ip = script[j].ip
  BY WorkIs DEF ApplySteps, RemoveSteps
<1>3. script[j].ip \in Ips
  BY AtType
<1>4. [ip \in Ips |-> Meets(ip)]' = [[ip \in Ips |-> Meets(ip)] EXCEPT ![script[j].ip] = f]
  BY <1>3
<1>5. \A k \in Jobs \ {j} : [i \in Jobs |-> WorkOf(i)]'[k] = [i \in Jobs |-> WorkOf(i)][k]
  BY WorkFrame
<1>6. f \in {NoChain, Clients!Cleared}
  BY DEF EmptyChain, Clients!Cleared
<1>7. Clients!Remove(j)
  BY <1>1, <1>2, <1>3, <1>4, <1>5, <1>6 DEF Clients!Remove, Clients!Doing
<1>8. QED
  BY <1>7 DEF Clients!Next

(* Nothing a client meets changes when neither its jumps nor its chain do, *)
(* and a chain nothing leads to may change at will.                        *)
LEMMA MeetsFrame ==
    ASSUME TargetInv, TargetInv', NEW ip \in Ips, Hooked(ip)' <=> Hooked(ip),
           Hooked(ip) => chains'[ip] = chains[ip]
    PROVE  Meets(ip)' = Meets(ip)
BY MeetsIs, MeetsIsNext

(* A job's own line moves on, the others stay. *)
LEMMA GotoFrame ==
    ASSUME TargetTypeOK, NEW j \in Jobs, NEW step, Goto(j, step)
    PROVE  \A k \in Jobs \ {j} : script'[k] = script[k]
BY DEF Goto, TargetTypeOK

LEMMA NewChainRefines ==
    ASSUME TargetInv, TargetInv', JumpInv, NEW j \in Jobs, NewChain(j)
    PROVE  Clients!Next
<1>1. \A ip \in Ips : Hooked(ip) => chains'[ip] = chains[ip]
  BY DEF NewChain, JumpInv, TargetInv, TargetTypeOK
<1>2. \A ip \in Ips : Meets(ip)' = Meets(ip)
  BY <1>1, HooksUnchanged, MeetsFrame DEF NewChain
<1>3. QED
  BY <1>2, ScheduleStep DEF TargetInv

(* Flushing and filling: the client meets the new chain if it met the old. *)
LEMMA FillRefines ==
    ASSUME TargetInv, TargetInv', NEW j \in Jobs, NEW step \in ApplySteps, At(j, step),
           \A k \in Jobs \ {j} : script'[k] = script[k],
           NEW c \in Chain, chains[script[j].ip] \in Chain,
           c.accepts \subseteq chains[script[j].ip].accepts \cup script[j].todo,
           chains' = [chains EXCEPT ![script[j].ip] = c], UNCHANGED hooks
    PROVE  Clients!Next
<1> USE DEF TargetInv
<1>1. PICK p \in Ips : p = script[j].ip
  BY AtType
<1>2. chains'[p] = c /\ \A ip \in Ips \ {p} : chains'[ip] = chains[ip]
  BY <1>1 DEF TargetTypeOK
<1>3. \A ip \in Ips : Hooked(ip)' <=> Hooked(ip)
  BY HooksUnchanged
<1>4. \A ip \in Ips \ {p} : Meets(ip)' = Meets(ip)
  BY <1>2, <1>3, MeetsFrame
<1>5. CASE Hooked(p)
  <2>1. Meets(p) = chains[p] /\ Meets(p)' = c
    BY <1>1, <1>2, <1>3, <1>5, MeetsIs, MeetsIsNext
  <2>2. \A ip \in Ips : Meets(ip)' = IF ip = p THEN c ELSE Meets(ip)
    BY <1>4, <2>1
  <2>3. QED
    BY <1>1, <2>1, <2>2, ApplyStep
<1>6. CASE ~Hooked(p)
  <2>1. \A ip \in Ips : Meets(ip)' = Meets(ip)
    BY <1>1, <1>3, <1>4, <1>6, MeetsFrame
  <2>2. QED
    BY <2>1, ScheduleStep
<1>7. QED
  BY <1>5, <1>6

LEMMA FlushRefines ==
    ASSUME TargetInv, TargetInv', NEW j \in Jobs, Flush(j)
    PROVE  Clients!Next
<1>1. script[j].ip \in Ips /\ "flush" \in ApplySteps
  BY AtType DEF Flush, TargetInv, ApplySteps
<1>2. chains[script[j].ip] \in Chain
  BY <1>1 DEF Flush, TargetInv, TargetTypeOK
<1>3. EmptyChain \in Chain /\ EmptyChain.accepts = {}
  BY EmptyChainType DEF EmptyChain
<1>4. \A k \in Jobs \ {j} : script'[k] = script[k]
  BY GotoFrame DEF Flush, TargetInv
<1>5. QED
  BY <1>1, <1>2, <1>3, <1>4, FillRefines DEF Flush

LEMMA AppendAcceptRefines ==
    ASSUME TargetInv, TargetInv', NEW j \in Jobs, AppendAccept(j)
    PROVE  Clients!Next
<1>1. PICK t \in script[j].todo \ Refused :
         /\ chains' = [chains EXCEPT ![script[j].ip] = AppendAcceptTo(@, t)]
         /\ script' = [script EXCEPT ![j].todo = @ \ {t}]
  BY DEF AppendAccept
<1>2. script[j].ip \in Ips /\ script[j].todo \subseteq Targets /\ "accept" \in ApplySteps
  BY AtType DEF AppendAccept, TargetInv, ApplySteps
<1>3. chains[script[j].ip] \in Chain
  BY <1>2 DEF AppendAccept, TargetInv, TargetTypeOK
<1> DEFINE c == AppendAcceptTo(chains[script[j].ip], t)
<1>4. c \in Chain /\ c.accepts \subseteq chains[script[j].ip].accepts \cup script[j].todo
  BY <1>1, <1>2, <1>3 DEF AppendAcceptTo, Chain
<1>5. chains' = [chains EXCEPT ![script[j].ip] = c]
  BY <1>1
<1> HIDE DEF c
<1>6. \A k \in Jobs \ {j} : script'[k] = script[k]
  BY <1>1 DEF TargetInv, TargetTypeOK
<1>7. QED
  BY <1>2, <1>3, <1>4, <1>5, <1>6, FillRefines DEF AppendAccept

LEMMA AppendDropRefines ==
    ASSUME TargetInv, TargetInv', NEW j \in Jobs, AppendDrop(j)
    PROVE  Clients!Next
<1>1. script[j].ip \in Ips /\ "accept" \in ApplySteps
  BY AtType DEF AppendDrop, TargetInv, ApplySteps
<1>2. chains[script[j].ip] \in Chain
  BY <1>1 DEF AppendDrop, TargetInv, TargetTypeOK
<1> DEFINE c == AppendDropTo(chains[script[j].ip])
<1>3. c \in Chain /\ c.accepts = chains[script[j].ip].accepts
  BY <1>2 DEF AppendDropTo, Chain
<1>4. chains' = [chains EXCEPT ![script[j].ip] = c]
  BY DEF AppendDrop
<1> HIDE DEF c
<1>5. \A k \in Jobs \ {j} : script'[k] = script[k]
  BY GotoFrame DEF AppendDrop, TargetInv
<1>6. QED
  BY <1>1, <1>2, <1>3, <1>4, <1>5, FillRefines DEF AppendDrop

(* The jump is what filters the client, unless another hook chain has one. *)
LEMMA InsertJumpRefines ==
    ASSUME TargetInv, TargetInv', NEW j \in Jobs, InsertJump(j)
    PROVE  Clients!Next
<1> USE DEF TargetInv
<1>1. PICK p \in Ips : p = script[j].ip
  BY AtType DEF InsertJump
<1>2. chains[p] \in Chain /\ UNCHANGED chains
  BY <1>1 DEF InsertJump, TargetTypeOK
<1>3. \A k \in Jobs \ {j} : script'[k] = script[k]
  BY GotoFrame DEF InsertJump
<1>4. \A ip \in Ips : Hooked(ip)' <=> ip = p \/ Hooked(ip)
  BY <1>1, InsertJumpEffect
<1>5. \A ip \in Ips \ {p} : Meets(ip)' = Meets(ip)
  BY <1>2, <1>4, MeetsFrame
<1>6. Meets(p)' = chains[p]
  BY <1>1, <1>2, <1>4, MeetsIsNext
<1>7. Meets(p) \in {NoChain, chains[p]}
  BY <1>1, MeetsIs
<1>8. \A ip \in Ips : Meets(ip)' = IF ip = p THEN chains[p] ELSE Meets(ip)
  BY <1>5, <1>6
<1>9. QED
  BY <1>1, <1>2, <1>3, <1>7, <1>8, ApplyStep DEF InsertJump, ApplySteps

(* Taking the jump away opens the client, unless another one is left. *)
LEMMA UnhookRefines ==
    ASSUME TargetInv, TargetInv', NEW j \in Jobs, Unhook(j)
    PROVE  Clients!Next
<1> USE DEF TargetInv
<1>1. PICK p \in Ips : p = script[j].ip
  BY AtType DEF Unhook
<1>2. UNCHANGED chains
  BY DEF Unhook
<1>3. \A k \in Jobs \ {j} : script'[k] = script[k]
  BY GotoFrame DEF Unhook
<1>4. \A ip \in Ips : /\ Hooked(ip)' => Hooked(ip)
                      /\ ip # p /\ Hooked(ip) => Hooked(ip)'
  BY <1>1, UnhookEffect
<1>5. \A ip \in Ips \ {p} : Meets(ip)' = Meets(ip)
  BY <1>2, <1>4, MeetsFrame
<1>6. CASE Hooked(p)' <=> Hooked(p)
  BY <1>1, <1>2, <1>5, <1>6, MeetsFrame, ScheduleStep
<1>7. CASE ~Hooked(p)'
  <2>1. Meets(p)' = NoChain
    BY <1>1, <1>7, MeetsIsNext
  <2>2. \A ip \in Ips : Meets(ip)' = IF ip = p THEN NoChain ELSE Meets(ip)
    BY <1>5, <2>1
  <2>3. QED
    BY <1>1, <1>3, <2>2, RemoveStep DEF Unhook, RemoveSteps
<1>8. QED
  BY <1>1, <1>4, <1>6, <1>7

LEMMA ClearRefines ==
    ASSUME TargetInv, TargetInv', JumpInv, NEW j \in Jobs, Clear(j)
    PROVE  Clients!Next
<1> USE DEF TargetInv
<1>1. PICK p \in Ips : p = script[j].ip
  BY AtType DEF Clear
<1>2. \A k \in Jobs \ {j} : script'[k] = script[k]
  BY GotoFrame DEF Clear
<1>3. \A ip \in Ips : Hooked(ip)' <=> Hooked(ip)
  BY HooksUnchanged DEF Clear
<1>4. \A ip \in Ips \ {p} : chains'[ip] = chains[ip]
  BY <1>1 DEF Clear, TargetTypeOK
<1>5. \A ip \in Ips \ {p} : Meets(ip)' = Meets(ip)
  BY <1>3, <1>4, MeetsFrame
<1>6. CASE ~Hooked(p)
  BY <1>1, <1>3, <1>5, <1>6, MeetsFrame, ScheduleStep
<1>7. CASE Hooked(p)
  <2>1. chains'[p] = EmptyChain
    BY <1>1, <1>7 DEF Clear, JumpInv, TargetTypeOK
  <2>2. Meets(p)' = EmptyChain
    BY <1>1, <1>3, <1>7, <2>1, MeetsIsNext
  <2>3. \A ip \in Ips : Meets(ip)' = IF ip = p THEN EmptyChain ELSE Meets(ip)
    BY <1>5, <2>2
  <2>4. QED
    BY <1>1, <1>2, <2>3, RemoveStep DEF Clear, RemoveSteps
<1>8. QED
  BY <1>6, <1>7

LEMMA RebootRefines ==
    ASSUME TargetInv, TargetInv', Reboot
    PROVE  Clients!Next
<1>1. \A ip \in Ips : Meets(ip)' \in Clients!Filter \cup {NoChain}
  BY MeetsIsNext DEF TargetInv, TargetTypeOK, Chain, Clients!Filter
<1>2. \A j \in Jobs : WorkOf(j)' = NoScript
  BY DEF Reboot, WorkOf
<1>3. [ip \in Ips |-> Meets(ip)]' \in [Ips -> Clients!Filter \cup {NoChain}]
  BY <1>1
<1>4. [j \in Jobs |-> WorkOf(j)]' = [j \in Jobs |-> NoScript]
  BY <1>2
<1>5. QED
  BY <1>3, <1>4 DEF Clients!Next, Clients!Reboot

-----------------------------------------------------------------------------
(* The theorem *)

LEMMA FilterInit == TargetInit => Clients!Init
<1> SUFFICES ASSUME TargetInit PROVE Clients!Init
  OBVIOUS
<1>1. \A ip \in Ips : Meets(ip) = NoChain
  BY DEF Meets, TargetInit, BootChains
<1>2. \A j \in Jobs : WorkOf(j) = NoScript
  BY DEF WorkOf, TargetInit
<1>3. QED
  BY <1>1, <1>2 DEF Clients!Init

LEMMA FilterStep ==
    TargetInv /\ JumpInv /\ TargetInv' /\ [TargetNext]_tvars => [Clients!Next]_(Clients!vars)
<1> SUFFICES ASSUME TargetInv, JumpInv, TargetInv', [TargetNext]_tvars
             PROVE  Clients!Next
  OBVIOUS
<1>1. ASSUME \A ip \in Ips : Hooked(ip)' <=> Hooked(ip), UNCHANGED chains
      PROVE  Clients!Next
  BY <1>1, MeetsFrame, ScheduleStep DEF TargetInv
<1>2. ASSUME NEW j \in Jobs, InsertEstablished(j) PROVE Clients!Next
  BY <1>1, <1>2, InsertEstablishedEffect DEF InsertEstablished
<1>3. ASSUME NEW j \in Jobs, DeleteChain(j) PROVE Clients!Next
  <2>1. \A ip \in Ips : Hooked(ip) => chains'[ip] = chains[ip]
    BY <1>3 DEF DeleteChain, TargetInv, TargetTypeOK
  <2>2. QED
    BY <1>3, <2>1, HooksUnchanged, MeetsFrame, ScheduleStep DEF DeleteChain, TargetInv
<1>4. ASSUME UNCHANGED <<chains, hooks>> PROVE Clients!Next
  BY <1>1, <1>4, HooksUnchanged
<1>5. ASSUME NEW j \in Jobs, Command(j) PROVE Clients!Next
  BY <1>2, <1>3, <1>4, <1>5, NewChainRefines, FlushRefines, AppendAcceptRefines,
     AppendDropRefines, InsertJumpRefines, UnhookRefines, ClearRefines
  DEF Command, CheckEstablished, CheckJump, Abort, Save
<1>6. QED
  BY <1>4, <1>5, RebootRefines DEF TargetNext, Collect, Start, Kill, Detach, tvars

(* The scripts of build_apply_script() and build_remove_script(), however  *)
(* many run at once on the two hook chains they share, change what their   *)
(* own client meets and no other; an apply script never opens a filtered   *)
(* client nor accepts a line that is not its own.                          *)
THEOREM TargetImplementsClientFilter == TargetSpec => ScriptsKeepToTheirClient
<1>1. TargetInit => Clients!Init
  BY FilterInit
<1>2. (TargetInv /\ JumpInv) /\ (TargetInv /\ JumpInv)' /\ [TargetNext]_tvars
         => [Clients!Next]_(Clients!vars)
  BY FilterStep
<1>3. TargetSpec => [](TargetInv /\ JumpInv)
  BY JumpInvariant
<1>4. QED
  BY <1>1, <1>2, <1>3, PTL DEF TargetSpec, ScriptsKeepToTheirClient, Clients!Spec

=============================================================================
