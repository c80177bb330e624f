----------------------------- MODULE ConfProofs -----------------------------
(***************************************************************************)
(* Theorems about PeerConf: the parser, grep and awk see the same blocks   *)
(* in every config that can come about, of any length.                     *)
(*                                                                         *)
(* The parser is a fold over the lines.  What it has read after n of them  *)
(* is found by induction over n, in the form of the least counterexample   *)
(* (LeastNat): a set of numbers that is not empty has a least element.     *)
(***************************************************************************)
EXTENDS PeerConf, WellFoundedInduction, FiniteSetTheorems, TLAPS

-----------------------------------------------------------------------------
(* Numbers *)

LEMMA LessIsWellFounded == IsWellFoundedOn({ss \in Nat \X Nat : ss[1] < ss[2]}, Nat)
BY NatLessThanWellFounded DEF OpToRel

LEMMA LeastNat ==
    ASSUME NEW T \in SUBSET Nat, T # {}
    PROVE  \E m \in T : \A n \in T : m <= n
<1> DEFINE R == {ss \in Nat \X Nat : ss[1] < ss[2]}
<1>1. PICK m \in T : \A n \in T : ~ (<<n, m>> \in R)
  <2>1. IsWellFoundedOn(R, Nat)
    BY LessIsWellFounded
  <2> HIDE DEF R
  <2> QED BY <2>1, WFMin
<1>2. ASSUME NEW n \in T PROVE m <= n
  <2>1. m \in Nat /\ n \in Nat
    OBVIOUS
  <2>2. n < m => <<n, m>> \in R
    BY <2>1
  <2> QED BY <2>1, <2>2, <1>1
<1> QED BY <1>2

(* Max is what it says, of a set of numbers with a bound. *)
LEMMA MaxIs ==
    ASSUME NEW b \in Nat, NEW L \in SUBSET (0..b), L # {}
    PROVE  Max(L) \in L /\ \A x \in L : x <= Max(L)
<1> DEFINE T == {m \in Nat : \A x \in L : x <= m}
<1>1. b \in T
  OBVIOUS
<1>2. PICK m \in T : \A n \in T : m <= n
  <2> HIDE DEF T
  <2>1. T \in SUBSET Nat
    BY DEF T
  <2> QED BY <1>1, <2>1, LeastNat
<1>3. m \in L
  <2>1. CASE m = 0
    <3>1. PICK x \in L : TRUE
      OBVIOUS
    <3>2. x <= 0 /\ x \in Nat
      BY <2>1
    <3> QED BY <3>1, <3>2, <2>1
  <2>2. CASE m # 0 /\ m \notin L
    <3>1. m - 1 \in T
      BY <2>2
    <3> QED BY <3>1, <1>2, <2>2
  <2> QED BY <2>1, <2>2
<1>4. \E x \in L : \A y \in L : x >= y
  BY <1>3
<1>5. Max(L) \in L /\ \A y \in L : Max(L) >= y
  BY <1>4 DEF Max
<1> QED BY <1>5

LEMMA MaxOf ==
    ASSUME NEW b \in Nat, NEW L \in SUBSET (0..b), NEW m \in L, \A x \in L : x <= m
    PROVE  Max(L) = m
<1>1. Max(L) \in L /\ m <= Max(L) /\ Max(L) <= m
  BY MaxIs
<1>2. \A x \in L : x \in Int
  OBVIOUS
<1>3. Max(L) \in Int /\ m \in Int
  BY <1>1, <1>2, Zenon
<1> QED BY <1>1, <1>3

-----------------------------------------------------------------------------
(* The fold over the lines *)

Folded(iter, D, c) ==
    iter = [s \in SUBSET D |->
              IF s = {} THEN Outside ELSE ReadLine(iter[s \ {Max(s)}], c[Max(s)])]

LEMMA FoldIs ==
    ASSUME NEW c
    PROVE  FoldLeft(ReadLine, Outside, c) = (CHOOSE iter : Folded(iter, DOMAIN c, c))[DOMAIN c]
BY DEF FoldLeft, MapThenFoldSet, Folded

(* One line more. *)
LEMMA FoldStep ==
    ASSUME NEW c, NEW n \in Nat, NEW iter, Folded(iter, 1..n, c)
    PROVE  \E g : Folded(g, 1..(n + 1), c)
<1> DEFINE g == [s \in SUBSET (1..(n + 1)) |->
                   IF n + 1 \in s THEN ReadLine(iter[s \ {n + 1}], c[n + 1]) ELSE iter[s]]
           G(s) == IF s = {} THEN Outside ELSE ReadLine(g[s \ {Max(s)}], c[Max(s)])
<1>1. ASSUME NEW s \in SUBSET (1..(n + 1)) PROVE g[s] = G(s)
  <2>1. CASE n + 1 \in s
    <3>1. Max(s) = n + 1
      <4>1. n + 1 \in Nat /\ s \in SUBSET (0..(n + 1)) /\ \A x \in s : x <= n + 1
        OBVIOUS
      <4> QED BY <2>1, <4>1, MaxOf
    <3>2. s \ {n + 1} \in SUBSET (1..n) /\ s \ {n + 1} \in SUBSET (1..(n + 1))
      OBVIOUS
    <3>3. g[s \ {n + 1}] = iter[s \ {n + 1}]
      BY <3>2
    <3>4. g[s] = ReadLine(iter[s \ {n + 1}], c[n + 1])
      BY <2>1
    <3> HIDE DEF g
    <3> QED BY <3>1, <3>3, <3>4, <2>1
  <2>2. CASE n + 1 \notin s
    <3>1. s \in SUBSET (1..n)
      BY <2>2
    <3>2. g[s] = iter[s]
      BY <2>2
    <3>3. iter[s] = IF s = {} THEN Outside ELSE ReadLine(iter[s \ {Max(s)}], c[Max(s)])
      BY <3>1 DEF Folded
    <3>4. ASSUME s # {} PROVE g[s \ {Max(s)}] = iter[s \ {Max(s)}]
      <4>1. s \ {Max(s)} \in SUBSET (1..(n + 1)) /\ n + 1 \notin s \ {Max(s)}
        BY <2>2
      <4> QED BY <4>1
    <3> HIDE DEF g
    <3> QED BY <3>2, <3>3, <3>4
  <2> QED BY <2>1, <2>2
<1>2. g = [s \in SUBSET (1..(n + 1)) |-> G(s)]
  <2>1. g = [s \in SUBSET (1..(n + 1)) |-> g[s]]
    OBVIOUS
  <2> HIDE DEF g, G
  <2> QED BY <1>1, <2>1
<1>3. Folded(g, 1..(n + 1), c)
  BY <1>2 DEF Folded
<1> QED BY <1>3

LEMMA FoldExists ==
    ASSUME NEW c, NEW n \in Nat
    PROVE  \E iter : Folded(iter, 1..n, c)
<1> DEFINE T == {m \in Nat : ~ \E iter : Folded(iter, 1..m, c)}
<1>1. SUFFICES ASSUME T # {} PROVE FALSE
  OBVIOUS
<1>2. PICK m \in T : \A k \in T : m <= k
  <2>1. T \in SUBSET Nat
    OBVIOUS
  <2> HIDE DEF T
  <2> QED BY <1>1, <2>1, LeastNat
<1>3. CASE m = 0
  <2> DEFINE g == [s \in SUBSET (1..0) |-> Outside]
  <2>1. \A s \in SUBSET (1..0) : s = {}
    OBVIOUS
  <2>2. g = [s \in SUBSET (1..0) |->
               IF s = {} THEN Outside ELSE ReadLine(g[s \ {Max(s)}], c[Max(s)])]
    BY <2>1, Zenon
  <2>3. Folded(g, 1..0, c)
    BY <2>2 DEF Folded
  <2> QED BY <2>3, <1>3
<1>4. CASE m # 0
  <2>1. m - 1 \in Nat /\ m - 1 \notin T /\ (m - 1) + 1 = m
    BY <1>2, <1>4
  <2>2. PICK iter : Folded(iter, 1..(m - 1), c)
    BY <2>1
  <2>3. \E g : Folded(g, 1..((m - 1) + 1), c)
    BY <2>1, <2>2, FoldStep
  <2> QED BY <2>1, <2>3
<1> QED BY <1>3, <1>4

(* The states of the parser, line by line. *)
LEMMA ReadingByLine ==
    ASSUME NEW c \in Seq(Lines)
    PROVE  \E s : /\ s[0] = Outside
                  /\ \A n \in 1..Len(c) : s[n] = ReadLine(s[n - 1], c[n])
                  /\ FoldLeft(ReadLine, Outside, c) = s[Len(c)]
<1> DEFINE iter == CHOOSE i : Folded(i, DOMAIN c, c)
           s == [n \in 0..Len(c) |-> iter[1..n]]
<1>1. Len(c) \in Nat /\ DOMAIN c = 1..Len(c)
  OBVIOUS
<1>2. Folded(iter, 1..Len(c), c)
  BY <1>1, FoldExists
<1>3. FoldLeft(ReadLine, Outside, c) = iter[1..Len(c)]
  BY <1>1, FoldIs
<1> HIDE DEF iter
<1>4. s[0] = Outside
  <2>1. {} \in SUBSET (1..Len(c)) /\ 1..0 = {}
    OBVIOUS
  <2>2. iter[{}] = Outside
    BY <1>2, <2>1 DEF Folded
  <2> QED BY <2>1, <2>2, <1>1
<1>5. ASSUME NEW n \in 1..Len(c) PROVE s[n] = ReadLine(s[n - 1], c[n])
  <2>1. 1..n \in SUBSET (1..Len(c)) /\ n \in 1..n /\ n \in Nat
        /\ n - 1 \in 0..Len(c) /\ n \in 0..Len(c)
    BY <1>1
  <2>2. Max(1..n) = n
    <3>1. 1..n \in SUBSET (0..n) /\ \A x \in 1..n : x <= n
      OBVIOUS
    <3> QED BY <2>1, <3>1, MaxOf
  <2>3. (1..n) \ {n} = 1..(n - 1)
    BY <2>1
  <2>4. iter[1..n] = ReadLine(iter[1..(n - 1)], c[n])
    BY <1>2, <2>1, <2>2, <2>3 DEF Folded
  <2> QED BY <2>1, <2>4
<1>6. s[Len(c)] = iter[1..Len(c)]
  BY <1>1
<1> HIDE DEF s
<1> QED BY <1>3, <1>4, <1>5, <1>6

-----------------------------------------------------------------------------
(* One line *)

Parsed == [key : Keys \cup {NoKey}, allowed : Seq(Entry), hint : Addrs \cup {NoAddr}]

Reader == [peers : Seq(Parsed), current : {<<>>} \cup {<<p>> : p \in Parsed}, first : BOOLEAN]

LEMMA LineIs ==
    ASSUME NEW l \in Lines
    PROVE  /\ l.kind \in {"header", "key", "allowed", "comment"}
           /\ l.exact \in BOOLEAN
           /\ l.kind = "header" => l.value \in {"peer", "interface"}
           /\ l.kind = "key" => l.value \in Keys
           /\ l.kind = "allowed" => l.value \in Seq(Entry)
           /\ l.kind = "comment" => l.value \in {NoText} \cup Addrs \cup Keys
BY DEF Lines

LEMMA ReadHeader ==
    ASSUME NEW s \in Reader, NEW l \in Lines, l.kind = "header"
    PROVE  ReadLine(s, l) =
             [peers |-> s.peers \o s.current, first |-> l.value = "peer",
              current |-> IF l.value = "peer" THEN <<NewPeer>> ELSE <<>>]
BY DEF ReadLine

LEMMA ReadOutside ==
    ASSUME NEW s \in Reader, NEW l \in Lines, l.kind # "header", s.current = <<>>
    PROVE  ReadLine(s, l) = s
BY DEF ReadLine

Reads(p, l, first) ==
    CASE l.kind = "key" -> [p EXCEPT !.key = l.value]
      [] l.kind = "allowed" -> [p EXCEPT !.allowed = l.value]
      [] l.kind = "comment" ->
            IF l.value \in Addrs /\ ~ first THEN [p EXCEPT !.hint = l.value] ELSE p

LEMMA ReadInside ==
    ASSUME NEW s \in Reader, NEW l \in Lines, l.kind # "header",
           NEW p \in Parsed, s.current = <<p>>
    PROVE  ReadLine(s, l) = [peers |-> s.peers, current |-> <<Reads(p, l, s.first)>>, first |-> FALSE]
<1>1. s = [peers |-> s.peers, current |-> s.current, first |-> s.first] /\ s.current # <<>> /\ s.current[1] = p
  BY DEF Reader
<1>2. CASE l.kind = "key"
  BY <1>1, <1>2 DEF ReadLine, Reads
<1>3. CASE l.kind = "allowed"
  BY <1>1, <1>3 DEF ReadLine, Reads
<1>4. CASE l.kind = "comment"
  BY <1>1, <1>4 DEF ReadLine, Reads
<1> QED BY LineIs, <1>2, <1>3, <1>4

LEMMA ReadsTypes ==
    ASSUME NEW p \in Parsed, NEW l \in Lines, l.kind # "header", NEW first
    PROVE  Reads(p, l, first) \in Parsed
<1>1. CASE l.kind = "key"
  BY <1>1, LineIs DEF Reads, Parsed
<1>2. CASE l.kind = "allowed"
  BY <1>2, LineIs DEF Reads, Parsed
<1>3. CASE l.kind = "comment"
  BY <1>3, LineIs DEF Reads, Parsed
<1> QED BY LineIs, <1>1, <1>2, <1>3

LEMMA OneMore ==
    ASSUME NEW S, NEW a \in Seq(S), NEW x \in S
    PROVE  /\ Len(a \o <<x>>) = Len(a) + 1 /\ Len(a) \in Nat
           /\ (a \o <<x>>)[Len(a) + 1] = x
           /\ \A k \in 1..Len(a) : (a \o <<x>>)[k] = a[k]
OBVIOUS

LEMMA TwoParts ==
    ASSUME NEW S, NEW a \in Seq(S), NEW b \in Seq(S)
    PROVE  /\ a \o b \in Seq(S) /\ Len(a \o b) = Len(a) + Len(b)
           /\ \A i \in DOMAIN a : (a \o b)[i] = a[i]
           /\ \A i \in DOMAIN b : (a \o b)[Len(a) + i] = b[i]
OBVIOUS

LEMMA ReaderParts ==
    ASSUME NEW s \in Reader
    PROVE  s.peers \in Seq(Parsed) /\ s.current \in Seq(Parsed)
<1>1. s.peers \in Seq(Parsed) /\ s.current \in {<<>>} \cup {<<p>> : p \in Parsed}
  BY DEF Reader
<1>2. \A p \in Parsed : <<p>> \in Seq(Parsed)
  OBVIOUS
<1>3. <<>> \in Seq(Parsed)
  OBVIOUS
<1> QED BY <1>1, <1>2, <1>3

LEMMA ReaderTypes ==
    ASSUME NEW s \in Reader, NEW l \in Lines
    PROVE  ReadLine(s, l) \in Reader
<1>1. s.peers \in Seq(Parsed) /\ s.current \in Seq(Parsed)
  BY ReaderParts
<1>2. CASE l.kind = "header"
  <2>1. NewPeer \in Parsed
    BY DEF NewPeer, Parsed
  <2>2. s.peers \o s.current \in Seq(Parsed)
    BY <1>1
  <2>3. (IF l.value = "peer" THEN <<NewPeer>> ELSE <<>>) \in {<<>>} \cup {<<p>> : p \in Parsed}
    BY <2>1
  <2>4. (l.value = "peer") \in BOOLEAN
    OBVIOUS
  <2>5. ReadLine(s, l) =
          [peers |-> s.peers \o s.current, first |-> l.value = "peer",
           current |-> IF l.value = "peer" THEN <<NewPeer>> ELSE <<>>]
    BY <1>2, ReadHeader
  <2> QED BY <2>2, <2>3, <2>4, <2>5 DEF Reader
<1>3. CASE l.kind # "header" /\ s.current = <<>>
  BY <1>3, ReadOutside
<1>4. CASE l.kind # "header" /\ s.current # <<>>
  <2>1. PICK p \in Parsed : s.current = <<p>>
    BY <1>4 DEF Reader
  <2>2. Reads(p, l, s.first) \in Parsed
    BY <1>4, ReadsTypes
  <2>3. <<Reads(p, l, s.first)>> \in {<<q>> : q \in Parsed}
    BY <2>2
  <2>4. ReadLine(s, l) = [peers |-> s.peers, current |-> <<Reads(p, l, s.first)>>, first |-> FALSE]
    BY <1>4, <2>1, ReadInside
  <2> QED BY <1>1, <2>3, <2>4 DEF Reader
<1> QED BY <1>2, <1>3, <1>4

-----------------------------------------------------------------------------
(* What the parser has read after n lines *)

(* Of a block, the lines up to line n. *)
UpTo(L, n) == {j \in L : j <= n}

Hints(c, i) == {j \in LinesOf(c, i, {"comment"}) : j > i + 1 /\ c[j].value \in Addrs}

WrittenUpTo(c, i, n) ==
    [key |-> LastOf(c, UpTo(LinesOf(c, i, {"key"}), n), NoKey),
     allowed |-> LastOf(c, UpTo(LinesOf(c, i, {"allowed"}), n), <<>>),
     hint |-> LastOf(c, UpTo(Hints(c, i), n), NoAddr)]

(* The peers whose blocks begin up to line n. *)
Heads(c, n) == {z \in Headers(c, {"peer"}) : z <= n}

(* Is line n in the block that begins with line h? *)
Within(c, h, n) ==
    /\ h \in Heads(c, n)
    /\ \A z \in Headers(c, {"peer", "interface"}) : z <= h \/ z > n

ReadUpTo(c, s, n) ==
    /\ s \in Reader
    /\ s.first <=> n \in Headers(c, {"peer"})
    /\ (s.current # <<>>) = (\E h \in Heads(c, n) : Within(c, h, n))
    /\ Len(s.peers \o s.current) = Cardinality(Heads(c, n))
    /\ \A i \in Heads(c, n) :
          (s.peers \o s.current)[Cardinality(Heads(c, i))] = WrittenUpTo(c, i, n)

LEMMA HeadsAre ==
    ASSUME NEW c \in Seq(Lines), NEW n \in Nat
    PROVE  /\ IsFiniteSet(Heads(c, n)) /\ Cardinality(Heads(c, n)) \in Nat
           /\ Heads(c, n) \in SUBSET (1..n)
<1>1. Heads(c, n) \in SUBSET (1..n)
  BY DEF Heads, Headers
<1>2. IsFiniteSet(1..n)
  BY FS_Interval
<1> QED BY <1>1, <1>2, FS_Subset, FS_CardinalityType

(* The blocks are counted in their order. *)
LEMMA HeadsInOrder ==
    ASSUME NEW c \in Seq(Lines), NEW n \in Nat, NEW i \in Heads(c, n)
    PROVE  /\ Cardinality(Heads(c, i)) \in 1..Cardinality(Heads(c, n))
           /\ (\E z \in Heads(c, n) : z > i) => Cardinality(Heads(c, i)) < Cardinality(Heads(c, n))
<1>1. i \in Nat /\ i <= n /\ i \in Heads(c, i)
  BY DEF Heads, Headers
<1>2. Heads(c, i) \subseteq Heads(c, n)
  BY <1>1 DEF Heads, Headers
<1>3. Cardinality(Heads(c, i)) <= Cardinality(Heads(c, n))
  BY <1>2, HeadsAre, FS_Subset
<1>4. Cardinality(Heads(c, i)) # 0
  BY <1>1, HeadsAre, FS_EmptySet
<1>5. ASSUME NEW z \in Heads(c, n), z > i PROVE Cardinality(Heads(c, i)) # Cardinality(Heads(c, n))
  <2>1. z \notin Heads(c, i)
    BY <1>1, <1>5 DEF Heads, Headers
  <2> QED BY <2>1, <1>2, HeadsAre, FS_Subset
<1>6. Cardinality(Heads(c, i)) \in Nat /\ Cardinality(Heads(c, n)) \in Nat
  BY <1>1, HeadsAre
<1> QED BY <1>3, <1>4, <1>5, <1>6

LEMMA LinesOfAre ==
    ASSUME NEW c \in Seq(Lines), NEW i, NEW kinds, NEW n \in Nat
    PROVE  /\ UpTo(LinesOf(c, i, kinds), n) \in SUBSET (1..n)
           /\ UpTo(Hints(c, i), n) \in SUBSET (1..n)
BY DEF UpTo, LinesOf, Hints

(* The next line is of another block, or of no block. *)
LEMMA ElsewhereRead ==
    ASSUME NEW c \in Seq(Lines), NEW n \in Nat, n + 1 <= Len(c), NEW i \in Heads(c, n),
           c[n + 1].kind = "header" \/ \E z \in Headers(c, {"peer", "interface"}) : i < z /\ z <= n
    PROVE  WrittenUpTo(c, i, n + 1) = WrittenUpTo(c, i, n)
<1>1. i \in Nat /\ DOMAIN c = 1..Len(c) /\ Len(c) \in Nat
  BY DEF Heads, Headers
<1>2. ASSUME NEW kinds, "header" \notin kinds PROVE n + 1 \notin LinesOf(c, i, kinds)
  BY <1>1, <1>2 DEF LinesOf, Headers
<1>3. ASSUME NEW kinds, "header" \notin kinds
      PROVE  UpTo(LinesOf(c, i, kinds), n + 1) = UpTo(LinesOf(c, i, kinds), n)
  <2>1. \A j \in LinesOf(c, i, kinds) : j \in Nat /\ j # n + 1
    BY <1>1, <1>2, <1>3 DEF LinesOf
  <2> QED BY <2>1 DEF UpTo
<1>4. UpTo(Hints(c, i), n + 1) = UpTo(Hints(c, i), n)
  <2>1. "header" \notin {"comment"}
    OBVIOUS
  <2>2. n + 1 \notin LinesOf(c, i, {"comment"})
    BY <1>2, <2>1
  <2>3. \A j \in LinesOf(c, i, {"comment"}) : j \in Nat
    BY <1>1 DEF LinesOf
  <2>4. \A j \in Hints(c, i) : j \in Nat /\ j # n + 1
    BY <2>2, <2>3 DEF Hints
  <2> QED BY <2>4 DEF UpTo
<1> QED BY <1>3, <1>4 DEF WrittenUpTo

(* The next line is of this block. *)
LEMMA LineRead ==
    ASSUME NEW c \in Seq(Lines), NEW n \in Nat, n + 1 <= Len(c), c[n + 1].kind # "header",
           NEW i, Within(c, i, n), NEW first, first <=> n \in Headers(c, {"peer"})
    PROVE  WrittenUpTo(c, i, n + 1) = Reads(WrittenUpTo(c, i, n), c[n + 1], first)
<1>1. i \in 1..n /\ DOMAIN c = 1..Len(c) /\ Len(c) \in Nat /\ n + 1 \in DOMAIN c
  BY DEF Within, Heads, Headers
<1>2. c[n + 1] \in Lines
  BY <1>1
<1>3. (n \in Headers(c, {"peer"})) <=> n = i
  BY <1>1 DEF Within, Heads, Headers
<1>4. ASSUME NEW kinds
      PROVE  n + 1 \in LinesOf(c, i, kinds) <=> c[n + 1].kind \in kinds
  <2>1. \A z \in Headers(c, {"peer", "interface"}) : z <= i \/ z > n + 1
    <3>1. ASSUME NEW z \in Headers(c, {"peer", "interface"}) PROVE z <= i \/ z > n + 1
      <4>1. z \in Nat /\ z # n + 1
        BY <1>1 DEF Headers
      <4>2. z <= i \/ z > n
        BY DEF Within
      <4> QED BY <4>1, <4>2
    <3> QED BY <3>1
  <2> QED BY <1>1, <2>1 DEF LinesOf
<1>5. ASSUME NEW L \in SUBSET DOMAIN c, n + 1 \notin L
      PROVE  UpTo(L, n + 1) = UpTo(L, n)
  BY <1>1, <1>5 DEF UpTo
<1>6. ASSUME NEW L \in SUBSET DOMAIN c, n + 1 \in L, NEW default
      PROVE  LastOf(c, UpTo(L, n + 1), default) = c[n + 1].value
  <2>1. UpTo(L, n + 1) \in SUBSET (0..(n + 1)) /\ n + 1 \in UpTo(L, n + 1)
        /\ \A x \in UpTo(L, n + 1) : x <= n + 1
    BY <1>1, <1>6 DEF UpTo
  <2>2. Max(UpTo(L, n + 1)) = n + 1
    BY <2>1, MaxOf, n + 1 \in Nat
  <2> QED BY <2>1, <2>2 DEF LastOf
<1>7. /\ LinesOf(c, i, {"key"}) \in SUBSET DOMAIN c /\ LinesOf(c, i, {"allowed"}) \in SUBSET DOMAIN c
      /\ Hints(c, i) \in SUBSET DOMAIN c
  BY DEF LinesOf, Hints
<1>8. n + 1 \in Hints(c, i) <=>
        c[n + 1].kind = "comment" /\ c[n + 1].value \in Addrs /\ ~ first
  BY <1>1, <1>3, <1>4 DEF Hints
<1>9. CASE c[n + 1].kind = "key"
  <2>1. n + 1 \in LinesOf(c, i, {"key"}) /\ n + 1 \notin LinesOf(c, i, {"allowed"}) /\ n + 1 \notin Hints(c, i)
    BY <1>4, <1>8, <1>9
  <2> QED BY <2>1, <1>5, <1>6, <1>7, <1>9 DEF WrittenUpTo, Reads
<1>10. CASE c[n + 1].kind = "allowed"
  <2>1. n + 1 \notin LinesOf(c, i, {"key"}) /\ n + 1 \in LinesOf(c, i, {"allowed"}) /\ n + 1 \notin Hints(c, i)
    BY <1>4, <1>8, <1>10
  <2> QED BY <2>1, <1>5, <1>6, <1>7, <1>10 DEF WrittenUpTo, Reads
<1>11. CASE c[n + 1].kind = "comment"
  <2>1. n + 1 \notin LinesOf(c, i, {"key"}) /\ n + 1 \notin LinesOf(c, i, {"allowed"})
    BY <1>4, <1>11
  <2>2. CASE n + 1 \in Hints(c, i)
    BY <2>1, <2>2, <1>5, <1>6, <1>7, <1>8, <1>11 DEF WrittenUpTo, Reads
  <2>3. CASE n + 1 \notin Hints(c, i)
    BY <2>1, <2>3, <1>5, <1>7, <1>8, <1>11 DEF WrittenUpTo, Reads
  <2> QED BY <2>2, <2>3
<1> QED BY <1>2, <1>9, <1>10, <1>11, LineIs

LEMMA StartRead ==
    ASSUME NEW c \in Seq(Lines)
    PROVE  ReadUpTo(c, Outside, 0)
<1>1. Heads(c, 0) = {} /\ 0 \notin Headers(c, {"peer"})
  BY DEF Heads, Headers
<1>2. Outside \in Reader
  <2>1. <<>> \in Seq(Parsed)
    OBVIOUS
  <2> QED BY <2>1 DEF Outside, Reader
<1>3. Cardinality(Heads(c, 0)) = 0
  BY <1>1, FS_EmptySet
<1>4. Len(<<>> \o <<>>) = 0
  OBVIOUS
<1>5. Outside.first <=> 0 \in Headers(c, {"peer"})
  BY <1>1 DEF Outside
<1>6. (Outside.current # <<>>) = (\E h \in Heads(c, 0) : Within(c, h, 0))
  BY <1>1 DEF Outside
<1>7. Len(Outside.peers \o Outside.current) = Cardinality(Heads(c, 0))
  BY <1>3, <1>4 DEF Outside
<1> QED BY <1>1, <1>2, <1>5, <1>6, <1>7 DEF ReadUpTo

(* The last block that has begun is the one the parser is in. *)
LEMMA CurrentIsLast ==
    ASSUME NEW c \in Seq(Lines), NEW n \in Nat, NEW h, Within(c, h, n)
    PROVE  /\ h \in Heads(c, n) /\ Heads(c, h) = Heads(c, n)
           /\ \A i \in Heads(c, n) : i # h => i < h
<1>1. h \in Nat /\ h <= n /\ h \in Heads(c, n)
  BY DEF Within, Heads, Headers
<1>2. ASSUME NEW i \in Heads(c, n) PROVE i <= h
  <2>1. i \in Headers(c, {"peer", "interface"}) /\ i \in Nat /\ i <= n
    BY DEF Heads, Headers
  <2> QED BY <1>1, <2>1 DEF Within
<1>3. \A i \in Headers(c, {"peer"}) : i \in Nat
  BY DEF Headers
<1>4. Heads(c, h) = Heads(c, n)
  <2>1. ASSUME NEW i \in Headers(c, {"peer"}) PROVE i <= h <=> i <= n
    BY <1>1, <1>2, <1>3 DEF Heads
  <2> QED BY <2>1 DEF Heads
<1> QED BY <1>1, <1>2, <1>3, <1>4

LEMMA HeaderRead ==
    ASSUME NEW c \in Seq(Lines), NEW n \in Nat, n + 1 <= Len(c), NEW s, ReadUpTo(c, s, n),
           c[n + 1].kind = "header"
    PROVE  ReadUpTo(c, ReadLine(s, c[n + 1]), n + 1)
<1> DEFINE l == c[n + 1]
           t == ReadLine(s, l)
           all == s.peers \o s.current
<1>1. DOMAIN c = 1..Len(c) /\ Len(c) \in Nat /\ n + 1 \in DOMAIN c /\ l \in Lines
  OBVIOUS
<1>2. s \in Reader /\ t \in Reader
  BY <1>1, ReaderTypes DEF ReadUpTo
<1>3. all \in Seq(Parsed) /\ Len(all) = Cardinality(Heads(c, n)) /\ Len(all) \in Nat
  <2>1. s.peers \in Seq(Parsed) /\ s.current \in Seq(Parsed)
    BY <1>2, ReaderParts
  <2>2. Len(all) = Cardinality(Heads(c, n))
    BY DEF ReadUpTo
  <2>3. all \in Seq(Parsed)
    BY <2>1, TwoParts
  <2> HIDE DEF all
  <2> QED BY <2>2, <2>3
<1>4. t = [peers |-> all, first |-> l.value = "peer",
           current |-> IF l.value = "peer" THEN <<NewPeer>> ELSE <<>>]
  BY <1>1, <1>2, ReadHeader
<1>5. l.value \in {"peer", "interface"}
  BY <1>1, LineIs
<1>10. all \o <<>> = all
  BY <1>3
<1>6. ASSUME NEW i \in Heads(c, n)
      PROVE  /\ Cardinality(Heads(c, i)) \in 1..Len(all)
             /\ all[Cardinality(Heads(c, i))] = WrittenUpTo(c, i, n + 1)
  BY <1>3, HeadsInOrder, ElsewhereRead DEF ReadUpTo
<1> HIDE DEF t, all
<1>7. CASE l.value = "peer"
  <2>1. n + 1 \in Headers(c, {"peer"})
    BY <1>1, <1>7 DEF Headers
  <2>2. Heads(c, n + 1) = Heads(c, n) \cup {n + 1} /\ n + 1 \notin Heads(c, n)
    BY <2>1, <1>1 DEF Heads, Headers
  <2>3. Cardinality(Heads(c, n + 1)) = Len(all) + 1
    BY <2>2, <1>3, HeadsAre, FS_AddElement
  <2>4. t.peers \o t.current = all \o <<NewPeer>>
    BY <1>4, <1>7
  <2>5. NewPeer \in Parsed
    BY DEF NewPeer, Parsed
  <2>6. /\ Len(all \o <<NewPeer>>) = Len(all) + 1
        /\ (all \o <<NewPeer>>)[Len(all) + 1] = NewPeer
        /\ \A k \in 1..Len(all) : (all \o <<NewPeer>>)[k] = all[k]
    BY <1>3, <2>5, OneMore
  <2>7. WrittenUpTo(c, n + 1, n + 1) = NewPeer
    <3>1. \A kinds : UpTo(LinesOf(c, n + 1, kinds), n + 1) = {}
      BY <1>1 DEF UpTo, LinesOf
    <3>2. UpTo(Hints(c, n + 1), n + 1) = {}
      BY <1>1 DEF UpTo, LinesOf, Hints
    <3> QED BY <3>1, <3>2 DEF WrittenUpTo, NewPeer, LastOf
  <2>8. Within(c, n + 1, n + 1)
    <3>1. n + 1 \in Heads(c, n + 1)
      BY <2>2
    <3>2. \A z \in Headers(c, {"peer", "interface"}) : z \in Nat
      BY <1>1 DEF Headers
    <3> QED BY <3>1, <3>2 DEF Within
  <2>9. ASSUME NEW i \in Heads(c, n + 1)
        PROVE  (t.peers \o t.current)[Cardinality(Heads(c, i))] = WrittenUpTo(c, i, n + 1)
    <3>1. CASE i = n + 1
      BY <3>1, <2>3, <2>4, <2>6, <2>7
    <3>2. CASE i \in Heads(c, n)
      BY <3>2, <1>6, <2>4, <2>6
    <3> QED BY <3>1, <3>2, <2>2
  <2>10. t.first = TRUE /\ t.current # <<>>
    BY <1>4, <1>7
  <2>11. Len(t.peers \o t.current) = Cardinality(Heads(c, n + 1))
    BY <2>3, <2>4, <2>6
  <2> HIDE DEF l
  <2> QED BY <1>2, <2>1, <2>2, <2>8, <2>9, <2>10, <2>11 DEF ReadUpTo, t, l
<1>8. CASE l.value = "interface"
  <2>1. n + 1 \notin Headers(c, {"peer"}) /\ n + 1 \in Headers(c, {"peer", "interface"})
    BY <1>1, <1>8 DEF Headers
  <2>2. Heads(c, n + 1) = Heads(c, n)
    <3>1. \A z \in Headers(c, {"peer"}) : z \in Nat /\ z # n + 1
      BY <2>1, <1>1 DEF Headers
    <3> QED BY <3>1 DEF Heads
  <2>3. t.peers \o t.current = all
    BY <1>4, <1>10, <1>8
  <2>4. \A h \in Heads(c, n + 1) : ~ Within(c, h, n + 1)
    <3>1. \A h \in Heads(c, n) : h \in Nat /\ h <= n
      BY <1>1 DEF Heads, Headers
    <3> QED BY <2>1, <2>2, <3>1 DEF Within
  <2>5. t.first = FALSE /\ t.current = <<>>
    BY <1>4, <1>8
  <2>6. \A i \in Heads(c, n + 1) : all[Cardinality(Heads(c, i))] = WrittenUpTo(c, i, n + 1)
    BY <1>6, <2>2
  <2>7. t.first <=> n + 1 \in Headers(c, {"peer"})
    BY <2>1, <2>5
  <2>8. (t.current # <<>>) = (\E h \in Heads(c, n + 1) : Within(c, h, n + 1))
    BY <2>4, <2>5
  <2>9. Len(t.peers \o t.current) = Cardinality(Heads(c, n + 1))
    BY <1>3, <2>2, <2>3
  <2>10. \A i \in Heads(c, n + 1) : (t.peers \o t.current)[Cardinality(Heads(c, i))] = WrittenUpTo(c, i, n + 1)
    BY <2>3, <2>6
  <2>11. ReadUpTo(c, t, n + 1)
    BY <1>2, <2>7, <2>8, <2>9, <2>10 DEF ReadUpTo
  <2> QED BY <2>11 DEF t
<1> QED BY <1>5, <1>7, <1>8

LEMMA OtherRead ==
    ASSUME NEW c \in Seq(Lines), NEW n \in Nat, n + 1 <= Len(c), NEW s, ReadUpTo(c, s, n),
           c[n + 1].kind # "header"
    PROVE  ReadUpTo(c, ReadLine(s, c[n + 1]), n + 1)
<1> DEFINE l == c[n + 1]
           t == ReadLine(s, l)
           all == s.peers \o s.current
<1>1. DOMAIN c = 1..Len(c) /\ Len(c) \in Nat /\ n + 1 \in DOMAIN c /\ l \in Lines
  OBVIOUS
<1>2. s \in Reader /\ t \in Reader /\ s.peers \in Seq(Parsed)
  BY <1>1, ReaderTypes, ReaderParts DEF ReadUpTo
<1>3. \A z \in Headers(c, {"peer", "interface"}) : z \in Nat /\ z # n + 1
  BY <1>1 DEF Headers
<1>4. Headers(c, {"peer"}) \subseteq Headers(c, {"peer", "interface"})
  BY DEF Headers
<1>5. n + 1 \notin Headers(c, {"peer"}) /\ Heads(c, n + 1) = Heads(c, n)
  BY <1>3, <1>4 DEF Heads
<1>6. \A h : Within(c, h, n + 1) <=> Within(c, h, n)
  <2>1. \A z \in Headers(c, {"peer", "interface"}) : z > n + 1 <=> z > n
    BY <1>3
  <2> QED BY <1>5, <2>1 DEF Within
<1>7. Len(all) = Cardinality(Heads(c, n)) /\ (s.first <=> n \in Headers(c, {"peer"}))
  BY DEF ReadUpTo
<1>8. (s.current # <<>>) = (\E h \in Heads(c, n) : Within(c, h, n))
  BY DEF ReadUpTo
<1>9. \A i \in Heads(c, n) : all[Cardinality(Heads(c, i))] = WrittenUpTo(c, i, n)
  BY DEF ReadUpTo
<1> HIDE DEF t, all
<1>10. CASE s.current = <<>>
  <2>1. t = s
    BY <1>1, <1>2, <1>10, ReadOutside DEF t
  <2>2. n \notin Headers(c, {"peer"})
    <3>1. n \in Headers(c, {"peer"}) => Within(c, n, n) /\ n \in Heads(c, n)
      BY <1>3 DEF Within, Heads
    <3> QED BY <3>1, <1>8, <1>10
  <2>3. ASSUME NEW i \in Heads(c, n) PROVE WrittenUpTo(c, i, n + 1) = WrittenUpTo(c, i, n)
    <3>1. ~ Within(c, i, n)
      BY <1>8, <1>10
    <3>2. PICK z \in Headers(c, {"peer", "interface"}) : ~ (z <= i \/ z > n)
      BY <3>1 DEF Within
    <3>3. i \in Nat
      BY <1>3, <1>4 DEF Heads
    <3>4. i < z /\ z <= n
      BY <3>2, <3>3, <1>3
    <3> QED BY <3>4, ElsewhereRead
  <2>4. t.first <=> n + 1 \in Headers(c, {"peer"})
    BY <2>1, <2>2, <1>5, <1>7
  <2>5. (t.current # <<>>) = (\E h \in Heads(c, n + 1) : Within(c, h, n + 1))
    BY <2>1, <1>5, <1>6, <1>8
  <2>6. Len(t.peers \o t.current) = Cardinality(Heads(c, n + 1))
    BY <2>1, <1>5, <1>7 DEF all
  <2>7. \A i \in Heads(c, n + 1) : (t.peers \o t.current)[Cardinality(Heads(c, i))] = WrittenUpTo(c, i, n + 1)
    BY <2>1, <2>3, <1>5, <1>9 DEF all
  <2>8. ReadUpTo(c, t, n + 1)
    BY <1>2, <2>4, <2>5, <2>6, <2>7 DEF ReadUpTo
  <2> QED BY <2>8 DEF t
<1>11. CASE s.current # <<>>
  <2>1. PICK p \in Parsed : s.current = <<p>>
    BY <1>2, <1>11 DEF Reader
  <2>2. PICK h \in Heads(c, n) : Within(c, h, n)
    BY <1>8, <1>11
  <2>3. t = [peers |-> s.peers, current |-> <<Reads(p, l, s.first)>>, first |-> FALSE]
    BY <1>1, <1>2, <2>1, ReadInside DEF t
  <2>4. Reads(p, l, s.first) \in Parsed
    BY <1>1, ReadsTypes
  <2>5. all = s.peers \o <<p>>
    BY <2>1 DEF all
  <2>6. t.peers \o t.current = s.peers \o <<Reads(p, l, s.first)>>
    BY <2>3
  <2>7. /\ Len(all) = Len(s.peers) + 1 /\ Len(s.peers) \in Nat
        /\ all[Len(s.peers) + 1] = p
        /\ \A k \in 1..Len(s.peers) : all[k] = s.peers[k]
    BY <1>2, <2>1, <2>5, OneMore
  <2>8. /\ Len(t.peers \o t.current) = Len(s.peers) + 1
        /\ (t.peers \o t.current)[Len(s.peers) + 1] = Reads(p, l, s.first)
        /\ \A k \in 1..Len(s.peers) : (t.peers \o t.current)[k] = s.peers[k]
    BY <1>2, <2>4, <2>6, OneMore
  <2>9. /\ Heads(c, h) = Heads(c, n)
        /\ \A i \in Heads(c, n) : i # h => i < h
    BY <2>2, CurrentIsLast
  <2>10. p = WrittenUpTo(c, h, n)
    BY <1>7, <1>9, <2>7, <2>9
  <2>11. Reads(p, l, s.first) = WrittenUpTo(c, h, n + 1)
    BY <1>7, <2>2, <2>10, LineRead
  <2>12. ASSUME NEW i \in Heads(c, n)
         PROVE  (t.peers \o t.current)[Cardinality(Heads(c, i))] = WrittenUpTo(c, i, n + 1)
    <3>1. CASE i = h
      BY <3>1, <2>7, <2>8, <2>9, <2>11, <1>7
    <3>2. CASE i # h
      <4>1. i < h /\ i \in Nat /\ h \in Nat /\ h <= n
        BY <2>9, <3>2, <1>3, <1>4 DEF Heads
      <4>2. Cardinality(Heads(c, i)) \in 1..Len(s.peers)
        <5>1. /\ Cardinality(Heads(c, i)) \in 1..Cardinality(Heads(c, n))
              /\ Cardinality(Heads(c, i)) < Cardinality(Heads(c, n))
          BY <4>1, HeadsInOrder
        <5> QED BY <5>1, <1>7, <2>7
      <4>3. WrittenUpTo(c, i, n + 1) = WrittenUpTo(c, i, n)
        <5>1. h \in Headers(c, {"peer", "interface"})
          BY <1>4 DEF Heads
        <5> QED BY <4>1, <5>1, ElsewhereRead
      <4> QED BY <4>2, <4>3, <2>7, <2>8, <1>9
    <3> QED BY <3>1, <3>2
  <2>13. t.first <=> n + 1 \in Headers(c, {"peer"})
    BY <2>3, <1>5
  <2>14. (t.current # <<>>) = (\E i \in Heads(c, n + 1) : Within(c, i, n + 1))
    <3>1. t.current # <<>>
      BY <2>3
    <3> QED BY <3>1, <2>2, <1>5, <1>6
  <2>15. Len(t.peers \o t.current) = Cardinality(Heads(c, n + 1))
    BY <1>5, <1>7, <2>7, <2>8
  <2>16. ReadUpTo(c, t, n + 1)
    BY <1>2, <1>5, <2>12, <2>13, <2>14, <2>15 DEF ReadUpTo
  <2> QED BY <2>16 DEF t
<1> QED BY <1>10, <1>11

(* What the parser has read at the end. *)
LEMMA ReadAll ==
    ASSUME NEW c \in Seq(Lines)
    PROVE  ReadUpTo(c, FoldLeft(ReadLine, Outside, c), Len(c))
<1>1. PICK s : /\ s[0] = Outside
               /\ \A n \in 1..Len(c) : s[n] = ReadLine(s[n - 1], c[n])
               /\ FoldLeft(ReadLine, Outside, c) = s[Len(c)]
  BY ReadingByLine
<1> DEFINE T == {n \in Nat : n <= Len(c) /\ ~ ReadUpTo(c, s[n], n)}
<1>2. ASSUME T # {} PROVE FALSE
  <2>1. PICK m \in T : \A k \in T : m <= k
    <3>1. T \in SUBSET Nat
      OBVIOUS
    <3> HIDE DEF T
    <3> QED BY <1>2, <3>1, LeastNat
  <2>2. CASE m = 0
    BY <1>1, <2>1, <2>2, StartRead
  <2>3. CASE m # 0
    <3>1. m \in 1..Len(c) /\ m - 1 \in Nat /\ (m - 1) + 1 = m /\ Len(c) \in Nat
      BY <2>3
    <3>2. ReadUpTo(c, s[m - 1], m - 1)
      BY <3>1, <2>1
    <3>3. s[m] = ReadLine(s[m - 1], c[m])
      BY <1>1, <3>1
    <3>4. ReadUpTo(c, ReadLine(s[m - 1], c[(m - 1) + 1]), (m - 1) + 1)
      <4>1. (m - 1) + 1 <= Len(c)
        BY <3>1
      <4> QED BY <3>1, <3>2, <4>1, HeaderRead, OtherRead
    <3>5. ReadUpTo(c, s[m], m)
      BY <3>1, <3>3, <3>4
    <3> QED BY <3>5, <2>1
  <2> QED BY <2>2, <2>3
<1>3. ReadUpTo(c, s[Len(c)], Len(c))
  BY <1>2
<1> QED BY <1>1, <1>3

(* The parser reads the blocks, one after the other, as they are written. *)
LEMMA ParserReads ==
    ASSUME NEW c \in Seq(Lines)
    PROVE  /\ fetch_wg_peers_from_config(c) \in Seq(Parsed)
           /\ Len(fetch_wg_peers_from_config(c)) = Cardinality(Headers(c, {"peer"}))
           /\ \A i \in Headers(c, {"peer"}) :
                 /\ Cardinality(Heads(c, i)) \in DOMAIN fetch_wg_peers_from_config(c)
                 /\ fetch_wg_peers_from_config(c)[Cardinality(Heads(c, i))] = Written(c, i)
<1> DEFINE n == Len(c)
           s == FoldLeft(ReadLine, Outside, c)
<1>1. n \in Nat /\ DOMAIN c = 1..n
  OBVIOUS
<1>2. ReadUpTo(c, s, n)
  BY ReadAll
<1>3. fetch_wg_peers_from_config(c) = s.peers \o s.current
  BY DEF fetch_wg_peers_from_config
<1>4. Heads(c, n) = Headers(c, {"peer"})
  BY <1>1 DEF Heads, Headers
<1>5. ASSUME NEW L \in SUBSET DOMAIN c PROVE UpTo(L, n) = L
  BY <1>1 DEF UpTo
<1> HIDE DEF n, s
<1>6. \A i : WrittenUpTo(c, i, n) = Written(c, i)
  <2>1. \A i, kinds : LinesOf(c, i, kinds) \in SUBSET DOMAIN c
    BY DEF LinesOf
  <2>2. \A i : Hints(c, i) \in SUBSET DOMAIN c
    BY DEF Hints, LinesOf
  <2>3. \A i : UpTo(Hints(c, i), n) = Hints(c, i)
    BY <1>5, <2>2
  <2>4. \A i, kinds : UpTo(LinesOf(c, i, kinds), n) = LinesOf(c, i, kinds)
    BY <1>5, <2>1
  <2> QED BY <2>3, <2>4 DEF WrittenUpTo, Written, Hints
<1>7. s.peers \o s.current \in Seq(Parsed)
  BY <1>2, ReaderParts, TwoParts DEF ReadUpTo
<1>8. Len(s.peers \o s.current) = Cardinality(Heads(c, n))
  BY <1>2 DEF ReadUpTo
<1>9. ASSUME NEW i \in Headers(c, {"peer"})
      PROVE  /\ Cardinality(Heads(c, i)) \in DOMAIN (s.peers \o s.current)
             /\ (s.peers \o s.current)[Cardinality(Heads(c, i))] = Written(c, i)
  <2>1. Cardinality(Heads(c, i)) \in 1..Len(s.peers \o s.current)
    BY <1>1, <1>4, <1>8, HeadsInOrder
  <2>2. DOMAIN (s.peers \o s.current) = 1..Len(s.peers \o s.current)
    BY <1>7
  <2> QED BY <1>2, <1>4, <1>6, <2>1, <2>2 DEF ReadUpTo
<1> QED BY <1>3, <1>4, <1>7, <1>8, <1>9

-----------------------------------------------------------------------------
(* The entries of AllowedIPs that the app writes *)

LEMMA SetToSeqIs ==
    ASSUME NEW S, IsFiniteSet(S)
    PROVE  /\ SetToSeq(S) \in Seq(S)
           /\ \A x \in S : \E i \in DOMAIN SetToSeq(S) : SetToSeq(S)[i] = x
<1> DEFINE n == Cardinality(S)
           f == SetToSeq(S)
<1>1. n \in Nat /\ ExistsBijection(1..n, S)
  BY FS_CardinalityType
<1>2. \E g \in [1..n -> S] : IsInjective(g)
  BY <1>1 DEF ExistsBijection, Bijection, Injection
<1>3. f \in [1..n -> S] /\ IsInjective(f)
  BY <1>2 DEF SetToSeq
<1> HIDE DEF f, n
<1>4. IsFiniteSet(1..n) /\ Cardinality(1..n) = n
  BY <1>1, FS_Interval
<1>5. f \in Injection(1..n, S)
  BY <1>3 DEF Injection
<1>6. f \in Surjection(1..n, S)
  BY <1>4, <1>5, FS_Injection DEF n
<1>7. \A x \in S : \E i \in 1..n : f[i] = x
  BY <1>6 DEF Surjection
<1>8. f \in Seq(S) /\ DOMAIN f = 1..n
  BY <1>1, <1>3
<1> QED BY <1>7, <1>8 DEF f

LEMMA EntriesAre ==
    ASSUME NEW a \in Addrs, NEW S \in SUBSET Nets
    PROVE  /\ Entries(a, S) \in Seq(Entry) /\ Entries(a, S) # <<>> /\ Entries(a, S)[1].host = a
           /\ {Entries(a, S)[i].net : i \in DOMAIN Entries(a, S)} = {a} \cup S
<1> DEFINE N == {[host |-> NoAddr, net |-> n] : n \in S}
           f == [n \in S |-> [host |-> NoAddr, net |-> n]]
           own == [host |-> a, net |-> a]
           q == SetToSeq(N)
           e == <<own>> \o q
<1>1. IsFiniteSet(N)
  <2>1. IsFiniteSet(S)
    BY ConfAssumption, FS_Subset
  <2>2. f \in Surjection(S, N)
    BY DEF Surjection
  <2> QED BY <2>1, <2>2, FS_Surjection
<1>2. q \in Seq(N) /\ \A x \in N : \E i \in DOMAIN q : q[i] = x
  BY <1>1, SetToSeqIs
<1>3. own \in Entry /\ N \subseteq Entry
  BY DEF Entry
<1> HIDE DEF q
<1>4. q \in Seq(Entry)
  <2> HIDE DEF N
  <2>1. Len(q) \in Nat /\ q \in [1..Len(q) -> N]
    BY <1>2
  <2>2. q \in [1..Len(q) -> Entry]
    BY <2>1, <1>3
  <2> QED BY <2>1, <2>2
<1>5. e \in Seq(Entry) /\ Len(e) = Len(q) + 1 /\ Len(q) \in Nat /\ e[1] = own
      /\ \A i \in 1..Len(q) : e[i + 1] = q[i]
  <2> HIDE DEF own
  <2> QED BY <1>3, <1>4
<1>6. DOMAIN e = 1..(Len(q) + 1) /\ DOMAIN q = 1..Len(q)
  BY <1>4, <1>5
<1>7. ASSUME NEW i \in DOMAIN e PROVE e[i].net \in {a} \cup S
  <2>1. CASE i = 1
    BY <2>1, <1>5
  <2>2. CASE i # 1
    <3>1. i - 1 \in 1..Len(q) /\ (i - 1) + 1 = i
      BY <1>5, <1>6, <2>2
    <3>2. e[i] = q[i - 1] /\ q[i - 1] \in N
      BY <1>2, <1>5, <3>1
    <3>3. PICK n \in S : q[i - 1] = [host |-> NoAddr, net |-> n]
      BY <3>2
    <3> QED BY <3>2, <3>3
  <2> QED BY <2>1, <2>2
<1>8. ASSUME NEW n \in {a} \cup S PROVE \E i \in DOMAIN e : e[i].net = n
  <2>1. CASE n = a
    BY <2>1, <1>5, <1>6
  <2>2. CASE n \in S
    <3>1. PICK i \in DOMAIN q : q[i] = [host |-> NoAddr, net |-> n]
      BY <1>2, <2>2
    <3>2. i + 1 \in DOMAIN e /\ e[i + 1] = q[i]
      BY <1>5, <1>6, <3>1
    <3> QED BY <3>1, <3>2
  <2> QED BY <2>1, <2>2
<1>9. e = Entries(a, S)
  BY DEF Entries, q
<1>10. {e[i].net : i \in DOMAIN e} = {a} \cup S
  BY <1>7, <1>8
<1>11. e # <<>> /\ e[1].host = a
  <2>1. e # <<>>
    BY <1>5
  <2> QED BY <2>1, <1>5
<1> QED BY <1>5, <1>9, <1>10, <1>11

-----------------------------------------------------------------------------
(* Steps of the specification *)

LEMMA ReplacedIs ==
    ASSUME NEW c \in Seq(Lines), NEW k \in Keys, NEW a \in Addrs, NEW S \in SUBSET Nets
    PROVE  /\ Replaced(c, k, a, S) \in Seq(Lines)
           /\ DOMAIN Replaced(c, k, a, S) = DOMAIN c /\ Len(Replaced(c, k, a, S)) = Len(c)
           /\ \A i \in DOMAIN c :
                 Replaced(c, k, a, S)[i] =
                   IF c[i].kind = "allowed" /\ c[i].exact /\ InPeer(c, k, i)
                   THEN Line("allowed", Entries(a, S)) ELSE c[i]
<1> DEFINE r == Replaced(c, k, a, S)
<1>1. DOMAIN c = 1..Len(c) /\ Len(c) \in Nat
  OBVIOUS
<1>2. r = [i \in 1..Len(c) |-> IF c[i].kind = "allowed" /\ c[i].exact /\ InPeer(c, k, i)
                               THEN Line("allowed", Entries(a, S)) ELSE c[i]]
  BY <1>1 DEF Replaced
<1>3. Line("allowed", Entries(a, S)) \in Lines
  BY EntriesAre DEF Line, Lines
<1>4. \A i \in 1..Len(c) : r[i] \in Lines
  BY <1>1, <1>2, <1>3
<1>5. r \in [1..Len(c) -> Lines]
  BY <1>2, <1>4
<1>6. r \in Seq(Lines) /\ DOMAIN r = 1..Len(c) /\ Len(r) = Len(c)
  BY <1>1, <1>5
<1> QED BY <1>1, <1>2, <1>6

Block4(k, a, S) ==
    <<Line("header", "peer"), Line("comment", NoText), Line("key", k), Line("allowed", Entries(a, S))>>

LEMMA AppendedIs ==
    ASSUME NEW c \in Seq(Lines), NEW k \in Keys, NEW a \in Addrs, NEW S \in SUBSET Nets
    PROVE  LET r == c \o Block4(k, a, S)
           IN  /\ r \in Seq(Lines) /\ Len(r) = Len(c) + 4
               /\ \A i \in DOMAIN c : r[i] = c[i]
               /\ r[Len(c) + 1] = Line("header", "peer") /\ r[Len(c) + 2] = Line("comment", NoText)
               /\ r[Len(c) + 3] = Line("key", k) /\ r[Len(c) + 4] = Line("allowed", Entries(a, S))
<1> DEFINE b == Block4(k, a, S)
<1>1. /\ Line("header", "peer") \in Lines /\ Line("comment", NoText) \in Lines
      /\ Line("key", k) \in Lines /\ Line("allowed", Entries(a, S)) \in Lines
  BY EntriesAre DEF Line, Lines
<1>2. /\ b \in Seq(Lines) /\ Len(b) = 4
      /\ b[1] = Line("header", "peer") /\ b[2] = Line("comment", NoText)
      /\ b[3] = Line("key", k) /\ b[4] = Line("allowed", Entries(a, S))
  BY <1>1 DEF Block4
<1> HIDE DEF b
<1>3. /\ c \o b \in Seq(Lines) /\ Len(c \o b) = Len(c) + Len(b)
      /\ \A i \in DOMAIN c : (c \o b)[i] = c[i]
      /\ \A i \in DOMAIN b : (c \o b)[Len(c) + i] = b[i]
  <2>1. b \in Seq(Lines) /\ c \in Seq(Lines)
    BY <1>2
  <2>2. ASSUME NEW u \in Seq(Lines), NEW v \in Seq(Lines)
        PROVE  /\ u \o v \in Seq(Lines) /\ Len(u \o v) = Len(u) + Len(v)
               /\ \A i \in DOMAIN u : (u \o v)[i] = u[i]
               /\ \A i \in DOMAIN v : (u \o v)[Len(u) + i] = v[i]
    BY TwoParts
  <2> QED BY <2>1, <2>2
<1>4. DOMAIN b = 1..4 /\ Len(c) \in Nat
  BY <1>2
<1> QED BY <1>2, <1>3, <1>4 DEF b

LEMMA RegisteredIs ==
    ASSUME NEW c, NEW k, NEW a, NEW S
    PROVE  Registered(c, k, a, S) =
             IF \E i \in DOMAIN c : Mentions(c[i], k) THEN c ELSE c \o Block4(k, a, S)
BY DEF Registered, Block4

(* Every config that comes about is a sequence of lines. *)
LEMMA TypeStep == TypeOK /\ [Next]_text => TypeOK'
<1> SUFFICES ASSUME TypeOK, [Next]_text PROVE TypeOK'
  OBVIOUS
<1>1. ASSUME NEW l \in HandLines, Write(l) PROVE TypeOK'
  BY <1>1, ConfAssumption DEF TypeOK, Write
<1>2. ASSUME NEW k \in Keys, NEW a \in Addrs, NEW S \in SUBSET Nets, register_peer_on_target(k, a, S)
      PROVE  TypeOK'
  BY <1>2, AppendedIs, RegisteredIs DEF TypeOK, register_peer_on_target
<1>3. ASSUME NEW k \in Keys, NEW a \in Addrs, NEW S \in SUBSET Nets, set_peer_allowed_ips(k, a, S)
      PROVE  TypeOK'
  BY <1>3, ReplacedIs DEF TypeOK, set_peer_allowed_ips
<1>4. CASE UNCHANGED text
  BY <1>4 DEF TypeOK
<1> QED BY <1>1, <1>2, <1>3, <1>4 DEF Next

THEOREM ConfTypes == Spec => []TypeOK
<1>1. Init => TypeOK
  BY DEF Init, TypeOK
<1> QED BY <1>1, TypeStep, PTL DEF Spec

LEMMA BlocksRead ==
    ASSUME TypeOK
    PROVE  ParserReadsBlocks
<1> DEFINE peers == fetch_wg_peers_from_config(text)
           blocks == Blocks(text)
           heads == Headers(text, {"peer"})
<1>1. text \in Seq(Lines)
  BY DEF TypeOK
<1>2. DOMAIN blocks = heads /\ \A i \in heads : blocks[i] = BlockOf(text, i)
  BY DEF Blocks
<1>3. Len(peers) = Cardinality(heads)
  BY <1>1, ParserReads
<1>4. ASSUME NEW i \in heads
      PROVE  LET p == peers[Cardinality({z \in heads : z <= i})]
             IN  /\ p = Written(text, i)
                 /\ OwnIp(p) = peer_own_ip(blocks[i])
                 /\ \A b \in BOOLEAN : ManagedNetworks(p, b) = peer_managed_networks(blocks[i], b)
  <2> DEFINE p == peers[Cardinality({z \in heads : z <= i})]
  <2>1. p = peers[Cardinality(Heads(text, i))]
    BY DEF Heads
  <2>2. p = Written(text, i) /\ p \in Parsed
    BY <1>1, <2>1, ParserReads
  <2> HIDE DEF p, peers, blocks
  <2>3. p.allowed \in Seq(Entry)
    BY <2>2 DEF Parsed
  <2> DEFINE host == IF p.allowed = <<>> THEN NoAddr ELSE p.allowed[1].host
             nets == {p.allowed[j].net : j \in DOMAIN p.allowed}
  <2>4. /\ blocks[i].host = host /\ blocks[i].hint = p.hint /\ blocks[i].nets = nets \ {host}
    BY <1>2, <2>2 DEF BlockOf
  <2>5. OwnIp(p) = peer_own_ip(blocks[i])
    BY <2>4 DEF OwnIp, peer_own_ip
  <2>6. NoAddr \notin nets
    <3>1. \A j \in DOMAIN p.allowed : p.allowed[j] \in Entry
      BY <2>3
    <3>2. \A j \in DOMAIN p.allowed : p.allowed[j].net \in Addrs \cup Nets \cup {MeshNet}
      BY <3>1 DEF Entry
    <3>3. \A x \in nets : x \in Addrs \cup Nets \cup {MeshNet}
      BY <3>2
    <3> HIDE DEF nets
    <3> QED BY <3>3, ConfAssumption
  <2>7. nets \ {OwnIp(p)} = (nets \ {host}) \ {OwnIp(p)}
    <3>1. host = NoAddr \/ host = OwnIp(p)
      BY DEF OwnIp
    <3> HIDE DEF nets, host
    <3> QED BY <3>1, <2>6
  <2>8. ASSUME NEW b \in BOOLEAN PROVE ManagedNetworks(p, b) = peer_managed_networks(blocks[i], b)
    <3> DEFINE mesh == IF b THEN {MeshNet} \cup Addrs ELSE {}
    <3>1. ManagedNetworks(p, b) = nets \ ({OwnIp(p)} \cup mesh)
      BY DEF ManagedNetworks
    <3>2. peer_managed_networks(blocks[i], b) = (nets \ {host}) \ ({OwnIp(p)} \cup mesh)
      BY <2>4, <2>5 DEF peer_managed_networks
    <3> HIDE DEF nets, host, mesh
    <3> QED BY <3>1, <3>2, <2>7
  <2> QED BY <2>2, <2>5, <2>8 DEF p
<1> QED BY <1>2, <1>3, <1>4 DEF ParserReadsBlocks

(* In every config, whoever wrote it and in whatever spelling, the parser  *)
(* finds every block, and makes of it what PeerRegistry makes of it.       *)
THEOREM ParserAlwaysReadsBlocks == Spec => []ParserReadsBlocks
BY ConfTypes, BlocksRead, PTL

-----------------------------------------------------------------------------
(* What the scripts do to the blocks *)

(* r continues c. *)
Continues(r, c) == Len(c) <= Len(r) /\ \A i \in DOMAIN c : r[i] = c[i]

LEMMA ContinuedIs ==
    ASSUME NEW c \in Seq(Lines), NEW r \in Seq(Lines), Continues(r, c), NEW i \in DOMAIN c
    PROVE  /\ i \in DOMAIN r
           /\ \A which : i \in Headers(r, which) <=> i \in Headers(c, which)
           /\ \A h, kinds : i \in LinesOf(r, h, kinds) <=> i \in LinesOf(c, h, kinds)
<1>1. /\ DOMAIN c = 1..Len(c) /\ DOMAIN r = 1..Len(r) /\ Len(c) \in Nat /\ Len(r) \in Nat
      /\ DOMAIN c \subseteq DOMAIN r
  BY DEF Continues
<1>2. \A j \in DOMAIN c : r[j] = c[j]
  BY DEF Continues
<1>3. \A which : \A j \in DOMAIN c : j \in Headers(r, which) <=> j \in Headers(c, which)
  BY <1>1, <1>2 DEF Headers
<1>4. ASSUME NEW h
      PROVE  (\A z \in Headers(r, {"peer", "interface"}) : z <= h \/ z > i)
               <=> (\A z \in Headers(c, {"peer", "interface"}) : z <= h \/ z > i)
  <2>1. \A z \in Headers(r, {"peer", "interface"}) : z \in DOMAIN r
    BY DEF Headers
  <2>2. \A z \in Headers(c, {"peer", "interface"}) : z \in DOMAIN c
    BY DEF Headers
  <2>3. \A z \in Headers(r, {"peer", "interface"}) : z \notin DOMAIN c => z > i
    BY <1>1, <2>1
  <2> QED BY <1>3, <2>2, <2>3
<1> QED BY <1>1, <1>2, <1>3, <1>4 DEF LinesOf

(* r has other AllowedIPs than c, and is the same otherwise. *)
Retold(r, c) ==
    /\ DOMAIN r = DOMAIN c
    /\ \A i \in DOMAIN c :
          /\ r[i].kind = c[i].kind /\ r[i].exact = c[i].exact
          /\ c[i].kind # "allowed" => r[i] = c[i]

LEMMA RetoldIs ==
    ASSUME NEW c \in Seq(Lines), NEW r \in Seq(Lines), Retold(r, c)
    PROVE  /\ \A which : Headers(r, which) = Headers(c, which)
           /\ \A h, kinds : LinesOf(r, h, kinds) = LinesOf(c, h, kinds)
<1>1. \A which : Headers(r, which) = Headers(c, which)
  <2>1. ASSUME NEW which, NEW i \in DOMAIN c PROVE i \in Headers(r, which) <=> i \in Headers(c, which)
    BY DEF Retold, Headers
  <2>2. DOMAIN r = DOMAIN c
    BY DEF Retold
  <2> QED BY <2>1, <2>2 DEF Headers
<1>2. \A h, kinds : LinesOf(r, h, kinds) = LinesOf(c, h, kinds)
  BY <1>1 DEF Retold, LinesOf
<1> QED BY <1>1, <1>2

LEMMA ReplacedRetold ==
    ASSUME NEW c \in Seq(Lines), NEW k \in Keys, NEW a \in Addrs, NEW S \in SUBSET Nets
    PROVE  Retold(Replaced(c, k, a, S), c)
<1>1. ASSUME NEW i \in DOMAIN c
      PROVE  /\ Replaced(c, k, a, S)[i].kind = c[i].kind /\ Replaced(c, k, a, S)[i].exact = c[i].exact
             /\ c[i].kind # "allowed" => Replaced(c, k, a, S)[i] = c[i]
  <2>1. CASE c[i].kind = "allowed" /\ c[i].exact /\ InPeer(c, k, i)
    <3>1. Replaced(c, k, a, S)[i] = Line("allowed", Entries(a, S))
      BY <2>1, ReplacedIs
    <3>2. c[i].exact = TRUE
      BY <2>1, LineIs, c[i] \in Lines
    <3> QED BY <2>1, <3>1, <3>2 DEF Line
  <2>2. CASE ~ (c[i].kind = "allowed" /\ c[i].exact /\ InPeer(c, k, i))
    BY <2>2, ReplacedIs
  <2> QED BY <2>1, <2>2
<1> QED BY <1>1, ReplacedIs DEF Retold

KeyInBlock(c, i) ==
    /\ \E h \in Headers(c, {"peer"}) : i \in LinesOf(c, h, {"key"})
    /\ \A j \in DOMAIN c : c[j].kind = "key" /\ j < i =>
          \E z \in Headers(c, {"peer", "interface"}) : j < z /\ z < i

InStyle(c, i) ==
    /\ i \in Headers(c, {"peer"}) => c[i].exact
    /\ c[i].kind = "comment" => c[i].value \notin Keys

(* Lines that were there are as they were. *)
LEMMA OldLines ==
    ASSUME TextInv, NEW r \in Seq(Lines), Continues(r, text), NEW i \in DOMAIN text
    PROVE  /\ r[i].kind = "key" => KeyInBlock(r, i)
           /\ InStyle(r, i)
<1>1. /\ text \in Seq(Lines) /\ DOMAIN text = 1..Len(text) /\ Len(text) \in Nat
      /\ DOMAIN r = 1..Len(r) /\ Len(r) \in Nat
      /\ \A j \in DOMAIN text : r[j] = text[j]
  BY DEF TextInv, TypeOK, Continues
<1>2. ASSUME r[i].kind = "key" PROVE KeyInBlock(r, i)
  <2>1. text[i].kind = "key"
    BY <1>1, <1>2
  <2>2. PICK h \in Headers(text, {"peer"}) : i \in LinesOf(text, h, {"key"})
    BY <2>1 DEF TextInv, KeysInv
  <2>3. h \in Headers(r, {"peer"}) /\ i \in LinesOf(r, h, {"key"})
    <3>1. h \in DOMAIN text
      BY DEF Headers
    <3> QED BY <1>1, <2>2, <3>1, ContinuedIs
  <2>4. ASSUME NEW j \in DOMAIN r, r[j].kind = "key", j < i
        PROVE  \E z \in Headers(r, {"peer", "interface"}) : j < z /\ z < i
    <3>1. j \in DOMAIN text /\ text[j].kind = "key"
      BY <1>1, <2>4
    <3>2. PICK z \in Headers(text, {"peer", "interface"}) : j < z /\ z < i
      BY <2>1, <2>4, <3>1 DEF TextInv, KeysInv
    <3>3. z \in DOMAIN text
      BY DEF Headers
    <3>4. z \in Headers(r, {"peer", "interface"})
      BY <1>1, <3>3, ContinuedIs
    <3> QED BY <3>2, <3>4
  <2> QED BY <2>3, <2>4 DEF KeyInBlock
<1>3. InStyle(r, i)
  <2>1. r[i] = text[i] /\ (i \in Headers(r, {"peer"}) <=> i \in Headers(text, {"peer"}))
    BY <1>1, ContinuedIs
  <2> QED BY <2>1 DEF TextInv, StyleInv, InStyle
<1> QED BY <1>2, <1>3

LEMMA WriteStep ==
    ASSUME AppStyle, TextInv, NEW l \in HandLines, Write(l)
    PROVE  KeysInv' /\ StyleInv'
<1> DEFINE n == Len(text)
           heads == Headers(text, {"peer", "interface"})
<1>1. /\ text \in Seq(Lines) /\ l \in Lines /\ text' = Append(text, l) /\ text' \in Seq(Lines)
      /\ n \in Nat /\ DOMAIN text = 1..n
  BY ConfAssumption DEF TextInv, TypeOK, Write
<1>2. /\ DOMAIN text' = 1..(n + 1) /\ text'[n + 1] = l /\ Continues(text', text)
      /\ \A i \in DOMAIN text : text'[i] = text[i]
  BY <1>1 DEF Continues
<1>3. ASSUME l.kind = "key" PROVE KeyInBlock(text', n + 1)
  <2>1. /\ heads # {} /\ text[Max(heads)].value = "peer"
        /\ \A j \in DOMAIN text : text[j].kind = "key" => j < Max(heads)
    BY <1>3 DEF Write
  <2>2. heads \in SUBSET (0..n)
    BY <1>1 DEF Headers
  <2>3. PICK m \in heads : m = Max(heads) /\ \A x \in heads : x <= m
    <3> HIDE DEF heads
    <3> QED BY <1>1, <2>1, <2>2, MaxIs
  <2>4. m \in DOMAIN text /\ m \in Headers(text, {"peer"}) /\ m \in Headers(text, {"peer", "interface"})
    BY <2>1, <2>3 DEF Headers
  <2>5. m \in Headers(text', {"peer"}) /\ m \in Headers(text', {"peer", "interface"})
    BY <1>1, <1>2, <2>4, ContinuedIs
  <2>6. ASSUME NEW z \in Headers(text', {"peer", "interface"}) PROVE z <= m
    <3>1. z \in DOMAIN text' /\ text'[z].kind = "header"
      BY DEF Headers
    <3>2. z \in DOMAIN text
      BY <3>1, <1>1, <1>2, <1>3
    <3>3. z \in heads
      BY <3>2, <1>1, <1>2, ContinuedIs
    <3> QED BY <2>3, <3>3
  <2>7. n + 1 \in LinesOf(text', m, {"key"})
    BY <1>1, <1>2, <1>3, <2>4, <2>6 DEF LinesOf
  <2>8. ASSUME NEW j \in DOMAIN text', text'[j].kind = "key", j < n + 1
        PROVE  j < m /\ m < n + 1
    <3>1. j \in DOMAIN text
      BY <1>1, <1>2, <2>8
    <3> QED BY <1>1, <1>2, <2>1, <2>3, <2>4, <2>8, <3>1
  <2> QED BY <2>5, <2>7, <2>8 DEF KeyInBlock
<1>4. InStyle(text', n + 1)
  BY <1>2 DEF AppStyle, Headers, InStyle
<1>5. ASSUME NEW i \in DOMAIN text'
      PROVE  (text'[i].kind = "key" => KeyInBlock(text', i)) /\ InStyle(text', i)
  <2>1. CASE i \in DOMAIN text
    BY <1>1, <1>2, <2>1, OldLines
  <2>2. CASE i \notin DOMAIN text
    <3>1. i = n + 1
      BY <1>1, <1>2, <2>2
    <3> QED BY <1>2, <1>3, <1>4, <3>1
  <2> QED BY <2>1, <2>2
<1> QED BY <1>5 DEF KeysInv, StyleInv, KeyInBlock, InStyle

LEMMA RegisterStep ==
    ASSUME TextInv, NEW k \in Keys, NEW a \in Addrs, NEW S \in SUBSET Nets,
           register_peer_on_target(k, a, S)
    PROVE  KeysInv' /\ StyleInv'
<1> DEFINE n == Len(text)
<1>1. text \in Seq(Lines) /\ n \in Nat /\ DOMAIN text = 1..n
  BY DEF TextInv, TypeOK
<1>2. CASE text' = text
  BY <1>2 DEF TextInv, KeysInv, StyleInv
<1>3. CASE text' = text \o Block4(k, a, S)
  <2>1. /\ text' \in Seq(Lines) /\ DOMAIN text' = 1..(n + 4)
        /\ text'[n + 1] = Line("header", "peer") /\ text'[n + 2] = Line("comment", NoText)
        /\ text'[n + 3] = Line("key", k) /\ text'[n + 4] = Line("allowed", Entries(a, S))
        /\ \A i \in DOMAIN text : text'[i] = text[i]
    <3>1. /\ text' \in Seq(Lines) /\ Len(text') = n + 4
      BY <1>1, <1>3, AppendedIs
    <3>2. DOMAIN text' = 1..(n + 4)
      BY <3>1
    <3> QED BY <1>1, <1>3, <3>1, <3>2, AppendedIs
  <2>2. Continues(text', text)
    <3>1. Len(text') = n + 4
      BY <1>1, <1>3, AppendedIs
    <3> QED BY <1>1, <2>1, <3>1 DEF Continues
  <2>3. \A i \in DOMAIN text' : i \in DOMAIN text \/ i \in {n + 1, n + 2, n + 3, n + 4}
    BY <1>1, <2>1
  <2>4. KeyInBlock(text', n + 3)
    <3>1. n + 1 \in Headers(text', {"peer"}) /\ n + 1 \in Headers(text', {"peer", "interface"})
      BY <1>1, <2>1 DEF Headers, Line
    <3>2. \A z \in Headers(text', {"peer", "interface"}) : z \in 1..(n + 4) /\ z # n + 2 /\ z # n + 3
      BY <2>1 DEF Headers, Line
    <3>3. n + 3 \in LinesOf(text', n + 1, {"key"})
      BY <1>1, <2>1, <3>2 DEF LinesOf, Line
    <3>4. \A j \in DOMAIN text' : text'[j].kind = "key" /\ j < n + 3 => j < n + 1
      BY <1>1, <2>1 DEF Line
    <3> QED BY <1>1, <3>1, <3>3, <3>4 DEF KeyInBlock
  <2>5. ASSUME NEW i \in {n + 1, n + 2, n + 4} PROVE text'[i].kind # "key"
    BY <2>1, <2>5 DEF Line
  <2>6. ASSUME NEW i \in {n + 1, n + 2, n + 3, n + 4} PROVE InStyle(text', i)
    BY <2>1, <2>6, ConfAssumption DEF Line, InStyle, Headers
  <2>7. ASSUME NEW i \in DOMAIN text'
        PROVE  (text'[i].kind = "key" => KeyInBlock(text', i)) /\ InStyle(text', i)
    <3>1. CASE i \in DOMAIN text
      BY <2>1, <2>2, <3>1, OldLines
    <3>2. CASE i = n + 3
      BY <2>4, <2>6, <3>2
    <3>3. CASE i \in {n + 1, n + 2, n + 4}
      BY <2>5, <2>6, <3>3
    <3> QED BY <2>3, <3>1, <3>2, <3>3
  <2> QED BY <2>7 DEF KeysInv, StyleInv, KeyInBlock, InStyle
<1> QED BY <1>2, <1>3, RegisteredIs DEF register_peer_on_target

LEMMA RewriteStep ==
    ASSUME TextInv, NEW k \in Keys, NEW a \in Addrs, NEW S \in SUBSET Nets,
           set_peer_allowed_ips(k, a, S)
    PROVE  KeysInv' /\ StyleInv'
<1>1. text \in Seq(Lines) /\ text' = Replaced(text, k, a, S) /\ text' \in Seq(Lines) /\ Retold(text', text)
  BY ReplacedIs, ReplacedRetold DEF TextInv, TypeOK, set_peer_allowed_ips
<1>2. /\ \A which : Headers(text', which) = Headers(text, which)
      /\ \A h, kinds : LinesOf(text', h, kinds) = LinesOf(text, h, kinds)
  BY <1>1, RetoldIs
<1>3. /\ DOMAIN text' = DOMAIN text
      /\ \A i \in DOMAIN text :
            /\ text'[i].kind = text[i].kind /\ text'[i].exact = text[i].exact
            /\ text[i].kind = "comment" => text'[i].value = text[i].value
  BY <1>1 DEF Retold
<1>4. KeysInv'
  BY <1>2, <1>3 DEF TextInv, KeysInv
<1>5. StyleInv'
  BY <1>2, <1>3 DEF TextInv, StyleInv
<1> QED BY <1>4, <1>5

LEMMA TextStep ==
    ASSUME AppStyle
    PROVE  TextInv /\ [Next]_text => TextInv'
<1> SUFFICES ASSUME TextInv, [Next]_text PROVE KeysInv' /\ StyleInv'
  BY TypeStep DEF TextInv
<1>1. CASE UNCHANGED text
  BY <1>1 DEF TextInv, KeysInv, StyleInv
<1> QED BY <1>1, WriteStep, RegisterStep, RewriteStep DEF Next

(* If the administrator writes as the app does, a key is always that of    *)
(* one block, and the scripts that look for it in the text find that one.  *)
THEOREM InStyleText ==
    ASSUME AppStyle
    PROVE  Spec => []TextInv
<1>1. Init => TextInv
  BY DEF Init, TextInv, TypeOK, KeysInv, StyleInv, Headers
<1>2. TextInv /\ [Next]_text => TextInv'
  BY TextStep
<1> QED BY <1>1, <1>2, PTL DEF Spec

-----------------------------------------------------------------------------
(* What the two scripts do to the blocks *)

(* A block has one key line. *)
LEMMA OneKey ==
    ASSUME TextInv, NEW i \in Headers(text, {"peer"}), NEW q \in LinesOf(text, i, {"key"})
    PROVE  Max(LinesOf(text, i, {"key"})) = q
<1> DEFINE L == LinesOf(text, i, {"key"})
<1>1. text \in Seq(Lines) /\ DOMAIN text = 1..Len(text) /\ Len(text) \in Nat /\ i \in DOMAIN text
  BY DEF TextInv, TypeOK, Headers
<1>2. L \in SUBSET DOMAIN text /\ L \in SUBSET (0..Len(text))
  BY <1>1 DEF LinesOf
<1>3. ASSUME NEW x \in L, NEW y \in L, x < y PROVE FALSE
  <2>1. x \in DOMAIN text /\ y \in DOMAIN text /\ text[x].kind = "key" /\ text[y].kind = "key" /\ i < x
    BY <1>1 DEF LinesOf
  <2>2. PICK z \in Headers(text, {"peer", "interface"}) : x < z /\ z < y
    BY <1>3, <2>1 DEF TextInv, KeysInv
  <2>3. z <= i \/ z > y
    BY DEF LinesOf
  <2>4. z \in DOMAIN text
    BY DEF Headers
  <2> QED BY <1>1, <2>1, <2>2, <2>3, <2>4
<1>4. \A x \in L : x <= q
  <2>1. q \in L /\ \A x \in L : x \in Nat
    BY <1>1, <1>2
  <2>2. \A x, y \in L : ~ (x < y)
    BY <1>3
  <2> HIDE DEF L
  <2> QED BY <2>1, <2>2
<1> QED BY <1>1, <1>2, <1>4, MaxOf

(* When awk comes to AllowedIPs of a block, it is in the peer of that      *)
(* block if the key came before.                                           *)
LEMMA InPeerIs ==
    ASSUME TextInv, NEW k \in Keys, NEW i \in Headers(text, {"peer"}),
           NEW m \in LinesOf(text, i, {"allowed"})
    PROVE  InPeer(text, k, m) <=>
             \E q \in LinesOf(text, i, {"key"}) : q < m /\ text[q].value = k /\ text[q].exact
<1>1. /\ text \in Seq(Lines) /\ DOMAIN text = 1..Len(text) /\ Len(text) \in Nat
      /\ i \in DOMAIN text /\ text[i].kind = "header"
  BY DEF TextInv, TypeOK, Headers
<1>2. /\ m \in DOMAIN text /\ i < m /\ text[m].kind = "allowed"
      /\ \A z \in Headers(text, {"peer", "interface"}) : z <= i \/ z > m
  BY <1>1 DEF LinesOf
<1>3. Starts(text) = Headers(text, {"peer"})
  BY DEF Starts, TextInv, StyleInv, Headers
<1>4. \A z \in Starts(text) : z \in DOMAIN text /\ z \in Headers(text, {"peer", "interface"})
  BY <1>3 DEF Headers
<1>5. ASSUME NEW s \in Starts(text), s <= m, \A z \in Starts(text) : z <= m => z <= s
      PROVE  s = i
  <2>1. i <= s /\ s <= i
    BY <1>1, <1>2, <1>3, <1>4, <1>5
  <2> QED BY <1>1, <1>4, <2>1
<1>6. ASSUME NEW j \in i..m, Names(text[j], k)
      PROVE  j \in LinesOf(text, i, {"key"}) /\ j < m /\ text[j].value = k /\ text[j].exact
  <2>1. j \in DOMAIN text
    BY <1>1, <1>2
  <2>2. text[j].kind \in {"key", "comment"} /\ text[j].value = k /\ text[j].exact
    BY <1>6 DEF Names, Mentions
  <2>3. text[j].kind = "key"
    BY <2>1, <2>2 DEF TextInv, StyleInv
  <2>4. i < j /\ j < m
    BY <1>1, <1>2, <2>3
  <2>5. \A z \in Headers(text, {"peer", "interface"}) : z <= i \/ z > j
    <3>1. \A z \in Headers(text, {"peer", "interface"}) : z \in DOMAIN text
      BY DEF Headers
    <3> QED BY <1>1, <1>2, <2>4, <3>1
  <2>6. j \in LinesOf(text, i, {"key"})
    BY <2>1, <2>3, <2>4, <2>5 DEF LinesOf
  <2> QED BY <2>2, <2>4, <2>6
<1>7. ASSUME InPeer(text, k, m)
      PROVE  \E q \in LinesOf(text, i, {"key"}) : q < m /\ text[q].value = k /\ text[q].exact
  <2>1. PICK s \in Starts(text) :
          /\ s <= m /\ \A z \in Starts(text) : z <= m => z <= s
          /\ \E j \in s..m : Names(text[j], k)
    BY <1>7 DEF InPeer
  <2>2. s = i
    BY <1>5, <2>1
  <2> QED BY <1>6, <2>1, <2>2
<1>8. ASSUME NEW q \in LinesOf(text, i, {"key"}), q < m, text[q].value = k, text[q].exact
      PROVE  InPeer(text, k, m)
  <2>1. q \in DOMAIN text /\ i < q /\ text[q].kind = "key"
    BY <1>1 DEF LinesOf
  <2>2. q \in i..m /\ Names(text[q], k)
    BY <1>1, <1>2, <1>8, <2>1 DEF Names, Mentions
  <2>3. i \in Starts(text) /\ i <= m
    BY <1>1, <1>2, <1>3
  <2>4. \A z \in Starts(text) : z <= m => z <= i
    BY <1>1, <1>2, <1>4
  <2> QED BY <2>2, <2>3, <2>4 DEF InPeer
<1> QED BY <1>7, <1>8

(* Of a block, after its AllowedIPs have been replaced. *)
LEMMA BlockRewritten ==
    ASSUME TextInv, NEW k \in Keys, NEW a \in Addrs, NEW S \in SUBSET Nets,
           NEW i \in Headers(text, {"peer"})
    PROVE  /\ BlockOf(Replaced(text, k, a, S), i) =
                IF BlockOf(text, i).key = k /\ BlockOf(text, i).plain
                THEN [BlockOf(text, i) EXCEPT !.host = a, !.nets = S] ELSE BlockOf(text, i)
           /\ Written(text, i).key # k => Written(Replaced(text, k, a, S), i) = Written(text, i)
<1> DEFINE r == Replaced(text, k, a, S)
           keys == LinesOf(text, i, {"key"})
           allowed == LinesOf(text, i, {"allowed"})
           p == Written(text, i)
           o == Written(r, i)
<1>1. text \in Seq(Lines) /\ r \in Seq(Lines) /\ Retold(r, text)
  BY ReplacedIs, ReplacedRetold DEF TextInv, TypeOK
<1>2. DOMAIN text = 1..Len(text) /\ Len(text) \in Nat
  BY <1>1
<1>3. \A h, kinds : LinesOf(r, h, kinds) = LinesOf(text, h, kinds)
  BY <1>1, RetoldIs
<1>4. /\ \A j \in DOMAIN text : r[j].exact = text[j].exact
      /\ \A j \in DOMAIN text : text[j].kind # "allowed" => r[j] = text[j]
  BY <1>1 DEF Retold
<1>5. /\ keys \in SUBSET DOMAIN text /\ allowed \in SUBSET DOMAIN text
      /\ keys \in SUBSET (0..Len(text)) /\ allowed \in SUBSET (0..Len(text))
      /\ \A j \in keys : text[j].kind = "key"
      /\ \A j \in allowed : text[j].kind = "allowed"
  BY <1>2 DEF LinesOf
<1>6. ASSUME NEW L \in SUBSET DOMAIN text, L # {} PROVE Max(L) \in L
  <2>1. L \in SUBSET (0..Len(text))
    BY <1>2
  <2> QED BY <1>2, <1>6, <2>1, MaxIs
<1>7. o.key = p.key
  <2>1. CASE keys = {}
    BY <1>3, <2>1 DEF Written, LastOf
  <2>2. CASE keys # {}
    <3>1. Max(keys) \in keys
      BY <1>5, <1>6, <2>2
    <3>2. r[Max(keys)] = text[Max(keys)]
      BY <1>4, <1>5, <3>1
    <3> QED BY <1>3, <3>2 DEF Written, LastOf
  <2> QED BY <2>1, <2>2
<1>8. o.hint = p.hint
  <2> DEFINE L(c) == {j \in LinesOf(text, i, {"comment"}) : j > i + 1 /\ c[j].value \in Addrs}
  <2>1. \A j \in LinesOf(text, i, {"comment"}) : j \in DOMAIN text /\ r[j] = text[j]
    BY <1>4 DEF LinesOf
  <2>2. L(r) = L(text) /\ L(text) \in SUBSET DOMAIN text
    BY <2>1
  <2>3. ASSUME L(text) # {} PROVE r[Max(L(text))] = text[Max(L(text))]
    <3>1. Max(L(text)) \in L(text)
      <4> HIDE DEF L
      <4> QED BY <1>6, <2>2, <2>3
    <3> QED BY <2>1, <3>1
  <2>4. LastOf(r, L(r), NoAddr) = LastOf(text, L(text), NoAddr)
    <3> HIDE DEF L
    <3> QED BY <2>2, <2>3 DEF LastOf
  <2> QED BY <1>3, <2>4 DEF Written
<1>9. Plain(r, i) <=> Plain(text, i)
  <2>1. CASE keys = {} \/ allowed = {}
    BY <1>3, <2>1 DEF Plain
  <2>2. CASE keys # {} /\ allowed # {}
    <3>1. Max(keys) \in DOMAIN text /\ Max(allowed) \in DOMAIN text
      BY <1>5, <1>6, <2>2
    <3>2. r[Max(keys)].exact = text[Max(keys)].exact /\ r[Max(allowed)].exact = text[Max(allowed)].exact
      BY <1>4, <3>1
    <3> QED BY <1>3, <3>2 DEF Plain
  <2> QED BY <2>1, <2>2
<1>10. Plain(r, i) = Plain(text, i)
  BY <1>9 DEF Plain
<1>11. /\ BlockOf(text, i).key = p.key /\ BlockOf(text, i).plain = Plain(text, i)
  BY DEF BlockOf
<1>12. p.key = k <=> \E q \in keys : text[q].value = k
  <2>1. CASE keys = {}
    <3>1. p.key = NoKey
      BY <2>1 DEF Written, LastOf
    <3> QED BY <2>1, <3>1, ConfAssumption
  <2>2. CASE keys # {}
    <3>1. Max(keys) \in keys /\ \A q \in keys : q = Max(keys)
      BY <1>5, <1>6, <2>2, OneKey
    <3>2. p.key = text[Max(keys)].value
      BY <2>2 DEF Written, LastOf
    <3> QED BY <3>1, <3>2
  <2> QED BY <2>1, <2>2
<1>13. ASSUME allowed # {}
       PROVE  text[Max(allowed)].exact /\ InPeer(text, k, Max(allowed)) <=> p.key = k /\ Plain(text, i)
  <2>1. Max(allowed) \in allowed
    BY <1>5, <1>6, <1>13
  <2>2. InPeer(text, k, Max(allowed)) <=>
          \E q \in keys : q < Max(allowed) /\ text[q].value = k /\ text[q].exact
    BY <2>1, InPeerIs
  <2>3. \A q \in keys : q = Max(keys)
    BY OneKey
  <2>4. Plain(text, i) <=> keys # {} /\ Max(keys) < Max(allowed) /\ text[Max(keys)].exact /\ text[Max(allowed)].exact
    BY <1>13 DEF Plain
  <2> HIDE DEF keys, allowed, p
  <2> QED BY <1>12, <2>2, <2>3, <2>4
<1>14. CASE p.key = k /\ Plain(text, i)
  <2>1. allowed # {}
    BY <1>14 DEF Plain
  <2>2. Max(allowed) \in allowed /\ Max(allowed) \in DOMAIN text /\ text[Max(allowed)].kind = "allowed"
    BY <1>5, <1>6, <2>1
  <2>3. r[Max(allowed)] = Line("allowed", Entries(a, S))
    BY <1>1, <1>13, <1>14, <2>1, <2>2, ReplacedIs
  <2>4. o.allowed = Entries(a, S)
    BY <1>3, <2>1, <2>3 DEF Written, LastOf, Line
  <2>5. a \notin S
    BY ConfAssumption
  <2> DEFINE e == Entries(a, S)
  <2>6. e # <<>> /\ e[1].host = a /\ {e[j].net : j \in DOMAIN e} \ {a} = S
    BY <2>5, EntriesAre
  <2> HIDE DEF e, r, p, o
  <2>7. BlockOf(r, i) = [key |-> o.key, host |-> a, hint |-> o.hint, plain |-> Plain(r, i), nets |-> S]
    BY <2>4, <2>6 DEF BlockOf, e, o
  <2> DEFINE host == IF p.allowed = <<>> THEN NoAddr ELSE p.allowed[1].host
             nets == {p.allowed[j].net : j \in DOMAIN p.allowed} \ {host}
  <2>8. BlockOf(text, i) =
          [key |-> p.key, host |-> host, hint |-> p.hint, plain |-> Plain(text, i), nets |-> nets]
    BY DEF BlockOf, p
  <2> HIDE DEF host, nets, p, keys, allowed
  <2>9. [BlockOf(text, i) EXCEPT !.host = a, !.nets = S] =
          [key |-> p.key, host |-> a, hint |-> p.hint, plain |-> Plain(text, i), nets |-> S]
    <3> DEFINE b == BlockOf(text, i)
               plain == Plain(text, i)
    <3>1. b = [key |-> p.key, host |-> host, hint |-> p.hint, plain |-> plain, nets |-> nets]
      BY <2>8
    <3> DEFINE s == [b EXCEPT !.host = a, !.nets = S]
    <3> HIDE DEF b, plain
    <3>2. /\ DOMAIN s = {"key", "host", "hint", "plain", "nets"}
          /\ s.key = p.key /\ s.host = a /\ s.hint = p.hint /\ s.plain = plain /\ s.nets = S
      BY <3>1
    <3>3. s = [f \in {"key", "host", "hint", "plain", "nets"} |-> s[f]]
      BY <3>2
    <3>4. s = [key |-> p.key, host |-> a, hint |-> p.hint, plain |-> plain, nets |-> S]
      <4> HIDE DEF s
      <4> QED BY <3>2, <3>3
    <3> QED BY <3>4 DEF b, plain
  <2>10. BlockOf(r, i) = [BlockOf(text, i) EXCEPT !.host = a, !.nets = S]
    BY <1>7, <1>8, <1>10, <2>7, <2>9
  <2> QED BY <1>11, <1>14, <2>10 DEF r, p
<1>15. CASE ~ (p.key = k /\ Plain(text, i))
  <2>1. o.allowed = p.allowed
    <3>1. CASE allowed = {}
      BY <1>3, <3>1 DEF Written, LastOf
    <3>2. CASE allowed # {}
      <4>1. Max(allowed) \in DOMAIN text
        BY <1>5, <1>6, <3>2
      <4>2. r[Max(allowed)] = text[Max(allowed)]
        BY <1>1, <1>13, <1>15, <3>2, <4>1, ReplacedIs
      <4> QED BY <1>3, <4>2 DEF Written, LastOf
    <3> QED BY <3>1, <3>2
  <2>2. o = p
    BY <1>7, <1>8, <2>1 DEF Written
  <2> HIDE DEF r, p, o, keys, allowed
  <2>3. BlockOf(r, i) = BlockOf(text, i)
    BY <1>10, <2>2 DEF BlockOf, o, p
  <2> QED BY <1>11, <1>15, <2>2, <2>3 DEF r, o, p
<1> QED BY <1>14, <1>15

LEMMA RewriteActs ==
    ASSUME TextInv
    PROVE  RewriteActsOnBlocks
<1> SUFFICES ASSUME NEW k \in Keys, NEW a \in Addrs, NEW S \in SUBSET Nets
             PROVE  Blocks(Replaced(text, k, a, S)) = Rewritten(Blocks(text), k, a, S)
  BY DEF RewriteActsOnBlocks
<1> DEFINE r == Replaced(text, k, a, S)
           heads == Headers(text, {"peer"})
<1>1. Headers(r, {"peer"}) = heads
  BY ReplacedIs, ReplacedRetold, RetoldIs DEF TextInv, TypeOK
<1>2. Blocks(r) = [i \in heads |-> BlockOf(r, i)]
  BY <1>1 DEF Blocks
<1>3. DOMAIN Blocks(text) = heads /\ \A i \in heads : Blocks(text)[i] = BlockOf(text, i)
  BY DEF Blocks
<1>4. Rewritten(Blocks(text), k, a, S) =
        [i \in heads |-> IF BlockOf(text, i).key = k /\ BlockOf(text, i).plain
                         THEN [BlockOf(text, i) EXCEPT !.host = a, !.nets = S] ELSE BlockOf(text, i)]
  BY <1>3 DEF Rewritten
<1> HIDE DEF r
<1>5. \A i \in heads : BlockOf(r, i) =
        IF BlockOf(text, i).key = k /\ BlockOf(text, i).plain
        THEN [BlockOf(text, i) EXCEPT !.host = a, !.nets = S] ELSE BlockOf(text, i)
  BY BlockRewritten DEF r
<1> QED BY <1>2, <1>4, <1>5 DEF r

(* If the administrator writes as the app does, a change of AllowedIPs     *)
(* changes the plain block of its peer, and no other.                      *)
THEOREM InStyleRewriteActsOnBlocks ==
    ASSUME AppStyle
    PROVE  Spec => []RewriteActsOnBlocks
BY InStyleText, RewriteActs, PTL

(* Are the lines of a block the same ones, with the same text?             *)
LEMMA SameBlock ==
    ASSUME TextInv, NEW r \in Seq(Lines), Continues(r, text), NEW i \in Headers(text, {"peer"}),
           \A kinds : LinesOf(r, i, kinds) = LinesOf(text, i, kinds)
    PROVE  BlockOf(r, i) = BlockOf(text, i)
<1> DEFINE Hinted(c) == {j \in LinesOf(text, i, {"comment"}) : j > i + 1 /\ c[j].value \in Addrs}
<1>1. \A kinds : LinesOf(text, i, kinds) \in SUBSET DOMAIN text
  BY DEF LinesOf
<1>2. text \in Seq(Lines) /\ DOMAIN text = 1..Len(text) /\ Len(text) \in Nat
  BY DEF TextInv, TypeOK
<1>3. \A j \in DOMAIN text : r[j] = text[j]
  BY DEF Continues
<1>4. ASSUME NEW L \in SUBSET DOMAIN text, L # {} PROVE Max(L) \in L /\ r[Max(L)] = text[Max(L)]
  <2>1. L \in SUBSET (0..Len(text))
    BY <1>2
  <2>2. Max(L) \in L
    BY <1>2, <1>4, <2>1, MaxIs
  <2> QED BY <1>3, <2>2
<1>5. ASSUME NEW L \in SUBSET DOMAIN text, NEW d PROVE LastOf(r, L, d) = LastOf(text, L, d)
  BY <1>4 DEF LastOf
<1>6. Hinted(r) = Hinted(text) /\ Hinted(text) \in SUBSET DOMAIN text
  BY <1>1, <1>3
<1>7. Written(r, i) = Written(text, i)
  <2>1. /\ LastOf(r, LinesOf(r, i, {"key"}), NoKey) = LastOf(text, LinesOf(text, i, {"key"}), NoKey)
        /\ LastOf(r, LinesOf(r, i, {"allowed"}), <<>>) = LastOf(text, LinesOf(text, i, {"allowed"}), <<>>)
    BY <1>1, <1>5
  <2>2. LastOf(r, Hinted(r), NoAddr) = LastOf(text, Hinted(text), NoAddr)
    <3> HIDE DEF Hinted
    <3> QED BY <1>5, <1>6
  <2> QED BY <2>1, <2>2 DEF Written
<1>8. Plain(r, i) = Plain(text, i)
  <2> DEFINE keys == LinesOf(text, i, {"key"})
             allowed == LinesOf(text, i, {"allowed"})
  <2>1. keys \in SUBSET DOMAIN text /\ allowed \in SUBSET DOMAIN text
    BY <1>1
  <2>2. /\ LinesOf(r, i, {"key"}) = keys /\ LinesOf(r, i, {"allowed"}) = allowed
    OBVIOUS
  <2> HIDE DEF keys, allowed
  <2>3. keys # {} /\ allowed # {} =>
          r[Max(keys)].exact = text[Max(keys)].exact /\ r[Max(allowed)].exact = text[Max(allowed)].exact
    BY <1>4, <2>1
  <2>4. Plain(r, i) <=> Plain(text, i)
    BY <2>2, <2>3 DEF Plain, keys, allowed
  <2> QED BY <2>4 DEF Plain
<1> QED BY <1>7, <1>8 DEF BlockOf

(* grep finds the key if a block has it, and only then. *)
LEMMA MentionedIs ==
    ASSUME TextInv, NEW k \in Keys
    PROVE  (\E j \in DOMAIN text : Mentions(text[j], k))
             <=> \E i \in Headers(text, {"peer"}) : BlockOf(text, i).key = k
<1>1. text \in Seq(Lines) /\ DOMAIN text = 1..Len(text) /\ Len(text) \in Nat
  BY DEF TextInv, TypeOK
<1>2. ASSUME NEW j \in DOMAIN text, Mentions(text[j], k)
      PROVE  \E i \in Headers(text, {"peer"}) : BlockOf(text, i).key = k
  <2>1. text[j].kind = "key" /\ text[j].value = k
    BY <1>2 DEF Mentions, TextInv, StyleInv
  <2>2. PICK i \in Headers(text, {"peer"}) : j \in LinesOf(text, i, {"key"})
    BY <2>1 DEF TextInv, KeysInv
  <2>3. Max(LinesOf(text, i, {"key"})) = j
    BY <2>2, OneKey
  <2>4. BlockOf(text, i).key = k
    BY <2>1, <2>2, <2>3 DEF BlockOf, Written, LastOf
  <2> QED BY <2>4
<1>3. ASSUME NEW i \in Headers(text, {"peer"}), BlockOf(text, i).key = k
      PROVE  \E j \in DOMAIN text : Mentions(text[j], k)
  <2> DEFINE keys == LinesOf(text, i, {"key"})
  <2>1. LastOf(text, keys, NoKey) = k
    BY <1>3 DEF BlockOf, Written
  <2>2. keys # {} /\ text[Max(keys)].value = k
    BY <2>1, ConfAssumption DEF LastOf
  <2>3. keys \in SUBSET (0..Len(text))
    BY <1>1 DEF LinesOf
  <2>4. Max(keys) \in keys
    BY <1>1, <2>2, <2>3, MaxIs
  <2>5. Max(keys) \in DOMAIN text /\ text[Max(keys)].kind = "key"
    BY <2>4 DEF LinesOf
  <2> QED BY <2>2, <2>5 DEF Mentions
<1> QED BY <1>2, <1>3

(* Of the blocks, after one has been appended. *)
LEMMA BlockAppended ==
    ASSUME TextInv, NEW k \in Keys, NEW a \in Addrs, NEW S \in SUBSET Nets
    PROVE  LET r == text \o Block4(k, a, S)
           IN  /\ Headers(r, {"peer"}) = Headers(text, {"peer"}) \cup {Len(text) + 1}
               /\ \A i \in Headers(text, {"peer"}) : BlockOf(r, i) = BlockOf(text, i)
               /\ BlockOf(r, Len(text) + 1) =
                    [key |-> k, host |-> a, hint |-> NoAddr, nets |-> S, plain |-> TRUE]
<1> DEFINE r == text \o Block4(k, a, S)
           n == Len(text)
           every == {"peer", "interface"}
<1>1. text \in Seq(Lines) /\ DOMAIN text = 1..n /\ n \in Nat
  BY DEF TextInv, TypeOK
<1>2. /\ r \in Seq(Lines) /\ Len(r) = n + 4 /\ \A i \in DOMAIN text : r[i] = text[i]
      /\ r[n + 1] = Line("header", "peer") /\ r[n + 2] = Line("comment", NoText)
      /\ r[n + 3] = Line("key", k) /\ r[n + 4] = Line("allowed", Entries(a, S))
  BY <1>1, AppendedIs
<1> HIDE DEF r, n
<1>3. /\ DOMAIN r = 1..(n + 4) /\ DOMAIN text \subseteq DOMAIN r
      /\ \A j \in DOMAIN r : j \in DOMAIN text \/ j \in {n + 1, n + 2, n + 3, n + 4}
  BY <1>1, <1>2
<1>4. Continues(r, text)
  BY <1>1, <1>2 DEF Continues, n
<1>5. \A which : \A j \in DOMAIN text : j \in Headers(r, which) <=> j \in Headers(text, which)
  BY <1>1, <1>2, <1>4, ContinuedIs
<1>6. /\ \A j \in {n + 2, n + 3, n + 4} : r[j].kind # "header"
      /\ r[n + 1].kind = "header" /\ r[n + 1].value = "peer"
  BY <1>2 DEF Line
<1>7. Headers(r, {"peer"}) = Headers(text, {"peer"}) \cup {n + 1}
  <2>1. ASSUME NEW j \in DOMAIN text PROVE j # n + 1
    BY <1>1
  <2>2. n + 1 \in Headers(r, {"peer"})
    BY <1>1, <1>3, <1>6 DEF Headers
  <2>3. \A j \in Headers(r, {"peer"}) : j \in DOMAIN text \/ j = n + 1
    BY <1>3, <1>6 DEF Headers
  <2>4. Headers(text, {"peer"}) \subseteq DOMAIN text
    BY DEF Headers
  <2> QED BY <1>5, <2>2, <2>3, <2>4
<1>8. n + 1 \in Headers(r, every)
  BY <1>7 DEF Headers
<1>9. ASSUME NEW i \in Headers(text, {"peer"}) PROVE BlockOf(r, i) = BlockOf(text, i)
  <2>1. i \in DOMAIN text
    BY DEF Headers
  <2>2. ASSUME NEW kinds, NEW j \in LinesOf(r, i, kinds) PROVE j \in DOMAIN text
    <3>1. j \in DOMAIN r /\ (n + 1 <= i \/ n + 1 > j)
      BY <1>8 DEF LinesOf
    <3> QED BY <1>1, <1>3, <2>1, <3>1
  <2>3. \A kinds : LinesOf(text, i, kinds) \subseteq DOMAIN text
    BY DEF LinesOf
  <2>4. \A kinds : \A j \in DOMAIN text : j \in LinesOf(r, i, kinds) <=> j \in LinesOf(text, i, kinds)
    BY <1>1, <1>2, <1>4, ContinuedIs
  <2>5. ASSUME NEW kinds PROVE LinesOf(r, i, kinds) = LinesOf(text, i, kinds)
    BY <2>2, <2>3, <2>4
  <2> QED BY <1>2, <1>4, <2>5, SameBlock
<1>10. BlockOf(r, n + 1) = [key |-> k, host |-> a, hint |-> NoAddr, nets |-> S, plain |-> TRUE]
  <2>1. ASSUME NEW j \in {n + 2, n + 3, n + 4}, NEW z \in Headers(r, every)
        PROVE  z <= n + 1 \/ z > j
    <3>1. z \in DOMAIN text \/ z = n + 1
      BY <1>3, <1>6 DEF Headers
    <3> QED BY <1>1, <3>1
  <2>2. \A kinds : LinesOf(r, n + 1, kinds) = {j \in {n + 2, n + 3, n + 4} : r[j].kind \in kinds}
    <3>1. ASSUME NEW kinds, NEW j \in LinesOf(r, n + 1, kinds)
          PROVE  j \in {n + 2, n + 3, n + 4} /\ r[j].kind \in kinds
      BY <1>1, <1>3 DEF LinesOf
    <3>2. ASSUME NEW kinds, NEW j \in {n + 2, n + 3, n + 4}, r[j].kind \in kinds
          PROVE  j \in LinesOf(r, n + 1, kinds)
      <4>1. j \in DOMAIN r /\ j > n + 1
        BY <1>1, <1>3
      <4> QED BY <2>1, <3>2, <4>1 DEF LinesOf
    <3> QED BY <3>1, <3>2
  <2>3. /\ r[n + 2].kind = "comment" /\ r[n + 3].kind = "key" /\ r[n + 4].kind = "allowed"
        /\ r[n + 3].value = k /\ r[n + 4].value = Entries(a, S)
        /\ r[n + 3].exact = TRUE /\ r[n + 4].exact = TRUE
    BY <1>2 DEF Line
  <2>4. /\ LinesOf(r, n + 1, {"key"}) = {n + 3} /\ LinesOf(r, n + 1, {"allowed"}) = {n + 4}
        /\ LinesOf(r, n + 1, {"comment"}) = {n + 2}
    BY <2>2, <2>3
  <2>5. Max({n + 3}) = n + 3 /\ Max({n + 4}) = n + 4
    <3>1. ASSUME NEW m \in Nat PROVE Max({m}) = m
      BY MaxOf, {m} \in SUBSET (0..m)
    <3> QED BY <1>1, <3>1
  <2>6. {j \in LinesOf(r, n + 1, {"comment"}) : j > (n + 1) + 1 /\ r[j].value \in Addrs} = {}
    BY <1>1, <2>4
  <2>7. Written(r, n + 1) = [key |-> k, allowed |-> Entries(a, S), hint |-> NoAddr]
    BY <2>3, <2>4, <2>5, <2>6 DEF Written, LastOf
  <2>8. Plain(r, n + 1)
    <3>1. n + 3 < n + 4 /\ {n + 3} # {} /\ {n + 4} # {}
      BY <1>1
    <3> QED BY <2>3, <2>4, <2>5, <3>1 DEF Plain
  <2>9. Plain(r, n + 1) = TRUE
    BY <2>8 DEF Plain
  <2>10. a \notin S
    BY ConfAssumption
  <2> DEFINE e == Entries(a, S)
  <2>11. e # <<>> /\ e[1].host = a /\ {e[j].net : j \in DOMAIN e} \ {a} = S
    BY <2>10, EntriesAre
  <2> DEFINE w == Written(r, n + 1)
  <2>12. w.key = k /\ w.allowed = e /\ w.hint = NoAddr
    BY <2>7
  <2> HIDE DEF e, w
  <2> QED BY <2>9, <2>11, <2>12 DEF BlockOf, w
<1> QED BY <1>7, <1>9, <1>10 DEF r, n

LEMMA RegisterActs ==
    ASSUME TextInv
    PROVE  RegisterActsOnBlocks
<1> DEFINE blocks == Blocks(text)
           heads == Headers(text, {"peer"})
           n == Len(text)
           New(k, a, S) == [key |-> k, host |-> a, hint |-> NoAddr, nets |-> S, plain |-> TRUE]
<1> SUFFICES ASSUME NEW k \in Keys, NEW a \in Addrs, NEW S \in SUBSET Nets
             PROVE  IF \E i \in DOMAIN blocks : blocks[i].key = k
                    THEN Registered(text, k, a, S) = text
                    ELSE Blocks(Registered(text, k, a, S)) =
                           [i \in DOMAIN blocks \cup {n + 1} |->
                              IF i \in DOMAIN blocks THEN blocks[i] ELSE New(k, a, S)]
  BY DEF RegisterActsOnBlocks
<1>1. DOMAIN blocks = heads /\ \A i \in heads : blocks[i] = BlockOf(text, i)
  BY DEF Blocks
<1>2. (\E j \in DOMAIN text : Mentions(text[j], k)) <=> \E i \in DOMAIN blocks : blocks[i].key = k
  BY <1>1, MentionedIs
<1>3. CASE \E j \in DOMAIN text : Mentions(text[j], k)
  BY <1>2, <1>3, RegisteredIs
<1>4. CASE ~ \E j \in DOMAIN text : Mentions(text[j], k)
  <2> DEFINE r == text \o Block4(k, a, S)
             new == New(k, a, S)
  <2>1. Registered(text, k, a, S) = r
    BY <1>4, RegisteredIs
  <2>2. /\ Headers(r, {"peer"}) = heads \cup {n + 1}
        /\ \A i \in heads : BlockOf(r, i) = BlockOf(text, i)
        /\ BlockOf(r, n + 1) = new
    BY BlockAppended
  <2> HIDE DEF r, new
  <2>3. Blocks(r) = [i \in heads \cup {n + 1} |-> BlockOf(r, i)]
    BY <2>2 DEF Blocks
  <2> HIDE DEF blocks, heads, n
  <2>4. \A i \in heads \cup {n + 1} : BlockOf(r, i) = IF i \in heads THEN blocks[i] ELSE new
    BY <1>1, <2>2
  <2>5. Blocks(r) = [i \in DOMAIN blocks \cup {n + 1} |-> IF i \in DOMAIN blocks THEN blocks[i] ELSE new]
    BY <1>1, <2>3, <2>4
  <2> QED BY <1>2, <1>4, <2>1, <2>5 DEF new
<1> QED BY <1>3, <1>4

(* If the administrator writes as the app does, registering a peer appends *)
(* a block for one that has none, and leaves the others alone.             *)
THEOREM InStyleRegisterActsOnBlocks ==
    ASSUME AppStyle
    PROVE  Spec => []RegisterActsOnBlocks
BY InStyleText, RegisterActs, PTL

-----------------------------------------------------------------------------
(* What that means for the peers that are read *)

(* Every place in the list is that of a block. *)
LEMMA EveryPlace ==
    ASSUME NEW c \in Seq(Lines), NEW q \in 1..Cardinality(Headers(c, {"peer"}))
    PROVE  \E i \in Headers(c, {"peer"}) : Cardinality(Heads(c, i)) = q
<1> DEFINE heads == Headers(c, {"peer"})
           places == 1..Cardinality(heads)
           f == [i \in heads |-> Cardinality(Heads(c, i))]
<1>1. DOMAIN c = 1..Len(c) /\ Len(c) \in Nat
  OBVIOUS
<1>2. heads = Heads(c, Len(c))
  BY <1>1 DEF Heads, Headers
<1>3. IsFiniteSet(heads) /\ Cardinality(heads) \in Nat
  BY <1>1, <1>2, HeadsAre
<1>4. IsFiniteSet(places) /\ Cardinality(places) = Cardinality(heads)
  <2> HIDE DEF heads
  <2> QED BY <1>3, FS_Interval
<1>5. \A i \in heads : Cardinality(Heads(c, i)) \in places
  BY <1>1, <1>2, HeadsInOrder
<1>6. ASSUME NEW i \in heads, NEW j \in heads, i < j
      PROVE  Cardinality(Heads(c, i)) # Cardinality(Heads(c, j))
  <2>1. j \in Nat /\ i \in Heads(c, j) /\ j \in Heads(c, j)
    BY <1>1, <1>6 DEF Heads, Headers
  <2>2. Cardinality(Heads(c, i)) < Cardinality(Heads(c, j))
    BY <2>1, <1>6, HeadsInOrder
  <2>3. Cardinality(Heads(c, i)) \in Nat
    BY <1>5
  <2> QED BY <2>2, <2>3
<1>7. \A i, j \in heads : i # j => Cardinality(Heads(c, i)) # Cardinality(Heads(c, j))
  <2>1. \A i \in heads : i \in Nat
    BY <1>1 DEF Headers
  <2> QED BY <2>1, <1>6
<1> HIDE DEF heads, places
<1>8. f \in Injection(heads, places)
  BY <1>5, <1>7 DEF Injection, IsInjective
<1>9. f \in Surjection(heads, places)
  <2> HIDE DEF f
  <2> QED BY <1>4, <1>8, FS_Injection
<1>10. q \in places
  BY DEF places, heads
<1> QED BY <1>9, <1>10 DEF Surjection, heads

(* The peers of two configs with the same headers, place by place. *)
LEMMA PeerByPeer ==
    ASSUME NEW c \in Seq(Lines), NEW r \in Seq(Lines), Headers(r, {"peer"}) = Headers(c, {"peer"}),
           NEW q \in DOMAIN fetch_wg_peers_from_config(c)
    PROVE  \E i \in Headers(c, {"peer"}) :
              /\ fetch_wg_peers_from_config(c)[q] = Written(c, i)
              /\ fetch_wg_peers_from_config(r)[q] = Written(r, i)
<1>1. q \in 1..Cardinality(Headers(c, {"peer"}))
  BY ParserReads
<1>2. PICK i \in Headers(c, {"peer"}) : Cardinality(Heads(c, i)) = q
  BY <1>1, EveryPlace
<1>3. Heads(r, i) = Heads(c, i)
  BY DEF Heads
<1> QED BY <1>2, <1>3, ParserReads

LEMMA RewriteKeeps ==
    ASSUME TextInv, NEW k \in Keys, NEW a \in Addrs, NEW S \in SUBSET Nets
    PROVE  LET before == fetch_wg_peers_from_config(text)
               after == fetch_wg_peers_from_config(Replaced(text, k, a, S))
           IN  /\ Len(after) = Len(before)
               /\ \A q \in DOMAIN before : before[q].key # k => after[q] = before[q]
<1> DEFINE r == Replaced(text, k, a, S)
<1>1. text \in Seq(Lines) /\ r \in Seq(Lines) /\ Headers(r, {"peer"}) = Headers(text, {"peer"})
  BY ReplacedIs, ReplacedRetold, RetoldIs DEF TextInv, TypeOK
<1>2. \A i \in Headers(text, {"peer"}) : Written(text, i).key # k => Written(r, i) = Written(text, i)
  BY BlockRewritten
<1> HIDE DEF r
<1>3. Len(fetch_wg_peers_from_config(r)) = Len(fetch_wg_peers_from_config(text))
  BY <1>1, ParserReads
<1>4. ASSUME NEW q \in DOMAIN fetch_wg_peers_from_config(text), fetch_wg_peers_from_config(text)[q].key # k
      PROVE  fetch_wg_peers_from_config(r)[q] = fetch_wg_peers_from_config(text)[q]
  <2>1. PICK i \in Headers(text, {"peer"}) :
           /\ fetch_wg_peers_from_config(text)[q] = Written(text, i)
           /\ fetch_wg_peers_from_config(r)[q] = Written(r, i)
    BY <1>1, PeerByPeer
  <2> QED BY <1>2, <1>4, <2>1
<1> QED BY <1>3, <1>4 DEF r

(* A change of one peer's AllowedIPs leaves the other peers of the config  *)
(* as they were, if the administrator writes as the app does.  What else   *)
(* can happen is what MCStrayRewrite shows.                                *)
THEOREM InStyleOtherPeersKept ==
    ASSUME AppStyle
    PROVE  Spec => []OtherPeersKept
<1>1. TextInv => OtherPeersKept
  BY RewriteKeeps DEF OtherPeersKept
<1> QED BY <1>1, InStyleText, PTL

(* A peer that is registered is in the config from then on.                *)
LEMMA RegisteredReads ==
    ASSUME TextInv
    PROVE  RegisteredSurvives
<1> SUFFICES ASSUME NEW k \in Keys, NEW a \in Addrs, NEW S \in SUBSET Nets
             PROVE  \E q \in DOMAIN fetch_wg_peers_from_config(Registered(text, k, a, S)) :
                       fetch_wg_peers_from_config(Registered(text, k, a, S))[q].key = k
  BY DEF RegisteredSurvives
<1> DEFINE r == Registered(text, k, a, S)
<1>1. r \in Seq(Lines)
  <2>1. text \in Seq(Lines)
    BY DEF TextInv, TypeOK
  <2>2. text \o Block4(k, a, S) \in Seq(Lines)
    BY <2>1, AppendedIs
  <2> QED BY <2>1, <2>2, RegisteredIs
<1>2. \E i \in Headers(r, {"peer"}) : BlockOf(r, i).key = k
  <2>1. CASE \E j \in DOMAIN text : Mentions(text[j], k)
    <3>1. r = text
      BY <2>1, RegisteredIs
    <3> QED BY <2>1, <3>1, MentionedIs
  <2>2. CASE ~ \E j \in DOMAIN text : Mentions(text[j], k)
    <3> DEFINE n == Len(text)
    <3>1. r = text \o Block4(k, a, S)
      BY <2>2, RegisteredIs
    <3> DEFINE b == text \o Block4(k, a, S)
    <3>2. /\ Headers(b, {"peer"}) = Headers(text, {"peer"}) \cup {n + 1}
          /\ BlockOf(b, n + 1) = [key |-> k, host |-> a, hint |-> NoAddr, nets |-> S, plain |-> TRUE]
      BY BlockAppended
    <3> HIDE DEF b, r, n
    <3>3. n + 1 \in Headers(b, {"peer"}) /\ BlockOf(b, n + 1).key = k
      BY <3>2
    <3> QED BY <3>1, <3>3 DEF b
  <2> QED BY <2>1, <2>2
<1>3. PICK i \in Headers(r, {"peer"}) : Written(r, i).key = k
  BY <1>2 DEF BlockOf
<1> HIDE DEF r
<1>4. /\ Cardinality(Heads(r, i)) \in DOMAIN fetch_wg_peers_from_config(r)
      /\ fetch_wg_peers_from_config(r)[Cardinality(Heads(r, i))] = Written(r, i)
  BY <1>1, ParserReads
<1> QED BY <1>3, <1>4 DEF r

(* grep finds a key only where the parser finds it too, if nobody has      *)
(* commented it out: who registers a peer can read it from the config.     *)
THEOREM InStyleRegisteredSurvives ==
    ASSUME AppStyle
    PROVE  Spec => []RegisteredSurvives
BY InStyleText, RegisteredReads, PTL

=============================================================================
