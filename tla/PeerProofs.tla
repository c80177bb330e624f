----------------------------- MODULE PeerProofs ------------------------------
(***************************************************************************)
(* Theorems about PeerRegistry.  For any number of threads: what the       *)
(* requests hold and the scripts run with is of the right kind, and there  *)
(* is an id for every row.  For one thread and any number of keys,         *)
(* addresses, networks and requests, whatever fails and whenever the       *)
(* server reboots: what the reports promise is so.                         *)
(***************************************************************************)
EXTENDS PeerRegistry, SequenceTheorems, FiniteSetTheorems, WellFoundedInduction, TLAPS

-----------------------------------------------------------------------------
(* Sets of numbers, and the blocks of a config *)

LEMMA Least ==
    ASSUME NEW S, S \subseteq Nat, S # {}
    PROVE  Min(S) \in S /\ \A y \in S : Min(S) <= y
<1> DEFINE R == OpToRel(<, Nat)
<1>1. \A x, y \in Nat : y < x => <<y, x>> \in R
  BY SMT DEF OpToRel
<1>2. PICK x \in S : \A y \in S : ~ (<<y, x>> \in R)
  BY NatLessThanWellFounded, WFMin, Zenon
<1> HIDE DEF R
<1>3. ASSUME NEW y \in S PROVE x <= y
  <2>1. x \in Nat /\ y \in Nat
    OBVIOUS
  <2>2. ~ (y < x)
    BY <1>1, <1>2, <2>1, Zenon
  <2>3. QED
    BY <2>1, <2>2
<1>4. QED
  BY <1>3 DEF Min

LEMMA SeqDomain ==
    ASSUME NEW S, NEW c \in Seq(S)
    PROVE  /\ Len(c) \in Nat /\ DOMAIN c = 1..Len(c)
           /\ \A i \in DOMAIN c : i \in Nat /\ c[i] \in S
BY LenProperties, ElementOfSeq

LEMMA BlockType ==
    ASSUME NEW b \in Block
    PROVE  /\ b.key \in Keys /\ AllowedIPs(b) \subseteq Cidrs
           /\ peer_own_ip(b) \in Addrs \cup {NoAddr}
           /\ \A known : peer_managed_networks(b, known) \subseteq Nets \cup {MeshNet}
BY DEF Block, AllowedIPs, Cidrs, peer_own_ip, peer_managed_networks

LEMMA LoadedType ==
    ASSUME NEW c \in Seq(Block)
    PROVE  Loaded(c) \in [Keys -> SUBSET Cidrs] /\ Routed(c) \subseteq Cidrs
<1>1. \A i \in DOMAIN c : AllowedIPs(c[i]) \subseteq Cidrs
  BY SeqDomain, BlockType
<1>2. QED
  BY <1>1 DEF Loaded, Routed

LEMMA RewrittenType ==
    ASSUME NEW c \in Seq(Block), NEW k \in Keys, NEW a \in Addrs, NEW S \in SUBSET (Nets \cup {MeshNet})
    PROVE  /\ Rewritten(c, k, a, S) \in Seq(Block)
           /\ DOMAIN Rewritten(c, k, a, S) = DOMAIN c
           /\ \A i \in DOMAIN c :
                 /\ Rewritten(c, k, a, S)[i].key = c[i].key
                 /\ Rewritten(c, k, a, S)[i].plain = c[i].plain
                 /\ c[i].key # k => Rewritten(c, k, a, S)[i] = c[i]
                 /\ c[i].key = k /\ c[i].plain => AllowedIPs(Rewritten(c, k, a, S)[i]) = {a} \cup S
<1> DEFINE new(b) == IF b.key = k /\ b.plain THEN [b EXCEPT !.host = a, !.nets = S] ELSE b
<1>1. ASSUME NEW b \in Block
      PROVE  /\ new(b) \in Block /\ new(b).key = b.key /\ new(b).plain = b.plain
             /\ b.key # k => new(b) = b
             /\ b.key = k /\ b.plain => AllowedIPs(new(b)) = {a} \cup S
  BY PeerAssumption DEF Block, AllowedIPs
<1>2. Rewritten(c, k, a, S) = [i \in DOMAIN c |-> new(c[i])]
  BY DEF Rewritten
<1> HIDE DEF new
<1>3. Rewritten(c, k, a, S) = [i \in 1..Len(c) |-> new(c[i])] /\ \A i \in 1..Len(c) : new(c[i]) \in Block
  BY <1>1, <1>2, SeqDomain
<1>4. Rewritten(c, k, a, S) \in Seq(Block)
  BY <1>3, SeqDomain
<1>5. QED
  BY <1>1, <1>2, <1>4, SeqDomain

(* The last block of a peer. *)
LEMMA LastBlock ==
    ASSUME NEW c \in Seq(Block), NEW k, NEW n \in DOMAIN c, c[n].key = k
    PROVE  \E i \in DOMAIN c : c[i].key = k /\ \A j \in DOMAIN c : j > i => c[j].key # k
<1> DEFINE S == {Len(c) - i : i \in {j \in DOMAIN c : c[j].key = k}}
<1>1. S \subseteq Nat /\ S # {}
  BY SeqDomain
<1>2. PICK i \in {j \in DOMAIN c : c[j].key = k} : Min(S) = Len(c) - i
  BY <1>1, Least
<1>3. ASSUME NEW j \in DOMAIN c, c[j].key = k PROVE Len(c) - i <= Len(c) - j
  <2>1. Len(c) - j \in S
    BY <1>3
  <2> HIDE DEF S
  <2>2. QED
    BY <1>1, <1>2, <2>1, Least
<1>4. QED
  BY <1>2, <1>3, SeqDomain

-----------------------------------------------------------------------------
(* There is an id for every row *)

LEMMA Parts ==
    ASSUME PeerInv
    PROVE  /\ live \in [Keys -> SUBSET Cidrs] /\ routes \subseteq Cidrs
           /\ conf \in Seq(Block) /\ (tmp = NoFile \/ tmp \in Seq(Block))
           /\ clients \in [ClientIds -> Row \cup {NoRow}]
           /\ tag \in BOOLEAN /\ tagged \subseteq ClientIds /\ begun \in 0..MaxRequests
           /\ refused \subseteq Cidrs /\ astray \in BOOLEAN
           /\ req \in [Threads -> Request]
           /\ \A t \in Threads : req[t] \in Request /\ RequestOK(req[t])
BY DEF PeerInv, TypeOK

LEMMA RowType ==
    ASSUME PeerInv, NEW c \in Existing
    PROVE  c \in ClientIds /\ clients[c] \in Row /\ clients[c].ip \in Addrs /\ clients[c].ip \in Taken
BY Parts DEF Existing, Row, Taken

LEMMA AddrsCount == Cardinality(Addrs) \in Nat /\ ClientIds = 1..Cardinality(Addrs)
BY PeerAssumption, FS_CardinalityType DEF ClientIds

LEMMA RowsCount ==
    ASSUME PeerInv
    PROVE  /\ Cardinality(Existing) \in Nat /\ Existing = 1..Cardinality(Existing)
           /\ NextId = Cardinality(Existing) + 1 /\ NextId \notin Existing
<1>1. IsFiniteSet(ClientIds)
  BY AddrsCount, FS_Interval
<1>2. IsFiniteSet(Existing)
  BY <1>1, FS_Subset DEF Existing
<1>3. Cardinality(Existing) \in Nat
  BY <1>2, FS_CardinalityType
<1>4. Existing = 1..Cardinality(Existing)
  BY DEF PeerInv, RowsInv
<1> DEFINE n == Cardinality(Existing)
<1>5. n + 1 \notin 1..n
  BY <1>3
<1>6. QED
  BY <1>3, <1>4, <1>5 DEF NextId

(* No two rows have one address: so m addresses that nobody has are room   *)
(* for m rows.                                                             *)
LEMMA Room ==
    ASSUME PeerInv, NEW m \in Nat, NEW h \in Injection(1..m, Addrs \ Taken)
    PROVE  Cardinality(Existing) + m <= Cardinality(Addrs)
<1> DEFINE n == Cardinality(Existing)
           g == [i \in 1..(n + m) |-> IF i <= n THEN clients[i].ip ELSE h[i - n]]
<1>1. n \in Nat /\ Existing = 1..n
  BY RowsCount
<1> HIDE DEF n
<1>2. h \in [1..m -> Addrs \ Taken] /\ \A i, j \in 1..m : h[i] = h[j] => i = j
  BY DEF Injection, IsInjective
<1>3. \A i \in 1..(n + m) :
         \/ i \in Existing /\ g[i] = clients[i].ip /\ g[i] \in Taken
         \/ i \notin Existing /\ i - n \in 1..m /\ g[i] = h[i - n] /\ g[i] \notin Taken
  <2> TAKE i \in 1..(n + m)
  <2>1. CASE i <= n
    <3>1. i \in Existing /\ g[i] = clients[i].ip
      BY <1>1, <2>1
    <3>2. clients[i].ip \in Taken
      BY <3>1, RowType
    <3> HIDE DEF g
    <3>3. QED
      BY <3>1, <3>2
  <2>2. CASE ~(i <= n)
    <3>1. i - n \in 1..m /\ i \notin 1..n
      BY <1>1, <2>2
    <3>2. g[i] = h[i - n]
      BY <2>2
    <3>3. QED
      BY <1>1, <1>2, <3>1, <3>2
  <2>3. QED
    BY <2>1, <2>2
<1>4. \A i \in 1..(n + m) : g[i] \in Addrs
  BY <1>2, <1>3, RowType
<1>5. \A i, j \in Existing : clients[i].ip = clients[j].ip => i = j
  BY DEF PeerInv, RowsInv
<1>6. ASSUME NEW i \in 1..(n + m), NEW j \in 1..(n + m), g[i] = g[j] PROVE i = j
  <2>1. CASE i \in Existing
    BY <1>3, <1>5, <1>6, <2>1
  <2>2. CASE i \notin Existing
    <3>1. i - n \in 1..m /\ j - n \in 1..m /\ h[i - n] = h[j - n]
      BY <1>3, <1>6, <2>2
    <3>2. i - n = j - n
      BY <1>2, <3>1
    <3>3. QED
      BY <1>1, <3>2
  <2>3. QED
    BY <2>1, <2>2
<1>7. g \in Injection(1..(n + m), Addrs)
  BY <1>4, <1>6 DEF Injection, IsInjective
<1>8. Cardinality(1..(n + m)) <= Cardinality(Addrs)
  BY <1>7, FS_Injection, PeerAssumption
<1>9. Cardinality(1..(n + m)) = n + m
  BY <1>1, FS_Interval
<1>10. QED
  BY <1>8, <1>9 DEF n

(* What a step does to the rows. *)
LEMMA RowsKept ==
    ASSUME PeerInv, clients' \in [ClientIds -> Row \cup {NoRow}], Existing' = Existing,
           \A c, d \in Existing : clients'[c].ip = clients'[d].ip => c = d
    PROVE  RowsInv'
BY RowsCount DEF RowsInv

LEMMA RowsAdded ==
    ASSUME PeerInv, NEW m \in Nat, NEW h \in Injection(1..m, Addrs \ Taken),
           clients' \in [ClientIds -> Row \cup {NoRow}],
           \A c \in Existing : clients'[c] = clients[c],
           \A i \in 1..m : clients'[Cardinality(Existing) + i] # NoRow
                               /\ clients'[Cardinality(Existing) + i].ip = h[i],
           \A c \in ClientIds : c > Cardinality(Existing) + m => clients'[c] = NoRow
    PROVE  /\ RowsInv' /\ Existing \subseteq Existing'
           /\ \A i \in 1..m : Cardinality(Existing) + i \in Existing'
<1> DEFINE n == Cardinality(Existing)
<1>1. n \in Nat /\ Existing = 1..n /\ n + m <= Cardinality(Addrs)
  BY RowsCount, Room
<1>2. n + m \in Nat /\ 1..(n + m) \subseteq ClientIds
  BY <1>1, AddrsCount
<1>3. \A c \in 1..(n + m) : c \in Existing \/ (c - n \in 1..m /\ c = n + (c - n))
  BY <1>1
<1>4. \A c \in Existing : clients[c] # NoRow
  BY DEF Existing
<1> HIDE DEF n
<1>5. \A c \in 1..(n + m) : clients'[c] # NoRow
  BY <1>3, <1>4 DEF n
<1>6. \A c \in ClientIds : c \in 1..(n + m) \/ c > n + m
  BY <1>2, AddrsCount
<1>7. Existing' = 1..(n + m)
  BY <1>2, <1>5, <1>6, PeerAssumption DEF Existing, n
<1>8. Cardinality(1..(n + m)) = n + m
  BY <1>1, FS_Interval
<1>9. h \in [1..m -> Addrs \ Taken] /\ \A i, j \in 1..m : h[i] = h[j] => i = j
  BY DEF Injection, IsInjective
<1>10. \A c, d \in Existing : clients[c].ip = clients[d].ip => c = d
  BY DEF PeerInv, RowsInv
<1>11. ASSUME NEW c \in 1..(n + m), NEW d \in 1..(n + m), clients'[c].ip = clients'[d].ip PROVE c = d
  <2>1. \A k \in 1..(n + m) :
           \/ k \in Existing /\ clients'[k].ip = clients[k].ip /\ clients'[k].ip \in Taken
           \/ /\ k \notin Existing /\ k - n \in 1..m
              /\ clients'[k].ip = h[k - n] /\ clients'[k].ip \notin Taken
    <3> TAKE k \in 1..(n + m)
    <3>1. CASE k \in Existing
      BY <3>1, RowType
    <3>2. CASE k \notin Existing
      BY <1>3, <1>9, <3>2 DEF n
    <3>3. QED
      BY <3>1, <3>2
  <2>2. CASE c \in Existing
    BY <1>10, <1>11, <2>1, <2>2
  <2>3. CASE c \notin Existing
    <3>1. c - n \in 1..m /\ d - n \in 1..m /\ h[c - n] = h[d - n]
      BY <1>11, <2>1, <2>3
    <3>2. c - n = d - n
      BY <1>9, <3>1
    <3>3. QED
      BY <1>1, <3>2
  <2>4. QED
    BY <2>2, <2>3
<1>12. QED
  BY <1>1, <1>7, <1>8, <1>11 DEF RowsInv, n


(* The elements of a finite set of numbers by their ranks. *)
Rank(S, i) == Cardinality({j \in S : j < i})

LEMMA Ranks ==
    ASSUME NEW S \in SUBSET Nat, IsFiniteSet(S)
    PROVE  \E pos \in Injection(1..Cardinality(S), S) :
              /\ \A v \in 1..Cardinality(S) : Rank(S, pos[v]) = v - 1
              /\ \A i \in S : \E v \in 1..Cardinality(S) : pos[v] = i
<1> DEFINE m == Cardinality(S)
           below(i) == {j \in S : j < i}
           f == [i \in S |-> Rank(S, i) + 1]
<1>1. m \in Nat /\ \A i : IsFiniteSet(below(i)) /\ Cardinality(below(i)) \in Nat
  BY FS_CardinalityType, FS_Subset
<1>2. ASSUME NEW i \in S PROVE Cardinality(below(i)) + 1 <= m
  <2>1. below(i) \cup {i} \subseteq S /\ i \notin below(i)
    OBVIOUS
  <2>2. Cardinality(below(i) \cup {i}) = Cardinality(below(i)) + 1
    BY <1>1, <2>1, FS_AddElement
  <2>3. QED
    BY <2>1, <2>2, FS_Subset
<1>3. ASSUME NEW i \in S, NEW k \in S, i < k PROVE Cardinality(below(i)) + 1 <= Cardinality(below(k))
  <2>1. below(i) \cup {i} \subseteq below(k) /\ i \notin below(i)
    <3>1. \A j \in S : j \in Nat /\ i \in Nat /\ k \in Nat
      OBVIOUS
    <3>2. \A j \in S : j < i => j < k
      BY <1>3, <3>1
    <3>3. below(i) \subseteq below(k)
      BY <3>2
    <3>4. i \in below(k) /\ i \notin below(i)
      BY <1>3, <3>1
    <3>5. QED
      BY <3>3, <3>4
  <2>2. Cardinality(below(i) \cup {i}) = Cardinality(below(i)) + 1
    BY <1>1, <2>1, FS_AddElement
  <2>3. QED
    BY <1>1, <2>1, <2>2, FS_Subset
<1>4. \A i \in S : f[i] = Cardinality(below(i)) + 1
  BY DEF Rank
<1> HIDE DEF m, below, f
<1>5. \A i \in S : f[i] \in 1..m
  BY <1>1, <1>2, <1>4
<1>6. ASSUME NEW i \in S, NEW k \in S, f[i] = f[k] PROVE i = k
  <2>1. Cardinality(below(i)) = Cardinality(below(k))
    BY <1>1, <1>4, <1>6
  <2>2. ~ (i < k) /\ ~ (k < i)
    BY <1>1, <1>3, <2>1
  <2>3. QED
    BY <2>2
<1>7. f \in Injection(S, 1..m)
  BY <1>5, <1>6 DEF Injection, IsInjective, f
<1>8. IsFiniteSet(1..m) /\ Cardinality(1..m) = m
  BY <1>1, FS_Interval
<1>9. \A v \in 1..m : \E i \in S : f[i] = v
  <2>1. Cardinality(S) = Cardinality(1..m)
    BY <1>8 DEF m
  <2>2. f \in Surjection(S, 1..m)
    BY <1>7, <1>8, <2>1, FS_Injection, Zenon
  <2>3. QED
    BY <2>2 DEF Surjection
<1> DEFINE pos == [v \in 1..m |-> CHOOSE i \in S : f[i] = v]
<1>10. \A v \in 1..m : pos[v] \in S /\ f[pos[v]] = v
  BY <1>9
<1>11. pos \in Injection(1..m, S)
  BY <1>10 DEF Injection, IsInjective
<1>12. ASSUME NEW v \in 1..m PROVE Rank(S, pos[v]) = v - 1
  <2>1. Rank(S, pos[v]) = Cardinality(below(pos[v]))
    BY DEF Rank, below
  <2>2. v = Cardinality(below(pos[v])) + 1
    BY <1>4, <1>10
  <2> DEFINE n == Cardinality(below(pos[v]))
  <2>3. n \in Nat
    BY <1>1
  <2> HIDE DEF n
  <2>4. Rank(S, pos[v]) = n /\ v = n + 1
    BY <2>1, <2>2 DEF n
  <2>5. QED
    BY <2>3, <2>4
<1>13. \A i \in S : \E v \in 1..m : pos[v] = i
  BY <1>5, <1>6, <1>10
<1> HIDE DEF pos
<1>14. QED
  BY <1>11, <1>12, <1>13 DEF m

LEMMA BatchRows ==
    ASSUME PeerInv, NEW r \in Request
    PROVE  /\ Batch(r) \in SUBSET Nat /\ IsFiniteSet(Batch(r)) /\ Batch(r) \subseteq DOMAIN r.peers
           /\ \A i \in Batch(r) : peer_own_ip(r.peers[i]) \in Addrs /\ peer_own_ip(r.peers[i]) \notin r.ips
           /\ \A i, j \in Batch(r) : peer_own_ip(r.peers[i]) = peer_own_ip(r.peers[j]) => i = j
           /\ \A i \in Batch(r) : NetworksOf(r, i) \subseteq Nets \cup {MeshNet}
<1>1. r.peers \in Seq(Block)
  BY DEF Request
<1>2. Batch(r) \subseteq NewPeers(r)
  BY DEF Batch
<1>3. NewPeers(r) \subseteq DOMAIN r.peers /\ NewPeers(r) \subseteq 1..Len(r.peers)
  BY <1>1, SeqDomain DEF NewPeers
<1>4. IsFiniteSet(1..Len(r.peers))
  BY <1>1, SeqDomain, FS_Interval
<1>5. Batch(r) \in SUBSET Nat /\ IsFiniteSet(Batch(r)) /\ Batch(r) \subseteq DOMAIN r.peers
  BY <1>1, <1>2, <1>3, <1>4, FS_Subset, SeqDomain
<1>6. \A i \in NewPeers(r) : /\ peer_own_ip(r.peers[i]) \notin r.ips \cup {NoAddr}
                             /\ \A j \in 1..(i - 1) : peer_own_ip(r.peers[j]) # peer_own_ip(r.peers[i])
  BY DEF NewPeers
<1>7. \A i \in NewPeers(r) : r.peers[i] \in Block
  BY <1>1, <1>3, SeqDomain
<1>8. \A i \in NewPeers(r) : peer_own_ip(r.peers[i]) \in Addrs /\ NetworksOf(r, i) \subseteq Nets \cup {MeshNet}
  BY <1>6, <1>7, BlockType DEF NetworksOf
<1>9. ASSUME NEW i \in NewPeers(r), NEW j \in NewPeers(r),
             peer_own_ip(r.peers[i]) = peer_own_ip(r.peers[j])
      PROVE  i = j
  <2>1. i \in Nat \ {0} /\ j \in Nat \ {0}
    BY <1>1, <1>3, SeqDomain
  <2>2. i \notin 1..(j - 1) /\ j \notin 1..(i - 1)
    BY <1>6, <1>9
  <2>3. QED
    BY <2>1, <2>2
<1>10. QED
  BY <1>2, <1>5, <1>6, <1>8, <1>9

(* The steps that write rows: their ids are those of the table. *)
LEMMA InsertRow ==
    ASSUME PeerInv, NEW row \in Row, row.ip \in Addrs \ Taken, clients' = [clients EXCEPT ![NextId] = row]
    PROVE  /\ clients' \in [ClientIds -> Row \cup {NoRow}] /\ RowsInv' /\ Existing \subseteq Existing'
           /\ NextId \in Existing' /\ clients'[NextId] = row
<1> DEFINE n == Cardinality(Existing)
           h == [i \in 1..1 |-> row.ip]
<1>1. n \in Nat /\ Existing = 1..n /\ NextId = n + 1
  BY RowsCount
<1>2. h \in Injection(1..1, Addrs \ Taken)
  BY DEF Injection, IsInjective
<1>3. n + 1 <= Cardinality(Addrs)
  BY <1>2, Room
<1>4. NextId \in ClientIds
  BY <1>1, <1>3, AddrsCount
<1>5. /\ clients' \in [ClientIds -> Row \cup {NoRow}] /\ clients'[NextId] = row
      /\ \A c \in ClientIds : c # NextId => clients'[c] = clients[c]
  BY <1>4, Parts
<1>6. \A c \in ClientIds : c > n + 1 => clients'[c] = NoRow
  <2>1. \A c \in ClientIds : c > n + 1 => c \notin Existing /\ c # NextId
    BY <1>1
  <2>2. QED
    BY <1>5, <2>1 DEF Existing
<1>7. \A c \in Existing : clients'[c] = clients[c]
  BY <1>1, <1>5 DEF Existing
<1>8. row # NoRow
  BY PeerAssumption
<1>9. \A i \in 1..1 : clients'[n + i] # NoRow /\ clients'[n + i].ip = h[i]
  BY <1>1, <1>5, <1>8
<1> HIDE DEF h
<1>10. RowsInv' /\ Existing \subseteq Existing' /\ \A i \in 1..1 : n + i \in Existing'
  BY <1>2, <1>5, <1>6, <1>7, <1>9, RowsAdded
<1>11. QED
  BY <1>1, <1>5, <1>10


LEMMA InsertBatch ==
    ASSUME PeerInv, NEW r \in Request, NEW b, b = Batch(r),
           \A i \in b : peer_own_ip(r.peers[i]) \notin Taken,
           clients' = WithRows(r, b)
    PROVE  /\ clients' \in [ClientIds -> Row \cup {NoRow}] /\ RowsInv' /\ Existing \subseteq Existing'
           /\ \A c \in Existing : clients'[c] = clients[c]
           /\ \A i \in b : peer_own_ip(r.peers[i]) \in Taken'
<1> DEFINE n == Cardinality(Existing)
           m == Cardinality(b)
           own(i) == peer_own_ip(r.peers[i])
           row(i) == [ip |-> own(i), router |-> NetworksOf(r, i) # {}, nets |-> NetworksOf(r, i)]
<1>1. /\ b \in SUBSET Nat /\ IsFiniteSet(b)
      /\ \A i \in b : own(i) \in Addrs \ Taken /\ row(i) \in Row
      /\ \A i, j \in b : own(i) = own(j) => i = j
  BY BatchRows DEF Row
<1>2. PICK pos \in Injection(1..m, b) :
         /\ \A v \in 1..m : Rank(b, pos[v]) = v - 1
         /\ \A i \in b : \E v \in 1..m : pos[v] = i
  BY <1>1, Ranks
<1>3. pos \in [1..m -> b] /\ m \in Nat
  BY <1>1, <1>2, FS_CardinalityType DEF Injection
<1>4. n \in Nat /\ Existing = 1..n /\ NextId = n + 1
  BY RowsCount
<1>5. clients' = [c \in ClientIds |-> IF \E i \in b : NextId + Rank(b, i) = c
                                      THEN row(CHOOSE j \in b : NextId + Rank(b, j) = c)
                                      ELSE clients[c]]
  <2>1. \A i : IdOf(b, i) = NextId + Rank(b, i)
    BY DEF IdOf, Rank
  <2>2. \A i : row(i) = [ip |-> peer_own_ip(r.peers[i]), router |-> NetworksOf(r, i) # {}, nets |-> NetworksOf(r, i)]
    OBVIOUS
  <2> HIDE DEF row
  <2>3. QED
    BY <2>1, <2>2 DEF WithRows
<1> HIDE DEF n, m, own, row
<1>6. \A i \in b : \E v \in 1..m : pos[v] = i /\ NextId + Rank(b, i) = n + v
  <2> TAKE i \in b
  <2>1. PICK v \in 1..m : pos[v] = i
    BY <1>2
  <2>2. Rank(b, i) = v - 1
    BY <1>2, <2>1
  <2>3. QED
    BY <1>3, <1>4, <2>1, <2>2
<1>7. ASSUME NEW v \in 1..m PROVE n + v \in ClientIds => clients'[n + v] = row(pos[v])
  <2>1. pos[v] \in b /\ NextId + Rank(b, pos[v]) = n + v
    BY <1>2, <1>3, <1>4
  <2>2. \A j \in b : NextId + Rank(b, j) = n + v => j = pos[v]
    <3> SUFFICES ASSUME NEW j \in b, NextId + Rank(b, j) = n + v PROVE j = pos[v]
      OBVIOUS
    <3>1. PICK w \in 1..m : pos[w] = j /\ NextId + Rank(b, j) = n + w
      BY <1>6
    <3>2. w = v
      BY <1>3, <1>4, <3>1
    <3>3. QED
      BY <3>1, <3>2
  <2>3. (CHOOSE j \in b : NextId + Rank(b, j) = n + v) = pos[v]
    BY <2>1, <2>2
  <2>4. QED
    BY <1>5, <2>1, <2>3
<1>8. \A c \in ClientIds : c \notin (n + 1)..(n + m) => clients'[c] = clients[c]
  <2> SUFFICES ASSUME NEW c \in ClientIds, c \notin (n + 1)..(n + m) PROVE clients'[c] = clients[c]
    OBVIOUS
  <2>1. \A i \in b : NextId + Rank(b, i) # c
    BY <1>3, <1>4, <1>6
  <2>2. QED
    BY <1>5, <2>1
<1> DEFINE h == [v \in 1..m |-> own(pos[v])]
<1>9. h \in Injection(1..m, Addrs \ Taken)
  <2>1. \A v, w \in 1..m : pos[v] = pos[w] => v = w
    BY <1>2 DEF Injection, IsInjective
  <2>2. \A v \in 1..m : pos[v] \in b /\ own(pos[v]) \in Addrs \ Taken
    BY <1>1, <1>3
  <2>3. \A v, w \in 1..m : own(pos[v]) = own(pos[w]) => v = w
    BY <1>1, <2>1, <2>2
  <2>4. QED
    BY <2>2, <2>3 DEF Injection, IsInjective
<1>10. n + m <= Cardinality(Addrs)
  BY <1>3, <1>9, Room DEF n
<1>11. \A v \in 1..m : n + v \in ClientIds
  BY <1>3, <1>4, <1>10, AddrsCount
<1>12. \A v \in 1..m : clients'[n + v] = row(pos[v]) /\ clients'[n + v] \in Row
  <2> TAKE v \in 1..m
  <2>1. pos[v] \in b
    BY <1>3
  <2>2. row(pos[v]) \in Row
    BY <1>1, <2>1
  <2>3. clients'[n + v] = row(pos[v])
    BY <1>7, <1>11
  <2>4. QED
    BY <2>2, <2>3
<1>13. \A c \in ClientIds : c \in (n + 1)..(n + m) => \E v \in 1..m : c = n + v
  <2> SUFFICES ASSUME NEW c \in ClientIds, c \in (n + 1)..(n + m) PROVE \E v \in 1..m : c = n + v
    OBVIOUS
  <2>1. c - n \in 1..m /\ c = n + (c - n)
    BY <1>3, <1>4
  <2>2. QED
    BY <2>1
<1>14. clients' \in [ClientIds -> Row \cup {NoRow}]
  <2>1. \A c \in ClientIds : clients'[c] \in Row \cup {NoRow}
    BY <1>8, <1>12, <1>13, Parts
  <2>2. clients' = [c \in ClientIds |-> clients'[c]]
    BY <1>5
  <2>3. QED
    BY <2>1, <2>2
<1>15. \A c \in Existing : clients'[c] = clients[c]
  <2> TAKE c \in Existing
  <2>1. c \in ClientIds /\ c \notin (n + 1)..(n + m)
    BY <1>3, <1>4 DEF Existing
  <2>2. QED
    BY <1>8, <2>1
<1>16. \A c \in ClientIds : c > n + m => clients'[c] = NoRow
  <2>1. \A c \in ClientIds : c > n + m => c \notin Existing /\ c \notin (n + 1)..(n + m)
    BY <1>3, <1>4
  <2>2. QED
    BY <1>8, <2>1 DEF Existing
<1>17. \A v \in 1..m : clients'[n + v] # NoRow /\ clients'[n + v].ip = own(pos[v])
  <2>1. \A i : row(i).ip = own(i)
    BY DEF row
  <2>2. QED
    BY <1>12, <2>1, PeerAssumption, Zenon
<1>18. \A v \in 1..m : h[v] = own(pos[v])
  OBVIOUS
<1> HIDE DEF h
<1>19. RowsInv' /\ Existing \subseteq Existing' /\ \A v \in 1..m : n + v \in Existing'
  <2>1. \A i \in 1..m : clients'[n + i] # NoRow /\ clients'[n + i].ip = h[i]
    BY <1>17, <1>18, Zenon
  <2>2. QED
    BY <1>3, <1>9, <1>14, <1>15, <1>16, <2>1, RowsAdded, Zenon DEF n
<1>20. \A i \in b : own(i) \in Taken'
  <2> SUFFICES ASSUME NEW i \in b PROVE own(i) \in Taken'
    OBVIOUS
  <2>1. PICK v \in 1..m : pos[v] = i
    BY <1>6
  <2>2. n + v \in Existing' /\ clients'[n + v].ip = own(i)
    BY <1>17, <1>19, <2>1
  <2>3. QED
    BY <2>2 DEF Taken
<1>21. QED
  BY <1>14, <1>15, <1>19, <1>20 DEF own

-----------------------------------------------------------------------------
(* The steps of a request *)

LEMMA StepsAre ==
    ASSUME NEW r \in Request, r.op # "add_client", r.op # "set_client_kind", r.at \in StepsOf(r.op)
    PROVE  /\ r.op = "none" <=> r.at = "idle"
           /\ r.op # "none" => "reply" \in StepsOf(r.op)
           /\ r.at \in {"hub", "grep", "append", "insert", "findTag", "addTag", "assignTag"} => Registering(r)
           /\ r.at \in {"openTmp", "awk", "mv", "list", "fetch"} => Changing(r)
           /\ r.at = "readdress" => r.op = "set_client_wg_ip"
           /\ r.at = "store" => Registering(r) \/ r.op = "set_client_networks"
           /\ r.at \in {"wgSet", "routes"} => Registering(r) \/ Changing(r)
           /\ r.at \in {"info", "existing", "fetchAll", "rows"} => r.op = "import_peers"
           /\ r.at \in {"subnet", "inUse", "free"} => r.op = "suggest_free_ip"
           /\ Registering(r) => StepsOf(r.op) = {"hub", "wgSet", "routes", "grep", "append", "insert",
                                                 "findTag", "addTag", "assignTag", "store", "reply"}
           /\ r.op = "set_client_networks" =>
                 StepsOf(r.op) = {"store", "list", "fetch", "wgSet", "routes", "openTmp", "awk", "mv", "reply"}
           /\ r.op = "set_client_wg_ip" =>
                 StepsOf(r.op) = {"fetch", "list", "wgSet", "routes", "openTmp", "awk", "mv", "readdress", "reply"}
           /\ r.op = "import_peers" => StepsOf(r.op) = {"info", "existing", "fetchAll", "rows", "reply"}
           /\ r.op = "suggest_free_ip" => StepsOf(r.op) = {"subnet", "inUse", "free", "reply"}
           /\ r.op = "none" => StepsOf(r.op) = {"idle"}
<1>1. r.op \in {"none", "provision_register", "provision_desktop_config", "set_client_networks",
                "set_client_wg_ip", "import_peers", "suggest_free_ip"}
  BY PeerAssumption DEF Request
<1>2. r.at \in StepsOf(r.op)
  OBVIOUS
<1>3. CASE r.op = "none"
  BY <1>2, <1>3 DEF StepsOf, Registering, Changing
<1>4. CASE Registering(r)
  BY <1>2, <1>4 DEF StepsOf, Registering, Changing
<1>5. CASE r.op = "set_client_networks"
  BY <1>2, <1>5 DEF StepsOf, Registering, Changing
<1>6. CASE r.op = "set_client_wg_ip"
  BY <1>2, <1>6 DEF StepsOf, Registering, Changing
<1>7. CASE r.op = "import_peers"
  BY <1>2, <1>7 DEF StepsOf, Registering, Changing
<1>8. CASE r.op = "suggest_free_ip"
  BY <1>2, <1>8 DEF StepsOf, Registering, Changing
<1>9. QED
  BY <1>1, <1>3, <1>4, <1>5, <1>6, <1>7, <1>8 DEF Registering

LEMMA Advance ==
    ASSUME PeerInv, NEW t \in Threads, NEW r \in Request, req' = [req EXCEPT ![t] = r],
           Existing \subseteq Existing', RequestOK(r)'
    PROVE  req' \in [Threads -> Request] /\ \A u \in Threads : RequestOK(req[u])'
<1>1. req' \in [Threads -> Request] /\ \A u \in Threads : req'[u] = IF u = t THEN r ELSE req[u]
  BY Parts
<1>2. ASSUME NEW u \in Threads PROVE RequestOK(req[u])'
  <2>1. CASE u = t
    BY <1>1, <2>1 DEF RequestOK, Registering, Changing
  <2>2. CASE u # t
    <3>1. req'[u] = req[u] /\ RequestOK(req[u])
      BY <1>1, <2>2, Parts
    <3>2. QED
      BY <3>1 DEF RequestOK, Registering, Changing
  <2>3. QED
    BY <2>1, <2>2
<1>3. QED
  BY <1>1, <1>2

(* A step that only moves on: the request is for the same client and, from *)
(* when its peer is known, for the same peer.                              *)
LEMMA MoveOn ==
    ASSUME PeerInv, NEW t \in Threads, NEW r \in Request, req' = [req EXCEPT ![t] = r],
           Existing \subseteq Existing',
           r.op = req[t].op, r.at \in StepsOf(r.op),
           r.ip = req[t].ip \/ r.ip \in Addrs,
           r.key = req[t].key \/ r.key \in Keys,
           r.cid = req[t].cid \/ r.cid \in Existing',
           r.at \in ScriptSteps \/ (r.op = "set_client_wg_ip" /\ r.at = "list") =>
              Registering(r) \/ r.key \in Keys,
           Registering(r) /\ r.at \in {"findTag", "addTag", "assignTag", "store"} => r.cid \in Existing'
    PROVE  req' \in [Threads -> Request] /\ \A u \in Threads : RequestOK(req[u])'
<1>1. RequestOK(req[t]) /\ req[t] \in Request
  BY Parts
<1>2. Registering(r) <=> Registering(req[t])
  BY DEF Registering
<1>3. Changing(r) <=> Changing(req[t])
  BY DEF Changing
<1>4. r.op # "add_client" /\ r.op # "set_client_kind"
  BY <1>1 DEF RequestOK
<1>5. Registering(r) \/ Changing(r) => r.ip \in Addrs
  BY <1>1, <1>2, <1>3 DEF RequestOK
<1>6. Registering(r) => r.key \in Keys
  BY <1>1, <1>2 DEF RequestOK
<1>7. Changing(r) => r.cid \in Existing'
  BY <1>1, <1>3 DEF RequestOK
<1>8. r.at \in {"findTag", "addTag", "assignTag", "store"} => Registering(r) \/ Changing(r)
  BY <1>4, PeerAssumption DEF StepsOf, Registering, Changing, Request
<1>9. RequestOK(r)'
  BY <1>4, <1>5, <1>6, <1>7, <1>8 DEF RequestOK, Registering, Changing
<1>10. QED
  BY <1>9, Advance

LEMMA RequestParts ==
    ASSUME NEW r \in Request
    PROVE  /\ r.op \in Ops \cup {"none"} /\ r.at \in RequestSteps /\ r.key \in Keys \cup {NoKey}
           /\ r.cid \in ClientIds \cup {0} /\ r.from \in Addrs \cup {NoAddr} /\ r.ip \in Addrs \cup {NoAddr}
           /\ r.nets \in SUBSET (Nets \cup {MeshNet}) /\ r.tagging \in BOOLEAN
           /\ r.told \in {"new", "existing"} /\ r.known \in BOOLEAN /\ r.out \in {"tmp", "conf", "gone"}
           /\ r.mesh \in BOOLEAN /\ r.ips \in SUBSET Addrs /\ r.peers \in Seq(Block) /\ r.failed \in BOOLEAN
BY DEF Request

LEMMA BrokenIs ==
    ASSUME PeerInv, NEW t \in Threads, req[t].at # "idle"
    PROVE  /\ Broken(req[t]) \in Request
           /\ Broken(req[t]) = [req[t] EXCEPT !.failed = TRUE, !.at = Broken(req[t]).at]
           /\ Broken(req[t]).at \in StepsOf(req[t].op)
           /\ \/ Broken(req[t]).at = "reply"
              \/ /\ Broken(req[t]).at = "readdress" /\ req[t].op = "set_client_wg_ip"
                 /\ req[t].at \in ScriptSteps
           /\ req[t].op = "set_client_wg_ip" /\ req[t].at \in ScriptSteps => Broken(req[t]).at = "readdress"
<1>1. req[t] \in Request /\ RequestOK(req[t])
  BY Parts
<1>2. req[t].op # "none" /\ "reply" \in StepsOf(req[t].op)
         /\ (req[t].op = "set_client_wg_ip" => "readdress" \in StepsOf(req[t].op))
  BY <1>1, StepsAre DEF RequestOK
<1>3. PICK step \in {"reply", "readdress"} :
         /\ step = IF req[t].op = "set_client_wg_ip" /\ req[t].at \in ScriptSteps THEN "readdress" ELSE "reply"
         /\ Broken(req[t]) = [req[t] EXCEPT !.failed = TRUE, !.at = step]
  BY DEF Broken
<1>4. PICK r \in Request : r = req[t]
  BY <1>1
<1>5. step \in RequestSteps
  BY DEF RequestSteps
<1>6. /\ [r EXCEPT !.failed = TRUE, !.at = step] \in Request
      /\ [r EXCEPT !.failed = TRUE, !.at = step].at = step
  BY <1>5 DEF Request
<1>7. QED
  BY <1>1, <1>2, <1>3, <1>4, <1>6

LEMMA Fails ==
    ASSUME PeerInv, NEW t \in Threads, req[t].at # "idle", Fail(t), clients' = clients
    PROVE  req' \in [Threads -> Request] /\ \A u \in Threads : RequestOK(req[u])'
<1>1. PICK r : r = Broken(req[t])
  OBVIOUS
<1>2. req[t] \in Request
  BY Parts
<1>3. /\ r \in Request /\ r = [req[t] EXCEPT !.failed = TRUE, !.at = r.at]
      /\ r.at \in StepsOf(req[t].op) /\ r.at \in {"reply", "readdress"}
  BY <1>1, BrokenIs
<1>4. r.op = req[t].op /\ r.ip = req[t].ip /\ r.key = req[t].key /\ r.cid = req[t].cid
  BY <1>2, <1>3 DEF Request
<1>5. req' = [req EXCEPT ![t] = r] /\ Existing' = Existing
  BY <1>1 DEF Fail, Move, Existing
<1>6. QED
  BY <1>3, <1>4, <1>5, MoveOn DEF ScriptSteps

LEMMA Goes ==
    ASSUME PeerInv, NEW t \in Threads, NEW step \in StepsOf(req[t].op), Goto(t, step),
           step \in RequestSteps, Existing \subseteq Existing',
           step \in ScriptSteps \/ (req[t].op = "set_client_wg_ip" /\ step = "list") =>
              Registering(req[t]) \/ req[t].key \in Keys,
           Registering(req[t]) /\ step \in {"findTag", "addTag", "assignTag", "store"} =>
              req[t].cid \in Existing'
    PROVE  req' \in [Threads -> Request] /\ \A u \in Threads : RequestOK(req[u])'
<1>1. req[t] \in Request
  BY Parts
<1>2. PICK r : r = [req[t] EXCEPT !.at = step]
  OBVIOUS
<1>3. /\ r \in Request /\ r.op = req[t].op /\ r.ip = req[t].ip /\ r.key = req[t].key
      /\ r.cid = req[t].cid /\ r.at = step
  BY <1>1, <1>2 DEF Request
<1>4. req' = [req EXCEPT ![t] = r]
  BY <1>2 DEF Goto, Move
<1>5. Registering(r) <=> Registering(req[t])
  BY <1>3 DEF Registering
<1>6. QED
  BY <1>3, <1>4, <1>5, MoveOn

(* Why it is enough to look at the parts. *)
LEMMA Together ==
    ASSUME live' \in [Keys -> SUBSET Cidrs], routes' \subseteq Cidrs, conf' \in Seq(Block),
           tmp' = NoFile \/ tmp' \in Seq(Block), clients' \in [ClientIds -> Row \cup {NoRow}],
           tag' \in BOOLEAN, tagged' \subseteq ClientIds, begun' \in 0..MaxRequests, RowsInv',
           refused' \subseteq Cidrs, astray' \in BOOLEAN,
           req' \in [Threads -> Request], \A u \in Threads : RequestOK(req[u])'
    PROVE  PeerInv'
<1>1. ASSUME NEW u \in Threads, req'[u].at \in ScriptSteps PROVE req'[u].key \in Keys /\ req'[u].ip \in Addrs
  <2>1. PICK r \in Request : r = req'[u]
    OBVIOUS
  <2>2. RequestOK(req[u])'
    OBVIOUS
  <2>3. /\ r.op # "add_client" /\ r.op # "set_client_kind" /\ r.at \in StepsOf(r.op)
        /\ Registering(r) \/ r.at \in ScriptSteps => r.key \in Keys
        /\ Registering(r) \/ Changing(r) => r.ip \in Addrs
    BY <2>1, <2>2 DEF RequestOK, Registering, Changing
  <2>4. Registering(r) \/ Changing(r)
    <3>1. r.at \in ScriptSteps
      BY <1>1, <2>1
    <3>2. QED
      BY <2>3, <3>1, StepsAre DEF ScriptSteps
  <2>5. QED
    BY <1>1, <2>1, <2>3, <2>4
<1>2. QED
  BY <1>1 DEF PeerInv, TypeOK

-----------------------------------------------------------------------------
(* What a step leaves is of the right kind *)

LEMMA SameRows ==
    ASSUME PeerInv, UNCHANGED clients
    PROVE  clients' \in [ClientIds -> Row \cup {NoRow}] /\ RowsInv' /\ Existing' = Existing
<1>1. RowsInv /\ Existing' = Existing
  BY DEF PeerInv, Existing
<1>2. QED
  BY <1>1, Parts DEF RowsInv

(* A script runs for a peer with an address, and does not touch the tables. *)
LEMMA ScriptFor ==
    ASSUME PeerInv, NEW t \in Threads, req[t].at \in ScriptSteps
    PROVE  /\ req[t] \in Request /\ req[t].op # "none" /\ req[t].at # "idle"
           /\ Registering(req[t]) \/ Changing(req[t])
           /\ req[t].key \in Keys /\ req[t].ip \in Addrs
           /\ {req[t].ip} \cup req[t].nets \in SUBSET Cidrs
           /\ req[t].nets \in SUBSET (Nets \cup {MeshNet})
<1>1. PICK r \in Request : r = req[t] /\ RequestOK(r)
  BY Parts
<1>2. r.op # "none" /\ (Registering(r) \/ Changing(r))
  BY <1>1, StepsAre DEF RequestOK, ScriptSteps
<1>3. r.key \in Keys /\ r.ip \in Addrs /\ r.nets \in SUBSET (Nets \cup {MeshNet})
  BY <1>1, <1>2, RequestParts DEF RequestOK
<1>4. QED
  BY <1>1, <1>2, <1>3 DEF Cidrs, ScriptSteps

LEMMA ScriptServer ==
    ASSUME PeerInv, NEW t \in Threads, ScriptStep(t)
    PROVE  /\ live' \in [Keys -> SUBSET Cidrs] /\ routes' \subseteq Cidrs /\ conf' \in Seq(Block)
           /\ tmp' = NoFile \/ tmp' \in Seq(Block)
           /\ refused' \subseteq Cidrs
           /\ UNCHANGED dbvars /\ req[t].at \in ScriptSteps
<1>1. req[t].at \in ScriptSteps
  BY DEF ScriptStep, WgSet, RouteReplace, Grep, AppendBlock, OpenTmp, Awk, Rename, CommandFails, ScriptSteps
<1>2. /\ req[t] \in Request /\ req[t].key \in Keys /\ req[t].ip \in Addrs
      /\ {req[t].ip} \cup req[t].nets \in SUBSET Cidrs /\ req[t].nets \in SUBSET (Nets \cup {MeshNet})
  BY <1>1, ScriptFor
<1>3. CASE WgSet(t)
  BY <1>1, <1>2, <1>3, Parts DEF WgSet, Assign, dbvars
<1>4. CASE RouteReplace(t)
  <2>1. PICK cidrs \in SUBSET Cidrs : cidrs = {req[t].ip} \cup req[t].nets
    BY <1>2
  <2>2. PICK accepted \in SUBSET cidrs : /\ routes' = routes \cup accepted
                                         /\ refused' = (refused \cup cidrs) \ accepted
    BY <1>4, <2>1 DEF RouteReplace
  <2>3. QED
    BY <1>1, <1>4, <2>2, Parts DEF RouteReplace, dbvars
<1>5. CASE Grep(t)
  BY <1>1, <1>5, Parts DEF Grep, server, dbvars
<1>6. CASE AppendBlock(t)
  <2>1. PICK b : b = [key |-> req[t].key, host |-> req[t].ip, hint |-> NoAddr,
                      nets |-> req[t].nets, plain |-> TRUE]
    OBVIOUS
  <2>2. b \in Block
    BY <1>2, <2>1 DEF Block
  <2>3. conf' = Append(conf, b)
    BY <1>6, <2>1 DEF AppendBlock
  <2>4. conf' \in Seq(Block)
    BY <2>2, <2>3, Parts, AppendProperties
  <2>5. QED
    BY <1>1, <1>6, <2>4, Parts DEF AppendBlock, dbvars
<1>7. CASE OpenTmp(t)
  <2>1. tmp' \in Seq(Block)
    BY <1>7, EmptySeq DEF OpenTmp
  <2>2. QED
    BY <1>1, <1>7, <2>1, Parts DEF OpenTmp, dbvars
<1>8. CASE Awk(t)
  <2>1. Rewritten(conf, req[t].key, req[t].ip, req[t].nets) \in Seq(Block)
    BY <1>2, Parts, RewrittenType
  <2>2. QED
    BY <1>1, <1>8, <2>1, Parts DEF Awk, dbvars
<1>9. CASE Rename(t)
  BY <1>1, <1>9, Parts DEF Rename, dbvars
<1>10. CASE CommandFails(t)
  BY <1>1, <1>10, Parts DEF CommandFails, dbvars
<1>11. QED
  BY <1>3, <1>4, <1>5, <1>6, <1>7, <1>8, <1>9, <1>10 DEF ScriptStep

LEMMA ScriptRequests ==
    ASSUME PeerInv, NEW t \in Threads, ScriptStep(t)
    PROVE  req' \in [Threads -> Request] /\ \A u \in Threads : RequestOK(req[u])'
<1>1. clients' = clients /\ Existing' = Existing /\ req[t].at \in ScriptSteps
  BY ScriptServer DEF dbvars, Existing
<1>2. /\ req[t] \in Request /\ req[t].op # "none" /\ req[t].at # "idle" /\ req[t].key \in Keys
      /\ Registering(req[t]) \/ Changing(req[t])
  BY <1>1, ScriptFor
<1>3. PICK steps : steps = StepsOf(req[t].op)
  OBVIOUS
<1>4. /\ Registering(req[t]) => {"wgSet", "routes", "grep", "append", "insert", "reply"} \subseteq steps
      /\ Changing(req[t]) => {"routes", "openTmp", "awk", "mv", "reply"} \subseteq steps
      /\ req[t].op = "set_client_wg_ip" => "readdress" \in steps
      /\ req[t].at \in {"grep", "append"} => Registering(req[t])
      /\ req[t].at \in {"openTmp", "awk", "mv"} => Changing(req[t])
  <2>1. PICK r \in Request : r = req[t] /\ RequestOK(r)
    BY Parts
  <2>2. r.op \in {"set_client_networks", "set_client_wg_ip"} <=> Changing(r)
    BY DEF Changing
  <2>3. QED
    BY <1>3, <2>1, <2>2, StepsAre DEF RequestOK
<1>5. \A step \in {"routes", "grep", "openTmp", "insert", "append", "awk", "mv", "reply", "readdress"} :
         step \in RequestSteps
  BY DEF RequestSteps, ScriptSteps
<1>6. CASE WgSet(t)
  BY <1>1, <1>2, <1>3, <1>4, <1>5, <1>6, Goes DEF WgSet
<1>7. CASE RouteReplace(t)
  BY <1>1, <1>2, <1>3, <1>4, <1>5, <1>7, Goes DEF RouteReplace
<1>8. CASE AppendBlock(t)
  BY <1>1, <1>2, <1>3, <1>4, <1>5, <1>8, Goes DEF AppendBlock
<1>9. CASE Awk(t)
  BY <1>1, <1>2, <1>3, <1>4, <1>5, <1>9, Goes DEF Awk
<1>10. CASE Grep(t)
  <2>1. PICK found \in BOOLEAN, step \in {"insert", "append"} :
           req' = [req EXCEPT ![t] = [req[t] EXCEPT !.known = found, !.at = step]]
    BY <1>10 DEF Grep, Move
  <2>2. PICK r : r = [req[t] EXCEPT !.known = found, !.at = step]
    OBVIOUS
  <2>3. /\ r \in Request /\ r.op = req[t].op /\ r.ip = req[t].ip /\ r.key = req[t].key
        /\ r.cid = req[t].cid /\ r.at = step
    BY <1>2, <1>5, <2>2 DEF Request
  <2>4. step \in StepsOf(req[t].op)
    BY <1>3, <1>4, <1>10 DEF Grep
  <2>5. QED
    BY <1>1, <1>2, <2>1, <2>2, <2>3, <2>4, MoveOn
<1>11. CASE OpenTmp(t)
  <2>1. PICK r : r = [req[t] EXCEPT !.out = "tmp", !.at = "awk"]
    OBVIOUS
  <2>2. /\ r \in Request /\ r.op = req[t].op /\ r.ip = req[t].ip /\ r.key = req[t].key
        /\ r.cid = req[t].cid /\ r.at = "awk"
    BY <1>2, <1>5, <2>1 DEF Request
  <2>3. "awk" \in StepsOf(req[t].op)
    BY <1>3, <1>4, <1>11 DEF OpenTmp
  <2>4. QED
    BY <1>1, <1>2, <1>11, <2>1, <2>2, <2>3, MoveOn DEF OpenTmp, Move
<1>12. CASE CommandFails(t)
  BY <1>1, <1>2, <1>12, Fails DEF CommandFails
<1>13. CASE Rename(t)
  <2>1. CASE tmp = NoFile
    BY <1>1, <1>2, <1>13, <2>1, Fails DEF Rename
  <2>2. CASE tmp # NoFile
    <3>1. PICK step \in {"reply", "readdress"} :
             /\ step = IF req[t].op = "set_client_wg_ip" THEN "readdress" ELSE "reply"
             /\ req' = [u \in Threads |-> IF u = t THEN [req[u] EXCEPT !.at = step]
                                          ELSE [req[u] EXCEPT !.out = IF @ = "tmp" THEN "conf" ELSE "gone"]]
      BY <1>13, <2>2 DEF Rename
    <3>2. step \in steps /\ step \in RequestSteps /\ step \notin ScriptSteps
      BY <1>4, <1>5, <1>13, <3>1 DEF Rename, ScriptSteps
    <3>3. ASSUME NEW u \in Threads PROVE req'[u] \in Request /\ RequestOK(req[u])'
      <4>1. PICK r \in Request : r = req[u] /\ RequestOK(r)
        BY Parts
      <4>2. PICK q : q = req'[u]
        OBVIOUS
      <4>3. CASE u = t
        <5>1. q = [r EXCEPT !.at = step]
          BY <3>1, <4>1, <4>2, <4>3
        <5>2. /\ q \in Request /\ q.op = r.op /\ q.ip = r.ip /\ q.key = r.key /\ q.cid = r.cid /\ q.at = step
          BY <3>2, <5>1 DEF Request
        <5>3. RequestOK(q)
          BY <1>2, <1>3, <3>2, <4>1, <4>3, <5>2, <1>4, <1>13 DEF RequestOK, Registering, Changing, Rename
        <5>4. QED
          BY <1>1, <4>2, <5>2, <5>3 DEF RequestOK, Registering, Changing
      <4>4. CASE u # t
        <5>1. PICK o \in {"conf", "gone"} : q = [r EXCEPT !.out = o]
          BY <3>1, <4>1, <4>2, <4>4
        <5>2. /\ q \in Request /\ q.op = r.op /\ q.ip = r.ip /\ q.key = r.key /\ q.cid = r.cid /\ q.at = r.at
          BY <5>1 DEF Request
        <5>3. RequestOK(q)
          BY <4>1, <5>2 DEF RequestOK, Registering, Changing
        <5>4. QED
          BY <1>1, <4>2, <5>2, <5>3 DEF RequestOK, Registering, Changing
      <4>5. QED
        BY <4>3, <4>4
    <3>4. QED
      BY <3>1, <3>3
  <2>3. QED
    BY <2>1, <2>2
<1>14. QED
  BY <1>6, <1>7, <1>8, <1>9, <1>10, <1>11, <1>12, <1>13 DEF ScriptStep

LEMMA IdleParts ==
    /\ Idle \in Request /\ Idle.op = "none" /\ Idle.at = "idle" /\ Idle.key = NoKey /\ Idle.cid = 0
    /\ Idle.from = NoAddr /\ Idle.ip = NoAddr /\ Idle.nets = {} /\ Idle.tagging = FALSE /\ Idle.told = "new"
    /\ Idle.known = FALSE /\ Idle.peers = <<>> /\ Idle.failed = FALSE
<1>1. <<>> \in Seq(Block) /\ "idle" \in RequestSteps
  BY EmptySeq DEF RequestSteps
<1>2. QED
  BY <1>1 DEF Idle, Request

LEMMA ChangeRow ==
    ASSUME PeerInv, NEW c \in Existing, NEW row \in Row, clients' = [clients EXCEPT ![c] = row],
           \A d \in Existing \ {c} : clients[d].ip # row.ip
    PROVE  /\ clients' \in [ClientIds -> Row \cup {NoRow}] /\ RowsInv' /\ Existing' = Existing
           /\ clients'[c] = row /\ \A d \in ClientIds \ {c} : clients'[d] = clients[d]
<1>1. c \in ClientIds /\ clients[c] # NoRow
  BY DEF Existing
<1>2. /\ clients' \in [ClientIds -> Row \cup {NoRow}]
      /\ clients'[c] = row /\ \A d \in ClientIds \ {c} : clients'[d] = clients[d]
  BY <1>1, Parts
<1>3. Existing' = Existing
  BY <1>1, <1>2, PeerAssumption DEF Existing
<1>4. ASSUME NEW d \in Existing, NEW e \in Existing, clients'[d].ip = clients'[e].ip PROVE d = e
  <2>1. d \in ClientIds /\ e \in ClientIds
    BY DEF Existing
  <2>2. clients[d].ip = clients[e].ip => d = e
    BY DEF PeerInv, RowsInv
  <2>3. QED
    BY <1>2, <1>4, <2>1, <2>2
<1>5. QED
  BY <1>2, <1>3, <1>4, RowsKept

LEMMA TableReads ==
    ASSUME PeerInv, NEW t \in Threads,
           \/ FetchHub(t) \/ FindTag(t) \/ ListNetworks(t) \/ FindPeer(t) \/ FetchInfo(t) \/ ReadExisting(t)
           \/ FetchPeers(t) \/ FetchSubnet(t) \/ FetchInUse(t) \/ SuggestFree(t) \/ Reply(t)
    PROVE  /\ UNCHANGED <<server, dbvars>>
           /\ req' \in [Threads -> Request] /\ \A u \in Threads : RequestOK(req[u])'
<1>1. UNCHANGED <<server, dbvars>>
  BY DEF FetchHub, FindTag, ListNetworks, FindPeer, FetchInfo, ReadExisting, FetchPeers, FetchSubnet,
         FetchInUse, SuggestFree, Reply
<1> SUFFICES req' \in [Threads -> Request] /\ \A u \in Threads : RequestOK(req[u])'
  BY <1>1
<1>2. clients' = clients /\ Existing' = Existing
  BY <1>1 DEF dbvars, Existing
<1>3. PICK q \in Request : q = req[t] /\ RequestOK(q)
  BY Parts
<1>4. PICK steps : steps = StepsOf(q.op)
  OBVIOUS
<1>5. /\ Registering(q) => {"wgSet", "addTag", "assignTag", "reply"} \subseteq steps
      /\ q.op = "set_client_networks" => {"fetch", "wgSet", "reply"} \subseteq steps
      /\ q.op = "set_client_wg_ip" => {"list", "wgSet", "readdress", "reply"} \subseteq steps
      /\ q.op = "import_peers" => {"existing", "fetchAll", "rows", "reply"} \subseteq steps
      /\ q.op = "suggest_free_ip" => {"inUse", "free", "reply"} \subseteq steps
      /\ q.at \in {"hub", "findTag"} => Registering(q)
      /\ q.at \in {"list", "fetch"} => q.op \in {"set_client_networks", "set_client_wg_ip"}
      /\ q.at \in {"info", "existing", "fetchAll", "rows"} => q.op = "import_peers"
      /\ q.at \in {"subnet", "inUse", "free"} => q.op = "suggest_free_ip"
  BY <1>3, <1>4, StepsAre DEF RequestOK, Changing
<1>6. /\ \A step \in {"wgSet", "addTag", "assignTag", "reply", "fetch", "list", "readdress", "existing",
                      "fetchAll", "rows", "inUse", "free"} : step \in RequestSteps
      /\ \A step \in {"addTag", "assignTag", "reply", "fetch", "list", "readdress", "existing",
                      "fetchAll", "rows", "inUse", "free"} : step \notin ScriptSteps
  BY DEF RequestSteps, ScriptSteps
<1>7. CASE FetchHub(t)
  <2>1. CASE Goto(t, "wgSet")
    BY <1>2, <1>3, <1>4, <1>5, <1>6, <1>7, <2>1, Goes DEF FetchHub, Registering
  <2>2. CASE Fail(t)
    BY <1>2, <1>3, <1>7, <2>2, Fails DEF FetchHub
  <2>3. QED
    BY <1>7, <2>1, <2>2 DEF FetchHub
<1>8. CASE FindTag(t)
  <2>1. PICK step \in {"addTag", "assignTag"} : Goto(t, step)
    BY <1>8 DEF FindTag
  <2>2. q.at = "findTag" /\ q.cid \in Existing
    BY <1>3, <1>8 DEF FindTag, RequestOK
  <2>3. QED
    BY <1>2, <1>3, <1>4, <1>5, <1>6, <2>1, <2>2, Goes
<1>9. CASE ListNetworks(t)
  <2>1. q.at = "list" /\ q.op \in {"set_client_networks", "set_client_wg_ip"} /\ q.cid \in Existing
    BY <1>3, <1>5, <1>9 DEF ListNetworks, RequestOK, Changing
  <2>2. PICK nets \in SUBSET (Nets \cup {MeshNet}), step \in {"wgSet", "fetch"} :
           /\ step = IF q.op = "set_client_wg_ip" THEN "wgSet" ELSE "fetch"
           /\ req' = [req EXCEPT ![t] = [q EXCEPT !.nets = nets, !.at = step]]
    BY <1>3, <1>9, <2>1, RowType DEF ListNetworks, Move, Row
  <2>3. PICK r : r = [q EXCEPT !.nets = nets, !.at = step]
    OBVIOUS
  <2>4. /\ r \in Request /\ r.op = q.op /\ r.ip = q.ip /\ r.key = q.key /\ r.cid = q.cid /\ r.at = step
    BY <1>6, <2>3 DEF Request
  <2>5. step = "wgSet" => q.key \in Keys
    BY <1>3, <2>1, <2>2 DEF RequestOK
  <2>6. step \in steps
    BY <1>5, <2>1, <2>2
  <2>7. req' = [req EXCEPT ![t] = r]
    BY <2>2, <2>3
  <2>8. r.at \in ScriptSteps \/ (r.op = "set_client_wg_ip" /\ r.at = "list") => r.key \in Keys
    BY <1>6, <2>2, <2>4, <2>5
  <2>9. r.at \notin {"findTag", "addTag", "assignTag", "store"}
    BY <2>2, <2>4
  <2>10. QED
    BY <1>2, <1>3, <1>4, <2>4, <2>6, <2>7, <2>8, <2>9, MoveOn
<1>10. CASE FindPeer(t)
  <2>1. q.at = "fetch" /\ q.op \in {"set_client_networks", "set_client_wg_ip"}
    BY <1>3, <1>5, <1>10 DEF FindPeer
  <2> DEFINE own == {i \in DOMAIN conf : peer_own_ip(conf[i]) = q.from}
  <2>2. CASE own # {} /\ Move(t, [q EXCEPT !.key = conf[Min(own)].key,
                                           !.at = IF q.op = "set_client_wg_ip" THEN "list" ELSE "wgSet"])
    <3>1. \A i \in DOMAIN conf : i \in Nat /\ conf[i] \in Block
      BY Parts, SeqDomain
    <3>2. Min(own) \in own
      BY <2>2, <3>1, Least
    <3>3. PICK k \in Keys : k = conf[Min(own)].key
      BY <3>1, <3>2, BlockType
    <3>4. PICK step \in {"list", "wgSet"} : step = IF q.op = "set_client_wg_ip" THEN "list" ELSE "wgSet"
      OBVIOUS
    <3>5. PICK r : r = [q EXCEPT !.key = k, !.at = step]
      OBVIOUS
    <3>6. /\ r \in Request /\ r.op = q.op /\ r.ip = q.ip /\ r.key = k /\ r.cid = q.cid /\ r.at = step
      BY <1>6, <3>5 DEF Request
    <3>7. req' = [req EXCEPT ![t] = r]
      BY <2>2, <3>3, <3>4, <3>5 DEF Move
    <3>8. step \in steps
      BY <1>5, <2>1, <3>4
    <3>9. QED
      BY <1>2, <1>3, <1>4, <1>6, <2>1, <3>3, <3>4, <3>6, <3>7, <3>8, MoveOn
  <2>3. CASE q.op = "set_client_wg_ip" /\ Goto(t, "readdress")
    BY <1>2, <1>3, <1>4, <1>5, <1>6, <2>3, Goes DEF Registering
  <2>4. CASE Fail(t)
    BY <1>2, <1>3, <2>1, <2>4, Fails
  <2>5. QED
    BY <1>3, <1>10, <2>2, <2>3, <2>4 DEF FindPeer
<1>11. CASE FetchInfo(t) \/ ReadExisting(t)
  <2>1. PICK b \in BOOLEAN, ips \in SUBSET Addrs, step \in {"existing", "fetchAll"} :
           req' = [req EXCEPT ![t] = [q EXCEPT !.mesh = b, !.ips = ips, !.at = step]]
    <3>1. CASE FetchInfo(t)
      <4>1. PICK b \in BOOLEAN : req' = [req EXCEPT ![t] = [q EXCEPT !.mesh = b, !.at = "existing"]]
        BY <1>3, <3>1 DEF FetchInfo, Move
      <4>2. q.ips \in SUBSET Addrs
        BY RequestParts
      <4>3. [q EXCEPT !.mesh = b, !.at = "existing"] = [q EXCEPT !.mesh = b, !.ips = q.ips, !.at = "existing"]
        BY DEF Request
      <4>4. QED
        BY <4>1, <4>2, <4>3
    <3>2. CASE ReadExisting(t)
      <4>1. req' = [req EXCEPT ![t] = [q EXCEPT !.ips = Taken, !.at = "fetchAll"]]
        BY <1>3, <3>2 DEF ReadExisting, Move
      <4>2. q.mesh \in BOOLEAN /\ Taken \in SUBSET Addrs
        BY RequestParts, RowType DEF Taken
      <4>3. [q EXCEPT !.ips = Taken, !.at = "fetchAll"]
               = [q EXCEPT !.mesh = q.mesh, !.ips = Taken, !.at = "fetchAll"]
        BY DEF Request
      <4>4. QED
        BY <4>1, <4>2, <4>3
    <3>3. QED
      BY <1>11, <3>1, <3>2
  <2>2. PICK r : r = [q EXCEPT !.mesh = b, !.ips = ips, !.at = step]
    OBVIOUS
  <2>3. /\ r \in Request /\ r.op = q.op /\ r.ip = q.ip /\ r.key = q.key /\ r.cid = q.cid /\ r.at = step
    BY <1>6, <2>2 DEF Request
  <2>4. q.op = "import_peers" /\ step \in steps
    BY <1>3, <1>5, <1>11 DEF FetchInfo, ReadExisting
  <2>5. QED
    BY <1>2, <1>3, <1>4, <1>6, <2>1, <2>2, <2>3, <2>4, MoveOn DEF Registering
<1>12. CASE FetchPeers(t) \/ FetchInUse(t)
  <2>1. CASE Fail(t)
    BY <1>2, <1>3, <1>12, <2>1, Fails DEF FetchPeers, FetchInUse
  <2>2. CASE ~Fail(t)
    <3>1. PICK c \in Seq(Block), step \in {"rows", "free"} :
             /\ step = IF q.op = "import_peers" THEN "rows" ELSE "free"
             /\ req' = [req EXCEPT ![t] = [q EXCEPT !.peers = c, !.at = step]]
      BY <1>3, <1>5, <1>12, <2>2, Parts, EmptySeq DEF FetchPeers, FetchInUse, Move
    <3>2. PICK r : r = [q EXCEPT !.peers = c, !.at = step]
      OBVIOUS
    <3>3. /\ r \in Request /\ r.op = q.op /\ r.ip = q.ip /\ r.key = q.key /\ r.cid = q.cid /\ r.at = step
      BY <1>6, <3>2 DEF Request
    <3>4. q.op \in {"import_peers", "suggest_free_ip"} /\ step \in steps
      BY <1>3, <1>5, <1>12, <3>1 DEF FetchPeers, FetchInUse
    <3>5. QED
      BY <1>2, <1>3, <1>4, <1>6, <3>1, <3>2, <3>3, <3>4, MoveOn DEF Registering
  <2>3. QED
    BY <2>1, <2>2
<1>13. CASE FetchSubnet(t)
  <2>1. CASE Goto(t, "inUse")
    BY <1>2, <1>3, <1>4, <1>5, <1>6, <1>13, <2>1, Goes DEF FetchSubnet, Registering
  <2>2. CASE Fail(t)
    BY <1>2, <1>3, <1>13, <2>2, Fails DEF FetchSubnet
  <2>3. QED
    BY <1>13, <2>1, <2>2 DEF FetchSubnet
<1>14. CASE SuggestFree(t)
  <2>1. CASE Fail(t)
    BY <1>2, <1>3, <1>14, <2>1, Fails DEF SuggestFree
  <2>2. CASE ~Fail(t)
    <3>1. PICK a \in Addrs : req' = [req EXCEPT ![t] = [q EXCEPT !.ip = a, !.at = "reply"]]
      BY <1>3, <1>14, <2>2 DEF SuggestFree, Move
    <3>2. PICK r : r = [q EXCEPT !.ip = a, !.at = "reply"]
      OBVIOUS
    <3>3. /\ r \in Request /\ r.op = q.op /\ r.ip = a /\ r.key = q.key /\ r.cid = q.cid /\ r.at = "reply"
      BY <1>6, <3>2 DEF Request
    <3>4. "reply" \in steps
      BY <1>3, <1>5, <1>14 DEF SuggestFree
    <3>5. QED
      BY <1>2, <1>3, <1>4, <1>6, <3>1, <3>2, <3>3, <3>4, MoveOn
  <2>3. QED
    BY <2>1, <2>2
<1>15. CASE Reply(t)
  <2>1. req' = [req EXCEPT ![t] = Idle]
    BY <1>15 DEF Reply, Move
  <2>2. RequestOK(Idle)'
    BY IdleParts DEF RequestOK, Registering, Changing, StepsOf, ScriptSteps
  <2>3. QED
    BY <1>2, <2>1, <2>2, IdleParts, Advance
<1>16. QED
  BY <1>7, <1>8, <1>9, <1>10, <1>11, <1>12, <1>13, <1>14, <1>15

(* A transaction of an import, with what its rows are. *)
LEMMA ImportIs ==
    ASSUME PeerInv, NEW t \in Threads, ImportRows(t)
    PROVE  \/ Batch(req[t]) = {} /\ Goto(t, "reply") /\ UNCHANGED clients
           \/ Fail(t) /\ UNCHANGED clients
           \/ /\ clients' \in [ClientIds -> Row \cup {NoRow}] /\ RowsInv' /\ Existing \subseteq Existing'
              /\ \A c \in Existing : clients'[c] = clients[c]
              /\ \E ips \in SUBSET Addrs :
                    /\ ips \subseteq Taken'
                    /\ req' = [req EXCEPT ![t] = [req[t] EXCEPT !.ips = req[t].ips \cup ips]]
<1>1. PICK q \in Request : q = req[t]
  BY Parts
<1>2. PICK b : b = Batch(q)
  OBVIOUS
<1>3. PICK ips : ips = {peer_own_ip(q.peers[i]) : i \in b}
  OBVIOUS
<1>4. \/ b = {} /\ Goto(t, "reply") /\ UNCHANGED clients
      \/ Fail(t) /\ UNCHANGED clients
      \/ /\ ips \cap Taken = {} /\ clients' = WithRows(q, b)
         /\ Move(t, [q EXCEPT !.ips = q.ips \cup ips])
  BY <1>1, <1>2, <1>3 DEF ImportRows
<1>5. ASSUME ips \cap Taken = {}, clients' = WithRows(q, b)
      PROVE  /\ clients' \in [ClientIds -> Row \cup {NoRow}] /\ RowsInv' /\ Existing \subseteq Existing'
             /\ \A c \in Existing : clients'[c] = clients[c]
             /\ ips \subseteq Taken'
  BY <1>2, <1>3, <1>5, InsertBatch
<1>6. ips \in SUBSET Addrs
  BY <1>2, <1>3, BatchRows
<1>7. QED
  BY <1>1, <1>2, <1>4, <1>5, <1>6 DEF Move

LEMMA TableWrites ==
    ASSUME PeerInv, NEW t \in Threads,
           \/ InsertClient(t) \/ AddTag(t) \/ set_client_tags(t) \/ StoreNetworks(t) \/ Readdress(t)
           \/ ImportRows(t)
    PROVE  /\ UNCHANGED server /\ tag' \in BOOLEAN /\ tagged' \subseteq ClientIds
           /\ clients' \in [ClientIds -> Row \cup {NoRow}] /\ RowsInv' /\ Existing \subseteq Existing'
           /\ req' \in [Threads -> Request] /\ \A u \in Threads : RequestOK(req[u])'
<1>1. PICK q \in Request : q = req[t] /\ RequestOK(q)
  BY Parts
<1>2. PICK steps : steps = StepsOf(q.op)
  OBVIOUS
<1>3. /\ Registering(q) => {"findTag", "assignTag", "store", "reply"} \subseteq steps
      /\ q.op = "set_client_networks" => {"list", "reply"} \subseteq steps
      /\ q.op = "set_client_wg_ip" => "reply" \in steps
      /\ q.op = "import_peers" => "reply" \in steps
      /\ q.at \in {"insert", "addTag", "assignTag"} => Registering(q)
      /\ q.at = "store" => Registering(q) \/ q.op = "set_client_networks"
      /\ q.at = "readdress" => q.op = "set_client_wg_ip"
      /\ q.at = "rows" => q.op = "import_peers"
  BY <1>1, <1>2, StepsAre DEF RequestOK
<1>4. \A step \in {"findTag", "assignTag", "store", "reply", "list", "rows"} :
         step \in RequestSteps /\ step \notin ScriptSteps
  BY DEF RequestSteps, ScriptSteps
<1>5. CASE InsertClient(t)
  <2>1. q.at = "insert" /\ Registering(q) /\ q.ip \in Addrs
    BY <1>1, <1>3, <1>5 DEF InsertClient, RequestOK
  <2>2. CASE /\ q.ip \notin Taken
             /\ \E b \in BOOLEAN : clients' = [clients EXCEPT ![NextId] = [ip |-> q.ip, router |-> b, nets |-> {}]]
             /\ Move(t, [q EXCEPT !.cid = NextId, !.at = IF q.tagging THEN "findTag" ELSE StoreOrReply(q)])
    <3>1. PICK row \in Row : row.ip = q.ip /\ clients' = [clients EXCEPT ![NextId] = row]
      <4>1. PICK b \in BOOLEAN : clients' = [clients EXCEPT ![NextId] = [ip |-> q.ip, router |-> b, nets |-> {}]]
        BY <2>2
      <4>2. [ip |-> q.ip, router |-> b, nets |-> {}] \in Row
        BY <2>1 DEF Row
      <4>3. QED
        BY <4>1, <4>2
    <3>2. /\ clients' \in [ClientIds -> Row \cup {NoRow}] /\ RowsInv' /\ Existing \subseteq Existing'
          /\ NextId \in Existing'
      BY <2>1, <2>2, <3>1, InsertRow
    <3>3. PICK c \in ClientIds, step \in {"findTag", "store", "reply"} :
             c = NextId /\ Move(t, [q EXCEPT !.cid = c, !.at = step])
      BY <2>2, <3>2 DEF StoreOrReply, Existing
    <3>4. PICK r : r = [q EXCEPT !.cid = c, !.at = step]
      OBVIOUS
    <3>5. /\ r \in Request /\ r.op = q.op /\ r.ip = q.ip /\ r.key = q.key /\ r.cid = c /\ r.at = step
      BY <1>4, <3>4 DEF Request
    <3>6. req' = [req EXCEPT ![t] = r]
      BY <3>3, <3>4 DEF Move
    <3>7. step \in steps /\ c \in Existing'
      BY <1>3, <2>1, <3>2, <3>3
    <3>8. req' \in [Threads -> Request] /\ \A u \in Threads : RequestOK(req[u])'
      BY <1>1, <1>2, <1>4, <3>2, <3>5, <3>6, <3>7, MoveOn
    <3>9. QED
      BY <1>5, <3>2, <3>8, Parts DEF InsertClient
  <2>3. CASE Move(t, [q EXCEPT !.told = "existing", !.at = "reply"]) /\ UNCHANGED clients
    <3>1. PICK r : r = [q EXCEPT !.told = "existing", !.at = "reply"]
      OBVIOUS
    <3>2. /\ r \in Request /\ r.op = q.op /\ r.ip = q.ip /\ r.key = q.key /\ r.cid = q.cid /\ r.at = "reply"
      BY <1>4, <3>1 DEF Request
    <3>3. req' = [req EXCEPT ![t] = r]
      BY <2>3, <3>1 DEF Move
    <3>4. "reply" \in steps
      BY <1>3, <2>1
    <3>5. clients' \in [ClientIds -> Row \cup {NoRow}] /\ RowsInv' /\ Existing' = Existing
      BY <2>3, SameRows
    <3>6. req' \in [Threads -> Request] /\ \A u \in Threads : RequestOK(req[u])'
      BY <1>1, <1>2, <1>4, <3>2, <3>3, <3>4, <3>5, MoveOn
    <3>7. QED
      BY <1>5, <3>5, <3>6, Parts DEF InsertClient
  <2>4. QED
    BY <1>1, <1>5, <2>2, <2>3 DEF InsertClient
<1>6. CASE AddTag(t)
  <2>1. q.at = "addTag" /\ Registering(q) /\ q.cid \in Existing
    BY <1>1, <1>3, <1>6 DEF AddTag, RequestOK
  <2>2. clients' \in [ClientIds -> Row \cup {NoRow}] /\ RowsInv' /\ Existing' = Existing
    BY <1>6, SameRows DEF AddTag
  <2>3. PICK told \in {"new", "existing"}, step \in {"reply", "assignTag"} :
           req' = [req EXCEPT ![t] = [q EXCEPT !.told = told, !.at = step]]
    <3>1. CASE tag
      BY <1>1, <1>6, <3>1 DEF AddTag, Move
    <3>2. CASE ~tag
      <4>1. q.told \in {"new", "existing"} /\ [q EXCEPT !.at = "assignTag"] = [q EXCEPT !.told = q.told, !.at = "assignTag"]
        BY DEF Request
      <4>2. QED
        BY <1>1, <1>6, <3>2, <4>1 DEF AddTag, Move
    <3>3. QED
      BY <3>1, <3>2
  <2>4. PICK r : r = [q EXCEPT !.told = told, !.at = step]
    OBVIOUS
  <2>5. /\ r \in Request /\ r.op = q.op /\ r.ip = q.ip /\ r.key = q.key /\ r.cid = q.cid /\ r.at = step
    BY <1>4, <2>4 DEF Request
  <2>6. req' = [req EXCEPT ![t] = r] /\ step \in steps
    BY <1>3, <2>1, <2>3, <2>4
  <2>7. req' \in [Threads -> Request] /\ \A u \in Threads : RequestOK(req[u])'
    BY <1>1, <1>2, <1>4, <2>1, <2>2, <2>5, <2>6, MoveOn
  <2>8. QED
    BY <1>6, <2>2, <2>7, Parts DEF AddTag
<1>7. CASE set_client_tags(t)
  <2>1. q.at = "assignTag" /\ Registering(q) /\ q.cid \in Existing
    BY <1>1, <1>3, <1>7 DEF set_client_tags, RequestOK
  <2>2. clients' \in [ClientIds -> Row \cup {NoRow}] /\ RowsInv' /\ Existing' = Existing
    BY <1>7, SameRows DEF set_client_tags
  <2>3. PICK step \in {"store", "reply"} : Goto(t, step)
    BY <1>7 DEF set_client_tags, StoreOrReply
  <2>4. req' \in [Threads -> Request] /\ \A u \in Threads : RequestOK(req[u])'
    BY <1>1, <1>2, <1>3, <1>4, <2>1, <2>2, <2>3, Goes
  <2>5. tagged' \subseteq ClientIds
    BY <1>1, <1>7, <2>1, Parts DEF set_client_tags, Existing
  <2>6. QED
    BY <1>7, <2>2, <2>4, <2>5, Parts DEF set_client_tags
<1>8. CASE StoreNetworks(t)
  <2>1. q.at = "store" /\ q.cid \in Existing /\ q.nets \in SUBSET (Nets \cup {MeshNet})
    BY <1>1, <1>8, RequestParts DEF StoreNetworks, RequestOK
  <2>2. PICK row : row = [clients[q.cid] EXCEPT !.nets = q.nets]
    OBVIOUS
  <2>3. row \in Row /\ row.ip = clients[q.cid].ip
    BY <2>1, <2>2, RowType DEF Row
  <2>4. clients' = [clients EXCEPT ![q.cid] = row]
    BY <1>1, <1>8, <2>2 DEF StoreNetworks
  <2>5. \A d \in Existing \ {q.cid} : clients[d].ip # row.ip
    BY <2>1, <2>3 DEF PeerInv, RowsInv
  <2>6. clients' \in [ClientIds -> Row \cup {NoRow}] /\ RowsInv' /\ Existing' = Existing
    BY <2>1, <2>3, <2>4, <2>5, ChangeRow
  <2>7. PICK step \in {"reply", "list"} :
           step = (IF Registering(q) THEN "reply" ELSE "list") /\ Goto(t, step)
    BY <1>1, <1>8 DEF StoreNetworks
  <2>8. step \in steps
    BY <1>3, <2>1, <2>7
  <2>9. step = "list" => q.op # "set_client_wg_ip"
    BY <1>3, <2>1, <2>7
  <2>10. req' \in [Threads -> Request] /\ \A u \in Threads : RequestOK(req[u])'
    BY <1>1, <1>2, <1>4, <2>6, <2>7, <2>8, <2>9, Goes
  <2>11. QED
    BY <1>8, <2>6, <2>10, Parts DEF StoreNetworks
<1>9. CASE Readdress(t)
  <2>1. q.at = "readdress" /\ q.op = "set_client_wg_ip" /\ q.cid \in Existing /\ q.ip \in Addrs
    BY <1>1, <1>3, <1>9 DEF Readdress, RequestOK, Changing
  <2>2. CASE /\ q.ip \notin Taken \ {clients[q.cid].ip}
             /\ clients' = [clients EXCEPT ![q.cid].ip = q.ip] /\ Goto(t, "reply")
    <3>1. PICK row : row = [clients[q.cid] EXCEPT !.ip = q.ip]
      OBVIOUS
    <3>2. row \in Row /\ row.ip = q.ip
      BY <2>1, <3>1, RowType DEF Row
    <3>3. clients' = [clients EXCEPT ![q.cid] = row]
      BY <2>2, <3>1
    <3>4. ASSUME NEW d \in Existing \ {q.cid} PROVE clients[d].ip # row.ip
      <4>1. clients[d].ip # clients[q.cid].ip
        BY <2>1 DEF PeerInv, RowsInv
      <4>2. clients[d].ip \in Taken
        BY RowType
      <4>3. QED
        BY <2>2, <3>2, <4>1, <4>2
    <3>5. clients' \in [ClientIds -> Row \cup {NoRow}] /\ RowsInv' /\ Existing' = Existing
      BY <2>1, <3>2, <3>3, <3>4, ChangeRow
    <3>6. req' \in [Threads -> Request] /\ \A u \in Threads : RequestOK(req[u])'
      BY <1>1, <1>2, <1>3, <1>4, <2>1, <2>2, <3>5, Goes
    <3>7. QED
      BY <1>9, <3>5, <3>6, Parts DEF Readdress
  <2>3. CASE Fail(t) /\ UNCHANGED clients
    <3>1. req' \in [Threads -> Request] /\ \A u \in Threads : RequestOK(req[u])'
      BY <1>1, <2>1, <2>3, Fails
    <3>2. clients' \in [ClientIds -> Row \cup {NoRow}] /\ RowsInv' /\ Existing' = Existing
      BY <2>3, SameRows
    <3>3. QED
      BY <1>9, <3>1, <3>2, Parts DEF Readdress
  <2>4. QED
    BY <1>1, <1>9, <2>2, <2>3 DEF Readdress
<1>10. CASE ImportRows(t)
  <2>1. q.at = "rows" /\ q.op = "import_peers"
    BY <1>1, <1>3, <1>10 DEF ImportRows
  <2>2. UNCHANGED clients =>
           clients' \in [ClientIds -> Row \cup {NoRow}] /\ RowsInv' /\ Existing \subseteq Existing'
    BY SameRows
  <2>3. CASE Goto(t, "reply") /\ UNCHANGED clients
    <3>1. req' \in [Threads -> Request] /\ \A u \in Threads : RequestOK(req[u])'
      BY <1>1, <1>2, <1>3, <1>4, <2>1, <2>2, <2>3, Goes DEF Registering
    <3>2. QED
      BY <1>10, <2>2, <2>3, <3>1, Parts DEF ImportRows
  <2>4. CASE Fail(t) /\ UNCHANGED clients
    <3>1. req' \in [Threads -> Request] /\ \A u \in Threads : RequestOK(req[u])'
      BY <1>1, <2>1, <2>4, Fails
    <3>2. QED
      BY <1>10, <2>2, <2>4, <3>1, Parts DEF ImportRows
  <2>5. ASSUME NEW ips \in SUBSET Addrs, Existing \subseteq Existing',
               clients' \in [ClientIds -> Row \cup {NoRow}], RowsInv',
               req' = [req EXCEPT ![t] = [q EXCEPT !.ips = q.ips \cup ips]]
        PROVE  req' \in [Threads -> Request] /\ \A u \in Threads : RequestOK(req[u])'
    <3>1. PICK all \in SUBSET Addrs : all = q.ips \cup ips
      BY RequestParts
    <3>2. PICK r : r = [q EXCEPT !.ips = all]
      OBVIOUS
    <3>3. /\ r \in Request /\ r.op = q.op /\ r.ip = q.ip /\ r.key = q.key /\ r.cid = q.cid /\ r.at = "rows"
      BY <2>1, <3>2 DEF Request
    <3>4. req' = [req EXCEPT ![t] = r] /\ r.at \in StepsOf(r.op)
      BY <1>1, <2>1, <2>5, <3>1, <3>2, <3>3 DEF RequestOK
    <3>5. QED
      BY <1>1, <1>4, <2>1, <2>5, <3>3, <3>4, MoveOn DEF Registering
  <2>6. UNCHANGED <<server, tag, tagged>>
    BY <1>10 DEF ImportRows
  <2>7. QED
    BY <1>1, <1>10, <2>3, <2>4, <2>5, <2>6, ImportIs, Parts
<1>11. QED
  BY <1>5, <1>6, <1>7, <1>8, <1>9, <1>10

(* The first step of a request. *)
LEMMA Begins ==
    ASSUME PeerInv, NEW t \in Threads, Begin(t)
    PROVE  /\ UNCHANGED <<server, tag, tagged>> /\ begun' \in 0..MaxRequests
           /\ clients' \in [ClientIds -> Row \cup {NoRow}] /\ RowsInv' /\ Existing \subseteq Existing'
           /\ req' \in [Threads -> Request] /\ \A u \in Threads : RequestOK(req[u])'
<1>1. PICK op \in Ops : Ready(t, op)
  BY DEF Begin, add_client, set_client_kind, provision_register, provision_desktop_config,
         set_client_networks, set_client_wg_ip, import_peers, provision, Ready
<1>2. begun' \in 0..MaxRequests
  BY <1>1, Parts, PeerAssumption DEF Ready
<1>3. CASE add_client(t)
  <2>1. PICK row \in Row : row.ip \in Addrs \ Taken /\ clients' = [clients EXCEPT ![NextId] = row]
    <3>1. PICK a \in Addrs \ Taken, b \in BOOLEAN :
             clients' = [clients EXCEPT ![NextId] = [ip |-> a, router |-> b, nets |-> {}]]
      BY <1>3 DEF add_client
    <3>2. [ip |-> a, router |-> b, nets |-> {}] \in Row
      BY DEF Row
    <3>3. QED
      BY <3>1, <3>2
  <2>2. clients' \in [ClientIds -> Row \cup {NoRow}] /\ RowsInv' /\ Existing \subseteq Existing'
    BY <2>1, InsertRow
  <2>3. req' = req
    BY <1>3 DEF add_client
  <2>4. ASSUME NEW u \in Threads PROVE RequestOK(req[u])'
    BY <2>2, <2>3, Parts DEF RequestOK, Registering, Changing
  <2>5. QED
    BY <1>2, <1>3, <2>2, <2>3, <2>4, Parts DEF add_client
<1>4. CASE set_client_kind(t)
  <2>1. PICK c \in Existing, b \in BOOLEAN : clients' = [clients EXCEPT ![c].router = b]
    BY <1>4 DEF set_client_kind
  <2>2. PICK row : row = [clients[c] EXCEPT !.router = b]
    OBVIOUS
  <2>3. row \in Row /\ row.ip = clients[c].ip
    BY <2>2, RowType DEF Row
  <2>4. \A d \in Existing \ {c} : clients[d].ip # row.ip
    BY <2>3 DEF PeerInv, RowsInv
  <2>5. clients' \in [ClientIds -> Row \cup {NoRow}] /\ RowsInv' /\ Existing' = Existing
    BY <2>1, <2>2, <2>3, <2>4, ChangeRow
  <2>6. req' = req
    BY <1>4 DEF set_client_kind
  <2>7. ASSUME NEW u \in Threads PROVE RequestOK(req[u])'
    BY <2>5, <2>6, Parts DEF RequestOK, Registering, Changing
  <2>8. QED
    BY <1>2, <1>4, <2>5, <2>6, <2>7, Parts DEF set_client_kind
<1>5. ASSUME UNCHANGED <<server, dbvars>>,
             NEW r \in Request, req' = [req EXCEPT ![t] = r],
             r.op # "add_client", r.op # "set_client_kind", r.at \in StepsOf(r.op),
             Registering(r) \/ Changing(r) => r.ip \in Addrs,
             Registering(r) => r.key \in Keys,
             r.at \in ScriptSteps => Registering(r),
             r.op = "set_client_wg_ip" => r.at # "list",
             Changing(r) => r.cid \in Existing,
             r.at \notin {"findTag", "addTag", "assignTag"}, r.at = "store" => Changing(r)
      PROVE  /\ UNCHANGED <<server, tag, tagged>>
             /\ clients' \in [ClientIds -> Row \cup {NoRow}] /\ RowsInv' /\ Existing \subseteq Existing'
             /\ req' \in [Threads -> Request] /\ \A u \in Threads : RequestOK(req[u])'
  <2>1. UNCHANGED clients
    BY <1>5 DEF dbvars
  <2>2. clients' \in [ClientIds -> Row \cup {NoRow}] /\ RowsInv' /\ Existing' = Existing
    BY <2>1, SameRows
  <2>3. RequestOK(r)'
    BY <1>5, <2>2 DEF RequestOK, Registering, Changing
  <2>4. QED
    BY <1>5, <2>2, <2>3, Advance DEF dbvars
<1>6. \A step \in {"wgSet", "hub", "store", "fetch", "info", "subnet"} : step \in RequestSteps
  BY DEF RequestSteps, ScriptSteps
<1>7. CASE provision_register(t)
  <2>1. PICK k \in Keys, a \in Addrs, S \in SUBSET Nets, b \in BOOLEAN :
           Move(t, [Idle EXCEPT !.op = "provision_register", !.at = "wgSet", !.key = k, !.ip = a,
                                !.nets = S, !.tagging = b])
    BY <1>7 DEF provision_register
  <2>2. PICK r : r = [Idle EXCEPT !.op = "provision_register", !.at = "wgSet", !.key = k, !.ip = a,
                                  !.nets = S, !.tagging = b]
    OBVIOUS
  <2>3. /\ r \in Request /\ r.op = "provision_register" /\ r.at = "wgSet" /\ r.key = k /\ r.ip = a
    BY <1>6, <1>7, <2>2, IdleParts DEF Request, provision_register, Ready
  <2>4. /\ req' = [req EXCEPT ![t] = r] /\ UNCHANGED <<server, dbvars>>
    BY <1>7, <2>1, <2>2 DEF provision_register, Move
  <2>5. QED
    BY <1>2, <1>5, <2>3, <2>4 DEF StepsOf, Registering, Changing
<1>8. CASE provision_desktop_config(t)
  <2>1. PICK k \in Keys, a \in Addrs :
           Move(t, [Idle EXCEPT !.op = "provision_desktop_config", !.at = "hub", !.key = k, !.ip = a,
                                !.tagging = TRUE])
    BY <1>8 DEF provision_desktop_config
  <2>2. PICK r : r = [Idle EXCEPT !.op = "provision_desktop_config", !.at = "hub", !.key = k, !.ip = a,
                                  !.tagging = TRUE]
    OBVIOUS
  <2>3. /\ r \in Request /\ r.op = "provision_desktop_config" /\ r.at = "hub" /\ r.key = k /\ r.ip = a
    BY <1>6, <1>8, <2>2, IdleParts DEF Request, provision_desktop_config, Ready
  <2>4. /\ req' = [req EXCEPT ![t] = r] /\ UNCHANGED <<server, dbvars>>
    BY <1>8, <2>1, <2>2 DEF provision_desktop_config, Move
  <2>5. QED
    BY <1>2, <1>5, <2>3, <2>4 DEF StepsOf, Registering, Changing
<1>9. CASE set_client_networks(t)
  <2>1. PICK c \in Existing, S \in SUBSET Nets :
           Move(t, [Idle EXCEPT !.op = "set_client_networks", !.at = "store", !.cid = c,
                                !.from = clients[c].ip, !.ip = clients[c].ip, !.nets = S])
    BY <1>9 DEF set_client_networks
  <2>2. PICK a \in Addrs : a = clients[c].ip
    BY RowType
  <2>3. PICK r : r = [Idle EXCEPT !.op = "set_client_networks", !.at = "store", !.cid = c,
                                  !.from = a, !.ip = a, !.nets = S]
    OBVIOUS
  <2>4. c \in ClientIds
    BY DEF Existing
  <2>5. /\ r \in Request /\ r.op = "set_client_networks" /\ r.at = "store" /\ r.cid = c /\ r.ip = a
    BY <1>6, <1>9, <2>3, <2>4, IdleParts DEF Request, set_client_networks, Ready
  <2>6. /\ req' = [req EXCEPT ![t] = r] /\ UNCHANGED <<server, dbvars>>
    BY <1>9, <2>1, <2>2, <2>3 DEF set_client_networks, Move
  <2>7. QED
    BY <1>2, <1>5, <2>5, <2>6 DEF StepsOf, Registering, Changing, ScriptSteps
<1>10. CASE set_client_wg_ip(t)
  <2>1. PICK c \in Existing, a \in Addrs :
           Move(t, [Idle EXCEPT !.op = "set_client_wg_ip", !.at = "fetch", !.cid = c,
                                !.from = clients[c].ip, !.ip = a])
    BY <1>10 DEF set_client_wg_ip
  <2>2. PICK from \in Addrs : from = clients[c].ip
    BY RowType
  <2>3. PICK r : r = [Idle EXCEPT !.op = "set_client_wg_ip", !.at = "fetch", !.cid = c,
                                  !.from = from, !.ip = a]
    OBVIOUS
  <2>4. c \in ClientIds
    BY DEF Existing
  <2>5. /\ r \in Request /\ r.op = "set_client_wg_ip" /\ r.at = "fetch" /\ r.cid = c /\ r.ip = a
    BY <1>6, <1>10, <2>3, <2>4, IdleParts DEF Request, set_client_wg_ip, Ready
  <2>6. /\ req' = [req EXCEPT ![t] = r] /\ UNCHANGED <<server, dbvars>>
    BY <1>10, <2>1, <2>2, <2>3 DEF set_client_wg_ip, Move
  <2>7. QED
    BY <1>2, <1>5, <2>5, <2>6 DEF StepsOf, Registering, Changing, ScriptSteps
<1>11. CASE import_peers(t) \/ provision(t)
  <2>1. PICK o \in Ops, step \in {"info", "subnet"} :
           /\ (o = "import_peers" /\ step = "info") \/ (o = "suggest_free_ip" /\ step = "subnet")
           /\ Move(t, [Idle EXCEPT !.op = o, !.at = step]) /\ UNCHANGED <<server, dbvars>>
    <3>1. CASE import_peers(t)
      <4>1. "import_peers" \in Ops /\ Move(t, [Idle EXCEPT !.op = "import_peers", !.at = "info"])
               /\ UNCHANGED <<server, dbvars>>
        BY <3>1 DEF import_peers, Ready
      <4>2. QED
        BY <4>1
    <3>2. CASE provision(t)
      <4>1. "suggest_free_ip" \in Ops /\ Move(t, [Idle EXCEPT !.op = "suggest_free_ip", !.at = "subnet"])
               /\ UNCHANGED <<server, dbvars>>
        BY <3>2 DEF provision, Ready
      <4>2. QED
        BY <4>1
    <3>3. QED
      BY <1>11, <3>1, <3>2
  <2>2. PICK r : r = [Idle EXCEPT !.op = o, !.at = step]
    OBVIOUS
  <2>3. r \in Request /\ r.op = o /\ r.at = step
    BY <1>6, <2>2, IdleParts DEF Request
  <2>4. /\ req' = [req EXCEPT ![t] = r] /\ UNCHANGED <<server, dbvars>>
    BY <2>1, <2>2 DEF Move
  <2>5. QED
    BY <1>2, <1>5, <2>1, <2>3, <2>4 DEF StepsOf, Registering, Changing, ScriptSteps
<1>12. QED
  BY <1>3, <1>4, <1>7, <1>8, <1>9, <1>10, <1>11 DEF Begin

LEMMA Reboots ==
    ASSUME PeerInv, Reboot
    PROVE  /\ live' \in [Keys -> SUBSET Cidrs] /\ routes' \subseteq Cidrs /\ conf' \in Seq(Block)
           /\ tmp' = NoFile /\ refused' = {} /\ UNCHANGED dbvars
           /\ req' \in [Threads -> Request] /\ \A u \in Threads : RequestOK(req[u])'
<1>1. /\ live' \in [Keys -> SUBSET Cidrs] /\ routes' \subseteq Cidrs /\ conf' \in Seq(Block)
      /\ tmp' = NoFile /\ refused' = {} /\ UNCHANGED dbvars
  BY Parts, LoadedType DEF Reboot
<1>2. Existing' = Existing
  BY <1>1 DEF dbvars, Existing
<1>3. req' = [u \in Threads |-> IF req[u].at \in ScriptSteps THEN Broken(req[u]) ELSE req[u]]
  BY DEF Reboot
<1>4. ASSUME NEW u \in Threads PROVE req'[u] \in Request /\ RequestOK(req[u])'
  <2>1. PICK q \in Request : q = req[u] /\ RequestOK(q)
    BY Parts
  <2>2. CASE q.at \in ScriptSteps
    <3>1. PICK r : r = Broken(req[u])
      OBVIOUS
    <3>2. /\ r \in Request /\ r = [q EXCEPT !.failed = TRUE, !.at = r.at]
          /\ r.at \in StepsOf(q.op) /\ r.at \in {"reply", "readdress"}
      BY <2>1, <2>2, <3>1, BrokenIs DEF ScriptSteps
    <3>3. r.op = q.op /\ r.ip = q.ip /\ r.key = q.key /\ r.cid = q.cid
      BY <3>2 DEF Request
    <3>4. RequestOK(r)
      BY <2>1, <2>2, <3>2, <3>3 DEF RequestOK, Registering, Changing, ScriptSteps
    <3>5. req'[u] = r
      BY <1>3, <2>1, <2>2, <3>1
    <3>6. QED
      BY <1>2, <3>2, <3>4, <3>5 DEF RequestOK, Registering, Changing
  <2>3. CASE q.at \notin ScriptSteps
    <3>1. req'[u] = q
      BY <1>3, <2>1, <2>3
    <3>2. QED
      BY <1>2, <2>1, <3>1 DEF RequestOK, Registering, Changing
  <2>4. QED
    BY <2>2, <2>3
<1>5. QED
  BY <1>1, <1>3, <1>4

LEMMA PeerInit == Init => PeerInv
<1> SUFFICES ASSUME Init PROVE PeerInv
  OBVIOUS
<1>1. clients = [c \in ClientIds |-> NoRow] /\ req = [t \in Threads |-> Idle] /\ conf \in Seq(Block)
  BY PeerAssumption DEF Init
<1>2. /\ live \in [Keys -> SUBSET Cidrs] /\ routes \subseteq Cidrs
      /\ refused \subseteq Cidrs /\ astray \in BOOLEAN
  BY <1>1, LoadedType DEF Init
<1>3. Existing = {}
  BY <1>1 DEF Existing
<1>4. RowsInv
  <2>1. Cardinality(Existing) = 0
    BY <1>3, FS_EmptySet
  <2>2. QED
    BY <1>3, <2>1 DEF RowsInv
<1>5. RequestOK(Idle)
  BY IdleParts DEF RequestOK, Registering, Changing, StepsOf, ScriptSteps
<1>6. TypeOK
  <2>1. /\ tmp = NoFile /\ tag \in BOOLEAN /\ tagged \subseteq ClientIds /\ begun \in 0..MaxRequests
    <3>1. tmp = NoFile /\ tag = FALSE /\ tagged = {} /\ begun = 0
      BY DEF Init
    <3>2. 0 \in 0..MaxRequests
      BY PeerAssumption
    <3>3. QED
      BY <3>1, <3>2, Zenon
  <2>2. clients \in [ClientIds -> Row \cup {NoRow}] /\ req \in [Threads -> Request]
    BY <1>1, IdleParts
  <2>3. \A t \in Threads : req[t].at \notin ScriptSteps
    BY <1>1, IdleParts DEF ScriptSteps
  <2>4. QED
    BY <1>1, <1>2, <2>1, <2>2, <2>3 DEF TypeOK
<1>7. QED
  BY <1>1, <1>4, <1>5, <1>6 DEF PeerInv

LEMMA PeerNext == PeerInv /\ [Next]_vars => PeerInv'
<1> SUFFICES ASSUME PeerInv, [Next]_vars PROVE PeerInv'
  OBVIOUS
<1>0. astray' \in BOOLEAN
  <2>1. CASE UNCHANGED vars
    BY <2>1, Parts DEF vars
  <2>2. QED
    BY <2>1 DEF Next
<1>1. ASSUME NEW t \in Threads, Begin(t) PROVE PeerInv'
  BY <1>0, <1>1, Begins, Parts, Together DEF server
<1>2. ASSUME NEW t \in Threads, Continue(t), UNCHANGED begun PROVE PeerInv'
  <2>1. CASE ScriptStep(t)
    BY <1>0, <1>2, <2>1, ScriptServer, ScriptRequests, SameRows, Parts, Together DEF dbvars
  <2>2. CASE \/ FetchHub(t) \/ FindTag(t) \/ ListNetworks(t) \/ FindPeer(t) \/ FetchInfo(t) \/ ReadExisting(t)
             \/ FetchPeers(t) \/ FetchSubnet(t) \/ FetchInUse(t) \/ SuggestFree(t) \/ Reply(t)
    BY <1>0, <1>2, <2>2, TableReads, SameRows, Parts, Together DEF server, dbvars
  <2>3. CASE \/ InsertClient(t) \/ AddTag(t) \/ set_client_tags(t) \/ StoreNetworks(t) \/ Readdress(t)
             \/ ImportRows(t)
    BY <1>0, <1>2, <2>3, TableWrites, Parts, Together DEF server
  <2>4. QED
    BY <1>2, <2>1, <2>2, <2>3 DEF Continue
<1>3. CASE Reboot /\ UNCHANGED begun
  BY <1>0, <1>3, Reboots, SameRows, Parts, Together DEF dbvars
<1>4. CASE UNCHANGED vars
  <2>1. UNCHANGED <<live, routes, conf, tmp, clients, tag, tagged, begun, req, refused, astray>>
    BY <1>4 DEF vars, server, dbvars
  <2>2. \A u \in Threads : RequestOK(req[u])'
    BY <2>1, Parts DEF RequestOK, Registering, Changing, Existing
  <2>3. QED
    BY <1>0, <2>1, <2>2, SameRows, Parts, Together
<1>5. QED
  BY <1>1, <1>2, <1>3, <1>4 DEF Next

LEMMA PeerInvariant == Spec => []PeerInv
<1>1. QED
  BY PeerInit, PeerNext, PTL DEF Spec

(* However many threads register peers, change networks and addresses and  *)
(* import, and whatever fails in between: every variable has its type, no  *)
(* script runs for a peer or an address that nobody has given, and there   *)
(* is always an id for the next row.                                       *)
THEOREM PeerTypes == Spec => []TypeOK
<1>1. PeerInv => TypeOK
  BY DEF PeerInv
<1>2. QED
  BY <1>1, PeerInvariant, PTL

-----------------------------------------------------------------------------
(* The steps of each kind of request *)

LEMMA StepsByKind ==
    ASSUME PeerInv, NEW t \in Threads, Continue(t)
    PROVE  \/ Reply(t)
           \/ /\ Registering(req[t])
              /\ \/ WgSet(t) \/ RouteReplace(t) \/ Grep(t) \/ AppendBlock(t) \/ CommandFails(t) \/ FetchHub(t)
                 \/ InsertClient(t) \/ FindTag(t) \/ AddTag(t) \/ set_client_tags(t) \/ StoreNetworks(t)
           \/ /\ Changing(req[t])
              /\ \/ WgSet(t) \/ RouteReplace(t) \/ OpenTmp(t) \/ Awk(t) \/ Rename(t) \/ CommandFails(t)
                 \/ StoreNetworks(t) \/ ListNetworks(t) \/ FindPeer(t) \/ Readdress(t)
           \/ /\ req[t].op = "import_peers"
              /\ FetchInfo(t) \/ ReadExisting(t) \/ FetchPeers(t) \/ ImportRows(t)
           \/ /\ req[t].op = "suggest_free_ip"
              /\ FetchSubnet(t) \/ FetchInUse(t) \/ SuggestFree(t)
<1>1. PICK q \in Request : q = req[t] /\ RequestOK(q)
  BY Parts
<1>2. /\ q.at \in {"hub", "grep", "append", "insert", "findTag", "addTag", "assignTag"} => Registering(q)
      /\ q.at \in {"openTmp", "awk", "mv", "list", "fetch"} => Changing(q)
      /\ q.at = "readdress" => q.op = "set_client_wg_ip"
      /\ q.at = "store" => Registering(q) \/ q.op = "set_client_networks"
      /\ q.at \in {"wgSet", "routes"} => Registering(q) \/ Changing(q)
      /\ q.at \in {"info", "existing", "fetchAll", "rows"} => q.op = "import_peers"
      /\ q.at \in {"subnet", "inUse", "free"} => q.op = "suggest_free_ip"
  BY <1>1, StepsAre DEF RequestOK
<1>3. q.op = "set_client_networks" \/ q.op = "set_client_wg_ip" => Changing(q)
  BY DEF Changing
<1>4. CASE \/ WgSet(t) \/ RouteReplace(t) \/ CommandFails(t) \/ StoreNetworks(t)
  <2>1. q.at \in {"wgSet", "routes", "append", "openTmp", "awk", "mv", "store"}
    BY <1>1, <1>4 DEF WgSet, RouteReplace, CommandFails, StoreNetworks
  <2>2. Registering(q) \/ Changing(q)
    BY <1>2, <1>3, <2>1
  <2>3. QED
    BY <1>1, <1>4, <2>2
<1>5. CASE \/ Grep(t) \/ AppendBlock(t) \/ FetchHub(t) \/ InsertClient(t) \/ FindTag(t) \/ AddTag(t)
           \/ set_client_tags(t)
  <2>1. q.at \in {"hub", "grep", "append", "insert", "findTag", "addTag", "assignTag"}
    BY <1>1, <1>5 DEF Grep, AppendBlock, FetchHub, InsertClient, FindTag, AddTag, set_client_tags
  <2>2. QED
    BY <1>1, <1>2, <1>5, <2>1
<1>6. CASE OpenTmp(t) \/ Awk(t) \/ Rename(t) \/ ListNetworks(t) \/ FindPeer(t) \/ Readdress(t)
  <2>1. q.at \in {"openTmp", "awk", "mv", "list", "fetch", "readdress"}
    BY <1>1, <1>6 DEF OpenTmp, Awk, Rename, ListNetworks, FindPeer, Readdress
  <2>2. QED
    BY <1>1, <1>2, <1>3, <1>6, <2>1
<1>7. CASE FetchInfo(t) \/ ReadExisting(t) \/ FetchPeers(t) \/ ImportRows(t)
  <2>1. q.at \in {"info", "existing", "fetchAll", "rows"}
    BY <1>1, <1>7 DEF FetchInfo, ReadExisting, FetchPeers, ImportRows
  <2>2. QED
    BY <1>1, <1>2, <1>7, <2>1
<1>8. CASE FetchSubnet(t) \/ FetchInUse(t) \/ SuggestFree(t)
  <2>1. q.at \in {"subnet", "inUse", "free"}
    BY <1>1, <1>8 DEF FetchSubnet, FetchInUse, SuggestFree
  <2>2. QED
    BY <1>1, <1>2, <1>8, <2>1
<1>9. QED
  BY <1>4, <1>5, <1>6, <1>7, <1>8 DEF Continue, ScriptStep

(* A request that only goes on to another step. *)
Same(r, q) ==
    /\ r.op = q.op /\ r.key = q.key /\ r.cid = q.cid /\ r.ip = q.ip /\ r.nets = q.nets /\ r.known = q.known
    /\ r.tagging = q.tagging /\ r.told = q.told /\ r.ips = q.ips /\ r.peers = q.peers /\ r.out = q.out

LEMMA GoesTo ==
    ASSUME PeerInv, NEW t \in Threads, NEW step \in RequestSteps, Goto(t, step)
    PROVE  \E r, q \in Request : /\ r = req'[t] /\ q = req[t] /\ RequestOK(q)
                                 /\ Same(r, q) /\ r.at = step /\ r.failed = q.failed
<1>1. PICK q \in Request : q = req[t] /\ RequestOK(q)
  BY Parts
<1>2. PICK r : r = [q EXCEPT !.at = step]
  OBVIOUS
<1>3. r \in Request /\ Same(r, q) /\ r.at = step /\ r.failed = q.failed
  BY <1>2 DEF Request, Same
<1>4. req'[t] = r
  BY <1>1, <1>2, Parts DEF Goto, Move
<1>5. QED
  BY <1>1, <1>3, <1>4

LEMMA FailsTo ==
    ASSUME PeerInv, NEW t \in Threads, req[t].at # "idle", Fail(t)
    PROVE  \E r, q \in Request : /\ r = req'[t] /\ q = req[t] /\ RequestOK(q)
                                 /\ Same(r, q) /\ r.failed
                                 /\ \/ r.at = "reply"
                                    \/ r.at = "readdress" /\ q.op = "set_client_wg_ip" /\ q.at \in ScriptSteps
                                 /\ q.op = "set_client_wg_ip" /\ q.at \in ScriptSteps => r.at = "readdress"
<1>1. PICK q \in Request : q = req[t] /\ RequestOK(q)
  BY Parts
<1>2. PICK r : r = Broken(req[t])
  OBVIOUS
<1>3. r \in Request /\ r = [q EXCEPT !.failed = TRUE, !.at = r.at]
  BY <1>1, <1>2, BrokenIs
<1>4. Same(r, q) /\ r.failed
  BY <1>3 DEF Request, Same
<1>5. req'[t] = r
  BY <1>2, Parts DEF Fail, Move
<1>6. /\ \/ r.at = "reply"
         \/ r.at = "readdress" /\ q.op = "set_client_wg_ip" /\ q.at \in ScriptSteps
      /\ q.op = "set_client_wg_ip" /\ q.at \in ScriptSteps => r.at = "readdress"
  BY <1>1, <1>2, BrokenIs
<1>7. QED
  BY <1>1, <1>3, <1>4, <1>5, <1>6

-----------------------------------------------------------------------------
(* What a registration records *)

LEMMA RecordStep ==
    ASSUME PeerInv, NEW t \in Threads, Registering(req[t]), RecordOK(req[t]),
           \/ WgSet(t) \/ RouteReplace(t) \/ Grep(t) \/ AppendBlock(t) \/ CommandFails(t) \/ FetchHub(t)
           \/ InsertClient(t) \/ FindTag(t) \/ AddTag(t) \/ set_client_tags(t) \/ StoreNetworks(t)
    PROVE  RecordOK(req[t])' /\ req'[t].op = req[t].op
<1> DEFINE Goal == \E r, q \in Request : r = req'[t] /\ q = req[t] /\ r.op = q.op /\ RecordOK(r)'
<1>1. SUFFICES Goal
  BY DEF RecordOK, Registering
<1>2. PICK q \in Request : q = req[t] /\ RequestOK(q) /\ RecordOK(q) /\ Registering(q)
  BY Parts
<1>3. q.op # "set_client_wg_ip"
  BY <1>2 DEF Registering
<1>4. ASSUME UNCHANGED dbvars, q.at \notin {"findTag", "addTag", "assignTag", "store", "reply", "idle"},
             NEW r \in Request, r = req'[t], Same(r, q),
             \/ r.at \notin {"findTag", "addTag", "assignTag", "store", "reply"}
             \/ r.at = "reply" /\ r.failed
      PROVE  Goal
  <2>1. RecordOK(r)'
    BY <1>2, <1>4 DEF RecordOK, Same, Registering, dbvars
  <2>2. QED
    BY <1>2, <1>4, <2>1 DEF Same
<1>5. \A step \in {"wgSet", "routes", "grep", "insert", "append", "openTmp", "addTag", "assignTag", "store",
                   "reply", "findTag"} : step \in RequestSteps
  BY DEF RequestSteps, ScriptSteps
<1> HIDE DEF Goal
<1>6. CASE Fail(t) /\ UNCHANGED dbvars /\ q.at \notin {"findTag", "addTag", "assignTag", "store", "reply", "idle"}
  BY <1>2, <1>3, <1>4, <1>6, FailsTo
<1>7. CASE WgSet(t) \/ RouteReplace(t) \/ AppendBlock(t)
  <2>1. PICK step \in {"routes", "grep", "insert"} : Goto(t, step)
    BY <1>2, <1>7 DEF WgSet, RouteReplace, AppendBlock
  <2>2. /\ q.at \notin {"findTag", "addTag", "assignTag", "store", "reply", "idle"} /\ UNCHANGED dbvars
    BY <1>2, <1>7 DEF WgSet, RouteReplace, AppendBlock
  <2>3. PICK r \in Request : r = req'[t] /\ Same(r, q) /\ r.at = step
    BY <1>2, <1>5, <2>1, GoesTo
  <2>4. QED
    BY <1>4, <2>2, <2>3
<1>8. CASE Grep(t)
  <2>1. PICK found \in BOOLEAN, step \in {"insert", "append"} :
           req' = [req EXCEPT ![t] = [q EXCEPT !.known = found, !.at = step]]
    BY <1>2, <1>8 DEF Grep, Move
  <2>2. PICK r : r = [q EXCEPT !.known = found, !.at = step]
    OBVIOUS
  <2>3. /\ r \in Request /\ r.op = q.op /\ r.cid = q.cid /\ r.at = step /\ r.told = q.told
    BY <1>5, <2>2 DEF Request
  <2>4. r = req'[t] /\ q.at = "grep"
    BY <1>2, <1>8, <2>1, <2>2, Parts DEF Grep
  <2>5. RecordOK(r)'
    BY <1>2, <2>3, <2>4 DEF RecordOK, Registering
  <2>6. QED
    BY <1>2, <2>3, <2>4, <2>5 DEF Goal
<1>9. CASE CommandFails(t)
  BY <1>2, <1>6, <1>9 DEF CommandFails
<1>10. CASE FetchHub(t)
  <2>1. q.at = "hub" /\ UNCHANGED dbvars
    BY <1>2, <1>10 DEF FetchHub
  <2>2. CASE Goto(t, "wgSet")
    <3>1. PICK r \in Request : r = req'[t] /\ Same(r, q) /\ r.at = "wgSet"
      BY <1>2, <1>5, <2>2, GoesTo
    <3>2. QED
      BY <1>4, <2>1, <3>1
  <2>3. QED
    BY <1>6, <1>10, <2>1, <2>2 DEF FetchHub
<1>11. CASE InsertClient(t)
  <2>1. q.at = "insert" /\ q.cid = 0 /\ q.told = "new" /\ UNCHANGED <<tag, tagged>>
    BY <1>2, <1>11 DEF InsertClient, RecordOK
  <2>2. CASE /\ q.ip \notin Taken
             /\ \E b \in BOOLEAN : clients' = [clients EXCEPT ![NextId] = [ip |-> q.ip, router |-> b, nets |-> {}]]
             /\ Move(t, [q EXCEPT !.cid = NextId, !.at = IF q.tagging THEN "findTag" ELSE StoreOrReply(q)])
    <3>1. q.ip \in Addrs
      BY <1>2 DEF RequestOK
    <3>2. PICK row \in Row : row.ip = q.ip /\ row.nets = {} /\ clients' = [clients EXCEPT ![NextId] = row]
      <4>1. PICK b \in BOOLEAN : clients' = [clients EXCEPT ![NextId] = [ip |-> q.ip, router |-> b, nets |-> {}]]
        BY <2>2
      <4>2. [ip |-> q.ip, router |-> b, nets |-> {}] \in Row
        BY <3>1 DEF Row
      <4>3. QED
        BY <4>1, <4>2
    <3>3. NextId \in Existing' /\ clients'[NextId] = row
      BY <2>2, <3>1, <3>2, InsertRow
    <3>4. PICK c \in ClientIds, step \in {"findTag", "store", "reply"} :
             /\ c = NextId /\ Move(t, [q EXCEPT !.cid = c, !.at = step])
             /\ step = IF q.tagging THEN "findTag" ELSE IF q.nets = {} THEN "reply" ELSE "store"
      BY <2>2, <3>3 DEF StoreOrReply, Existing
    <3>5. PICK r : r = [q EXCEPT !.cid = c, !.at = step]
      OBVIOUS
    <3>6. /\ r \in Request /\ r.op = q.op /\ r.ip = q.ip /\ r.cid = c /\ r.at = step /\ r.told = q.told
          /\ r.nets = q.nets /\ r.tagging = q.tagging
      BY <1>5, <3>5 DEF Request
    <3>7. r = req'[t]
      BY <3>4, <3>5, Parts DEF Move
    <3>8. clients'[r.cid].ip = r.ip /\ clients'[r.cid].nets = {}
      BY <3>2, <3>3, <3>4, <3>6
    <3>9. /\ r.told = "new" /\ r.at \in {"findTag", "store", "reply"}
          /\ r.at # "findTag" => ~r.tagging
          /\ r.at = "reply" => r.nets = {}
      BY <2>1, <3>4, <3>6
    <3>10. RecordOK(r)'
      BY <3>8, <3>9 DEF RecordOK
    <3>11. QED
      BY <1>2, <3>6, <3>7, <3>10 DEF Goal
  <2>3. CASE Move(t, [q EXCEPT !.told = "existing", !.at = "reply"]) /\ UNCHANGED clients
    <3>1. PICK r : r = [q EXCEPT !.told = "existing", !.at = "reply"]
      OBVIOUS
    <3>2. /\ r \in Request /\ r.op = q.op /\ r.cid = q.cid /\ r.at = "reply" /\ r.told = "existing"
      BY <1>5, <3>1 DEF Request
    <3>3. r = req'[t]
      BY <2>3, <3>1, Parts DEF Move
    <3>4. RecordOK(r)'
      BY <2>1, <3>2 DEF RecordOK
    <3>5. QED
      BY <1>2, <3>2, <3>3, <3>4 DEF Goal
  <2>4. QED
    BY <1>2, <1>11, <2>2, <2>3 DEF InsertClient
<1>12. CASE FindTag(t)
  <2>1. PICK step \in {"addTag", "assignTag"} : Goto(t, step) /\ (step = "addTag" => ~tag)
    BY <1>12 DEF FindTag
  <2>2. PICK r \in Request : r = req'[t] /\ Same(r, q) /\ r.at = step
    BY <1>2, <1>5, <2>1, GoesTo
  <2>3. q.at = "findTag" /\ UNCHANGED dbvars
    BY <1>2, <1>12 DEF FindTag
  <2>4. RecordOK(r)'
    BY <1>2, <2>1, <2>2, <2>3 DEF RecordOK, Same, Registering, dbvars
  <2>5. QED
    BY <1>2, <2>2, <2>4 DEF Goal, Same
<1>13. CASE AddTag(t)
  <2>1. q.at = "addTag" /\ ~tag /\ UNCHANGED <<clients, tagged>>
    BY <1>2, <1>13 DEF AddTag, RecordOK
  <2>2. PICK r : r = [q EXCEPT !.at = "assignTag"]
    OBVIOUS
  <2>3. r \in Request /\ Same(r, q) /\ r.at = "assignTag"
    BY <1>5, <2>2 DEF Request, Same
  <2>4. r = req'[t]
    BY <1>2, <1>13, <2>1, <2>2, Parts DEF AddTag, Move
  <2>5. RecordOK(r)'
    BY <1>2, <2>1, <2>3 DEF RecordOK, Same, Registering
  <2>6. QED
    BY <1>2, <2>3, <2>4, <2>5 DEF Goal, Same
<1>14. CASE set_client_tags(t)
  <2>1. q.at = "assignTag" /\ UNCHANGED clients /\ tagged' = tagged \cup {q.cid}
    BY <1>2, <1>14 DEF set_client_tags
  <2>2. PICK step \in {"store", "reply"} : Goto(t, step) /\ (step = "reply" => q.nets = {})
    BY <1>2, <1>14 DEF set_client_tags, StoreOrReply
  <2>3. PICK r \in Request : r = req'[t] /\ Same(r, q) /\ r.at = step
    BY <1>2, <1>5, <2>2, GoesTo
  <2>4. r.told # "existing" /\ r.told \in {"new", "existing"} /\ r.cid \in tagged'
    BY <1>2, <2>1, <2>3, RequestParts DEF RecordOK, Same, Registering
  <2>5. clients'[r.cid].ip = r.ip /\ clients'[r.cid].nets = {}
    BY <1>2, <2>1, <2>3 DEF RecordOK, Same, Registering
  <2>6. RecordOK(r)'
    BY <2>2, <2>3, <2>4, <2>5 DEF RecordOK, Same
  <2>7. QED
    BY <1>2, <2>3, <2>6 DEF Goal, Same
<1>15. CASE StoreNetworks(t)
  <2>1. /\ q.at = "store" /\ UNCHANGED tagged /\ q.cid \in Existing
        /\ clients' = [clients EXCEPT ![q.cid].nets = q.nets] /\ Goto(t, "reply")
    BY <1>2, <1>15 DEF StoreNetworks, RequestOK
  <2>2. PICK r \in Request : r = req'[t] /\ Same(r, q) /\ r.at = "reply"
    BY <1>2, <1>5, <2>1, GoesTo
  <2>3. clients'[q.cid].ip = clients[q.cid].ip /\ clients'[q.cid].nets = q.nets
    <3>1. q.cid \in ClientIds /\ clients[q.cid] \in Row
      BY <2>1, RowType
    <3>2. PICK row \in Row : row = clients[q.cid]
      BY <3>1
    <3>3. [row EXCEPT !.nets = q.nets].ip = row.ip /\ [row EXCEPT !.nets = q.nets].nets = q.nets
      BY DEF Row
    <3>4. clients'[q.cid] = [row EXCEPT !.nets = q.nets]
      BY <2>1, <3>1, <3>2, Parts
    <3>5. QED
      BY <3>2, <3>3, <3>4
  <2>4. RecordOK(r)'
    BY <1>2, <2>1, <2>2, <2>3 DEF RecordOK, Same, Registering
  <2>5. QED
    BY <1>2, <2>2, <2>4 DEF Goal, Same
<1>16. QED
  BY <1>7, <1>8, <1>9, <1>10, <1>11, <1>12, <1>13, <1>14, <1>15

-----------------------------------------------------------------------------
(* What a script leaves behind *)

LEMMA LoadedAppended ==
    ASSUME NEW c \in Seq(Block), NEW b \in Block
    PROVE  /\ Loaded(Append(c, b))[b.key] = AllowedIPs(b)
           /\ Append(c, b)[Len(c) + 1] = b /\ Len(c) + 1 \in DOMAIN Append(c, b)
           /\ \A i \in DOMAIN c : i \in DOMAIN Append(c, b) /\ Append(c, b)[i] = c[i]
           /\ \A i \in DOMAIN Append(c, b) : i \in DOMAIN c \/ i = Len(c) + 1
<1> DEFINE d == Append(c, b)
           n == Len(c) + 1
<1>1. d \in Seq(Block) /\ Len(d) = n /\ d[n] = b /\ \A i \in 1..Len(c) : d[i] = c[i]
  BY AppendProperties
<1>2. Len(c) \in Nat /\ n \in Nat /\ DOMAIN c = 1..Len(c) /\ DOMAIN d = 1..n
  BY <1>1, SeqDomain
<1>3. n \in DOMAIN d /\ (\A i \in DOMAIN d : i \in DOMAIN c \/ i = n) /\ DOMAIN c \subseteq DOMAIN d
  BY <1>2
<1>4. \A i \in DOMAIN d : i > n => FALSE
  BY <1>2
<1>5. b.key \in Keys /\ AllowedIPs(b) \subseteq Cidrs
  BY BlockType
<1> HIDE DEF d, n
<1>6. \A i \in DOMAIN d : i = n \/ n > i
  BY <1>2
<1>7. Loaded(d)[b.key] = {a \in Cidrs : \E i \in DOMAIN d :
         /\ d[i].key = b.key /\ a \in AllowedIPs(d[i])
         /\ \A j \in DOMAIN d : j > i => d[j].key # b.key /\ a \notin AllowedIPs(d[j])}
  BY <1>5 DEF Loaded
<1>8. \A a \in Cidrs : a \in Loaded(d)[b.key] <=> a \in AllowedIPs(b)
  BY <1>1, <1>3, <1>4, <1>6, <1>7, Zenon
<1>9. Loaded(d)[b.key] = AllowedIPs(b)
  <2>1. Loaded(d)[b.key] \subseteq Cidrs
    BY <1>7
  <2>2. QED
    BY <1>5, <1>8, <2>1
<1>10. QED
  BY <1>1, <1>2, <1>3, <1>9 DEF d, n

LEMMA LoadedRewritten ==
    ASSUME NEW c \in Seq(Block), NEW k \in Keys, NEW S \in SUBSET Cidrs,
           \E i \in DOMAIN c : c[i].key = k,
           \A i \in DOMAIN c : IF c[i].key = k THEN AllowedIPs(c[i]) = S ELSE AllowedIPs(c[i]) \cap S = {}
    PROVE  Loaded(c)[k] = S
<1>1. PICK n \in DOMAIN c : c[n].key = k /\ \A j \in DOMAIN c : j > n => c[j].key # k
  BY LastBlock
<1>2. Loaded(c)[k] = {a \in Cidrs : \E i \in DOMAIN c :
         /\ c[i].key = k /\ a \in AllowedIPs(c[i])
         /\ \A j \in DOMAIN c : j > i => c[j].key # k /\ a \notin AllowedIPs(c[j])}
  BY DEF Loaded
<1>3. ASSUME NEW a \in S PROVE a \in Loaded(c)[k]
  BY <1>1, <1>2, <1>3
<1>4. QED
  BY <1>2, <1>3

LEMMA PersistenceKept ==
    ASSUME NEW k, NEW S, LiveAndPersistent(k, S), UNCHANGED server
    PROVE  LiveAndPersistent(k, S)'
BY DEF LiveAndPersistent, server, Loaded

LEMMA PersistenceReboots ==
    ASSUME NEW k, NEW S, LiveAndPersistent(k, S), Reboot
    PROVE  LiveAndPersistent(k, S)'
<1>1. conf' = conf /\ live' = Loaded(conf) /\ routes' = Routed(conf)
  BY DEF Reboot
<1>2. Loaded(conf)' = Loaded(conf)
  BY <1>1 DEF Loaded
<1>3. S \subseteq routes' \cup refused'
  BY <1>1 DEF LiveAndPersistent, Routed
<1>4. QED
  BY <1>1, <1>2, <1>3 DEF LiveAndPersistent

(* A request that no longer speaks of the server. *)
LEMMA ScriptOver ==
    ASSUME NEW r \in Request, r.failed, r.at \in {"reply", "readdress"}
    PROVE  ScriptOK(r)'
BY DEF ScriptOK, ScriptSteps

LEMMA ScriptOKStep ==
    ASSUME PeerInv, NEW t \in Threads, Registering(req[t]) \/ Changing(req[t]),
           ScriptOK(req[t]), ChangeOK(req[t]), ScriptStep(t)
    PROVE  ScriptOK(req[t])'
<1> DEFINE Goal == \E r \in Request : r = req'[t] /\ ScriptOK(r)'
<1>1. SUFFICES Goal
  BY DEF ScriptOK, Registering, Changing
<1>2. PICK q \in Request : q = req[t] /\ RequestOK(q) /\ ScriptOK(q) /\ ChangeOK(q)
  BY Parts
<1>3. /\ q.at \in ScriptSteps /\ q.key \in Keys /\ q.ip \in Addrs /\ q.nets \in SUBSET (Nets \cup {MeshNet})
      /\ {q.ip} \cup q.nets \in SUBSET Cidrs
      /\ Registering(q) \/ Changing(q)
  BY <1>2, ScriptServer, ScriptFor
<1>4. PICK cidrs \in SUBSET Cidrs : cidrs = {q.ip} \cup q.nets
  BY <1>3
<1>5. \A step \in {"wgSet", "routes", "grep", "insert", "append", "openTmp", "awk", "mv", "reply", "readdress"} :
         step \in RequestSteps
  BY DEF RequestSteps, ScriptSteps
<1>6. /\ ~ (Registering(q) /\ Changing(q))
      /\ q.at \in {"grep", "append"} => Registering(q)
      /\ q.at \in {"openTmp", "awk", "mv"} => Changing(q)
  <2>1. q.at \in {"openTmp", "awk", "mv"} => Changing(q)
    BY <1>2, StepsAre DEF RequestOK
  <2>2. QED
    BY <1>2, <2>1, StepsAre DEF RequestOK, Registering, Changing
<1>7. ASSUME NEW r \in Request, Same(r, q) PROVE {r.ip} \cup r.nets = cidrs
  BY <1>4, <1>7 DEF Same
<1> HIDE DEF Goal
<1>8. CASE WgSet(t)
  <2>1. q.at = "wgSet" /\ Goto(t, "routes") /\ UNCHANGED <<routes, conf, tmp, refused>>
    BY <1>2, <1>8 DEF WgSet
  <2>2. live' = Assign(live, q.key, cidrs)
    BY <1>2, <1>4, <1>8 DEF WgSet
  <2>3. live'[q.key] = cidrs
    BY <1>3, <2>2 DEF Assign
  <2>4. PICK r \in Request : r = req'[t] /\ Same(r, q) /\ r.at = "routes"
    BY <1>2, <1>5, <2>1, GoesTo
  <2>5. \/ Registering(r)
        \/ \E i \in DOMAIN conf' : conf'[i].key = r.key
    BY <1>2, <1>3, <2>1, <2>4 DEF ScriptOK, Same, Registering
  <2>6. ScriptOK(r)'
    BY <1>3, <1>7, <2>3, <2>4, <2>5 DEF ScriptOK, Same, Registering, Changing
  <2>7. QED
    BY <2>4, <2>6 DEF Goal
<1>9. CASE RouteReplace(t)
  <2>1. /\ q.at = "routes" /\ cidrs \subseteq routes' \cup refused' /\ UNCHANGED <<live, conf, tmp>>
        /\ Goto(t, IF Registering(q) THEN "grep" ELSE "openTmp")
    <3>1. PICK accepted \in SUBSET cidrs : /\ routes' = routes \cup accepted
                                           /\ refused' = (refused \cup cidrs) \ accepted
      BY <1>2, <1>4, <1>9 DEF RouteReplace
    <3>2. QED
      BY <1>2, <1>9, <3>1 DEF RouteReplace
  <2>2. PICK step \in {"grep", "openTmp"} : step = (IF Registering(q) THEN "grep" ELSE "openTmp") /\ Goto(t, step)
    BY <2>1
  <2>3. PICK r \in Request : r = req'[t] /\ Same(r, q) /\ r.at = step
    BY <1>2, <1>5, <2>2, GoesTo
  <2>4. cidrs \subseteq routes' \cup refused' /\ live'[q.key] = cidrs
    BY <1>2, <1>4, <2>1 DEF ScriptOK
  <2>5. \/ Registering(r)
        \/ \E i \in DOMAIN conf' : conf'[i].key = r.key
    BY <1>2, <1>3, <2>1, <2>3 DEF ScriptOK, Same, Registering
  <2>6. ScriptOK(r)'
    BY <1>3, <1>6, <1>7, <2>2, <2>3, <2>4, <2>5 DEF ScriptOK, Same, Registering, Changing
  <2>7. QED
    BY <2>3, <2>6 DEF Goal
<1>10. CASE Grep(t)
  <2>1. q.at = "grep" /\ UNCHANGED <<live, routes, conf, tmp, refused>> /\ Registering(q)
    BY <1>2, <1>6, <1>10 DEF Grep, server
  <2>2. PICK found \in BOOLEAN, step \in {"insert", "append"} :
           /\ found = (\E i \in DOMAIN conf : conf[i].key = q.key)
           /\ step = IF found THEN "insert" ELSE "append"
           /\ req' = [req EXCEPT ![t] = [q EXCEPT !.known = found, !.at = step]]
    BY <1>2, <1>10 DEF Grep, Move
  <2>3. PICK r : r = [q EXCEPT !.known = found, !.at = step]
    OBVIOUS
  <2>4. /\ r \in Request /\ r.op = q.op /\ r.key = q.key /\ r.ip = q.ip /\ r.nets = q.nets /\ r.known = found
        /\ r.at = step
    BY <1>5, <2>3 DEF Request
  <2>5. r = req'[t]
    BY <2>2, <2>3, Parts
  <2>6. cidrs \subseteq routes' \cup refused' /\ live'[q.key] = cidrs /\ {r.ip} \cup r.nets = cidrs
    BY <1>2, <1>4, <2>1, <2>4 DEF ScriptOK
  <2>7. Registering(r) /\ ~Changing(r) /\ r.op # "set_client_wg_ip"
    BY <1>6, <2>1, <2>4 DEF Registering, Changing
  <2>8. step = "append" => \A i \in DOMAIN conf' : conf'[i].key # r.key
    BY <2>1, <2>2, <2>4
  <2>9. step = "insert" => r.known
    BY <2>2, <2>4
  <2>10. ScriptOK(r)'
    BY <2>2, <2>4, <2>6, <2>7, <2>8, <2>9 DEF ScriptOK, Registering, Changing
  <2>11. QED
    BY <2>4, <2>5, <2>10 DEF Goal
<1>11. CASE AppendBlock(t)
  <2>1. q.at = "append" /\ UNCHANGED <<live, routes, tmp, refused>> /\ Goto(t, "insert") /\ Registering(q)
    BY <1>2, <1>6, <1>11 DEF AppendBlock
  <2>2. PICK b \in Block : /\ b = [key |-> q.key, host |-> q.ip, hint |-> NoAddr, nets |-> q.nets, plain |-> TRUE]
                           /\ conf' = Append(conf, b)
    <3>1. [key |-> q.key, host |-> q.ip, hint |-> NoAddr, nets |-> q.nets, plain |-> TRUE] \in Block
      BY <1>3 DEF Block
    <3>2. QED
      BY <1>2, <1>11, <3>1 DEF AppendBlock
  <2>3. b.key = q.key /\ AllowedIPs(b) = cidrs
    BY <1>3, <1>4, <2>2, PeerAssumption DEF AllowedIPs
  <2>4. PICK r \in Request : r = req'[t] /\ Same(r, q) /\ r.at = "insert"
    BY <1>2, <1>5, <2>1, GoesTo
  <2>5. cidrs \subseteq routes' \cup refused' /\ live'[q.key] = cidrs
    BY <1>2, <1>4, <2>1 DEF ScriptOK
  <2>6. LiveAndPersistent(q.key, cidrs)'
    <3>1. conf \in Seq(Block)
      BY Parts
    <3>2. Loaded(conf')[q.key] = cidrs /\ \E i \in DOMAIN conf' : conf'[i].key = q.key /\ AllowedIPs(conf'[i]) = cidrs
      <4>1. PICK c : c = Append(conf, b)
        OBVIOUS
      <4>2. Loaded(c)[b.key] = AllowedIPs(b) /\ \E i \in DOMAIN c : c[i] = b
        BY <3>1, <4>1, LoadedAppended
      <4>3. conf' = c
        BY <2>2, <4>1
      <4>4. QED
        BY <2>3, <4>2, <4>3
    <3>3. Loaded(conf)' = Loaded(conf')
      BY DEF Loaded
    <3>4. QED
      BY <2>5, <3>2, <3>3 DEF LiveAndPersistent
  <2>7. LiveAndPersistent(r.key, {r.ip} \cup r.nets)'
    <3>1. r.key = q.key /\ {r.ip} \cup r.nets = cidrs
      BY <1>7, <2>4 DEF Same
    <3>2. QED
      BY <2>6, <3>1
  <2>8. ScriptOK(r)'
    <3>1. Registering(r) /\ ~Changing(r) /\ r.op # "set_client_wg_ip"
      BY <1>6, <2>1, <2>4 DEF Registering, Changing, Same
    <3>2. QED
      BY <2>4, <2>7, <3>1 DEF ScriptOK, ScriptSteps
  <2>9. QED
    BY <2>4, <2>8 DEF Goal
<1>12. CASE OpenTmp(t)
  <2>1. q.at = "openTmp" /\ UNCHANGED <<live, routes, conf, refused>> /\ Changing(q) /\ ~Registering(q)
    BY <1>2, <1>6, <1>12 DEF OpenTmp
  <2>2. PICK r : r = [q EXCEPT !.out = "tmp", !.at = "awk"]
    OBVIOUS
  <2>3. /\ r \in Request /\ r.op = q.op /\ r.key = q.key /\ r.ip = q.ip /\ r.nets = q.nets /\ r.out = "tmp"
        /\ r.at = "awk"
    BY <1>5, <2>2 DEF Request
  <2>4. r = req'[t]
    BY <1>2, <1>12, <2>2, Parts DEF OpenTmp, Move
  <2>5. cidrs \subseteq routes' \cup refused' /\ live'[q.key] = cidrs /\ {r.ip} \cup r.nets = cidrs
    BY <1>2, <1>4, <2>1, <2>3 DEF ScriptOK
  <2>6. \E i \in DOMAIN conf' : conf'[i].key = r.key
    BY <1>2, <1>3, <2>1, <2>3 DEF ScriptOK
  <2>7. ScriptOK(r)'
    BY <2>1, <2>3, <2>5, <2>6 DEF ScriptOK, Registering
  <2>8. QED
    BY <2>3, <2>4, <2>7 DEF Goal
<1>13. CASE Awk(t)
  <2>1. /\ q.at = "awk" /\ q.out = "tmp" /\ UNCHANGED <<live, routes, refused>> /\ Goto(t, "mv")
        /\ Changing(q) /\ ~Registering(q)
    BY <1>2, <1>6, <1>13 DEF Awk, ScriptOK
  <2>2. tmp' = Rewritten(conf, q.key, q.ip, q.nets) /\ conf' = conf
    BY <1>2, <1>13, <2>1 DEF Awk
  <2>3. PICK r \in Request : r = req'[t] /\ Same(r, q) /\ r.at = "mv"
    BY <1>2, <1>5, <2>1, GoesTo
  <2>4. cidrs \subseteq routes' \cup refused' /\ live'[q.key] = cidrs /\ {r.ip} \cup r.nets = cidrs
    BY <1>2, <1>4, <1>7, <2>1, <2>3 DEF ScriptOK
  <2>5. \E i \in DOMAIN conf' : conf'[i].key = r.key
    BY <1>2, <1>3, <2>1, <2>2, <2>3 DEF ScriptOK, Same
  <2>6. tmp' = Rewritten(conf', r.key, r.ip, r.nets)
    BY <2>2, <2>3 DEF Same
  <2>7. ScriptOK(r)'
    <3>1. r.key = q.key /\ r.op = q.op
      BY <2>3 DEF Same
    <3>2. QED
      BY <2>1, <2>3, <2>4, <2>5, <2>6, <3>1 DEF ScriptOK, Registering
  <2>8. QED
    BY <2>3, <2>7 DEF Goal
<1>14. CASE Rename(t)
  <2>1. q.at = "mv" /\ Changing(q) /\ ~Registering(q) /\ UNCHANGED <<live, routes, refused>>
    BY <1>2, <1>6, <1>14 DEF Rename
  <2>2. /\ tmp = Rewritten(conf, q.key, q.ip, q.nets) /\ cidrs \subseteq routes \cup refused /\ live[q.key] = cidrs
        /\ \E i \in DOMAIN conf : conf[i].key = q.key
    BY <1>2, <1>3, <1>4, <2>1 DEF ScriptOK
  <2>3. conf \in Seq(Block)
    BY Parts
  <2>4. /\ tmp \in Seq(Block) /\ DOMAIN tmp = DOMAIN conf
        /\ \A i \in DOMAIN conf :
              /\ tmp[i].key = conf[i].key /\ tmp[i].plain = conf[i].plain
              /\ conf[i].key = q.key /\ conf[i].plain => AllowedIPs(tmp[i]) = cidrs
    <3>1. PICK c : c = Rewritten(conf, q.key, q.ip, q.nets)
      OBVIOUS
    <3>2. /\ c \in Seq(Block) /\ DOMAIN c = DOMAIN conf
          /\ \A i \in DOMAIN conf :
                /\ c[i].key = conf[i].key /\ c[i].plain = conf[i].plain
                /\ conf[i].key = q.key /\ conf[i].plain => AllowedIPs(c[i]) = {q.ip} \cup q.nets
      <4>1. PICK old \in Seq(Block), k \in Keys, a \in Addrs, S \in SUBSET (Nets \cup {MeshNet}) :
               old = conf /\ k = q.key /\ a = q.ip /\ S = q.nets
        BY <1>3, <2>3
      <4>2. c = Rewritten(old, k, a, S)
        BY <3>1, <4>1
      <4>3. /\ Rewritten(old, k, a, S) \in Seq(Block) /\ DOMAIN Rewritten(old, k, a, S) = DOMAIN old
            /\ \A i \in DOMAIN old :
                  /\ Rewritten(old, k, a, S)[i].key = old[i].key
                  /\ Rewritten(old, k, a, S)[i].plain = old[i].plain
                  /\ old[i].key = k /\ old[i].plain => AllowedIPs(Rewritten(old, k, a, S)[i]) = {a} \cup S
        BY RewrittenType
      <4>4. QED
        BY <4>1, <4>2, <4>3
    <3>3. tmp = c
      BY <2>2, <3>1
    <3>4. QED
      BY <1>4, <3>2, <3>3
  <2>5. tmp # NoFile
    BY <2>4, PeerAssumption
  <2>6. PICK step \in {"reply", "readdress"} :
           /\ conf' = tmp
           /\ req' = [u \in Threads |-> IF u = t THEN [req[u] EXCEPT !.at = step]
                                        ELSE [req[u] EXCEPT !.out = IF @ = "tmp" THEN "conf" ELSE "gone"]]
    BY <1>14, <2>5 DEF Rename
  <2>7. PICK r : r = [q EXCEPT !.at = step]
    OBVIOUS
  <2>8. r \in Request /\ Same(r, q) /\ r.at = step
    BY <1>5, <2>7 DEF Request, Same
  <2>9. r = req'[t]
    BY <1>2, <2>6, <2>7
  <2>10. ASSUME Plain(q.key)' PROVE LiveAndPersistent(q.key, cidrs)'
    <3>1. \A i \in DOMAIN tmp : tmp[i].key = q.key => AllowedIPs(tmp[i]) = cidrs
      BY <2>4, <2>6, <2>10 DEF Plain
    <3>2. \E i \in DOMAIN tmp : tmp[i].key = q.key /\ AllowedIPs(tmp[i]) = cidrs
      BY <2>2, <2>4, <3>1
    <3>3. (\A i \in DOMAIN tmp : tmp[i].key # q.key => AllowedIPs(tmp[i]) \cap cidrs = {})
            => Loaded(tmp)[q.key] = cidrs
      <4>1. SUFFICES ASSUME \A i \in DOMAIN tmp : tmp[i].key # q.key => AllowedIPs(tmp[i]) \cap cidrs = {}
                     PROVE  Loaded(tmp)[q.key] = cidrs
        OBVIOUS
      <4>2. PICK c \in Seq(Block) : c = tmp
        BY <2>4
      <4>3. \A i \in DOMAIN c : IF c[i].key = q.key THEN AllowedIPs(c[i]) = cidrs ELSE AllowedIPs(c[i]) \cap cidrs = {}
        BY <3>1, <4>1, <4>2
      <4>4. \E i \in DOMAIN c : c[i].key = q.key
        BY <3>2, <4>2
      <4>5. Loaded(c)[q.key] = cidrs
        BY <1>3, <4>3, <4>4, LoadedRewritten
      <4>6. QED
        BY <4>2, <4>5
    <3>4. Loaded(conf)' = Loaded(tmp)
      BY <2>6 DEF Loaded
    <3>5. cidrs \subseteq routes' \cup refused' /\ live'[q.key] = cidrs
      BY <2>1, <2>2
    <3>6. QED
      BY <2>6, <3>2, <3>3, <3>4, <3>5 DEF LiveAndPersistent
  <2>11. ScriptOK(r)'
    <3>1. r.key = q.key /\ r.op = q.op /\ {r.ip} \cup r.nets = cidrs
      BY <1>7, <2>8 DEF Same
    <3>2. Plain(r.key)' => LiveAndPersistent(r.key, {r.ip} \cup r.nets)'
      BY <2>10, <3>1 DEF Plain
    <3>3. ~Registering(r)
      BY <2>1, <3>1 DEF Registering
    <3>4. QED
      BY <2>6, <2>8, <3>2, <3>3 DEF ScriptOK, ScriptSteps
  <2>12. QED
    BY <2>8, <2>9, <2>11 DEF Goal
<1>15. CASE CommandFails(t)
  <2>1. q.at # "idle" /\ Fail(t)
    BY <1>2, <1>15 DEF CommandFails
  <2>2. PICK r \in Request : r = req'[t] /\ r.failed /\ r.at \in {"reply", "readdress"}
    BY <1>2, <2>1, FailsTo
  <2>3. QED
    BY <2>2, ScriptOver DEF Goal
<1>16. QED
  BY <1>8, <1>9, <1>10, <1>11, <1>12, <1>13, <1>14, <1>15 DEF ScriptStep

(* The steps of a registration before and after its script. *)
LEMMA RecordingKeepsScript ==
    ASSUME PeerInv, NEW t \in Threads, Registering(req[t]), ScriptOK(req[t]),
           \/ FetchHub(t) \/ InsertClient(t) \/ FindTag(t) \/ AddTag(t) \/ set_client_tags(t) \/ StoreNetworks(t)
    PROVE  ScriptOK(req[t])'
<1>1. UNCHANGED server
  BY DEF FetchHub, InsertClient, FindTag, AddTag, set_client_tags, StoreNetworks
<1>2. PICK q \in Request : q = req[t] /\ RequestOK(q) /\ ScriptOK(q) /\ Registering(q) /\ ~Changing(q)
  BY Parts DEF Registering, Changing
<1>3. PICK r \in Request : r = req'[t]
  BY TableReads, TableWrites
<1>4. ASSUME r.op = q.op, r.key = q.key, r.ip = q.ip, r.nets = q.nets, r.known = q.known, r.failed = q.failed,
             q.at \in {"insert", "findTag", "addTag", "assignTag", "store"},
             r.at \in {"findTag", "addTag", "assignTag", "store", "reply"}
      PROVE  ScriptOK(r)'
  <2>1. ~r.known /\ ~r.failed => LiveAndPersistent(r.key, {r.ip} \cup r.nets)
    BY <1>2, <1>4 DEF ScriptOK
  <2>2. ~r.known /\ ~r.failed => LiveAndPersistent(r.key, {r.ip} \cup r.nets)'
    BY <1>1, <2>1, PersistenceKept
  <2>3. ~Changing(r) /\ r.op # "set_client_wg_ip"
    BY <1>2, <1>4 DEF Changing
  <2>4. QED
    BY <1>4, <2>2, <2>3 DEF ScriptOK, ScriptSteps
<1>5. ScriptOK(r)'
  <2>1. CASE FetchHub(t)
    <3>1. CASE Goto(t, "wgSet")
      <4>1. Same(r, q) /\ r.at = "wgSet"
        BY <1>2, <1>3, <3>1, GoesTo DEF RequestSteps, ScriptSteps
      <4>2. ~Changing(r) /\ r.op # "set_client_wg_ip"
        BY <1>2, <4>1 DEF Changing, Same
      <4>3. QED
        BY <4>1, <4>2 DEF ScriptOK
    <3>2. CASE Fail(t)
      <4>1. q.at # "idle"
        BY <1>2, <2>1 DEF FetchHub
      <4>2. r.failed /\ r.at \in {"reply", "readdress"}
        BY <1>2, <1>3, <3>2, <4>1, FailsTo
      <4>3. QED
        BY <4>2, ScriptOver
    <3>3. QED
      BY <2>1, <3>1, <3>2 DEF FetchHub
  <2>2. CASE InsertClient(t)
    <3>1. PICK c \in {NextId}, step \in {"findTag", "store", "reply"} :
             \/ r = [q EXCEPT !.cid = c, !.at = step]
             \/ r = [q EXCEPT !.told = "existing", !.at = "reply"]
      <4>1. PICK step \in {"findTag", "store", "reply"} : step = IF q.tagging THEN "findTag" ELSE StoreOrReply(q)
        BY DEF StoreOrReply
      <4>2. \/ Move(t, [q EXCEPT !.cid = NextId, !.at = step])
            \/ Move(t, [q EXCEPT !.told = "existing", !.at = "reply"])
        BY <1>2, <2>2, <4>1 DEF InsertClient
      <4>3. \/ r = [q EXCEPT !.cid = NextId, !.at = step]
            \/ r = [q EXCEPT !.told = "existing", !.at = "reply"]
        BY <1>3, <4>2, Parts DEF Move
      <4>4. QED
        BY <4>3
    <3>2. /\ r.op = q.op /\ r.key = q.key /\ r.ip = q.ip /\ r.nets = q.nets /\ r.known = q.known
          /\ r.failed = q.failed /\ r.at \in {"findTag", "store", "reply"}
      BY <3>1 DEF Request
    <3>3. q.at = "insert"
      BY <1>2, <2>2 DEF InsertClient
    <3>4. QED
      BY <1>4, <3>2, <3>3
  <2>3. CASE AddTag(t)
    <3>1. \/ r = [q EXCEPT !.told = "existing", !.at = "reply"]
          \/ r = [q EXCEPT !.at = "assignTag"]
      BY <1>2, <1>3, <2>3, Parts DEF AddTag, Move
    <3>2. /\ r.op = q.op /\ r.key = q.key /\ r.ip = q.ip /\ r.nets = q.nets /\ r.known = q.known
          /\ r.failed = q.failed /\ r.at \in {"assignTag", "reply"}
      BY <3>1 DEF Request
    <3>3. q.at = "addTag"
      BY <1>2, <2>3 DEF AddTag
    <3>4. QED
      BY <1>4, <3>2, <3>3
  <2>4. CASE FindTag(t) \/ set_client_tags(t) \/ StoreNetworks(t)
    <3>1. PICK step \in {"addTag", "assignTag", "store", "reply"} : Goto(t, step)
      BY <1>2, <2>4 DEF FindTag, set_client_tags, StoreNetworks, StoreOrReply
    <3>2. step \in RequestSteps
      BY DEF RequestSteps
    <3>3. Same(r, q) /\ r.failed = q.failed /\ r.at = step
      BY <1>2, <1>3, <3>1, <3>2, GoesTo
    <3>4. q.at \in {"findTag", "assignTag", "store"}
      BY <1>2, <2>4 DEF FindTag, set_client_tags, StoreNetworks
    <3>5. QED
      BY <1>4, <3>3, <3>4 DEF Same
  <2>5. QED
    BY <2>1, <2>2, <2>3, <2>4
<1>6. QED
  BY <1>3, <1>5 DEF ScriptOK, Registering, Changing

(* The steps of a change of networks or of the address around its script. *)
LEMMA ChangeStep ==
    ASSUME PeerInv, NEW t \in Threads, Changing(req[t]), ChangeOK(req[t]), ScriptOK(req[t]),
           \/ StoreNetworks(t) \/ ListNetworks(t) \/ FindPeer(t) \/ Readdress(t)
    PROVE  ChangeOK(req[t])' /\ ScriptOK(req[t])' /\ req'[t].op = req[t].op
<1>1. UNCHANGED server
  BY DEF StoreNetworks, ListNetworks, FindPeer, Readdress
<1>2. PICK q \in Request : /\ q = req[t] /\ RequestOK(q) /\ ScriptOK(q) /\ ChangeOK(q)
                           /\ Changing(q) /\ ~Registering(q) /\ q.cid \in Existing /\ q.cid \in ClientIds
  BY Parts DEF Registering, Changing, RequestOK, Existing
<1>3. PICK r \in Request : r = req'[t]
  BY TableReads, TableWrites
<1>4. clients[q.cid] \in Row /\ clients \in [ClientIds -> Row \cup {NoRow}]
  BY <1>2, RowType, Parts
<1>5. SUFFICES ChangeOK(r)' /\ ScriptOK(r)' /\ r.op = q.op
  BY <1>2, <1>3 DEF ChangeOK, ScriptOK, Registering, Changing
<1>6. \A step \in {"list", "fetch", "readdress", "reply", "wgSet"} : step \in RequestSteps
  BY DEF RequestSteps, ScriptSteps
<1>7. CASE StoreNetworks(t)
  <2>1. q.at = "store" /\ Goto(t, "list") /\ clients' = [clients EXCEPT ![q.cid].nets = q.nets]
    BY <1>2, <1>7 DEF StoreNetworks
  <2>2. Same(r, q) /\ r.at = "list" /\ q.op = "set_client_networks" /\ q.key = q.key
    BY <1>2, <1>3, <1>6, <2>1, GoesTo, StepsAre DEF RequestOK
  <2>3. PICK row \in Row : row = clients[q.cid]
    BY <1>4
  <2>4. clients'[q.cid] = [row EXCEPT !.nets = q.nets]
    BY <1>2, <1>4, <2>1, <2>3
  <2>5. clients'[q.cid].ip = clients[q.cid].ip /\ clients'[q.cid].nets = q.nets
    BY <2>3, <2>4 DEF Row
  <2>6. ChangeOK(r)'
    BY <1>2, <2>2, <2>5 DEF ChangeOK, Same, Changing, Registering
  <2>7. ScriptOK(r)'
    BY <1>2, <2>2 DEF ScriptOK, Same, Changing, Registering, ScriptSteps
  <2>8. QED
    BY <2>2, <2>6, <2>7 DEF Same
<1>8. CASE ListNetworks(t)
  <2>1. PICK step \in {"wgSet", "fetch"} :
           /\ step = IF q.op = "set_client_wg_ip" THEN "wgSet" ELSE "fetch"
           /\ r = [q EXCEPT !.nets = clients[q.cid].nets, !.at = step]
    BY <1>2, <1>3, <1>8, Parts DEF ListNetworks, Move
  <2>2. /\ r.op = q.op /\ r.key = q.key /\ r.cid = q.cid /\ r.ip = q.ip /\ r.nets = clients[q.cid].nets
        /\ r.at = step
    BY <2>1 DEF Request
  <2>3. q.at = "list" /\ clients' = clients
    BY <1>2, <1>8 DEF ListNetworks, dbvars
  <2>4. ChangeOK(r)'
    BY <1>2, <2>1, <2>2, <2>3 DEF ChangeOK, Changing, Registering
  <2>5. q.op = "set_client_wg_ip" => \E i \in DOMAIN conf' : conf'[i].key = r.key
    BY <1>1, <1>2, <2>2, <2>3 DEF ScriptOK, server
  <2>6. ScriptOK(r)'
    BY <1>2, <2>1, <2>2, <2>5 DEF ScriptOK, Changing, Registering, ScriptSteps
  <2>7. QED
    BY <2>2, <2>4, <2>6
<1>9. CASE FindPeer(t)
  <2> DEFINE own == {i \in DOMAIN conf : peer_own_ip(conf[i]) = q.from}
  <2>1. q.at = "fetch" /\ clients' = clients /\ conf' = conf
    BY <1>1, <1>2, <1>9 DEF FindPeer, dbvars, server
  <2>2. CASE own # {} /\ Move(t, [q EXCEPT !.key = conf[Min(own)].key,
                                           !.at = IF q.op = "set_client_wg_ip" THEN "list" ELSE "wgSet"])
    <3>1. \A i \in DOMAIN conf : i \in Nat /\ conf[i] \in Block
      BY Parts, SeqDomain
    <3>2. Min(own) \in own
      BY <2>2, <3>1, Least
    <3>3. PICK step \in {"list", "wgSet"} :
             /\ step = IF q.op = "set_client_wg_ip" THEN "list" ELSE "wgSet"
             /\ r = [q EXCEPT !.key = conf[Min(own)].key, !.at = step]
      BY <1>3, <2>2, Parts DEF Move
    <3>4. /\ r.op = q.op /\ r.key = conf[Min(own)].key /\ r.cid = q.cid /\ r.ip = q.ip /\ r.nets = q.nets
          /\ r.at = step
      BY <3>3 DEF Request
    <3>5. \E i \in DOMAIN conf' : conf'[i].key = r.key
      BY <2>1, <3>2, <3>4
    <3> HIDE DEF own
    <3>6. ChangeOK(r)'
      BY <1>2, <2>1, <3>3, <3>4 DEF ChangeOK, Changing, Registering
    <3>7. ScriptOK(r)'
      BY <1>2, <3>3, <3>4, <3>5 DEF ScriptOK, Changing, Registering, ScriptSteps
    <3>8. QED
      BY <3>4, <3>6, <3>7
  <2>3. CASE q.op = "set_client_wg_ip" /\ Goto(t, "readdress")
    <3>1. Same(r, q) /\ r.at = "readdress" /\ q.key = NoKey
      BY <1>2, <1>3, <1>6, <2>1, <2>3, GoesTo DEF ChangeOK
    <3>2. ChangeOK(r)'
      BY <1>2, <2>1, <2>3, <3>1 DEF ChangeOK, Changing, Registering, Same
    <3>3. ScriptOK(r)'
      BY <1>2, <2>3, <3>1 DEF ScriptOK, Changing, Registering, ScriptSteps, Same
    <3>4. QED
      BY <3>1, <3>2, <3>3 DEF Same
  <2>4. CASE q.op = "set_client_networks" /\ Fail(t)
    <3>1. Same(r, q) /\ r.failed /\ r.at = "reply"
      BY <1>2, <1>3, <2>1, <2>4, FailsTo
    <3>2. ChangeOK(r)'
      BY <1>2, <2>1, <2>4, <3>1 DEF ChangeOK, Changing, Registering, Same
    <3>3. QED
      BY <3>1, <3>2, ScriptOver DEF Same
  <2>5. QED
    BY <1>2, <1>9, <2>2, <2>3, <2>4 DEF FindPeer, Changing
<1>10. CASE Readdress(t)
  <2>1. q.at = "readdress" /\ q.op = "set_client_wg_ip"
    BY <1>2, <1>10, StepsAre DEF Readdress, RequestOK
  <2>2. CASE clients' = [clients EXCEPT ![q.cid].ip = q.ip] /\ Goto(t, "reply")
    <3>1. Same(r, q) /\ r.at = "reply" /\ r.failed = q.failed
      BY <1>2, <1>3, <1>6, <2>2, GoesTo
    <3>2. PICK row \in Row : row = clients[q.cid]
      BY <1>4
    <3>3. clients'[q.cid] = [row EXCEPT !.ip = q.ip]
      BY <1>2, <1>4, <2>2, <3>2
    <3>4. clients'[q.cid].ip = q.ip /\ clients'[q.cid].nets = clients[q.cid].nets
      BY <3>2, <3>3 DEF Row
    <3>5. ChangeOK(r)'
      BY <1>2, <2>1, <3>1, <3>4 DEF ChangeOK, Changing, Registering, Same
    <3>6. r.key # NoKey /\ Plain(r.key) /\ ~r.failed => LiveAndPersistent(r.key, {r.ip} \cup r.nets)
      BY <1>2, <2>1, <3>1 DEF ScriptOK, Same
    <3>7. Plain(r.key)' = Plain(r.key)
      BY <1>1 DEF Plain, server
    <3>8. r.key # NoKey /\ Plain(r.key)' /\ ~r.failed => LiveAndPersistent(r.key, {r.ip} \cup r.nets)'
      BY <1>1, <3>6, <3>7, PersistenceKept
    <3>9. ScriptOK(r)'
      BY <1>2, <2>1, <3>1, <3>8 DEF ScriptOK, Changing, Registering, ScriptSteps, Same
    <3>10. QED
      BY <3>1, <3>5, <3>9 DEF Same
  <2>3. CASE Fail(t) /\ UNCHANGED clients
    <3>1. Same(r, q) /\ r.failed /\ r.at = "reply"
      BY <1>2, <1>3, <2>1, <2>3, FailsTo DEF ScriptSteps
    <3>2. ChangeOK(r)'
      BY <1>2, <2>1, <2>3, <3>1 DEF ChangeOK, Changing, Registering, Same
    <3>3. QED
      BY <3>1, <3>2, ScriptOver DEF Same
  <2>4. QED
    BY <1>2, <1>10, <2>2, <2>3 DEF Readdress
<1>11. QED
  BY <1>7, <1>8, <1>9, <1>10

(* A change's script, and a registration's: what does not speak of it. *)
LEMMA ScriptKeepsChange ==
    ASSUME PeerInv, NEW t \in Threads, Registering(req[t]) \/ Changing(req[t]), ChangeOK(req[t]), ScriptStep(t)
    PROVE  ChangeOK(req[t])' /\ req'[t].op = req[t].op
<1>1. clients' = clients /\ req[t].at \in ScriptSteps
  BY ScriptServer DEF dbvars
<1>2. PICK q \in Request : q = req[t] /\ RequestOK(q) /\ ChangeOK(q)
  BY Parts
<1>3. q.at # "idle" /\ q.key \in Keys /\ (Registering(q) \/ Changing(q))
  BY <1>1, <1>2, ScriptFor
<1>4. PICK r \in Request : /\ r = req'[t] /\ r.op = q.op /\ r.key = q.key /\ r.cid = q.cid /\ r.ip = q.ip
                           /\ r.nets = q.nets
                           /\ r.at \in ScriptSteps \cup {"insert", "reply", "readdress"}
                           /\ q.op = "set_client_wg_ip" /\ r.at = "reply" => r.failed
  <2>1. PICK r \in Request : r = req'[t]
    BY ScriptRequests
  <2> DEFINE Goal == /\ r.op = q.op /\ r.key = q.key /\ r.cid = q.cid /\ r.ip = q.ip /\ r.nets = q.nets
                     /\ r.at \in ScriptSteps \cup {"insert", "reply", "readdress"}
                     /\ q.op = "set_client_wg_ip" /\ r.at = "reply" => r.failed
  <2>2. SUFFICES Goal
    BY <2>1
  <2>3. CASE Fail(t)
    <3>1. /\ Same(r, q) /\ r.at \in {"reply", "readdress"}
          /\ q.op = "set_client_wg_ip" => r.at = "readdress"
      BY <1>1, <1>2, <1>3, <2>1, <2>3, FailsTo
    <3>2. QED
      BY <3>1 DEF Same
  <2>4. ASSUME NEW step \in ScriptSteps \cup {"insert"}, Goto(t, step) PROVE Goal
    <3>1. step \in RequestSteps
      BY DEF RequestSteps
    <3>2. Same(r, q) /\ r.at = step
      BY <1>2, <2>1, <2>4, <3>1, GoesTo
    <3>3. "reply" \notin ScriptSteps
      BY DEF ScriptSteps
    <3>4. QED
      BY <3>2, <3>3 DEF Same
  <2>5. {"routes", "grep", "openTmp", "append", "awk", "mv"} \subseteq ScriptSteps
    BY DEF ScriptSteps
  <2>6. ASSUME NEW found, NEW out, NEW step \in ScriptSteps \cup {"insert", "reply", "readdress"},
               \/ r = [q EXCEPT !.known = found, !.at = step] \/ r = [q EXCEPT !.out = out, !.at = step]
               \/ r = [q EXCEPT !.at = step],
               q.op = "set_client_wg_ip" => step # "reply"
        PROVE  Goal
    BY <2>6 DEF Request
  <2> HIDE DEF Goal
  <2>7. CASE WgSet(t)
    BY <2>4, <2>5, <2>7 DEF WgSet
  <2>8. CASE RouteReplace(t)
    BY <2>4, <2>5, <2>8 DEF RouteReplace
  <2>9. CASE Grep(t)
    <3>1. PICK found \in BOOLEAN, step \in {"insert", "append"} : r = [q EXCEPT !.known = found, !.at = step]
      BY <1>2, <2>1, <2>9, Parts DEF Grep, Move
    <3>2. QED
      BY <2>5, <2>6, <3>1
  <2>10. CASE AppendBlock(t)
    BY <2>4, <2>10 DEF AppendBlock
  <2>11. CASE OpenTmp(t)
    <3>1. r = [q EXCEPT !.out = "tmp", !.at = "awk"]
      BY <1>2, <2>1, <2>11, Parts DEF OpenTmp, Move
    <3>2. QED
      BY <2>5, <2>6, <3>1
  <2>12. CASE Awk(t)
    BY <2>4, <2>5, <2>12 DEF Awk
  <2>13. CASE Rename(t)
    <3>1. CASE tmp = NoFile
      BY <2>3, <2>13, <3>1 DEF Rename
    <3>2. CASE tmp # NoFile
      <4>1. PICK step \in {"reply", "readdress"} :
               step = (IF q.op = "set_client_wg_ip" THEN "readdress" ELSE "reply") /\ r = [q EXCEPT !.at = step]
        BY <1>2, <2>1, <2>13, <3>2 DEF Rename
      <4>2. QED
        BY <2>6, <4>1
    <3>3. QED
      BY <3>1, <3>2
  <2>14. CASE CommandFails(t)
    BY <2>3, <2>14 DEF CommandFails
  <2>15. QED
    BY <2>7, <2>8, <2>9, <2>10, <2>11, <2>12, <2>13, <2>14 DEF ScriptStep
<1>5. "store" \notin ScriptSteps /\ "fetch" \notin ScriptSteps /\ "list" \notin ScriptSteps
  BY DEF ScriptSteps
<1>6. ChangeOK(r)'
  BY <1>1, <1>2, <1>3, <1>4, <1>5, PeerAssumption DEF ChangeOK, Registering, Changing
<1>7. QED
  BY <1>2, <1>4, <1>6 DEF ChangeOK, Registering, Changing

-----------------------------------------------------------------------------
(* Imports and suggestions *)

(* An import whose next transaction would insert nothing is complete. *)
LEMMA NothingLeft ==
    ASSUME NEW r \in Request, Batch(r) = {}
    PROVE  \A i \in DOMAIN r.peers : peer_own_ip(r.peers[i]) \in r.ips \cup {NoAddr}
<1> DEFINE own(i) == peer_own_ip(r.peers[i])
           commits == {i \in NewPeers(r) : NetworksOf(r, i) # {}}
<1>1. r.peers \in Seq(Block)
  BY RequestParts
<1>2. \A i \in DOMAIN r.peers : i \in Nat
  BY <1>1, SeqDomain
<1>3. commits \subseteq NewPeers(r) /\ NewPeers(r) \subseteq Nat
  BY <1>2 DEF NewPeers
<1>4. NewPeers(r) = {}
  <2>1. CASE commits = {}
    BY <2>1 DEF Batch
  <2>2. CASE commits # {}
    <3>1. Min(commits) \in commits
      BY <1>3, <2>2, Least
    <3>2. Min(commits) <= Min(commits)
      BY <1>3, <3>1
    <3>3. Min(commits) \in Batch(r)
      BY <1>3, <3>1, <3>2 DEF Batch
    <3>4. QED
      BY <3>3
  <2>3. QED
    BY <2>1, <2>2
<1>5. ASSUME NEW i \in DOMAIN r.peers, own(i) \notin r.ips \cup {NoAddr} PROVE FALSE
  <2> DEFINE S == {j \in DOMAIN r.peers : own(j) = own(i)}
  <2>1. S \subseteq Nat /\ S # {}
    BY <1>2
  <2>2. PICK m \in S : \A j \in S : m <= j
    BY <2>1, Least
  <2>3. m \in DOMAIN r.peers /\ own(m) = own(i)
    BY <2>2
  <2>4. \A j \in 1..(m - 1) : own(j) # own(m)
    <3> SUFFICES ASSUME NEW j \in 1..(m - 1), own(j) = own(m) PROVE FALSE
      OBVIOUS
    <3>1. m \in Nat /\ m \in 1..Len(r.peers) /\ DOMAIN r.peers = 1..Len(r.peers) /\ Len(r.peers) \in Nat
      BY <1>1, <2>3, SeqDomain
    <3>2. j \in DOMAIN r.peers /\ ~(m <= j)
      BY <3>1
    <3>3. j \in S
      BY <2>3, <3>2
    <3>4. QED
      BY <2>2, <3>2, <3>3
  <2>5. m \in NewPeers(r)
    BY <1>5, <2>3, <2>4 DEF NewPeers
  <2>6. QED
    BY <1>4, <2>5
<1>6. QED
  BY <1>5

LEMMA TakenGrows ==
    ASSUME PeerInv, Existing \subseteq Existing', \A c \in Existing : clients'[c] = clients[c]
    PROVE  Taken \subseteq Taken'
BY DEF Taken

LEMMA ImportStep ==
    ASSUME PeerInv, NEW t \in Threads, req[t].op = "import_peers", ImportOK(req[t]),
           FetchInfo(t) \/ ReadExisting(t) \/ FetchPeers(t) \/ ImportRows(t)
    PROVE  ImportOK(req[t])' /\ req'[t].op = req[t].op /\ req'[t].key = req[t].key
<1>1. PICK q \in Request : q = req[t] /\ RequestOK(q) /\ ImportOK(q) /\ q.op = "import_peers"
  BY Parts
<1>2. PICK r \in Request : r = req'[t]
  BY TableReads, TableWrites
<1>3. SUFFICES ImportOK(r)' /\ r.op = q.op /\ r.key = q.key
  BY <1>1, <1>2 DEF ImportOK
<1>4. conf' = conf
  BY DEF FetchInfo, ReadExisting, FetchPeers, ImportRows, server
<1>5. ASSUME q.at # "idle", Fail(t) PROVE ImportOK(r)' /\ r.op = q.op /\ r.key = q.key
  <2>1. Same(r, q) /\ r.failed /\ r.at \in {"reply", "readdress"}
    BY <1>1, <1>2, <1>5, FailsTo
  <2>2. r.at = "reply"
    BY <1>1, <1>2, <1>5, <2>1, FailsTo
  <2>3. QED
    BY <2>1, <2>2 DEF ImportOK, Same
<1>6. CASE FetchInfo(t)
  <2>1. PICK b \in BOOLEAN : r = [q EXCEPT !.mesh = b, !.at = "existing"]
    BY <1>1, <1>2, <1>6, Parts DEF FetchInfo, Move
  <2>2. r.op = q.op /\ r.key = q.key /\ r.at = "existing"
    BY <2>1 DEF Request
  <2>3. QED
    BY <2>2 DEF ImportOK
<1>7. CASE ReadExisting(t)
  <2>1. r = [q EXCEPT !.ips = Taken, !.at = "fetchAll"]
    BY <1>1, <1>2, <1>7, Parts DEF ReadExisting, Move
  <2>2. r.op = q.op /\ r.key = q.key /\ r.at = "fetchAll" /\ r.ips = Taken
    BY <2>1 DEF Request
  <2>3. Taken' = Taken
    BY <1>7 DEF ReadExisting, dbvars, Taken, Existing
  <2>4. QED
    BY <2>2, <2>3 DEF ImportOK
<1>8. CASE FetchPeers(t)
  <2>1. q.at = "fetchAll" /\ Taken' = Taken
    BY <1>1, <1>8 DEF FetchPeers, dbvars, Taken, Existing
  <2>2. CASE Move(t, [q EXCEPT !.peers = conf, !.at = "rows"])
    <3>1. r = [q EXCEPT !.peers = conf, !.at = "rows"]
      BY <1>2, <2>2, Parts DEF Move
    <3>2. /\ r.op = q.op /\ r.key = q.key /\ r.at = "rows" /\ r.peers = conf /\ r.ips = q.ips
          /\ r.failed = q.failed
      BY <3>1 DEF Request
    <3>3. QED
      BY <1>1, <1>4, <2>1, <3>2 DEF ImportOK
  <2>3. QED
    BY <1>1, <1>5, <1>8, <2>1, <2>2 DEF FetchPeers
<1>9. CASE ImportRows(t)
  <2>1. q.at = "rows" /\ q.peers = conf
    BY <1>1, <1>9 DEF ImportRows, ImportOK
  <2>2. CASE Batch(q) = {} /\ Goto(t, "reply") /\ UNCHANGED clients
    <3>1. Same(r, q) /\ r.at = "reply" /\ r.failed = q.failed
      BY <1>1, <1>2, <2>2, GoesTo DEF RequestSteps
    <3>2. Taken' = Taken
      BY <2>2 DEF Taken, Existing
    <3>3. \A i \in DOMAIN conf : peer_own_ip(conf[i]) \in q.ips \cup {NoAddr}
      BY <2>1, <2>2, NothingLeft
    <3>4. QED
      BY <1>1, <1>4, <2>1, <3>1, <3>2, <3>3 DEF ImportOK, Same
  <2>3. ASSUME NEW ips \in SUBSET Addrs, ips \subseteq Taken', Existing \subseteq Existing',
               \A c \in Existing : clients'[c] = clients[c],
               req' = [req EXCEPT ![t] = [req[t] EXCEPT !.ips = req[t].ips \cup ips]]
        PROVE  ImportOK(r)' /\ r.op = q.op /\ r.key = q.key
    <3>1. r = [q EXCEPT !.ips = q.ips \cup ips]
      BY <1>1, <1>2, <2>3, Parts
    <3>2. /\ r.op = q.op /\ r.key = q.key /\ r.at = "rows" /\ r.peers = q.peers /\ r.ips = q.ips \cup ips
          /\ r.failed = q.failed
      BY <2>1, <3>1 DEF Request
    <3>3. Taken \subseteq Taken'
      BY <2>3, TakenGrows
    <3>4. ~r.failed => r.ips \subseteq Taken'
      BY <1>1, <2>1, <2>3, <3>2, <3>3 DEF ImportOK
    <3>5. QED
      BY <1>4, <2>1, <3>2, <3>4 DEF ImportOK
  <2>4. CASE Fail(t)
    BY <1>5, <2>1, <2>4
  <2>5. QED
    BY <1>1, <1>9, <2>2, <2>3, <2>4, ImportIs
<1>10. QED
  BY <1>6, <1>7, <1>8, <1>9

LEMMA SuggestionStep ==
    ASSUME PeerInv, NEW t \in Threads, req[t].op = "suggest_free_ip",
           FetchSubnet(t) \/ FetchInUse(t) \/ SuggestFree(t)
    PROVE  req'[t].op = req[t].op /\ req'[t].key = req[t].key
<1>1. PICK q \in Request : q = req[t]
  BY Parts
<1>2. PICK r : r = req'[t]
  OBVIOUS
<1>3. CASE Fail(t)
  <2>1. q.at # "idle"
    BY <1>1 DEF FetchSubnet, FetchInUse, SuggestFree
  <2>2. QED
    BY <1>1, <1>3, <2>1, FailsTo DEF Same
<1>4. CASE FetchSubnet(t) /\ Goto(t, "inUse")
  BY <1>1, <1>4, GoesTo DEF RequestSteps, Same
<1>5. CASE FetchInUse(t)
  <2>1. PICK c : r = [q EXCEPT !.peers = c, !.at = "free"]
    BY <1>1, <1>2, <1>5, Parts DEF FetchInUse, Move
  <2>2. r.op = q.op /\ r.key = q.key
    BY <2>1 DEF Request
  <2>3. QED
    BY <1>1, <1>2, <2>2
<1>6. CASE SuggestFree(t) /\ ~Fail(t)
  <2>1. PICK a : r = [q EXCEPT !.ip = a, !.at = "reply"]
    BY <1>1, <1>2, <1>6, Parts DEF SuggestFree, Move
  <2>2. r.op = q.op /\ r.key = q.key
    BY <2>1 DEF Request
  <2>3. QED
    BY <1>1, <1>2, <2>2
<1>7. QED
  BY <1>3, <1>4, <1>5, <1>6 DEF FetchSubnet

-----------------------------------------------------------------------------
(* One thread *)

LEMMA Elsewhere ==
    ASSUME NEW r \in Request, RequestOK(r), r.op \in {"none", "import_peers", "suggest_free_ip"}, r.key = NoKey
    PROVE  /\ RecordOK(r)' /\ ChangeOK(r)' /\ ScriptOK(r)'
           /\ r.op # "import_peers" => ImportOK(r)'
<1>1. ~Registering(r) /\ ~Changing(r) /\ r.op # "set_client_wg_ip" /\ r.op # "set_client_networks"
  BY DEF Registering, Changing
<1>2. r.at \notin {"routes", "grep", "append", "openTmp", "awk", "mv"}
  BY <1>1, StepsAre DEF RequestOK, Registering, Changing
<1>3. QED
  BY <1>1, <1>2 DEF RecordOK, ChangeOK, ScriptOK, ImportOK

(* A new request. *)
LEMMA BeginsAlone ==
    ASSUME PeerInv, AloneInv, NEW t \in Threads, Threads = {t}, Begin(t)
    PROVE  AloneInv'
<1> DEFINE OK(r) == RecordOK(r) /\ ChangeOK(r) /\ ScriptOK(r) /\ ImportOK(r)
<1>1. ASSUME NEW r \in Request, r = req'[t], OK(r)' PROVE AloneInv'
  <2>1. OK(req[t])'
    BY <1>1 DEF RecordOK, ChangeOK, ScriptOK, ImportOK, Registering, Changing
  <2>2. QED
    BY <2>1 DEF AloneInv
<1>2. req[t].at = "idle"
  BY DEF Begin, add_client, set_client_kind, provision_register, provision_desktop_config,
         set_client_networks, set_client_wg_ip, import_peers, provision, Ready
<1>3. PICK q \in Request : q = req[t] /\ RequestOK(q) /\ q.op = "none" /\ q.key = NoKey
  <2>1. PICK q \in Request : q = req[t] /\ RequestOK(q) /\ ChangeOK(q)
    BY Parts DEF AloneInv
  <2>2. q.op = "none"
    BY <1>2, <2>1, StepsAre DEF RequestOK
  <2>3. QED
    BY <2>1, <2>2 DEF ChangeOK, Registering, Changing
<1>4. \A step \in {"wgSet", "hub", "store", "fetch", "info", "subnet"} : step \in RequestSteps
  BY DEF RequestSteps, ScriptSteps
<1> HIDE DEF OK
<1>5. CASE add_client(t) \/ set_client_kind(t)
  <2>1. req' = req
    BY <1>5 DEF add_client, set_client_kind
  <2>2. OK(q)'
    BY <1>3, Elsewhere DEF OK
  <2>3. QED
    BY <1>1, <1>3, <2>1, <2>2
<1>6. CASE provision_register(t)
  <2>1. PICK k \in Keys, a \in Addrs, S \in SUBSET Nets, b \in BOOLEAN :
           Move(t, [Idle EXCEPT !.op = "provision_register", !.at = "wgSet", !.key = k, !.ip = a,
                                !.nets = S, !.tagging = b])
    BY <1>6 DEF provision_register
  <2>2. PICK r : r = [Idle EXCEPT !.op = "provision_register", !.at = "wgSet", !.key = k, !.ip = a,
                                  !.nets = S, !.tagging = b]
    OBVIOUS
  <2>3. r \in Request /\ r.op = "provision_register" /\ r.at = "wgSet" /\ r.cid = 0 /\ r.told = "new"
    BY <1>4, <1>6, <2>2, IdleParts DEF Request, provision_register, Ready
  <2>4. r = req'[t]
    BY <2>1, <2>2, Parts DEF Move
  <2>5. OK(r)'
    BY <2>3 DEF OK, RecordOK, ChangeOK, ScriptOK, ImportOK, Registering, Changing
  <2>6. QED
    BY <1>1, <2>3, <2>4, <2>5
<1>7. CASE provision_desktop_config(t)
  <2>1. PICK k \in Keys, a \in Addrs :
           Move(t, [Idle EXCEPT !.op = "provision_desktop_config", !.at = "hub", !.key = k, !.ip = a,
                                !.tagging = TRUE])
    BY <1>7 DEF provision_desktop_config
  <2>2. PICK r : r = [Idle EXCEPT !.op = "provision_desktop_config", !.at = "hub", !.key = k, !.ip = a,
                                  !.tagging = TRUE]
    OBVIOUS
  <2>3. r \in Request /\ r.op = "provision_desktop_config" /\ r.at = "hub" /\ r.cid = 0 /\ r.told = "new"
    BY <1>4, <1>7, <2>2, IdleParts DEF Request, provision_desktop_config, Ready
  <2>4. r = req'[t]
    BY <2>1, <2>2, Parts DEF Move
  <2>5. OK(r)'
    BY <2>3 DEF OK, RecordOK, ChangeOK, ScriptOK, ImportOK, Registering, Changing, ScriptSteps
  <2>6. QED
    BY <1>1, <2>3, <2>4, <2>5
<1>8. CASE set_client_networks(t)
  <2>1. PICK c \in Existing, S \in SUBSET Nets :
           Move(t, [Idle EXCEPT !.op = "set_client_networks", !.at = "store", !.cid = c,
                                !.from = clients[c].ip, !.ip = clients[c].ip, !.nets = S])
    BY <1>8 DEF set_client_networks
  <2>2. PICK a \in Addrs : a = clients[c].ip
    BY RowType
  <2>3. PICK r : r = [Idle EXCEPT !.op = "set_client_networks", !.at = "store", !.cid = c,
                                  !.from = a, !.ip = a, !.nets = S]
    OBVIOUS
  <2>4. c \in ClientIds
    BY DEF Existing
  <2>5. r \in Request /\ r.op = "set_client_networks" /\ r.at = "store" /\ r.cid = c /\ r.ip = a
    BY <1>4, <1>8, <2>3, <2>4, IdleParts DEF Request, set_client_networks, Ready
  <2>6. r = req'[t] /\ clients' = clients
    BY <1>8, <2>1, <2>2, <2>3, Parts DEF Move, set_client_networks, dbvars
  <2>7. OK(r)'
    BY <2>2, <2>5, <2>6 DEF OK, RecordOK, ChangeOK, ScriptOK, ImportOK, Registering, Changing,
                            ScriptSteps
  <2>8. QED
    BY <1>1, <2>5, <2>6, <2>7
<1>9. CASE set_client_wg_ip(t)
  <2>1. PICK c \in Existing, a \in Addrs :
           Move(t, [Idle EXCEPT !.op = "set_client_wg_ip", !.at = "fetch", !.cid = c,
                                !.from = clients[c].ip, !.ip = a])
    BY <1>9 DEF set_client_wg_ip
  <2>2. PICK from \in Addrs : from = clients[c].ip
    BY RowType
  <2>3. PICK r : r = [Idle EXCEPT !.op = "set_client_wg_ip", !.at = "fetch", !.cid = c,
                                  !.from = from, !.ip = a]
    OBVIOUS
  <2>4. c \in ClientIds
    BY DEF Existing
  <2>5. r \in Request /\ r.op = "set_client_wg_ip" /\ r.at = "fetch" /\ r.key = NoKey
    BY <1>4, <1>9, <2>3, <2>4, IdleParts DEF Request, set_client_wg_ip, Ready
  <2>6. r = req'[t]
    BY <1>9, <2>1, <2>2, <2>3, Parts DEF Move
  <2>7. OK(r)'
    BY <2>5 DEF OK, RecordOK, ChangeOK, ScriptOK, ImportOK, Registering, Changing, ScriptSteps
  <2>8. QED
    BY <1>1, <2>5, <2>6, <2>7
<1>10. CASE import_peers(t) \/ provision(t)
  <2>1. PICK o \in {"import_peers", "suggest_free_ip"}, step \in {"info", "subnet"} :
           o \in Ops /\ Move(t, [Idle EXCEPT !.op = o, !.at = step])
    BY <1>10 DEF import_peers, provision, Ready
  <2>2. PICK r : r = [Idle EXCEPT !.op = o, !.at = step]
    OBVIOUS
  <2>3. r \in Request /\ r.op = o /\ r.at = step /\ r.key = NoKey
    BY <1>4, <2>1, <2>2, IdleParts DEF Request
  <2>4. r = req'[t]
    BY <2>1, <2>2, Parts DEF Move
  <2>5. OK(r)'
    BY <2>3 DEF OK, RecordOK, ChangeOK, ScriptOK, ImportOK, Registering, Changing, ScriptSteps
  <2>6. QED
    BY <1>1, <2>3, <2>4, <2>5
<1>11. QED
  BY <1>5, <1>6, <1>7, <1>8, <1>9, <1>10 DEF Begin

LEMMA ContinuesAlone ==
    ASSUME PeerInv, AloneInv, NEW t \in Threads, Threads = {t}, Continue(t), PeerInv'
    PROVE  AloneInv'
<1> DEFINE OK(r) == RecordOK(r) /\ ChangeOK(r) /\ ScriptOK(r) /\ ImportOK(r)
<1>1. SUFFICES OK(req[t])'
  BY DEF AloneInv
<1>2. PICK q \in Request : q = req[t] /\ RequestOK(q)
  BY Parts
<1>3. OK(req[t])
  BY DEF AloneInv
<1>4. PICK r \in Request : r = req'[t]
  BY DEF PeerInv, TypeOK
<1>5. RequestOK(r)'
  <2>1. RequestOK(req[t])'
    BY DEF PeerInv
  <2>2. QED
    BY <1>4, <2>1 DEF RequestOK, Registering, Changing
<1>6. CASE Reply(t)
  <2>1. r = Idle
    BY <1>4, <1>6, Parts DEF Reply, Move
  <2>2. RequestOK(Idle)
    BY IdleParts DEF RequestOK, Registering, Changing, StepsOf, ScriptSteps
  <2>3. RecordOK(r)' /\ ChangeOK(r)' /\ ScriptOK(r)' /\ ImportOK(r)'
    BY <2>1, <2>2, IdleParts, Elsewhere
  <2>4. QED
    BY <1>4, <2>3 DEF RecordOK, ChangeOK, ScriptOK, ImportOK, Registering, Changing
<1>7. CASE /\ Registering(req[t])
           /\ \/ WgSet(t) \/ RouteReplace(t) \/ Grep(t) \/ AppendBlock(t) \/ CommandFails(t) \/ FetchHub(t)
              \/ InsertClient(t) \/ FindTag(t) \/ AddTag(t) \/ set_client_tags(t) \/ StoreNetworks(t)
  <2>1. RecordOK(req[t])' /\ r.op = q.op
    BY <1>2, <1>3, <1>4, <1>7, RecordStep
  <2>2. ScriptOK(req[t])'
    <3>1. CASE ScriptStep(t)
      BY <1>3, <1>7, <3>1, ScriptOKStep
    <3>2. CASE \/ FetchHub(t) \/ InsertClient(t) \/ FindTag(t) \/ AddTag(t) \/ set_client_tags(t)
               \/ StoreNetworks(t)
      BY <1>3, <1>7, <3>2, RecordingKeepsScript
    <3>3. QED
      BY <1>7, <3>1, <3>2 DEF ScriptStep
  <2>3. Registering(r)
    BY <1>2, <1>7, <2>1 DEF Registering
  <2>4. ChangeOK(r)' /\ ImportOK(r)'
    BY <2>3 DEF ChangeOK, ImportOK, Registering
  <2>5. ChangeOK(req[t])' /\ ImportOK(req[t])'
    BY <1>4, <2>4 DEF ChangeOK, ImportOK, Registering, Changing
  <2>6. QED
    BY <2>1, <2>2, <2>5
<1>8. CASE /\ Changing(req[t])
           /\ \/ WgSet(t) \/ RouteReplace(t) \/ OpenTmp(t) \/ Awk(t) \/ Rename(t) \/ CommandFails(t)
              \/ StoreNetworks(t) \/ ListNetworks(t) \/ FindPeer(t) \/ Readdress(t)
  <2>1. ChangeOK(req[t])' /\ ScriptOK(req[t])' /\ r.op = q.op
    <3>1. CASE ScriptStep(t)
      BY <1>2, <1>3, <1>4, <1>8, <3>1, ScriptOKStep, ScriptKeepsChange
    <3>2. CASE StoreNetworks(t) \/ ListNetworks(t) \/ FindPeer(t) \/ Readdress(t)
      BY <1>2, <1>3, <1>4, <1>8, <3>2, ChangeStep
    <3>3. QED
      BY <1>8, <3>1, <3>2 DEF ScriptStep
  <2>2. Changing(r)
    BY <1>2, <1>8, <2>1 DEF Changing
  <2>3. RecordOK(r)' /\ ImportOK(r)'
    BY <2>2 DEF RecordOK, ImportOK, Registering, Changing
  <2>4. RecordOK(req[t])' /\ ImportOK(req[t])'
    BY <1>4, <2>3 DEF RecordOK, ImportOK, Registering, Changing
  <2>5. QED
    BY <2>1, <2>4
<1>9. ASSUME r.op = q.op, r.key = q.key, q.op \in {"import_peers", "suggest_free_ip"}
      PROVE  /\ RecordOK(req[t])' /\ ChangeOK(req[t])' /\ ScriptOK(req[t])'
             /\ r.op # "import_peers" => ImportOK(req[t])'
  <2>1. q.key = NoKey
    BY <1>2, <1>3, <1>9 DEF ChangeOK, Registering, Changing
  <2>2. RequestOK(r)
    BY <1>2, <1>5, <1>9 DEF RequestOK, Registering, Changing, StepsOf, ScriptSteps
  <2>3. /\ RecordOK(r)' /\ ChangeOK(r)' /\ ScriptOK(r)'
        /\ r.op # "import_peers" => ImportOK(r)'
    BY <1>9, <2>1, <2>2, Elsewhere
  <2>4. QED
    BY <1>4, <2>3 DEF RecordOK, ChangeOK, ScriptOK, ImportOK, Registering, Changing
<1>10. CASE /\ req[t].op = "import_peers"
            /\ FetchInfo(t) \/ ReadExisting(t) \/ FetchPeers(t) \/ ImportRows(t)
  <2>1. ImportOK(req[t])' /\ r.op = q.op /\ r.key = q.key
    BY <1>2, <1>3, <1>4, <1>10, ImportStep
  <2>2. QED
    BY <1>2, <1>9, <1>10, <2>1
<1>11. CASE /\ req[t].op = "suggest_free_ip"
            /\ FetchSubnet(t) \/ FetchInUse(t) \/ SuggestFree(t)
  <2>1. r.op = q.op /\ r.key = q.key
    BY <1>2, <1>4, <1>11, SuggestionStep
  <2>2. QED
    BY <1>2, <1>9, <1>11, <2>1
<1> HIDE DEF OK
<1>12. QED
  BY <1>6, <1>7, <1>8, <1>10, <1>11, StepsByKind

LEMMA RebootsAlone ==
    ASSUME PeerInv, AloneInv, Reboot
    PROVE  AloneInv'
<1> DEFINE OK(r) == RecordOK(r) /\ ChangeOK(r) /\ ScriptOK(r) /\ ImportOK(r)
<1>1. UNCHANGED dbvars /\ conf' = conf
  BY DEF Reboot
<1>2. clients' = clients /\ tag' = tag /\ tagged' = tagged /\ Taken' = Taken
  BY <1>1 DEF dbvars, Taken, Existing
<1>3. ASSUME NEW u \in Threads PROVE OK(req[u])'
  <2>1. PICK q \in Request : q = req[u] /\ RequestOK(q) /\ OK(q)
    BY Parts DEF AloneInv
  <2>2. CASE q.at \in ScriptSteps
    <3>1. PICK r : r = Broken(req[u])
      OBVIOUS
    <3>2. r = req'[u]
      BY <2>1, <2>2, <3>1 DEF Reboot
    <3>3. /\ r \in Request /\ r = [q EXCEPT !.failed = TRUE, !.at = r.at]
          /\ r.at \in {"reply", "readdress"} /\ (r.at = "readdress" => q.op = "set_client_wg_ip")
      BY <2>1, <2>2, <3>1, BrokenIs DEF ScriptSteps
    <3>4. Same(r, q) /\ r.failed
      BY <3>3 DEF Request, Same
    <3>5. (Registering(q) \/ Changing(q)) /\ q.key \in Keys
      BY <2>1, <2>2, ScriptFor
    <3>6. "store" \notin ScriptSteps /\ "fetch" \notin ScriptSteps /\ "list" \notin ScriptSteps
             /\ "reply" \notin ScriptSteps /\ "findTag" \notin ScriptSteps /\ "addTag" \notin ScriptSteps
             /\ "assignTag" \notin ScriptSteps
      BY DEF ScriptSteps
    <3>7. RecordOK(r)'
      BY <1>2, <2>1, <2>2, <3>3, <3>4, <3>6 DEF RecordOK, Same, Registering
    <3>8. ChangeOK(r)'
      BY <1>2, <2>1, <2>2, <3>3, <3>4, <3>5, <3>6 DEF ChangeOK, Same, Registering, Changing
    <3>9. ScriptOK(r)' /\ ImportOK(r)'
      BY <3>3, <3>4, <3>5, ScriptOver DEF ImportOK, Same, Registering, Changing
    <3>10. QED
      BY <3>2, <3>7, <3>8, <3>9 DEF RecordOK, ChangeOK, ScriptOK, ImportOK, Registering, Changing
  <2>3. CASE q.at \notin ScriptSteps
    <3>1. q = req'[u]
      BY <2>1, <2>3 DEF Reboot
    <3>2. RecordOK(q)' /\ ChangeOK(q)' /\ ImportOK(q)'
      BY <1>1, <1>2, <2>1 DEF RecordOK, ChangeOK, ImportOK, Registering, Changing
    <3>3. q.at \notin {"routes", "grep", "append", "openTmp", "awk", "mv"}
      BY <2>3 DEF ScriptSteps
    <3>4. Plain(q.key)' = Plain(q.key)
      BY <1>1 DEF Plain
    <3>5. LiveAndPersistent(q.key, {q.ip} \cup q.nets) => LiveAndPersistent(q.key, {q.ip} \cup q.nets)'
      BY PersistenceReboots
    <3>6. ScriptOK(q)'
      BY <1>1, <2>1, <2>3, <3>3, <3>4, <3>5 DEF ScriptOK, Registering, Changing
    <3>7. QED
      BY <3>1, <3>2, <3>6 DEF RecordOK, ChangeOK, ScriptOK, ImportOK, Registering, Changing
  <2>4. QED
    BY <2>2, <2>3
<1>4. QED
  BY <1>3 DEF AloneInv

LEMMA AloneInvariant ==
    ASSUME NEW t, Threads = {t}
    PROVE  Spec => [](PeerInv /\ AloneInv)
<1>1. ASSUME Init PROVE PeerInv /\ AloneInv
  <2>1. RequestOK(Idle)
    BY IdleParts DEF RequestOK, Registering, Changing, StepsOf, ScriptSteps
  <2>2. \A u \in Threads : req[u] = Idle
    BY <1>1 DEF Init
  <2>3. RecordOK(Idle) /\ ChangeOK(Idle) /\ ScriptOK(Idle) /\ ImportOK(Idle)
    BY IdleParts DEF RecordOK, ChangeOK, ScriptOK, ImportOK, Registering, Changing, ScriptSteps
  <2>4. QED
    BY <1>1, <2>2, <2>3, PeerInit DEF AloneInv
<1>2. ASSUME PeerInv, AloneInv, [Next]_vars PROVE PeerInv' /\ AloneInv'
  <2>1. PeerInv'
    BY <1>2, PeerNext
  <2>2. CASE \E u \in Threads : Begin(u)
    <3>1. PICK u \in Threads : Begin(u)
      BY <2>2
    <3>2. QED
      BY <1>2, <2>1, <3>1, BeginsAlone
  <2>3. CASE \E u \in Threads : Continue(u)
    BY <1>2, <2>1, <2>3, ContinuesAlone
  <2>4. CASE Reboot
    BY <1>2, <2>1, <2>4, RebootsAlone
  <2>5. CASE UNCHANGED vars
    <3>1. UNCHANGED <<live, routes, conf, tmp, refused, clients, tag, tagged, begun, req>>
      BY <2>5 DEF vars, server, dbvars
    <3>2. \A u \in Threads : RecordOK(req[u])' /\ ChangeOK(req[u])' /\ ImportOK(req[u])'
      BY <1>2, <3>1 DEF AloneInv, RecordOK, ChangeOK, ImportOK, Registering, Changing, Taken, Existing
    <3>3. ASSUME NEW u \in Threads PROVE ScriptOK(req[u])'
      <4>1. PICK q \in Request : q = req[u] /\ ScriptOK(q)
        BY <1>2, Parts DEF AloneInv
      <4>2. Plain(q.key)' = Plain(q.key)
        BY <3>1 DEF Plain
      <4>3. LiveAndPersistent(q.key, {q.ip} \cup q.nets)' = LiveAndPersistent(q.key, {q.ip} \cup q.nets)
        BY <3>1 DEF LiveAndPersistent
      <4>4. ScriptOK(q)'
        BY <3>1, <4>1, <4>2, <4>3 DEF ScriptOK, Registering, Changing
      <4>5. QED
        BY <3>1, <4>1, <4>4
    <3>4. QED
      BY <2>1, <3>2, <3>3 DEF AloneInv
  <2>6. QED
    BY <1>2, <2>1, <2>2, <2>3, <2>4, <2>5 DEF Next
<1>3. QED
  BY <1>1, <1>2, PTL DEF Spec

(* With one administrator, what the wizards say of the client is so: who   *)
(* is told that the client existed has not created it, and everybody else  *)
(* has the client with its networks and the group of its platform.         *)
THEOREM AloneRegisteredAsReported ==
    ASSUME NEW t, Threads = {t}
    PROVE  Spec => []RegisteredAsReported
<1>1. ASSUME PeerInv, AloneInv PROVE RegisteredAsReported
  <2> SUFFICES ASSUME NEW u \in Threads, Succeeded(u), Registering(req[u])
               PROVE  IF req[u].told = "existing" THEN req[u].cid = 0
                      ELSE /\ clients[req[u].cid].ip = req[u].ip /\ clients[req[u].cid].nets = req[u].nets
                           /\ req[u].tagging => req[u].cid \in tagged
    BY DEF RegisteredAsReported
  <2>1. PICK r \in Request : r = req[u] /\ RecordOK(r)
    BY <1>1, Parts DEF AloneInv
  <2>2. r.told \in {"new", "existing"}
    BY RequestParts
  <2>3. QED
    BY <2>1, <2>2 DEF RecordOK, Succeeded
<1>2. QED
  BY <1>1, AloneInvariant, PTL

(* With one administrator, a request that reports success and has changed  *)
(* a peer leaves the client's row, the config and the kernel in agreement, *)
(* and the routes but for those the kernel refused, wherever scripts broke *)
(* off before and whenever the server reboots.                             *)
THEOREM AloneSuccessMeansPersisted ==
    ASSUME NEW t, Threads = {t}
    PROVE  Spec => []SuccessMeansPersisted
<1>1. ASSUME PeerInv, AloneInv PROVE SuccessMeansPersisted
  <2> SUFFICES ASSUME NEW u \in Threads, Succeeded(u), req[u].key # NoKey,
                      IF Registering(req[u]) THEN ~req[u].known /\ req[u].told = "new" ELSE Plain(req[u].key)
               PROVE  /\ clients[req[u].cid].ip = req[u].ip
                      /\ LiveAndPersistent(req[u].key, {req[u].ip} \cup clients[req[u].cid].nets)
    BY DEF SuccessMeansPersisted, Plain
  <2>1. PICK r \in Request : r = req[u] /\ RequestOK(r) /\ RecordOK(r) /\ ChangeOK(r) /\ ScriptOK(r)
    BY <1>1, Parts DEF AloneInv
  <2>2. r.at = "reply" /\ ~r.failed /\ r.key # NoKey
    BY <2>1 DEF Succeeded
  <2>3. CASE Registering(r)
    <3>1. clients[r.cid].ip = r.ip /\ clients[r.cid].nets = r.nets
      BY <2>1, <2>2, <2>3 DEF RecordOK
    <3>2. LiveAndPersistent(r.key, {r.ip} \cup r.nets)
      BY <2>1, <2>2, <2>3 DEF ScriptOK
    <3>3. QED
      BY <2>1, <3>1, <3>2
  <2>4. CASE ~Registering(r)
    <3>1. Changing(r) /\ Plain(r.key)
      BY <2>1, <2>2, <2>4 DEF ChangeOK
    <3>2. clients[r.cid].ip = r.ip /\ clients[r.cid].nets = r.nets
      BY <2>1, <2>2, <3>1 DEF ChangeOK, Changing
    <3>3. LiveAndPersistent(r.key, {r.ip} \cup r.nets)
      BY <2>1, <2>2, <3>1 DEF ScriptOK
    <3>4. QED
      BY <2>1, <3>2, <3>3
  <2>5. QED
    BY <2>3, <2>4
<1>2. QED
  BY <1>1, AloneInvariant, PTL

(* With one administrator, an import that reports success has left no peer *)
(* of the config with an address of its own without a row, however many    *)
(* transactions it has taken.                                              *)
THEOREM AloneImportComplete ==
    ASSUME NEW t, Threads = {t}
    PROVE  Spec => []ImportComplete
<1>1. ASSUME PeerInv, AloneInv PROVE ImportComplete
  BY <1>1 DEF ImportComplete, AloneInv, ImportOK, Succeeded
<1>2. QED
  BY <1>1, AloneInvariant, PTL


-----------------------------------------------------------------------------
(* The kernel and the file *)

(* A block appended for peer b.key makes of the file what "wg set" makes   *)
(* of the kernel.                                                          *)
LEMMA LoadedExtended ==
    ASSUME NEW c \in Seq(Block), NEW b \in Block
    PROVE  /\ Loaded(Append(c, b)) = Assign(Loaded(c), b.key, AllowedIPs(b))
           /\ Routed(Append(c, b)) = Routed(c) \cup AllowedIPs(b)
<1>1. PICK d, n : d = Append(c, b) /\ n = Len(c) + 1
  OBVIOUS
<1>2. /\ Loaded(d)[b.key] = AllowedIPs(b) /\ d[n] = b /\ n \in DOMAIN d
      /\ \A i \in DOMAIN c : i \in DOMAIN d /\ d[i] = c[i]
      /\ \A i \in DOMAIN d : i \in DOMAIN c \/ i = n
  BY <1>1, LoadedAppended
<1>3. \A i \in DOMAIN c : i \in Nat /\ n \in Nat /\ n > i /\ ~(i > n) /\ i # n
  BY <1>1, SeqDomain
<1>4. ASSUME NEW q \in Keys, q # b.key PROVE Loaded(d)[q] = Loaded(c)[q] \ AllowedIPs(b)
  <2>1. Loaded(d)[q] = {a \in Cidrs : \E i \in DOMAIN d :
           /\ d[i].key = q /\ a \in AllowedIPs(d[i])
           /\ \A j \in DOMAIN d : j > i => d[j].key # q /\ a \notin AllowedIPs(d[j])}
    BY DEF Loaded
  <2>2. Loaded(c)[q] = {a \in Cidrs : \E i \in DOMAIN c :
           /\ c[i].key = q /\ a \in AllowedIPs(c[i])
           /\ \A j \in DOMAIN c : j > i => c[j].key # q /\ a \notin AllowedIPs(c[j])}
    BY DEF Loaded
  <2>3. ASSUME NEW a \in Loaded(d)[q] PROVE a \in Loaded(c)[q] /\ a \notin AllowedIPs(b)
    <3>1. PICK i \in DOMAIN d : /\ a \in Cidrs /\ d[i].key = q /\ a \in AllowedIPs(d[i])
                                /\ \A j \in DOMAIN d : j > i => d[j].key # q /\ a \notin AllowedIPs(d[j])
      BY <2>1, <2>3
    <3>2. i \in DOMAIN c
      BY <1>2, <1>4, <3>1
    <3>3. QED
      BY <1>2, <1>3, <2>2, <3>1, <3>2
  <2>4. ASSUME NEW a \in Loaded(c)[q], a \notin AllowedIPs(b) PROVE a \in Loaded(d)[q]
    <3>1. PICK i \in DOMAIN c : /\ a \in Cidrs /\ c[i].key = q /\ a \in AllowedIPs(c[i])
                                /\ \A j \in DOMAIN c : j > i => c[j].key # q /\ a \notin AllowedIPs(c[j])
      BY <2>2, <2>4
    <3>2. \A j \in DOMAIN d : j > i => d[j].key # q /\ a \notin AllowedIPs(d[j])
      BY <1>2, <1>4, <2>4, <3>1
    <3>3. QED
      BY <1>2, <2>1, <3>1, <3>2
  <2>5. QED
    BY <2>3, <2>4
<1>5. Loaded(d) = Assign(Loaded(c), b.key, AllowedIPs(b))
  <2>1. \A q \in Keys : Loaded(d)[q] = Assign(Loaded(c), b.key, AllowedIPs(b))[q]
    BY <1>2, <1>4 DEF Assign
  <2>2. Loaded(d) = [q \in Keys |-> Loaded(d)[q]]
    BY DEF Loaded
  <2>3. Assign(Loaded(c), b.key, AllowedIPs(b)) = [q \in Keys |-> Assign(Loaded(c), b.key, AllowedIPs(b))[q]]
    BY DEF Assign
  <2>4. QED
    BY <2>1, <2>2, <2>3
<1>6. Routed(d) = Routed(c) \cup AllowedIPs(b)
  BY <1>2 DEF Routed
<1>7. QED
  BY <1>1, <1>5, <1>6

(* In d the blocks of peer k name S, and no other block of c names one of  *)
(* these addresses, or one that peer k gives up.                           *)
Replaced(c, d, k, S) ==
    /\ DOMAIN d = DOMAIN c /\ \E i \in DOMAIN c : c[i].key = k
    /\ \A i \in DOMAIN c :
          /\ d[i].key = c[i].key
          /\ IF c[i].key = k THEN AllowedIPs(d[i]) = S ELSE d[i] = c[i] /\ AllowedIPs(c[i]) \cap S = {}
    /\ \A i, j \in DOMAIN c : c[i].key # k /\ c[j].key = k => AllowedIPs(c[i]) \cap AllowedIPs(c[j]) = {}

(* So does the awk program for a peer that nobody contests. *)
LEMMA LoadedReplaced ==
    ASSUME NEW c \in Seq(Block), NEW d \in Seq(Block), NEW k \in Keys, NEW S \in SUBSET Cidrs,
           Replaced(c, d, k, S)
    PROVE  Loaded(d) = Assign(Loaded(c), k, S) /\ Routed(d) \subseteq Routed(c) \cup S
<1>1. Loaded(d)[k] = S
  <2>1. \E i \in DOMAIN d : d[i].key = k
    BY DEF Replaced
  <2>2. \A i \in DOMAIN d : IF d[i].key = k THEN AllowedIPs(d[i]) = S ELSE AllowedIPs(d[i]) \cap S = {}
    BY DEF Replaced
  <2>3. QED
    BY <2>1, <2>2, LoadedRewritten
<1> USE DEF Replaced
<1>2. ASSUME NEW q \in Keys, q # k PROVE Loaded(d)[q] = Loaded(c)[q] \ S
  <2>1. Loaded(d)[q] = {a \in Cidrs : \E i \in DOMAIN d :
           /\ d[i].key = q /\ a \in AllowedIPs(d[i])
           /\ \A j \in DOMAIN d : j > i => d[j].key # q /\ a \notin AllowedIPs(d[j])}
    BY DEF Loaded
  <2>2. Loaded(c)[q] = {a \in Cidrs : \E i \in DOMAIN c :
           /\ c[i].key = q /\ a \in AllowedIPs(c[i])
           /\ \A j \in DOMAIN c : j > i => c[j].key # q /\ a \notin AllowedIPs(c[j])}
    BY DEF Loaded
  <2>3. ASSUME NEW a, NEW i \in DOMAIN c, c[i].key = q, a \in AllowedIPs(c[i]), NEW j \in DOMAIN c
        PROVE  a \notin S /\ (a \in AllowedIPs(d[j]) <=> a \in AllowedIPs(c[j]))
    <3>1. a \notin S
      BY <1>2, <2>3
    <3>2. QED
      BY <1>2, <2>3, <3>1
  <2>4. ASSUME NEW a \in Loaded(d)[q] PROVE a \in Loaded(c)[q] /\ a \notin S
    <3>1. PICK i \in DOMAIN c : /\ a \in Cidrs /\ d[i].key = q /\ a \in AllowedIPs(d[i])
                                /\ \A j \in DOMAIN c : j > i => d[j].key # q /\ a \notin AllowedIPs(d[j])
      BY <2>1, <2>4
    <3>2. c[i].key = q /\ a \in AllowedIPs(c[i])
      BY <1>2, <3>1
    <3>3. QED
      BY <2>2, <2>3, <3>1, <3>2
  <2>5. ASSUME NEW a \in Loaded(c)[q] PROVE a \in Loaded(d)[q]
    <3>1. PICK i \in DOMAIN c : /\ a \in Cidrs /\ c[i].key = q /\ a \in AllowedIPs(c[i])
                                /\ \A j \in DOMAIN c : j > i => c[j].key # q /\ a \notin AllowedIPs(c[j])
      BY <2>2, <2>5
    <3>2. d[i].key = q /\ a \in AllowedIPs(d[i])
      BY <2>3, <3>1
    <3>3. \A j \in DOMAIN d : j > i => d[j].key # q /\ a \notin AllowedIPs(d[j])
      BY <2>3, <3>1
    <3>4. QED
      BY <2>1, <3>1, <3>2, <3>3
  <2>6. QED
    BY <2>4, <2>5
<1>3. Loaded(d) = Assign(Loaded(c), k, S)
  <2>1. \A q \in Keys : Loaded(d)[q] = Assign(Loaded(c), k, S)[q]
    BY <1>1, <1>2 DEF Assign
  <2>2. Loaded(d) = [q \in Keys |-> Loaded(d)[q]]
    BY DEF Loaded
  <2>3. Assign(Loaded(c), k, S) = [q \in Keys |-> Assign(Loaded(c), k, S)[q]]
    BY DEF Assign
  <2>4. QED
    BY <2>1, <2>2, <2>3
<1>4. Routed(d) \subseteq Routed(c) \cup S
  <2>1. ASSUME NEW i \in DOMAIN c PROVE AllowedIPs(d[i]) = S \/ d[i] = c[i]
    OBVIOUS
  <2>2. QED
    BY <2>1 DEF Routed
<1>5. QED
  BY <1>3, <1>4

(* The steps that are not those of a script. *)
LEMMA OutsideScripts ==
    ASSUME PeerInv, NEW t \in Threads, Continue(t), ~ScriptStep(t)
    PROVE  /\ UNCHANGED server /\ req[t].at \notin ScriptSteps
           /\ req'[t].at \notin ScriptSteps \ {"wgSet"}
<1>1. \/ FetchHub(t) \/ FindTag(t) \/ ListNetworks(t) \/ FindPeer(t) \/ FetchInfo(t) \/ ReadExisting(t)
      \/ FetchPeers(t) \/ FetchSubnet(t) \/ FetchInUse(t) \/ SuggestFree(t) \/ Reply(t)
      \/ InsertClient(t) \/ AddTag(t) \/ set_client_tags(t) \/ StoreNetworks(t) \/ Readdress(t)
      \/ ImportRows(t)
  BY DEF Continue
<1>2. UNCHANGED server
  BY <1>1, TableReads, TableWrites
<1>3. PICK q \in Request : q = req[t]
  BY Parts
<1>4. q.at \notin ScriptSteps /\ (Reply(t) \/ q.at # "reply") /\ q.at # "idle"
  BY <1>1, <1>3 DEF FetchHub, FindTag, ListNetworks, FindPeer, FetchInfo, ReadExisting, FetchPeers, FetchSubnet,
                    FetchInUse, SuggestFree, Reply, InsertClient, AddTag, set_client_tags, StoreNetworks, Readdress,
                    ImportRows, ScriptSteps
<1>5. PICK r : r = req'[t]
  OBVIOUS
<1> DEFINE Out == {"wgSet", "readdress", "reply", "idle", "inUse", "free", "existing", "fetchAll", "rows", "list",
                   "fetch", "findTag", "addTag", "assignTag", "store"}
<1>6. Out \subseteq RequestSteps /\ \A step \in Out : step \notin ScriptSteps \ {"wgSet"}
  BY DEF RequestSteps, ScriptSteps
<1> HIDE DEF Out
<1>7. CASE Fail(t)
  <2>1. r.at \in {"reply", "readdress"}
    BY <1>3, <1>4, <1>5, <1>7, FailsTo
  <2>2. QED
    BY <1>2, <1>3, <1>4, <1>5, <2>1 DEF ScriptSteps
<1>8. ASSUME NEW step \in Out, Goto(t, step) PROVE req'[t].at \notin ScriptSteps \ {"wgSet"}
  BY <1>6, <1>8, GoesTo
<1>9. ASSUME NEW x, Move(t, x) PROVE r = x
  BY <1>3, <1>5, <1>9, Parts DEF Move
<1>10. CASE /\ ~Fail(t)
            /\ \/ FetchHub(t) \/ FindTag(t) \/ FetchSubnet(t) \/ set_client_tags(t)
               \/ StoreNetworks(t) \/ Readdress(t)
  <2>1. \E step \in Out : Goto(t, step)
    BY <1>10 DEF FetchHub, FindTag, FetchSubnet, set_client_tags, StoreNetworks, Readdress, StoreOrReply, Out
  <2>2. QED
    BY <1>2, <1>3, <1>4, <1>8, <2>1
<1>11. CASE ListNetworks(t)
  <2>1. PICK S, step : /\ S = clients[q.cid].nets
                       /\ step = IF q.op = "set_client_wg_ip" THEN "wgSet" ELSE "fetch"
    OBVIOUS
  <2>2. Move(t, [q EXCEPT !.nets = S, !.at = step])
    BY <1>3, <1>11, <2>1 DEF ListNetworks
  <2>3. r = [q EXCEPT !.nets = S, !.at = step]
    BY <1>9, <2>2
  <2>4. r.at \in {"wgSet", "fetch"}
    BY <2>1, <2>3 DEF Request
  <2>5. QED
    BY <1>2, <1>3, <1>4, <1>5, <2>4 DEF ScriptSteps
<1>12. CASE FindPeer(t) /\ ~Fail(t)
  <2>1. CASE Goto(t, "readdress")
    BY <1>2, <1>3, <1>4, <1>8, <2>1 DEF Out
  <2>2. CASE ~Goto(t, "readdress")
    <3>1. PICK own, step : /\ own = {i \in DOMAIN conf : peer_own_ip(conf[i]) = q.from}
                           /\ step = IF q.op = "set_client_wg_ip" THEN "list" ELSE "wgSet"
      OBVIOUS
    <3>2. Move(t, [q EXCEPT !.key = conf[Min(own)].key, !.at = step])
      BY <1>3, <1>12, <2>2, <3>1 DEF FindPeer
    <3>3. r = [q EXCEPT !.key = conf[Min(own)].key, !.at = step]
      BY <1>9, <3>2
    <3>4. r.at \in {"list", "wgSet"}
      BY <3>1, <3>3 DEF Request
    <3>5. QED
      BY <1>2, <1>3, <1>4, <1>5, <3>4 DEF ScriptSteps
  <2>3. QED
    BY <2>1, <2>2
<1>13. CASE FetchInfo(t) \/ ReadExisting(t)
  <2>1. \/ \E b : r = [q EXCEPT !.mesh = b, !.at = "existing"]
        \/ r = [q EXCEPT !.ips = Taken, !.at = "fetchAll"]
    BY <1>3, <1>9, <1>13 DEF FetchInfo, ReadExisting
  <2>2. r.at \in {"existing", "fetchAll"}
    BY <2>1 DEF Request
  <2>3. QED
    BY <1>2, <1>3, <1>4, <1>5, <2>2 DEF ScriptSteps
<1>14. CASE ~Fail(t) /\ (FetchPeers(t) \/ FetchInUse(t))
  <2>1. \E c : r = [q EXCEPT !.peers = c, !.at = "rows"] \/ r = [q EXCEPT !.peers = c, !.at = "free"]
    BY <1>3, <1>9, <1>14 DEF FetchPeers, FetchInUse
  <2>2. r.at \in {"rows", "free"}
    BY <2>1 DEF Request
  <2>3. QED
    BY <1>2, <1>3, <1>4, <1>5, <2>2 DEF ScriptSteps
<1>15. CASE ~Fail(t) /\ SuggestFree(t)
  <2>1. \E a : r = [q EXCEPT !.ip = a, !.at = "reply"]
    BY <1>3, <1>9, <1>15 DEF SuggestFree
  <2>2. r.at = "reply"
    BY <2>1 DEF Request
  <2>3. QED
    BY <1>2, <1>3, <1>4, <1>5, <2>2 DEF ScriptSteps
<1>16. CASE Reply(t)
  <2>1. r = Idle
    BY <1>9, <1>16 DEF Reply
  <2>2. QED
    BY <1>2, <1>3, <1>4, <1>5, <2>1, IdleParts DEF ScriptSteps
<1>17. CASE InsertClient(t) \/ AddTag(t)
  <2>1. PICK step : step = IF q.tagging THEN "findTag" ELSE StoreOrReply(q)
    OBVIOUS
  <2>2. \/ Move(t, [q EXCEPT !.told = "existing", !.at = "reply"])
        \/ Move(t, [q EXCEPT !.cid = NextId, !.at = step])
        \/ Move(t, [q EXCEPT !.at = "assignTag"])
    BY <1>3, <1>17, <2>1 DEF InsertClient, AddTag
  <2>3. \/ r = [q EXCEPT !.told = "existing", !.at = "reply"]
        \/ r = [q EXCEPT !.cid = NextId, !.at = step]
        \/ r = [q EXCEPT !.at = "assignTag"]
    BY <1>9, <2>2
  <2>4. r.at \in {"reply", "findTag", "store", "assignTag"}
    BY <2>1, <2>3 DEF Request, StoreOrReply
  <2>5. QED
    BY <1>2, <1>3, <1>4, <1>5, <2>4 DEF ScriptSteps
<1>18. CASE ImportRows(t) /\ ~Fail(t)
  <2>1. CASE Goto(t, "reply")
    BY <1>2, <1>3, <1>4, <1>8, <2>1 DEF Out
  <2>2. CASE ~Goto(t, "reply")
    <3>1. \E S : r = [q EXCEPT !.ips = S]
      BY <1>3, <1>9, <1>18, <2>2 DEF ImportRows
    <3>2. r.at = q.at
      BY <3>1 DEF Request
    <3>3. QED
      BY <1>2, <1>3, <1>4, <1>5, <3>2
  <2>3. QED
    BY <2>1, <2>2
<1>19. QED
  BY <1>1, <1>7, <1>10, <1>11, <1>12, <1>13, <1>14, <1>15, <1>16, <1>17, <1>18


(* The steps that requests begin with. *)
LEMMA BeginsWith ==
    ASSUME PeerInv, NEW t \in Threads, Begin(t)
    PROVE  req'[t].at \in {"idle", "wgSet", "hub", "store", "fetch", "info", "subnet"}
<1>1. req[t].at = "idle" /\ req[t] \in Request
  BY Parts DEF Begin, add_client, set_client_kind, provision_register, provision_desktop_config,
               set_client_networks, set_client_wg_ip, import_peers, provision, Ready
<1>2. ASSUME NEW x, Move(t, x) PROVE req'[t] = x
  BY <1>2, Parts DEF Move
<1>3. CASE add_client(t) \/ set_client_kind(t)
  BY <1>1, <1>3 DEF add_client, set_client_kind
<1>4. CASE provision_register(t)
  <2>1. PICK k, a, S, b : Move(t, [Idle EXCEPT !.op = "provision_register", !.at = "wgSet", !.key = k, !.ip = a,
                                               !.nets = S, !.tagging = b])
    BY <1>4 DEF provision_register
  <2>2. req'[t].at = "wgSet"
    BY <1>2, <2>1 DEF Idle
  <2>3. QED
    BY <2>2
<1>5. CASE provision_desktop_config(t)
  <2>1. PICK k, a : Move(t, [Idle EXCEPT !.op = "provision_desktop_config", !.at = "hub", !.key = k, !.ip = a,
                                         !.tagging = TRUE])
    BY <1>5 DEF provision_desktop_config
  <2>2. req'[t].at = "hub"
    BY <1>2, <2>1 DEF Idle
  <2>3. QED
    BY <2>2
<1>6. CASE set_client_networks(t)
  <2>1. PICK c, S : Move(t, [Idle EXCEPT !.op = "set_client_networks", !.at = "store", !.cid = c,
                                         !.from = clients[c].ip, !.ip = clients[c].ip, !.nets = S])
    BY <1>6 DEF set_client_networks
  <2>2. req'[t].at = "store"
    BY <1>2, <2>1 DEF Idle
  <2>3. QED
    BY <2>2
<1>7. CASE set_client_wg_ip(t)
  <2>1. PICK c, a : Move(t, [Idle EXCEPT !.op = "set_client_wg_ip", !.at = "fetch", !.cid = c,
                                         !.from = clients[c].ip, !.ip = a])
    BY <1>7 DEF set_client_wg_ip
  <2>2. req'[t].at = "fetch"
    BY <1>2, <2>1 DEF Idle
  <2>3. QED
    BY <2>2
<1>8. CASE import_peers(t) \/ provision(t)
  <2>1. \/ Move(t, [Idle EXCEPT !.op = "import_peers", !.at = "info"])
        \/ Move(t, [Idle EXCEPT !.op = "suggest_free_ip", !.at = "subnet"])
    BY <1>8 DEF import_peers, provision
  <2>2. req'[t].at \in {"info", "subnet"}
    BY <1>2, <2>1 DEF Idle
  <2>3. QED
    BY <2>2
<1>9. QED
  BY <1>3, <1>4, <1>5, <1>6, <1>7, <1>8 DEF Begin

LEMMA AgreeScripts ==
    ASSUME PeerInv, AloneInv, AgreeInv, NEW t \in Threads, ScriptStep(t), astray' = (astray \/ GoesAstray(t)),
           astray' = FALSE
    PROVE  AgreeOK(req[t])'
<1>1. PICK q \in Request : q = req[t] /\ RequestOK(q) /\ ScriptOK(q) /\ AgreeOK(q)
  BY Parts DEF AloneInv, AgreeInv
<1>2. /\ q.at \in ScriptSteps /\ q.key \in Keys /\ q.ip \in Addrs /\ q.nets \in SUBSET (Nets \cup {MeshNet})
      /\ {q.ip} \cup q.nets \in SUBSET Cidrs
  BY <1>1, ScriptServer, ScriptFor
<1>3. PICK cidrs \in SUBSET Cidrs : cidrs = {q.ip} \cup q.nets
  BY <1>2
<1>4. /\ ~astray
      /\ q.at \in ScriptSteps \ {"wgSet"} => ~req'[t].failed
      /\ q.at = "grep" => ~req'[t].known
      /\ q.at = "wgSet" /\ ~Registering(q) => ~Contested(q.key, cidrs)
  BY <1>1, <1>3 DEF GoesAstray
<1>5. /\ live = IF q.at \in ScriptSteps \ {"wgSet"} THEN Assign(Loaded(conf), q.key, cidrs) ELSE Loaded(conf)
      /\ Routed(conf) \subseteq routes \cup refused
      /\ q.at \in ScriptSteps \ {"wgSet"} /\ Changing(q) => ~Contested(q.key, cidrs)
  BY <1>1, <1>3, <1>4 DEF AgreeOK
<1>6. \A step \in {"wgSet", "routes", "grep", "insert", "append", "openTmp", "awk", "mv", "reply", "readdress"} :
         step \in RequestSteps
  BY DEF RequestSteps, ScriptSteps
<1>7. /\ q.at \in {"grep", "append"} => Registering(q)
      /\ q.at \in {"openTmp", "awk", "mv"} => Changing(q)
      /\ ~ (Registering(q) /\ Changing(q))
  <2>1. q.at \in {"openTmp", "awk", "mv"} => Changing(q)
    BY <1>1, StepsAre DEF RequestOK
  <2>2. QED
    BY <1>1, <2>1, StepsAre DEF RequestOK, Registering, Changing
(* On the way to the file, which nobody has changed. *)
<1>8. ASSUME NEW r \in Request, r = req'[t], r.op = q.op, r.key = q.key, r.ip = q.ip, r.nets = q.nets,
             r.at \in ScriptSteps \ {"wgSet"},
             UNCHANGED conf, live' = Assign(Loaded(conf), q.key, cidrs),
             routes \cup refused \subseteq routes' \cup refused', Changing(q) => ~Contested(q.key, cidrs)
      PROVE  AgreeOK(req[t])'
  <2>1. Loaded(conf)' = Loaded(conf) /\ Routed(conf)' = Routed(conf)
    BY <1>8 DEF Loaded, Routed
  <2>2. Contested(r.key, {r.ip} \cup r.nets)' = Contested(q.key, cidrs)
    BY <1>3, <1>8 DEF Contested
  <2>3. Changing(r) => Changing(q)
    BY <1>8 DEF Changing
  <2>4. AgreeOK(r)'
    BY <1>3, <1>5, <1>8, <2>1, <2>2, <2>3 DEF AgreeOK, Assign, Changing
  <2>5. QED
    BY <1>8, <2>4 DEF AgreeOK, Changing
(* With the file as with the kernel. *)
<1>9. ASSUME NEW r \in Request, r = req'[t], r.at \notin ScriptSteps \ {"wgSet"},
             live' = Loaded(conf'), Routed(conf') \subseteq routes' \cup refused'
      PROVE  AgreeOK(req[t])'
  <2>1. Loaded(conf)' = Loaded(conf') /\ Routed(conf)' = Routed(conf')
    BY DEF Loaded, Routed
  <2>2. QED
    BY <1>9, <2>1 DEF AgreeOK
<1>10. CASE WgSet(t)
  <2>1. q.at = "wgSet" /\ Goto(t, "routes") /\ UNCHANGED <<routes, conf, refused>>
        /\ live' = Assign(live, q.key, cidrs)
    BY <1>1, <1>3, <1>10 DEF WgSet
  <2>2. PICK r \in Request : r = req'[t] /\ Same(r, q) /\ r.at = "routes"
    BY <1>1, <1>6, <2>1, GoesTo
  <2>3. live' = Assign(Loaded(conf), q.key, cidrs) /\ "routes" \in ScriptSteps \ {"wgSet"}
    BY <1>5, <2>1 DEF ScriptSteps
  <2>4. Changing(q) => ~Contested(q.key, cidrs)
    BY <1>4, <1>7, <2>1
  <2>5. QED
    BY <1>8, <2>1, <2>2, <2>3, <2>4 DEF Same
<1>11. CASE RouteReplace(t)
  <2>1. q.at = "routes" /\ UNCHANGED <<live, conf>> /\ Goto(t, IF Registering(q) THEN "grep" ELSE "openTmp")
    BY <1>1, <1>11 DEF RouteReplace
  <2>2. routes \cup refused \subseteq routes' \cup refused'
    <3>1. PICK accepted \in SUBSET cidrs : /\ routes' = routes \cup accepted
                                           /\ refused' = (refused \cup cidrs) \ accepted
      BY <1>1, <1>3, <1>11 DEF RouteReplace
    <3>2. QED
      BY <3>1
  <2>3. PICK step \in {"grep", "openTmp"} : Goto(t, step)
    BY <2>1
  <2>4. PICK r \in Request : r = req'[t] /\ Same(r, q) /\ r.at = step
    BY <1>1, <1>6, <2>3, GoesTo
  <2>5. q.at \in ScriptSteps \ {"wgSet"} /\ r.at \in ScriptSteps \ {"wgSet"}
    BY <2>1, <2>4 DEF ScriptSteps
  <2>6. QED
    BY <1>5, <1>8, <2>1, <2>2, <2>4, <2>5 DEF Same
<1>12. CASE Grep(t)
  <2>1. q.at = "grep" /\ UNCHANGED <<live, routes, conf, refused>>
    BY <1>1, <1>12 DEF Grep, server
  <2>2. PICK found \in BOOLEAN, step \in {"insert", "append"} :
           /\ step = IF found THEN "insert" ELSE "append"
           /\ req' = [req EXCEPT ![t] = [q EXCEPT !.known = found, !.at = step]]
    BY <1>1, <1>12 DEF Grep, Move
  <2>3. PICK r : r = [q EXCEPT !.known = found, !.at = step]
    OBVIOUS
  <2>4. /\ r \in Request /\ r.op = q.op /\ r.key = q.key /\ r.ip = q.ip /\ r.nets = q.nets /\ r.known = found
        /\ r.at = step
    BY <1>6, <2>3 DEF Request
  <2>5. r = req'[t]
    BY <1>1, <2>2, <2>3, Parts
  <2>6. r.at = "append"
    BY <1>4, <2>1, <2>2, <2>4, <2>5
  <2>7. q.at \in ScriptSteps \ {"wgSet"} /\ r.at \in ScriptSteps \ {"wgSet"}
    BY <2>1, <2>6 DEF ScriptSteps
  <2>8. QED
    BY <1>5, <1>8, <2>1, <2>4, <2>5, <2>7
<1>13. CASE AppendBlock(t)
  <2>1. q.at = "append" /\ UNCHANGED <<live, routes, refused>> /\ Goto(t, "insert")
    BY <1>1, <1>13 DEF AppendBlock
  <2>2. PICK b \in Block : /\ b = [key |-> q.key, host |-> q.ip, hint |-> NoAddr, nets |-> q.nets, plain |-> TRUE]
                           /\ conf' = Append(conf, b)
    <3>1. [key |-> q.key, host |-> q.ip, hint |-> NoAddr, nets |-> q.nets, plain |-> TRUE] \in Block
      BY <1>2 DEF Block
    <3>2. QED
      BY <1>1, <1>13, <3>1 DEF AppendBlock
  <2>3. b.key = q.key /\ AllowedIPs(b) = cidrs
    BY <1>2, <1>3, <2>2, PeerAssumption DEF AllowedIPs
  <2>4. PICK r \in Request : r = req'[t] /\ Same(r, q) /\ r.at = "insert"
    BY <1>1, <1>6, <2>1, GoesTo
  <2>5. /\ Loaded(Append(conf, b)) = Assign(Loaded(conf), q.key, cidrs)
        /\ Routed(Append(conf, b)) = Routed(conf) \cup cidrs
    BY <2>3, Parts, LoadedExtended
  <2>6. cidrs \subseteq routes \cup refused /\ q.at \in ScriptSteps \ {"wgSet"} /\ r.at \notin ScriptSteps
    BY <1>1, <1>3, <2>1, <2>4 DEF ScriptOK, ScriptSteps
  <2>7. live' = Loaded(conf')
    BY <1>5, <2>1, <2>2, <2>5, <2>6
  <2>8. Routed(conf') \subseteq routes' \cup refused'
    BY <1>5, <2>1, <2>2, <2>5, <2>6
  <2>9. QED
    BY <1>9, <2>4, <2>6, <2>7, <2>8
<1>14. CASE OpenTmp(t)
  <2>1. q.at = "openTmp" /\ UNCHANGED <<live, routes, conf, refused>>
    BY <1>1, <1>14 DEF OpenTmp
  <2>2. PICK r : r = [q EXCEPT !.out = "tmp", !.at = "awk"]
    OBVIOUS
  <2>3. r \in Request /\ r.op = q.op /\ r.key = q.key /\ r.ip = q.ip /\ r.nets = q.nets /\ r.at = "awk"
    BY <1>6, <2>2 DEF Request
  <2>4. r = req'[t]
    BY <1>1, <1>14, <2>2, Parts DEF OpenTmp, Move
  <2>5. q.at \in ScriptSteps \ {"wgSet"} /\ r.at \in ScriptSteps \ {"wgSet"}
    BY <2>1, <2>3 DEF ScriptSteps
  <2>6. QED
    BY <1>5, <1>8, <2>1, <2>3, <2>4, <2>5
<1>15. CASE Awk(t)
  <2>1. q.at = "awk" /\ UNCHANGED <<live, routes, conf, refused>> /\ Goto(t, "mv")
    BY <1>1, <1>15 DEF Awk, ScriptOK
  <2>2. PICK r \in Request : r = req'[t] /\ Same(r, q) /\ r.at = "mv"
    BY <1>1, <1>6, <2>1, GoesTo
  <2>3. q.at \in ScriptSteps \ {"wgSet"} /\ r.at \in ScriptSteps \ {"wgSet"}
    BY <2>1, <2>2 DEF ScriptSteps
  <2>4. QED
    BY <1>5, <1>8, <2>1, <2>2, <2>3 DEF Same
<1>16. CASE Rename(t)
  <2>1. q.at = "mv" /\ UNCHANGED <<live, routes, refused>> /\ Changing(q) /\ q.at \in ScriptSteps \ {"wgSet"}
    BY <1>1, <1>7, <1>16 DEF Rename, ScriptSteps
  <2>2. /\ tmp = Rewritten(conf, q.key, q.ip, q.nets) /\ cidrs \subseteq routes \cup refused
        /\ \E i \in DOMAIN conf : conf[i].key = q.key
        /\ ~Contested(q.key, cidrs)
    BY <1>1, <1>2, <1>3, <1>5, <2>1 DEF ScriptOK
  <2>3. PICK c \in Seq(Block) : c = conf
    BY Parts
  <2>4. PICK d : d = tmp
    OBVIOUS
  <2>5. /\ \A i \in DOMAIN c : c[i].key = q.key => c[i].plain
        /\ \A i \in DOMAIN c : c[i].key # q.key => AllowedIPs(c[i]) \cap cidrs = {}
        /\ \A i, j \in DOMAIN c : c[i].key # q.key /\ c[j].key = q.key => AllowedIPs(c[i]) \cap AllowedIPs(c[j]) = {}
    BY <2>2, <2>3 DEF Contested
  <2>6. /\ d \in Seq(Block) /\ DOMAIN d = DOMAIN c
        /\ \A i \in DOMAIN c :
              /\ d[i].key = c[i].key /\ (c[i].key # q.key => d[i] = c[i])
              /\ c[i].key = q.key /\ c[i].plain => AllowedIPs(d[i]) = cidrs
    <3>1. PICK k \in Keys, a \in Addrs, S \in SUBSET (Nets \cup {MeshNet}) : k = q.key /\ a = q.ip /\ S = q.nets
      BY <1>2
    <3>2. d = Rewritten(c, k, a, S) /\ cidrs = {a} \cup S
      BY <1>3, <2>2, <2>3, <2>4, <3>1
    <3>3. QED
      BY <3>1, <3>2, RewrittenType
  <2>7. Loaded(d) = Assign(Loaded(c), q.key, cidrs) /\ Routed(d) \subseteq Routed(c) \cup cidrs
    <3>1. \E i \in DOMAIN c : c[i].key = q.key
      BY <2>2, <2>3
    <3>2. Replaced(c, d, q.key, cidrs)
      BY <2>5, <2>6, <3>1 DEF Replaced
    <3>3. QED
      BY <1>2, <2>6, <3>2, LoadedReplaced
  <2>8. d # NoFile
    BY <2>6, PeerAssumption
  <2>9. PICK step \in {"reply", "readdress"} :
           /\ conf' = d
           /\ req' = [u \in Threads |-> IF u = t THEN [req[u] EXCEPT !.at = step]
                                        ELSE [req[u] EXCEPT !.out = IF @ = "tmp" THEN "conf" ELSE "gone"]]
    BY <1>16, <2>4, <2>8 DEF Rename
  <2>10. PICK r : r = [q EXCEPT !.at = step]
    OBVIOUS
  <2>11. r \in Request /\ r.at = step /\ r = req'[t] /\ r.at \notin ScriptSteps
    BY <1>1, <1>6, <2>9, <2>10 DEF Request, ScriptSteps
  <2>12. live' = Loaded(conf') /\ Routed(conf') \subseteq routes' \cup refused'
    BY <1>5, <2>1, <2>2, <2>3, <2>7, <2>9
  <2>13. QED
    BY <1>9, <2>11, <2>12
<1>17. CASE CommandFails(t)
  <2>1. q.at # "idle" /\ Fail(t) /\ UNCHANGED <<live, routes, conf, refused>>
    BY <1>1, <1>17 DEF CommandFails
  <2>2. PICK r \in Request : r = req'[t] /\ r.failed /\ r.at \in {"reply", "readdress"}
    BY <1>1, <2>1, FailsTo
  <2>3. q.at \notin ScriptSteps \ {"wgSet"} /\ r.at \notin ScriptSteps
    BY <1>4, <2>2 DEF ScriptSteps
  <2>4. live' = Loaded(conf') /\ Routed(conf') \subseteq routes' \cup refused'
    BY <1>5, <2>1, <2>3
  <2>5. QED
    BY <1>9, <2>2, <2>3, <2>4
<1>18. QED
  BY <1>10, <1>11, <1>12, <1>13, <1>14, <1>15, <1>16, <1>17 DEF ScriptStep

LEMMA AgreeStep ==
    ASSUME PeerInv, AloneInv, AgreeInv, PeerInv', [Next]_vars, NEW t, Threads = {t}
    PROVE  AgreeInv'
<1>1. PICK q \in Request, r \in Request : q = req[t] /\ r = req'[t] /\ AgreeOK(q) /\ RequestOK(q)
  BY Parts DEF AgreeInv, PeerInv, TypeOK
<1>2. SUFFICES ASSUME astray' = FALSE PROVE AgreeOK(req[t])'
  <2>1. astray' \in BOOLEAN
    BY DEF PeerInv, TypeOK
  <2>2. astray' = TRUE => AgreeOK(req[t])'
    BY DEF AgreeOK
  <2>3. QED
    BY <2>1, <2>2 DEF AgreeInv
<1>3. ASSUME UNCHANGED server, ~astray, q.at \notin ScriptSteps \ {"wgSet"}, r.at \notin ScriptSteps \ {"wgSet"}
      PROVE  AgreeOK(req[t])'
  <2>1. UNCHANGED <<live, routes, conf, refused>>
    BY <1>3 DEF server
  <2>2. live = Loaded(conf) /\ Routed(conf) \subseteq routes \cup refused
    BY <1>1, <1>3 DEF AgreeOK
  <2>3. Loaded(conf)' = Loaded(conf) /\ Routed(conf)' = Routed(conf)
    BY <2>1 DEF Loaded, Routed
  <2>4. QED
    BY <1>1, <1>3, <2>1, <2>2, <2>3 DEF AgreeOK
<1>4. CASE Begin(t) /\ astray' = (astray \/ GoesAstray(t))
  <2>1. UNCHANGED server /\ ~astray
    BY <1>2, <1>4, Begins
  <2>2. q.at = "idle"
    BY <1>1, <1>4 DEF Begin, add_client, set_client_kind, provision_register, provision_desktop_config,
             set_client_networks, set_client_wg_ip, import_peers, provision, Ready
  <2>3. r.at \in {"idle", "wgSet", "hub", "store", "fetch", "info", "subnet"}
    BY <1>1, <1>4, <2>2, BeginsWith
  <2>4. QED
    BY <1>3, <2>1, <2>2, <2>3 DEF ScriptSteps
<1>5. CASE Continue(t) /\ astray' = (astray \/ GoesAstray(t))
  <2>1. CASE ScriptStep(t)
    BY <1>2, <1>5, <2>1, AgreeScripts
  <2>2. CASE ~ScriptStep(t)
    BY <1>1, <1>2, <1>3, <1>5, <2>2, OutsideScripts
  <2>3. QED
    BY <2>1, <2>2
<1>6. CASE Reboot
  <2>1. conf' = conf /\ live' = Loaded(conf) /\ routes' = Routed(conf)
    BY <1>6 DEF Reboot
  <2>2. Loaded(conf)' = Loaded(conf) /\ Routed(conf)' = Routed(conf)
    BY <2>1 DEF Loaded, Routed
  <2>3. r.at \notin ScriptSteps
    <3>1. CASE q.at \in ScriptSteps
      <4>1. r = Broken(q) /\ q.at # "idle"
        BY <1>1, <1>6, <3>1 DEF Reboot, ScriptSteps
      <4>2. r.at \in {"reply", "readdress"}
        BY <1>1, <4>1, BrokenIs
      <4>3. QED
        BY <4>2 DEF ScriptSteps
    <3>2. CASE q.at \notin ScriptSteps
      BY <1>1, <1>6, <3>2 DEF Reboot
    <3>3. QED
      BY <3>1, <3>2
  <2>4. QED
    BY <1>1, <2>1, <2>2, <2>3 DEF AgreeOK
<1>7. CASE UNCHANGED vars
  <2>1. UNCHANGED <<live, routes, conf, tmp, refused, req, astray>>
    BY <1>7 DEF vars, server
  <2>2. Loaded(conf)' = Loaded(conf) /\ Routed(conf)' = Routed(conf)
    BY <2>1 DEF Loaded, Routed
  <2>3. Contested(q.key, {q.ip} \cup q.nets)' = Contested(q.key, {q.ip} \cup q.nets)
    BY <2>1 DEF Contested
  <2>4. AgreeOK(q)'
    BY <1>1, <2>1, <2>2, <2>3 DEF AgreeOK, Assign, Changing
  <2>5. QED
    BY <1>1, <2>1, <2>4 DEF AgreeOK, Changing
<1>8. QED
  BY <1>4, <1>5, <1>6, <1>7 DEF Next

(* With one administrator, between scripts a start of wg-quick would build *)
(* the very peers that the kernel has, and route no more than it routes or *)
(* has refused, however many requests have changed peers since the last    *)
(* boot: unless a script has broken off behind "wg set", a key that the    *)
(* file had was registered, or a contested peer was changed.               *)
THEOREM AloneKernelMatchesFile ==
    ASSUME NEW t, Threads = {t}
    PROVE  Spec => []KernelMatchesFile
<1>1. ASSUME Init PROVE AgreeInv
  <2>1. \A u \in Threads : req[u] = Idle
    BY <1>1 DEF Init
  <2>2. live = Loaded(conf) /\ Routed(conf) \subseteq routes \cup refused
    BY <1>1 DEF Init
  <2>3. AgreeOK(Idle)
    BY <2>2, IdleParts DEF AgreeOK, ScriptSteps
  <2>4. QED
    BY <2>1, <2>3 DEF AgreeInv
<1>2. PeerInv /\ AloneInv /\ AgreeInv /\ PeerInv' /\ [Next]_vars => AgreeInv'
  BY AgreeStep
<1>3. PeerInv /\ AloneInv /\ AgreeInv => KernelMatchesFile
  <2> SUFFICES ASSUME PeerInv, AgreeInv, ~astray, req[t].at \notin ScriptSteps
               PROVE  live = Loaded(conf) /\ Routed(conf) \subseteq routes \cup refused
    BY DEF KernelMatchesFile
  <2>1. PICK q \in Request : q = req[t] /\ AgreeOK(q)
    BY Parts DEF AgreeInv
  <2>2. QED
    BY <2>1 DEF AgreeOK
<1>4. QED
  BY <1>1, <1>2, <1>3, AloneInvariant, PTL DEF Spec

-----------------------------------------------------------------------------

(* What a script of a lone thread does to the config, block by block.      *)
LEMMA ConfigByStep ==
    ASSUME PeerInv, AloneInv, NEW t \in Threads, ScriptStep(t), NEW k \in Keys, req[t].key # k
    PROVE  BlocksOf(k)' = BlocksOf(k)
<1>1. PICK q \in Request : q = req[t] /\ ScriptOK(q) /\ q.key # k /\ q.at \in ScriptSteps /\ q.key \in Keys
                           /\ q.ip \in Addrs /\ q.nets \in SUBSET (Nets \cup {MeshNet})
  BY ScriptServer, ScriptFor DEF AloneInv
<1>2. conf \in Seq(Block)
  BY Parts
<1>3. CASE UNCHANGED conf
  BY <1>3 DEF BlocksOf
<1>4. CASE AppendBlock(t)
  <2>1. PICK b : b = [key |-> q.key, host |-> q.ip, hint |-> NoAddr, nets |-> q.nets, plain |-> TRUE]
    OBVIOUS
  <2>2. b \in Block /\ b.key = q.key
    BY <1>1, <2>1 DEF Block
  <2>3. conf' = Append(conf, b)
    BY <1>1, <1>4, <2>1 DEF AppendBlock
  <2>4. /\ conf'[Len(conf) + 1] = b
        /\ \A i \in DOMAIN conf : i \in DOMAIN conf' /\ conf'[i] = conf[i]
        /\ \A i \in DOMAIN conf' : i \in DOMAIN conf \/ i = Len(conf) + 1
    BY <1>2, <2>2, <2>3, LoadedAppended
  <2>5. {j \in DOMAIN conf' : conf'[j].key = k} = {j \in DOMAIN conf : conf[j].key = k}
    BY <1>1, <2>2, <2>4
  <2>6. QED
    BY <2>4, <2>5 DEF BlocksOf
<1>5. CASE Rename(t)
  <2>1. conf' = conf \/ conf' = Rewritten(conf, q.key, q.ip, q.nets)
    BY <1>1, <1>5 DEF Rename, ScriptOK
  <2>2. CASE conf' = Rewritten(conf, q.key, q.ip, q.nets)
    <3>1. /\ DOMAIN conf' = DOMAIN conf
          /\ \A i \in DOMAIN conf : conf'[i].key = conf[i].key /\ (conf[i].key = k => conf'[i] = conf[i])
      BY <1>1, <1>2, <2>2, RewrittenType
    <3>2. {j \in DOMAIN conf' : conf'[j].key = k} = {j \in DOMAIN conf : conf[j].key = k}
      BY <3>1
    <3>3. QED
      BY <3>1, <3>2 DEF BlocksOf
  <2>3. QED
    BY <1>3, <2>1, <2>2
<1>6. CASE Awk(t)
  BY <1>1, <1>3, <1>6 DEF Awk, ScriptOK
<1>7. QED
  BY <1>3, <1>4, <1>5, <1>6 DEF ScriptStep, WgSet, RouteReplace, Grep, OpenTmp, CommandFails, server

(* With one administrator, no step and no reboot touches the blocks of a   *)
(* peer that the script at work is not for: the text that mv renames is    *)
(* always the present config with no more than the script's peer changed.  *)
THEOREM AloneOthersUntouched ==
    ASSUME NEW t, Threads = {t}
    PROVE  Spec => OthersUntouched
<1>1. ASSUME PeerInv, AloneInv, [Next]_vars
      PROVE  [LeavesOthers]_vars
  <2> SUFFICES ASSUME NEW k \in Keys, \A u \in Threads : ~Writes(u, k) PROVE BlocksOf(k)' = BlocksOf(k)
    BY DEF LeavesOthers
  <2>1. CASE UNCHANGED conf
    BY <2>1 DEF BlocksOf
  <2>2. ASSUME NEW u \in Threads, Begin(u) PROVE UNCHANGED conf
    BY <1>1, <2>2, Begins DEF server
  <2>3. ASSUME NEW u \in Threads, ScriptStep(u) PROVE BlocksOf(k)' = BlocksOf(k)
    <3>1. req[u].at \in ScriptSteps
      BY <1>1, <2>3, ScriptServer
    <3>2. req[u].key # k
      BY <3>1 DEF Writes
    <3>3. QED
      BY <1>1, <2>3, <3>2, ConfigByStep
  <2>4. ASSUME NEW u \in Threads, Continue(u), ~ScriptStep(u) PROVE UNCHANGED conf
    <3>1. \/ FetchHub(u) \/ FindTag(u) \/ ListNetworks(u) \/ FindPeer(u) \/ FetchInfo(u) \/ ReadExisting(u)
          \/ FetchPeers(u) \/ FetchSubnet(u) \/ FetchInUse(u) \/ SuggestFree(u) \/ Reply(u)
          \/ InsertClient(u) \/ AddTag(u) \/ set_client_tags(u) \/ StoreNetworks(u) \/ Readdress(u)
          \/ ImportRows(u)
      BY <2>4 DEF Continue
    <3>2. UNCHANGED server
      BY <1>1, <3>1, TableReads, TableWrites
    <3>3. QED
      BY <3>2 DEF server
  <2>5. CASE Reboot
    BY <2>1, <2>5 DEF Reboot
  <2>6. CASE UNCHANGED vars
    BY <2>1, <2>6 DEF vars, server
  <2>7. QED
    BY <1>1, <2>1, <2>2, <2>3, <2>4, <2>5, <2>6 DEF Next
<1>2. QED
  BY <1>1, AloneInvariant, PTL DEF Spec, OthersUntouched

=============================================================================
