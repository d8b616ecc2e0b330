----------------------- MODULE LedgerCommitments_proofs -----------------------
(***************************************************************************)
(* What a commitment to a ledger pins down, for ledgers of any length:     *)
(* the Merkle tree of proofrail/checkpoint.py, level by level.             *)
(***************************************************************************)
EXTENDS MCReconciliation, FiniteSetTheorems, WellFoundedInduction, TLAPS

-----------------------------------------------------------------------------
(* Lists, and the least number that has a property *)

\* A sequence of n elements, whatever they are.
Listed(s, n) == n \in Nat /\ s = [i \in 1..n |-> s[i]]

LEMMA ListedSeq ==
    ASSUME NEW s, NEW n, Listed(s, n)
    PROVE  /\ n \in Nat /\ DOMAIN s = 1..n /\ Len(s) = n
           /\ s \in Seq({s[i] : i \in 1..n})
<1> DEFINE T == {s[i] : i \in 1..n}
<1>1. s \in [1..n -> T] /\ n \in Nat
  BY DEF Listed
<1>2. s \in Seq(T)
  BY <1>1
<1> QED BY <1>1, <1>2

LEMMA LeastOf ==
    ASSUME NEW S \in SUBSET Nat, S # {}
    PROVE  \E m \in S : \A k \in S : m <= k
<1> DEFINE Less == OpToRel(<, Nat)
<1>1. IsWellFoundedOn(Less, Nat)
  BY NatLessThanWellFounded
<1>2. \A j, k \in Nat : <<j, k>> \in Less <=> j < k
  BY DEF OpToRel
<1> HIDE DEF Less
<1>3. PICK m \in S : \A k \in S : ~(<<k, m>> \in Less)
  BY <1>1, WFMin
<1>4. ASSUME NEW k \in S PROVE m <= k
  <2>1. m \in Nat /\ k \in Nat
    OBVIOUS
  <2>2. ~(k < m)
    BY <1>2, <1>3, <2>1
  <2> QED BY <2>1, <2>2
<1> QED BY <1>4

-----------------------------------------------------------------------------
(* One level of the tree *)

Half(n) == (n + 1) \div 2

LEMMA HalfIs ==
    ASSUME NEW n \in Nat, n >= 1
    PROVE  /\ Half(n) \in Nat /\ Half(n) >= 1 /\ (n > 1 => Half(n) < n)
           /\ n = 2 * Half(n) \/ n = 2 * Half(n) - 1
  BY DEF Half

LEMMA ParentsAre ==
    ASSUME NEW s, NEW n, Listed(s, n), n >= 1
    PROVE  /\ Listed(Parents(s), Half(n))
           /\ \A i \in 1..Half(n) :
                 /\ 2 * i - 1 \in 1..n
                 /\ Parents(s)[i] = Node(s[2 * i - 1], s[IF 2 * i <= n THEN 2 * i ELSE n])
<1>0. n \in Nat /\ DOMAIN s = 1..n /\ Len(s) = n /\ s \in Seq({s[i] : i \in 1..n})
  BY ListedSeq
<1> DEFINE even == IF Len(s) % 2 = 1 THEN Append(s, Last(s)) ELSE s
           h == Half(n)
<1>1. /\ h \in Nat /\ h >= 1 /\ (n = 2 * h \/ n = 2 * h - 1)
  BY <1>0, HalfIs
<1>2. Parents(s) = [i \in 1..(Len(even) \div 2) |-> Node(even[2 * i - 1], even[2 * i])]
  BY Zenon DEF Parents
<1>3. CASE n = 2 * h
  <2>1. even = s
    BY <1>0, <1>1, <1>3
  <2> HIDE DEF even
  <2>4. Len(even) \div 2 = h
    BY <1>0, <1>1, <1>3, <2>1
  <2>2. Parents(s) = [i \in 1..h |-> Node(s[2 * i - 1], s[2 * i])]
    BY <1>2, <2>1, <2>4
  <2>3. \A i \in 1..h : 2 * i - 1 \in 1..n /\ 2 * i <= n
    BY <1>0, <1>1, <1>3
  <2> QED BY <1>1, <2>2, <2>3 DEF Listed
<1>4. CASE n = 2 * h - 1
  <2>1. /\ even = Append(s, s[n])
    BY <1>0, <1>1, <1>4 DEF Last
  <2>2. Len(even) = 2 * h /\ \A i \in 1..(2 * h) : even[i] = s[IF i <= n THEN i ELSE n]
    <3>1. s[n] \in {s[i] : i \in 1..n}
      BY <1>0
    <3> QED BY <1>0, <1>1, <1>4, <2>1, <3>1
  <2> HIDE DEF even
  <2>6. Len(even) \div 2 = h
    BY <1>1, <2>2
  <2>3. Parents(s) = [i \in 1..h |-> Node(even[2 * i - 1], even[2 * i])]
    BY <1>2, <2>6
  <2>4. \A i \in 1..h : 2 * i - 1 \in 1..n /\ 2 * i - 1 \in 1..(2 * h) /\ 2 * i \in 1..(2 * h)
    BY <1>0, <1>1, <1>4
  <2>5. \A i \in 1..h : even[2 * i - 1] = s[2 * i - 1] /\ even[2 * i] = s[IF 2 * i <= n THEN 2 * i ELSE n]
    BY <2>2, <2>4
  <2> QED BY <1>1, <2>3, <2>4, <2>5 DEF Listed
<1> QED BY <1>1, <1>3, <1>4

\* Parents tell their children apart.
LEMMA ParentsInjective ==
    ASSUME NEW s, NEW t, NEW n, Listed(s, n), Listed(t, n), n >= 1, Parents(s) = Parents(t)
    PROVE  s = t
<1>0. n \in Nat
  BY DEF Listed
<1>1. ASSUME NEW j \in 1..n PROVE s[j] = t[j]
  <2>1. PICK i \in 1..Half(n) : j = 2 * i - 1 \/ j = 2 * i
    <3>1. j = 2 * Half(j) - 1 \/ j = 2 * Half(j)
      BY HalfIs
    <3>2. Half(j) \in 1..Half(n)
      BY <1>0, HalfIs DEF Half
    <3> QED BY <3>1, <3>2
  <2>2. Node(s[2 * i - 1], s[IF 2 * i <= n THEN 2 * i ELSE n])
           = Node(t[2 * i - 1], t[IF 2 * i <= n THEN 2 * i ELSE n])
    BY ParentsAre
  <2>3. /\ s[2 * i - 1] = t[2 * i - 1]
        /\ s[IF 2 * i <= n THEN 2 * i ELSE n] = t[IF 2 * i <= n THEN 2 * i ELSE n]
    BY <2>2 DEF Node
  <2> QED BY <1>0, <2>1, <2>3
<1>2. s = [i \in 1..n |-> s[i]] /\ t = [i \in 1..n |-> t[i]]
  BY DEF Listed
<1>3. [i \in 1..n |-> s[i]] = [i \in 1..n |-> t[i]]
  BY <1>1
<1> QED BY <1>2, <1>3

-----------------------------------------------------------------------------
(* The tree, level by level *)

Leaves(records) == [i \in DOMAIN records |-> Leaf(records[i])]
Climb(level) == IF Len(level) = 1 THEN level ELSE Parents(level)
Tower(f, records, n) ==
    f = [k \in 0..n |-> IF k = 0 THEN Leaves(records) ELSE Climb(f[k - 1])]

LEMMA TowerExists ==
    ASSUME NEW records, NEW n \in Nat
    PROVE  \E f : Tower(f, records, n)
<1> DEFINE Missing == {m \in Nat : ~\E f : Tower(f, records, m)}
<1>1. Missing = {}
  <2> SUFFICES ASSUME Missing # {} PROVE FALSE
    OBVIOUS
  <2>1. PICK m \in Missing : \A k \in Missing : m <= k
    BY LeastOf
  <2>2. m # 0
    <3> DEFINE f == [k \in 0..0 |-> Leaves(records)]
    <3>1. Tower(f, records, 0)
      BY DEF Tower
    <3> QED BY <2>1, <3>1
  <2>3. m - 1 \in Nat /\ m \in Nat /\ m - 1 \notin Missing
    BY <2>1, <2>2
  <2>4. PICK f : Tower(f, records, m - 1)
    BY <2>3
  <2> DEFINE g == [k \in 0..m |-> IF k < m THEN f[k] ELSE Climb(f[m - 1])]
  <2>5. ASSUME NEW k \in 0..m
        PROVE  g[k] = IF k = 0 THEN Leaves(records) ELSE Climb(g[k - 1])
    <3>1. CASE k = 0
      <4>1. f[0] = Leaves(records)
        BY <2>3, <2>4 DEF Tower
      <4> QED BY <2>2, <2>3, <3>1, <4>1
    <3>2. CASE k # 0 /\ k < m
      <4>1. f[k] = Climb(f[k - 1])
        BY <2>3, <2>4, <3>2 DEF Tower
      <4>2. g[k] = f[k] /\ g[k - 1] = f[k - 1]
        BY <2>3, <3>2
      <4> QED BY <3>2, <4>1, <4>2
    <3>3. CASE k = m
      <4>1. g[k] = Climb(f[m - 1]) /\ g[k - 1] = f[m - 1]
        BY <2>3, <3>3
      <4> QED BY <2>2, <3>3, <4>1
    <3> QED BY <2>3, <3>1, <3>2, <3>3
  <2>6. g = [k \in 0..m |-> IF k = 0 THEN Leaves(records) ELSE Climb(g[k - 1])]
    <3>1. g = [k \in 0..m |-> g[k]]
      OBVIOUS
    <3> HIDE DEF g
    <3>2. [k \in 0..m |-> g[k]]
             = [k \in 0..m |-> IF k = 0 THEN Leaves(records) ELSE Climb(g[k - 1])]
      BY <2>5
    <3> QED BY <3>1, <3>2
  <2>7. Tower(g, records, m)
    BY <2>6 DEF Tower
  <2> QED BY <2>1, <2>7
<1> QED BY <1>1

\* The Merkle root is at the top of it.
LEMMA MerkleRootIs ==
    ASSUME NEW records, Len(records) \in Nat, records # <<>>
    PROVE  \E f : Tower(f, records, Len(records)) /\ MerkleRoot(records) = f[Len(records)][1]
<1> DEFINE Climbs(f) == f = [k \in 0..Len(records) |->
               IF k = 0 THEN [i \in DOMAIN records |-> Leaf(records[i])]
               ELSE IF Len(f[k - 1]) = 1 THEN f[k - 1]
               ELSE Parents(f[k - 1])]
           level == CHOOSE f : Climbs(f)
<1>1. \A f : Climbs(f) <=> Tower(f, records, Len(records))
  BY DEF Tower, Leaves, Climb
<1>2. \E f : Climbs(f)
  BY <1>1, TowerExists
<1>3. Climbs(level)
  BY <1>2
<1>4. MerkleRoot(records) = level[Len(records)][1]
  BY Zenon DEF MerkleRoot
<1> QED BY <1>1, <1>3, <1>4

\* A level is half as wide as the one below it, until one node is left.
LEMMA ClimbIs ==
    ASSUME NEW s, NEW w, Listed(s, w), w >= 1
    PROVE  /\ w = 1 => Climb(s) = s
           /\ w > 1 => Climb(s) = Parents(s) /\ Listed(Climb(s), Half(w))
           /\ Half(w) \in Nat /\ Half(w) >= 1 /\ (w > 1 => Half(w) < w)
<1>1. Len(s) = w /\ w \in Nat
  BY ListedSeq
<1>2. Half(w) \in Nat /\ Half(w) >= 1 /\ (w > 1 => Half(w) < w)
  BY <1>1, HalfIs
<1>3. w = 1 => Climb(s) = s
  BY <1>1 DEF Climb
<1>4. w > 1 => Climb(s) = Parents(s)
  BY <1>1 DEF Climb
<1>5. Listed(Parents(s), Half(w))
  BY ParentsAre
<1> QED BY <1>2, <1>3, <1>4, <1>5

LEMMA LeavesAre ==
    ASSUME NEW records, NEW n, Listed(records, n)
    PROVE  Listed(Leaves(records), n) /\ \A i \in 1..n : Leaves(records)[i] = Leaf(records[i])
  BY ListedSeq DEF Leaves, Listed

\* Lists of the same length have levels of the same width, and one node at the top.
SameWidth(s, t, w) == Listed(s, w) /\ Listed(t, w) /\ w >= 1

LEMMA LevelsAlign ==
    ASSUME NEW r, NEW s, NEW n, SameWidth(r, s, n), NEW height \in Nat,
           NEW f, Tower(f, r, height), NEW g, Tower(g, s, height)
    PROVE  \A k \in 0..height : \E w : SameWidth(f[k], g[k], w) /\ (w = 1 \/ w + k <= n)
<1> DEFINE Good(k) == \E w : SameWidth(f[k], g[k], w) /\ (w = 1 \/ w + k <= n)
           Bad == {k \in 0..height : ~Good(k)}
<1>0. n \in Nat
  BY DEF SameWidth, Listed
<1> SUFFICES ASSUME Bad # {} PROVE FALSE
  OBVIOUS
<1>1. PICK m \in Bad : \A k \in Bad : m <= k
  <2>1. Bad \in SUBSET Nat
    OBVIOUS
  <2> QED BY <2>1, LeastOf
<1>2. CASE m = 0
  <2>1. f[0] = Leaves(r) /\ g[0] = Leaves(s)
    BY DEF Tower
  <2>2. SameWidth(f[0], g[0], n)
    BY <2>1, LeavesAre DEF SameWidth
  <2>3. Good(0)
    BY <1>0, <2>2
  <2> QED BY <1>1, <1>2, <2>3
<1>3. CASE m # 0
  <2>1. m - 1 \in 0..height /\ m \in 0..height /\ m - 1 \notin Bad
    BY <1>1, <1>3
  <2>2. PICK w : SameWidth(f[m - 1], g[m - 1], w) /\ (w = 1 \/ w + (m - 1) <= n)
    BY <2>1
  <2>3. f[m] = Climb(f[m - 1]) /\ g[m] = Climb(g[m - 1])
    BY <1>3, <2>1 DEF Tower
  <2>4. w \in Nat /\ w >= 1 /\ Listed(f[m - 1], w) /\ Listed(g[m - 1], w)
    BY <2>2 DEF SameWidth, Listed
  <2>5. CASE w = 1
    <3>1. SameWidth(f[m], g[m], 1)
      BY <2>3, <2>4, <2>5, ClimbIs DEF SameWidth
    <3> QED BY <1>1, <3>1
  <2>6. CASE w > 1
    <3>1. SameWidth(f[m], g[m], Half(w))
      BY <2>3, <2>4, <2>6, ClimbIs DEF SameWidth
    <3>2. Half(w) + m <= n
      <4>1. Half(w) \in Nat /\ Half(w) < w
        BY <2>4, <2>6, ClimbIs
      <4> QED BY <1>0, <2>1, <2>2, <2>4, <2>6, <4>1
    <3>3. Good(m)
      BY <3>1, <3>2
    <3> QED BY <1>1, <3>3
  <2> QED BY <2>4, <2>5, <2>6
<1> QED BY <1>2, <1>3

\* Of lists of the same length, the root tells one from another.
LEMMA RootsPin ==
    ASSUME NEW r, NEW s, NEW n, SameWidth(r, s, n), MerkleRoot(r) = MerkleRoot(s)
    PROVE  r = s
<1>0. n \in Nat /\ n >= 1 /\ Len(r) = n /\ Len(s) = n /\ DOMAIN r = 1..n /\ DOMAIN s = 1..n
      /\ r # <<>> /\ s # <<>>
  <2>1. Len(<<>>) = 0
    OBVIOUS
  <2>2. n \in Nat /\ n >= 1 /\ Len(r) = n /\ Len(s) = n /\ DOMAIN r = 1..n /\ DOMAIN s = 1..n
    BY ListedSeq DEF SameWidth
  <2> QED BY <2>1, <2>2
<1>1. PICK f : Tower(f, r, n) /\ MerkleRoot(r) = f[n][1]
  BY <1>0, MerkleRootIs
<1>2. PICK g : Tower(g, s, n) /\ MerkleRoot(s) = g[n][1]
  BY <1>0, MerkleRootIs
<1>3. \A k \in 0..n : \E w : SameWidth(f[k], g[k], w) /\ (w = 1 \/ w + k <= n)
  BY <1>0, <1>1, <1>2, LevelsAlign
<1> DEFINE Equal == {k \in 0..n : f[k] = g[k]}
<1>4. n \in Equal
  <2>1. PICK w : SameWidth(f[n], g[n], w) /\ (w = 1 \/ w + n <= n)
    BY <1>0, <1>3
  <2>2. w = 1
    BY <1>0, <2>1 DEF SameWidth, Listed
  <2>3. f[n] = [i \in 1..1 |-> f[n][i]] /\ g[n] = [i \in 1..1 |-> g[n][i]]
    BY <2>1, <2>2 DEF SameWidth, Listed
  <2>4. \A i \in 1..1 : f[n][i] = g[n][i]
    <3>1. f[n][1] = g[n][1]
      BY <1>1, <1>2
    <3> QED BY <3>1
  <2>5. [i \in 1..1 |-> f[n][i]] = [i \in 1..1 |-> g[n][i]]
    BY <2>4
  <2>6. f[n] = g[n]
    BY <2>3, <2>5
  <2> QED BY <1>0, <2>6
<1>5. PICK m \in Equal : \A k \in Equal : m <= k
  <2>1. Equal \in SUBSET Nat /\ Equal # {}
    BY <1>0, <1>4
  <2> QED BY <2>1, LeastOf
<1>6. CASE m # 0
  <2>1. m - 1 \in 0..n /\ m \in 0..n /\ f[m] = g[m]
    BY <1>0, <1>5, <1>6
  <2>2. f[m] = Climb(f[m - 1]) /\ g[m] = Climb(g[m - 1])
    BY <1>1, <1>2, <1>6, <2>1 DEF Tower
  <2>3. PICK w : SameWidth(f[m - 1], g[m - 1], w)
    BY <1>3, <2>1
  <2>4. w \in Nat /\ w >= 1 /\ Listed(f[m - 1], w) /\ Listed(g[m - 1], w)
    BY <2>3 DEF SameWidth, Listed
  <2>5. f[m - 1] = g[m - 1]
    <3>1. CASE w = 1
      BY <2>1, <2>2, <2>4, <3>1, ClimbIs
    <3>2. CASE w > 1
      <4>1. Parents(f[m - 1]) = Parents(g[m - 1])
        BY <2>1, <2>2, <2>4, <3>2, ClimbIs
      <4> QED BY <2>4, <4>1, ParentsInjective
    <3> QED BY <2>4, <3>1, <3>2
  <2>6. m - 1 \in Equal
    BY <2>1, <2>5
  <2> QED BY <1>5, <2>1, <2>6
<1>7. CASE m = 0
  <2>1. f[0] = Leaves(r) /\ g[0] = Leaves(s)
    BY <1>0, <1>1, <1>2 DEF Tower
  <2>2. \A i \in 1..n : Leaf(r[i]) = Leaf(s[i])
    BY <1>5, <1>7, <2>1, LeavesAre DEF SameWidth
  <2>3. \A i \in 1..n : r[i] = s[i]
    BY <2>2 DEF Leaf
  <2>4. [i \in 1..n |-> r[i]] = [i \in 1..n |-> s[i]]
    BY <2>3
  <2> QED BY <2>4 DEF SameWidth, Listed
<1> QED BY <1>6, <1>7

-----------------------------------------------------------------------------
(* Commitments *)

LEMMA RecordsListed ==
    ASSUME NEW X, NEW file \in Seq(Seq(X))
    PROVE  /\ Listed(Records(file), Len(file)) /\ Len(Records(file)) = Len(file)
           /\ \A i \in 1..Len(file) : Records(file)[i] = file[i][1]
<1>1. /\ Listed(Records(file), Len(file))
      /\ \A i \in 1..Len(file) : Records(file)[i] = file[i][1]
  BY DEF Records, Listed
<1> QED BY <1>1, ListedSeq

\* A file that can be read is known by its records.
LEMMA ReadableFile ==
    ASSUME NEW X, NEW f \in Seq(Seq(X)), NEW g \in Seq(Seq(X)), Readable(f), Readable(g),
           Len(f) = Len(g), Records(f) = Records(g)
    PROVE  f = g
<1>1. ASSUME NEW i \in 1..Len(f) PROVE f[i] = g[i]
  <2>1. f[i] \in Seq(X) /\ g[i] \in Seq(X) /\ Len(f[i]) = 1 /\ Len(g[i]) = 1
    <3>1. DOMAIN f = 1..Len(f) /\ DOMAIN g = 1..Len(f)
      OBVIOUS
    <3>2. f[i] \in Seq(X) /\ g[i] \in Seq(X)
      OBVIOUS
    <3> QED BY <3>1, <3>2 DEF Readable
  <2>2. f[i][1] = g[i][1]
    <3>1. Records(f)[i] = f[i][1]
      BY RecordsListed
    <3>2. i \in 1..Len(g)
      OBVIOUS
    <3>3. Records(g)[i] = g[i][1]
      BY <3>2, RecordsListed
    <3> QED BY <3>1, <3>3
  <2> QED BY <2>1, <2>2
<1>2. f = [i \in 1..Len(f) |-> f[i]] /\ g = [i \in 1..Len(f) |-> g[i]]
  OBVIOUS
<1>3. [i \in 1..Len(f) |-> f[i]] = [i \in 1..Len(f) |-> g[i]]
  BY <1>1
<1> QED BY <1>2, <1>3

LEMMA VerifiedLedger ==
    ASSUME NEW X, NEW f \in Seq(Seq(X)), VerifyLedger(f).valid
    PROVE  /\ Readable(f)
           /\ \A i \in DOMAIN Records(f) : LinkHolds(Records(f), i)
           /\ VerifyLedger(f).entry_count = Len(f)
           /\ VerifyLedger(f).merkle_root = MerkleRoot(Records(f))
           /\ VerifyLedger(f).first_hash = HashAt(Records(f), 1)
           /\ VerifyLedger(f).last_hash = HashAt(Records(f), Len(f))
<1>1. Len(Records(f)) = Len(f)
  BY RecordsListed
<1> QED BY <1>1 DEF VerifyLedger

\* The number of entries and the Merkle root are enough to know a ledger.
LEMMA CountAndRootPin ==
    ASSUME NEW X, NEW f \in Seq(Seq(X)), NEW g \in Seq(Seq(X)),
           VerifyLedger(f).valid, VerifyLedger(g).valid, Len(f) = Len(g),
           VerifyLedger(f).merkle_root = VerifyLedger(g).merkle_root
    PROVE  f = g
<1>1. Readable(f) /\ Readable(g) /\ MerkleRoot(Records(f)) = MerkleRoot(Records(g))
  BY VerifiedLedger
<1>2. Records(f) = Records(g)
  <2>1. CASE Len(f) = 0
    <3>1. /\ Records(f) = [i \in 1..0 |-> Records(f)[i]]
          /\ Records(g) = [i \in 1..0 |-> Records(g)[i]]
      BY <2>1, RecordsListed DEF Listed
    <3>2. [i \in 1..0 |-> Records(f)[i]] = [i \in 1..0 |-> Records(g)[i]]
      OBVIOUS
    <3> QED BY <3>1, <3>2
  <2>2. CASE Len(f) # 0
    <3>1. SameWidth(Records(f), Records(g), Len(f))
      BY <2>2, RecordsListed DEF SameWidth
    <3> QED BY <1>1, <3>1, RootsPin
  <2> QED BY <2>1, <2>2
<1> QED BY <1>1, <1>2, ReadableFile

\* No two valid ledgers, of any length and in any format, have one checkpoint or one
\* anchor: what verify_checkpoint and verify_anchor compare is the whole ledger.
THEOREM LedgersArePinned ==
    ASSUME NEW X, NEW files \in SUBSET Seq(Seq(X))
    PROVE  PinsEachOf(files)
<1> DEFINE valid == {f \in files : VerifyLedger(f).valid}
<1>1. ASSUME NEW f \in valid, NEW g \in valid, Commitment(VerifyLedger(f)) = Commitment(VerifyLedger(g))
      PROVE  f = g
  <2>1. /\ VerifyLedger(f).entry_count = VerifyLedger(g).entry_count
        /\ VerifyLedger(f).merkle_root = VerifyLedger(g).merkle_root
    BY <1>1 DEF Commitment
  <2>2. Len(f) = Len(g)
    BY <2>1, VerifiedLedger
  <2> QED BY <2>1, <2>2, CountAndRootPin
<1>2. ASSUME NEW f \in valid, NEW g \in valid,
             Anchor(VerifyLedger(f), Records(f)) = Anchor(VerifyLedger(g), Records(g))
      PROVE  f = g
  <2>1. /\ VerifyLedger(f).merkle_root = VerifyLedger(g).merkle_root
        /\ SequenceRange(Records(f)) = SequenceRange(Records(g))
    BY <1>2 DEF Anchor
  <2>2. Len(f) = Len(g)
    <3>1. SequenceRange(Records(f)).entry_count = Len(f) /\ SequenceRange(Records(g)).entry_count = Len(g)
      BY RecordsListed DEF SequenceRange
    <3> QED BY <2>1, <3>1
  <2> QED BY <2>1, <2>2, CountAndRootPin
<1>3. TellApart({<<f, Commitment(VerifyLedger(f))>> : f \in valid})
  BY <1>1 DEF TellApart
<1>4. TellApart({<<f, Anchor(VerifyLedger(f), Records(f))>> : f \in valid})
  BY <1>2 DEF TellApart
<1> QED BY <1>3, <1>4 DEF PinsEachOf

\* So it is for the ledgers the runs build.
LEMMA SamplesAreFiles == SampleFiles \in SUBSET Seq(Seq(SampleRecords))
<1>1. ASSUME NEW file \in SampleFiles PROVE file \in Seq(Seq(SampleRecords))
  <2>1. PICK n \in 0..4 : file \in [1..n -> {<<r>> : r \in SampleRecords}]
    BY DEF SampleFiles
  <2>2. ASSUME NEW r \in SampleRecords PROVE <<r>> \in Seq(SampleRecords)
    OBVIOUS
  <2>3. file \in [1..n -> Seq(SampleRecords)]
    BY <2>1, <2>2
  <2> QED BY <2>3
<1> QED BY <1>1

\* The checkpoints and anchors of the ledgers of the runs pin them.
THEOREM CommitmentsPin == Spec => []CommitmentsPinLedgers
<1>1. CommitmentsPinLedgers
  BY SamplesAreFiles, LedgersArePinned DEF CommitmentsPinLedgers
<1> QED BY <1>1, PTL

-----------------------------------------------------------------------------
(* Exports *)

Envelope(e, records, i) ==
    Hashed("entry", i, [payload |-> records[i]], IF i = 1 THEN Genesis ELSE e[i - 1].hash)
Chain(e, records, n) == e = [i \in 1..n |-> Envelope(e, records, i)]

LEMMA ChainExists ==
    ASSUME NEW records, NEW n \in Nat
    PROVE  \E e : Chain(e, records, n)
<1> DEFINE Missing == {m \in Nat : ~\E e : Chain(e, records, m)}
<1>1. Missing = {}
  <2> SUFFICES ASSUME Missing # {} PROVE FALSE
    OBVIOUS
  <2>1. PICK m \in Missing : \A k \in Missing : m <= k
    BY LeastOf
  <2>2. m # 0
    <3> DEFINE e == [i \in 1..0 |-> Genesis]
    <3>1. e = [i \in 1..0 |-> Envelope(e, records, i)]
      OBVIOUS
    <3>2. Chain(e, records, 0)
      BY <3>1 DEF Chain
    <3> QED BY <2>1, <3>2
  <2>3. m - 1 \in Nat /\ m \in Nat /\ m - 1 \notin Missing
    BY <2>1, <2>2
  <2>4. PICK e : Chain(e, records, m - 1)
    BY <2>3
  <2> DEFINE d == [i \in 1..m |-> IF i < m THEN e[i] ELSE Envelope(e, records, m)]
  <2>5. ASSUME NEW i \in 1..m PROVE d[i] = Envelope(d, records, i)
    <3>1. i > 1 => d[i - 1] = e[i - 1]
      BY <2>3
    <3>2. Envelope(d, records, i) = Envelope(e, records, i)
      BY <2>3, <3>1 DEF Envelope
    <3>3. i < m => e[i] = Envelope(e, records, i)
      BY <2>3, <2>4 DEF Chain
    <3> QED BY <2>3, <3>2, <3>3
  <2>6. d = [i \in 1..m |-> Envelope(d, records, i)]
    <3>1. d = [i \in 1..m |-> d[i]]
      OBVIOUS
    <3> HIDE DEF d
    <3>2. [i \in 1..m |-> d[i]] = [i \in 1..m |-> Envelope(d, records, i)]
      BY <2>5
    <3> QED BY <3>1, <3>2
  <2>7. Chain(d, records, m)
    BY <2>6 DEF Chain
  <2> QED BY <2>1, <2>7
<1> QED BY <1>1

LEMMA LegacyEnvelopesAre ==
    ASSUME NEW records, NEW n \in Nat, DOMAIN records = 1..n
    PROVE  \E e : Chain(e, records, n) /\ LegacyEnvelopes(records) = [i \in 1..n |-> <<e[i]>>]
<1> DEFINE Chains(e) == e = [i \in DOMAIN records |->
               Hashed("entry", i, [payload |-> records[i]],
                      IF i = 1 THEN Genesis ELSE e[i - 1].hash)]
           envelope == CHOOSE e : Chains(e)
<1>1. \A e : Chains(e) <=> Chain(e, records, n)
  BY DEF Chain, Envelope
<1>2. \E e : Chains(e)
  BY <1>1, ChainExists
<1>3. Chains(envelope)
  BY <1>2
<1>4. LegacyEnvelopes(records) = [i \in DOMAIN records |-> <<envelope[i]>>]
  BY Zenon DEF LegacyEnvelopes
<1> HIDE DEF envelope
<1>5. Chain(envelope, records, n) /\ LegacyEnvelopes(records) = [i \in 1..n |-> <<envelope[i]>>]
  BY <1>1, <1>3, <1>4
<1> QED BY <1>5

\* The wrappers are chained, ...
LEMMA EnvelopesVerify ==
    ASSUME MarkersApart, NEW records, NEW n \in Nat, DOMAIN records = 1..n
    PROVE  /\ VerifyLedger(LegacyEnvelopes(records)).valid
           /\ Len(LegacyEnvelopes(records)) = n
           /\ LegacyEnvelopes(records) \in
                 Seq(Seq({LegacyEnvelopes(records)[i][1] : i \in 1..n}))
<1>1. PICK e : Chain(e, records, n) /\ LegacyEnvelopes(records) = [i \in 1..n |-> <<e[i]>>]
  BY LegacyEnvelopesAre
<1> DEFINE file == LegacyEnvelopes(records)
           X == {file[i][1] : i \in 1..n}
<1>2. DOMAIN file = 1..n /\ \A i \in 1..n : file[i] = <<e[i]>> /\ file[i][1] = e[i]
  BY <1>1
<1>3. file \in Seq(Seq(X)) /\ Len(file) = n
  <2>1. ASSUME NEW i \in 1..n PROVE file[i] \in Seq(X)
    <3>1. e[i] \in X
      BY <1>2
    <3> HIDE DEF file, X
    <3>2. <<e[i]>> \in Seq(X)
      BY <3>1
    <3>3. file[i] = <<e[i]>>
      BY <1>2
    <3> QED BY <3>2, <3>3
  <2>2. file = [i \in 1..n |-> file[i]]
    BY <1>1
  <2> HIDE DEF file, X
  <2>3. file \in [1..n -> Seq(X)]
    BY <2>1, <2>2
  <2> QED BY <2>3
<1> DEFINE previous(i) == IF i = 1 THEN Genesis ELSE e[i - 1].hash
<1>4. \A i \in 1..n : e[i] = Hashed("entry", i, [payload |-> records[i]], previous(i))
  BY <1>1 DEF Chain, Envelope
<1> HIDE DEF previous
<1>5. \A i \in 1..n : e[i] # Torn /\ e[i].hash # None
  <2>1. ASSUME NEW sequence, NEW body, NEW p
        PROVE  Hashed("entry", sequence, body, p) # Torn /\ Hashed("entry", sequence, body, p).hash # None
    BY DEF MarkersApart
  <2> QED BY <1>4, <2>1
<1>6. Records(file) = [i \in 1..n |-> e[i]]
  BY <1>2 DEF Records
<1> HIDE DEF file
<1>7. Readable(file)
  <2>1. ASSUME NEW i \in 1..n PROVE Len(file[i]) = 1 /\ file[i][1] # Torn
    <3>1. Len(<<e[i]>>) = 1
      OBVIOUS
    <3>2. file[i] = <<e[i]>> /\ file[i][1] = e[i]
      BY <1>2
    <3> QED BY <1>5, <3>1, <3>2
  <2> QED BY <1>2, <2>1 DEF Readable
<1>8. ASSUME NEW i \in 1..n PROVE LinkHolds(Records(file), i)
  <2>1. /\ Records(file)[i] = e[i] /\ e[i].format = "entry" /\ e[i].hash = Digest(e[i])
        /\ e[i].previous = previous(i)
    <3>1. Records(file)[i] = e[i]
      BY <1>6
    <3>2. e[i] = Hashed("entry", i, [payload |-> records[i]], previous(i))
      BY <1>4
    <3>3. /\ e[i].format = "entry" /\ e[i].body = [payload |-> records[i]] /\ e[i].sequence = i
          /\ e[i].previous = previous(i)
          /\ e[i].hash = [body |-> [payload |-> records[i]], sequence |-> i,
                          previous |-> previous(i)]
      BY <3>2 DEF Hashed
    <3> QED BY <3>1, <3>3 DEF Digest
  <2>2. PreviousHash(Records(file), i - 1, Genesis) = previous(i)
    <3> DEFINE hashed == {j \in 1..(i - 1) : Records(file)[j].hash # None}
    <3>1. hashed = 1..(i - 1)
      BY <1>5, <1>6
    <3>2. i # 1 => Max(hashed) = i - 1 /\ hashed # {}
      <4> SUFFICES ASSUME i # 1 PROVE Max(hashed) = i - 1 /\ hashed # {}
        OBVIOUS
      <4>1. i - 1 \in hashed /\ \A k \in hashed : k \in Int /\ i - 1 >= k
        BY <3>1
      <4>2. \A k \in hashed : (\A j \in hashed : k >= j) => k = i - 1
        BY <4>1
      <4> HIDE DEF hashed
      <4> QED BY <4>1, <4>2 DEF Max
    <3>3. i = 1 => hashed = {}
      BY <3>1
    <3>4. i # 1 => Records(file)[i - 1] = e[i - 1]
      BY <1>6
    <3>5. PreviousHash(Records(file), i - 1, Genesis)
             = IF hashed = {} THEN Genesis ELSE Records(file)[Max(hashed)].hash
      BY Zenon DEF PreviousHash
    <3> HIDE DEF hashed
    <3> QED BY <3>2, <3>3, <3>4, <3>5 DEF previous
  <2> QED BY <2>1, <2>2 DEF LinkHolds
<1>9. DOMAIN Records(file) = 1..n
  BY <1>6
<1>10. VerifyLedger(file).valid
  BY <1>7, <1>8, <1>9 DEF VerifyLedger
<1> QED BY <1>3, <1>10 DEF file

\* ... and hold what they wrap.
LEMMA EnvelopesTellApart ==
    ASSUME NEW r, NEW s, NEW n \in Nat, Listed(r, n), Listed(s, n),
           LegacyEnvelopes(r) = LegacyEnvelopes(s)
    PROVE  r = s
<1>0. DOMAIN r = 1..n /\ DOMAIN s = 1..n
  BY ListedSeq
<1>1. PICK e : Chain(e, r, n) /\ LegacyEnvelopes(r) = [i \in 1..n |-> <<e[i]>>]
  BY <1>0, LegacyEnvelopesAre
<1>2. PICK d : Chain(d, s, n) /\ LegacyEnvelopes(s) = [i \in 1..n |-> <<d[i]>>]
  BY <1>0, LegacyEnvelopesAre
<1>3. ASSUME NEW i \in 1..n PROVE r[i] = s[i]
  <2>1. <<e[i]>> = LegacyEnvelopes(r)[i] /\ <<d[i]>> = LegacyEnvelopes(s)[i]
    BY <1>1, <1>2
  <2>2. e[i] = d[i]
    BY <2>1
  <2>3. e[i].body = [payload |-> r[i]] /\ d[i].body = [payload |-> s[i]]
    BY <1>1, <1>2 DEF Chain, Envelope, Hashed
  <2>4. [payload |-> r[i]].payload = [payload |-> s[i]].payload
    BY <2>2, <2>3
  <2> QED BY <2>4
<1>4. [i \in 1..n |-> r[i]] = [i \in 1..n |-> s[i]]
  BY <1>3
<1> QED BY <1>4 DEF Listed

Legacy(file) ==
    Readable(file) /\ file # <<>> /\ \A i \in DOMAIN file : file[i][1].hash = None

\* What export_ledger leaves: the wrappers, or the ledger as it was.
LEMMA ExportedIs ==
    ASSUME MarkersApart, NEW X, NEW f \in Seq(Seq(X)), ExportLedger(f) # None
    PROVE  /\ IF Legacy(f) THEN ExportLedger(f) = LegacyEnvelopes(Records(f))
                           ELSE ExportLedger(f) = f
           /\ Readable(f) /\ VerifyLedger(ExportLedger(f)).valid
           /\ Len(ExportLedger(f)) = Len(f)
           /\ \E Y : ExportLedger(f) \in Seq(Seq(Y))
<1>1. CASE Legacy(f)
  <2>1. ExportLedger(f) = LegacyEnvelopes(Records(f))
    BY <1>1 DEF ExportLedger, Legacy
  <2>2. Len(f) \in Nat /\ DOMAIN Records(f) = 1..Len(f)
    BY RecordsListed, ListedSeq
  <2>3. /\ VerifyLedger(ExportLedger(f)).valid /\ Len(ExportLedger(f)) = Len(f)
        /\ \E Y : ExportLedger(f) \in Seq(Seq(Y))
    BY <2>1, <2>2, EnvelopesVerify
  <2> QED BY <1>1, <2>1, <2>3 DEF Legacy
<1>2. CASE ~Legacy(f)
  <2>1. VerifyLedger(f).valid /\ ExportLedger(f) = f
    BY <1>2 DEF ExportLedger, Legacy
  <2>2. Readable(f)
    BY <2>1, VerifiedLedger
  <2> QED BY <1>2, <2>1, <2>2
<1> QED BY <1>1, <1>2

LEMMA SequencesShareElements ==
    ASSUME NEW X, NEW Y, NEW f \in Seq(Seq(X))
    PROVE  f \in Seq(Seq(X \union Y)) /\ f \in Seq(Seq(Y \union X))
<1>1. X \union Y = Y \union X
  OBVIOUS
<1>2. f \in Seq(Seq(X \union Y))
  <2>1. ASSUME NEW i \in 1..Len(f) PROVE f[i] \in Seq(X \union Y)
    <3>1. f[i] \in Seq(X)
      OBVIOUS
    <3> QED BY <3>1
  <2>2. f = [i \in 1..Len(f) |-> f[i]] /\ Len(f) \in Nat
    OBVIOUS
  <2>3. [i \in 1..Len(f) |-> f[i]] \in [1..Len(f) -> Seq(X \union Y)]
    BY <2>1
  <2> QED BY <2>2, <2>3
<1> QED BY <1>1, <1>2

\* What export_ledger leaves verifies, whatever it was given; and two ledgers leave
\* exports with different commitments, except that a ledger of wrappers is its own
\* export as well as that of what is wrapped.
THEOREM ExportsArePinned ==
    ASSUME MarkersApart, NEW X, NEW files \in SUBSET Seq(Seq(X)),
           \A f, g \in files : Legacy(g) => f # LegacyEnvelopes(Records(g))
    PROVE  ExportsEachOf(files)
<1> DEFINE exported == {f \in files : ExportLedger(f) # None}
<1>1. \A f \in exported : VerifyLedger(ExportLedger(f)).valid
  BY ExportedIs
<1>2. ASSUME NEW f \in exported, NEW g \in exported,
             Commitment(VerifyLedger(ExportLedger(f))) = Commitment(VerifyLedger(ExportLedger(g)))
      PROVE  f = g
  <2> DEFINE d == ExportLedger(f)
             e == ExportLedger(g)
  <2>1. /\ VerifyLedger(d).entry_count = VerifyLedger(e).entry_count
        /\ VerifyLedger(d).merkle_root = VerifyLedger(e).merkle_root
    BY <1>2 DEF Commitment
  <2>2. /\ VerifyLedger(d).valid /\ VerifyLedger(e).valid /\ Readable(f) /\ Readable(g)
        /\ Len(d) = Len(f) /\ Len(e) = Len(g)
    BY ExportedIs
  <2>3. PICK Y : d \in Seq(Seq(Y))
    BY ExportedIs
  <2>4. PICK Z : e \in Seq(Seq(Z))
    BY ExportedIs
  <2>5. d \in Seq(Seq(Y \union Z)) /\ e \in Seq(Seq(Y \union Z))
    BY <2>3, <2>4, SequencesShareElements
  <2> HIDE DEF d, e
  <2>6. Len(d) = Len(e)
    BY <2>1, <2>2, <2>5, VerifiedLedger
  <2>7. d = e
    BY <2>1, <2>2, <2>5, <2>6, CountAndRootPin
  <2>8. CASE Legacy(f) /\ Legacy(g)
    <3>1. LegacyEnvelopes(Records(f)) = LegacyEnvelopes(Records(g))
      BY <2>7, <2>8, ExportedIs DEF d, e
    <3>2. Len(f) = Len(g) /\ Len(f) \in Nat
      BY <2>2, <2>6
    <3>3. Records(f) = Records(g)
      BY <3>1, <3>2, RecordsListed, EnvelopesTellApart
    <3> QED BY <2>2, <3>2, <3>3, ReadableFile
  <2>9. CASE ~Legacy(f) /\ ~Legacy(g)
    BY <2>7, <2>9, ExportedIs DEF d, e
  <2>10. CASE Legacy(f) /\ ~Legacy(g)
    <3>1. d = LegacyEnvelopes(Records(f)) /\ e = g
      BY <2>10, ExportedIs DEF d, e
    <3> QED BY <2>7, <2>10, <3>1
  <2>11. CASE ~Legacy(f) /\ Legacy(g)
    <3>1. e = LegacyEnvelopes(Records(g)) /\ d = f
      BY <2>11, ExportedIs DEF d, e
    <3> QED BY <2>7, <2>11, <3>1
  <2> QED BY <2>8, <2>9, <2>10, <2>11
<1>3. TellApart({<<f, Commitment(VerifyLedger(ExportLedger(f)))>> : f \in exported})
  BY <1>2 DEF TellApart
<1> QED BY <1>1, <1>3 DEF ExportsEachOf

\* So it is for the ledgers the runs build, none of which wraps another.
THEOREM ExportsAlwaysVerify ==
    ASSUME MarkersApart
    PROVE  Spec => []ExportsVerify
<1>1. ASSUME NEW f \in SampleFiles, NEW g \in SampleFiles, Legacy(g),
             f = LegacyEnvelopes(Records(g))
      PROVE  FALSE
  <2> DEFINE r == Records(g)
             n == Len(g)
  <2>1. PICK m \in 0..4 : g \in [1..m -> {<<s>> : s \in SampleRecords}]
    BY DEF SampleFiles
  <2>2. PICK k \in 0..4 : f \in [1..k -> {<<s>> : s \in SampleRecords}]
    BY DEF SampleFiles
  <2>3. g \in Seq(Seq(SampleRecords)) /\ g # <<>>
    BY <1>1, SamplesAreFiles DEF Legacy
  <2>4. n \in Nat /\ n >= 1 /\ n = m /\ DOMAIN r = 1..n /\ Listed(r, n) /\ r[1] = g[1][1]
    <3>1. n \in Nat /\ n # 0 /\ n = m
      BY <2>1, <2>3
    <3> QED BY <2>3, <3>1, RecordsListed, ListedSeq
  <2>5. PICK e : Chain(e, r, n) /\ f = [i \in 1..n |-> <<e[i]>>]
    BY <1>1, <2>4, LegacyEnvelopesAre
  <2>6. e[1].body = [payload |-> r[1]]
    BY <2>4, <2>5 DEF Chain, Envelope, Hashed
  <2>7. r[1] \in SampleRecords
    <3>1. PICK s \in SampleRecords : g[1] = <<s>>
      BY <2>1, <2>4
    <3> QED BY <2>4, <3>1
  <2>8. e[1] \in SampleRecords
    <3>1. f[1] = <<e[1]>> /\ DOMAIN f = 1..n
      BY <2>4, <2>5
    <3>2. 1 \in 1..k
      BY <2>2, <2>4, <3>1
    <3>3. PICK s \in SampleRecords : f[1] = <<s>>
      BY <2>2, <3>2
    <3> QED BY <3>1, <3>3
  <2>9. \A s \in SampleRecords : s.body \in {x, y}
    BY DEF SampleRecords, Loose, FirstRecord, NextRecord, FirstEntry, SecondEntry, Plain, Hashed
  <2> QED BY <2>6, <2>7, <2>8, <2>9, BodiesAssumption
<1>2. ExportsVerify
  BY <1>1, SamplesAreFiles, ExportsArePinned DEF ExportsVerify
<1> QED BY <1>2, PTL

-----------------------------------------------------------------------------
(* A ledger and a longer one *)

\* The level at which one node is left.
Top(f, n, a) ==
    /\ a \in 0..n /\ Listed(f[a], 1) /\ \A k \in 0..n : k >= a => f[k] = f[a]
    /\ \A k \in 0..n : k < a => \E w \in Nat : w > 1 /\ Listed(f[k], w)

LEMMA TowerStops ==
    ASSUME NEW r, NEW n, Listed(r, n), n >= 1, NEW f, Tower(f, r, n)
    PROVE  \E a : Top(f, n, a)
<1>0. n \in Nat /\ SameWidth(r, r, n)
  BY DEF Listed, SameWidth
<1>1. \A k \in 0..n : \E w : SameWidth(f[k], f[k], w) /\ (w = 1 \/ w + k <= n)
  BY <1>0, LevelsAlign
<1>2. \A k \in 0..n : \E w \in Nat : w >= 1 /\ Listed(f[k], w) /\ (w = 1 \/ w + k <= n)
  BY <1>1 DEF SameWidth, Listed
<1> DEFINE Ended == {k \in 0..n : Listed(f[k], 1)}
<1>3. n \in Ended
  <2>1. PICK w \in Nat : w >= 1 /\ Listed(f[n], w) /\ (w = 1 \/ w + n <= n)
    BY <1>0, <1>2
  <2>2. w = 1
    BY <1>0, <2>1
  <2> QED BY <1>0, <2>1, <2>2
<1>4. PICK a \in Ended : \A k \in Ended : a <= k
  <2>1. Ended \in SUBSET Nat /\ Ended # {}
    BY <1>0, <1>3
  <2> QED BY <2>1, LeastOf
<1>5. ASSUME NEW k \in 0..n, k < a PROVE \E w \in Nat : w > 1 /\ Listed(f[k], w)
  <2>1. PICK w \in Nat : w >= 1 /\ Listed(f[k], w)
    BY <1>2
  <2>2. w # 1
    BY <1>0, <1>4, <1>5, <2>1
  <2> QED BY <2>1, <2>2
<1>6. \A k \in 0..n : k >= a => f[k] = f[a]
  <2> DEFINE Other == {k \in 0..n : k >= a /\ f[k] # f[a]}
  <2> SUFFICES ASSUME Other # {} PROVE FALSE
    BY <1>0, <1>4
  <2>1. PICK m \in Other : \A k \in Other : m <= k
    <3>1. Other \in SUBSET Nat
      BY <1>0
    <3> QED BY <3>1, LeastOf
  <2>2. m - 1 \in 0..n /\ m \in 0..n /\ m # 0 /\ m - 1 \notin Other /\ m - 1 >= a
    BY <1>0, <1>4, <2>1
  <2>3. f[m - 1] = f[a]
    BY <2>2
  <2>4. f[m] = Climb(f[m - 1])
    BY <2>2 DEF Tower
  <2>5. Climb(f[a]) = f[a]
    BY <1>4, ClimbIs
  <2> QED BY <2>1, <2>3, <2>4, <2>5
<1> QED BY <1>4, <1>5, <1>6 DEF Top

\* Below the top each level holds the parents of the one below, the first node of
\* which is the left child of the first.
LEMMA BelowTheTop ==
    ASSUME NEW r, NEW n \in Nat, NEW f, Tower(f, r, n), NEW a, Top(f, n, a),
           NEW k \in Nat, k < a
    PROVE  /\ f[k + 1] = Parents(f[k])
           /\ \E right : f[k + 1][1] = Node(f[k][1], right)
<1>1. k \in 0..n /\ k + 1 \in 0..n /\ k + 1 # 0 /\ (k + 1) - 1 = k
  BY DEF Top
<1>2. PICK w \in Nat : w > 1 /\ Listed(f[k], w)
  BY <1>1 DEF Top
<1>3. f[k + 1] = Climb(f[k])
  BY <1>1 DEF Tower
<1>4. f[k + 1] = Parents(f[k])
  BY <1>2, <1>3, ClimbIs
<1>5. 1 \in 1..Half(w)
  BY <1>2, HalfIs
<1>6. Parents(f[k])[1] = Node(f[k][2 * 1 - 1], f[k][IF 2 * 1 <= w THEN 2 * 1 ELSE w])
  BY <1>2, <1>5, ParentsAre
<1> QED BY <1>4, <1>6

\* How a level of the shorter tree stands to that of the longer: it is the first part
\* of it, or they have parted at its end.
Starts(u, p, v, q) ==
    /\ p < q /\ \A i \in 1..p : u[i] = v[i]
    /\ \A i, j \in 1..q : v[i] = v[j] => i = j
Parted(u, p, v, q) == p <= q /\ u[p] # v[p]

LEMMA PartingGoesUp ==
    ASSUME NEW u, NEW p, Listed(u, p), NEW v, NEW q, Listed(v, q), p > 1,
           Starts(u, p, v, q) \/ Parted(u, p, v, q)
    PROVE  \/ Starts(Parents(u), Half(p), Parents(v), Half(q))
           \/ Parted(Parents(u), Half(p), Parents(v), Half(q))
<1>0. p \in Nat /\ q \in Nat /\ q > 1 /\ p <= q
  BY DEF Listed, Starts, Parted
<1> DEFINE a == Half(p)
           b == Half(q)
<1>1. /\ a \in Nat /\ a >= 1 /\ (p = 2 * a \/ p = 2 * a - 1)
      /\ b \in Nat /\ b >= 1 /\ (q = 2 * b \/ q = 2 * b - 1)
  BY <1>0, HalfIs
<1>2. a <= b
  BY <1>0, <1>1
<1>3. \A i \in 1..a : /\ 2 * i - 1 \in 1..p
                      /\ Parents(u)[i] = Node(u[2 * i - 1], u[IF 2 * i <= p THEN 2 * i ELSE p])
  <2>1. p >= 1 /\ Listed(u, p)
    BY <1>0
  <2> QED BY <2>1, ParentsAre
<1>4. \A i \in 1..b : /\ 2 * i - 1 \in 1..q
                      /\ Parents(v)[i] = Node(v[2 * i - 1], v[IF 2 * i <= q THEN 2 * i ELSE q])
  <2>1. q >= 1 /\ Listed(v, q)
    BY <1>0
  <2> QED BY <2>1, ParentsAre
<1>5. \A x1, x2, y1, y2 : Node(x1, x2) = Node(y1, y2) => x1 = y1 /\ x2 = y2
  BY DEF Node
<1> HIDE DEF a, b
<1>6. CASE Parted(u, p, v, q)
  <2>1. a \in 1..a /\ a \in 1..b
    BY <1>1, <1>2
  <2>2. CASE p = 2 * a - 1
    <3>1. Parents(u)[a] # Parents(v)[a]
      BY <1>3, <1>4, <1>5, <1>6, <2>1, <2>2 DEF Parted
    <3> QED BY <1>2, <3>1 DEF Parted, a, b
  <2>3. CASE p = 2 * a
    <3>1. 2 * a <= p /\ 2 * a <= q
      BY <1>0, <1>1, <2>3
    <3>2. Parents(u)[a] # Parents(v)[a]
      BY <1>3, <1>4, <1>5, <1>6, <2>1, <2>3, <3>1 DEF Parted
    <3> QED BY <1>2, <3>2 DEF Parted, a, b
  <2> QED BY <1>1, <2>2, <2>3
<1>7. CASE Starts(u, p, v, q)
  <2>0. /\ p < q /\ \A i \in 1..p : u[i] = v[i]
        /\ \A i, j \in 1..q : v[i] = v[j] => i = j
    BY <1>7 DEF Starts
  <2>1. CASE p = 2 * a - 1
    <3>1. a \in 1..a /\ a \in 1..b /\ 2 * a <= q /\ ~(2 * a <= p) /\ 2 * a \in 1..q /\ p \in 1..p /\ p \in 1..q
      BY <1>0, <1>1, <1>2, <2>0, <2>1
    <3>2. u[p] # v[2 * a]
      BY <2>0, <2>1, <3>1, <1>1
    <3>3. Parents(u)[a] = Node(u[2 * a - 1], u[p]) /\ Parents(v)[a] = Node(v[2 * a - 1], v[2 * a])
      BY <1>3, <1>4, <3>1
    <3>4. Parents(u)[a] # Parents(v)[a]
      BY <1>5, <3>2, <3>3
    <3> QED BY <1>2, <3>4 DEF Parted, a, b
  <2>2. CASE p = 2 * a
    <3>1. a < b
      BY <1>1, <2>0, <2>2
    <3>2. ASSUME NEW i \in 1..a PROVE Parents(u)[i] = Parents(v)[i]
      <4>1. i \in 1..b /\ 2 * i <= p /\ 2 * i <= q /\ 2 * i \in 1..p /\ 2 * i - 1 \in 1..p
        BY <1>0, <1>1, <1>2, <2>2
      <4>2. /\ Parents(u)[i] = Node(u[2 * i - 1], u[2 * i])
            /\ Parents(v)[i] = Node(v[2 * i - 1], v[2 * i])
        BY <1>3, <1>4, <4>1
      <4> QED BY <2>0, <4>1, <4>2
    <3>3. ASSUME NEW i \in 1..b, NEW j \in 1..b, Parents(v)[i] = Parents(v)[j] PROVE i = j
      <4>1. v[2 * i - 1] = v[2 * j - 1] /\ 2 * i - 1 \in 1..q /\ 2 * j - 1 \in 1..q
        BY <1>4, <1>5, <3>3
      <4>2. 2 * i - 1 = 2 * j - 1
        BY <2>0, <4>1
      <4> QED BY <4>2
    <3> QED BY <3>1, <3>2, <3>3 DEF Starts, a, b
  <2> QED BY <1>1, <2>1, <2>2
<1> QED BY <1>6, <1>7

\* So they stand up to the top of the shorter tree.
LEMMA LevelsPart ==
    ASSUME NEW r, NEW n, Listed(r, n), n >= 1, NEW s, NEW m, Listed(s, m),
           Starts(r, n, s, m),
           NEW f, Tower(f, r, n), NEW g, Tower(g, s, m), NEW a, Top(f, n, a)
    PROVE  \A k \in 0..a : \E p, q :
              /\ Listed(f[k], p) /\ Listed(g[k], q) /\ p >= 1
              /\ Starts(f[k], p, g[k], q) \/ Parted(f[k], p, g[k], q)
<1> DEFINE Related(k, p, q) == /\ Listed(f[k], p) /\ Listed(g[k], q) /\ p >= 1
                               /\ Starts(f[k], p, g[k], q) \/ Parted(f[k], p, g[k], q)
           Bad == {k \in 0..a : ~\E p, q : Related(k, p, q)}
<1> SUFFICES ASSUME Bad # {} PROVE FALSE
  OBVIOUS
<1>0. n \in Nat /\ m \in Nat /\ n < m /\ a \in 0..n
  BY DEF Listed, Starts, Top
<1>1. PICK l \in Bad : \A k \in Bad : l <= k
  <2>1. Bad \in SUBSET Nat
    BY <1>0
  <2> QED BY <2>1, LeastOf
<1>2. CASE l = 0
  <2>1. f[0] = Leaves(r) /\ g[0] = Leaves(s)
    BY <1>0 DEF Tower
  <2>2. /\ Listed(f[0], n) /\ \A i \in 1..n : f[0][i] = Leaf(r[i])
        /\ Listed(g[0], m) /\ \A i \in 1..m : g[0][i] = Leaf(s[i])
    BY <2>1, LeavesAre
  <2>3. \A i \in 1..n : f[0][i] = g[0][i]
    BY <1>0, <2>2 DEF Starts
  <2>4. ASSUME NEW i \in 1..m, NEW j \in 1..m, g[0][i] = g[0][j] PROVE i = j
    <3>1. s[i] = s[j]
      BY <2>2, <2>4 DEF Leaf
    <3> QED BY <3>1 DEF Starts
  <2>5. Starts(f[0], n, g[0], m)
    BY <1>0, <2>3, <2>4 DEF Starts
  <2> QED BY <1>1, <1>2, <2>2, <2>5
<1>3. CASE l # 0
  <2>1. /\ l - 1 \in 0..a /\ l - 1 < a /\ l - 1 \notin Bad /\ l \in 0..n /\ l \in 0..m
        /\ l - 1 \in 0..n /\ l - 1 \in Nat
    BY <1>0, <1>1, <1>3
  <2>2. PICK p, q : Related(l - 1, p, q)
    BY <2>1
  <2>3. PICK w \in Nat : w > 1 /\ Listed(f[l - 1], w)
    BY <2>1 DEF Top
  <2>4. p = w /\ p \in Nat /\ q \in Nat /\ q > 1
    <3>1. p = w /\ p \in Nat /\ q \in Nat
      BY <2>2, <2>3, ListedSeq DEF Listed
    <3>2. p <= q
      BY <2>2, <3>1 DEF Starts, Parted
    <3> QED BY <2>3, <3>1, <3>2
  <2>5. f[l] = Climb(f[l - 1]) /\ g[l] = Climb(g[l - 1])
    BY <1>3, <2>1 DEF Tower
  <2>6. f[l] = Parents(f[l - 1]) /\ Listed(f[l], Half(p)) /\ Half(p) >= 1
    BY <2>2, <2>3, <2>4, <2>5, ClimbIs
  <2>7. g[l] = Parents(g[l - 1]) /\ Listed(g[l], Half(q))
    BY <2>2, <2>4, <2>5, ClimbIs
  <2>8. Starts(f[l], Half(p), g[l], Half(q)) \/ Parted(f[l], Half(p), g[l], Half(q))
    BY <2>2, <2>3, <2>4, <2>6, <2>7, PartingGoesUp
  <2>9. Related(l, Half(p), Half(q))
    BY <2>6, <2>7, <2>8
  <2> QED BY <1>1, <2>9
<1> QED BY <1>2, <1>3

\* A node of a tree is a leaf or has children.
LEMMA LeafOrNode ==
    /\ \A s, left, right : Leaf(s) # Node(left, right)
    /\ \A s : Leaf(s) # <<>>
    /\ \A left, right : Node(left, right) # <<>>
  BY DEF Leaf, Node

\* The first node of a level above the leaves has children.
LEMMA FirstNode ==
    ASSUME NEW r, NEW n, Listed(r, n), n >= 1, NEW f, Tower(f, r, n), NEW a, Top(f, n, a)
    PROVE  /\ f[0][1] = Leaf(r[1])
           /\ \A k \in 1..a : \E left, right : f[k][1] = Node(left, right)
<1>0. n \in Nat /\ a \in 0..n
  BY DEF Listed, Top
<1>1. f[0] = Leaves(r)
  BY <1>0 DEF Tower
<1>2. f[0][1] = Leaf(r[1])
  <2>1. 1 \in 1..n
    BY <1>0
  <2> QED BY <1>1, <2>1, LeavesAre
<1>3. ASSUME NEW k \in 1..a PROVE \E left, right : f[k][1] = Node(left, right)
  <2>1. PICK l \in Nat : l < a /\ l + 1 = k
    <3>1. k - 1 \in Nat /\ k - 1 < a /\ (k - 1) + 1 = k
      BY <1>0
    <3> QED BY <3>1
  <2>2. \E right : f[l + 1][1] = Node(f[l][1], right)
    BY <1>0, <2>1, BelowTheTop
  <2> QED BY <2>1, <2>2
<1> QED BY <1>2, <1>3

\* Trees of different height do not have one root.
LEMMA HeightsPart ==
    ASSUME NEW r, NEW n, Listed(r, n), n >= 1, NEW s, NEW m, Listed(s, m), m >= 1,
           NEW f, Tower(f, r, n), NEW g, Tower(g, s, m),
           NEW a, Top(f, n, a), NEW b, Top(g, m, b), a < b
    PROVE  f[a][1] # g[b][1]
<1> SUFFICES ASSUME f[a][1] = g[b][1] PROVE FALSE
  OBVIOUS
<1>0. n \in Nat /\ m \in Nat /\ a \in Nat /\ b \in Nat
  BY DEF Listed, Top
<1>1. \A c \in Nat : c < a => \E right : f[c + 1][1] = Node(f[c][1], right)
  <2>1. n \in Nat /\ Tower(f, r, n) /\ Top(f, n, a)
    BY <1>0
  <2> QED BY <2>1, BelowTheTop
<1>2. \A d \in Nat : d < b => \E right : g[d + 1][1] = Node(g[d][1], right)
  <2>1. m \in Nat /\ Tower(g, s, m) /\ Top(g, m, b)
    BY <1>0
  <2> QED BY <2>1, BelowTheTop
<1> DEFINE Bad == {k \in 0..a : f[a - k][1] # g[b - k][1]}
<1>3. CASE Bad = {}
  <2>1. f[0][1] = g[b - a][1]
    <3>1. a \in 0..a /\ a - a = 0
      BY <1>0
    <3> QED BY <1>3, <3>1
  <2>2. b - a \in 1..b
    BY <1>0
  <2> QED BY <2>1, <2>2, FirstNode, LeafOrNode
<1>4. CASE Bad # {}
  <2>1. PICK l \in Bad : \A k \in Bad : l <= k
    <3>1. Bad \in SUBSET Nat
      BY <1>0
    <3> QED BY <1>4, <3>1, LeastOf
  <2>2. l # 0
    BY <1>0, <2>1
  <2>3. l - 1 \in 0..a /\ l - 1 \notin Bad
    BY <1>0, <2>1, <2>2
  <2>4. f[a - (l - 1)][1] = g[b - (l - 1)][1]
    BY <2>3
  <2> DEFINE c == a - l
             d == b - l
  <2>5. /\ c \in Nat /\ c < a /\ a - (l - 1) = c + 1
        /\ d \in Nat /\ d < b /\ b - (l - 1) = d + 1
    BY <1>0, <2>1, <2>2
  <2>6. f[c][1] # g[d][1]
    BY <2>1
  <2> HIDE DEF c, d
  <2>7. PICK u : f[c + 1][1] = Node(f[c][1], u)
    BY <1>1, <2>5
  <2>8. PICK v : g[d + 1][1] = Node(g[d][1], v)
    BY <1>2, <2>5
  <2>9. Node(f[c][1], u) = Node(g[d][1], v)
    BY <2>4, <2>5, <2>7, <2>8
  <2> QED BY <2>9, <2>6 DEF Node
<1> QED BY <1>3, <1>4

\* A ledger without repeated records and its first part have different roots.
LEMMA RootsPart ==
    ASSUME NEW r, NEW n, Listed(r, n), NEW s, NEW m, Listed(s, m), Starts(r, n, s, m)
    PROVE  MerkleRoot(r) # MerkleRoot(s)
<1>0. n \in Nat /\ m \in Nat /\ n < m /\ m >= 1 /\ Len(r) = n /\ Len(s) = m
  <2>1. n \in Nat /\ m \in Nat /\ Len(r) = n /\ Len(s) = m
    BY ListedSeq
  <2> QED BY <2>1 DEF Starts
<1>1. s # <<>>
  BY <1>0
<1>2. PICK g : Tower(g, s, m) /\ MerkleRoot(s) = g[m][1]
  BY <1>0, <1>1, MerkleRootIs
<1>3. PICK b : Top(g, m, b)
  BY <1>0, <1>2, TowerStops
<1>4. b \in 0..m /\ m \in 0..m /\ g[m] = g[b]
  BY <1>0, <1>3 DEF Top
<1>5. CASE n = 0
  <2>1. r = <<>>
    BY <1>0, <1>5 DEF Listed
  <2>2. MerkleRoot(r) = <<>>
    BY <2>1 DEF MerkleRoot
  <2>3. g[b][1] # <<>>
    <3>1. b = 0 \/ b \in 1..b
      BY <1>0, <1>4
    <3>2. /\ g[0][1] = Leaf(s[1])
          /\ \A k \in 1..b : \E left, right : g[k][1] = Node(left, right)
      BY <1>0, <1>2, <1>3, FirstNode
    <3> QED BY <3>1, <3>2, LeafOrNode
  <2> QED BY <1>2, <1>4, <2>2, <2>3
<1>6. CASE n # 0
  <2>1. n >= 1 /\ r # <<>>
    BY <1>0, <1>6
  <2>2. PICK f : Tower(f, r, n) /\ MerkleRoot(r) = f[n][1]
    BY <1>0, <2>1, MerkleRootIs
  <2>3. PICK a : Top(f, n, a)
    BY <2>1, <2>2, TowerStops
  <2>4. a \in 0..n /\ a \in 0..a /\ n \in 0..n /\ f[n] = f[a] /\ Listed(f[a], 1)
    BY <1>0, <2>3 DEF Top
  <2>5. PICK p, q : /\ Listed(f[a], p) /\ Listed(g[a], q) /\ p >= 1
                    /\ Starts(f[a], p, g[a], q) \/ Parted(f[a], p, g[a], q)
    BY <1>2, <2>1, <2>2, <2>3, <2>4, LevelsPart
  <2>6. p = 1 /\ q \in Nat
    <3>1. Len(f[a]) = p
      BY <2>5, ListedSeq
    <3>2. Len(f[a]) = 1
      BY <2>4, ListedSeq
    <3>3. q \in Nat
      BY <2>5 DEF Listed
    <3> QED BY <3>1, <3>2, <3>3
  <2>7. CASE a < b
    BY <1>0, <1>2, <1>3, <1>4, <2>1, <2>2, <2>3, <2>4, <2>7, HeightsPart
  <2>8. CASE ~(a < b)
    <3>1. a \in 0..m /\ a >= b
      BY <1>0, <1>4, <2>4, <2>8
    <3>2. g[a] = g[b] /\ Listed(g[a], 1)
      BY <1>3, <3>1 DEF Top
    <3>3. q = 1
      <4>1. Len(g[a]) = q
        BY <2>5, ListedSeq
      <4>2. Listed(g[a], 1)
        BY <3>2
      <4>3. Len(g[a]) = 1
        BY <4>2, ListedSeq
      <4> QED BY <4>1, <4>3
    <3>4. f[a][1] # g[a][1]
      BY <2>5, <2>6, <3>3 DEF Starts, Parted
    <3> QED BY <1>2, <1>4, <2>2, <2>4, <3>2, <3>4
  <2> QED BY <2>7, <2>8
<1> QED BY <1>5, <1>6

-----------------------------------------------------------------------------
(* Anchors of two readings *)

LEMMA NoneRepeated ==
    ASSUME NEW X, NEW f \in Seq(X), Cardinality(Range(f)) = Len(f)
    PROVE  \A i, j \in 1..Len(f) : f[i] = f[j] => i = j
<1> DEFINE S == 1..Len(f)
           T == Range(f)
<1>1. DOMAIN f = S /\ f = [i \in S |-> f[i]] /\ Len(f) \in Nat
  OBVIOUS
<1>2. f \in Surjection(S, T)
  <2>1. T = {f[i] : i \in S}
    <3>1. Range(f) = {f[i] : i \in DOMAIN f}
      BY DEF Range
    <3> HIDE DEF S
    <3> QED BY <1>1, <3>1
  <2> HIDE DEF S, T
  <2>2. f \in [S -> T]
    BY <1>1, <2>1
  <2>3. \A t \in T : \E i \in S : f[i] = t
    BY <2>1
  <2> QED BY <2>2, <2>3 DEF Surjection
<1>3. IsFiniteSet(S) /\ Cardinality(S) = Len(f)
  <2>1. /\ IsFiniteSet(1..Len(f))
        /\ Cardinality(1..Len(f)) = IF 1 > Len(f) THEN 0 ELSE Len(f) - 1 + 1
    <3>1. 1 \in Int /\ Len(f) \in Int
      BY <1>1
    <3> QED BY <3>1, FS_Interval
  <2> QED BY <1>1, <2>1
<1>4. f \in Injection(S, T)
  BY <1>2, <1>3, FS_Surjection
<1> QED BY <1>4 DEF Injection, IsInjective

\* What the two readings of an anchor are of: the first part of a ledger, and all of it.
LEMMA FirstPart ==
    ASSUME NEW X, NEW later \in Seq(Seq(X)), Readable(later),
           Cardinality(Range(later)) = Len(later),
           NEW n \in 0..Len(later), n # Len(later)
    PROVE  LET earlier == SubSeq(later, 1, n)
           IN /\ earlier \in Seq(Seq(X)) /\ Len(earlier) = n /\ Readable(earlier)
              /\ Listed(Records(earlier), n) /\ Listed(Records(later), Len(later))
              /\ Starts(Records(earlier), n, Records(later), Len(later))
<1> DEFINE earlier == SubSeq(later, 1, n)
           m == Len(later)
<1>0. n \in Nat /\ m \in Nat /\ n < m /\ DOMAIN later = 1..m
  OBVIOUS
<1>1. /\ earlier \in Seq(Seq(X)) /\ Len(earlier) = n /\ DOMAIN earlier = 1..n
      /\ \A i \in 1..n : i \in 1..m /\ earlier[i] = later[i]
  BY <1>0
<1> HIDE DEF earlier, m
<1>2. Readable(earlier)
  BY <1>0, <1>1 DEF Readable
<1>3. /\ Listed(Records(earlier), n) /\ \A i \in 1..n : Records(earlier)[i] = earlier[i][1]
      /\ Listed(Records(later), m) /\ \A i \in 1..m : Records(later)[i] = later[i][1]
  BY <1>1, RecordsListed DEF m
<1>4. \A i \in 1..n : Records(earlier)[i] = Records(later)[i]
  BY <1>1, <1>3
<1>5. ASSUME NEW i \in 1..m, NEW j \in 1..m, Records(later)[i] = Records(later)[j]
      PROVE  i = j
  <2>1. /\ later[i] \in Seq(X) /\ Len(later[i]) = 1
        /\ later[j] \in Seq(X) /\ Len(later[j]) = 1
    <3>1. i \in DOMAIN later /\ j \in DOMAIN later
      BY <1>0
    <3>2. later[i] \in Seq(X) /\ later[j] \in Seq(X)
      BY <3>1
    <3> QED BY <3>1, <3>2 DEF Readable
  <2>2. later[i][1] = later[j][1]
    BY <1>3, <1>5
  <2>3. later[i] = later[j]
    BY <2>1, <2>2
  <2> QED BY <2>3, NoneRepeated DEF m
<1>6. Starts(Records(earlier), n, Records(later), m)
  BY <1>0, <1>4, <1>5 DEF Starts
<1> QED BY <1>1, <1>2, <1>3, <1>6 DEF earlier, m

\* What an anchor of two readings holds, when a record was appended between them, fits
\* neither the first ledger (the range is of the second) nor the second (the Merkle root
\* is of the first): for ledgers of any length in which no record is repeated.
THEOREM AnchorsAreOfOneReading ==
    ASSUME NEW X, NEW files \in SUBSET Seq(Seq(X))
    PROVE  AnchorsEachOf(files)
<1> SUFFICES ASSUME NEW later \in files, VerifyLedger(later).valid,
                    Cardinality(Range(later)) = Len(later), NEW n \in 0..Len(later)
             PROVE  LET earlier == SubSeq(later, 1, n)
                        anchor == Anchor(VerifyLedger(earlier), Records(later))
                    IN \A f \in {earlier, later} : VerifyAnchor(anchor, f) <=> n = Len(later)
  BY DEF AnchorsEachOf
<1> DEFINE earlier == SubSeq(later, 1, n)
           anchor == Anchor(VerifyLedger(earlier), Records(later))
<1>0. /\ later \in Seq(Seq(X)) /\ Readable(later)
      /\ VerifyLedger(later).merkle_root = MerkleRoot(Records(later))
  BY VerifiedLedger
<1>1. CASE n = Len(later)
  <2>1. earlier = later
    BY <1>0, <1>1
  <2> HIDE DEF earlier
  <2>2. VerifyAnchor(anchor, later)
    BY <2>1 DEF VerifyAnchor
  <2> QED BY <1>1, <2>1, <2>2 DEF earlier
<1>2. CASE n # Len(later)
  <2>1. /\ earlier \in Seq(Seq(X)) /\ Len(earlier) = n /\ Readable(earlier)
        /\ Listed(Records(earlier), n) /\ Listed(Records(later), Len(later))
        /\ Starts(Records(earlier), n, Records(later), Len(later))
    BY <1>0, <1>2, FirstPart
  <2> HIDE DEF earlier
  <2>2. Len(Records(earlier)) = n /\ Len(Records(later)) = Len(later)
    BY <2>1, ListedSeq
  <2>3. ~VerifyAnchor(anchor, earlier)
    <3>1. /\ anchor.sequence_range.entry_count = Len(later)
          /\ Anchor(VerifyLedger(earlier), Records(earlier)).sequence_range.entry_count = n
      BY <2>2 DEF Anchor, SequenceRange
    <3> QED BY <1>2, <3>1 DEF VerifyAnchor
  <2>4. ~VerifyAnchor(anchor, later)
    <3>1. VerifyLedger(earlier).merkle_root = MerkleRoot(Records(earlier))
      BY <2>1 DEF VerifyLedger
    <3>2. MerkleRoot(Records(earlier)) # MerkleRoot(Records(later))
      BY <2>1, RootsPart
    <3>3. /\ anchor.merkle_root = MerkleRoot(Records(earlier))
          /\ Anchor(VerifyLedger(later), Records(later)).merkle_root = MerkleRoot(Records(later))
      BY <1>0, <3>1 DEF Anchor
    <3> QED BY <3>2, <3>3 DEF VerifyAnchor
  <2> QED BY <1>2, <2>3, <2>4 DEF earlier
<1> QED BY <1>1, <1>2

\* The anchors of two readings of the ledgers of the runs verify against neither.
THEOREM AnchorsPin == Spec => []AnchorsPinOneReading
<1>1. AnchorsPinOneReading
  BY SamplesAreFiles, AnchorsAreOfOneReading DEF AnchorsPinOneReading
<1> QED BY <1>1, PTL
=============================================================================
