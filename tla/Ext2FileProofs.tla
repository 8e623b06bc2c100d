--------------------------- MODULE Ext2FileProofs ---------------------------
(***************************************************************************)
(* Proofs about Ext2File, for any number of blocks and pointers, of levels *)
(* of indirect blocks and of failing reads and writes, and one thread.     *)
(***************************************************************************)
EXTENDS Ext2File, FiniteSetTheorems, FunctionTheorems, BoundedInduction

(***************************************************************************)
(* Pointers.                                                               *)
(***************************************************************************)

Dbs == [0..(NDADDR - 1) -> Pointer]
Ibs == [0..(NIADDR - 1) -> Pointer]
Contents == [Blocks -> Indirs \cup {Garbage}]

\* Where a pointer can be, and what it can be.
Places == Pointer \X Nat \X Blocks \X (0..NIADDR)

\* The pointers of the inode, and those that are in the blocks that others lead to.
Top(db, ib) == {<<0, l, db[l], 0>> : l \in DOMAIN db}
                 \cup {<<0, NDADDR + l, ib[l], l + 1>> : l \in DOMAIN ib}
Live(S) == {p \in S : p[3] # 0}
Under(S, content) ==
  UNION {{<<p[3], o, content[p[3]][o], p[4] - 1>> : o \in DOMAIN content[p[3]] \cap Offsets} :
           p \in {q \in S : q[4] > 0}}
StepDown(S, content) == S \cup Live(Under(S, content))

\* The o-th pointer of the block that p leads to.
Below(content, p, o) == <<p[3], o, content[p[3]][o], p[4] - 1>>
Has(content, p, o)   == p[4] > 0 /\ o \in Offsets /\ content[p[3]] # Garbage /\ content[p[3]][o] # 0

\* The pointers of S lead to nothing but S.
Closed(S, content) == \A p \in S, o \in Offsets : Has(content, p, o) => Below(content, p, o) \in S

LEMMA GarbageFacts ==
  /\ Garbage \notin Indirs /\ DOMAIN Garbage \cap Offsets = {}
  /\ \A c \in Indirs : DOMAIN c \cap Offsets = Offsets /\ c # Garbage
  /\ Zeroes \in Indirs /\ 0 \in Offsets /\ 0 \in Pointer
<1>1. 0 \in Offsets
  BY FileAssumption DEF Offsets
<1>2. DOMAIN Garbage = {}
  BY DEF Garbage
<1>3. \A c \in Indirs : DOMAIN c = Offsets
  BY DEF Indirs
<1>4. Zeroes \in Indirs
  BY DEF Zeroes, Indirs, Pointer
<1>5. QED BY <1>1, <1>2, <1>3, <1>4 DEF Pointer

\* What a step down adds.
LEMMA StepDownFacts ==
  ASSUME NEW content \in Contents, NEW S \in SUBSET Places
  PROVE  /\ StepDown(S, content) \in SUBSET Places
         /\ S \subseteq StepDown(S, content)
         /\ \A p \in S, o \in Offsets : Has(content, p, o) => Below(content, p, o) \in StepDown(S, content)
         /\ \A q \in StepDown(S, content) \ S :
              \E p \in S, o \in Offsets : Has(content, p, o) /\ q = Below(content, p, o)
<1>1. ASSUME NEW p \in S
      PROVE  /\ p = <<p[1], p[2], p[3], p[4]>> /\ p[3] \in Blocks /\ p[4] \in 0..NIADDR
             /\ content[p[3]] \in Indirs \cup {Garbage}
  BY DEF Places, Contents
<1>2. ASSUME NEW p \in S, NEW o \in Offsets, Has(content, p, o)
      PROVE  /\ Below(content, p, o) \in Under(S, content)
             /\ Below(content, p, o) \in Places /\ Below(content, p, o)[3] # 0
  <2>1. content[p[3]] \in Indirs
    BY <1>1, <1>2 DEF Has
  <2>2. DOMAIN content[p[3]] \cap Offsets = Offsets
    BY <2>1, GarbageFacts
  <2>3. content[p[3]][o] \in Blocks
    BY <1>2, <2>1 DEF Has, Indirs, Pointer
  <2>4. p[4] - 1 \in 0..NIADDR /\ o \in Nat /\ p[3] \in Pointer
    BY <1>1, <1>2, FileAssumption DEF Has, Offsets, Pointer
  <2>5. p \in {q \in S : q[4] > 0}
    BY <1>2 DEF Has
  <2>6. QED BY <2>2, <2>3, <2>4, <2>5, FileAssumption DEF Under, Below, Places
<1>3. ASSUME NEW q \in Live(Under(S, content))
      PROVE  \E p \in S, o \in Offsets : Has(content, p, o) /\ q = Below(content, p, o)
  <2>1. q \in Under(S, content) /\ q[3] # 0
    BY DEF Live
  <2>2. PICK p \in {r \in S : r[4] > 0} :
          q \in {<<p[3], o, content[p[3]][o], p[4] - 1>> : o \in DOMAIN content[p[3]] \cap Offsets}
    BY <2>1 DEF Under
  <2>3. PICK o \in DOMAIN content[p[3]] \cap Offsets : q = Below(content, p, o)
    BY <2>2 DEF Below
  <2>4. content[p[3]] # Garbage
    BY <2>3, GarbageFacts
  <2>5. content[p[3]][o] # 0
    BY <2>1, <2>3 DEF Below
  <2>6. QED BY <2>2, <2>3, <2>4, <2>5 DEF Has
<1>4. QED BY <1>2, <1>3 DEF StepDown, Live

\* The function that Pointers is defined by meets its equation.
LEMMA PointersDef ==
  ASSUME NEW db \in Dbs, NEW ib \in Ibs, NEW content \in Contents
  PROVE  \E u : /\ u[0] = Live(Top(db, ib)) /\ u[0] \in SUBSET Places
                /\ \A k \in 1..NIADDR : /\ u[k] = StepDown(u[k - 1], content)
                                        /\ u[k - 1] \in SUBSET Places /\ u[k] \in SUBSET Places
                /\ Pointers(db, ib, content) = u[NIADDR]
<1> DEFINE X == SUBSET Places
           a == Live(Top(db, ib))
           F == [S \in X |-> StepDown(S, content)]
           Eq(u) == u = [k \in 0..NIADDR |->
                           IF k = 0 THEN Live(Top(db, ib))
                           ELSE LET S == u[k - 1] IN S \cup Live(Under(S, content))]
<1>0. NIADDR \in Nat /\ NDADDR \in Nat
  BY FileAssumption
<1>1. a \in X
  <2>1. ASSUME NEW p \in a PROVE p \in Places
    <3>1. p \in Top(db, ib) /\ p[3] # 0
      BY DEF Live
    <3>2. CASE p \in {<<0, l, db[l], 0>> : l \in DOMAIN db}
      <4>1. PICK l \in 0..(NDADDR - 1) : p = <<0, l, db[l], 0>>
        BY <3>2 DEF Dbs
      <4>2. db[l] \in Blocks
        BY <3>1, <4>1 DEF Dbs, Pointer
      <4>3. QED BY <1>0, <4>1, <4>2 DEF Places, Pointer
    <3>3. CASE p \in {<<0, NDADDR + l, ib[l], l + 1>> : l \in DOMAIN ib}
      <4>1. PICK l \in 0..(NIADDR - 1) : p = <<0, NDADDR + l, ib[l], l + 1>>
        BY <3>3 DEF Ibs
      <4>2. ib[l] \in Blocks
        BY <3>1, <4>1 DEF Ibs, Pointer
      <4>3. QED BY <1>0, <4>1, <4>2 DEF Places, Pointer
    <3>4. QED BY <3>1, <3>2, <3>3 DEF Top
  <2>2. QED BY <2>1
<1>2. F \in [X -> X]
  BY StepDownFacts
<1>3. PICK u \in [0..NIADDR -> X] : u[0] = a /\ \A k \in 1..NIADDR : u[k] = F[u[k - 1]]
  <2> HIDE DEF X, a, F
  <2>1. \E u : Iterate(u, X, F, a, NIADDR)
    BY <1>0, <1>1, <1>2, Iterates
  <2>2. QED BY <2>1 DEF Iterate
<1>4. \A k \in 1..NIADDR : u[k] = StepDown(u[k - 1], content)
  <2> TAKE k \in 1..NIADDR
  <2>1. u[k - 1] \in X
    BY <1>0, <1>3
  <2>2. QED BY <1>3, <2>1
<1>5. Eq(u)
  BY <1>0, <1>3, <1>4 DEF StepDown
<1> DEFINE w == CHOOSE v : Eq(v)
<1>6. Eq(w)
  BY <1>5
<1>7. Pointers(db, ib, content) = w[NIADDR]
  BY DEF Pointers, Top, Live, Under
<1> HIDE DEF w
<1>8. w[0] = Live(Top(db, ib)) /\ \A k \in 1..NIADDR : w[k] = StepDown(w[k - 1], content)
  <2>1. 0 \in 0..NIADDR /\ \A k \in 1..NIADDR : k \in 0..NIADDR /\ k # 0
    BY <1>0
  <2>2. \A k \in 0..NIADDR : w[k] = IF k = 0 THEN Live(Top(db, ib)) ELSE StepDown(w[k - 1], content)
    BY <1>6 DEF StepDown
  <2>3. QED BY <2>1, <2>2
<1> DEFINE T == {k \in 0..NIADDR : w[k] \in SUBSET Places}
<1>9. 0 \in T
  BY <1>0, <1>1, <1>8
<1>10. \A k \in 1..NIADDR : k - 1 \in T => k \in T
  BY <1>0, <1>8, StepDownFacts
<1>11. 0..NIADDR \subseteq T
  <2> HIDE DEF T
  <2>1. QED BY <1>0, <1>9, <1>10, InductTo
<1>12. /\ w[0] \in SUBSET Places
       /\ \A k \in 1..NIADDR : w[k - 1] \in SUBSET Places /\ w[k] \in SUBSET Places
  <2>1. 0 \in 0..NIADDR /\ \A k \in 1..NIADDR : k \in 0..NIADDR /\ k - 1 \in 0..NIADDR
    BY <1>0
  <2>2. QED BY <1>11, <2>1
<1>13. QED BY <1>7, <1>8, <1>12

\* Pointers is the least set with the pointers of the inode in it that leads to nothing but
\* itself: the levels are gone through one after the other, and there are no more of them
\* than steps.
LEMMA PointersFacts ==
  ASSUME NEW db \in Dbs, NEW ib \in Ibs, NEW content \in Contents
  PROVE  LET P == Pointers(db, ib, content) IN
         /\ P \in SUBSET Places /\ Live(Top(db, ib)) \subseteq P /\ Closed(P, content)
         /\ \A S : Live(Top(db, ib)) \subseteq S /\ Closed(S, content) => P \subseteq S
<1>0. NIADDR \in Nat
  BY FileAssumption
<1>1. PICK u : /\ u[0] = Live(Top(db, ib)) /\ u[0] \in SUBSET Places
               /\ \A k \in 1..NIADDR : /\ u[k] = StepDown(u[k - 1], content)
                                       /\ u[k - 1] \in SUBSET Places /\ u[k] \in SUBSET Places
               /\ Pointers(db, ib, content) = u[NIADDR]
  BY PointersDef
<1> DEFINE Done(k) == \A p \in u[k], o \in Offsets :
                        p[4] > NIADDR - k /\ Has(content, p, o) => Below(content, p, o) \in u[k]
           Least(k) == \A S : Live(Top(db, ib)) \subseteq S /\ Closed(S, content) => u[k] \subseteq S
           Ok(k) == u[k] \in SUBSET Places /\ Live(Top(db, ib)) \subseteq u[k] /\ Done(k) /\ Least(k)
           T == {k \in 0..NIADDR : Ok(k)}
<1>2. Ok(0)
  <2>1. Done(0)
    <3>1. \A p \in u[0] : p[4] \in 0..NIADDR
      BY <1>1 DEF Places
    <3>2. QED BY <1>0, <3>1
  <2>2. QED BY <1>1, <2>1
<1>3. ASSUME NEW k \in 1..NIADDR, Ok(k - 1) PROVE Ok(k)
  <2> DEFINE U == u[k - 1]
             V == u[k]
  <2>1. V = StepDown(U, content) /\ U \in SUBSET Places /\ V \in SUBSET Places
    BY <1>1
  <2>2. /\ U \subseteq V
        /\ \A p \in U, o \in Offsets : Has(content, p, o) => Below(content, p, o) \in V
        /\ \A q \in V \ U : \E p \in U, o \in Offsets : Has(content, p, o) /\ q = Below(content, p, o)
    <3> HIDE DEF U, V
    <3>1. QED BY <2>1, StepDownFacts
  <2>3. Done(k)
    <3> SUFFICES ASSUME NEW p \in V, NEW o \in Offsets, p[4] > NIADDR - k, Has(content, p, o)
                 PROVE  Below(content, p, o) \in V
      OBVIOUS
    <3>1. CASE p \in U
      BY <2>2, <3>1
    <3>2. CASE p \notin U
      <4>1. PICK q \in U, m \in Offsets : Has(content, q, m) /\ p = Below(content, q, m)
        BY <2>2, <3>2
      <4>2. p[4] = q[4] - 1 /\ q[4] \in 0..NIADDR
        BY <2>1, <4>1 DEF Below, Places
      <4>3. q[4] > NIADDR - (k - 1)
        BY <1>0, <4>2
      <4>4. p \in U
        BY <1>3, <4>1, <4>3
      <4>5. QED BY <3>2, <4>4
    <3>3. QED BY <3>1, <3>2
  <2>4. Least(k)
    <3> SUFFICES ASSUME NEW S, Live(Top(db, ib)) \subseteq S, Closed(S, content), NEW q \in V
                 PROVE  q \in S
      OBVIOUS
    <3>1. U \subseteq S
      BY <1>3
    <3>2. CASE q \in U
      BY <3>1, <3>2
    <3>3. CASE q \notin U
      <4>1. PICK p \in U, m \in Offsets : Has(content, p, m) /\ q = Below(content, p, m)
        BY <2>2, <3>3
      <4>2. QED BY <3>1, <4>1 DEF Closed
    <3>4. QED BY <3>2, <3>3
  <2>5. QED BY <1>3, <2>1, <2>2, <2>3, <2>4
<1>4. Ok(NIADDR)
  <2> HIDE DEF Ok
  <2>1. 0 \in T
    BY <1>0, <1>2
  <2>2. \A k \in 1..NIADDR : k - 1 \in T => k \in T
    BY <1>0, <1>3
  <2> HIDE DEF T
  <2>3. 0..NIADDR \subseteq T
    BY <1>0, <2>1, <2>2, InductTo
  <2>4. QED BY <1>0, <2>3 DEF T
<1>5. Closed(u[NIADDR], content)
  <2>1. \A p \in u[NIADDR] : p[4] \in 0..NIADDR
    BY <1>4 DEF Places
  <2>2. \A p \in u[NIADDR], o \in Offsets : Has(content, p, o) => p[4] > NIADDR - NIADDR
    BY <1>0, <2>1 DEF Has
  <2>3. QED BY <1>4, <2>2 DEF Closed
<1>6. QED BY <1>1, <1>4, <1>5

(***************************************************************************)
(* Levels and offsets.                                                     *)
(***************************************************************************)

\* The greater of two numbers, and the least of a set.
LEMMA MaxOfTwo ==
  ASSUME NEW x \in Int, NEW y \in Int
  PROVE  Max({x, y}) = IF x >= y THEN x ELSE y
<1>1. \E m \in {x, y} : \A k \in {x, y} : m >= k
  OBVIOUS
<1>2. Max({x, y}) \in {x, y} /\ \A k \in {x, y} : Max({x, y}) >= k
  BY <1>1 DEF Max
<1>3. QED BY <1>2

LEMMA MinOfSet ==
  ASSUME NEW S, S \subseteq Nat, S # {}
  PROVE  Min(S) \in S /\ \A k \in S : Min(S) <= k
<1>1. \E m \in S : \A k \in S : m <= k
  BY LeastNat
<1>2. QED BY <1>1 DEF Min

LEMMA MaxOfSet ==
  ASSUME NEW n \in Nat, NEW S, S \subseteq 0..n, S # {}
  PROVE  Max(S) \in S /\ \A k \in S : Max(S) >= k
<1>1. \E m \in S : \A k \in S : m >= k
  BY GreatestNat
<1>2. QED BY <1>1 DEF Max

\* blockcnt of ext2_getlbns().
LEMMA CountFacts ==
  /\ Count[0] = 1 /\ \A k \in 1..NIADDR : Count[k] = Count[k - 1] * NINDIR
  /\ \A k \in 0..NIADDR : Count[k] \in Nat \ {0}
<1> DEFINE X == Nat \ {0}
           F == [x \in X |-> x * NINDIR]
           Eq(f) == f = [k \in 0..NIADDR |-> IF k = 0 THEN 1 ELSE f[k - 1] * NINDIR]
<1>0. NIADDR \in Nat /\ NINDIR \in Nat \ {0}
  BY FileAssumption
<1>1. F \in [X -> X] /\ 1 \in X
  BY <1>0
<1>2. PICK u : Iterate(u, X, F, 1, NIADDR)
  <2> HIDE DEF X, F
  <2>1. QED BY <1>0, <1>1, Iterates
<1>3. \A k \in 1..NIADDR : u[k] = u[k - 1] * NINDIR
  <2> TAKE k \in 1..NIADDR
  <2>1. u[k - 1] \in X
    BY <1>0, <1>2 DEF Iterate
  <2>2. u[k] = F[u[k - 1]]
    BY <1>2 DEF Iterate
  <2>3. QED BY <2>1, <2>2
<1>4. Eq(u)
  BY <1>0, <1>2, <1>3 DEF Iterate
<1>5. Eq(Count)
  <2>1. Count = CHOOSE f : Eq(f)
    BY DEF Count
  <2>2. QED BY <1>4, <2>1
<1>6. Count[0] = 1 /\ \A k \in 1..NIADDR : Count[k] = Count[k - 1] * NINDIR
  <2>1. 0 \in 0..NIADDR /\ \A k \in 1..NIADDR : k \in 0..NIADDR /\ k # 0
    BY <1>0
  <2>2. \A k \in 0..NIADDR : Count[k] = IF k = 0 THEN 1 ELSE Count[k - 1] * NINDIR
    BY <1>5
  <2>3. QED BY <2>1, <2>2
<1> DEFINE T == {k \in 0..NIADDR : Count[k] \in Nat \ {0}}
<1>7. 0 \in T
  BY <1>0, <1>6
<1>8. \A k \in 1..NIADDR : k - 1 \in T => k \in T
  BY <1>0, <1>6
<1>9. 0..NIADDR \subseteq T
  <2> HIDE DEF T
  <2>1. QED BY <1>0, <1>7, <1>8, InductTo
<1>10. QED BY <1>6, <1>9

\* Where the blocks of each indirect pointer begin.
LEMMA BaseFacts ==
  /\ Base[1] = NDADDR /\ \A k \in 2..NIADDR : Base[k] = Base[k - 1] + Count[k - 1]
  /\ \A k \in 1..NIADDR : Base[k] \in Nat /\ Base[k] >= NDADDR
<1> DEFINE N == NIADDR - 1
           F == [k \in 1..N |-> [x \in Nat |-> x + Count[k]]]
           Eq(f) == f = [k \in 1..NIADDR |-> IF k = 1 THEN NDADDR ELSE f[k - 1] + Count[k - 1]]
<1>0. NIADDR \in Nat /\ NIADDR >= 1 /\ NDADDR \in Nat /\ N \in Nat
  BY FileAssumption
<1>1. F \in [1..N -> [Nat -> Nat]]
  <2>1. \A k \in 1..N : Count[k] \in Nat
    BY <1>0, CountFacts
  <2>2. QED BY <2>1
<1>2. PICK u : Steps(u, Nat, F, NDADDR, N)
  <2> HIDE DEF N, F
  <2>1. QED BY <1>0, <1>1, StepsExist
<1>3. \A k \in 1..N : u[k] = u[k - 1] + Count[k]
  <2> TAKE k \in 1..N
  <2>1. u[k - 1] \in Nat
    BY <1>0, <1>2 DEF Steps
  <2>2. u[k] = F[k][u[k - 1]]
    BY <1>2 DEF Steps
  <2>3. QED BY <2>1, <2>2
<1> DEFINE v == [k \in 1..NIADDR |-> u[k - 1]]
<1>4. Eq(v)
  <2>1. ASSUME NEW k \in 1..NIADDR
        PROVE  v[k] = IF k = 1 THEN NDADDR ELSE v[k - 1] + Count[k - 1]
    <3>1. CASE k = 1
      BY <1>0, <1>2, <3>1 DEF Steps
    <3>2. CASE k # 1
      <4>1. k - 1 \in 1..N /\ k - 1 \in 1..NIADDR
        BY <1>0, <3>2
      <4>2. u[k - 1] = u[k - 1 - 1] + Count[k - 1]
        BY <1>3, <4>1
      <4>3. QED BY <3>2, <4>1, <4>2
    <3>3. QED BY <3>1, <3>2
  <2>2. QED BY <2>1
<1>5. Eq(Base)
  <2>1. Base = CHOOSE f : Eq(f)
    BY DEF Base
  <2> HIDE DEF v
  <2>2. QED BY <1>4, <2>1
<1>6. Base[1] = NDADDR /\ \A k \in 2..NIADDR : Base[k] = Base[k - 1] + Count[k - 1]
  <2>1. 1 \in 1..NIADDR /\ \A k \in 2..NIADDR : k \in 1..NIADDR /\ k # 1
    BY <1>0
  <2>2. \A k \in 1..NIADDR : Base[k] = IF k = 1 THEN NDADDR ELSE Base[k - 1] + Count[k - 1]
    BY <1>5
  <2>3. QED BY <2>1, <2>2
<1> DEFINE T == {k \in 0..N : Base[k + 1] \in Nat /\ Base[k + 1] >= NDADDR}
<1>7. 0 \in T
  BY <1>0, <1>6
<1>8. ASSUME NEW k \in 1..N, k - 1 \in T PROVE k \in T
  <2>1. k + 1 \in 2..NIADDR /\ k \in 0..NIADDR /\ k - 1 + 1 = k /\ k + 1 - 1 = k
    BY <1>0
  <2>2. Base[k + 1] = Base[k] + Count[k]
    BY <1>6, <2>1
  <2>3. Base[k] \in Nat /\ Base[k] >= NDADDR
    BY <1>8, <2>1
  <2>4. Count[k] \in Nat
    BY <2>1, CountFacts
  <2>5. QED BY <1>0, <2>2, <2>3, <2>4
<1>9. 0..N \subseteq T
  <2> HIDE DEF T, N
  <2>1. QED BY <1>0, <1>7, <1>8, InductTo
<1>10. \A k \in 1..NIADDR : Base[k] \in Nat /\ Base[k] >= NDADDR
  <2> TAKE k \in 1..NIADDR
  <2>1. k - 1 \in 0..N /\ k - 1 + 1 = k
    BY <1>0
  <2>2. QED BY <1>9, <2>1
<1>11. QED BY <1>6, <1>10

\* A block of the file has its levels.
LEMMA LevelsFacts ==
  ASSUME NEW lbn \in 0..(MaxLbn - 1)
  PROVE  /\ Levels(lbn) \in 0..NIADDR /\ (Levels(lbn) = 0 <=> lbn < NDADDR)
         /\ Levels(lbn) # 0 => lbn - Base[Levels(lbn)] \in 0..(Count[Levels(lbn)] - 1)
<1>0. /\ NIADDR \in Nat /\ NIADDR >= 1 /\ NDADDR \in Nat /\ MaxLbn \in Nat /\ lbn \in Nat
      /\ lbn < MaxLbn
  BY FileAssumption
<1>1. CASE lbn < NDADDR
  BY <1>0, <1>1 DEF Levels
<1>2. CASE ~(lbn < NDADDR)
  <2> DEFINE T == {k \in 1..NIADDR : Base[k] <= lbn}
  <2>1. T \subseteq 0..NIADDR /\ 1 \in T
    BY <1>0, <1>2, BaseFacts
  <2>2. PICK k \in T : \A y \in T : k >= y
    <3> HIDE DEF T
    <3>1. QED BY <1>0, <2>1, GreatestNat
  <2>3. /\ k \in 1..NIADDR /\ Base[k] <= lbn /\ Base[k] \in Nat /\ Count[k] \in Nat \ {0}
    BY <1>0, BaseFacts, CountFacts
  <2>4. lbn < Base[k] + Count[k]
    <3>1. CASE k = NIADDR
      <4>1. MaxLbn <= Base[k] + Count[k]
        BY <3>1, CapacityAssumption
      <4>2. QED BY <1>0, <2>3, <4>1
    <3>2. CASE k # NIADDR
      <4>1. k + 1 \in 2..NIADDR /\ k + 1 \in 1..NIADDR /\ k + 1 - 1 = k
        BY <1>0, <2>3, <3>2
      <4>2. Base[k + 1] = Base[k] + Count[k]
        BY <4>1, BaseFacts
      <4>3. k + 1 \notin T
        BY <2>2, <2>3
      <4>4. ~(Base[k + 1] <= lbn) /\ Base[k + 1] \in Nat
        BY <4>1, <4>3, BaseFacts
      <4>5. QED BY <1>0, <4>2, <4>4
    <3>3. QED BY <3>1, <3>2
  <2>5. \E j \in 1..NIADDR : lbn - Base[j] \in 0..(Count[j] - 1)
    BY <1>0, <2>3, <2>4
  <2>6. Levels(lbn) = CHOOSE j \in 1..NIADDR : lbn - Base[j] \in 0..(Count[j] - 1)
    BY <1>2 DEF Levels
  <2>7. Levels(lbn) \in 1..NIADDR /\ lbn - Base[Levels(lbn)] \in 0..(Count[Levels(lbn)] - 1)
    BY <2>5, <2>6
  <2>8. QED BY <1>0, <1>2, <2>7
<1>3. QED BY <1>1, <1>2

\* Its offset on each level is one in an indirect block.
LEMMA InOffFacts ==
  ASSUME NEW lbn \in 0..(MaxLbn - 1), NEW i \in 1..Levels(lbn)
  PROVE  InOff(lbn, i) \in Offsets
<1> DEFINE k == Levels(lbn)
           a == lbn - Base[k]
           b == Count[k - i]
<1>1. k \in 1..NIADDR /\ k - i \in 0..NIADDR /\ k # 0
  BY LevelsFacts, FileAssumption
<1>2. a \in Int /\ b \in Nat \ {0} /\ NINDIR \in Nat \ {0}
  <2>1. Base[k] \in Nat /\ b \in Nat \ {0}
    BY <1>1, BaseFacts, CountFacts
  <2>2. QED BY <2>1, FileAssumption
<1>3. InOff(lbn, i) = (a \div b) % NINDIR
  BY DEF InOff
<1> HIDE DEF a, b
<1>4. (a \div b) \in Int
  BY <1>2
<1>5. (a \div b) % NINDIR \in 0..(NINDIR - 1)
  BY <1>2, <1>4
<1>6. QED BY <1>3, <1>5 DEF Offsets

\* The last block that a truncation keeps.
LEMMA LastFacts ==
  ASSUME NEW length \in 0..(MaxLbn * BSize)
  PROVE  /\ Lastblock(length) \in -1..(MaxLbn - 1)
         /\ \A l \in 0..(NIADDR - 1) :
              /\ Lastiblock(length, l) \in -1..(MaxLbn - 1)
              /\ Lastiblock(length, l) < 0 <=> Lastblock(length) < Base[l + 1]
              /\ Lastiblock(length, l) >= 0 => Lastiblock(length, l) = Lastblock(length) - Base[l + 1]
<1>0. MaxLbn \in Nat /\ BSize \in Nat \ {0} /\ NIADDR \in Nat /\ length \in Nat /\ length <= MaxLbn * BSize
  BY FileAssumption
<1> DEFINE q == (length + BSize - 1) \div BSize
<1>1. q \in Nat /\ q < MaxLbn + 1
  <2> DEFINE a == length + BSize - 1
  <2>1. a \in Nat /\ a < (MaxLbn + 1) * BSize /\ MaxLbn + 1 \in Nat
    BY <1>0
  <2> HIDE DEF a
  <2>2. a \div BSize \in Nat /\ a \div BSize < MaxLbn + 1
    BY <1>0, <2>1
  <2>3. QED BY <2>2 DEF a
<1>2. Lastblock(length) \in -1..(MaxLbn - 1)
  <2> HIDE DEF q
  <2>1. Lastblock(length) = q - 1
    BY DEF Lastblock, q
  <2>2. QED BY <1>0, <1>1, <2>1
<1>3. ASSUME NEW l \in 0..(NIADDR - 1)
      PROVE  /\ Lastiblock(length, l) \in -1..(MaxLbn - 1)
             /\ Lastiblock(length, l) < 0 <=> Lastblock(length) < Base[l + 1]
             /\ Lastiblock(length, l) >= 0 => Lastiblock(length, l) = Lastblock(length) - Base[l + 1]
  <2> DEFINE m == Lastblock(length)
             b == Base[l + 1]
  <2>1. l + 1 \in 1..NIADDR
    BY <1>0
  <2>2. b \in Nat /\ m \in -1..(MaxLbn - 1)
    BY <1>2, <2>1, BaseFacts
  <2>3. Lastiblock(length, l) = Max({-1, m - b})
    BY DEF Lastiblock
  <2> HIDE DEF m, b
  <2>4. Max({-1, m - b}) = IF -1 >= m - b THEN -1 ELSE m - b
    <3>1. m - b \in Int /\ -1 \in Int
      BY <1>0, <2>2
    <3>2. QED BY <3>1, MaxOfTwo
  <2>5. /\ Lastiblock(length, l) \in -1..(MaxLbn - 1)
        /\ Lastiblock(length, l) < 0 <=> m < b
        /\ Lastiblock(length, l) >= 0 => Lastiblock(length, l) = m - b
    BY <1>0, <2>2, <2>3, <2>4
  <2>6. QED BY <2>5 DEF m, b
<1>4. QED BY <1>2, <1>3

\* It is below the pointer at which the truncation ends.
LEMMA LastBelow ==
  ASSUME NEW length \in 0..(MaxLbn * BSize), NEW l \in 0..(NIADDR - 1), Lastiblock(length, l) >= 0,
         \A k \in (l + 1)..(NIADDR - 1) : Lastiblock(length, k) < 0
  PROVE  Lastiblock(length, l) < Count[l + 1]
<1>0. MaxLbn \in Nat /\ NIADDR \in Nat /\ l \in Nat /\ l < NIADDR
  BY FileAssumption
<1> DEFINE m == Lastblock(length)
           b == Base[l + 1]
           c == Count[l + 1]
<1>1. b \in Nat /\ c \in Nat /\ m \in -1..(MaxLbn - 1) /\ Lastiblock(length, l) = m - b
  <2>1. l + 1 \in 1..NIADDR /\ l + 1 \in 0..NIADDR
    BY <1>0
  <2>2. QED BY <2>1, BaseFacts, CountFacts, LastFacts
<1>2. m < b + c
  <2>1. CASE l = NIADDR - 1
    <3>1. MaxLbn <= b + c
      <4>1. l + 1 = NIADDR
        BY <1>0, <2>1
      <4>2. QED BY <4>1, CapacityAssumption
    <3> HIDE DEF m, b, c
    <3>2. QED BY <1>0, <1>1, <3>1
  <2>2. CASE l # NIADDR - 1
    <3>1. l + 1 \in 0..(NIADDR - 1) /\ l + 1 \in (l + 1)..(NIADDR - 1) /\ l + 2 \in 2..NIADDR
          /\ l + 2 - 1 = l + 1 /\ l + 1 + 1 = l + 2
      BY <1>0, <2>2
    <3>2. m < Base[l + 1 + 1]
      BY <3>1, LastFacts
    <3>3. Base[l + 2] = Base[l + 2 - 1] + Count[l + 2 - 1]
      BY <3>1, BaseFacts
    <3>4. Base[l + 2] = b + c
      BY <3>1, <3>3
    <3>5. QED BY <3>1, <3>2, <3>4
  <2>3. QED BY <2>1, <2>2
<1> HIDE DEF m, b, c
<1>3. m - b < c
  BY <1>0, <1>1, <1>2
<1>4. QED BY <1>1, <1>3 DEF c

(***************************************************************************)
(* Pointers that are added or taken away.                                  *)
(***************************************************************************)

DbAt(db, l) == <<0, l, db[l], 0>>
IbAt(ib, l) == <<0, NDADDR + l, ib[l], l + 1>>

\* The pointers of an inode that are not zero.
LEMMA TopFacts ==
  ASSUME NEW db \in Dbs, NEW ib \in Ibs
  PROVE  /\ \A l \in 0..(NDADDR - 1) : db[l] # 0 => DbAt(db, l) \in Live(Top(db, ib))
         /\ \A l \in 0..(NIADDR - 1) : ib[l] # 0 => IbAt(ib, l) \in Live(Top(db, ib))
         /\ \A p \in Live(Top(db, ib)) :
              \/ \E l \in 0..(NDADDR - 1) : db[l] # 0 /\ p = DbAt(db, l)
              \/ \E l \in 0..(NIADDR - 1) : ib[l] # 0 /\ p = IbAt(ib, l)
<1>1. DOMAIN db = 0..(NDADDR - 1) /\ DOMAIN ib = 0..(NIADDR - 1)
  BY DEF Dbs, Ibs
<1>2. \A l : DbAt(db, l)[3] = db[l] /\ IbAt(ib, l)[3] = ib[l]
  BY DEF DbAt, IbAt
<1>3. Top(db, ib) = {DbAt(db, l) : l \in 0..(NDADDR - 1)} \cup {IbAt(ib, l) : l \in 0..(NIADDR - 1)}
  BY <1>1 DEF Top, DbAt, IbAt
<1>4. QED BY <1>2, <1>3 DEF Live

\* A pointer is in the inode or in a block that another one leads to.
LEMMA PointersFrom ==
  ASSUME NEW db \in Dbs, NEW ib \in Ibs, NEW content \in Contents,
         NEW q \in Pointers(db, ib, content)
  PROVE  \/ q \in Live(Top(db, ib))
         \/ \E p \in Pointers(db, ib, content), o \in Offsets :
              Has(content, p, o) /\ q = Below(content, p, o)
<1> DEFINE P == Pointers(db, ib, content)
           S == {r \in P : \/ r \in Live(Top(db, ib))
                           \/ \E p \in P, o \in Offsets : Has(content, p, o) /\ r = Below(content, p, o)}
<1>1. /\ Live(Top(db, ib)) \subseteq P /\ Closed(P, content)
      /\ Live(Top(db, ib)) \subseteq S /\ Closed(S, content) => P \subseteq S
  BY PointersFacts
<1>2. Live(Top(db, ib)) \subseteq S
  BY <1>1
<1>3. Closed(S, content)
  <2> HIDE DEF P
  <2> SUFFICES ASSUME NEW p \in S, NEW o \in Offsets, Has(content, p, o)
               PROVE  Below(content, p, o) \in S
    BY DEF Closed
  <2>1. p \in P
    OBVIOUS
  <2>2. Below(content, p, o) \in P
    BY <1>1, <2>1 DEF Closed
  <2>3. QED BY <2>1, <2>2
<1>4. QED BY <1>1, <1>2, <1>3

\* The inode of which some pointers are not, or not yet, there: zero instead.
Part(f, g, n) == \A l \in 0..(n - 1) : f[l] \in {0, g[l]}
PartOf(db, ib, db2, ib2) == Part(db, db2, NDADDR) /\ Part(ib, ib2, NIADDR)

\* The pointers of an inode and of blocks that are part of others are pointers of these.
LEMMA Fewer ==
  ASSUME NEW db \in Dbs, NEW ib \in Ibs, NEW content \in Contents,
         NEW db2 \in Dbs, NEW ib2 \in Ibs, NEW content2 \in Contents,
         PartOf(db, ib, db2, ib2),
         \A p \in Pointers(db2, ib2, content2), o \in Offsets :
           Has(content, p, o) => Has(content2, p, o) /\ Below(content, p, o) = Below(content2, p, o)
  PROVE  Pointers(db, ib, content) \subseteq Pointers(db2, ib2, content2)
<1> DEFINE P == Pointers(db2, ib2, content2)
<1>1. Live(Top(db2, ib2)) \subseteq P /\ Closed(P, content2)
  BY PointersFacts
<1>2. Live(Top(db, ib)) \subseteq P
  <2> SUFFICES ASSUME NEW p \in Live(Top(db, ib)) PROVE p \in Live(Top(db2, ib2))
    BY <1>1
  <2>1. CASE \E l \in 0..(NDADDR - 1) : db[l] # 0 /\ p = DbAt(db, l)
    <3>1. PICK l \in 0..(NDADDR - 1) : db[l] # 0 /\ p = DbAt(db, l)
      BY <2>1
    <3>2. db[l] = db2[l]
      BY <3>1 DEF PartOf, Part
    <3>3. DbAt(db2, l) \in Live(Top(db2, ib2))
      BY <3>1, <3>2, TopFacts
    <3>4. QED BY <3>1, <3>2, <3>3 DEF DbAt
  <2>2. CASE \E l \in 0..(NIADDR - 1) : ib[l] # 0 /\ p = IbAt(ib, l)
    <3>1. PICK l \in 0..(NIADDR - 1) : ib[l] # 0 /\ p = IbAt(ib, l)
      BY <2>2
    <3>2. ib[l] = ib2[l]
      BY <3>1 DEF PartOf, Part
    <3>3. IbAt(ib2, l) \in Live(Top(db2, ib2))
      BY <3>1, <3>2, TopFacts
    <3>4. QED BY <3>1, <3>2, <3>3 DEF IbAt
  <2>3. QED BY <2>1, <2>2, TopFacts
<1>3. Closed(P, content)
  BY <1>1 DEF Closed
<1>4. QED BY <1>2, <1>3, PointersFacts

\* One pointer n is added, to a block with nothing in it.
Adds(db, ib, content, db2, ib2, content2, n) ==
  /\ Live(Top(db, ib)) \subseteq Live(Top(db2, ib2))
  /\ Live(Top(db2, ib2)) \subseteq Live(Top(db, ib)) \cup {n}
  /\ \A p \in Pointers(db, ib, content), o \in Offsets :
       Has(content2, p, o) => \/ Has(content, p, o) /\ Below(content2, p, o) = Below(content, p, o)
                              \/ Below(content2, p, o) = n
  /\ \A p \in Pointers(db, ib, content), o \in Offsets :
       Has(content, p, o) => Has(content2, p, o) /\ Below(content2, p, o) = Below(content, p, o)
  /\ \A o \in Offsets : ~Has(content2, n, o)
  /\ \/ n \in Live(Top(db2, ib2))
     \/ \E p \in Pointers(db, ib, content), o \in Offsets :
          Has(content2, p, o) /\ Below(content2, p, o) = n
LEMMA Grown ==
  ASSUME NEW db \in Dbs, NEW ib \in Ibs, NEW content \in Contents,
         NEW db2 \in Dbs, NEW ib2 \in Ibs, NEW content2 \in Contents, NEW n,
         Adds(db, ib, content, db2, ib2, content2, n)
  PROVE  Pointers(db2, ib2, content2) = Pointers(db, ib, content) \cup {n}
<1> DEFINE P == Pointers(db, ib, content)
           Q == Pointers(db2, ib2, content2)
           S == P \cup {n}
           R == P \cap Q
<1>1. /\ Live(Top(db, ib)) \subseteq P /\ Closed(P, content)
      /\ Live(Top(db, ib)) \subseteq R /\ Closed(R, content) => P \subseteq R
  BY PointersFacts
<1>2. /\ Live(Top(db2, ib2)) \subseteq Q /\ Closed(Q, content2)
      /\ Live(Top(db2, ib2)) \subseteq S /\ Closed(S, content2) => Q \subseteq S
  BY PointersFacts
<1>3. Q \subseteq S
  <2> HIDE DEF P, Q
  <2>1. Closed(S, content2)
    BY <1>1 DEF Closed, P, Adds
  <2>2. QED BY <1>1, <1>2, <2>1 DEF Adds
<1>4. P \subseteq R
  <2>1. Closed(R, content)
    BY <1>1, <1>2 DEF Closed, Adds
  <2>2. QED BY <1>1, <1>2, <2>1 DEF Adds
<1>5. n \in Q
  BY <1>2, <1>4 DEF Closed, Adds
<1>6. QED BY <1>3, <1>4, <1>5

\* No block has two places.
Inj(P) == \A p, q \in P : p[3] = q[3] => p = q
LEMMA InjFacts ==
  ASSUME NEW P \in SUBSET Places, Inj(P)
  PROVE  IsFiniteSet(P) /\ Cardinality(P) = Cardinality(Reached(P)) /\ Reached(P) \subseteq Blocks
<1> DEFINE f == [p \in P |-> p[3]]
<1>1. Reached(P) \subseteq Blocks
  BY DEF Reached, Places
<1>2. f \in [P -> Reached(P)]
  BY DEF Reached
<1>3. f \in Injection(P, Reached(P))
  BY <1>2, Fun_IsInj DEF Inj
<1>4. f \in Surjection(P, Reached(P))
  BY <1>2, Fun_IsSurj DEF Reached
<1>5. IsFiniteSet(Reached(P))
  BY <1>1, FileAssumption, FS_Subset
<1>6. f \in Bijection(P, Reached(P))
  BY <1>3, <1>4 DEF Bijection
<1>7. IsFiniteSet(P)
  BY <1>3, <1>5, FS_Injection
<1>8. Cardinality(P) = Cardinality(Reached(P))
  BY <1>6, <1>7, FS_Bijection DEF ExistsBijection
<1>9. QED BY <1>1, <1>7, <1>8

(***************************************************************************)
(* ext2_indirtrunc.                                                        *)
(***************************************************************************)

Cuts == SUBSET (Blocks \X (-1..MaxLbn))

\* The offset that is kept last, and the cuts below one block, those of its blocks being f;
\* none if it cannot be read.
LastOff(l, n) == IF n > 0 THEN n \div Count[l] ELSE n
CutRead(l, f, c, n) ==
  LET last == LastOff(l, n)
      more == {o \in Offsets : l > 0 /\ o >= last /\ ind[c][o] # 0} IN
  {<<c, last>>} \cup UNION {f[ind[c][o]][IF o = last THEN n % Count[l] ELSE -1] : o \in more}
CutBelow(l, f, c, n, bad) == IF c \in bad THEN {} ELSE CutRead(l, f, c, n)

LEMMA LastOffType ==
  ASSUME NEW l \in 0..(NIADDR - 1), NEW n \in -1..MaxLbn
  PROVE  /\ LastOff(l, n) \in -1..MaxLbn /\ (LastOff(l, n) = -1 <=> n = -1)
         /\ n >= 0 => n % Count[l] \in 0..MaxLbn /\ n % Count[l] < Count[l]
<1> DEFINE c == Count[l]
<1>1. c \in Nat \ {0} /\ MaxLbn \in Nat
  BY CountFacts, FileAssumption
<1>2. LastOff(l, n) = IF n > 0 THEN n \div c ELSE n
  BY DEF LastOff
<1> HIDE DEF c
<1>3. n > 0 => n \div c \in 0..n /\ n % c \in 0..n /\ n % c < c
  BY <1>1
<1>4. n = 0 => n % c = 0
  BY <1>1
<1>5. /\ LastOff(l, n) \in -1..MaxLbn /\ (LastOff(l, n) = -1 <=> n = -1)
      /\ n >= 0 => n % c \in 0..MaxLbn /\ n % c < c
  BY <1>1, <1>2, <1>3, <1>4
<1>6. QED BY <1>5 DEF c

LEMMA CutBelowType ==
  ASSUME ind \in [Blocks -> Indirs], NEW l \in 0..(NIADDR - 1),
         NEW f \in [Blocks -> [-1..MaxLbn -> Cuts]], NEW c \in Blocks, NEW n \in -1..MaxLbn,
         NEW bad
  PROVE  CutBelow(l, f, c, n, bad) \in Cuts
<1> DEFINE last == LastOff(l, n)
           next(o) == IF o = last THEN n % Count[l] ELSE -1
<1>1. last \in -1..MaxLbn
  BY LastOffType
<1>2. ASSUME NEW o \in Offsets, ind[c][o] # 0 PROVE f[ind[c][o]][next(o)] \in Cuts
  <2>1. ind[c][o] \in Blocks
    BY <1>2 DEF Indirs, Pointer
  <2>2. o = last => n >= 0
    <3>1. o # -1
      BY FileAssumption DEF Offsets
    <3>2. QED BY <3>1, LastOffType
  <2>3. next(o) \in -1..MaxLbn
    <3>1. -1 \in -1..MaxLbn
      BY FileAssumption
    <3>2. n >= 0 => n % Count[l] \in -1..MaxLbn
      BY LastOffType
    <3>3. QED BY <2>2, <3>1, <3>2
  <2> HIDE DEF next
  <2>4. QED BY <2>1, <2>3
<1> DEFINE M == {o \in Offsets : l > 0 /\ o >= last /\ ind[c][o] # 0}
<1>3. CutRead(l, f, c, n) = {<<c, last>>} \cup UNION {f[ind[c][o]][next(o)] : o \in M}
  BY DEF CutRead
<1>4. \A o \in M : f[ind[c][o]][next(o)] \in Cuts
  BY <1>2
<1> HIDE DEF last, next, M
<1>5. UNION {f[ind[c][o]][next(o)] : o \in M} \in Cuts
  BY <1>4 DEF Cuts
<1>6. CutRead(l, f, c, n) \in Cuts
  BY <1>1, <1>3, <1>5 DEF Cuts
<1>7. QED BY <1>6 DEF CutBelow, Cuts

\* The function that Indirtrunc is defined by meets its equation.
CutFunction(w, bad) ==
  \A l \in 0..(NIADDR - 1), c \in Blocks, n \in -1..MaxLbn :
    /\ w[l][c][n] \in Cuts
    /\ w[l][c][n] = CutBelow(l, w[l - 1], c, n, bad)
LEMMA CutDef ==
  ASSUME ind \in [Blocks -> Indirs], NEW bad
  PROVE  \E w : /\ CutFunction(w, bad)
                /\ \A level, b, lastbn : Indirtrunc(level, b, lastbn, bad) = w[level][b][lastbn]
<1> DEFINE N == NIADDR - 1
           X == [Blocks -> [-1..MaxLbn -> Cuts]]
           Level(l, f) == [c \in Blocks |-> [n \in -1..MaxLbn |-> CutBelow(l, f, c, n, bad)]]
           f0 == [c \in Blocks |-> [n \in -1..MaxLbn |-> {}]]
           F == [k \in 1..N |-> [f \in X |-> Level(k, f)]]
           Eq(v) == v = [l \in 0..(NIADDR - 1) |-> Level(l, v[l - 1])]
<1>0. NIADDR \in Nat /\ N \in Nat /\ MaxLbn \in Nat
  BY FileAssumption
<1>1. ASSUME NEW l \in 0..N, NEW f \in X PROVE Level(l, f) \in X
  <2>1. \A c \in Blocks, n \in -1..MaxLbn : CutBelow(l, f, c, n, bad) \in Cuts
    BY <1>1, CutBelowType
  <2>2. QED BY <2>1
<1>2. \A f, g : Level(0, f) = Level(0, g)
  BY DEF CutBelow, CutRead
<1>3. f0 \in X
  BY DEF Cuts
<1>4. Level(0, f0) \in X
  <2> HIDE DEF Level, X, f0
  <2>1. QED BY <1>0, <1>1, <1>3
<1>5. F \in [1..N -> [X -> X]]
  <2>1. \A k \in 1..N : k \in 0..N
    BY <1>0
  <2> HIDE DEF Level, X
  <2>2. QED BY <1>1, <2>1
<1>6. PICK u : Steps(u, X, F, Level(0, f0), N)
  <2> HIDE DEF X, F, Level, N
  <2>1. QED BY <1>0, <1>4, <1>5, StepsExist
<1>7. \A l \in 1..N : u[l] = Level(l, u[l - 1])
  <2> HIDE DEF X, Level
  <2> TAKE l \in 1..N
  <2>1. u[l - 1] \in X
    BY <1>0, <1>6 DEF Steps
  <2>2. u[l] = F[l][u[l - 1]]
    BY <1>6 DEF Steps
  <2>3. QED BY <2>1, <2>2
<1>8. Eq(u)
  <2>1. u[0] = Level(0, u[0 - 1])
    <3>1. u[0] = Level(0, f0)
      BY <1>6 DEF Steps
    <3> HIDE DEF Level, f0
    <3>2. QED BY <1>2, <3>1
  <2>2. \A l \in 0..N : u[l] = Level(l, u[l - 1])
    <3> HIDE DEF Level
    <3>1. \A l \in 0..N : l = 0 \/ l \in 1..N
      BY <1>0
    <3>2. QED BY <1>7, <2>1, <3>1
  <2> HIDE DEF Level, F, X
  <2>3. u = [l \in 0..N |-> u[l]]
    BY <1>6 DEF Steps
  <2>4. QED BY <2>2, <2>3
<1> DEFINE w == CHOOSE v : Eq(v)
<1>9. Eq(w)
  BY <1>8
<1>10. ASSUME NEW level, NEW b, NEW lastbn
       PROVE  Indirtrunc(level, b, lastbn, bad) = w[level][b][lastbn]
  BY DEF Indirtrunc, CutBelow, CutRead, LastOff
<1> HIDE DEF w
<1>11. \A l \in 0..N : w[l] = Level(l, w[l - 1])
  <2> HIDE DEF Level
  <2>1. QED BY <1>9
<1> DEFINE T == {l \in 0..N : w[l] \in X}
<1>12. 0 \in T
  <2>1. w[0] = Level(0, f0)
    <3> HIDE DEF Level
    <3>1. QED BY <1>0, <1>2, <1>11
  <2> HIDE DEF Level, X, f0
  <2>2. QED BY <1>0, <1>4, <2>1
<1>13. \A l \in 1..N : l - 1 \in T => l \in T
  <2> HIDE DEF Level, X
  <2>1. QED BY <1>0, <1>1, <1>11
<1>14. 0..N \subseteq T
  <2> HIDE DEF T, N
  <2>1. QED BY <1>0, <1>12, <1>13, InductTo
<1>15. ASSUME NEW l \in 0..N, NEW c \in Blocks, NEW n \in -1..MaxLbn
       PROVE  w[l][c][n] \in Cuts /\ w[l][c][n] = CutBelow(l, w[l - 1], c, n, bad)
  <2>1. w[l] \in X
    BY <1>14
  <2>2. w[l] = Level(l, w[l - 1])
    BY <1>11
  <2>3. QED BY <2>1, <2>2
<1>16. CutFunction(w, bad)
  BY <1>15 DEF CutFunction
<1>17. QED BY <1>10, <1>16

\* The cuts K of the blocks from the one that p leads to on, of which the first n + 1 are
\* kept, when those of bad cannot be read: they are in blocks of the file; what is cut at -1 is
\* freed, and a block that is freed whole is cut so if all can be read; and a block of which a
\* part is kept is cut once.
CutOk(P, p, n, K, bad) ==
  /\ \A u \in K : /\ u = <<u[1], u[2]>> /\ u[2] \in -1..(NINDIR - 1)
                  /\ \E q \in P : q[3] = u[1] /\ q[4] \in 1..p[4]
  /\ bad = {} => \E u \in K : u[1] = p[3] /\ (u[2] = -1 <=> n = -1)
  /\ n = -1 => \A u \in K : u[2] = -1
  /\ bad = {} =>
       \A u \in K, q \in P, o \in Offsets :
         u[1] = q[3] /\ q[4] > 1 /\ o > u[2] /\ ind[u[1]][o] # 0 => <<ind[u[1]][o], -1>> \in K
  /\ \A u \in K : u[2] = -1 => \/ u[1] = p[3] /\ n = -1
                               \/ \E v \in K, o \in Offsets : o > v[2] /\ ind[v[1]][o] = u[1]
  /\ \A u, v \in K : u[1] = v[1] /\ u[2] >= 0 /\ v[2] >= 0 => u = v

LEMMA CutStep ==
  ASSUME ind \in [Blocks -> Indirs], NEW P \in SUBSET Places, Closed(P, ind), Inj(P),
         NEW w, NEW bad, CutFunction(w, bad), NEW l \in 0..(NIADDR - 1),
         l > 0 => \A p \in P, n \in -1..MaxLbn :
                    p[4] = l /\ n < Count[l] => CutOk(P, p, n, w[l - 1][p[3]][n], bad),
         NEW p \in P, NEW n \in -1..MaxLbn, p[4] = l + 1, n < Count[l + 1], p[3] \notin bad
  PROVE  CutOk(P, p, n, w[l][p[3]][n], bad)
<1> DEFINE c    == p[3]
           last == LastOff(l, n)
           M    == {o \in Offsets : l > 0 /\ o >= last /\ ind[c][o] # 0}
           next(o) == IF o = last THEN n % Count[l] ELSE -1
           sub(o)  == w[l - 1][ind[c][o]][next(o)]
           r(o)    == Below(ind, p, o)
           K    == w[l][c][n]
           h    == <<c, last>>
<1>0. /\ c \in Blocks /\ NINDIR \in Nat /\ MaxLbn \in Nat /\ l \in Nat /\ l <= NIADDR - 1
      /\ NIADDR \in Nat
      /\ Count[l] \in Nat \ {0} /\ Count[l + 1] = Count[l] * NINDIR
  <2>1. l \in 0..NIADDR /\ l + 1 \in 1..NIADDR /\ l + 1 - 1 = l
    BY FileAssumption
  <2>2. QED BY <2>1, CountFacts, FileAssumption DEF Places
<1>1. K = {h} \cup UNION {sub(o) : o \in M}
  <2>1. K = CutBelow(l, w[l - 1], c, n, bad)
    BY <1>0 DEF CutFunction
  <2>2. QED BY <2>1 DEF CutBelow, CutRead
<1>2. last \in -1..(NINDIR - 1) /\ (last = -1 <=> n = -1) /\ last \in Int
  <2>1. last \in -1..MaxLbn /\ (last = -1 <=> n = -1)
    BY LastOffType
  <2> DEFINE f == Count[l]
  <2>2. n > 0 => n \div f < NINDIR
    <3>1. n < f * NINDIR /\ f \in Nat \ {0}
      BY <1>0
    <3> HIDE DEF f
    <3>2. QED BY <1>0, <3>1
  <2>3. n <= 0 => last < NINDIR
    <3>1. NINDIR > 0
      BY FileAssumption
    <3>2. QED BY <1>0, <3>1 DEF LastOff
  <2>4. n > 0 => last < NINDIR
    BY <2>2 DEF LastOff
  <2> HIDE DEF last
  <2>5. QED BY <1>0, <2>1, <2>3, <2>4
<1>3. ASSUME NEW o \in M
      PROVE  /\ r(o) \in P /\ r(o)[3] = ind[c][o] /\ r(o)[4] = l /\ l > 0
             /\ next(o) \in -1..MaxLbn /\ next(o) < Count[l] /\ (next(o) = -1 <=> o # last)
             /\ o \in Int /\ o >= last /\ ind[c][o] # 0 /\ ind[c][o] \in Blocks
             /\ CutOk(P, r(o), next(o), sub(o), bad)
  <2>1. /\ o \in Offsets /\ l > 0 /\ o >= last /\ ind[c][o] # 0 /\ o \in Int /\ ind[c][o] \in Blocks
        /\ o # -1 /\ o >= 0
    <3>1. o \in Offsets /\ l > 0 /\ o >= last /\ ind[c][o] # 0
      OBVIOUS
    <3>2. o \in Int /\ o # -1 /\ o >= 0
      BY <1>0, <3>1 DEF Offsets
    <3>3. ind[c][o] \in Pointer
      BY <1>0, <3>1 DEF Indirs
    <3>4. QED BY <3>1, <3>2, <3>3 DEF Pointer
  <2>2. ind[c] # Garbage
    BY <1>0, GarbageFacts
  <2>3. Has(ind, p, o)
    BY <1>0, <2>1, <2>2 DEF Has
  <2>4. r(o) \in P
    BY <2>1, <2>3 DEF Closed
  <2>5. r(o)[3] = ind[c][o] /\ r(o)[4] = l
    BY <1>0 DEF Below
  <2>6. o = last => n >= 0
    BY <1>2, <2>1
  <2>7. next(o) \in -1..MaxLbn /\ next(o) < Count[l] /\ (next(o) = -1 <=> o # last)
    <3>1. n >= 0 => n % Count[l] \in 0..MaxLbn /\ n % Count[l] < Count[l]
      BY LastOffType
    <3> DEFINE f == Count[l]
               m == n % Count[l]
    <3>2. n >= 0 => m \in 0..MaxLbn /\ m < f
      BY <3>1
    <3> HIDE DEF f, m, last
    <3>3. QED BY <1>0, <2>6, <3>2 DEF f, m
  <2> HIDE DEF next, r
  <2>8. CutOk(P, r(o), next(o), sub(o), bad)
    BY <2>1, <2>4, <2>5, <2>7
  <2>9. QED BY <2>1, <2>4, <2>5, <2>7, <2>8
<1> HIDE DEF K, sub, next, r, last, M
<1>4. h \in K /\ \A o \in M : sub(o) \subseteq K
  BY <1>1
<1>5. ASSUME NEW u \in K, u # h PROVE \E o \in M : u \in sub(o)
  BY <1>1, <1>5
<1>6. h[1] = c /\ h[2] = last /\ p[3] = c
  OBVIOUS
<1> HIDE DEF h, c
<1>7. ASSUME NEW u \in K
      PROVE  /\ u = <<u[1], u[2]>> /\ u[2] \in -1..(NINDIR - 1)
             /\ \E q \in P : q[3] = u[1] /\ q[4] \in 1..p[4]
  <2>1. CASE u = h
    <3>1. p[4] \in 1..p[4] /\ u = <<u[1], u[2]>>
      BY <1>0, <1>6, <2>1 DEF h
    <3>2. QED BY <1>2, <1>6, <2>1, <3>1
  <2>2. CASE u # h
    <3>1. PICK o \in M : u \in sub(o)
      BY <1>5, <2>2
    <3>2. CutOk(P, r(o), next(o), sub(o), bad) /\ r(o)[4] = l
      BY <1>3
    <3>3. PICK q \in P : q[3] = u[1] /\ q[4] \in 1..r(o)[4]
      BY <3>1, <3>2 DEF CutOk
    <3>4. q[4] \in 1..p[4]
      BY <1>0, <3>2, <3>3
    <3>5. u = <<u[1], u[2]>> /\ u[2] \in -1..(NINDIR - 1)
      BY <3>1, <3>2 DEF CutOk
    <3>6. QED BY <3>3, <3>4, <3>5
  <2>3. QED BY <2>1, <2>2
<1>8. \E u \in K : u[1] = p[3] /\ (u[2] = -1 <=> n = -1)
  BY <1>2, <1>4, <1>6
<1>9. ASSUME n = -1, NEW u \in K PROVE u[2] = -1
  <2>1. CASE u = h
    BY <1>2, <1>6, <1>9, <2>1
  <2>2. CASE u # h
    <3>1. PICK o \in M : u \in sub(o)
      BY <1>5, <2>2
    <3>2. CutOk(P, r(o), next(o), sub(o), bad) /\ (next(o) = -1 <=> o # last) /\ o \in Offsets
      BY <1>3 DEF M
    <3>3. o # last
      BY <1>2, <1>9, <3>2, FileAssumption DEF Offsets
    <3>4. QED BY <3>1, <3>2, <3>3 DEF CutOk
  <2>3. QED BY <2>1, <2>2
<1>10. ASSUME bad = {}, NEW u \in K, NEW q \in P, NEW o \in Offsets,
              u[1] = q[3], q[4] > 1, o > u[2], ind[u[1]][o] # 0
       PROVE  <<ind[u[1]][o], -1>> \in K
  <2>1. CASE u = h
    <3>1. q = p
      BY <1>6, <1>10, <2>1 DEF Inj
    <3>2. o \in M /\ o # last
      <4>1. l > 0
        BY <1>0, <1>10, <3>1
      <4>2. o \in Int
        BY FileAssumption DEF Offsets
      <4>3. o >= last /\ o # last
        BY <1>2, <1>6, <1>10, <2>1, <4>2
      <4>4. QED BY <1>6, <1>10, <2>1, <4>1, <4>3 DEF M
    <3>3. next(o) = -1 /\ CutOk(P, r(o), next(o), sub(o), bad) /\ r(o)[3] = ind[c][o]
      BY <1>3, <3>2
    <3>4. PICK v \in sub(o) : v[1] = r(o)[3] /\ v[2] = -1
      BY <1>10, <3>3 DEF CutOk
    <3>5. v = <<v[1], v[2]>>
      BY <3>3 DEF CutOk
    <3>6. QED BY <1>4, <1>6, <2>1, <3>2, <3>3, <3>4, <3>5
  <2>2. CASE u # h
    <3>1. PICK m \in M : u \in sub(m)
      BY <1>5, <2>2
    <3>2. CutOk(P, r(m), next(m), sub(m), bad)
      BY <1>3
    <3>3. <<ind[u[1]][o], -1>> \in sub(m)
      BY <1>10, <3>1, <3>2 DEF CutOk
    <3>4. QED BY <1>4, <3>3
  <2>3. QED BY <2>1, <2>2
<1>11. ASSUME NEW u \in K, u[2] = -1
       PROVE  \/ u[1] = p[3] /\ n = -1
              \/ \E v \in K, o \in Offsets : o > v[2] /\ ind[v[1]][o] = u[1]
  <2>1. CASE u = h
    BY <1>2, <1>6, <1>11, <2>1
  <2>2. CASE u # h
    <3>1. PICK m \in M : u \in sub(m)
      BY <1>5, <2>2
    <3>2. /\ CutOk(P, r(m), next(m), sub(m), bad) /\ r(m)[3] = ind[c][m] /\ (next(m) = -1 <=> m # last)
          /\ m >= last /\ m \in Int /\ m \in Offsets
      BY <1>3 DEF M
    <3>3. \/ u[1] = r(m)[3] /\ next(m) = -1
          \/ \E v \in sub(m), o \in Offsets : o > v[2] /\ ind[v[1]][o] = u[1]
      BY <1>11, <3>1, <3>2 DEF CutOk
    <3>4. CASE u[1] = r(m)[3] /\ next(m) = -1
      <4>1. m > h[2] /\ ind[h[1]][m] = u[1]
        BY <1>2, <1>6, <3>2, <3>4
      <4>2. QED BY <1>4, <3>2, <4>1
    <3>5. CASE \E v \in sub(m), o \in Offsets : o > v[2] /\ ind[v[1]][o] = u[1]
      BY <1>4, <3>5
    <3>6. QED BY <3>3, <3>4, <3>5
  <2>3. QED BY <2>1, <2>2
<1>12. ASSUME NEW u \in K, u # h, u[2] >= 0
       PROVE  /\ u[1] # c
              /\ last \in M /\ u \in sub(last)
  <2>1. PICK o \in M : u \in sub(o)
    BY <1>5, <1>12
  <2>2. /\ CutOk(P, r(o), next(o), sub(o), bad) /\ r(o)[4] = l /\ (next(o) = -1 <=> o # last)
    BY <1>3
  <2>3. o = last
    <3>1. u[2] # -1
      BY <1>12
    <3>2. QED BY <2>1, <2>2, <3>1 DEF CutOk
  <2>4. PICK q \in P : q[3] = u[1] /\ q[4] \in 1..r(o)[4]
    BY <2>1, <2>2 DEF CutOk
  <2>5. q # p
    BY <1>0, <2>2, <2>4
  <2>6. u[1] # c
    BY <1>6, <2>4, <2>5 DEF Inj
  <2>7. QED BY <2>1, <2>3, <2>6
<1>13. ASSUME NEW u \in K, NEW v \in K, u[1] = v[1], u[2] >= 0, v[2] >= 0 PROVE u = v
  <2>1. CASE u = h \/ v = h
    BY <1>6, <1>12, <1>13, <2>1
  <2>2. CASE u # h /\ v # h
    <3>1. last \in M /\ u \in sub(last) /\ v \in sub(last)
      BY <1>12, <1>13, <2>2
    <3>2. CutOk(P, r(last), next(last), sub(last), bad)
      BY <1>3, <3>1
    <3>3. QED BY <1>13, <3>1, <3>2 DEF CutOk
  <2>3. QED BY <2>1, <2>2
<1>14. CutOk(P, p, n, K, bad)
  BY <1>7, <1>8, <1>9, <1>10, <1>11, <1>13 DEF CutOk
<1>15. QED BY <1>14 DEF K, c

\* And one that cannot be read has none.
LEMMA CutOneStep ==
  ASSUME ind \in [Blocks -> Indirs], NEW P \in SUBSET Places, Closed(P, ind), Inj(P),
         NEW w, NEW bad, CutFunction(w, bad), NEW l \in 0..(NIADDR - 1),
         l > 0 => \A p \in P, n \in -1..MaxLbn :
                    p[4] = l /\ n < Count[l] => CutOk(P, p, n, w[l - 1][p[3]][n], bad),
         NEW p \in P, NEW n \in -1..MaxLbn, p[4] = l + 1, n < Count[l + 1]
  PROVE  CutOk(P, p, n, w[l][p[3]][n], bad)
<1>1. CASE p[3] \in bad
  <2>1. p[3] \in Blocks
    BY DEF Places
  <2>2. w[l][p[3]][n] = {}
    BY <1>1, <2>1 DEF CutFunction, CutBelow
  <2>3. CutOk(P, p, n, {}, bad)
    BY <1>1 DEF CutOk
  <2>4. QED BY <2>2, <2>3
<1>2. CASE p[3] \notin bad
  BY <1>2, CutStep
<1>3. QED BY <1>1, <1>2

LEMMA CutFacts ==
  ASSUME ind \in [Blocks -> Indirs], NEW P \in SUBSET Places, Closed(P, ind), Inj(P),
         NEW l \in 0..(NIADDR - 1), NEW p \in P, NEW n \in -1..MaxLbn, p[4] = l + 1, n < Count[l + 1],
         NEW bad
  PROVE  CutOk(P, p, n, Indirtrunc(l, p[3], n, bad), bad)
<1> DEFINE N == NIADDR - 1
<1>0. NIADDR \in Nat /\ N \in Nat
  BY FileAssumption
<1>1. PICK w : /\ CutFunction(w, bad)
               /\ \A level, b, lastbn : Indirtrunc(level, b, lastbn, bad) = w[level][b][lastbn]
  BY CutDef
<1> DEFINE Ok(m) == \A q \in P, k \in -1..MaxLbn :
                      q[4] = m + 1 /\ k < Count[m + 1] => CutOk(P, q, k, w[m][q[3]][k], bad)
           T == {m \in 0..N : Ok(m)}
<1>2. 0 \in T
  <2>1. 0 \in 0..(NIADDR - 1)
    BY <1>0
  <2>2. Ok(0)
    <3> SUFFICES ASSUME NEW q \in P, NEW k \in -1..MaxLbn, q[4] = 0 + 1, k < Count[0 + 1]
                 PROVE  CutOk(P, q, k, w[0][q[3]][k], bad)
      OBVIOUS
    <3>1. ~(0 > 0)
      OBVIOUS
    <3>2. QED BY <1>1, <2>1, <3>1, CutOneStep
  <2>3. QED BY <2>1, <2>2
<1>3. ASSUME NEW m \in 1..N, m - 1 \in T PROVE m \in T
  <2>1. m \in 0..(NIADDR - 1) /\ m - 1 + 1 = m
    BY <1>0
  <2>2. \A q \in P, k \in -1..MaxLbn : q[4] = m /\ k < Count[m] => CutOk(P, q, k, w[m - 1][q[3]][k], bad)
    BY <1>3, <2>1
  <2>3. ASSUME NEW q \in P, NEW k \in -1..MaxLbn, q[4] = m + 1, k < Count[m + 1]
        PROVE  CutOk(P, q, k, w[m][q[3]][k], bad)
    BY <1>1, <2>1, <2>2, <2>3, CutOneStep
  <2>4. QED BY <2>1, <2>3
<1>4. 0..N \subseteq T
  <2> HIDE DEF T, N
  <2>1. QED BY <1>0, <1>2, <1>3, InductTo
<1>5. Ok(l)
  BY <1>4
<1>6. CutOk(P, p, n, w[l][p[3]][n], bad)
  BY <1>5
<1>7. QED BY <1>1, <1>6

\* What of it is so whatever cannot be read.
CutSome(P, p, n, K) ==
  /\ \A u \in K : /\ u = <<u[1], u[2]>> /\ u[2] \in -1..(NINDIR - 1)
                  /\ \E q \in P : q[3] = u[1] /\ q[4] \in 1..p[4]
  /\ \A u \in K : u[2] = -1 => \/ u[1] = p[3] /\ n = -1
                               \/ \E v \in K, o \in Offsets : o > v[2] /\ ind[v[1]][o] = u[1]
  /\ \A u, v \in K : u[1] = v[1] /\ u[2] >= 0 /\ v[2] >= 0 => u = v

LEMMA CutSomeOk ==
  ASSUME NEW P, NEW p, NEW n, NEW K, NEW bad, CutOk(P, p, n, K, bad)
  PROVE  CutSome(P, p, n, K)
BY DEF CutOk, CutSome

\* The blocks that TruncIndir frees, and what it leaves of the indirect blocks.
FreedWith(K, bn, n) == FreedBy(K) \cup (IF n < 0 THEN {bn} ELSE {})
Trim(K, F, content, nothing) ==
  [b \in Blocks |-> IF b \in F THEN nothing
                    ELSE IF \E u \in Kept(K) : u[1] = b
                         THEN CutBlock(CHOOSE u \in Kept(K) : u[1] = b, ind[b])
                    ELSE content[b]]

\* Which blocks, F, are freed, and what, T, is left of one that is not.
TrimOk(P, p, n, K, F, content, T) ==
  /\ F \subseteq Reached(P)
  /\ \A b \in F : \/ b = p[3] /\ n = -1
                  \/ \E u \in K, o \in Offsets : o > u[2] /\ ind[u[1]][o] = b
  /\ \A u \in K, o \in Offsets : o > u[2] /\ ind[u[1]][o] # 0 => ind[u[1]][o] \in F
  /\ \A b \in Blocks \ F : T[b] \in {content[b]} \cup Indirs
  /\ \A b \in Blocks \ F :
       \/ T[b] = content[b] /\ \A u \in K : u[1] # b
       \/ \E u \in K : /\ u[1] = b /\ u[2] >= 0 /\ \A v \in K : v[1] = b => v = u
                       /\ \A o \in Offsets : T[b][o] = IF o > u[2] THEN 0 ELSE ind[b][o]
LEMMA TrimFacts ==
  ASSUME ind \in [Blocks -> Indirs], NEW P \in SUBSET Places, Closed(P, ind), Inj(P),
         NEW p \in P, p[4] > 0, p[1] = 0, NEW n \in -1..MaxLbn, NEW K, CutSome(P, p, n, K),
         NEW content \in Contents, NEW nothing
  PROVE  TrimOk(P, p, n, K, FreedWith(K, p[3], n), content,
                Trim(K, FreedWith(K, p[3], n), content, nothing))
<1> DEFINE F == FreedWith(K, p[3], n)
           T == Trim(K, F, content, nothing)
<1>0. ASSUME NEW u \in K PROVE /\ u[1] \in Blocks /\ u[2] \in Int /\ (u[2] = -1 \/ u[2] >= 0)
                               /\ \E q \in P : q[3] = u[1] /\ q[4] > 0
  <2>1. u[2] \in -1..(NINDIR - 1) /\ \E q \in P : q[3] = u[1] /\ q[4] \in 1..p[4]
    BY DEF CutSome
  <2>2. PICK q \in P : q[3] = u[1] /\ q[4] \in 1..p[4]
    BY <2>1
  <2>3. q[3] \in Blocks /\ q[4] > 0
    BY <2>2 DEF Places
  <2>4. QED BY <2>1, <2>2, <2>3, FileAssumption
<1>1. \A b : b \in FreedBy(K) <=> b # 0 /\ \E u \in K, o \in Offsets : o > u[2] /\ ind[u[1]][o] = b
  BY DEF FreedBy
<1>2. \A b : b \in F <=> \/ b \in FreedBy(K)
                         \/ n < 0 /\ b = p[3]
  BY DEF FreedWith
<1>3. p[3] \in Blocks /\ n \in Int /\ (n < 0 <=> n = -1)
  BY FileAssumption DEF Places
<1> HIDE DEF F
<1>4. ASSUME NEW b \in F PROVE b \in Reached(P)
  <2>1. CASE b = p[3]
    BY <2>1 DEF Reached
  <2>2. CASE b # p[3]
    <3>1. PICK u \in K, o \in Offsets : o > u[2] /\ ind[u[1]][o] = b /\ b # 0
      BY <1>1, <1>2, <2>2
    <3>2. PICK q \in P : q[3] = u[1] /\ q[4] > 0
      BY <1>0
    <3>3. Has(ind, q, o)
      BY <1>0, <3>1, <3>2, GarbageFacts DEF Has
    <3>4. Below(ind, q, o) \in P
      BY <3>3 DEF Closed
    <3>5. Below(ind, q, o)[3] = b
      BY <3>1, <3>2 DEF Below
    <3>6. QED BY <3>4, <3>5 DEF Reached
  <2>3. QED BY <2>1, <2>2
<1>5. \A b \in F : \/ b = p[3] /\ n = -1
                   \/ \E u \in K, o \in Offsets : o > u[2] /\ ind[u[1]][o] = b
  BY <1>1, <1>2, <1>3
<1>6. \A u \in K, o \in Offsets : o > u[2] /\ ind[u[1]][o] # 0 => ind[u[1]][o] \in F
  BY <1>1, <1>2
<1>7. ASSUME NEW b \in Blocks, b \notin F
      PROVE  /\ T[b] \in {content[b]} \cup Indirs
             /\ \/ T[b] = content[b] /\ \A u \in K : u[1] # b
                \/ \E u \in K : /\ u[1] = b /\ u[2] >= 0 /\ \A v \in K : v[1] = b => v = u
                                /\ \A o \in Offsets : T[b][o] = IF o > u[2] THEN 0 ELSE ind[b][o]
  <2>1. ASSUME NEW v \in K, v[1] = b PROVE v[2] >= 0
    <3>1. SUFFICES ASSUME v[2] = -1 PROVE FALSE
      BY <1>0
    <3>2. \/ v[1] = p[3] /\ n = -1
          \/ \E x \in K, o \in Offsets : o > x[2] /\ ind[x[1]][o] = v[1]
      BY <3>1 DEF CutSome
    <3>3. b # 0
      BY FileAssumption
    <3>4. QED BY <1>1, <1>2, <1>3, <1>7, <2>1, <3>2, <3>3
  <2>2. CASE \E u \in Kept(K) : u[1] = b
    <3> DEFINE z == CHOOSE u \in Kept(K) : u[1] = b
    <3>1. z \in Kept(K) /\ z[1] = b
      BY <2>2
    <3>2. T[b] = CutBlock(z, ind[b])
      BY <1>7, <2>2 DEF Trim
    <3> HIDE DEF z, T
    <3>3. z \in K /\ z[2] >= 0
      BY <3>1 DEF Kept
    <3>4. \A v \in K : v[1] = b => v = z
      BY <2>1, <3>1, <3>3 DEF CutSome
    <3>5. \A o \in Offsets : T[b][o] = IF o > z[2] THEN 0 ELSE ind[b][o]
      BY <3>2 DEF CutBlock
    <3>6. T[b] \in Indirs
      BY <3>2 DEF CutBlock, Indirs, Pointer
    <3>7. QED BY <3>1, <3>3, <3>4, <3>5, <3>6
  <2>3. CASE ~\E u \in Kept(K) : u[1] = b
    <3>1. T[b] = content[b]
      BY <1>7, <2>3 DEF Trim
    <3>2. \A u \in K : u[1] # b
      BY <2>1, <2>3 DEF Kept
    <3>3. QED BY <3>1, <3>2
  <2>4. QED BY <2>2, <2>3
<1>8. TrimOk(P, p, n, K, F, content, T)
  <2> HIDE DEF T
  <2>1. QED BY <1>4, <1>5, <1>6, <1>7 DEF TrimOk
<1>9. QED BY <1>8 DEF F

\* The pointers that are left are those of before, less those to the blocks that are freed.
LEMMA Trimmed ==
  ASSUME ind \in [Blocks -> Indirs], NEW db \in Dbs, NEW ib \in Ibs, NEW ib2 \in Ibs,
         NEW l \in 0..(NIADDR - 1), ib[l] # 0, NEW n \in -1..MaxLbn,
         ib2 = IF n < 0 THEN [ib EXCEPT ![l] = 0] ELSE ib,
         Inj(Pointers(db, ib, ind)), NEW K, CutSome(Pointers(db, ib, ind), IbAt(ib, l), n, K)
  PROVE  LET P == Pointers(db, ib, ind)
             F == FreedWith(K, ib[l], n)
             C == Trim(K, F, ind, Zeroes)
             Q == Pointers(db, ib2, C) IN
         /\ C \in [Blocks -> Indirs] /\ F \subseteq Reached(P) /\ F \subseteq Blocks
         /\ Q \subseteq P /\ Reached(Q) \cap F = {}
         /\ CutOk(P, IbAt(ib, l), n, K, {}) => \A q \in P : q \in Q \/ q[3] \in F
<1> DEFINE P == Pointers(db, ib, ind)
           p == IbAt(ib, l)
           F == FreedWith(K, ib[l], n)
           C == Trim(K, F, ind, Zeroes)
           Q == Pointers(db, ib2, C)
<1>0. /\ ind \in Contents /\ p[3] = ib[l] /\ p[4] = l + 1 /\ p[1] = 0 /\ l \in Nat
      /\ (n < 0 <=> n = -1)
  BY FileAssumption DEF Contents, IbAt
<1>1. /\ P \in SUBSET Places /\ Live(Top(db, ib)) \subseteq P /\ Closed(P, ind)
      /\ \A S : Live(Top(db, ib)) \subseteq S /\ Closed(S, ind) => P \subseteq S
  BY <1>0, PointersFacts
<1>2. p \in Live(Top(db, ib)) /\ p \in P
  BY <1>1, TopFacts
<1>3. p[4] > 0
  BY <1>0
<1>4. TrimOk(P, p, n, K, F, ind, C)
  <2> HIDE DEF p, P
  <2>1. Inj(P) /\ CutSome(P, p, n, K) /\ F = FreedWith(K, p[3], n)
    BY <1>0 DEF P, p
  <2>2. QED BY <1>0, <1>1, <1>2, <1>3, <2>1, TrimFacts
<1>5. \A b \in F : C[b] = Zeroes
  <2>1. F \subseteq Blocks
    <3>1. Reached(P) \subseteq Blocks
      BY <1>1 DEF Reached, Places
    <3>2. QED BY <1>4, <3>1 DEF TrimOk
  <2> HIDE DEF F
  <2>2. QED BY <2>1 DEF Trim
<1>6. C \in [Blocks -> Indirs]
  <2>1. \A b \in Blocks : C[b] \in Indirs
    BY <1>4, <1>5, GarbageFacts DEF TrimOk
  <2>2. C = [b \in Blocks |-> C[b]]
    BY DEF Trim
  <2> HIDE DEF C
  <2>3. QED BY <2>1, <2>2
<1>7. C \in Contents
  BY <1>6 DEF Contents
<1>8. ASSUME NEW b \in Blocks, NEW o \in Offsets PROVE C[b][o] \in {0, ind[b][o]}
  <2>1. CASE b \in F
    BY <1>5, <2>1 DEF Zeroes
  <2>2. CASE b \notin F
    <3> HIDE DEF C, F
    <3>1. QED BY <1>4, <2>2 DEF TrimOk
  <2>3. QED BY <2>1, <2>2
<1>9. F \subseteq Blocks
  BY <1>1, <1>4 DEF Reached, Places, TrimOk
<1> HIDE DEF C, F, p
<1>10. ASSUME NEW q \in P, NEW o \in Offsets, Has(C, q, o)
       PROVE  Has(ind, q, o) /\ Below(C, q, o) = Below(ind, q, o)
  <2>1. q[3] \in Blocks
    BY <1>1 DEF Places
  <2>2. C[q[3]][o] = ind[q[3]][o] /\ ind[q[3]][o] # 0 /\ ind[q[3]] # Garbage
    BY <1>8, <1>10, <2>1, GarbageFacts DEF Has
  <2>3. QED BY <1>10, <2>2 DEF Has, Below
<1>11. /\ Live(Top(db, ib2)) \subseteq Q /\ Closed(Q, C) /\ Q \in SUBSET Places
       /\ \A S : Live(Top(db, ib2)) \subseteq S /\ Closed(S, C) => Q \subseteq S
  BY <1>7, PointersFacts
<1>12. Q \subseteq P
  <2>1. PartOf(db, ib2, db, ib)
    BY DEF PartOf, Part, Ibs
  <2>2. QED BY <1>0, <1>7, <1>10, <2>1, Fewer
<1>13. \A q \in Live(Top(db, ib)) : q \in Live(Top(db, ib2)) \/ (n < 0 /\ q = p)
  <2> SUFFICES ASSUME NEW q \in Live(Top(db, ib)), ~(n < 0 /\ q = p) PROVE q \in Live(Top(db, ib2))
    OBVIOUS
  <2>1. CASE \E m \in 0..(NDADDR - 1) : db[m] # 0 /\ q = DbAt(db, m)
    BY <2>1, TopFacts
  <2>2. CASE \E m \in 0..(NIADDR - 1) : ib[m] # 0 /\ q = IbAt(ib, m)
    <3>1. PICK m \in 0..(NIADDR - 1) : ib[m] # 0 /\ q = IbAt(ib, m)
      BY <2>2
    <3>2. n < 0 => m # l
      BY <3>1 DEF p
    <3>3. ib2[m] = ib[m]
      BY <3>1, <3>2 DEF Ibs
    <3>4. IbAt(ib2, m) \in Live(Top(db, ib2))
      BY <3>1, <3>3, TopFacts
    <3>5. IbAt(ib2, m) = IbAt(ib, m)
      BY <3>3 DEF IbAt
    <3>6. QED BY <3>1, <3>4, <3>5
  <2>3. QED BY <2>1, <2>2, TopFacts
<1>14. ASSUME n < 0 PROVE p \notin Live(Top(db, ib2))
  <2> SUFFICES ASSUME p \in Live(Top(db, ib2)) PROVE FALSE
    OBVIOUS
  <2>1. CASE \E m \in 0..(NDADDR - 1) : db[m] # 0 /\ p = DbAt(db, m)
    <3>1. p[4] = 0
      BY <2>1 DEF DbAt
    <3>2. QED BY <1>3, <3>1
  <2>2. CASE \E m \in 0..(NIADDR - 1) : ib2[m] # 0 /\ p = IbAt(ib2, m)
    <3>1. PICK m \in 0..(NIADDR - 1) : ib2[m] # 0 /\ p = IbAt(ib2, m)
      BY <2>2
    <3>2. m + 1 = l + 1
      BY <1>0, <3>1 DEF IbAt
    <3>3. m = l
      BY <1>0, <3>2
    <3>4. QED BY <1>14, <3>1, <3>3 DEF Ibs
  <2>3. QED BY <2>1, <2>2, TopFacts
<1>15. \A q \in Live(Top(db, ib)) : q[1] = 0
  BY TopFacts DEF DbAt, IbAt
<1>16. ASSUME NEW q \in P, NEW o \in Offsets, Has(ind, q, o), ind[q[3]][o] \in F
       PROVE  \E u \in K : u[1] = q[3] /\ o > u[2]
  <2> DEFINE x == Below(ind, q, o)
  <2>1. x \in P /\ x[3] = ind[q[3]][o] /\ x[1] = q[3] /\ x[2] = o /\ x[1] # 0
    <3>1. q[3] # 0
      BY <1>1, FileAssumption DEF Places
    <3>2. QED BY <1>1, <1>16, <3>1 DEF Closed, Below
  <2> HIDE DEF x
  <2>2. x[3] # p[3]
    <3>1. x[3] = p[3] => x = p
      BY <1>2, <2>1 DEF Inj
    <3>2. QED BY <1>0, <2>1, <3>1
  <2>3. PICK u \in K, m \in Offsets : m > u[2] /\ ind[u[1]][m] = x[3]
    BY <1>4, <1>16, <2>1, <2>2 DEF TrimOk
  <2>4. PICK s \in P : s[3] = u[1] /\ s[4] \in 1..p[4]
    BY DEF CutSome, p
  <2>5. Has(ind, s, m)
    <3>1. s[3] \in Blocks /\ ind[s[3]] # Garbage
      BY <1>1, GarbageFacts DEF Places
    <3>2. s[4] > 0
      BY <1>0, <2>4
    <3>3. ind[s[3]][m] # 0
      BY <1>16, <2>1, <2>3, <2>4 DEF Has
    <3>4. QED BY <3>1, <3>2, <3>3 DEF Has
  <2>6. Below(ind, s, m) \in P /\ Below(ind, s, m)[3] = x[3] /\ Below(ind, s, m)[1] = s[3]
        /\ Below(ind, s, m)[2] = m
    BY <1>1, <2>3, <2>4, <2>5 DEF Closed, Below
  <2>7. Below(ind, s, m) = x
    BY <2>1, <2>6 DEF Inj
  <2>8. QED BY <2>1, <2>3, <2>4, <2>6, <2>7
<1>17. Reached(Q) \cap F = {}
  <2> DEFINE S == {q \in P : q[3] \notin F}
  <2>1. Live(Top(db, ib2)) \subseteq S
    <3> SUFFICES ASSUME NEW q \in Live(Top(db, ib2)), q[3] \in F PROVE FALSE
      BY <1>11, <1>12
    <3>1. q \in P /\ q[1] = 0 /\ q[3] # 0
      <4>1. q \in P
        BY <1>11, <1>12
      <4>2. q[1] = 0
        BY TopFacts DEF DbAt, IbAt
      <4>3. QED BY <4>1, <4>2 DEF Live
    <3>2. CASE q[3] = p[3] /\ n = -1
      <4>1. q = p
        BY <1>2, <3>1, <3>2 DEF Inj
      <4>2. QED BY <1>14, <3>2, <4>1
    <3>3. CASE \E u \in K, o \in Offsets : o > u[2] /\ ind[u[1]][o] = q[3]
      <4>1. PICK u \in K, o \in Offsets : o > u[2] /\ ind[u[1]][o] = q[3]
        BY <3>3
      <4>2. PICK s \in P : s[3] = u[1] /\ s[4] \in 1..p[4]
        BY DEF CutSome, p
      <4>3. s[3] \in Blocks /\ s[3] # 0 /\ ind[s[3]] # Garbage /\ s[4] > 0
        <5>1. s[3] \in Blocks /\ s[4] > 0
          BY <1>0, <1>1, <4>2 DEF Places
        <5>2. QED BY <5>1, GarbageFacts, FileAssumption
      <4>4. Has(ind, s, o)
        BY <3>1, <4>1, <4>2, <4>3 DEF Has
      <4>5. Below(ind, s, o) \in P /\ Below(ind, s, o)[3] = q[3] /\ Below(ind, s, o)[1] = s[3]
        BY <1>1, <4>1, <4>2, <4>4 DEF Closed, Below
      <4>6. QED BY <3>1, <4>3, <4>5 DEF Inj
    <3>4. QED BY <1>4, <3>2, <3>3 DEF TrimOk
  <2>2. Closed(S, C)
    <3> SUFFICES ASSUME NEW q \in S, NEW o \in Offsets, Has(C, q, o) PROVE Below(C, q, o) \in S
      BY DEF Closed
    <3>1. Has(ind, q, o) /\ Below(C, q, o) = Below(ind, q, o) /\ q \in P
      BY <1>10
    <3>2. Below(ind, q, o) \in P /\ Below(ind, q, o)[3] = ind[q[3]][o]
      BY <1>1, <3>1 DEF Closed, Below
    <3>3. ASSUME ind[q[3]][o] \in F PROVE FALSE
      <4>1. PICK u \in K : u[1] = q[3] /\ o > u[2]
        BY <1>16, <3>1, <3>3
      <4>2. q[3] \in Blocks \ F
        BY <1>1 DEF Places
      <4>3. C[q[3]][o] = 0
        BY <1>4, <4>1, <4>2 DEF TrimOk
      <4>4. QED BY <4>3 DEF Has
    <3>4. QED BY <3>1, <3>2, <3>3
  <2>3. Q \subseteq S
    BY <1>11, <2>1, <2>2
  <2>4. QED BY <2>3 DEF Reached
<1>18. ASSUME CutOk(P, p, n, K, {}), NEW y \in P PROVE y \in Q \/ y[3] \in F
  <2> DEFINE S == {q \in P : q \in Q \/ q[3] \in F}
  <2>1. Live(Top(db, ib)) \subseteq S
    <3>1. n < 0 => p[3] \in F
      BY <1>0 DEF F, FreedWith
    <3>2. QED BY <1>1, <1>11, <1>13, <3>1
  <2>2. Closed(S, ind)
    <3> SUFFICES ASSUME NEW q \in S, NEW o \in Offsets, Has(ind, q, o) PROVE Below(ind, q, o) \in S
      BY DEF Closed
    <3>1. Below(ind, q, o) \in P /\ Below(ind, q, o)[3] = ind[q[3]][o] /\ q[4] > 0
      BY <1>1 DEF Closed, Below, Has
    <3>2. q[3] \in Blocks /\ o \in Int /\ ind[q[3]][o] # 0 /\ o > -1
      BY <1>1, FileAssumption DEF Places, Has, Offsets
    <3>3. CASE q[3] \in F
      <4>1. \E u \in K : u[1] = q[3] /\ u[2] = -1
        <5>1. CASE q[3] = p[3] /\ n = -1
          BY <1>18, <5>1 DEF CutOk
        <5>2. CASE \E u \in K, m \in Offsets : m > u[2] /\ ind[u[1]][m] = q[3]
          <6>1. PICK u \in K, m \in Offsets : m > u[2] /\ ind[u[1]][m] = q[3]
            BY <5>2
          <6>2. PICK s \in P : s[3] = u[1] /\ s[4] \in 1..p[4]
            BY DEF CutSome, p
          <6>3. s[3] \in Blocks /\ ind[s[3]] # Garbage /\ s[4] \in Int /\ s[4] > 0
            BY <1>0, <1>1, <6>2, GarbageFacts DEF Places
          <6>4. q[3] # 0
            BY <3>2, FileAssumption
          <6>5. Has(ind, s, m)
            BY <6>1, <6>2, <6>3, <6>4 DEF Has
          <6>6. Below(ind, s, m) \in P /\ Below(ind, s, m)[3] = q[3] /\ Below(ind, s, m)[4] = s[4] - 1
            BY <1>1, <6>1, <6>2, <6>5 DEF Closed, Below
          <6>7. q[4] = s[4] - 1
            BY <6>6 DEF Inj
          <6>8. s[4] > 1
            BY <3>1, <6>3, <6>7
          <6>9. <<ind[u[1]][m], -1>> \in K
            BY <1>18, <6>1, <6>2, <6>4, <6>8 DEF CutOk
          <6>10. QED BY <6>1, <6>9
        <5>3. QED BY <1>4, <3>3, <5>1, <5>2 DEF TrimOk
      <4>2. ind[q[3]][o] \in F
        BY <1>4, <3>2, <4>1 DEF TrimOk
      <4>3. QED BY <3>1, <4>2
    <3>4. CASE q \in Q /\ q[3] \notin F
      <4>1. CASE C[q[3]][o] # 0
        <5>1. C[q[3]] # Garbage
          BY <1>6, <3>2, GarbageFacts
        <5>2. Has(C, q, o)
          BY <3>1, <4>1, <5>1 DEF Has
        <5>3. Below(C, q, o) \in Q
          BY <1>11, <3>4, <5>2 DEF Closed
        <5>4. QED BY <1>10, <3>1, <5>2, <5>3
      <4>2. CASE C[q[3]][o] = 0
        <5>1. q[3] \in Blocks \ F
          BY <3>2, <3>4
        <5>2. PICK u \in K : u[1] = q[3] /\ (C[q[3]][o] = IF o > u[2] THEN 0 ELSE ind[q[3]][o])
          BY <1>4, <3>2, <4>2, <5>1 DEF TrimOk
        <5>3. o > u[2]
          BY <3>2, <4>2, <5>2
        <5>4. ind[q[3]][o] \in F
          BY <1>4, <3>2, <5>2, <5>3 DEF TrimOk
        <5>5. QED BY <3>1, <5>4
      <4>3. QED BY <4>1, <4>2
    <3>5. QED BY <3>3, <3>4
  <2>3. P \subseteq S
    BY <1>1, <2>1, <2>2
  <2>4. QED BY <2>3
<1>19. QED BY <1>4, <1>6, <1>9, <1>12, <1>17, <1>18 DEF C, F, p, TrimOk

(***************************************************************************)
(* The inductive invariant.                                                *)
(***************************************************************************)

\* The pointers that the file has in truth: ext2_truncate() keeps those that it has cleared
\* until the inode is written.
CurDb(t) == IF call[t].pc = "update" THEN call[t].olddb ELSE i_db
CurIb(t) == IF call[t].pc = "update" THEN call[t].oldib ELSE i_ib
Held(t)  == Pointers(CurDb(t), CurIb(t), ind)

\* Those that stay when it is done.
StayDb(db, length) == [l \in 0..(NDADDR - 1) |-> IF l > Lastblock(length) THEN 0 ELSE db[l]]
StayIb(ib, length) == [l \in 0..(NIADDR - 1) |-> IF Lastiblock(length, l) < 0 THEN 0 ELSE ib[l]]
InWindow(t) == call[t].pc \in {"indir", "direct"}
LongDb(t) == IF InWindow(t) THEN StayDb(i_db, call[t].length) ELSE CurDb(t)
LongIb(t) == IF InWindow(t) THEN StayIb(i_ib, call[t].length) ELSE CurIb(t)

\* What each step of a call c relies on, the file's pointers being P.
CallOk(c, db, ib, P) ==
  /\ c.pc \in {"zero", "update", "indir", "direct", "done"} => c.op = "truncate"
  /\ c.pc \notin {"indir", "direct", "done"} => c.released = 0
  /\ c.pc \in {"balloc", "dalloc", "ialloc", "walk"} => c.lbn < MaxLbn /\ c.last < MaxLbn
  /\ c.pc = "dalloc" => Levels(c.lbn) = 0 /\ db[c.lbn] = 0
  /\ c.pc = "ialloc" => Levels(c.lbn) # 0 /\ ib[Levels(c.lbn) - 1] = 0
  /\ c.pc = "walk" => /\ c.i \in 1..Levels(c.lbn)
                      /\ \E p \in P : p[3] = c.indirb /\ p[4] = Levels(c.lbn) - c.i + 1
  /\ c.pc = "update" => db = StayDb(c.olddb, c.length) /\ ib = StayIb(c.oldib, c.length)
  /\ c.pc = "indir" => /\ c.level \in 0..(NIADDR - 1)
                       /\ \A k \in (c.level + 1)..(NIADDR - 1) : Lastiblock(c.length, k) < 0

\* No block of the file is free or has two places; and unless something failed, the others
\* are free, and i_blocks counts the file's and those that were released.
MemOk(P, fr, nf, nb, released) ==
  /\ Reached(P) \cap fr = {} /\ Inj(P)
  /\ nf = 0 => Blocks \ fr \subseteq Reached(P) /\ nb = Cardinality(Blocks \ fr) + released

\* The indirect blocks on the disk are written, and have no pointer that those in memory
\* do not have.
IndOk(P, content, disk) ==
  \A p \in P : p[4] > 0 => /\ disk[p[3]] # Garbage
                           /\ \A o \in Offsets : disk[p[3]][o] \in {0, content[p[3]][o]}

FileInv(t) ==
  /\ TypeOK
  /\ CallOk(call[t], i_db, i_ib, Held(t))
  /\ MemOk(Held(t), free, faults, i_blocks, call[t].released)
  /\ ~exposed => PartOf(dinode.db, dinode.ib, LongDb(t), LongIb(t))
  /\ IndOk(Held(t), ind, dind)

\* Zeroes are part of anything; and so on.
LEMMA PartFacts ==
  ASSUME NEW db, NEW ib, NEW db2, NEW ib2, PartOf(db, ib, db2, ib2)
  PROVE  \A db3, ib3 : PartOf(db2, ib2, db3, ib3) => PartOf(db, ib, db3, ib3)
BY DEF PartOf, Part

LEMMA StayFacts ==
  ASSUME NEW db \in Dbs, NEW ib \in Ibs, NEW length
  PROVE  /\ StayDb(db, length) \in Dbs /\ StayIb(ib, length) \in Ibs
         /\ PartOf(StayDb(db, length), StayIb(ib, length), db, ib)
<1>1. StayDb(db, length) \in Dbs
  BY DEF StayDb, Dbs, Pointer
<1>2. StayIb(ib, length) \in Ibs
  BY DEF StayIb, Ibs, Pointer
<1>3. Part(StayDb(db, length), db, NDADDR)
  BY DEF StayDb, Part
<1>4. Part(StayIb(ib, length), ib, NIADDR)
  BY DEF StayIb, Part
<1>5. QED BY <1>1, <1>2, <1>3, <1>4 DEF PartOf

LEMMA PartSelf ==
  ASSUME NEW db, NEW ib
  PROVE  PartOf(db, ib, db, ib)
BY DEF PartOf, Part

\* The types of what is held.
LEMMA HeldFacts ==
  ASSUME NEW t \in Threads, TypeOK
  PROVE  /\ call[t] \in Calls /\ ind \in [Blocks -> Indirs] /\ ind \in Contents /\ dind \in Contents
         /\ i_db \in Dbs /\ i_ib \in Ibs /\ CurDb(t) \in Dbs /\ CurIb(t) \in Ibs
         /\ call[t].olddb \in Dbs /\ call[t].oldib \in Ibs
         /\ LongDb(t) \in Dbs /\ LongIb(t) \in Ibs /\ PartOf(LongDb(t), LongIb(t), CurDb(t), CurIb(t))
         /\ Held(t) \in SUBSET Places /\ Closed(Held(t), ind)
         /\ \A p \in Held(t) : p[3] \in Blocks /\ p[3] # 0 /\ p[4] \in 0..NIADDR
<1>1. /\ call[t] \in Calls /\ ind \in [Blocks -> Indirs] /\ i_db \in Dbs /\ i_ib \in Ibs
      /\ dind \in Contents
  BY DEF TypeOK, Dbs, Ibs, Contents
<1>2. call[t].olddb \in Dbs /\ call[t].oldib \in Ibs
  BY <1>1 DEF Calls, Dbs, Ibs
<1>3. CurDb(t) \in Dbs /\ CurIb(t) \in Ibs
  BY <1>1, <1>2 DEF CurDb, CurIb
<1>4. LongDb(t) \in Dbs /\ LongIb(t) \in Ibs /\ PartOf(LongDb(t), LongIb(t), CurDb(t), CurIb(t))
  <2>1. CASE InWindow(t)
    <3>1. LongDb(t) = StayDb(i_db, call[t].length) /\ LongIb(t) = StayIb(i_ib, call[t].length)
      BY <2>1 DEF LongDb, LongIb
    <3>2. CurDb(t) = i_db /\ CurIb(t) = i_ib
      BY <2>1 DEF InWindow, CurDb, CurIb
    <3>3. QED BY <1>1, <3>1, <3>2, StayFacts
  <2>2. CASE ~InWindow(t)
    BY <1>3, <2>2, PartSelf DEF LongDb, LongIb
  <2>3. QED BY <2>1, <2>2
<1>5. ind \in Contents
  BY <1>1 DEF Contents
<1>6. Held(t) \in SUBSET Places /\ Closed(Held(t), ind)
  BY <1>3, <1>5, PointersFacts DEF Held
<1>7. \A p \in Held(t) : p[3] \in Blocks /\ p[3] # 0 /\ p[4] \in 0..NIADDR
  <2>1. \A p \in Held(t) : p[3] \in Blocks /\ p[4] \in 0..NIADDR
    BY <1>6 DEF Places
  <2>2. QED BY <2>1, FileAssumption
<1>8. QED BY <1>1, <1>2, <1>3, <1>4, <1>5, <1>6, <1>7

(***************************************************************************)
(* Each step keeps it.                                                     *)
(***************************************************************************)

LEMMA GoFacts ==
  ASSUME NEW t \in Threads, TypeOK, NEW c \in Calls, Go(t, c)
  PROVE  call'[t] = c /\ call' \in [Threads -> Calls]
BY DEF Go, TypeOK

\* A field of a call is set.
LEMMA CallSet ==
  ASSUME NEW c \in Calls
  PROVE  /\ \A x \in {"balloc", "dalloc", "ialloc", "walk", "size", "cluster", "zero", "update",
                      "indir", "direct", "done", "torn", "panic"} : [c EXCEPT !.pc = x] \in Calls
         /\ \A x \in 0..MaxLbn : [c EXCEPT !.lbn = x] \in Calls
         /\ \A x \in 0..NIADDR : [c EXCEPT !.i = x] \in Calls
         /\ \A x \in Pointer : [c EXCEPT !.indirb = x] \in Calls
         /\ \A x \in -1..(NIADDR - 1) : [c EXCEPT !.level = x] \in Calls
         /\ \A x \in Dbs : [c EXCEPT !.olddb = x] \in Calls
         /\ \A x \in Ibs : [c EXCEPT !.oldib = x] \in Calls
         /\ \A x \in Nat : [c EXCEPT !.released = x] \in Calls
<1>1. \A x \in {"balloc", "dalloc", "ialloc", "walk", "size", "cluster", "zero", "update",
                "indir", "direct", "done", "torn", "panic"} : [c EXCEPT !.pc = x] \in Calls
  BY DEF Calls
<1>2. \A x \in 0..MaxLbn : [c EXCEPT !.lbn = x] \in Calls
  BY DEF Calls
<1>3. \A x \in 0..NIADDR : [c EXCEPT !.i = x] \in Calls
  BY DEF Calls
<1>4. \A x \in Pointer : [c EXCEPT !.indirb = x] \in Calls
  BY DEF Calls
<1>5. \A x \in -1..(NIADDR - 1) : [c EXCEPT !.level = x] \in Calls
  BY DEF Calls
<1>6. \A x \in Dbs : [c EXCEPT !.olddb = x] \in Calls
  BY DEF Calls, Dbs
<1>7. \A x \in Ibs : [c EXCEPT !.oldib = x] \in Calls
  BY DEF Calls, Ibs
<1>8. \A x \in Nat : [c EXCEPT !.released = x] \in Calls
  BY DEF Calls
<1>9. QED BY <1>1, <1>2, <1>3, <1>4, <1>5, <1>6, <1>7, <1>8

LEMMA NoCallFacts ==
  /\ NoCall \in Calls /\ NoCall.pc = "idle" /\ NoCall.released = 0
  /\ \A db, ib, P : CallOk(NoCall, db, ib, P)
<1>1. NoDb \in [0..(NDADDR - 1) -> Pointer] /\ NoIb \in [0..(NIADDR - 1) -> Pointer]
  BY DEF NoDb, NoIb, Pointer
<1>2. 0 \in 0..MaxLbn /\ 0 \in 0..(MaxLbn * BSize) /\ 0 \in Pointer /\ 0 \in 0..NIADDR
      /\ -1 \in -1..(NIADDR - 1)
  BY FileAssumption DEF Pointer
<1>3. NoCall \in Calls
  BY <1>1, <1>2 DEF NoCall, Calls
<1>4. NoCall.pc = "idle" /\ NoCall.released = 0
  BY DEF NoCall
<1>5. \A db, ib, P : CallOk(NoCall, db, ib, P)
  BY <1>4 DEF CallOk
<1>6. QED BY <1>3, <1>4, <1>5

\* A step that leaves the pointers alone.
LEMMA Quiet ==
  ASSUME NEW t \in Threads, FileInv(t),
         UNCHANGED <<i_db, i_ib, i_blocks, ind, dinode, dind, free, exposed>>,
         faults' \in 0..MaxFaults, faults' = 0 => faults = 0,
         i_size' \in 0..(MaxLbn * BSize), calls' \in 0..MaxCalls,
         NEW c \in Calls, Go(t, c), call[t].pc \notin {"update", "indir", "direct"},
         c.pc \notin {"update", "indir", "direct"}, c.released = call[t].released,
         CallOk(c, i_db, i_ib, Held(t))
  PROVE  FileInv(t)'
<1>1. TypeOK /\ call'[t] = c /\ call' \in [Threads -> Calls]
  BY GoFacts DEF FileInv
<1>2. TypeOK'
  BY <1>1 DEF TypeOK
<1>3. CurDb(t)' = CurDb(t) /\ CurIb(t)' = CurIb(t) /\ LongDb(t)' = LongDb(t) /\ LongIb(t)' = LongIb(t)
  BY <1>1 DEF CurDb, CurIb, LongDb, LongIb, InWindow
<1>4. Held(t)' = Held(t)
  BY <1>3 DEF Held
<1>5. CallOk(c, i_db, i_ib, Held(t))'
  BY <1>4
<1>6. MemOk(Held(t), free, faults, i_blocks, call[t].released)'
  BY <1>1, <1>4 DEF FileInv, MemOk
<1>7. QED BY <1>1, <1>2, <1>3, <1>4, <1>5, <1>6 DEF FileInv

\* So does one that ends a call, or cannot get or use a block.
LEMMA QuietReturn ==
  ASSUME NEW t \in Threads, FileInv(t),
         UNCHANGED <<i_db, i_ib, i_blocks, ind, dinode, dind, free, exposed>>,
         faults' \in 0..MaxFaults, faults' = 0 => faults = 0,
         i_size' \in 0..(MaxLbn * BSize), calls' \in 0..MaxCalls, Return(t),
         call[t].pc \notin {"update", "indir", "direct", "done"}
  PROVE  FileInv(t)'
<1>1. call[t].released = 0
  BY DEF FileInv, CallOk
<1>2. Go(t, NoCall)
  BY DEF Return
<1>3. QED BY <1>1, <1>2, NoCallFacts, Quiet

LEMMA FaultFacts ==
  ASSUME TypeOK, Fault
  PROVE  faults' \in 0..MaxFaults /\ faults' # 0
BY FileAssumption DEF TypeOK, Fault

LEMMA NospaceStep ==
  ASSUME NEW t \in Threads, FileInv(t), calls' \in 0..MaxCalls, Nospace(t),
         call[t].pc \notin {"update", "indir", "direct", "done"}
  PROVE  FileInv(t)'
<1>1. faults' \in 0..MaxFaults /\ i_size' \in 0..(MaxLbn * BSize) /\ faults' = faults
  BY DEF FileInv, TypeOK, Nospace, core
<1>2. QED BY <1>1, QuietReturn DEF Nospace, core

LEMMA UndoStep ==
  ASSUME NEW t \in Threads, FileInv(t), calls' \in 0..MaxCalls, Undo(t),
         call[t].pc \notin {"update", "indir", "direct", "done"}
  PROVE  FileInv(t)'
<1>0. TypeOK
  BY DEF FileInv
<1>1. call'[t] = NoCall /\ call' \in [Threads -> Calls]
  BY <1>0, GoFacts, NoCallFacts DEF Undo, Return
<1>2. faults' \in 0..MaxFaults /\ faults' # 0 /\ i_blocks' \in Nat
  BY <1>0, FaultFacts DEF Undo, TypeOK
<1>3. TypeOK'
  BY <1>0, <1>1, <1>2 DEF Undo, TypeOK
<1>4. CurDb(t)' = CurDb(t) /\ CurIb(t)' = CurIb(t) /\ LongDb(t)' = LongDb(t) /\ LongIb(t)' = LongIb(t)
  BY <1>1, NoCallFacts DEF CurDb, CurIb, LongDb, LongIb, InWindow, Undo
<1>5. Held(t)' = Held(t)
  BY <1>4 DEF Held, Undo
<1>6. MemOk(Held(t), free, faults, i_blocks, call[t].released)'
  BY <1>2, <1>5 DEF FileInv, MemOk, Undo
<1>7. CallOk(call[t], i_db, i_ib, Held(t))'
  BY <1>1, NoCallFacts
<1>8. QED BY <1>3, <1>4, <1>5, <1>6, <1>7 DEF FileInv, Undo

\* The block that a write or a truncation ends in.
LEMMA BlockOf ==
  ASSUME NEW length \in 0..(MaxLbn * BSize)
  PROVE  /\ (length - 1) \div BSize \in -1..(MaxLbn - 1)
         /\ length > 0 => (length - 1) \div BSize \in 0..(MaxLbn - 1)
         /\ length < MaxLbn * BSize => length \div BSize \in 0..(MaxLbn - 1)
<1> DEFINE B == BSize
           M == MaxLbn
<1>1. B \in Nat /\ B > 1 /\ M \in Nat /\ length \in Nat /\ length <= M * B
  BY FileAssumption
<1> HIDE DEF B, M
<1>2. length = 0 => (length - 1) \div B = -1
  BY <1>1
<1>3. \A x \in Nat : x < M * B => x \div B \in 0..(M - 1)
  BY <1>1
<1>4. length > 0 => length - 1 \in Nat /\ length - 1 < M * B
  BY <1>1
<1>5. length > 0 => (length - 1) \div B \in 0..(M - 1)
  BY <1>3, <1>4
<1>6. -1 \in -1..(M - 1) /\ 0..(M - 1) \subseteq -1..(M - 1)
  BY <1>1
<1>7. length = 0 \/ length > 0
  BY <1>1
<1>8. (length - 1) \div B \in -1..(M - 1)
  BY <1>2, <1>5, <1>6, <1>7
<1>9. length < M * B => length \div B \in 0..(M - 1)
  BY <1>1, <1>3
<1>10. QED BY <1>5, <1>8, <1>9 DEF B, M

LEMMA WriteStep ==
  ASSUME NEW t \in Threads, FileInv(t), calls' \in 0..MaxCalls, Write(t)
  PROVE  FileInv(t)'
<1>0. TypeOK /\ call[t].released = 0
  BY DEF FileInv, CallOk, Write
<1>1. PICK lo \in 0..(MaxLbn - 1), length \in Lengths, op \in {"write", "meta"} :
        LET last == (length - 1) \div BSize IN
        /\ last - lo \in 0..(IF op = "meta" THEN 0 ELSE MaxSpan)
        /\ Go(t, [NoCall EXCEPT !.op = op, !.pc = "balloc", !.lbn = lo, !.last = last,
                                !.length = length,
                                !.osize = IF op = "write" THEN i_size ELSE 0])
  BY DEF Write
<1> DEFINE last == (length - 1) \div BSize
           size == IF op = "write" THEN i_size ELSE 0
           c == [NoCall EXCEPT !.op = op, !.pc = "balloc", !.lbn = lo, !.last = last,
                               !.length = length, !.osize = size]
<1>2. length \in 0..(MaxLbn * BSize) /\ size \in 0..(MaxLbn * BSize) /\ lo \in 0..MaxLbn /\ lo < MaxLbn
  BY <1>0, FileAssumption DEF TypeOK
<1>3. last \in 0..MaxLbn /\ last < MaxLbn
  <2>1. last \in -1..(MaxLbn - 1) /\ last - lo >= 0
    <3>1. last - lo \in 0..(IF op = "meta" THEN 0 ELSE MaxSpan)
      BY <1>1
    <3>2. last \in -1..(MaxLbn - 1)
      BY <1>2, BlockOf
    <3> HIDE DEF last
    <3>3. QED BY <3>1, <3>2, FileAssumption
  <2> HIDE DEF last
  <2>2. QED BY <1>2, <2>1, FileAssumption
<1> HIDE DEF last, size
<1>4. c \in Calls
  BY <1>2, <1>3, NoCallFacts DEF Calls
<1>5. /\ c.pc = "balloc" /\ c.lbn = lo /\ c.last = last /\ c.released = 0
  BY NoCallFacts DEF NoCall
<1>6. CallOk(c, i_db, i_ib, Held(t))
  <2> HIDE DEF c
  <2>1. QED BY <1>2, <1>3, <1>5 DEF CallOk
<1>7. Go(t, c)
  BY <1>1 DEF last, size
<1>8. /\ faults' \in 0..MaxFaults /\ faults' = faults /\ i_size' \in 0..(MaxLbn * BSize)
  BY <1>0 DEF Write, core, TypeOK
<1> HIDE DEF c
<1>9. UNCHANGED <<i_db, i_ib, i_blocks, ind, dinode, dind, free, exposed>> /\ call[t].pc = "idle"
  BY DEF Write, core
<1>10. QED BY <1>0, <1>4, <1>5, <1>6, <1>7, <1>8, <1>9, Quiet

LEMMA TruncateStep ==
  ASSUME NEW t \in Threads, FileInv(t), calls' \in 0..MaxCalls, Truncate(t)
  PROVE  FileInv(t)'
<1>0. TypeOK /\ call[t].released = 0 /\ i_size \in 0..(MaxLbn * BSize) /\ call[t].pc = "idle"
  BY DEF FileInv, CallOk, Truncate, TypeOK
<1> DEFINE C(n) == [NoCall EXCEPT !.op = "truncate", !.length = n, !.osize = i_size]
           D(n, b) == [C(n) EXCEPT !.pc = "balloc", !.lbn = b, !.last = b]
           E(n) == [C(n) EXCEPT !.pc = "zero"]
<1>1. PICK n \in Lengths :
        \/ n > i_size /\ Go(t, D(n, (n - 1) \div BSize)) /\ UNCHANGED i_size
        \/ n < i_size /\ Go(t, D(n, n \div BSize)) /\ UNCHANGED i_size
        \/ i_size' = n /\ Go(t, E(n))
  BY DEF Truncate
<1>2. n \in 0..(MaxLbn * BSize)
  BY FileAssumption
<1>3. i_size' \in 0..(MaxLbn * BSize) /\ faults' \in 0..MaxFaults /\ faults' = faults
  BY <1>0, <1>1, <1>2 DEF Truncate, TypeOK
<1>4. UNCHANGED <<i_db, i_ib, i_blocks, ind, dinode, dind, free, exposed>>
  BY DEF Truncate
<1>5. ASSUME NEW b \in 0..(MaxLbn - 1), Go(t, D(n, b)) PROVE FileInv(t)'
  <2>1. b \in 0..MaxLbn /\ b < MaxLbn
    BY FileAssumption
  <2>2. D(n, b) \in Calls
    BY <1>0, <1>2, <2>1, NoCallFacts DEF Calls
  <2>3. D(n, b).pc = "balloc" /\ D(n, b).lbn = b /\ D(n, b).last = b /\ D(n, b).released = 0
    BY NoCallFacts DEF NoCall
  <2> HIDE DEF D
  <2>4. CallOk(D(n, b), i_db, i_ib, Held(t))
    BY <2>1, <2>3 DEF CallOk
  <2>5. QED BY <1>0, <1>3, <1>4, <1>5, <2>2, <2>3, <2>4, Quiet
<1>6. ASSUME Go(t, E(n)) PROVE FileInv(t)'
  <2>1. E(n) \in Calls
    BY <1>0, <1>2, NoCallFacts DEF Calls
  <2>2. E(n).pc = "zero" /\ E(n).released = 0 /\ E(n).op = "truncate"
    BY NoCallFacts DEF NoCall
  <2> HIDE DEF E
  <2>3. CallOk(E(n), i_db, i_ib, Held(t))
    BY <2>2 DEF CallOk
  <2>4. QED BY <1>0, <1>3, <1>4, <1>6, <2>1, <2>2, <2>3, Quiet
<1>7. n > i_size => (n - 1) \div BSize \in 0..(MaxLbn - 1)
  <2>1. n > i_size => n > 0
    BY <1>0, <1>2, FileAssumption
  <2>2. QED BY <1>2, <2>1, BlockOf
<1>8. n < i_size => n \div BSize \in 0..(MaxLbn - 1)
  <2>1. n < i_size => n < MaxLbn * BSize
    BY <1>0, <1>2, FileAssumption
  <2>2. QED BY <1>2, <2>1, BlockOf
<1> HIDE DEF D, E
<1>9. QED BY <1>1, <1>5, <1>6, <1>7, <1>8

\* After a block is found or made.
LEMMA GotFacts ==
  ASSUME NEW c \in Calls, c.pc \in {"balloc", "dalloc", "walk"}, c.lbn < MaxLbn, c.last < MaxLbn,
         c.released = 0
  PROVE  /\ Got(c) \in Calls /\ Got(c).pc \in {"balloc", "size"} /\ Got(c).released = 0
         /\ \A db, ib, P : CallOk(Got(c), db, ib, P)
<1> DEFINE d == [c EXCEPT !.pc = "balloc", !.lbn = @ + 1, !.i = 0, !.indirb = 0]
           e == [c EXCEPT !.pc = "size", !.i = 0, !.indirb = 0]
<1>1. c.lbn \in 0..MaxLbn /\ c.last \in 0..MaxLbn
  BY DEF Calls
<1>2. 0 \in 0..NIADDR /\ 0 \in Pointer
  BY FileAssumption DEF Pointer
<1>3. ASSUME c.lbn < c.last PROVE d \in Calls /\ d.pc = "balloc" /\ d.released = 0 /\ d.lbn < MaxLbn
                                  /\ d.last < MaxLbn
  <2>1. c.lbn + 1 \in 0..MaxLbn /\ c.lbn + 1 < MaxLbn
    BY <1>1, <1>3, FileAssumption
  <2>2. d \in Calls
    <3> DEFINE d1 == [c EXCEPT !.pc = "balloc"]
               d2 == [d1 EXCEPT !.lbn = c.lbn + 1]
               d3 == [d2 EXCEPT !.i = 0]
    <3>1. d1 \in Calls
      BY CallSet
    <3>2. d2 \in Calls
      BY <2>1, <3>1, CallSet
    <3>3. d3 \in Calls
      BY <1>2, <3>2, CallSet
    <3>4. d = [d3 EXCEPT !.indirb = 0]
      OBVIOUS
    <3> HIDE DEF d3
    <3>5. QED BY <1>2, <3>3, <3>4, CallSet
  <2>3. d.pc = "balloc" /\ d.released = 0 /\ d.lbn = c.lbn + 1 /\ d.last = c.last
    BY DEF Calls
  <2>4. QED BY <2>1, <2>2, <2>3
<1>4. e \in Calls /\ e.pc = "size" /\ e.released = 0
  <2> DEFINE e1 == [c EXCEPT !.pc = "size"]
             e2 == [e1 EXCEPT !.i = 0]
  <2>1. e1 \in Calls
    BY CallSet
  <2>2. e2 \in Calls
    BY <1>2, <2>1, CallSet
  <2>3. e \in Calls
    BY <1>2, <2>2, CallSet
  <2>4. e.pc = "size" /\ e.released = 0
    BY DEF Calls
  <2>5. QED BY <2>3, <2>4
<1>5. Got(c) = IF c.lbn < c.last /\ c.op = "write" THEN d ELSE e
  BY DEF Got
<1> HIDE DEF d, e
<1>6. CASE c.lbn < c.last /\ c.op = "write"
  <2>1. Got(c) = d
    BY <1>5, <1>6
  <2>2. QED BY <1>3, <1>6, <2>1 DEF CallOk
<1>7. CASE ~(c.lbn < c.last /\ c.op = "write")
  <2>1. Got(c) = e
    BY <1>5, <1>7
  <2>2. QED BY <1>4, <2>1 DEF CallOk
<1>8. QED BY <1>6, <1>7

LEMMA BallocLookStep ==
  ASSUME NEW t \in Threads, FileInv(t), calls' \in 0..MaxCalls, BallocLook(t)
  PROVE  FileInv(t)'
<1> DEFINE c == call[t]
           k == Levels(c.lbn)
           nb == IF k = 0 THEN i_db[c.lbn] ELSE i_ib[k - 1]
           w == [c EXCEPT !.pc = "walk", !.i = 1, !.indirb = nb]
           At(p) == [c EXCEPT !.pc = p]
<1>0. /\ TypeOK /\ c.released = 0 /\ c.pc = "balloc" /\ c \in Calls /\ c.lbn < MaxLbn /\ c.last < MaxLbn
      /\ c.lbn \in 0..MaxLbn /\ c.lbn \in 0..(MaxLbn - 1)
  <2>1. TypeOK /\ c.pc = "balloc"
    BY DEF FileInv, BallocLook
  <2>2. c.released = 0 /\ c.lbn < MaxLbn /\ c.last < MaxLbn
    BY <2>1 DEF FileInv, CallOk
  <2>3. c \in Calls
    BY <2>1, HeldFacts
  <2>4. c.lbn \in 0..MaxLbn
    BY <2>3 DEF Calls
  <2>5. QED BY <2>1, <2>2, <2>3, <2>4, FileAssumption
<1>1. k \in 0..NIADDR /\ k \in Int
  BY <1>0, LevelsFacts, FileAssumption
<1>2. /\ UNCHANGED <<i_db, i_ib, i_blocks, ind, dinode, dind, free, exposed>>
      /\ i_size' \in 0..(MaxLbn * BSize)
  BY <1>0 DEF BallocLook, core, TypeOK
<1>3. \/ Go(t, Got(c)) /\ UNCHANGED faults
      \/ Return(t) /\ Fault
      \/ Goto(t, "panic") /\ UNCHANGED faults
      \/ k = 0 /\ nb = 0 /\ Goto(t, "dalloc") /\ UNCHANGED faults
      \/ k # 0 /\ nb = 0 /\ Goto(t, "ialloc") /\ UNCHANGED faults
      \/ k # 0 /\ nb # 0 /\ Go(t, w) /\ UNCHANGED faults
  BY DEF BallocLook
<1>4. UNCHANGED faults => faults' \in 0..MaxFaults /\ faults' = faults
  BY <1>0 DEF TypeOK
<1>5. CASE Go(t, Got(c)) /\ UNCHANGED faults
  <2> HIDE DEF c
  <2>1. /\ Got(c) \in Calls /\ Got(c).pc \in {"balloc", "size"} /\ Got(c).released = 0
        /\ CallOk(Got(c), i_db, i_ib, Held(t))
    BY <1>0, GotFacts
  <2>2. QED BY <1>0, <1>2, <1>4, <1>5, <2>1, Quiet DEF c
<1>6. CASE Return(t) /\ Fault
  BY <1>0, <1>2, <1>6, FaultFacts, QuietReturn
<1>7. ASSUME NEW p \in {"panic", "dalloc", "ialloc"}, Go(t, At(p)), UNCHANGED faults,
             CallOk(At(p), i_db, i_ib, Held(t))
      PROVE  FileInv(t)'
  <2>1. At(p) \in Calls /\ At(p).pc = p /\ At(p).released = c.released
    <3>1. At(p).pc = p /\ At(p).released = c.released
      BY <1>0 DEF Calls
    <3> HIDE DEF c
    <3>2. At(p) \in Calls
      BY <1>0, CallSet
    <3>3. QED BY <3>1, <3>2
  <2> HIDE DEF At
  <2>2. QED BY <1>0, <1>2, <1>4, <1>7, <2>1, Quiet
<1>8. \A p : Goto(t, p) => Go(t, At(p))
  BY DEF Goto
<1>9. \A p \in {"panic", "dalloc", "ialloc"} :
        /\ At(p).pc = p /\ At(p).released = 0 /\ At(p).lbn = c.lbn /\ At(p).last = c.last
  BY <1>0 DEF Calls
<1>10. CASE Goto(t, "panic") /\ UNCHANGED faults
  <2> HIDE DEF At
  <2>1. CallOk(At("panic"), i_db, i_ib, Held(t))
    BY <1>9 DEF CallOk
  <2>2. QED BY <1>7, <1>8, <1>10, <2>1
<1>11. CASE k = 0 /\ nb = 0 /\ Goto(t, "dalloc") /\ UNCHANGED faults
  <2> HIDE DEF At
  <2>1. CallOk(At("dalloc"), i_db, i_ib, Held(t))
    BY <1>0, <1>9, <1>11 DEF CallOk
  <2>2. QED BY <1>7, <1>8, <1>11, <2>1
<1>12. CASE k # 0 /\ nb = 0 /\ Goto(t, "ialloc") /\ UNCHANGED faults
  <2> HIDE DEF At
  <2>1. CallOk(At("ialloc"), i_db, i_ib, Held(t))
    BY <1>0, <1>9, <1>12 DEF CallOk
  <2>2. QED BY <1>7, <1>8, <1>12, <2>1
<1>13. CASE k # 0 /\ nb # 0 /\ Go(t, w) /\ UNCHANGED faults
  <2>1. k - 1 \in 0..(NIADDR - 1) /\ nb = i_ib[k - 1] /\ 1 \in 0..NIADDR /\ 1 \in 1..k
    BY <1>1, <1>13, FileAssumption
  <2>2. nb \in Pointer
    BY <1>0, <2>1 DEF TypeOK
  <2>3. w \in Calls
    <3> HIDE DEF c, nb
    <3> DEFINE w1 == [c EXCEPT !.pc = "walk"]
               w2 == [w1 EXCEPT !.i = 1]
    <3>1. w1 \in Calls
      BY <1>0, CallSet
    <3>2. w2 \in Calls
      BY <2>1, <3>1, CallSet
    <3>3. QED BY <2>2, <3>2, CallSet
  <2>4. /\ w.pc = "walk" /\ w.i = 1 /\ w.indirb = nb /\ w.released = 0 /\ w.lbn = c.lbn
        /\ w.last = c.last
    BY <1>0 DEF Calls
  <2>5. \E p \in Held(t) : p[3] = nb /\ p[4] = k
    <3>1. CurIb(t) = i_ib /\ CurDb(t) = i_db
      BY <1>0 DEF CurIb, CurDb
    <3>2. IbAt(i_ib, k - 1) \in Live(Top(i_db, i_ib))
      BY <1>0, <1>13, <2>1, HeldFacts, TopFacts
    <3>3. IbAt(i_ib, k - 1) \in Held(t)
      BY <1>0, <3>1, <3>2, HeldFacts, PointersFacts DEF Held
    <3>4. IbAt(i_ib, k - 1)[3] = nb /\ IbAt(i_ib, k - 1)[4] = k
      BY <1>1, <2>1 DEF IbAt
    <3>5. QED BY <3>3, <3>4
  <2> HIDE DEF w
  <2>6. k = k - 1 + 1
    BY <1>1
  <2>7. CallOk(w, i_db, i_ib, Held(t))
    BY <1>0, <2>1, <2>4, <2>5, <2>6 DEF CallOk
  <2>8. QED BY <1>0, <1>2, <1>4, <1>13, <2>3, <2>4, <2>7, Quiet
<1>14. QED BY <1>3, <1>5, <1>6, <1>10, <1>11, <1>12, <1>13

LEMMA MaxType ==
  ASSUME NEW x \in Int, NEW y \in Int
  PROVE  Max({x, y}) \in {x, y} /\ Max({x, y}) >= x
BY MaxOfTwo

\* The size is set.
LEMMA SizeStep ==
  ASSUME NEW t \in Threads, FileInv(t), calls' \in 0..MaxCalls,
         WriteSize(t) \/ WriteCluster(t) \/ MetaWrite(t) \/ ShortenSize(t)
  PROVE  FileInv(t)'
<1> DEFINE c == call[t]
           At(p) == [c EXCEPT !.pc = p]
<1>0. /\ TypeOK /\ c \in Calls /\ c.pc \in {"size", "cluster"} /\ i_size \in 0..(MaxLbn * BSize)
      /\ c.length \in 0..(MaxLbn * BSize) /\ c.osize \in 0..(MaxLbn * BSize)
      /\ faults \in 0..MaxFaults
  <2>1. TypeOK /\ c.pc \in {"size", "cluster"}
    BY DEF FileInv, WriteSize, WriteCluster, MetaWrite, ShortenSize
  <2>2. c \in Calls
    BY <2>1, HeldFacts
  <2>3. QED BY <2>1, <2>2 DEF Calls, TypeOK
<1>1. c.released = 0
  BY <1>0 DEF FileInv, CallOk
<1>2. UNCHANGED <<i_db, i_ib, i_blocks, ind, dinode, dind, free, exposed>>
  BY DEF WriteSize, WriteCluster, MetaWrite, ShortenSize
<1>3. /\ At("cluster") \in Calls /\ At("cluster").pc = "cluster" /\ At("cluster").released = 0
      /\ At("zero") \in Calls /\ At("zero").pc = "zero" /\ At("zero").released = 0
      /\ At("zero").op = c.op
  <2>1. At("cluster") \in Calls /\ At("zero") \in Calls
    BY <1>0, CallSet
  <2>2. /\ At("cluster").pc = "cluster" /\ At("cluster").released = 0
        /\ At("zero").pc = "zero" /\ At("zero").released = 0 /\ At("zero").op = c.op
    BY <1>0, <1>1 DEF Calls
  <2>3. QED BY <2>1, <2>2
<1>4. \A p : Goto(t, p) => Go(t, At(p))
  BY DEF Goto
<1>5. CallOk(At("cluster"), i_db, i_ib, Held(t))
  <2> HIDE DEF At
  <2>1. QED BY <1>3 DEF CallOk
<1>6. c.op = "truncate" => CallOk(At("zero"), i_db, i_ib, Held(t))
  <2> HIDE DEF At
  <2>1. QED BY <1>3 DEF CallOk
<1> HIDE DEF At
<1>7. CASE WriteSize(t)
  <2>1. Goto(t, "cluster") /\ UNCHANGED faults /\ i_size' \in 0..(MaxLbn * BSize)
    BY <1>0, <1>7 DEF WriteSize
  <2>2. faults' \in 0..MaxFaults
    BY <1>0, <2>1
  <2>3. QED BY <1>0, <1>1, <1>2, <1>3, <1>4, <1>5, <2>1, <2>2, Quiet
<1>8. CASE WriteCluster(t)
  <2>1. Return(t) /\ i_size' \in 0..(MaxLbn * BSize) /\ (UNCHANGED faults \/ Fault)
    BY <1>0, <1>8 DEF WriteCluster
  <2>2. faults' \in 0..MaxFaults /\ (faults' = 0 => faults = 0)
    BY <1>0, <2>1, FaultFacts
  <2>3. QED BY <1>0, <1>2, <2>1, <2>2, QuietReturn
<1>9. CASE MetaWrite(t)
  <2>1. Return(t) /\ i_size' = Max({i_size, c.length}) /\ UNCHANGED faults
    BY <1>9 DEF MetaWrite
  <2>2. i_size' \in 0..(MaxLbn * BSize)
    <3>1. i_size \in Int /\ c.length \in Int
      BY <1>0, FileAssumption
    <3>2. QED BY <1>0, <2>1, <3>1, MaxType
  <2>3. faults' \in 0..MaxFaults
    BY <1>0, <2>1
  <2>4. QED BY <1>0, <1>2, <2>1, <2>2, <2>3, QuietReturn
<1>10. CASE ShortenSize(t)
  <2>1. Goto(t, "zero") /\ UNCHANGED faults /\ i_size' \in 0..(MaxLbn * BSize) /\ c.op = "truncate"
    BY <1>0, <1>10 DEF ShortenSize
  <2>2. faults' \in 0..MaxFaults
    BY <1>0, <2>1
  <2>3. QED BY <1>0, <1>1, <1>2, <1>3, <1>4, <1>6, <2>1, <2>2, Quiet
<1>11. QED BY <1>7, <1>8, <1>9, <1>10

LEMMA LengthenStep ==
  ASSUME NEW t \in Threads, FileInv(t), calls' \in 0..MaxCalls, Lengthen(t)
  PROVE  FileInv(t)'
<1>0. TypeOK /\ call[t] \in Calls /\ call[t].pc = "size" /\ i_db \in Dbs /\ i_ib \in Ibs
  BY HeldFacts DEF FileInv, Lengthen
<1>1. call'[t] = NoCall /\ call' \in [Threads -> Calls]
  BY <1>0, GoFacts, NoCallFacts DEF Lengthen, Return
<1>2. call[t].released = 0 /\ call[t].length \in 0..(MaxLbn * BSize)
  BY <1>0 DEF FileInv, CallOk, Calls
<1>3. faults' \in 0..MaxFaults /\ (faults' = 0 => faults = 0)
  BY <1>0, FaultFacts DEF Lengthen, TypeOK
<1>4. \/ dinode' = Dinode
      \/ dinode' = dinode /\ exposed' = exposed
  BY DEF Lengthen
<1>5. exposed' \in BOOLEAN
  BY <1>0 DEF Lengthen, TypeOK, Window
<1>6. dinode' \in [db : Dbs, ib : Ibs]
  BY <1>0, <1>4 DEF TypeOK, Dinode, Dbs, Ibs
<1>7. TypeOK'
  BY <1>0, <1>1, <1>2, <1>3, <1>5, <1>6 DEF TypeOK, Lengthen, Dbs, Ibs
<1>8. /\ CurDb(t)' = CurDb(t) /\ CurIb(t)' = CurIb(t) /\ LongDb(t)' = LongDb(t) /\ LongIb(t)' = LongIb(t)
      /\ LongDb(t) = i_db /\ LongIb(t) = i_ib
  BY <1>0, <1>1, NoCallFacts DEF CurDb, CurIb, LongDb, LongIb, InWindow, Lengthen
<1>9. Held(t)' = Held(t)
  BY <1>8 DEF Held, Lengthen
<1>10. MemOk(Held(t), free, faults, i_blocks, call[t].released)'
  BY <1>1, <1>2, <1>3, <1>9, NoCallFacts DEF FileInv, MemOk, Lengthen
<1>11. CallOk(call[t], i_db, i_ib, Held(t))'
  BY <1>1, NoCallFacts
<1>12. (~exposed => PartOf(dinode.db, dinode.ib, LongDb(t), LongIb(t)))'
  BY <1>4, <1>8, PartSelf DEF FileInv, Dinode
<1>13. IndOk(Held(t), ind, dind)'
  BY <1>9 DEF FileInv, Lengthen
<1>14. QED BY <1>7, <1>10, <1>11, <1>12, <1>13 DEF FileInv

LEMMA FlushInodeStep ==
  ASSUME NEW t \in Threads, FileInv(t), calls' \in 0..MaxCalls, FlushInode
  PROVE  FileInv(t)'
<1>0. /\ TypeOK /\ call[t] \in Calls /\ i_db \in Dbs /\ i_ib \in Ibs
      /\ call[t].olddb \in Dbs /\ call[t].oldib \in Ibs
  BY HeldFacts DEF FileInv
<1>1. dinode' = Dinode /\ exposed' = Window /\ UNCHANGED <<i_db, i_ib, i_size, i_blocks, ind, dind, free, call, faults>>
  BY DEF FlushInode, core
<1>2. dinode' \in [db : Dbs, ib : Ibs] /\ exposed' \in BOOLEAN
  BY <1>0, <1>1 DEF Dinode, Window
<1>3. TypeOK'
  BY <1>0, <1>1, <1>2 DEF TypeOK, Dbs, Ibs
<1>4. CurDb(t)' = CurDb(t) /\ CurIb(t)' = CurIb(t) /\ LongDb(t)' = LongDb(t) /\ LongIb(t)' = LongIb(t)
  BY <1>1 DEF CurDb, CurIb, LongDb, LongIb, InWindow
<1>5. Held(t)' = Held(t)
  BY <1>1, <1>4 DEF Held
<1>6. ASSUME ~exposed' PROVE PartOf(i_db, i_ib, LongDb(t), LongIb(t))
  <2>1. ~InWindow(t)
    BY <1>1, <1>6 DEF Window, InWindow, FileInv, CallOk
  <2>2. CASE call[t].pc = "update"
    <3>1. i_db = StayDb(call[t].olddb, call[t].length) /\ i_ib = StayIb(call[t].oldib, call[t].length)
      BY <2>2 DEF FileInv, CallOk
    <3>2. LongDb(t) = call[t].olddb /\ LongIb(t) = call[t].oldib
      BY <2>1, <2>2 DEF LongDb, LongIb, CurDb, CurIb
    <3>3. QED BY <1>0, <3>1, <3>2, StayFacts
  <2>3. CASE call[t].pc # "update"
    BY <2>1, <2>3, PartSelf DEF LongDb, LongIb, CurDb, CurIb
  <2>4. QED BY <2>2, <2>3
<1>7. (~exposed => PartOf(dinode.db, dinode.ib, LongDb(t), LongIb(t)))'
  BY <1>1, <1>4, <1>6 DEF Dinode
<1>8. QED BY <1>1, <1>3, <1>5, <1>7 DEF FileInv

LEMMA FlushBufStep ==
  ASSUME NEW t \in Threads, FileInv(t), calls' \in 0..MaxCalls, NEW b \in Blocks, FlushBuf(b)
  PROVE  FileInv(t)'
<1>0. TypeOK /\ ind \in [Blocks -> Indirs] /\ dind \in Contents
  BY HeldFacts DEF FileInv
<1>1. /\ dind' = [dind EXCEPT ![b] = ind[b]]
      /\ UNCHANGED <<i_db, i_ib, i_size, i_blocks, ind, dinode, free, call, faults, exposed>>
  BY DEF FlushBuf, core
<1>2. dind' \in [Blocks -> Indirs \cup {Garbage}]
  BY <1>0, <1>1 DEF Contents
<1>3. TypeOK'
  BY <1>0, <1>1, <1>2 DEF TypeOK
<1>4. CurDb(t)' = CurDb(t) /\ CurIb(t)' = CurIb(t) /\ LongDb(t)' = LongDb(t) /\ LongIb(t)' = LongIb(t)
  BY <1>1 DEF CurDb, CurIb, LongDb, LongIb, InWindow
<1>5. Held(t)' = Held(t)
  BY <1>1, <1>4 DEF Held
<1>6. IndOk(Held(t), ind, dind')
  <2> SUFFICES ASSUME NEW p \in Held(t), p[4] > 0
               PROVE  dind'[p[3]] # Garbage /\ \A o \in Offsets : dind'[p[3]][o] \in {0, ind[p[3]][o]}
    BY DEF IndOk
  <2>1. p[3] \in Blocks
    BY <1>0, HeldFacts
  <2>2. CASE p[3] = b
    <3>1. dind'[p[3]] = ind[b]
      BY <1>0, <1>1, <2>2 DEF Contents
    <3>2. ind[b] # Garbage
      BY <1>0, GarbageFacts
    <3>3. QED BY <2>2, <3>1, <3>2
  <2>3. CASE p[3] # b
    <3>1. dind'[p[3]] = dind[p[3]]
      BY <1>0, <1>1, <2>1, <2>3 DEF Contents
    <3>2. QED BY <3>1 DEF FileInv, IndOk
  <2>4. QED BY <2>2, <2>3
<1>7. QED BY <1>1, <1>3, <1>4, <1>5, <1>6 DEF FileInv

\* Blocks are freed to which no pointer is left.
LEMMA Release ==
  ASSUME NEW P \in SUBSET Places, NEW Q \in SUBSET P, NEW F \in SUBSET Reached(P),
         NEW fr \in SUBSET Blocks, NEW nf, NEW nf2, NEW nb, NEW released \in Nat,
         MemOk(P, fr, nf, nb, released), Reached(Q) \cap F = {},
         nf2 = 0 => nf = 0 /\ \A q \in P : q \in Q \/ q[3] \in F
  PROVE  /\ Cardinality(F) \in Nat
         /\ MemOk(Q, fr \cup F, nf2, nb, released + Cardinality(F))
<1>0. IsFiniteSet(Blocks) /\ Reached(P) \subseteq Blocks
  BY FileAssumption DEF Reached, Places
<1>1. IsFiniteSet(F) /\ Cardinality(F) \in Nat
  BY <1>0, FS_Subset, FS_CardinalityType
<1>2. F \cap fr = {} /\ Reached(Q) \subseteq Reached(P)
  BY DEF MemOk, Reached
<1>3. Inj(Q) /\ Reached(Q) \cap (fr \cup F) = {}
  BY <1>2 DEF MemOk, Inj
<1>4. ASSUME nf2 = 0
      PROVE  /\ Blocks \ (fr \cup F) \subseteq Reached(Q)
             /\ nb = Cardinality(Blocks \ (fr \cup F)) + (released + Cardinality(F))
  <2>1. nf = 0 /\ Blocks \ fr \subseteq Reached(P) /\ nb = Cardinality(Blocks \ fr) + released
    BY <1>4 DEF MemOk
  <2>2. Blocks \ (fr \cup F) \subseteq Reached(Q)
    <3> SUFFICES ASSUME NEW b \in Blocks \ (fr \cup F) PROVE b \in Reached(Q)
      OBVIOUS
    <3>1. PICK q \in P : b = q[3]
      BY <2>1 DEF Reached
    <3>2. q \in Q
      BY <1>4, <3>1
    <3>3. QED BY <3>1, <3>2 DEF Reached
  <2> DEFINE A == Blocks \ fr
             B == Blocks \ (fr \cup F)
  <2>3. IsFiniteSet(A) /\ IsFiniteSet(B) /\ A = B \cup F /\ B \cap F = {}
    BY <1>0, <1>2, FS_Subset
  <2> HIDE DEF A, B
  <2>4. Cardinality(A) = Cardinality(B) + Cardinality(F)
    <3>1. Cardinality(B \cup F) = Cardinality(B) + Cardinality(F) - Cardinality(B \cap F)
      BY <1>1, <2>3, FS_Union
    <3>2. Cardinality(B \cap F) = 0
      BY <2>3, FS_EmptySet
    <3>3. Cardinality(B) \in Nat
      BY <2>3, FS_CardinalityType
    <3>4. QED BY <1>1, <2>3, <3>1, <3>2, <3>3
  <2>5. Cardinality(B) \in Nat
    BY <2>3, FS_CardinalityType
  <2>6. nb = Cardinality(A) + released
    BY <2>1 DEF A
  <2>7. nb = Cardinality(B) + (released + Cardinality(F))
    BY <1>1, <2>4, <2>5, <2>6
  <2>8. QED BY <2>2, <2>7 DEF B
<1>5. QED BY <1>1, <1>3, <1>4 DEF MemOk

LEMMA TruncZeroStep ==
  ASSUME NEW t \in Threads, FileInv(t), calls' \in 0..MaxCalls, TruncZero(t)
  PROVE  FileInv(t)'
<1> DEFINE c == call[t]
           d == [c EXCEPT !.pc = "update", !.olddb = i_db, !.oldib = i_ib]
<1>0. TypeOK /\ c \in Calls /\ c.pc = "zero" /\ i_db \in Dbs /\ i_ib \in Ibs
  BY HeldFacts DEF FileInv, TruncZero
<1>1. c.op = "truncate" /\ c.released = 0
  BY <1>0 DEF FileInv, CallOk
<1>2. i_db' = StayDb(i_db, c.length) /\ i_ib' = StayIb(i_ib, c.length)
  <2>1. DOMAIN i_db = 0..(NDADDR - 1) /\ DOMAIN i_ib = 0..(NIADDR - 1)
    BY <1>0 DEF Dbs, Ibs
  <2>2. QED BY <2>1 DEF TruncZero, StayDb, StayIb
<1>3. d \in Calls
  <2> HIDE DEF c
  <2> DEFINE d1 == [c EXCEPT !.pc = "update"]
             d2 == [d1 EXCEPT !.olddb = i_db]
  <2>1. d1 \in Calls
    BY <1>0, CallSet
  <2>2. d2 \in Calls
    BY <1>0, <2>1, CallSet
  <2>3. QED BY <1>0, <2>2, CallSet
<1>4. /\ d.pc = "update" /\ d.olddb = i_db /\ d.oldib = i_ib /\ d.op = c.op /\ d.released = 0
      /\ d.length = c.length
  BY <1>0, <1>1 DEF Calls
<1>5. Go(t, d)
  BY DEF TruncZero
<1> HIDE DEF d
<1>6. call'[t] = d /\ call' \in [Threads -> Calls]
  BY <1>0, <1>3, <1>5, GoFacts
<1>7. i_db' \in Dbs /\ i_ib' \in Ibs
  BY <1>0, <1>2, StayFacts
<1>8. TypeOK'
  BY <1>0, <1>6, <1>7 DEF TypeOK, TruncZero, Dbs, Ibs
<1>9. CurDb(t)' = CurDb(t) /\ CurIb(t)' = CurIb(t) /\ LongDb(t)' = LongDb(t) /\ LongIb(t)' = LongIb(t)
  BY <1>0, <1>4, <1>6 DEF CurDb, CurIb, LongDb, LongIb, InWindow
<1>10. Held(t)' = Held(t)
  BY <1>9 DEF Held, TruncZero
<1>11. MemOk(Held(t), free, faults, i_blocks, call[t].released)'
  BY <1>1, <1>4, <1>6, <1>10 DEF FileInv, MemOk, TruncZero
<1>12. CallOk(call[t], i_db, i_ib, Held(t))'
  BY <1>1, <1>2, <1>4, <1>6 DEF CallOk
<1>13. QED BY <1>8, <1>9, <1>10, <1>11, <1>12 DEF FileInv, TruncZero

LEMMA TruncUpdateStep ==
  ASSUME NEW t \in Threads, FileInv(t), calls' \in 0..MaxCalls, TruncUpdate(t)
  PROVE  FileInv(t)'
<1> DEFINE c == call[t]
           d == [c EXCEPT !.pc = "indir", !.olddb = NoDb, !.oldib = NoIb, !.level = NIADDR - 1]
<1>0. /\ TypeOK /\ c \in Calls /\ c.pc = "update" /\ i_db \in Dbs /\ i_ib \in Ibs
      /\ c.olddb \in Dbs /\ c.oldib \in Ibs
  BY HeldFacts DEF FileInv, TruncUpdate
<1>1. /\ c.op = "truncate" /\ c.released = 0
      /\ i_db = StayDb(c.olddb, c.length) /\ i_ib = StayIb(c.oldib, c.length)
  BY <1>0 DEF FileInv, CallOk
<1>2. NoDb \in Dbs /\ NoIb \in Ibs /\ NIADDR - 1 \in -1..(NIADDR - 1) /\ NIADDR - 1 \in 0..(NIADDR - 1)
  BY FileAssumption DEF NoDb, NoIb, Dbs, Ibs, Pointer
<1>3. d \in Calls
  <2> HIDE DEF c
  <2> DEFINE d1 == [c EXCEPT !.pc = "indir"]
             d2 == [d1 EXCEPT !.olddb = NoDb]
             d3 == [d2 EXCEPT !.oldib = NoIb]
  <2>1. d1 \in Calls
    BY <1>0, CallSet
  <2>2. d2 \in Calls
    BY <1>2, <2>1, CallSet
  <2>3. d3 \in Calls
    BY <1>2, <2>2, CallSet
  <2>4. d = [d3 EXCEPT !.level = NIADDR - 1]
    OBVIOUS
  <2> HIDE DEF d3
  <2>5. QED BY <1>2, <2>3, <2>4, CallSet
<1>4. d.pc = "indir" /\ d.op = c.op /\ d.released = 0 /\ d.length = c.length /\ d.level = NIADDR - 1
  BY <1>0, <1>1 DEF Calls
<1>5. Go(t, d)
  BY DEF TruncUpdate
<1> HIDE DEF d
<1>6. call'[t] = d /\ call' \in [Threads -> Calls]
  BY <1>0, <1>3, <1>5, GoFacts
<1>7. /\ i_db' = c.olddb /\ i_ib' = c.oldib /\ i_size' = c.osize
      /\ UNCHANGED <<i_blocks, ind, dind, free>>
  BY DEF TruncUpdate
<1>8. /\ faults' \in 0..MaxFaults /\ (faults' = 0 => faults = 0) /\ exposed' \in BOOLEAN
      /\ (exposed' \/ dinode' = Dinode)
      /\ dinode' \in [db : Dbs, ib : Ibs]
  <2>1. CASE dinode' = Dinode /\ exposed' = FALSE /\ UNCHANGED faults
    BY <1>0, <2>1 DEF TypeOK, Dinode
  <2>2. CASE Fault /\ exposed' = TRUE /\ UNCHANGED dinode
    BY <1>0, <2>2, FaultFacts DEF TypeOK, Dbs, Ibs
  <2>3. QED BY <2>1, <2>2 DEF TruncUpdate
<1>9. i_size' \in 0..(MaxLbn * BSize)
  BY <1>0, <1>7 DEF Calls
<1>10. TypeOK'
  BY <1>0, <1>6, <1>7, <1>8, <1>9 DEF TypeOK, Dbs, Ibs
<1>11. /\ CurDb(t)' = CurDb(t) /\ CurIb(t)' = CurIb(t)
       /\ LongDb(t)' = i_db /\ LongIb(t)' = i_ib
  BY <1>0, <1>1, <1>4, <1>6, <1>7 DEF CurDb, CurIb, LongDb, LongIb, InWindow
<1>12. Held(t)' = Held(t)
  BY <1>7, <1>11 DEF Held
<1>13. MemOk(Held(t), free, faults, i_blocks, call[t].released)'
  BY <1>1, <1>4, <1>6, <1>7, <1>8, <1>12 DEF FileInv, MemOk
<1>14. CallOk(call[t], i_db, i_ib, Held(t))'
  <2>1. \A k \in (NIADDR - 1 + 1)..(NIADDR - 1) : Lastiblock(c.length, k) < 0
    BY FileAssumption
  <2>2. QED BY <1>1, <1>2, <1>4, <1>6, <2>1 DEF CallOk
<1>15. (~exposed => PartOf(dinode.db, dinode.ib, LongDb(t), LongIb(t)))'
  BY <1>8, <1>11, PartSelf DEF Dinode
<1>16. IndOk(Held(t), ind, dind)'
  BY <1>7, <1>12 DEF FileInv
<1>17. QED BY <1>10, <1>13, <1>14, <1>15, <1>16 DEF FileInv

LEMMA TruncDoneStep ==
  ASSUME NEW t \in Threads, FileInv(t), calls' \in 0..MaxCalls, TruncDone(t)
  PROVE  FileInv(t)'
<1> DEFINE c == call[t]
           n == Cardinality(Blocks \ free)
<1>0. TypeOK /\ c \in Calls /\ c.pc = "done" /\ c.released \in Nat /\ c.length \in 0..(MaxLbn * BSize)
      /\ i_blocks \in Nat
  <2>1. TypeOK /\ c \in Calls /\ c.pc = "done"
    BY HeldFacts DEF FileInv, TruncDone
  <2>2. QED BY <2>1 DEF TypeOK, Calls
<1>1. call'[t] = NoCall /\ call' \in [Threads -> Calls]
  BY <1>0, GoFacts, NoCallFacts DEF TruncDone, Return
<1>2. i_blocks' = IF i_blocks - c.released <= 0 THEN 0 ELSE i_blocks - c.released
  <2>1. i_blocks' = Max({0, i_blocks - c.released})
    BY DEF TruncDone
  <2>2. i_blocks - c.released \in Int /\ 0 \in Int
    BY <1>0
  <2> DEFINE m == i_blocks - c.released
  <2>3. Max({0, m}) = IF 0 >= m THEN 0 ELSE m
    <3> HIDE DEF m
    <3>1. QED BY <2>2, MaxOfTwo DEF m
  <2>4. QED BY <2>1, <2>2, <2>3
<1>3. i_blocks' \in Nat
  BY <1>0, <1>2
<1>4. TypeOK'
  BY <1>0, <1>1, <1>3 DEF TypeOK, TruncDone
<1>5. CurDb(t)' = CurDb(t) /\ CurIb(t)' = CurIb(t) /\ LongDb(t)' = LongDb(t) /\ LongIb(t)' = LongIb(t)
  BY <1>0, <1>1, NoCallFacts DEF CurDb, CurIb, LongDb, LongIb, InWindow, TruncDone
<1>6. Held(t)' = Held(t)
  BY <1>5 DEF Held, TruncDone
<1>7. MemOk(Held(t), free, faults, i_blocks, call[t].released)'
  <2>1. n \in Nat
    BY FileAssumption, FS_Subset, FS_CardinalityType
  <2>2. faults = 0 => i_blocks = n + c.released
    BY DEF FileInv, MemOk
  <2> HIDE DEF n
  <2>3. faults = 0 => i_blocks' = n + 0
    BY <1>0, <1>2, <2>1, <2>2
  <2>4. call'[t].released = 0 /\ free' = free /\ faults' = faults
    BY <1>1, NoCallFacts DEF TruncDone
  <2>5. QED BY <1>6, <2>3, <2>4 DEF FileInv, MemOk, n
<1>8. CallOk(call[t], i_db, i_ib, Held(t))'
  BY <1>1, NoCallFacts
<1>9. QED BY <1>4, <1>5, <1>6, <1>7, <1>8 DEF FileInv, TruncDone

\* The direct blocks are given back.
LEMMA DirectCut ==
  ASSUME NEW content \in Contents, NEW db \in Dbs, NEW ib \in Ibs, NEW length,
         Inj(Pointers(db, ib, content))
  PROVE  LET P == Pointers(db, ib, content)
             Q == Pointers(StayDb(db, length), ib, content)
             F == {db[l] : l \in {m \in DOMAIN db : m > Lastblock(length)}} \ {0} IN
         /\ Q \subseteq P /\ F \subseteq Reached(P) /\ Reached(Q) \cap F = {}
         /\ \A q \in P : q \in Q \/ q[3] \in F
<1> DEFINE P == Pointers(db, ib, content)
           e == StayDb(db, length)
           Q == Pointers(e, ib, content)
           F == {db[l] : l \in {m \in DOMAIN db : m > Lastblock(length)}} \ {0}
<1>0. e \in Dbs /\ PartOf(e, ib, db, ib)
  <2>1. e \in Dbs /\ Part(e, db, NDADDR)
    BY StayFacts DEF PartOf
  <2>2. Part(ib, ib, NIADDR)
    BY DEF Part
  <2>3. QED BY <2>1, <2>2 DEF PartOf
<1>1. /\ P \in SUBSET Places /\ Live(Top(db, ib)) \subseteq P /\ Closed(P, content)
      /\ \A S : Live(Top(db, ib)) \subseteq S /\ Closed(S, content) => P \subseteq S
  BY PointersFacts
<1>2. Live(Top(e, ib)) \subseteq Q /\ Closed(Q, content)
  BY <1>0, PointersFacts
<1>3. Q \subseteq P
  BY <1>0, Fewer
<1>4. \A b : b \in F <=> b # 0 /\ \E l \in 0..(NDADDR - 1) : l > Lastblock(length) /\ b = db[l]
  BY DEF Dbs
<1>5. \A l \in 0..(NDADDR - 1) : e[l] = IF l > Lastblock(length) THEN 0 ELSE db[l]
  BY DEF StayDb
<1> HIDE DEF F, e
<1>6. \A p \in P : p[3] # 0
  BY <1>1, FileAssumption DEF Places
<1>7. ASSUME NEW l \in 0..(NDADDR - 1), db[l] # 0
      PROVE  DbAt(db, l) \in P /\ DbAt(db, l)[3] = db[l] /\ DbAt(db, l)[1] = 0 /\ DbAt(db, l)[2] = l
             /\ DbAt(db, l)[4] = 0
  BY <1>1, <1>7, TopFacts DEF DbAt
<1>8. F \subseteq Reached(P)
  BY <1>4, <1>7 DEF Reached
<1>9. ASSUME NEW q \in Q, q[3] \in F PROVE FALSE
  <2>1. PICK l \in 0..(NDADDR - 1) : l > Lastblock(length) /\ q[3] = db[l] /\ db[l] # 0
    BY <1>4, <1>9
  <2>2. q = DbAt(db, l)
    BY <1>3, <1>7, <2>1 DEF Inj
  <2>3. q[1] = 0 /\ q[2] = l /\ q[4] = 0 /\ q[3] # 0
    BY <1>7, <2>1, <2>2
  <2>4. CASE \E p \in Q, o \in Offsets : Has(content, p, o) /\ q = Below(content, p, o)
    BY <1>3, <1>6, <2>3, <2>4 DEF Below
  <2>5. CASE q \in Live(Top(e, ib))
    <3>1. CASE \E m \in 0..(NDADDR - 1) : e[m] # 0 /\ q = DbAt(e, m)
      <4>1. PICK m \in 0..(NDADDR - 1) : e[m] # 0 /\ q = DbAt(e, m)
        BY <3>1
      <4>2. m = l
        BY <2>3, <4>1 DEF DbAt
      <4>3. QED BY <1>5, <2>1, <4>1, <4>2
    <3>2. CASE \E m \in 0..(NIADDR - 1) : ib[m] # 0 /\ q = IbAt(ib, m)
      <4>1. PICK m \in 0..(NIADDR - 1) : q = IbAt(ib, m)
        BY <3>2
      <4>2. q[4] = m + 1 /\ m >= 0 /\ m \in Int
        BY <4>1, FileAssumption DEF IbAt
      <4>3. QED BY <2>3, <4>2
    <3>3. QED BY <1>0, <2>5, <3>1, <3>2, TopFacts
  <2>6. QED BY <1>0, <2>4, <2>5, PointersFrom
<1>10. ASSUME NEW y \in P PROVE y \in Q \/ y[3] \in F
  <2> DEFINE S == {q \in P : q \in Q \/ q[3] \in F}
  <2>1. ASSUME NEW q \in Live(Top(db, ib)) PROVE q \in S
    <3>1. CASE \E m \in 0..(NDADDR - 1) : db[m] # 0 /\ q = DbAt(db, m)
      <4>1. PICK m \in 0..(NDADDR - 1) : db[m] # 0 /\ q = DbAt(db, m)
        BY <3>1
      <4>2. CASE m > Lastblock(length)
        <5>1. q[3] \in F /\ q \in P
          BY <1>4, <1>7, <4>1, <4>2
        <5>2. QED BY <5>1
      <4>3. CASE ~(m > Lastblock(length))
        <5>1. e[m] = db[m]
          BY <1>5, <4>3
        <5>2. DbAt(e, m) \in Live(Top(e, ib)) /\ DbAt(e, m) = DbAt(db, m)
          BY <1>0, <4>1, <5>1, TopFacts DEF DbAt
        <5>3. QED BY <1>2, <1>3, <4>1, <5>2
      <4>4. QED BY <4>2, <4>3
    <3>2. CASE \E m \in 0..(NIADDR - 1) : ib[m] # 0 /\ q = IbAt(ib, m)
      BY <1>0, <1>2, <1>3, <3>2, TopFacts
    <3>3. QED BY <3>1, <3>2, TopFacts
  <2>2. ASSUME NEW q \in S, NEW o \in Offsets, Has(content, q, o) PROVE Below(content, q, o) \in S
    <3>1. q[3] \notin F
      <4> SUFFICES ASSUME q[3] \in F PROVE FALSE
        OBVIOUS
      <4>1. PICK l \in 0..(NDADDR - 1) : q[3] = db[l] /\ db[l] # 0
        BY <1>4
      <4>2. q = DbAt(db, l)
        BY <1>7, <4>1 DEF Inj
      <4>3. q[4] = 0
        BY <1>7, <4>1, <4>2
      <4>4. QED BY <2>2, <4>3 DEF Has
    <3>2. q \in Q
      BY <3>1
    <3>3. Below(content, q, o) \in Q
      BY <1>2, <2>2, <3>2 DEF Closed
    <3>4. QED BY <1>3, <3>3
  <2>3. Live(Top(db, ib)) \subseteq S /\ Closed(S, content)
    <3> HIDE DEF S
    <3>1. QED BY <2>1, <2>2 DEF Closed
  <2>4. P \subseteq S
    BY <1>1, <2>3
  <2>5. QED BY <2>4
<1>11. Reached(Q) \cap F = {}
  BY <1>9 DEF Reached
<1>12. QED BY <1>3, <1>8, <1>10, <1>11 DEF e, F

LEMMA TruncDirectStep ==
  ASSUME NEW t \in Threads, FileInv(t), calls' \in 0..MaxCalls, TruncDirect(t)
  PROVE  FileInv(t)'
<1> DEFINE c == call[t]
           F == {i_db[l] : l \in {m \in DOMAIN i_db : m > Lastblock(c.length)}} \ {0}
           r == c.released + Cardinality(F)
           d == [c EXCEPT !.pc = "done", !.released = r]
           P == Held(t)
           e == StayDb(i_db, c.length)
           Q == Pointers(e, i_ib, ind)
<1>0. /\ TypeOK /\ c \in Calls /\ c.pc = "direct" /\ i_db \in Dbs /\ i_ib \in Ibs /\ ind \in Contents
      /\ c.released \in Nat /\ free \in SUBSET Blocks /\ P \in SUBSET Places
  <2>1. TypeOK /\ c.pc = "direct"
    BY DEF FileInv, TruncDirect
  <2>2. c \in Calls
    BY <2>1, HeldFacts
  <2>3. c.released \in Nat
    BY <2>2 DEF Calls
  <2>4. QED BY <2>1, <2>2, <2>3, HeldFacts DEF TypeOK
<1>1. c.op = "truncate"
  BY <1>0 DEF FileInv, CallOk
<1>2. P = Pointers(i_db, i_ib, ind)
  BY <1>0 DEF Held, CurDb, CurIb
<1>3. MemOk(P, free, faults, i_blocks, c.released) /\ Inj(P)
  BY DEF FileInv, MemOk
<1>4. Q \subseteq P /\ F \subseteq Reached(P) /\ Reached(Q) \cap F = {} /\ \A q \in P : q \in Q \/ q[3] \in F
  BY <1>0, <1>2, <1>3, DirectCut
<1>5. i_db' = e /\ e \in Dbs
  <2>1. DOMAIN i_db = 0..(NDADDR - 1)
    BY <1>0 DEF Dbs
  <2>2. QED BY <1>0, <2>1, StayFacts DEF TruncDirect, StayDb
<1>6. free' = free \cup F /\ Go(t, d) /\ UNCHANGED <<i_ib, i_size, i_blocks, ind, dinode, dind, faults, exposed>>
  BY <1>0 DEF TruncDirect, Blkfree, Calls
<1> HIDE DEF F, e, Q, P, c
<1>7. Cardinality(F) \in Nat /\ MemOk(Q, free \cup F, faults, i_blocks, c.released + Cardinality(F))
  BY <1>0, <1>3, <1>4, Release
<1>8. r \in Nat
  BY <1>0, <1>7
<1>9. d \in Calls
  <2> HIDE DEF r
  <2> DEFINE d1 == [c EXCEPT !.pc = "done"]
  <2>1. d1 \in Calls
    BY <1>0, CallSet
  <2>2. QED BY <1>8, <2>1, CallSet
<1>10. d.pc = "done" /\ d.op = c.op /\ d.released = r
  BY <1>0 DEF Calls
<1> HIDE DEF d, r
<1>11. call'[t] = d /\ call' \in [Threads -> Calls]
  BY <1>0, <1>6, <1>9, GoFacts
<1>12. TypeOK'
  <2>1. free' \subseteq Blocks
    <3>1. Reached(P) \subseteq Blocks
      BY <1>0 DEF Reached, Places
    <3>2. QED BY <1>0, <1>4, <1>6, <3>1
  <2>2. QED BY <1>0, <1>5, <1>6, <1>11, <2>1 DEF TypeOK, Dbs
<1>13. CurDb(t)' = e /\ CurIb(t)' = i_ib /\ LongDb(t)' = e /\ LongIb(t)' = i_ib
  BY <1>5, <1>6, <1>10, <1>11 DEF CurDb, CurIb, LongDb, LongIb, InWindow
<1>14. Held(t)' = Q
  BY <1>6, <1>13 DEF Held, Q
<1>15. MemOk(Held(t), free, faults, i_blocks, call[t].released)'
  BY <1>6, <1>7, <1>10, <1>11, <1>14 DEF r
<1>16. CallOk(call[t], i_db, i_ib, Held(t))'
  BY <1>1, <1>10, <1>11 DEF CallOk
<1>17. (~exposed => PartOf(dinode.db, dinode.ib, LongDb(t), LongIb(t)))'
  <2>1. LongDb(t) = e /\ LongIb(t) = StayIb(i_ib, c.length)
    BY <1>0 DEF LongDb, LongIb, InWindow, e, c
  <2>2. PartOf(e, StayIb(i_ib, c.length), e, i_ib)
    <3>1. Part(StayIb(i_ib, c.length), i_ib, NIADDR)
      BY <1>0, StayFacts DEF PartOf
    <3>2. Part(e, e, NDADDR)
      BY DEF Part
    <3>3. QED BY <3>1, <3>2 DEF PartOf
  <2>3. ~exposed => PartOf(dinode.db, dinode.ib, e, i_ib)
    BY <2>1, <2>2, PartFacts DEF FileInv
  <2>4. QED BY <1>6, <1>13, <2>3
<1>18. IndOk(Held(t), ind, dind)'
  BY <1>4, <1>6, <1>14 DEF FileInv, IndOk, P
<1>19. QED BY <1>12, <1>15, <1>16, <1>17, <1>18 DEF FileInv

\* The cuts that are made below an indirect pointer of the inode.
LEMMA IndirCuts ==
  ASSUME ind \in [Blocks -> Indirs], NEW db \in Dbs, NEW ib \in Ibs, Inj(Pointers(db, ib, ind)),
         NEW length \in 0..(MaxLbn * BSize), NEW l \in 0..(NIADDR - 1), ib[l] # 0,
         \A k \in (l + 1)..(NIADDR - 1) : Lastiblock(length, k) < 0, NEW bad
  PROVE  LET n == Lastiblock(length, l)
             P == Pointers(db, ib, ind)
             K == Indirtrunc(l, ib[l], n, bad) IN
         CutSome(P, IbAt(ib, l), n, K) /\ CutOk(P, IbAt(ib, l), n, K, bad)
<1> DEFINE n == Lastiblock(length, l)
           P == Pointers(db, ib, ind)
           p == IbAt(ib, l)
<1>0. n \in -1..MaxLbn /\ n < Count[l + 1] /\ l \in Nat
  <2>1. n \in -1..(MaxLbn - 1)
    BY LastFacts
  <2>2. l + 1 \in 0..NIADDR /\ l \in Nat
    BY FileAssumption
  <2>3. Count[l + 1] \in Nat \ {0}
    BY <2>2, CountFacts
  <2>4. n >= 0 => n < Count[l + 1]
    BY LastBelow
  <2> HIDE DEF n
  <2>5. QED BY <2>1, <2>2, <2>3, <2>4, FileAssumption
<1>1. ind \in Contents
  BY DEF Contents
<1>2. P \in SUBSET Places /\ Live(Top(db, ib)) \subseteq P /\ Closed(P, ind)
  BY <1>1, PointersFacts
<1>3. p \in P /\ p[4] = l + 1 /\ p[3] = ib[l]
  BY <1>2, TopFacts DEF IbAt
<1>4. CutOk(P, p, n, Indirtrunc(l, p[3], n, bad), bad)
  <2> HIDE DEF P, p, n
  <2>1. Inj(P)
    BY DEF P
  <2>2. QED BY <1>0, <1>2, <1>3, <2>1, CutFacts
<1>5. QED BY <1>3, <1>4, CutSomeOk

\* What TruncIndir does below a pointer that is there, K being the cuts: either all that is
\* cut is written, or something is not.
Whole(t, bad, K, F, next) ==
  /\ IF bad = {} THEN UNCHANGED faults ELSE Fault
  /\ ind' = Trim(K, F, ind, Zeroes) /\ dind' = Trim(K, F, dind, Garbage)
  /\ Blkfree(t, F, next)
Tears(t, K, F, next) ==
  \E lost \in SUBSET {u[1] : u \in Kept(K)} :
    /\ Fault
    /\ ind' = [b \in Blocks |-> IF b \in F THEN Zeroes ELSE CutOrLost(b, K, lost)]
    /\ dind' = [b \in Blocks |-> IF b \in F THEN Garbage
                                 ELSE IF \E u \in Kept(K) : u[1] = b THEN CutOrLost(b, K, lost)
                                 ELSE dind[b]]
    /\ Blkfree(t, F, [next EXCEPT !.pc = "torn"])
LEMMA TruncIndirCases ==
  ASSUME NEW t \in Threads, TruncIndir(t), i_ib[call[t].level] # 0
  PROVE  LET c    == call[t]
             bn   == i_ib[c.level]
             last == Lastiblock(c.length, c.level)
             pc   == IF last >= 0 THEN "done" ELSE IF c.level = 0 THEN "direct" ELSE "indir"
             next == [c EXCEPT !.level = c.level - 1, !.pc = pc] IN
         \E bad : LET K == Indirtrunc(c.level, bn, last, bad)
                      F == FreedWith(K, bn, last) IN
                  Whole(t, bad, K, F, next) \/ Tears(t, K, F, next)
<1> DEFINE c == call[t]
           bn == i_ib[c.level]
           last == Lastiblock(c.length, c.level)
           pc == IF last >= 0 THEN "done" ELSE IF c.level = 0 THEN "direct" ELSE "indir"
           next == [c EXCEPT !.level = c.level - 1, !.pc = pc]
           Cut(bad) == Indirtrunc(c.level, bn, last, bad)
           F(bad) == FreedWith(Cut(bad), bn, last)
           Lost(bad, lost) ==
             /\ IF bad = {} /\ lost = {} THEN UNCHANGED faults ELSE Fault
             /\ ind' = [b \in Blocks |-> IF b \in F(bad) THEN Zeroes ELSE CutOrLost(b, Cut(bad), lost)]
             /\ dind' = [b \in Blocks |-> IF b \in F(bad) THEN Garbage
                                          ELSE IF \E u \in Kept(Cut(bad)) : u[1] = b
                                               THEN CutOrLost(b, Cut(bad), lost)
                                          ELSE dind[b]]
             /\ Blkfree(t, F(bad), IF lost = {} THEN next ELSE [next EXCEPT !.pc = "torn"])
<1>0. \E bad \in SUBSET {u[1] : u \in Cut({})} :
        \E lost \in SUBSET {u[1] : u \in Kept(Cut(bad))} : Lost(bad, lost)
  BY DEF TruncIndir, FreedWith
<1>1. PICK bad : \E lost \in SUBSET {u[1] : u \in Kept(Cut(bad))} : Lost(bad, lost)
  BY <1>0
<1>2. PICK lost \in SUBSET {u[1] : u \in Kept(Cut(bad))} : Lost(bad, lost)
  BY <1>1
<1> DEFINE K == Cut(bad)
           G == F(bad)
<1> HIDE DEF Cut, F, next
<1>3. CASE lost # {}
  <2>1. Tears(t, K, G, next)
    BY <1>2, <1>3 DEF Tears
  <2>2. QED BY <2>1 DEF Cut, F, next
<1>4. CASE lost = {}
  <2>1. ind' = Trim(K, G, ind, Zeroes) /\ dind' = Trim(K, G, dind, Garbage)
    BY <1>2, <1>4 DEF Trim, CutOrLost
  <2>2. Whole(t, bad, K, G, next)
    BY <1>2, <1>4, <2>1 DEF Whole
  <2>3. QED BY <2>2 DEF Cut, F, next
<1>5. QED BY <1>3, <1>4

\* When all is written, the file has what it keeps.
LEMMA TruncIndirStep ==
  ASSUME NEW t \in Threads, FileInv(t), calls' \in 0..MaxCalls, TruncIndir(t), call'[t].pc # "torn"
  PROVE  FileInv(t)'
<1> DEFINE c == call[t]
           l == c.level
           bn == i_ib[l]
           last == Lastiblock(c.length, l)
           pc == IF last >= 0 THEN "done" ELSE IF l = 0 THEN "direct" ELSE "indir"
           next == [c EXCEPT !.level = l - 1, !.pc = pc]
           ib == IF last < 0 THEN [i_ib EXCEPT ![l] = 0] ELSE i_ib
           P == Held(t)
<1>0. /\ TypeOK /\ c \in Calls /\ c.pc = "indir" /\ i_db \in Dbs /\ i_ib \in Ibs
      /\ ind \in [Blocks -> Indirs] /\ ind \in Contents /\ dind \in Contents
      /\ c.released \in Nat /\ c.length \in 0..(MaxLbn * BSize)
      /\ free \in SUBSET Blocks /\ P \in SUBSET Places
  <2>1. TypeOK /\ c.pc = "indir"
    BY DEF FileInv, TruncIndir
  <2>2. c \in Calls
    BY <2>1, HeldFacts
  <2>3. c.released \in Nat /\ c.length \in 0..(MaxLbn * BSize)
    BY <2>2 DEF Calls
  <2>4. QED BY <2>1, <2>2, <2>3, HeldFacts DEF TypeOK
<1>1. /\ c.op = "truncate" /\ l \in 0..(NIADDR - 1)
      /\ \A k \in (l + 1)..(NIADDR - 1) : Lastiblock(c.length, k) < 0
  BY <1>0 DEF FileInv, CallOk
<1>2. P = Pointers(i_db, i_ib, ind)
  BY <1>0 DEF Held, CurDb, CurIb
<1>3. MemOk(P, free, faults, i_blocks, c.released) /\ Inj(P)
  BY DEF FileInv, MemOk
<1>4. last \in -1..(MaxLbn - 1) /\ last \in -1..MaxLbn /\ last \in Int /\ l \in Int
  <2>1. last \in -1..(MaxLbn - 1)
    BY <1>0, <1>1, LastFacts
  <2> HIDE DEF last
  <2>2. QED BY <1>1, <2>1, FileAssumption
<1>5. next \in Calls /\ next.pc = pc /\ next.level = l - 1 /\ next.op = c.op /\ next.length = c.length
      /\ next.released = c.released
  <2> HIDE DEF last
  <2>1. l - 1 \in -1..(NIADDR - 1)
    BY <1>1, FileAssumption
  <2>2. pc \in {"done", "direct", "indir"}
    OBVIOUS
  <2> HIDE DEF pc
  <2>3. next.pc = pc /\ next.level = l - 1 /\ next.op = c.op /\ next.length = c.length
        /\ next.released = c.released
    BY <1>0 DEF Calls
  <2> HIDE DEF c, l
  <2> DEFINE d1 == [c EXCEPT !.level = l - 1]
  <2>4. d1 \in Calls
    BY <1>0, <2>1, CallSet
  <2>5. next \in Calls
    BY <2>2, <2>4, CallSet
  <2>6. QED BY <2>3, <2>5
<1>6. ib \in Ibs
  BY <1>0, <1>1 DEF Ibs, Pointer
<1>7. /\ UNCHANGED <<i_db, i_size, i_blocks, dinode, exposed>>
  BY DEF TruncIndir
<1>8. ASSUME NEW d \in Calls, d.pc = pc, d.level = l - 1, d.op = c.op, d.length = c.length,
             call'[t] = d, i_ib' = ib
      PROVE  /\ \A db, e, S : CallOk(d, db, e, S)
             /\ ~exposed => PartOf(dinode.db, dinode.ib, LongDb(t)', LongIb(t)')
             /\ CurDb(t)' = i_db /\ CurIb(t)' = ib
  <2>1. last < 0 /\ l # 0 => l - 1 \in 0..(NIADDR - 1) /\ \A k \in (l - 1 + 1)..(NIADDR - 1) : Lastiblock(c.length, k) < 0
    <3> SUFFICES ASSUME last < 0, l # 0
                 PROVE  l - 1 \in 0..(NIADDR - 1) /\ \A k \in (l - 1 + 1)..(NIADDR - 1) : Lastiblock(c.length, k) < 0
      OBVIOUS
    <3>1. \A k \in (l - 1 + 1)..(NIADDR - 1) : k = l \/ k \in (l + 1)..(NIADDR - 1)
      BY <1>1, FileAssumption
    <3>2. l - 1 \in 0..(NIADDR - 1)
      BY <1>1, FileAssumption
    <3>3. QED BY <1>1, <3>1, <3>2
  <2>2. \A db, e, S : CallOk(d, db, e, S)
    <3> HIDE DEF c, l, last
    <3>1. pc \in {"done", "direct", "indir"} /\ (pc = "indir" => last < 0 /\ l # 0)
      BY <1>4
    <3> HIDE DEF pc
    <3>2. QED BY <1>1, <1>8, <2>1, <3>1 DEF CallOk
  <2>3. CurDb(t)' = i_db /\ CurIb(t)' = ib
    BY <1>7, <1>8 DEF CurDb, CurIb
  <2>4. LongDb(t) = StayDb(i_db, c.length) /\ LongIb(t) = StayIb(i_ib, c.length)
    BY <1>0 DEF LongDb, LongIb, InWindow
  <2>5. ~exposed => PartOf(dinode.db, dinode.ib, StayDb(i_db, c.length), StayIb(i_ib, c.length))
    BY <2>4 DEF FileInv
  <2>6. CASE last >= 0
    <3>1. ib = i_ib
      BY <1>4, <2>6
    <3>2. d.pc = "done"
      BY <1>8, <2>6
    <3>3. LongDb(t)' = i_db /\ LongIb(t)' = i_ib
      BY <1>8, <2>3, <3>1, <3>2 DEF LongDb, LongIb, InWindow
    <3>4. ~exposed => PartOf(dinode.db, dinode.ib, i_db, i_ib)
      BY <1>0, <2>5, StayFacts, PartFacts
    <3>5. QED BY <2>2, <2>3, <3>3, <3>4
  <2>7. CASE last < 0
    <3>1. d.pc \in {"direct", "indir"}
      BY <1>4, <1>8, <2>7
    <3>2. LongDb(t)' = StayDb(i_db, c.length) /\ LongIb(t)' = StayIb(ib, c.length)
      BY <1>7, <1>8, <3>1 DEF LongDb, LongIb, InWindow
    <3>3. StayIb(ib, c.length) = StayIb(i_ib, c.length)
      <4>1. ib = [i_ib EXCEPT ![l] = 0]
        BY <2>7
      <4> HIDE DEF ib
      <4>2. \A k \in 0..(NIADDR - 1) : k # l => ib[k] = i_ib[k]
        BY <1>0, <4>1 DEF Ibs
      <4>3. \A k \in 0..(NIADDR - 1) :
              (IF Lastiblock(c.length, k) < 0 THEN 0 ELSE ib[k])
                = (IF Lastiblock(c.length, k) < 0 THEN 0 ELSE i_ib[k])
        BY <2>7, <4>2
      <4>4. QED BY <4>3 DEF StayIb
    <3>4. QED BY <2>2, <2>3, <2>5, <3>2, <3>3
  <2>8. QED BY <1>4, <2>6, <2>7
<1>9. CASE /\ bn = 0 /\ Go(t, next)
           /\ UNCHANGED <<i_ib, ind, dind, free, faults>>
  <2>1. i_ib' = ib
    <3>1. [i_ib EXCEPT ![l] = 0] = i_ib
      BY <1>0, <1>9 DEF Ibs
    <3>2. QED BY <1>9, <3>1
  <2>2. call'[t] = next /\ call' \in [Threads -> Calls]
    BY <1>0, <1>5, <1>9, GoFacts
  <2> HIDE DEF next
  <2>3. /\ CallOk(next, i_db', i_ib', P)
        /\ ~exposed => PartOf(dinode.db, dinode.ib, LongDb(t)', LongIb(t)')
        /\ CurDb(t)' = i_db /\ CurIb(t)' = ib
    BY <1>5, <1>8, <2>1, <2>2
  <2>4. Held(t)' = P
    BY <1>2, <1>9, <2>1, <2>3 DEF Held
  <2>5. TypeOK'
    BY <1>0, <1>7, <1>9, <2>2 DEF TypeOK
  <2>6. MemOk(Held(t), free, faults, i_blocks, call[t].released)'
    BY <1>3, <1>5, <1>7, <1>9, <2>2, <2>4
  <2>7. IndOk(Held(t), ind, dind)'
    BY <1>9, <2>4 DEF FileInv
  <2>8. QED BY <1>7, <2>2, <2>3, <2>4, <2>5, <2>6, <2>7 DEF FileInv
<1>10. ASSUME bn # 0, NEW bad, NEW K, K = Indirtrunc(l, bn, last, bad),
              Whole(t, bad, K, FreedWith(K, bn, last), next), i_ib' = ib
       PROVE  FileInv(t)'
  <2> DEFINE F == FreedWith(K, bn, last)
             Q == Pointers(i_db, ib, ind')
             r == c.released + Cardinality(F)
             d == [next EXCEPT !.released = r]
             p == IbAt(i_ib, l)
  <2>0. /\ IF bad = {} THEN UNCHANGED faults ELSE Fault
        /\ ind' = Trim(K, F, ind, Zeroes) /\ dind' = Trim(K, F, dind, Garbage)
        /\ Blkfree(t, F, next)
    BY <1>10 DEF Whole
  <2>1. CutSome(P, p, last, K) /\ CutOk(P, p, last, K, bad)
    BY <1>0, <1>1, <1>2, <1>3, <1>10, IndirCuts
  <2>2. /\ ind' \in [Blocks -> Indirs] /\ F \subseteq Reached(P) /\ F \subseteq Blocks
        /\ Q \subseteq P /\ Reached(Q) \cap F = {}
        /\ CutOk(P, p, last, K, {}) => \A q \in P : q \in Q \/ q[3] \in F
    <3>1. bn = i_ib[l] /\ ib = IF last < 0 THEN [i_ib EXCEPT ![l] = 0] ELSE i_ib
      OBVIOUS
    <3> HIDE DEF ib, last, l, bn
    <3>2. Inj(Pointers(i_db, i_ib, ind)) /\ CutSome(Pointers(i_db, i_ib, ind), IbAt(i_ib, l), last, K)
      BY <1>2, <1>3, <2>1
    <3> DEFINE R == Pointers(i_db, i_ib, ind)
               G == FreedWith(K, i_ib[l], last)
               T == Trim(K, G, ind, Zeroes)
               U == Pointers(i_db, ib, T)
    <3>3. i_ib[l] # 0 /\ l \in 0..(NIADDR - 1)
      BY <1>1, <1>10, <3>1
    <3>4. /\ T \in [Blocks -> Indirs] /\ G \subseteq Reached(R) /\ G \subseteq Blocks
          /\ U \subseteq R /\ Reached(U) \cap G = {}
          /\ CutOk(R, IbAt(i_ib, l), last, K, {}) => \A q \in R : q \in U \/ q[3] \in G
      BY <1>0, <1>4, <1>6, <3>1, <3>2, <3>3, Trimmed
    <3>5. G = F /\ R = P /\ T = ind' /\ U = Q
      BY <1>2, <2>0, <3>1
    <3> HIDE DEF G, R, T, U, F, P, Q
    <3>6. QED BY <3>4, <3>5
  <2>3. faults' \in 0..MaxFaults /\ (faults' = 0 => faults = 0 /\ bad = {})
    BY <1>0, <2>0, FaultFacts DEF TypeOK
  <2>4. free' = free \cup F /\ Go(t, d)
    <3>1. Go(t, [next EXCEPT !.released = next.released + Cardinality(F)]) /\ free' = free \cup F
      BY <2>0 DEF Blkfree
    <3>2. QED BY <1>5, <3>1
  <2>5. \A b \in Blocks : b \notin F => ind'[b] = dind'[b] \/ (ind'[b] = ind[b] /\ dind'[b] = dind[b])
    <3>1. /\ ind' = Trim(K, F, ind, Zeroes)
          /\ dind' = Trim(K, F, dind, Garbage)
      BY <2>0
    <3> HIDE DEF F
    <3>2. QED BY <3>1 DEF Trim
  <2>6. dind' \in Contents
    <3>1. dind' = Trim(K, F, dind, Garbage)
      BY <2>0
    <3> HIDE DEF F
    <3>2. \A b \in F : b \in Blocks => dind'[b] = Garbage
      BY <3>1 DEF Trim
    <3>3. \A b \in Blocks : dind'[b] \in Indirs \cup {Garbage}
      BY <1>0, <2>2, <2>5, <3>2 DEF Contents
    <3>4. dind' = [b \in Blocks |-> dind'[b]]
      BY <3>1 DEF Trim
    <3>5. QED BY <3>3, <3>4 DEF Contents
  <2> HIDE DEF F, Q, P, c, l, bn, last, next, ib, pc, p
  <2>7. Cardinality(F) \in Nat /\ MemOk(Q, free \cup F, faults', i_blocks, c.released + Cardinality(F))
    BY <1>0, <1>3, <2>1, <2>2, <2>3, Release
  <2>8. d \in Calls /\ d.pc = pc /\ d.level = l - 1 /\ d.op = c.op /\ d.length = c.length /\ d.released = r
    <3>1. r \in Nat
      BY <1>0, <2>7
    <3> HIDE DEF r
    <3>2. d \in Calls
      BY <1>5, <3>1, CallSet
    <3>3. d.pc = next.pc /\ d.level = next.level /\ d.op = next.op /\ d.length = next.length /\ d.released = r
      BY <1>5 DEF Calls
    <3>4. QED BY <1>5, <3>2, <3>3
  <2> HIDE DEF d, r
  <2>9. call'[t] = d /\ call' \in [Threads -> Calls]
    BY <1>0, <2>4, <2>8, GoFacts
  <2>10. /\ CallOk(d, i_db', i_ib', Q)
         /\ ~exposed => PartOf(dinode.db, dinode.ib, LongDb(t)', LongIb(t)')
         /\ CurDb(t)' = i_db /\ CurIb(t)' = ib
    BY <1>8, <1>10, <2>8, <2>9
  <2>11. Held(t)' = Q
    BY <2>10 DEF Held, Q
  <2>12. TypeOK'
    <3>1. free' \subseteq Blocks
      BY <1>0, <2>2, <2>4
    <3>2. QED BY <1>0, <1>6, <1>7, <1>10, <2>2, <2>3, <2>6, <2>9, <3>1 DEF TypeOK, Ibs, Contents
  <2>13. MemOk(Held(t), free, faults, i_blocks, call[t].released)'
    BY <1>7, <2>4, <2>7, <2>8, <2>9, <2>11 DEF r
  <2>14. IndOk(Q, ind', dind')
    <3> SUFFICES ASSUME NEW q \in Q, q[4] > 0
                 PROVE  dind'[q[3]] # Garbage /\ \A o \in Offsets : dind'[q[3]][o] \in {0, ind'[q[3]][o]}
      BY DEF IndOk
    <3>1. q \in P /\ q[3] \notin F /\ q[3] \in Blocks
      BY <1>0, <2>2 DEF Reached, Places
    <3>2. ind'[q[3]] # Garbage
      BY <2>2, <3>1, GarbageFacts
    <3>3. dind[q[3]] # Garbage /\ \A o \in Offsets : dind[q[3]][o] \in {0, ind[q[3]][o]}
      BY <3>1 DEF FileInv, IndOk, P
    <3>4. QED BY <2>5, <3>1, <3>2, <3>3
  <2>15. QED BY <1>7, <2>9, <2>10, <2>11, <2>12, <2>13, <2>14 DEF FileInv
<1>11. CASE bn # 0
  <2>1. i_ib' = ib
    BY <1>11 DEF TruncIndir
  <2>2. ASSUME NEW K, NEW F, Tears(t, K, F, next) PROVE FALSE
    <3>1. Go(t, [[next EXCEPT !.pc = "torn"] EXCEPT !.released = @ + Cardinality(F)])
      BY <2>2 DEF Tears, Blkfree
    <3> HIDE DEF next
    <3>2. call'[t].pc = "torn"
      BY <1>0, <1>5, <3>1 DEF Go, TypeOK, Calls
    <3>3. QED BY <3>2
  <2> HIDE DEF ib
  <2>3. \E bad : Whole(t, bad, Indirtrunc(l, bn, last, bad),
                      FreedWith(Indirtrunc(l, bn, last, bad), bn, last), next)
    BY <1>11, <2>2, TruncIndirCases
  <2> HIDE DEF c, l, bn, last, next, pc
  <2>4. QED BY <1>10, <1>11, <2>1, <2>3
<1>12. QED BY <1>9, <1>11 DEF TruncIndir

\* When something is not, the types stay: what is read back is what the disk had.
LEMMA TruncIndirTears ==
  ASSUME NEW t \in Threads, FileInv(t), calls' \in 0..MaxCalls, TruncIndir(t), call'[t].pc = "torn"
  PROVE  TypeOK'
<1> DEFINE c == call[t]
           l == c.level
           bn == i_ib[l]
           last == Lastiblock(c.length, l)
           pc == IF last >= 0 THEN "done" ELSE IF l = 0 THEN "direct" ELSE "indir"
           next == [c EXCEPT !.level = l - 1, !.pc = pc]
           P == Held(t)
<1>0. /\ TypeOK /\ c \in Calls /\ c.pc = "indir" /\ i_db \in Dbs /\ i_ib \in Ibs
      /\ ind \in [Blocks -> Indirs] /\ dind \in Contents
      /\ c.released \in Nat /\ c.length \in 0..(MaxLbn * BSize)
  <2>1. TypeOK /\ c.pc = "indir"
    BY DEF FileInv, TruncIndir
  <2>2. c \in Calls
    BY <2>1, HeldFacts
  <2>3. c.released \in Nat /\ c.length \in 0..(MaxLbn * BSize)
    BY <2>2 DEF Calls
  <2>4. QED BY <2>1, <2>2, <2>3, HeldFacts
<1>1. /\ l \in 0..(NIADDR - 1)
      /\ \A k \in (l + 1)..(NIADDR - 1) : Lastiblock(c.length, k) < 0
  BY <1>0 DEF FileInv, CallOk
<1>2. P = Pointers(i_db, i_ib, ind) /\ Inj(P)
  BY <1>0 DEF Held, CurDb, CurIb, FileInv, MemOk
<1>3. last \in -1..MaxLbn
  <2>1. last \in -1..(MaxLbn - 1)
    BY <1>0, <1>1, LastFacts
  <2> HIDE DEF last
  <2>2. QED BY <2>1, FileAssumption
<1>4. next \in Calls /\ next.pc # "torn"
  <2> HIDE DEF last
  <2>1. l - 1 \in -1..(NIADDR - 1)
    BY <1>1, FileAssumption
  <2>2. pc \in {"done", "direct", "indir"}
    OBVIOUS
  <2> HIDE DEF pc
  <2>3. next.pc = pc
    BY <1>0 DEF Calls
  <2> HIDE DEF c, l
  <2> DEFINE d1 == [c EXCEPT !.level = l - 1]
  <2>4. d1 \in Calls
    BY <1>0, <2>1, CallSet
  <2>5. next \in Calls
    BY <2>2, <2>4, CallSet
  <2>6. QED BY <2>2, <2>3, <2>5
<1>5. UNCHANGED <<i_db, i_size, i_blocks, dinode, exposed>>
  BY DEF TruncIndir
<1>6. i_ib' \in Ibs
  BY <1>0, <1>1 DEF TruncIndir, Ibs, Pointer
<1>7. ASSUME NEW F \in SUBSET Blocks, NEW d \in Calls, Blkfree(t, F, d), d.pc = "torn"
      PROVE  free' \subseteq Blocks /\ call' \in [Threads -> Calls]
  <2>1. Cardinality(F) \in Nat
    BY FileAssumption, FS_Subset, FS_CardinalityType
  <2>2. d.released + Cardinality(F) \in Nat
    BY <2>1 DEF Calls
  <2>3. [d EXCEPT !.released = @ + Cardinality(F)] \in Calls
    BY <2>2, CallSet
  <2>4. QED BY <1>0, <1>7, <2>3, GoFacts DEF Blkfree, TypeOK
<1>8. bn # 0
  <2> SUFFICES ASSUME bn = 0 PROVE FALSE
    OBVIOUS
  <2>1. Go(t, next)
    BY DEF TruncIndir
  <2> HIDE DEF next
  <2>2. call'[t] = next
    BY <1>0, <1>4, <2>1, GoFacts
  <2>3. QED BY <1>4, <2>2
<1>9. PICK bad : LET K == Indirtrunc(l, bn, last, bad)
                     F == FreedWith(K, bn, last) IN
                 Whole(t, bad, K, F, next) \/ Tears(t, K, F, next)
  BY <1>8, TruncIndirCases
<1> DEFINE K == Indirtrunc(l, bn, last, bad)
           F == FreedWith(K, bn, last)
           p == IbAt(i_ib, l)
<1>10. CutSome(P, p, last, K)
  BY <1>0, <1>1, <1>2, <1>8, IndirCuts
<1>11. F \subseteq Blocks
  <2>1. bn \in Blocks
    BY <1>0, <1>1, <1>8 DEF Ibs, Pointer
  <2>2. ASSUME NEW u \in K PROVE u[1] \in Blocks
    <3>1. PICK q \in P : q[3] = u[1]
      BY <1>10 DEF CutSome
    <3>2. QED BY <1>0, <3>1, HeldFacts
  <2> HIDE DEF K, bn, last
  <2>3. FreedBy(K) \subseteq Blocks
    <3>1. \A u \in K, o \in Offsets : ind[u[1]][o] \in Pointer
      BY <1>0, <2>2 DEF Indirs
    <3>2. QED BY <3>1 DEF FreedBy, Pointer
  <2>4. QED BY <2>1, <2>3 DEF FreedWith
<1>12. ASSUME NEW u \in Kept(K)
       PROVE  u[1] \in Blocks /\ dind[u[1]] \in Indirs
  <2>1. PICK q \in P : q[3] = u[1] /\ q[4] \in 1..p[4]
    BY <1>10 DEF CutSome, Kept
  <2>2. q[4] > 0 /\ q[3] \in Blocks
    BY <1>0, <2>1, HeldFacts
  <2>3. dind[q[3]] # Garbage
    BY <2>1, <2>2 DEF FileInv, IndOk
  <2>4. QED BY <1>0, <2>1, <2>2, <2>3 DEF Contents
<1>13. ~Whole(t, bad, K, F, next)
  <2> SUFFICES ASSUME Whole(t, bad, K, F, next) PROVE FALSE
    OBVIOUS
  <2> HIDE DEF next, F, K
  <2>1. Go(t, [next EXCEPT !.released = @ + Cardinality(F)])
    BY DEF Whole, Blkfree
  <2>2. call'[t].pc = next.pc
    BY <1>0, <1>4, <2>1 DEF Go, TypeOK, Calls
  <2>3. QED BY <1>4, <2>2
<1>14. Tears(t, K, F, next)
  BY <1>9, <1>13
<1> HIDE DEF K, F, next, P, p, c, l, bn, last, pc
<1>15. PICK lost \in SUBSET {u[1] : u \in Kept(K)} :
         /\ Fault
         /\ ind' = [b \in Blocks |-> IF b \in F THEN Zeroes ELSE CutOrLost(b, K, lost)]
         /\ dind' = [b \in Blocks |-> IF b \in F THEN Garbage
                                      ELSE IF \E u \in Kept(K) : u[1] = b THEN CutOrLost(b, K, lost)
                                      ELSE dind[b]]
         /\ Blkfree(t, F, [next EXCEPT !.pc = "torn"])
  BY <1>14 DEF Tears
<1>16. \A b \in Blocks : CutOrLost(b, K, lost) \in Indirs
  <2> TAKE b \in Blocks
  <2>1. CASE b \in lost
    BY <1>12, <1>15, <2>1 DEF CutOrLost
  <2>2. \A u : CutBlock(u, ind[b]) \in Indirs
    BY <1>0 DEF CutBlock, Indirs, Pointer
  <2>3. CASE b \notin lost
    BY <1>0, <2>2, <2>3 DEF CutOrLost
  <2>4. QED BY <2>1, <2>3
<1>17. ind' \in [Blocks -> Indirs] /\ dind' \in [Blocks -> Indirs \cup {Garbage}]
  BY <1>0, <1>15, <1>16, GarbageFacts DEF Contents
<1>18. faults' \in 0..MaxFaults
  BY <1>0, <1>15, FaultFacts
<1>19. free' \subseteq Blocks /\ call' \in [Threads -> Calls]
  <2> DEFINE d == [next EXCEPT !.pc = "torn"]
  <2>1. d \in Calls /\ d.pc = "torn"
    <3>1. d \in Calls
      BY <1>4, CallSet
    <3>2. QED BY <1>4, <3>1 DEF Calls
  <2> HIDE DEF d
  <2>2. Blkfree(t, F, d)
    BY <1>15 DEF d
  <2>3. QED BY <1>7, <1>11, <2>1, <2>2
<1>20. QED BY <1>0, <1>5, <1>6, <1>17, <1>18, <1>19 DEF TypeOK, Dbs, Ibs

\* ext2_alloc() gives the file a block that it does not have.
LEMMA NewBlockFacts ==
  ASSUME NEW t \in Threads, FileInv(t), free # {}
  PROVE  NewBlock \in free /\ NewBlock \in Blocks /\ NewBlock # 0 /\ \A p \in Held(t) : p[3] # NewBlock
<1>1. free \subseteq Blocks /\ Blocks \subseteq Nat \ {0}
  BY FileAssumption DEF FileInv, TypeOK
<1>2. NewBlock \in free
  <2>1. free \subseteq Nat
    BY <1>1
  <2>2. QED BY <2>1, MinOfSet DEF NewBlock
<1>3. Reached(Held(t)) \cap free = {}
  BY DEF FileInv, MemOk
<1>4. QED BY <1>1, <1>2, <1>3 DEF Reached

LEMMA Taken ==
  ASSUME NEW P \in SUBSET Places, NEW fr \in SUBSET Blocks, NEW nf, NEW nb, NEW released \in Nat,
         MemOk(P, fr, nf, nb, released), NEW b \in fr, NEW n, n[3] = b
  PROVE  MemOk(P \cup {n}, fr \ {b}, nf, nb + 1, released)
<1>1. \A p \in P : p[3] # b
  BY DEF MemOk, Reached
<1>2. Inj(P \cup {n}) /\ Reached(P \cup {n}) \cap (fr \ {b}) = {}
  BY <1>1 DEF MemOk, Inj, Reached
<1>3. ASSUME nf = 0
      PROVE  /\ Blocks \ (fr \ {b}) \subseteq Reached(P \cup {n})
             /\ nb + 1 = Cardinality(Blocks \ (fr \ {b})) + released
  <2>1. Blocks \ fr \subseteq Reached(P) /\ nb = Cardinality(Blocks \ fr) + released
    BY <1>3 DEF MemOk
  <2> DEFINE A == Blocks \ fr
  <2>2. Blocks \ (fr \ {b}) = A \cup {b} /\ b \notin A /\ IsFiniteSet(A)
    BY FileAssumption, FS_Subset
  <2> HIDE DEF A
  <2>3. Cardinality(A \cup {b}) = Cardinality(A) + 1 /\ Cardinality(A) \in Nat
    BY <2>2, FS_AddElement, FS_CardinalityType
  <2>4. nb = Cardinality(A) + released
    BY <2>1 DEF A
  <2>5. nb + 1 = Cardinality(A \cup {b}) + released
    BY <2>3, <2>4
  <2>6. A \cup {b} \subseteq Reached(P \cup {n})
    BY <2>1 DEF Reached, A
  <2>7. QED BY <2>2, <2>5, <2>6
<1>4. QED BY <1>2, <1>3 DEF MemOk

LEMMA AllocStep ==
  ASSUME NEW t \in Threads, FileInv(t), calls' \in 0..MaxCalls, free # {}, Take(NewBlock),
         call[t].pc \notin {"update", "indir", "direct", "done"},
         NEW d \in Calls, Go(t, d), d.pc \in {"balloc", "size", "walk"}, d.released = 0,
         i_db' \in Dbs, i_ib' \in Ibs, ind' \in [Blocks -> Indirs], dind' \in Contents,
         NEW n, n[3] = NewBlock, Pointers(i_db', i_ib', ind') = Held(t) \cup {n},
         CallOk(d, i_db', i_ib', Held(t) \cup {n}), PartOf(i_db, i_ib, i_db', i_ib'),
         IndOk(Held(t) \cup {n}, ind', dind'), UNCHANGED <<i_size, dinode, faults, exposed>>
  PROVE  FileInv(t)'
<1>0. /\ TypeOK /\ free \in SUBSET Blocks /\ i_blocks \in Nat /\ Held(t) \in SUBSET Places
      /\ call[t].released = 0
  BY HeldFacts DEF FileInv, TypeOK, CallOk
<1>1. call'[t] = d /\ call' \in [Threads -> Calls]
  BY <1>0, GoFacts
<1>2. free' = free \ {NewBlock} /\ i_blocks' = i_blocks + 1
  BY DEF Take
<1>3. TypeOK'
  <2>1. i_blocks' \in Nat /\ free' \subseteq Blocks
    BY <1>0, <1>2
  <2>2. QED BY <1>0, <1>1, <2>1 DEF TypeOK, Dbs, Ibs, Contents
<1>4. /\ CurDb(t)' = i_db' /\ CurIb(t)' = i_ib' /\ LongDb(t)' = i_db' /\ LongIb(t)' = i_ib'
      /\ LongDb(t) = i_db /\ LongIb(t) = i_ib
  BY <1>1 DEF CurDb, CurIb, LongDb, LongIb, InWindow
<1>5. Held(t)' = Held(t) \cup {n}
  BY <1>4 DEF Held
<1>6. MemOk(Held(t) \cup {n}, free \ {NewBlock}, faults, i_blocks + 1, 0)
  <2>1. NewBlock \in free /\ MemOk(Held(t), free, faults, i_blocks, 0)
    BY <1>0, NewBlockFacts DEF FileInv
  <2>2. QED BY <1>0, <2>1, Taken
<1>7. MemOk(Held(t), free, faults, i_blocks, call[t].released)'
  BY <1>1, <1>2, <1>5, <1>6
<1>8. (~exposed => PartOf(dinode.db, dinode.ib, LongDb(t), LongIb(t)))'
  <2>1. ~exposed => PartOf(dinode.db, dinode.ib, i_db, i_ib)
    BY <1>4 DEF FileInv
  <2>2. ~exposed => PartOf(dinode.db, dinode.ib, i_db', i_ib')
    BY <2>1, PartFacts
  <2>3. QED BY <1>4, <2>2
<1>9. QED BY <1>1, <1>3, <1>5, <1>7, <1>8 DEF FileInv

LEMMA DirectAllocStep ==
  ASSUME NEW t \in Threads, FileInv(t), calls' \in 0..MaxCalls, DirectAlloc(t)
  PROVE  FileInv(t)'
<1> DEFINE c == call[t]
           b == NewBlock
           P == Held(t)
           n == <<0, c.lbn, b, 0>>
<1>0. /\ TypeOK /\ c \in Calls /\ c.pc = "dalloc" /\ i_db \in Dbs /\ i_ib \in Ibs
      /\ ind \in [Blocks -> Indirs] /\ ind \in Contents /\ dind \in Contents
  BY HeldFacts DEF FileInv, DirectAlloc
<1>1. /\ c.released = 0 /\ c.lbn < MaxLbn /\ c.last < MaxLbn /\ Levels(c.lbn) = 0 /\ i_db[c.lbn] = 0
  BY <1>0 DEF FileInv, CallOk
<1>2. c.lbn \in 0..(NDADDR - 1)
  <2>1. c.lbn \in 0..MaxLbn
    BY <1>0 DEF Calls
  <2>2. c.lbn \in 0..(MaxLbn - 1)
    BY <1>1, <2>1, FileAssumption
  <2>3. c.lbn < NDADDR
    BY <1>1, <2>2, LevelsFacts
  <2>4. QED BY <2>1, <2>3, FileAssumption
<1>3. CASE Nospace(t) \/ Undo(t)
  BY <1>0, <1>3, NospaceStep, UndoStep
<1>4. CASE /\ free # {} /\ Take(NewBlock) /\ i_db' = [i_db EXCEPT ![c.lbn] = NewBlock] /\ Go(t, Got(c))
           /\ UNCHANGED <<i_ib, i_size, ind, dinode, dind, faults, exposed>>
  <2>1. b \in Blocks /\ b # 0 /\ \A p \in P : p[3] # b
    BY <1>4, NewBlockFacts
  <2>2. i_db' \in Dbs
    BY <1>0, <1>2, <1>4, <2>1 DEF Dbs, Pointer
  <2>3. i_db'[c.lbn] = b /\ \A l \in 0..(NDADDR - 1) : l # c.lbn => i_db'[l] = i_db[l]
    BY <1>0, <1>2, <1>4 DEF Dbs
  <2>4. P = Pointers(i_db, i_ib, ind)
    BY <1>0 DEF Held, CurDb, CurIb
  <2>5. n = DbAt(i_db', c.lbn) /\ n[3] = b /\ n[4] = 0
    BY <2>3 DEF DbAt
  <2>6. n \in Live(Top(i_db', i_ib))
    BY <1>0, <1>2, <2>1, <2>2, <2>3, <2>5, TopFacts
  <2>7. Live(Top(i_db, i_ib)) \subseteq Live(Top(i_db', i_ib))
    <3> SUFFICES ASSUME NEW q \in Live(Top(i_db, i_ib)) PROVE q \in Live(Top(i_db', i_ib))
      OBVIOUS
    <3>1. CASE \E l \in 0..(NDADDR - 1) : i_db[l] # 0 /\ q = DbAt(i_db, l)
      <4>1. PICK l \in 0..(NDADDR - 1) : i_db[l] # 0 /\ q = DbAt(i_db, l)
        BY <3>1
      <4>2. i_db'[l] = i_db[l]
        BY <1>1, <2>3, <4>1
      <4>3. DbAt(i_db', l) \in Live(Top(i_db', i_ib)) /\ DbAt(i_db', l) = DbAt(i_db, l)
        BY <1>0, <2>2, <4>1, <4>2, TopFacts DEF DbAt
      <4>4. QED BY <4>1, <4>3
    <3>2. CASE \E l \in 0..(NIADDR - 1) : i_ib[l] # 0 /\ q = IbAt(i_ib, l)
      BY <1>0, <2>2, <3>2, TopFacts
    <3>3. QED BY <1>0, <3>1, <3>2, TopFacts
  <2>8. Live(Top(i_db', i_ib)) \subseteq Live(Top(i_db, i_ib)) \cup {n}
    <3> SUFFICES ASSUME NEW q \in Live(Top(i_db', i_ib)), q # n PROVE q \in Live(Top(i_db, i_ib))
      OBVIOUS
    <3>1. CASE \E l \in 0..(NDADDR - 1) : i_db'[l] # 0 /\ q = DbAt(i_db', l)
      <4>1. PICK l \in 0..(NDADDR - 1) : i_db'[l] # 0 /\ q = DbAt(i_db', l)
        BY <3>1
      <4>2. l # c.lbn
        BY <2>5, <4>1
      <4>3. i_db'[l] = i_db[l]
        BY <2>3, <4>2
      <4>4. DbAt(i_db, l) \in Live(Top(i_db, i_ib)) /\ DbAt(i_db', l) = DbAt(i_db, l)
        BY <1>0, <4>1, <4>3, TopFacts DEF DbAt
      <4>5. QED BY <4>1, <4>4
    <3>2. CASE \E l \in 0..(NIADDR - 1) : i_ib[l] # 0 /\ q = IbAt(i_ib, l)
      BY <1>0, <3>2, TopFacts
    <3>3. QED BY <1>0, <2>2, <3>1, <3>2, TopFacts
  <2> HIDE DEF n, b
  <2>9. \A o \in Offsets : ~Has(ind, n, o)
    BY <2>5 DEF Has
  <2>10. Pointers(i_db', i_ib, ind) = P \cup {n}
    <3>1. Adds(i_db, i_ib, ind, i_db', i_ib, ind, n)
      BY <2>6, <2>7, <2>8, <2>9 DEF Adds
    <3>2. QED BY <1>0, <2>2, <2>4, <3>1, Grown
  <2>11. PartOf(i_db, i_ib, i_db', i_ib)
    BY <1>1, <2>3 DEF PartOf, Part
  <2>12. IndOk(P \cup {n}, ind, dind)
    <3>1. IndOk(P, ind, dind)
      BY DEF FileInv
    <3> HIDE DEF P
    <3>2. QED BY <2>5, <3>1 DEF IndOk
  <2> HIDE DEF c
  <2>13. /\ Got(c) \in Calls /\ Got(c).pc \in {"balloc", "size"} /\ Got(c).released = 0
         /\ CallOk(Got(c), i_db', i_ib, P \cup {n})
    BY <1>0, <1>1, GotFacts
  <2>14. i_ib' = i_ib /\ ind' = ind /\ dind' = dind
    BY <1>4
  <2>15. n[3] = NewBlock /\ call[t].pc = "dalloc"
    BY <1>0, <2>5 DEF b, c
  <2>16. QED BY <1>0, <1>4, <2>2, <2>10, <2>11, <2>12, <2>13, <2>14, <2>15, AllocStep
<1>5. QED BY <1>3, <1>4 DEF DirectAlloc

LEMMA IndirAllocStep ==
  ASSUME NEW t \in Threads, FileInv(t), calls' \in 0..MaxCalls, IndirAlloc(t)
  PROVE  FileInv(t)'
<1> DEFINE c == call[t]
           b == NewBlock
           P == Held(t)
           k == Levels(c.lbn)
           n == <<0, NDADDR + (k - 1), b, k>>
           d == [c EXCEPT !.pc = "walk", !.i = 1, !.indirb = b]
<1>0. /\ TypeOK /\ c \in Calls /\ c.pc = "ialloc" /\ i_db \in Dbs /\ i_ib \in Ibs
      /\ ind \in [Blocks -> Indirs] /\ ind \in Contents /\ dind \in Contents /\ P \in SUBSET Places
  BY HeldFacts DEF FileInv, IndirAlloc
<1>1. c.released = 0 /\ c.lbn < MaxLbn /\ c.last < MaxLbn /\ k # 0 /\ i_ib[k - 1] = 0
  BY <1>0 DEF FileInv, CallOk
<1>2. k \in 1..NIADDR /\ k - 1 \in 0..(NIADDR - 1) /\ k - 1 + 1 = k /\ 1 \in 0..NIADDR /\ 1 \in 1..k
  <2>1. c.lbn \in 0..MaxLbn
    BY <1>0 DEF Calls
  <2>2. c.lbn \in 0..(MaxLbn - 1)
    BY <1>1, <2>1, FileAssumption
  <2>3. k \in 0..NIADDR
    BY <2>2, LevelsFacts
  <2>4. QED BY <1>1, <2>3, FileAssumption
<1>3. CASE Nospace(t) \/ Undo(t)
  BY <1>0, <1>3, NospaceStep, UndoStep
<1>4. CASE /\ free # {} /\ Take(NewBlock) /\ Cleared(NewBlock)
           /\ i_ib' = [i_ib EXCEPT ![k - 1] = NewBlock] /\ ind' = [ind EXCEPT ![NewBlock] = Zeroes]
           /\ Go(t, d) /\ UNCHANGED <<i_db, i_size, dinode, faults, exposed>>
  <2>1. b \in Blocks /\ b # 0 /\ \A p \in P : p[3] # b
    BY <1>4, NewBlockFacts
  <2>2. i_ib' \in Ibs
    BY <1>0, <1>2, <1>4, <2>1 DEF Ibs, Pointer
  <2>3. i_ib'[k - 1] = b /\ \A l \in 0..(NIADDR - 1) : l # k - 1 => i_ib'[l] = i_ib[l]
    BY <1>0, <1>2, <1>4 DEF Ibs
  <2>4. P = Pointers(i_db, i_ib, ind)
    BY <1>0 DEF Held, CurDb, CurIb
  <2>5. n = IbAt(i_ib', k - 1) /\ n[3] = b /\ n[4] = k
    BY <1>2, <2>3 DEF IbAt
  <2>6. n \in Live(Top(i_db, i_ib'))
    BY <1>0, <1>2, <2>1, <2>2, <2>3, <2>5, TopFacts
  <2>7. Live(Top(i_db, i_ib)) \subseteq Live(Top(i_db, i_ib'))
    <3> SUFFICES ASSUME NEW q \in Live(Top(i_db, i_ib)) PROVE q \in Live(Top(i_db, i_ib'))
      OBVIOUS
    <3>1. CASE \E l \in 0..(NIADDR - 1) : i_ib[l] # 0 /\ q = IbAt(i_ib, l)
      <4>1. PICK l \in 0..(NIADDR - 1) : i_ib[l] # 0 /\ q = IbAt(i_ib, l)
        BY <3>1
      <4>2. i_ib'[l] = i_ib[l]
        BY <1>1, <2>3, <4>1
      <4>3. IbAt(i_ib', l) \in Live(Top(i_db, i_ib')) /\ IbAt(i_ib', l) = IbAt(i_ib, l)
        BY <1>0, <2>2, <4>1, <4>2, TopFacts DEF IbAt
      <4>4. QED BY <4>1, <4>3
    <3>2. CASE \E l \in 0..(NDADDR - 1) : i_db[l] # 0 /\ q = DbAt(i_db, l)
      BY <1>0, <2>2, <3>2, TopFacts
    <3>3. QED BY <1>0, <3>1, <3>2, TopFacts
  <2>8. Live(Top(i_db, i_ib')) \subseteq Live(Top(i_db, i_ib)) \cup {n}
    <3> SUFFICES ASSUME NEW q \in Live(Top(i_db, i_ib')), q # n PROVE q \in Live(Top(i_db, i_ib))
      OBVIOUS
    <3>1. CASE \E l \in 0..(NIADDR - 1) : i_ib'[l] # 0 /\ q = IbAt(i_ib', l)
      <4>1. PICK l \in 0..(NIADDR - 1) : i_ib'[l] # 0 /\ q = IbAt(i_ib', l)
        BY <3>1
      <4>2. l # k - 1
        BY <2>5, <4>1
      <4>3. i_ib'[l] = i_ib[l]
        BY <2>3, <4>2
      <4>4. IbAt(i_ib, l) \in Live(Top(i_db, i_ib)) /\ IbAt(i_ib', l) = IbAt(i_ib, l)
        BY <1>0, <4>1, <4>3, TopFacts DEF IbAt
      <4>5. QED BY <4>1, <4>4
    <3>2. CASE \E l \in 0..(NDADDR - 1) : i_db[l] # 0 /\ q = DbAt(i_db, l)
      BY <1>0, <3>2, TopFacts
    <3>3. QED BY <1>0, <2>2, <3>1, <3>2, TopFacts
  <2> HIDE DEF n, b, P
  <2>9. /\ ind' \in [Blocks -> Indirs] /\ ind' \in Contents /\ ind'[b] = Zeroes
        /\ \A x \in Blocks : x # b => ind'[x] = ind[x]
    <3>1. ind' = [ind EXCEPT ![b] = Zeroes] /\ Zeroes \in Indirs
      BY <1>4, GarbageFacts DEF b
    <3>2. QED BY <1>0, <2>1, <3>1 DEF Contents
  <2>10. /\ dind' \in Contents /\ dind'[b] = Zeroes /\ \A x \in Blocks : x # b => dind'[x] = dind[x]
    <3>1. dind' = [dind EXCEPT ![b] = Zeroes] /\ Zeroes \in Indirs
      BY <1>4, GarbageFacts DEF b, Cleared
    <3>2. QED BY <1>0, <2>1, <3>1 DEF Contents
  <2>11. \A p \in P : p[3] \in Blocks /\ p[3] # b /\ ind'[p[3]] = ind[p[3]] /\ dind'[p[3]] = dind[p[3]]
    <3>1. \A p \in P : p[3] \in Blocks
      BY <1>0 DEF Places
    <3>2. QED BY <2>1, <2>9, <2>10, <3>1
  <2>12. \A o \in Offsets : ~Has(ind', n, o)
    BY <2>5, <2>9 DEF Has, Zeroes
  <2>13. \A p \in P, o \in Offsets : /\ Has(ind', p, o) <=> Has(ind, p, o)
                                     /\ Below(ind', p, o) = Below(ind, p, o)
    BY <2>11 DEF Has, Below
  <2>14. Pointers(i_db, i_ib', ind') = P \cup {n}
    <3>1. Adds(i_db, i_ib, ind, i_db, i_ib', ind', n)
      BY <2>4, <2>6, <2>7, <2>8, <2>12, <2>13 DEF Adds
    <3>2. QED BY <1>0, <2>2, <2>4, <2>9, <3>1, Grown
  <2>15. PartOf(i_db, i_ib, i_db, i_ib')
    BY <1>1, <2>3 DEF PartOf, Part
  <2>16. IndOk(P \cup {n}, ind', dind')
    <3>1. IndOk(P, ind, dind)
      BY DEF FileInv, P
    <3>2. Zeroes # Garbage /\ \A o \in Offsets : Zeroes[o] = 0
      BY GarbageFacts DEF Zeroes
    <3>3. QED BY <2>5, <2>9, <2>10, <2>11, <3>1, <3>2 DEF IndOk
  <2>17. d \in Calls /\ d.pc = "walk" /\ d.i = 1 /\ d.indirb = b /\ d.released = 0 /\ d.lbn = c.lbn
         /\ d.last = c.last
    <3>1. b \in Pointer
      BY <2>1 DEF Pointer
    <3>2. d.pc = "walk" /\ d.i = 1 /\ d.indirb = b /\ d.released = 0 /\ d.lbn = c.lbn /\ d.last = c.last
      BY <1>0, <1>1 DEF Calls
    <3> HIDE DEF c
    <3> DEFINE d1 == [c EXCEPT !.pc = "walk"]
               d2 == [d1 EXCEPT !.i = 1]
    <3>3. d1 \in Calls
      BY <1>0, CallSet
    <3>4. d2 \in Calls
      BY <1>2, <3>3, CallSet
    <3>5. d \in Calls
      BY <3>1, <3>4, CallSet
    <3>6. QED BY <3>2, <3>5
  <2> HIDE DEF d
  <2>18. CallOk(d, i_db, i_ib', P \cup {n})
    <3>1. \E p \in P \cup {n} : p[3] = d.indirb /\ p[4] = Levels(d.lbn) - d.i + 1
      BY <1>2, <2>5, <2>17
    <3>2. QED BY <1>1, <1>2, <2>17, <3>1 DEF CallOk
  <2>19. i_db' = i_db /\ n[3] = NewBlock /\ call[t].pc = "ialloc"
    BY <1>0, <1>4, <2>5 DEF b
  <2>20. /\ free # {} /\ Take(NewBlock) /\ Go(t, d) /\ UNCHANGED <<i_size, dinode, faults, exposed>>
         /\ call[t].pc \notin {"update", "indir", "direct", "done"} /\ d.pc \in {"balloc", "size", "walk"}
         /\ i_db' \in Dbs /\ Pointers(i_db', i_ib', ind') = Held(t) \cup {n}
         /\ CallOk(d, i_db', i_ib', Held(t) \cup {n}) /\ PartOf(i_db, i_ib, i_db', i_ib')
         /\ IndOk(Held(t) \cup {n}, ind', dind')
    BY <1>0, <1>4, <2>14, <2>15, <2>16, <2>17, <2>18, <2>19 DEF P
  <2>21. QED BY <2>2, <2>9, <2>10, <2>17, <2>19, <2>20, AllocStep
<1>5. QED BY <1>3, <1>4 DEF IndirAlloc

LEMMA WalkStep ==
  ASSUME NEW t \in Threads, FileInv(t), calls' \in 0..MaxCalls, Walk(t)
  PROVE  FileInv(t)'
<1> DEFINE c == call[t]
           off == InOff(c.lbn, c.i)
           x == c.indirb
           nb == ind[x][off]
           k == Levels(c.lbn)
           leaf == c.i = k
           P == Held(t)
           Down(y) == [c EXCEPT !.i = c.i + 1, !.indirb = y]
<1>0. /\ TypeOK /\ c \in Calls /\ c.pc = "walk" /\ i_db \in Dbs /\ i_ib \in Ibs
      /\ ind \in [Blocks -> Indirs] /\ ind \in Contents /\ dind \in Contents
      /\ P \in SUBSET Places /\ Closed(P, ind) /\ Inj(P)
      /\ \A p \in P : p[3] \in Blocks /\ p[3] # 0 /\ p[4] \in 0..NIADDR
  <2>1. TypeOK /\ c.pc = "walk" /\ Inj(P)
    BY DEF FileInv, Walk, MemOk
  <2>2. QED BY <2>1, HeldFacts
<1>1. c.released = 0 /\ c.lbn < MaxLbn /\ c.last < MaxLbn /\ c.i \in 1..k
  BY <1>0 DEF FileInv, CallOk
<1>2. PICK p0 \in P : p0[3] = x /\ p0[4] = k - c.i + 1
  BY <1>0 DEF FileInv, CallOk
<1>3. c.lbn \in 0..(MaxLbn - 1) /\ k \in 0..NIADDR /\ k \in Int /\ c.i \in Int
  <2>1. c.lbn \in 0..MaxLbn /\ c.i \in 0..NIADDR
    BY <1>0 DEF Calls
  <2>2. c.lbn \in 0..(MaxLbn - 1)
    BY <1>1, <2>1, FileAssumption
  <2>3. QED BY <2>1, <2>2, LevelsFacts, FileAssumption
<1>4. off \in Offsets /\ x \in Blocks /\ ind[x] \in Indirs /\ nb \in Pointer /\ p0[4] > 0
  <2>1. off \in Offsets
    BY <1>1, <1>3, InOffFacts
  <2>2. x \in Blocks
    BY <1>0, <1>2
  <2>3. p0[4] > 0
    BY <1>1, <1>2, <1>3
  <2>4. QED BY <1>0, <2>1, <2>2, <2>3 DEF Indirs
<1>5. ASSUME NEW y \in Pointer, ~leaf
      PROVE  /\ Down(y) \in Calls /\ Down(y).pc = "walk" /\ Down(y).released = 0
             /\ \A db, ib, S : (\E q \in S : q[3] = y /\ q[4] = p0[4] - 1) => CallOk(Down(y), db, ib, S)
  <2>1. c.i + 1 \in 0..NIADDR /\ c.i + 1 \in 1..k /\ p0[4] - 1 = k - (c.i + 1) + 1
    <3>1. c.i # k
      BY <1>5
    <3>2. NIADDR \in Nat /\ c.i \in 1..k /\ k \in 0..NIADDR /\ p0[4] = k - c.i + 1
      BY <1>1, <1>2, <1>3, FileAssumption
    <3> HIDE DEF c, k
    <3>3. QED BY <3>1, <3>2
  <2>2. /\ Down(y).pc = "walk" /\ Down(y).released = 0 /\ Down(y).lbn = c.lbn /\ Down(y).last = c.last
        /\ Down(y).i = c.i + 1 /\ Down(y).indirb = y
    BY <1>0, <1>1 DEF Calls
  <2>3. Down(y) \in Calls
    <3> HIDE DEF c
    <3> DEFINE d1 == [c EXCEPT !.i = c.i + 1]
    <3>1. d1 \in Calls
      BY <1>0, <2>1, CallSet
    <3>2. QED BY <3>1, CallSet
  <2> HIDE DEF Down
  <2>4. QED BY <1>1, <2>1, <2>2, <2>3 DEF CallOk
<1>6. /\ Got(c) \in Calls /\ Got(c).pc \in {"balloc", "size"} /\ Got(c).released = 0
      /\ \A db, ib, S : CallOk(Got(c), db, ib, S)
  <2> HIDE DEF c
  <2>1. QED BY <1>0, <1>1, GotFacts
<1>7. faults \in 0..MaxFaults /\ i_size \in 0..(MaxLbn * BSize) /\ call[t].pc \notin {"update", "indir", "direct", "done"}
  BY <1>0 DEF TypeOK
<1>8. CASE Fault /\ Return(t) /\ UNCHANGED <<core, dinode, dind, free, exposed>>
  BY <1>0, <1>7, <1>8, FaultFacts, QuietReturn DEF core
<1>9. CASE /\ nb # 0 /\ Go(t, IF leaf THEN Got(c) ELSE Down(nb))
           /\ UNCHANGED <<core, dinode, dind, free, faults, exposed>>
  <2>0. /\ UNCHANGED <<i_db, i_ib, i_blocks, ind, dinode, dind, free, exposed>>
        /\ faults' = faults /\ i_size' = i_size /\ faults' \in 0..MaxFaults /\ i_size' \in 0..(MaxLbn * BSize)
    BY <1>7, <1>9 DEF core
  <2>1. CASE leaf
    <3>1. Go(t, Got(c))
      BY <1>9, <2>1
    <3>2. QED BY <1>1, <1>6, <1>7, <2>0, <3>1, Quiet
  <2>2. CASE ~leaf
    <3>1. Go(t, Down(nb))
      BY <1>9, <2>2
    <3>2. Has(ind, p0, off)
      BY <1>2, <1>4, <1>9, GarbageFacts DEF Has
    <3>3. Below(ind, p0, off) \in P /\ Below(ind, p0, off)[3] = nb /\ Below(ind, p0, off)[4] = p0[4] - 1
      BY <1>0, <1>2, <1>4, <3>2 DEF Closed, Below
    <3>4. CallOk(Down(nb), i_db, i_ib, P)
      BY <1>4, <1>5, <2>2, <3>3
    <3>5. Down(nb) \in Calls /\ Down(nb).pc = "walk" /\ Down(nb).released = 0
      BY <1>4, <1>5, <2>2
    <3> HIDE DEF Down
    <3>6. QED BY <1>1, <1>7, <2>0, <3>1, <3>4, <3>5, Quiet
  <2>3. QED BY <2>1, <2>2
<1>10. CASE Nospace(t) \/ Undo(t)
  BY <1>7, <1>10, NospaceStep, UndoStep
<1>11. CASE Fault /\ Goto(t, "panic") /\ UNCHANGED <<core, dinode, dind, free, exposed>>
  <2> DEFINE d == [c EXCEPT !.pc = "panic"]
  <2>1. d \in Calls /\ Go(t, d)
    BY <1>0, <1>11, CallSet DEF Goto
  <2>2. d.pc = "panic" /\ d.released = 0
    BY <1>0, <1>1 DEF Calls
  <2> HIDE DEF d
  <2>3. CallOk(d, i_db, i_ib, P)
    BY <2>2 DEF CallOk
  <2>4. QED BY <1>0, <1>1, <1>7, <1>11, <2>1, <2>2, <2>3, FaultFacts, Quiet DEF core
<1>12. CASE /\ nb = 0 /\ free # {} /\ Take(NewBlock)
            /\ \/ leaf /\ Go(t, Got(c)) /\ UNCHANGED dind
               \/ ~leaf /\ Cleared(NewBlock) /\ Go(t, Down(NewBlock))
            /\ ind' = [ind EXCEPT ![x][off] = NewBlock, ![NewBlock] = Zeroes]
            /\ UNCHANGED <<i_db, i_ib, i_size, dinode, faults, exposed>>
  <2> DEFINE b == NewBlock
             n == <<x, off, b, p0[4] - 1>>
  <2>1. b \in Blocks /\ b # 0 /\ b \in Pointer /\ \A p \in P : p[3] # b
    BY <1>12, NewBlockFacts DEF Pointer
  <2>2. x # b
    BY <1>2, <2>1
  <2>3. P = Pointers(i_db, i_ib, ind)
    BY <1>0 DEF Held, CurDb, CurIb
  <2> HIDE DEF b, P
  <2>4. /\ ind' \in [Blocks -> Indirs] /\ ind' \in Contents /\ ind'[b] = Zeroes
        /\ ind'[x] \in Indirs /\ ind'[x][off] = b /\ \A o \in Offsets : o # off => ind'[x][o] = ind[x][o]
        /\ \A y \in Blocks : y # b /\ y # x => ind'[y] = ind[y]
    <3> DEFINE e == [ind[x] EXCEPT ![off] = b]
               I == [ind EXCEPT ![x] = e]
    <3> HIDE DEF off, x
    <3>1. e \in Indirs /\ e[off] = b /\ \A o \in Offsets : o # off => e[o] = ind[x][o]
      BY <1>4, <2>1 DEF Indirs
    <3>2. ind' = [I EXCEPT ![b] = Zeroes] /\ Zeroes \in Indirs
      BY <1>12, GarbageFacts DEF b
    <3> HIDE DEF e
    <3>3. I \in [Blocks -> Indirs] /\ I[x] = e /\ \A y \in Blocks : y # x => I[y] = ind[y]
      BY <1>0, <1>4, <3>1
    <3> HIDE DEF I
    <3>4. ind' \in [Blocks -> Indirs] /\ ind'[b] = Zeroes /\ \A y \in Blocks : y # b => ind'[y] = I[y]
      BY <2>1, <3>2, <3>3
    <3>5. ind' \in Contents
      BY <3>4 DEF Contents
    <3>6. ind'[x] = e
      BY <1>4, <2>2, <3>3, <3>4
    <3>7. QED BY <3>1, <3>3, <3>4, <3>5, <3>6
  <2>5. n[3] = b /\ n[4] = p0[4] - 1 /\ n[1] = x /\ n[2] = off
    OBVIOUS
  <2>6. Has(ind', p0, off) /\ Below(ind', p0, off) = n
    <3>1. ind'[x] # Garbage
      BY <2>4, GarbageFacts
    <3>2. QED BY <1>2, <1>4, <2>1, <2>4, <3>1 DEF Has, Below
  <2> HIDE DEF n
  <2>7. \A o \in Offsets : ~Has(ind', n, o)
    BY <2>4, <2>5 DEF Has, Zeroes
  <2>8. ASSUME NEW p \in P, NEW o \in Offsets, ~(p = p0 /\ o = off)
        PROVE  (Has(ind', p, o) <=> Has(ind, p, o)) /\ Below(ind', p, o) = Below(ind, p, o)
    <3>1. CASE p = p0
      <4>1. ind'[x][o] = ind[x][o] /\ ind'[x] # Garbage /\ ind[x] # Garbage
        BY <1>4, <2>4, <2>8, <3>1, GarbageFacts
      <4>2. QED BY <1>2, <3>1, <4>1 DEF Has, Below
    <3>2. CASE p # p0
      <4>1. p[3] # x /\ p[3] # b /\ p[3] \in Blocks
        BY <1>0, <1>2, <2>1, <3>2 DEF Inj
      <4>2. ind'[p[3]] = ind[p[3]]
        BY <2>4, <4>1
      <4>3. QED BY <4>2 DEF Has, Below
    <3>3. QED BY <3>1, <3>2
  <2>9. ~Has(ind, p0, off)
    BY <1>2, <1>12 DEF Has
  <2>10. Pointers(i_db, i_ib, ind') = P \cup {n}
    <3>1. \A p \in Pointers(i_db, i_ib, ind), o \in Offsets :
            Has(ind', p, o) => \/ Has(ind, p, o) /\ Below(ind', p, o) = Below(ind, p, o)
                               \/ Below(ind', p, o) = n
      BY <2>3, <2>6, <2>8
    <3>2. \A p \in Pointers(i_db, i_ib, ind), o \in Offsets :
            Has(ind, p, o) => Has(ind', p, o) /\ Below(ind', p, o) = Below(ind, p, o)
      BY <2>3, <2>8, <2>9
    <3>3. \E p \in Pointers(i_db, i_ib, ind), o \in Offsets : Has(ind', p, o) /\ Below(ind', p, o) = n
      BY <1>4, <2>3, <2>6
    <3>4. Adds(i_db, i_ib, ind, i_db, i_ib, ind', n)
      BY <2>7, <3>1, <3>2, <3>3 DEF Adds
    <3>5. QED BY <1>0, <2>3, <2>4, <3>4, Grown
  <2>11. dind' \in Contents /\ (\A y \in Blocks : y # b => dind'[y] = dind[y])
         /\ (~leaf => dind'[b] = Zeroes)
    <3>1. CASE leaf
      BY <1>0, <1>12, <3>1
    <3>2. CASE ~leaf
      <4>1. dind' = [dind EXCEPT ![b] = Zeroes] /\ Zeroes \in Indirs
        BY <1>12, <3>2, GarbageFacts DEF b, Cleared
      <4>2. QED BY <1>0, <2>1, <4>1 DEF Contents
    <3>3. QED BY <3>1, <3>2
  <2>12. IndOk(P \cup {n}, ind', dind')
    <3>0. IndOk(P, ind, dind)
      BY DEF FileInv, P
    <3>1. ASSUME NEW p \in P, p[4] > 0
          PROVE  dind'[p[3]] # Garbage /\ \A o \in Offsets : dind'[p[3]][o] \in {0, ind'[p[3]][o]}
      <4>1. p[3] \in Blocks /\ p[3] # b /\ dind'[p[3]] = dind[p[3]]
        BY <1>0, <2>1, <2>11
      <4>2. dind[p[3]] # Garbage /\ \A o \in Offsets : dind[p[3]][o] \in {0, ind[p[3]][o]}
        BY <3>0, <3>1 DEF IndOk
      <4>3. CASE p[3] = x
        <5>1. dind[x][off] = 0
          BY <1>4, <1>12, <4>2, <4>3
        <5>2. \A o \in Offsets : o # off => ind'[x][o] = ind[x][o]
          BY <2>4
        <5>3. QED BY <4>1, <4>2, <4>3, <5>1, <5>2
      <4>4. CASE p[3] # x
        <5>1. ind'[p[3]] = ind[p[3]]
          BY <2>4, <4>1, <4>4
        <5>2. QED BY <4>1, <4>2, <5>1
      <4>5. QED BY <4>3, <4>4
    <3>2. ASSUME n[4] > 0
          PROVE  dind'[n[3]] # Garbage /\ \A o \in Offsets : dind'[n[3]][o] \in {0, ind'[n[3]][o]}
      <4>1. ~leaf
        BY <1>2, <1>3, <2>5, <3>2
      <4>2. Zeroes # Garbage /\ \A o \in Offsets : Zeroes[o] = 0
        BY GarbageFacts DEF Zeroes
      <4>3. QED BY <2>5, <2>11, <4>1, <4>2
    <3>3. QED BY <3>1, <3>2 DEF IndOk
  <2>13. PartOf(i_db, i_ib, i_db, i_ib) /\ i_db' = i_db /\ i_ib' = i_ib /\ n[3] = NewBlock
    BY <1>12, <2>5, PartSelf DEF b
  <2>14. /\ free # {} /\ Take(NewBlock) /\ UNCHANGED <<i_size, dinode, faults, exposed>>
          /\ i_db' \in Dbs /\ i_ib' \in Ibs /\ PartOf(i_db, i_ib, i_db', i_ib')
          /\ Pointers(i_db', i_ib', ind') = Held(t) \cup {n} /\ IndOk(Held(t) \cup {n}, ind', dind')
    BY <1>0, <1>12, <2>10, <2>12, <2>13 DEF P
  <2>15. CASE leaf
    <3>1. Go(t, Got(c)) /\ CallOk(Got(c), i_db, i_ib, P \cup {n})
      BY <1>6, <1>12, <2>15
    <3> DEFINE d == Got(c)
    <3>2. /\ d \in Calls /\ Go(t, d) /\ d.pc \in {"balloc", "size", "walk"} /\ d.released = 0
          /\ CallOk(d, i_db', i_ib', Held(t) \cup {n})
      BY <1>6, <2>13, <3>1 DEF P
    <3> HIDE DEF d
    <3>3. QED BY <1>7, <2>4, <2>11, <2>13, <2>14, <3>2, AllocStep
  <2>16. CASE ~leaf
    <3>1. Go(t, Down(b))
      BY <1>12, <2>16 DEF b
    <3>2. Down(b) \in Calls /\ Down(b).pc = "walk" /\ Down(b).released = 0
      BY <1>5, <2>1, <2>16
    <3>3. CallOk(Down(b), i_db, i_ib, P \cup {n})
      BY <1>5, <2>1, <2>5, <2>16
    <3> HIDE DEF Down
    <3> DEFINE d == Down(b)
    <3>4. /\ d \in Calls /\ Go(t, d) /\ d.pc \in {"balloc", "size", "walk"} /\ d.released = 0
          /\ CallOk(d, i_db', i_ib', Held(t) \cup {n})
      BY <2>13, <3>1, <3>2, <3>3 DEF P
    <3> HIDE DEF d
    <3>5. QED BY <1>7, <2>4, <2>11, <2>13, <2>14, <3>4, AllocStep
  <2>17. QED BY <2>15, <2>16
<1>13. QED BY <1>8, <1>9, <1>10, <1>11, <1>12 DEF Walk

(***************************************************************************)
(* The theorems.                                                           *)
(***************************************************************************)

\* An empty file.
LEMMA FileInit ==
  ASSUME NEW t \in Threads, Init
  PROVE  FileInv(t)
<1>1. /\ call = [s \in Threads |-> NoCall] /\ i_db = NoDb /\ i_ib = NoIb /\ free = Blocks
      /\ i_size = 0 /\ i_blocks = 0 /\ calls = 0 /\ faults = 0 /\ exposed = FALSE
      /\ ind = [b \in Blocks |-> Zeroes] /\ dinode = [db |-> NoDb, ib |-> NoIb]
      /\ dind = [b \in Blocks |-> Garbage]
  BY DEF Init
<1>2. call[t] = NoCall /\ call \in [Threads -> Calls]
  BY <1>1, NoCallFacts
<1>3. NoDb \in Dbs /\ NoIb \in Ibs
  BY DEF NoDb, NoIb, Dbs, Ibs, Pointer
<1>4. TypeOK
  <2>1. 0 \in 0..(MaxLbn * BSize) /\ 0 \in 0..MaxCalls /\ 0 \in 0..MaxFaults
    BY FileAssumption
  <2>2. ind \in [Blocks -> Indirs] /\ dind \in [Blocks -> Indirs \cup {Garbage}]
    BY <1>1, GarbageFacts
  <2>3. dinode \in [db : Dbs, ib : Ibs]
    BY <1>1, <1>3
  <2>4. QED BY <1>1, <1>2, <1>3, <2>1, <2>2, <2>3 DEF TypeOK, Dbs, Ibs
<1>5. CurDb(t) = NoDb /\ CurIb(t) = NoIb /\ LongDb(t) = NoDb /\ LongIb(t) = NoIb
  BY <1>1, <1>2, NoCallFacts DEF CurDb, CurIb, LongDb, LongIb, InWindow
<1>6. Held(t) = {}
  <2>1. Live(Top(NoDb, NoIb)) = {}
    BY <1>3, TopFacts DEF NoDb, NoIb
  <2>2. Closed({}, ind) /\ ind \in Contents
    BY <1>4, HeldFacts DEF Closed
  <2>3. \A S : Live(Top(NoDb, NoIb)) \subseteq S /\ Closed(S, ind) => Pointers(NoDb, NoIb, ind) \subseteq S
    BY <1>3, <2>2, PointersFacts
  <2>4. Pointers(NoDb, NoIb, ind) \subseteq {}
    BY <2>1, <2>2, <2>3
  <2>5. QED BY <1>5, <2>4 DEF Held
<1>7. MemOk({}, Blocks, 0, 0, 0)
  <2>1. Blocks \ Blocks = {} /\ Cardinality({}) = 0
    BY FS_EmptySet
  <2>2. QED BY <2>1 DEF MemOk, Reached, Inj
<1>8. IndOk({}, ind, dind)
  BY DEF IndOk
<1>9. QED BY <1>1, <1>2, <1>4, <1>5, <1>6, <1>7, <1>8, NoCallFacts, PartSelf DEF FileInv

LEMMA FileStutter ==
  ASSUME NEW t \in Threads, FileInv(t), UNCHANGED vars
  PROVE  FileInv(t)'
<1>1. UNCHANGED <<i_db, i_ib, i_size, i_blocks, ind, dinode, dind, free, call, calls, faults, exposed>>
  BY DEF vars
<1>2. TypeOK'
  BY <1>1 DEF FileInv, TypeOK
<1>3. CurDb(t)' = CurDb(t) /\ CurIb(t)' = CurIb(t) /\ LongDb(t)' = LongDb(t) /\ LongIb(t)' = LongIb(t)
  BY <1>1 DEF CurDb, CurIb, LongDb, LongIb, InWindow
<1>4. Held(t)' = Held(t)
  BY <1>1, <1>3 DEF Held
<1>5. QED BY <1>1, <1>2, <1>3, <1>4 DEF FileInv

\* After an indirect block was lost only the types are left.
FileOk(t) == TypeOK /\ (~Torn => FileInv(t))

LEMMA TornIs ==
  ASSUME NEW t \in Threads, Threads = {t}
  PROVE  (Torn <=> call[t].pc = "torn") /\ (Torn' <=> call'[t].pc = "torn")
BY DEF Torn

\* Each step of a file that one thread at a time works on.
LEMMA FileNext ==
  ASSUME NEW t \in Threads, Threads = {t}, FileInv(t), [Next]_vars
  PROVE  FileInv(t)' \/ (Torn' /\ TypeOK')
<1>0. calls \in 0..MaxCalls /\ MaxCalls \in Nat
  BY FileAssumption DEF FileInv, TypeOK
<1>1. CASE Begin(t)
  <2>1. calls' \in 0..MaxCalls
    BY <1>0, <1>1 DEF Begin
  <2>2. Write(t) \/ Truncate(t)
    BY <1>1 DEF Begin
  <2>3. QED BY <2>1, <2>2, WriteStep, TruncateStep
<1>2. ASSUME calls' = calls, Balloc(t) PROVE FileInv(t)'
  <2>1. calls' \in 0..MaxCalls
    BY <1>0, <1>2
  <2>2. QED BY <1>2, <2>1, BallocLookStep, DirectAllocStep, IndirAllocStep, WalkStep DEF Balloc
<1>3. ASSUME calls' = calls, WriteSize(t) \/ WriteCluster(t) \/ MetaWrite(t) PROVE FileInv(t)'
  <2>1. calls' \in 0..MaxCalls
    BY <1>0, <1>3
  <2>2. QED BY <1>3, <2>1, SizeStep
<1>4. ASSUME calls' = calls, Lengthen(t) PROVE FileInv(t)'
  <2>1. calls' \in 0..MaxCalls
    BY <1>0, <1>4
  <2>2. QED BY <1>4, <2>1, LengthenStep
<1>5. ASSUME calls' = calls, Shorten(t) PROVE FileInv(t)' \/ (Torn' /\ TypeOK')
  <2>1. calls' \in 0..MaxCalls
    BY <1>0, <1>5
  <2>2. CASE call'[t].pc = "torn" /\ TruncIndir(t)
    BY <2>1, <2>2, TornIs, TruncIndirTears
  <2>3. QED BY <1>5, <2>1, <2>2, SizeStep, TruncZeroStep, TruncUpdateStep, TruncIndirStep,
               TruncDirectStep, TruncDoneStep DEF Shorten
<1>6. ASSUME calls' = calls, FlushInode PROVE FileInv(t)'
  <2>1. calls' \in 0..MaxCalls
    BY <1>0, <1>6
  <2>2. QED BY <1>6, <2>1, FlushInodeStep
<1>7. ASSUME calls' = calls, NEW b \in Blocks, FlushBuf(b) PROVE FileInv(t)'
  <2>1. calls' \in 0..MaxCalls
    BY <1>0, <1>7
  <2>2. QED BY <1>7, <2>1, FlushBufStep
<1>8. CASE UNCHANGED vars
  BY <1>8, FileStutter
<1>9. QED BY <1>1, <1>2, <1>3, <1>4, <1>5, <1>6, <1>7, <1>8 DEF Next, Stopped

\* The inductive invariant holds: whatever a thread writes and truncates, whichever reads
\* and writes fail and whenever inode and buffers go to the disk, the pointers that the file
\* has in truth lead to blocks that are its own, until ext2_truncate() could not write an
\* indirect block.
THEOREM FileInvariant ==
  ASSUME NEW t \in Threads, Threads = {t}
  PROVE  Spec => []FileOk(t)
<1>1. Init => FileOk(t)
  BY FileInit DEF FileOk, FileInv
<1>2. FileOk(t) /\ [Next]_vars => FileOk(t)'
  <2> SUFFICES ASSUME FileOk(t), [Next]_vars PROVE FileOk(t)'
    OBVIOUS
  <2>1. CASE Torn
    <3>1. UNCHANGED vars
      BY <2>1 DEF Next, Stopped
    <3>2. TypeOK'
      BY <3>1 DEF FileOk, TypeOK, vars
    <3>3. Torn'
      BY <2>1, <3>1 DEF Torn, vars
    <3>4. QED BY <3>2, <3>3 DEF FileOk
  <2>2. CASE ~Torn
    <3>1. FileInv(t)' \/ (Torn' /\ TypeOK')
      BY <2>2, FileNext DEF FileOk
    <3>2. FileInv(t)' => TypeOK'
      BY DEF FileInv
    <3>3. QED BY <3>1, <3>2 DEF FileOk
  <2>3. QED BY <2>1, <2>2
<1>3. QED BY <1>1, <1>2, PTL DEF Spec

\* The pointers in memory are among those that the file has in truth, and are those outside
\* of a truncation.
LEMMA InMemory ==
  ASSUME NEW t \in Threads, FileInv(t)
  PROVE  /\ Pointers(i_db, i_ib, ind) \subseteq Held(t)
         /\ call[t].pc # "update" => Pointers(i_db, i_ib, ind) = Held(t)
<1>0. /\ TypeOK /\ ind \in Contents /\ i_db \in Dbs /\ i_ib \in Ibs
      /\ call[t].olddb \in Dbs /\ call[t].oldib \in Ibs
  BY HeldFacts DEF FileInv
<1>1. CASE call[t].pc # "update"
  BY <1>1 DEF Held, CurDb, CurIb
<1>2. CASE call[t].pc = "update"
  <2>1. i_db = StayDb(call[t].olddb, call[t].length) /\ i_ib = StayIb(call[t].oldib, call[t].length)
    BY <1>2 DEF FileInv, CallOk
  <2>2. PartOf(i_db, i_ib, call[t].olddb, call[t].oldib)
    BY <1>0, <2>1, StayFacts
  <2>3. Pointers(i_db, i_ib, ind) \subseteq Pointers(call[t].olddb, call[t].oldib, ind)
    BY <1>0, <2>2, Fewer
  <2>4. QED BY <1>2, <2>3 DEF Held, CurDb, CurIb
<1>3. QED BY <1>1, <1>2

\* What is part of a set without a second place has none.
LEMMA InjPart ==
  ASSUME NEW P \in SUBSET Places, NEW fr, Inj(P), Reached(P) \cap fr = {}, NEW Q \in SUBSET P
  PROVE  Reached(Q) \cap fr = {} /\ Cardinality(Q) = Cardinality(Reached(Q))
<1>1. Q \in SUBSET Places /\ Inj(Q)
  BY DEF Inj
<1>2. Reached(Q) \cap fr = {}
  BY DEF Reached
<1>3. QED BY <1>1, <1>2, InjFacts

\* ext2_balloc() and ext2_truncate() never leave a block of the file free or at two places,
\* whatever else fails, unless ext2_indirtrunc() could not write an indirect block; and
\* between calls, unless something failed, i_blocks counts the blocks that are its own.
THEOREM FileOwnsItsBlocks ==
  ASSUME NEW t \in Threads, Threads = {t}
  PROVE  Spec => []Owned
<1>0. ASSUME TypeOK, Torn PROVE Owned
  <2>1. ~Idle
    BY <1>0 DEF Idle, Torn
  <2>2. QED BY <1>0, <2>1 DEF Owned
<1>1. ASSUME FileInv(t) PROVE Owned
  <2> DEFINE P == Pointers(i_db, i_ib, ind)
  <2>1. TypeOK /\ Held(t) \in SUBSET Places
    BY <1>1, HeldFacts DEF FileInv
  <2>2. Inj(Held(t)) /\ Reached(Held(t)) \cap free = {} /\ P \in SUBSET Held(t)
    BY <1>1, InMemory DEF FileInv, MemOk
  <2>3. Reached(P) \cap free = {} /\ Cardinality(P) = Cardinality(Reached(P))
    <3> HIDE DEF P
    <3>1. QED BY <2>1, <2>2, InjPart
  <2>4. ASSUME Idle, faults = 0 PROVE Reached(P) = Blocks \ free /\ i_blocks = Cardinality(P)
    <3>1. call[t].pc = "idle"
      BY <2>4 DEF Idle
    <3>2. P = Held(t) /\ call[t].released = 0
      BY <1>1, <3>1, InMemory DEF FileInv, CallOk
    <3>3. Blocks \ free \subseteq Reached(P) /\ i_blocks = Cardinality(Blocks \ free) + 0
      BY <1>1, <2>4, <3>2 DEF FileInv, MemOk
    <3>4. Reached(P) \subseteq Blocks
      BY <2>1, <2>2, <3>2, InjFacts
    <3>5. Reached(P) = Blocks \ free
      BY <2>3, <3>3, <3>4
    <3>6. Cardinality(Blocks \ free) \in Nat
      BY FileAssumption, FS_Subset, FS_CardinalityType
    <3> HIDE DEF P
    <3>7. QED BY <2>3, <3>3, <3>5, <3>6
  <2>5. QED BY <2>1, <2>3, <2>4 DEF Owned
<1>2. FileOk(t) => Owned
  BY <1>0, <1>1 DEF FileOk
<1>3. QED BY <1>2, FileInvariant, PTL

\* A machine that stops between any two writes to the disk leaves an inode that leads to
\* blocks of its own and to indirect blocks that were written, unless the inode was written
\* while ext2_truncate() had put the old pointers back, or ext2_indirtrunc() freed blocks
\* although it could not write the indirect block without the pointers to them.
THEOREM DiskOwnsItsBlocks ==
  ASSUME NEW t \in Threads, Threads = {t}
  PROVE  Spec => []DiskOwned
<1>1. ASSUME FileInv(t) PROVE DiskOwned
  <2> SUFFICES ASSUME ~exposed
               PROVE  LET P == Pointers(dinode.db, dinode.ib, dind) IN
                      /\ Reached(P) \cap free = {} /\ Cardinality(P) = Cardinality(Reached(P))
                      /\ \A p \in P : p[4] > 0 => dind[p[3]] # Garbage
    BY DEF DiskOwned
  <2> DEFINE P == Pointers(dinode.db, dinode.ib, dind)
  <2>1. /\ TypeOK /\ Held(t) \in SUBSET Places /\ CurDb(t) \in Dbs /\ CurIb(t) \in Ibs
        /\ ind \in [Blocks -> Indirs] /\ ind \in Contents /\ dind \in Contents
        /\ PartOf(LongDb(t), LongIb(t), CurDb(t), CurIb(t))
        /\ \A p \in Held(t) : p[3] \in Blocks
    BY <1>1, HeldFacts DEF FileInv
  <2>2. dinode.db \in Dbs /\ dinode.ib \in Ibs
    BY <2>1 DEF TypeOK, Dbs, Ibs
  <2>3. PartOf(dinode.db, dinode.ib, CurDb(t), CurIb(t))
    <3>1. PartOf(dinode.db, dinode.ib, LongDb(t), LongIb(t))
      BY <1>1 DEF FileInv
    <3>2. QED BY <2>1, <3>1, PartFacts
  <2>4. ASSUME NEW p \in Held(t), NEW o \in Offsets, Has(dind, p, o)
        PROVE  Has(ind, p, o) /\ Below(dind, p, o) = Below(ind, p, o)
    <3>1. p[4] > 0 /\ dind[p[3]][o] # 0
      BY <2>4 DEF Has
    <3>2. dind[p[3]][o] \in {0, ind[p[3]][o]}
      BY <1>1, <3>1 DEF FileInv, IndOk
    <3>3. ind[p[3]] # Garbage
      BY <2>1, GarbageFacts
    <3>4. QED BY <3>1, <3>2, <3>3 DEF Has, Below
  <2>5. P \subseteq Held(t)
    <3>1. \A p \in Pointers(CurDb(t), CurIb(t), ind), o \in Offsets :
            Has(dind, p, o) => Has(ind, p, o) /\ Below(dind, p, o) = Below(ind, p, o)
      BY <2>4 DEF Held
    <3>2. P \subseteq Pointers(CurDb(t), CurIb(t), ind)
      BY <2>1, <2>2, <2>3, <3>1, Fewer
    <3>3. QED BY <3>2 DEF Held
  <2>6. Inj(Held(t)) /\ Reached(Held(t)) \cap free = {}
    BY <1>1 DEF FileInv, MemOk
  <2>7. \A p \in P : p[4] > 0 => dind[p[3]] # Garbage
    BY <1>1, <2>5 DEF FileInv, IndOk
  <2> HIDE DEF P
  <2>8. Reached(P) \cap free = {} /\ Cardinality(P) = Cardinality(Reached(P))
    BY <2>1, <2>5, <2>6, InjPart
  <2>9. QED BY <2>7, <2>8 DEF P
<1>2. FileOk(t) => DiskOwned
  BY <1>1 DEF FileOk, DiskOwned
<1>3. QED BY <1>2, FileInvariant, PTL

(***************************************************************************)
(* The place of a block in the file.                                       *)
(***************************************************************************)

\* ext2_bmaparray() of any pointers; and the blocks that it goes through.
PathIn(ib, content, lbn) ==
  LET Via[i \in 0..Levels(lbn)] ==
        IF i = 0 THEN ib[Levels(lbn) - 1]
        ELSE IF Via[i - 1] = 0 THEN 0 ELSE content[Via[i - 1]][InOff(lbn, i)]
  IN  Via
MapIn(db, ib, content, lbn) ==
  IF Levels(lbn) = 0 THEN db[lbn] ELSE PathIn(ib, content, lbn)[Levels(lbn)]
IsPath(y, ib, content, lbn) ==
  /\ y[0] = ib[Levels(lbn) - 1]
  /\ \A i \in 1..Levels(lbn) :
       y[i] = IF y[i - 1] = 0 THEN 0 ELSE content[y[i - 1]][InOff(lbn, i)]
  /\ \A i \in 0..Levels(lbn) : y[i] \in Pointer

\* Before and after a step, ext2_bmaparray() is that of the pointers in memory.
LEMMA MapNow ==
  ASSUME NEW lbn
  PROVE  /\ Bmaparray(lbn) = MapIn(i_db, i_ib, ind, lbn)
         /\ Bmaparray(lbn)' = MapIn(i_db', i_ib', ind', lbn)
BY DEF Bmaparray, OnPath, MapIn, PathIn

\* The path of a block exists, and the block is what is at its end.
LEMMA PathFacts ==
  ASSUME NEW ib \in Ibs, NEW content \in [Blocks -> Indirs], NEW lbn \in 0..(MaxLbn - 1),
         Levels(lbn) # 0
  PROVE  \E y : IsPath(y, ib, content, lbn) /\ \A db : MapIn(db, ib, content, lbn) = y[Levels(lbn)]
<1> DEFINE k == Levels(lbn)
           Eq(w) == w = [i \in 0..k |->
                           IF i = 0 THEN ib[k - 1]
                           ELSE IF w[i - 1] = 0 THEN 0 ELSE content[w[i - 1]][InOff(lbn, i)]]
           a == ib[k - 1]
           F == [i \in 1..k |-> [y \in Pointer |-> IF y = 0 THEN 0 ELSE content[y][InOff(lbn, i)]]]
<1>1. k \in Nat /\ k - 1 \in 0..(NIADDR - 1)
  BY LevelsFacts, FileAssumption
<1>2. a \in Pointer
  BY <1>1 DEF Ibs
<1>3. ASSUME NEW i \in 1..k, NEW y \in Pointer
      PROVE  (IF y = 0 THEN 0 ELSE content[y][InOff(lbn, i)]) \in Pointer
  <2>1. InOff(lbn, i) \in Offsets
    BY InOffFacts
  <2>2. CASE y = 0
    BY <2>2 DEF Pointer
  <2>3. CASE y # 0
    BY <2>1, <2>3 DEF Pointer, Indirs
  <2>4. QED BY <2>2, <2>3
<1>4. F \in [1..k -> [Pointer -> Pointer]]
  BY <1>3
<1>5. PICK u : Steps(u, Pointer, F, a, k)
  <2> HIDE DEF F, a, k
  <2>1. QED BY <1>1, <1>2, <1>4, StepsExist
<1>6. u \in [0..k -> Pointer] /\ u[0] = a /\ \A i \in 1..k : u[i] = F[i][u[i - 1]]
  BY <1>5 DEF Steps
<1>7. ASSUME NEW i \in 1..k
      PROVE  u[i] = IF u[i - 1] = 0 THEN 0 ELSE content[u[i - 1]][InOff(lbn, i)]
  <2>1. u[i - 1] \in Pointer
    BY <1>1, <1>6
  <2>2. QED BY <1>6, <2>1
<1> HIDE DEF F
<1>8. Eq(u)
  <2> HIDE DEF k
  <2>1. QED BY <1>1, <1>6, <1>7
<1> DEFINE w == CHOOSE v : Eq(v)
<1>9. Eq(w)
  BY <1>8
<1>10. PathIn(ib, content, lbn) = w
  BY DEF PathIn
<1> HIDE DEF w
<1>11. w[0] = a /\ \A i \in 1..k : w[i] = IF w[i - 1] = 0 THEN 0 ELSE content[w[i - 1]][InOff(lbn, i)]
  <2> HIDE DEF k
  <2>1. QED BY <1>1, <1>9
<1> DEFINE S == {i \in 0..k : w[i] \in Pointer}
<1>12. 0 \in S
  BY <1>1, <1>2, <1>11
<1>13. ASSUME NEW i \in 1..k, i - 1 \in S PROVE i \in S
  <2>1. w[i] \in Pointer
    BY <1>3, <1>11, <1>13
  <2> HIDE DEF k
  <2>2. QED BY <1>1, <2>1
<1>14. 0..k \subseteq S
  <2> HIDE DEF S, k
  <2>1. QED BY <1>1, <1>12, <1>13, InductTo
<1>15. IsPath(w, ib, content, lbn)
  BY <1>11, <1>14 DEF IsPath
<1>16. \A db : MapIn(db, ib, content, lbn) = w[k]
  BY <1>10 DEF MapIn
<1>17. QED BY <1>15, <1>16

\* A path that ends at a block goes through blocks.
LEMMA PathLive ==
  ASSUME NEW ib, NEW content, NEW lbn, Levels(lbn) \in Nat, NEW y, IsPath(y, ib, content, lbn),
         y[Levels(lbn)] # 0
  PROVE  \A i \in 0..Levels(lbn) : y[i] # 0 /\ y[i] \in Blocks
<1> DEFINE k == Levels(lbn)
           S == {i \in 0..k : y[k - i] # 0}
<1>1. k \in Nat /\ \A i \in 1..k : y[i] = IF y[i - 1] = 0 THEN 0 ELSE content[y[i - 1]][InOff(lbn, i)]
  BY DEF IsPath
<1>2. 0 \in S
  <2>1. k - 0 = k
    BY <1>1
  <2>2. QED BY <1>1, <2>1
<1>3. ASSUME NEW i \in 1..k, i - 1 \in S PROVE i \in S
  <2>1. k - (i - 1) \in 1..k /\ k - (i - 1) - 1 = k - i /\ i \in 0..k
    BY <1>1
  <2>2. y[k - (i - 1)] # 0
    BY <1>3
  <2> HIDE DEF k
  <2>3. y[k - i] # 0
    BY <1>1, <2>1, <2>2
  <2>4. QED BY <2>1, <2>3
<1>4. 0..k \subseteq S
  <2> HIDE DEF S, k
  <2>1. QED BY <1>1, <1>2, <1>3, InductTo
<1>5. ASSUME NEW i \in 0..k PROVE y[i] # 0
  <2>1. k - i \in 0..k /\ k - (k - i) = i
    BY <1>1
  <2>2. k - i \in S
    BY <1>4, <2>1
  <2>3. QED BY <2>1, <2>2
<1>6. QED BY <1>5 DEF IsPath, Pointer

\* There is one path.
LEMMA PathOne ==
  ASSUME NEW ib, NEW content, NEW lbn, Levels(lbn) \in Nat,
         NEW y, IsPath(y, ib, content, lbn), NEW z, IsPath(z, ib, content, lbn)
  PROVE  y[Levels(lbn)] = z[Levels(lbn)]
<1> DEFINE k == Levels(lbn)
           S == {i \in 0..k : y[i] = z[i]}
<1>1. k \in Nat
  OBVIOUS
<1>2. 0 \in S
  BY DEF IsPath
<1>3. ASSUME NEW i \in 1..k, i - 1 \in S PROVE i \in S
  <2>1. y[i] = z[i]
    BY <1>3 DEF IsPath
  <2> HIDE DEF k
  <2>2. QED BY <1>1, <2>1
<1>4. 0..k \subseteq S
  <2> HIDE DEF S, k
  <2>1. QED BY <1>1, <1>2, <1>3, InductTo
<1>5. QED BY <1>1, <1>4

\* A block has the place that it had if the pointers on its path are what they were.
LEMMA MapStays ==
  ASSUME NEW ib, NEW content, NEW lbn \in 0..(MaxLbn - 1), Levels(lbn) # 0,
         NEW y, IsPath(y, ib, content, lbn), y[Levels(lbn)] # 0,
         NEW ib2 \in Ibs, NEW content2 \in [Blocks -> Indirs],
         ib2[Levels(lbn) - 1] = ib[Levels(lbn) - 1],
         \A i \in 1..Levels(lbn) : content2[y[i - 1]][InOff(lbn, i)] = y[i],
         NEW db2
  PROVE  MapIn(db2, ib2, content2, lbn) = y[Levels(lbn)]
<1>0. Levels(lbn) \in Nat
  BY LevelsFacts
<1>1. \A i \in 1..Levels(lbn) : y[i - 1] # 0
  <2>1. \A i \in 0..Levels(lbn) : y[i] # 0
    BY <1>0, PathLive
  <2>2. QED BY <1>0, <2>1
<1>2. IsPath(y, ib2, content2, lbn)
  BY <1>1 DEF IsPath
<1>3. PICK z : IsPath(z, ib2, content2, lbn) /\ \A db : MapIn(db, ib2, content2, lbn) = z[Levels(lbn)]
  BY PathFacts
<1>4. QED BY <1>0, <1>2, <1>3, PathOne

\* The pointers of the path are pointers of the file.
PlaceOn(y, lbn, i) == IF i = 0 THEN <<0, NDADDR + (Levels(lbn) - 1), y[0], Levels(lbn)>>
                      ELSE <<y[i - 1], InOff(lbn, i), y[i], Levels(lbn) - i>>
LEMMA PathHeld ==
  ASSUME NEW db \in Dbs, NEW ib \in Ibs, NEW content \in [Blocks -> Indirs],
         NEW lbn \in 0..(MaxLbn - 1), Levels(lbn) # 0,
         NEW y, IsPath(y, ib, content, lbn), y[Levels(lbn)] # 0
  PROVE  \A i \in 0..Levels(lbn) : PlaceOn(y, lbn, i) \in Pointers(db, ib, content)
<1> DEFINE k == Levels(lbn)
           P == Pointers(db, ib, content)
           S == {i \in 0..k : PlaceOn(y, lbn, i) \in P}
<1>0. k \in Nat /\ k \in 1..NIADDR /\ k - 1 \in 0..(NIADDR - 1) /\ content \in Contents
  <2>1. content \in Contents
    BY DEF Contents
  <2>2. QED BY <2>1, LevelsFacts, FileAssumption
<1>1. Live(Top(db, ib)) \subseteq P /\ Closed(P, content)
  BY <1>0, PointersFacts
<1>2. \A i \in 0..k : y[i] # 0 /\ y[i] \in Blocks
  BY <1>0, PathLive
<1>3. 0 \in S
  <2>1. y[0] = ib[k - 1] /\ y[0] # 0 /\ 0 \in 0..k
    BY <1>0, <1>2 DEF IsPath
  <2>2. IbAt(ib, k - 1) \in P
    BY <1>0, <1>1, <2>1, TopFacts
  <2>3. PlaceOn(y, lbn, 0) = IbAt(ib, k - 1)
    BY <1>0, <2>1 DEF PlaceOn, IbAt
  <2>4. QED BY <2>1, <2>2, <2>3
<1>4. ASSUME NEW i \in 1..k, i - 1 \in S PROVE i \in S
  <2> DEFINE p == PlaceOn(y, lbn, i - 1)
             o == InOff(lbn, i)
  <2>1. p[3] = y[i - 1] /\ p[4] = k - i + 1 /\ p \in P
    BY <1>0, <1>4 DEF PlaceOn
  <2>2. y[i - 1] # 0 /\ y[i - 1] \in Blocks /\ y[i] # 0 /\ i \in 0..k /\ i # 0 /\ o \in Offsets
    BY <1>0, <1>2, InOffFacts
  <2>3. y[i] = content[y[i - 1]][o]
    BY <2>2 DEF IsPath
  <2>4. content[y[i - 1]] # Garbage
    BY <2>2, GarbageFacts
  <2>5. k - i + 1 > 0 /\ k - i + 1 - 1 = k - i
    BY <1>0
  <2>10. PlaceOn(y, lbn, i) = <<y[i - 1], o, y[i], k - i>>
    BY <2>2 DEF PlaceOn
  <2> HIDE DEF p, o, P, k
  <2>11. p[4] - 1 = k - i
    BY <1>0, <2>1, <2>5
  <2>6. PlaceOn(y, lbn, i) = Below(content, p, o)
    BY <2>1, <2>3, <2>10, <2>11 DEF Below
  <2>7. Has(content, p, o)
    BY <2>1, <2>2, <2>3, <2>4, <2>5 DEF Has
  <2>8. Below(content, p, o) \in P
    BY <1>1, <2>1, <2>2, <2>7 DEF Closed
  <2>9. QED BY <2>2, <2>6, <2>8
<1>5. 0..k \subseteq S
  <2> HIDE DEF S, k
  <2>1. QED BY <1>0, <1>3, <1>4, InductTo
<1>6. QED BY <1>5

(***************************************************************************)
(* What ext2_indirtrunc() goes through: <<block, last that is kept, level>> *)
(***************************************************************************)

LastOf(v)   == LastOff(v[3], v[2])
Goes(v, o)  == o \in Offsets /\ v[3] > 0 /\ o >= LastOf(v) /\ ind[v[1]][o] # 0
Child(v, o) == <<ind[v[1]][o], IF o = LastOf(v) THEN v[2] % Count[v[3]] ELSE -1, v[3] - 1>>
CutAt(v)    == <<v[1], LastOf(v)>>

\* V: what it would go through from the block r[1] on; it makes the cuts K there, all of
\* them if no block is bad.
Visits(V, r, K, bad) ==
  /\ V \subseteq Blocks \X (-1..MaxLbn) \X (0..(NIADDR - 1)) /\ r \in V
  /\ \A v \in V : v = r \/ \E x \in V, o \in Offsets : Goes(x, o) /\ v = Child(x, o)
  /\ \A x \in V, o \in Offsets : Goes(x, o) => Child(x, o) \in V
  /\ K \subseteq {CutAt(v) : v \in V} /\ (bad = {} => K = {CutAt(v) : v \in V})

\* What it goes on to is a block of the level below.
LEMMA ChildType ==
  ASSUME ind \in [Blocks -> Indirs], NEW v \in Blocks \X (-1..MaxLbn) \X (0..(NIADDR - 1)),
         NEW o \in Offsets, Goes(v, o)
  PROVE  /\ Child(v, o) \in Blocks \X (-1..MaxLbn) \X (0..(NIADDR - 1))
         /\ v[3] \in 1..(NIADDR - 1)
<1> DEFINE b == v[1]
           n == v[2]
           l == v[3]
           m == IF o = LastOff(l, n) THEN n % Count[l] ELSE -1
<1>1. b \in Blocks /\ n \in -1..MaxLbn /\ l \in 0..(NIADDR - 1) /\ l > 0 /\ ind[b][o] # 0
  BY DEF Goes
<1>2. Child(v, o) = <<ind[b][o], m, l - 1>>
  BY DEF Child, LastOf
<1>3. l \in 1..(NIADDR - 1) /\ l - 1 \in 0..(NIADDR - 1)
  BY <1>1, FileAssumption
<1>4. ind[b][o] \in Blocks
  BY <1>1 DEF Indirs, Pointer
<1>5. m \in -1..MaxLbn
  <2> HIDE DEF n, l
  <2>1. -1 \in -1..MaxLbn /\ MaxLbn \in Nat
    BY FileAssumption
  <2>2. o # -1
    BY FileAssumption DEF Offsets
  <2>3. o = LastOff(l, n) => n # -1
    BY <1>1, <2>2, LastOffType
  <2>4. n # -1 => n % Count[l] \in 0..MaxLbn
    <3>1. n # -1 => n >= 0
      BY <1>1, <2>1
    <3>2. QED BY <1>1, <3>1, LastOffType
  <2>5. n # -1 => n % Count[l] \in -1..MaxLbn
    BY <2>1, <2>4
  <2>6. QED BY <2>1, <2>3, <2>5
<1> HIDE DEF b, n, m, l
<1>6. QED BY <1>2, <1>3, <1>4, <1>5 DEF l

\* From the visits of the level below to those of a block.
LEMMA VisitStep ==
  ASSUME ind \in [Blocks -> Indirs], NEW w, NEW bad, CutFunction(w, bad), NEW l \in 0..(NIADDR - 1),
         l > 0 => \A b \in Blocks, m \in -1..MaxLbn : \E V : Visits(V, <<b, m, l - 1>>, w[l - 1][b][m], bad),
         NEW c \in Blocks, NEW n \in -1..MaxLbn
  PROVE  \E V : Visits(V, <<c, n, l>>, w[l][c][n], bad)
<1> DEFINE r    == <<c, n, l>>
           M    == {o \in Offsets : Goes(r, o)}
           next(o) == IF o = LastOff(l, n) THEN n % Count[l] ELSE -1
           K(o) == w[l - 1][ind[c][o]][next(o)]
           U(o) == CHOOSE V : Visits(V, Child(r, o), K(o), bad)
           V    == {r} \cup UNION {U(o) : o \in M}
           Type == Blocks \X (-1..MaxLbn) \X (0..(NIADDR - 1))
<1>1. r \in Type /\ r[1] = c /\ r[2] = n /\ r[3] = l
  OBVIOUS
<1>2. LastOf(r) = LastOff(l, n) /\ \A o : Child(r, o) = <<ind[c][o], next(o), l - 1>>
  BY DEF LastOf, Child
<1>3. /\ w[l][c][n] \subseteq {CutAt(r)} \cup UNION {K(o) : o \in M}
      /\ bad = {} => w[l][c][n] = {CutAt(r)} \cup UNION {K(o) : o \in M}
  <2>1. w[l][c][n] = CutBelow(l, w[l - 1], c, n, bad)
    BY DEF CutFunction
  <2>2. M = {o \in Offsets : l > 0 /\ o >= LastOff(l, n) /\ ind[c][o] # 0}
    BY <1>2 DEF Goes
  <2>3. CutAt(r) = <<c, LastOff(l, n)>>
    BY <1>2 DEF CutAt
  <2>4. CutRead(l, w[l - 1], c, n) = {<<c, LastOff(l, n)>>} \cup
          UNION {K(o) : o \in {x \in Offsets : l > 0 /\ x >= LastOff(l, n) /\ ind[c][x] # 0}}
    BY DEF CutRead
  <2> HIDE DEF M, K, r
  <2>5. CutRead(l, w[l - 1], c, n) = {CutAt(r)} \cup UNION {K(o) : o \in M}
    BY <2>2, <2>3, <2>4
  <2>6. /\ w[l][c][n] \subseteq CutRead(l, w[l - 1], c, n)
        /\ bad = {} => w[l][c][n] = CutRead(l, w[l - 1], c, n)
    BY <2>1 DEF CutBelow
  <2>7. QED BY <2>5, <2>6
<1>4. ASSUME NEW o \in M PROVE Visits(U(o), Child(r, o), K(o), bad)
  <2>1. o \in Offsets /\ Goes(r, o)
    OBVIOUS
  <2>2. Child(r, o) \in Type /\ l > 0
    <3> HIDE DEF r, Type
    <3>1. Child(r, o) \in Type
      BY <1>1, <2>1, ChildType DEF Type
    <3>2. QED BY <1>1, <2>1, <3>1 DEF Goes
  <2>3. ind[c][o] \in Blocks /\ next(o) \in -1..MaxLbn
    <3> HIDE DEF next
    <3>1. QED BY <1>2, <2>2
  <2>4. \E X : Visits(X, Child(r, o), K(o), bad)
    <3> HIDE DEF next, r
    <3>1. \E X : Visits(X, <<ind[c][o], next(o), l - 1>>, w[l - 1][ind[c][o]][next(o)], bad)
      BY <2>2, <2>3
    <3>2. QED BY <1>2, <3>1
  <2> HIDE DEF K, r
  <2>5. QED BY <2>4
<1> HIDE DEF U, K, next
<1>5. V \subseteq Type /\ r \in V
  BY <1>1, <1>4 DEF Visits
<1>6. ASSUME NEW v \in V, v # r PROVE \E x \in V, o \in Offsets : Goes(x, o) /\ v = Child(x, o)
  <2> HIDE DEF r
  <2>1. PICK o \in M : v \in U(o)
    BY <1>6
  <2>2. U(o) \subseteq V
    OBVIOUS
  <2>3. CASE v = Child(r, o)
    BY <1>5, <2>3
  <2>4. CASE v # Child(r, o)
    <3>1. \E x \in U(o), a \in Offsets : Goes(x, a) /\ v = Child(x, a)
      BY <1>4, <2>1, <2>4 DEF Visits
    <3>2. QED BY <2>2, <3>1
  <2>5. QED BY <2>3, <2>4
<1>7. ASSUME NEW x \in V, NEW a \in Offsets, Goes(x, a) PROVE Child(x, a) \in V
  <2> HIDE DEF r
  <2>1. CASE x = r
    <3>1. a \in M
      BY <1>7, <2>1
    <3>2. Child(r, a) \in U(a)
      BY <1>4, <3>1 DEF Visits
    <3>3. QED BY <2>1, <3>1, <3>2
  <2>2. CASE x # r
    <3>1. PICK o \in M : x \in U(o)
      BY <2>2
    <3>2. Child(x, a) \in U(o)
      BY <1>4, <1>7, <3>1 DEF Visits
    <3>3. QED BY <3>1, <3>2
  <2>3. QED BY <2>1, <2>2
<1>8. /\ w[l][c][n] \subseteq {CutAt(v) : v \in V}
      /\ bad = {} => w[l][c][n] = {CutAt(v) : v \in V}
  <2>1. \A o \in M : K(o) \subseteq {CutAt(v) : v \in U(o)} /\ (bad = {} => K(o) = {CutAt(v) : v \in U(o)})
    BY <1>4 DEF Visits
  <2> HIDE DEF r, M
  <2>2. {CutAt(v) : v \in V} = {CutAt(r)} \cup UNION {{CutAt(v) : v \in U(o)} : o \in M}
    OBVIOUS
  <2>3. UNION {K(o) : o \in M} \subseteq UNION {{CutAt(v) : v \in U(o)} : o \in M}
    BY <2>1
  <2>4. bad = {} => UNION {{CutAt(v) : v \in U(o)} : o \in M} = UNION {K(o) : o \in M}
    BY <2>1
  <2>5. QED BY <1>3, <2>2, <2>3, <2>4
<1> HIDE DEF V, r
<1>9. Visits(V, r, w[l][c][n], bad)
  BY <1>5, <1>6, <1>7, <1>8 DEF Visits
<1>10. QED BY <1>9 DEF r

\* What ext2_indirtrunc() cuts is what its visits cut.
LEMMA VisitFacts ==
  ASSUME ind \in [Blocks -> Indirs], NEW l \in 0..(NIADDR - 1), NEW c \in Blocks, NEW n \in -1..MaxLbn,
         NEW bad
  PROVE  \E V : Visits(V, <<c, n, l>>, Indirtrunc(l, c, n, bad), bad)
<1> DEFINE N == NIADDR - 1
<1>0. NIADDR \in Nat /\ N \in Nat
  BY FileAssumption
<1>1. PICK w : /\ CutFunction(w, bad)
               /\ \A level, b, lastbn : Indirtrunc(level, b, lastbn, bad) = w[level][b][lastbn]
  BY CutDef
<1> DEFINE Ok(m) == \A b \in Blocks, k \in -1..MaxLbn : \E V : Visits(V, <<b, k, m>>, w[m][b][k], bad)
           T == {m \in 0..N : Ok(m)}
<1>2. 0 \in T
  <2>1. 0 \in 0..(NIADDR - 1) /\ ~(0 > 0)
    BY <1>0
  <2>2. Ok(0)
    BY <1>1, <2>1, VisitStep
  <2>3. QED BY <2>1, <2>2
<1>3. ASSUME NEW m \in 1..N, m - 1 \in T PROVE m \in T
  <2>1. m \in 0..(NIADDR - 1)
    BY <1>0
  <2>2. \A b \in Blocks, k \in -1..MaxLbn : \E V : Visits(V, <<b, k, m - 1>>, w[m - 1][b][k], bad)
    BY <1>3
  <2>3. Ok(m)
    BY <1>1, <2>1, <2>2, VisitStep
  <2>4. QED BY <2>1, <2>3
<1>4. 0..N \subseteq T
  <2> HIDE DEF T, N
  <2>1. QED BY <1>0, <1>2, <1>3, InductTo
<1>5. \E V : Visits(V, <<c, n, l>>, w[l][c][n], bad)
  BY <1>4
<1>6. QED BY <1>1, <1>5

(***************************************************************************)
(* The offsets of a path are the digits of the block's number.             *)
(***************************************************************************)

\* There is one quotient and one remainder.
LEMMA DivUnique ==
  ASSUME NEW x \in Nat, NEW m \in Nat \ {0}, NEW q \in Nat, NEW r \in 0..(m - 1), x = q * m + r
  PROVE  x \div m = q /\ x % m = r
OBVIOUS

\* The higher digits of a number do not change its lower ones.
LEMMA Digits ==
  ASSUME NEW a \in Nat, NEW m \in Nat \ {0}, NEW n \in Nat \ {0}
  PROVE  (a % (m * n)) \div m = (a \div m) % n /\ (a % (m * n)) % m = a % m
<1> DEFINE q == a \div m
           r == a % m
           s == q \div n
           d == q % n
           e == d * m + r
<1>1. q \in Nat /\ r \in 0..(m - 1) /\ a = q * m + r
  OBVIOUS
<1> HIDE DEF q, r
<1>2. s \in Nat /\ d \in 0..(n - 1) /\ q = s * n + d
  BY <1>1
<1> HIDE DEF s, d
<1>3. d * m \in Nat /\ d * m <= (n - 1) * m /\ m * n \in Nat \ {0} /\ (n - 1) * m = m * n - m
  <2>1. d * m \in Nat /\ m * n \in Nat \ {0} /\ (n - 1) * m = m * n - m
    BY <1>2
  <2>2. n - 1 - d \in Nat
    BY <1>2
  <2>3. (n - 1 - d) * m \in Nat /\ (n - 1 - d) * m = (n - 1) * m - d * m
    BY <1>2, <2>2
  <2>4. QED BY <2>1, <2>3
<1>4. e \in 0..(m * n - 1)
  BY <1>1, <1>3
<1>5. a = s * (m * n) + e
  <2>1. (s * n + d) * m = s * (m * n) + d * m
    BY <1>2
  <2>2. QED BY <1>1, <1>2, <1>3, <2>1
<1>6. a % (m * n) = e
  <2> DEFINE M == m * n
  <2>1. M \in Nat \ {0} /\ e \in 0..(M - 1) /\ a = s * M + e
    BY <1>3, <1>4, <1>5
  <2> HIDE DEF M, e
  <2>2. a % M = e
    BY <1>2, <2>1, DivUnique
  <2>3. QED BY <2>2 DEF M
<1>7. e \div m = d /\ e % m = r
  <2>1. e \in Nat /\ d \in Nat /\ e = d * m + r
    BY <1>1, <1>2, <1>3
  <2> HIDE DEF e
  <2>2. QED BY <1>1, <2>1, DivUnique
<1>8. QED BY <1>6, <1>7 DEF q, r, d

\* A number that is not below another has no smaller quotient, and with the same
\* quotient no smaller remainder.
LEMMA DivMono ==
  ASSUME NEW x \in Nat, NEW y \in Nat, x <= y, NEW m \in Nat \ {0}
  PROVE  x \div m <= y \div m /\ (x \div m = y \div m => x % m <= y % m)
<1>1. x = (x \div m) * m + (x % m) /\ y = (y \div m) * m + (y % m)
  OBVIOUS
<1> DEFINE p == x \div m
           q == y \div m
<1>2. p \in Nat /\ q \in Nat /\ x % m \in 0..(m - 1) /\ y % m \in 0..(m - 1)
  OBVIOUS
<1>3. ASSUME p > q PROVE FALSE
  <2>1. p - q - 1 \in Nat
    BY <1>2, <1>3
  <2>2. (p - q - 1) * m \in Nat /\ (p - q - 1) * m = p * m - q * m - m
    BY <1>2, <2>1
  <2> HIDE DEF p, q
  <2>3. p * m \in Nat /\ q * m \in Nat
    BY <1>2
  <2>4. x = p * m + (x % m) /\ y = q * m + (y % m)
    BY <1>1 DEF p, q
  <2>5. QED BY <1>2, <2>2, <2>3, <2>4
<1>4. p <= q
  BY <1>2, <1>3
<1>5. p = q => x % m <= y % m
  <2> HIDE DEF p, q
  <2>1. x = p * m + (x % m) /\ y = q * m + (y % m)
    BY <1>1 DEF p, q
  <2>2. QED BY <1>2, <2>1
<1>6. QED BY <1>4, <1>5

\* What is left of the number below the i-th block of the path.
Rem(lbn, i) == (lbn - Base[Levels(lbn)]) % Count[Levels(lbn) - i]
\* ext2_getlbns() takes the offsets of a path as the digits of the block number.
LEMMA RemFacts ==
  ASSUME NEW lbn \in 0..(MaxLbn - 1), Levels(lbn) # 0
  PROVE  /\ lbn - Base[Levels(lbn)] \in Nat /\ Rem(lbn, 0) = lbn - Base[Levels(lbn)]
         /\ \A i \in 0..Levels(lbn) : Rem(lbn, i) \in Nat
         /\ \A i \in 1..Levels(lbn) :
              /\ InOff(lbn, i) = Rem(lbn, i - 1) \div Count[Levels(lbn) - i]
              /\ Rem(lbn, i) = Rem(lbn, i - 1) % Count[Levels(lbn) - i]
<1> DEFINE k == Levels(lbn)
           a == lbn - Base[k]
<1>0. k \in 1..NIADDR /\ k \in Nat /\ NIADDR \in Nat /\ NINDIR \in Nat \ {0}
  BY LevelsFacts, FileAssumption
<1>1. a \in 0..(Count[k] - 1)
  BY LevelsFacts
<1>2. \A i \in 0..k : k - i \in 0..NIADDR /\ Count[k - i] \in Nat \ {0}
  BY <1>0, CountFacts
<1>3. Count[k] \in Nat \ {0} /\ k - 0 = k
  BY <1>0, CountFacts
<1> HIDE DEF k, a
<1>4. a \in Nat /\ a < Count[k]
  BY <1>1, <1>3
<1>5. a % Count[k] = a
  <2> DEFINE m == Count[k]
  <2>1. m \in Nat \ {0} /\ a \in 0..(m - 1)
    BY <1>1, <1>3
  <2> HIDE DEF m
  <2>2. a % m = a
    BY <2>1
  <2>3. QED BY <2>2 DEF m
<1>6. Rem(lbn, 0) = a
  BY <1>3, <1>5 DEF Rem, k, a
<1>7. ASSUME NEW i \in 0..k PROVE Rem(lbn, i) \in Nat
  <2> DEFINE m == Count[k - i]
  <2>1. m \in Nat \ {0}
    BY <1>2
  <2> HIDE DEF m
  <2>2. a % m \in Nat
    BY <1>4, <2>1
  <2>3. QED BY <2>2 DEF Rem, k, a, m
<1>8. ASSUME NEW i \in 1..k
      PROVE  /\ InOff(lbn, i) = Rem(lbn, i - 1) \div Count[k - i]
             /\ Rem(lbn, i) = Rem(lbn, i - 1) % Count[k - i]
  <2> DEFINE m == Count[k - i]
             h == Count[k - (i - 1)]
  <2>1. i \in 0..k /\ k - (i - 1) \in 1..NIADDR /\ k - (i - 1) - 1 = k - i
    BY <1>0
  <2>2. m \in Nat \ {0} /\ h = m * NINDIR
    BY <1>2, <2>1, CountFacts
  <2> HIDE DEF m, h
  <2>3. (a % h) \div m = (a \div m) % NINDIR /\ (a % h) % m = a % m
    <3> DEFINE n == NINDIR
    <3>1. n \in Nat \ {0} /\ m \in Nat \ {0} /\ a \in Nat /\ h = m * n
      BY <1>0, <1>4, <2>2
    <3> HIDE DEF n
    <3>2. (a % (m * n)) \div m = (a \div m) % n /\ (a % (m * n)) % m = a % m
      BY <3>1, Digits
    <3>3. QED BY <3>1, <3>2, Zenon DEF n
  <2>4. InOff(lbn, i) = (a \div m) % NINDIR
    BY DEF InOff, k, a, m
  <2>5. Rem(lbn, i - 1) = a % h /\ Rem(lbn, i) = a % m
    BY DEF Rem, k, a, m, h
  <2>6. QED BY <2>3, <2>4, <2>5 DEF m
<1>9. QED BY <1>4, <1>6, <1>7, <1>8 DEF k, a

\* The last offset that is kept, as a quotient.
LEMMA LastOffIs ==
  ASSUME NEW l \in 0..(NIADDR - 1), NEW n \in Nat
  PROVE  LastOff(l, n) = n \div Count[l]
<1> DEFINE m == Count[l]
<1>1. m \in Nat \ {0}
  BY CountFacts, FileAssumption
<1> HIDE DEF m
<1>2. 0 \div m = 0
  BY <1>1
<1>3. LastOff(l, n) = IF n > 0 THEN n \div m ELSE n
  BY DEF LastOff, m
<1>4. LastOff(l, n) = n \div m
  BY <1>2, <1>3
<1>5. QED BY <1>4 DEF m

(***************************************************************************)
(* What is kept, and what is gone, of the blocks below an indirect pointer. *)
(***************************************************************************)

\* All it would go through are blocks of the file, each at its level.
LEMMA VisitPlaces ==
  ASSUME ind \in [Blocks -> Indirs], NEW db \in Dbs, NEW ib \in Ibs,
         NEW l \in 0..(NIADDR - 1), ib[l] # 0, NEW n \in -1..MaxLbn,
         NEW V, NEW K, NEW bad, Visits(V, <<ib[l], n, l>>, K, bad)
  PROVE  \A v \in V : \E q \in Pointers(db, ib, ind) : q[3] = v[1] /\ q[4] = v[3] + 1
<1> DEFINE P == Pointers(db, ib, ind)
           N == NIADDR - 1
           r == <<ib[l], n, l>>
           Ok(v) == \E q \in P : q[3] = v[1] /\ q[4] = v[3] + 1
           S == {m \in 0..N : \A v \in V : v[3] >= N - m => Ok(v)}
<1>0. NIADDR \in Nat /\ N \in Nat /\ N = NIADDR - 1
  BY FileAssumption
<1>1. IbAt(ib, l) \in P /\ Closed(P, ind)
  <2>1. ind \in Contents
    BY DEF Contents
  <2>2. QED BY <2>1, PointersFacts, TopFacts
<1>2. /\ \A v \in V : v[3] \in 0..N /\ v[1] \in Blocks
      /\ \A v \in V : v = r \/ \E x \in V, o \in Offsets : Goes(x, o) /\ v = Child(x, o)
  BY DEF Visits
<1>3. Ok(r)
  <2>1. IbAt(ib, l)[3] = r[1] /\ IbAt(ib, l)[4] = r[3] + 1
    BY DEF IbAt
  <2>2. QED BY <1>1, <2>1
<1>4. ASSUME NEW x \in V, NEW o \in Offsets, Goes(x, o), Ok(x) PROVE Ok(Child(x, o))
  <2>1. PICK q \in P : q[3] = x[1] /\ q[4] = x[3] + 1
    BY <1>4
  <2>2. x[3] \in Int /\ x[3] > 0 /\ ind[x[1]][o] # 0 /\ x[1] \in Blocks
    BY <1>0, <1>2, <1>4 DEF Goes
  <2>3. q[4] > 0 /\ q[4] - 1 = x[3]
    BY <2>1, <2>2
  <2>4. Has(ind, q, o)
    BY <2>1, <2>2, <2>3, GarbageFacts DEF Has
  <2>5. Below(ind, q, o) \in P
    BY <1>1, <2>1, <2>4 DEF Closed
  <2>6. Below(ind, q, o)[3] = ind[x[1]][o] /\ Below(ind, q, o)[4] = x[3]
    BY <2>1, <2>3 DEF Below
  <2>7. Child(x, o)[1] = ind[x[1]][o] /\ Child(x, o)[3] = x[3] - 1
    BY DEF Child
  <2>8. x[3] - 1 + 1 = x[3]
    BY <2>2
  <2>9. QED BY <2>5, <2>6, <2>7, <2>8
<1>5. ASSUME NEW x \in V, NEW o \in Offsets, Goes(x, o)
      PROVE  x[3] \in Int /\ Child(x, o)[3] = x[3] - 1
  BY <1>0, <1>2 DEF Child
<1> HIDE DEF P, r, Ok, N
<1>6. 0 \in S
  <2> SUFFICES ASSUME NEW v \in V, v[3] >= N - 0 PROVE Ok(v)
    BY <1>0
  <2>1. v # r => \E x \in V : x[3] \in Int /\ v[3] = x[3] - 1
    BY <1>2, <1>5
  <2>2. v = r
    BY <1>0, <1>2, <2>1
  <2>3. QED BY <1>3, <2>2
<1>7. ASSUME NEW m \in 1..N, m - 1 \in S PROVE m \in S
  <2> SUFFICES ASSUME NEW v \in V, v[3] >= N - m PROVE Ok(v)
    BY <1>0
  <2>1. CASE v = r
    BY <1>3, <2>1
  <2>2. CASE v # r
    <3>1. PICK x \in V, o \in Offsets : Goes(x, o) /\ v = Child(x, o)
      BY <1>2, <2>2
    <3>2. x[3] >= N - (m - 1)
      BY <1>0, <1>5, <3>1
    <3>3. Ok(x)
      BY <1>7, <3>2
    <3>4. QED BY <1>4, <3>1, <3>3
  <2>3. QED BY <2>1, <2>2
<1>8. 0..N \subseteq S
  <2> HIDE DEF S
  <2>1. QED BY <1>0, <1>6, <1>7, InductTo
<1>9. \A v \in V : Ok(v)
  <2> TAKE v \in V
  <2>1. N \in S /\ v[3] >= N - N
    BY <1>0, <1>2, <1>8
  <2>2. QED BY <2>1
<1>10. QED BY <1>9 DEF Ok, P

\* No block before the end is on a path that is cut.
LEMMA KeptPath ==
  ASSUME ind \in [Blocks -> Indirs], NEW db \in Dbs, NEW ib \in Ibs, Inj(Pointers(db, ib, ind)),
         NEW l \in 0..(NIADDR - 1), ib[l] # 0, NEW n \in -1..MaxLbn,
         NEW V, NEW K, NEW bad, Visits(V, <<ib[l], n, l>>, K, bad), CutSome(Pointers(db, ib, ind), IbAt(ib, l), n, K),
         NEW lbn \in 0..(MaxLbn - 1), Levels(lbn) # 0,
         Levels(lbn) = l + 1 => lbn - Base[Levels(lbn)] <= n,
         NEW y, IsPath(y, ib, ind, lbn), y[Levels(lbn)] # 0
  PROVE  /\ \A i \in 1..Levels(lbn), u \in K : u[1] = y[i - 1] => InOff(lbn, i) <= u[2]
         /\ y[0] = ib[l] => n # -1
<1> DEFINE k == Levels(lbn)
           P == Pointers(db, ib, ind)
           r == <<ib[l], n, l>>
           Type == Blocks \X (-1..MaxLbn) \X (0..(NIADDR - 1))
           S == {i \in 0..(k - 1) : \A v \in V : v[1] = y[i] =>
                   k = l + 1 /\ v[3] = l - i /\ v[2] >= Rem(lbn, i)}
<1>0. k \in 1..NIADDR /\ k \in Nat /\ k - 1 \in Nat /\ l \in Nat /\ l < NIADDR /\ MaxLbn \in Nat
      /\ k - 1 \in 0..(NIADDR - 1) /\ NIADDR \in Nat /\ NDADDR \in Nat
  BY LevelsFacts, FileAssumption
<1>1. \A i \in 0..k : y[i] # 0 /\ y[i] \in Blocks
  BY <1>0, PathLive
<1>2. \A i \in 0..k : PlaceOn(y, lbn, i) \in P
  BY PathHeld
<1>3. IbAt(ib, l) \in P
  <2>1. ind \in Contents
    BY DEF Contents
  <2>2. QED BY <2>1, PointersFacts, TopFacts
<1>4. /\ V \subseteq Type /\ r \in V
      /\ \A v \in V : v = r \/ \E x \in V, o \in Offsets : Goes(x, o) /\ v = Child(x, o)
      /\ K \subseteq {CutAt(v) : v \in V}
  BY DEF Visits
<1>5. y[0] = ib[l] => k = l + 1
  <2> SUFFICES ASSUME y[0] = ib[l] PROVE k = l + 1
    OBVIOUS
  <2>1. PlaceOn(y, lbn, 0) \in P /\ PlaceOn(y, lbn, 0)[3] = y[0] /\ PlaceOn(y, lbn, 0)[4] = k
    <3>1. 0 \in 0..k
      BY <1>0
    <3>2. PlaceOn(y, lbn, 0) \in P
      BY <1>2, <3>1
    <3>3. QED BY <3>2 DEF PlaceOn
  <2>2. IbAt(ib, l)[3] = ib[l] /\ IbAt(ib, l)[4] = l + 1
    BY DEF IbAt
  <2>3. PlaceOn(y, lbn, 0) = IbAt(ib, l)
    BY <1>3, <2>1, <2>2 DEF Inj
  <2>4. QED BY <2>1, <2>2, <2>3
<1>6. ASSUME NEW i \in 1..k PROVE y[i] # ib[l]
  <2> SUFFICES ASSUME y[i] = ib[l] PROVE FALSE
    OBVIOUS
  <2>1. i \in 0..k /\ i # 0 /\ i - 1 \in 0..k
    BY <1>0
  <2>2. PlaceOn(y, lbn, i) \in P /\ PlaceOn(y, lbn, i)[3] = y[i] /\ PlaceOn(y, lbn, i)[1] = y[i - 1]
    BY <1>2, <2>1 DEF PlaceOn
  <2>3. IbAt(ib, l)[3] = ib[l] /\ IbAt(ib, l)[1] = 0
    BY DEF IbAt
  <2>4. PlaceOn(y, lbn, i) = IbAt(ib, l)
    BY <1>3, <2>2, <2>3 DEF Inj
  <2>5. y[i - 1] # 0
    BY <1>1, <2>1
  <2>6. QED BY <2>2, <2>3, <2>4, <2>5
\* The pointer to a block of the path is the one on the path.
<1>7. ASSUME NEW x \in V, NEW o \in Offsets, Goes(x, o), NEW i \in 0..k, ind[x[1]][o] = y[i]
      PROVE  i # 0 /\ x[1] = y[i - 1] /\ o = InOff(lbn, i)
  <2>1. PICK q \in P : q[3] = x[1] /\ q[4] > 0
    <3>1. \E q \in P : q[3] = x[1] /\ q[4] = x[3] + 1
      BY VisitPlaces
    <3>2. x[3] \in Nat
      BY <1>0, <1>4
    <3>3. QED BY <3>1, <3>2
  <2>2. Closed(P, ind) /\ x[1] \in Blocks
    <3>1. ind \in Contents
      BY DEF Contents
    <3>2. x \in Type
      BY <1>4
    <3>3. QED BY <3>1, <3>2, PointersFacts
  <2>3. Has(ind, q, o)
    BY <1>7, <2>1, <2>2, GarbageFacts DEF Has, Goes
  <2>4. Below(ind, q, o) \in P /\ Below(ind, q, o)[3] = y[i] /\ Below(ind, q, o)[1] = x[1]
        /\ Below(ind, q, o)[2] = o
    BY <1>7, <2>1, <2>2, <2>3 DEF Closed, Below
  <2>5. PlaceOn(y, lbn, i) \in P /\ PlaceOn(y, lbn, i)[3] = y[i]
    BY <1>2 DEF PlaceOn
  <2>6. PlaceOn(y, lbn, i) = Below(ind, q, o)
    <3> HIDE DEF P
    <3>1. Inj(P)
      BY DEF P
    <3>2. QED BY <2>4, <2>5, <3>1 DEF Inj
  <2>7. x[1] # 0
    BY <2>2, FileAssumption
  <2>8. i # 0
    <3>1. i = 0 => PlaceOn(y, lbn, i)[1] = 0
      BY DEF PlaceOn
    <3>2. QED BY <2>4, <2>6, <2>7, <3>1
  <2>9. PlaceOn(y, lbn, i)[1] = y[i - 1] /\ PlaceOn(y, lbn, i)[2] = InOff(lbn, i)
    BY <2>8 DEF PlaceOn
  <2>10. QED BY <2>4, <2>6, <2>8, <2>9

<1> HIDE DEF P
<1>8. 0 \in S
  <2> SUFFICES ASSUME NEW v \in V, v[1] = y[0]
               PROVE  k = l + 1 /\ v[3] = l - 0 /\ v[2] >= Rem(lbn, 0)
    BY <1>0
  <2>1. v = r
    <3> SUFFICES ASSUME v # r PROVE FALSE
      OBVIOUS
    <3>1. PICK x \in V, o \in Offsets : Goes(x, o) /\ v = Child(x, o)
      BY <1>4
    <3>2. ind[x[1]][o] = y[0] /\ 0 \in 0..k
      BY <1>0, <3>1 DEF Child
    <3>3. QED BY <1>7, <3>1, <3>2
  <2>2. v[1] = ib[l] /\ v[2] = n /\ v[3] = l
    BY <2>1
  <2>3. k = l + 1
    BY <1>5, <2>2
  <2>4. Rem(lbn, 0) = lbn - Base[k] /\ lbn - Base[k] <= n
    BY <2>3, RemFacts
  <2> HIDE DEF k, r
  <2>5. n >= Rem(lbn, 0)
    BY <2>4, RemFacts DEF k
  <2>6. QED BY <1>0, <2>2, <2>3, <2>5
<1>9. ASSUME NEW i \in 1..(k - 1), i - 1 \in S PROVE i \in S
  <2> SUFFICES ASSUME NEW v \in V, v[1] = y[i]
               PROVE  k = l + 1 /\ v[3] = l - i /\ v[2] >= Rem(lbn, i)
    BY <1>0
  <2>0. i \in 1..k /\ i \in 0..k /\ i - 1 \in 0..k /\ i \in Nat
    BY <1>0
  <2>1. v # r
    BY <1>6, <2>0
  <2>2. PICK x \in V, o \in Offsets : Goes(x, o) /\ v = Child(x, o)
    BY <1>4, <2>1
  <2> DEFINE a == x[2]
             j == x[3]
             m == Count[j]
             z == Rem(lbn, i - 1)
  <2>3. v[1] = ind[x[1]][o] /\ v[2] = (IF o = LastOff(j, a) THEN a % m ELSE -1) /\ v[3] = j - 1
    BY <2>2 DEF Child, LastOf
  <2>4. x[1] = y[i - 1] /\ o = InOff(lbn, i)
    BY <1>7, <2>0, <2>2, <2>3
  <2>5. k = l + 1 /\ j = l - (i - 1) /\ a >= z
    BY <1>9, <2>4
  <2>6. a \in -1..MaxLbn /\ j \in 0..(NIADDR - 1) /\ j >= 1 /\ z \in Nat /\ j = k - i
    <3>1. x \in Type
      BY <1>4
    <3>2. a \in -1..MaxLbn /\ j \in 0..(NIADDR - 1)
      BY <3>1
    <3>3. z \in Nat
      BY <2>0, RemFacts
    <3> HIDE DEF a, j, z, k
    <3>4. QED BY <1>0, <2>5, <3>2, <3>3 DEF k
  <2>7. o = z \div m /\ Rem(lbn, i) = z % m
    <3>1. InOff(lbn, i) = z \div Count[k - i] /\ Rem(lbn, i) = z % Count[k - i]
      BY <2>0, RemFacts
    <3> HIDE DEF j, z, k
    <3>2. QED BY <2>4, <2>6, <3>1
  <2>8. m \in Nat \ {0}
    <3> HIDE DEF j
    <3>1. j \in 0..NIADDR
      BY <2>6, <1>0
    <3>2. QED BY <3>1, CountFacts
  <2>9. a \in Nat /\ LastOff(j, a) = a \div m
    <3> HIDE DEF j, a, z
    <3>1. a \in Nat
      BY <2>5, <2>6
    <3>2. QED BY <2>6, <3>1, LastOffIs
  <2>10. o >= LastOff(j, a)
    BY <2>2 DEF Goes, LastOf
  <2> HIDE DEF j, a, z, m
  <2>11. z \div m <= a \div m /\ (z \div m = a \div m => z % m <= a % m)
    BY <2>5, <2>6, <2>8, <2>9, DivMono
  <2>12. z \div m \in Int /\ a \div m \in Int /\ z % m \in Int /\ a % m \in Int
    BY <2>6, <2>8, <2>9
  <2>13. z \div m = a \div m
    BY <2>7, <2>9, <2>10, <2>11, <2>12
  <2>14. v[2] = a % m
    BY <2>3, <2>7, <2>9, <2>13
  <2>15. v[2] >= Rem(lbn, i)
    BY <2>7, <2>11, <2>12, <2>13, <2>14
  <2>16. v[3] = l - i
    <3> HIDE DEF k
    <3>1. QED BY <1>0, <2>0, <2>3, <2>5
  <2>17. QED BY <2>5, <2>15, <2>16
<1>10. 0..(k - 1) \subseteq S
  <2> HIDE DEF S, k
  <2>1. QED BY <1>0, <1>8, <1>9, InductTo
<1>11. ASSUME NEW i \in 1..k, NEW u \in K, u[1] = y[i - 1] PROVE InOff(lbn, i) <= u[2]
  <2>1. PICK v \in V : u = CutAt(v)
    BY <1>4
  <2> DEFINE a == v[2]
             j == v[3]
             m == Count[j]
             z == Rem(lbn, i - 1)
  <2>2. u[1] = v[1] /\ u[2] = LastOff(j, a)
    BY <2>1 DEF CutAt, LastOf
  <2>0. i - 1 \in 0..(k - 1) /\ i - 1 \in 0..k /\ i \in Nat
    BY <1>0
  <2>3. k = l + 1 /\ j = l - (i - 1) /\ a >= z
    BY <1>10, <1>11, <2>0, <2>2
  <2>4. a \in -1..MaxLbn /\ j \in 0..(NIADDR - 1) /\ z \in Nat /\ j = k - i
    <3>1. v \in Type
      BY <1>4
    <3>2. a \in -1..MaxLbn /\ j \in 0..(NIADDR - 1)
      BY <3>1
    <3>3. z \in Nat
      BY <2>0, RemFacts
    <3> HIDE DEF a, j, z, k
    <3>4. QED BY <1>0, <2>0, <2>3, <3>2, <3>3 DEF k
  <2>5. InOff(lbn, i) = z \div m
    <3>1. InOff(lbn, i) = z \div Count[k - i]
      BY RemFacts
    <3> HIDE DEF j, z, k
    <3>2. QED BY <2>4, <3>1
  <2>6. m \in Nat \ {0}
    <3> HIDE DEF j
    <3>1. j \in 0..NIADDR
      BY <2>4, <1>0
    <3>2. QED BY <3>1, CountFacts
  <2>7. a \in Nat /\ LastOff(j, a) = a \div m
    <3> HIDE DEF j, a, z
    <3>1. a \in Nat
      BY <2>3, <2>4
    <3>2. QED BY <2>4, <3>1, LastOffIs
  <2> HIDE DEF j, a, z, m
  <2>8. QED BY <2>2, <2>3, <2>4, <2>5, <2>6, <2>7, DivMono
<1>12. ASSUME y[0] = ib[l] PROVE n # -1
  <2>1. r \in V /\ r[1] = y[0] /\ r[2] = n
    BY <1>4, <1>12
  <2>2. 0 \in S
    BY <1>8
  <2>3. n >= Rem(lbn, 0)
    <3> HIDE DEF r
    <3>1. QED BY <2>1, <2>2
  <2>4. Rem(lbn, 0) \in Nat
    BY <1>0, RemFacts
  <2>5. QED BY <2>3, <2>4
<1>13. QED BY <1>11, <1>12

\* What is left of the indirect blocks is what was there, or nothing.
LEMMA TrimPart ==
  ASSUME ind \in [Blocks -> Indirs], NEW P, NEW p, NEW n, NEW K, NEW F,
         NEW C \in [Blocks -> Indirs], TrimOk(P, p, n, K, F, ind, C), \A b \in F : C[b] = Zeroes
  PROVE  \A b \in Blocks, o \in Offsets :
           /\ C[b][o] \in {0, ind[b][o]}
           /\ \A u \in K : u[1] = b /\ o > u[2] => C[b][o] = 0
           /\ b \notin F /\ (\A u \in K : u[1] = b => ~(o > u[2])) => C[b][o] = ind[b][o]
<1> SUFFICES ASSUME NEW b \in Blocks, NEW o \in Offsets
             PROVE  /\ C[b][o] \in {0, ind[b][o]}
                    /\ \A u \in K : u[1] = b /\ o > u[2] => C[b][o] = 0
                    /\ b \notin F /\ (\A u \in K : u[1] = b => ~(o > u[2])) => C[b][o] = ind[b][o]
  OBVIOUS
<1>1. CASE b \in F
  BY <1>1 DEF Zeroes
<1>2. CASE b \notin F
  <2>1. CASE C[b] = ind[b] /\ \A u \in K : u[1] # b
    BY <1>2, <2>1
  <2>2. CASE \E u \in K : /\ u[1] = b /\ u[2] >= 0 /\ \A v \in K : v[1] = b => v = u
                          /\ \A a \in Offsets : C[b][a] = IF a > u[2] THEN 0 ELSE ind[b][a]
    <3>1. PICK u \in K : /\ u[1] = b /\ \A v \in K : v[1] = b => v = u
                         /\ \A a \in Offsets : C[b][a] = IF a > u[2] THEN 0 ELSE ind[b][a]
      BY <2>2
    <3>2. C[b][o] = IF o > u[2] THEN 0 ELSE ind[b][o]
      BY <3>1
    <3>3. QED BY <1>2, <3>1, <3>2
  <2>3. QED BY <1>2, <2>1, <2>2 DEF TrimOk
<1>3. QED BY <1>1, <1>2

\* What is cut by ext2_indirtrunc() below the l-th indirect pointer, at the n-th block.
CutTo(db, ib, l, n, K, bad) ==
  /\ CutSome(Pointers(db, ib, ind), IbAt(ib, l), n, K)
  /\ \E V : Visits(V, <<ib[l], n, l>>, K, bad)
CutContent(ib, l, n, K) == Trim(K, FreedWith(K, ib[l], n), ind, Zeroes)
CutTop(ib, l, n) == IF n < 0 THEN [ib EXCEPT ![l] = 0] ELSE ib

LEMMA CutContentFacts ==
  ASSUME ind \in [Blocks -> Indirs], NEW db \in Dbs, NEW ib \in Ibs, Inj(Pointers(db, ib, ind)),
         NEW l \in 0..(NIADDR - 1), ib[l] # 0, NEW n \in -1..MaxLbn,
         NEW K, NEW bad, CutTo(db, ib, l, n, K, bad)
  PROVE  /\ CutContent(ib, l, n, K) \in [Blocks -> Indirs]
         /\ TrimOk(Pointers(db, ib, ind), IbAt(ib, l), n, K, FreedWith(K, ib[l], n), ind,
                   CutContent(ib, l, n, K))
         /\ \A b \in FreedWith(K, ib[l], n) : b \in Blocks /\ CutContent(ib, l, n, K)[b] = Zeroes
<1> DEFINE P == Pointers(db, ib, ind)
           p == IbAt(ib, l)
           F == FreedWith(K, ib[l], n)
           C == CutContent(ib, l, n, K)
           ib2 == CutTop(ib, l, n)
<1>1. ind \in Contents /\ p[3] = ib[l] /\ p[4] = l + 1 /\ p[1] = 0
  BY DEF Contents, IbAt
<1>2. P \in SUBSET Places /\ Closed(P, ind) /\ p \in P
  BY <1>1, PointersFacts, TopFacts
<1>3. CutSome(P, p, n, K)
  BY DEF CutTo
<1>4. ib2 \in Ibs
  BY DEF CutTop, Ibs, Pointer
<1>5. C \in [Blocks -> Indirs] /\ F \subseteq Blocks
  BY <1>3, <1>4, Trimmed DEF CutTop, CutContent
<1>6. TrimOk(P, p, n, K, F, ind, C)
  <2> HIDE DEF P, p
  <2>1. p[4] > 0 /\ Inj(P)
    BY <1>1, FileAssumption DEF P
  <2>2. TrimOk(P, p, n, K, FreedWith(K, p[3], n), ind, Trim(K, FreedWith(K, p[3], n), ind, Zeroes))
    BY <1>1, <1>2, <1>3, <2>1, TrimFacts
  <2>3. QED BY <1>1, <2>2 DEF CutContent
<1>7. \A b \in F : C[b] = Zeroes
  BY <1>5 DEF CutContent, Trim
<1>8. QED BY <1>5, <1>6, <1>7

\* A block before the end keeps its place.
LEMMA KeptCut ==
  ASSUME ind \in [Blocks -> Indirs], NEW db \in Dbs, NEW ib \in Ibs, Inj(Pointers(db, ib, ind)),
         NEW l \in 0..(NIADDR - 1), ib[l] # 0, NEW n \in -1..MaxLbn,
         NEW K, NEW bad, CutTo(db, ib, l, n, K, bad),
         NEW lbn \in 0..(MaxLbn - 1), Levels(lbn) = l + 1 => lbn - Base[Levels(lbn)] <= n,
         MapIn(db, ib, ind, lbn) # 0
  PROVE  MapIn(db, CutTop(ib, l, n), CutContent(ib, l, n, K), lbn) = MapIn(db, ib, ind, lbn)
<1> DEFINE k == Levels(lbn)
           P == Pointers(db, ib, ind)
           p == IbAt(ib, l)
           F == FreedWith(K, ib[l], n)
           C == CutContent(ib, l, n, K)
           ib2 == CutTop(ib, l, n)
<1>1. CASE k = 0
  BY <1>1 DEF MapIn
<1>2. CASE k # 0
  <2>0. k \in Nat /\ k \in 1..NIADDR /\ k - 1 \in 0..(NIADDR - 1) /\ l \in Nat
    BY <1>2, LevelsFacts, FileAssumption
  <2>1. PICK y : IsPath(y, ib, ind, lbn) /\ \A d : MapIn(d, ib, ind, lbn) = y[k]
    BY <1>2, PathFacts
  <2>2. y[k] # 0
    BY <2>1
  <2>3. \A i \in 0..k : y[i] # 0 /\ y[i] \in Blocks
    BY <2>0, <2>1, <2>2, PathLive
  <2>4. CutSome(P, p, n, K)
    BY DEF CutTo
  <2>5. \A i \in 1..k, u \in K : u[1] = y[i - 1] => InOff(lbn, i) <= u[2]
    <3>1. PICK V : Visits(V, <<ib[l], n, l>>, K, bad)
      BY DEF CutTo
    <3>2. QED BY <1>2, <2>1, <2>2, <2>4, <3>1, KeptPath
  <2>6. C \in [Blocks -> Indirs] /\ TrimOk(P, p, n, K, F, ind, C) /\ \A b \in F : C[b] = Zeroes
    BY CutContentFacts
  <2>7. \A i \in 0..k : PlaceOn(y, lbn, i) \in P
    BY <1>2, <2>1, <2>2, PathHeld
  <2>8. y[0] = ib[k - 1]
    BY <2>1 DEF IsPath
  <2>9. n < 0 => k - 1 # l /\ ib[k - 1] # ib[l]
    <3> SUFFICES ASSUME n < 0 PROVE k - 1 # l /\ ib[k - 1] # ib[l]
      OBVIOUS
    <3>1. k # l + 1
      <4>1. lbn - Base[k] \in Nat
        BY <1>2, RemFacts
      <4>2. n \in Int
        OBVIOUS
      <4> HIDE DEF k
      <4>3. QED BY <4>1, <4>2 DEF k
    <3>2. k - 1 # l
      <4> HIDE DEF k
      <4>1. QED BY <2>0, <3>1
    <3>3. IbAt(ib, k - 1) \in P /\ p \in P
      <4>1. ind \in Contents
        BY DEF Contents
      <4>2. ib[k - 1] # 0
        BY <2>0, <2>3, <2>8
      <4>3. QED BY <2>0, <4>1, <4>2, PointersFacts, TopFacts
    <3>4. IbAt(ib, k - 1) # p
      <4> HIDE DEF k
      <4>1. QED BY <2>0, <3>2 DEF IbAt
    <3>5. IbAt(ib, k - 1)[3] = ib[k - 1] /\ p[3] = ib[l]
      BY DEF IbAt
    <3> HIDE DEF P, p, k
    <3>6. Inj(P)
      BY DEF P
    <3>7. QED BY <3>2, <3>3, <3>4, <3>5, <3>6 DEF Inj
  <2>10. ASSUME NEW i \in 1..k PROVE C[y[i - 1]][InOff(lbn, i)] = y[i]
    <3> DEFINE b == y[i - 1]
               o == InOff(lbn, i)
    <3>1. i - 1 \in 0..k /\ i \in 0..k /\ b \in Blocks /\ b # 0 /\ o \in Offsets
      BY <2>0, <2>3, InOffFacts
    <3>2. y[i] = ind[b][o]
      BY <2>1, <3>1 DEF IsPath
    <3>3. \A u \in K : u[1] = b => ~(o > u[2])
      <4> SUFFICES ASSUME NEW u \in K, u[1] = b PROVE ~(o > u[2])
        OBVIOUS
      <4>1. o <= u[2]
        BY <2>5
      <4>2. u[2] \in Int /\ o \in Int
        <5>1. u[2] \in -1..(NINDIR - 1)
          BY <2>4 DEF CutSome
        <5>2. QED BY <3>1, <5>1 DEF Offsets
      <4> HIDE DEF o
      <4>3. QED BY <4>1, <4>2
    <3>4. b \notin F
      <4> SUFFICES ASSUME b \in F PROVE FALSE
        OBVIOUS
      <4>0. (b = p[3] /\ n = -1) \/ \E u \in K, a \in Offsets : a > u[2] /\ ind[u[1]][a] = b
        BY <2>6 DEF TrimOk
      <4>1. PlaceOn(y, lbn, i - 1) \in P /\ PlaceOn(y, lbn, i - 1)[3] = b
        BY <2>7, <3>1 DEF PlaceOn
      <4>2. CASE b = p[3] /\ n = -1
        <5>1. p \in P /\ p[1] = 0 /\ p[3] = ib[l]
          <6>1. ind \in Contents
            BY DEF Contents
          <6>2. QED BY <6>1, PointersFacts, TopFacts DEF IbAt
        <5>2. PlaceOn(y, lbn, i - 1) = p
          <6> HIDE DEF P, p, b
          <6>1. Inj(P)
            BY DEF P
          <6>2. QED BY <4>1, <4>2, <5>1, <6>1 DEF Inj
        <5>3. CASE i = 1
          <6>1. b = ib[k - 1]
            BY <2>8, <5>3
          <6>2. QED BY <2>9, <4>2, <5>1, <6>1
        <5>4. CASE i # 1
          <6>1. i - 1 # 0 /\ i - 1 - 1 \in 0..k
            BY <2>0, <5>4
          <6>2. PlaceOn(y, lbn, i - 1)[1] = y[i - 1 - 1] /\ y[i - 1 - 1] # 0
            BY <2>3, <6>1 DEF PlaceOn
          <6>3. QED BY <5>1, <5>2, <6>2
        <5>5. QED BY <5>3, <5>4
      <4>3. CASE \E u \in K, a \in Offsets : a > u[2] /\ ind[u[1]][a] = b
        <5>1. PICK u \in K, a \in Offsets : a > u[2] /\ ind[u[1]][a] = b
          BY <4>3
        <5>2. PICK q \in P : q[3] = u[1] /\ q[4] \in 1..p[4] /\ u[2] \in -1..(NINDIR - 1)
          BY <2>4 DEF CutSome
        <5>3. P \in SUBSET Places /\ Closed(P, ind) /\ Inj(P)
          <6>1. ind \in Contents
            BY DEF Contents
          <6>2. QED BY <6>1, PointersFacts
        <5>4. u[1] \in Blocks /\ u[1] # 0
          <6>1. q[3] \in Blocks
            BY <5>2, <5>3 DEF Places
          <6>2. QED BY <5>2, <6>1, FileAssumption
        <5>5. q[4] > 0 /\ p[4] = l + 1
          BY <2>0, <5>2 DEF IbAt
        <5> HIDE DEF P, p
        <5>6. Has(ind, q, a)
          BY <3>1, <5>1, <5>2, <5>4, <5>5, GarbageFacts DEF Has
        <5>7. Below(ind, q, a) \in P /\ Below(ind, q, a)[3] = b /\ Below(ind, q, a)[1] = u[1]
              /\ Below(ind, q, a)[2] = a
          BY <5>1, <5>2, <5>3, <5>6 DEF Closed, Below
        <5>8. PlaceOn(y, lbn, i - 1) = Below(ind, q, a)
          BY <4>1, <5>3, <5>7 DEF Inj
        <5>9. i - 1 # 0
          <6>1. i - 1 = 0 => PlaceOn(y, lbn, i - 1)[1] = 0
            BY DEF PlaceOn
          <6>2. QED BY <5>4, <5>7, <5>8, <6>1
        <5>10. PlaceOn(y, lbn, i - 1)[1] = y[i - 1 - 1] /\ PlaceOn(y, lbn, i - 1)[2] = InOff(lbn, i - 1)
          BY <5>9 DEF PlaceOn
        <5>11. i - 1 \in 1..k
          BY <2>0, <5>9
        <5>12. a <= u[2]
          BY <2>5, <5>7, <5>8, <5>10, <5>11
        <5>13. u[2] \in Int /\ a \in Int
          BY <5>2 DEF Offsets
        <5>14. QED BY <5>1, <5>12, <5>13
      <4>4. QED BY <4>0, <4>2, <4>3
    <3> HIDE DEF b, o
    <3>5. C[b][o] = ind[b][o]
      <4> HIDE DEF C, F, P, p
      <4>1. QED BY <2>6, <3>1, <3>3, <3>4, TrimPart
    <3>6. QED BY <3>2, <3>5 DEF b, o
  <2>11. ib2[k - 1] = ib[k - 1] /\ ib2 \in Ibs
    <3>1. ib2 \in Ibs
      BY DEF CutTop, Ibs, Pointer
    <3>2. ib2[k - 1] = ib[k - 1]
      <4> HIDE DEF k
      <4>1. QED BY <2>0, <2>9 DEF CutTop, Ibs
    <3>3. QED BY <3>1, <3>2
  <2>12. MapIn(db, ib2, C, lbn) = y[k]
    <3> HIDE DEF C, ib2
    <3>1. QED BY <1>2, <2>1, <2>2, <2>6, <2>10, <2>11, MapStays
  <2>13. QED BY <2>1, <2>12
<1>3. QED BY <1>1, <1>2

\* A block behind the end has no place left.
LEMMA GoneCut ==
  ASSUME ind \in [Blocks -> Indirs], NEW db \in Dbs, NEW ib \in Ibs, Inj(Pointers(db, ib, ind)),
         NEW l \in 0..(NIADDR - 1), ib[l] # 0, NEW n \in 0..MaxLbn,
         NEW K, CutTo(db, ib, l, n, K, {}), NEW lbn \in 0..(MaxLbn - 1), Levels(lbn) = l + 1, lbn - Base[Levels(lbn)] > n
  PROVE  MapIn(db, CutTop(ib, l, n), CutContent(ib, l, n, K), lbn) = 0
<1> DEFINE k == Levels(lbn)
           P == Pointers(db, ib, ind)
           p == IbAt(ib, l)
           F == FreedWith(K, ib[l], n)
           C == CutContent(ib, l, n, K)
           Type == Blocks \X (-1..MaxLbn) \X (0..(NIADDR - 1))
<1>0. /\ k \in Nat /\ k # 0 /\ k \in 1..NIADDR /\ l \in Nat /\ k = l + 1 /\ n \in -1..MaxLbn /\ n \in Nat
      /\ MaxLbn \in Nat /\ NIADDR \in Nat
  BY FileAssumption
<1>1. CutTop(ib, l, n) = ib
  BY <1>0 DEF CutTop
<1>2. C \in [Blocks -> Indirs] /\ TrimOk(P, p, n, K, F, ind, C) /\ \A b \in F : C[b] = Zeroes
  BY <1>0, CutContentFacts
<1>3. PICK z : IsPath(z, ib, C, lbn) /\ \A d : MapIn(d, ib, C, lbn) = z[k]
  <2> HIDE DEF C
  <2>1. QED BY <1>0, <1>2, PathFacts
<1>4. SUFFICES ASSUME z[k] # 0 PROVE FALSE
  BY <1>1, <1>3
<1>5. \A i \in 0..k : z[i] # 0 /\ z[i] \in Blocks
  BY <1>0, <1>3, <1>4, PathLive
<1>6. PICK V : Visits(V, <<ib[l], n, l>>, K, {})
  BY DEF CutTo
<1>7. /\ V \subseteq Type /\ <<ib[l], n, l>> \in V
      /\ \A x \in V, o \in Offsets : Goes(x, o) => Child(x, o) \in V
      /\ \A v \in V : CutAt(v) \in K
  BY <1>6 DEF Visits
\* What the path goes through was there, and is not cut.
<1>8. ASSUME NEW i \in 1..k
      PROVE  /\ InOff(lbn, i) \in Offsets /\ ind[z[i - 1]][InOff(lbn, i)] = z[i]
             /\ \A u \in K : u[1] = z[i - 1] => ~(InOff(lbn, i) > u[2])
  <2> DEFINE b == z[i - 1]
             o == InOff(lbn, i)
  <2>1. b \in Blocks /\ b # 0 /\ z[i] # 0 /\ o \in Offsets
    <3>1. i - 1 \in 0..k /\ i \in 0..k
      BY <1>0
    <3>2. QED BY <1>5, <3>1, InOffFacts
  <2>2. C[b][o] = z[i]
    BY <1>3, <2>1 DEF IsPath
  <2> HIDE DEF b, o, C, F, P, p
  <2>3. C[b][o] \in {0, ind[b][o]} /\ \A u \in K : u[1] = b /\ o > u[2] => C[b][o] = 0
    BY <1>2, <2>1, TrimPart
  <2>4. QED BY <2>1, <2>2, <2>3 DEF b, o
<1> DEFINE At(i, m) == <<z[i], m, l - i>>
           S == {i \in 0..l : \E m \in -1..MaxLbn : At(i, m) \in V /\ m < Rem(lbn, i)}
\* On each level of the path it comes to the path's block, with less to keep than the path.
<1>9. ASSUME NEW i \in 0..l, NEW m \in -1..MaxLbn, At(i, m) \in V, m < Rem(lbn, i)
      PROVE  /\ i + 1 \in 1..k /\ l - i \in 0..(NIADDR - 1) /\ m \in Nat
             /\ InOff(lbn, i + 1) = LastOff(l - i, m) /\ InOff(lbn, i + 1) = m \div Count[l - i]
             /\ m % Count[l - i] < Rem(lbn, i + 1)
  <2> DEFINE o == InOff(lbn, i + 1)
             j == l - i
             r == Rem(lbn, i)
             c == Count[j]
  <2>1. i + 1 \in 1..k /\ i + 1 - 1 = i /\ i \in 0..k /\ j \in 0..(NIADDR - 1) /\ j = k - (i + 1) /\ j \in 0..NIADDR
    BY <1>0
  <2>2. r \in Nat /\ o = r \div c /\ Rem(lbn, i + 1) = r % c
    <3>1. r \in Nat
      BY <1>0, <2>1, RemFacts
    <3>2. o = Rem(lbn, i + 1 - 1) \div Count[k - (i + 1)] /\ Rem(lbn, i + 1) = Rem(lbn, i + 1 - 1) % Count[k - (i + 1)]
      BY <1>0, <2>1, RemFacts
    <3> HIDE DEF k, j
    <3>3. QED BY <2>1, <3>1, <3>2
  <2>3. c \in Nat \ {0}
    BY <2>1, CountFacts
  <2>4. CutAt(At(i, m)) = <<z[i], LastOff(j, m)>>
    BY DEF CutAt, LastOf
  <2>5. o \in Offsets /\ ~(o > LastOff(j, m))
    <3>1. <<z[i], LastOff(j, m)>> \in K
      BY <1>7, <1>9, <2>4
    <3>2. z[i + 1 - 1] = z[i]
      BY <2>1
    <3> HIDE DEF j, k
    <3>3. QED BY <1>8, <2>1, <3>1, <3>2
  <2> HIDE DEF j, c, r, k
  <2>6. LastOff(j, m) \in -1..MaxLbn /\ (LastOff(j, m) = -1 <=> m = -1)
    BY <2>1, LastOffType
  <2>7. o \in Nat
    BY <2>5 DEF Offsets
  <2>8. m \in Nat
    <3> HIDE DEF o
    <3>1. QED BY <2>5, <2>6, <2>7, <1>9
  <2>9. LastOff(j, m) = m \div c
    BY <2>1, <2>8, LastOffIs DEF c
  <2>10. m <= r /\ m # r
    BY <1>9, <2>2, <2>8 DEF r
  <2>11. m \div c <= r \div c /\ (m \div c = r \div c => m % c <= r % c)
    BY <2>2, <2>3, <2>8, <2>10, DivMono
  <2>12. m \div c \in Int /\ r \div c \in Int /\ m % c \in Int /\ r % c \in Int
    BY <2>2, <2>3, <2>8
  <2>13. m \div c = r \div c
    <3> HIDE DEF o
    <3>1. QED BY <2>2, <2>5, <2>9, <2>11, <2>12
  <2>14. m % c < r % c
    <3>1. m = (m \div c) * c + (m % c) /\ r = (r \div c) * c + (r % c)
      BY <2>2, <2>3, <2>8
    <3>2. m % c # r % c
      BY <2>10, <2>13, <3>1
    <3>3. QED BY <2>11, <2>12, <2>13, <3>2
  <2>15. QED BY <2>1, <2>2, <2>8, <2>9, <2>13, <2>14 DEF j, c
<1>10. 0 \in S
  <2>1. z[0] = ib[l]
    <3>1. z[0] = ib[k - 1]
      BY <1>3 DEF IsPath
    <3> HIDE DEF k
    <3>2. k - 1 = l
      BY <1>0
    <3>3. QED BY <3>1, <3>2
  <2>2. At(0, n) \in V
    BY <1>0, <1>7, <2>1
  <2>3. n < Rem(lbn, 0)
    <3>1. Rem(lbn, 0) = lbn - Base[Levels(lbn)] /\ Rem(lbn, 0) \in Nat
      BY <1>0, RemFacts
    <3>2. QED BY <1>0, <3>1
  <2> HIDE DEF At
  <2>4. QED BY <1>0, <2>2, <2>3
<1>11. ASSUME NEW i \in 1..l, i - 1 \in S PROVE i \in S
  <2>1. PICK m \in -1..MaxLbn : At(i - 1, m) \in V /\ m < Rem(lbn, i - 1)
    BY <1>11
  <2> DEFINE v == At(i - 1, m)
             o == InOff(lbn, i)
             j == l - (i - 1)
             q == m % Count[j]
  <2>2. i \in Nat /\ i - 1 \in 0..l /\ i - 1 + 1 = i /\ i \in 0..l /\ i \in 1..k /\ j > 0 /\ j - 1 = l - i
    BY <1>0
  <2>3. /\ j \in 0..(NIADDR - 1) /\ m \in Nat /\ o = LastOff(j, m) /\ q < Rem(lbn, i)
    <3> HIDE DEF At, j, q
    <3>1. /\ l - (i - 1) \in 0..(NIADDR - 1) /\ m \in Nat
          /\ InOff(lbn, i - 1 + 1) = LastOff(l - (i - 1), m)
          /\ m % Count[l - (i - 1)] < Rem(lbn, i - 1 + 1)
      BY <1>9, <2>1, <2>2
    <3>2. QED BY <2>2, <3>1 DEF j, q
  <2>4. o \in Offsets /\ ind[z[i - 1]][o] = z[i] /\ z[i] # 0
    BY <1>5, <1>8, <2>2
  <2>5. v[1] = z[i - 1] /\ v[2] = m /\ v[3] = j
    OBVIOUS
  <2>6. Goes(v, o)
    <3>1. o >= LastOff(j, m)
      <4>1. o \in Nat
        BY <2>4 DEF Offsets
      <4> HIDE DEF o, j
      <4>2. QED BY <2>3, <4>1
    <3> HIDE DEF v, o, j
    <3>2. QED BY <2>2, <2>4, <2>5, <3>1 DEF Goes, LastOf
  <2>7. Child(v, o) = <<z[i], q, l - i>>
    <3> HIDE DEF v, o, j
    <3>1. QED BY <2>2, <2>3, <2>4, <2>5 DEF Child, LastOf
  <2>8. Child(v, o) \in V
    <3> HIDE DEF v, o
    <3>1. v \in V
      BY <2>1 DEF v
    <3>2. QED BY <1>7, <2>4, <2>6, <3>1
  <2>9. q \in -1..MaxLbn
    <3>1. Child(v, o) \in Type
      BY <1>7, <2>8
    <3>2. QED BY <2>7, <3>1
  <2>10. At(i, q) \in V
    <3> HIDE DEF q, v, o
    <3>1. QED BY <2>7, <2>8
  <2> HIDE DEF At, q
  <2>11. QED BY <2>2, <2>3, <2>9, <2>10
<1>12. 0..l \subseteq S
  <2> HIDE DEF S
  <2>1. QED BY <1>0, <1>10, <1>11, InductTo
\* On the last it cuts the path's block.
<1>13. PICK m \in -1..MaxLbn : At(l, m) \in V /\ m < Rem(lbn, l)
  BY <1>0, <1>12
<1>14. m \in Nat /\ m % Count[l - l] < Rem(lbn, l + 1)
  <2> HIDE DEF At, k
  <2>1. l \in 0..l
    BY <1>0
  <2>2. QED BY <1>9, <1>13, <2>1
<1>15. Count[l - l] = 1 /\ Count[k - k] = 1 /\ l + 1 = k
  <2> HIDE DEF k
  <2>1. l - l = 0 /\ k - k = 0
    BY <1>0
  <2>2. QED BY <1>0, <2>1, CountFacts
<1>16. Rem(lbn, k) = (lbn - Base[k]) % 1 /\ lbn - Base[k] \in Nat
  BY <1>0, <1>15, RemFacts DEF Rem
<1> HIDE DEF k
<1>17. (lbn - Base[k]) % 1 = 0
  BY <1>16
<1>18. m % 1 = 0
  BY <1>14
<1>19. QED BY <1>14, <1>15, <1>16, <1>17, <1>18

(***************************************************************************)
(* The steps, and the places of the blocks.                                *)
(***************************************************************************)

\* Where the blocks below an indirect pointer end, those of the next begin.
LEMMA BaseMono ==
  ASSUME NEW j \in 1..NIADDR, NEW k \in 1..NIADDR, j < k
  PROVE  Base[j] + Count[j] <= Base[k]
<1> DEFINE N == NIADDR - j - 1
           S == {i \in 0..N : Base[j] + Count[j] <= Base[j + 1 + i]}
<1>0. NIADDR \in Nat /\ j \in Nat /\ k \in Nat /\ N \in Nat /\ k - j - 1 \in 0..N /\ j + 1 + (k - j - 1) = k
  BY FileAssumption
<1>1. \A i \in 1..NIADDR : Base[i] \in Nat /\ Count[i] \in Nat
  BY <1>0, BaseFacts, CountFacts
<1>2. 0 \in S
  <2>1. j + 1 + 0 \in 2..NIADDR /\ j + 1 + 0 \in 1..NIADDR /\ j + 1 + 0 - 1 = j
    BY <1>0
  <2>2. Base[j + 1 + 0] = Base[j] + Count[j]
    BY <2>1, BaseFacts
  <2>3. QED BY <1>0, <1>1, <2>1, <2>2
<1>3. ASSUME NEW i \in 1..N, i - 1 \in S PROVE i \in S
  <2> DEFINE a == j + 1 + i
  <2>1. a \in 2..NIADDR /\ a - 1 \in 1..NIADDR /\ a \in 1..NIADDR /\ a - 1 = j + 1 + (i - 1) /\ i \in 0..N
    BY <1>0
  <2>2. Base[a] = Base[a - 1] + Count[a - 1]
    BY <2>1, BaseFacts
  <2>3. Base[j] + Count[j] <= Base[a - 1]
    BY <1>3, <2>1
  <2> HIDE DEF a
  <2>4. Base[j] + Count[j] <= Base[a]
    BY <1>1, <2>1, <2>2, <2>3
  <2>5. QED BY <2>1, <2>4 DEF a
<1>4. 0..N \subseteq S
  <2> HIDE DEF S, N
  <2>1. QED BY <1>0, <1>2, <1>3, InductTo
<1>5. k - j - 1 \in S
  BY <1>0, <1>4
<1>6. QED BY <1>0, <1>5

\* Where a block is, and the last that a truncation keeps.
LEMMA EndFacts ==
  ASSUME NEW length \in 0..(MaxLbn * BSize), NEW lbn \in 0..(MaxLbn - 1), NEW l \in 0..(NIADDR - 1)
  PROVE  /\ Levels(lbn) = l + 1 /\ lbn <= Lastblock(length) =>
              Lastiblock(length, l) >= 0 /\ lbn - Base[Levels(lbn)] <= Lastiblock(length, l)
         /\ Levels(lbn) = l + 1 /\ lbn > Lastblock(length) =>
              lbn - Base[Levels(lbn)] > Lastiblock(length, l)
         /\ Lastiblock(length, l) >= 0 /\ lbn > Lastblock(length) => Levels(lbn) >= l + 1
<1> DEFINE k == Levels(lbn)
           m == Lastblock(length)
           n == Lastiblock(length, l)
           b == Base[l + 1]
<1>0. /\ NIADDR \in Nat /\ NDADDR \in Nat /\ MaxLbn \in Nat /\ lbn \in Nat /\ l \in Nat
      /\ l + 1 \in 1..NIADDR
  BY FileAssumption
<1>1. m \in Int /\ n \in Int /\ n >= -1 /\ (n < 0 <=> m < b) /\ (n >= 0 => n = m - b)
  BY <1>0, LastFacts
<1>2. b \in Nat /\ b >= NDADDR
  BY <1>0, BaseFacts
<1>3. k \in 0..NIADDR /\ (k = 0 <=> lbn < NDADDR) /\ (k # 0 => lbn - Base[k] \in 0..(Count[k] - 1))
  BY LevelsFacts
<1>4. \A i \in 1..NIADDR : Base[i] \in Nat /\ Count[i] \in Nat
  BY <1>0, BaseFacts, CountFacts
<1> HIDE DEF k, m, n
<1>5. ASSUME k = l + 1, lbn <= m PROVE n >= 0 /\ lbn - Base[k] <= n
  <2>1. Base[k] = b /\ lbn - b >= 0
    <3>1. k # 0
      BY <1>0, <1>5
    <3>2. QED BY <1>0, <1>3, <1>4, <1>5, <3>1
  <2> HIDE DEF b
  <2>2. QED BY <1>0, <1>1, <1>2, <1>5, <2>1
<1>6. ASSUME k = l + 1, lbn > m PROVE lbn - Base[k] > n
  <2>1. Base[k] = b /\ lbn - b >= 0
    <3>1. k # 0
      BY <1>0, <1>6
    <3>2. QED BY <1>0, <1>3, <1>4, <1>6, <3>1
  <2> HIDE DEF b
  <2>2. QED BY <1>0, <1>1, <1>2, <1>6, <2>1
<1>7. ASSUME n >= 0, lbn > m PROVE k >= l + 1
  <2>1. lbn > b
    <3> HIDE DEF b
    <3>1. QED BY <1>0, <1>1, <1>2, <1>7
  <2>2. CASE k = 0
    <3> HIDE DEF b
    <3>1. QED BY <1>0, <1>2, <1>3, <2>1, <2>2
  <2>3. CASE k # 0 /\ k < l + 1
    <3>1. k \in 1..NIADDR
      BY <1>0, <1>3, <2>3
    <3>2. Base[k] + Count[k] <= b
      BY <1>0, <2>3, <3>1, BaseMono
    <3>3. lbn < Base[k] + Count[k] /\ Base[k] + Count[k] \in Nat
      <4>1. Base[k] \in Nat /\ Count[k] \in Nat
        BY <1>4, <3>1
      <4> DEFINE x == Base[k]
                 z == Count[k]
      <4>2. lbn - x \in 0..(z - 1) /\ x \in Nat /\ z \in Nat
        BY <1>3, <2>3, <4>1
      <4> HIDE DEF x, z
      <4>3. lbn < x + z /\ x + z \in Nat
        BY <1>0, <4>2
      <4>4. QED BY <4>3 DEF x, z
    <3> HIDE DEF b
    <3>4. QED BY <1>0, <1>2, <2>1, <3>2, <3>3
  <2>4. QED BY <1>0, <1>3, <2>2, <2>3
<1>8. QED BY <1>5, <1>6, <1>7 DEF k, m, n

\* The place of a block is found by its pointer of the inode.
LEMMA MapSame ==
  ASSUME NEW db, NEW db2, NEW ib \in Ibs, NEW ib2 \in Ibs, NEW content \in [Blocks -> Indirs],
         NEW lbn \in 0..(MaxLbn - 1), Levels(lbn) = 0 => db2[lbn] = db[lbn],
         Levels(lbn) # 0 => ib2[Levels(lbn) - 1] = ib[Levels(lbn) - 1]
  PROVE  MapIn(db2, ib2, content, lbn) = MapIn(db, ib, content, lbn)
<1>1. CASE Levels(lbn) = 0
  BY <1>1 DEF MapIn
<1>2. CASE Levels(lbn) # 0
  <2>1. PICK y : IsPath(y, ib, content, lbn) /\ \A d : MapIn(d, ib, content, lbn) = y[Levels(lbn)]
    BY <1>2, PathFacts
  <2>2. PICK z : IsPath(z, ib2, content, lbn) /\ \A d : MapIn(d, ib2, content, lbn) = z[Levels(lbn)]
    BY <1>2, PathFacts
  <2>3. IsPath(y, ib2, content, lbn)
    BY <1>2, <2>1 DEF IsPath
  <2>4. Levels(lbn) \in Nat
    BY LevelsFacts
  <2>5. y[Levels(lbn)] = z[Levels(lbn)]
    BY <2>2, <2>3, <2>4, PathOne
  <2>6. QED BY <2>1, <2>2, <2>5
<1>3. QED BY <1>1, <1>2

\* Below an indirect pointer that is 0 there is nothing.
LEMMA MapZero ==
  ASSUME NEW db, NEW ib \in Ibs, NEW content \in [Blocks -> Indirs], NEW lbn \in 0..(MaxLbn - 1),
         Levels(lbn) # 0, ib[Levels(lbn) - 1] = 0
  PROVE  MapIn(db, ib, content, lbn) = 0
<1>1. PICK y : IsPath(y, ib, content, lbn) /\ \A d : MapIn(d, ib, content, lbn) = y[Levels(lbn)]
  BY PathFacts
<1>2. Levels(lbn) \in Nat /\ 0 \in 0..Levels(lbn)
  BY LevelsFacts
<1>3. y[0] = 0
  BY <1>1 DEF IsPath
<1>4. y[Levels(lbn)] = 0
  BY <1>1, <1>2, <1>3, PathLive
<1>5. QED BY <1>1, <1>4

\* What a truncation keeps of the inode has the places of all blocks before the end.
LEMMA MapStay ==
  ASSUME NEW db \in Dbs, NEW ib \in Ibs, NEW content \in [Blocks -> Indirs],
         NEW length \in 0..(MaxLbn * BSize), NEW lbn \in 0..(MaxLbn - 1), lbn <= Lastblock(length)
  PROVE  /\ MapIn(StayDb(db, length), StayIb(ib, length), content, lbn) = MapIn(db, ib, content, lbn)
         /\ MapIn(StayDb(db, length), ib, content, lbn) = MapIn(db, ib, content, lbn)
<1> DEFINE k == Levels(lbn)
           db2 == StayDb(db, length)
           ib2 == StayIb(ib, length)
<1>0. /\ k \in 0..NIADDR /\ (k = 0 <=> lbn < NDADDR) /\ NIADDR \in Nat /\ NDADDR \in Nat /\ MaxLbn \in Nat
      /\ lbn \in Nat /\ ib2 \in Ibs
  BY LevelsFacts, FileAssumption, StayFacts
<1>1. k = 0 => db2[lbn] = db[lbn]
  <2> SUFFICES ASSUME k = 0 PROVE db2[lbn] = db[lbn]
    OBVIOUS
  <2>1. lbn \in 0..(NDADDR - 1)
    BY <1>0
  <2>2. ~(lbn > Lastblock(length))
    BY <1>0, LastFacts
  <2>3. QED BY <2>1, <2>2 DEF StayDb
<1>2. k # 0 => ib2[k - 1] = ib[k - 1]
  <2> SUFFICES ASSUME k # 0 PROVE ib2[k - 1] = ib[k - 1]
    OBVIOUS
  <2>1. k - 1 \in 0..(NIADDR - 1) /\ k = k - 1 + 1
    BY <1>0
  <2>2. Lastiblock(length, k - 1) >= 0 /\ Lastiblock(length, k - 1) \in Int
    BY <2>1, EndFacts, LastFacts
  <2>3. ~(Lastiblock(length, k - 1) < 0)
    BY <2>2
  <2>4. QED BY <2>1, <2>3 DEF StayIb
<1> HIDE DEF db2, ib2
<1>3. MapIn(db2, ib2, content, lbn) = MapIn(db, ib, content, lbn)
  BY <1>0, <1>1, <1>2, MapSame
<1>4. MapIn(db2, ib, content, lbn) = MapIn(db, ib, content, lbn)
  BY <1>1, MapSame
<1>5. QED BY <1>3, <1>4 DEF db2, ib2

\* A block b that the file did not have takes no other's place.
Grows(db, ib, content, db2, ib2, content2, b) ==
  /\ \A p \in Pointers(db, ib, content) : p[3] # b
  /\ \A l \in 0..(NDADDR - 1) : db[l] # 0 => db2[l] = db[l]
  /\ \A l \in 0..(NIADDR - 1) : ib[l] # 0 => ib2[l] = ib[l]
  /\ \A x \in Blocks, o \in Offsets : x # b /\ content[x][o] # 0 => content2[x][o] = content[x][o]
LEMMA MapGrown ==
  ASSUME NEW db \in Dbs, NEW ib \in Ibs, NEW content \in [Blocks -> Indirs],
         NEW db2, NEW ib2 \in Ibs, NEW content2 \in [Blocks -> Indirs], NEW b,
         Grows(db, ib, content, db2, ib2, content2, b),
         NEW lbn \in 0..(MaxLbn - 1), MapIn(db, ib, content, lbn) # 0
  PROVE  MapIn(db2, ib2, content2, lbn) = MapIn(db, ib, content, lbn)
<1> DEFINE k == Levels(lbn)
           P == Pointers(db, ib, content)
<1>0. k \in 0..NIADDR /\ (k = 0 <=> lbn < NDADDR) /\ NIADDR \in Nat /\ NDADDR \in Nat /\ lbn \in Nat
  BY LevelsFacts, FileAssumption
<1>1. CASE k = 0
  <2>1. lbn \in 0..(NDADDR - 1)
    BY <1>0, <1>1
  <2>2. QED BY <1>1, <2>1 DEF MapIn, Grows
<1>2. CASE k # 0
  <2>1. PICK y : IsPath(y, ib, content, lbn) /\ \A d : MapIn(d, ib, content, lbn) = y[k]
    BY <1>2, PathFacts
  <2>2. y[k] # 0
    BY <2>1
  <2>3. \A i \in 0..k : y[i] # 0 /\ y[i] \in Blocks
    BY <1>0, <2>1, <2>2, PathLive
  <2>4. \A i \in 0..k : PlaceOn(y, lbn, i) \in P /\ PlaceOn(y, lbn, i)[3] = y[i]
    <3>1. \A i \in 0..k : PlaceOn(y, lbn, i) \in P
      BY <1>2, <2>1, <2>2, PathHeld
    <3>2. QED BY <3>1 DEF PlaceOn
  <2>5. ASSUME NEW i \in 1..k PROVE content2[y[i - 1]][InOff(lbn, i)] = y[i]
    <3>1. i - 1 \in 0..k /\ i \in 0..k /\ InOff(lbn, i) \in Offsets
      BY <1>0, InOffFacts
    <3>2. y[i - 1] \in Blocks /\ y[i - 1] # 0 /\ y[i] # 0 /\ y[i - 1] # b
      BY <2>3, <2>4, <3>1 DEF Grows
    <3>3. y[i] = content[y[i - 1]][InOff(lbn, i)]
      BY <2>1, <3>2 DEF IsPath
    <3>4. QED BY <3>1, <3>2, <3>3 DEF Grows
  <2>6. ib2[k - 1] = ib[k - 1]
    <3>1. 0 \in 0..k /\ k - 1 \in 0..(NIADDR - 1)
      BY <1>0, <1>2
    <3>2. y[0] = ib[k - 1] /\ y[0] # 0
      BY <2>1, <2>3, <3>1 DEF IsPath
    <3>3. QED BY <3>1, <3>2 DEF Grows
  <2>7. MapIn(db2, ib2, content2, lbn) = y[k]
    BY <1>2, <2>1, <2>2, <2>5, <2>6, MapStays
  <2>8. QED BY <2>1, <2>7
<1>3. QED BY <1>1, <1>2

\* No block is taken from its place but by a truncation to before it.
Keeps(t) ==
  \A l \in 0..(MaxLbn - 1) :
    Bmaparray(l) # 0 /\ Bmaparray(l)' # Bmaparray(l) =>
      call[t].op = "truncate" /\ l > Lastblock(call[t].length)

\* What ext2_truncate() has done so far: of the indirect pointers those that it has gone
\* through, in the end all blocks behind the end of the file.
DoneInv(t) ==
  /\ call[t].pc = "indir" => \A k \in (call[t].level + 1)..(NIADDR - 1) : i_ib[k] = 0
  /\ call[t].pc = "direct" => \A k \in 0..(NIADDR - 1) : i_ib[k] = 0
  /\ call[t].pc = "done" /\ faults = 0 =>
       \A l \in (Lastblock(call[t].length) + 1)..(MaxLbn - 1) : Bmaparray(l) = 0

\* A step that leaves the pointers in memory alone.
LEMMA Quieter ==
  ASSUME NEW t \in Threads, UNCHANGED <<i_db, i_ib, ind>>
  PROVE  /\ Keeps(t) /\ \A l : Bmaparray(l)' = Bmaparray(l)
         /\ call'[t].pc \notin {"indir", "direct", "done"} => DoneInv(t)'
         /\ DoneInv(t) /\ call' = call /\ faults' = faults => DoneInv(t)'
<1>1. \A l : Bmaparray(l)' = Bmaparray(l)
  BY MapNow
<1>2. Keeps(t)
  BY <1>1 DEF Keeps
<1>3. call'[t].pc \notin {"indir", "direct", "done"} => DoneInv(t)'
  BY DEF DoneInv
<1>4. ASSUME DoneInv(t), call' = call, faults' = faults PROVE DoneInv(t)'
  BY <1>1, <1>4 DEF DoneInv
<1>5. QED BY <1>1, <1>2, <1>3, <1>4

\* Where a call goes to.
LEMMA Went ==
  ASSUME NEW t \in Threads, TypeOK, NEW c, Go(t, c)
  PROVE  call'[t] = c
BY DEF Go, TypeOK

\* The steps that change no pointer.
LEMMA KeepQuiet ==
  ASSUME NEW t \in Threads, FileInv(t),
         \/ Write(t) \/ Truncate(t) \/ BallocLook(t) \/ WriteSize(t) \/ WriteCluster(t)
         \/ MetaWrite(t) \/ Lengthen(t) \/ ShortenSize(t) \/ TruncDone(t) \/ Nospace(t) \/ Undo(t)
  PROVE  Keeps(t) /\ DoneInv(t)'
<1>0. TypeOK /\ call[t] \in Calls /\ NoCall \in Calls /\ NoCall.pc = "idle"
  BY HeldFacts, NoCallFacts DEF FileInv
<1>1. UNCHANGED <<i_db, i_ib, ind>>
  BY DEF Write, Truncate, BallocLook, WriteSize, WriteCluster, MetaWrite, Lengthen, ShortenSize,
         TruncDone, Nospace, Undo, core
<1>2. ASSUME Return(t) PROVE call'[t].pc = "idle"
  BY <1>0, <1>2, Went DEF Return
<1>3. ASSUME NEW p, Goto(t, p) PROVE call'[t].pc = p
  <2>1. call'[t] = [call[t] EXCEPT !.pc = p]
    BY <1>0, <1>3, Went DEF Goto
  <2>2. QED BY <1>0, <2>1 DEF Calls
<1>4. ASSUME Write(t) PROVE call'[t].pc = "balloc"
  <2>1. PICK lo \in 0..(MaxLbn - 1), length \in Lengths, op \in {"write", "meta"} :
          Go(t, [NoCall EXCEPT !.op = op, !.pc = "balloc", !.lbn = lo, !.last = (length - 1) \div BSize,
                               !.length = length, !.osize = IF op = "write" THEN i_size ELSE 0])
    BY <1>4 DEF Write
  <2> DEFINE d == [NoCall EXCEPT !.op = op, !.pc = "balloc", !.lbn = lo, !.last = (length - 1) \div BSize,
                               !.length = length, !.osize = IF op = "write" THEN i_size ELSE 0]
  <2>2. d.pc = "balloc"
    BY <1>0 DEF Calls
  <2>3. call'[t] = d
    <3> HIDE DEF d
    <3>1. Go(t, d)
      BY <2>1 DEF d
    <3>2. QED BY <1>0, <3>1, Went
  <2>4. QED BY <2>2, <2>3
<1>5. ASSUME Truncate(t) PROVE call'[t].pc \in {"balloc", "zero"}
  <2>1. PICK length \in Lengths :
          LET c == [NoCall EXCEPT !.op = "truncate", !.length = length, !.osize = i_size] IN
          \/ Go(t, [c EXCEPT !.pc = "balloc", !.lbn = (length - 1) \div BSize,
                             !.last = (length - 1) \div BSize])
          \/ Go(t, [c EXCEPT !.pc = "balloc", !.lbn = length \div BSize, !.last = length \div BSize])
          \/ Go(t, [c EXCEPT !.pc = "zero"])
    BY <1>5 DEF Truncate
  <2> DEFINE c == [NoCall EXCEPT !.op = "truncate", !.length = length, !.osize = i_size]
             d == [c EXCEPT !.pc = "balloc", !.lbn = (length - 1) \div BSize, !.last = (length - 1) \div BSize]
             e == [c EXCEPT !.pc = "balloc", !.lbn = length \div BSize, !.last = length \div BSize]
             f == [c EXCEPT !.pc = "zero"]
  <2>2. d.pc = "balloc" /\ e.pc = "balloc" /\ f.pc = "zero"
    BY <1>0 DEF Calls
  <2>3. call'[t] \in {d, e, f}
    <3>1. Go(t, d) \/ Go(t, e) \/ Go(t, f)
      BY <2>1
    <3> HIDE DEF d, e, f
    <3>2. QED BY <1>0, <3>1, Went
  <2> HIDE DEF d, e, f
  <2>4. QED BY <2>2, <2>3
<1>6. ASSUME BallocLook(t) PROVE call'[t].pc \notin {"indir", "direct", "done"}
  <2> DEFINE c == call[t]
             b == IF Levels(c.lbn) = 0 THEN i_db[c.lbn] ELSE i_ib[Levels(c.lbn) - 1]
             d == [c EXCEPT !.pc = "walk", !.i = 1, !.indirb = b]
  <2>1. c.pc = "balloc" /\ c.lbn < MaxLbn /\ c.last < MaxLbn /\ c.released = 0
    BY <1>6 DEF BallocLook, FileInv, CallOk
  <2>2. Got(c).pc \in {"balloc", "size"} /\ d.pc = "walk"
    <3>1. d.pc = "walk"
      BY <1>0 DEF Calls
    <3> HIDE DEF c, d
    <3>2. Got(c).pc \in {"balloc", "size"}
      BY <1>0, <2>1, GotFacts DEF c
    <3>3. QED BY <3>1, <3>2
  <2>3. Go(t, Got(c)) \/ Return(t) \/ Goto(t, "panic") \/ Goto(t, "dalloc") \/ Goto(t, "ialloc") \/ Go(t, d)
    BY <1>6 DEF BallocLook
  <2> HIDE DEF c, d
  <2>4. Go(t, Got(c)) => call'[t] = Got(c)
    BY <1>0, Went
  <2>5. Go(t, d) => call'[t] = d
    BY <1>0, Went
  <2>6. QED BY <1>2, <1>3, <2>2, <2>3, <2>4, <2>5
<1>7. ASSUME WriteSize(t) \/ WriteCluster(t) \/ MetaWrite(t) \/ Lengthen(t) \/ ShortenSize(t)
               \/ TruncDone(t) \/ Nospace(t) \/ Undo(t)
      PROVE  call'[t].pc \in {"cluster", "zero", "idle"}
  <2>1. Goto(t, "cluster") \/ Goto(t, "zero") \/ Return(t)
    BY <1>7 DEF WriteSize, WriteCluster, MetaWrite, Lengthen, ShortenSize, TruncDone, Nospace, Undo
  <2>2. QED BY <1>2, <1>3, <2>1
<1>8. call'[t].pc \notin {"indir", "direct", "done"}
  BY <1>4, <1>5, <1>6, <1>7
<1>9. QED BY <1>1, <1>8, Quieter

\* A step with a new block.
LEMMA KeepGrown ==
  ASSUME NEW t \in Threads, FileInv(t), FileInv(t)', free # {}, call[t].pc # "update",
         \A l \in 0..(NDADDR - 1) : i_db[l] # 0 => i_db'[l] = i_db[l],
         \A l \in 0..(NIADDR - 1) : i_ib[l] # 0 => i_ib'[l] = i_ib[l],
         \A x \in Blocks, o \in Offsets : x # NewBlock /\ ind[x][o] # 0 => ind'[x][o] = ind[x][o],
         call'[t].pc \notin {"indir", "direct", "done"}
  PROVE  Keeps(t) /\ DoneInv(t)'
<1>1. /\ i_db \in Dbs /\ i_ib \in Ibs /\ ind \in [Blocks -> Indirs]
      /\ i_ib' \in Ibs /\ ind' \in [Blocks -> Indirs]
  BY DEF FileInv, TypeOK, Dbs, Ibs
<1>2. Grows(i_db, i_ib, ind, i_db', i_ib', ind', NewBlock)
  <2>1. \A p \in Pointers(i_db, i_ib, ind) : p[3] # NewBlock
    BY InMemory, NewBlockFacts
  <2>2. QED BY <2>1 DEF Grows
<1>3. ASSUME NEW l \in 0..(MaxLbn - 1), Bmaparray(l) # 0 PROVE Bmaparray(l)' = Bmaparray(l)
  <2>1. Bmaparray(l) = MapIn(i_db, i_ib, ind, l) /\ Bmaparray(l)' = MapIn(i_db', i_ib', ind', l)
    BY MapNow
  <2>2. MapIn(i_db', i_ib', ind', l) = MapIn(i_db, i_ib, ind, l)
    BY <1>1, <1>2, <1>3, <2>1, MapGrown
  <2>3. QED BY <2>1, <2>2
<1>4. Keeps(t)
  BY <1>3 DEF Keeps
<1>5. DoneInv(t)'
  BY DEF DoneInv
<1>6. QED BY <1>4, <1>5

\* ext2_balloc() puts a block into the inode where there was none.
LEMMA KeepAlloc ==
  ASSUME NEW t \in Threads, FileInv(t), FileInv(t)', DirectAlloc(t) \/ IndirAlloc(t)
  PROVE  Keeps(t) /\ DoneInv(t)'
<1> DEFINE c == call[t]
           b == NewBlock
           d == [c EXCEPT !.pc = "walk", !.i = 1, !.indirb = b]
<1>0. /\ TypeOK /\ c \in Calls /\ c.pc \in {"dalloc", "ialloc"} /\ c.lbn < MaxLbn /\ c.last < MaxLbn
      /\ c.released = 0 /\ i_db \in Dbs /\ i_ib \in Ibs /\ ind \in [Blocks -> Indirs]
      /\ c.lbn \in 0..(MaxLbn - 1)
  <2>1. /\ TypeOK /\ c \in Calls /\ c.pc \in {"dalloc", "ialloc"} /\ c.lbn < MaxLbn
        /\ c.last < MaxLbn /\ c.released = 0 /\ i_db \in Dbs /\ i_ib \in Ibs /\ ind \in [Blocks -> Indirs]
    BY HeldFacts DEF FileInv, CallOk, DirectAlloc, IndirAlloc
  <2>2. c.lbn \in 0..MaxLbn /\ MaxLbn \in Nat
    BY <2>1, FileAssumption DEF Calls
  <2>3. QED BY <2>1, <2>2
<1>1. CASE Nospace(t) \/ Undo(t)
  BY <1>1, KeepQuiet
<1>2. CASE DirectAlloc(t) /\ ~(Nospace(t) \/ Undo(t))
  <2>1. free # {} /\ i_db' = [i_db EXCEPT ![c.lbn] = b] /\ Go(t, Got(c)) /\ i_ib' = i_ib /\ ind' = ind
    BY <1>2 DEF DirectAlloc
  <2>2. c.pc = "dalloc" /\ i_db[c.lbn] = 0
    BY <1>2 DEF DirectAlloc, FileInv, CallOk
  <2>3. call'[t].pc \in {"balloc", "size"}
    <3>1. Got(c).pc \in {"balloc", "size"}
      BY <1>0, <2>2, GotFacts
    <3> HIDE DEF c
    <3>2. QED BY <1>0, <2>1, <3>1, Went
  <2>4. \A l \in 0..(NDADDR - 1) : i_db[l] # 0 => i_db'[l] = i_db[l]
    BY <1>0, <2>1, <2>2 DEF Dbs
  <2>5. QED BY <2>1, <2>2, <2>3, <2>4, KeepGrown
<1>3. CASE IndirAlloc(t) /\ ~(Nospace(t) \/ Undo(t))
  <2>1. /\ free # {} /\ i_ib' = [i_ib EXCEPT ![Levels(c.lbn) - 1] = b] /\ Go(t, d) /\ i_db' = i_db
        /\ ind' = [ind EXCEPT ![b] = Zeroes]
    BY <1>3 DEF IndirAlloc
  <2>2. c.pc = "ialloc" /\ i_ib[Levels(c.lbn) - 1] = 0
    BY <1>3 DEF IndirAlloc, FileInv, CallOk
  <2>3. call'[t].pc = "walk"
    <3>1. d.pc = "walk"
      BY <1>0 DEF Calls
    <3> HIDE DEF d
    <3>2. QED BY <1>0, <2>1, <3>1, Went
  <2>4. \A l \in 0..(NIADDR - 1) : i_ib[l] # 0 => i_ib'[l] = i_ib[l]
    BY <1>0, <2>1, <2>2 DEF Ibs
  <2>5. \A x \in Blocks, o \in Offsets : x # NewBlock /\ ind[x][o] # 0 => ind'[x][o] = ind[x][o]
    BY <1>0, <2>1
  <2>6. QED BY <2>1, <2>2, <2>3, <2>4, <2>5, KeepGrown
<1>4. QED BY <1>1, <1>2, <1>3

\* ext2_balloc() puts a block into an indirect block where there was none.
LEMMA KeepWalk ==
  ASSUME NEW t \in Threads, FileInv(t), FileInv(t)', Walk(t)
  PROVE  Keeps(t) /\ DoneInv(t)'
<1> DEFINE c == call[t]
           b == NewBlock
           off == InOff(c.lbn, c.i)
           nb == ind[c.indirb][off]
           d == [c EXCEPT !.i = @ + 1, !.indirb = nb]
           e == [c EXCEPT !.i = @ + 1, !.indirb = b]
           leaf == c.i = Levels(c.lbn)
<1>0. /\ TypeOK /\ c \in Calls /\ c.pc = "walk" /\ c.lbn < MaxLbn /\ c.last < MaxLbn
      /\ c.released = 0 /\ ind \in [Blocks -> Indirs]
  BY HeldFacts DEF FileInv, CallOk, Walk
<1>1. ASSUME Return(t) \/ Goto(t, "panic") \/ Go(t, Got(c)) \/ Go(t, d) \/ Go(t, e)
      PROVE  call'[t].pc \notin {"indir", "direct", "done"}
  <2>1. Got(c).pc \in {"balloc", "size"} /\ d.pc = "walk" /\ e.pc = "walk"
        /\ [c EXCEPT !.pc = "panic"].pc = "panic" /\ NoCall.pc = "idle"
    BY <1>0, GotFacts, NoCallFacts DEF Calls
  <2>2. Go(t, NoCall) \/ Go(t, [c EXCEPT !.pc = "panic"]) \/ Go(t, Got(c)) \/ Go(t, d) \/ Go(t, e)
    BY <1>1 DEF Return, Goto
  <2> DEFINE f == [c EXCEPT !.pc = "panic"]
  <2> HIDE DEF c, d, e, f
  <2>3. call'[t] \in {NoCall, f, Got(c), d, e}
    BY <1>0, <2>2, Went DEF f
  <2>4. QED BY <2>1, <2>3 DEF f
<1>2. CASE Nospace(t) \/ Undo(t)
  BY <1>2, KeepQuiet
<1>3. CASE UNCHANGED <<i_db, i_ib, ind>> /\ (Return(t) \/ Goto(t, "panic") \/ Go(t, Got(c)) \/ Go(t, d))
  BY <1>1, <1>3, Quieter
<1>4. CASE /\ nb = 0 /\ free # {} /\ Go(t, IF leaf THEN Got(c) ELSE e)
           /\ ind' = [ind EXCEPT ![c.indirb][off] = b, ![b] = Zeroes]
           /\ UNCHANGED <<i_db, i_ib>>
  <2>1. PICK p \in Held(t) : p[3] = c.indirb
    BY <1>0 DEF FileInv, CallOk
  <2>2. c.indirb \in Blocks /\ c.indirb # b /\ b \in Blocks
    BY <1>4, <2>1, NewBlockFacts, HeldFacts, <1>0
  <2>3. call'[t].pc \notin {"indir", "direct", "done"}
    <3> HIDE DEF c, e
    <3>1. QED BY <1>1, <1>4
  <2>4. ASSUME NEW x \in Blocks, NEW o \in Offsets, x # b, ind[x][o] # 0 PROVE ind'[x][o] = ind[x][o]
    <3> HIDE DEF c, b, off
    <3>1. ind[x] \in Indirs
      BY <1>0
    <3>2. QED BY <1>0, <1>4, <2>2, <2>4, <3>1 DEF Indirs, nb
  <2>5. QED BY <1>0, <1>4, <2>3, <2>4, KeepGrown
<1>5. \/ Nospace(t) \/ Undo(t)
      \/ UNCHANGED <<i_db, i_ib, ind>> /\ (Return(t) \/ Goto(t, "panic") \/ Go(t, Got(c)) \/ Go(t, d))
      \/ /\ nb = 0 /\ free # {} /\ Go(t, IF leaf THEN Got(c) ELSE e)
         /\ ind' = [ind EXCEPT ![c.indirb][off] = b, ![b] = Zeroes]
         /\ UNCHANGED <<i_db, i_ib>>
  BY DEF Walk, core
<1> HIDE DEF c, d, e, nb, b, off, leaf
<1>6. QED BY <1>2, <1>3, <1>4, <1>5

\* What a step of ext2_truncate() leaves in its place is what Keeps says of it.
LEMMA KeepTruncate ==
  ASSUME NEW t \in Threads, call[t].op = "truncate", call[t].length \in 0..(MaxLbn * BSize),
         \A l \in 0..(MaxLbn - 1) :
           l <= Lastblock(call[t].length) /\ MapIn(i_db, i_ib, ind, l) # 0 =>
             MapIn(i_db', i_ib', ind', l) = MapIn(i_db, i_ib, ind, l)
  PROVE  Keeps(t)
<1> DEFINE m == Lastblock(call[t].length)
<1>1. m \in Int /\ MaxLbn \in Nat
  BY LastFacts, FileAssumption
<1> HIDE DEF m
<1>2. ASSUME NEW l \in 0..(MaxLbn - 1), Bmaparray(l) # 0, Bmaparray(l)' # Bmaparray(l) PROVE l > m
  <2>1. Bmaparray(l) = MapIn(i_db, i_ib, ind, l) /\ Bmaparray(l)' = MapIn(i_db', i_ib', ind', l)
    BY MapNow
  <2>2. ~(l <= m)
    BY <1>2, <2>1 DEF m
  <2>3. QED BY <1>1, <2>2
<1>3. QED BY <1>2 DEF Keeps, m

\* The pointers that ext2_truncate() clears in the inode are those behind the end.
LEMMA KeepZero ==
  ASSUME NEW t \in Threads, FileInv(t), TruncZero(t)
  PROVE  Keeps(t) /\ DoneInv(t)'
<1> DEFINE c == call[t]
           d == [c EXCEPT !.pc = "update", !.olddb = i_db, !.oldib = i_ib]
<1>0. /\ TypeOK /\ c \in Calls /\ c.op = "truncate" /\ c.length \in 0..(MaxLbn * BSize)
      /\ i_db \in Dbs /\ i_ib \in Ibs /\ ind \in [Blocks -> Indirs]
  <2>1. TypeOK /\ c \in Calls /\ c.op = "truncate" /\ i_db \in Dbs /\ i_ib \in Ibs /\ ind \in [Blocks -> Indirs]
    BY HeldFacts DEF FileInv, CallOk, TruncZero
  <2>2. QED BY <2>1 DEF Calls
<1>1. call'[t].pc = "update"
  <2>1. d.pc = "update" /\ Go(t, d)
    BY <1>0 DEF Calls, TruncZero
  <2> HIDE DEF d
  <2>2. QED BY <1>0, <2>1, Went
<1>2. i_db' = StayDb(i_db, c.length) /\ i_ib' = StayIb(i_ib, c.length) /\ ind' = ind
  BY <1>0 DEF TruncZero, StayDb, StayIb, Dbs, Ibs
<1> HIDE DEF c
<1>3. Keeps(t)
  BY <1>0, <1>2, MapStay, KeepTruncate DEF c
<1>4. QED BY <1>1, <1>3 DEF DoneInv

\* When it puts the old pointers back, a block has the place that it had.
LEMMA KeepUpdate ==
  ASSUME NEW t \in Threads, FileInv(t), TruncUpdate(t)
  PROVE  Keeps(t) /\ DoneInv(t)'
<1> DEFINE c == call[t]
           d == [c EXCEPT !.pc = "indir", !.olddb = NoDb, !.oldib = NoIb, !.level = NIADDR - 1]
<1>0. /\ TypeOK /\ c \in Calls /\ c.op = "truncate" /\ c.length \in 0..(MaxLbn * BSize)
      /\ c.olddb \in Dbs /\ c.oldib \in Ibs /\ ind \in [Blocks -> Indirs]
      /\ i_db = StayDb(c.olddb, c.length) /\ i_ib = StayIb(c.oldib, c.length)
  <2>1. TypeOK /\ c \in Calls /\ c.op = "truncate" /\ c.olddb \in Dbs /\ c.oldib \in Ibs
        /\ ind \in [Blocks -> Indirs] /\ i_db = StayDb(c.olddb, c.length) /\ i_ib = StayIb(c.oldib, c.length)
    BY HeldFacts DEF FileInv, CallOk, TruncUpdate
  <2>2. QED BY <2>1 DEF Calls
<1>1. call'[t].pc = "indir" /\ call'[t].level = NIADDR - 1
  <2>1. d.pc = "indir" /\ d.level = NIADDR - 1 /\ Go(t, d)
    BY <1>0 DEF Calls, TruncUpdate
  <2> HIDE DEF d
  <2>2. QED BY <1>0, <2>1, Went
<1>2. i_db' = c.olddb /\ i_ib' = c.oldib /\ ind' = ind
  BY DEF TruncUpdate
<1>3. Keeps(t)
  <2> HIDE DEF c
  <2>1. QED BY <1>0, <1>2, MapStay, KeepTruncate DEF c
<1>4. (call'[t].level + 1)..(NIADDR - 1) = {}
  BY <1>1, FileAssumption
<1>5. QED BY <1>1, <1>3, <1>4 DEF DoneInv

\* The direct blocks go last, when the indirect pointers are 0.
LEMMA KeepDirect ==
  ASSUME NEW t \in Threads, FileInv(t), DoneInv(t), TruncDirect(t)
  PROVE  Keeps(t) /\ DoneInv(t)'
<1> DEFINE c == call[t]
           m == Lastblock(c.length)
           F == {i_db[l] : l \in {x \in DOMAIN i_db : x > Lastblock(c.length)}} \ {0}
           e == [c EXCEPT !.pc = "done"]
           d == [e EXCEPT !.released = @ + Cardinality(F)]
<1>0. /\ TypeOK /\ c \in Calls /\ c.op = "truncate" /\ c.length \in 0..(MaxLbn * BSize)
      /\ i_db \in Dbs /\ i_ib \in Ibs /\ ind \in [Blocks -> Indirs]
      /\ NDADDR \in Nat /\ NIADDR \in Nat /\ MaxLbn \in Nat
  <2>1. TypeOK /\ c \in Calls /\ c.op = "truncate" /\ i_db \in Dbs /\ i_ib \in Ibs /\ ind \in [Blocks -> Indirs]
    BY HeldFacts DEF FileInv, CallOk, TruncDirect
  <2>2. QED BY <2>1, FileAssumption DEF Calls
<1>1. call'[t].pc = "done" /\ call'[t].length = c.length
  <2>1. Go(t, d)
    BY DEF TruncDirect, Blkfree
  <2> HIDE DEF F
  <2>2. d.pc = "done" /\ d.length = c.length
    BY <1>0 DEF Calls
  <2> HIDE DEF d
  <2>3. QED BY <1>0, <2>1, <2>2, Went
<1>2. i_db' = StayDb(i_db, c.length) /\ i_ib' = i_ib /\ ind' = ind
  BY <1>0 DEF TruncDirect, StayDb, Dbs
<1>3. \A k \in 0..(NIADDR - 1) : i_ib[k] = 0
  BY DEF DoneInv, TruncDirect
<1> HIDE DEF c
<1>4. Keeps(t)
  BY <1>0, <1>2, MapStay, KeepTruncate DEF c
<1>5. m \in -1..(MaxLbn - 1)
  BY <1>0, LastFacts
<1>6. ASSUME NEW l \in (m + 1)..(MaxLbn - 1) PROVE Bmaparray(l)' = 0
  <2>0. l \in 0..(MaxLbn - 1) /\ l > m
    <3> HIDE DEF m
    <3>1. QED BY <1>0, <1>5
  <2>1. Bmaparray(l)' = MapIn(StayDb(i_db, c.length), i_ib, ind, l)
    BY <1>2, MapNow
  <2>2. Levels(l) \in 0..NIADDR /\ (Levels(l) = 0 <=> l < NDADDR)
    BY <2>0, LevelsFacts
  <2>3. CASE Levels(l) = 0
    <3>1. l \in 0..(NDADDR - 1)
      BY <1>0, <2>0, <2>2, <2>3
    <3>2. StayDb(i_db, c.length)[l] = 0
      BY <2>0, <3>1 DEF StayDb, m
    <3>3. QED BY <2>1, <2>3, <3>2 DEF MapIn
  <2>4. CASE Levels(l) # 0
    <3>1. Levels(l) - 1 \in 0..(NIADDR - 1)
      BY <1>0, <2>2, <2>4
    <3>2. i_ib[Levels(l) - 1] = 0
      BY <1>3, <3>1
    <3>3. MapIn(StayDb(i_db, c.length), i_ib, ind, l) = 0
      BY <1>0, <2>0, <2>4, <3>2, MapZero
    <3>4. QED BY <2>1, <3>3
  <2>5. QED BY <2>3, <2>4
<1>7. DoneInv(t)'
  <2>1. \A l \in (Lastblock(call'[t].length) + 1)..(MaxLbn - 1) : Bmaparray(l)' = 0
    BY <1>1, <1>6 DEF m
  <2>2. QED BY <1>1, <2>1 DEF DoneInv
<1>8. QED BY <1>4, <1>7

\* What is cut below an indirect pointer of the inode.
LEMMA CutToFacts ==
  ASSUME ind \in [Blocks -> Indirs], NEW db \in Dbs, NEW ib \in Ibs, Inj(Pointers(db, ib, ind)),
         NEW length \in 0..(MaxLbn * BSize), NEW l \in 0..(NIADDR - 1), ib[l] # 0,
         \A k \in (l + 1)..(NIADDR - 1) : Lastiblock(length, k) < 0,
         NEW bad
  PROVE  LET n == Lastiblock(length, l) IN CutTo(db, ib, l, n, Indirtrunc(l, ib[l], n, bad), bad)
<1> DEFINE n == Lastiblock(length, l)
           K == Indirtrunc(l, ib[l], n, bad)
<1>1. CutSome(Pointers(db, ib, ind), IbAt(ib, l), n, K)
  BY IndirCuts
<1>2. n \in -1..MaxLbn /\ ib[l] \in Blocks
  <2>1. n \in -1..(MaxLbn - 1) /\ ib[l] \in Blocks
    BY LastFacts DEF Ibs, Pointer
  <2> HIDE DEF n
  <2>2. QED BY <2>1, FileAssumption
<1> HIDE DEF n
<1>3. \E V : Visits(V, <<ib[l], n, l>>, K, bad)
  BY <1>2, VisitFacts
<1>4. CutTo(db, ib, l, n, K, bad)
  BY <1>1, <1>3 DEF CutTo
<1>5. QED BY <1>4 DEF n

\* One indirect pointer: all of it, or what is behind the end.
LEMMA KeepIndir ==
  ASSUME NEW t \in Threads, FileInv(t), FileInv(t)', DoneInv(t), TruncIndir(t), call'[t].pc # "torn"
  PROVE  Keeps(t) /\ DoneInv(t)'
<1> DEFINE c == call[t]
           l == c.level
           bn == i_ib[l]
           m == Lastblock(c.length)
           n == Lastiblock(c.length, l)
           pc == IF n >= 0 THEN "done" ELSE IF l = 0 THEN "direct" ELSE "indir"
           next == [c EXCEPT !.level = l - 1, !.pc = pc]
<1>0. /\ TypeOK /\ c \in Calls /\ c.pc = "indir" /\ c.op = "truncate" /\ c.length \in 0..(MaxLbn * BSize)
      /\ i_db \in Dbs /\ i_ib \in Ibs /\ ind \in [Blocks -> Indirs] /\ l \in 0..(NIADDR - 1)
      /\ \A k \in (l + 1)..(NIADDR - 1) : Lastiblock(c.length, k) < 0
      /\ NIADDR \in Nat /\ NDADDR \in Nat /\ MaxLbn \in Nat /\ faults \in Nat
  <2>1. TypeOK /\ c.pc = "indir"
    BY DEF FileInv, TruncIndir
  <2>2. /\ c \in Calls /\ c.op = "truncate" /\ i_db \in Dbs /\ i_ib \in Ibs /\ ind \in [Blocks -> Indirs]
        /\ l \in 0..(NIADDR - 1) /\ \A k \in (l + 1)..(NIADDR - 1) : Lastiblock(c.length, k) < 0
    BY <2>1, HeldFacts DEF FileInv, CallOk
  <2>3. c.length \in 0..(MaxLbn * BSize)
    BY <2>2 DEF Calls
  <2>4. faults \in Nat
    BY <2>1, FileAssumption DEF TypeOK
  <2>5. QED BY <2>1, <2>2, <2>3, <2>4, FileAssumption
<1>1. Inj(Pointers(i_db, i_ib, ind))
  <2>1. Pointers(i_db, i_ib, ind) = Held(t)
    BY <1>0, InMemory
  <2>2. QED BY <2>1 DEF FileInv, MemOk
<1>2. m \in -1..(MaxLbn - 1) /\ n \in -1..(MaxLbn - 1) /\ n \in -1..MaxLbn
  <2>1. m \in -1..(MaxLbn - 1) /\ n \in -1..(MaxLbn - 1)
    BY <1>0, LastFacts
  <2> HIDE DEF n, m
  <2>2. QED BY <1>0, <2>1
<1>3. next.pc = pc /\ next.level = l - 1 /\ next.length = c.length
      /\ \A r : [next EXCEPT !.released = r].pc = pc /\ [next EXCEPT !.released = r].level = l - 1
                /\ [next EXCEPT !.released = r].length = c.length
  <2> HIDE DEF n
  <2>1. QED BY <1>0 DEF Calls
<1>4. \A k \in (l + 1)..(NIADDR - 1) : i_ib[k] = 0
  BY <1>0 DEF DoneInv
<1>5. i_db' = i_db
  BY DEF TruncIndir
<1> DEFINE ib == CutTop(i_ib, l, n)
<1>6. ib \in Ibs /\ (\A k \in (l + 1)..(NIADDR - 1) : ib[k] = 0) /\ (n < 0 => ib[l] = 0)
  <2> HIDE DEF l, n
  <2>1. ib \in Ibs
    BY <1>0 DEF CutTop, Ibs, Pointer
  <2>2. \A k \in (l + 1)..(NIADDR - 1) : k \in 0..(NIADDR - 1) /\ k # l
    BY <1>0
  <2>3. \A k \in (l + 1)..(NIADDR - 1) : ib[k] = 0
    BY <1>0, <1>4, <2>2 DEF CutTop, Ibs
  <2>4. n < 0 => ib[l] = 0
    BY <1>0 DEF CutTop, Ibs
  <2>5. QED BY <2>1, <2>3, <2>4
\* It is enough that the blocks below this pointer are kept and gone.
<1>7. ASSUME call'[t].pc = pc, call'[t].level = l - 1, call'[t].length = c.length, i_ib' = ib,
             ind' \in [Blocks -> Indirs],
             \A x \in 0..(MaxLbn - 1) :
               x <= m /\ MapIn(i_db, i_ib, ind, x) # 0 =>
                 MapIn(i_db', i_ib', ind', x) = MapIn(i_db, i_ib, ind, x),
             \A x \in 0..(MaxLbn - 1) :
               n >= 0 /\ faults' = 0 /\ x > m /\ Levels(x) = l + 1 => MapIn(i_db', i_ib', ind', x) = 0
      PROVE  Keeps(t) /\ DoneInv(t)'
  <2>1. Keeps(t)
    BY <1>0, <1>7, KeepTruncate
  <2> HIDE DEF c, l, n, ib
  <2>2. call'[t].pc = "indir" => \A k \in (call'[t].level + 1)..(NIADDR - 1) : i_ib'[k] = 0
    <3> SUFFICES ASSUME call'[t].pc = "indir", NEW k \in (call'[t].level + 1)..(NIADDR - 1)
                 PROVE  i_ib'[k] = 0
      OBVIOUS
    <3>1. k \in l..(NIADDR - 1) /\ (k = l \/ k \in (l + 1)..(NIADDR - 1))
      BY <1>0, <1>7
    <3>2. n < 0
      <4>1. pc = "indir"
        BY <1>7
      <4>2. ~(n >= 0)
        BY <4>1
      <4>3. QED BY <1>2, <4>2
    <3>3. QED BY <1>6, <1>7, <3>1, <3>2
  <2>3. call'[t].pc = "direct" => \A k \in 0..(NIADDR - 1) : i_ib'[k] = 0
    <3> SUFFICES ASSUME call'[t].pc = "direct", NEW k \in 0..(NIADDR - 1) PROVE i_ib'[k] = 0
      OBVIOUS
    <3>1. pc = "direct"
      BY <1>7
    <3>2. ~(n >= 0) /\ l = 0
      BY <3>1
    <3>3. n < 0 /\ (k = l \/ k \in (l + 1)..(NIADDR - 1))
      BY <1>0, <1>2, <3>2
    <3>4. QED BY <1>6, <1>7, <3>3
  <2>4. ASSUME call'[t].pc = "done", faults' = 0, NEW x \in (m + 1)..(MaxLbn - 1)
        PROVE  Bmaparray(x)' = 0
    <3>1. n >= 0 /\ x \in 0..(MaxLbn - 1) /\ x > m
      <4>1. pc = "done"
        BY <1>7, <2>4
      <4>2. n >= 0
        BY <4>1
      <4> HIDE DEF m
      <4>3. QED BY <1>0, <1>2, <4>2
    <3>2. Bmaparray(x)' = MapIn(i_db', i_ib', ind', x)
      BY MapNow
    <3>3. Levels(x) >= l + 1 /\ Levels(x) \in 0..NIADDR
      BY <1>0, <3>1, EndFacts, LevelsFacts DEF n, m
    <3>4. CASE Levels(x) = l + 1
      BY <1>7, <2>4, <3>1, <3>2, <3>4
    <3>5. CASE Levels(x) # l + 1
      <4>1. Levels(x) - 1 \in (l + 1)..(NIADDR - 1) /\ Levels(x) # 0
        BY <1>0, <3>3, <3>5
      <4>2. i_ib'[Levels(x) - 1] = 0
        BY <1>6, <1>7, <4>1
      <4>3. MapIn(i_db', i_ib', ind', x) = 0
        BY <1>6, <1>7, <3>1, <4>1, <4>2, MapZero
      <4>4. QED BY <3>2, <4>3
    <3>6. QED BY <3>4, <3>5
  <2>5. DoneInv(t)'
    <3>1. Lastblock(call'[t].length) = m
      BY <1>7 DEF m
    <3>2. QED BY <2>2, <2>3, <2>4, <3>1 DEF DoneInv
  <2>6. QED BY <2>1, <2>5
<1>8. CASE bn = 0 /\ Go(t, next) /\ UNCHANGED <<i_ib, ind>>
  <2>1. call'[t] = next
    <3> HIDE DEF next
    <3>1. QED BY <1>0, <1>8, Went
  <2>2. i_ib' = ib
    <3> HIDE DEF n
    <3>1. [i_ib EXCEPT ![l] = 0] = i_ib
      BY <1>0, <1>8 DEF Ibs
    <3>2. QED BY <1>8, <3>1 DEF CutTop
  <2>3. ASSUME NEW x \in 0..(MaxLbn - 1), Levels(x) = l + 1 PROVE MapIn(i_db', i_ib', ind', x) = 0
    <3>1. Levels(x) # 0 /\ Levels(x) - 1 = l
      <4> HIDE DEF l
      <4>1. QED BY <1>0, <2>3
    <3>2. i_ib[Levels(x) - 1] = 0
      BY <1>8, <3>1
    <3> HIDE DEF l, c
    <3>3. MapIn(i_db', i_ib, ind, x) = 0
      BY <1>0, <3>1, <3>2, MapZero
    <3>4. QED BY <1>8, <3>3
  <2>4. ind' \in [Blocks -> Indirs]
    BY <1>0, <1>8
  <2>5. \A x \in 0..(MaxLbn - 1) : MapIn(i_db', i_ib', ind', x) = MapIn(i_db, i_ib, ind, x)
    BY <1>5, <1>8
  <2>6. call'[t].pc = pc /\ call'[t].level = l - 1 /\ call'[t].length = c.length
    BY <1>3, <2>1
  <2> HIDE DEF c, l, n, pc, next, ib, m
  <2>7. QED BY <1>7, <2>2, <2>3, <2>4, <2>5, <2>6
<1>9. ASSUME bn # 0, NEW bad, NEW K, K = Indirtrunc(l, bn, n, bad),
             Whole(t, bad, K, FreedWith(K, bn, n), next), i_ib' = ib
      PROVE  Keeps(t) /\ DoneInv(t)'
  <2>0. /\ IF bad = {} THEN UNCHANGED faults ELSE Fault
        /\ ind' = CutContent(i_ib, l, n, K) /\ Blkfree(t, FreedWith(K, bn, n), next)
    BY <1>9 DEF Whole, CutContent
  <2>1. CutTo(i_db, i_ib, l, n, K, bad)
    BY <1>0, <1>1, <1>9, CutToFacts
  <2> DEFINE d == [next EXCEPT !.released = @ + Cardinality(FreedWith(K, bn, n))]
  <2>2. call'[t].pc = pc /\ call'[t].level = l - 1 /\ call'[t].length = c.length
    <3>1. d.pc = pc /\ d.level = l - 1 /\ d.length = c.length
      <4> HIDE DEF c, l, n, pc, next, bn
      <4>1. QED BY <1>3
    <3>2. Go(t, d)
      BY <2>0 DEF Blkfree
    <3> HIDE DEF d
    <3>3. call'[t] = d
      BY <1>0, <3>2, Went
    <3>4. QED BY <3>1, <3>3
  <2>3. ind' \in [Blocks -> Indirs]
    BY DEF FileInv, TypeOK
  <2>4. ASSUME NEW x \in 0..(MaxLbn - 1), x <= m, MapIn(i_db, i_ib, ind, x) # 0
        PROVE  MapIn(i_db', i_ib', ind', x) = MapIn(i_db, i_ib, ind, x)
    <3>1. Levels(x) = l + 1 => x - Base[Levels(x)] <= n
      BY <1>0, <2>4, EndFacts
    <3> HIDE DEF c, l, n
    <3>2. MapIn(i_db, CutTop(i_ib, l, n), CutContent(i_ib, l, n, K), x) = MapIn(i_db, i_ib, ind, x)
      BY <1>0, <1>1, <1>2, <1>9, <2>0, <2>1, <2>4, <3>1, KeptCut
    <3>3. QED BY <1>5, <1>9, <2>0, <3>2
  <2>5. ASSUME NEW x \in 0..(MaxLbn - 1), n >= 0, faults' = 0, x > m, Levels(x) = l + 1
        PROVE  MapIn(i_db', i_ib', ind', x) = 0
    <3>1. bad = {}
      <4> SUFFICES ASSUME bad # {} PROVE FALSE
        OBVIOUS
      <4>1. faults' = faults + 1
        BY <2>0 DEF Fault
      <4>2. QED BY <1>0, <2>5, <4>1
    <3>2. x - Base[Levels(x)] > n
      BY <1>0, <2>5, EndFacts
    <3> HIDE DEF c, l, n
    <3>3. n \in 0..MaxLbn
      BY <1>0, <1>2, <2>5
    <3>4. MapIn(i_db, CutTop(i_ib, l, n), CutContent(i_ib, l, n, K), x) = 0
      BY <1>0, <1>1, <1>9, <2>1, <2>5, <3>1, <3>2, <3>3, GoneCut
    <3>5. QED BY <1>5, <1>9, <2>0, <3>4
  <2> HIDE DEF c, l, n, pc, next, ib, m
  <2>6. QED BY <1>7, <1>9, <2>2, <2>3, <2>4, <2>5
<1>10. CASE bn # 0
  <2>1. i_ib' = ib
    BY <1>10 DEF TruncIndir, CutTop
  <2>2. ASSUME NEW K, NEW F, Tears(t, K, F, next) PROVE FALSE
    <3>1. Go(t, [[next EXCEPT !.pc = "torn"] EXCEPT !.released = @ + Cardinality(F)])
      BY <2>2 DEF Tears, Blkfree
    <3> HIDE DEF n
    <3>2. [[next EXCEPT !.pc = "torn"] EXCEPT !.released = @ + Cardinality(F)].pc = "torn"
      BY <1>0 DEF Calls
    <3>3. call'[t].pc = "torn"
      BY <1>0, <3>1, <3>2, Went
    <3>4. QED BY <3>3
  <2>3. \E bad : Whole(t, bad, Indirtrunc(l, bn, n, bad),
                      FreedWith(Indirtrunc(l, bn, n, bad), bn, n), next)
    BY <1>10, <2>2, TruncIndirCases
  <2> HIDE DEF c, l, bn, n, next, ib, pc
  <2>4. QED BY <1>9, <1>10, <2>1, <2>3
<1>11. CASE bn = 0
  BY <1>8, <1>11 DEF TruncIndir
<1>12. QED BY <1>10, <1>11

LEMMA KeepInit ==
  ASSUME NEW t \in Threads, Init
  PROVE  DoneInv(t)
<1>1. call[t].pc = "idle"
  BY NoCallFacts DEF Init
<1>2. QED BY <1>1 DEF DoneInv

\* Each step of Next.
LEMMA KeepNext ==
  ASSUME NEW t \in Threads, Threads = {t}, FileInv(t), FileInv(t)', DoneInv(t), [Next]_vars, ~Torn'
  PROVE  Keeps(t) /\ DoneInv(t)'
<1>1. CASE Begin(t)
  BY <1>1, KeepQuiet DEF Begin
<1>2. CASE Balloc(t)
  BY <1>2, KeepQuiet, KeepAlloc, KeepWalk DEF Balloc
<1>3. CASE WriteSize(t) \/ WriteCluster(t) \/ MetaWrite(t) \/ Lengthen(t)
  BY <1>3, KeepQuiet
<1>4. CASE Shorten(t)
  BY <1>4, TornIs, KeepQuiet, KeepZero, KeepUpdate, KeepIndir, KeepDirect DEF Shorten
<1>5. CASE FlushInode
  <2>1. UNCHANGED <<i_db, i_ib, ind>> /\ call' = call /\ faults' = faults
    BY <1>5 DEF FlushInode, core
  <2>2. QED BY <2>1, Quieter
<1>6. ASSUME NEW b \in Blocks, FlushBuf(b) PROVE Keeps(t) /\ DoneInv(t)'
  <2>1. UNCHANGED <<i_db, i_ib, ind>> /\ call' = call /\ faults' = faults
    BY <1>6 DEF FlushBuf, core
  <2>2. QED BY <2>1, Quieter
<1>7. CASE UNCHANGED vars
  <2>1. UNCHANGED <<i_db, i_ib, ind>> /\ call' = call /\ faults' = faults
    BY <1>7 DEF vars
  <2>2. QED BY <2>1, Quieter
<1>8. QED BY <1>1, <1>2, <1>3, <1>4, <1>5, <1>6, <1>7 DEF Next, Stopped

\* The invariant and what is behind the end, until an indirect block is lost.
KeepOk(t) == FileOk(t) /\ (~Torn => DoneInv(t))
LEMMA KeepStep ==
  ASSUME NEW t \in Threads, Threads = {t}, KeepOk(t), [Next]_vars
  PROVE  KeepOk(t)' /\ (Keeps(t) \/ Torn')
<1>1. CASE Torn
  <2>1. UNCHANGED vars
    BY <1>1 DEF Next, Stopped
  <2>2. TypeOK' /\ Torn'
    BY <1>1, <2>1 DEF KeepOk, FileOk, TypeOK, Torn, vars
  <2>3. QED BY <2>2 DEF KeepOk, FileOk
<1>2. CASE ~Torn
  <2>1. FileInv(t) /\ DoneInv(t)
    BY <1>2 DEF KeepOk, FileOk
  <2>2. FileInv(t)' \/ (Torn' /\ TypeOK')
    BY <2>1, FileNext
  <2>3. FileInv(t)' => TypeOK'
    BY DEF FileInv
  <2>4. ~Torn' => Keeps(t) /\ DoneInv(t)'
    BY <2>1, <2>2, KeepNext
  <2>5. QED BY <2>2, <2>3, <2>4 DEF KeepOk, FileOk
<1>3. QED BY <1>1, <1>2

\* ext2_balloc() and ext2_truncate() leave each block at the place in the file that
\* ext2_bmaparray() finds it at, unless it is behind the new end or an indirect block was lost;
\* and when ext2_truncate() is through, and no read or write failed, nothing behind the end has
\* a block.
THEOREM PlacesAreKept ==
  ASSUME NEW u \in Threads, Threads = {u}
  PROVE  Spec => KeptMapping
<1>1. Init => KeepOk(u)
  BY FileInit, KeepInit DEF KeepOk, FileOk, FileInv
<1>2. KeepOk(u) /\ [Next]_vars => KeepOk(u)'
  BY KeepStep
<1>3. Spec => []KeepOk(u)
  BY <1>1, <1>2, PTL DEF Spec
<1>4. KeepOk(u) /\ [Next]_vars =>
        [/\ \A l \in 0..(MaxLbn - 1) :
              Bmaparray(l) # 0 /\ Bmaparray(l)' # Bmaparray(l) /\ ~Torn' =>
                \E t \in Threads : call[t].op = "truncate" /\ l > Lastblock(call[t].length)
         /\ \A t \in Threads : TruncDone(t) /\ faults = 0 =>
              \A l \in (Lastblock(call[t].length) + 1)..(MaxLbn - 1) : Bmaparray(l) = 0]_vars
  <2> SUFFICES ASSUME KeepOk(u), [Next]_vars
               PROVE  /\ \A l \in 0..(MaxLbn - 1) :
                           Bmaparray(l) # 0 /\ Bmaparray(l)' # Bmaparray(l) /\ ~Torn' =>
                             \E t \in Threads : call[t].op = "truncate" /\ l > Lastblock(call[t].length)
                      /\ \A t \in Threads : TruncDone(t) /\ faults = 0 =>
                           \A l \in (Lastblock(call[t].length) + 1)..(MaxLbn - 1) : Bmaparray(l) = 0
    OBVIOUS
  <2>1. Keeps(u) \/ Torn'
    BY KeepStep
  <2>2. \A l \in 0..(MaxLbn - 1) :
          Bmaparray(l) # 0 /\ Bmaparray(l)' # Bmaparray(l) /\ ~Torn' =>
            \E t \in Threads : call[t].op = "truncate" /\ l > Lastblock(call[t].length)
    BY <2>1 DEF Keeps
  <2>3. ASSUME NEW t \in Threads, TruncDone(t), faults = 0
        PROVE  \A l \in (Lastblock(call[t].length) + 1)..(MaxLbn - 1) : Bmaparray(l) = 0
    <3>1. t = u /\ call[u].pc = "done"
      BY <2>3 DEF TruncDone
    <3>2. DoneInv(u)
      BY <3>1, TornIs DEF KeepOk
    <3>3. QED BY <2>3, <3>1, <3>2 DEF DoneInv
  <2>4. QED BY <2>2, <2>3
<1>5. QED BY <1>3, <1>4, PTL DEF Spec, KeptMapping
=============================================================================
