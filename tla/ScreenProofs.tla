----------------------------- MODULE ScreenProofs -----------------------------
(***************************************************************************)
(* Proofs about the windows of the Mini App (Navigation), its installation *)
(* guide, its charts and the demo backend, for any number of sheets,       *)
(* handlers, orders and days, and about all its parts taken together.      *)
(***************************************************************************)
EXTENDS MCMiniApp, MiniAppProofs, FiniteSetTheorems, SequenceTheorems

-----------------------------------------------------------------------------
(* Sequences without some of their members.                                 *)

\* The place of i among the members of K.
Rank(K, i) == Cardinality({j \in K : j <= i})

\* The members of a finite set of numbers are ranked from 1 to their number.
LEMMA RanksCount ==
    ASSUME NEW n \in Nat, NEW K \in SUBSET (1 .. n)
    PROVE  /\ IsFiniteSet(K) /\ Cardinality(K) \in Nat
           /\ \A i \in K : Rank(K, i) \in 1 .. Cardinality(K)
           /\ \A i, j \in K : i < j => Rank(K, i) < Rank(K, j)
           /\ \A k \in 1 .. Cardinality(K) : \E i \in K : Rank(K, i) = k
  <1> DEFINE c == Cardinality(K)
             upTo(i) == {j \in K : j <= i}
  <1>1. IsFiniteSet(K) /\ c \in Nat
    <2>1. IsFiniteSet(1 .. n)
      BY FS_Interval
    <2> QED  BY <2>1, FS_Subset, FS_CardinalityType
  <1>2. \A i \in K : /\ IsFiniteSet(upTo(i)) /\ Cardinality(upTo(i)) \in Nat
                     /\ Cardinality(upTo(i)) <= c
    <2> TAKE i \in K
    <2>1. upTo(i) \in SUBSET K
      OBVIOUS
    <2> QED  BY <1>1, <2>1, FS_Subset, FS_CardinalityType
  <1>3. \A i \in K : Rank(K, i) \in 1 .. c
    <2> TAKE i \in K
    <2>1. i \in upTo(i)
      OBVIOUS
    <2>2. upTo(i) # {}
      BY <2>1
    <2>3. Cardinality(upTo(i)) # 0
      BY <1>2, <2>2, FS_EmptySet
    <2> QED  BY <1>1, <1>2, <2>3 DEF Rank
  <1>4. \A i, j \in K : i < j => Rank(K, i) < Rank(K, j)
    <2> SUFFICES ASSUME NEW i \in K, NEW j \in K, i < j PROVE Rank(K, i) < Rank(K, j)
      OBVIOUS
    <2>1. j \in upTo(j)
      OBVIOUS
    <2>2. /\ IsFiniteSet(upTo(j) \ {j})
          /\ Cardinality(upTo(j) \ {j}) = Cardinality(upTo(j)) - 1
      BY <1>2, <2>1, FS_RemoveElement
    <2>3. upTo(i) \in SUBSET (upTo(j) \ {j})
      <3>1. i \in Int /\ j \in Int /\ \A x \in K : x \in Int
        OBVIOUS
      <3>2. ASSUME NEW x \in K, x <= i PROVE x <= j /\ x # j
        BY <3>1, <3>2
      <3> QED  BY <3>2
    <2>4. Cardinality(upTo(i)) <= Cardinality(upTo(j)) - 1
      BY <2>2, <2>3, FS_Subset
    <2> HIDE DEF upTo
    <2>5. Cardinality(upTo(i)) < Cardinality(upTo(j))
      BY <1>2, <2>4
    <2> QED  BY <2>5 DEF Rank, upTo
  <1>5. \A k \in 1 .. c : \E i \in K : Rank(K, i) = k
    <2> DEFINE f == [i \in K |-> Rank(K, i)]
    <2>1. f \in [K -> 1 .. c]
      BY <1>3
    <2>2. \A i, j \in K : f[i] = f[j] => i = j
      <3> SUFFICES ASSUME NEW i \in K, NEW j \in K, Rank(K, i) = Rank(K, j) PROVE i = j
        OBVIOUS
      <3>1. Rank(K, i) \in Int /\ Rank(K, j) \in Int
        BY <1>3
      <3>2. ~(i < j) /\ ~(j < i)
        BY <1>4, <3>1
      <3> QED  BY <3>2
    <2>3. f \in Injection(K, 1 .. c)
      BY <2>1, <2>2 DEF Injection, IsInjective
    <2>4. IsFiniteSet(1 .. c) /\ Cardinality(1 .. c) = c
      BY <1>1, FS_Interval
    <2>5. f \in Surjection(K, 1 .. c)
      BY <2>3, <2>4, FS_Injection
    <2> QED  BY <2>5 DEF Surjection
  <1> QED  BY <1>1, <1>3, <1>4, <1>5

\* m comes before n in seq.
Before(seq, m, n) == \E i, j \in 1 .. Len(seq) : i < j /\ seq[i] = m /\ seq[j] = n

\* What is left of a sequence, how much of it, and in which order.
LEMMA WithoutKeeps ==
    ASSUME NEW S, NEW seq \in Seq(S), NEW ms
    PROVE  LET rest == Without(seq, ms) IN
           /\ rest \in Seq(S)
           /\ Len(rest) = Cardinality({i \in 1 .. Len(seq) : seq[i] \notin ms})
           /\ In(rest) = In(seq) \ ms
           /\ \A k, l \in 1 .. Len(rest) : k < l => Before(seq, rest[k], rest[l])
  <1> DEFINE K == {i \in 1 .. Len(seq) : seq[i] \notin ms}
             c == Cardinality(K)
             at(k) == CHOOSE i \in K : Rank(K, i) = k
             rest == Without(seq, ms)
  <1>1. Len(seq) \in Nat /\ K \in SUBSET (1 .. Len(seq))
    OBVIOUS
  <1>2. /\ c \in Nat
        /\ \A i \in K : Rank(K, i) \in 1 .. c
        /\ \A i, j \in K : i < j => Rank(K, i) < Rank(K, j)
        /\ \A k \in 1 .. c : \E i \in K : Rank(K, i) = k
    BY <1>1, RanksCount
  <1>3. rest = [k \in 1 .. c |-> seq[at(k)]]
    BY DEF Without, Rank
  <1>4. \A i \in K : i \in 1 .. Len(seq) /\ seq[i] \notin ms /\ seq[i] \in S
    OBVIOUS
  <1>5. \A i \in 1 .. Len(seq) : seq[i] \notin ms => i \in K
    OBVIOUS
  <1> HIDE DEF K, c, rest
  <1>6. \A k \in 1 .. c : at(k) \in K /\ Rank(K, at(k)) = k
    BY <1>2
  <1>7. \A i \in K : at(Rank(K, i)) = i
    <2> SUFFICES ASSUME NEW i \in K PROVE at(Rank(K, i)) = i
      OBVIOUS
    <2>1. /\ Rank(K, i) \in 1 .. c /\ at(Rank(K, i)) \in K
          /\ Rank(K, at(Rank(K, i))) = Rank(K, i)
      BY <1>2, <1>6
    <2> DEFINE j == at(Rank(K, i))
    <2> HIDE DEF at
    <2>2. ~(i < j) /\ ~(j < i)
      BY <1>2, <2>1
    <2> QED  BY <1>4, <2>1, <2>2
  <1> HIDE DEF at
  <1>8. rest \in [1 .. c -> S] /\ rest \in Seq(S) /\ Len(rest) = c
    <2>1. rest \in [1 .. c -> S]
      BY <1>3, <1>4, <1>6
    <2> QED  BY <1>2, <2>1
  <1>9. \A k \in 1 .. c : rest[k] = seq[at(k)]
    BY <1>3
  <1>10. In(rest) = In(seq) \ ms
    <2>1. In(rest) = {rest[k] : k \in 1 .. c} /\ In(seq) = {seq[i] : i \in 1 .. Len(seq)}
      BY <1>8 DEF In
    <2>2. ASSUME NEW k \in 1 .. c PROVE rest[k] \in In(seq) \ ms
      BY <1>4, <1>6, <1>9, <2>1
    <2>3. ASSUME NEW i \in 1 .. Len(seq), seq[i] \notin ms PROVE seq[i] \in In(rest)
      <3>1. i \in K
        BY <1>5, <2>3
      <3>2. Rank(K, i) \in 1 .. c /\ rest[Rank(K, i)] = seq[i]
        BY <1>2, <1>7, <1>9, <3>1
      <3> QED  BY <2>1, <3>2
    <2> QED  BY <2>1, <2>2, <2>3
  <1>11. ASSUME NEW k \in 1 .. c, NEW l \in 1 .. c, k < l
         PROVE  Before(seq, rest[k], rest[l])
    <2>1. /\ at(k) \in K /\ Rank(K, at(k)) = k /\ rest[k] = seq[at(k)]
          /\ at(l) \in K /\ Rank(K, at(l)) = l /\ rest[l] = seq[at(l)]
      BY <1>6, <1>9
    <2>2. at(k) \in 1 .. Len(seq) /\ at(l) \in 1 .. Len(seq)
      BY <1>4, <2>1
    <2>3. at(k) < at(l)
      <3>1. at(k) # at(l)
        BY <1>11, <2>1
      <3>2. ~(at(l) < at(k))
        BY <1>2, <1>11, <2>1
      <3> QED  BY <1>1, <2>2, <3>1, <3>2
    <2> QED  BY <2>1, <2>2, <2>3 DEF Before
  <1> QED  BY <1>8, <1>10, <1>11 DEF K, c, rest

\* Where nothing occurs twice, what comes before does not come after.
LEMMA BeforeOnce ==
    ASSUME NEW S, NEW seq \in Seq(S), IsInjective(seq), NEW m, NEW n, Before(seq, m, n)
    PROVE  m # n /\ ~Before(seq, n, m) /\ m \in In(seq) /\ n \in In(seq)
  <1>1. DOMAIN seq = 1 .. Len(seq) /\ Len(seq) \in Nat
    OBVIOUS
  <1>2. \A i, j \in 1 .. Len(seq) : seq[i] = seq[j] => i = j
    BY <1>1 DEF IsInjective
  <1>3. PICK i \in 1 .. Len(seq), j \in 1 .. Len(seq) : i < j /\ seq[i] = m /\ seq[j] = n
    BY DEF Before
  <1>4. m # n
    BY <1>2, <1>3
  <1>5. ASSUME Before(seq, n, m) PROVE FALSE
    <2>1. PICK k \in 1 .. Len(seq), l \in 1 .. Len(seq) : k < l /\ seq[k] = n /\ seq[l] = m
      BY <1>5 DEF Before
    <2>2. k = j /\ l = i
      BY <1>2, <1>3, <2>1
    <2> QED  BY <1>1, <1>3, <2>1, <2>2
  <1> QED  BY <1>3, <1>4, <1>5 DEF In

\* Leaving some out keeps the rest single and in order.
LEMMA WithoutOrder ==
    ASSUME NEW S, NEW seq \in Seq(S), IsInjective(seq), NEW ms
    PROVE  /\ IsInjective(Without(seq, ms))
           /\ \A m, n : Before(Without(seq, ms), m, n) <=>
                          Before(seq, m, n) /\ m \notin ms /\ n \notin ms
  <1> DEFINE rest == Without(seq, ms)
  <1>1. /\ rest \in Seq(S) /\ In(rest) = In(seq) \ ms
        /\ \A k, l \in 1 .. Len(rest) : k < l => Before(seq, rest[k], rest[l])
    BY WithoutKeeps
  <1> HIDE DEF rest
  <1>2. DOMAIN rest = 1 .. Len(rest) /\ \A k \in 1 .. Len(rest) : k \in Int
    BY <1>1
  <1>3. ASSUME NEW k \in 1 .. Len(rest), NEW l \in 1 .. Len(rest), rest[k] = rest[l]
        PROVE  k = l
    <2>1. ~Before(seq, rest[k], rest[l]) /\ ~Before(seq, rest[l], rest[k])
      BY <1>3, BeforeOnce
    <2>2. ~(k < l) /\ ~(l < k)
      BY <1>1, <2>1
    <2> QED  BY <1>2, <2>2
  <1>4. IsInjective(rest)
    BY <1>2, <1>3 DEF IsInjective
  <1>5. ASSUME NEW m, NEW n, Before(rest, m, n)
        PROVE  Before(seq, m, n) /\ m \notin ms /\ n \notin ms
    <2>1. m \in In(rest) /\ n \in In(rest)
      BY <1>1, <1>4, <1>5, BeforeOnce
    <2>2. Before(seq, m, n)
      BY <1>1, <1>5 DEF Before
    <2> QED  BY <1>1, <2>1, <2>2
  <1>6. ASSUME NEW m, NEW n, Before(seq, m, n), m \notin ms, n \notin ms
        PROVE  Before(rest, m, n)
    <2>1. m # n /\ ~Before(seq, n, m) /\ m \in In(rest) /\ n \in In(rest)
      BY <1>1, <1>6, BeforeOnce
    <2>2. PICK k \in 1 .. Len(rest), l \in 1 .. Len(rest) : rest[k] = m /\ rest[l] = n
      BY <2>1 DEF In
    <2>3. ~(l < k) /\ k # l
      BY <1>1, <2>1, <2>2
    <2>4. k < l
      BY <1>2, <2>3
    <2> QED  BY <2>2, <2>4 DEF Before
  <1> QED  BY <1>4, <1>5, <1>6 DEF rest

\* Members left out shorten a sequence without repetitions by their number.
LEMMA WithoutLen ==
    ASSUME NEW S, NEW seq \in Seq(S), IsInjective(seq), NEW ms, ms \subseteq In(seq)
    PROVE  IsFiniteSet(ms) /\ Len(Without(seq, ms)) = Len(seq) - Cardinality(ms)
  <1> DEFINE all == 1 .. Len(seq)
             gone == {i \in all : seq[i] \in ms}
             stay == {i \in all : seq[i] \notin ms}
             f == [i \in gone |-> seq[i]]
  <1>1. Len(seq) \in Nat /\ DOMAIN seq = all
    OBVIOUS
  <1>2. IsFiniteSet(all) /\ Cardinality(all) = Len(seq)
    BY <1>1, FS_Interval
  <1>3. IsFiniteSet(gone)
    BY <1>2, FS_Subset
  <1>4. f \in Bijection(gone, ms)
    <2>1. f \in [gone -> ms] /\ \A i, j \in gone : f[i] = f[j] => i = j
      BY <1>1 DEF IsInjective
    <2>2. \A m \in ms : \E i \in gone : f[i] = m
      BY DEF In
    <2> QED  BY <2>1, <2>2 DEF Bijection, Injection, Surjection, IsInjective
  <1>5. IsFiniteSet(ms) /\ Cardinality(ms) = Cardinality(gone)
    BY <1>3, <1>4, FS_Bijection DEF ExistsBijection
  <1>6. stay = all \ gone /\ gone = all \cap gone
    OBVIOUS
  <1>7. Cardinality(stay) = Cardinality(all) - Cardinality(gone)
    <2> HIDE DEF all, gone, stay
    <2>1. Cardinality(all \ gone) = Cardinality(all) - Cardinality(all \cap gone)
      BY <1>2, FS_Difference
    <2> QED  BY <1>6, <2>1
  <1>8. Len(Without(seq, ms)) = Cardinality(stay)
    BY WithoutKeeps
  <1> QED  BY <1>2, <1>5, <1>7, <1>8

\* One sequence after another.
LEMMA JoinedSeqs ==
    ASSUME NEW S, NEW a \in Seq(S), NEW b \in Seq(S),
           IsInjective(a), IsInjective(b), In(a) \cap In(b) = {}
    PROVE  /\ a \o b \in Seq(S) /\ Len(a \o b) = Len(a) + Len(b)
           /\ In(a \o b) = In(a) \cup In(b) /\ IsInjective(a \o b)
           /\ \A m, n : Before(a \o b, m, n) <=>
                \/ Before(a, m, n) \/ Before(b, m, n)
                \/ m \in In(a) /\ n \in In(b)
  <1> DEFINE ab == a \o b
  <1>1. /\ Len(a) \in Nat /\ Len(b) \in Nat /\ ab \in Seq(S) /\ Len(ab) = Len(a) + Len(b)
        /\ DOMAIN a = 1 .. Len(a) /\ DOMAIN b = 1 .. Len(b) /\ DOMAIN ab = 1 .. Len(ab)
    OBVIOUS
  <1>2. /\ \A i \in 1 .. Len(a) : ab[i] = a[i] /\ i \in 1 .. Len(ab)
        /\ \A i \in 1 .. Len(b) : ab[Len(a) + i] = b[i] /\ Len(a) + i \in 1 .. Len(ab)
    OBVIOUS
  <1>3. \A i \in 1 .. Len(ab) : \/ i \in 1 .. Len(a)
                                \/ \E k \in 1 .. Len(b) : i = Len(a) + k
    <2> SUFFICES ASSUME NEW i \in 1 .. Len(ab), i \notin 1 .. Len(a)
                 PROVE  \E k \in 1 .. Len(b) : i = Len(a) + k
      OBVIOUS
    <2>1. i - Len(a) \in 1 .. Len(b) /\ i = Len(a) + (i - Len(a))
      BY <1>1
    <2> QED  BY <2>1
  <1> HIDE DEF ab
  <1>4. In(ab) = In(a) \cup In(b)
    <2>1. ASSUME NEW i \in 1 .. Len(ab) PROVE ab[i] \in In(a) \cup In(b)
      <3>1. CASE i \in 1 .. Len(a)
        BY <1>2, <3>1 DEF In
      <3>2. CASE \E k \in 1 .. Len(b) : i = Len(a) + k
        BY <1>2, <3>2 DEF In
      <3> QED  BY <1>3, <3>1, <3>2
    <2>2. \A i \in 1 .. Len(a) : a[i] \in In(ab)
      BY <1>2 DEF In
    <2>3. \A i \in 1 .. Len(b) : b[i] \in In(ab)
      BY <1>2 DEF In
    <2> QED  BY <2>1, <2>2, <2>3 DEF In
  <1>5. \A i \in 1 .. Len(a), j \in 1 .. Len(b) : a[i] # b[j]
    BY DEF In
  <1>6. \A i, j \in 1 .. Len(ab) : ab[i] = ab[j] => i = j
    <2> SUFFICES ASSUME NEW i \in 1 .. Len(ab), NEW j \in 1 .. Len(ab), ab[i] = ab[j]
                 PROVE  i = j
      OBVIOUS
    <2>1. CASE i \in 1 .. Len(a) /\ j \in 1 .. Len(a)
      BY <1>1, <1>2, <2>1 DEF IsInjective
    <2>2. CASE \E k, l \in 1 .. Len(b) : i = Len(a) + k /\ j = Len(a) + l
      <3>1. PICK k \in 1 .. Len(b), l \in 1 .. Len(b) : i = Len(a) + k /\ j = Len(a) + l
        BY <2>2
      <3>2. b[k] = b[l]
        BY <1>2, <3>1
      <3> QED  BY <1>1, <3>1, <3>2 DEF IsInjective
    <2>3. CASE i \in 1 .. Len(a) /\ \E l \in 1 .. Len(b) : j = Len(a) + l
      <3>1. PICK l \in 1 .. Len(b) : j = Len(a) + l
        BY <2>3
      <3>2. a[i] = b[l]
        BY <1>2, <2>3, <3>1
      <3> QED  BY <1>5, <2>3, <3>2
    <2>4. CASE (\E k \in 1 .. Len(b) : i = Len(a) + k) /\ j \in 1 .. Len(a)
      <3>1. PICK k \in 1 .. Len(b) : i = Len(a) + k
        BY <2>4
      <3>2. a[j] = b[k]
        BY <1>2, <2>4, <3>1
      <3> QED  BY <1>5, <2>4, <3>2
    <2> QED  BY <1>3, <2>1, <2>2, <2>3, <2>4
  <1>7. ASSUME NEW m, NEW n, Before(ab, m, n)
        PROVE  Before(a, m, n) \/ Before(b, m, n) \/ (m \in In(a) /\ n \in In(b))
    <2>1. PICK i \in 1 .. Len(ab), j \in 1 .. Len(ab) : i < j /\ ab[i] = m /\ ab[j] = n
      BY <1>7 DEF Before
    <2>2. CASE j \in 1 .. Len(a)
      <3>1. i \in 1 .. Len(a)
        BY <1>1, <2>1, <2>2
      <3> QED  BY <1>2, <2>1, <2>2, <3>1 DEF Before
    <2>3. CASE \E l \in 1 .. Len(b) : j = Len(a) + l
      <3>1. PICK l \in 1 .. Len(b) : j = Len(a) + l
        BY <2>3
      <3>2. b[l] = n
        BY <1>2, <2>1, <3>1
      <3>3. CASE i \in 1 .. Len(a)
        <4>1. a[i] = m
          BY <1>2, <2>1, <3>3
        <4> QED  BY <3>2, <3>3, <4>1 DEF In
      <3>4. CASE \E k \in 1 .. Len(b) : i = Len(a) + k
        <4>1. PICK k \in 1 .. Len(b) : i = Len(a) + k
          BY <3>4
        <4>2. b[k] = m /\ k < l
          BY <1>1, <1>2, <2>1, <3>1, <4>1
        <4> QED  BY <3>2, <4>2 DEF Before
      <3> QED  BY <1>3, <3>3, <3>4
    <2> QED  BY <1>3, <2>2, <2>3
  <1>8. ASSUME NEW m, NEW n, Before(a, m, n) \/ Before(b, m, n) \/ (m \in In(a) /\ n \in In(b))
        PROVE  Before(ab, m, n)
    <2>1. CASE Before(a, m, n)
      BY <1>2, <2>1 DEF Before
    <2>2. CASE Before(b, m, n)
      <3>1. PICK i \in 1 .. Len(b), j \in 1 .. Len(b) : i < j /\ b[i] = m /\ b[j] = n
        BY <2>2 DEF Before
      <3>2. Len(a) + i < Len(a) + j
        BY <1>1, <3>1
      <3> QED  BY <1>2, <3>1, <3>2 DEF Before
    <2>3. CASE m \in In(a) /\ n \in In(b)
      <3>1. PICK i \in 1 .. Len(a), j \in 1 .. Len(b) : a[i] = m /\ b[j] = n
        BY <2>3 DEF In
      <3>2. i < Len(a) + j
        BY <1>1, <3>1
      <3> QED  BY <1>2, <3>1, <3>2 DEF Before
    <2> QED  BY <1>8, <2>1, <2>2, <2>3
  <1> QED  BY <1>1, <1>4, <1>6, <1>7, <1>8 DEF ab, IsInjective

\* A sequence of one.
LEMMA SingleSeq ==
    ASSUME NEW S, NEW m \in S
    PROVE  /\ <<m>> \in Seq(S) /\ Len(<<m>>) = 1 /\ In(<<m>>) = {m} /\ IsInjective(<<m>>)
           /\ \A x, y : ~Before(<<m>>, x, y)
           /\ \A seq \in Seq(S) : Append(seq, m) = seq \o <<m>>
  BY DEF In, IsInjective, Before

\* A finite set as a sequence.
LEMMA SetToSeqLists ==
    ASSUME NEW S, IsFiniteSet(S)
    PROVE  LET seq == SetToSeq(S) IN
           seq \in Seq(S) /\ IsInjective(seq) /\ In(seq) = S
  <1> DEFINE c == Cardinality(S)
             seq == SetToSeq(S)
  <1>1. c \in Nat /\ \E f \in [1 .. c -> S] : IsInjective(f)
    BY FS_CardinalityType DEF ExistsBijection, Bijection, Injection
  <1>2. seq \in [1 .. c -> S] /\ IsInjective(seq)
    BY <1>1 DEF SetToSeq
  <1>3. seq \in Injection(1 .. c, S)
    BY <1>2 DEF Injection
  <1>4. Cardinality(1 .. c) = c
    BY <1>1, FS_Interval
  <1>5. seq \in Surjection(1 .. c, S)
    BY <1>3, <1>4, FS_Injection
  <1> HIDE DEF seq, c
  <1>6. seq \in Seq(S) /\ Len(seq) = c
    BY <1>1, <1>2
  <1>7. In(seq) = S
    BY <1>2, <1>5, <1>6 DEF In, Surjection
  <1> QED  BY <1>2, <1>6, <1>7 DEF seq
-----------------------------------------------------------------------------
(* The windows.                                                             *)

\* Each modal in the document holds one lock and one handler.
Accounted ==
    /\ mounted \in Seq(Modals) /\ IsInjective(mounted)
    /\ backStack \in Seq(Modals \cup {"page"}) /\ IsInjective(backStack)
    /\ lockCount = Len(mounted)
    /\ In(backStack) \ {"page"} = In(mounted)

\* Sheets keep their order among the handlers, the page's is the lowest, and a content
\* goes with its sheet.
Stacked ==
    /\ \A m, n \in Sheets : Before(backStack, m, n) => Before(mounted, m, n)
    /\ \A m : ~Before(backStack, m, "page")
    /\ \A m \in In(mounted) : Inside[m] \in In(mounted) \cup {"page"}

\* The page's own handler, and what a signed-out app shows.
PageHandled ==
    /\ "page" \in In(backStack) <=> main /\ tab = "subscription" /\ subBack
    /\ ~main => mounted = << >> /\ tab = "configs"

WindowTypes ==
    /\ main \in BOOLEAN /\ tab \in Tabs /\ subBack \in BOOLEAN
    /\ wanted \subseteq Modals /\ IsFiniteSet(wanted)

NavInv == WindowTypes /\ Accounted /\ Stacked /\ PageHandled

\* Nothing is open: how a document starts, and what a sign-out leaves.
LEMMA NothingOpen ==
    ASSUME mounted = << >>, backStack = << >>, lockCount = 0
    PROVE  Accounted /\ Stacked /\ In(mounted) = {} /\ In(backStack) = {}
  BY DEF Accounted, Stacked, In, IsInjective, Before

\* A modal enters the document, with what was left open inside it.
LEMMA MountStep ==
    ASSUME WindowTypes, Accounted, Stacked, NEW m \in Modals, m \notin In(mounted), Mount(m),
           Inside[m] \in In(mounted) \cup {"page"}
    PROVE  /\ Accounted' /\ Stacked'
           /\ "page" \in In(backStack)' <=> "page" \in In(backStack)
  <1> DEFINE within == {n \in wanted : Inside[n] = m}
             left == Left(m)
             SM == Modals
             SP == Modals \cup {"page"}
  <1>1. left \in Seq(within) /\ IsInjective(left) /\ In(left) = within
    <2>1. IsFiniteSet(within)
      BY FS_Subset DEF WindowTypes
    <2> QED  BY <2>1, SetToSeqLists DEF Left
  <1>2. within \subseteq Modals /\ m \notin within /\ within \cap In(mounted) = {}
        /\ within \cap Sheets = {} /\ m # "page"
    BY NavigationConstants DEF WindowTypes, Stacked, Modals
  <1>3. left \in Seq(SM) /\ left \in Seq(SP)
    BY <1>1, <1>2
  <1>4. /\ <<m>> \in Seq(SM) /\ <<m>> \in Seq(SP) /\ Len(<<m>>) = 1
        /\ In(<<m>>) = {m} /\ IsInjective(<<m>>) /\ \A x, y : ~Before(<<m>>, x, y)
    BY SingleSeq
  <1>5. /\ mounted \in Seq(SM) /\ IsInjective(mounted) /\ Len(mounted) \in Nat
        /\ backStack \in Seq(SP) /\ IsInjective(backStack)
        /\ In(backStack) \ {"page"} = In(mounted) /\ lockCount = Len(mounted)
    BY DEF Accounted
  <1>6. /\ mounted' = mounted \o <<m>> \o left
        /\ backStack' = backStack \o left \o <<m>>
        /\ lockCount' = lockCount + 1 + Len(left) /\ Len(left) \in Nat
    BY <1>3 DEF Mount
  <1> HIDE DEF left, within, SM, SP
  <1>7. LET s == mounted \o <<m>> IN
        /\ s \in Seq(SM) /\ Len(s) = Len(mounted) + 1
        /\ In(s) = In(mounted) \cup {m} /\ IsInjective(s)
        /\ \A x, y : Before(s, x, y) <=> Before(mounted, x, y) \/ (x \in In(mounted) /\ y = m)
    <2>1. In(mounted) \cap In(<<m>>) = {}
      BY <1>4
    <2> QED  BY <1>4, <1>5, <2>1, JoinedSeqs
  <1>8. /\ mounted' \in Seq(SM) /\ Len(mounted') = Len(mounted) + 1 + Len(left)
        /\ In(mounted') = In(mounted) \cup {m} \cup within /\ IsInjective(mounted')
        /\ \A x, y : Before(mounted, x, y) \/ (x \in In(mounted) /\ y = m)
                       => Before(mounted', x, y)
    <2> DEFINE s == mounted \o <<m>>
    <2>1. In(s) \cap In(left) = {}
      BY <1>1, <1>2, <1>7
    <2> QED  BY <1>1, <1>3, <1>6, <1>7, <2>1, JoinedSeqs
  <1>9. LET s == backStack \o left IN
        /\ s \in Seq(SP) /\ In(s) = In(backStack) \cup within /\ IsInjective(s)
        /\ \A x, y : Before(s, x, y) => Before(backStack, x, y) \/ y \in within
    <2>1. In(backStack) \cap In(left) = {}
      BY <1>1, <1>2, <1>5, NavigationConstants
    <2>2. \A x, y : Before(left, x, y) => y \in within
      BY <1>1, <1>3, BeforeOnce
    <2> QED  BY <1>1, <1>3, <1>5, <2>1, <2>2, JoinedSeqs
  <1>10. /\ backStack' \in Seq(SP) /\ In(backStack') = In(backStack) \cup within \cup {m}
         /\ IsInjective(backStack')
         /\ \A x, y : Before(backStack', x, y) =>
              \/ Before(backStack, x, y) \/ y \in within
              \/ x \in In(backStack) \cup within /\ y = m
    <2> DEFINE s == backStack \o left
    <2>1. In(s) \cap In(<<m>>) = {}
      BY <1>2, <1>4, <1>5, <1>9
    <2>2. s \in Seq(SP) /\ IsInjective(s) /\ In(s) = In(backStack) \cup within
          /\ \A x, y : Before(s, x, y) => Before(backStack, x, y) \/ y \in within
      BY <1>9
    <2>3. backStack' = s \o <<m>>
      BY <1>6
    <2> HIDE DEF s
    <2> QED  BY <1>4, <2>1, <2>2, <2>3, JoinedSeqs
  <1>11. "page" \notin within
    BY <1>2, NavigationConstants
  <1>12. Accounted'
    <2>1. lockCount' = Len(mounted')
      BY <1>5, <1>6, <1>8
    <2>2. In(backStack') \ {"page"} = In(mounted')
      BY <1>2, <1>5, <1>8, <1>10, <1>11
    <2> QED  BY <1>8, <1>10, <2>1, <2>2 DEF Accounted, SM, SP
  <1>13. Stacked'
    <2>1. ASSUME NEW x \in Sheets, NEW y \in Sheets, Before(backStack', x, y)
          PROVE  Before(mounted', x, y)
      <3>1. x # "page" /\ x \notin within /\ y \notin within
        BY <1>2, NavigationConstants DEF Modals
      <3>2. CASE Before(backStack, x, y)
        BY <1>8, <3>2 DEF Stacked
      <3>3. CASE x \in In(backStack) \cup within /\ y = m
        BY <1>5, <1>8, <3>1, <3>3
      <3> QED  BY <1>10, <2>1, <3>1, <3>2, <3>3
    <2>2. \A x : ~Before(backStack', x, "page")
      BY <1>2, <1>10, <1>11 DEF Stacked
    <2>3. \A x \in In(mounted') : Inside[x] \in In(mounted') \cup {"page"}
      BY <1>8 DEF Stacked, within
    <2> QED  BY <2>1, <2>2, <2>3 DEF Stacked
  <1> QED  BY <1>2, <1>10, <1>11, <1>12, <1>13

\* Modals leave it, with what is inside them.
LEMMA UnmountStep ==
    ASSUME Accounted, Stacked, NEW ms \in SUBSET Modals, NEW handlers \in SUBSET {"page"},
           Unmount(ms, handlers)
    PROVE  /\ Accounted' /\ Stacked'
           /\ In(mounted') = {m \in In(mounted) : m \notin ms /\ Inside[m] \notin ms}
           /\ "page" \in In(backStack)' <=> "page" \in In(backStack) /\ "page" \notin handlers
  <1> DEFINE gone == {m \in In(mounted) : m \in ms \/ Inside[m] \in ms}
             away == gone \cup handlers
  <1>1. /\ mounted \in Seq(Modals) /\ IsInjective(mounted) /\ Len(mounted) \in Nat
        /\ backStack \in Seq(Modals \cup {"page"}) /\ IsInjective(backStack)
        /\ In(backStack) \ {"page"} = In(mounted) /\ lockCount = Len(mounted)
        /\ In(mounted) \subseteq Modals /\ "page" \notin Modals
    BY NavigationConstants DEF Accounted, In
  <1>2. /\ mounted' = Without(mounted, gone) /\ backStack' = Without(backStack, away)
        /\ lockCount' = lockCount - Cardinality(gone)
    BY DEF Unmount, Unlocked
  <1>3. gone \subseteq In(mounted) /\ "page" \notin gone
    BY <1>1
  <1> HIDE DEF gone
  <1>4. /\ mounted' \in Seq(Modals) /\ IsInjective(mounted')
        /\ In(mounted') = In(mounted) \ gone
        /\ \A m, n : Before(mounted, m, n) /\ m \notin gone /\ n \notin gone
                       => Before(mounted', m, n)
    BY <1>1, <1>2, WithoutKeeps, WithoutOrder
  <1>5. /\ backStack' \in Seq(Modals \cup {"page"}) /\ IsInjective(backStack')
        /\ In(backStack') = In(backStack) \ away
        /\ \A m, n : Before(backStack', m, n) =>
             Before(backStack, m, n) /\ m \notin away /\ n \notin away
    <2> HIDE DEF away
    <2> QED  BY <1>1, <1>2, WithoutKeeps, WithoutOrder
  <1>6. lockCount' = Len(mounted')
    BY <1>1, <1>2, <1>3, WithoutLen
  <1>7. Accounted'
    BY <1>1, <1>3, <1>4, <1>5, <1>6 DEF Accounted
  <1>8. Stacked'
    <2>1. \A m, n \in Sheets : Before(backStack', m, n) => Before(mounted', m, n)
      BY <1>4, <1>5 DEF Stacked
    <2>2. \A m : ~Before(backStack', m, "page")
      BY <1>5 DEF Stacked
    <2>3. ASSUME NEW m \in In(mounted'), Inside[m] # "page" PROVE Inside[m] \in In(mounted')
      <3>1. m \in In(mounted) /\ m \notin gone /\ m \in Modals
        BY <1>1, <1>4
      <3>2. Inside[m] \in In(mounted) /\ Inside[m] \notin ms
        BY <2>3, <3>1 DEF Stacked, gone
      <3>3. Inside[Inside[m]] = "page"
        BY <2>3, <3>1, NavigationConstants
      <3>4. Inside[m] \notin gone
        BY <1>1, <3>2, <3>3 DEF gone
      <3> QED  BY <1>4, <3>2, <3>4
    <2> QED  BY <2>1, <2>2, <2>3 DEF Stacked
  <1>9. In(mounted') = {m \in In(mounted) : m \notin ms /\ Inside[m] \notin ms}
    BY <1>4 DEF gone
  <1> QED  BY <1>1, <1>3, <1>5, <1>7, <1>8, <1>9

\* Handlers run: some modals go, and perhaps the page's way back.
LEMMA LeaveStep ==
    ASSUME NavInv, main, main' = main, NEW ms \in SUBSET (Modals \cup {"page"}), Leave(ms)
    PROVE  NavInv' /\ In(mounted') \subseteq In(mounted) \ (ms \cap Sheets)
  <1> DEFINE toHome == {"account", "page"} \cap ms # {}
             handlers == IF toHome THEN {"page"} ELSE {}
  <1>1. /\ wanted' = wanted \ ms /\ tab' = (IF toHome THEN "configs" ELSE tab)
        /\ subBack' = (subBack /\ ~toHome)
        /\ Unmount(ms \cap Sheets, handlers)
    BY DEF Leave
  <1>2. ms \cap Sheets \in SUBSET Modals /\ handlers \in SUBSET {"page"}
    BY DEF Modals
  <1> HIDE DEF toHome
  <1>3. /\ Accounted' /\ Stacked'
        /\ In(mounted') = {m \in In(mounted) : m \notin ms \cap Sheets
                                               /\ Inside[m] \notin ms \cap Sheets}
        /\ "page" \in In(backStack)' <=> "page" \in In(backStack) /\ "page" \notin handlers
    BY <1>1, <1>2, UnmountStep DEF NavInv
  <1>4. WindowTypes'
    <2>1. wanted' \in SUBSET wanted
      BY <1>1
    <2>2. IsFiniteSet(wanted')
      BY <2>1, FS_Subset DEF NavInv, WindowTypes
    <2> QED  BY <1>1, <2>1, <2>2 DEF NavInv, WindowTypes, Tabs
  <1>5. PageHandled'
    BY <1>1, <1>3 DEF NavInv, PageHandled
  <1> QED  BY <1>3, <1>4, <1>5 DEF NavInv

\* The tabs, with nothing open over them.
LEMMA TabStep ==
    ASSUME NavInv, (\E t \in Tabs : SelectTab(t)) \/ GoSubscription
    PROVE  NavInv'
  <1>1. /\ main /\ mounted = << >> /\ In(mounted) = {}
        /\ UNCHANGED <<main, wanted, mounted, lockCount>>
    <2>1. main /\ mounted = << >> /\ UNCHANGED <<main, wanted, mounted, lockCount>>
      BY DEF SelectTab, GoSubscription, Top
    <2>2. In(<< >>) = {}
      BY DEF In
    <2> QED  BY <2>1, <2>2
  <1>2. /\ backStack \in Seq(Modals \cup {"page"}) /\ IsInjective(backStack)
        /\ In(backStack) \subseteq {"page"}
    BY <1>1 DEF NavInv, Accounted
  <1>3. PICK t \in Tabs, back \in BOOLEAN : tab' = t /\ subBack' = back /\ PageBack(t, back)
    BY DEF SelectTab, GoSubscription, Tabs
  <1>4. /\ backStack' \in Seq(Modals \cup {"page"}) /\ IsInjective(backStack')
        /\ In(backStack') = IF t = "subscription" /\ back THEN {"page"} ELSE {}
        /\ \A m, n : Before(backStack', m, n) => Before(backStack, m, n)
    <2>1. CASE ~(t = "subscription" /\ back)
      <3>1. backStack' = Without(backStack, {"page"})
        BY <1>3, <2>1 DEF PageBack
      <3>2. /\ backStack' \in Seq(Modals \cup {"page"}) /\ IsInjective(backStack')
            /\ In(backStack') = In(backStack) \ {"page"}
            /\ \A m, n : Before(backStack', m, n) => Before(backStack, m, n)
        BY <1>2, <3>1, WithoutKeeps, WithoutOrder
      <3> QED  BY <1>2, <2>1, <3>2
    <2>2. CASE t = "subscription" /\ back /\ "page" \in In(backStack)
      BY <1>2, <1>3, <2>2 DEF PageBack
    <2>3. CASE t = "subscription" /\ back /\ "page" \notin In(backStack)
      <3> DEFINE SP == Modals \cup {"page"}
      <3>1. "page" \in SP /\ backStack \in Seq(SP) /\ In(backStack) = {}
        BY <1>2, <2>3
      <3>2. backStack' = Append(backStack, "page")
        BY <1>3, <2>3 DEF PageBack
      <3> HIDE DEF SP
      <3>3. backStack' = backStack \o <<"page">> /\ <<"page">> \in Seq(SP)
            /\ In(<<"page">>) = {"page"} /\ IsInjective(<<"page">>)
            /\ \A x, y : ~Before(<<"page">>, x, y)
        BY <3>1, <3>2, SingleSeq
      <3>4. In(backStack) \cap In(<<"page">>) = {}
        BY <3>1
      <3>5. /\ backStack' \in Seq(SP) /\ IsInjective(backStack')
            /\ In(backStack') = In(backStack) \cup In(<<"page">>)
            /\ \A m, n : Before(backStack', m, n) => Before(backStack, m, n)
        BY <1>2, <3>1, <3>3, <3>4, JoinedSeqs
      <3> QED  BY <2>3, <3>1, <3>3, <3>5 DEF SP
    <2> QED  BY <2>1, <2>2, <2>3
  <1>5. WindowTypes' /\ PageHandled'
    BY <1>1, <1>3, <1>4 DEF NavInv, WindowTypes, PageHandled
  <1>6. Accounted' /\ Stacked'
    BY <1>1, <1>2, <1>4, NavigationConstants DEF NavInv, Accounted, Stacked
  <1> QED  BY <1>5, <1>6 DEF NavInv

\* One modal opens, closes, or has its handler pushed anew.
LEMMA ModalStep ==
    ASSUME NavInv, NEW m \in Modals,
           Open(m) \/ ReopenClosing(m) \/ Close(m) \/ ExitEnds(m) \/ Render(m)
    PROVE  NavInv'
  <1>0. m # "page" /\ (m \in In(mounted) => main)
    BY NavigationConstants DEF NavInv, PageHandled, In
  <1>1. CASE Open(m)
    <2>1. /\ main /\ m \notin In(mounted) /\ Inside[m] \in In(mounted) \cup {"page"}
          /\ wanted' = wanted \cup {m} /\ Mount(m) /\ UNCHANGED <<main, tab, subBack>>
      BY <1>1 DEF Open
    <2>2. Accounted' /\ Stacked' /\ ("page" \in In(backStack)' <=> "page" \in In(backStack))
      BY <2>1, MountStep DEF NavInv
    <2>3. WindowTypes'
      BY <2>1, FS_AddElement DEF NavInv, WindowTypes
    <2>4. PageHandled'
      BY <2>1, <2>2 DEF NavInv, PageHandled
    <2> QED  BY <2>2, <2>3, <2>4 DEF NavInv
  <1>2. CASE ReopenClosing(m)
    <2>1. wanted' = wanted \cup {m}
          /\ UNCHANGED <<main, tab, subBack, mounted, backStack, lockCount>>
      BY <1>2 DEF ReopenClosing
    <2>2. WindowTypes'
      BY <2>1, FS_AddElement DEF NavInv, WindowTypes
    <2> QED  BY <2>1, <2>2 DEF NavInv, Accounted, Stacked, PageHandled
  <1>3. CASE Close(m)
    BY <1>0, <1>3, LeaveStep DEF Close
  <1>4. CASE ExitEnds(m)
    <2>1. /\ main /\ Unmount({m}, {}) /\ UNCHANGED <<main, tab, subBack, wanted>>
      BY <1>0, <1>4 DEF ExitEnds
    <2>2. Accounted' /\ Stacked' /\ ("page" \in In(backStack)' <=> "page" \in In(backStack))
      BY <2>1, UnmountStep DEF NavInv
    <2> QED  BY <2>1, <2>2 DEF NavInv, WindowTypes, PageHandled
  <1>5. CASE Render(m)
    <2> DEFINE SP == Modals \cup {"page"}
               rest == Without(backStack, {m})
    <2>1. /\ main /\ m \in Bottoms /\ m \in In(mounted) /\ m \in SP
          /\ backStack' = Append(rest, m)
          /\ UNCHANGED <<main, tab, subBack, wanted, mounted, lockCount>>
      BY <1>0, <1>5 DEF Render, Repushed
    <2>2. backStack \in Seq(SP) /\ IsInjective(backStack)
      BY DEF NavInv, Accounted
    <2> HIDE DEF SP
    <2>3. /\ rest \in Seq(SP) /\ IsInjective(rest) /\ In(rest) = In(backStack) \ {m}
          /\ \A x, y : Before(rest, x, y) => Before(backStack, x, y)
      BY <2>2, WithoutKeeps, WithoutOrder
    <2> HIDE DEF rest
    <2>4. /\ backStack' = rest \o <<m>> /\ <<m>> \in Seq(SP) /\ In(<<m>>) = {m}
          /\ IsInjective(<<m>>) /\ \A x, y : ~Before(<<m>>, x, y)
      BY <2>1, <2>3, SingleSeq
    <2>5. In(rest) \cap In(<<m>>) = {}
      BY <2>3, <2>4
    <2>6. /\ backStack' \in Seq(SP) /\ IsInjective(backStack')
          /\ In(backStack') = In(rest) \cup {m}
          /\ \A x, y : Before(backStack', x, y) => Before(backStack, x, y) \/ y = m
      BY <2>3, <2>4, <2>5, JoinedSeqs
    <2>7. In(backStack') = In(backStack)
      BY <1>0, <2>1, <2>3, <2>6 DEF NavInv, Accounted
    <2>8. Accounted'
      BY <2>1, <2>6, <2>7 DEF NavInv, Accounted, SP
    <2>9. Stacked'
      BY <1>0, <2>1, <2>6, NavigationConstants DEF NavInv, Stacked
    <2> QED  BY <2>1, <2>7, <2>8, <2>9 DEF NavInv, WindowTypes, PageHandled
  <1> QED  BY <1>1, <1>2, <1>3, <1>4, <1>5

\* The back button, Escape and the avatar run handlers that are there.
LEMMA HandlersStep ==
    ASSUME NavInv, PressBack \/ PressEscape \/ GoHome
    PROVE  NavInv'
  <1>1. /\ In(mounted) \subseteq Modals /\ In(backStack) \subseteq Modals \cup {"page"}
        /\ wanted \subseteq Modals
        /\ backStack # << >> => Last(backStack) \in In(backStack)
    BY DEF NavInv, WindowTypes, Accounted, In, Last
  <1>2. CASE PressBack
    BY <1>1, <1>2, LeaveStep DEF PressBack
  <1>3. CASE PressEscape
    BY <1>1, <1>3, LeaveStep DEF PressEscape
  <1>4. CASE GoHome
    <2>1. {"account"} \cup In(backStack) \in SUBSET (Modals \cup {"page"})
      BY <1>1, <1>4 DEF GoHome
    <2> QED  BY <1>4, <2>1, LeaveStep DEF GoHome, CloseAllSheets
  <1> QED  BY <1>2, <1>3, <1>4

\* The windows, as the rest of the proofs know them.
LEMMA NavInvariant == NavSpec => []NavInv
  <1>1. NavInit => NavInv
    BY NothingOpen, FS_EmptySet DEF NavInit, NavInv, WindowTypes, PageHandled, Tabs
  <1>2. NavInv /\ [NavNext]_navVars => NavInv'
    <2> SUFFICES ASSUME NavInv, [NavNext]_navVars PROVE NavInv'
      OBVIOUS
    <2>1. CASE SignIn
      BY <2>1 DEF SignIn, windowVars, NavInv, WindowTypes, Accounted, Stacked, PageHandled
    <2>2. CASE SignOut \/ ChunkMissing \/ UpdateFound
      <3>1. /\ main' = FALSE /\ tab' = "configs" /\ subBack' \in BOOLEAN
            /\ wanted' = {} /\ mounted' = << >> /\ backStack' = << >> /\ lockCount' = 0
        <4>1. subBack \in BOOLEAN /\ lockCount = Len(mounted) /\ Len(mounted) \in Nat
          BY DEF NavInv, WindowTypes, Accounted
        <4>2. CASE SignOut
          BY <4>1, <4>2 DEF SignOut, Unlocked
        <4>3. CASE ChunkMissing \/ UpdateFound
          BY <4>3 DEF ChunkMissing, UpdateFound, Reload
        <4> QED  BY <2>2, <4>2, <4>3
      <3>2. Accounted' /\ Stacked' /\ In(backStack') = {}
        BY <3>1 DEF Accounted, Stacked, In, IsInjective, Before
      <3> QED  BY <3>1, <3>2, FS_EmptySet DEF NavInv, WindowTypes, PageHandled, Tabs
    <2>3. CASE Background \/ UNCHANGED navVars
      BY <2>3 DEF Background, navVars, windowVars, NavInv, WindowTypes, Accounted, Stacked,
                  PageHandled
    <2> QED  BY <2>1, <2>2, <2>3, TabStep, ModalStep, HandlersStep DEF NavNext
  <1> QED  BY <1>1, <1>2, PTL DEF NavSpec

\* The flags of a document and of its session.
BootTypes ==
    /\ ready \in BOOLEAN /\ visible \in BOOLEAN
    /\ reloaded \in BOOLEAN /\ updated \in BOOLEAN /\ reloads \in Nat

\* Only a boot, a reload and the background touch them.
LEMMA BootStep == BootTypes /\ [NavNext]_navVars => BootTypes'
  <1> SUFFICES ASSUME BootTypes, [NavNext]_navVars PROVE BootTypes'
    OBVIOUS
  <1> USE DEF BootTypes
  <1>1. CASE SignIn \/ Background
    BY <1>1 DEF SignIn, Background
  <1>2. CASE ChunkMissing \/ UpdateFound
    <2>1. /\ ready' = FALSE /\ visible' = visible /\ reloads' = reloads + 1
          /\ \/ reloaded' = TRUE /\ updated' = updated
             \/ reloaded' = reloaded /\ updated' = TRUE
      <3>1. CASE ChunkMissing
        BY <3>1, Zenon DEF ChunkMissing, Reload
      <3>2. CASE UpdateFound
        BY <3>2, Zenon DEF UpdateFound, Reload
      <3> QED  BY <1>2, <3>1, <3>2
    <2>2. reloads + 1 \in Nat
      OBVIOUS
    <2>3. reloads' \in Nat
      BY <2>1, <2>2, Zenon
    <2> QED  BY <2>1, <2>3, Zenon
  <1>3. CASE UNCHANGED bootVars
    BY <1>3 DEF bootVars
  <1>4. ASSUME NEW m \in Modals,
               Open(m) \/ ReopenClosing(m) \/ Close(m) \/ ExitEnds(m) \/ Render(m)
        PROVE  UNCHANGED bootVars
    BY <1>4 DEF Open, ReopenClosing, Close, ExitEnds, Render
  <1> QED
    BY <1>1, <1>2, <1>3, <1>4
       DEF NavNext, SignOut, SelectTab, GoSubscription, PressBack, PressEscape, GoHome, navVars

(* Only modals are in the document and wanted, none twice, and the count of  *)
(* locks never goes below zero, whatever unmounts together                   *)
(* (scrollLock.ts:4).                                                        *)
THEOREM WindowsInOrder == NavSpec => []NavTypeOK
  <1>1. NavInit => BootTypes
    <2>1. 0 \in Nat
      OBVIOUS
    <2> QED  BY <2>1, Zenon DEF NavInit, BootTypes
  <1>2. NavInv /\ BootTypes => NavTypeOK
    <2> SUFFICES ASSUME NavInv, BootTypes PROVE NavTypeOK
      OBVIOUS
    <2>1. In(mounted) \subseteq Modals /\ Len(mounted) \in Nat
      BY DEF NavInv, Accounted, In
    <2>2. In(backStack) \subseteq Modals \cup {"page"}
      <3> DEFINE SP == Modals \cup {"page"}
      <3>1. backStack \in Seq(SP)
        BY DEF NavInv, Accounted
      <3> HIDE DEF SP
      <3>2. In(backStack) \subseteq SP
        BY <3>1 DEF In
      <3> QED  BY <3>2 DEF SP
    <2> QED  BY <2>1, <2>2 DEF NavInv, WindowTypes, Accounted, BootTypes, NavTypeOK
  <1> QED  BY <1>1, <1>2, BootStep, NavInvariant, PTL DEF NavSpec

(* Whatever closes, re-renders or signs out in between, each modal in the    *)
(* document holds exactly one lock and one back handler (scrollLock.ts:4,    *)
(* telegram.ts:290-294).                                                     *)
THEOREM HandlersMatch == NavSpec => []ModalsAccounted
  <1>1. NavInv => ModalsAccounted
    BY DEF NavInv, Accounted, PageHandled, ModalsAccounted
  <1> QED  BY <1>1, NavInvariant, PTL

(* With only full-screen sheets in the document, the back button closes the  *)
(* one on top (telegram.ts:290-294).                                         *)
THEOREM BackMeansTop == NavSpec => []BackClosesTopSheet
  <1>1. NavInv => BackClosesTopSheet
    <2> SUFFICES ASSUME NavInv, mounted # << >>, In(mounted) \cap Bottoms = {}
                 PROVE  Top(Last(backStack))
      BY DEF BackClosesTopSheet
    <2> DEFINE l == Last(backStack)
    <2>1. /\ mounted \in Seq(Modals) /\ backStack \in Seq(Modals \cup {"page"})
          /\ In(backStack) \ {"page"} = In(mounted)
      BY DEF NavInv, Accounted
    <2>2. In(mounted) # {} /\ In(mounted) \subseteq Sheets /\ "page" \notin In(mounted)
      BY <2>1, NavigationConstants DEF In, Modals
    <2>3. Len(backStack) \in Nat \ {0} /\ l = backStack[Len(backStack)] /\ l \in In(backStack)
      BY <2>1, <2>2 DEF In, Last
    <2> HIDE DEF l
    <2>4. ASSUME NEW n \in In(backStack), n # l PROVE Before(backStack, n, l)
      <3>1. PICK i \in 1 .. Len(backStack) : backStack[i] = n
        BY DEF In
      <3>2. i < Len(backStack)
        BY <2>3, <2>4, <3>1
      <3> QED  BY <2>3, <3>1, <3>2 DEF Before
    <2>5. l # "page"
      BY <2>1, <2>2, <2>4 DEF NavInv, Stacked
    <2>6. l \in In(mounted)
      BY <2>1, <2>3, <2>5
    <2>7. ASSUME NEW n \in In(mounted) \ {l} PROVE Above(l, n)
      <3>1. Before(mounted, n, l)
        BY <2>1, <2>2, <2>4, <2>6 DEF NavInv, Stacked
      <3>2. l \notin Bottoms /\ n \notin Bottoms
        BY <2>2, <2>6, NavigationConstants
      <3> QED  BY <3>1, <3>2 DEF Before, Above
    <2> QED  BY <2>5, <2>6, <2>7 DEF Top, l
  <1> QED  BY <1>1, NavInvariant, PTL

(* "Go home" from any sheet leaves no sheet open above the home screen       *)
(* (telegram.ts:317-323).                                                    *)
THEOREM HomeIsHome == NavSpec => HomeIsUncovered
  <1>1. NavInv /\ [NavNext]_navVars =>
          [GoHome => tab' = "configs" /\ wanted' \cap In(mounted') = {}]_navVars
    <2> SUFFICES ASSUME NavInv, GoHome PROVE tab' = "configs" /\ wanted' \cap In(mounted') = {}
      OBVIOUS
    <2>1. /\ In(backStack) \subseteq Modals \cup {"page"} /\ wanted \subseteq Modals
          /\ In(mounted) \subseteq In(backStack)
      BY DEF NavInv, WindowTypes, Accounted, In
    <2> DEFINE ms == {"account"} \cup In(backStack)
    <2>2. ms \in SUBSET (Modals \cup {"page"})
      BY <2>1 DEF GoHome
    <2>3. Leave(ms) /\ main /\ main' = main
      BY DEF GoHome, CloseAllSheets
    <2> HIDE DEF ms
    <2>4. In(mounted') \subseteq In(mounted)
      BY <2>2, <2>3, LeaveStep
    <2>5. wanted' = wanted \ ms /\ ("account" \in ms => tab' = "configs")
      BY <2>3 DEF Leave
    <2> QED  BY <2>1, <2>4, <2>5 DEF ms
  <1> QED  BY <1>1, NavInvariant, PTL DEF NavSpec, HomeIsUncovered
-----------------------------------------------------------------------------
(* The installation guide.                                                  *)

\* The launcher offered first is one for every system.
LEMMA FirstForAll == \A s \in Systems : FirstFor(s) = "happ" /\ "happ" \in LaunchersFor(s)
  <1> SUFFICES ASSUME NEW s \in Systems
               PROVE  FirstFor(s) = "happ" /\ "happ" \in LaunchersFor(s)
    OBVIOUS
  <1>1. "happ" \in LaunchersFor(s)
    BY DEF LaunchersFor, Stores
  <1>2. AppOrder[1] = "happ"
    BY DEF AppOrder
  <1> DEFINE First(i) == /\ AppOrder[i] \in LaunchersFor(s)
                         /\ \A j \in 1 .. i - 1 : AppOrder[j] \notin LaunchersFor(s)
  <1>3. First(1)
    BY <1>1, <1>2
  <1>4. \A i \in 1 .. 3 : First(i) => i = 1
    BY <1>1, <1>2
  <1> HIDE DEF First
  <1>5. (CHOOSE i \in 1 .. 3 : First(i)) = 1
    BY <1>3, <1>4
  <1>6. FirstFor(s) = AppOrder[CHOOSE i \in 1 .. 3 : First(i)]
    BY DEF FirstFor, First
  <1> QED  BY <1>1, <1>2, <1>5, <1>6

(* The guide can be followed to its end: its launcher exists for the chosen  *)
(* system, with a link to get it, whatever system, tab, menu or switch is    *)
(* tapped in whatever order (ConfigDetailSheet.tsx:86, 129-138, 234, 258).   *)
THEOREM GuideEnds == GuideSpec => []GuideTypeOK
  <1>0. \A p \in Platforms : Detected[p] \in Systems
    BY GuideConstants
  <1>l. \A s \in Systems : LaunchersFor(s) \subseteq DOMAIN Stores
    BY DEF LaunchersFor
  <1>g. GuideTypeOK <=> /\ detail \in BOOLEAN /\ awg \in BOOLEAN /\ menu \in BOOLEAN
                        /\ advanced \in BOOLEAN /\ qr \in BOOLEAN
                        /\ os \in Systems /\ launcher \in LaunchersFor(os)
    BY DEF GuideTypeOK, Guide, LaunchersFor
  <1>h. GuideTypeOK' <=> /\ detail' \in BOOLEAN /\ awg' \in BOOLEAN /\ menu' \in BOOLEAN
                         /\ advanced' \in BOOLEAN /\ qr' \in BOOLEAN
                         /\ os' \in Systems /\ launcher' \in LaunchersFor(os')
    BY DEF GuideTypeOK, Guide, LaunchersFor
  <1>1. GuideInit => GuideTypeOK
    BY <1>0, <1>g, FirstForAll DEF GuideInit
  <1>2. GuideTypeOK /\ [GuideNext]_guideVars => GuideTypeOK'
    <2> SUFFICES ASSUME GuideTypeOK, [GuideNext]_guideVars PROVE GuideTypeOK'
      OBVIOUS
    <2>1. CASE \E p \in Platforms : OpenDetail(p)
      BY <1>0, <1>g, <1>h, <2>1, FirstForAll DEF OpenDetail
    <2>2. CASE \E s \in Systems : ChooseSystem(s)
      BY <1>g, <1>h, <2>2, FirstForAll DEF ChooseSystem
    <2>3. CASE \E a \in DOMAIN Stores : ChooseLauncher(a)
      BY <1>g, <1>h, <2>3 DEF ChooseLauncher
    <2>4. CASE CloseDetail \/ ToggleMenu \/ ToggleQr \/ ToggleAdvanced \/ ChooseEnhanced
      BY <1>g, <1>h, <2>4 DEF CloseDetail, ToggleMenu, ToggleQr, ToggleAdvanced, ChooseEnhanced
    <2>5. CASE UNCHANGED guideVars
      BY <1>g, <1>h, <2>5 DEF guideVars
    <2> QED  BY <2>1, <2>2, <2>3, <2>4, <2>5 DEF GuideNext
  <1> QED  BY <1>1, <1>2, PTL DEF GuideSpec

-----------------------------------------------------------------------------
(* The demo backend.                                                        *)

\* An order was reported paid only after it went among the paid ones.
MockInv ==
    /\ told \in [MockOrders -> {"nothing", "pending", "paid"}]
    /\ \A o \in MockOrders : told[o] = "paid" => o \in paid

(* Once the app has been told that an order is paid, the order is not        *)
(* offered again among the unfinished ones (mock.ts:197-199, 217).           *)
THEOREM SettledStays == MockSpec => []PaidIsSettled
  <1>1. MockInit => MockInv
    BY DEF MockInit, MockInv
  <1>2. MockInv /\ [MockNext]_mockVars => MockInv'
    <2> SUFFICES ASSUME MockInv, [MockNext]_mockVars PROVE MockInv'
      OBVIOUS
    <2>1. ASSUME NEW o \in MockOrders, GetOrder(o) PROVE MockInv'
      BY <2>1 DEF GetOrder, accessState, MockInv
    <2>2. CASE UNCHANGED <<told, paid>>
      BY <2>2 DEF MockInv
    <2>3. \/ \E o \in MockOrders : GetOrder(o)
          \/ UNCHANGED <<told, paid>>
      BY DEF MockNext, mockVars, orderState, PostOrder, TimePasses, PostCancel, PostKey,
             DeleteConfig, PatchLimit, ChangeDevices, PostAdminKeys, DeleteAdminKey, PostApplyKey
    <2> QED  BY <2>1, <2>2, <2>3
  <1>3. MockInv => PaidIsSettled
    BY DEF MockInv, PaidIsSettled, Offered
  <1> QED  BY <1>1, <1>2, <1>3, PTL DEF MockSpec

\* An order that exists has a plan on offer.
Planned ==
    /\ plan \in [MockOrders -> Nat]
    /\ \A o \in MockOrders : age[o] # "absent" => plan[o] \in PlanTerm

(* The account's access ahead is a plan's or for life, and devices and keys  *)
(* never go beyond what the demo knows (mock.ts:142, 220, 299).              *)
THEOREM DemoInOrder == MockSpec => []MockTypeOK
  <1>1. MockInit => MockTypeOK /\ Planned
    BY DEF MockInit, MockTypeOK, Planned
  <1>2. MockTypeOK /\ Planned /\ [MockNext]_mockVars => MockTypeOK' /\ Planned'
    <2> SUFFICES ASSUME MockTypeOK, Planned, [MockNext]_mockVars PROVE MockTypeOK' /\ Planned'
      OBVIOUS
    <2>1. ASSUME NEW o \in MockOrders, PostOrder(o) PROVE MockTypeOK' /\ Planned'
      <3>1. PICK days \in PlanTerm : plan' = [plan EXCEPT ![o] = days]
        BY <2>1 DEF PostOrder
      <3>2. days \in Nat
        BY MockConstants
      <3> QED  BY <2>1, <3>1, <3>2 DEF PostOrder, accessState, deviceState, adminState, MockTypeOK, Planned
    <2>2. ASSUME NEW o \in MockOrders, TimePasses(o) \/ PostCancel(o) PROVE MockTypeOK' /\ Planned'
      BY <2>2 DEF TimePasses, PostCancel, accessState, deviceState, adminState, MockTypeOK,
                  Planned
    <2>3. ASSUME NEW o \in MockOrders, GetOrder(o) PROVE MockTypeOK' /\ Planned'
      BY <2>3 DEF GetOrder, Due, accessState, deviceState, adminState, MockTypeOK, Planned
    <2>4. CASE PostKey \/ DeleteConfig \/ PatchLimit \/ PostApplyKey
      BY <2>4 DEF PostKey, DeleteConfig, PatchLimit, PostApplyKey, accessState, orderState,
                  deviceState, adminState, MockTypeOK, Planned
    <2>5. CASE ChangeDevices
      <3>1. DOMAIN mockDevices' \subseteq DOMAIN mockDevices
        BY <2>5 DEF ChangeDevices
      <3> QED  BY <2>5, <3>1 DEF ChangeDevices, accessState, orderState, adminState, MockTypeOK,
                                Planned
    <2>6. CASE PostAdminKeys \/ DeleteAdminKey
      BY <2>6 DEF PostAdminKeys, DeleteAdminKey, accessState, orderState, deviceState,
                  MockTypeOK, Planned
    <2>7. CASE UNCHANGED mockVars
      BY <2>7 DEF mockVars, MockTypeOK, Planned
    <2> QED  BY <2>1, <2>2, <2>3, <2>4, <2>5, <2>6, <2>7 DEF MockNext
  <1>3. MockTypeOK /\ Planned => MockTypeOK
    OBVIOUS
  <1> QED  BY <1>1, <1>2, <1>3, PTL DEF MockSpec

-----------------------------------------------------------------------------
(* The charts.                                                              *)

\* The greater and the lesser of two numbers, and what is kept within bounds.
LEMMA OfTwo ==
    ASSUME NEW a \in Int, NEW b \in Int
    PROVE  /\ Max({a, b}) = IF a >= b THEN a ELSE b
           /\ Min({a, b}) = IF a <= b THEN a ELSE b
  <1>1. \E m \in {a, b} : \A y \in {a, b} : m >= y
    BY a \in Int, b \in Int
  <1>2. \E m \in {a, b} : \A y \in {a, b} : m <= y
    BY a \in Int, b \in Int
  <1>3. Max({a, b}) \in {a, b} /\ \A y \in {a, b} : Max({a, b}) >= y
    BY <1>1 DEF Max
  <1>4. Min({a, b}) \in {a, b} /\ \A y \in {a, b} : Min({a, b}) <= y
    BY <1>2 DEF Min
  <1> QED  BY <1>3, <1>4

\* What Clamp returns.
LEMMA Clamped ==
    ASSUME NEW x \in Int, NEW lo \in Int, NEW hi \in Int, lo <= hi
    PROVE  Clamp(x, lo, hi) = IF x < lo THEN lo ELSE IF x > hi THEN hi ELSE x
  <1> DEFINE m == Min({x, hi})
  <1>1. m = IF x <= hi THEN x ELSE hi
    BY OfTwo
  <1>2. m \in Int
    BY <1>1
  <1> HIDE DEF m
  <1>3. Max({lo, m}) = IF lo >= m THEN lo ELSE m
    BY <1>2, OfTwo
  <1> QED  BY <1>1, <1>3 DEF Clamp, m

\* Of n bars S wide, the one that holds y, or the last on its side, has its centre
\* nearest to y.
LEMMA NearestBar ==
    ASSUME NEW S \in Nat \ {0}, NEW n \in Nat \ {0}, NEW y \in Int, NEW i \in 0 .. n - 1,
           NEW p, p = Clamp(y \div S, 0, n - 1)
    PROVE  /\ p \in 0 .. n - 1
           /\ \/ S * (2 * p + 1) - 2 * y <= S * (2 * i + 1) - 2 * y
              \/ S * (2 * p + 1) - 2 * y <= 2 * y - S * (2 * i + 1)
           /\ \/ 2 * y - S * (2 * p + 1) <= S * (2 * i + 1) - 2 * y
              \/ 2 * y - S * (2 * p + 1) <= 2 * y - S * (2 * i + 1)
  <1> DEFINE q == y \div S
  <1>1. q \in Int /\ S * q <= y /\ y < S * q + S
    OBVIOUS
  <1> HIDE DEF q
  <1>2. p = IF q < 0 THEN 0 ELSE IF q > n - 1 THEN n - 1 ELSE q
    BY <1>1, Clamped DEF q
  <1>3. p \in 0 .. n - 1 /\ i \in Int
    BY <1>1, <1>2
  <1> DEFINE a == S * p
             b == S * i
             c == S * q
  <1>4. a \in Int /\ b \in Int /\ c \in Int
    BY <1>1, <1>3
  <1>5. S * (2 * p + 1) = 2 * a + S /\ S * (2 * i + 1) = 2 * b + S
    BY <1>3
  <1>6. CASE i = p
    BY <1>3, <1>6
  <1>7. CASE i > p
    <2>1. q <= p /\ p + 1 <= i
      BY <1>1, <1>2, <1>3, <1>7
    <2>2. c <= a /\ a + S <= b
      BY <1>1, <1>3, <2>1
    <2> HIDE DEF a, b, c
    <2>3. y < a + S
      BY <1>1, <1>4, <2>2 DEF c
    <2> QED  BY <1>3, <1>4, <1>5, <2>2, <2>3
  <1>8. CASE i < p
    <2>1. p <= q /\ i + 1 <= p
      BY <1>1, <1>2, <1>3, <1>8
    <2>2. a <= c /\ b + S <= a
      BY <1>1, <1>3, <2>1
    <2> HIDE DEF a, b, c
    <2>3. a <= y
      BY <1>1, <1>4, <2>2 DEF c
    <2> QED  BY <1>3, <1>4, <1>5, <2>2, <2>3
  <1> QED  BY <1>3, <1>6, <1>7, <1>8

\* A chart with as many points as it may have, all of them amounts.
LEMMA ChartCounts ==
    ASSUME ChartTypeOK
    PROVE  N \in Nat /\ width \in Nat \ {0}
  BY ChartConstants DEF ChartTypeOK, N

\* The least of some numbers is one of them, and no number is less.
LEMMA MinIsLeast ==
    ASSUME NEW T \in SUBSET Nat, T # {}
    PROVE  Min(T) \in T /\ \A j \in T : Min(T) <= j
  <1>1. PICK i \in T : \A j \in T : ~(<<j, i>> \in OpToRel(<, Nat))
    BY WFMin, NatLessThanWellFounded, Zenon
  <1>2. \A j \in T : ~(j < i)
    BY <1>1 DEF OpToRel
  <1>3. \A j \in T : i <= j
    BY <1>2
  <1> QED  BY <1>3 DEF Min

\* What is left of the days is a sequence of them, no longer than they were.
LEMMA TrimmedDays ==
    ASSUME NEW n \in Nat, NEW days \in [1 .. n -> Amounts]
    PROVE  /\ days \in Seq(Amounts) /\ Len(days) = n
           /\ Trimmed(days) \in Seq(Amounts) /\ Len(Trimmed(days)) <= n
  <1> DEFINE used == {i \in 1 .. Len(days) : days[i] > 0}
  <1>1. days \in Seq(Amounts) /\ Len(days) = n
    OBVIOUS
  <1>2. CASE used = {}
    BY <1>1, <1>2 DEF Trimmed
  <1>3. CASE used # {}
    <2>1. Trimmed(days) = SubSeq(days, Min(used), Len(days))
      BY <1>3 DEF Trimmed
    <2>2. Min(used) \in 1 .. n
      <3>1. used \in SUBSET Nat
        OBVIOUS
      <3>2. Min(used) \in used
        BY <1>3, <3>1, MinIsLeast
      <3> QED  BY <1>1, <3>2
    <2> HIDE DEF used
    <2> QED  BY <1>1, <2>1, <2>2, SubSeqProperties
  <1> QED  BY <1>1, <1>2, <1>3

\* What a finger picks is a number.
LEMMA ScrubIsInt ==
    ASSUME ChartTypeOK, N > 0, NEW x \in Fingers, Scrub(x)
    PROVE  scrub' \in Int
  <1>1. N \in Nat \ {0} /\ width \in Nat /\ x \in Int
    BY ChartCounts, ChartConstants
  <1>2. Inner \in Nat \ {0}
    <2>1. width - PadL - PadR \in Int /\ 1 \in Int
      BY <1>1 DEF PadL, PadR
    <2> QED  BY <2>1, OfTwo DEF Inner
  <1>3. Slot \in Nat \ {0}
    <2> DEFINE cap == MaxSlot * N
    <2>1. cap \in Nat \ {0}
      BY <1>1 DEF MaxSlot
    <2>2. Slot = Min({Inner, cap})
      BY DEF Slot
    <2> HIDE DEF cap
    <2>3. Min({Inner, cap}) = IF Inner <= cap THEN Inner ELSE cap
      BY <1>2, <2>1, OfTwo
    <2> QED  BY <1>2, <2>1, <2>2, <2>3
  <1> DEFINE bar == ((x - PadL) * N) \div Slot
             at == (x - PadL) * (N - 1)
             last == (N - 1) * Inner
  <1>4. bar \in Int /\ at \in Int /\ last \in Nat
    <2>1. (x - PadL) * N \in Int
      BY <1>1 DEF PadL
    <2> QED  BY <1>1, <1>2, <1>3, <2>1 DEF PadL
  <1>5. Pick(x) = Clamp(bar, 0, N - 1) /\ Index(x) = Clamp(at, 0, last)
    BY DEF Pick, Index
  <1> HIDE DEF bar, at, last
  <1>6. Pick(x) \in Int /\ Index(x) \in Int
    BY <1>1, <1>4, <1>5, Clamped
  <1> QED  BY <1>6 DEF Scrub

\* Every step keeps the types.
LEMMA ChartStep == ChartTypeOK /\ [ChartNext]_chartVars => ChartTypeOK'
  <1> SUFFICES ASSUME ChartTypeOK, [ChartNext]_chartVars PROVE ChartTypeOK'
    OBVIOUS
  <1>1. CASE Load
    <2>1. PICK n \in 1 .. MaxPoints : \E days \in [1 .. n -> Amounts] :
            series' = IF drawing = "bars" THEN Trimmed(days) ELSE days
      BY <1>1 DEF Load
    <2>2. PICK days \in [1 .. n -> Amounts] :
            series' = IF drawing = "bars" THEN Trimmed(days) ELSE days
      BY <2>1
    <2>3. n \in Nat /\ n <= MaxPoints /\ MaxPoints \in Nat
      BY ChartConstants
    <2>4. series' \in Seq(Amounts) /\ Len(series') <= n /\ Len(series') \in Nat
      BY <2>2, <2>3, TrimmedDays
    <2> QED  BY <1>1, <2>3, <2>4 DEF Load, ChartTypeOK, N
  <1>2. ASSUME NEW x \in Fingers, PointerDown(x) \/ PointerMove(x) PROVE ChartTypeOK'
    <2>1. N > 0 /\ Scrub(x)
      BY <1>2 DEF PointerDown, PointerMove
    <2>2. scrub' \in Int
      BY <2>1, ScrubIsInt
    <2> QED  BY <1>2, <2>2 DEF PointerDown, PointerMove, ChartTypeOK, N
  <1>3. CASE Resize \/ PointerUp \/ PointerLeave \/ PointerCancel \/ UNCHANGED chartVars
    BY <1>3 DEF Resize, PointerUp, PointerLeave, PointerCancel, chartVars, NoScrub,
                ChartTypeOK, N
  <1> QED  BY <1>1, <1>2, <1>3 DEF ChartNext

(* What a chart draws is a sequence of amounts, no longer than what was     *)
(* loaded, and a scrub is always a number (UsageSheet.tsx:49, Chart.tsx:84). *)
THEOREM ChartInOrder == ChartSpec => []ChartTypeOK
  <1>1. ChartInit => ChartTypeOK
    BY ChartConstants DEF ChartInit, ChartTypeOK, N, NoScrub
  <1> QED  BY <1>1, ChartStep, PTL DEF ChartSpec

\* A sequence of numbers has a tallest.
LEMMA TallestIsMost ==
    ASSUME ChartTypeOK
    PROVE  /\ Tallest \in Nat \ {0}
           /\ Tallest = 1 \/ Tallest \in Amounts
           /\ \A i \in 1 .. N : series[i] <= Tallest
  <1> DEFINE S == {1} \cup {series[i] : i \in 1 .. N}
             Under(k) == \E m \in Nat : \A i \in 1 .. k : series[i] <= m
  <1>1. N \in Nat /\ \A i \in 1 .. N : series[i] \in Amounts /\ series[i] \in Nat
    <2>1. series \in Seq(Amounts) /\ Amounts \subseteq Nat
      BY ChartConstants DEF ChartTypeOK
    <2>2. N = Len(series) /\ Len(series) \in Nat
      BY <2>1 DEF N
    <2>3. \A i \in 1 .. Len(series) : series[i] \in Amounts
      BY <2>1, ElementOfSeq
    <2> QED  BY <2>1, <2>2, <2>3
  <1>2. Under(N)
    <2> DEFINE bad == {k \in 0 .. N : ~Under(k)}
    <2>1. SUFFICES ASSUME bad # {} PROVE FALSE
      BY <1>1
    <2>2. bad \in SUBSET Nat
      BY <1>1
    <2>3. PICK k \in bad : \A j \in bad : k <= j
      BY <2>1, <2>2, MinIsLeast
    <2>4. Under(0)
      OBVIOUS
    <2>5. k \in 1 .. N /\ k - 1 \in 0 .. N
      BY <1>1, <2>3, <2>4
    <2>6. k - 1 \notin bad
      BY <2>3, <2>5
    <2>7. PICK m \in Nat : \A i \in 1 .. k - 1 : series[i] <= m
      BY <2>5, <2>6
    <2>8. \A i \in 1 .. k : series[i] <= m + series[k]
      <3> TAKE i \in 1 .. k
      <3>1. series[i] \in Nat /\ series[k] \in Nat
        BY <1>1, <2>5
      <3>2. i = k \/ i \in 1 .. k - 1
        BY <2>5
      <3> QED  BY <2>7, <3>1, <3>2
    <2>9. m + series[k] \in Nat
      BY <1>1, <2>5, <2>7
    <2> QED  BY <2>3, <2>8, <2>9
  <1> DEFINE bounds == {m \in Nat : \A v \in S : v <= m}
  <1>3. bounds # {}
    <2>1. PICK m \in Nat : \A i \in 1 .. N : series[i] <= m
      BY <1>2
    <2>2. m + 1 \in bounds
      BY <1>1, <2>1
    <2> QED  BY <2>2
  <1>4. PICK b \in bounds : \A m \in bounds : b <= m
    <2>1. bounds \in SUBSET Nat
      OBVIOUS
    <2> HIDE DEF bounds
    <2> QED  BY <1>3, <2>1, MinIsLeast
  <1>5. S \in SUBSET Nat
    BY <1>1
  <1>6. b \in S
    <2>1. SUFFICES ASSUME b \notin S PROVE FALSE
      OBVIOUS
    <2>2. b \in Nat /\ b >= 1
      BY <1>4
    <2>3. \A v \in S : v <= b - 1
      BY <1>4, <1>5, <2>1, <2>2
    <2>4. b - 1 \in bounds
      BY <2>2, <2>3
    <2> QED  BY <1>4, <2>2, <2>4
  <1>7. \A v \in S : b >= v
    BY <1>4, <1>5
  <1>8. Tallest \in S /\ \A v \in S : Tallest >= v
    <2> HIDE DEF S
    <2>1. Max(S) \in S /\ \A v \in S : Max(S) >= v
      BY <1>6, <1>7 DEF Max
    <2> QED  BY <2>1 DEF S, Tallest
  <1> QED  BY <1>1, <1>5, <1>8

\* The next nice number is not below, and never more than twice as much.
LEMMA NiceTop ==
    ASSUME NEW t \in Nat, t >= 11, \E p \in Powers : t <= 11 * p
    PROVE  NiceCeil(t) \in Nat /\ t <= NiceCeil(t) /\ NiceCeil(t) <= 2 * t
  <1> DEFINE nice == {s * p : s \in {10, 20, 25, 50}, p \in Powers}
             over == {c \in nice : c >= t}
             c == NiceCeil(t)
  <1>1. \A p \in Powers : p \in Nat \ {0}
    BY ChartConstants
  <1>2. nice \in SUBSET Nat
    BY <1>1
  <1>3. over # {}
    <2>1. PICK p \in Powers : t <= 11 * p
      OBVIOUS
    <2>2. 20 * p \in nice /\ 20 * p >= t
      BY <1>1, <2>1
    <2> QED  BY <2>2
  <1>4. c \in over /\ \A d \in over : c <= d
    <2>1. over \in SUBSET Nat
      BY <1>2
    <2>2. c = Min(over)
      BY DEF NiceCeil
    <2> HIDE DEF over, c
    <2> QED  BY <1>3, <2>1, <2>2, MinIsLeast
  <1> HIDE DEF c, nice
  <1>5. c \in Nat /\ c >= t /\ \A d \in nice : d < c => d < t
    <2>1. c \in Nat /\ c >= t
      BY <1>2, <1>4
    <2>2. ASSUME NEW d \in nice, d < c PROVE d < t
      <3>1. d \in Nat
        BY <1>2
      <3>2. d \notin over
        BY <1>4, <2>1, <2>2, <3>1
      <3> QED  BY <3>1, <3>2
    <2> QED  BY <2>1, <2>2
  <1> USE DEF nice
  <1>6. PICK s \in {10, 20, 25, 50}, p \in Powers : c = s * p
    BY <1>4
  <1>7. 10 * p \in nice /\ 20 * p \in nice /\ 25 * p \in nice /\ 50 * p \in nice
    OBVIOUS
  <1>8. \A q \in Powers : 50 * q \in nice
    OBVIOUS
  <1> HIDE DEF nice, over
  <1>9. c <= 2 * t
    <2>1. CASE s = 20
      BY <1>1, <1>5, <1>6, <1>7, <2>1
    <2>2. CASE s = 25
      BY <1>1, <1>5, <1>6, <1>7, <2>2
    <2>3. CASE s = 50
      BY <1>1, <1>5, <1>6, <1>7, <2>3
    <2>4. CASE s = 10 /\ p = 1
      BY <1>5, <1>6, <2>4
    <2>5. CASE s = 10 /\ p # 1
      <3>1. PICK q \in Powers : p = 10 * q
        BY <2>5, ChartConstants
      <3>2. c = 100 * q /\ 50 * q < c
        BY <1>1, <1>6, <2>5, <3>1
      <3> QED  BY <1>1, <1>5, <1>8, <3>2
    <2> QED  BY <1>6, <2>1, <2>2, <2>3, <2>4, <2>5
  <1> QED  BY <1>5, <1>9 DEF c

(* No bar leaves the chart, and the tallest fills a good part of it, for any *)
(* traffic and any number of days: the top of the axis, 1.1 times the tallest*)
(* bar rounded up to a nice number, is never more than 2.2 times that bar    *)
(* (chartkit.tsx:12-17, BarChart.tsx:48).                                    *)
THEOREM AxisFits == ChartSpec => []BarsFillTheAxis
  <1>1. ChartTypeOK => BarsFillTheAxis
    <2> SUFFICES ASSUME ChartTypeOK
        PROVE  10 * Tallest <= Top10 /\ 100 * 10 * Tallest >= 45 * Top10
      BY DEF BarsFillTheAxis
    <2>1. Tallest \in Nat \ {0} /\ (Tallest = 1 \/ Tallest \in Amounts)
      BY TallestIsMost
    <2>2. PICK p \in Powers : Tallest <= p
      BY <2>1, ChartConstants
    <2>3. p \in Nat
      BY ChartConstants
    <2> DEFINE t == 11 * Tallest
    <2>4. t \in Nat /\ t >= 11 /\ t <= 11 * p
      BY <2>1, <2>2, <2>3
    <2>5. Top10 = NiceCeil(t)
      BY DEF Top10
    <2> HIDE DEF t
    <2>6. Top10 \in Nat /\ t <= Top10 /\ Top10 <= 2 * t
      BY <2>4, <2>5, NiceTop
    <2> QED  BY <2>1, <2>6 DEF t
  <1> QED  BY <1>1, ChartInOrder, PTL

\* The point of a line under the finger, times one less than the points.
LEMMA LineUnder ==
    ASSUME NEW k \in Nat \ {0}, NEW w \in Nat, NEW l \in Nat, NEW x \in Int
    PROVE  k * l + Clamp((x - l) * k, 0, k * w) = k * Clamp(x, l, l + w)
  <1> DEFINE d == x - l
             dk == d * k
             kw == k * w
  <1>1. d \in Int /\ dk \in Int /\ kw \in Int /\ kw >= 0
    OBVIOUS
  <1>2. Clamp(x, l, l + w) = IF d < 0 THEN l ELSE IF d > w THEN l + w ELSE l + d
    BY Clamped
  <1>3. Clamp(dk, 0, kw) = IF dk < 0 THEN 0 ELSE IF dk > kw THEN kw ELSE dk
    <2> HIDE DEF dk, kw
    <2> QED  BY <1>1, Clamped
  <1>4. /\ d < 0 => dk < 0
        /\ d >= 0 /\ d <= w => dk >= 0 /\ dk <= kw
        /\ d > w => dk > kw
    OBVIOUS
  <1>5. k * (l + w) = k * l + kw /\ k * (l + d) = k * l + dk
    OBVIOUS
  <1> HIDE DEF dk, kw, d
  <1>6. Clamp(dk, 0, kw) = IF d < 0 THEN 0 ELSE IF d > w THEN kw ELSE dk
    BY <1>1, <1>3, <1>4
  <1> QED  BY <1>1, <1>2, <1>5, <1>6 DEF d, dk, kw

(* A scrub picks what is under the finger, at any width, with any number of  *)
(* days and wherever the finger is: the bar whose centre is nearest, or the  *)
(* point of the line at the finger's x (BarChart.tsx:71, Chart.tsx:84).      *)
THEOREM FingerPicks == ChartSpec => ScrubUnderFinger
  <1> DEFINE away(x, i) == Max({Centre2(i) - 2 * N * x, 2 * N * x - Centre2(i)})
             inside(x) == Clamp(x, PadL, PadL + Inner)
             Under(x) == IF drawing = "bars"
                         THEN \A i \in 0 .. N - 1 : away(x, scrub') <= away(x, i)
                         ELSE N > 1 => Crosshair' = (N - 1) * inside(x)
  <1>1. ASSUME ChartTypeOK, NEW x \in Fingers, PointerDown(x) \/ PointerMove(x)
        PROVE  Under(x)
    <2>1. /\ N \in Nat \ {0} /\ width \in Nat /\ x \in Int
          /\ Scrub(x) /\ N' = N
      BY <1>1, ChartCounts, ChartConstants DEF PointerDown, PointerMove, N
    <2>2. Inner \in Nat \ {0}
      <3>1. width - PadL - PadR \in Int /\ 1 \in Int
        BY <2>1 DEF PadL, PadR
      <3> QED  BY <3>1, OfTwo DEF Inner
    <2>3. CASE drawing = "bars"
      <3>1. Slot \in Nat \ {0}
        <4> DEFINE cap == MaxSlot * N
        <4>1. cap \in Nat \ {0}
          BY <2>1 DEF MaxSlot
        <4>2. Slot = Min({Inner, cap})
          BY DEF Slot
        <4> HIDE DEF cap
        <4>3. Min({Inner, cap}) = IF Inner <= cap THEN Inner ELSE cap
          BY <2>2, <4>1, OfTwo
        <4> QED  BY <2>2, <4>1, <4>2, <4>3
      <3> DEFINE y == (x - PadL) * N
                 p == scrub'
                 off(i) == Slot * (2 * i + 1) - 2 * y
      <3>2. y \in Int /\ p = Clamp(y \div Slot, 0, N - 1)
        BY <2>1, <2>3 DEF PadL, Scrub, Pick
      <3>3. ASSUME NEW i \in 0 .. N - 1
            PROVE  /\ p \in 0 .. N - 1
                   /\ off(p) <= off(i) \/ off(p) <= -off(i)
                   /\ -off(p) <= off(i) \/ -off(p) <= -off(i)
        <4> HIDE DEF y, p
        <4>1. p \in 0 .. N - 1
          BY <2>1, <3>1, <3>2, NearestBar
        <4>2. off(i) \in Int
          BY <3>1, <3>2
        <4>3. off(p) \in Int
          BY <3>1, <3>2, <4>1
        <4>4. /\ \/ Slot * (2 * p + 1) - 2 * y <= Slot * (2 * i + 1) - 2 * y
                 \/ Slot * (2 * p + 1) - 2 * y <= 2 * y - Slot * (2 * i + 1)
              /\ \/ 2 * y - Slot * (2 * p + 1) <= Slot * (2 * i + 1) - 2 * y
                 \/ 2 * y - Slot * (2 * p + 1) <= 2 * y - Slot * (2 * i + 1)
          BY <2>1, <3>1, <3>2, NearestBar
        <4> QED  BY <3>1, <3>2, <4>1, <4>2, <4>3, <4>4
      <3>4. ASSUME NEW i \in 0 .. N - 1
            PROVE  /\ off(i) \in Int /\ Centre2(i) - 2 * N * x = off(i)
                   /\ 2 * N * x - Centre2(i) = -off(i)
        BY <2>1, <3>1 DEF Centre2, PadL
      <3> HIDE DEF off, p
      <3>5. \A i \in 0 .. N - 1 : away(x, i) = IF off(i) >= -off(i) THEN off(i) ELSE -off(i)
        <4> TAKE i \in 0 .. N - 1
        <4>1. off(i) \in Int /\ -off(i) \in Int
          BY <3>4
        <4> QED  BY <3>4, <4>1, OfTwo
      <3>6. ASSUME NEW i \in 0 .. N - 1 PROVE away(x, p) <= away(x, i)
        <4>1. p \in 0 .. N - 1 /\ off(i) \in Int /\ off(p) \in Int
          BY <3>3, <3>4
        <4> HIDE DEF away
        <4> QED  BY <3>3, <3>5, <4>1
      <3> QED  BY <2>3, <3>6 DEF p
    <2>4. CASE drawing # "bars"
      <3> SUFFICES ASSUME N > 1 PROVE Crosshair' = (N - 1) * inside(x)
        BY <2>4
      <3>1. scrub' = Clamp((x - PadL) * (N - 1), 0, (N - 1) * Inner)
        BY <2>1, <2>4 DEF Scrub, Index
      <3>2. Crosshair' = (N - 1) * PadL + scrub'
        BY <2>1 DEF Crosshair, PadL
      <3>3. N - 1 \in Nat \ {0} /\ PadL \in Nat /\ Inner \in Nat
        BY <2>1, <2>2 DEF PadL
      <3>4. (N - 1) * PadL + Clamp((x - PadL) * (N - 1), 0, (N - 1) * Inner)
              = (N - 1) * Clamp(x, PadL, PadL + Inner)
        <4> DEFINE k == N - 1
        <4>1. k \in Nat \ {0} /\ x \in Int
          BY <2>1, <3>3
        <4> HIDE DEF k
        <4>2. k * PadL + Clamp((x - PadL) * k, 0, k * Inner) = k * Clamp(x, PadL, PadL + Inner)
          BY <3>3, <4>1, LineUnder
        <4> QED  BY <4>2 DEF k
      <3> QED  BY <3>1, <3>2, <3>4
    <2> QED  BY <2>3, <2>4
  <1>2. ChartTypeOK /\ [ChartNext]_chartVars =>
          [\A x \in Fingers : (PointerDown(x) \/ PointerMove(x)) => Under(x)]_chartVars
    <2> HIDE DEF Under
    <2> QED  BY <1>1
  <1> QED  BY <1>2, ChartInOrder, PTL DEF ChartSpec, ScrubUnderFinger

-----------------------------------------------------------------------------
(* The Mini App as a whole.                                                 *)

\* What happens around a part leaves the part as it was.
LEMMA PartsStep ==
    ASSUME [MiniNext]_miniVars
    PROVE  /\ [CacheNext]_cacheVars /\ [CheckoutNext]_checkoutVars /\ [NavNext]_navVars
           /\ [HomeNext]_homeVars /\ [PanelNext]_panelVars /\ [ApiNext]_apiVars
           /\ [MockNext]_mockVars /\ [ChartNext]_chartVars /\ [GuideNext]_guideVars
  BY DEF MiniNext, miniVars

(* The parts of the Mini App do not meet: what is true of every behaviour of *)
(* one of them alone is true of it in the whole app.                         *)
THEOREM PartsAlone ==
    MiniSpec => /\ CacheSpec /\ CheckoutSpec /\ NavSpec /\ HomeSpec /\ PanelSpec
                /\ ApiSpec /\ MockSpec /\ ChartSpec /\ GuideSpec
  <1>1. MiniInit => /\ CacheInit /\ CheckoutInit /\ NavInit /\ HomeInit /\ PanelInit
                    /\ ApiInit /\ MockInit /\ ChartInit /\ GuideInit
    BY DEF MiniInit
  <1>2. MiniSpec => CacheSpec /\ CheckoutSpec /\ NavSpec
    BY <1>1, PartsStep, PTL DEF MiniSpec, CacheSpec, CheckoutSpec, NavSpec
  <1>3. MiniSpec => HomeSpec /\ PanelSpec /\ ApiSpec
    BY <1>1, PartsStep, PTL DEF MiniSpec, HomeSpec, PanelSpec, ApiSpec
  <1>4. MiniSpec => MockSpec /\ ChartSpec /\ GuideSpec
    BY <1>1, PartsStep, PTL DEF MiniSpec, MockSpec, ChartSpec, GuideSpec
  <1> QED  BY <1>2, <1>3, <1>4

(* Every part of the Mini App keeps its types: what a fetch, a poll, a       *)
(* window, a call, an order, a chart and the guide may be                    *)
(* (cache.ts:108-145, SubscribeSheet.tsx:140, scrollLock.ts:4).              *)
THEOREM MiniInOrder == MiniSpec => []MiniTypeOK
  <1>1. CacheTypeOK /\ CheckoutTypeOK /\ NavTypeOK /\ PanelTypeOK /\ ApiTypeOK /\ MockTypeOK
        /\ ChartTypeOK /\ GuideTypeOK => MiniTypeOK
    BY DEF MiniTypeOK
  <1>2. MiniSpec => [](CacheTypeOK /\ CheckoutTypeOK /\ NavTypeOK)
    BY PartsAlone, CacheInOrder, BusyMeansUnderWay, WindowsInOrder, PTL
  <1>3. MiniSpec => [](PanelTypeOK /\ ApiTypeOK)
    BY PartsAlone, PanelInOrder, CallsInOrder, PTL
  <1>4. MiniSpec => [](MockTypeOK /\ ChartTypeOK /\ GuideTypeOK)
    BY PartsAlone, DemoInOrder, ChartInOrder, GuideEnds, PTL
  <1> QED  BY <1>1, <1>2, <1>3, <1>4, PTL
=============================================================================
