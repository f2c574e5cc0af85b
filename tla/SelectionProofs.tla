--------------------------- MODULE SelectionProofs ---------------------------
(***************************************************************************)
(* What Selection returns, for every sequence and every set of positions.  *)
(* The library's induction takes an operator as its parameter, which no    *)
(* prover here can instantiate; an induction over the length of a sequence *)
(* is therefore written as the search for a least counterexample.          *)
(***************************************************************************)
EXTENDS Selection, FiniteSetTheorems, SequenceTheorems, FunctionTheorems,
        WellFoundedInduction, TLAPS

LEMMA LeastElement ==
    ASSUME NEW S, S \subseteq Nat, S # {}
    PROVE  \E n \in S : \A m \in S : n <= m
<1>1. PICK n \in S : \A m \in S : <<m, n>> \notin OpToRel(<, Nat)
  BY NatLessThanWellFounded, WFMin
<1>2. \A m \in S : ~(m < n)
  BY <1>1 DEF OpToRel
<1>. QED BY <1>2

\* Induction from 0 to N over the numbers in a set.
LEMMA UpTo ==
    ASSUME NEW N \in Nat, NEW Good, 0 \in Good,
           \A n \in 0..(N - 1) : n \in Good => n + 1 \in Good
    PROVE  \A n \in 0..N : n \in Good
<1>. DEFINE Bad == {n \in 0..N : n \notin Good}
<1>. SUFFICES ASSUME Bad # {} PROVE FALSE
  OBVIOUS
<1>1. PICK n \in Bad : \A m \in Bad : n <= m
  <2>1. Bad \subseteq Nat
    OBVIOUS
  <2>. HIDE DEF Bad
  <2>. QED BY <2>1, LeastElement
<1>2. n # 0 /\ n \in 0..N /\ n - 1 \in 0..(N - 1) /\ (n - 1) + 1 = n
  OBVIOUS
<1>3. n - 1 \notin Bad
  BY <1>1, <1>2
<1>4. n - 1 \in Good
  BY <1>2, <1>3
<1>. QED BY <1>2, <1>4

\* The defining equation of Taken.
Unfolds(s, positions, N, f) ==
    f = [n \in 0..N |->
            IF n = 0 THEN <<>>
            ELSE IF n \in positions THEN Append(f[n - 1], s[n]) ELSE f[n - 1]]

LEMMA TakenExists ==
    ASSUME NEW s, NEW positions, NEW N \in Nat
    PROVE  \E f : Unfolds(s, positions, N, f)
<1>. DEFINE Good == {n \in 0..N : \E f : Unfolds(s, positions, n, f)}
<1>1. 0 \in Good
  <2>1. Unfolds(s, positions, 0, [n \in 0..0 |-> <<>>])
    BY DEF Unfolds
  <2>. QED BY <2>1
<1>2. ASSUME NEW n \in 0..(N - 1), n \in Good PROVE n + 1 \in Good
  <2>1. PICK g : Unfolds(s, positions, n, g)
    BY <1>2
  <2>. DEFINE f == [k \in 0..(n + 1) |->
                      IF k # n + 1 THEN g[k]
                      ELSE IF n + 1 \in positions THEN Append(g[n], s[n + 1]) ELSE g[n]]
              h == [k \in 0..(n + 1) |->
                      IF k = 0 THEN <<>>
                      ELSE IF k \in positions THEN Append(f[k - 1], s[k]) ELSE f[k - 1]]
  <2>2. ASSUME NEW k \in 0..(n + 1) PROVE f[k] = h[k]
    <3>1. CASE k = n + 1
      <4>1. k # 0 /\ k - 1 = n /\ n \in 0..(n + 1) /\ n # n + 1
        BY <3>1
      <4>2. f[k - 1] = g[n]
        BY <4>1
      <4>. QED BY <3>1, <4>1, <4>2
    <3>2. CASE k # n + 1
      <4>1. k \in 0..n
        BY <3>2
      <4>2. g[k] = IF k = 0 THEN <<>>
                   ELSE IF k \in positions THEN Append(g[k - 1], s[k]) ELSE g[k - 1]
        BY <2>1, <4>1 DEF Unfolds
      <4>3. k # 0 => k - 1 \in 0..(n + 1) /\ k - 1 # n + 1
        BY <4>1
      <4>4. k # 0 => f[k - 1] = g[k - 1]
        BY <4>3
      <4>. QED BY <3>2, <4>2, <4>4
    <3>. QED BY <3>1, <3>2
  <2>3. f = h
    <3>1. DOMAIN f = DOMAIN h
      OBVIOUS
    <3>. QED BY <2>2, <3>1
  <2>4. Unfolds(s, positions, n + 1, f)
    BY <2>3 DEF Unfolds
  <2>5. n + 1 \in 0..N
    OBVIOUS
  <2>. QED BY <2>4, <2>5
<1>3. \A n \in 0..N : n \in Good
  <2>. HIDE DEF Good
  <2>. QED BY <1>1, <1>2, UpTo
<1>4. N \in 0..N
  OBVIOUS
<1>. QED BY <1>3, <1>4

LEMMA TakenEquation ==
    ASSUME NEW S, NEW s \in Seq(S), NEW positions
    PROVE  LET take == Taken(s, positions) IN
           /\ take[0] = <<>>
           /\ \A n \in 1..Len(s) :
                 take[n] = IF n \in positions THEN Append(take[n - 1], s[n]) ELSE take[n - 1]
<1>. DEFINE take == Taken(s, positions)
<1>1. Len(s) \in Nat
  BY LenProperties
<1>2. take = CHOOSE f : Unfolds(s, positions, Len(s), f)
  BY DEF Taken, Unfolds
<1>3. Unfolds(s, positions, Len(s), take)
  BY <1>1, <1>2, TakenExists
<1>. HIDE DEF take
<1>4. take[0] = <<>>
  BY <1>1, <1>3 DEF Unfolds
<1>5. ASSUME NEW n \in 1..Len(s)
      PROVE  take[n] = IF n \in positions THEN Append(take[n - 1], s[n]) ELSE take[n - 1]
  <2>1. n \in 0..Len(s) /\ n # 0
    BY <1>1
  <2>. QED BY <1>3, <2>1 DEF Unfolds
<1>. QED BY <1>4, <1>5, Zenon DEF take

\* t lists the elements of s at the given ones of its first n positions: where[k]
\* is the position of its k-th element.
Lists(t, s, positions, n) ==
    \E where \in [1..Len(t) -> 1..n] :
        /\ \A k \in 1..Len(t) : where[k] \in positions /\ t[k] = s[where[k]]
        /\ \A j, k \in 1..Len(t) : j < k => where[j] < where[k]
        /\ \A i \in 1..n : i \in positions => \E k \in 1..Len(t) : where[k] = i

LEMMA ListsLonger ==
    ASSUME NEW S, NEW s \in Seq(S), NEW positions, NEW n \in Nat, n + 1 \in 1..Len(s),
           NEW t \in Seq(S), Lists(t, s, positions, n)
    PROVE  LET u == IF n + 1 \in positions THEN Append(t, s[n + 1]) ELSE t IN
           u \in Seq(S) /\ Lists(u, s, positions, n + 1)
<1>1. PICK where \in [1..Len(t) -> 1..n] :
          /\ \A k \in 1..Len(t) : where[k] \in positions /\ t[k] = s[where[k]]
          /\ \A j, k \in 1..Len(t) : j < k => where[j] < where[k]
          /\ \A i \in 1..n : i \in positions => \E k \in 1..Len(t) : where[k] = i
  BY DEF Lists
<1>2. CASE n + 1 \notin positions
  <2>1. where \in [1..Len(t) -> 1..(n + 1)]
    OBVIOUS
  <2>2. \A i \in 1..(n + 1) : i \in positions => i \in 1..n
    BY <1>2
  <2>3. Lists(t, s, positions, n + 1)
    BY <1>1, <2>1, <2>2, ZenonT(60) DEF Lists
  <2>. QED BY <1>2, <2>3
<1>3. CASE n + 1 \in positions
  <2>. DEFINE u == Append(t, s[n + 1])
              l == Len(t) + 1
              there == [k \in 1..l |-> IF k = l THEN n + 1 ELSE where[k]]
  <2>1. /\ u \in Seq(S) /\ Len(u) = l /\ u[l] = s[n + 1] /\ \A k \in 1..Len(t) : u[k] = t[k]
        /\ l \in Nat /\ l \in 1..l /\ \A k \in 1..l : k = l \/ (k \in 1..Len(t) /\ k # l)
        /\ \A k \in 1..Len(t) : k \in 1..l /\ k # l /\ k < l
    <3>1. s[n + 1] \in S
      BY ElementOfSeq
    <3>2. u \in Seq(S) /\ Len(u) = l /\ u[l] = s[n + 1] /\ \A k \in 1..Len(t) : u[k] = t[k]
      BY <3>1, AppendProperties, LenProperties
    <3>. QED BY <3>2, LenProperties
  <2>2. /\ there \in [1..l -> 1..(n + 1)] /\ there[l] = n + 1
        /\ \A k \in 1..Len(t) : there[k] = where[k]
    BY <2>1
  <2>7. l = Len(t) + 1 /\ Len(t) \in Nat
    BY LenProperties
  <2>. HIDE DEF u, there, l
  <2>3. \A k \in 1..l : there[k] \in positions /\ u[k] = s[there[k]]
    BY <1>1, <1>3, <2>1, <2>2
  <2>4. ASSUME NEW j \in 1..l, NEW k \in 1..l, j < k PROVE there[j] < there[k]
    <3>0. j \in 1..Len(t)
      BY <2>4, <2>7
    <3>1. there[j] = where[j] /\ where[j] \in 1..n
      BY <2>2, <3>0
    <3>2. CASE k = l
      BY <2>2, <3>0, <3>1, <3>2
    <3>3. CASE k \in 1..Len(t)
      BY <1>1, <2>2, <2>4, <3>0, <3>1, <3>3
    <3>. QED BY <2>1, <3>2, <3>3
  <2>5. ASSUME NEW i \in 1..(n + 1), i \in positions PROVE \E k \in 1..l : there[k] = i
    <3>1. CASE i = n + 1
      BY <2>1, <2>2, <3>1
    <3>2. CASE i # n + 1
      <4>1. i \in 1..n
        BY <3>2
      <4>2. PICK k \in 1..Len(t) : where[k] = i
        BY <1>1, <2>5, <4>1
      <4>. QED BY <2>1, <2>2, <4>2
    <3>. QED BY <3>1, <3>2
  <2>6. Lists(u, s, positions, n + 1)
    <3>1. there \in [1..Len(u) -> 1..(n + 1)]
      BY <2>1, <2>2
    <3>2. /\ \A k \in 1..Len(u) : there[k] \in positions /\ u[k] = s[there[k]]
          /\ \A j, k \in 1..Len(u) : j < k => there[j] < there[k]
          /\ \A i \in 1..(n + 1) : i \in positions => \E k \in 1..Len(u) : there[k] = i
      BY <2>1, <2>3, <2>4, <2>5
    <3>. QED BY <3>1, <3>2 DEF Lists
  <2>. QED BY <1>3, <2>1, <2>6 DEF u
<1>. QED BY <1>2, <1>3

\* A filter returns the elements at the positions, all of them, each once, in order.
THEOREM SelectionLists ==
    ASSUME NEW S, NEW s \in Seq(S), NEW positions
    PROVE  Selection(s, positions) \in Seq(S) /\ Lists(Selection(s, positions), s, positions, Len(s))
<1>. DEFINE take == Taken(s, positions)
            Good == {n \in 0..Len(s) : take[n] \in Seq(S) /\ Lists(take[n], s, positions, n)}
<1>1. Len(s) \in Nat
  BY LenProperties
<1>2. /\ take[0] = <<>>
      /\ \A n \in 1..Len(s) :
            take[n] = IF n \in positions THEN Append(take[n - 1], s[n]) ELSE take[n - 1]
  BY TakenEquation
<1>. HIDE DEF take
<1>3. 0 \in Good
  <2>1. <<>> \in Seq(S) /\ Len(<<>>) = 0
    BY EmptySeq
  <2>2. Lists(<<>>, s, positions, 0)
    <3>. DEFINE none == [k \in 1..0 |-> 1]
    <3>1. none \in [1..Len(<<>>) -> 1..0] /\ 1..Len(<<>>) = {} /\ 1..0 = {}
      BY <2>1
    <3>. HIDE DEF none
    <3>2. /\ \A k \in 1..Len(<<>>) : none[k] \in positions /\ <<>>[k] = s[none[k]]
          /\ \A j, k \in 1..Len(<<>>) : j < k => none[j] < none[k]
          /\ \A i \in 1..0 : i \in positions => \E k \in 1..Len(<<>>) : none[k] = i
      BY <3>1
    <3>. QED BY <3>1, <3>2, Zenon DEF Lists
  <2>3. 0 \in 0..Len(s)
    BY <1>1
  <2>4. take[0] \in Seq(S) /\ Lists(take[0], s, positions, 0)
    BY <1>2, <2>1, <2>2, Zenon
  <2>. QED BY <2>3, <2>4, Zenon
<1>4. ASSUME NEW n \in 0..(Len(s) - 1), n \in Good PROVE n + 1 \in Good
  <2>1. n \in Nat /\ n + 1 \in 1..Len(s) /\ n + 1 \in 0..Len(s) /\ (n + 1) - 1 = n
    BY <1>1
  <2>2. take[n] \in Seq(S) /\ Lists(take[n], s, positions, n)
    BY <1>4
  <2>3. take[n + 1] = IF n + 1 \in positions THEN Append(take[n], s[n + 1]) ELSE take[n]
    BY <1>2, <2>1
  <2>4. take[n + 1] \in Seq(S) /\ Lists(take[n + 1], s, positions, n + 1)
    BY <2>1, <2>2, <2>3, ListsLonger
  <2>. QED BY <2>1, <2>4
<1>5. \A n \in 0..Len(s) : n \in Good
  <2>. HIDE DEF Good
  <2>. QED BY <1>1, <1>3, <1>4, UpTo
<1>6. Len(s) \in 0..Len(s)
  BY <1>1
<1>. QED BY <1>5, <1>6 DEF Selection, take

-------------------------------------------------------------------------------

\* What is indexed from 1 to n is a sequence of that length.
LEMMA FromOneTo ==
    ASSUME NEW n \in Nat, NEW f, DOMAIN f = 1..n, f = [i \in 1..n |-> f[i]]
    PROVE  f \in Seq({f[i] : i \in 1..n}) /\ Len(f) = n
<1>. DEFINE S == {f[i] : i \in 1..n}
<1>1. \A i \in 1..n : f[i] \in S
  OBVIOUS
<1>. HIDE DEF S
<1>2. f \in [1..n -> S]
  BY <1>1
<1>3. f \in Seq(S)
  BY <1>2, SeqDef
<1>4. Len(f) \in Nat /\ DOMAIN f = 1..Len(f)
  BY <1>3, LenProperties
<1>5. Len(f) = n
  BY <1>4
<1>. QED BY <1>3, <1>5 DEF S

LEMMA FromDomain ==
    ASSUME NEW S, NEW t \in Seq(S), NEW f, DOMAIN f = DOMAIN t, f = [i \in DOMAIN t |-> f[i]]
    PROVE  Len(f) \in Nat /\ DOMAIN f = 1..Len(f)
<1>1. Len(t) \in Nat /\ DOMAIN t = 1..Len(t)
  BY LenProperties
<1>2. Len(f) = Len(t)
  BY <1>1, FromOneTo
<1>. QED BY <1>1, <1>2

\* Different images of 1 to m make up a set of m elements.
LEMMA ImageCounted ==
    ASSUME NEW m \in Nat, NEW f, \A i, j \in 1..m : f[i] = f[j] => i = j,
           NEW T, \A j \in 1..m : f[j] \in T, \A t \in T : \E j \in 1..m : f[j] = t
    PROVE  IsFiniteSet(T) /\ Cardinality(T) = m
<1>. DEFINE g == [j \in 1..m |-> f[j]]
<1>1. g \in [1..m -> T] /\ \A i, j \in 1..m : g[i] = g[j] => i = j
  OBVIOUS
<1>2. \A t \in T : \E j \in 1..m : g[j] = t
  OBVIOUS
<1>3. IsFiniteSet(1..m) /\ Cardinality(1..m) = m
  BY FS_Interval
<1>. HIDE DEF g
<1>4. g \in Bijection(1..m, T)
  BY <1>1, <1>2, Fun_IsBij
<1>5. ExistsBijection(1..m, T)
  BY <1>4, Fun_ExistsBij
<1>. QED BY <1>3, <1>5, FS_Bijection

\* The chosen positions up to i.
Chosen(positions, i) == {j \in 1..i : j \in positions}

\* The k-th of the chosen elements of s is the k-th of t.
Ranked(t, s, positions) ==
    /\ Len(t) \in Nat /\ DOMAIN t = 1..Len(t)
    /\ IsFiniteSet(Chosen(positions, Len(s))) /\ Len(t) = Cardinality(Chosen(positions, Len(s)))
    /\ \A i \in DOMAIN s : i \in positions =>
          /\ Cardinality(Chosen(positions, i)) \in DOMAIN t
          /\ t[Cardinality(Chosen(positions, i))] = s[i]

LEMMA SelectionRanks ==
    ASSUME NEW S, NEW s \in Seq(S), NEW positions
    PROVE  Selection(s, positions) \in Seq(S) /\ Ranked(Selection(s, positions), s, positions)
<1>. DEFINE t == Selection(s, positions)
            upTo(i) == Chosen(positions, i)
<1>1. t \in Seq(S) /\ Lists(t, s, positions, Len(s))
  BY SelectionLists
<1>2. Len(s) \in Nat /\ DOMAIN s = 1..Len(s)
  BY LenProperties
<1>. HIDE DEF t
<1>3. Len(t) \in Nat /\ DOMAIN t = 1..Len(t)
  BY <1>1, LenProperties
<1>4. PICK where \in [1..Len(t) -> 1..Len(s)] :
        /\ \A k \in 1..Len(t) : where[k] \in positions /\ t[k] = s[where[k]]
        /\ \A j, k \in 1..Len(t) : j < k => where[j] < where[k]
        /\ \A i \in 1..Len(s) : i \in positions => \E k \in 1..Len(t) : where[k] = i
  BY <1>1 DEF Lists
<1>5. \A j, k \in 1..Len(t) : where[j] = where[k] => j = k
  <2>. SUFFICES ASSUME NEW j \in 1..Len(t), NEW k \in 1..Len(t), where[j] = where[k], j # k PROVE FALSE
    OBVIOUS
  <2>1. j < k \/ k < j
    BY <1>3
  <2>2. where[j] \in Nat
    BY <1>2, <1>4
  <2>. QED BY <1>4, <2>1, <2>2
<1>. DEFINE W(m) == {where[j] : j \in 1..m}
<1>6. ASSUME NEW m \in 0..Len(t) PROVE IsFiniteSet(W(m)) /\ Cardinality(W(m)) = m
  <2>1. m \in Nat /\ \A i, j \in 1..m : where[i] = where[j] => i = j
    BY <1>3, <1>5
  <2>2. \A j \in 1..m : where[j] \in W(m)
    OBVIOUS
  <2>3. \A x \in W(m) : \E j \in 1..m : where[j] = x
    OBVIOUS
  <2>. HIDE DEF W
  <2>. QED BY <2>1, <2>2, <2>3, ImageCounted
<1>7. upTo(Len(s)) = W(Len(t))
  BY <1>4 DEF Chosen
<1>8. ASSUME NEW k \in 1..Len(t)
      PROVE  upTo(where[k]) = W(k)
  <2>1. ASSUME NEW j \in 1..k PROVE where[j] \in upTo(where[k])
    <3>1. j \in 1..Len(t) /\ (j < k \/ j = k)
      BY <1>3
    <3>2. where[j] \in 1..Len(s) /\ where[j] \in positions /\ where[k] \in 1..Len(s)
      BY <1>4, <3>1
    <3>3. where[j] <= where[k]
      BY <1>2, <1>4, <3>1, <3>2
    <3>. QED BY <1>2, <3>2, <3>3 DEF Chosen
  <2>2. ASSUME NEW i \in upTo(where[k]) PROVE \E j \in 1..k : where[j] = i
    <3>1. where[k] \in 1..Len(s)
      BY <1>4
    <3>2. i \in 1..Len(s) /\ i \in positions /\ i <= where[k]
      BY <1>2, <3>1 DEF Chosen
    <3>3. PICK j \in 1..Len(t) : where[j] = i
      BY <1>4, <3>2
    <3>4. ~(k < j)
      BY <1>2, <1>4, <3>1, <3>2, <3>3
    <3>. QED BY <1>3, <3>3, <3>4
  <2>. QED BY <2>1, <2>2
<1>. HIDE DEF W
<1>9. IsFiniteSet(upTo(Len(s))) /\ Len(t) = Cardinality(upTo(Len(s)))
  <2>. HIDE DEF upTo
  <2>. QED BY <1>3, <1>7, <1>6
<1>10. ASSUME NEW i \in DOMAIN s, i \in positions
       PROVE  Cardinality(upTo(i)) \in DOMAIN t /\ t[Cardinality(upTo(i))] = s[i]
  <2>1. PICK k \in 1..Len(t) : where[k] = i
    BY <1>2, <1>4, <1>10
  <2>. HIDE DEF upTo
  <2>2. Cardinality(upTo(i)) = k
    BY <1>3, <1>8, <1>6, <2>1
  <2>. QED BY <1>3, <1>4, <2>1, <2>2
<1>. QED BY <1>1, <1>3, <1>9, <1>10 DEF t, Ranked

\* The last of the chosen elements is the last that a filter returns.
LEMMA LastSelected ==
    ASSUME NEW S, NEW s \in Seq(S), NEW positions
    PROVE  LET t == Selection(s, positions)
           IN  /\ t = <<>> => \A i \in DOMAIN s : i \notin positions
               /\ t # <<>> => \E i \in DOMAIN s : /\ i \in positions /\ t[Len(t)] = s[i]
                                                  /\ \A j \in DOMAIN s : j \in positions => j <= i
<1>. DEFINE t == Selection(s, positions)
<1>1. t \in Seq(S) /\ Lists(t, s, positions, Len(s))
  BY SelectionLists
<1>2. Len(s) \in Nat /\ DOMAIN s = 1..Len(s)
  BY LenProperties
<1>. HIDE DEF t
<1>3. Len(t) \in Nat /\ DOMAIN t = 1..Len(t)
  BY <1>1, LenProperties
<1>4. PICK where \in [1..Len(t) -> 1..Len(s)] :
        /\ \A k \in 1..Len(t) : where[k] \in positions /\ t[k] = s[where[k]]
        /\ \A j, k \in 1..Len(t) : j < k => where[j] < where[k]
        /\ \A i \in 1..Len(s) : i \in positions => \E k \in 1..Len(t) : where[k] = i
  BY <1>1 DEF Lists
<1>5. CASE t = <<>>
  <2>1. Len(t) = 0
    BY <1>5
  <2>. QED BY <1>2, <1>4, <1>5, <2>1 DEF t
<1>6. CASE t # <<>>
  <2>1. Len(t) # 0
    BY <1>1, <1>6, EmptySeq
  <2>2. Len(t) \in 1..Len(t)
    BY <1>3, <2>1
  <2>3. /\ where[Len(t)] \in DOMAIN s /\ where[Len(t)] \in positions
        /\ t[Len(t)] = s[where[Len(t)]]
    BY <1>2, <1>4, <2>2
  <2>4. ASSUME NEW j \in DOMAIN s, j \in positions PROVE j <= where[Len(t)]
    <3>1. PICK k \in 1..Len(t) : where[k] = j
      BY <1>2, <1>4, <2>4
    <3>2. k = Len(t) \/ k < Len(t)
      <4>1. Len(t) \in Nat
        BY <1>3
      <4>. QED BY <4>1
    <3>3. where[k] = where[Len(t)] \/ where[k] < where[Len(t)]
      BY <1>4, <2>2, <3>2
    <3>. QED BY <1>2, <2>3, <3>1, <3>3
  <2>. QED BY <1>6, <2>3, <2>4 DEF t
<1>. QED BY <1>5, <1>6
==============================================================================
