---------------------------- MODULE SequenceFacts ----------------------------
(* What TLAPS proves about the subsequences, the flattened sequences and the *)
(* sums that the decisions are built from.  A fact about every length or     *)
(* size is proved by its least counterexample (LeastNat).                    *)
EXTENDS Picking, Integers, Sequences, SequencesExt, FiniteSetsExt, FiniteSetTheorems,
        WellFoundedInduction, TLAPS

-----------------------------------------------------------------------------
\* A set of numbers has a least one.
LEMMA LeastNat ==
    ASSUME NEW I \in SUBSET Nat, I # {}
    PROVE  \E x \in I : \A y \in I : x <= y
  <1>. DEFINE R == {ss \in Nat \X Nat : ss[1] < ss[2]}
  <1>1. IsWellFoundedOn(R, Nat)
    BY NatLessThanWellFounded DEF OpToRel
  <1>2. \E x \in I : \A y \in I : ~ (<<y, x>> \in R)
    <2>. HIDE DEF R
    <2>. QED BY <1>1, WFMin
  <1>3. \A x, y \in Nat : y < x => <<y, x>> \in R
    OBVIOUS
  <1>4. \A x, y \in Nat : y < x \/ x <= y
    OBVIOUS
  <1>. HIDE DEF R
  <1>. QED BY <1>2, <1>3, <1>4

\* The index that a search for the first item finds.
LEMMA LeastIndex ==
    ASSUME NEW S, NEW items \in Seq(S), NEW I \in SUBSET (DOMAIN items), I # {}
    PROVE  Min(I) \in I /\ \A j \in I : Min(I) <= j
  <1>1. I \in SUBSET Nat
    BY DOMAIN items = 1 .. Len(items)
  <1>2. \E x \in I : \A y \in I : x <= y
    BY <1>1, LeastNat
  <1>. QED  BY <1>2 DEF Min

\* Number of the indices up to one.
UpTo(I, i) == {j \in I : j <= i}

\* The indices of a set, counted up to each: 1, 2, and so on, each once.
LEMMA RankIsBijective ==
    ASSUME NEW n \in Nat, NEW I \in SUBSET (1 .. n)
    PROVE  /\ IsFiniteSet(I) /\ Cardinality(I) \in Nat
           /\ \A i \in I : Cardinality(UpTo(I, i)) \in 1 .. Cardinality(I)
           /\ \A i, j \in I : Cardinality(UpTo(I, i)) = Cardinality(UpTo(I, j)) => i = j
           /\ \A i, j \in I : i < j => Cardinality(UpTo(I, i)) < Cardinality(UpTo(I, j))
           /\ \A k \in 1 .. Cardinality(I) : \E i \in I : Cardinality(UpTo(I, i)) = k
  <1>1. IsFiniteSet(I) /\ Cardinality(I) \in Nat
    <2>1. IsFiniteSet(1 .. n)
      BY FS_Interval
    <2>2. IsFiniteSet(I)
      BY <2>1, FS_Subset
    <2>. QED BY <2>2, FS_CardinalityType
  <1>2. ASSUME NEW i \in I
        PROVE  /\ IsFiniteSet(UpTo(I, i)) /\ Cardinality(UpTo(I, i)) \in 1 .. Cardinality(I)
    <2>1. UpTo(I, i) \in SUBSET I /\ i \in UpTo(I, i)
      BY DEF UpTo
    <2>2. IsFiniteSet(UpTo(I, i)) /\ Cardinality(UpTo(I, i)) <= Cardinality(I)
      BY <1>1, <2>1, FS_Subset
    <2>3. Cardinality(UpTo(I, i)) \in Nat /\ Cardinality(UpTo(I, i)) # 0
      BY <2>1, <2>2, FS_CardinalityType, FS_EmptySet
    <2>. QED BY <1>1, <2>2, <2>3
  <1>3. ASSUME NEW i \in I, NEW j \in I, i < j
        PROVE  Cardinality(UpTo(I, i)) < Cardinality(UpTo(I, j))
    <2>1. UpTo(I, i) \in SUBSET UpTo(I, j) /\ j \in UpTo(I, j) /\ j \notin UpTo(I, i)
      <3>1. I \subseteq Int
        OBVIOUS
      <3>2. \A k \in I : k <= i => k <= j
        BY <1>3, <3>1
      <3>3. j <= j /\ ~(j <= i)
        BY <1>3, <3>1
      <3>. QED BY <3>2, <3>3 DEF UpTo
    <2>2. /\ Cardinality(UpTo(I, i)) <= Cardinality(UpTo(I, j))
          /\ Cardinality(UpTo(I, j)) = Cardinality(UpTo(I, i)) => UpTo(I, j) = UpTo(I, i)
      <3>1. IsFiniteSet(UpTo(I, j)) /\ UpTo(I, i) \in SUBSET UpTo(I, j)
        BY <1>2, <2>1
      <3>. QED BY <3>1, FS_Subset
    <2>. QED BY <1>2, <2>1, <2>2
  <1>4. \A i, j \in I : Cardinality(UpTo(I, i)) = Cardinality(UpTo(I, j)) => i = j
    <2>. SUFFICES ASSUME NEW i \in I, NEW j \in I, Cardinality(UpTo(I, i)) = Cardinality(UpTo(I, j)), i # j
                  PROVE  FALSE
      OBVIOUS
    <2>1. i < j \/ j < i
      OBVIOUS
    <2>2. Cardinality(UpTo(I, i)) \in Nat /\ Cardinality(UpTo(I, j)) \in Nat
      BY <1>2
    <2>. QED BY <1>3, <2>1, <2>2
  <1>5. \A k \in 1 .. Cardinality(I) : \E i \in I : Cardinality(UpTo(I, i)) = k
    <2>. DEFINE m == Cardinality(I)
                f == [i \in I |-> Cardinality(UpTo(I, i))]
    <2>1. f \in [I -> 1 .. m]
      BY <1>2
    <2>2. f \in Injection(I, 1 .. m)
      BY <1>4, <2>1 DEF Injection, IsInjective
    <2>3. IsFiniteSet(1 .. m) /\ Cardinality(1 .. m) = m
      BY <1>1, FS_Interval
    <2>. HIDE DEF f
    <2>4. f \in Surjection(I, 1 .. m)
      BY <2>2, <2>3, FS_Injection
    <2>. QED BY <2>4 DEF Surjection, f
  <1>. QED BY <1>1, <1>2, <1>3, <1>4, <1>5

\* A sequence's subsequence.
LEMMA PickFacts ==
    ASSUME NEW S, NEW s \in Seq(S), NEW I \in SUBSET (DOMAIN s)
    PROVE  /\ Pick(s, I) \in Seq(S) /\ Len(Pick(s, I)) = Cardinality(I)
           /\ \A k \in DOMAIN Pick(s, I) : \E i \in I : Pick(s, I)[k] = s[i] /\ Cardinality(UpTo(I, i)) = k
           /\ \A i \in I : /\ Cardinality(UpTo(I, i)) \in DOMAIN Pick(s, I)
                           /\ Pick(s, I)[Cardinality(UpTo(I, i))] = s[i]
  <1>. DEFINE c == Cardinality(I)
              At(k) == CHOOSE i \in I : Cardinality(UpTo(I, i)) = k
  <1>1. Len(s) \in Nat /\ DOMAIN s = 1 .. Len(s) /\ \A i \in I : s[i] \in S
    OBVIOUS
  <1>2. /\ c \in Nat
        /\ \A i \in I : Cardinality(UpTo(I, i)) \in 1 .. c
        /\ \A i, j \in I : Cardinality(UpTo(I, i)) = Cardinality(UpTo(I, j)) => i = j
        /\ \A k \in 1 .. c : \E i \in I : Cardinality(UpTo(I, i)) = k
    BY <1>1, RankIsBijective
  <1>3. Pick(s, I) = [k \in 1 .. c |-> s[At(k)]]
    BY DEF Pick, UpTo
  <1>4. \A k \in 1 .. c : At(k) \in I /\ Cardinality(UpTo(I, At(k))) = k
    BY <1>2
  <1>5. \A i \in I : At(Cardinality(UpTo(I, i))) = i
    BY <1>2, <1>4
  <1>. HIDE DEF c, At
  <1>6. Pick(s, I) \in [1 .. c -> S]
    BY <1>1, <1>3, <1>4
  <1>. QED BY <1>2, <1>3, <1>4, <1>5, <1>6 DEF c

\* Picking adds nothing.
LEMMA PickRange ==
    ASSUME NEW S, NEW s \in Seq(S), NEW I \in SUBSET (DOMAIN s)
    PROVE  Pick(s, I) \in Seq(S) /\ ToSet(Pick(s, I)) \subseteq ToSet(s)
  <1>1. /\ Pick(s, I) \in Seq(S)
        /\ \A k \in DOMAIN Pick(s, I) : \E i \in I : Pick(s, I)[k] = s[i]
    BY PickFacts
  <1>. QED BY <1>1 DEF ToSet

\* Picking every index changes nothing.
LEMMA PickAll ==
    ASSUME NEW S, NEW s \in Seq(S)
    PROVE  Pick(s, DOMAIN s) = s
  <1>. DEFINE n == Len(s)
              p == Pick(s, DOMAIN s)
  <1>1. n \in Nat /\ DOMAIN s = 1 .. n
    OBVIOUS
  <1>2. \A i \in 1 .. n : Cardinality(UpTo(1 .. n, i)) = i
    <2>. SUFFICES ASSUME NEW i \in 1 .. n PROVE Cardinality(UpTo(1 .. n, i)) = i
      OBVIOUS
    <2>1. UpTo(1 .. n, i) = 1 .. i
      BY <1>1 DEF UpTo
    <2>2. Cardinality(1 .. i) = i
      BY <1>1, FS_Interval
    <2>. QED BY <2>1, <2>2
  <1>3. Cardinality(DOMAIN s) = n
    BY <1>1, FS_Interval
  <1>4. /\ p \in Seq(S) /\ Len(p) = n
        /\ \A i \in 1 .. n : p[i] = s[i]
    <2>. HIDE DEF p, n
    <2>1. /\ p \in Seq(S) /\ Len(p) = Cardinality(DOMAIN s)
          /\ \A i \in DOMAIN s : p[Cardinality(UpTo(DOMAIN s, i))] = s[i]
      BY PickFacts DEF p
    <2>. QED BY <1>1, <1>2, <1>3, <2>1
  <1>. HIDE DEF p
  <1>5. p = s
    BY <1>1, <1>4
  <1>. QED BY <1>5 DEF p
-----------------------------------------------------------------------------
\* The sequences FlattenSeq goes through.
Flat(seqs) == CHOOSE f : f = [i \in 1 .. Len(seqs) |-> IF i = 1 THEN seqs[i] ELSE f[i - 1] \o seqs[i]]

\* f[i] is what the first i of the sequences flatten to, up to n.
Flattens(seqs, f, n) ==
    /\ DOMAIN f = 1 .. n
    /\ \A i \in 1 .. n : f[i] = IF i = 1 THEN seqs[i] ELSE f[i - 1] \o seqs[i]

\* There is a list of what the first lists flatten to, of any length.
LEMMA FlatExists ==
    ASSUME NEW seqs, NEW n \in Nat
    PROVE  \E f : f = [i \in 1 .. n |-> f[i]] /\ Flattens(seqs, f, n)
  <1>. DEFINE Good(m) == \E f : f = [i \in 1 .. m |-> f[i]] /\ Flattens(seqs, f, m)
              T == {m \in Nat : ~Good(m)}
  <1>. SUFFICES ASSUME T # {} PROVE FALSE
    OBVIOUS
  <1>1. PICK m \in T : \A k \in T : m <= k
    <2>1. T \in SUBSET Nat
      OBVIOUS
    <2>. HIDE DEF T
    <2>. QED BY <2>1, LeastNat
  <1>2. Good(0)
    <2>. DEFINE f == [i \in 1 .. 0 |-> seqs]
    <2>1. f = [i \in 1 .. 0 |-> f[i]] /\ Flattens(seqs, f, 0)
      BY DEF Flattens
    <2>. QED BY <2>1
  <1>3. m # 0 /\ m \in Nat /\ m - 1 \in Nat /\ m - 1 \notin T
    <2>. HIDE DEF Good
    <2>1. m # 0 /\ m \in Nat
      BY <1>2
    <2>2. m - 1 \in Nat /\ ~(m <= m - 1)
      BY <2>1
    <2>. QED BY <1>1, <2>1, <2>2
  <1>4. PICK g : g = [i \in 1 .. m - 1 |-> g[i]] /\ Flattens(seqs, g, m - 1)
    BY <1>3
  <1>. DEFINE f == [i \in 1 .. m |-> IF i < m THEN g[i] ELSE IF m = 1 THEN seqs[m] ELSE g[m - 1] \o seqs[m]]
  <1>5. Flattens(seqs, f, m)
    <2>1. ASSUME NEW i \in 1 .. m PROVE f[i] = IF i = 1 THEN seqs[i] ELSE f[i - 1] \o seqs[i]
      <3>1. CASE i < m
        <4>1. i \in 1 .. m - 1
          BY <1>3, <3>1
        <4>2. i # 1 => f[i - 1] = g[i - 1]
          BY <1>3, <4>1
        <4>. QED BY <1>4, <3>1, <4>1, <4>2 DEF Flattens
      <3>2. CASE i = m
        <4>1. i # 1 => f[i - 1] = g[i - 1]
          BY <1>3, <3>2
        <4>2. f[i] = IF m = 1 THEN seqs[m] ELSE g[m - 1] \o seqs[m]
          BY <1>3, <3>2
        <4>. HIDE DEF f
        <4>. QED BY <3>2, <4>1, <4>2
      <3>. QED BY <1>3, <3>1, <3>2
    <2>. QED BY <2>1 DEF Flattens
  <1>6. f = [i \in 1 .. m |-> f[i]]
    OBVIOUS
  <1>7. Good(m)
    <2>. HIDE DEF f
    <2>. QED BY <1>5, <1>6
  <1>. QED BY <1>7

\* Flattening is the last of what the first lists flatten to.
LEMMA FlatIs ==
    ASSUME NEW seqs, Len(seqs) \in Nat
    PROVE  /\ Flattens(seqs, Flat(seqs), Len(seqs))
           /\ Len(seqs) # 0 => FlattenSeq(seqs) = Flat(seqs)[Len(seqs)]
  <1>. DEFINE n == Len(seqs)
              Eq(f) == f = [i \in 1 .. n |-> IF i = 1 THEN seqs[i] ELSE f[i - 1] \o seqs[i]]
  <1>1. \E f : Eq(f)
    <2>1. PICK f : f = [i \in 1 .. n |-> f[i]] /\ Flattens(seqs, f, n)
      BY FlatExists
    <2>2. Eq(f)
      BY <2>1 DEF Flattens
    <2>. QED BY <2>2
  <1>2. Eq(Flat(seqs))
    BY <1>1 DEF Flat
  <1>3. Flattens(seqs, Flat(seqs), n)
    <2>. DEFINE g == Flat(seqs)
    <2>. HIDE DEF g
    <2>1. Eq(g)
      BY <1>2 DEF g
    <2>2. DOMAIN g = 1 .. n /\ \A i \in 1 .. n : g[i] = IF i = 1 THEN seqs[i] ELSE g[i - 1] \o seqs[i]
      BY <2>1
    <2>. QED BY <2>2 DEF Flattens, g
  <1>4. n # 0 => FlattenSeq(seqs) = Flat(seqs)[n]
    BY DEF FlattenSeq, Flat
  <1>. QED BY <1>3, <1>4

\* The values of two lists one after the other are those of both.
LEMMA ConcatSet ==
    ASSUME NEW S, NEW s \in Seq(S), NEW t \in Seq(S)
    PROVE  s \o t \in Seq(S) /\ ToSet(s \o t) = ToSet(s) \cup ToSet(t)
  <1>1. s \o t \in Seq(S)
    OBVIOUS
  <1>2. ToSet(s) \subseteq ToSet(s \o t)
    <2>1. \A i \in DOMAIN s : i \in DOMAIN (s \o t) /\ (s \o t)[i] = s[i]
      OBVIOUS
    <2>. QED BY <2>1 DEF ToSet
  <1>3. ToSet(t) \subseteq ToSet(s \o t)
    <2>1. \A i \in DOMAIN t : Len(s) + i \in DOMAIN (s \o t) /\ (s \o t)[Len(s) + i] = t[i]
      OBVIOUS
    <2>. QED BY <2>1 DEF ToSet
  <1>4. ToSet(s \o t) \subseteq ToSet(s) \cup ToSet(t)
    <2>1. ASSUME NEW i \in DOMAIN (s \o t)
          PROVE  \/ i \in DOMAIN s /\ (s \o t)[i] = s[i]
                 \/ i - Len(s) \in DOMAIN t /\ (s \o t)[i] = t[i - Len(s)]
      OBVIOUS
    <2>. QED BY <2>1 DEF ToSet
  <1>. QED BY <1>1, <1>2, <1>3, <1>4

\* The items of the flattened sequence are those of its parts.
LEMMA FlattenFacts ==
    ASSUME NEW S, NEW seqs \in Seq(Seq(S))
    PROVE  /\ FlattenSeq(seqs) \in Seq(S)
           /\ ToSet(FlattenSeq(seqs)) = UNION {ToSet(seqs[i]) : i \in DOMAIN seqs}
  <1>. DEFINE n == Len(seqs)
              f == Flat(seqs)
              Items(k) == UNION {ToSet(seqs[i]) : i \in 1 .. k}
              Good(k) == f[k] \in Seq(S) /\ ToSet(f[k]) = Items(k)
              T == {k \in 1 .. n : ~Good(k)}
  <1>1. n \in Nat /\ DOMAIN seqs = 1 .. n /\ \A i \in 1 .. n : seqs[i] \in Seq(S)
    OBVIOUS
  <1>2. Flattens(seqs, f, n) /\ (n # 0 => FlattenSeq(seqs) = f[n])
    BY <1>1, FlatIs
  <1>. HIDE DEF f
  <1>3. T = {}
    <2>. SUFFICES ASSUME T # {} PROVE FALSE
      OBVIOUS
    <2>1. PICK k \in T : \A j \in T : k <= j
      <3>1. T \in SUBSET Nat
        OBVIOUS
      <3>. HIDE DEF T
      <3>. QED BY <3>1, LeastNat
    <2>2. k \in 1 .. n /\ ~Good(k)
      OBVIOUS
    <2>3. k # 1
      <3>0. 1 \in 1 .. n
        BY <1>1, <2>2
      <3>1. f[1] = seqs[1] /\ seqs[1] \in Seq(S)
        BY <1>1, <1>2, <3>0 DEF Flattens
      <3>2. Items(1) = ToSet(seqs[1])
        BY 1 .. 1 = {1}
      <3>. QED BY <2>2, <3>1, <3>2
    <2>4. k - 1 \in 1 .. n /\ Good(k - 1)
      <3>1. k - 1 \in 1 .. n /\ ~(k <= k - 1)
        BY <1>1, <2>2, <2>3
      <3>. HIDE DEF Good
      <3>. QED BY <2>1, <3>1
    <2>5. f[k] = f[k - 1] \o seqs[k] /\ seqs[k] \in Seq(S)
      BY <1>1, <1>2, <2>2, <2>3 DEF Flattens
    <2>6. Items(k) = Items(k - 1) \cup ToSet(seqs[k])
      <3>1. 1 .. k = (1 .. k - 1) \cup {k}
        BY <1>1, <2>2
      <3>. QED BY <3>1
    <2>7. Good(k)
      <3>. HIDE DEF Items
      <3>. QED BY ConcatSet, <2>4, <2>5, <2>6 DEF Good
    <2>. QED BY <2>2, <2>7
  <1>4. CASE n # 0
    <2>1. Good(n)
      <3>1. n \in 1 .. n
        BY <1>1, <1>4
      <3>. HIDE DEF Good
      <3>. QED BY <1>3, <3>1
    <2>. QED BY <1>1, <1>2, <1>4, <2>1
  <1>5. CASE n = 0
    <2>1. FlattenSeq(seqs) = seqs
      BY <1>5 DEF FlattenSeq
    <2>2. seqs = <<>> /\ DOMAIN seqs = {}
      BY <1>5
    <2>. QED BY <2>1, <2>2 DEF ToSet
  <1>. QED BY <1>4, <1>5

-----------------------------------------------------------------------------
\* One sequence is the front of another.
Starts(s, t) == Len(s) <= Len(t) /\ \A i \in 1 .. Len(s) : t[i] = s[i]

\* In the words of the community modules.
LEMMA FrontIsPrefix ==
    ASSUME NEW S, NEW s \in Seq(S), NEW t \in Seq(S), Starts(s, t)
    PROVE  IsPrefix(s, t)
  <1>1. Len(s) \in Nat /\ Len(t) \in Nat /\ Len(s) <= Len(t)
    BY DEF Starts
  <1>2. SubSeq(s, 1, Len(s)) = SubSeq(t, 1, Len(s))
    <2>1. /\ SubSeq(s, 1, Len(s)) = [i \in 1 .. Len(s) |-> s[i]]
          /\ SubSeq(t, 1, Len(s)) = [i \in 1 .. Len(s) |-> t[i]]
      BY <1>1
    <2>2. \A i \in 1 .. Len(s) : s[i] = t[i]
      BY DEF Starts
    <2>. QED BY <2>1, <2>2
  <1>3. DOMAIN s \subseteq DOMAIN t
    BY <1>1
  <1>. QED BY <1>1, <1>2, <1>3 DEF IsPrefix

\* What the first of some sequences flatten to is the front of what all do.

\* The front holds no more than the whole.
LEMMA StartsSubset ==
    ASSUME NEW S, NEW s \in Seq(S), NEW t \in Seq(S), Starts(s, t)
    PROVE  ToSet(s) \subseteq ToSet(t)
  <1>1. \A i \in DOMAIN s : i \in DOMAIN t /\ t[i] = s[i]
    <2>1. Len(s) \in Nat /\ Len(t) \in Nat /\ DOMAIN s = 1 .. Len(s) /\ DOMAIN t = 1 .. Len(t)
      OBVIOUS
    <2>. QED BY <2>1 DEF Starts
  <1>. QED BY <1>1 DEF ToSet

\* No lists flatten to nothing.
LEMMA FlattenNone == FlattenSeq(<<>>) = <<>>
  BY DEF FlattenSeq

\* The first lists flatten to the front of what all do.
LEMMA FlattenFront ==
    ASSUME NEW S, NEW seqs \in Seq(Seq(S)), NEW r \in 0 .. Len(seqs)
    PROVE  /\ [i \in 1 .. r |-> seqs[i]] \in Seq(Seq(S))
           /\ Starts(FlattenSeq([i \in 1 .. r |-> seqs[i]]), FlattenSeq(seqs))
  <1>. DEFINE n == Len(seqs)
              t == [i \in 1 .. r |-> seqs[i]]
              f == Flat(seqs)
              g == Flat(t)
  <1>1. n \in Nat /\ DOMAIN seqs = 1 .. n /\ r \in 0 .. n /\ \A i \in 1 .. n : seqs[i] \in Seq(S)
    OBVIOUS
  <1>2. /\ t \in Seq(Seq(S)) /\ Len(t) = r /\ \A i \in 1 .. r : t[i] = seqs[i]
    <2>. HIDE DEF n
    <2>. QED BY <1>1
  <1>3. /\ Flattens(seqs, f, n) /\ (n # 0 => FlattenSeq(seqs) = f[n])
        /\ Flattens(t, g, r) /\ (r # 0 => FlattenSeq(t) = g[r])
    <2>1. Len(t) \in Nat
      BY <1>1, <1>2
    <2>. HIDE DEF t
    <2>. QED BY <1>1, <1>2, <2>1, FlatIs
  <1>. HIDE DEF n, t, f, g
  <1>4. \A k \in 1 .. r : g[k] = f[k] /\ g[k] \in Seq(S)
    <2>. DEFINE T == {k \in 1 .. r : ~(g[k] = f[k] /\ g[k] \in Seq(S))}
    <2>. SUFFICES ASSUME T # {} PROVE FALSE
      OBVIOUS
    <2>1. PICK k \in T : \A j \in T : k <= j
      <3>1. T \in SUBSET Nat
        BY <1>1
      <3>. HIDE DEF T
      <3>. QED BY <3>1, LeastNat
    <2>2. k \in 1 .. r /\ k \in 1 .. n /\ k \in Nat
      BY <1>1, <2>1
    <2>3. k # 1 => k - 1 \in 1 .. r /\ g[k - 1] = f[k - 1] /\ g[k - 1] \in Seq(S)
      <3>1. k # 1 => k - 1 \in 1 .. r /\ ~(k <= k - 1)
        BY <1>1, <2>2
      <3>2. k # 1 => k - 1 \notin T
        BY <2>1, <3>1
      <3>. QED BY <3>1, <3>2
    <2>4. /\ g[k] = IF k = 1 THEN t[k] ELSE g[k - 1] \o t[k]
          /\ f[k] = IF k = 1 THEN seqs[k] ELSE f[k - 1] \o seqs[k]
          /\ t[k] = seqs[k] /\ seqs[k] \in Seq(S)
      BY <1>1, <1>2, <1>3, <2>2 DEF Flattens
    <2>5. g[k] = f[k] /\ g[k] \in Seq(S)
      BY <2>3, <2>4
    <2>. QED BY <2>1, <2>5
  <1>5. ASSUME r # 0 PROVE \A k \in r .. n : f[k] \in Seq(S) /\ Starts(f[r], f[k])
    <2>. DEFINE Good(k) == f[k] \in Seq(S) /\ Starts(f[r], f[k])
                T == {k \in r .. n : ~Good(k)}
    <2>. SUFFICES ASSUME T # {} PROVE FALSE
      OBVIOUS
    <2>1. PICK k \in T : \A j \in T : k <= j
      <3>1. T \in SUBSET Nat
        BY <1>1
      <3>. HIDE DEF T
      <3>. QED BY <3>1, LeastNat
    <2>0. r \in 1 .. r /\ f[r] \in Seq(S)
      <3>1. r \in 1 .. r
        BY <1>1, <1>5
      <3>. QED BY <1>4, <3>1
    <2>2. k \in r .. n /\ k \in 1 .. n /\ k \in Nat
      BY <1>1, <1>5, <2>1
    <2>3. CASE k = r
      <3>1. Good(r)
        BY <2>0 DEF Starts
      <3>. QED BY <2>1, <2>3, <3>1
    <2>4. CASE k # r
      <3>1. k - 1 \in r .. n /\ ~(k <= k - 1) /\ k # 1
        BY <1>1, <1>5, <2>2, <2>4
      <3>2. Good(k - 1)
        <4>1. k - 1 \notin T
          BY <2>1, <3>1
        <4>. HIDE DEF Good
        <4>. QED BY <3>1, <4>1
      <3>3. f[k] = f[k - 1] \o seqs[k] /\ seqs[k] \in Seq(S)
        BY <1>1, <1>3, <2>2, <3>1 DEF Flattens
      <3>4. Good(k)
        <4>. DEFINE x == f[k - 1]
                    y == seqs[k]
        <4>1. x \in Seq(S) /\ y \in Seq(S) /\ f[k] = x \o y /\ Starts(f[r], x)
          BY <3>2, <3>3
        <4>. HIDE DEF x, y
        <4>2. x \o y \in Seq(S) /\ Len(x \o y) = Len(x) + Len(y) /\ \A i \in 1 .. Len(x) : (x \o y)[i] = x[i]
          BY <4>1
        <4>3. Len(x) \in Nat /\ Len(y) \in Nat /\ Len(f[r]) \in Nat
          BY <2>0, <4>1
        <4>. QED BY <4>1, <4>2, <4>3 DEF Starts
      <3>. QED BY <2>1, <3>4
    <2>. QED BY <2>3, <2>4
  <1>6. CASE r = 0
    <2>1. FlattenSeq(t) = <<>>
      <3>1. t = <<>>
        BY <1>2, <1>6 DEF t
      <3>. QED BY <3>1, FlattenNone
    <2>2. Len(FlattenSeq(t)) = 0 /\ Len(FlattenSeq(seqs)) \in Nat
      <3>1. FlattenSeq(seqs) \in Seq(S)
        BY FlattenFacts
      <3>. QED BY <2>1, <3>1
    <2>3. Starts(FlattenSeq(t), FlattenSeq(seqs))
      BY <2>2 DEF Starts
    <2>. QED BY <1>2, <2>3 DEF t
  <1>7. CASE r # 0
    <2>1. r \in 1 .. r /\ n # 0 /\ n \in r .. n
      BY <1>1, <1>7
    <2>2. FlattenSeq(t) = f[r] /\ FlattenSeq(seqs) = f[n]
      BY <1>3, <1>4, <1>7, <2>1
    <2>. QED BY <1>2, <1>5, <1>7, <2>1, <2>2 DEF t
  <1>. QED BY <1>6, <1>7

-----------------------------------------------------------------------------
(* Sums over finite sets.                                                   *)

AnItem(s) == CHOOSE x \in s : TRUE

\* g gives the sum of f over every subset of its domain.
Adds(g, f) ==
    /\ g = [s \in SUBSET DOMAIN f |-> g[s]]
    /\ g[{}] = 0
    /\ \A s \in SUBSET DOMAIN f : s # {} => g[s] = f[AnItem(s)] + g[s \ {AnItem(s)}]

\* A set with an item less is smaller, and every set is of some size.
LEMMA OneLess ==
    ASSUME NEW D, IsFiniteSet(D), NEW s \in SUBSET D
    PROVE  /\ IsFiniteSet(s) /\ Cardinality(s) \in Nat
           /\ s = {} <=> Cardinality(s) = 0
           /\ \A x \in s : s \ {x} \in SUBSET D /\ Cardinality(s \ {x}) = Cardinality(s) - 1
           /\ s # {} => AnItem(s) \in s
  <1>1. IsFiniteSet(s)
    BY FS_Subset
  <1>2. Cardinality(s) \in Nat /\ (s = {} <=> Cardinality(s) = 0)
    BY <1>1, FS_CardinalityType, FS_EmptySet
  <1>3. \A x \in s : s \ {x} \in SUBSET D /\ Cardinality(s \ {x}) = Cardinality(s) - 1
    BY <1>1, FS_RemoveElement
  <1>. QED BY <1>1, <1>2, <1>3 DEF AnItem

\* The sums of the subsets of at most some size.
AddsUpTo(g, f, n) ==
    \A s \in SUBSET DOMAIN f : Cardinality(s) <= n =>
        g[s] = IF s = {} THEN 0 ELSE f[AnItem(s)] + g[s \ {AnItem(s)}]

\* There is a function that sums f over each of its sets up to any size.
LEMMA AddsUpToExists ==
    ASSUME NEW f, IsFiniteSet(DOMAIN f), NEW n \in Nat
    PROVE  \E g : g = [s \in SUBSET DOMAIN f |-> g[s]] /\ AddsUpTo(g, f, n)
  <1>. DEFINE Good(m) == \E g : g = [s \in SUBSET DOMAIN f |-> g[s]] /\ AddsUpTo(g, f, m)
              T == {m \in Nat : ~Good(m)}
  <1>. SUFFICES ASSUME T # {} PROVE FALSE
    OBVIOUS
  <1>1. PICK m \in T : \A k \in T : m <= k
    <2>1. T \in SUBSET Nat
      OBVIOUS
    <2>. HIDE DEF T
    <2>. QED BY <2>1, LeastNat
  <1>2. Good(0)
    <2>. DEFINE g == [s \in SUBSET DOMAIN f |-> 0]
    <2>1. ASSUME NEW s \in SUBSET DOMAIN f, Cardinality(s) <= 0
          PROVE  g[s] = IF s = {} THEN 0 ELSE f[AnItem(s)] + g[s \ {AnItem(s)}]
      <3>1. s = {}
        BY <2>1, OneLess
      <3>. QED BY <3>1
    <2>2. g = [s \in SUBSET DOMAIN f |-> g[s]]
      OBVIOUS
    <2>3. AddsUpTo(g, f, 0)
      <3>. HIDE DEF g
      <3>. QED BY <2>1 DEF AddsUpTo
    <2>. HIDE DEF g
    <2>. QED BY <2>2, <2>3
  <1>3. m # 0 /\ m \in Nat /\ m - 1 \in Nat /\ m - 1 \notin T
    <2>. HIDE DEF Good
    <2>1. m # 0 /\ m \in Nat
      BY <1>2
    <2>2. m - 1 \in Nat /\ ~(m <= m - 1)
      BY <2>1
    <2>. QED BY <1>1, <2>1, <2>2
  <1>4. PICK h : h = [s \in SUBSET DOMAIN f |-> h[s]] /\ AddsUpTo(h, f, m - 1)
    BY <1>3
  <1>. DEFINE Next(s) == IF Cardinality(s) = m THEN f[AnItem(s)] + h[s \ {AnItem(s)}] ELSE h[s]
              g == [s \in SUBSET DOMAIN f |-> Next(s)]
  <1>5. g = [s \in SUBSET DOMAIN f |-> g[s]]
    <2>. HIDE DEF Next
    <2>. QED OBVIOUS
  <1>6. ASSUME NEW s \in SUBSET DOMAIN f PROVE g[s] = Next(s)
    <2>. HIDE DEF Next
    <2>. QED OBVIOUS
  <1>7. ASSUME NEW s \in SUBSET DOMAIN f, Cardinality(s) <= m
        PROVE  g[s] = IF s = {} THEN 0 ELSE f[AnItem(s)] + g[s \ {AnItem(s)}]
    <2>1. Cardinality(s) \in Nat /\ (s = {} <=> Cardinality(s) = 0)
      BY OneLess
    <2>2. CASE s = {}
      <3>1. g[s] = h[s]
        BY <1>3, <1>6, <2>1, <2>2
      <3>2. Cardinality(s) <= m - 1
        BY <1>3, <2>1, <2>2
      <3>3. h[s] = 0
        BY <1>4, <2>2, <3>2 DEF AddsUpTo
      <3>. HIDE DEF g
      <3>. QED BY <2>2, <3>1, <3>3
    <2>3. CASE s # {}
      <3>. DEFINE t == s \ {AnItem(s)}
      <3>1. t \in SUBSET DOMAIN f /\ Cardinality(t) = Cardinality(s) - 1 /\ Cardinality(t) \in Nat
        <4>1. AnItem(s) \in s
          BY <2>3, OneLess
        <4>2. t \in SUBSET DOMAIN f /\ Cardinality(t) = Cardinality(s) - 1
          BY <4>1, OneLess
        <4>. HIDE DEF t
        <4>. QED BY <4>2, OneLess
      <3>. HIDE DEF t
      <3>2. g[t] = h[t]
        BY <1>3, <1>6, <1>7, <2>1, <3>1
      <3>3. g[s] = f[AnItem(s)] + h[t]
        <4>1. CASE Cardinality(s) = m
          BY <1>6, <4>1 DEF t
        <4>2. CASE Cardinality(s) # m
          <5>1. Cardinality(s) <= m - 1
            BY <1>3, <1>7, <2>1, <4>2
          <5>2. h[s] = f[AnItem(s)] + h[t]
            BY <1>4, <2>3, <5>1 DEF AddsUpTo, t
          <5>. QED BY <1>6, <4>2, <5>2
        <4>. QED BY <4>1, <4>2
      <3>. HIDE DEF g
      <3>. QED BY <2>3, <3>2, <3>3 DEF t
    <2>. QED BY <2>2, <2>3
  <1>8. AddsUpTo(g, f, m)
    <2>. HIDE DEF g
    <2>. QED BY <1>7 DEF AddsUpTo
  <1>9. Good(m)
    <2>. HIDE DEF g
    <2>. QED BY <1>5, <1>8
  <1>. QED BY <1>9

\* A function on a finite set can be summed.
LEMMA SumExists ==
    ASSUME NEW f, IsFiniteSet(DOMAIN f)
    PROVE  \E g : Adds(g, f)
  <1>. DEFINE n == Cardinality(DOMAIN f)
  <1>1. n \in Nat
    BY FS_CardinalityType
  <1>2. PICK g : g = [s \in SUBSET DOMAIN f |-> g[s]] /\ AddsUpTo(g, f, n)
    BY <1>1, AddsUpToExists
  <1>3. \A s \in SUBSET DOMAIN f : Cardinality(s) <= n
    BY FS_Subset
  <1>4. \A s \in SUBSET DOMAIN f : g[s] = IF s = {} THEN 0 ELSE f[AnItem(s)] + g[s \ {AnItem(s)}]
    BY <1>2, <1>3 DEF AddsUpTo
  <1>5. g[{}] = 0
    BY <1>4
  <1>. QED BY <1>2, <1>4, <1>5 DEF Adds

\* A sum does not depend on the order in which the items are added.
LEMMA SumFacts ==
    ASSUME NEW f, IsFiniteSet(DOMAIN f), NEW g, Adds(g, f), \A x \in DOMAIN f : f[x] \in Nat
    PROVE  \A s \in SUBSET DOMAIN f :
               g[s] \in Nat /\ \A y \in s : g[s] = f[y] + g[s \ {y}] /\ g[s \ {y}] \in Nat
  <1>. DEFINE Good(s) == g[s] \in Nat /\ \A y \in s : g[s] = f[y] + g[s \ {y}] /\ g[s \ {y}] \in Nat
              T == {n \in Nat : \E s \in SUBSET DOMAIN f : Cardinality(s) = n /\ ~Good(s)}
  <1>. SUFFICES ASSUME NEW s \in SUBSET DOMAIN f, ~Good(s) PROVE FALSE
    OBVIOUS
  <1>1. PICK n \in T : \A k \in T : n <= k
    <2>1. T \in SUBSET Nat
      OBVIOUS
    <2>2. Cardinality(s) \in T
      <3>. HIDE DEF Good
      <3>. QED BY OneLess
    <2>. HIDE DEF T
    <2>. QED BY <2>1, <2>2, LeastNat
  <1>2. PICK t \in SUBSET DOMAIN f : Cardinality(t) = n /\ ~Good(t)
    BY <1>1
  <1>3. ASSUME NEW r \in SUBSET DOMAIN f, Cardinality(r) < n PROVE Good(r)
    <2>. HIDE DEF Good
    <2>1. Cardinality(r) \in Nat /\ n \in Nat
      BY <1>1, OneLess
    <2>2. Cardinality(r) \notin T
      <3>. HIDE DEF T
      <3>. QED BY <1>1, <1>3, <2>1
    <2>. QED BY <2>1, <2>2
  <1>4. CASE t = {}
    BY <1>2, <1>4 DEF Adds
  <1>5. CASE t # {}
    <2>. DEFINE c == AnItem(t)
    <2>1. c \in t /\ Cardinality(t) \in Nat /\ \A x \in t : t \ {x} \in SUBSET DOMAIN f /\ Cardinality(t \ {x}) = Cardinality(t) - 1
      BY <1>5, OneLess
    <2>2. g[t] = f[c] + g[t \ {c}]
      BY <1>5 DEF Adds
    <2>. HIDE DEF c
    <2>3. \A x \in t : Good(t \ {x})
      <3>1. ASSUME NEW x \in t PROVE t \ {x} \in SUBSET DOMAIN f /\ Cardinality(t \ {x}) < n
        BY <1>2, <2>1
      <3>. HIDE DEF Good
      <3>. QED BY <1>3, <3>1
    <2>4. f[c] \in Nat /\ g[t \ {c}] \in Nat /\ g[t] \in Nat
      <3>1. f[c] \in Nat
        BY <2>1
      <3>2. g[t \ {c}] \in Nat
        BY <2>1, <2>3
      <3>. QED BY <2>2, <3>1, <3>2
    <2>5. ASSUME NEW y \in t PROVE g[t] = f[y] + g[t \ {y}] /\ g[t \ {y}] \in Nat
      <3>1. CASE y = c
        BY <2>2, <2>4, <3>1
      <3>2. CASE y # c
        <4>. DEFINE u == (t \ {y}) \ {c}
        <4>1. u = (t \ {c}) \ {y} /\ y \in t \ {c} /\ c \in t \ {y}
          BY <2>1, <3>2
        <4>2. Good(t \ {y}) /\ Good(t \ {c})
          BY <2>1, <2>3
        <4>3. g[t \ {y}] = f[c] + g[u] /\ g[t \ {y}] \in Nat
          BY <4>1, <4>2
        <4>4. g[t \ {c}] = f[y] + g[u] /\ g[u] \in Nat
          <5>1. g[t \ {c}] = f[y] + g[(t \ {c}) \ {y}] /\ g[(t \ {c}) \ {y}] \in Nat
            BY <4>1, <4>2
          <5>. HIDE DEF u
          <5>. QED BY <5>1, <4>1
        <4>5. f[y] \in Nat /\ f[c] \in Nat
          BY <2>1
        <4>. HIDE DEF u, Good
        <4>. QED BY <2>2, <4>3, <4>4, <4>5
      <3>. QED BY <3>1, <3>2
    <2>6. Good(t)
      BY <2>4, <2>5
    <2>. QED BY <1>2, <2>6
  <1>. QED BY <1>4, <1>5

\* Sums are as large as their items.
LEMMA SumGrows ==
    ASSUME NEW f, IsFiniteSet(DOMAIN f), NEW g, Adds(g, f), \A x \in DOMAIN f : f[x] \in Nat,
           NEW e, IsFiniteSet(DOMAIN e), NEW h, Adds(h, e), \A x \in DOMAIN e : e[x] \in Nat,
           NEW D, D \in SUBSET DOMAIN f, D \in SUBSET DOMAIN e, \A x \in D : f[x] <= e[x]
    PROVE  g[D] <= h[D]
  <1>. DEFINE T == {n \in Nat : \E s \in SUBSET D : Cardinality(s) = n /\ ~(g[s] <= h[s])}
  <1>a. IsFiniteSet(D)
    BY FS_Subset
  <1>. SUFFICES ASSUME ~(g[D] <= h[D]) PROVE FALSE
    OBVIOUS
  <1>1. PICK n \in T : \A k \in T : n <= k
    <2>1. T \in SUBSET Nat
      OBVIOUS
    <2>2. Cardinality(D) \in T
      BY <1>a, FS_CardinalityType
    <2>. HIDE DEF T
    <2>. QED BY <2>1, <2>2, LeastNat
  <1>2. PICK t \in SUBSET D : Cardinality(t) = n /\ ~(g[t] <= h[t])
    BY <1>1
  <1>3. t # {}
    <2>1. g[{}] = 0 /\ h[{}] = 0
      BY DEF Adds
    <2>. QED BY <1>2, <2>1
  <1>4. PICK x \in t : TRUE
    BY <1>3
  <1>. DEFINE u == t \ {x}
  <1>5. u \in SUBSET D /\ Cardinality(u) = n - 1 /\ n \in Nat /\ Cardinality(u) \in Nat
    <2>1. u \in SUBSET D /\ Cardinality(u) = n - 1 /\ n \in Nat
      BY <1>a, <1>1, <1>2, OneLess
    <2>. HIDE DEF u
    <2>. QED BY <1>a, <2>1, OneLess
  <1>6. g[t] = f[x] + g[u] /\ g[u] \in Nat /\ h[t] = e[x] + h[u] /\ h[u] \in Nat
    <2>1. t \in SUBSET DOMAIN f /\ t \in SUBSET DOMAIN e
      BY <1>2
    <2>2. g[t] = f[x] + g[t \ {x}] /\ g[t \ {x}] \in Nat
      BY <2>1, SumFacts
    <2>3. h[t] = e[x] + h[t \ {x}] /\ h[t \ {x}] \in Nat
      BY <2>1, SumFacts
    <2>. QED BY <2>2, <2>3
  <1>7. g[u] <= h[u]
    <2>. HIDE DEF u
    <2>1. n - 1 \notin T
      <3>. HIDE DEF T
      <3>. QED BY <1>1, <1>5
    <2>. QED BY <1>5, <2>1
  <1>8. f[x] \in Nat /\ e[x] \in Nat /\ f[x] <= e[x]
    BY <1>2
  <1>. HIDE DEF u
  <1>9. g[t] <= h[t]
    BY <1>6, <1>7, <1>8
  <1>. QED BY <1>2, <1>9

\* A larger set has a larger sum.
LEMMA SumOfPart ==
    ASSUME NEW f, IsFiniteSet(DOMAIN f), NEW g, Adds(g, f), \A x \in DOMAIN f : f[x] \in Nat,
           NEW D \in SUBSET DOMAIN f, NEW P \in SUBSET D
    PROVE  g[P] <= g[D]
  <1>. DEFINE T == {n \in Nat : \E s \in SUBSET D : P \subseteq s /\ Cardinality(s) = n /\ ~(g[P] <= g[s])}
  <1>a. IsFiniteSet(D)
    BY FS_Subset
  <1>. SUFFICES ASSUME ~(g[P] <= g[D]) PROVE FALSE
    OBVIOUS
  <1>1. PICK n \in T : \A k \in T : n <= k
    <2>1. T \in SUBSET Nat
      OBVIOUS
    <2>2. Cardinality(D) \in T
      BY <1>a, FS_CardinalityType
    <2>. HIDE DEF T
    <2>. QED BY <2>1, <2>2, LeastNat
  <1>2. PICK t \in SUBSET D : P \subseteq t /\ Cardinality(t) = n /\ ~(g[P] <= g[t])
    BY <1>1
  <1>b. g[P] \in Nat /\ g[t] \in Nat
    <2>1. P \in SUBSET DOMAIN f /\ t \in SUBSET DOMAIN f
      BY <1>2
    <2>. QED BY <2>1, SumFacts
  <1>3. PICK x \in t : x \notin P
    <2>1. t # P
      BY <1>2, <1>b
    <2>. QED BY <1>2, <2>1
  <1>. DEFINE u == t \ {x}
  <1>5. u \in SUBSET D /\ P \subseteq u /\ Cardinality(u) = n - 1 /\ n \in Nat /\ Cardinality(u) \in Nat
    <2>1. u \in SUBSET D /\ P \subseteq u /\ Cardinality(u) = n - 1 /\ n \in Nat
      BY <1>a, <1>1, <1>2, <1>3, OneLess
    <2>. HIDE DEF u
    <2>. QED BY <1>a, <2>1, OneLess
  <1>6. g[t] = f[x] + g[u] /\ g[u] \in Nat
    <2>1. t \in SUBSET DOMAIN f
      BY <1>2
    <2>. QED BY <2>1, SumFacts
  <1>7. g[P] <= g[u]
    <2>. HIDE DEF u
    <2>1. n - 1 \notin T
      <3>. HIDE DEF T
      <3>. QED BY <1>1, <1>5
    <2>. QED BY <1>5, <2>1
  <1>8. f[x] \in Nat
    BY <1>2
  <1>. HIDE DEF u
  <1>9. g[P] <= g[t]
    BY <1>b, <1>6, <1>7, <1>8
  <1>. QED BY <1>2, <1>9

\* SumFunction is the sum that Adds describes.
LEMMA SumIs ==
    ASSUME NEW f, IsFiniteSet(DOMAIN f)
    PROVE  \E g : Adds(g, f) /\ SumFunction(f) = g[DOMAIN f]
  <1>. DEFINE Eq(g) == g = [s \in SUBSET DOMAIN f |->
                              IF s = {} THEN 0 ELSE f[CHOOSE x \in s : TRUE] + g[s \ {CHOOSE x \in s : TRUE}]]
              total == CHOOSE g : Eq(g)
  <1>1. ASSUME NEW g PROVE Eq(g) <=> Adds(g, f)
    <2>1. ASSUME Eq(g) PROVE Adds(g, f)
      <3>1. g = [s \in SUBSET DOMAIN f |-> g[s]]
        BY <2>1
      <3>2. \A s \in SUBSET DOMAIN f : g[s] = IF s = {} THEN 0 ELSE f[AnItem(s)] + g[s \ {AnItem(s)}]
        BY <2>1 DEF AnItem
      <3>. HIDE DEF Eq
      <3>. QED BY <3>1, <3>2 DEF Adds
    <2>2. ASSUME Adds(g, f) PROVE Eq(g)
      <3>1. g = [s \in SUBSET DOMAIN f |-> g[s]]
        BY <2>2 DEF Adds
      <3>2. \A s \in SUBSET DOMAIN f : g[s] = IF s = {} THEN 0 ELSE f[AnItem(s)] + g[s \ {AnItem(s)}]
        BY <2>2 DEF Adds
      <3>3. g = [s \in SUBSET DOMAIN f |-> IF s = {} THEN 0 ELSE f[AnItem(s)] + g[s \ {AnItem(s)}]]
        BY <3>1, <3>2
      <3>. QED BY <3>3 DEF AnItem
    <2>. QED BY <2>1, <2>2
  <1>2. Eq(total)
    <2>1. \E g : Eq(g)
      <3>. HIDE DEF Eq
      <3>. QED BY <1>1, SumExists
    <2>. HIDE DEF Eq
    <2>. QED BY <2>1
  <1>3. SumFunction(f) = total[DOMAIN f]
    BY DEF SumFunction, SumFunctionOnSet, FoldFunctionOnSet, MapThenFoldSet
  <1>. HIDE DEF Eq, total
  <1>. QED BY <1>1, <1>2, <1>3

\* A sum of numbers is a number.
LEMMA SumIsNat ==
    ASSUME NEW f, IsFiniteSet(DOMAIN f), \A x \in DOMAIN f : f[x] \in Nat
    PROVE  SumFunction(f) \in Nat
  <1>1. PICK g : Adds(g, f) /\ SumFunction(f) = g[DOMAIN f]
    BY SumIs
  <1>2. DOMAIN f \in SUBSET DOMAIN f
    OBVIOUS
  <1>. QED BY <1>1, <1>2, SumFacts

\* Nothing sums to nothing.
LEMMA SumOfNone == ASSUME NEW f, DOMAIN f = {} PROVE SumFunction(f) = 0
  <1>1. IsFiniteSet(DOMAIN f)
    BY FS_EmptySet
  <1>2. PICK g : Adds(g, f) /\ SumFunction(f) = g[DOMAIN f]
    BY <1>1, SumIs
  <1>. QED BY <1>2 DEF Adds

\* Every item is a part of a sum.
LEMMA SumOfOneMore ==
    ASSUME NEW f, IsFiniteSet(DOMAIN f), \A x \in DOMAIN f : f[x] \in Nat,
           NEW e, IsFiniteSet(DOMAIN e), \A x \in DOMAIN e : e[x] \in Nat,
           NEW q \in DOMAIN e, DOMAIN f = DOMAIN e \ {q}, \A x \in DOMAIN f : f[x] = e[x]
    PROVE  SumFunction(e) = e[q] + SumFunction(f) /\ SumFunction(f) \in Nat
  <1>. DEFINE D == DOMAIN f
  <1>1. PICK g : Adds(g, f) /\ SumFunction(f) = g[D]
    BY SumIs
  <1>2. PICK h : Adds(h, e) /\ SumFunction(e) = h[DOMAIN e]
    BY SumIs
  <1>3. D \in SUBSET DOMAIN f /\ D \in SUBSET DOMAIN e
    OBVIOUS
  <1>4. g[D] \in Nat /\ h[D] \in Nat
    BY <1>1, <1>2, <1>3, SumFacts
  <1>5. \A x \in D : f[x] <= e[x] /\ e[x] <= f[x]
    OBVIOUS
  <1>6. g[D] <= h[D] /\ h[D] <= g[D]
    <2>. HIDE DEF D
    <2>1. g[D] <= h[D]
      BY <1>1, <1>2, <1>3, <1>5, SumGrows
    <2>2. h[D] <= g[D]
      BY <1>1, <1>2, <1>3, <1>5, SumGrows
    <2>. QED BY <2>1, <2>2
  <1>7. h[DOMAIN e] = e[q] + h[DOMAIN e \ {q}]
    BY <1>2, SumFacts
  <1>8. g[D] = h[D]
    <2>. HIDE DEF D
    <2>. QED BY <1>4, <1>6
  <1>. QED BY <1>1, <1>2, <1>4, <1>7, <1>8

\* More and larger items have a larger sum.
LEMMA SumOfMore ==
    ASSUME NEW f, IsFiniteSet(DOMAIN f), \A x \in DOMAIN f : f[x] \in Nat,
           NEW e, IsFiniteSet(DOMAIN e), \A x \in DOMAIN e : e[x] \in Nat,
           DOMAIN f \subseteq DOMAIN e, \A x \in DOMAIN f : f[x] <= e[x]
    PROVE  SumFunction(f) <= SumFunction(e) /\ SumFunction(f) \in Nat /\ SumFunction(e) \in Nat
  <1>. DEFINE D == DOMAIN f
  <1>1. PICK g : Adds(g, f) /\ SumFunction(f) = g[D]
    BY SumIs
  <1>2. PICK h : Adds(h, e) /\ SumFunction(e) = h[DOMAIN e]
    BY SumIs
  <1>3. D \in SUBSET DOMAIN f /\ D \in SUBSET DOMAIN e /\ DOMAIN e \in SUBSET DOMAIN e
    OBVIOUS
  <1>4. g[D] \in Nat /\ h[D] \in Nat /\ h[DOMAIN e] \in Nat
    BY <1>1, <1>2, <1>3, SumFacts
  <1>5. \A x \in D : f[x] <= e[x]
    OBVIOUS
  <1>. HIDE DEF D
  <1>6. g[D] <= h[D]
    BY <1>1, <1>2, <1>3, <1>5, SumGrows
  <1>7. h[D] <= h[DOMAIN e]
    BY <1>2, <1>3, SumOfPart
  <1>. QED BY <1>1, <1>2, <1>4, <1>6, <1>7

-----------------------------------------------------------------------------
\* p gives, for every index of s, a place of its own in the first k sequences.
Places(p, s, seqs, k) ==
    /\ p \in [DOMAIN s -> (1 .. k) \X Nat]
    /\ \A j \in DOMAIN s : p[j][2] \in DOMAIN seqs[p[j][1]] /\ s[j] = seqs[p[j][1]][p[j][2]]
    /\ \A i, j \in DOMAIN s : p[i] = p[j] => i = j

\* The places of the lists so far extend to one list more.
LEMMA PlacesGrow ==
    ASSUME NEW S, NEW seqs \in Seq(Seq(S)), NEW k \in DOMAIN seqs,
           NEW s \in Seq(S), NEW p, Places(p, s, seqs, k - 1)
    PROVE  \E q : Places(q, s \o seqs[k], seqs, k)
  <1>. DEFINE L == Len(s)
              t == s \o seqs[k]
              q == [j \in DOMAIN t |-> IF j <= L THEN p[j] ELSE <<k, j - L>>]
  <1>1. /\ L \in Nat /\ DOMAIN s = 1 .. L /\ k \in Nat /\ k >= 1 /\ seqs[k] \in Seq(S) /\ Len(seqs[k]) \in Nat
        /\ DOMAIN seqs[k] = 1 .. Len(seqs[k])
    OBVIOUS
  <1>2. DOMAIN t = 1 .. L + Len(seqs[k]) /\ \A j \in DOMAIN t : t[j] = IF j <= L THEN s[j] ELSE seqs[k][j - L]
    BY <1>1
  <1>. HIDE DEF t, L
  <1>3. \A j \in DOMAIN t : j <= L => j \in DOMAIN s
    BY <1>1, <1>2
  <1>4. \A j \in DOMAIN t : ~(j <= L) => j - L \in DOMAIN seqs[k] /\ j - L \in Nat
    BY <1>1, <1>2
  <1>5. \A j \in DOMAIN s : p[j] \in (1 .. k - 1) \X Nat
    BY DEF Places
  <1>6. (1 .. k - 1) \X Nat \subseteq (1 .. k) \X Nat /\ k \in 1 .. k /\ k \notin 1 .. k - 1
    BY <1>1
  <1>7. q \in [DOMAIN t -> (1 .. k) \X Nat]
    <2>1. \A j \in DOMAIN t : q[j] \in (1 .. k) \X Nat
      <3>1. ASSUME NEW j \in DOMAIN t, j <= L PROVE q[j] \in (1 .. k) \X Nat
        <4>1. p[j] \in (1 .. k - 1) \X Nat
          BY <1>3, <1>5, <3>1
        <4>. QED BY <1>6, <3>1, <4>1
      <3>2. ASSUME NEW j \in DOMAIN t, ~(j <= L) PROVE q[j] \in (1 .. k) \X Nat
        BY <1>4, <1>6, <3>2
      <3>. QED BY <3>1, <3>2
    <2>. QED BY <2>1
  <1>8. \A j \in DOMAIN t : q[j][2] \in DOMAIN seqs[q[j][1]] /\ t[j] = seqs[q[j][1]][q[j][2]]
    <2>1. ASSUME NEW j \in DOMAIN t, j <= L PROVE q[j][2] \in DOMAIN seqs[q[j][1]] /\ t[j] = seqs[q[j][1]][q[j][2]]
      <3>1. q[j] = p[j] /\ t[j] = s[j] /\ j \in DOMAIN s
        BY <1>2, <1>3, <2>1
      <3>. HIDE DEF q
      <3>. QED BY <3>1 DEF Places
    <2>2. ASSUME NEW j \in DOMAIN t, ~(j <= L) PROVE q[j][2] \in DOMAIN seqs[q[j][1]] /\ t[j] = seqs[q[j][1]][q[j][2]]
      <3>1. q[j] = <<k, j - L>> /\ t[j] = seqs[k][j - L]
        BY <1>2, <2>2
      <3>2. q[j][1] = k /\ q[j][2] = j - L
        BY <3>1
      <3>. HIDE DEF q
      <3>. QED BY <1>4, <2>2, <3>1, <3>2
    <2>. QED BY <2>1, <2>2
  <1>9. ASSUME NEW i \in DOMAIN t, NEW j \in DOMAIN t, q[i] = q[j] PROVE i = j
    <2>1. q[i] = (IF i <= L THEN p[i] ELSE <<k, i - L>>) /\ q[j] = (IF j <= L THEN p[j] ELSE <<k, j - L>>)
      OBVIOUS
    <2>. HIDE DEF q
    <2>2. CASE i <= L /\ j <= L
      BY <1>3, <1>9, <2>1, <2>2 DEF Places
    <2>3. CASE ~(i <= L) /\ ~(j <= L)
      <3>1. <<k, i - L>> = <<k, j - L>>
        BY <1>9, <2>1, <2>3
      <3>2. i - L = j - L
        BY <3>1
      <3>. QED BY <1>1, <1>2, <3>2
    <2>4. ASSUME NEW a \in DOMAIN t, NEW b \in DOMAIN t, a <= L, ~(b <= L) PROVE p[a] # <<k, b - L>>
      <3>1. p[a][1] \in 1 .. k - 1
        BY <1>3, <1>5, <2>4
      <3>. QED BY <1>6, <3>1
    <2>. QED BY <1>9, <2>1, <2>2, <2>3, <2>4
  <1>10. Places(q, t, seqs, k)
    <2>. HIDE DEF q
    <2>. QED BY <1>7, <1>8, <1>9 DEF Places
  <1>. QED BY <1>10 DEF t

\* The flattened sequence has each index from a place of its own.
LEMMA FlattenPlaces ==
    ASSUME NEW S, NEW seqs \in Seq(Seq(S))
    PROVE  \E p : Places(p, FlattenSeq(seqs), seqs, Len(seqs))
  <1>. DEFINE n == Len(seqs)
              f == Flat(seqs)
              Good(k) == f[k] \in Seq(S) /\ \E p : Places(p, f[k], seqs, k)
              T == {k \in 1 .. n : ~Good(k)}
  <1>1. n \in Nat /\ DOMAIN seqs = 1 .. n /\ \A i \in 1 .. n : seqs[i] \in Seq(S)
    OBVIOUS
  <1>2. Flattens(seqs, f, n) /\ (n # 0 => FlattenSeq(seqs) = f[n])
    BY <1>1, FlatIs
  <1>3. CASE n = 0
    <2>1. FlattenSeq(seqs) = <<>>
      <3>1. seqs = <<>>
        BY <1>3
      <3>. QED BY <3>1, FlattenNone
    <2>2. Places(<<>>, <<>>, seqs, n)
      BY <1>3 DEF Places
    <2>. QED BY <2>1, <2>2
  <1>4. CASE n # 0
    <2>. HIDE DEF f
    <2>0. Good(1)
      <3>1. f[1] = seqs[1] /\ 1 \in 1 .. n
        BY <1>1, <1>2, <1>4 DEF Flattens
      <3>2. seqs[1] \in Seq(S) /\ DOMAIN seqs[1] \subseteq Nat
        BY <1>1, <3>1
      <3>. DEFINE p == [j \in DOMAIN seqs[1] |-> <<1, j>>]
      <3>3. Places(p, seqs[1], seqs, 1)
        <4>1. p \in [DOMAIN seqs[1] -> (1 .. 1) \X Nat]
          BY <3>2
        <4>2. \A j \in DOMAIN seqs[1] : p[j][1] = 1 /\ p[j][2] = j
          OBVIOUS
        <4>. HIDE DEF p
        <4>. QED BY <4>1, <4>2 DEF Places
      <3>. HIDE DEF p
      <3>. QED BY <3>1, <3>2, <3>3
    <2>1. T = {}
      <3>. SUFFICES ASSUME T # {} PROVE FALSE
        OBVIOUS
      <3>1. PICK k \in T : \A j \in T : k <= j
        <4>1. T \in SUBSET Nat
          BY <1>1
        <4>. HIDE DEF T
        <4>. QED BY <4>1, LeastNat
      <3>2. k \in 1 .. n /\ k # 1 /\ k - 1 \in 1 .. n /\ k - 1 \notin T
        <4>. HIDE DEF Good
        <4>. QED BY <1>1, <2>0, <3>1
      <3>3. f[k - 1] \in Seq(S) /\ \E p : Places(p, f[k - 1], seqs, k - 1)
        BY <3>2
      <3>4. f[k] = f[k - 1] \o seqs[k]
        BY <1>2, <3>2 DEF Flattens
      <3>5. Good(k)
        <4>1. f[k - 1] \o seqs[k] \in Seq(S)
          BY <1>1, <3>2, <3>3
        <4>2. \E q : Places(q, f[k - 1] \o seqs[k], seqs, k)
          BY <1>1, <3>2, <3>3, PlacesGrow
        <4>. QED BY <3>4, <4>1, <4>2
      <3>. QED BY <3>1, <3>5
    <2>2. n \in 1 .. n
      BY <1>1, <1>4
    <2>3. Good(n)
      <3>. HIDE DEF Good
      <3>. QED BY <2>1, <2>2
    <2>. QED BY <1>2, <1>4, <2>3
  <1>. QED BY <1>3, <1>4

-----------------------------------------------------------------------------
(* Numbers up to a bound, sequences and their values, sums of nothing.      *)

\* A sequence is its front and its last item.
LEMMA FrontLast ==
    ASSUME NEW S, NEW s \in Seq(S), s # <<>>
    PROVE  /\ Front(s) \in Seq(S) /\ Last(s) \in S /\ Len(Front(s)) = Len(s) - 1
           /\ \A i \in DOMAIN Front(s) : Front(s)[i] = s[i]
           /\ ToSet(s) = ToSet(Front(s)) \cup {Last(s)}
  <1>. DEFINE n == Len(s)
              t == SubSeq(s, 1, n - 1)
  <1>1. n \in Nat /\ n # 0 /\ DOMAIN s = 1 .. n /\ n \in DOMAIN s
    OBVIOUS
  <1>2. t \in Seq(S) /\ Len(t) = n - 1 /\ \A i \in 1 .. n - 1 : t[i] = s[i]
    BY <1>1
  <1>3. DOMAIN t = 1 .. n - 1
    BY <1>2
  <1>4. \A i \in DOMAIN s : i = n \/ i \in 1 .. n - 1
    BY <1>1
  <1>. HIDE DEF t
  <1>5. ToSet(s) = ToSet(t) \cup {s[n]}
    BY <1>1, <1>2, <1>3, <1>4 DEF ToSet
  <1>. QED BY <1>1, <1>2, <1>3, <1>5 DEF Front, Last, t

\* One item more, and its value.
LEMMA AppendSet ==
    ASSUME NEW S, NEW s \in Seq(S), NEW x \in S
    PROVE  Append(s, x) \in Seq(S) /\ ToSet(Append(s, x)) = ToSet(s) \cup {x}
  <1>. DEFINE t == Append(s, x)
  <1>1. /\ t \in Seq(S) /\ DOMAIN t = 1 .. Len(s) + 1 /\ Len(s) \in Nat /\ DOMAIN s = 1 .. Len(s)
        /\ \A i \in 1 .. Len(s) : t[i] = s[i]
        /\ t[Len(s) + 1] = x
    OBVIOUS
  <1>. DEFINE n == Len(s)
  <1>. HIDE DEF t, n
  <1>2. \A i \in DOMAIN t : i \in 1 .. n \/ i = n + 1
    BY <1>1 DEF n
  <1>3. 1 .. n \subseteq DOMAIN t /\ n + 1 \in DOMAIN t
    BY <1>1 DEF n
  <1>4. ToSet(t) = ToSet(s) \cup {x}
    BY <1>1, <1>2, <1>3 DEF ToSet, n
  <1>. QED BY <1>1, <1>4 DEF t

\* A set of numbers up to n has a greatest one.
LEMMA GreatestUpTo ==
    ASSUME NEW n \in Nat, NEW I \in SUBSET (0 .. n), I # {}
    PROVE  Max(I) \in I /\ \A y \in I : y <= Max(I)
  <1>. DEFINE D == {k \in 0 .. n : n - k \in I}
  <1>1. D \in SUBSET Nat /\ D # {}
    <2>1. PICK x \in I : TRUE
      OBVIOUS
    <2>2. x \in 0 .. n
      OBVIOUS
    <2>3. n - x \in 0 .. n /\ n - (n - x) = x
      BY <2>2
    <2>4. n - x \in D
      BY <2>3
    <2>5. \A k \in D : k \in Nat
      OBVIOUS
    <2>. HIDE DEF D
    <2>. QED BY <2>4, <2>5
  <1>2. PICK d \in D : \A k \in D : d <= k
    <2>. HIDE DEF D
    <2>. QED BY <1>1, LeastNat
  <1>3. n - d \in I /\ d \in Nat
    BY <1>2
  <1>4. \A y \in I : n - d >= y
    <2>. SUFFICES ASSUME NEW y \in I PROVE n - d >= y
      OBVIOUS
    <2>1. y \in 0 .. n /\ n - y \in 0 .. n /\ n - (n - y) = y
      OBVIOUS
    <2>2. n - y \in D
      BY <2>1
    <2>3. d <= n - y
      BY <1>2, <2>2
    <2>. QED BY <1>3, <2>1, <2>3
  <1>5. \E x \in I : \A y \in I : x >= y
    BY <1>3, <1>4
  <1>6. Max(I) \in I /\ \A y \in I : Max(I) >= y
    BY <1>5 DEF Max
  <1>7. \A x, y \in I : x >= y => y <= x
    OBVIOUS
  <1>. QED BY <1>6, <1>7

\* A set of indices has its minimum for least.
LEMMA LeastOf ==
    ASSUME NEW n \in Nat, NEW I \in SUBSET (0 .. n), I # {}
    PROVE  Min(I) \in I /\ \A y \in I : Min(I) <= y
  <1>1. I \in SUBSET Nat
    OBVIOUS
  <1>2. \E x \in I : \A y \in I : x <= y
    BY <1>1, LeastNat
  <1>. QED BY <1>2 DEF Min

\* A sum of nothing but zeros.
LEMMA SumOfZeros ==
    ASSUME NEW f, IsFiniteSet(DOMAIN f), \A x \in DOMAIN f : f[x] = 0
    PROVE  SumFunction(f) = 0
  <1>1. PICK g : Adds(g, f) /\ SumFunction(f) = g[DOMAIN f]
    BY SumIs
  <1>. DEFINE D == DOMAIN f
              T == {n \in Nat : \E s \in SUBSET D : Cardinality(s) = n /\ g[s] # 0}
  <1>. SUFFICES ASSUME g[D] # 0 PROVE FALSE
    BY <1>1
  <1>2. PICK n \in T : \A k \in T : n <= k
    <2>1. T \in SUBSET Nat
      OBVIOUS
    <2>2. Cardinality(D) \in T
      BY FS_CardinalityType
    <2>. HIDE DEF T
    <2>. QED BY <2>1, <2>2, LeastNat
  <1>3. PICK s \in SUBSET D : Cardinality(s) = n /\ g[s] # 0
    BY <1>2
  <1>4. PICK x \in s : TRUE
    BY <1>1, <1>3 DEF Adds
  <1>. DEFINE u == s \ {x}
  <1>5. u \in SUBSET D /\ Cardinality(u) = n - 1 /\ n \in Nat /\ Cardinality(u) \in Nat
    <2>1. u \in SUBSET D /\ Cardinality(u) = n - 1 /\ n \in Nat
      BY <1>2, <1>3, OneLess
    <2>. HIDE DEF u
    <2>. QED BY <2>1, OneLess
  <1>6. g[s] = f[x] + g[u] /\ g[u] \in Nat
    <2>1. \A y \in DOMAIN f : f[y] \in Nat
      OBVIOUS
    <2>. QED BY <1>1, <1>3, <1>4, <2>1, SumFacts
  <1>7. g[u] = 0
    <2>. HIDE DEF u
    <2>1. n - 1 \notin T
      <3>. HIDE DEF T
      <3>. QED BY <1>2, <1>5
    <2>. QED BY <1>5, <2>1
  <1>8. f[x] = 0
    BY <1>3, <1>4
  <1>. HIDE DEF u
  <1>. QED BY <1>3, <1>6, <1>7, <1>8
=============================================================================
