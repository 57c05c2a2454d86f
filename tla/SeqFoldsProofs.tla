-------------------------- MODULE SeqFoldsProofs --------------------------
(***************************************************************************)
(* What Total and Only do, for every sequence, and Repeat for every loop.  *)
(* The recursive functions they are defined by exist and are unique; this  *)
(* is shown by induction, which is stated for sets (NatInduct, SeqInduct): *)
(* a set of naturals that is not Nat has a least number it misses.         *)
(***************************************************************************)
EXTENDS SeqFolds, WellFoundedInduction, SequenceTheorems, TLAPS

\* A set of numbers with 0 and the successor of each of its numbers is Nat.
LEMMA NatInduct ==
  ASSUME NEW T \in SUBSET Nat, 0 \in T, \A n \in T : n + 1 \in T
  PROVE  T = Nat
<1> DEFINE R == {ss \in Nat \X Nat : ss[1] < ss[2]}
           U == Nat \ T
<1>1. IsWellFoundedOn(R, Nat)
  <2>1. OpToRel(<, Nat) = R
    BY DEF OpToRel
  <2> QED
    BY <2>1, NatLessThanWellFounded
<1> SUFFICES ASSUME U # {} PROVE FALSE
  OBVIOUS
<1>2. PICK x \in U : \A y \in U : ~(<<y, x>> \in R)
  <2> HIDE DEF R
  <2> QED
    BY <1>1, WFMin
<1>3. x - 1 \in U
  OBVIOUS
<1>4. <<x - 1, x>> \in R
  BY <1>3
<1> QED
  BY <1>2, <1>3, <1>4

\* A set of sequences over X with the empty one and every extension of one of its
\* own by an element is Seq(X).
LEMMA SeqInduct ==
  ASSUME NEW X, NEW T \in SUBSET Seq(X), <<>> \in T,
         \A s \in T, e \in X : Append(s, e) \in T
  PROVE  T = Seq(X)
<1> DEFINE N == {n \in Nat : \A s \in Seq(X) : Len(s) = n => s \in T}
<1>1. 0 \in N
  OBVIOUS
<1>2. ASSUME NEW n \in N PROVE n + 1 \in N
  <2> SUFFICES ASSUME NEW s \in Seq(X), Len(s) = n + 1 PROVE s \in T
    OBVIOUS
  <2>1. n \in Nat /\ s # <<>>
    OBVIOUS
  <2>2. PICK t \in Seq(X), e \in X : s = Append(t, e)
    BY <2>1, SequenceEmptyOrAppend
  <2>3. Len(t) = n
    BY <2>1, <2>2
  <2> QED
    BY <2>2, <2>3
<1> HIDE DEF N
<1>3. N = Nat
  <2>1. N \in SUBSET Nat
    BY DEF N
  <2> QED
    BY <1>1, <1>2, <2>1, NatInduct
<1> QED
  <2>1. \A s \in Seq(X) : Len(s) \in N
    BY <1>3
  <2> QED
    BY <2>1 DEF N
-----------------------------------------------------------------------------
\* f is the function of Total's recursion up to n.
Sums(f, s, n) == f = [i \in 0..n |-> IF i = 0 THEN 0 ELSE f[i - 1] + s[i]]

\* s and t begin with the same k elements.
Agree(s, t, k) == \A i \in 1..k : s[i] = t[i]

LEMMA SumsExist ==
  ASSUME NEW s \in Seq(Int), NEW n \in Nat, n <= Len(s)
  PROVE  \E f \in [0..n -> Int] : Sums(f, s, n)
<1> DEFINE T == {m \in Nat : m <= Len(s) => \E f \in [0..m -> Int] : Sums(f, s, m)}
<1>1. 0 \in T
  <2> DEFINE f == [i \in 0..0 |-> 0]
  <2>1. f \in [0..0 -> Int] /\ Sums(f, s, 0)
    BY DEF Sums
  <2> QED
    BY <2>1
<1>2. ASSUME NEW m \in T PROVE m + 1 \in T
  <2> SUFFICES ASSUME m + 1 <= Len(s)
               PROVE  \E f \in [0..(m + 1) -> Int] : Sums(f, s, m + 1)
    OBVIOUS
  <2>1. m \in Nat /\ Len(s) \in Nat /\ m <= Len(s) /\ s[m + 1] \in Int
    OBVIOUS
  <2>2. PICK f \in [0..m -> Int] : Sums(f, s, m)
    BY <2>1
  <2>3. \A i \in 0..m : f[i] = IF i = 0 THEN 0 ELSE f[i - 1] + s[i]
    BY <2>2 DEF Sums
  <2> DEFINE g == [i \in 0..(m + 1) |-> IF i = m + 1 THEN f[m] + s[m + 1] ELSE f[i]]
  <2>4. g \in [0..(m + 1) -> Int]
    BY <2>1
  <2>5. \A i \in 0..(m + 1) : g[i] = IF i = 0 THEN 0 ELSE g[i - 1] + s[i]
    <3> SUFFICES ASSUME NEW i \in 0..(m + 1), i # 0 PROVE g[i] = g[i - 1] + s[i]
      BY <2>1, <2>3
    <3>1. i - 1 \in 0..m /\ g[i - 1] = f[i - 1]
      BY <2>1
    <3>2. CASE i = m + 1
      BY <2>1, <3>1, <3>2
    <3>3. CASE i \in 0..m
      <4>1. g[i] = f[i] /\ f[i] = f[i - 1] + s[i]
        BY <2>1, <2>3, <3>3
      <4> QED
        BY <3>1, <4>1
    <3> QED
      BY <2>1, <3>2, <3>3
  <2>6. Sums(g, s, m + 1)
    BY <2>4, <2>5 DEF Sums
  <2> QED
    BY <2>4, <2>6
<1> HIDE DEF T
<1>3. T = Nat
  <2>1. T \in SUBSET Nat
    BY DEF T
  <2> QED
    BY <1>1, <1>2, <2>1, NatInduct
<1> QED
  BY <1>3 DEF T

\* The recursions over two sequences give the same as far as the sequences do.
LEMMA SumsAgree ==
  ASSUME NEW s, NEW t, NEW n \in Nat, NEW m \in Nat, NEW f, NEW g,
         Sums(f, s, n), Sums(g, t, m), NEW k \in 0..n, k \in 0..m,
         Agree(s, t, k)
  PROVE  f[k] = g[k]
<1> DEFINE T == {i \in Nat : i <= k => f[i] = g[i]}
<1>0. /\ \A i \in 0..n : f[i] = IF i = 0 THEN 0 ELSE f[i - 1] + s[i]
      /\ \A i \in 0..m : g[i] = IF i = 0 THEN 0 ELSE g[i - 1] + t[i]
  BY DEF Sums
<1>1. 0 \in T
  BY <1>0
<1>2. ASSUME NEW i \in T PROVE i + 1 \in T
  <2> SUFFICES ASSUME i + 1 <= k PROVE f[i + 1] = g[i + 1]
    OBVIOUS
  <2>1. i \in Nat /\ f[i] = g[i] /\ i + 1 \in 0..n /\ i + 1 \in 0..m /\ s[i + 1] = t[i + 1]
    BY DEF Agree
  <2>2. f[i + 1] = f[i] + s[i + 1] /\ g[i + 1] = g[i] + t[i + 1]
    BY <1>0, <2>1
  <2> QED
    BY <2>1, <2>2
<1> HIDE DEF T
<1>3. T = Nat
  <2>1. T \in SUBSET Nat
    BY DEF T
  <2> QED
    BY <1>1, <1>2, <2>1, NatInduct
<1> QED
  BY <1>3 DEF T

\* Total is what its recursion gives.
LEMMA TotalSums ==
  ASSUME NEW s \in Seq(Int)
  PROVE  \E f \in [0..Len(s) -> Int] : Sums(f, s, Len(s)) /\ Total(s) = f[Len(s)]
<1> DEFINE F == CHOOSE f : Sums(f, s, Len(s))
<1>1. PICK f \in [0..Len(s) -> Int] : Sums(f, s, Len(s))
  BY SumsExist
<1>2. Sums(F, s, Len(s)) /\ Agree(s, s, Len(s))
  BY <1>1 DEF Agree
<1>3. Total(s) = F[Len(s)]
  BY DEF Total, Sums
<1> HIDE DEF F
<1>4. F[Len(s)] = f[Len(s)]
  BY <1>1, <1>2, SumsAgree
<1> QED
  BY <1>1, <1>3, <1>4

LEMMA TotalEmpty == Total(<<>>) = 0
<1>1. PICK f \in [0..Len(<<>>) -> Int] : Sums(f, <<>>, Len(<<>>)) /\ Total(<<>>) = f[Len(<<>>)]
  <2>1. <<>> \in Seq(Int)
    OBVIOUS
  <2> QED
    BY <2>1, TotalSums
<1> QED
  BY <1>1 DEF Sums

LEMMA TotalType == \A s \in Seq(Int) : Total(s) \in Int
<1> SUFFICES ASSUME NEW s \in Seq(Int) PROVE Total(s) \in Int
  OBVIOUS
<1>1. PICK f \in [0..Len(s) -> Int] : Sums(f, s, Len(s)) /\ Total(s) = f[Len(s)]
  BY TotalSums
<1> QED
  BY <1>1

\* An element more adds what it is.
LEMMA TotalMore ==
  ASSUME NEW s \in Seq(Int), NEW t \in Seq(Int), Len(t) = Len(s) + 1, Agree(s, t, Len(s))
  PROVE  Total(t) = Total(s) + t[Len(t)]
<1>1. PICK f \in [0..Len(s) -> Int] : Sums(f, s, Len(s)) /\ Total(s) = f[Len(s)]
  BY TotalSums
<1>2. PICK g \in [0..Len(t) -> Int] : Sums(g, t, Len(t)) /\ Total(t) = g[Len(t)]
  BY TotalSums
<1>3. /\ Len(s) \in Nat /\ Len(t) \in Nat /\ Len(t) - 1 = Len(s)
      /\ Len(s) \in 0..Len(s) /\ Len(s) \in 0..Len(t)
  OBVIOUS
<1>4. f[Len(s)] = g[Len(s)]
  BY <1>1, <1>2, <1>3, SumsAgree
<1>5. g[Len(t)] = g[Len(t) - 1] + t[Len(t)]
  BY <1>2, <1>3 DEF Sums
<1> QED
  BY <1>1, <1>2, <1>3, <1>4, <1>5

LEMMA TotalAppend ==
  ASSUME NEW s \in Seq(Int), NEW e \in Int
  PROVE  Total(Append(s, e)) = Total(s) + e
<1> DEFINE t == Append(s, e)
<1>1. t \in Seq(Int) /\ Len(t) = Len(s) + 1 /\ Agree(s, t, Len(s)) /\ t[Len(t)] = e
  BY DEF Agree
<1> HIDE DEF t
<1>2. Total(t) = Total(s) + t[Len(t)]
  BY <1>1, TotalMore
<1> QED
  BY <1>1, <1>2 DEF t

\* The last element gone takes what it was.
LEMMA TotalFront ==
  ASSUME NEW s \in Seq(Int), s # <<>>
  PROVE  Total(s) = Total(SubSeq(s, 1, Len(s) - 1)) + s[Len(s)]
<1> DEFINE t == SubSeq(s, 1, Len(s) - 1)
<1>1. t \in Seq(Int) /\ s[Len(s)] \in Int /\ s = Append(t, s[Len(s)])
  OBVIOUS
<1> QED
  BY <1>1, TotalAppend
-----------------------------------------------------------------------------
\* f is the function of Only's recursion up to n.
Keeps(f, s, S, n) == f = [i \in 0..n |-> IF i = 0 THEN <<>> ELSE KeepIf(f[i - 1], s[i], S)]

LEMMA KeepsEach ==
  ASSUME NEW f, NEW s, NEW S, NEW n \in Nat, Keeps(f, s, S, n)
  PROVE  f[0] = <<>> /\ \A i \in 1..n : f[i] = KeepIf(f[i - 1], s[i], S)
<1>1. \A i \in 0..n : f[i] = IF i = 0 THEN <<>> ELSE KeepIf(f[i - 1], s[i], S)
  BY DEF Keeps
<1> QED
  BY <1>1

LEMMA KeepsExist ==
  ASSUME NEW X, NEW s \in Seq(X), NEW S, NEW n \in Nat, n <= Len(s)
  PROVE  \E f \in [0..n -> Seq(X)] : Keeps(f, s, S, n)
<1> DEFINE T == {m \in Nat : m <= Len(s) => \E f \in [0..m -> Seq(X)] : Keeps(f, s, S, m)}
<1>1. 0 \in T
  <2> DEFINE f == [i \in 0..0 |-> <<>>]
  <2>1. f \in [0..0 -> Seq(X)] /\ Keeps(f, s, S, 0)
    BY DEF Keeps
  <2> QED
    BY <2>1
<1>2. ASSUME NEW m \in T PROVE m + 1 \in T
  <2> SUFFICES ASSUME m + 1 <= Len(s)
               PROVE  \E f \in [0..(m + 1) -> Seq(X)] : Keeps(f, s, S, m + 1)
    OBVIOUS
  <2>1. m \in Nat /\ Len(s) \in Nat /\ m <= Len(s) /\ s[m + 1] \in X
    OBVIOUS
  <2>2. PICK f \in [0..m -> Seq(X)] : Keeps(f, s, S, m)
    BY <2>1
  <2>3. f[0] = <<>> /\ \A i \in 1..m : f[i] = KeepIf(f[i - 1], s[i], S)
    <3>1. \A i \in 0..m : f[i] = IF i = 0 THEN <<>> ELSE KeepIf(f[i - 1], s[i], S)
      BY <2>2 DEF Keeps
    <3> QED
      BY <2>1, <3>1
  <2> DEFINE more == KeepIf(f[m], s[m + 1], S)
             g == [i \in 0..(m + 1) |-> IF i = m + 1 THEN more ELSE f[i]]
  <2>4. more \in Seq(X)
    BY <2>1 DEF KeepIf
  <2>5. g \in [0..(m + 1) -> Seq(X)]
    <3> HIDE DEF more
    <3> QED
      BY <2>1, <2>4
  <2>6. g[0] = <<>> /\ \A i \in 1..(m + 1) : g[i] = KeepIf(g[i - 1], s[i], S)
    <3>1. g[0] = <<>>
      BY <2>1, <2>3
    <3> SUFFICES ASSUME NEW i \in 1..(m + 1) PROVE g[i] = KeepIf(g[i - 1], s[i], S)
      BY <3>1
    <3>2. i - 1 \in 0..m /\ g[i - 1] = f[i - 1]
      BY <2>1
    <3>3. CASE i = m + 1
      <4>1. g[i] = more /\ i - 1 = m
        BY <2>1, <3>3
      <4> QED
        BY <3>2, <3>3, <4>1
    <3>4. CASE i \in 1..m
      <4>1. g[i] = f[i]
        BY <2>1, <3>4
      <4>2. f[i] = KeepIf(f[i - 1], s[i], S)
        BY <2>3, <3>4
      <4> QED
        BY <3>2, <4>1, <4>2
    <3> QED
      BY <2>1, <3>3, <3>4
  <2>7. Keeps(g, s, S, m + 1)
    <3> HIDE DEF g
    <3>1. \A i \in 0..(m + 1) : g[i] = IF i = 0 THEN <<>> ELSE KeepIf(g[i - 1], s[i], S)
      BY <2>1, <2>6
    <3> QED
      BY <2>5, <3>1 DEF Keeps
  <2> QED
    BY <2>5, <2>7
<1> HIDE DEF T
<1>3. T = Nat
  <2>1. T \in SUBSET Nat
    BY DEF T
  <2> QED
    BY <1>1, <1>2, <2>1, NatInduct
<1> QED
  BY <1>3 DEF T

LEMMA KeepsAgree ==
  ASSUME NEW s, NEW t, NEW S, NEW n \in Nat, NEW m \in Nat, NEW f, NEW g,
         Keeps(f, s, S, n), Keeps(g, t, S, m), NEW k \in 0..n, k \in 0..m,
         Agree(s, t, k)
  PROVE  f[k] = g[k]
<1> DEFINE T == {i \in Nat : i <= k => f[i] = g[i]}
<1>0. /\ f[0] = <<>> /\ \A i \in 1..n : f[i] = KeepIf(f[i - 1], s[i], S)
      /\ g[0] = <<>> /\ \A i \in 1..m : g[i] = KeepIf(g[i - 1], t[i], S)
  BY KeepsEach
<1>1. 0 \in T
  BY <1>0
<1>2. ASSUME NEW i \in T PROVE i + 1 \in T
  <2> SUFFICES ASSUME i + 1 <= k PROVE f[i + 1] = g[i + 1]
    OBVIOUS
  <2>1. i \in Nat /\ f[i] = g[i] /\ i + 1 \in 1..n /\ i + 1 \in 1..m /\ s[i + 1] = t[i + 1]
        /\ i + 1 - 1 = i
    BY DEF Agree
  <2>2. f[i + 1] = KeepIf(f[i], s[i + 1], S) /\ g[i + 1] = KeepIf(g[i], t[i + 1], S)
    BY <1>0, <2>1
  <2> QED
    BY <2>1, <2>2
<1> HIDE DEF T
<1>3. T = Nat
  <2>1. T \in SUBSET Nat
    BY DEF T
  <2> QED
    BY <1>1, <1>2, <2>1, NatInduct
<1> QED
  BY <1>3 DEF T

\* Only is what its recursion gives.
LEMMA OnlyKeeps ==
  ASSUME NEW X, NEW s \in Seq(X), NEW S
  PROVE  \E f \in [0..Len(s) -> Seq(X)] : Keeps(f, s, S, Len(s)) /\ Only(s, S) = f[Len(s)]
<1> DEFINE F == CHOOSE f : Keeps(f, s, S, Len(s))
<1>1. PICK f \in [0..Len(s) -> Seq(X)] : Keeps(f, s, S, Len(s))
  <2>1. Len(s) \in Nat /\ Len(s) <= Len(s)
    OBVIOUS
  <2> HIDE DEF F
  <2> QED
    BY <2>1, KeepsExist
<1>2. Keeps(F, s, S, Len(s)) /\ Agree(s, s, Len(s))
  BY <1>1 DEF Agree
<1>3. Only(s, S) = F[Len(s)]
  BY DEF Only, Keeps
<1> HIDE DEF F
<1>4. F[Len(s)] = f[Len(s)]
  BY <1>1, <1>2, KeepsAgree
<1> QED
  BY <1>1, <1>3, <1>4

LEMMA OnlyEmpty ==
  ASSUME NEW S
  PROVE  Only(<<>>, S) = <<>>
<1>1. <<>> \in Seq({}) /\ Len(<<>>) = 0
  OBVIOUS
<1>2. PICK f \in [0..Len(<<>>) -> Seq({})] :
        Keeps(f, <<>>, S, Len(<<>>)) /\ Only(<<>>, S) = f[Len(<<>>)]
  BY <1>1, OnlyKeeps
<1> QED
  BY <1>1, <1>2 DEF Keeps

LEMMA OnlySeq ==
  ASSUME NEW X, NEW s \in Seq(X), NEW S
  PROVE  Only(s, S) \in Seq(X)
<1>1. PICK f \in [0..Len(s) -> Seq(X)] : Keeps(f, s, S, Len(s)) /\ Only(s, S) = f[Len(s)]
  BY OnlyKeeps
<1> QED
  BY <1>1

\* An element more is kept if it is in S.
LEMMA OnlyMore ==
  ASSUME NEW X, NEW s \in Seq(X), NEW t \in Seq(X), NEW S, Len(t) = Len(s) + 1,
         Agree(s, t, Len(s))
  PROVE  Only(t, S) = KeepIf(Only(s, S), t[Len(t)], S)
<1>1. PICK f \in [0..Len(s) -> Seq(X)] : Keeps(f, s, S, Len(s)) /\ Only(s, S) = f[Len(s)]
  BY OnlyKeeps
<1>2. PICK g \in [0..Len(t) -> Seq(X)] : Keeps(g, t, S, Len(t)) /\ Only(t, S) = g[Len(t)]
  BY OnlyKeeps
<1>3. /\ Len(s) \in Nat /\ Len(t) \in Nat /\ Len(t) - 1 = Len(s)
      /\ Len(s) \in 0..Len(s) /\ Len(s) \in 0..Len(t) /\ Len(t) \in 1..Len(t)
  OBVIOUS
<1>4. f[Len(s)] = g[Len(s)]
  BY <1>1, <1>2, <1>3, KeepsAgree
<1>5. g[Len(t)] = KeepIf(g[Len(t) - 1], t[Len(t)], S)
  BY <1>2, <1>3, KeepsEach
<1> QED
  BY <1>1, <1>2, <1>3, <1>4, <1>5

LEMMA OnlyAppendKept ==
  ASSUME NEW X, NEW s \in Seq(X), NEW e \in X, NEW S
  PROVE  Only(Append(s, e), S) = KeepIf(Only(s, S), e, S)
<1> DEFINE t == Append(s, e)
<1>1. t \in Seq(X) /\ Len(t) = Len(s) + 1 /\ Agree(s, t, Len(s)) /\ t[Len(t)] = e
  BY DEF Agree
<1> HIDE DEF t
<1>2. Only(t, S) = KeepIf(Only(s, S), t[Len(t)], S)
  BY <1>1, OnlyMore
<1> QED
  BY <1>1, <1>2 DEF t

LEMMA OnlyAppend ==
  ASSUME NEW X, NEW s \in Seq(X), NEW e \in X, NEW S
  PROVE  Only(Append(s, e), S) = IF e \in S THEN Append(Only(s, S), e) ELSE Only(s, S)
BY OnlyAppendKept DEF KeepIf

\* What is kept is in S.
LEMMA OnlyType ==
  ASSUME NEW X, NEW S
  PROVE  \A s \in Seq(X) : Only(s, S) \in Seq(X \cap S)
<1> DEFINE T == {s \in Seq(X) : Only(s, S) \in Seq(X \cap S)}
<1>1. <<>> \in T
  <2>1. <<>> \in Seq(X) /\ <<>> \in Seq(X \cap S)
    OBVIOUS
  <2> QED
    BY <2>1, OnlyEmpty
<1>2. ASSUME NEW s \in T, NEW e \in X PROVE Append(s, e) \in T
  <2>1. s \in Seq(X) /\ Only(s, S) \in Seq(X \cap S) /\ Append(s, e) \in Seq(X)
    OBVIOUS
  <2>2. Only(Append(s, e), S) = IF e \in S THEN Append(Only(s, S), e) ELSE Only(s, S)
    BY <2>1, OnlyAppend
  <2>3. e \in S => Append(Only(s, S), e) \in Seq(X \cap S)
    BY <2>1
  <2> QED
    BY <2>1, <2>2, <2>3
<1> HIDE DEF T
<1>3. T = Seq(X)
  <2>1. T \in SUBSET Seq(X)
    BY DEF T
  <2> QED
    BY <1>1, <1>2, <2>1, SeqInduct
<1> QED
  BY <1>3 DEF T

LEMMA AppendConcat ==
  ASSUME NEW X, NEW e \in X, NEW a \in Seq(X), NEW b \in Seq(X)
  PROVE  Append(a \o b, e) = a \o Append(b, e)
<1> DEFINE l == Append(a \o b, e)
           r == a \o Append(b, e)
<1>1. l \in Seq(X) /\ r \in Seq(X) /\ Len(l) = Len(r)
  OBVIOUS
<1>2. ASSUME NEW i \in 1..Len(l) PROVE l[i] = r[i]
  <2>1. CASE i <= Len(a)
    BY <1>1, <2>1
  <2>2. CASE i > Len(a)
    BY <1>1, <2>2
  <2> QED
    BY <1>1, <2>1, <2>2
<1> HIDE DEF l, r
<1>3. l = r
  BY <1>1, <1>2
<1> QED
  BY <1>3 DEF l, r

LEMMA KeptConcat ==
  ASSUME NEW X, NEW a \in Seq(X), NEW b \in Seq(X), NEW e \in X, NEW S
  PROVE  KeepIf(a \o b, e, S) = a \o KeepIf(b, e, S)
<1>1. Append(a \o b, e) = a \o Append(b, e)
  BY AppendConcat
<1> QED
  BY <1>1, Zenon DEF KeepIf

LEMMA ConcatEmpty ==
  ASSUME NEW X, NEW a \in Seq(X)
  PROVE  a \o <<>> = a /\ <<>> \o a = a
OBVIOUS

LEMMA OnlyOne ==
  ASSUME NEW X, NEW e \in X, NEW S
  PROVE  Only(<<e>>, S) = IF e \in S THEN <<e>> ELSE <<>>
<1> DEFINE z == <<>>
<1>1. z \in Seq(X) /\ <<e>> = Append(z, e) /\ Only(z, S) = z
  BY OnlyEmpty
<1> HIDE DEF z
<1>2. Only(Append(z, e), S) = IF e \in S THEN Append(Only(z, S), e) ELSE Only(z, S)
  BY <1>1, OnlyAppend
<1> QED
  BY <1>1, <1>2 DEF z

\* What is kept of two sequences is kept of each.
LEMMA OnlyConcat ==
  ASSUME NEW X, NEW S, NEW s \in Seq(X)
  PROVE  \A t \in Seq(X) : Only(s \o t, S) = Only(s, S) \o Only(t, S)
<1> DEFINE a == Only(s, S)
           T == {t \in Seq(X) : Only(s \o t, S) = a \o Only(t, S)}
<1>0. a \in Seq(X)
  BY OnlySeq
<1>a. Only(s, S) = a
  OBVIOUS
<1> HIDE DEF a
<1>1. <<>> \in T
  <2>1. s \o <<>> = s /\ a \o <<>> = a
    BY <1>0, ConcatEmpty
  <2>2. Only(s \o <<>>, S) = a \o Only(<<>>, S)
    BY <2>1, <1>a, OnlyEmpty
  <2> QED
    BY <2>2
<1>2. ASSUME NEW t \in T, NEW e \in X PROVE Append(t, e) \in T
  <2> DEFINE u == s \o t
             b == Only(t, S)
  <2>1. t \in Seq(X) /\ u \in Seq(X) /\ Only(u, S) = a \o b
    OBVIOUS
  <2>2. s \o Append(t, e) = Append(u, e) /\ Append(t, e) \in Seq(X)
    BY <2>1, AppendConcat
  <2>3. b \in Seq(X)
    BY <2>1, OnlySeq
  <2>b. Only(t, S) = b
    OBVIOUS
  <2> HIDE DEF u, b
  <2>4. /\ Only(Append(u, e), S) = KeepIf(a \o b, e, S)
        /\ Only(Append(t, e), S) = KeepIf(b, e, S)
    <3>1. /\ Only(Append(u, e), S) = KeepIf(Only(u, S), e, S)
          /\ Only(Append(t, e), S) = KeepIf(Only(t, S), e, S)
      BY <2>1, OnlyAppendKept
    <3> QED
      BY <2>1, <2>b, <3>1
  <2>5. KeepIf(a \o b, e, S) = a \o KeepIf(b, e, S)
    BY <1>0, <2>3, KeptConcat
  <2>6. Only(Append(u, e), S) = a \o Only(Append(t, e), S)
    BY <2>4, <2>5
  <2>7. Only(s \o Append(t, e), S) = a \o Only(Append(t, e), S)
    BY <2>2, <2>6
  <2> QED
    BY <2>2, <2>7
<1> HIDE DEF T
<1>3. T = Seq(X)
  <2>1. T \in SUBSET Seq(X)
    BY DEF T
  <2> QED
    BY <1>1, <1>2, <2>1, SeqInduct
<1> QED
  BY <1>3, <1>a DEF T

\* The first element gone, if it was kept, is the first that was.
LEMMA OnlyTail ==
  ASSUME NEW X, NEW s \in Seq(X), s # <<>>, NEW S
  PROVE  Only(s, S) = IF Head(s) \in S THEN <<Head(s)>> \o Only(Tail(s), S)
                      ELSE Only(Tail(s), S)
<1> DEFINE e == Head(s)
           t == Tail(s)
           h == <<e>>
<1>1. e \in X /\ h \in Seq(X) /\ t \in Seq(X) /\ s = h \o t
  OBVIOUS
<1> HIDE DEF e, t
<1>2. Only(h, S) = IF e \in S THEN h ELSE <<>>
  BY <1>1, OnlyOne
<1>3. Only(t, S) \in Seq(X)
  BY <1>1, OnlySeq
<1>4. Only(s, S) = Only(h, S) \o Only(t, S)
  <2> HIDE DEF h
  <2> QED
    BY <1>1, OnlyConcat
<1>5. <<>> \o Only(t, S) = Only(t, S)
  BY <1>3, ConcatEmpty
<1> QED
  BY <1>2, <1>4, <1>5 DEF t, e

\* What is kept for a smaller set is not more.
LEMMA OnlyFewer ==
  ASSUME NEW X, NEW S, NEW R \in SUBSET S
  PROVE  \A s \in Seq(X) : Len(Only(s, R)) <= Len(Only(s, S))
<1> DEFINE T == {s \in Seq(X) : Len(Only(s, R)) <= Len(Only(s, S))}
<1>1. <<>> \in T
  BY OnlyEmpty
<1>2. ASSUME NEW s \in T, NEW e \in X PROVE Append(s, e) \in T
  <2>1. s \in Seq(X) /\ Append(s, e) \in Seq(X) /\ Len(Only(s, R)) <= Len(Only(s, S))
    OBVIOUS
  <2>2. Only(s, R) \in Seq(X) /\ Only(s, S) \in Seq(X)
    BY <2>1, OnlySeq
  <2>3. /\ Only(Append(s, e), R) = IF e \in R THEN Append(Only(s, R), e) ELSE Only(s, R)
        /\ Only(Append(s, e), S) = IF e \in S THEN Append(Only(s, S), e) ELSE Only(s, S)
    BY <2>1, OnlyAppend
  <2> QED
    BY <2>1, <2>2, <2>3
<1> HIDE DEF T
<1>3. T = Seq(X)
  <2>1. T \in SUBSET Seq(X)
    BY DEF T
  <2> QED
    BY <1>1, <1>2, <2>1, SeqInduct
<1> QED
  BY <1>3 DEF T
-----------------------------------------------------------------------------
\* Two sequences with the same elements.
LEMMA SameElements ==
  ASSUME NEW X, NEW a \in Seq(X), NEW b \in Seq(X), Len(a) = Len(b),
         \A i \in 1..Len(a) : a[i] = b[i]
  PROVE  a = b
OBVIOUS

\* A sequence is its first k elements and the others.
LEMMA SplitAt ==
  ASSUME NEW X, NEW h \in Seq(X), NEW k \in 0..Len(h)
  PROVE  /\ SubSeq(h, 1, k) \in Seq(X)
         /\ SubSeq(h, 1 + k, Len(h)) \in Seq(X)
         /\ h = SubSeq(h, 1, k) \o SubSeq(h, 1 + k, Len(h))
<1> DEFINE a == SubSeq(h, 1, k)
           b == SubSeq(h, 1 + k, Len(h))
           c == a \o b
<1>1. k \in Nat /\ Len(h) \in Nat /\ k <= Len(h)
  OBVIOUS
<1>2. /\ a \in Seq(X) /\ Len(a) = k
      /\ \A i \in 1..k : a[i] = h[i]
  BY <1>1
<1>3. /\ b \in Seq(X) /\ Len(b) = Len(h) - k
      /\ \A i \in 1..(Len(h) - k) : b[i] = h[k + i]
  BY <1>1
<1> HIDE DEF a, b
<1>4. c \in Seq(X) /\ Len(c) = Len(h)
  BY <1>1, <1>2, <1>3
<1>5. ASSUME NEW i \in 1..Len(h) PROVE c[i] = h[i]
  <2>1. CASE i <= k
    BY <1>1, <1>2, <1>3, <2>1
  <2>2. CASE i > k
    <3>1. i - k \in 1..(Len(h) - k) /\ k + (i - k) = i
      BY <1>1, <2>2
    <3>2. c[i] = b[i - k]
      BY <1>1, <1>2, <1>3, <2>2, <3>1
    <3> QED
      BY <1>3, <3>1, <3>2
  <2>3. i <= k \/ i > k
    BY <1>1
  <2> HIDE DEF c
  <2> QED
    BY <2>1, <2>2, <2>3
<1> HIDE DEF c
<1>6. c = h
  BY <1>4, <1>5, SameElements
<1> QED
  BY <1>2, <1>3, <1>6 DEF a, b, c

\* An element more stays out of what went before it, and ends what follows.
LEMMA AppendAfter ==
  ASSUME NEW X, NEW e \in X, NEW h \in Seq(X), NEW k \in 0..Len(h)
  PROVE  /\ SubSeq(Append(h, e), 1, k) = SubSeq(h, 1, k)
         /\ SubSeq(Append(h, e), 1 + k, Len(h) + 1) = Append(SubSeq(h, 1 + k, Len(h)), e)
<1> DEFINE t == Append(h, e)
           a == SubSeq(t, 1, k)
           b == SubSeq(h, 1, k)
           c == SubSeq(t, 1 + k, Len(h) + 1)
           d == Append(SubSeq(h, 1 + k, Len(h)), e)
<1>1. k \in Nat /\ Len(h) \in Nat /\ k <= Len(h)
  OBVIOUS
<1>2. /\ t \in Seq(X) /\ Len(t) = Len(h) + 1 /\ t[Len(h) + 1] = e
      /\ \A i \in 1..Len(h) : t[i] = h[i]
  OBVIOUS
<1> HIDE DEF t
<1>3. /\ a \in Seq(X) /\ Len(a) = k /\ \A i \in 1..k : a[i] = h[i]
  BY <1>1, <1>2
<1>4. /\ b \in Seq(X) /\ Len(b) = k /\ \A i \in 1..k : b[i] = h[i]
  BY <1>1
<1>5. /\ c \in Seq(X) /\ Len(c) = Len(h) + 1 - k
      /\ \A i \in 1..(Len(h) + 1 - k) : c[i] = t[k + i]
  BY <1>1, <1>2
<1>6. /\ d \in Seq(X) /\ Len(d) = Len(h) + 1 - k /\ d[Len(h) + 1 - k] = e
      /\ \A i \in 1..(Len(h) - k) : d[i] = h[k + i]
  BY <1>1
<1> HIDE DEF a, b, c, d
<1>7. a = b
  BY <1>3, <1>4, SameElements
<1>8. c = d
  <2>1. ASSUME NEW i \in 1..Len(c) PROVE c[i] = d[i]
    <3>1. c[i] = t[k + i]
      BY <1>5
    <3>2. CASE i = Len(h) + 1 - k
      BY <1>1, <1>2, <1>6, <3>1, <3>2
    <3>3. CASE i \in 1..(Len(h) - k)
      BY <1>1, <1>2, <1>6, <3>1, <3>3
    <3> QED
      BY <1>1, <1>5, <3>2, <3>3
  <2> QED
    BY <1>5, <1>6, <2>1, SameElements
<1> QED
  BY <1>7, <1>8 DEF a, b, c, d, t

LEMMA WholeSeq ==
  ASSUME NEW X, NEW h \in Seq(X)
  PROVE  SubSeq(h, 1, Len(h)) = h
OBVIOUS
-----------------------------------------------------------------------------
\* f is the function of Repeat's recursion up to n.
Repeats(f, round, v, n) == f = [i \in 0..n |-> IF i = 0 THEN v ELSE round[f[i - 1]]]

LEMMA RepeatsEach ==
  ASSUME NEW f, NEW round, NEW v, NEW n \in Nat, Repeats(f, round, v, n)
  PROVE  f[0] = v /\ \A i \in 1..n : f[i] = round[f[i - 1]]
<1>1. \A i \in 0..n : f[i] = IF i = 0 THEN v ELSE round[f[i - 1]]
  BY DEF Repeats
<1> QED
  BY <1>1

LEMMA RepeatsExist ==
  ASSUME NEW I, NEW round, NEW v \in I, NEW n \in Nat, \A u \in I : round[u] \in I
  PROVE  \E f \in [0..n -> I] : Repeats(f, round, v, n)
<1> DEFINE T == {m \in Nat : \E f \in [0..m -> I] : Repeats(f, round, v, m)}
<1>1. 0 \in T
  <2> DEFINE f == [i \in 0..0 |-> v]
  <2>1. f \in [0..0 -> I]
    OBVIOUS
  <2>2. f = [i \in 0..0 |-> IF i = 0 THEN v ELSE round[f[i - 1]]]
    OBVIOUS
  <2> QED
    BY <2>1, <2>2 DEF Repeats
<1>2. ASSUME NEW m \in T PROVE m + 1 \in T
  <2>1. m \in Nat
    OBVIOUS
  <2>2. PICK f \in [0..m -> I] : Repeats(f, round, v, m)
    OBVIOUS
  <2>3. f[0] = v /\ \A i \in 1..m : f[i] = round[f[i - 1]]
    BY <2>1, <2>2, RepeatsEach
  <2> DEFINE more == round[f[m]]
             g == [i \in 0..(m + 1) |-> IF i = m + 1 THEN more ELSE f[i]]
  <2>4. more \in I
    BY <2>1
  <2>5. g \in [0..(m + 1) -> I]
    <3> HIDE DEF more
    <3> QED
      BY <2>1, <2>4
  <2>6. g[0] = v /\ \A i \in 1..(m + 1) : g[i] = round[g[i - 1]]
    <3>1. g[0] = v
      BY <2>1, <2>3
    <3> SUFFICES ASSUME NEW i \in 1..(m + 1) PROVE g[i] = round[g[i - 1]]
      BY <3>1
    <3>2. i - 1 \in 0..m /\ g[i - 1] = f[i - 1]
      BY <2>1
    <3>3. CASE i = m + 1
      <4>1. g[i] = more /\ i - 1 = m
        BY <2>1, <3>3
      <4> QED
        BY <3>2, <3>3, <4>1
    <3>4. CASE i \in 1..m
      <4>1. g[i] = f[i]
        BY <2>1, <3>4
      <4>2. f[i] = round[f[i - 1]]
        BY <2>3, <3>4
      <4> QED
        BY <3>2, <4>1, <4>2
    <3> QED
      BY <2>1, <3>3, <3>4
  <2>7. Repeats(g, round, v, m + 1)
    <3> HIDE DEF g
    <3>1. \A i \in 0..(m + 1) : g[i] = IF i = 0 THEN v ELSE round[g[i - 1]]
      BY <2>1, <2>6
    <3> QED
      BY <2>5, <3>1 DEF Repeats
  <2>8. m + 1 \in Nat
    BY <2>1
  <2> HIDE DEF g
  <2> QED
    BY <2>5, <2>7, <2>8
<1> HIDE DEF T
<1>3. T = Nat
  <2>1. T \in SUBSET Nat
    BY DEF T
  <2> QED
    BY <1>1, <1>2, <2>1, NatInduct
<1> QED
  BY <1>3 DEF T

LEMMA RepeatsAgree ==
  ASSUME NEW round, NEW v, NEW n \in Nat, NEW f, NEW g,
         Repeats(f, round, v, n), Repeats(g, round, v, n)
  PROVE  f[n] = g[n]
<1> DEFINE T == {i \in Nat : i <= n => f[i] = g[i]}
<1>0. /\ f[0] = v /\ \A i \in 1..n : f[i] = round[f[i - 1]]
      /\ g[0] = v /\ \A i \in 1..n : g[i] = round[g[i - 1]]
  BY RepeatsEach
<1>1. 0 \in T
  BY <1>0
<1>2. ASSUME NEW i \in T PROVE i + 1 \in T
  <2> SUFFICES ASSUME i + 1 <= n PROVE f[i + 1] = g[i + 1]
    OBVIOUS
  <2>1. i \in Nat /\ f[i] = g[i] /\ i + 1 \in 1..n /\ i + 1 - 1 = i
    OBVIOUS
  <2>2. f[i + 1] = round[f[i]] /\ g[i + 1] = round[g[i]]
    BY <1>0, <2>1
  <2> QED
    BY <2>1, <2>2
<1> HIDE DEF T
<1>3. T = Nat
  <2>1. T \in SUBSET Nat
    BY DEF T
  <2> QED
    BY <1>1, <1>2, <2>1, NatInduct
<1> QED
  BY <1>3 DEF T

\* What every round keeps is kept by the loop.
LEMMA RepeatKeeps ==
  ASSUME NEW I, NEW round, NEW v \in I, NEW n \in Nat, \A u \in I : round[u] \in I
  PROVE  Repeat(round, v, n) \in I
<1> DEFINE F == CHOOSE f : Repeats(f, round, v, n)
<1>1. PICK f \in [0..n -> I] : Repeats(f, round, v, n)
  BY RepeatsExist
<1>2. Repeats(F, round, v, n)
  BY <1>1
<1>3. Repeat(round, v, n) = F[n]
  BY DEF Repeat, Repeats
<1> HIDE DEF F
<1>4. F[n] = f[n]
  BY <1>1, <1>2, RepeatsAgree
<1> QED
  BY <1>3, <1>4

\* A loop ends in a state that its round leaves alone, and its invariant holds
\* there: I is the invariant, m what every round that does something takes from,
\* n enough rounds.
LEMMA RepeatSettles ==
  ASSUME NEW I, NEW round, NEW v \in I, NEW n \in Nat, NEW m \in [I -> Nat],
         \A u \in I : round[u] \in I /\ (round[u] = u \/ m[round[u]] < m[u]),
         m[v] <= n
  PROVE  /\ Repeat(round, v, n) \in I
         /\ round[Repeat(round, v, n)] = Repeat(round, v, n)
<1> DEFINE F == CHOOSE f : Repeats(f, round, v, n)
<1>1. PICK f \in [0..n -> I] : Repeats(f, round, v, n)
  BY RepeatsExist
<1>2. Repeats(F, round, v, n)
  BY <1>1
<1>3. Repeat(round, v, n) = F[n]
  BY DEF Repeat, Repeats
<1> HIDE DEF F
<1>4. F[n] = f[n]
  BY <1>1, <1>2, RepeatsAgree
<1>5. f[0] = v /\ \A i \in 1..n : f[i] = round[f[i - 1]]
  <2>1. \A i \in 0..n : f[i] = IF i = 0 THEN v ELSE round[f[i - 1]]
    BY <1>1 DEF Repeats
  <2>2. f[0] = v
    <3>1. 0 \in 0..n
      OBVIOUS
    <3> QED
      BY <2>1, <3>1
  <2>3. ASSUME NEW i \in 1..n PROVE f[i] = round[f[i - 1]]
    <3>1. i \in 0..n /\ i # 0
      OBVIOUS
    <3> QED
      BY <2>1, <3>1
  <2> QED
    BY <2>2, <2>3
<1> DEFINE T == {i \in Nat : i <= n => round[f[i]] = f[i] \/ m[f[i]] <= n - i}
<1>6. 0 \in T
  <2> DEFINE a == m[f[0]]
  <2>1. a \in Nat /\ a <= n
    BY <1>5
  <2> HIDE DEF a
  <2>2. a <= n - 0
    BY <2>1
  <2>3. m[f[0]] <= n - 0
    BY <2>2 DEF a
  <2> QED
    BY <2>3
<1>7. ASSUME NEW i \in T PROVE i + 1 \in T
  <2> SUFFICES ASSUME i + 1 <= n
               PROVE  round[f[i + 1]] = f[i + 1] \/ m[f[i + 1]] <= n - (i + 1)
    OBVIOUS
  <2>1. /\ i \in Nat /\ i \in 0..n /\ i + 1 \in 1..n /\ i + 1 - 1 = i
        /\ round[f[i]] = f[i] \/ m[f[i]] <= n - i
    OBVIOUS
  <2>2. f[i + 1] = round[f[i]] /\ f[i] \in I
    BY <1>5, <2>1
  <2>3. CASE round[f[i]] = f[i]
    BY <2>2, <2>3
  <2>4. CASE round[f[i]] # f[i]
    <3>1. m[f[i]] <= n - i /\ m[round[f[i]]] < m[f[i]] /\ round[f[i]] \in I
      BY <2>1, <2>2, <2>4
    <3>2. m[f[i]] \in Nat /\ m[round[f[i]]] \in Nat
      BY <2>2, <3>1
    <3> QED
      BY <2>1, <2>2, <3>1, <3>2
  <2> QED
    BY <2>3, <2>4
<1> HIDE DEF T
<1>8. T = Nat
  <2>1. T \in SUBSET Nat
    BY DEF T
  <2> QED
    BY <1>6, <1>7, <2>1, NatInduct
<1>9. f[n] \in I /\ (round[f[n]] = f[n] \/ m[f[n]] <= 0)
  <2>1. n \in T
    BY <1>8
  <2> QED
    BY <2>1 DEF T
<1>10. m[f[n]] \in Nat /\ m[round[f[n]]] \in Nat
  BY <1>9
<1> QED
  BY <1>3, <1>4, <1>9, <1>10
=============================================================================
