----------------------- MODULE ValidatorServiceProofs -----------------------
(***************************************************************************)
(* The risk engine, the validator service and the delegation plans, for    *)
(* any number of validators, checks, handlers, rows and faults: stake only *)
(* moves, plans stay within what there is, pending rows follow slashes,    *)
(* and the pause follows the emergency mode.                               *)
(***************************************************************************)
EXTENDS ValidatorService, ContractLemmas, SequenceTheorems, TLAPS

\* What g gives for the elements of s, added up.
Total(g, s) == SumFunction([i \in DOMAIN s |-> g[s[i]]])

\* The total of a sequence is an integer, and it is that of any function that agrees.
LEMMA TotalInt ==
    ASSUME NEW A, NEW g \in [A -> Int], NEW s \in Seq(A)
    PROVE  Total(g, s) \in Int
<1> DEFINE k == [i \in DOMAIN s |-> g[s[i]]]
           D == DOMAIN s
<1>1. DOMAIN k = D /\ D = 1..Len(s) /\ \A i \in D : k[i] \in Int
  BY ElementOfSeq
<1>2. IsFiniteSet(D)
  BY <1>1, FS_Interval, LenProperties
<1> HIDE DEF k
<1>3. SumFunctionOnSet(k, D) \in Int
  BY <1>1, <1>2, SumInt
<1> QED BY <1>1, <1>3 DEF Total, SumFunction, k

\* The total of two sequences in a row.
LEMMA TotalOfBoth ==
    ASSUME NEW A, NEW g \in [A -> Int], NEW s \in Seq(A), NEW u \in Seq(A)
    PROVE  Total(g, s \o u) = Total(g, s) + Total(g, u)
<1> DEFINE m == Len(s)
           n == Len(u)
           k == [i \in 1..m+n |-> g[(s \o u)[i]]]
           ks == [i \in 1..m |-> g[s[i]]]
           ku == [i \in 1..n |-> g[u[i]]]
<1>1. m \in Nat /\ n \in Nat /\ DOMAIN s = 1..m /\ DOMAIN u = 1..n
  BY LenProperties
<1>2. /\ s \o u \in Seq(A) /\ Len(s \o u) = m + n
      /\ \A i \in 1..m+n : (s \o u)[i] = IF i <= m THEN s[i] ELSE u[i - m]
  BY ConcatProperties
<1>3. DOMAIN (s \o u) = 1..m+n
  BY <1>2, LenProperties
<1>4. /\ Total(g, s \o u) = SumFunctionOnSet(k, 1..m+n)
      /\ Total(g, s) = SumFunctionOnSet(ks, 1..m) /\ Total(g, u) = SumFunctionOnSet(ku, 1..n)
  BY <1>1, <1>3 DEF Total, SumFunction
<1>5. (\A i \in 1..m : s[i] \in A) /\ (\A i \in 1..n : u[i] \in A)
  BY <1>1, ElementOfSeq
<1> DEFINE w == s \o u
<1>6. \A i \in 1..m+n : w[i] = IF i <= m THEN s[i] ELSE u[i - m]
  BY <1>2
<1> HIDE DEF m, n, w
<1>7. \A i \in 1..m : w[i] = s[i] /\ i \in 1..m+n
  BY <1>1, <1>6
<1>8. \A i \in 1..n : w[i + m] = u[i] /\ i + m \in 1..m+n
  <2>1. \A i \in 1..n : i + m \in 1..m+n /\ ~(i + m <= m) /\ (i + m) - m = i
    BY <1>1
  <2> QED BY <1>6, <2>1
<1>9. \A i \in 1..m : k[i] = ks[i] /\ ks[i] \in Int
  BY <1>5, <1>7 DEF w
<1>10. \A i \in 1..n : k[i + m] = ku[i] /\ ku[i] \in Int
  BY <1>5, <1>8 DEF w
<1>11. m \in Nat /\ n \in Nat
  BY <1>1
<1> HIDE DEF k, ks, ku
<1>12. Joins(k, m, ks, n, ku)
  BY <1>9, <1>10 DEF Joins
<1>13. SumFunctionOnSet(k, 1..m+n) = SumFunctionOnSet(ks, 1..m) + SumFunctionOnSet(ku, 1..n)
  BY <1>11, <1>12, SumJoined
<1> QED BY <1>4, <1>13

\* f puts the first i of the sequences seqs together, for every i up to n.
Flattens(f, seqs, n) == f = [i \in 1..n |-> IF i = 1 THEN seqs[i] ELSE f[i - 1] \o seqs[i]]

\* Such an f takes one sequence more at every step.
LEMMA FlattenAt ==
    ASSUME NEW f, NEW seqs, NEW n \in Nat, Flattens(f, seqs, n), NEW i \in 1..n
    PROVE  f[i] = IF i = 1 THEN seqs[i] ELSE f[i - 1] \o seqs[i]
<1> DEFINE body(j) == IF j = 1 THEN seqs[j] ELSE f[j - 1] \o seqs[j]
<1>1. f = [j \in 1..n |-> body(j)]
  BY DEF Flattens
<1> HIDE DEF body
<1>2. f[i] = body(i)
  BY <1>1
<1> QED BY <1>2 DEF body

\* There is one for every n.
LEMMA FlattenExists ==
    ASSUME NEW seqs, NEW n \in Nat
    PROVE  \E f : Flattens(f, seqs, n)
<1> DEFINE G == {m \in Nat : \E f : Flattens(f, seqs, m)}
<1>1. 0 \in G
  <2> DEFINE e == [i \in 1..0 |-> seqs]
  <2>1. e = [i \in 1..0 |-> IF i = 1 THEN seqs[i] ELSE e[i - 1] \o seqs[i]]
    OBVIOUS
  <2> HIDE DEF e
  <2>2. Flattens(e, seqs, 0)
    BY <2>1 DEF Flattens
  <2> QED BY <2>2
<1>2. ASSUME NEW m \in Nat, m \in G PROVE m + 1 \in G
  <2>1. PICK f : Flattens(f, seqs, m)
    BY <1>2
  <2> DEFINE last == IF m = 0 THEN seqs[1] ELSE f[m] \o seqs[m + 1]
             e == [i \in 1..m+1 |-> IF i = m + 1 THEN last ELSE f[i]]
             body(i) == IF i = 1 THEN seqs[i] ELSE e[i - 1] \o seqs[i]
  <2>2. ASSUME NEW i \in 1..m+1 PROVE e[i] = body(i)
    <3>1. CASE i = m + 1
      <4>1. e[i] = last
        BY <3>1
      <4>2. m # 0 => e[i - 1] = f[m] /\ i # 1
        BY <3>1
      <4>3. m = 0 => i = 1
        BY <3>1
      <4> HIDE DEF e
      <4> QED BY <3>1, <4>1, <4>2, <4>3
    <3>2. CASE i # m + 1
      <4>1. i \in 1..m
        BY <3>2
      <4>2. f[i] = IF i = 1 THEN seqs[i] ELSE f[i - 1] \o seqs[i]
        BY <2>1, <4>1, FlattenAt
      <4>3. e[i] = f[i] /\ (i # 1 => e[i - 1] = f[i - 1])
        BY <4>1
      <4> HIDE DEF e
      <4> QED BY <4>2, <4>3
    <3> QED BY <3>1, <3>2
  <2>3. e = [i \in 1..m+1 |-> body(i)]
    <3>1. e = [i \in 1..m+1 |-> e[i]]
      OBVIOUS
    <3> HIDE DEF e, body
    <3> QED BY <2>2, <3>1
  <2> HIDE DEF e
  <2>4. Flattens(e, seqs, m + 1)
    BY <2>3 DEF Flattens
  <2> QED BY <2>4
<1>3. Nat \subseteq G
  <2> HIDE DEF G
  <2> QED BY <1>1, <1>2, CountingInduction
<1> QED BY <1>3

\* What FlattenSeq makes of a sequence of sequences: it is one of the same elements, and
\* its total is the sum of theirs.
LEMMA FlattenTotal ==
    ASSUME NEW A, NEW g \in [A -> Int], NEW seqs \in Seq(Seq(A))
    PROVE  /\ FlattenSeq(seqs) \in Seq(A)
           /\ Total(g, FlattenSeq(seqs)) = SumFunction([i \in DOMAIN seqs |-> Total(g, seqs[i])])
<1> DEFINE n == Len(seqs)
           k == [i \in 1..n |-> Total(g, seqs[i])]
           D == 1..n
<1>1. n \in Nat /\ DOMAIN seqs = D /\ \A i \in D : seqs[i] \in Seq(A)
  BY LenProperties, ElementOfSeq
<1>2. \A i \in D : k[i] = Total(g, seqs[i]) /\ k[i] \in Int
  BY <1>1, TotalInt
<1>3. SumFunction([i \in DOMAIN seqs |-> Total(g, seqs[i])]) = SumFunctionOnSet(k, 1..n)
  BY <1>1 DEF SumFunction
<1>4. CASE n = 0
  <2>1. seqs = <<>>
    BY <1>4, <1>1, EmptySeq
  <2>2. FlattenSeq(seqs) = <<>> /\ <<>> \in Seq(A)
    BY <1>4, <2>1 DEF FlattenSeq
  <2>3. 1..n = {} /\ DOMAIN <<>> = {}
    BY <1>4
  <2>4. Total(g, <<>>) = SumFunctionOnSet([i \in {} |-> g[<<>>[i]]], {})
    BY DEF Total, SumFunction
  <2>5. \A q : SumFunctionOnSet(q, {}) = 0
    BY SumPick, FS_EmptySet
  <2> HIDE DEF n, k
  <2> QED BY <1>3, <2>2, <2>3, <2>4, <2>5
<1>5. CASE n # 0
  <2> DEFINE f == CHOOSE f : Flattens(f, seqs, n)
  <2>1. FlattenSeq(seqs) = f[n]
    BY <1>5 DEF FlattenSeq, Flattens
  <2>2. Flattens(f, seqs, n)
    BY <1>1, FlattenExists
  <2> HIDE DEF f
  <2> DEFINE G == {m \in Nat : m \in 1..n => /\ f[m] \in Seq(A)
                                              /\ Total(g, f[m]) = SumFunctionOnSet(k, 1..m)}
  <2>3. 0 \in G
    OBVIOUS
  <2>4. ASSUME NEW m \in Nat, m \in G PROVE m + 1 \in G
    <3> SUFFICES ASSUME m + 1 \in 1..n
                 PROVE  /\ f[m + 1] \in Seq(A)
                        /\ Total(g, f[m + 1]) = SumFunctionOnSet(k, 1..m+1)
      OBVIOUS
    <3> DEFINE j == m + 1
    <3>1. j \in D /\ seqs[j] \in Seq(A) /\ k[j] = Total(g, seqs[j]) /\ k[j] \in Int
      BY <1>1, <1>2
    <3>2. f[j] = IF j = 1 THEN seqs[j] ELSE f[j - 1] \o seqs[j]
      <4>1. j \in 1..n
        OBVIOUS
      <4> HIDE DEF j, n
      <4> QED BY <1>1, <2>2, <4>1, FlattenAt
    <3>3. SumFunctionOnSet(k, 1..j) = SumFunctionOnSet(k, 1..m) + k[j]
      <4>1. IsFiniteSet(1..m)
        BY FS_Interval
      <4>2. j \notin 1..m /\ 1..j = (1..m) \cup {j}
        OBVIOUS
      <4>3. \A y \in (1..m) \cup {j} : k[y] \in Int
        BY <1>1, <1>2, <3>1
      <4> HIDE DEF k, j
      <4> QED BY <4>1, <4>2, <4>3, SumPut
    <3>4. CASE m = 0
      <4>1. SumFunctionOnSet(k, 1..m) = 0
        <5>1. 1..m = {}
          BY <3>4
        <5> QED BY <5>1, SumPick, FS_EmptySet
      <4>2. f[j] = seqs[j]
        BY <3>2, <3>4
      <4> HIDE DEF k, D
      <4> QED BY <3>1, <3>3, <4>1, <4>2
    <3>5. CASE m # 0
      <4>1. m \in 1..n /\ f[m] \in Seq(A) /\ Total(g, f[m]) = SumFunctionOnSet(k, 1..m)
        BY <1>1, <2>4, <3>5
      <4>2. f[j] = f[m] \o seqs[j]
        <5>1. j # 1 /\ j - 1 = m
          BY <3>5
        <5> HIDE DEF j
        <5> QED BY <3>2, <5>1
      <4>3. Total(g, f[j]) = Total(g, f[m]) + Total(g, seqs[j])
        <5> DEFINE a == f[m]
                   b == seqs[j]
        <5>1. a \in Seq(A) /\ b \in Seq(A)
          BY <3>1, <4>1
        <5> HIDE DEF a, b
        <5>2. Total(g, a \o b) = Total(g, a) + Total(g, b)
          BY <5>1, TotalOfBoth
        <5> QED BY <4>2, <5>2 DEF a, b
      <4>4. f[j] \in Seq(A)
        BY <3>1, <4>1, <4>2, ConcatProperties
      <4> QED BY <3>1, <3>3, <4>1, <4>3, <4>4
    <3> QED BY <3>4, <3>5
  <2>5. Nat \subseteq G
    <3> HIDE DEF G
    <3> QED BY <2>3, <2>4, CountingInduction
  <2>6. n \in Nat /\ n \in 1..n
    BY <1>1, <1>5
  <2>7. n \in G
    BY <2>5, <2>6
  <2> QED BY <1>3, <2>1, <2>6, <2>7
<1> QED BY <1>4, <1>5
-----------------------------------------------------------------------------
(* The plans. *)

\* The rows are finitely many, and so are those of any part.
LEMMA RowsOf ==
    ASSUME NEW t \in [Validators -> Row], NEW S \in SUBSET Validators
    PROVE  /\ IsFiniteSet(S)
           /\ \A v \in S : t[v].stake \in Int /\ t[v].score \in Nat /\ t[v].score > 0
           /\ \A v \in S : t[v] \in Row
<1>1. IsFiniteSet(S)
  BY ValidatorsAssumption, FS_Subset
<1> QED BY <1>1 DEF Row

\* Scores add up to more than none, stakes to an integer.
LEMMA ScoresAndStakes ==
    ASSUME NEW t \in [Validators -> Row], NEW S \in SUBSET Validators
    PROVE  /\ ScoreOf(t, S) \in Nat
           /\ S # {} => ScoreOf(t, S) > 0
           /\ StakeOf(t, S) \in Int
           /\ (\A v \in S : t[v].stake >= 0) => StakeOf(t, S) >= 0
<1> DEFINE scores == [v \in S |-> t[v].score]
           stakes == [v \in S |-> t[v].stake]
<1>1. IsFiniteSet(S)
  BY RowsOf
<1>2. scores \in [S -> Nat] /\ (\A v \in S : scores[v] > 0) /\ DOMAIN stakes = S
  BY RowsOf
<1>3. (\A v \in S : stakes[v] = t[v].stake) /\ \A v \in S : stakes[v] \in Int
  BY RowsOf
<1>4. ScoreOf(t, S) = SumFunction(scores) /\ StakeOf(t, S) = SumFunctionOnSet(stakes, S)
  BY DEF ScoreOf, StakeOf, SumFunction
<1> HIDE DEF scores, stakes
<1>5. SumFunction(scores) \in Nat /\ \A v \in S : scores[v] <= SumFunction(scores)
  BY <1>1, <1>2, SumCovers
<1>6. S # {} => SumFunction(scores) > 0
  BY <1>2, <1>5
<1>7. /\ SumFunctionOnSet(stakes, S) \in Int
      /\ (\A v \in S : stakes[v] >= 0) => SumFunctionOnSet(stakes, S) >= 0
  BY <1>1, <1>3, SumInt
<1> QED BY <1>3, <1>4, <1>5, <1>6, <1>7

\* What an amount is divided into: a quotient is at most its part of the amount.
LEMMA ShareBounds ==
    ASSUME NEW amount \in Nat, NEW score \in Nat, NEW all \in Nat, all > 0
    PROVE  /\ (amount * score) \div all \in Nat
           /\ all * ((amount * score) \div all) <= amount * score
<1> DEFINE n == amount * score
<1>1. n \in Nat
  OBVIOUS
<1> HIDE DEF n
<1>2. n \div all \in Nat /\ all * (n \div all) <= n
  BY <1>1
<1> QED BY <1>2 DEF n

\* The shares of an amount add up to no more than the amount.
LEMMA SharesWithin ==
    ASSUME NEW t \in [Validators -> Row], NEW S \in SUBSET Validators, NEW amount \in Nat
    PROVE  /\ \A v \in S : ShareOf(t, S, v, amount) \in Nat
           /\ SumFunctionOnSet([v \in S |-> ShareOf(t, S, v, amount)], S) <= amount
<1> DEFINE shares == [v \in S |-> ShareOf(t, S, v, amount)]
           scores == [v \in S |-> t[v].score]
           all == ScoreOf(t, S)
<1>1. IsFiniteSet(S) /\ all \in Nat /\ (S # {} => all > 0)
  BY RowsOf, ScoresAndStakes
<1>2. all = SumFunctionOnSet(scores, S)
  BY DEF ScoreOf, SumFunction
<1>3. \A v \in S : scores[v] = t[v].score /\ t[v].score \in Nat
  BY RowsOf
<1> HIDE DEF all
<1>4. ASSUME NEW v \in S
      PROVE  /\ ShareOf(t, S, v, amount) \in Nat /\ shares[v] = ShareOf(t, S, v, amount)
             /\ all * shares[v] <= amount * scores[v]
  <2>1. shares[v] = ShareOf(t, S, v, amount)
    OBVIOUS
  <2>2. ShareOf(t, S, v, amount) = (amount * scores[v]) \div all
    BY <1>3 DEF ShareOf, all
  <2>3. scores[v] \in Nat /\ all > 0
    BY <1>1, <1>3
  <2> HIDE DEF shares, scores
  <2> QED BY <1>1, <2>1, <2>2, <2>3, ShareBounds
<1> HIDE DEF shares, scores
<1>5. all * SumFunctionOnSet(shares, S) <= amount * SumFunctionOnSet(scores, S)
  <2>1. \A v \in S : shares[v] \in Int /\ scores[v] \in Int /\ all * shares[v] <= amount * scores[v]
    BY <1>3, <1>4
  <2>2. all \in Int /\ amount \in Int
    BY <1>1
  <2> QED BY <1>1, <2>1, <2>2, SumsCompare
<1>6. SumFunctionOnSet(shares, S) \in Int /\ (S = {} => SumFunctionOnSet(shares, S) = 0)
  <2>1. \A v \in S : shares[v] \in Int
    BY <1>4
  <2> QED BY <1>1, <2>1, SumInt, SumPick
<1>7. SumFunctionOnSet(shares, S) <= amount
  <2>1. \A n \in Int : \A m \in Nat : m > 0 /\ m * n <= amount * m => n <= amount
    OBVIOUS
  <2> QED BY <1>1, <1>2, <1>5, <1>6, <2>1
<1> QED BY <1>4, <1>7 DEF shares

\* A function on 1..n is a sequence.
LEMMA FunctionIsSeq ==
    ASSUME NEW S, NEW n \in Nat, NEW f \in [1..n -> S]
    PROVE  f \in Seq(S) /\ Len(f) = n
OBVIOUS

\* The sequences of a set list every member of it, and each of them once.
LEMMA ListsAll ==
    ASSUME NEW S, IsFiniteSet(S), NEW q \in SetToSeqs(S)
    PROVE  /\ q \in [1..Cardinality(S) -> S] /\ q \in Seq(S)
           /\ Cardinality(S) \in Nat /\ Len(q) = Cardinality(S)
           /\ \A i, j \in DOMAIN q : q[i] = q[j] => i = j
           /\ {q[i] : i \in DOMAIN q} = S
<1> DEFINE D == 1..Cardinality(S)
<1>1. q \in [D -> S] /\ \A i, j \in D : i # j => q[i] # q[j]
  BY DEF SetToSeqs
<1>2. Cardinality(S) \in Nat
  BY FS_CardinalityType
<1>3. IsFiniteSet(D) /\ Cardinality(D) = Cardinality(S)
  BY <1>2, FS_Interval
<1>4. q \in Injection(D, S)
  BY <1>1 DEF Injection, IsInjective
<1>5. q \in Surjection(D, S)
  <2> HIDE DEF D
  <2> QED BY <1>3, <1>4, FS_Injection
<1>6. {q[i] : i \in D} = S
  BY <1>5 DEF Surjection
<1>7. q \in Seq(S) /\ Len(q) = Cardinality(S)
  BY <1>1, <1>2, FunctionIsSeq
<1> QED BY <1>1, <1>2, <1>6, <1>7

\* One update of a row, and what it takes from or gives to it.
Changes == [validator : Validators, n : Int]
Amounts == [c \in Changes |-> c.n]
Gains == [c \in Changes |-> Most(c.n, 0)]

\* Amounts and gains are integers.
LEMMA AmountsAreInts == Amounts \in [Changes -> Int] /\ Gains \in [Changes -> Int]
BY DEF Amounts, Gains, Changes, Most

\* What updates carry is the total of their amounts, and what they give that of their gains.
LEMMA CarriedIsTotal ==
    ASSUME NEW s \in Seq(Changes)
    PROVE  /\ Carried(s) = Total(Amounts, s)
           /\ SumFunction([i \in DOMAIN s |-> Most(s[i].n, 0)]) = Total(Gains, s)
<1> DEFINE D == DOMAIN s
<1>1. \A i \in D : s[i] \in Changes
  BY ElementOfSeq, LenProperties
<1>2. \A i \in D : Amounts[s[i]] = s[i].n /\ Gains[s[i]] = Most(s[i].n, 0)
  BY <1>1 DEF Amounts, Gains
<1>3. [i \in D |-> s[i].n] = [i \in D |-> Amounts[s[i]]]
  BY <1>2
<1>4. [i \in D |-> Most(s[i].n, 0)] = [i \in D |-> Gains[s[i]]]
  BY <1>2
<1> QED BY <1>3, <1>4 DEF Carried, Total

\* The total of no update and of two.
LEMMA TotalOfTwo ==
    ASSUME NEW A, NEW g \in [A -> Int], NEW a \in A, NEW b \in A
    PROVE  /\ <<a, b>> \in Seq(A) /\ <<>> \in Seq(A)
           /\ Total(g, <<a, b>>) = g[a] + g[b]
           /\ Total(g, <<>>) = 0
<1>1. <<a, b>> \in Seq(A) /\ <<>> \in Seq(A) /\ <<a>> \in Seq(A) /\ <<b>> \in Seq(A)
  OBVIOUS
<1>2. <<a, b>> = <<a>> \o <<b>>
  <2> DEFINE s == <<a>>
             u == <<b>>
             w == <<a, b>>
  <2>1. Len(s) = 1 /\ Len(u) = 1 /\ Len(w) = 2 /\ s[1] = a /\ u[1] = b /\ w[1] = a /\ w[2] = b
    OBVIOUS
  <2>2. s \in Seq(A) /\ u \in Seq(A) /\ w \in Seq(A)
    BY <1>1
  <2> HIDE DEF s, u, w
  <2>3. /\ s \o u \in Seq(A) /\ Len(s \o u) = 2
        /\ \A i \in 1..2 : (s \o u)[i] = IF i <= 1 THEN s[i] ELSE u[i - 1]
    <3>1. /\ s \o u \in Seq(A) /\ Len(s \o u) = Len(s) + Len(u)
          /\ \A i \in 1..Len(s) + Len(u) : (s \o u)[i] = IF i <= Len(s) THEN s[i] ELSE u[i - Len(s)]
      BY <2>2, ConcatProperties
    <3>2. Len(s) + Len(u) = 2
      BY <2>1
    <3> QED BY <2>1, <3>1, <3>2
  <2>4. \A i \in 1..2 : (s \o u)[i] = w[i]
    BY <2>1, <2>3
  <2>5. w = s \o u
    BY <2>1, <2>2, <2>3, <2>4, SeqEqual
  <2> QED BY <2>5 DEF s, u, w
<1>3. ASSUME NEW x \in A PROVE Total(g, <<x>>) = g[x]
  <2> DEFINE k == [i \in {1} |-> g[x]]
  <2>1. Total(g, <<x>>) = SumFunctionOnSet(k, {1})
    <3>1. DOMAIN <<x>> = {1}
      OBVIOUS
    <3>2. [i \in {1} |-> g[<<x>>[i]]] = k
      OBVIOUS
    <3> QED BY <3>1, <3>2 DEF Total, SumFunction
  <2>2. k[1] = g[x] /\ g[x] \in Int
    OBVIOUS
  <2> HIDE DEF k
  <2>3. IsFiniteSet({}) /\ 1 \notin {} /\ {} \cup {1} = {1} /\ \A y \in {} \cup {1} : k[y] \in Int
    BY <2>2, FS_EmptySet
  <2>4. SumFunctionOnSet(k, {} \cup {1}) = SumFunctionOnSet(k, {}) + k[1]
    BY <2>3, SumPut
  <2>5. SumFunctionOnSet(k, {}) = 0
    BY <2>3, SumPick
  <2> QED BY <2>1, <2>2, <2>3, <2>4, <2>5
<1>4. Total(g, <<a>> \o <<b>>) = Total(g, <<a>>) + Total(g, <<b>>)
  BY <1>1, TotalOfBoth
<1>5. Total(g, <<>>) = 0
  <2>1. DOMAIN <<>> = {}
    OBVIOUS
  <2>2. Total(g, <<>>) = SumFunctionOnSet([i \in {} |-> g[<<>>[i]]], {})
    BY <2>1 DEF Total, SumFunction
  <2>3. \A q : SumFunctionOnSet(q, {}) = 0
    BY SumPick, FS_EmptySet
  <2> QED BY <2>2, <2>3
<1> QED BY <1>1, <1>2, <1>3, <1>4, <1>5

\* One move takes what it gives, and gives a positive amount or is none.
LEMMA OneMove ==
    ASSUME NEW u \in Validators, NEW v \in Validators, NEW n \in Int, n > 0
    PROVE  LET move == <<Change(u, -n), Change(v, n)>>
           IN  move \in Seq(Changes) /\ Total(Amounts, move) = 0 /\ Total(Gains, move) = n
<1> DEFINE a == Change(u, -n)
           b == Change(v, n)
<1>1. a \in Changes /\ b \in Changes /\ a.n = -n /\ b.n = n
  BY DEF Change, Changes
<1>2. Amounts[a] = -n /\ Amounts[b] = n
  BY <1>1 DEF Amounts
<1>3. Gains[a] = 0 /\ Gains[b] = n
  BY <1>1 DEF Gains, Most
<1> HIDE DEF a, b
<1>4. /\ <<a, b>> \in Seq(Changes)
      /\ Total(Amounts, <<a, b>>) = Amounts[a] + Amounts[b]
      /\ Total(Gains, <<a, b>>) = Gains[a] + Gains[b]
  BY <1>1, AmountsAreInts, TotalOfTwo
<1> QED BY <1>2, <1>3, <1>4 DEF a, b

\* A plan moves stake between rows: nothing is left over, and no more is given than the
\* unhealthy rows have.
LEMMA MovesStayWithin ==
    ASSUME NEW t \in [Validators -> Row], Unhealthy(t) # {}, DownIn(t) # Validators,
           NEW healthy \in SetToSeqs(Validators \ DownIn(t)), NEW unhealthy \in SetToSeqs(Unhealthy(t))
    PROVE  LET plan == MovesFor(t, healthy, unhealthy)
           IN  /\ plan \in Seq(Changes)
               /\ Total(Amounts, plan) = 0
               /\ Total(Gains, plan) <= StakeOf(t, Unhealthy(t))
<1> DEFINE H == Validators \ DownIn(t)
           U == Unhealthy(t)
           amount == StakeOf(t, U)
           first == Head(unhealthy)
           N(v) == MoveTo(t, unhealthy, v)
           share(v) == ShareOf(t, H, v, amount)
           D == DOMAIN healthy
           moves == [i \in D |-> IF N(healthy[i]) > 0
                                 THEN <<Change(first, -N(healthy[i])), Change(healthy[i], N(healthy[i]))>>
                                 ELSE <<>>]
<1>1. H \in SUBSET Validators /\ U \in SUBSET Validators /\ IsFiniteSet(H) /\ IsFiniteSet(U)
  <2>1. H \in SUBSET Validators /\ U \in SUBSET Validators
    BY DEF Unhealthy, DownIn
  <2> HIDE DEF H, U
  <2> QED BY <2>1, RowsOf
<1>2. /\ healthy \in [1..Cardinality(H) -> H] /\ healthy \in Seq(H)
      /\ Cardinality(H) \in Nat /\ D = 1..Cardinality(H)
      /\ \A i, j \in D : healthy[i] = healthy[j] => i = j
      /\ {healthy[i] : i \in D} = H
  BY <1>1, ListsAll
<1>3. first \in Validators /\ ToSet(unhealthy) = U
  <2>1. /\ unhealthy \in Seq(U) /\ Len(unhealthy) = Cardinality(U) /\ Cardinality(U) \in Nat
        /\ {unhealthy[i] : i \in DOMAIN unhealthy} = U
    BY <1>1, ListsAll
  <2>2. U # {}
    OBVIOUS
  <2> HIDE DEF U
  <2>3. unhealthy # <<>>
    BY <2>1, <2>2
  <2>4. first \in U
    BY <2>1, <2>3, HeadTailProperties
  <2> QED BY <1>1, <2>1, <2>4 DEF ToSet
<1>4. amount \in Nat
  <2>1. \A v \in U : t[v].stake >= 0
    BY <1>1, RowsOf DEF Unhealthy
  <2> HIDE DEF U
  <2> QED BY <1>1, <2>1, ScoresAndStakes
<1> HIDE DEF amount
<1>5. /\ \A v \in H : share(v) \in Nat
      /\ SumFunctionOnSet([v \in H |-> share(v)], H) <= amount
  <2> HIDE DEF H
  <2> QED BY <1>1, <1>4, SharesWithin
<1>6. ASSUME NEW v \in H PROVE N(v) \in Int /\ N(v) <= share(v)
  <2>1. t[first].stake \in Int
    BY <1>3 DEF Row
  <2>2. N(v) = Least(share(v), t[first].stake)
    BY <1>3 DEF MoveTo, amount
  <2>3. share(v) \in Nat
    BY <1>5
  <2> HIDE DEF N, share
  <2> QED BY <2>1, <2>2, <2>3 DEF Least
<1> HIDE DEF N, share, first
<1>7. ASSUME NEW i \in D
      PROVE  /\ moves[i] \in Seq(Changes) /\ Total(Amounts, moves[i]) = 0
             /\ Total(Gains, moves[i]) \in Int /\ Total(Gains, moves[i]) <= share(healthy[i])
  <2> DEFINE v == healthy[i]
             n == N(v)
  <2>1. v \in H /\ v \in Validators
    BY <1>1, <1>2
  <2>2. n \in Int /\ n <= share(v) /\ share(v) \in Nat
    BY <1>5, <1>6, <2>1
  <2>3. moves[i] = IF n > 0 THEN <<Change(first, -n), Change(v, n)>> ELSE <<>>
    OBVIOUS
  <2> HIDE DEF moves, n, v, H
  <2>4. CASE n > 0
    BY <1>3, <2>1, <2>2, <2>3, <2>4, OneMove DEF v
  <2>5. CASE ~(n > 0)
    <3>1. <<>> \in Seq(Changes)
      OBVIOUS
    <3>2. \A a \in Changes : Total(Amounts, <<>>) = 0 /\ Total(Gains, <<>>) = 0
      BY AmountsAreInts, TotalOfTwo
    <3>3. Change(v, 0) \in Changes
      BY <2>1 DEF Change, Changes
    <3> QED BY <2>2, <2>3, <2>5, <3>1, <3>2, <3>3 DEF v
  <2> QED BY <2>4, <2>5
<1>8. MovesFor(t, healthy, unhealthy) = FlattenSeq(moves)
  BY DEF MovesFor, N, first
<1>9. moves \in Seq(Seq(Changes)) /\ DOMAIN moves = D
  <2>1. DOMAIN moves = D
    OBVIOUS
  <2> HIDE DEF moves
  <2>2. \A i \in 1..Cardinality(H) : moves[i] \in Seq(Changes)
    BY <1>2, <1>7
  <2>3. moves = [i \in D |-> moves[i]]
    BY DEF moves
  <2> DEFINE n == Cardinality(H)
  <2>4. n \in Nat /\ D = 1..n /\ \A i \in 1..n : moves[i] \in Seq(Changes)
    BY <1>2, <2>2
  <2> HIDE DEF n, D
  <2>5. moves \in [1..n -> Seq(Changes)]
    BY <2>3, <2>4
  <2> QED BY <2>1, <2>4, <2>5, FunctionIsSeq
<1> HIDE DEF moves, H
<1>10. IsFiniteSet(D)
  <2> DEFINE n == Cardinality(H)
  <2>1. n \in Int /\ D = 1..n
    BY <1>2
  <2> HIDE DEF n, D
  <2> QED BY <2>1, FS_Interval
<1> HIDE DEF D
<1>11. /\ FlattenSeq(moves) \in Seq(Changes)
       /\ Total(Amounts, FlattenSeq(moves)) = SumFunction([i \in D |-> Total(Amounts, moves[i])])
       /\ Total(Gains, FlattenSeq(moves)) = SumFunction([i \in D |-> Total(Gains, moves[i])])
  <2> DEFINE Q == Seq(Changes)
             sums(g) == SumFunction([i \in D |-> Total(g, moves[i])])
  <2>1. ASSUME NEW g \in [Changes -> Int]
        PROVE  /\ FlattenSeq(moves) \in Seq(Changes)
               /\ Total(g, FlattenSeq(moves)) = sums(g)
    <3>1. /\ FlattenSeq(moves) \in Seq(Changes)
          /\ Total(g, FlattenSeq(moves)) = SumFunction([i \in DOMAIN moves |-> Total(g, moves[i])])
      BY <1>9, FlattenTotal
    <3> QED BY <1>9, <3>1
  <2> HIDE DEF sums
  <2>2. Total(Amounts, FlattenSeq(moves)) = sums(Amounts) /\ Total(Gains, FlattenSeq(moves)) = sums(Gains)
    BY <2>1, AmountsAreInts
  <2> QED BY <2>1, <2>2, AmountsAreInts DEF sums
<1>12. SumFunction([i \in D |-> Total(Amounts, moves[i])]) = 0
  <2>1. [i \in D |-> Total(Amounts, moves[i])] = [i \in D |-> 0]
    BY <1>7
  <2> QED BY <1>10, <2>1, SumOfZeros
<1>13. SumFunction([i \in D |-> Total(Gains, moves[i])]) <= amount
  <2> DEFINE gains == [i \in D |-> Total(Gains, moves[i])]
             shares == [v \in H |-> share(v)]
             taken == [i \in D |-> shares[healthy[i]]]
  <2>1. SumFunction(gains) = SumFunctionOnSet(gains, D)
    BY DEF SumFunction
  <2>2. \A i \in D : healthy[i] \in H /\ shares[healthy[i]] = share(healthy[i])
                     /\ share(healthy[i]) \in Nat /\ taken[i] = share(healthy[i])
    BY <1>2, <1>5
  <2>3. \A i \in D : gains[i] \in Int /\ gains[i] <= taken[i] /\ taken[i] \in Int
    BY <1>7, <2>2
  <2>4. SumFunctionOnSet(shares, H) <= amount
    BY <1>5
  <2> HIDE DEF gains, shares
  <2>5. SumFunctionOnSet(taken, D) = SumFunctionOnSet(shares, {healthy[i] : i \in D})
    <3>1. \A i \in D : shares[healthy[i]] \in Int
      BY <2>2
    <3>2. \A i, j \in D : healthy[i] = healthy[j] => i = j
      BY <1>2
    <3> HIDE DEF D
    <3> QED BY <1>10, <3>1, <3>2, SumRenamed
  <2> HIDE DEF taken
  <2>6. /\ SumFunctionOnSet(gains, D) \in Int /\ SumFunctionOnSet(taken, D) \in Int
        /\ SumFunctionOnSet(gains, D) <= SumFunctionOnSet(taken, D)
    BY <1>10, <2>3, SumsOrdered
  <2>7. SumFunction(gains) <= amount
    <3>1. {healthy[i] : i \in D} = H
      BY <1>2
    <3> QED BY <1>4, <2>1, <2>4, <2>5, <2>6, <3>1
  <2> QED BY <2>7 DEF gains
<1> QED BY <1>8, <1>11, <1>12, <1>13 DEF amount

\* Whatever the order of the rows, a reallocation is of that kind, or empty.
LEMMA ReallocationsStayWithin ==
    ASSUME NEW t \in [Validators -> Row], NEW plan \in Reallocations(t)
    PROVE  /\ plan \in Seq(Changes)
           /\ Carried(plan) = 0
           /\ SumFunction([i \in DOMAIN plan |-> Most(plan[i].n, 0)]) <= StakeOf(t, Unhealthy(t))
<1>1. SUFFICES /\ plan \in Seq(Changes) /\ Total(Amounts, plan) = 0
               /\ Total(Gains, plan) <= StakeOf(t, Unhealthy(t))
  BY CarriedIsTotal
<1>2. CASE Cardinality(Validators) < 2 \/ Unhealthy(t) = {} \/ DownIn(t) = Validators
  <2>1. plan = <<>> /\ <<>> \in Seq(Changes)
    BY <1>2 DEF Reallocations
  <2>2. StakeOf(t, Unhealthy(t)) >= 0
    <3>1. Unhealthy(t) \in SUBSET Validators /\ \A v \in Unhealthy(t) : t[v].stake > 0
      BY DEF Unhealthy, DownIn
    <3>2. \A v \in Unhealthy(t) : t[v].stake >= 0
      BY <3>1, RowsOf
    <3> QED BY <3>1, <3>2, ScoresAndStakes
  <2>3. Total(Amounts, <<>>) = 0 /\ Total(Gains, <<>>) = 0
    <3>1. DOMAIN <<>> = {}
      OBVIOUS
    <3>2. \A q : SumFunctionOnSet(q, {}) = 0
      BY SumPick, FS_EmptySet
    <3>3. \A g : Total(g, <<>>) = SumFunctionOnSet([i \in {} |-> g[<<>>[i]]], {})
      BY <3>1 DEF Total, SumFunction
    <3> QED BY <3>2, <3>3
  <2> QED BY <2>1, <2>2, <2>3
<1>3. CASE ~(Cardinality(Validators) < 2 \/ Unhealthy(t) = {} \/ DownIn(t) = Validators)
  <2>1. PICK p \in Ranked(t, Validators \ DownIn(t)) \X Ranked(t, Unhealthy(t)) :
            plan = MovesFor(t, p[1], p[2])
    BY <1>3, Zenon DEF Reallocations
  <2>2. p[1] \in SetToSeqs(Validators \ DownIn(t)) /\ p[2] \in SetToSeqs(Unhealthy(t))
    BY <2>1 DEF Ranked
  <2> DEFINE healthy == p[1]
             unhealthy == p[2]
  <2>3. /\ healthy \in SetToSeqs(Validators \ DownIn(t)) /\ unhealthy \in SetToSeqs(Unhealthy(t))
        /\ plan = MovesFor(t, healthy, unhealthy)
    BY <2>1, <2>2
  <2> HIDE DEF healthy, unhealthy
  <2> QED BY <1>3, <2>3, MovesStayWithin
<1> QED BY <1>2, <1>3

\* The buffer that is kept back is at least its fixed part of the total, and what is
\* left to delegate is never negative.
LEMMA BufferIsKept ==
    ASSUME NEW total \in Nat, NEW withdrawn \in Nat
    PROVE  /\ Delegatable(total, withdrawn) \in Nat
           /\ Delegatable(total, withdrawn) <= total - (total * BufferPercent) \div 100
           /\ RequiredBuffer(total, withdrawn) \in Nat
<1> DEFINE part == (total * BufferPercent) \div 100
           average == (withdrawn * SafetyTenths) \div (LookbackDays * 10)
<1>1. part \in Nat /\ part <= total
  <2> DEFINE n == total * BufferPercent
  <2>1. BufferPercent \in 0..100
    BY DelegationAssumption
  <2>2. n \in Nat /\ n <= total * 100
    BY <2>1
  <2> HIDE DEF n
  <2>3. n \div 100 \in Nat /\ n \div 100 <= total
    BY <2>2
  <2> QED BY <2>3 DEF n
<1>2. average \in Nat
  <2> DEFINE n == withdrawn * SafetyTenths
             d == LookbackDays * 10
  <2>1. n \in Nat /\ d \in Nat \ {0}
    BY DelegationAssumption
  <2> HIDE DEF n, d
  <2>2. n \div d \in Nat
    BY <2>1
  <2> QED BY <2>2 DEF n, d
<1>3. RequiredBuffer(total, withdrawn) = Most(part, average)
  BY DEF RequiredBuffer
<1> HIDE DEF part, average
<1>4. RequiredBuffer(total, withdrawn) \in Nat /\ RequiredBuffer(total, withdrawn) >= part
  BY <1>1, <1>2, <1>3 DEF Most
<1>5. Delegatable(total, withdrawn) = Most(total - RequiredBuffer(total, withdrawn), 0)
  BY DEF Delegatable
<1>6. Delegatable(total, withdrawn) \in Nat /\ Delegatable(total, withdrawn) <= total - part
  BY <1>1, <1>4, <1>5 DEF Most
<1> QED BY <1>4, <1>6 DEF part

\* Rebalancing sets the active rows to no more than what may be delegated, but for
\* corrections too small to be made.
LEMMA RebalancingStaysWithin ==
    ASSUME NEW t \in [Validators -> Row], NEW total \in Nat, NEW withdrawn \in Nat
    PROVE  SumFunction([v \in Active(t) |-> RebalancedStake(t, total, withdrawn)[v] - MinDelta])
                <= Delegatable(total, withdrawn)
<1> DEFINE A == Active(t)
           free == Delegatable(total, withdrawn)
           target == RebalancedStake(t, total, withdrawn)
           less == [v \in A |-> target[v] - MinDelta]
           share(v) == ShareOf(t, A, v, free)
           shares == [v \in A |-> share(v)]
<1>1. A \in SUBSET Validators /\ free \in Nat /\ MinDelta \in Nat
  BY BufferIsKept, DelegationAssumption DEF Active
<1> HIDE DEF free
<1>2. ASSUME NEW v \in A
      PROVE  target[v] = LET gap == share(v) - t[v].stake
                         IN  IF (IF gap < 0 THEN -gap ELSE gap) < MinDelta THEN t[v].stake ELSE share(v)
  <2>1. v \in Validators
    BY <1>1
  <2> QED BY <2>1 DEF RebalancedStake, free
<1> HIDE DEF A, target
<1>3. IsFiniteSet(A) /\ \A v \in A : t[v].stake \in Int
  BY <1>1, RowsOf
<1>4. (\A v \in A : share(v) \in Nat) /\ SumFunctionOnSet(shares, A) <= free
  BY <1>1, SharesWithin
<1>5. ASSUME NEW v \in A PROVE less[v] \in Int /\ shares[v] \in Int /\ less[v] <= shares[v]
  <2>1. less[v] = target[v] - MinDelta /\ shares[v] = share(v)
    OBVIOUS
  <2>2. share(v) \in Nat /\ t[v].stake \in Int
    BY <1>3, <1>4
  <2> HIDE DEF less, shares, share
  <2> QED BY <1>1, <1>2, <2>1, <2>2
<1>6. SumFunction(less) = SumFunctionOnSet(less, A)
  BY DEF SumFunction
<1> HIDE DEF less, shares, share
<1>7. /\ SumFunctionOnSet(less, A) \in Int /\ SumFunctionOnSet(shares, A) \in Int
      /\ SumFunctionOnSet(less, A) <= SumFunctionOnSet(shares, A)
  BY <1>3, <1>5, SumsOrdered
<1>8. SumFunction(less) <= free
  BY <1>1, <1>4, <1>6, <1>7
<1> QED BY <1>8 DEF less, A, target, free

\* A deposit is shared out with at most half of it kept back, and never more than it.
LEMMA DepositsStayWithin ==
    ASSUME NEW t \in [Validators -> Row], NEW amount \in Nat, NEW withdrawn \in Nat
    PROVE  SumFunction(DepositShares(t, amount, withdrawn)) <= amount
<1> DEFINE A == Active(t)
           buffer == Least(RequiredBuffer(amount, withdrawn), (amount + 1) \div 2)
           rest == amount - buffer
           shares == [v \in A |-> ShareOf(t, A, v, rest)]
<1>1. A \in SUBSET Validators
  BY DEF Active
<1>2. rest \in Nat /\ rest <= amount
  <2>1. RequiredBuffer(amount, withdrawn) \in Nat
    BY BufferIsKept
  <2> QED BY <2>1 DEF Least
<1>3. DepositShares(t, amount, withdrawn) = shares
  BY DEF DepositShares
<1>4. SumFunction(shares) = SumFunctionOnSet(shares, A)
  BY DEF SumFunction
<1> HIDE DEF rest, A
<1>5. SumFunctionOnSet(shares, A) <= rest /\ IsFiniteSet(A) /\ \A v \in A : shares[v] \in Int
  BY <1>1, <1>2, SharesWithin, RowsOf
<1> HIDE DEF shares
<1>6. SumFunctionOnSet(shares, A) \in Int
  BY <1>5, SumInt
<1> QED BY <1>2, <1>3, <1>4, <1>5, <1>6

\* Of finitely many rows, one has the highest score.
LEMMA HighestScore ==
    ASSUME NEW t \in [Validators -> Row], NEW S \in SUBSET Validators, S # {}
    PROVE  \E x \in S : \A y \in S : t[y].score <= t[x].score
<1> DEFINE Top(U) == \E x \in U : \A y \in U : t[y].score <= t[x].score
           G == {U \in SUBSET S : U = {} \/ Top(U)}
<1>1. IsFiniteSet(S) /\ \A v \in S : t[v].score \in Nat
  BY RowsOf
<1>2. {} \in G
  OBVIOUS
<1>3. ASSUME NEW U \in SUBSET S, NEW x \in S, U \in G, x \notin U PROVE U \cup {x} \in G
  <2>1. CASE U = {}
    <3>1. Top({x})
      BY <1>1
    <3>2. U \cup {x} = {x}
      BY <2>1
    <3> HIDE DEF Top
    <3> QED BY <3>1, <3>2
  <2>2. CASE U # {}
    <3>1. PICK z \in U : \A y \in U : t[y].score <= t[z].score
      BY <1>3, <2>2
    <3>2. CASE t[x].score <= t[z].score
      BY <3>1, <3>2
    <3>3. CASE ~(t[x].score <= t[z].score)
      <4>1. \A y \in U \cup {x} : t[y].score <= t[x].score
        BY <1>1, <3>1, <3>3
      <4> QED BY <4>1
    <3> QED BY <3>2, <3>3
  <2> QED BY <2>1, <2>2
<1>4. S \in G
  <2> HIDE DEF G
  <2> QED BY <1>1, <1>2, <1>3, PartInduction
<1> QED BY <1>4

\* A list of all members of S, those with the lowest score first.
Ascends(t, S, q) == q \in SetToSeqs(S) /\ \A i, j \in DOMAIN q : i < j => t[q[i]].score <= t[q[j]].score

\* There is such a list of any rows.
LEMMA AscendingExists ==
    ASSUME NEW t \in [Validators -> Row], NEW S \in SUBSET Validators
    PROVE  \E q : Ascends(t, S, q)
<1> DEFINE G == {n \in Nat : \A T \in SUBSET Validators : Cardinality(T) = n => \E q : Ascends(t, T, q)}
<1>1. 0 \in G
  <2> SUFFICES ASSUME NEW T \in SUBSET Validators, Cardinality(T) = 0
               PROVE  \E q : Ascends(t, T, q)
    OBVIOUS
  <2> DEFINE q == [i \in 1..0 |-> i]
  <2>1. IsFiniteSet(T) /\ T = {}
    BY RowsOf, FS_EmptySet
  <2>2. q \in SetToSeqs(T) /\ DOMAIN q = {}
    BY <2>1 DEF SetToSeqs
  <2> HIDE DEF q
  <2>3. Ascends(t, T, q)
    BY <2>2 DEF Ascends
  <2> QED BY <2>3
<1>2. ASSUME NEW n \in Nat, n \in G PROVE n + 1 \in G
  <2> SUFFICES ASSUME NEW T \in SUBSET Validators, Cardinality(T) = n + 1
               PROVE  \E q : Ascends(t, T, q)
    OBVIOUS
  <2>1. IsFiniteSet(T) /\ T # {}
    BY RowsOf, FS_EmptySet
  <2>2. PICK x \in T : \A y \in T : t[y].score <= t[x].score
    BY <2>1, HighestScore
  <2> DEFINE U == T \ {x}
  <2>3. U \in SUBSET Validators /\ Cardinality(U) = n
    <3>1. Cardinality(U) = Cardinality(T) - 1
      BY <2>1, FS_RemoveElement
    <3> QED BY <3>1
  <2>4. PICK p : Ascends(t, U, p)
    BY <1>2, <2>3
  <2>5. p \in [1..n -> U] /\ \A i, j \in 1..n : i # j => p[i] # p[j]
    BY <2>3, <2>4 DEF Ascends, SetToSeqs
  <2>6. \A i, j \in 1..n : i < j => t[p[i]].score <= t[p[j]].score
    BY <2>4, <2>5 DEF Ascends
  <2> DEFINE D == 1..n+1
             q == [i \in D |-> IF i = n + 1 THEN x ELSE p[i]]
  <2>7. \A i \in D : (i = n + 1 /\ q[i] = x) \/ (i \in 1..n /\ q[i] = p[i] /\ p[i] \in U)
    BY <2>5
  <2>8. q \in [D -> T]
    BY <2>7
  <2>9. \A i, j \in D : i # j => q[i] # q[j]
    <3> HIDE DEF q
    <3> QED BY <2>5, <2>7
  <2>10. \A i, j \in D : i < j => t[q[i]].score <= t[q[j]].score
    <3> HIDE DEF q
    <3>1. ASSUME NEW i \in D, NEW j \in D, i < j PROVE t[q[i]].score <= t[q[j]].score
      <4>1. i \in 1..n /\ q[i] = p[i] /\ p[i] \in U
        BY <2>7, <3>1
      <4>2. CASE j = n + 1
        BY <2>2, <2>7, <4>1, <4>2
      <4>3. CASE j # n + 1
        BY <2>6, <2>7, <3>1, <4>1, <4>3
      <4> QED BY <4>2, <4>3
    <3> QED BY <3>1
  <2>11. DOMAIN q = D /\ D = 1..Cardinality(T)
    OBVIOUS
  <2> HIDE DEF q, D
  <2>12. Ascends(t, T, q)
    BY <2>8, <2>9, <2>10, <2>11 DEF Ascends, SetToSeqs
  <2> QED BY <2>12
<1>3. Nat \subseteq G
  <2> HIDE DEF G
  <2> QED BY <1>1, <1>2, CountingInduction
<1>4. Cardinality(S) \in Nat
  BY RowsOf, FS_CardinalityType
<1> QED BY <1>3, <1>4

\* A withdrawal takes from each row what it has at most, and the amount, or all there is.
LEMMA WithdrawalStaysWithin ==
    ASSUME NEW t \in [Validators -> Row], NEW amount \in Nat, NEW order \in LowestFirst(t)
    PROVE  LET cuts == WithdrawalCuts(t, order, amount)
           IN  /\ \A i \in DOMAIN cuts : cuts[i] <= t[order[i]].stake
               /\ SumFunction(cuts) = Least(amount, StakeOf(t, ToSet(order)))
<1> DEFINE held == {v \in Validators : t[v].stake > 0}
           stakes == [v \in Validators |-> t[v].stake]
           n == Cardinality(held)
           D == 1..n
           k == [i \in D |-> stakes[order[i]]]
           cuts == WithdrawalCuts(t, order, amount)
           P(m) == SumFunctionOnSet(k, 1..m)
<1>1. order \in SetToSeqs(held) /\ held \in SUBSET Validators /\ IsFiniteSet(held)
  BY RowsOf DEF LowestFirst
<1>2. /\ order \in [D -> held] /\ DOMAIN order = D /\ n \in Nat
      /\ \A i, j \in D : order[i] = order[j] => i = j
      /\ {order[i] : i \in D} = held
  <2> HIDE DEF held
  <2> QED BY <1>1, ListsAll
<1>3. IsFiniteSet(D)
  <2>1. n \in Int
    BY <1>2
  <2> HIDE DEF n
  <2> QED BY <2>1, FS_Interval
<1>4. \A i \in D : /\ k[i] = stakes[order[i]] /\ k[i] = t[order[i]].stake
                   /\ stakes[order[i]] \in Int /\ k[i] \in Int /\ k[i] > 0
  BY <1>1, <1>2, RowsOf
<1>5. P(n) = StakeOf(t, ToSet(order))
  <2>1. ToSet(order) = held
    BY <1>2 DEF ToSet
  <2> DEFINE some == [v \in held |-> t[v].stake]
  <2>2. StakeOf(t, held) = SumFunctionOnSet(some, held)
    BY DEF StakeOf, SumFunction
  <2>3. \A v \in held : some[v] = stakes[v]
    OBVIOUS
  <2> HIDE DEF some, stakes, held, D, n
  <2>4. SumFunctionOnSet(some, held) = SumFunctionOnSet(stakes, held)
    BY <1>1, <2>3, SumAgree
  <2>5. SumFunctionOnSet([i \in D |-> stakes[order[i]]], D) = SumFunctionOnSet(stakes, {order[i] : i \in D})
    BY <1>2, <1>3, <1>4, SumRenamed
  <2>6. P(n) = SumFunctionOnSet(k, D)
    BY DEF D
  <2>7. SumFunctionOnSet(k, D) = SumFunctionOnSet(stakes, held)
    BY <1>2, <2>5 DEF k
  <2> QED BY <2>1, <2>2, <2>4, <2>6, <2>7
<1>6. ASSUME NEW i \in D
      PROVE  /\ cuts[i] = Most(Least(amount - P(i - 1), k[i]), 0)
             /\ P(i - 1) \in Int /\ P(i) = P(i - 1) + k[i]
  <2> DEFINE E == 1..i-1
             part == [j \in E |-> t[order[j]].stake]
  <2>1. i - 1 \in Nat /\ IsFiniteSet(E) /\ (\A j \in E : j \in D) /\ i \notin E /\ 1..i = E \cup {i}
    <3>1. i - 1 \in Nat /\ (\A j \in E : j \in D) /\ i \notin E /\ 1..i = E \cup {i}
      <4>1. n \in Nat /\ i \in 1..n
        BY <1>2
      <4> HIDE DEF n
      <4> QED BY <4>1
    <3>2. IsFiniteSet(E)
      <4> DEFINE m == i - 1
      <4>1. m \in Nat
        BY <3>1
      <4> HIDE DEF m
      <4> QED BY <4>1, FS_Interval DEF m
    <3> QED BY <3>1, <3>2
  <2>2. cuts[i] = Most(Least(amount - SumFunction(part), k[i]), 0)
    BY <1>2, <1>4 DEF WithdrawalCuts
  <2>3. SumFunction(part) = SumFunctionOnSet(part, E)
    BY DEF SumFunction
  <2>4. (\A j \in E : part[j] = k[j]) /\ \A j \in E \cup {i} : k[j] \in Int
    BY <1>4, <2>1
  <2> HIDE DEF part, k, E, cuts
  <2>5. SumFunctionOnSet(part, E) = SumFunctionOnSet(k, E)
    BY <2>1, <2>4, SumAgree
  <2>6. SumFunctionOnSet(k, E \cup {i}) = SumFunctionOnSet(k, E) + k[i]
    BY <2>1, <2>4, SumPut
  <2>7. SumFunctionOnSet(k, E) \in Int
    BY <2>1, <2>4, SumInt
  <2> QED BY <2>1, <2>2, <2>3, <2>5, <2>6, <2>7 DEF E
<1>7. DOMAIN cuts = D
  BY <1>2 DEF WithdrawalCuts
<1> HIDE DEF cuts, k
<1> DEFINE G == {m \in Nat : m <= n => SumFunctionOnSet(cuts, 1..m) = Least(amount, P(m))}
<1>8. 0 \in G
  <2>1. 1..0 = {}
    OBVIOUS
  <2>2. \A q : SumFunctionOnSet(q, {}) = 0
    BY SumPick, FS_EmptySet
  <2>3. SumFunctionOnSet(cuts, 1..0) = 0 /\ P(0) = 0
    BY <2>1, <2>2
  <2> HIDE DEF P
  <2> QED BY <2>3 DEF Least
<1>9. ASSUME NEW i \in D
      PROVE  cuts[i] \in Int /\ cuts[i] <= k[i] /\ Least(amount, P(i - 1)) + cuts[i] = Least(amount, P(i))
  <2> DEFINE a == P(i - 1)
             b == P(i)
             cut == cuts[i]
             stake == k[i]
  <2>1. cut = Most(Least(amount - a, stake), 0) /\ a \in Int /\ b = a + stake /\ stake \in Int /\ stake > 0
    BY <1>4, <1>6
  <2>2. cut \in Int /\ cut <= stake /\ Least(amount, a) + cut = Least(amount, b)
    <3> HIDE DEF a, b, cut, stake
    <3> QED BY <2>1 DEF Most, Least
  <2> QED BY <2>2
<1>10. ASSUME NEW m \in Nat, m \in G PROVE m + 1 \in G
  <2> SUFFICES ASSUME m + 1 <= n
               PROVE  SumFunctionOnSet(cuts, 1..m+1) = Least(amount, P(m + 1))
    OBVIOUS
  <2> DEFINE i == m + 1
             E == 1..m
  <2>1. i \in D /\ i - 1 = m /\ m <= n /\ i \notin E /\ 1..i = E \cup {i} /\ \A j \in E : j \in D
    <3>1. n \in Nat
      BY <1>2
    <3> HIDE DEF n
    <3> QED BY <3>1
  <2>2. SumFunctionOnSet(cuts, E) = Least(amount, P(m))
    BY <1>10, <2>1
  <2>3. IsFiniteSet(E)
    BY FS_Interval
  <2> HIDE DEF i, E, P
  <2>4. \A j \in E \cup {i} : cuts[j] \in Int
    BY <1>9, <2>1
  <2>5. SumFunctionOnSet(cuts, E \cup {i}) = SumFunctionOnSet(cuts, E) + cuts[i]
    BY <2>1, <2>3, <2>4, SumPut
  <2>6. Least(amount, P(m)) + cuts[i] = Least(amount, P(i))
    BY <1>9, <2>1
  <2> QED BY <2>1, <2>2, <2>5, <2>6 DEF i
<1>11. Nat \subseteq G
  <2> HIDE DEF G
  <2> QED BY <1>8, <1>10, CountingInduction
<1>12. SumFunctionOnSet(cuts, D) = Least(amount, P(n))
  BY <1>2, <1>11
<1>13. SumFunction(cuts) = SumFunctionOnSet(cuts, D)
  BY <1>7 DEF SumFunction
<1>14. \A i \in D : cuts[i] <= t[order[i]].stake
  BY <1>4, <1>9
<1> QED BY <1>5, <1>7, <1>12, <1>13, <1>14 DEF cuts

\* On every table the plans stay within what there is.
LEMMA PlansOfATable == TableTypeOK => PlansStayWithin
<1> SUFFICES ASSUME TableTypeOK PROVE PlansStayWithin
  OBVIOUS
<1>1. table \in [Validators -> Row]
  BY DEF TableTypeOK
<1> DEFINE t == table
<1>2. t \in [Validators -> Row]
  BY <1>1
<1> HIDE DEF t
<1>3. \A plan \in Reallocations(t) :
         /\ Carried(plan) = 0
         /\ SumFunction([i \in DOMAIN plan |-> Most(plan[i].n, 0)]) <= StakeOf(t, Unhealthy(t))
  BY <1>2, ReallocationsStayWithin
<1>4. \A total \in {7, 20} :
         /\ Delegatable(total, 1) <= total - (total * BufferPercent) \div 100
         /\ SumFunction([v \in Active(t) |-> RebalancedStake(t, total, 1)[v] - MinDelta]) <= Delegatable(total, 1)
         /\ SumFunction(DepositShares(t, total, 20)) <= total
  BY <1>2, BufferIsKept, RebalancingStaysWithin, DepositsStayWithin
<1>5. \E order \in LowestFirst(t) :
         LET cuts == WithdrawalCuts(t, order, 25) IN
         /\ \A i \in DOMAIN cuts : cuts[i] <= t[order[i]].stake
         /\ SumFunction(cuts) = Least(25, StakeOf(t, ToSet(order)))
  <2> DEFINE held == {v \in Validators : t[v].stake > 0}
  <2>1. PICK q : Ascends(t, held, q)
    <3>1. held \in SUBSET Validators
      OBVIOUS
    <3> HIDE DEF held
    <3> QED BY <1>2, <3>1, AscendingExists
  <2>2. q \in LowestFirst(t)
    BY <2>1 DEF Ascends, LowestFirst
  <2> QED BY <1>2, <2>2, WithdrawalStaysWithin
<1> QED BY <1>3, <1>4, <1>5 DEF PlansStayWithin, t
-----------------------------------------------------------------------------
(* What the memory of each caller and its call say of one another. *)

Calls == {"pausing", "unpausing"}

\* A check has a call exactly when it pauses or unpauses.
FitsCheck(k, p) ==
    /\ p.at \in {"idle", "decide", "pausing", "unpausing", "risks"}
    /\ p.at \in Calls => k # NoCall /\ p = [at |-> p.at, risks |-> p.risks]
    /\ p.at \notin Calls => k = NoCall
    /\ p.at = "pausing" => k.op = [is |-> "pause"]
    /\ p.at = "unpausing" => k.op = [is |-> "unpause"]

\* A handler has one exactly when it slashes, of the amount that it remembers.
FitsTask(k, p) ==
    /\ p.at \in {"idle", "find", "slashing", "totals", "list", "move", "rewrite"}
    /\ p.at = "find" => p.validator \in Validators
    /\ p.at \in {"slashing", "totals"} => p.n \in Nat
    /\ p.at = "slashing" => k # NoCall /\ k.op = [is |-> "slash", n |-> p.n]
    /\ p.at # "slashing" => k = NoCall
    /\ p.at = "list" => p.new \in Nat /\ p.old \in Nat
    /\ p.at \in {"move", "rewrite"} => p = [at |-> p.at, left |-> p.left] /\ p.left # <<>>
    /\ p.at = "move" => p.left \in Seq(Changes)
    /\ p.at = "rewrite" => p.left \in Seq(Payouts \X Nat)

FitsAdmin(k, p) ==
    /\ p.at \in {"idle", "commanding", "slashing", "recalibrating"}
    /\ p.at = "idle" <=> k = NoCall
    /\ p.at = "commanding" => k.op.is \in {"pause", "unpause"}
    /\ p.at \in {"slashing", "recalibrating"} => p = [at |-> p.at, n |-> p.n] /\ p.n \in Nat
    /\ p.at = "slashing" => k.op = [is |-> "slash", n |-> p.n]
    /\ p.at = "recalibrating" => k.op = [is |-> "recalibrate"]

Fits(c, k, p) ==
    /\ \/ k = NoCall
       \/ k = [step |-> k.step, op |-> k.op] /\ k.step \in Step
    /\ c \in Checks => FitsCheck(k, p)
    /\ c \in Tasks => FitsTask(k, p)
    /\ c = Admin => FitsAdmin(k, p)

Fit ==
    /\ calls = [c \in Callers |-> calls[c]] /\ procs = [c \in Callers |-> procs[c]]
    /\ \A c \in Callers : Fits(c, calls[c], procs[c])

\* No call threw and the backend did not restart.
Smooth == slips \subseteq {"crossed", "overtaken", "admin"}

\* The pool has one transaction at most, of a caller that waits for it: if nothing threw
\* but perhaps the recalibration, which may be left behind.
PoolFits ==
    /\ \A tx1, tx2 \in pool : tx1 = tx2
    /\ \A tx \in pool : tx.op.is = "slash" => tx.op.n \in Nat
    /\ \A c \in Callers : StepOf(c, "sent") => pool = {[by |-> c, op |-> calls[c].op]}
    /\ Smooth => \A tx \in pool : /\ tx.by \in Callers
                                  /\ StepOf(tx.by, "sent") \/ tx.op = [is |-> "recalibrate"]
    /\ At(Admin, "idle") \/ "admin" \in slips

FetchFits ==
    \/ fetch = Idle
    \/ fetch = [at |-> "measure", left |-> fetch.left] /\ fetch.left \in Seq(Validators)
    \/ /\ fetch = [at |-> fetch.at, left |-> fetch.left, row |-> fetch.row]
       /\ fetch.at \in {"write", "alert"}
       /\ fetch.left \in Seq(Validators) /\ fetch.left # <<>> /\ fetch.row \in Row

Books ==
    /\ table \in [Validators -> Row]
    /\ staked \in Nat /\ staked <= StakedAtStart /\ owed \in [Payouts -> Nat]
    /\ booked \in Int

Shape == Fit /\ PoolFits /\ Books
-----------------------------------------------------------------------------
(* Every step keeps memory and calls together. *)

\* A check, a handler and the admin are three different things.
LEMMA Roles ==
    /\ Admin \in Callers /\ Checks \subseteq Callers /\ Tasks \subseteq Callers
    /\ \A c \in Callers : c \in Checks \/ c \in Tasks \/ c = Admin
    /\ \A c \in Checks : c \notin Tasks /\ c # Admin
    /\ \A c \in Tasks : c \notin Checks /\ c # Admin
BY RiskAssumption

\* The call and the memory of c are k and p from now on, those of the others stay.  A
\* call that was sent is only given up if something is thrown, or is the recalibration.
Turn(c, k, p) ==
    /\ calls' = [calls EXCEPT ![c] = k] /\ procs' = [procs EXCEPT ![c] = p]
    /\ pool' = pool /\ slips \subseteq slips'
    /\ Fits(c, k, p)
    /\ k.step = "sent" => k = calls[c]
    /\ StepOf(c, "sent") /\ Smooth' => k = calls[c] \/ calls[c].op = [is |-> "recalibrate"]
    /\ c = Admin /\ p.at # "idle" => "admin" \in slips'

\* The others are not touched by a turn.
LEMMA TurnOf ==
    ASSUME Fit, NEW c \in Callers, NEW k, NEW p, Turn(c, k, p)
    PROVE  /\ calls'[c] = k /\ procs'[c] = p
           /\ \A d \in Callers : d # c => calls'[d] = calls[d] /\ procs'[d] = procs[d]
BY DEF Fit, Turn

\* A turn keeps memory, calls and pool in step.
LEMMA TurnKeepsFit ==
    ASSUME Fit, PoolFits, NEW c \in Callers, NEW k, NEW p, Turn(c, k, p)
    PROVE  Fit' /\ PoolFits'
<1>1. /\ calls'[c] = k /\ procs'[c] = p
      /\ \A d \in Callers : d # c => calls'[d] = calls[d] /\ procs'[d] = procs[d]
  BY TurnOf
<1>2. pool' = pool /\ slips \subseteq slips' /\ Fits(c, k, p)
  BY DEF Turn
<1>3. Fit'
  <2>1. calls' = [d \in Callers |-> calls'[d]] /\ procs' = [d \in Callers |-> procs'[d]]
    BY DEF Fit, Turn
  <2>2. \A d \in Callers : Fits(d, calls'[d], procs'[d])
    BY <1>1, <1>2 DEF Fit
  <2> QED BY <2>1, <2>2 DEF Fit
<1>4. PoolFits'
  <2>1. ASSUME NEW d \in Callers, calls'[d].step = "sent"
        PROVE  pool' = {[by |-> d, op |-> calls'[d].op]}
    <3>1. calls'[d] = calls[d]
      BY <1>1, <2>1 DEF Turn
    <3> QED BY <1>2, <2>1, <3>1 DEF PoolFits, StepOf
  <2>2. ASSUME Smooth', NEW tx \in pool
        PROVE  tx.by \in Callers /\ (calls'[tx.by].step = "sent" \/ tx.op = [is |-> "recalibrate"])
    <3>1. Smooth
      BY <1>2, <2>2 DEF Smooth
    <3>2. tx.by \in Callers /\ (calls[tx.by].step = "sent" \/ tx.op = [is |-> "recalibrate"])
      BY <2>2, <3>1 DEF PoolFits, StepOf
    <3>3. CASE tx.by = c /\ calls[c].step = "sent"
      <4>1. tx.op = calls[c].op
        BY <2>2, <3>3 DEF PoolFits, StepOf
      <4> QED BY <1>1, <2>2, <3>2, <3>3, <4>1 DEF Turn, StepOf
    <3> QED BY <1>1, <3>2, <3>3
  <2>3. procs'[Admin].at = "idle" \/ "admin" \in slips'
    BY <1>1, <1>2, Roles DEF Turn, PoolFits, At
  <2> QED BY <1>2, <2>1, <2>2, <2>3 DEF PoolFits, StepOf, At
<1> QED BY <1>3, <1>4

\* A call ends when it is done, or because something was thrown.
LEMMA EndsOf ==
    ASSUME NEW c, CallEnds(c)
    PROVE  /\ calls' = [calls EXCEPT ![c] = NoCall] /\ pool' = pool /\ slips \subseteq slips'
           /\ calls[c].step = "sent" => ~Smooth'
           /\ calls[c].step # "done" => ~Smooth'
<1>1. CASE Return(c) /\ UNCHANGED slips
  BY <1>1 DEF Return, StepOf
<1>2. CASE Throw(c) /\ Slip("threw")
  BY <1>2 DEF Throw, Slip, Smooth
<1> QED BY <1>1, <1>2 DEF CallEnds

\* The calls that a check makes.
LEMMA CheckCalls ==
    ASSUME NEW r
    PROVE  /\ FitsCheck([step |-> "asked", op |-> [is |-> "pause"]], [at |-> "pausing", risks |-> r])
           /\ FitsCheck([step |-> "asked", op |-> [is |-> "unpause"]], [at |-> "unpausing", risks |-> r])
<1>1. ASSUME NEW what \in {"pause", "unpause"}, NEW at \in {"pausing", "unpausing"},
             what = "pause" <=> at = "pausing"
      PROVE  FitsCheck([step |-> "asked", op |-> [is |-> what]], [at |-> at, risks |-> r])
  <2> DEFINE k == [step |-> "asked", op |-> [is |-> what]]
             p == [at |-> at, risks |-> r]
  <2>1. k.step = "asked" /\ k.op = [is |-> what] /\ p.at = at /\ p = [at |-> p.at, risks |-> p.risks]
    OBVIOUS
  <2>2. NoCall.step = "none"
    BY DEF NoCall
  <2> HIDE DEF k, p
  <2>3. k # NoCall
    BY <2>1, <2>2
  <2>4. FitsCheck(k, p)
    BY <1>1, <2>1, <2>3 DEF FitsCheck, Calls
  <2> QED BY <2>4 DEF k, p
<1> QED BY <1>1

\* The steps of a check are turns.
LEMMA CheckTurns ==
    ASSUME Fit, NEW c \in Checks, CheckStep(c)
    PROVE  \E k, p : Turn(c, k, p)
<1>1. c \in Callers /\ c \notin Tasks /\ c # Admin
  BY Roles
<1>2. Fits(c, calls[c], procs[c]) /\ FitsCheck(calls[c], procs[c])
  BY <1>1 DEF Fit, Fits
<1>3. \A k, p : Fits(c, k, p) <=> /\ \/ k = NoCall
                                     \/ k = [step |-> k.step, op |-> k.op] /\ k.step \in Step
                                  /\ FitsCheck(k, p)
  BY <1>1 DEF Fits
<1>4. calls = [calls EXCEPT ![c] = calls[c]] /\ procs = [procs EXCEPT ![c] = procs[c]]
  BY <1>1 DEF Fit
<1>5. NoCall.step = "none"
  BY DEF NoCall
<1>6. CASE StartCheck(c)
  <2> DEFINE p == [at |-> "decide", seen |-> Seen(table)]
  <2>1. calls[c] = NoCall
    BY <1>2, <1>6 DEF StartCheck, At, FitsCheck, Calls
  <2>2. FitsCheck(NoCall, p)
    BY DEF FitsCheck, Calls
  <2>3. procs' = [procs EXCEPT ![c] = p] /\ calls' = calls /\ pool' = pool /\ slips' = slips
    BY <1>6 DEF StartCheck, Goes, operatorVars
  <2> HIDE DEF p
  <2>4. Turn(c, NoCall, p)
    BY <1>1, <1>3, <1>4, <1>5, <2>1, <2>2, <2>3 DEF Turn
  <2> QED BY <2>4
<1>7. CASE Decide(c)
  <2>1. calls[c] = NoCall
    BY <1>2, <1>7 DEF Decide, At, FitsCheck, Calls
  <2>2. pool' = pool /\ slips' = slips
    BY <1>7 DEF Decide
  <2>3. \E k, p : /\ calls' = [calls EXCEPT ![c] = k] /\ procs' = [procs EXCEPT ![c] = p]
                  /\ FitsCheck(k, p)
                  /\ \/ k = NoCall
                     \/ k = [step |-> k.step, op |-> k.op] /\ k.step = "asked"
    <3> DEFINE r == procs[c].seen.risks
               Is(what) == [step |-> "asked", op |-> [is |-> what]]
    <3>1. CASE /\ calls' = [calls EXCEPT ![c] = Is("pause")]
               /\ procs' = [procs EXCEPT ![c] = [at |-> "pausing", risks |-> r]]
      <4> DEFINE k == Is("pause")
                 p == [at |-> "pausing", risks |-> r]
      <4>1. FitsCheck(k, p)
        BY CheckCalls, Zenon
      <4>2. k = [step |-> k.step, op |-> k.op] /\ k.step = "asked"
        OBVIOUS
      <4>3. calls' = [calls EXCEPT ![c] = k] /\ procs' = [procs EXCEPT ![c] = p]
        BY <3>1
      <4> HIDE DEF k, p
      <4> QED BY <4>1, <4>2, <4>3
    <3>2. CASE /\ calls' = [calls EXCEPT ![c] = Is("unpause")]
               /\ procs' = [procs EXCEPT ![c] = [at |-> "unpausing", risks |-> r]]
      <4> DEFINE k == Is("unpause")
                 p == [at |-> "unpausing", risks |-> r]
      <4>1. FitsCheck(k, p)
        BY CheckCalls, Zenon
      <4>2. k = [step |-> k.step, op |-> k.op] /\ k.step = "asked"
        OBVIOUS
      <4>3. calls' = [calls EXCEPT ![c] = k] /\ procs' = [procs EXCEPT ![c] = p]
        BY <3>2
      <4> HIDE DEF k, p
      <4> QED BY <4>1, <4>2, <4>3
    <3>3. CASE calls' = calls /\ procs' = [procs EXCEPT ![c] = [at |-> "risks", risks |-> r]]
      <4>1. FitsCheck(NoCall, [at |-> "risks", risks |-> r])
        BY DEF FitsCheck, Calls
      <4> QED BY <1>4, <1>5, <2>1, <3>3, <4>1
    <3> QED BY <1>7, <3>1, <3>2, <3>3 DEF Decide, Begin, Goes
  <2>4. PICK k, p : /\ calls' = [calls EXCEPT ![c] = k] /\ procs' = [procs EXCEPT ![c] = p]
                    /\ FitsCheck(k, p)
                    /\ \/ k = NoCall
                       \/ k = [step |-> k.step, op |-> k.op] /\ k.step = "asked"
    BY <2>3
  <2>5. Fits(c, k, p)
    BY <1>3, <2>4 DEF Step
  <2>6. Turn(c, k, p)
    BY <1>1, <1>5, <2>1, <2>2, <2>4, <2>5 DEF Turn, StepOf
  <2> QED BY <2>6
<1>8. CASE AfterPause(c) \/ AfterUnpause(c)
  <2> DEFINE p == [procs[c] EXCEPT !.at = "risks"]
  <2>1. CallEnds(c) /\ procs' = [procs EXCEPT ![c] = p] /\ procs[c].at \in Calls
    BY <1>8 DEF AfterPause, AfterUnpause, Goes, At, Calls
  <2>2. p.at = "risks"
    BY <1>2, <2>1 DEF FitsCheck
  <2>3. FitsCheck(NoCall, p)
    <3> HIDE DEF p
    <3> QED BY <2>2 DEF FitsCheck, Calls
  <2> HIDE DEF p
  <2>4. Fits(c, NoCall, p)
    BY <1>3, <2>3
  <2>5. Turn(c, NoCall, p)
    BY <1>1, <1>5, <2>1, <2>4, EndsOf DEF Turn, StepOf
  <2> QED BY <2>5
<1>9. CASE ReportRisks(c)
  <2>1. calls[c] = NoCall
    BY <1>2, <1>9 DEF ReportRisks, At, FitsCheck, Calls
  <2>2. FitsCheck(NoCall, Idle)
    BY DEF FitsCheck, Calls, Idle
  <2>3. procs' = [procs EXCEPT ![c] = Idle] /\ calls' = calls /\ pool' = pool /\ slips' = slips
    BY <1>9 DEF ReportRisks, Ends, Goes, operatorVars
  <2>4. Turn(c, NoCall, Idle)
    BY <1>1, <1>3, <1>4, <1>5, <2>1, <2>2, <2>3 DEF Turn
  <2> QED BY <2>4
<1> QED BY <1>6, <1>7, <1>8, <1>9 DEF CheckStep

\* What is left of a list of one update or more.
LEMMA RestOf ==
    ASSUME NEW S, NEW left \in Seq(S), left # <<>>
    PROVE  /\ Head(left) = left[1] /\ Head(left) \in S /\ Tail(left) \in Seq(S)
           /\ Len(left) \in Nat /\ Len(left) > 0 /\ DOMAIN left = 1..Len(left)
           /\ Tail(left) = <<>> <=> Len(left) = 1
           /\ DOMAIN Tail(left) = 1..Len(left)-1
           /\ \A i \in 1..Len(left)-1 : Tail(left)[i] = left[i + 1]
<1>1. /\ Head(left) \in S /\ Tail(left) \in Seq(S) /\ Len(Tail(left)) = Len(left) - 1
      /\ \A i \in 1..Len(Tail(left)) : Tail(left)[i] = left[i + 1]
  BY HeadTailProperties
<1>2. Len(left) \in Nat /\ Len(left) > 0 /\ DOMAIN left = 1..Len(left) /\ Head(left) = left[1]
  BY LenProperties, EmptySeq
<1>3. DOMAIN Tail(left) = 1..Len(Tail(left)) /\ (Tail(left) = <<>> <=> Len(Tail(left)) = 0)
  BY <1>1, LenProperties, EmptySeq
<1> QED BY <1>1, <1>2, <1>3

\* A handler without a call goes on without one.
LEMMA QuietTurn ==
    ASSUME Fit, NEW t \in Tasks, NEW p, FitsTask(NoCall, p), calls[t] = NoCall,
           calls' = calls, pool' = pool, slips \subseteq slips', procs' = [procs EXCEPT ![t] = p]
    PROVE  Turn(t, NoCall, p)
<1>1. t \in Callers /\ t \notin Checks /\ t # Admin
  BY Roles
<1>2. Fits(t, NoCall, p)
  BY <1>1 DEF Fits
<1>3. calls = [calls EXCEPT ![t] = calls[t]]
  BY <1>1 DEF Fit
<1>4. NoCall.step = "none"
  BY DEF NoCall
<1> QED BY <1>1, <1>2, <1>3, <1>4 DEF Turn

\* A handler that carries out updates has those left, or has ended.
Onward(p) == IF Tail(p.left) = <<>> THEN Idle ELSE [p EXCEPT !.left = Tail(p.left)]

LEMMA NextFits ==
    ASSUME NEW p, p.at \in {"move", "rewrite"}, FitsTask(NoCall, p)
    PROVE  /\ FitsTask(NoCall, Onward(p))
           /\ Tail(p.left) # <<>> => Onward(p) = [at |-> p.at, left |-> Tail(p.left)]
<1> DEFINE more == Tail(p.left)
           next == [at |-> p.at, left |-> more]
<1>1. p = [at |-> p.at, left |-> p.left] /\ p.left # <<>>
  BY DEF FitsTask
<1>2. [p EXCEPT !.left = more] = next
  BY <1>1
<1>3. FitsTask(NoCall, Idle)
  BY DEF FitsTask, Idle
<1>4. next.at = p.at /\ next.left = more /\ next = [at |-> next.at, left |-> next.left]
  OBVIOUS
<1>5. CASE p.at = "move"
  <2>1. more \in Seq(Changes)
    <3>1. p.left \in Seq(Changes)
      BY <1>5 DEF FitsTask
    <3> QED BY <1>1, <3>1, RestOf
  <2> HIDE DEF next, more
  <2>2. more # <<>> => FitsTask(NoCall, next)
    BY <1>4, <1>5, <2>1 DEF FitsTask
  <2> QED BY <1>2, <1>3, <2>2 DEF next, more, Onward
<1>6. CASE p.at = "rewrite"
  <2>1. more \in Seq(Payouts \X Nat)
    <3>1. p.left \in Seq(Payouts \X Nat)
      BY <1>6 DEF FitsTask
    <3> QED BY <1>1, <3>1, RestOf
  <2> HIDE DEF next, more
  <2>2. more # <<>> => FitsTask(NoCall, next)
    BY <1>4, <1>6, <2>1 DEF FitsTask
  <2> QED BY <1>2, <1>3, <2>2 DEF next, more, Onward
<1> QED BY <1>5, <1>6

\* What is made of the list of pending rows, and what is left to write then: each row
\* that changes, once, with its part of what is left.
LEMMA ListingOf ==
    ASSUME Books, NEW t \in Tasks, ListPending(t), procs[t].new \in Nat, procs[t].old \in Nat
    PROVE  LET old == procs[t].old
               new == procs[t].new
               cut(r) == (owed[r] * new) \div old
               changed == {r \in Payouts : old > 0 /\ cut(r) # owed[r]}
           IN  \/ changed = {} /\ procs' = [procs EXCEPT ![t] = Idle]
               \/ \E left \in Seq(Payouts \X Nat) :
                     /\ procs' = [procs EXCEPT ![t] = [at |-> "rewrite", left |-> left]]
                     /\ left # <<>>
                     /\ \A i, j \in DOMAIN left : left[i][1] = left[j][1] => i = j
                     /\ \A i \in DOMAIN left : left[i][1] \in changed /\ left[i][2] = cut(left[i][1])
                     /\ \A r \in changed : \E i \in DOMAIN left : left[i][1] = r
<1> DEFINE old == procs[t].old
           new == procs[t].new
           cut(r) == (owed[r] * new) \div old
           changed == {r \in Payouts : old > 0 /\ cut(r) # owed[r]}
<1>1. CASE changed = {}
  BY <1>1 DEF ListPending, Ends, Goes
<1>2. CASE changed # {}
  <2> DEFINE LeftOf(order) == [i \in DOMAIN order |-> <<order[i], cut(order[i])>>]
  <2>1. PICK order \in SetToSeqs(changed) :
            procs' = [procs EXCEPT ![t] = [at |-> "rewrite", left |-> LeftOf(order)]]
    BY <1>2 DEF ListPending, Goes
  <2> DEFINE left == LeftOf(order)
             n == Cardinality(changed)
  <2>2. IsFiniteSet(changed) /\ changed \in SUBSET Payouts
    BY RiskAssumption, FS_Subset
  <2>3. \A r \in changed : cut(r) \in Nat
    <3>1. \A r \in changed : owed[r] \in Nat /\ old > 0 /\ old \in Nat /\ new \in Nat
      BY DEF Books
    <3>2. \A x, y, z \in Nat : z > 0 => (x * y) \div z \in Nat
      OBVIOUS
    <3> QED BY <3>1, <3>2
  <2> HIDE DEF changed
  <2>4. /\ order \in [1..n -> changed] /\ n \in Nat
        /\ \A i, j \in DOMAIN order : order[i] = order[j] => i = j
        /\ {order[i] : i \in DOMAIN order} = changed
    BY <2>2, ListsAll
  <2> HIDE DEF n, cut
  <2>5. /\ DOMAIN order = 1..n /\ DOMAIN left = 1..n
        /\ \A i \in 1..n : left[i] = <<order[i], cut(order[i])>> /\ order[i] \in changed
    BY <2>4
  <2>6. left \in [1..n -> Payouts \X Nat]
    BY <2>2, <2>3, <2>4
  <2>7. left \in Seq(Payouts \X Nat)
    BY <2>4, <2>6, FunctionIsSeq
  <2>8. left # <<>>
    <3>1. PICK r \in changed : TRUE
      BY <1>2 DEF changed
    <3>2. PICK i \in 1..n : order[i] = r
      BY <2>4, <2>5, <3>1
    <3>3. DOMAIN <<>> = {}
      OBVIOUS
    <3> QED BY <2>5, <3>2, <3>3
  <2>9. \A r \in changed : \E i \in DOMAIN left : left[i][1] = r
    BY <2>4, <2>5
  <2>10. \A i, j \in DOMAIN left : left[i][1] = left[j][1] => i = j
    BY <2>4, <2>5
  <2>11. \A i \in DOMAIN left : left[i][1] \in changed /\ left[i][2] = cut(left[i][1])
    BY <2>5
  <2> HIDE DEF left
  <2> QED BY <2>1, <2>7, <2>8, <2>9, <2>10, <2>11 DEF changed, cut, left
<1> QED BY <1>1, <1>2

\* The call of a handler that slashes.
LEMMA SlashCalls ==
    ASSUME NEW n \in Nat
    PROVE  /\ FitsTask([step |-> "asked", op |-> [is |-> "slash", n |-> n]], [at |-> "slashing", n |-> n])
           /\ FitsTask(NoCall, [at |-> "totals", n |-> n])
<1> DEFINE k == [step |-> "asked", op |-> [is |-> "slash", n |-> n]]
           p == [at |-> "slashing", n |-> n]
           q == [at |-> "totals", n |-> n]
<1>1. /\ k.step = "asked" /\ k.op = [is |-> "slash", n |-> n]
      /\ p.at = "slashing" /\ p.n = n /\ q.at = "totals" /\ q.n = n
  OBVIOUS
<1>2. NoCall.step = "none"
  BY DEF NoCall
<1> HIDE DEF k, p, q
<1>3. k # NoCall
  BY <1>1, <1>2
<1>4. FitsTask(k, p)
  BY <1>1, <1>3 DEF FitsTask
<1>5. FitsTask(NoCall, q)
  BY <1>1 DEF FitsTask
<1> QED BY <1>4, <1>5 DEF k, p, q

\* A handler that starts to look for a row, or to move stake, starts a turn.
LEMMA StartTurns ==
    ASSUME Fit, NEW t \in Tasks, At(t, "idle"), NEW p, FitsTask(NoCall, p), Goes(t, p),
           UNCHANGED <<operatorVars, slips>>
    PROVE  Turn(t, NoCall, p)
<1>1. calls[t] = NoCall
  BY Roles DEF Fit, Fits, FitsTask, At
<1> QED BY <1>1, QuietTurn DEF Goes, operatorVars

\* The steps of a handler are turns.
LEMMA TaskTurns ==
    ASSUME Fit, Books, NEW t \in Tasks, TaskStep(t)
    PROVE  \E k, p : Turn(t, k, p)
<1>1. t \in Callers /\ t \notin Checks /\ t # Admin
  BY Roles
<1>2. FitsTask(calls[t], procs[t])
  BY <1>1 DEF Fit, Fits
<1>3. \A k, p : /\ FitsTask(k, p)
                /\ \/ k = NoCall
                   \/ k = [step |-> k.step, op |-> k.op] /\ k.step \in Step
                => Fits(t, k, p)
  BY <1>1 DEF Fits
<1>4. procs[t].at # "slashing" => calls[t] = NoCall
  BY <1>2 DEF FitsTask
<1>5. NoCall.step = "none" /\ Idle.at = "idle" /\ FitsTask(NoCall, Idle)
  BY DEF NoCall, Idle, FitsTask
<1>6. ASSUME procs[t].at # "slashing", calls' = calls, pool' = pool, slips \subseteq slips',
             NEW p, procs' = [procs EXCEPT ![t] = p], FitsTask(NoCall, p)
      PROVE  \E k, q : Turn(t, k, q)
  BY <1>4, <1>6, QuietTurn
<1>7. CASE Move(t) \/ Rewrite(t)
  <2> DEFINE p == Onward(procs[t])
  <2>1. procs[t].at \in {"move", "rewrite"} /\ procs' = [procs EXCEPT ![t] = p]
    BY <1>7 DEF Move, Rewrite, At, NextOf, Goes, Onward
  <2>2. calls[t] = NoCall /\ calls' = calls /\ pool' = pool /\ slips' = slips
    BY <1>4, <1>7 DEF Move, Rewrite, At, operatorVars
  <2>3. FitsTask(NoCall, p)
    <3>1. FitsTask(NoCall, procs[t])
      BY <1>2, <2>2
    <3> QED BY <2>1, <3>1, NextFits
  <2> HIDE DEF p
  <2> QED BY <1>6, <2>1, <2>2, <2>3
<1>8. CASE FindDown(t)
  <2> DEFINE row == table[procs[t].validator]
             n == SlashFor(row, procs[t].uptime)
  <2>1. pool' = pool /\ slips' = slips /\ procs[t].at = "find" /\ calls[t] = NoCall
    BY <1>4, <1>8 DEF FindDown, At
  <2>2. CASE row.stake > 0 /\ n > 0 /\ Begin(t, [is |-> "slash", n |-> n]) /\ Goes(t, [at |-> "slashing", n |-> n])
    <3>1. n \in Nat
      <4>1. row \in Row
        BY <1>2, <2>1 DEF FitsTask, Books
      <4>2. row.stake \in Int
        BY <4>1 DEF Row
      <4> QED BY <2>2, <4>2 DEF SlashFor
    <3> DEFINE k == [step |-> "asked", op |-> [is |-> "slash", n |-> n]]
               p == [at |-> "slashing", n |-> n]
    <3>2. FitsTask(k, p)
      BY <3>1, SlashCalls
    <3>3. k = [step |-> k.step, op |-> k.op] /\ k.step = "asked" /\ k.step \in Step
      BY DEF Step
    <3>4. calls' = [calls EXCEPT ![t] = k] /\ procs' = [procs EXCEPT ![t] = p]
      BY <2>2 DEF Begin, Goes
    <3> HIDE DEF k, p
    <3>5. Turn(t, k, p)
      BY <1>1, <1>3, <1>5, <2>1, <3>2, <3>3, <3>4 DEF Turn, StepOf
    <3> QED BY <3>5
  <2>3. CASE Ends(t) /\ UNCHANGED calls
    BY <1>5, <1>6, <2>1, <2>3 DEF Ends, Goes
  <2> QED BY <1>8, <2>2, <2>3 DEF FindDown
<1>9. CASE AfterSlash(t)
  <2>1. procs[t].at = "slashing" /\ procs[t].n \in Nat
    BY <1>2, <1>9 DEF AfterSlash, At, FitsTask
  <2>2. CASE Return(t) /\ Goes(t, [at |-> "totals", n |-> procs[t].n]) /\ UNCHANGED slips
    <3> DEFINE p == [at |-> "totals", n |-> procs[t].n]
    <3>1. FitsTask(NoCall, p)
      BY <2>1, SlashCalls
    <3>2. /\ calls' = [calls EXCEPT ![t] = NoCall] /\ pool' = pool /\ slips' = slips
          /\ procs' = [procs EXCEPT ![t] = p] /\ calls[t].step = "done"
      BY <2>2 DEF Return, Goes, StepOf
    <3> HIDE DEF p
    <3>3. Turn(t, NoCall, p)
      BY <1>1, <1>3, <1>5, <3>1, <3>2 DEF Turn, StepOf
    <3> QED BY <3>3
  <2>3. CASE Throw(t) /\ Ends(t) /\ Slip("threw")
    <3>1. CallEnds(t)
      BY <2>3 DEF CallEnds
    <3>2. procs' = [procs EXCEPT ![t] = Idle]
      BY <2>3 DEF Ends, Goes
    <3>3. Turn(t, NoCall, Idle)
      BY <1>1, <1>3, <1>5, <3>1, <3>2, EndsOf DEF Turn, StepOf
    <3> QED BY <3>3
  <2> QED BY <1>9, <2>2, <2>3 DEF AfterSlash
<1>10. CASE ReadTotals(t)
  <2> DEFINE p == [at |-> "list", new |-> staked, old |-> staked + procs[t].n]
  <2>1. procs[t].at = "totals" /\ procs[t].n \in Nat /\ staked \in Nat
    BY <1>2, <1>10 DEF ReadTotals, At, FitsTask, Books
  <2>2. calls' = calls /\ pool' = pool /\ slips' = slips /\ procs' = [procs EXCEPT ![t] = p]
    BY <1>10 DEF ReadTotals, Goes, operatorVars
  <2>3. p.at = "list" /\ p.new \in Nat /\ p.old \in Nat
    BY <2>1
  <2> HIDE DEF p
  <2>4. FitsTask(NoCall, p)
    BY <2>3 DEF FitsTask
  <2> QED BY <1>6, <2>1, <2>2, <2>4
<1>11. CASE ListPending(t)
  <2>1. procs[t].at = "list" /\ procs[t].new \in Nat /\ procs[t].old \in Nat
    BY <1>2, <1>11 DEF ListPending, At, FitsTask
  <2>2. calls' = calls /\ pool' = pool /\ slips' = slips
    BY <1>11 DEF ListPending, operatorVars
  <2>3. \/ procs' = [procs EXCEPT ![t] = Idle]
        \/ \E left \in Seq(Payouts \X Nat) :
              procs' = [procs EXCEPT ![t] = [at |-> "rewrite", left |-> left]] /\ left # <<>>
    BY <1>11, <2>1, ListingOf, Zenon
  <2>4. ASSUME NEW left \in Seq(Payouts \X Nat), left # <<>>
        PROVE  FitsTask(NoCall, [at |-> "rewrite", left |-> left])
    <3> DEFINE p == [at |-> "rewrite", left |-> left]
    <3>1. p.at = "rewrite" /\ p.left = left /\ p = [at |-> p.at, left |-> p.left]
      OBVIOUS
    <3> HIDE DEF p
    <3>2. FitsTask(NoCall, p)
      BY <2>4, <3>1 DEF FitsTask
    <3> QED BY <3>2 DEF p
  <2> QED BY <1>5, <1>6, <2>1, <2>2, <2>3, <2>4
<1>12. CASE AwaitFails(t)
  <2>1. procs[t].at # "slashing" /\ calls' = calls /\ pool' = pool /\ slips \subseteq slips'
    BY <1>12 DEF AwaitFails, Slip
  <2>2. procs' = [procs EXCEPT ![t] = Idle]
    BY <1>12 DEF AwaitFails, Ends, Goes
  <2> QED BY <1>5, <1>6, <2>1, <2>2
<1> QED BY <1>7, <1>8, <1>9, <1>10, <1>11, <1>12 DEF TaskStep

\* The calls of the admin.
LEMMA AdminOps ==
    ASSUME NEW op, NEW p
    PROVE  LET k == [step |-> "asked", op |-> op]
           IN  /\ p.at = "commanding" /\ op.is \in {"pause", "unpause"} => FitsAdmin(k, p)
               /\ p = [at |-> "slashing", n |-> p.n] /\ p.n \in Nat /\ op = [is |-> "slash", n |-> p.n]
                     => FitsAdmin(k, p)
               /\ p = [at |-> "recalibrating", n |-> p.n] /\ p.n \in Nat /\ op = [is |-> "recalibrate"]
                     => FitsAdmin(k, p)
               /\ FitsAdmin(NoCall, Idle)
<1> DEFINE k == [step |-> "asked", op |-> op]
<1>1. k.step = "asked" /\ k.op = op
  OBVIOUS
<1>2. NoCall.step = "none" /\ Idle.at = "idle"
  BY DEF NoCall, Idle
<1> HIDE DEF k
<1>3. k # NoCall
  BY <1>1, <1>2
<1>4. FitsAdmin(NoCall, Idle)
  BY <1>2 DEF FitsAdmin
<1>5. p.at = "commanding" /\ op.is \in {"pause", "unpause"} => FitsAdmin(k, p)
  BY <1>1, <1>3 DEF FitsAdmin
<1>6. ASSUME p = [at |-> "slashing", n |-> p.n], p.n \in Nat, op = [is |-> "slash", n |-> p.n]
      PROVE  FitsAdmin(k, p)
  <2>1. p.at = "slashing"
    BY <1>6
  <2> QED BY <1>1, <1>3, <1>6, <2>1 DEF FitsAdmin
<1>7. ASSUME p = [at |-> "recalibrating", n |-> p.n], p.n \in Nat, op = [is |-> "recalibrate"]
      PROVE  FitsAdmin(k, p)
  <2>1. p.at = "recalibrating"
    BY <1>7
  <2> QED BY <1>1, <1>3, <1>7, <2>1 DEF FitsAdmin
<1> QED BY <1>4, <1>5, <1>6, <1>7 DEF k

\* The steps of the admin are turns, but for the one that starts a handler.
LEMMA AdminTurns ==
    ASSUME Fit, PoolFits, AdminCalls \/ AdminAnswered \/ AdminSlashed
    PROVE  \E k, p : Turn(Admin, k, p)
<1>1. Admin \in Callers /\ Admin \notin Checks /\ Admin \notin Tasks
  BY Roles
<1>2. FitsAdmin(calls[Admin], procs[Admin])
  BY <1>1 DEF Fit, Fits
<1>3. \A k, p : /\ FitsAdmin(k, p)
                /\ \/ k = NoCall
                   \/ k = [step |-> k.step, op |-> k.op] /\ k.step \in Step
                => Fits(Admin, k, p)
  BY <1>1 DEF Fits
<1>4. NoCall.step = "none" /\ Idle.at = "idle" /\ FitsAdmin(NoCall, Idle)
  BY AdminOps DEF NoCall, Idle
<1>5. ASSUME NEW op, NEW p, FitsAdmin([step |-> "asked", op |-> op], p), Begin(Admin, op), Goes(Admin, p),
             pool' = pool, slips \subseteq slips', "admin" \in slips', calls[Admin].step # "sent"
      PROVE  \E k, q : Turn(Admin, k, q)
  <2> DEFINE k == [step |-> "asked", op |-> op]
  <2>1. k = [step |-> k.step, op |-> k.op] /\ k.step = "asked" /\ k.step \in Step
    BY DEF Step
  <2>2. FitsAdmin(k, p) /\ calls' = [calls EXCEPT ![Admin] = k] /\ procs' = [procs EXCEPT ![Admin] = p]
    BY <1>5 DEF Begin, Goes
  <2> HIDE DEF k
  <2>3. Turn(Admin, k, p)
    BY <1>3, <1>5, <2>1, <2>2 DEF Turn, StepOf
  <2> QED BY <2>3
<1>6. ASSUME CallEnds(Admin), Ends(Admin)
      PROVE  \E k, q : Turn(Admin, k, q)
  <2>1. procs' = [procs EXCEPT ![Admin] = Idle]
    BY <1>6 DEF Ends, Goes
  <2>2. Turn(Admin, NoCall, Idle)
    BY <1>1, <1>3, <1>4, <1>6, <2>1, EndsOf DEF Turn, StepOf
  <2> QED BY <2>2
<1>7. CASE AdminCalls
  <2>1. pool' = pool /\ slips \subseteq slips' /\ "admin" \in slips' /\ calls[Admin] = NoCall
    BY <1>2, <1>7 DEF AdminCalls, Slip, At, FitsAdmin
  <2>2. ASSUME NEW command \in AdminCommands, Begin(Admin, [is |-> command]),
               Goes(Admin, [at |-> "commanding"])
        PROVE  \E k, q : Turn(Admin, k, q)
    <3> DEFINE op == [is |-> command]
               p == [at |-> "commanding"]
    <3>1. op.is \in {"pause", "unpause"} /\ p.at = "commanding"
      BY RiskAssumption
    <3>2. Begin(Admin, op) /\ Goes(Admin, p)
      BY <2>2
    <3> HIDE DEF op, p
    <3>3. FitsAdmin([step |-> "asked", op |-> op], p)
      BY <3>1, AdminOps
    <3> QED BY <1>4, <1>5, <2>1, <3>2, <3>3
  <2>3. ASSUME NEW n \in AdminSlashes, Begin(Admin, [is |-> "slash", n |-> n]),
               Goes(Admin, [at |-> "slashing", n |-> n])
        PROVE  \E k, q : Turn(Admin, k, q)
    <3> DEFINE op == [is |-> "slash", n |-> n]
               p == [at |-> "slashing", n |-> n]
    <3>1. p = [at |-> "slashing", n |-> p.n] /\ p.n \in Nat /\ op = [is |-> "slash", n |-> p.n]
      BY RiskAssumption
    <3>2. Begin(Admin, op) /\ Goes(Admin, p)
      BY <2>3
    <3> HIDE DEF op, p
    <3>3. FitsAdmin([step |-> "asked", op |-> op], p)
      BY <3>1, AdminOps
    <3> QED BY <1>4, <1>5, <2>1, <3>2, <3>3
  <2> QED BY <1>7, <2>2, <2>3 DEF AdminCalls
<1>8. CASE AdminAnswered
  BY <1>6, <1>8 DEF AdminAnswered
<1>9. CASE AdminSlashed
  <2>1. procs[Admin].at = "slashing" /\ procs[Admin].n \in Nat
        /\ procs[Admin] = [at |-> "slashing", n |-> procs[Admin].n]
    BY <1>2, <1>9 DEF AdminSlashed, At, FitsAdmin
  <2>2. CASE /\ StepOf(Admin, "done")
             /\ Begin(Admin, [is |-> "recalibrate"]) /\ UNCHANGED <<pool, faults, slips>>
             /\ Goes(Admin, [procs[Admin] EXCEPT !.at = "recalibrating"])
    <3> DEFINE op == [is |-> "recalibrate"]
               p == [procs[Admin] EXCEPT !.at = "recalibrating"]
    <3>1. p = [at |-> "recalibrating", n |-> p.n] /\ p.n \in Nat
      BY <2>1
    <3>2. op = [is |-> "recalibrate"] /\ Begin(Admin, op) /\ Goes(Admin, p)
      BY <2>2
    <3> HIDE DEF op, p
    <3>3. FitsAdmin([step |-> "asked", op |-> op], p)
      BY <3>1, <3>2, AdminOps
    <3>4. "admin" \in slips /\ calls[Admin].step = "done"
      BY <2>1, <2>2 DEF PoolFits, At, StepOf
    <3> QED BY <1>5, <2>2, <3>2, <3>3, <3>4
  <2>3. CASE Throw(Admin) /\ Ends(Admin) /\ Slip("threw")
    BY <1>6, <2>3 DEF CallEnds
  <2> QED BY <1>9, <2>2, <2>3 DEF AdminSlashed
<1> QED BY <1>7, <1>8, <1>9

\* The step a call is at says nothing of the memory of its caller.
LEMMA StepsFit ==
    ASSUME NEW c \in Callers, NEW k, NEW p, Fits(c, k, p), k # NoCall,
           NEW l, l = [step |-> l.step, op |-> k.op], l.step \in Step
    PROVE  Fits(c, l, p)
<1>1. l.op = k.op /\ l = [step |-> l.step, op |-> l.op]
  OBVIOUS
<1>2. l # NoCall
  BY DEF NoCall, Step
<1>3. FitsCheck(k, p) => FitsCheck(l, p)
  BY <1>1, <1>2 DEF FitsCheck
<1>4. FitsTask(k, p) => FitsTask(l, p)
  BY <1>1, <1>2 DEF FitsTask
<1>5. FitsAdmin(k, p) => FitsAdmin(l, p)
  BY <1>1, <1>2 DEF FitsAdmin
<1> QED BY <1>1, <1>3, <1>4, <1>5 DEF Fits

\* Calls go on, of themselves or by what the network does.
Advance(c) ==
    \/ calls'[c] = calls[c]
    \/ /\ calls[c] # NoCall /\ calls'[c] = [step |-> calls'[c].step, op |-> calls[c].op]
       /\ calls'[c].step \in Step

LEMMA AdvanceKeepsFit ==
    ASSUME Fit, procs' = procs, calls' = [c \in Callers |-> calls'[c]], \A c \in Callers : Advance(c)
    PROVE  Fit'
<1>1. ASSUME NEW c \in Callers PROVE Fits(c, calls'[c], procs[c])
  <2>1. Fits(c, calls[c], procs[c])
    BY DEF Fit
  <2>2. CASE calls'[c] = calls[c]
    BY <2>1, <2>2
  <2>3. CASE /\ calls[c] # NoCall /\ calls'[c] = [step |-> calls'[c].step, op |-> calls[c].op]
             /\ calls'[c].step \in Step
    <3> DEFINE k == calls[c]
               l == calls'[c]
               p == procs[c]
    <3>1. Fits(c, k, p) /\ k # NoCall /\ l = [step |-> l.step, op |-> k.op] /\ l.step \in Step
      BY <2>1, <2>3
    <3> HIDE DEF k, l, p
    <3>2. Fits(c, l, p)
      BY <3>1, StepsFit
    <3> QED BY <3>2 DEF l, p
  <2> QED BY <2>2, <2>3 DEF Advance
<1> QED BY <1>1 DEF Fit

\* What a call that is sent, included or run out is at then.
LEMMA StepTo ==
    ASSUME Fit, NEW c \in Callers, NEW step \in Step, calls[c] # NoCall
    PROVE  LET l == [calls[c] EXCEPT !.step = step]
           IN  l = [step |-> l.step, op |-> calls[c].op] /\ l.step = step /\ l.step \in Step
<1>1. calls[c] = [step |-> calls[c].step, op |-> calls[c].op]
  BY DEF Fit, Fits
<1>2. [calls[c] EXCEPT !.step = step] = [step |-> step, op |-> calls[c].op]
  BY <1>1
<1> QED BY <1>2

\* The account answers a call, which is neither sent by that nor given up.
LEMMA BuildKeepsFit ==
    ASSUME Fit, PoolFits, NEW c \in Callers, BuildCall(c)
    PROVE  /\ Fit' /\ PoolFits' /\ \A d \in Callers : d # c => calls'[d] = calls[d]
           /\ calls[c].step = "asked" /\ calls'[c].step = "built"
           /\ procs' = procs /\ slips' \in {slips, slips \cup {"overtaken"}}
           /\ UNCHANGED <<table, emergencyMode, asked, chainVars, owed, booked>>
<1>1. /\ calls[c].step = "asked" /\ procs' = procs /\ pool' = pool
      /\ slips' \in {slips, slips \cup {"overtaken"}}
      /\ UNCHANGED <<table, emergencyMode, asked, chainVars, owed, booked>>
  BY DEF BuildCall, Build, StepOf, Slip
<1>2. calls[c] # NoCall
  BY <1>1 DEF NoCall
<1> DEFINE built == [calls[c] EXCEPT !.step = "built"]
<1>3. calls' = [calls EXCEPT ![c] = built]
  BY DEF BuildCall, Build
<1>4. built = [step |-> built.step, op |-> calls[c].op] /\ built.step = "built" /\ built.step \in Step
  BY <1>2, StepTo DEF Step
<1> HIDE DEF built
<1>5. /\ \A d \in Callers : d # c => calls'[d] = calls[d]
      /\ calls'[c] = built /\ calls' = [d \in Callers |-> calls'[d]]
  BY <1>3 DEF Fit
<1>6. \A d \in Callers : Advance(d)
  BY <1>2, <1>4, <1>5 DEF Advance
<1>7. Fit'
  BY <1>1, <1>5, <1>6, AdvanceKeepsFit
<1>8. \A d \in Callers : /\ calls'[d].step = "sent" <=> calls[d].step = "sent"
                         /\ calls[d].step = "sent" => calls'[d] = calls[d]
  BY <1>1, <1>4, <1>5
<1>9. (Smooth' <=> Smooth) /\ slips \subseteq slips'
  BY <1>1 DEF Smooth
<1>10. PoolFits'
  BY <1>1, <1>8, <1>9 DEF PoolFits, StepOf, At
<1> QED BY <1>1, <1>4, <1>5, <1>7, <1>10

\* A call that is sent is the only transaction in the pool; the pool being empty, no call
\* is at that step.
LEMMA SendKeepsFit ==
    ASSUME Fit, PoolFits, NEW c \in Callers, Waiting(c), SendCall(c)
    PROVE  /\ Fit' /\ PoolFits' /\ \A d \in Callers : d # c => calls'[d] = calls[d]
           /\ calls'[c].step \in {"sent", "failed"}
           /\ calls'[c].step = "sent" => calls[c].step = "built"
           /\ calls[c].step \in {"built", "stale"} /\ calls'[c].op = calls[c].op
           /\ UNCHANGED <<table, riskVars>>
<1>1. calls[c] # NoCall /\ procs' = procs /\ slips' = slips /\ Fits(c, calls[c], procs[c])
  BY DEF SendCall, Waiting, riskVars, Fit
<1> DEFINE sent == [calls[c] EXCEPT !.step = "sent"]
           failed == [calls[c] EXCEPT !.step = "failed"]
<1>2. \/ /\ calls[c].step = "built" /\ pool = {} /\ pool' = {[by |-> c, op |-> calls[c].op]}
         /\ calls' = [calls EXCEPT ![c] = sent]
      \/ pool' = pool /\ calls' = [calls EXCEPT ![c] = failed]
  BY DEF SendCall, Send, StepOf
<1>3. /\ sent = [step |-> sent.step, op |-> calls[c].op] /\ sent.step = "sent"
      /\ failed = [step |-> failed.step, op |-> calls[c].op] /\ failed.step = "failed"
      /\ sent.step \in Step /\ failed.step \in Step
  BY <1>1, StepTo DEF Step
<1> HIDE DEF sent, failed
<1>4. /\ \A d \in Callers : d # c => calls'[d] = calls[d]
      /\ calls'[c] = sent \/ calls'[c] = failed
      /\ calls' = [d \in Callers |-> calls'[d]]
  BY <1>2 DEF Fit
<1>5. \A d \in Callers : Advance(d)
  BY <1>1, <1>3, <1>4 DEF Advance
<1>6. Fit'
  BY <1>1, <1>4, <1>5, AdvanceKeepsFit
<1>7. calls[c].step \in {"built", "stale"}
  BY DEF SendCall, Send
<1>8. PoolFits'
  <2>1. CASE /\ calls[c].step = "built" /\ pool = {} /\ pool' = {[by |-> c, op |-> calls[c].op]}
             /\ calls' = [calls EXCEPT ![c] = sent]
    <3> DEFINE tx == [by |-> c, op |-> calls[c].op]
    <3>1. tx.by = c /\ tx.op = calls[c].op /\ pool' = {tx}
      BY <2>1
    <3>2. calls'[c].step = "sent" /\ calls'[c].op = calls[c].op
      BY <1>3, <2>1 DEF Fit
    <3>3. \A d \in Callers : d # c => calls[d].step # "sent"
      BY <2>1 DEF PoolFits, StepOf
    <3>4. \A d \in Callers : calls'[d].step = "sent" => d = c
      BY <1>4, <3>3
    <3>5. calls[c].op.is = "slash" => calls[c].op.n \in Nat
      BY <1>1, Roles DEF Fits, FitsCheck, FitsTask, FitsAdmin, Calls
    <3> HIDE DEF tx
    <3>6. \A d \in Callers : calls'[d].step = "sent" => pool' = {[by |-> d, op |-> calls'[d].op]}
      BY <3>1, <3>2, <3>4 DEF tx
    <3>7. \A x \in pool' : x.by \in Callers /\ calls'[x.by].step = "sent"
      BY <3>1, <3>2
    <3> QED BY <1>1, <3>1, <3>5, <3>6, <3>7 DEF PoolFits, StepOf, At
  <2>2. CASE pool' = pool /\ calls' = [calls EXCEPT ![c] = failed]
    <3>1. calls'[c].step = "failed"
      BY <1>3, <2>2 DEF Fit
    <3>2. \A d \in Callers : calls'[d].step = "sent" => d # c /\ calls[d].step = "sent" /\ calls'[d] = calls[d]
      BY <1>4, <3>1
    <3>3. \A tx \in pool : tx.by \in Callers /\ calls[tx.by].step = "sent" => calls'[tx.by].step = "sent"
      BY <1>4, <1>7
    <3>4. Smooth' <=> Smooth
      BY <1>1 DEF Smooth
    <3> QED BY <1>1, <2>2, <3>2, <3>3, <3>4 DEF PoolFits, StepOf, At
  <2> QED BY <1>2, <2>1, <2>2
<1>9. calls'[c].step \in {"sent", "failed"} /\ calls'[c].op = calls[c].op
  BY <1>3, <1>4
<1>10. calls'[c].step = "sent" => calls[c].step = "built"
  BY <1>2, <1>3, <1>4 DEF Fit
<1> QED BY <1>4, <1>6, <1>7, <1>8, <1>9, <1>10 DEF SendCall

\* An included transaction ends the wait of its caller, if it still waits, and makes the
\* numbers stale that others have read.
LEMMA IncludeKeepsFit ==
    ASSUME Fit, PoolFits, NEW tx \in pool, IncludeCall(tx)
    PROVE  /\ Fit' /\ PoolFits' /\ pool' = {} /\ slips \subseteq slips'
           /\ \A c \in Callers :
                 /\ calls'[c].op = calls[c].op
                 /\ calls[c].step = "sent" =>
                       tx = [by |-> c, op |-> calls[c].op]
                       /\ calls'[c].step = IF Accepted(tx.op) THEN "done" ELSE "failed"
                 /\ calls[c].step = "built" => calls'[c].step = "stale"
                 /\ calls[c].step \notin {"sent", "built"} => calls'[c] = calls[c]
<1>1. procs' = procs /\ pool' = {} /\ slips \subseteq slips'
  BY DEF IncludeCall, Include, Slip
<1> DEFINE to == IF Accepted(tx.op) THEN "done" ELSE "failed"
           ended(c) == [calls[c] EXCEPT !.step = to]
           stale(c) == [calls[c] EXCEPT !.step = "stale"]
<1>2. /\ calls' = [c \in Callers |-> calls'[c]]
      /\ \A c \in Callers :
            calls'[c] = IF c = tx.by /\ calls[c].step = "sent" THEN ended(c)
                        ELSE IF calls[c].step = "built" THEN stale(c) ELSE calls[c]
  BY DEF IncludeCall, Include, StepOf
<1>3. \A c \in Callers : calls[c].step = "sent" => tx = [by |-> c, op |-> calls[c].op] /\ c = tx.by
  <2>1. ASSUME NEW c \in Callers, calls[c].step = "sent"
        PROVE  tx = [by |-> c, op |-> calls[c].op] /\ c = tx.by
    <3> DEFINE own == [by |-> c, op |-> calls[c].op]
    <3>1. own.by = c /\ pool = {own}
      BY <2>1 DEF PoolFits, StepOf
    <3> HIDE DEF own
    <3>2. tx = own /\ c = tx.by
      BY <3>1
    <3> QED BY <3>2 DEF own
  <2> QED BY <2>1
<1>4. NoCall.step = "none"
  BY DEF NoCall
<1>5. to \in Step
  BY DEF Step
<1> HIDE DEF to
<1>6. ASSUME NEW c \in Callers, calls[c] # NoCall
      PROVE  /\ ended(c) = [step |-> ended(c).step, op |-> calls[c].op] /\ ended(c).step = to
             /\ stale(c) = [step |-> stale(c).step, op |-> calls[c].op] /\ stale(c).step = "stale"
  <2>1. "stale" \in Step
    BY DEF Step
  <2>2. ended(c) = [step |-> ended(c).step, op |-> calls[c].op] /\ ended(c).step = to
    BY <1>5, <1>6, StepTo
  <2>3. stale(c) = [step |-> stale(c).step, op |-> calls[c].op] /\ stale(c).step = "stale"
    BY <1>6, <2>1, StepTo
  <2> QED BY <2>2, <2>3
<1> HIDE DEF ended, stale
<1>7. ASSUME NEW c \in Callers
      PROVE  /\ Advance(c)
             /\ calls'[c].op = calls[c].op
             /\ calls[c].step = "sent" => calls'[c].step = to
             /\ calls[c].step = "built" => calls'[c].step = "stale"
             /\ calls[c].step \notin {"sent", "built"} => calls'[c] = calls[c]
  <2>1. CASE calls[c].step = "sent"
    <3>1. calls'[c] = ended(c)
      BY <1>2, <1>3, <2>1
    <3>2. calls[c] # NoCall
      BY <1>4, <2>1
    <3>3. calls'[c] = [step |-> calls'[c].step, op |-> calls[c].op] /\ calls'[c].step = to
      BY <1>6, <3>1, <3>2
    <3> QED BY <1>5, <2>1, <3>2, <3>3 DEF Advance
  <2>2. CASE calls[c].step = "built"
    <3>1. calls'[c] = stale(c)
      BY <1>2, <2>2
    <3>2. calls[c] # NoCall
      BY <1>4, <2>2
    <3>3. calls'[c] = [step |-> calls'[c].step, op |-> calls[c].op] /\ calls'[c].step = "stale"
      BY <1>6, <3>1, <3>2
    <3> QED BY <2>2, <3>2, <3>3 DEF Advance, Step
  <2>3. CASE calls[c].step \notin {"sent", "built"}
    <3>1. calls'[c] = calls[c]
      BY <1>2, <2>3
    <3> QED BY <2>3, <3>1 DEF Advance
  <2> QED BY <2>1, <2>2, <2>3
<1>8. Fit'
  BY <1>1, <1>2, <1>7, AdvanceKeepsFit
<1>9. PoolFits'
  <2>1. \A c \in Callers : calls'[c].step # "sent"
    BY <1>7 DEF to
  <2>2. procs'[Admin].at = "idle" \/ "admin" \in slips'
    BY <1>1 DEF PoolFits, At
  <2> QED BY <1>1, <2>1, <2>2 DEF PoolFits, StepOf, At
<1> QED BY <1>1, <1>3, <1>7, <1>8, <1>9 DEF to

\* A transaction that runs out fails the call of its caller, if it still waits.
LEMMA DropKeepsFit ==
    ASSUME Fit, PoolFits, NEW tx \in pool, DropCall(tx)
    PROVE  /\ Fit' /\ PoolFits'
           /\ \A c \in Callers : /\ calls'[c].op = calls[c].op
                                 /\ calls[c].step = "sent" => calls'[c].step = "failed"
                                 /\ calls[c].step # "sent" => calls'[c] = calls[c]
           /\ UNCHANGED <<table, riskVars>>
<1>1. procs' = procs /\ pool' = {} /\ slips' = slips
  BY DEF DropCall, RunOut, riskVars
<1> DEFINE failed(c) == [calls[c] EXCEPT !.step = "failed"]
<1>2. /\ calls' = [c \in Callers |-> calls'[c]]
      /\ \A c \in Callers :
            calls'[c] = IF c = tx.by /\ calls[c].step = "sent" THEN failed(c) ELSE calls[c]
  BY DEF DropCall, RunOut, StepOf
<1>3. ASSUME NEW c \in Callers, calls[c].step = "sent"
      PROVE  /\ calls[c] # NoCall
             /\ calls'[c] = [step |-> calls'[c].step, op |-> calls[c].op] /\ calls'[c].step = "failed"
  <2> DEFINE own == [by |-> c, op |-> calls[c].op]
  <2>1. own.by = c /\ pool = {own}
    BY <1>3 DEF PoolFits, StepOf
  <2> HIDE DEF own
  <2>2. c = tx.by
    BY <2>1
  <2>3. calls[c] # NoCall
    BY <1>3 DEF NoCall
  <2>4. failed(c) = [step |-> failed(c).step, op |-> calls[c].op] /\ failed(c).step = "failed"
    BY <2>3, StepTo DEF Step
  <2> QED BY <1>2, <1>3, <2>2, <2>3, <2>4
<1>4. \A c \in Callers : calls[c].step # "sent" => calls'[c] = calls[c]
  BY <1>2
<1>5. \A c \in Callers : Advance(c)
  BY <1>3, <1>4 DEF Advance, Step
<1>6. Fit'
  BY <1>1, <1>2, <1>5, AdvanceKeepsFit
<1>7. \A c \in Callers : /\ calls'[c].op = calls[c].op
                         /\ calls[c].step = "sent" => calls'[c].step = "failed"
  <2>1. ASSUME NEW c \in Callers, calls[c].step = "sent" PROVE calls'[c].op = calls[c].op
    <3>1. calls'[c] = [step |-> calls'[c].step, op |-> calls[c].op]
      BY <1>3, <2>1
    <3> QED BY <3>1
  <2> QED BY <1>3, <1>4, <2>1
<1>8. PoolFits'
  <2>1. \A c \in Callers : calls'[c].step # "sent"
    BY <1>4, <1>7
  <2>2. procs'[Admin].at = "idle" \/ "admin" \in slips'
    BY <1>1 DEF PoolFits, At
  <2> QED BY <1>1, <2>1, <2>2 DEF PoolFits, StepOf, At
<1> QED BY <1>4, <1>6, <1>7, <1>8 DEF DropCall

\* When the recalibration has ended, the handler takes over from the admin.
LEMMA HandOver ==
    ASSUME Fit, PoolFits, AdminRecalibrated
    PROVE  /\ Fit' /\ PoolFits'
           /\ \E t \in Tasks :
                 /\ procs[t].at = "idle" /\ procs'[t] = [at |-> "totals", n |-> procs[Admin].n]
                 /\ procs[Admin].at = "recalibrating" /\ procs'[Admin] = Idle
                 /\ \A c \in Callers : c \notin {t, Admin} => procs'[c] = procs[c]
           /\ calls'[Admin] = NoCall
           /\ \A c \in Callers : c # Admin => calls'[c] = calls[c]
           /\ UNCHANGED <<table, emergencyMode, asked, chainVars, owed, booked, slips>>
<1>1. PICK t \in Tasks :
         /\ procs[t].at = "idle"
         /\ procs' = [procs EXCEPT ![Admin] = Idle, ![t] = [at |-> "totals", n |-> procs[Admin].n]]
  BY DEF AdminRecalibrated, At
<1>2. procs[Admin].at = "recalibrating" /\ calls' = [calls EXCEPT ![Admin] = NoCall]
      /\ pool' = pool /\ slips' = slips
  BY DEF AdminRecalibrated, At, Return, Throw
<1>3. /\ t \in Callers /\ t # Admin /\ t \notin Checks /\ Admin \in Callers
      /\ Admin \notin Checks /\ Admin \notin Tasks
  BY Roles
<1>4. procs[Admin].n \in Nat /\ calls[Admin].op = [is |-> "recalibrate"]
  BY <1>2, <1>3 DEF Fit, Fits, FitsAdmin
<1>5. calls[t] = NoCall
  BY <1>1, <1>3 DEF Fit, Fits, FitsTask
<1>6. /\ procs'[t] = [at |-> "totals", n |-> procs[Admin].n] /\ procs'[Admin] = Idle
      /\ \A c \in Callers : c \notin {t, Admin} => procs'[c] = procs[c]
      /\ procs' = [c \in Callers |-> procs'[c]]
  BY <1>1, <1>3 DEF Fit
<1>7. /\ calls'[Admin] = NoCall /\ \A c \in Callers : c # Admin => calls'[c] = calls[c]
      /\ calls' = [c \in Callers |-> calls'[c]]
  BY <1>2, <1>3 DEF Fit
<1>8. Fit'
  <2>1. Fits(t, calls'[t], procs'[t])
    <3>1. FitsTask(NoCall, [at |-> "totals", n |-> procs[Admin].n])
      BY <1>4, SlashCalls
    <3>2. FitsTask(calls'[t], procs'[t])
      BY <1>3, <1>5, <1>6, <1>7, <3>1
    <3> QED BY <1>3, <1>5, <1>7, <3>2 DEF Fits
  <2>2. Fits(Admin, calls'[Admin], procs'[Admin])
    BY <1>3, <1>6, <1>7, AdminOps DEF Fits
  <2>3. \A c \in Callers : c \notin {t, Admin} => Fits(c, calls'[c], procs'[c])
    BY <1>6, <1>7 DEF Fit
  <2> QED BY <1>6, <1>7, <2>1, <2>2, <2>3 DEF Fit
<1>9. PoolFits'
  <2>1. NoCall.step = "none" /\ Idle.at = "idle"
    BY DEF NoCall, Idle
  <2>2. \A c \in Callers : calls'[c].step = "sent" => calls'[c] = calls[c]
    BY <1>7, <2>1
  <2>3. ASSUME Smooth', NEW tx \in pool
        PROVE  tx.by \in Callers /\ (calls'[tx.by].step = "sent" \/ tx.op = [is |-> "recalibrate"])
    <3>1. tx.by \in Callers /\ (calls[tx.by].step = "sent" \/ tx.op = [is |-> "recalibrate"])
      BY <1>2, <2>3 DEF PoolFits, StepOf, Smooth
    <3>2. CASE tx.by = Admin /\ calls[Admin].step = "sent"
      <4>1. tx = [by |-> Admin, op |-> calls[Admin].op]
        BY <1>3, <2>3, <3>2 DEF PoolFits, StepOf
      <4>2. tx.op = calls[Admin].op
        BY <4>1
      <4> QED BY <1>4, <3>1, <4>2
    <3> QED BY <1>7, <3>1, <3>2
  <2> QED BY <1>2, <1>6, <2>1, <2>2, <2>3 DEF PoolFits, StepOf, At
<1> QED BY <1>1, <1>2, <1>6, <1>7, <1>8, <1>9 DEF AdminRecalibrated

\* After a restart nobody has a call or anything in memory.
LEMMA RestartKeepsFit ==
    ASSUME Fit, PoolFits, Restart
    PROVE  Fit' /\ PoolFits' /\ ~Smooth'
<1>1. /\ procs' = [c \in Callers |-> Idle] /\ calls' = [c \in Callers |-> NoCall] /\ pool' = pool
      /\ "restart" \in slips'
  BY DEF Restart, ForgetCalls, Slip
<1>2. ~Smooth'
  BY <1>1 DEF Smooth
<1>3. NoCall.step = "none" /\ Idle.at = "idle"
  BY DEF NoCall, Idle
<1>4. \A c \in Callers : Fits(c, NoCall, Idle)
  BY <1>3, AdminOps DEF Fits, FitsTask, FitsCheck, Calls
<1>5. Fit'
  BY <1>1, <1>4 DEF Fit
<1> QED BY <1>1, <1>2, <1>3, <1>5, Roles DEF PoolFits, StepOf, At

\* A reallocation starts at most one handler, with its plan.
LEMMA ReallocateTurns ==
    ASSUME Fit, Books, Reallocate
    PROVE  \/ UNCHANGED <<calls, procs, pool, slips>>
           \/ \E t \in Tasks, left \in Seq(Changes) :
                 /\ At(t, "idle") /\ Goes(t, [at |-> "move", left |-> left]) /\ Carried(left) = 0
                 /\ Turn(t, NoCall, [at |-> "move", left |-> left])
<1>1. UNCHANGED <<operatorVars, slips>>
  BY DEF Reallocate
<1>2. PICK plan \in Reallocations(table) :
         \/ plan = <<>> /\ UNCHANGED procs
         \/ /\ plan # <<>>
            /\ \E t \in Tasks : At(t, "idle") /\ Goes(t, [at |-> "move", left |-> plan])
  BY DEF Reallocate
<1>3. plan \in Seq(Changes) /\ Carried(plan) = 0
  <2> DEFINE t == table
  <2>1. t \in [Validators -> Row] /\ plan \in Reallocations(t)
    BY DEF Books
  <2> HIDE DEF t
  <2> QED BY <2>1, ReallocationsStayWithin
<1>4. ASSUME NEW t \in Tasks, plan # <<>>, At(t, "idle"), Goes(t, [at |-> "move", left |-> plan])
      PROVE  Turn(t, NoCall, [at |-> "move", left |-> plan])
  <2> DEFINE p == [at |-> "move", left |-> plan]
  <2>1. p.at = "move" /\ p.left = plan /\ p = [at |-> p.at, left |-> p.left] /\ Goes(t, p)
    BY <1>4
  <2> HIDE DEF p
  <2>2. FitsTask(NoCall, p)
    BY <1>3, <1>4, <2>1 DEF FitsTask
  <2>3. Turn(t, NoCall, p)
    BY <1>1, <1>4, <2>1, <2>2, StartTurns
  <2> QED BY <2>3 DEF p
<1> QED BY <1>1, <1>2, <1>3, <1>4 DEF operatorVars

\* An alert starts one handler at most.
LEMMA AlertTurns ==
    ASSUME Fit, NEW v \in Validators, NEW uptime, AlertsOf(v, uptime)
    PROVE  \/ UNCHANGED <<calls, procs, pool, slips>>
           \/ \E t \in Tasks :
                 LET p == [at |-> "find", validator |-> v, uptime |-> uptime]
                 IN  At(t, "idle") /\ Goes(t, p) /\ Turn(t, NoCall, p)
<1>1. UNCHANGED <<operatorVars, slips>>
  BY DEF AlertsOf
<1>2. ASSUME NEW t \in Tasks, At(t, "idle"), Goes(t, [at |-> "find", validator |-> v, uptime |-> uptime])
      PROVE  Turn(t, NoCall, [at |-> "find", validator |-> v, uptime |-> uptime])
  <2> DEFINE p == [at |-> "find", validator |-> v, uptime |-> uptime]
  <2>1. p.at = "find" /\ p.validator = v /\ Goes(t, p)
    BY <1>2
  <2> HIDE DEF p
  <2>2. FitsTask(NoCall, p)
    BY <2>1 DEF FitsTask
  <2>3. Turn(t, NoCall, p)
    BY <1>1, <1>2, <2>1, <2>2, StartTurns
  <2> QED BY <2>3 DEF p
<1> QED BY <1>1, <1>2 DEF AlertsOf, HandleDown, operatorVars

\* Memory, calls and pool stay in step.
LEMMA FitStep == Fit /\ PoolFits /\ Books /\ [RiskNext]_vars => Fit' /\ PoolFits'
<1> SUFFICES ASSUME Fit, PoolFits, Books, [RiskNext]_vars PROVE Fit' /\ PoolFits'
  OBVIOUS
<1>1. ASSUME NEW c \in Callers, NEW k, NEW p, Turn(c, k, p) PROVE Fit' /\ PoolFits'
  BY <1>1, TurnKeepsFit
<1>2. ASSUME UNCHANGED <<calls, procs, pool, slips>> PROVE Fit' /\ PoolFits'
  BY <1>2 DEF Fit, PoolFits, StepOf, At, Smooth
<1>3. ASSUME NEW c \in Checks, CheckStep(c) PROVE Fit' /\ PoolFits'
  BY <1>1, <1>3, CheckTurns, Roles
<1>4. CASE Reallocate
  BY <1>1, <1>2, <1>4, ReallocateTurns, Roles
<1>5. ASSUME NEW c \in Callers, Waiting(c), SendCall(c) PROVE Fit' /\ PoolFits'
  BY <1>5, SendKeepsFit
<1>6. ASSUME NEW tx \in pool, IncludeCall(tx) \/ DropCall(tx) PROVE Fit' /\ PoolFits'
  BY <1>6, IncludeKeepsFit, DropKeepsFit
<1>7. ASSUME NEW t \in Tasks, TaskStep(t) PROVE Fit' /\ PoolFits'
  BY <1>1, <1>7, TaskTurns, Roles
<1>8. CASE AdminStep
  BY <1>1, <1>8, AdminTurns, HandOver, Roles DEF AdminStep
<1>9. CASE Restart
  BY <1>9, RestartKeepsFit
<1>10. ASSUME NEW v \in Validators, NEW row \in Row, WriteRow(v, row) PROVE Fit' /\ PoolFits'
  BY <1>2, <1>10 DEF WriteRow, operatorVars
<1>11. ASSUME NEW v \in Validators, NEW uptime \in 0..100, AlertsOf(v, uptime) PROVE Fit' /\ PoolFits'
  BY <1>1, <1>2, <1>11, AlertTurns, Roles
<1>12. CASE FailsElsewhere
  BY <1>2, <1>12 DEF FailsElsewhere, riskVars
<1>13. CASE UNCHANGED vars
  BY <1>2, <1>13 DEF vars, operatorVars, riskVars
<1>14. ASSUME NEW c \in Callers, BuildCall(c) PROVE Fit' /\ PoolFits'
  BY <1>14, BuildKeepsFit
<1> QED
  BY <1>3, <1>4, <1>5, <1>6, <1>7, <1>8, <1>9, <1>10, <1>11, <1>12, <1>13, <1>14
     DEF RiskNext, RiskStep, WatchStep, NetworkStep

\* What a handler has taken and not yet given is an integer.
LEMMA CarriesInt ==
    ASSUME NEW k, NEW p, FitsTask(k, p), p.at = "move"
    PROVE  Carried(p.left) \in Int
<1> DEFINE left == p.left
<1>1. left \in Seq(Changes)
  BY DEF FitsTask
<1> HIDE DEF left
<1>2. Carried(left) \in Int
  BY <1>1, CarriedIsTotal, TotalInt, AmountsAreInts
<1> QED BY <1>2 DEF left

LEMMA InMoveInt ==
    ASSUME Fit
    PROVE  /\ \A t \in Tasks : InMove(t) \in Int
           /\ TakenByMoves \in Int
<1>1. ASSUME NEW t \in Tasks PROVE InMove(t) \in Int
  <2>1. FitsTask(calls[t], procs[t])
    BY Roles DEF Fit, Fits
  <2> QED BY <2>1, CarriesInt DEF InMove, At
<1> DEFINE f == [t \in Tasks |-> InMove(t)]
<1>2. DOMAIN f = Tasks /\ \A t \in Tasks : f[t] \in Int
  BY <1>1
<1> HIDE DEF f
<1>3. SumFunctionOnSet(f, Tasks) \in Int
  BY <1>2, SumInt, RiskAssumption
<1>4. TakenByMoves \in Int
  BY <1>2, <1>3 DEF TakenByMoves, SumFunction, f
<1> QED BY <1>1, <1>4

\* The next update that a reallocation makes, and what it carries then.
LEMMA MoveOf ==
    ASSUME Fit, NEW t \in Tasks, Move(t)
    PROVE  LET left == procs[t].left
               change == Head(left)
           IN  /\ left \in Seq(Changes) /\ left # <<>> /\ change \in Changes
               /\ change.validator \in Validators /\ change.n \in Int
               /\ table' = [table EXCEPT ![change.validator].stake = @ + change.n]
               /\ procs' = [procs EXCEPT ![t] = Onward(procs[t])]
<1>1. procs[t].at = "move" /\ procs[t].left \in Seq(Changes) /\ procs[t].left # <<>>
  BY Roles DEF Move, At, Fit, Fits, FitsTask
<1> DEFINE left == procs[t].left
           change == Head(left)
<1>2. left \in Seq(Changes) /\ left # <<>>
  BY <1>1
<1>3. procs' = [procs EXCEPT ![t] = Onward(procs[t])]
  BY DEF Move, NextOf, Goes, Onward
<1>4. table' = [table EXCEPT ![change.validator].stake = @ + change.n]
  BY DEF Move
<1> HIDE DEF left
<1>5. change \in Changes
  BY <1>2, RestOf
<1>6. change.validator \in Validators /\ change.n \in Int
  <2> HIDE DEF change
  <2> QED BY <1>5 DEF Changes
<1> QED BY <1>2, <1>3, <1>4, <1>5, <1>6 DEF left

\* The next row that is written after a slash.
LEMMA RewriteOf ==
    ASSUME Fit, NEW t \in Tasks, Rewrite(t)
    PROVE  LET left == procs[t].left
               write == Head(left)
           IN  /\ left \in Seq(Payouts \X Nat) /\ left # <<>> /\ write \in Payouts \X Nat
               /\ owed' = [owed EXCEPT ![write[1]] = write[2]]
               /\ procs' = [procs EXCEPT ![t] = Onward(procs[t])]
<1>1. procs[t].at = "rewrite" /\ procs[t].left \in Seq(Payouts \X Nat) /\ procs[t].left # <<>>
  BY Roles DEF Rewrite, At, Fit, Fits, FitsTask
<1> DEFINE left == procs[t].left
           write == Head(left)
<1>2. left \in Seq(Payouts \X Nat) /\ left # <<>>
  BY <1>1
<1>3. procs' = [procs EXCEPT ![t] = Onward(procs[t])]
  BY DEF Rewrite, NextOf, Goes, Onward
<1>4. owed' = [owed EXCEPT ![write[1]] = write[2]]
  BY DEF Rewrite
<1> HIDE DEF left
<1>5. write \in Payouts \X Nat
  BY <1>2, RestOf
<1> QED BY <1>2, <1>3, <1>4, <1>5 DEF left

\* The table, the totals, the pending rows and what is booked keep their types.
LEMMA BooksStep == Fit /\ PoolFits /\ Books /\ [RiskNext]_vars => Books'
<1> SUFFICES ASSUME Fit, PoolFits, Books, [RiskNext]_vars PROVE Books'
  OBVIOUS
<1>1. ASSUME UNCHANGED <<table, staked, owed, booked>> PROVE Books'
  BY <1>1 DEF Books
<1>2. ASSUME NEW c \in Checks, CheckStep(c) PROVE Books'
  BY <1>1, <1>2 DEF CheckStep, StartCheck, Decide, AfterPause, AfterUnpause, ReportRisks, chainVars
<1>3. CASE Reallocate
  BY <1>1, <1>3 DEF Reallocate, chainVars
<1>4. ASSUME NEW c \in Callers, BuildCall(c) \/ SendCall(c) PROVE Books'
  BY <1>1, <1>4 DEF BuildCall, SendCall, riskVars, chainVars
<1>5. ASSUME NEW tx \in pool, IncludeCall(tx) PROVE Books'
  <2>1. UNCHANGED <<table, owed, booked>>
    BY <1>5 DEF IncludeCall
  <2>2. \/ staked' = staked
        \/ tx.op.is = "slash" /\ tx.op.n <= staked /\ staked' = staked - tx.op.n
    BY <1>5 DEF IncludeCall, Accepted
  <2>3. tx.op.is = "slash" => tx.op.n \in Nat
    BY DEF PoolFits
  <2> DEFINE n == tx.op.n
  <2>4. \/ staked' = staked
        \/ n \in Nat /\ n <= staked /\ staked' = staked - n
    BY <2>2, <2>3
  <2> HIDE DEF n
  <2>5. staked' \in Nat /\ staked' <= StakedAtStart
    BY <2>4, RiskAssumption DEF Books
  <2> QED BY <2>1, <2>5 DEF Books
<1>6. ASSUME NEW tx \in pool, DropCall(tx) PROVE Books'
  BY <1>1, <1>6 DEF DropCall, riskVars
<1>7. ASSUME NEW t \in Tasks, TaskStep(t) PROVE Books'
  <2>1. CASE Move(t)
    <3> DEFINE change == Head(procs[t].left)
               v == change.validator
    <3>1. v \in Validators /\ change.n \in Int /\ table' = [table EXCEPT ![v].stake = @ + change.n]
      BY <2>1, MoveOf
    <3>2. UNCHANGED <<staked, owed, booked>>
      BY <2>1 DEF Move, chainVars
    <3>3. [table[v] EXCEPT !.stake = @ + change.n] \in Row
      <4> DEFINE n == change.n
                 row == table[v]
      <4>1. n \in Int /\ row \in Row
        BY <3>1 DEF Books
      <4> HIDE DEF n, row
      <4>2. [row EXCEPT !.stake = @ + n] \in Row
        BY <4>1 DEF Row
      <4> QED BY <4>2 DEF n, row
    <3> DEFINE moved == [table[v] EXCEPT !.stake = @ + change.n]
    <3>4. table' = [table EXCEPT ![v] = moved]
      BY <3>1
    <3> HIDE DEF moved
    <3>5. table' \in [Validators -> Row]
      BY <3>1, <3>3, <3>4 DEF Books, moved
    <3> QED BY <3>2, <3>5 DEF Books
  <2>2. CASE Rewrite(t)
    <3> DEFINE write == Head(procs[t].left)
    <3>1. write \in Payouts \X Nat /\ owed' = [owed EXCEPT ![write[1]] = write[2]]
      BY <2>2, RewriteOf
    <3>2. UNCHANGED <<table, staked, booked>>
      BY <2>2 DEF Rewrite, chainVars
    <3> HIDE DEF write
    <3>3. owed' \in [Payouts -> Nat]
      BY <3>1 DEF Books
    <3> QED BY <3>2, <3>3 DEF Books
  <2>3. CASE AwaitFails(t)
    <3>1. booked' = booked - InMove(t) /\ InMove(t) \in Int
      BY <2>3, InMoveInt DEF AwaitFails
    <3>2. UNCHANGED <<table, staked, owed>>
      BY <2>3 DEF AwaitFails, chainVars
    <3> QED BY <3>1, <3>2 DEF Books
  <2>4. CASE FindDown(t) \/ AfterSlash(t) \/ ReadTotals(t) \/ ListPending(t)
    BY <1>1, <2>4 DEF FindDown, AfterSlash, ReadTotals, ListPending, chainVars
  <2> QED BY <1>7, <2>1, <2>2, <2>3, <2>4 DEF TaskStep
<1>8. CASE AdminStep
  BY <1>1, <1>8 DEF AdminStep, AdminCalls, AdminAnswered, AdminSlashed, AdminRecalibrated, chainVars
<1>9. CASE Restart
  <2>1. booked' = booked - TakenByMoves /\ TakenByMoves \in Int
    BY <1>9, InMoveInt DEF Restart
  <2>2. UNCHANGED <<table, staked, owed>>
    BY <1>9 DEF Restart, chainVars
  <2> QED BY <2>1, <2>2 DEF Books
<1>10. ASSUME NEW v \in Validators, NEW row \in Row, WriteRow(v, row) PROVE Books'
  <2>1. table' = [table EXCEPT ![v] = row] /\ UNCHANGED <<staked, owed>>
        /\ booked' = booked + row.stake - table[v].stake
    BY <1>10 DEF WriteRow, chainVars
  <2>2. row.stake \in Int /\ table[v].stake \in Int
    <3>1. \A r \in Row : r.stake \in Int
      BY DEF Row
    <3> QED BY <3>1 DEF Books
  <2>3. booked' \in Int
    BY <2>1, <2>2 DEF Books
  <2> QED BY <2>1, <2>3 DEF Books
<1>11. ASSUME NEW v \in Validators, NEW uptime \in 0..100, AlertsOf(v, uptime) PROVE Books'
  BY <1>1, <1>11 DEF AlertsOf, chainVars
<1>12. CASE FailsElsewhere
  BY <1>1, <1>12 DEF FailsElsewhere, riskVars
<1>13. CASE UNCHANGED vars
  BY <1>1, <1>13 DEF vars, riskVars
<1> QED
  BY <1>2, <1>3, <1>4, <1>5, <1>6, <1>7, <1>8, <1>9, <1>10, <1>11, <1>12, <1>13
     DEF RiskNext, RiskStep, WatchStep, NetworkStep

\* At the start there is no call, nothing in memory, and nothing in the pool.
LEMMA ShapeInit == TableTypeOK /\ RiskInit => Shape
<1> SUFFICES ASSUME TableTypeOK, RiskInit PROVE Shape
  OBVIOUS
<1>1. /\ calls = [c \in Callers |-> NoCall] /\ pool = {} /\ procs = [c \in Callers |-> Idle]
      /\ staked = StakedAtStart /\ owed = OwedAtStart /\ booked = StakeOf(table, Validators)
      /\ table \in [Validators -> Row]
  BY DEF RiskInit, OperatorInit, TableTypeOK
<1>2. NoCall.step = "none" /\ Idle.at = "idle"
  BY DEF NoCall, Idle
<1>3. \A c \in Callers : Fits(c, NoCall, Idle)
  BY <1>2, AdminOps DEF Fits, FitsTask, FitsCheck, Calls
<1>4. Fit
  BY <1>1, <1>3 DEF Fit
<1>5. PoolFits
  BY <1>1, <1>2, Roles DEF PoolFits, StepOf, At
<1>6. Books
  <2>1. booked \in Int
    <3> DEFINE t == table
    <3>1. t \in [Validators -> Row] /\ booked = StakeOf(t, Validators)
      BY <1>1
    <3> HIDE DEF t
    <3>2. StakeOf(t, Validators) \in Int
      BY <3>1, ScoresAndStakes
    <3> QED BY <3>1, <3>2
  <2> QED BY <1>1, <2>1, RiskAssumption DEF Books
<1> QED BY <1>4, <1>5, <1>6 DEF Shape

\* The shape of the state is invariant.
LEMMA ShapeInvariant == RiskSpec => []Shape
<1>1. Shape /\ [RiskNext]_vars => Shape'
  BY FitStep, BooksStep DEF Shape
<1> QED BY <1>1, ShapeInit, PTL DEF RiskSpec
-----------------------------------------------------------------------------
(* The validator service is a component as the risk engine expects them. *)

\* What is measured makes a row, whatever Horizon answers.
LEMMA MeasuredIsRow ==
    ASSUME NEW row \in Row, NEW found \in Findings
    PROVE  Measured(row, found) \in Row
<1> DEFINE uptime == IF found.is = "error" THEN row.uptime ELSE UptimeOf(found)
           stake == CASE found.is = "error" -> row.stake [] found.is = "missing" -> 0
                      [] OTHER -> found.balance
           rest == CASE found.is = "error" -> row.rest [] found.is = "missing" -> 300
                     [] OTHER -> 225 + found.power
<1>1. row.uptime \in 0..100 /\ row.rest \in 0..450 /\ row.stake \in Int
  BY DEF Row
<1>2. \/ found.is \in {"error", "missing"}
      \/ found.is = "found" /\ found.balance \in Nat /\ found.power \in 0..150 /\ found.rate \in 0..100
  BY ServiceAssumption
<1>3. uptime \in 0..100
  <2>1. found.is = "found" => UptimeOf(found) \in 0..100
    <3> DEFINE rate == found.rate
    <3>1. found.is = "found" => rate \in 0..100
      BY <1>2
    <3> HIDE DEF rate
    <3>2. rate \in 0..100 => Most(Most(rate, 90) - 5, 80) \in 0..100 /\ Most(rate, 90) \in 0..100
      BY DEF Most
    <3> QED BY <3>1, <3>2 DEF UptimeOf, rate
  <2>2. found.is = "missing" => UptimeOf(found) \in 0..100
    BY DEF UptimeOf
  <2> QED BY <1>1, <1>2, <2>1, <2>2
<1>4. stake \in Int
  BY <1>1, <1>2
<1>5. rest \in 0..450
  BY <1>1, <1>2
<1>6. Measured(row, found) =
        [uptime |-> uptime, rest |-> rest, score |-> PerformanceScore(uptime, rest),
         stake |-> stake, late |-> FALSE]
  BY DEF Measured
<1> HIDE DEF uptime, stake, rest
<1>7. PerformanceScore(uptime, rest) \in 1..1000
  BY <1>3, <1>5 DEF PerformanceScore, Least, MinUptime
<1> QED BY <1>3, <1>4, <1>5, <1>6, <1>7 DEF Row

\* A step of the service is a write, an alert or a fault, or nothing to the risk engine.
LEMMA WatchStepsAreRisks == Books /\ FetchFits /\ [WatchNext]_watchVars => [RiskNext]_vars /\ FetchFits'
<1> SUFFICES ASSUME Books, FetchFits, [WatchNext]_watchVars PROVE [RiskNext]_vars /\ FetchFits'
  OBVIOUS
<1>1. Idle.at = "idle"
  BY DEF Idle
<1>2. CASE RiskStep /\ UNCHANGED <<fetch, fetches>>
  BY <1>2 DEF RiskNext, FetchFits
<1>3. CASE Restart /\ fetch' = Idle
  BY <1>3 DEF RiskNext, FetchFits
<1>4. CASE StartFetch
  <2>1. PICK order \in SetToSeqs(Validators) : fetch' = [at |-> "measure", left |-> order]
    BY <1>4 DEF StartFetch
  <2>2. order \in Seq(Validators)
    BY ValidatorsAssumption, ListsAll
  <2>3. FetchFits'
    <3> DEFINE f == [at |-> "measure", left |-> order]
    <3>1. f = [at |-> "measure", left |-> f.left] /\ f.left \in Seq(Validators)
      BY <2>2
    <3> QED BY <2>1, <3>1 DEF FetchFits
  <2> QED BY <1>4, <2>3 DEF StartFetch
<1>5. CASE Measure
  <2>1. fetch = [at |-> "measure", left |-> fetch.left] /\ fetch.left \in Seq(Validators) /\ fetch.left # <<>>
    BY <1>1, <1>5 DEF Measure, FetchFits
  <2> DEFINE v == Head(fetch.left)
  <2>2. PICK found \in Findings :
            fetch' = [at |-> "write", left |-> fetch.left, row |-> Measured(table[v], found)]
    BY <1>5 DEF Measure
  <2>3. v \in Validators
    BY <2>1, RestOf
  <2>4. Measured(table[v], found) \in Row
    BY <2>3, MeasuredIsRow DEF Books
  <2>5. FetchFits'
    <3> DEFINE row == Measured(table[v], found)
               f == [at |-> "write", left |-> fetch.left, row |-> row]
    <3>1. fetch' = f /\ row \in Row
      BY <2>2, <2>4
    <3> HIDE DEF row
    <3>2. /\ f = [at |-> f.at, left |-> f.left, row |-> f.row] /\ f.at \in {"write", "alert"}
          /\ f.left \in Seq(Validators) /\ f.left # <<>> /\ f.row \in Row
      BY <2>1, <3>1
    <3> HIDE DEF f
    <3> QED BY <3>1, <3>2 DEF FetchFits
  <2> QED BY <1>5, <2>5 DEF Measure
<1>6. ASSUME fetch.at \in {"write", "alert"}
      PROVE  /\ fetch = [at |-> fetch.at, left |-> fetch.left, row |-> fetch.row]
             /\ fetch.left \in Seq(Validators) /\ fetch.left # <<>> /\ fetch.row \in Row
             /\ Head(fetch.left) \in Validators /\ Tail(fetch.left) \in Seq(Validators)
  <2>1. /\ fetch = [at |-> fetch.at, left |-> fetch.left, row |-> fetch.row]
        /\ fetch.left \in Seq(Validators) /\ fetch.left # <<>> /\ fetch.row \in Row
    BY <1>1, <1>6 DEF FetchFits
  <2> QED BY <2>1, RestOf
<1>7. CASE Upsert
  <2>1. fetch.at = "write" /\ WriteRow(Head(fetch.left), fetch.row) /\ fetch' = [fetch EXCEPT !.at = "alert"]
    BY <1>7 DEF Upsert
  <2>2. RiskNext
    BY <1>6, <2>1 DEF RiskNext
  <2>3. fetch' = [at |-> "alert", left |-> fetch.left, row |-> fetch.row]
    BY <1>6, <2>1
  <2>4. FetchFits'
    <3> DEFINE f == [at |-> "alert", left |-> fetch.left, row |-> fetch.row]
    <3>1. /\ f = [at |-> f.at, left |-> f.left, row |-> f.row] /\ f.at \in {"write", "alert"}
          /\ f.left \in Seq(Validators) /\ f.left # <<>> /\ f.row \in Row
      BY <1>6, <2>1
    <3>2. fetch' = f
      BY <2>3
    <3> HIDE DEF f
    <3> QED BY <3>1, <3>2 DEF FetchFits
  <2> QED BY <2>2, <2>4
<1>8. CASE Alert
  <2>1. fetch.at = "alert" /\ fetch' = [at |-> "measure", left |-> Tail(fetch.left)]
    BY <1>8 DEF Alert
  <2>2. FetchFits'
    <3> DEFINE f == [at |-> "measure", left |-> Tail(fetch.left)]
    <3>1. f = [at |-> "measure", left |-> f.left] /\ f.left \in Seq(Validators)
      BY <1>6, <2>1
    <3>2. fetch' = f
      BY <2>1
    <3> HIDE DEF f
    <3> QED BY <3>1, <3>2 DEF FetchFits
  <2>3. UNCHANGED <<operatorVars, table, emergencyMode, asked, chainVars, owed, booked, slips>>
    BY <1>8 DEF Alert
  <2>4. CASE IsDown(fetch.row)
    <3>1. fetch.row.uptime \in 0..100
      BY <1>6, <2>1 DEF Row
    <3>2. AlertsOf(Head(fetch.left), fetch.row.uptime)
      BY <1>8, <2>4 DEF Alert, AlertsOf
    <3> QED BY <1>6, <2>1, <2>2, <3>1, <3>2 DEF RiskNext
  <2>5. CASE ~IsDown(fetch.row)
    <3>1. UNCHANGED procs
      BY <1>8, <2>5 DEF Alert
    <3> QED BY <2>2, <2>3, <3>1 DEF vars, riskVars, chainVars
  <2> QED BY <2>4, <2>5
<1>9. CASE EndFetch
  BY <1>9 DEF EndFetch, FetchFits
<1>10. CASE FetchFails
  BY <1>10 DEF FetchFails, FailsElsewhere, RiskNext, FetchFits
<1>11. CASE UNCHANGED watchVars
  BY <1>11 DEF watchVars, FetchFits
<1> QED
  BY <1>2, <1>3, <1>4, <1>5, <1>7, <1>8, <1>9, <1>10, <1>11 DEF WatchNext, ServiceStep

\* The service and the risk engine together do nothing that the risk engine among any
\* components would not do: what is proved of RiskSpec holds for the backend.
THEOREM WatchImplementsRisk == WatchSpec => RiskSpec
<1>1. TableTypeOK /\ WatchInit => RiskInit /\ Shape /\ FetchFits
  BY ShapeInit DEF WatchInit, ServiceInit, FetchFits
<1>2. Shape /\ FetchFits /\ [WatchNext]_watchVars => Shape' /\ FetchFits' /\ [RiskNext]_vars
  BY WatchStepsAreRisks, FitStep, BooksStep DEF Shape
<1> QED BY <1>1, <1>2, PTL DEF WatchSpec, RiskSpec

\* On every table that measurements, slashes and reallocations can produce, no plan hands
\* out more than there is.
THEOREM PlansAlwaysStayWithin == WatchSpec => []PlansStayWithin
<1>1. Shape => PlansStayWithin
  BY PlansOfATable DEF Shape, Books, TableTypeOK
<1> QED BY <1>1, WatchImplementsRisk, ShapeInvariant, PTL
-----------------------------------------------------------------------------
(* Stake only moves. *)

\* The first update of a list and what the others carry.
LEMMA CarriedOfRest ==
    ASSUME NEW left \in Seq(Changes), left # <<>>
    PROVE  Carried(left) = Head(left).n + Carried(Tail(left))
<1> DEFINE n == Len(left) - 1
           k == [i \in 1..1+n |-> left[i].n]
           one == [i \in 1..1 |-> left[1].n]
           rest == [i \in 1..n |-> Tail(left)[i].n]
<1>1. /\ Head(left) = left[1] /\ Tail(left) \in Seq(Changes)
      /\ Len(left) \in Nat /\ Len(left) > 0 /\ DOMAIN left = 1..Len(left)
      /\ DOMAIN Tail(left) = 1..n
      /\ \A i \in 1..n : Tail(left)[i] = left[i + 1]
  BY RestOf
<1>2. n \in Nat /\ 1 + n = Len(left)
  BY <1>1
<1>3. Carried(left) = SumFunctionOnSet(k, 1..1+n) /\ Carried(Tail(left)) = SumFunctionOnSet(rest, 1..n)
  BY <1>1, <1>2 DEF Carried, SumFunction
<1>4. \A i \in 1..1+n : left[i].n \in Int
  <2>1. \A i \in 1..1+n : left[i] \in Changes
    BY <1>1, <1>2, ElementOfSeq
  <2>2. \A c \in Changes : c.n \in Int
    BY DEF Changes
  <2> QED BY <2>1, <2>2
<1> HIDE DEF n
<1>5. \A i \in 1..1 : k[i] = one[i] /\ one[i] \in Int
  BY <1>2, <1>4
<1>6. \A i \in 1..n : k[i + 1] = rest[i] /\ rest[i] \in Int
  <2>1. \A i \in 1..n : i + 1 \in 1..1+n
    BY <1>2
  <2> QED BY <1>1, <1>4, <2>1
<1>7. one[1] = Head(left).n /\ one[1] \in Int
  BY <1>1, <1>5
<1> HIDE DEF k, one, rest
<1>8. Joins(k, 1, one, n, rest)
  BY <1>5, <1>6 DEF Joins
<1>9. SumFunctionOnSet(k, 1..1+n) = SumFunctionOnSet(one, 1..1) + SumFunctionOnSet(rest, 1..n)
  <2> DEFINE m == 1
  <2>1. m \in Nat /\ n \in Nat /\ Joins(k, m, one, n, rest)
    BY <1>2, <1>8
  <2> HIDE DEF m
  <2>2. SumFunctionOnSet(k, 1..m+n) = SumFunctionOnSet(one, 1..m) + SumFunctionOnSet(rest, 1..n)
    BY <2>1, SumJoined
  <2> QED BY <2>2 DEF m
<1>10. SumFunctionOnSet(one, 1..1) = one[1]
  <2>1. 1..1 = {} \cup {1} /\ IsFiniteSet({}) /\ 1 \notin {} /\ \A y \in {} \cup {1} : one[y] \in Int
    BY <1>7, FS_EmptySet
  <2>2. SumFunctionOnSet(one, {} \cup {1}) = SumFunctionOnSet(one, {}) + one[1]
    BY <2>1, SumPut
  <2>3. SumFunctionOnSet(one, {}) = 0
    BY <2>1, SumPick
  <2> QED BY <1>7, <2>1, <2>2, <2>3
<1> QED BY <1>3, <1>7, <1>9, <1>10

\* Nothing is carried by no update.
LEMMA CarriedByNone == Carried(<<>>) = 0
<1>1. <<>> \in Seq(Changes)
  OBVIOUS
<1>2. DOMAIN <<>> = {}
  OBVIOUS
<1>3. \A q : SumFunctionOnSet(q, {}) = 0
  BY SumPick, FS_EmptySet
<1>4. Carried(<<>>) = SumFunctionOnSet([i \in {} |-> <<>>[i].n], {})
  BY <1>2 DEF Carried, SumFunction
<1> QED BY <1>3, <1>4

\* When one row is written the stake changes by what its does.
LEMMA StakeOfChange ==
    ASSUME NEW t \in [Validators -> Row], NEW u \in [Validators -> Row], NEW v \in Validators,
           \A w \in Validators \ {v} : u[w] = t[w]
    PROVE  /\ StakeOf(t, Validators) \in Int
           /\ StakeOf(u, Validators) = StakeOf(t, Validators) - t[v].stake + u[v].stake
<1> DEFINE f == [w \in Validators |-> t[w].stake]
           g == [w \in Validators |-> u[w].stake]
<1>1. f \in [Validators -> Int] /\ g \in [Validators -> Int]
  BY DEF Row
<1>2. (\A w \in Validators \ {v} : g[w] = f[w]) /\ f[v] = t[v].stake /\ g[v] = u[v].stake
  OBVIOUS
<1>3. StakeOf(t, Validators) = SumFunction(f) /\ StakeOf(u, Validators) = SumFunction(g)
  BY DEF StakeOf
<1> HIDE DEF f, g
<1>4. SumFunction(f) \in Int /\ SumFunction(g) = SumFunction(f) - f[v] + g[v]
  BY <1>1, <1>2, ValidatorsAssumption, SumChange
<1> QED BY <1>2, <1>3, <1>4

\* When one handler goes on what moves have taken changes by what it has.
LEMMA TakenChange ==
    ASSUME Fit, Fit', NEW t \in Tasks, \A u \in Tasks \ {t} : procs'[u] = procs[u]
    PROVE  /\ InMove(t) \in Int /\ InMove(t)' \in Int /\ TakenByMoves \in Int
           /\ TakenByMoves' = TakenByMoves - InMove(t) + InMove(t)'
<1> DEFINE f == [u \in Tasks |-> InMove(u)]
           g == [u \in Tasks |-> InMove(u)']
<1>1. (\A u \in Tasks : InMove(u) \in Int) /\ TakenByMoves \in Int
  BY InMoveInt
<1>2. ASSUME NEW u \in Tasks PROVE InMove(u)' \in Int
  <2>1. FitsTask(calls'[u], procs'[u])
    BY Roles DEF Fit, Fits
  <2> QED BY <2>1, CarriesInt DEF InMove, At
<1>3. \A u \in Tasks \ {t} : InMove(u)' = InMove(u)
  BY DEF InMove, At
<1>4. f \in [Tasks -> Int] /\ g \in [Tasks -> Int] /\ f[t] = InMove(t) /\ g[t] = InMove(t)'
  BY <1>1, <1>2
<1>5. \A u \in Tasks \ {t} : g[u] = f[u]
  BY <1>3
<1>6. TakenByMoves = SumFunction(f) /\ TakenByMoves' = SumFunction(g)
  BY DEF TakenByMoves
<1> HIDE DEF f, g
<1>7. SumFunction(g) = SumFunction(f) - f[t] + g[t]
  BY <1>4, <1>5, RiskAssumption, SumChange
<1> QED BY <1>1, <1>2, <1>4, <1>6, <1>7

\* When nobody who carries out a plan goes on it does not change.
LEMMA TakenSame ==
    ASSUME \A t \in Tasks : \/ procs'[t] = procs[t]
                            \/ procs[t].at # "move" /\ procs'[t].at # "move"
    PROVE  TakenByMoves' = TakenByMoves
<1>1. \A t \in Tasks : InMove(t)' = InMove(t)
  BY DEF InMove, At
<1>2. [t \in Tasks |-> InMove(t)'] = [t \in Tasks |-> InMove(t)]
  BY <1>1
<1> QED BY <1>2 DEF TakenByMoves

\* A turn of someone who carries out no plan, before or after.
LEMMA TakenByTurn ==
    ASSUME Fit, NEW c \in Callers, NEW k, NEW p, Turn(c, k, p),
           c \in Tasks => procs[c].at # "move" /\ p.at # "move",
           UNCHANGED <<table, booked>>, StakeIsAccounted
    PROVE  StakeIsAccounted'
<1>1. TakenByMoves' = TakenByMoves
  BY TurnOf, TakenSame, Roles
<1> QED BY <1>1 DEF StakeIsAccounted

\* What a handler does next, unless it carries out updates.
LEMMA NextPlace ==
    ASSUME Fit, Books, NEW t \in Tasks
    PROVE  /\ FindDown(t) \/ AfterSlash(t) \/ ReadTotals(t) \/ ListPending(t) \/ Rewrite(t)
                 => procs[t].at # "move" /\ procs'[t].at # "move"
           /\ AwaitFails(t) => procs'[t].at # "move"
<1>1. t \in Callers /\ Idle.at = "idle"
  BY Roles DEF Idle
<1>2. \A p : Goes(t, p) => procs'[t] = p
  BY <1>1 DEF Goes, Fit
<1>3. Ends(t) => procs'[t].at # "move"
  BY <1>1, <1>2 DEF Ends
<1>4. CASE FindDown(t)
  <2>1. \A n : Goes(t, [at |-> "slashing", n |-> n]) => procs'[t].at # "move"
    BY <1>2
  <2> QED BY <1>3, <1>4, <2>1 DEF FindDown, At, AwaitFails
<1>5. CASE AfterSlash(t)
  <2>1. \A n : Goes(t, [at |-> "totals", n |-> n]) => procs'[t].at # "move"
    BY <1>2
  <2> QED BY <1>3, <1>5, <2>1 DEF AfterSlash, At, AwaitFails
<1>6. CASE ReadTotals(t)
  <2>1. \A m, n : Goes(t, [at |-> "list", new |-> m, old |-> n]) => procs'[t].at # "move"
    BY <1>2
  <2> QED BY <1>3, <1>6, <2>1 DEF ReadTotals, At, AwaitFails
<1>7. CASE ListPending(t)
  <2>1. \A left : Goes(t, [at |-> "rewrite", left |-> left]) => procs'[t].at # "move"
    BY <1>2
  <2>2. procs'[t].at # "move"
    BY <1>3, <1>7, <2>1 DEF ListPending
  <2> QED BY <1>7, <2>2 DEF ListPending, At
<1>8. CASE Rewrite(t)
  <2>1. procs[t].at = "rewrite" /\ procs'[t] = Onward(procs[t])
    BY <1>2, <1>8 DEF Rewrite, At, NextOf, Onward
  <2> DEFINE p == procs[t]
  <2>2. FitsTask(NoCall, p) /\ p.at = "rewrite"
    BY <1>1, <2>1, Roles DEF Fit, Fits, FitsTask
  <2> HIDE DEF p
  <2>3. Onward(p).at # "move"
    BY <1>1, <2>2, NextFits DEF Onward
  <2> QED BY <2>1, <2>3 DEF p
<1>9. CASE AwaitFails(t)
  BY <1>3, <1>9 DEF AwaitFails, FindDown, AfterSlash, ReadTotals, ListPending, Rewrite, At
<1> QED BY <1>4, <1>5, <1>6, <1>7, <1>8, <1>9

\* No step loses stake without booking it.
LEMMA StakeStep == Shape /\ Shape' /\ StakeIsAccounted /\ [RiskNext]_vars => StakeIsAccounted'
<1> SUFFICES ASSUME Shape, Shape', StakeIsAccounted, [RiskNext]_vars PROVE StakeIsAccounted'
  OBVIOUS
<1>1. Fit /\ PoolFits /\ Books /\ Fit' /\ Books'
  BY DEF Shape
<1>2. ASSUME UNCHANGED <<table, booked>>,
             \A t \in Tasks : \/ procs'[t] = procs[t]
                              \/ procs[t].at # "move" /\ procs'[t].at # "move"
      PROVE  StakeIsAccounted'
  BY <1>2, TakenSame DEF StakeIsAccounted
<1> DEFINE all == StakeOf(table, Validators)
           taken == TakenByMoves
<1>3. all \in Int /\ taken \in Int /\ booked \in Int /\ all + taken = booked
  <2>1. taken \in Int
    BY <1>1, InMoveInt
  <2>2. all \in Int
    <3> DEFINE t == table
    <3>1. t \in [Validators -> Row]
      BY <1>1 DEF Books
    <3> HIDE DEF t
    <3>2. StakeOf(t, Validators) \in Int
      BY <3>1, ScoresAndStakes
    <3> QED BY <3>2 DEF t
  <2> QED BY <1>1, <2>1, <2>2 DEF StakeIsAccounted, Books
<1>4. ASSUME NEW c \in Checks, CheckStep(c) PROVE StakeIsAccounted'
  <2>1. UNCHANGED <<table, booked>>
    BY <1>4 DEF CheckStep, StartCheck, Decide, AfterPause, AfterUnpause, ReportRisks
  <2> QED BY <1>1, <1>4, <2>1, CheckTurns, TakenByTurn, Roles
<1>5. CASE Reallocate
  <2>1. UNCHANGED <<table, booked>>
    BY <1>5 DEF Reallocate
  <2>2. CASE UNCHANGED procs
    BY <1>2, <2>1, <2>2
  <2>3. ASSUME NEW t \in Tasks, NEW left \in Seq(Changes), procs[t].at = "idle", Carried(left) = 0,
               Goes(t, [at |-> "move", left |-> left])
        PROVE  StakeIsAccounted'
    <3> DEFINE p == [at |-> "move", left |-> left]
    <3>1. p.at = "move" /\ p.left = left /\ procs' = [procs EXCEPT ![t] = p]
      BY <2>3 DEF Goes
    <3> HIDE DEF p
    <3>2. procs'[t] = p /\ \A u \in Tasks \ {t} : procs'[u] = procs[u]
      BY <1>1, <3>1, Roles DEF Fit
    <3>3. InMove(t) = 0 /\ InMove(t)' = 0
      BY <2>3, <3>1, <3>2 DEF InMove, At
    <3>4. TakenByMoves' = taken - InMove(t) + InMove(t)'
      BY <1>1, <3>2, TakenChange
    <3>5. TakenByMoves' = taken
      <4> HIDE DEF taken
      <4> QED BY <1>3, <3>3, <3>4
    <3> QED BY <2>1, <3>5 DEF StakeIsAccounted
  <2>4. \/ UNCHANGED procs
        \/ \E t \in Tasks, left \in Seq(Changes) :
              procs[t].at = "idle" /\ Carried(left) = 0 /\ Goes(t, [at |-> "move", left |-> left])
    BY <1>1, <1>5, ReallocateTurns, Zenon DEF At
  <2> QED BY <2>2, <2>3, <2>4
<1>6. ASSUME NEW c \in Callers, BuildCall(c) \/ SendCall(c) PROVE StakeIsAccounted'
  BY <1>2, <1>6 DEF BuildCall, SendCall, riskVars
<1>7. ASSUME NEW tx \in pool, IncludeCall(tx) \/ DropCall(tx) PROVE StakeIsAccounted'
  BY <1>2, <1>7 DEF IncludeCall, DropCall, riskVars
<1>8. ASSUME NEW t \in Tasks, Move(t) PROVE StakeIsAccounted'
  <2> DEFINE left == procs[t].left
             n == Head(left).n
             v == Head(left).validator
             rest == Carried(Tail(left))
  <2>1. /\ left \in Seq(Changes) /\ left # <<>> /\ v \in Validators /\ n \in Int
        /\ table' = [table EXCEPT ![v].stake = @ + n] /\ procs' = [procs EXCEPT ![t] = Onward(procs[t])]
    BY <1>1, <1>8, MoveOf
  <2>2. UNCHANGED booked /\ procs[t].at = "move"
    BY <1>8 DEF Move, At
  <2>3. StakeOf(table', Validators) = all + n
    <3> DEFINE old == table
               new == table'
    <3>1. old \in [Validators -> Row] /\ new \in [Validators -> Row]
      BY <1>1 DEF Books
    <3>2. (\A w \in Validators \ {v} : new[w] = old[w]) /\ new[v].stake = old[v].stake + n
          /\ old[v].stake \in Int
      <4>1. new = [old EXCEPT ![v] = [old[v] EXCEPT !.stake = @ + n]]
        BY <2>1
      <4>2. old[v] = [old[v] EXCEPT !.stake = old[v].stake] /\ old[v].stake \in Int
        <5>1. \A r \in Row : r.stake \in Int /\ r = [r EXCEPT !.stake = r.stake]
          BY DEF Row
        <5> QED BY <2>1, <3>1, <5>1
      <4>3. [old[v] EXCEPT !.stake = @ + n].stake = old[v].stake + n
        <5>1. \A r \in Row : \A m : [r EXCEPT !.stake = m].stake = m
          BY DEF Row
        <5> HIDE DEF old, new, n
        <5> QED BY <2>1, <3>1, <5>1
      <4> DEFINE moved == [old[v] EXCEPT !.stake = @ + n]
      <4>4. new = [old EXCEPT ![v] = moved] /\ moved.stake = old[v].stake + n
        BY <4>1, <4>3
      <4> HIDE DEF moved, old, new, v
      <4> QED BY <2>1, <3>1, <4>2, <4>4
    <3> HIDE DEF old, new, v, n
    <3>3. /\ StakeOf(old, Validators) \in Int
          /\ StakeOf(new, Validators) = StakeOf(old, Validators) - old[v].stake + new[v].stake
      BY <2>1, <3>1, <3>2, StakeOfChange
    <3>4. StakeOf(new, Validators) = StakeOf(old, Validators) + n
      BY <2>1, <3>2, <3>3
    <3> QED BY <3>4 DEF old, new
  <2>4. InMove(t) = n + rest
    <3>1. InMove(t) = Carried(left)
      BY <2>2 DEF InMove, At
    <3> HIDE DEF left
    <3> QED BY <2>1, <3>1, CarriedOfRest
  <2>5. procs'[t] = Onward(procs[t]) /\ \A u \in Tasks \ {t} : procs'[u] = procs[u]
    BY <1>1, <2>1, Roles DEF Fit
  <2>6. InMove(t)' = rest
    <3>1. CASE Tail(left) = <<>>
      <4>1. procs'[t].at = "idle"
        BY <2>5, <3>1 DEF Onward, Idle
      <4>2. InMove(t)' = 0
        BY <4>1 DEF InMove, At
      <4> QED BY <3>1, <4>2, CarriedByNone
    <3>2. CASE Tail(left) # <<>>
      <4>1. procs'[t] = [at |-> "move", left |-> Tail(left)]
        <5> DEFINE p == procs[t]
        <5>1. FitsTask(NoCall, p) /\ p.at = "move"
          BY <1>1, <2>2, Roles DEF Fit, Fits, FitsTask
        <5>2. Tail(p.left) # <<>>
          BY <3>2
        <5> HIDE DEF p
        <5>3. Onward(p) = [at |-> "move", left |-> Tail(p.left)]
          BY <5>1, <5>2, NextFits
        <5> QED BY <2>5, <5>3 DEF p
      <4>2. procs'[t].at = "move" /\ procs'[t].left = Tail(left)
        BY <4>1
      <4> QED BY <4>2 DEF InMove, At
    <3> QED BY <3>1, <3>2
  <2>7. /\ InMove(t) \in Int /\ InMove(t)' \in Int
        /\ TakenByMoves' = taken - InMove(t) + InMove(t)'
    BY <1>1, <2>5, TakenChange
  <2> DEFINE all2 == StakeOf(table', Validators)
             taken2 == TakenByMoves'
  <2>8. all2 + taken2 = booked
    <3>1. all2 = all + n /\ taken2 = taken - (n + rest) + rest /\ rest \in Int /\ n \in Int
      BY <2>1, <2>3, <2>4, <2>6, <2>7
    <3> HIDE DEF all2, taken2, all, taken, n, rest
    <3> QED BY <1>3, <3>1
  <2> QED BY <2>2, <2>8 DEF StakeIsAccounted
<1>9. ASSUME NEW t \in Tasks, AwaitFails(t) PROVE StakeIsAccounted'
  <2>1. UNCHANGED table /\ booked' = booked - InMove(t) /\ procs' = [procs EXCEPT ![t] = Idle]
    BY <1>9 DEF AwaitFails, Ends, Goes
  <2>2. procs'[t].at = "idle" /\ \A u \in Tasks \ {t} : procs'[u] = procs[u]
    BY <1>1, <2>1, Roles DEF Fit, Idle
  <2>3. InMove(t)' = 0
    BY <2>2 DEF InMove, At
  <2> DEFINE m == InMove(t)
             taken2 == TakenByMoves'
  <2>4. m \in Int /\ taken2 = taken - m + InMove(t)'
    BY <1>1, <2>2, TakenChange
  <2>5. booked' = booked - m
    BY <2>1
  <2>6. all + taken2 = booked'
    <3> HIDE DEF m, taken2, all, taken
    <3> QED BY <1>3, <2>3, <2>4, <2>5
  <2> QED BY <2>1, <2>6 DEF StakeIsAccounted
<1>10. ASSUME NEW t \in Tasks, FindDown(t) \/ AfterSlash(t) \/ ReadTotals(t) \/ ListPending(t) \/ Rewrite(t)
       PROVE  StakeIsAccounted'
  <2>1. procs[t].at # "move" /\ procs'[t].at # "move"
    BY <1>1, <1>10, NextPlace
  <2>2. UNCHANGED <<table, booked>>
    BY <1>10 DEF FindDown, AfterSlash, ReadTotals, ListPending, Rewrite
  <2>3. TaskStep(t)
    BY <1>10 DEF TaskStep
  <2>4. PICK k, p : Turn(t, k, p)
    BY <1>1, <2>3, TaskTurns
  <2>5. p = procs'[t]
    BY <1>1, <2>4, TurnOf, Roles
  <2> QED BY <1>1, <2>1, <2>2, <2>4, <2>5, TakenByTurn, Roles
<1>11. CASE AdminCalls \/ AdminAnswered \/ AdminSlashed
  <2>1. UNCHANGED <<table, booked>>
    BY <1>11 DEF AdminCalls, AdminAnswered, AdminSlashed
  <2> QED BY <1>1, <1>11, <2>1, AdminTurns, TakenByTurn, Roles
<1>12. CASE AdminRecalibrated
  <2>1. PICK t \in Tasks :
           /\ procs[t].at = "idle" /\ procs'[t] = [at |-> "totals", n |-> procs[Admin].n]
           /\ \A c \in Callers : c \notin {t, Admin} => procs'[c] = procs[c]
    BY <1>1, <1>12, HandOver
  <2>2. procs'[t].at = "totals"
    BY <2>1
  <2>3. UNCHANGED <<table, booked>>
    BY <1>12 DEF AdminRecalibrated
  <2> QED BY <1>2, <2>1, <2>2, <2>3, Roles
<1>13. CASE Restart
  <2>1. UNCHANGED table /\ booked' = booked - taken /\ procs' = [c \in Callers |-> Idle]
    BY <1>13 DEF Restart
  <2>2. \A t \in Tasks : InMove(t)' = 0
    BY <2>1, Roles DEF InMove, At, Idle
  <2>3. TakenByMoves' = 0
    <3>1. [t \in Tasks |-> InMove(t)'] = [t \in Tasks |-> 0]
      BY <2>2
    <3> QED BY <3>1, RiskAssumption, SumOfZeros DEF TakenByMoves
  <2>5. all + 0 = booked'
    <3> HIDE DEF all, taken
    <3> QED BY <1>3, <2>1
  <2> QED BY <2>1, <2>3, <2>5 DEF StakeIsAccounted
<1>14. ASSUME NEW v \in Validators, NEW row \in Row, WriteRow(v, row) PROVE StakeIsAccounted'
  <2>1. table' = [table EXCEPT ![v] = row] /\ UNCHANGED procs
        /\ booked' = booked + row.stake - table[v].stake
    BY <1>14 DEF WriteRow
  <2>2. TakenByMoves' = taken
    BY <2>1, TakenSame
  <2> DEFINE old == table
             new == table'
             all2 == StakeOf(new, Validators)
             a == table[v].stake
             b == row.stake
  <2>3. old \in [Validators -> Row] /\ new \in [Validators -> Row]
    BY <1>1 DEF Books
  <2>4. (\A w \in Validators \ {v} : new[w] = old[w]) /\ new[v] = row /\ a \in Int /\ b \in Int
    BY <2>1, <2>3 DEF Row
  <2>5. all2 = all - a + b
    <3> HIDE DEF old, new
    <3>1. all2 = StakeOf(old, Validators) - old[v].stake + new[v].stake
      BY <2>3, <2>4, StakeOfChange
    <3> QED BY <2>4, <3>1 DEF old
  <2>6. all2 + taken = booked'
    <3>1. booked' = booked + b - a
      BY <2>1
    <3> HIDE DEF all, taken, all2, a, b
    <3> QED BY <1>3, <2>4, <2>5, <3>1
  <2> QED BY <2>2, <2>6 DEF StakeIsAccounted
<1>15. ASSUME NEW v \in Validators, NEW uptime \in 0..100, AlertsOf(v, uptime) PROVE StakeIsAccounted'
  <2>1. UNCHANGED <<table, booked>>
    BY <1>15 DEF AlertsOf
  <2>2. CASE UNCHANGED procs
    BY <1>2, <2>1, <2>2
  <2>3. ASSUME NEW t \in Tasks, procs[t].at = "idle",
               Goes(t, [at |-> "find", validator |-> v, uptime |-> uptime])
        PROVE  StakeIsAccounted'
    <3>1. procs'[t].at = "find" /\ \A u \in Tasks \ {t} : procs'[u] = procs[u]
      BY <1>1, <2>3, Roles DEF Goes, Fit
    <3> QED BY <1>2, <2>1, <2>3, <3>1
  <2> QED BY <1>15, <2>2, <2>3 DEF AlertsOf, HandleDown, At
<1>16. CASE FailsElsewhere
  BY <1>2, <1>16 DEF FailsElsewhere, riskVars
<1>17. CASE UNCHANGED vars
  BY <1>2, <1>17 DEF vars, riskVars
<1> QED
  BY <1>4, <1>5, <1>6, <1>7, <1>8, <1>9, <1>10, <1>11, <1>12, <1>13, <1>14, <1>15, <1>16, <1>17
     DEF RiskNext, RiskStep, WatchStep, NetworkStep, TaskStep, AdminStep

\* Whatever reallocations, slashes and measurements overlap, what the rows hold and what
\* moves have taken and not yet given is what was measured, less what interrupted moves
\* lost.
THEOREM StakeIsAlwaysAccounted == RiskSpec => []StakeIsAccounted
<1>1. TableTypeOK /\ RiskInit => StakeIsAccounted
  <2> SUFFICES ASSUME TableTypeOK, RiskInit PROVE StakeIsAccounted
    OBVIOUS
  <2>1. booked = StakeOf(table, Validators) /\ procs = [c \in Callers |-> Idle]
    BY DEF RiskInit
  <2>2. [t \in Tasks |-> InMove(t)] = [t \in Tasks |-> 0]
    BY <2>1, Roles DEF InMove, At, Idle
  <2>3. TakenByMoves = 0
    BY <2>2, RiskAssumption, SumOfZeros DEF TakenByMoves
  <2> DEFINE t == table
             all == StakeOf(t, Validators)
  <2>4. t \in [Validators -> Row]
    BY DEF TableTypeOK
  <2>5. all + 0 = booked
    <3> HIDE DEF t
    <3>1. all \in Int
      BY <2>4, ScoresAndStakes
    <3>2. booked = all
      BY <2>1 DEF t
    <3> HIDE DEF all
    <3> QED BY <3>1, <3>2
  <2> QED BY <2>3, <2>5 DEF StakeIsAccounted
<1> QED BY <1>1, StakeStep, ShapeInvariant, PTL DEF RiskSpec
-----------------------------------------------------------------------------
(* The pause follows the mode. *)

UnderWay(c) == calls[c].step \in {"asked", "built", "sent"}
Pending(c) == calls[c].step \in {"built", "sent"}
Doomed(c) == calls[c].step \in {"stale", "failed"}

\* Of two calls that have read the account one is going to throw, and as long as there is
\* none that makes the contract what the mode is by now, it is so already: a call that
\* would change that reads the account too late.
CallsFollowMode ==
    \/ ~NothingWrong
    \/ \E c \in Checks : Doomed(c)
    \/ \E c, d \in Checks : c # d /\ Pending(c) /\ Pending(d)
    \/ \E c \in Checks : UnderWay(c) /\ Wanted(c)
    \/ (\A c \in Checks : ~Pending(c)) /\ paused = emergencyMode

PauseInv ==
    /\ emergencyMode \in BOOLEAN /\ paused \in BOOLEAN
    /\ CallsFollowMode

\* A step that neither makes nor ends a call of a check keeps them so.
LEMMA PauseKept ==
    ASSUME PauseInv, slips \subseteq slips', emergencyMode' = emergencyMode, paused' = paused,
           \A c \in Checks : \/ calls'[c] = calls[c] /\ (UnderWay(c) => procs'[c] = procs[c])
                             \/ calls[c].step = "done" /\ calls'[c] = NoCall
                             \/ /\ calls[c].step = "built" /\ calls'[c].step = "sent"
                                /\ procs'[c] = procs[c]
    PROVE  PauseInv'
<1>1. ASSUME NEW c \in Checks
      PROVE  /\ Doomed(c)' <=> Doomed(c)
             /\ Pending(c)' <=> Pending(c)
             /\ UnderWay(c)' <=> UnderWay(c)
             /\ UnderWay(c) => procs'[c] = procs[c]
  BY DEF Doomed, Pending, UnderWay, NoCall
<1>2. NothingWrong' => NothingWrong
  BY DEF NothingWrong
<1>3. CallsFollowMode'
  BY <1>1, <1>2 DEF PauseInv, CallsFollowMode, Wanted, At
<1> QED BY <1>3 DEF PauseInv

\* The steps of a check.
LEMMA PauseOfChecks ==
    ASSUME Fit, PauseInv, NEW c \in Checks, CheckStep(c)
    PROVE  PauseInv'
<1>1. c \in Callers /\ NoCall.step = "none" /\ FitsCheck(calls[c], procs[c]) /\ Checks \subseteq Callers
  BY Roles DEF Fit, Fits, NoCall
<1>2. PICK k, p : Turn(c, k, p)
  BY CheckTurns
<1>3. /\ slips \subseteq slips' /\ calls'[c] = k /\ procs'[c] = p
      /\ \A d \in Checks : d # c => calls'[d] = calls[d] /\ procs'[d] = procs[d]
  <2>1. slips \subseteq slips'
    BY <1>2 DEF Turn
  <2> QED BY <1>1, <1>2, <2>1, TurnOf
<1>4. paused' = paused
  BY DEF CheckStep, StartCheck, Decide, AfterPause, AfterUnpause, ReportRisks, chainVars
<1>5. CASE StartCheck(c) \/ ReportRisks(c)
  <2>1. emergencyMode' = emergencyMode /\ calls' = calls
    BY <1>5 DEF StartCheck, ReportRisks, operatorVars
  <2>2. calls[c] = NoCall
    BY <1>1, <1>5 DEF StartCheck, ReportRisks, At, FitsCheck, Calls
  <2>3. ~UnderWay(c)
    BY <1>1, <2>2 DEF UnderWay
  <2> QED BY <1>3, <1>4, <2>1, <2>3, PauseKept
<1>6. CASE AfterPause(c) \/ AfterUnpause(c)
  <2>1. emergencyMode' = emergencyMode /\ CallEnds(c)
    BY <1>6 DEF AfterPause, AfterUnpause
  <2>2. CASE calls[c].step = "done"
    <3>1. calls'[c] = NoCall
      BY <1>1, <2>1, EndsOf DEF Fit
    <3> QED BY <1>3, <1>4, <2>1, <2>2, <3>1, PauseKept
  <2>3. CASE calls[c].step # "done"
    <3>1. ~NothingWrong'
      BY <2>1, <2>3, EndsOf DEF Smooth, NothingWrong
    <3> QED BY <1>4, <2>1, <3>1 DEF PauseInv, CallsFollowMode
  <2> QED BY <2>2, <2>3
<1>7. CASE Decide(c)
  <2>1. calls[c] = NoCall
    BY <1>1, <1>7 DEF Decide, At, FitsCheck, Calls
  <2>2. ~UnderWay(c)
    BY <1>1, <2>1 DEF UnderWay
  <2>3. CASE UNCHANGED <<calls, emergencyMode>>
    BY <1>3, <1>4, <2>2, <2>3, PauseKept
  <2>4. CASE ~UNCHANGED <<calls, emergencyMode>>
    <3>1. \/ /\ ~emergencyMode /\ emergencyMode' = TRUE
             /\ Begin(c, [is |-> "pause"]) /\ procs'[c].at = "pausing"
          \/ /\ emergencyMode /\ emergencyMode' = FALSE
             /\ Begin(c, [is |-> "unpause"]) /\ procs'[c].at = "unpausing"
      <4>1. \A r : Goes(c, [at |-> "pausing", risks |-> r]) => procs'[c].at = "pausing"
        BY <1>1 DEF Goes, Fit
      <4>2. \A r : Goes(c, [at |-> "unpausing", risks |-> r]) => procs'[c].at = "unpausing"
        BY <1>1 DEF Goes, Fit
      <4> QED BY <1>7, <2>4, <4>1, <4>2 DEF Decide
    <3>2. calls'[c].step = "asked"
      BY <1>1, <3>1 DEF Begin, Fit
    <3>3. UnderWay(c)'
      BY <3>2 DEF UnderWay
    <3>4. emergencyMode' \in BOOLEAN /\ (emergencyMode' <=> procs'[c].at = "pausing")
      BY <3>1
    <3>7. CallsFollowMode'
      BY <3>3, <3>4 DEF CallsFollowMode, Wanted, At
    <3> QED BY <1>4, <3>4, <3>7 DEF PauseInv
  <2> QED BY <2>3, <2>4
<1> QED BY <1>5, <1>6, <1>7 DEF CheckStep

\* The calls that the network deals with.
LEMMA PauseOfNetwork ==
    ASSUME Fit, PoolFits, PauseInv, NEW tx \in pool, IncludeCall(tx)
    PROVE  PauseInv'
<1>1. /\ slips \subseteq slips'
      /\ \A c \in Callers :
            /\ calls[c].step = "sent" =>
                  tx = [by |-> c, op |-> calls[c].op]
                  /\ calls'[c].step = IF Accepted(tx.op) THEN "done" ELSE "failed"
            /\ calls[c].step = "built" => calls'[c].step = "stale"
            /\ calls[c].step \notin {"sent", "built"} => calls'[c] = calls[c]
  BY IncludeKeepsFit
<1>2. /\ emergencyMode' = emergencyMode /\ procs' = procs
      /\ paused' = CASE tx.op.is = "pause" -> TRUE [] tx.op.is = "unpause" -> FALSE [] OTHER -> paused
  BY DEF IncludeCall
<1>3. Checks \subseteq Callers /\ paused' \in BOOLEAN /\ emergencyMode' \in BOOLEAN
  BY <1>2, Roles DEF PauseInv
<1>4. CASE ~NothingWrong'
  BY <1>3, <1>4 DEF PauseInv, CallsFollowMode
<1>5. ASSUME NothingWrong', NEW c \in Checks, calls[c].step = "built" \/ Doomed(c)
      PROVE  PauseInv'
  <2>1. Doomed(c)'
    BY <1>1, <1>3, <1>5 DEF Doomed
  <2> QED BY <1>3, <2>1 DEF PauseInv, CallsFollowMode
<1>7. ASSUME NEW c \in Checks, calls[c].step = "asked", Wanted(c) PROVE PauseInv'
  <2>1. UnderWay(c)' /\ Wanted(c)'
    BY <1>1, <1>2, <1>3, <1>7 DEF UnderWay, Wanted, At
  <2> QED BY <1>3, <2>1 DEF PauseInv, CallsFollowMode
<1>6. CASE /\ NothingWrong' /\ \A c \in Checks : calls[c].step # "built" /\ ~Doomed(c)
           /\ \A c \in Checks : ~(calls[c].step = "asked" /\ Wanted(c))
  <2>1. NothingWrong /\ Smooth
    BY <1>1, <1>6 DEF NothingWrong, Smooth
  <2>2. \A c \in Checks : Pending(c) <=> calls[c].step = "sent"
    BY <1>6 DEF Pending
  <2>3. \A c \in Checks : ~Pending(c)'
    BY <1>1, <1>3, <2>2 DEF Pending
  <2>4. CASE \E c \in Checks : Pending(c)
    <3>1. PICK c \in Checks : Pending(c)
      BY <2>4
    <3>2. \A d \in Checks : Pending(d) => d = c
      <4>1. ASSUME NEW d \in Checks, Pending(d) PROVE d = c
        <5>1. tx = [by |-> c, op |-> calls[c].op] /\ tx = [by |-> d, op |-> calls[d].op]
          BY <1>1, <1>3, <2>2, <3>1, <4>1
        <5>2. tx.by = c /\ tx.by = d
          BY <5>1
        <5> QED BY <5>2
      <4> QED BY <4>1
    <3>3. emergencyMode <=> At(c, "pausing")
      <4>1. \A d \in Checks : UnderWay(d) /\ Wanted(d) => d = c
        BY <1>6, <3>2 DEF UnderWay, Pending
      <4> QED BY <1>6, <2>1, <3>1, <3>2, <4>1 DEF PauseInv, CallsFollowMode, Wanted
    <3>4. paused' = emergencyMode
      <4>1. FitsCheck(calls[c], procs[c]) /\ calls[c] # NoCall
        BY <1>3, <2>2, <3>1, Roles DEF Fit, Fits, NoCall
      <4>2. tx.op = calls[c].op
        BY <1>1, <1>3, <2>2, <3>1
      <4>3. CASE procs[c].at = "pausing"
        <5>1. tx.op.is = "pause"
          BY <4>1, <4>2, <4>3 DEF FitsCheck
        <5> QED BY <1>2, <3>3, <4>3, <5>1 DEF At, PauseInv
      <4>4. CASE procs[c].at = "unpausing"
        <5>1. tx.op.is = "unpause"
          BY <4>1, <4>2, <4>4 DEF FitsCheck
        <5> QED BY <1>2, <3>3, <4>4, <5>1 DEF At, PauseInv
      <4> QED BY <4>1, <4>3, <4>4 DEF FitsCheck, Calls
    <3> QED BY <1>2, <1>3, <2>3, <3>4 DEF PauseInv, CallsFollowMode
  <2>5. CASE \A c \in Checks : ~Pending(c)
    <3>1. paused = emergencyMode
      <4>1. \A d \in Checks : ~(UnderWay(d) /\ Wanted(d))
        BY <1>6, <2>5 DEF UnderWay, Pending
      <4> QED BY <1>6, <2>1, <2>5, <4>1 DEF PauseInv, CallsFollowMode
    <3>2. paused' = paused
      <4>1. tx.op.is \notin {"pause", "unpause"}
        <5>1. tx.by \in Callers /\ (calls[tx.by].step = "sent" \/ tx.op = [is |-> "recalibrate"])
          BY <2>1 DEF PoolFits, StepOf
        <5>2. CASE tx.op = [is |-> "recalibrate"]
          BY <5>2
        <5>3. CASE calls[tx.by].step = "sent"
          <6>1. tx.op = calls[tx.by].op
            BY <1>1, <5>1, <5>3
          <6>2. tx.by \notin Checks
            BY <2>2, <2>5, <5>3
          <6>3. tx.by # Admin
            <7>1. FitsAdmin(calls[Admin], procs[Admin])
              BY Roles DEF Fit, Fits
            <7>2. procs[Admin].at = "idle"
              BY <2>1 DEF PoolFits, At, NothingWrong
            <7>3. calls[Admin].step = "none"
              BY <7>1, <7>2 DEF FitsAdmin, NoCall
            <7> QED BY <5>3, <7>3
          <6>4. tx.by \in Tasks
            BY <5>1, <6>2, <6>3, Roles
          <6>5. tx.op.is = "slash"
            <7>1. FitsTask(calls[tx.by], procs[tx.by])
              BY <5>1, <6>4 DEF Fit, Fits
            <7>2. calls[tx.by] # NoCall
              BY <5>3 DEF NoCall
            <7>3. calls[tx.by].op = [is |-> "slash", n |-> procs[tx.by].n]
              BY <7>1, <7>2 DEF FitsTask
            <7> QED BY <6>1, <7>3
          <6> QED BY <6>5
        <5> QED BY <5>1, <5>2, <5>3
      <4> QED BY <1>2, <4>1
    <3> QED BY <1>2, <1>3, <2>3, <3>1, <3>2 DEF PauseInv, CallsFollowMode
  <2> QED BY <2>4, <2>5
<1> QED BY <1>4, <1>5, <1>6, <1>7

\* A check's call reads the account.  If it is not wanted any more, and no other is on its
\* way to be included or to throw, then that is noted.
LEMMA PauseOfBuilds ==
    ASSUME Fit, PoolFits, PauseInv, NEW c \in Callers, BuildCall(c)
    PROVE  PauseInv'
<1>1. /\ calls[c].step = "asked" /\ calls'[c].step = "built" /\ procs' = procs
      /\ \A d \in Callers : d # c => calls'[d] = calls[d]
      /\ slips \subseteq slips' /\ UNCHANGED <<emergencyMode, paused>>
  BY BuildKeepsFit DEF chainVars
<1>2. CASE c \notin Checks
  BY <1>1, <1>2, PauseKept, Roles
<1>3. \A d \in Checks : /\ UnderWay(d) => UnderWay(d)'
                        /\ Doomed(d) => Doomed(d)'
                        /\ Wanted(d)' <=> Wanted(d)
  BY <1>1, Roles DEF UnderWay, Doomed, Wanted, At
<1>4. CASE c \in Checks /\ Wanted(c)
  <2>1. UnderWay(c) /\ Wanted(c)
    BY <1>1, <1>4 DEF UnderWay
  <2> QED BY <1>1, <1>3, <1>4, <2>1 DEF PauseInv, CallsFollowMode
<1>5. CASE Overtaken(c)
  <2>1. "overtaken" \in slips'
    BY <1>5 DEF BuildCall, Slip
  <2>2. ~NothingWrong'
    BY <2>1 DEF NothingWrong
  <2> QED BY <1>1, <2>2 DEF PauseInv, CallsFollowMode
<1>6. CASE c \in Checks /\ ~Wanted(c) /\ ~Overtaken(c)
  <2>1. PICK d \in Checks : Waiting(d) /\ Wanted(d) /\ calls[d].step # "done"
    BY <1>6 DEF Overtaken, StepOf
  <2>2. calls[d].step \in Step
    BY <2>1, Roles DEF Fit, Fits, Waiting
  <2>3. UnderWay(d) \/ Doomed(d)
    BY <2>1, <2>2 DEF UnderWay, Doomed, Step
  <2> QED BY <1>1, <1>3, <2>1, <2>3 DEF PauseInv, CallsFollowMode
<1> QED BY <1>2, <1>4, <1>5, <1>6

\* The mode and the calls of the checks stay in step.
LEMMA PauseStep == Shape /\ PauseInv /\ [RiskNext]_vars => PauseInv'
<1> SUFFICES ASSUME Shape, PauseInv, [RiskNext]_vars PROVE PauseInv'
  OBVIOUS
<1>1. Fit /\ PoolFits /\ Books
  BY DEF Shape
<1>2. ASSUME UNCHANGED <<emergencyMode, paused>>, slips \subseteq slips',
             \A c \in Checks : calls'[c] = calls[c] /\ procs'[c] = procs[c]
      PROVE  PauseInv'
  BY <1>2, PauseKept
<1>3. ASSUME UNCHANGED <<emergencyMode, paused>>, NEW c \in Callers, c \notin Checks, NEW k, NEW p, Turn(c, k, p)
      PROVE  PauseInv'
  <2>1. slips \subseteq slips'
    BY <1>3 DEF Turn
  <2>2. \A d \in Checks : calls'[d] = calls[d] /\ procs'[d] = procs[d]
    BY <1>1, <1>3, TurnOf, Roles
  <2> QED BY <1>2, <1>3, <2>1, <2>2
<1>4. ASSUME NEW c \in Checks, CheckStep(c) PROVE PauseInv'
  BY <1>1, <1>4, PauseOfChecks
<1>5. CASE Reallocate
  <2>1. UNCHANGED <<emergencyMode, paused>>
    BY <1>5 DEF Reallocate, chainVars
  <2>2. \/ UNCHANGED <<calls, procs, slips>>
        \/ \E t \in Tasks : \E p : Turn(t, NoCall, p)
    BY <1>1, <1>5, ReallocateTurns, Zenon
  <2> QED BY <1>2, <1>3, <2>1, <2>2, Roles
<1>6. ASSUME NEW c \in Callers, Waiting(c), SendCall(c) PROVE PauseInv'
  <2>1. /\ \A d \in Callers : d # c => calls'[d] = calls[d]
        /\ calls'[c].step \in {"sent", "failed"}
        /\ calls'[c].step = "sent" => calls[c].step = "built"
        /\ UNCHANGED <<emergencyMode, paused, procs, slips>>
    BY <1>1, <1>6, SendKeepsFit DEF riskVars
  <2>2. CASE c \in Checks /\ calls'[c].step = "failed"
    BY <2>1, <2>2 DEF PauseInv, CallsFollowMode, Doomed
  <2>3. CASE c \notin Checks \/ calls'[c].step = "sent"
    BY <2>1, <2>3, PauseKept, Roles
  <2> QED BY <2>1, <2>2, <2>3
<1>7. ASSUME NEW tx \in pool, IncludeCall(tx) PROVE PauseInv'
  BY <1>1, <1>7, PauseOfNetwork
<1>8. ASSUME NEW tx \in pool, DropCall(tx) PROVE PauseInv'
  <2>1. /\ \A c \in Callers : /\ calls[c].step = "sent" => calls'[c].step = "failed"
                              /\ calls[c].step # "sent" => calls'[c] = calls[c]
        /\ UNCHANGED <<emergencyMode, paused, procs, slips>>
    BY <1>1, <1>8, DropKeepsFit DEF riskVars
  <2>2. CASE \E c \in Checks : calls[c].step = "sent"
    BY <2>1, <2>2, Roles DEF PauseInv, CallsFollowMode, Doomed
  <2>3. CASE \A c \in Checks : calls[c].step # "sent"
    BY <1>2, <2>1, <2>3, Roles
  <2> QED BY <2>2, <2>3
<1>9. ASSUME NEW t \in Tasks, TaskStep(t) PROVE PauseInv'
  <2>1. UNCHANGED <<emergencyMode, paused>>
    BY <1>9 DEF TaskStep, Move, FindDown, AfterSlash, ReadTotals, ListPending, Rewrite, AwaitFails, chainVars
  <2> QED BY <1>1, <1>3, <1>9, <2>1, TaskTurns, Roles
<1>10. CASE AdminStep
  <2>1. UNCHANGED <<emergencyMode, paused>>
    BY <1>10 DEF AdminStep, AdminCalls, AdminAnswered, AdminSlashed, AdminRecalibrated, chainVars
  <2>2. CASE AdminCalls \/ AdminAnswered \/ AdminSlashed
    BY <1>1, <1>3, <2>1, <2>2, AdminTurns, Roles
  <2>3. CASE AdminRecalibrated
    <3>1. PICK t \in Tasks : \A c \in Callers : c \notin {t, Admin} => procs'[c] = procs[c]
      BY <1>1, <2>3, HandOver
    <3>2. slips' = slips /\ \A c \in Callers : c # Admin => calls'[c] = calls[c]
      BY <1>1, <2>3, HandOver
    <3> QED BY <1>2, <2>1, <3>1, <3>2, Roles
  <2> QED BY <1>10, <2>2, <2>3 DEF AdminStep
<1>11. CASE Restart
  <2>1. ~Smooth' /\ emergencyMode' = FALSE /\ paused' = paused
    BY <1>1, <1>11, RestartKeepsFit DEF Restart, chainVars
  <2>2. ~NothingWrong'
    BY <2>1 DEF Smooth, NothingWrong
  <2> QED BY <2>1, <2>2 DEF PauseInv, CallsFollowMode
<1>12. ASSUME NEW v \in Validators, NEW row \in Row, WriteRow(v, row) PROVE PauseInv'
  BY <1>2, <1>12 DEF WriteRow, operatorVars, chainVars
<1>13. ASSUME NEW v \in Validators, NEW uptime \in 0..100, AlertsOf(v, uptime) PROVE PauseInv'
  <2>1. UNCHANGED <<emergencyMode, paused>>
    BY <1>13 DEF AlertsOf, chainVars
  <2>2. \/ UNCHANGED <<calls, procs, slips>>
        \/ \E t \in Tasks : \E p : Turn(t, NoCall, p)
    BY <1>1, <1>13, AlertTurns, Zenon
  <2> QED BY <1>2, <1>3, <2>1, <2>2, Roles
<1>14. CASE FailsElsewhere
  BY <1>2, <1>14 DEF FailsElsewhere, riskVars
<1>15. CASE UNCHANGED vars
  BY <1>2, <1>15 DEF vars, operatorVars, riskVars
<1>16. ASSUME NEW c \in Callers, BuildCall(c) PROVE PauseInv'
  BY <1>1, <1>16, PauseOfBuilds
<1> QED
  BY <1>4, <1>5, <1>6, <1>7, <1>8, <1>9, <1>10, <1>11, <1>12, <1>13, <1>14, <1>15, <1>16
     DEF RiskNext, RiskStep, WatchStep, NetworkStep

\* Unless a call threw, the backend restarted, the admin stepped in, or a check read the
\* account only when the call of a newer one was on chain, the contract is paused exactly
\* in an emergency once the checks have made their calls, however many checks overlap:
\* of two calls that have read the account one always throws.
THEOREM PauseAlwaysMatchesMode == RiskSpec => []PauseMatchesMode
<1>1. TableTypeOK /\ RiskInit => PauseInv
  <2> SUFFICES ASSUME RiskInit PROVE PauseInv
    OBVIOUS
  <2>1. emergencyMode = FALSE /\ paused = FALSE /\ calls = [c \in Callers |-> NoCall]
    BY DEF RiskInit, OperatorInit
  <2>2. \A c \in Checks : ~Pending(c)
    BY <2>1, Roles DEF Pending, NoCall
  <2> QED BY <2>1, <2>2 DEF PauseInv, CallsFollowMode
<1>2. Shape /\ PauseInv => PauseMatchesMode
  <2> SUFFICES ASSUME Fit, PauseInv, NothingWrong, \A c \in Checks : procs[c].at \notin Calls
               PROVE  paused = emergencyMode
    BY DEF Shape, PauseMatchesMode, Calls
  <2>1. \A c \in Checks : calls[c] = NoCall
    BY Roles DEF Fit, Fits, FitsCheck
  <2>2. \A c \in Checks : ~UnderWay(c) /\ ~Pending(c) /\ ~Doomed(c)
    BY <2>1 DEF UnderWay, Pending, Doomed, NoCall
  <2> QED BY <2>2 DEF PauseInv, CallsFollowMode
<1> QED BY <1>1, <1>2, PauseStep, ShapeInvariant, PTL DEF RiskSpec
-----------------------------------------------------------------------------
(* Rows follow slashes. *)

\* What is left of an amount n when a stake of all has come down to some, and an amount
\* that is no more than that and less by no more than what was slashed, for rounding.
PartOf(n, all, some) == (n * some) \div all
Near(n, all, some, x) ==
    x \in Nat /\ PartOf(n, all, some) - (all - some) <= x /\ x <= PartOf(n, all, some)

\* Products of numbers in order.
LEMMA ProductsInOrder ==
    ASSUME NEW a \in Int, NEW b \in Int, NEW c \in Nat
    PROVE  /\ a <= b => c * a <= c * b
           /\ a < b /\ c > 0 => c * a < c * b
OBVIOUS

\* The quotient of a product.
LEMMA QuotientOf ==
    ASSUME NEW n \in Nat, NEW some \in Nat, NEW all \in Nat, all > 0
    PROVE  LET q == PartOf(n, all, some)
           IN  q \in Nat /\ all * q <= n * some /\ n * some < all * (q + 1)
<1> DEFINE m == n * some
<1>1. m \in Nat
  OBVIOUS
<1> HIDE DEF m
<1>2. m \div all \in Nat /\ all * (m \div all) <= m /\ m < all * ((m \div all) + 1)
  BY <1>1
<1> QED BY <1>2 DEF PartOf, m

\* A row that was near to its part stays so when it is cut to what is left of the stake.
LEMMA CutStaysNear ==
    ASSUME NEW n \in Nat, NEW all \in Nat, NEW old \in Nat, NEW new \in Nat, NEW x,
           0 < old, old <= all, new <= old, Near(n, all, old, x)
    PROVE  Near(n, all, new, PartOf(x, old, new))
<1> DEFINE p == PartOf(n, all, old)
           q == PartOf(n, all, new)
           y == PartOf(x, old, new)
<1>1. x \in Nat /\ all > 0 /\ p - (all - old) <= x /\ x <= p
  BY DEF Near
<1>2. p \in Nat /\ all * p <= n * old /\ n * old < all * (p + 1)
  BY <1>1, QuotientOf
<1>3. q \in Nat /\ all * q <= n * new /\ n * new < all * (q + 1)
  BY <1>1, QuotientOf
<1>4. y \in Nat /\ old * y <= x * new /\ x * new < old * (y + 1)
  BY <1>1, QuotientOf
<1>5. new = old => p = q
  OBVIOUS
<1> HIDE DEF p, q, y
<1>6. y <= q
  <2> SUFFICES ASSUME q + 1 <= y PROVE FALSE
    BY <1>3, <1>4
  <2>1. all * x <= all * p
    BY <1>1, <1>2, ProductsInOrder
  <2>2. new * (all * x) <= new * (n * old)
    <3>1. all * x <= n * old /\ all * x \in Int /\ n * old \in Int
      BY <1>1, <1>2, <2>1
    <3> QED BY <3>1, ProductsInOrder
  <2>3. old * (q + 1) <= old * y
    BY <1>3, <1>4, ProductsInOrder
  <2>4. all * (old * (q + 1)) <= all * (x * new)
    <3>1. old * (q + 1) <= x * new /\ old * (q + 1) \in Int /\ x * new \in Int
      BY <1>1, <1>3, <1>4, <2>3
    <3> QED BY <3>1, ProductsInOrder
  <2>5. old * (n * new) < old * (all * (q + 1))
    <3>1. n * new \in Int /\ all * (q + 1) \in Int
      BY <1>3
    <3> QED BY <1>3, <3>1, ProductsInOrder
  <2>6. /\ new * (all * x) = all * (x * new) /\ new * (n * old) = old * (n * new)
        /\ all * (old * (q + 1)) = old * (all * (q + 1))
    BY <1>1, <1>3
  <2>7. /\ all * (x * new) \in Int /\ old * (n * new) \in Int /\ old * (all * (q + 1)) \in Int
    BY <1>1, <1>3
  <2> QED BY <2>2, <2>4, <2>5, <2>6, <2>7
<1>7. q - (all - new) <= y
  <2>1. CASE new = old
    <3>1. old * x < old * (y + 1)
      BY <1>1, <1>4, <2>1
    <3>2. x < y + 1
      <4> SUFFICES ASSUME y + 1 <= x PROVE FALSE
        BY <1>1, <1>4
      <4>1. old * (y + 1) <= old * x
        BY <1>1, <1>4, ProductsInOrder
      <4>2. old * (y + 1) \in Int /\ old * x \in Int
        BY <1>1, <1>4
      <4> QED BY <3>1, <4>1, <4>2
    <3> QED BY <1>1, <1>2, <1>4, <1>5, <2>1, <3>2
  <2>2. CASE new < old
    <3> DEFINE lost == all - old
               cut == old - new
    <3>1. lost \in Nat /\ cut \in Nat /\ cut >= 1 /\ all = old + lost /\ old = new + cut
      BY <2>2
    <3> SUFFICES ASSUME y + 1 <= q - (all - new) PROVE FALSE
      BY <1>3, <1>4
    <3>2. x * new < old * (q - (all - new))
      <4>1. old * (y + 1) <= old * (q - (all - new))
        BY <1>3, <1>4, ProductsInOrder
      <4>2. old * (y + 1) \in Int /\ old * (q - (all - new)) \in Int /\ x * new \in Int
        BY <1>1, <1>3, <1>4
      <4> QED BY <1>4, <4>1, <4>2
    <3>3. all * (x * new) < all * (old * (q - (all - new)))
      <4>1. x * new \in Int /\ old * (q - (all - new)) \in Int
        BY <1>1, <1>3
      <4> QED BY <1>1, <3>2, <4>1, ProductsInOrder
    <3>4. new * (all * (p - lost)) <= new * (all * x)
      <4>1. all * (p - lost) <= all * x
        BY <1>1, <1>2, <3>1, ProductsInOrder
      <4>2. all * (p - lost) \in Int /\ all * x \in Int
        BY <1>1, <1>2, <3>1
      <4> QED BY <4>1, <4>2, ProductsInOrder
    <3>5. new * (n * old) <= new * (all * (p + 1))
      <4>1. n * old \in Int /\ all * (p + 1) \in Int /\ n * old <= all * (p + 1)
        BY <1>2
      <4> QED BY <4>1, ProductsInOrder
    <3>6. old * (all * q) <= old * (n * new)
      <4>1. all * q \in Int /\ n * new \in Int
        BY <1>3
      <4> QED BY <1>3, <4>1, ProductsInOrder
    <3>7. all * (old * (all - new)) < all * (new * (lost + 1))
      <4>1. all * (old * (q - (all - new))) = old * (all * q) - all * (old * (all - new))
        BY <1>3
      <4>2. new * (all * (p - lost)) = new * (all * (p + 1)) - all * (new * (lost + 1))
        BY <1>2, <3>1
      <4>3. new * (n * old) = old * (n * new) /\ new * (all * x) = all * (x * new)
        BY <1>1
      <4> DEFINE u == all * (x * new)
                 v == old * (n * new)
                 w == old * (all * q)
                 z == new * (all * (p + 1))
                 e == all * (old * (all - new))
                 f == all * (new * (lost + 1))
      <4>4. u < w - e /\ z - f <= u /\ v <= z /\ w <= v
        BY <3>3, <3>4, <3>5, <3>6, <4>1, <4>2, <4>3
      <4>5. u \in Int /\ v \in Int /\ w \in Int /\ z \in Int /\ e \in Int /\ f \in Int
        BY <1>1, <1>2, <1>3, <3>1
      <4> HIDE DEF u, v, w, z, e, f
      <4>6. e < f
        BY <4>4, <4>5
      <4> QED BY <4>6 DEF e, f
    <3>8. new * (lost + 1) <= old * (all - new)
      <4>1. all - new = lost + cut /\ lost + 1 <= lost + cut
        BY <3>1
      <4>2. new * (lost + 1) <= new * (all - new)
        BY <3>1, <4>1, ProductsInOrder
      <4>3. (all - new) * new <= (all - new) * old
        BY <3>1, <4>1, ProductsInOrder
      <4>4. new * (all - new) = (all - new) * new /\ (all - new) * old = old * (all - new)
        OBVIOUS
      <4>5. new * (lost + 1) \in Int /\ new * (all - new) \in Int /\ old * (all - new) \in Int
        BY <3>1
      <4> QED BY <4>2, <4>3, <4>4, <4>5
    <3>9. all * (new * (lost + 1)) <= all * (old * (all - new))
      <4>1. new * (lost + 1) \in Int /\ old * (all - new) \in Int
        BY <3>1
      <4> QED BY <3>8, <4>1, ProductsInOrder
    <3>10. all * (new * (lost + 1)) \in Int /\ all * (old * (all - new)) \in Int
      BY <3>1
    <3> QED BY <3>7, <3>9, <3>10
  <2> QED BY <2>1, <2>2
<1> QED BY <1>4, <1>6, <1>7 DEF Near, q, y

\* An amount of a row that follows from the one at the start, and rows that all do, when
\* the stake has come down to s.
Follows(r, x, s) == Near(OwedAtStart[r], StakedAtStart, s, x)
AllFollow(o, s) == \A r \in Payouts : Follows(r, o[r], s)

\* A caller with this call and this memory whose slash is on chain and not in the rows.
Behind(k, p) ==
    \/ p.at \in {"recalibrating", "totals", "list", "rewrite"}
    \/ p.at = "slashing" /\ k.step = "done"

\* What is in the rows while the slash of the caller that remembers p is to be dealt with.
Settles(p, s, o) ==
    /\ p.at \in {"slashing", "recalibrating", "totals"} =>
          s + p.n <= StakedAtStart /\ AllFollow(o, s + p.n)
    /\ p.at = "list" => p.new = s /\ p.new <= p.old /\ p.old <= StakedAtStart /\ AllFollow(o, p.old)
    /\ p.at = "rewrite" =>
          /\ \A i, j \in DOMAIN p.left : p.left[i][1] = p.left[j][1] => i = j
          /\ \A i \in DOMAIN p.left : Follows(p.left[i][1], p.left[i][2], s)
          /\ \A r \in Payouts : (\E i \in DOMAIN p.left : p.left[i][1] = r) \/ Follows(r, o[r], s)

\* If nothing threw and no slash crossed another, the rows follow the stake, but for one
\* slash at most that a handler or the admin still has to deal with.
RowsInv ==
    slips \subseteq {"admin", "overtaken"} =>
        /\ \A c, d \in Unsettled : c = d
        /\ \A c \in Unsettled : Settles(procs[c], staked, owed)
        /\ Unsettled = {} => AllFollow(owed, staked)

\* Only handlers work on the rows.
LEMMA HandlersRewrite ==
    ASSUME NEW c \in Callers, NEW k, NEW p, Fits(c, k, p), p.at \in {"totals", "list", "rewrite"}
    PROVE  c \in Tasks
BY Roles DEF Fits, FitsCheck, FitsAdmin

LEMMA UnsettledAre ==
    ASSUME Fit
    PROVE  Unsettled = {c \in Callers : Behind(calls[c], procs[c])}
<1>1. \A c \in Callers : procs[c].at \in {"totals", "list", "rewrite"} => c \in Tasks
  BY HandlersRewrite DEF Fit
<1> QED BY <1>1, Roles DEF Unsettled, Recalculating, Behind, At, StepOf

\* A step of one caller keeps the rows in step with the stake if nothing of its slash is
\* left undone, or what is left is what it remembers.
LEMMA RowsKept ==
    ASSUME Fit, Fit', RowsInv, slips \subseteq slips', staked' = staked, NEW c \in Callers,
           \A d \in Callers \ {c} : /\ Behind(calls'[d], procs'[d]) <=> Behind(calls[d], procs[d])
                                    /\ procs'[d] = procs[d],
           slips' \subseteq {"admin", "overtaken"} =>
               \/ /\ ~Behind(calls[c], procs[c]) /\ ~Behind(calls'[c], procs'[c])
                  /\ owed' = owed
               \/ /\ Behind(calls[c], procs[c]) /\ Behind(calls'[c], procs'[c])
                  /\ Settles(procs[c], staked, owed) => Settles(procs'[c], staked, owed')
               \/ /\ Behind(calls[c], procs[c]) /\ ~Behind(calls'[c], procs'[c])
                  /\ Settles(procs[c], staked, owed) => AllFollow(owed', staked)
    PROVE  RowsInv'
<1> SUFFICES ASSUME slips' \subseteq {"admin", "overtaken"}
             PROVE  /\ \A d, e \in Unsettled' : d = e
                    /\ \A d \in Unsettled' : Settles(procs'[d], staked, owed')
                    /\ Unsettled' = {} => AllFollow(owed', staked)
  BY DEF RowsInv, Settles, AllFollow, Follows
<1>1. Unsettled = {d \in Callers : Behind(calls[d], procs[d])}
  BY UnsettledAre
<1>2. Unsettled' = {d \in Callers : Behind(calls'[d], procs'[d])}
  <2>1. \A d \in Callers : procs'[d].at \in {"totals", "list", "rewrite"} => d \in Tasks
    BY HandlersRewrite DEF Fit
  <2> QED BY <2>1, Roles DEF Unsettled, Recalculating, Behind, At, StepOf
<1> DEFINE A == Unsettled
           B == Unsettled'
<1>3. /\ \A d, e \in A : d = e
      /\ \A d \in A : Settles(procs[d], staked, owed)
      /\ A = {} => AllFollow(owed, staked)
  BY DEF RowsInv
<1>4. \A d \in Callers \ {c} : (d \in B <=> d \in A) /\ procs'[d] = procs[d]
  BY <1>1, <1>2
<1>5. A \subseteq Callers /\ B \subseteq Callers
  BY <1>1, <1>2
<1>6. CASE c \notin A /\ c \notin B /\ owed' = owed
  BY <1>3, <1>4, <1>5, <1>6, Zenon
<1>7. CASE c \in A /\ c \in B /\ (Settles(procs[c], staked, owed) => Settles(procs'[c], staked, owed'))
  BY <1>3, <1>4, <1>5, <1>7, Zenon
<1>8. CASE c \in A /\ c \notin B /\ (Settles(procs[c], staked, owed) => AllFollow(owed', staked))
  BY <1>3, <1>4, <1>5, <1>8, Zenon
<1> QED BY <1>1, <1>2, <1>6, <1>7, <1>8

\* A row of the list that is cut, or stays as it is, follows the stake that is left.
LEMMA ListedFollow ==
    ASSUME StakedAtStart > 0, NEW o \in [Payouts -> Nat], NEW new \in Nat, NEW old \in Nat,
           new <= old, old <= StakedAtStart, AllFollow(o, old), NEW r \in Payouts
    PROVE  /\ old > 0 => Follows(r, PartOf(o[r], old, new), new)
           /\ old > 0 /\ PartOf(o[r], old, new) = o[r] => Follows(r, o[r], new)
           /\ ~(old > 0) => Follows(r, o[r], new)
<1>1. OwedAtStart[r] \in Nat /\ StakedAtStart \in Nat /\ Near(OwedAtStart[r], StakedAtStart, old, o[r])
  BY RiskAssumption DEF AllFollow, Follows
<1>2. CASE old > 0
  <2>1. Near(OwedAtStart[r], StakedAtStart, new, PartOf(o[r], old, new))
    BY <1>1, <1>2, CutStaysNear
  <2> QED BY <1>2, <2>1 DEF Follows
<1>3. CASE ~(old > 0)
  <2>1. new = old
    BY <1>3
  <2> QED BY <1>1, <1>3, <2>1 DEF Follows
<1> QED BY <1>2, <1>3

\* When the rows have been listed, they follow the stake once what is left to write has
\* been written.
LEMMA ListSettles ==
    ASSUME StakedAtStart > 0, Fit, Books, NEW t \in Tasks, ListPending(t),
           Settles(procs[t], staked, owed)
    PROVE  \/ procs'[t] = Idle /\ AllFollow(owed, staked)
           \/ procs'[t].at = "rewrite" /\ Settles(procs'[t], staked, owed)
<1>1. procs[t].at = "list" /\ t \in Callers
  BY Roles DEF ListPending, At
<1>2. procs[t].new \in Nat /\ procs[t].old \in Nat
  BY <1>1 DEF Fit, Fits, FitsTask
<1> DEFINE old == procs[t].old
           new == procs[t].new
           cut(r) == (owed[r] * new) \div old
           changed == {r \in Payouts : old > 0 /\ cut(r) # owed[r]}
           Writes(left) ==
              /\ procs' = [procs EXCEPT ![t] = [at |-> "rewrite", left |-> left]]
              /\ left # <<>>
              /\ \A i, j \in DOMAIN left : left[i][1] = left[j][1] => i = j
              /\ \A i \in DOMAIN left : left[i][1] \in changed /\ left[i][2] = cut(left[i][1])
              /\ \A r \in changed : \E i \in DOMAIN left : left[i][1] = r
<1>3. /\ new = staked /\ new <= old /\ old <= StakedAtStart /\ AllFollow(owed, old)
      /\ owed \in [Payouts -> Nat]
  BY <1>1 DEF Settles, Books
<1>4. \/ changed = {} /\ procs' = [procs EXCEPT ![t] = Idle]
      \/ \E left \in Seq(Payouts \X Nat) : Writes(left)
  BY <1>2, ListingOf
<1>5. ASSUME NEW r \in Payouts
      PROVE  /\ r \in changed => Follows(r, cut(r), staked)
             /\ r \notin changed => Follows(r, owed[r], staked)
  <2>1. cut(r) = PartOf(owed[r], old, new)
    BY DEF PartOf
  <2>2. r \in changed <=> old > 0 /\ cut(r) # owed[r]
    OBVIOUS
  <2> HIDE DEF cut, changed, old, new
  <2>3. /\ old > 0 => Follows(r, PartOf(owed[r], old, new), new)
        /\ old > 0 /\ PartOf(owed[r], old, new) = owed[r] => Follows(r, owed[r], new)
        /\ ~(old > 0) => Follows(r, owed[r], new)
    BY <1>2, <1>3, ListedFollow DEF old, new
  <2> QED BY <1>3, <2>1, <2>2, <2>3
<1>6. changed \subseteq Payouts
  OBVIOUS
<1> HIDE DEF cut, changed, old, new, Writes
<1>7. CASE changed = {} /\ procs' = [procs EXCEPT ![t] = Idle]
  BY <1>1, <1>5, <1>7 DEF Fit, AllFollow
<1>8. ASSUME NEW left, Writes(left)
      PROVE  procs'[t].at = "rewrite" /\ Settles(procs'[t], staked, owed)
  <2> DEFINE p == [at |-> "rewrite", left |-> left]
  <2>1. p.at = "rewrite" /\ p.left = left
    OBVIOUS
  <2>2. procs'[t] = p
    BY <1>1, <1>8 DEF Fit, Writes
  <2> HIDE DEF p
  <2>3. \A i \in DOMAIN left : Follows(left[i][1], left[i][2], staked)
    BY <1>5, <1>6, <1>8 DEF Writes
  <2>4. \A r \in Payouts : (\E i \in DOMAIN left : left[i][1] = r) \/ Follows(r, owed[r], staked)
    BY <1>5, <1>8 DEF Writes
  <2>5. Settles(p, staked, owed)
    BY <1>8, <2>1, <2>3, <2>4 DEF Settles, Writes
  <2> QED BY <2>1, <2>2, <2>5
<1> QED BY <1>4, <1>7, <1>8

\* Each write puts one more row in step.
LEMMA RewriteSettles ==
    ASSUME Fit, Books, NEW t \in Tasks, Rewrite(t), Settles(procs[t], staked, owed)
    PROVE  \/ procs'[t] = Idle /\ AllFollow(owed', staked)
           \/ procs'[t].at = "rewrite" /\ Settles(procs'[t], staked, owed')
<1> DEFINE p == procs[t]
           left == p.left
           write == Head(left)
           more == Tail(left)
<1>1. p.at = "rewrite" /\ t \in Callers /\ FitsTask(NoCall, p)
  BY Roles DEF Rewrite, At, Fit, Fits, FitsTask
<1>2. /\ left \in Seq(Payouts \X Nat) /\ left # <<>> /\ write \in Payouts \X Nat
      /\ owed' = [owed EXCEPT ![write[1]] = write[2]]
      /\ procs' = [procs EXCEPT ![t] = Onward(p)]
  BY RewriteOf
<1>3. procs'[t] = Onward(p) /\ owed \in [Payouts -> Nat]
  BY <1>1, <1>2 DEF Fit, Books
<1>4. /\ \A i, j \in DOMAIN left : left[i][1] = left[j][1] => i = j
      /\ \A i \in DOMAIN left : Follows(left[i][1], left[i][2], staked)
      /\ \A r \in Payouts : (\E i \in DOMAIN left : left[i][1] = r) \/ Follows(r, owed[r], staked)
  BY <1>1 DEF Settles
<1>5. more # <<>> => Onward(p) = [at |-> "rewrite", left |-> more]
  <2> HIDE DEF p
  <2> QED BY <1>1, NextFits
<1>6. more = <<>> => Onward(p) = Idle
  BY DEF Onward
<1> HIDE DEF p, left
<1> DEFINE n == Len(left)
<1>7. /\ write = left[1] /\ n \in Nat /\ n > 0 /\ DOMAIN left = 1..n /\ (more = <<>> <=> n = 1)
      /\ DOMAIN more = 1..n-1 /\ \A i \in 1..n-1 : more[i] = left[i + 1]
  BY <1>2, RestOf
<1> HIDE DEF write, more, n
<1>8. /\ write[1] \in Payouts /\ owed'[write[1]] = write[2]
      /\ \A r \in Payouts : r # write[1] => owed'[r] = owed[r]
  BY <1>2, <1>3
<1>9. \A i \in 2..n : i - 1 \in 1..n-1 /\ more[i - 1] = left[i]
  <2>1. \A i \in 2..n : i - 1 \in 1..n-1 /\ (i - 1) + 1 = i
    BY <1>7
  <2> QED BY <1>7, <2>1
<1>10. ASSUME NEW r \in Payouts
       PROVE  (\E i \in DOMAIN more : more[i][1] = r) \/ Follows(r, owed'[r], staked)
  <2>1. CASE r = write[1]
    BY <1>4, <1>7, <1>8, <2>1
  <2>2. CASE r # write[1]
    <3>1. CASE Follows(r, owed[r], staked)
      BY <1>8, <2>2, <3>1
    <3>2. CASE \E i \in DOMAIN left : left[i][1] = r
      <4>1. PICK i \in 1..n : left[i][1] = r
        BY <1>7, <3>2
      <4>2. i \in 2..n
        BY <1>7, <2>2, <4>1
      <4> QED BY <1>7, <1>9, <4>1, <4>2
    <3> QED BY <1>4, <3>1, <3>2
  <2> QED BY <2>1, <2>2
<1>11. CASE more = <<>>
  <2>1. DOMAIN more = {}
    BY <1>11
  <2>2. AllFollow(owed', staked)
    BY <1>10, <2>1 DEF AllFollow
  <2> QED BY <1>3, <1>6, <1>11, <2>2
<1>12. CASE more # <<>>
  <2> DEFINE q == [at |-> "rewrite", left |-> more]
  <2>1. q.at = "rewrite" /\ q.left = more
    OBVIOUS
  <2>2. procs'[t] = q
    BY <1>3, <1>5, <1>12
  <2> HIDE DEF q
  <2>3. \A i \in 1..n-1 : i + 1 \in 1..n /\ more[i] = left[i + 1]
    BY <1>7
  <2>4. \A i, j \in DOMAIN more : more[i][1] = more[j][1] => i = j
    <3>1. ASSUME NEW i \in 1..n-1, NEW j \in 1..n-1, more[i][1] = more[j][1] PROVE i = j
      <4>1. i + 1 = j + 1
        BY <1>4, <1>7, <2>3, <3>1
      <4> QED BY <4>1, <1>7
    <3> QED BY <1>7, <3>1
  <2>5. \A i \in DOMAIN more : Follows(more[i][1], more[i][2], staked)
    BY <1>4, <1>7, <2>3
  <2>6. Settles(q, staked, owed')
    BY <1>10, <2>1, <2>4, <2>5 DEF Settles
  <2> QED BY <2>1, <2>2, <2>6
<1> QED BY <1>11, <1>12

\* A slash that is included while none is to be dealt with: its caller has to see to it.
LEMMA IncludeSettles ==
    ASSUME Fit, PoolFits, Books, RowsInv, NEW tx \in pool, IncludeCall(tx), Fit'
    PROVE  RowsInv'
<1> SUFFICES ASSUME slips' \subseteq {"admin", "overtaken"}
             PROVE  /\ \A d, e \in Unsettled' : d = e
                    /\ \A d \in Unsettled' : Settles(procs'[d], staked', owed')
                    /\ Unsettled' = {} => AllFollow(owed', staked')
  BY DEF RowsInv, Settles, AllFollow, Follows
<1>1. Unsettled = {d \in Callers : Behind(calls[d], procs[d])}
  BY UnsettledAre
<1>2. Unsettled' = {d \in Callers : Behind(calls'[d], procs'[d])}
  <2>1. \A d \in Callers : procs'[d].at \in {"totals", "list", "rewrite"} => d \in Tasks
    BY HandlersRewrite DEF Fit
  <2> QED BY <2>1, Roles DEF Unsettled, Recalculating, Behind, At, StepOf
<1>3. /\ procs' = procs /\ owed' = owed /\ slips \subseteq slips'
      /\ \A d \in Callers :
            /\ calls[d].step = "sent" =>
                  tx = [by |-> d, op |-> calls[d].op]
                  /\ calls'[d].step = IF Accepted(tx.op) THEN "done" ELSE "failed"
            /\ calls[d].step = "built" => calls'[d].step = "stale"
            /\ calls[d].step \notin {"sent", "built"} => calls'[d] = calls[d]
  BY IncludeKeepsFit DEF IncludeCall
<1>4. slips \subseteq {"admin", "overtaken"} /\ Smooth
  BY <1>3 DEF Smooth
<1>5. /\ \A d, e \in Unsettled : d = e
      /\ \A d \in Unsettled : Settles(procs[d], staked, owed)
      /\ Unsettled = {} => AllFollow(owed, staked)
  BY <1>4 DEF RowsInv
<1>6. ASSUME NEW d \in Callers, procs[d].at = "slashing", calls[d].step = "sent"
      PROVE  d = tx.by /\ tx.op = [is |-> "slash", n |-> procs[d].n] /\ procs[d].n \in Nat
  <2>1. tx = [by |-> d, op |-> calls[d].op]
    BY <1>3, <1>6
  <2>2. tx.by = d /\ tx.op = calls[d].op
    BY <2>1
  <2>3. d \notin Checks
    <3>1. d \in Checks => FitsCheck(calls[d], procs[d])
      BY Roles DEF Fit, Fits
    <3> QED BY <1>6, <3>1 DEF FitsCheck
  <2>4. calls[d].op = [is |-> "slash", n |-> procs[d].n] /\ procs[d].n \in Nat
    BY <1>6, <2>3, Roles DEF Fit, Fits, FitsTask, FitsAdmin
  <2> QED BY <2>2, <2>4
<1>7. CASE tx.op.is = "slash" /\ Accepted(tx.op)
  <2>1. Unsettled = {} /\ staked' = staked - tx.op.n
    <3>1. Unsettled # {} => "crossed" \in slips'
      BY <1>7 DEF IncludeCall, Slip
    <3> QED BY <1>7, <3>1 DEF IncludeCall
  <2>2. AllFollow(owed, staked) /\ staked \in Nat /\ staked <= StakedAtStart
    BY <1>5, <2>1 DEF Books
  <2> DEFINE c == tx.by
  <2>3. c \in Callers /\ calls[c].step = "sent"
    <3>1. tx.op # [is |-> "recalibrate"]
      BY <1>7
    <3> QED BY <1>4, <3>1 DEF PoolFits, StepOf
  <2>4. tx.op = calls[c].op /\ calls[c] # NoCall
    <3>1. tx = [by |-> c, op |-> calls[c].op]
      BY <1>3, <2>3
    <3>2. [by |-> c, op |-> calls[c].op].op = calls[c].op
      OBVIOUS
    <3> HIDE DEF c
    <3> QED BY <2>3, <3>1, <3>2 DEF NoCall
  <2>5. procs[c].at = "slashing"
    <3>1. calls[c].op.is = "slash"
      BY <1>7, <2>4
    <3>2. c \in Checks => FALSE
      <4>1. c \in Checks => FitsCheck(calls[c], procs[c])
        BY <2>3 DEF Fit, Fits
      <4> HIDE DEF c
      <4> QED BY <2>4, <3>1, <4>1 DEF FitsCheck, Calls
    <3>3. c \in Tasks => procs[c].at = "slashing"
      <4>1. c \in Tasks => FitsTask(calls[c], procs[c])
        BY <2>3 DEF Fit, Fits
      <4> HIDE DEF c
      <4> QED BY <2>4, <4>1 DEF FitsTask
    <3>4. c = Admin => procs[c].at = "slashing"
      <4>1. c = Admin => FitsAdmin(calls[c], procs[c])
        BY <2>3 DEF Fit, Fits
      <4> HIDE DEF c
      <4> QED BY <2>4, <3>1, <4>1 DEF FitsAdmin
    <3> HIDE DEF c
    <3> QED BY <2>3, <3>2, <3>3, <3>4, Roles
  <2>6. tx.op.n = procs[c].n /\ procs[c].n \in Nat
    <3>1. tx.op = [is |-> "slash", n |-> procs[c].n] /\ procs[c].n \in Nat
      BY <1>6, <2>3, <2>5
    <3> HIDE DEF c
    <3> QED BY <3>1
  <2>7. Behind(calls'[c], procs'[c])
    <3>1. calls'[c].step = "done"
      BY <1>3, <1>7, <2>3
    <3> QED BY <1>3, <2>5, <3>1 DEF Behind
  <2>8. \A d \in Callers : Behind(calls'[d], procs'[d]) => d = c
    <3>1. ASSUME NEW d \in Callers, Behind(calls'[d], procs'[d]) PROVE d = c
      <4>1. ~Behind(calls[d], procs[d])
        BY <1>1, <2>1
      <4>2. procs[d].at = "slashing" /\ calls'[d].step = "done" /\ calls[d].step # "done"
        BY <1>3, <3>1, <4>1 DEF Behind
      <4>3. calls[d].step = "sent"
        BY <1>3, <4>2
      <4> QED BY <1>6, <4>2, <4>3
    <3> QED BY <3>1
  <2>9. Settles(procs'[c], staked', owed')
    <3>1. staked' + procs[c].n = staked
      <4> DEFINE n == procs[c].n
      <4>1. staked' = staked - n /\ n \in Nat
        BY <2>1, <2>6
      <4> HIDE DEF n
      <4>2. staked' + n = staked
        BY <2>2, <4>1
      <4> QED BY <4>2 DEF n
    <3>2. procs'[c].at = "slashing" /\ procs'[c].n = procs[c].n
      BY <1>3, <2>5
    <3> HIDE DEF c
    <3> QED BY <1>3, <2>2, <3>1, <3>2 DEF Settles
  <2>10. Unsettled' = {c}
    <3> HIDE DEF c
    <3> QED BY <1>2, <2>3, <2>7, <2>8
  <2> HIDE DEF c
  <2> QED BY <2>9, <2>10
<1>8. CASE ~(tx.op.is = "slash" /\ Accepted(tx.op))
  <2>1. staked' = staked
    BY <1>8 DEF IncludeCall
  <2>2. ASSUME NEW d \in Callers
        PROVE  Behind(calls'[d], procs'[d]) <=> Behind(calls[d], procs[d])
    <3>1. CASE procs[d].at # "slashing"
      BY <1>3, <3>1 DEF Behind
    <3>2. CASE procs[d].at = "slashing"
      <4>1. calls[d].step = "sent" => calls'[d].step = "failed"
        <5>1. calls[d].step = "sent" => tx.op = [is |-> "slash", n |-> procs[d].n]
          BY <1>6, <3>2
        <5> QED BY <1>3, <1>8, <5>1
      <4> QED BY <1>3, <3>2, <4>1 DEF Behind
    <3> QED BY <3>1, <3>2
  <2>3. Unsettled' = Unsettled
    BY <1>1, <1>2, <2>2
  <2> QED BY <1>3, <1>5, <2>1, <2>3
<1> QED BY <1>7, <1>8

\* Where a step takes a caller, and what it remembers then.
LEMMA GoesTo ==
    ASSUME Fit, NEW c \in Callers
    PROVE  /\ \A p : Goes(c, p) => procs'[c] = p /\ \A d \in Callers \ {c} : procs'[d] = procs[d]
           /\ Ends(c) => procs'[c] = Idle
           /\ \A k : calls' = [calls EXCEPT ![c] = k]
                       => calls'[c] = k /\ \A d \in Callers \ {c} : calls'[d] = calls[d]
BY DEF Goes, Ends, Fit

\* A handler that throws lets the rows be.
LEMMA ThrowsKeepRows ==
    ASSUME ~Smooth'
    PROVE  RowsInv'
BY DEF RowsInv, Smooth

\* The steps of a handler after a slash.
LEMMA RowsOfTasks ==
    ASSUME StakedAtStart > 0, Fit, Fit', Books, RowsInv, NEW t \in Tasks, TaskStep(t)
    PROVE  RowsInv'
<1>1. t \in Callers /\ Idle.at = "idle" /\ ~Behind(calls'[t], Idle)
  BY Roles DEF Behind, Idle
<1>2. PICK k, p : Turn(t, k, p)
  BY TaskTurns
<1>3. /\ slips \subseteq slips' /\ calls'[t] = k /\ procs'[t] = p
      /\ \A d \in Callers \ {t} : calls'[d] = calls[d] /\ procs'[d] = procs[d]
  <2>1. slips \subseteq slips'
    BY <1>2 DEF Turn
  <2> QED BY <1>1, <1>2, <2>1, TurnOf
<1>4. staked' = staked
  BY DEF TaskStep, Move, FindDown, AfterSlash, ReadTotals, ListPending, Rewrite, AwaitFails, chainVars
<1>5. FitsTask(calls[t], procs[t]) /\ FitsTask(calls'[t], procs'[t])
  BY <1>1, Roles DEF Fit, Fits
<1>6. ASSUME ~Behind(calls[t], procs[t]), ~Behind(calls'[t], procs'[t]), owed' = owed
      PROVE  RowsInv'
  BY <1>1, <1>3, <1>4, <1>6, RowsKept
<1>7. ASSUME Behind(calls[t], procs[t]), Behind(calls'[t], procs'[t]),
             Settles(procs[t], staked, owed) => Settles(procs'[t], staked, owed')
      PROVE  RowsInv'
  BY <1>1, <1>3, <1>4, <1>7, RowsKept
<1>8. ASSUME Behind(calls[t], procs[t]),
             Settles(procs[t], staked, owed) =>
                \/ procs'[t] = Idle /\ AllFollow(owed', staked)
                \/ procs'[t].at = "rewrite" /\ Settles(procs'[t], staked, owed')
      PROVE  RowsInv'
  <2>1. CASE Settles(procs[t], staked, owed)
    <3>1. CASE procs'[t] = Idle /\ AllFollow(owed', staked)
      BY <1>1, <1>3, <1>4, <1>8, <3>1, RowsKept
    <3>2. CASE procs'[t].at = "rewrite" /\ Settles(procs'[t], staked, owed')
      <4>1. Behind(calls'[t], procs'[t])
        BY <3>2 DEF Behind
      <4> QED BY <1>7, <1>8, <3>2, <4>1
    <3> QED BY <1>8, <2>1, <3>1, <3>2
  <2>2. CASE ~Settles(procs[t], staked, owed)
    <3>1. ~(slips \subseteq {"admin", "overtaken"})
      BY <1>1, <1>8, <2>2, UnsettledAre DEF RowsInv
    <3> QED BY <1>3, <3>1 DEF RowsInv
  <2> QED BY <2>1, <2>2
<1>9. CASE Move(t)
  <2>1. procs[t].at = "move" /\ owed' = owed
    BY <1>9 DEF Move, At
  <2>2. procs'[t].at \in {"idle", "move"}
    <3> DEFINE q == procs[t]
    <3>1. Move(t) /\ procs' = [procs EXCEPT ![t] = Onward(q)]
      BY <1>9, MoveOf
    <3>2. procs'[t] = Onward(q) /\ FitsTask(NoCall, q) /\ q.at = "move"
      BY <1>1, <1>5, <2>1, <3>1 DEF Fit, FitsTask
    <3> HIDE DEF q
    <3>3. Onward(q).at \in {"idle", "move"}
      BY <1>1, <3>2, NextFits DEF Onward
    <3> QED BY <3>2, <3>3
  <2> QED BY <1>6, <2>1, <2>2 DEF Behind
<1>10. CASE FindDown(t)
  <2>1. procs[t].at = "find" /\ owed' = owed
    BY <1>10 DEF FindDown, At
  <2>2. \/ procs'[t] = Idle
        \/ procs'[t].at = "slashing" /\ calls'[t].step = "asked"
    BY <1>1, <1>10, GoesTo DEF FindDown, Begin
  <2> QED BY <1>1, <1>6, <2>1, <2>2 DEF Behind
<1>11. CASE AfterSlash(t)
  <2>1. procs[t].at = "slashing" /\ owed' = owed
    BY <1>11 DEF AfterSlash, At
  <2>2. CASE Return(t) /\ Goes(t, [at |-> "totals", n |-> procs[t].n])
    <3> DEFINE q == [at |-> "totals", n |-> procs[t].n]
    <3>1. q.at = "totals" /\ q.n = procs[t].n
      OBVIOUS
    <3>2. procs'[t] = q
      BY <1>1, <2>2, GoesTo
    <3> HIDE DEF q
    <3>3. Behind(calls[t], procs[t])
      BY <2>1, <2>2 DEF Behind, Return, StepOf
    <3>4. Behind(calls'[t], procs'[t])
      BY <3>1, <3>2 DEF Behind
    <3>5. Settles(procs[t], staked, owed) => Settles(procs'[t], staked, owed')
      BY <2>1, <3>1, <3>2 DEF Settles
    <3> QED BY <1>7, <3>3, <3>4, <3>5
  <2>3. CASE Throw(t) /\ Ends(t) /\ Slip("threw")
    BY <2>3, ThrowsKeepRows DEF Slip, Smooth
  <2> QED BY <1>11, <2>2, <2>3 DEF AfterSlash
<1>12. CASE ReadTotals(t)
  <2>1. procs[t].at = "totals" /\ owed' = owed /\ procs[t].n \in Nat
    BY <1>5, <1>12 DEF ReadTotals, At, FitsTask
  <2> DEFINE q == [at |-> "list", new |-> staked, old |-> staked + procs[t].n]
  <2>2. q.at = "list" /\ q.new = staked /\ q.old = staked + procs[t].n
    OBVIOUS
  <2>3. procs'[t] = q
    BY <1>1, <1>12, GoesTo DEF ReadTotals
  <2> HIDE DEF q
  <2>4. Behind(calls[t], procs[t]) /\ Behind(calls'[t], procs'[t])
    BY <2>1, <2>2, <2>3 DEF Behind
  <2>5. Settles(procs[t], staked, owed) => Settles(procs'[t], staked, owed')
    <3>1. staked \in Nat
      BY DEF Books
    <3>2. staked <= staked + procs[t].n
      <4> DEFINE n == procs[t].n
      <4>1. n \in Nat
        BY <2>1
      <4> HIDE DEF n
      <4>2. staked <= staked + n
        BY <3>1, <4>1
      <4> QED BY <4>2 DEF n
    <3> QED BY <2>1, <2>2, <2>3, <3>2 DEF Settles
  <2> QED BY <1>7, <2>4, <2>5
<1>13. CASE ListPending(t)
  <2>1. Behind(calls[t], procs[t]) /\ owed' = owed
    BY <1>13 DEF ListPending, At, Behind
  <2> QED BY <1>8, <1>13, <2>1, ListSettles
<1>14. CASE Rewrite(t)
  <2>1. Behind(calls[t], procs[t])
    BY <1>14 DEF Rewrite, At, Behind
  <2> QED BY <1>8, <1>14, <2>1, RewriteSettles
<1>15. CASE AwaitFails(t)
  BY <1>15, ThrowsKeepRows DEF AwaitFails, Slip, Smooth
<1> QED BY <1>9, <1>10, <1>11, <1>12, <1>13, <1>14, <1>15 DEF TaskStep

\* The steps of the admin's request.
LEMMA RowsOfAdmin ==
    ASSUME Fit, Fit', PoolFits, Books, RowsInv, AdminStep
    PROVE  RowsInv'
<1>1. Admin \in Callers /\ Idle.at = "idle" /\ Tasks \subseteq Callers /\ Admin \notin Tasks
  BY Roles DEF Idle
<1>2. staked' = staked /\ owed' = owed
  BY DEF AdminStep, AdminCalls, AdminAnswered, AdminSlashed, AdminRecalibrated, chainVars
<1>3. ASSUME AdminCalls \/ AdminAnswered \/ AdminSlashed,
             \/ ~Behind(calls[Admin], procs[Admin]) /\ ~Behind(calls'[Admin], procs'[Admin])
             \/ /\ Behind(calls[Admin], procs[Admin]) /\ Behind(calls'[Admin], procs'[Admin])
                /\ Settles(procs[Admin], staked, owed) => Settles(procs'[Admin], staked, owed')
      PROVE  RowsInv'
  <2>1. PICK k, p : Turn(Admin, k, p)
    BY <1>3, AdminTurns
  <2>2. /\ slips \subseteq slips'
        /\ \A d \in Callers \ {Admin} : calls'[d] = calls[d] /\ procs'[d] = procs[d]
    <3>1. slips \subseteq slips'
      BY <2>1 DEF Turn
    <3> QED BY <1>1, <2>1, <3>1, TurnOf
  <2> QED BY <1>1, <1>2, <1>3, <2>2, RowsKept
<1>4. CASE AdminCalls
  <2>1. procs[Admin].at = "idle"
    BY <1>4 DEF AdminCalls, At
  <2>2. \/ procs'[Admin].at = "commanding"
        \/ procs'[Admin].at = "slashing" /\ calls'[Admin].step = "asked"
    <3>1. Goes(Admin, [at |-> "commanding"]) => procs'[Admin].at = "commanding"
      BY <1>1, GoesTo
    <3>2. ASSUME NEW n, Begin(Admin, [is |-> "slash", n |-> n]), Goes(Admin, [at |-> "slashing", n |-> n])
          PROVE  procs'[Admin].at = "slashing" /\ calls'[Admin].step = "asked"
      <4>1. calls'[Admin] = [step |-> "asked", op |-> [is |-> "slash", n |-> n]]
        BY <1>1, <3>2 DEF Begin, Fit
      <4>2. procs'[Admin] = [at |-> "slashing", n |-> n]
        BY <1>1, <3>2, GoesTo
      <4> QED BY <4>1, <4>2
    <3> QED BY <1>4, <3>1, <3>2 DEF AdminCalls
  <2> QED BY <1>3, <1>4, <2>1, <2>2 DEF Behind
<1>5. CASE AdminAnswered
  <2>1. procs[Admin].at = "commanding" /\ procs'[Admin] = Idle
    BY <1>1, <1>5, GoesTo DEF AdminAnswered, At
  <2> QED BY <1>1, <1>3, <1>5, <2>1 DEF Behind
<1>6. CASE AdminSlashed
  <2>1. FitsAdmin(calls[Admin], procs[Admin]) /\ procs[Admin].at = "slashing"
    BY <1>1, <1>6 DEF Fit, Fits, AdminSlashed, At
  <2>2. CASE StepOf(Admin, "done") /\ Goes(Admin, [procs[Admin] EXCEPT !.at = "recalibrating"])
    <3> DEFINE p == procs[Admin]
               q == [procs[Admin] EXCEPT !.at = "recalibrating"]
    <3>1. p = [at |-> p.at, n |-> p.n]
      BY <2>1 DEF FitsAdmin
    <3>2. q.at = "recalibrating" /\ q.n = p.n
      BY <3>1
    <3>3. procs'[Admin] = q
      BY <1>1, <2>2, GoesTo
    <3> HIDE DEF p, q
    <3>4. Behind(calls[Admin], procs[Admin]) /\ Behind(calls'[Admin], procs'[Admin])
      BY <2>1, <2>2, <3>2, <3>3 DEF Behind, StepOf
    <3>5. Settles(procs[Admin], staked, owed) => Settles(procs'[Admin], staked, owed')
      BY <1>2, <2>1, <3>2, <3>3 DEF Settles, p
    <3> QED BY <1>3, <1>6, <3>4, <3>5
  <2>3. CASE Slip("threw")
    BY <2>3, ThrowsKeepRows DEF Slip, Smooth
  <2> QED BY <1>6, <2>2, <2>3 DEF AdminSlashed
<1>7. CASE AdminRecalibrated
  <2>1. PICK t \in Tasks :
           /\ procs[t].at = "idle" /\ procs'[t] = [at |-> "totals", n |-> procs[Admin].n]
           /\ procs[Admin].at = "recalibrating" /\ procs'[Admin] = Idle
           /\ \A c \in Callers : c \notin {t, Admin} => procs'[c] = procs[c]
    BY <1>7, HandOver
  <2>2. slips' = slips /\ \A c \in Callers : c # Admin => calls'[c] = calls[c]
    BY <1>7, HandOver
  <2> SUFFICES ASSUME slips' \subseteq {"admin", "overtaken"}
               PROVE  /\ \A d, e \in Unsettled' : d = e
                      /\ \A d \in Unsettled' : Settles(procs'[d], staked', owed')
                      /\ Unsettled' # {}
    BY DEF RowsInv, Settles, AllFollow, Follows
  <2>3. Unsettled = {d \in Callers : Behind(calls[d], procs[d])}
    BY UnsettledAre
  <2>4. Unsettled' = {d \in Callers : Behind(calls'[d], procs'[d])}
    <3>1. \A d \in Callers : procs'[d].at \in {"totals", "list", "rewrite"} => d \in Tasks
      BY HandlersRewrite DEF Fit
    <3> QED BY <3>1, Roles DEF Unsettled, Recalculating, Behind, At, StepOf
  <2>5. Admin \in Unsettled
    BY <1>1, <2>1, <2>3 DEF Behind
  <2>6. /\ \A d \in Unsettled : d = Admin
        /\ Settles(procs[Admin], staked, owed)
    BY <2>2, <2>5 DEF RowsInv
  <2>7. procs'[t].at = "totals" /\ procs'[t].n = procs[Admin].n
    BY <2>1
  <2>8. Unsettled' = {t}
    <3>1. \A d \in Callers \ {t, Admin} : ~Behind(calls'[d], procs'[d])
      BY <2>1, <2>2, <2>3, <2>6
    <3>2. ~Behind(calls'[Admin], procs'[Admin])
      BY <1>1, <2>1 DEF Behind
    <3>3. Behind(calls'[t], procs'[t])
      BY <2>7 DEF Behind
    <3> QED BY <1>1, <2>4, <3>1, <3>2, <3>3
  <2>9. Settles(procs'[t], staked', owed')
    BY <1>2, <2>1, <2>6, <2>7 DEF Settles
  <2> QED BY <2>8, <2>9
<1> QED BY <1>4, <1>5, <1>6, <1>7 DEF AdminStep

\* No step leaves the rows behind, but for a slash to be dealt with.
LEMMA RowsStep ==
    ASSUME StakedAtStart > 0
    PROVE  Shape /\ Shape' /\ RowsInv /\ [RiskNext]_vars => RowsInv'
<1> SUFFICES ASSUME Shape, Shape', RowsInv, [RiskNext]_vars PROVE RowsInv'
  OBVIOUS
<1>1. Fit /\ PoolFits /\ Books /\ Fit'
  BY DEF Shape
<1>2. \E c \in Callers : TRUE
  BY Roles
<1>3. ASSUME slips \subseteq slips', UNCHANGED <<staked, owed, procs>>,
             \A d \in Callers : calls'[d].step = "done" <=> calls[d].step = "done"
      PROVE  RowsInv'
  <2>1. \A d \in Callers : Behind(calls'[d], procs'[d]) <=> Behind(calls[d], procs[d])
    BY <1>3 DEF Behind
  <2>2. PICK c \in Callers : TRUE
    BY <1>2
  <2>3. \/ ~Behind(calls[c], procs[c]) /\ ~Behind(calls'[c], procs'[c])
        \/ Behind(calls[c], procs[c]) /\ Behind(calls'[c], procs'[c])
    BY <2>1
  <2> QED BY <1>1, <1>3, <2>1, <2>3, RowsKept
<1>4. ASSUME slips \subseteq slips', UNCHANGED <<staked, owed>>, NEW c \in Callers,
             \A d \in Callers \ {c} : calls'[d] = calls[d] /\ procs'[d] = procs[d],
             ~Behind(calls[c], procs[c]), ~Behind(calls'[c], procs'[c])
      PROVE  RowsInv'
  BY <1>1, <1>4, RowsKept
<1>5. ASSUME NEW c \in Checks, CheckStep(c) PROVE RowsInv'
  <2>1. UNCHANGED <<staked, owed>>
    BY <1>5 DEF CheckStep, StartCheck, Decide, AfterPause, AfterUnpause, ReportRisks, chainVars
  <2>2. PICK k, p : Turn(c, k, p)
    BY <1>1, <1>5, CheckTurns
  <2>3. c \in Callers /\ slips \subseteq slips'
    BY <2>2, Roles DEF Turn
  <2>4. \A d \in Callers \ {c} : calls'[d] = calls[d] /\ procs'[d] = procs[d]
    BY <1>1, <2>2, <2>3, TurnOf
  <2>5. FitsCheck(calls[c], procs[c]) /\ FitsCheck(calls'[c], procs'[c])
    BY <1>1, <2>3 DEF Fit, Fits
  <2>6. ~Behind(calls[c], procs[c]) /\ ~Behind(calls'[c], procs'[c])
    BY <2>5 DEF Behind, FitsCheck
  <2> QED BY <1>4, <2>1, <2>3, <2>4, <2>6
<1>6. ASSUME UNCHANGED <<calls, slips, staked, owed>>, NEW t \in Tasks, procs[t].at = "idle",
             NEW p, Goes(t, p), p.at \in {"move", "find"}
      PROVE  RowsInv'
  <2>1. t \in Callers
    BY Roles
  <2>2. procs'[t] = p /\ \A d \in Callers \ {t} : procs'[d] = procs[d]
    BY <1>1, <1>6, <2>1, GoesTo
  <2> QED BY <1>4, <1>6, <2>1, <2>2 DEF Behind
<1>7. CASE Reallocate
  <2>1. UNCHANGED <<calls, slips, staked, owed>>
    BY <1>7 DEF Reallocate, operatorVars, chainVars
  <2>2. CASE UNCHANGED procs
    BY <1>3, <2>1, <2>2
  <2>3. ASSUME NEW t \in Tasks, NEW left, procs[t].at = "idle", Goes(t, [at |-> "move", left |-> left])
        PROVE  RowsInv'
    <3> DEFINE p == [at |-> "move", left |-> left]
    <3>1. p.at = "move" /\ Goes(t, p)
      BY <2>3
    <3> HIDE DEF p
    <3> QED BY <1>6, <2>1, <2>3, <3>1
  <2> QED BY <1>7, <2>2, <2>3 DEF Reallocate, At
<1>8. ASSUME NEW c \in Callers, Waiting(c), SendCall(c) PROVE RowsInv'
  <2>1. /\ \A d \in Callers : d # c => calls'[d] = calls[d]
        /\ calls'[c].step \in {"sent", "failed"} /\ calls[c].step \in {"built", "stale"}
        /\ UNCHANGED <<staked, owed, procs, slips>>
    BY <1>1, <1>8, SendKeepsFit DEF riskVars
  <2> QED BY <1>3, <2>1
<1>18. ASSUME NEW c \in Callers, BuildCall(c) PROVE RowsInv'
  <2>1. /\ \A d \in Callers : d # c => calls'[d] = calls[d]
        /\ calls[c].step = "asked" /\ calls'[c].step = "built"
        /\ UNCHANGED <<staked, owed, procs>> /\ slips \subseteq slips'
    BY <1>1, <1>18, BuildKeepsFit DEF chainVars
  <2> QED BY <1>3, <2>1
<1>9. ASSUME NEW tx \in pool, IncludeCall(tx) PROVE RowsInv'
  BY <1>1, <1>9, IncludeSettles
<1>10. ASSUME NEW tx \in pool, DropCall(tx) PROVE RowsInv'
  <2>1. /\ \A c \in Callers : /\ calls[c].step = "sent" => calls'[c].step = "failed"
                              /\ calls[c].step # "sent" => calls'[c] = calls[c]
        /\ UNCHANGED <<staked, owed, procs, slips>>
    BY <1>1, <1>10, DropKeepsFit DEF riskVars
  <2> QED BY <1>3, <2>1
<1>11. ASSUME NEW t \in Tasks, TaskStep(t) PROVE RowsInv'
  BY <1>1, <1>11, RowsOfTasks
<1>12. CASE AdminStep
  BY <1>1, <1>12, RowsOfAdmin
<1>13. CASE Restart
  BY <1>1, <1>13, RestartKeepsFit, ThrowsKeepRows
<1>14. ASSUME NEW v \in Validators, NEW row \in Row, WriteRow(v, row) PROVE RowsInv'
  BY <1>3, <1>14 DEF WriteRow, operatorVars, chainVars
<1>15. ASSUME NEW v \in Validators, NEW uptime \in 0..100, AlertsOf(v, uptime) PROVE RowsInv'
  <2>1. UNCHANGED <<calls, slips, staked, owed>>
    BY <1>15 DEF AlertsOf, operatorVars, chainVars
  <2>2. CASE UNCHANGED procs
    BY <1>3, <2>1, <2>2
  <2>3. ASSUME NEW t \in Tasks, procs[t].at = "idle",
               Goes(t, [at |-> "find", validator |-> v, uptime |-> uptime])
        PROVE  RowsInv'
    <3> DEFINE p == [at |-> "find", validator |-> v, uptime |-> uptime]
    <3>1. p.at = "find" /\ Goes(t, p)
      BY <2>3
    <3> HIDE DEF p
    <3> QED BY <1>6, <2>1, <2>3, <3>1
  <2> QED BY <1>15, <2>2, <2>3 DEF AlertsOf, HandleDown, At
<1>16. CASE FailsElsewhere
  BY <1>3, <1>16 DEF FailsElsewhere, riskVars
<1>17. CASE UNCHANGED vars
  BY <1>3, <1>17 DEF vars, operatorVars, riskVars
<1> QED
  BY <1>5, <1>7, <1>8, <1>9, <1>10, <1>11, <1>12, <1>13, <1>14, <1>15, <1>16, <1>17, <1>18
     DEF RiskNext, RiskStep, WatchStep, NetworkStep

\* When every slash that went through has been dealt with, each pending row is its part of
\* what is left, rounded down once for every slash, whoever slashed and whatever else went
\* on, unless a call threw, the backend restarted or two slashes crossed.
THEOREM RowsAlwaysFollowSlashes ==
    ASSUME StakedAtStart > 0
    PROVE  RiskSpec => []RowsFollowSlashes
<1>1. TableTypeOK /\ RiskInit => RowsInv
  <2> SUFFICES ASSUME TableTypeOK, RiskInit PROVE RowsInv
    OBVIOUS
  <2>1. staked = StakedAtStart /\ owed = OwedAtStart /\ procs = [c \in Callers |-> Idle]
    BY DEF RiskInit
  <2>2. Unsettled = {}
    BY <2>1, Roles DEF Unsettled, Recalculating, At, Idle
  <2>3. ASSUME NEW r \in Payouts PROVE Follows(r, owed[r], staked)
    <3> DEFINE n == OwedAtStart[r]
               all == StakedAtStart
               q == PartOf(n, all, all)
    <3>1. n \in Nat /\ all \in Nat /\ all > 0
      BY RiskAssumption
    <3>2. q \in Nat /\ all * q <= n * all /\ n * all < all * (q + 1)
      BY <3>1, QuotientOf
    <3> HIDE DEF n, all, q
    <3>3. q <= n
      <4> SUFFICES ASSUME n + 1 <= q PROVE FALSE
        BY <3>1, <3>2
      <4>1. all * n < all * q
        BY <3>1, <3>2, ProductsInOrder
      <4>2. all * n = n * all /\ all * n \in Int /\ all * q \in Int
        BY <3>1, <3>2
      <4> QED BY <3>2, <4>1, <4>2
    <3>4. n <= q
      <4> SUFFICES ASSUME q + 1 <= n PROVE FALSE
        BY <3>1, <3>2
      <4>1. all * (q + 1) <= all * n
        BY <3>1, <3>2, ProductsInOrder
      <4>2. all * n = n * all /\ all * n \in Int /\ all * (q + 1) \in Int
        BY <3>1, <3>2
      <4> QED BY <3>2, <4>1, <4>2
    <3>5. q = n
      BY <3>1, <3>2, <3>3, <3>4
    <3>6. Near(n, all, all, n)
      BY <3>1, <3>5 DEF Near, q
    <3> QED BY <2>1, <3>6 DEF Follows, n, all
  <2> QED BY <2>2, <2>3 DEF RowsInv, AllFollow
<1>2. Shape /\ RowsInv => RowsFollowSlashes
  <2> SUFFICES ASSUME Shape, RowsInv, slips \subseteq {"admin", "overtaken"}, Recalculating = {},
                      \A c \in Callers : procs[c].at \notin {"slashing", "recalibrating"},
                      NEW r \in Payouts
               PROVE  LET part == (OwedAtStart[r] * staked) \div StakedAtStart
                      IN  owed[r] \in (part - (StakedAtStart - staked))..part
    BY DEF RowsFollowSlashes
  <2>1. Unsettled = {}
    BY DEF Unsettled, At
  <2> DEFINE part == PartOf(OwedAtStart[r], StakedAtStart, staked)
             lost == StakedAtStart - staked
  <2>2. owed[r] \in Nat /\ part - lost <= owed[r] /\ owed[r] <= part
    BY <2>1 DEF RowsInv, AllFollow, Follows, Near
  <2>3. part \in Nat /\ lost \in Int
    BY RiskAssumption, QuotientOf DEF Shape, Books
  <2> HIDE DEF part, lost
  <2>4. owed[r] \in (part - lost)..part
    BY <2>2, <2>3
  <2> QED BY <2>4 DEF part, lost, PartOf
<1>3. Shape /\ Shape' /\ RowsInv /\ [RiskNext]_vars => RowsInv'
  BY RowsStep
<1> QED BY <1>1, <1>2, <1>3, ShapeInvariant, PTL DEF RiskSpec

\* All of it holds of the risk engine next to the validator service.
COROLLARY AllHoldsNextToService ==
    ASSUME StakedAtStart > 0
    PROVE  WatchSpec => [](StakeIsAccounted /\ PauseMatchesMode /\ RowsFollowSlashes)
BY WatchImplementsRisk, StakeIsAlwaysAccounted, PauseAlwaysMatchesMode, RowsAlwaysFollowSlashes, PTL
=============================================================================
