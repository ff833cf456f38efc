--------------------------- MODULE Questions_proofs ---------------------------
(***************************************************************************)
(* Proofs about Questions, for any text of a question and any payload of   *)
(* the parser model.                                                       *)
(***************************************************************************)
EXTENDS Questions, SequenceTheorems, WellFoundedInduction, TLAPS

-----------------------------------------------------------------------------
(* The definitions by recursion over the positions of a sequence.          *)

(* Some natural numbers have a least one. *)
LEMMA LeastIsOne ==
  ASSUME NEW S \in SUBSET Nat, S # {}
  PROVE  \E x \in S : \A y \in S : x <= y
<1> DEFINE R == {ss \in Nat \X Nat : ss[1] < ss[2]}
<1>1. \A x, y \in Nat : y < x => <<y, x>> \in R
  OBVIOUS
<1>2. IsWellFoundedOn(R, Nat)
  BY NatLessThanWellFounded DEF OpToRel
<1> HIDE DEF R
<1>3. \E x \in S : \A y \in S : ~(<<y, x>> \in R)
  BY <1>2, WFMin
<1>4. PICK x \in S : \A y \in S : ~(<<y, x>> \in R)
  BY <1>3
<1>5. ASSUME NEW y \in S PROVE x <= y
  <2>1. x \in Nat /\ y \in Nat /\ ~(y < x)
    BY <1>1, <1>4
  <2> QED
    BY <2>1
<1> QED
  BY <1>5

(* What holds at first and is kept by each step holds at every position. *)
LEMMA Reaches ==
  ASSUME NEW N \in Nat, NEW X, 0 \in X, \A n \in 1 .. N : n - 1 \in X => n \in X
  PROVE  N \in X
<1> DEFINE S == {n \in 0 .. N : n \notin X}
<1>1. SUFFICES ASSUME S # {} PROVE FALSE
  OBVIOUS
<1>2. S \in SUBSET Nat
  OBVIOUS
<1> HIDE DEF S
<1>3. PICK m \in S : \A y \in S : m <= y
  BY <1>1, <1>2, LeastIsOne
<1>4. m \in 1 .. N /\ m \notin X
  BY <1>3 DEF S
<1>5. m - 1 \in 0 .. N /\ m - 1 \notin S
  BY <1>3, <1>4
<1> QED
  BY <1>4, <1>5 DEF S

Spared(seq, dropped, rest, n) == IF n \in dropped THEN rest ELSE Append(rest, seq[n])

LEMMA WithoutSolved ==
  ASSUME NEW seq, Len(seq) \in Nat, NEW dropped
  PROVE  \E f : /\ f[0] = <<>>
                /\ \A n \in 1 .. Len(seq) : f[n] = Spared(seq, dropped, f[n - 1], n)
                /\ Without(seq, dropped) = f[Len(seq)]
<1> DEFINE N == Len(seq)
           After(k, n) == IF n \in dropped THEN k ELSE Append(k, seq[n])
           Good(f, m) == f = [n \in 0 .. m |-> IF n = 0 THEN <<>> ELSE After(f[n - 1], n)]
           S == {m \in 0 .. N : ~ \E f : Good(f, m)}
<1>1. S = {}
  <2>1. SUFFICES ASSUME S # {} PROVE FALSE
    OBVIOUS
  <2>2. S \in SUBSET Nat
    OBVIOUS
  <2> HIDE DEF S
  <2>3. PICK m \in S : \A y \in S : m <= y
    BY <2>1, <2>2, LeastIsOne
  <2>4. m \in 0 .. N /\ ~ \E f : Good(f, m)
    BY <2>3 DEF S
  <2> HIDE DEF N, After
  <2>5. CASE m = 0
    <3> DEFINE g == [n \in 0 .. 0 |-> <<>>]
    <3>1. Good(g, 0)
      OBVIOUS
    <3> QED
      BY <2>4, <2>5, <3>1
  <2>6. CASE m # 0
    <3>1. m - 1 \in 0 .. N /\ m - 1 \notin S
      BY <2>3, <2>4, <2>6 DEF N
    <3>2. PICK f : Good(f, m - 1)
      BY <3>1 DEF S
    <3> DEFINE g == [n \in 0 .. m |-> IF n = m THEN After(f[m - 1], m) ELSE f[n]]
    <3>3. ASSUME NEW n \in 0 .. m
          PROVE  g[n] = IF n = 0 THEN <<>> ELSE After(g[n - 1], n)
      <4>0. m \in Nat
        BY <2>4
      <4>1. CASE n = m
        <5>1. m \in 0 .. m /\ m - 1 \in 0 .. m /\ m - 1 # m
          BY <2>6, <4>0
        <5>2. g[m] = After(f[m - 1], m) /\ g[m - 1] = f[m - 1]
          BY <5>1, Zenon
        <5> HIDE DEF g
        <5> QED
          BY <2>6, <4>1, <5>2
      <4>2. CASE n # m
        <5>1. /\ n \in 0 .. (m - 1) /\ g[n] = f[n]
              /\ n # 0 => n - 1 \in 0 .. m /\ g[n - 1] = f[n - 1]
          BY <2>6, <4>0, <4>2
        <5>2. f[n] = IF n = 0 THEN <<>> ELSE After(f[n - 1], n)
          BY <3>2, <5>1
        <5> HIDE DEF g
        <5> QED
          BY <5>1, <5>2
      <4> QED
        BY <4>1, <4>2
    <3>4. Good(g, m)
      BY <3>3, Zenon
    <3> QED
      BY <2>4, <3>4
  <2> QED
    BY <2>5, <2>6
<1>2. \E f : Good(f, N)
  <2> HIDE DEF Good
  <2> QED
    BY <1>1
<1>3. PICK f : Good(f, N) /\ Without(seq, dropped) = f[N]
  BY <1>2 DEF Without
<1>4. f[0] = <<>> /\ \A n \in 1 .. N : f[n] = After(f[n - 1], n)
  <2> HIDE DEF After
  <2> QED
    BY <1>3
<1>5. \A n \in 1 .. N : After(f[n - 1], n) = Spared(seq, dropped, f[n - 1], n)
  BY DEF Spared
<1> HIDE DEF After, Good
<1> QED
  BY <1>3, <1>4, <1>5, Zenon

LEMMA MentionsSolved ==
  ASSUME NEW marks, NEW width \in Nat
  PROVE  \E f : /\ f[0] = <<>>
                /\ \A n \in 1 .. width : f[n] = Take(marks, f[n - 1], n - 1)
                /\ Mentions(marks, width) = f[width]
<1> DEFINE N == width
           After(k, n) == Take(marks, k, n - 1)
           Good(f, m) == f = [n \in 0 .. m |-> IF n = 0 THEN <<>> ELSE After(f[n - 1], n)]
           S == {m \in 0 .. N : ~ \E f : Good(f, m)}
<1>1. S = {}
  <2>1. SUFFICES ASSUME S # {} PROVE FALSE
    OBVIOUS
  <2>2. S \in SUBSET Nat
    OBVIOUS
  <2> HIDE DEF S
  <2>3. PICK m \in S : \A y \in S : m <= y
    BY <2>1, <2>2, LeastIsOne
  <2>4. m \in 0 .. N /\ ~ \E f : Good(f, m)
    BY <2>3 DEF S
  <2> HIDE DEF N, After
  <2>5. CASE m = 0
    <3> DEFINE g == [n \in 0 .. 0 |-> <<>>]
    <3>1. Good(g, 0)
      OBVIOUS
    <3> QED
      BY <2>4, <2>5, <3>1
  <2>6. CASE m # 0
    <3>1. m - 1 \in 0 .. N /\ m - 1 \notin S
      BY <2>3, <2>4, <2>6 DEF N
    <3>2. PICK f : Good(f, m - 1)
      BY <3>1 DEF S
    <3> DEFINE g == [n \in 0 .. m |-> IF n = m THEN After(f[m - 1], m) ELSE f[n]]
    <3>3. ASSUME NEW n \in 0 .. m
          PROVE  g[n] = IF n = 0 THEN <<>> ELSE After(g[n - 1], n)
      <4>0. m \in Nat
        BY <2>4
      <4>1. CASE n = m
        <5>1. m \in 0 .. m /\ m - 1 \in 0 .. m /\ m - 1 # m
          BY <2>6, <4>0
        <5>2. g[m] = After(f[m - 1], m) /\ g[m - 1] = f[m - 1]
          BY <5>1, Zenon
        <5> HIDE DEF g
        <5> QED
          BY <2>6, <4>1, <5>2
      <4>2. CASE n # m
        <5>1. /\ n \in 0 .. (m - 1) /\ g[n] = f[n]
              /\ n # 0 => n - 1 \in 0 .. m /\ g[n - 1] = f[n - 1]
          BY <2>6, <4>0, <4>2
        <5>2. f[n] = IF n = 0 THEN <<>> ELSE After(f[n - 1], n)
          BY <3>2, <5>1
        <5> HIDE DEF g
        <5> QED
          BY <5>1, <5>2
      <4> QED
        BY <4>1, <4>2
    <3>4. Good(g, m)
      BY <3>3, Zenon
    <3> QED
      BY <2>4, <3>4
  <2> QED
    BY <2>5, <2>6
<1>2. \E f : Good(f, N)
  BY <1>1
<1>3. PICK f : Good(f, N) /\ Mentions(marks, width) = f[N]
  BY <1>2 DEF Mentions
<1>4. f[0] = <<>> /\ \A n \in 1 .. N : f[n] = After(f[n - 1], n)
  <2> HIDE DEF After
  <2> QED
    BY <1>3
<1> QED
  BY <1>3, <1>4

LEMMA AddAllSolved ==
  ASSUME NEW found, NEW parses, Len(parses) \in Nat
  PROVE  \E f : /\ f[0] = found
                /\ \A n \in 1 .. Len(parses) : f[n] = AddCandidate(f[n - 1], parses[n])
                /\ AddAll(found, parses) = f[Len(parses)]
<1> DEFINE N == Len(parses)
           After(k, n) == AddCandidate(k, parses[n])
           Good(f, m) == f = [n \in 0 .. m |-> IF n = 0 THEN found ELSE After(f[n - 1], n)]
           S == {m \in 0 .. N : ~ \E f : Good(f, m)}
<1>1. S = {}
  <2>1. SUFFICES ASSUME S # {} PROVE FALSE
    OBVIOUS
  <2>2. S \in SUBSET Nat
    OBVIOUS
  <2> HIDE DEF S
  <2>3. PICK m \in S : \A y \in S : m <= y
    BY <2>1, <2>2, LeastIsOne
  <2>4. m \in 0 .. N /\ ~ \E f : Good(f, m)
    BY <2>3 DEF S
  <2> HIDE DEF N, After
  <2>5. CASE m = 0
    <3> DEFINE g == [n \in 0 .. 0 |-> found]
    <3>1. Good(g, 0)
      OBVIOUS
    <3> QED
      BY <2>4, <2>5, <3>1
  <2>6. CASE m # 0
    <3>1. m - 1 \in 0 .. N /\ m - 1 \notin S
      BY <2>3, <2>4, <2>6 DEF N
    <3>2. PICK f : Good(f, m - 1)
      BY <3>1 DEF S
    <3> DEFINE g == [n \in 0 .. m |-> IF n = m THEN After(f[m - 1], m) ELSE f[n]]
    <3>3. ASSUME NEW n \in 0 .. m
          PROVE  g[n] = IF n = 0 THEN found ELSE After(g[n - 1], n)
      <4>0. m \in Nat
        BY <2>4
      <4>1. CASE n = m
        <5>1. m \in 0 .. m /\ m - 1 \in 0 .. m /\ m - 1 # m
          BY <2>6, <4>0
        <5>2. g[m] = After(f[m - 1], m) /\ g[m - 1] = f[m - 1]
          BY <5>1, Zenon
        <5> HIDE DEF g
        <5> QED
          BY <2>6, <4>1, <5>2
      <4>2. CASE n # m
        <5>1. /\ n \in 0 .. (m - 1) /\ g[n] = f[n]
              /\ n # 0 => n - 1 \in 0 .. m /\ g[n - 1] = f[n - 1]
          BY <2>6, <4>0, <4>2
        <5>2. f[n] = IF n = 0 THEN found ELSE After(f[n - 1], n)
          BY <3>2, <5>1
        <5> HIDE DEF g
        <5> QED
          BY <5>1, <5>2
      <4> QED
        BY <4>1, <4>2
    <3>4. Good(g, m)
      BY <3>3, Zenon
    <3> QED
      BY <2>4, <3>4
  <2> QED
    BY <2>5, <2>6
<1>2. \E f : Good(f, N)
  BY <1>1
<1>3. PICK f : Good(f, N) /\ AddAll(found, parses) = f[N]
  BY <1>2 DEF AddAll
<1>4. f[0] = found /\ \A n \in 1 .. N : f[n] = After(f[n - 1], n)
  <2> HIDE DEF After
  <2> QED
    BY <1>3
<1> QED
  BY <1>3, <1>4

LEMMA SplitSolved ==
  ASSUME NEW texts, Len(texts) \in Nat
  PROVE  \E f : /\ f[0] = NothingRead
                /\ \A n \in 1 .. Len(texts) : f[n] = ReadText(f[n - 1], texts[n])
                /\ SplitCandidates(texts) = f[Len(texts)].found
<1> DEFINE N == Len(texts)
           After(k, n) == ReadText(k, texts[n])
           Good(f, m) == f = [n \in 0 .. m |-> IF n = 0 THEN NothingRead ELSE After(f[n - 1], n)]
           S == {m \in 0 .. N : ~ \E f : Good(f, m)}
<1>1. S = {}
  <2>1. SUFFICES ASSUME S # {} PROVE FALSE
    OBVIOUS
  <2>2. S \in SUBSET Nat
    OBVIOUS
  <2> HIDE DEF S
  <2>3. PICK m \in S : \A y \in S : m <= y
    BY <2>1, <2>2, LeastIsOne
  <2>4. m \in 0 .. N /\ ~ \E f : Good(f, m)
    BY <2>3 DEF S
  <2> HIDE DEF N, After
  <2>5. CASE m = 0
    <3> DEFINE g == [n \in 0 .. 0 |-> NothingRead]
    <3>1. Good(g, 0)
      OBVIOUS
    <3> QED
      BY <2>4, <2>5, <3>1
  <2>6. CASE m # 0
    <3>1. m - 1 \in 0 .. N /\ m - 1 \notin S
      BY <2>3, <2>4, <2>6 DEF N
    <3>2. PICK f : Good(f, m - 1)
      BY <3>1 DEF S
    <3> DEFINE g == [n \in 0 .. m |-> IF n = m THEN After(f[m - 1], m) ELSE f[n]]
    <3>3. ASSUME NEW n \in 0 .. m
          PROVE  g[n] = IF n = 0 THEN NothingRead ELSE After(g[n - 1], n)
      <4>0. m \in Nat
        BY <2>4
      <4>1. CASE n = m
        <5>1. m \in 0 .. m /\ m - 1 \in 0 .. m /\ m - 1 # m
          BY <2>6, <4>0
        <5>2. g[m] = After(f[m - 1], m) /\ g[m - 1] = f[m - 1]
          BY <5>1, Zenon
        <5> HIDE DEF g
        <5> QED
          BY <2>6, <4>1, <5>2
      <4>2. CASE n # m
        <5>1. /\ n \in 0 .. (m - 1) /\ g[n] = f[n]
              /\ n # 0 => n - 1 \in 0 .. m /\ g[n - 1] = f[n - 1]
          BY <2>6, <4>0, <4>2
        <5>2. f[n] = IF n = 0 THEN NothingRead ELSE After(f[n - 1], n)
          BY <3>2, <5>1
        <5> HIDE DEF g
        <5> QED
          BY <5>1, <5>2
      <4> QED
        BY <4>1, <4>2
    <3>4. Good(g, m)
      BY <3>3, Zenon
    <3> QED
      BY <2>4, <3>4
  <2> QED
    BY <2>5, <2>6
<1>2. \E f : Good(f, N)
  BY <1>1
<1>3. PICK f : Good(f, N) /\ SplitCandidates(texts) = f[N].found
  BY <1>2 DEF SplitCandidates
<1>4. f[0] = NothingRead /\ \A n \in 1 .. N : f[n] = After(f[n - 1], n)
  <2> HIDE DEF After
  <2> QED
    BY <1>3
<1> QED
  BY <1>3, <1>4

-----------------------------------------------------------------------------
(* A sequence without some of its elements.                                *)

(* The positions, in seq, of what a prefix of it leaves in r. *)
Leaves(r, at, S, seq, dropped, n) ==
  /\ r \in Seq(S) /\ Len(r) <= n
  /\ at \in [1 .. Len(r) -> (1 .. n) \ dropped]
  /\ \A i, j \in 1 .. Len(r) : at[i] = at[j] => i = j
  /\ \A k \in (1 .. n) \ dropped : \E i \in 1 .. Len(r) : at[i] = k
  /\ \A i \in 1 .. Len(r) : r[i] = seq[at[i]]

LEMMA LeavesMore ==
  ASSUME NEW S, NEW seq \in Seq(S), NEW dropped, NEW n \in 1 .. Len(seq), NEW r, NEW at,
         Leaves(r, at, S, seq, dropped, n - 1)
  PROVE  \E more : Leaves(Spared(seq, dropped, r, n), more, S, seq, dropped, n)
<1>1. /\ r \in Seq(S) /\ Len(r) <= n - 1 /\ Len(r) \in Nat /\ n \in Nat /\ seq[n] \in S
      /\ at \in [1 .. Len(r) -> (1 .. (n - 1)) \ dropped]
      /\ \A i, j \in 1 .. Len(r) : at[i] = at[j] => i = j
      /\ \A k \in (1 .. (n - 1)) \ dropped : \E i \in 1 .. Len(r) : at[i] = k
      /\ \A i \in 1 .. Len(r) : r[i] = seq[at[i]]
  BY DEF Leaves
<1>2. CASE n \in dropped
  <2>1. (1 .. n) \ dropped = (1 .. (n - 1)) \ dropped
    BY <1>1, <1>2
  <2>2. Leaves(r, at, S, seq, dropped, n)
    BY <1>1, <2>1 DEF Leaves
  <2> QED
    BY <1>2, <2>2 DEF Spared
<1>3. CASE n \notin dropped
  <2> DEFINE new == Append(r, seq[n])
             more == [i \in 1 .. (Len(r) + 1) |-> IF i = Len(r) + 1 THEN n ELSE at[i]]
  <2>1. /\ new \in Seq(S) /\ Len(new) = Len(r) + 1 /\ new[Len(r) + 1] = seq[n]
        /\ \A i \in 1 .. Len(r) : new[i] = r[i]
    BY <1>1, AppendProperties
  <2>2. /\ \A i \in 1 .. Len(r) : more[i] = at[i] /\ i # Len(r) + 1
        /\ more[Len(r) + 1] = n
        /\ \A i \in 1 .. (Len(r) + 1) : i = Len(r) + 1 \/ i \in 1 .. Len(r)
    BY <1>1
  <2>3. (1 .. n) \ dropped = ((1 .. (n - 1)) \ dropped) \cup {n} /\ n \notin 1 .. (n - 1)
    BY <1>1, <1>3
  <2>4. more \in [1 .. Len(new) -> (1 .. n) \ dropped]
    BY <1>1, <2>1, <2>3
  <2> HIDE DEF new, more
  <2>5. \A i \in 1 .. Len(r) : at[i] # n
    BY <1>1, <2>3
  <2>6. \A i, j \in 1 .. Len(new) : more[i] = more[j] => i = j
    BY <1>1, <2>1, <2>2, <2>5
  <2>7. \A i \in 1 .. Len(new) : new[i] = seq[more[i]]
    BY <1>1, <2>1, <2>2
  <2>8. ASSUME NEW k \in (1 .. n) \ dropped PROVE \E i \in 1 .. Len(new) : more[i] = k
    <3>1. CASE k = n
      <4>1. Len(r) + 1 \in 1 .. Len(new)
        BY <1>1, <2>1
      <4> QED
        BY <2>2, <3>1, <4>1
    <3>2. CASE k # n
      <4>1. PICK i \in 1 .. Len(r) : at[i] = k
        BY <1>1, <2>3, <3>2
      <4>2. i \in 1 .. Len(new)
        BY <1>1, <2>1
      <4> QED
        BY <2>2, <4>1, <4>2
    <3> QED
      BY <3>1, <3>2
  <2>9. Len(new) <= n
    BY <1>1, <2>1
  <2>10. Leaves(new, more, S, seq, dropped, n)
    BY <2>1, <2>4, <2>6, <2>7, <2>8, <2>9 DEF Leaves
  <2> QED
    BY <1>3, <2>10 DEF new, Spared
<1> QED
  BY <1>2, <1>3

LEMMA WithoutTypes ==
  ASSUME NEW S, NEW seq \in Seq(S), NEW dropped
  PROVE  \E at : Leaves(Without(seq, dropped), at, S, seq, dropped, Len(seq))
<1> DEFINE N == Len(seq)
<1>1. N \in Nat
  OBVIOUS
<1>2. PICK f : /\ f[0] = <<>>
               /\ \A n \in 1 .. N : f[n] = Spared(seq, dropped, f[n - 1], n)
               /\ Without(seq, dropped) = f[N]
  BY <1>1, WithoutSolved
<1> DEFINE X == {n \in 0 .. N : \E at : Leaves(f[n], at, S, seq, dropped, n)}
<1>3. 0 \in X
  <2>1. Leaves(<<>>, <<>>, S, seq, dropped, 0)
    BY DEF Leaves
  <2>2. 0 \in 0 .. N
    BY <1>1
  <2> QED
    BY <1>2, <2>1, <2>2
<1>4. \A n \in 1 .. N : n - 1 \in X => n \in X
  <2> TAKE n \in 1 .. N
  <2> HAVE n - 1 \in X
  <2>1. n \in 0 .. N /\ n - 1 \in 0 .. N
    BY <1>1
  <2>2. PICK at : Leaves(f[n - 1], at, S, seq, dropped, n - 1)
    BY <2>1
  <2>3. \E more : Leaves(Spared(seq, dropped, f[n - 1], n), more, S, seq, dropped, n)
    BY <2>2, LeavesMore
  <2>4. \E more : Leaves(f[n], more, S, seq, dropped, n)
    BY <1>2, <2>3
  <2> QED
    BY <2>1, <2>4
<1>5. N \in X
  <2> HIDE DEF X, N
  <2> QED
    BY <1>1, <1>3, <1>4, Reaches
<1> QED
  BY <1>2, <1>5

LEMMA WithoutNone ==
  ASSUME NEW S, NEW seq \in Seq(S), NEW dropped, \A n \in 1 .. Len(seq) : n \notin dropped
  PROVE  Without(seq, dropped) = seq
<1> DEFINE N == Len(seq)
<1>1. N \in Nat /\ \A n \in 1 .. N : seq[n] \in S
  OBVIOUS
<1>2. PICK f : /\ f[0] = <<>>
               /\ \A n \in 1 .. N : f[n] = Spared(seq, dropped, f[n - 1], n)
               /\ Without(seq, dropped) = f[N]
  BY <1>1, WithoutSolved
<1> DEFINE X == {n \in 0 .. N : /\ f[n] \in Seq(S) /\ Len(f[n]) = n
                                /\ \A i \in 1 .. n : f[n][i] = seq[i]}
<1>3. 0 \in X
  <2>1. 0 \in 0 .. N /\ f[0] \in Seq(S) /\ Len(f[0]) = 0 /\ 1 .. 0 = {}
    BY <1>1, <1>2
  <2> QED
    BY <2>1
<1>4. \A n \in 1 .. N : n - 1 \in X => n \in X
  <2> TAKE n \in 1 .. N
  <2> HAVE n - 1 \in X
  <2>1. n \in 0 .. N /\ n - 1 \in 0 .. N
    BY <1>1
  <2>2. f[n - 1] \in Seq(S) /\ Len(f[n - 1]) = n - 1 /\ \A i \in 1 .. (n - 1) : f[n - 1][i] = seq[i]
    BY <2>1
  <2>3. f[n] = Append(f[n - 1], seq[n]) /\ seq[n] \in S
    BY <1>1, <1>2 DEF Spared
  <2> HIDE DEF X, N
  <2>4. f[n] \in Seq(S) /\ Len(f[n]) = n /\ f[n][n] = seq[n] /\ \A i \in 1 .. (n - 1) : f[n][i] = seq[i]
    BY <1>1, <2>1, <2>2, <2>3, AppendProperties
  <2>5. \A i \in 1 .. n : f[n][i] = seq[i]
    <3>1. \A i \in 1 .. n : i = n \/ i \in 1 .. (n - 1)
      BY <1>1
    <3> QED
      BY <2>4, <3>1
  <2> QED
    BY <2>1, <2>4, <2>5 DEF X
<1>5. N \in X
  <2> HIDE DEF X, N
  <2> QED
    BY <1>1, <1>3, <1>4, Reaches
<1>6. f[N] \in Seq(S) /\ Len(f[N]) = Len(seq) /\ \A i \in 1 .. Len(seq) : f[N][i] = seq[i]
  BY <1>5
<1> HIDE DEF N, X
<1> QED
  BY <1>2, <1>6, SeqEqual

-----------------------------------------------------------------------------
(* Sequences of anything, and the names of a text.                         *)

LEMMA SomeSequence ==
  ASSUME NEW S, NEW s \in Seq(S)
  PROVE  IsSequence(s) /\ Len(s) \in Nat /\ DOMAIN s = 1 .. Len(s)
<1>1. Len(s) \in Nat /\ DOMAIN s = 1 .. Len(s) /\ s \in [1 .. Len(s) -> S]
  OBVIOUS
<1>2. s \in [1 .. Len(s) -> Range(s)]
  BY <1>1 DEF Range
<1> HIDE DEF Range
<1>3. s \in Seq(Range(s))
  BY <1>1, <1>2
<1> QED
  BY <1>1, <1>3 DEF IsSequence

LEMMA SequenceFacts ==
  ASSUME NEW s, IsSequence(s)
  PROVE  /\ Len(s) \in Nat /\ DOMAIN s = 1 .. Len(s)
         /\ s \in Seq(Range(s)) /\ \A i \in DOMAIN s : s[i] \in Range(s)
         /\ s = [i \in 1 .. Len(s) |-> s[i]]
<1>1. s \in Seq(Range(s))
  BY DEF IsSequence
<1>2. Len(s) \in Nat /\ DOMAIN s = 1 .. Len(s) /\ s = [i \in 1 .. Len(s) |-> s[i]]
  BY <1>1
<1> QED
  BY <1>1, <1>2 DEF Range

LEMMA MappedSequence ==
  ASSUME NEW n \in Nat, NEW f, f = [i \in 1 .. n |-> f[i]]
  PROVE  IsSequence(f) /\ Len(f) = n /\ DOMAIN f = 1 .. n
<1>1. DOMAIN f = 1 .. n
  OBVIOUS
<1>2. f \in [1 .. n -> Range(f)]
  BY <1>1 DEF Range
<1> HIDE DEF Range
<1>3. f \in Seq(Range(f)) /\ Len(f) = n
  BY <1>2
<1> QED
  BY <1>1, <1>3 DEF IsSequence

LEMMA AppendedSequence ==
  ASSUME NEW s, IsSequence(s), NEW e
  PROVE  /\ IsSequence(Append(s, e)) /\ Len(Append(s, e)) = Len(s) + 1
         /\ DOMAIN Append(s, e) = 1 .. (Len(s) + 1)
         /\ Append(s, e)[Len(s) + 1] = e /\ \A i \in DOMAIN s : Append(s, e)[i] = s[i]
<1> DEFINE S == Range(s) \cup {e}
<1>1. s \in Seq(Range(s)) /\ Len(s) \in Nat /\ DOMAIN s = 1 .. Len(s)
  BY SequenceFacts
<1>2. s \in Seq(S) /\ e \in S
  <2> HIDE DEF Range
  <2> QED
    BY <1>1
<1> HIDE DEF S
<1>3. Append(s, e) \in Seq(S)
  BY <1>2
<1>4. /\ Len(Append(s, e)) = Len(s) + 1
      /\ Append(s, e)[Len(s) + 1] = e /\ \A i \in 1 .. Len(s) : Append(s, e)[i] = s[i]
  BY <1>1, <1>2, AppendProperties
<1> QED
  BY <1>1, <1>3, <1>4, SomeSequence

LEMMA MentionsTypes ==
  ASSUME NEW marks, NEW width \in Nat
  PROVE  IsSequence(Mentions(marks, width))
<1>1. PICK f : /\ f[0] = <<>>
               /\ \A n \in 1 .. width : f[n] = Take(marks, f[n - 1], n - 1)
               /\ Mentions(marks, width) = f[width]
  BY MentionsSolved
<1> DEFINE X == {n \in 0 .. width : IsSequence(f[n])}
<1>2. 0 \in X
  <2>1. <<>> \in Seq({})
    OBVIOUS
  <2>2. IsSequence(<<>>)
    BY <2>1, SomeSequence
  <2>3. f[0] = <<>> /\ 0 \in 0 .. width
    BY <1>1
  <2> QED
    BY <2>2, <2>3
<1>3. ASSUME NEW n \in 1 .. width, n - 1 \in X PROVE n \in X
  <2>1. IsSequence(f[n - 1]) /\ f[n] = Take(marks, f[n - 1], n - 1) /\ n \in 0 .. width
    BY <1>1, <1>3
  <2>2. IsSequence(f[n])
    BY <2>1, AppendedSequence DEF Take
  <2> QED
    BY <2>1, <2>2
<1>4. width \in X
  <2> HIDE DEF X
  <2> QED
    BY <1>2, <1>3, Reaches
<1> QED
  BY <1>1, <1>4

LEMMA TextNames ==
  ASSUME NEW segment
  PROVE  IsSequence(TextOf(segment).names)
<1> DEFINE W == <<[segment EXCEPT !.cut = {}]>>
           segments == DOMAIN W
           marks == UNION {Shifted(W[i].marks, (i - 1) * SegmentWidth) : i \in segments}
           width == Len(W) * SegmentWidth
           taken == Mentions(marks, width)
<1>1. width \in Nat
  BY TextAssumption
<1> HIDE DEF width, marks
<1>2. IsSequence(taken)
  BY <1>1, MentionsTypes
<1>3. TextOf(segment).names = CardsOf(taken)
  BY DEF TextOf, Whole, ResolveCardNames, width, marks
<1> HIDE DEF taken
<1>4. IsSequence(CardsOf(taken))
  <2>1. Len(taken) \in Nat /\ DOMAIN taken = 1 .. Len(taken)
    BY <1>2, SequenceFacts
  <2> DEFINE c == CardsOf(taken)
  <2>2. c = [i \in 1 .. Len(taken) |-> taken[i].card]
    BY <2>1 DEF CardsOf
  <2>3. c = [i \in 1 .. Len(taken) |-> c[i]]
    BY <2>2
  <2> HIDE DEF c
  <2>4. IsSequence(c)
    BY <2>1, <2>3, MappedSequence
  <2> QED
    BY <2>4 DEF c
<1> QED
  BY <1>3, <1>4

-----------------------------------------------------------------------------
(* The rules: one of them is the first that holds.                         *)

LEMMA FirstHolds ==
  ASSUME NEW pairs, NEW N \in Nat \ {0}, DOMAIN pairs = 1 .. N, pairs[N][2]
  PROVE  \E i \in 1 .. N : /\ pairs[i][2]
                           /\ \A k \in 1 .. (i - 1) : ~pairs[k][2]
                           /\ FirstThat(pairs) = pairs[i][1]
<1> DEFINE P(i) == pairs[i][2] /\ \A k \in 1 .. (i - 1) : ~pairs[k][2]
           T == {i \in 1 .. N : pairs[i][2]}
<1>1. T \in SUBSET Nat /\ T # {}
  OBVIOUS
<1> HIDE DEF T
<1>2. PICK m \in T : \A y \in T : m <= y
  BY <1>1, LeastIsOne
<1>3. m \in 1 .. N /\ P(m)
  BY <1>2 DEF T
<1>4. \E i \in DOMAIN pairs : P(i)
  BY <1>3
<1> DEFINE c == CHOOSE i \in DOMAIN pairs : P(i)
<1> HIDE DEF P
<1>5. c \in DOMAIN pairs /\ P(c)
  BY <1>4
<1>6. FirstThat(pairs) = pairs[c][1]
  BY DEF FirstThat, P
<1> HIDE DEF c
<1> QED
  BY <1>5, <1>6 DEF P

LEMMA LocalIntentTypes ==
  ASSUME NEW text
  PROVE  LocalIntent(text) \in SupportedIntents
<1> DEFINE R == Rules(text)
<1>1. DOMAIN R = 1 .. 10 /\ R[10][2]
  BY DEF Rules
<1>2. \A i \in 1 .. 10 : R[i][1] \in SupportedIntents
  BY DEF Rules, SupportedIntents, RemovedIntents, CardIntents
<1> HIDE DEF R
<1>3. \E i \in 1 .. 10 : FirstThat(R) = R[i][1]
  <2>1. 10 \in Nat \ {0}
    OBVIOUS
  <2>2. \E i \in 1 .. 10 : /\ R[i][2]
                           /\ \A k \in 1 .. (i - 1) : ~R[k][2]
                           /\ FirstThat(R) = R[i][1]
    BY <1>1, <2>1, FirstHolds
  <2> QED
    BY <2>2
<1> QED
  BY <1>2, <1>3 DEF LocalIntent, R

(* The skill found by the registry is the one the fields call for. *)
LEMMA Resolved ==
  ASSUME NEW p, IsParse(p)
  PROVE  /\ Resolve(p) \in {"EvidenceSynthesisSkill", "RAGEvidenceSkill"} /\ ~OfText(p)
             <=> SubqueryNeedsRag(p)
         /\ Resolve(p) = "none" =>
              \/ p.intent = "reject"
              \/ p.intent = "card_rank_lookup_query" /\ p.card = NoCard
              \/ OfText(p) /\ ~Open(p)
<1> DEFINE R == Registry(p)
<1>1. DOMAIN R = 1 .. 11 /\ R[11][1] = "none" /\ R[11][2]
  BY DEF Registry
<1>10. /\ R[1][1] = "UnsupportedClanWarSkill" /\ (R[1][2] <=> UnsupportedClanWar(p))
       /\ R[2][1] = "ExactDeckSkill" /\ (R[2][2] <=> ExactDeckSkill(p))
       /\ R[3][1] = "StructuredRelationshipSkill" /\ (R[3][2] <=> StructuredRelationship(p))
       /\ R[4][1] = "DeckRankingSkill" /\ (R[4][2] <=> DeckRanking(p))
       /\ R[5][1] = "CardCompareSkill" /\ (R[5][2] <=> CardCompare(p))
       /\ R[6][1] = "CardRankLookupSkill" /\ (R[6][2] <=> CardRankLookup(p))
       /\ R[7][1] = "LoadoutEntitySkill" /\ (R[7][2] <=> LoadoutEntity(p))
       /\ R[8][1] = "EvidenceSynthesisSkill" /\ (R[8][2] <=> EvidenceSynthesis(p))
       /\ R[9][1] = "CardMetaSkill" /\ (R[9][2] <=> CardMeta(p))
       /\ R[10][1] = "RAGEvidenceSkill" /\ (R[10][2] <=> RAGEvidence(p))
  BY DEF Registry
<1> HIDE DEF R
<1>2. PICK i \in 1 .. 11 : R[i][2] /\ (\A k \in 1 .. (i - 1) : ~R[k][2]) /\ Resolve(p) = R[i][1]
  <2>1. 11 \in Nat \ {0}
    OBVIOUS
  <2>2. \E i \in 1 .. 11 : /\ R[i][2]
                           /\ \A k \in 1 .. (i - 1) : ~R[k][2]
                           /\ FirstThat(R) = R[i][1]
    BY <1>1, <2>1, FirstHolds
  <2> QED
    BY <2>2 DEF Resolve, R
<1>3. /\ p.intent \in SupportedIntents /\ p.form \in NamedForms \cup {"ordinary"}
      /\ Len(<<>>) = 0 /\ DeckSize # 0
  BY TextAssumption DEF IsParse
<1>4. CASE i \in {1, 2, 3}
  BY <1>1, <1>10, <1>2, <1>3, <1>4 DEF UnsupportedClanWar, ExactDeckSkill, StructuredRelationship,
    SubqueryNeedsRag, RemovedIntents
<1>5. CASE i \in {4, 5, 6, 7}
  BY <1>1, <1>10, <1>2, <1>5 DEF DeckRanking, CardCompare, CardRankLookup, LoadoutEntity, SubqueryNeedsRag
<1>6. CASE i = 8
  BY <1>1, <1>10, <1>2, <1>6 DEF EvidenceSynthesis, SubqueryNeedsRag, OfText
<1>7. CASE i = 9
  BY <1>1, <1>10, <1>2, <1>7 DEF CardMeta, SubqueryNeedsRag
<1>8. CASE i = 10
  <2>1. RAGEvidence(p) /\ ~ExactDeckSkill(p) /\ Resolve(p) = "RAGEvidenceSkill"
    BY <1>1, <1>10, <1>2, <1>8
  <2> QED
    BY <1>3, <2>1 DEF RAGEvidence, ExactDeckSkill, SubqueryNeedsRag, OfText
<1>9. CASE i = 11
  <2>1. Resolve(p) = "none" /\ ~UnsupportedClanWar(p) /\ ~ExactDeckSkill(p)
    BY <1>1, <1>10, <1>2, <1>9
  <2>2. ~StructuredRelationship(p) /\ ~DeckRanking(p) /\ ~CardCompare(p) /\ ~CardRankLookup(p)
    BY <1>1, <1>10, <1>2, <1>9
  <2>3. ~LoadoutEntity(p) /\ ~EvidenceSynthesis(p) /\ ~CardMeta(p) /\ ~RAGEvidence(p)
    BY <1>1, <1>10, <1>2, <1>9
  <2>4. p.intent \in {"card_rank_lookup_query", "reject"} \/ (OfText(p) /\ ~Open(p))
    BY <1>3, <2>1, <2>2, <2>3 DEF UnsupportedClanWar, ExactDeckSkill, StructuredRelationship,
      DeckRanking, CardCompare, LoadoutEntity, EvidenceSynthesis, CardMeta, RAGEvidence,
      SupportedIntents, CardIntents, NamedForms, OfText
  <2> QED
    BY <2>1, <2>2, <2>4 DEF CardRankLookup, SubqueryNeedsRag, OfText
<1> QED
  BY <1>2, <1>4, <1>5, <1>6, <1>7, <1>8, <1>9

-----------------------------------------------------------------------------
(* Every rule gives a parse, of any text and any payload.                  *)

LEMMA BlankTypes ==
  ASSUME NEW text, NEW intent
  PROVE  /\ DOMAIN Blank(text, intent) = Fields /\ Blank(text, intent).intent = intent
         /\ Blank(text, intent).form \in NamedForms
<1>1. DetectEntityReference(text) \in NamedForms
  BY DEF DetectEntityReference, NamedForms
<1> QED
  BY <1>1 DEF Blank, Fields

(* What a change of the other fields leaves of a parse. *)
Shaped(p, intent) ==
  DOMAIN p = Fields /\ p.intent = intent /\ p.form \in NamedForms

LEMMA LocalFieldsTypes ==
  ASSUME NEW text, NEW intent, NEW b, Shaped(b, intent)
  PROVE  Shaped(LocalFields(text, intent, b), intent)
<1> DEFINE f == LocalFields(text, intent, b)
           deck == ExactDeck(text.names)
<1>1. CASE intent \in RemovedIntents
  BY <1>1 DEF LocalFields
<1>2. CASE intent = "deck_query"
  <2>1. intent \notin RemovedIntents
    BY <1>2 DEF RemovedIntents
  <2>2. CASE deck # <<>>
    <3> DEFINE top == IF Says(text, {"listing"}) THEN 5 ELSE None
    <3>1. f = [b EXCEPT !.deck = deck, !.metric = GetMetric(text), !.top = top]
      BY <1>2, <2>1, <2>2 DEF LocalFields
    <3> HIDE DEF deck, f, top
    <3> QED
      BY <3>1 DEF Shaped, Fields, f
  <2>3. CASE deck = <<>>
    <3> DEFINE top == IF LocalRank(text) = None /\ Says(text, {"listing"})
                      THEN Default(LocalTop(text), 5) ELSE LocalTop(text)
    <3>1. f = [b EXCEPT !.card = First(text.names), !.metric = GetMetric(text),
                 !.rank = LocalRank(text), !.top = top]
      BY <1>2, <2>1, <2>3 DEF LocalFields
    <3> HIDE DEF f, top
    <3> QED
      BY <3>1 DEF Shaped, Fields, f
  <2> QED
    BY <2>2, <2>3
<1>3. CASE intent = "card_compare_query"
  BY <1>3 DEF LocalFields, RemovedIntents, Shaped, Fields
<1>4. CASE intent = "card_cooccurrence_query"
  BY <1>4 DEF LocalFields, RemovedIntents, Shaped, Fields
<1>5. CASE intent = "card_query"
  BY <1>5 DEF LocalFields, RemovedIntents, Shaped, Fields
<1>6. CASE intent = "card_rank_lookup_query"
  BY <1>6 DEF LocalFields, RemovedIntents, Shaped, Fields
<1>7. CASE intent \notin RemovedIntents \cup
        {"deck_query", "card_compare_query", "card_cooccurrence_query", "card_query",
         "card_rank_lookup_query"}
  BY <1>7 DEF LocalFields, Shaped, Fields
<1> QED
  BY <1>1, <1>2, <1>3, <1>4, <1>5, <1>6, <1>7

LEMMA LocalParseTypes ==
  ASSUME NEW text
  PROVE  IsTextParse(LocalParse(text))
<1> DEFINE intent == LocalIntent(text)
           b == Blank(text, intent)
           f == LocalFields(text, intent, b)
<1>1. intent \in SupportedIntents
  BY LocalIntentTypes
<1>2. Shaped(b, intent)
  <2> HIDE DEF intent
  <2> QED
    BY BlankTypes DEF Shaped
<1>3. Shaped(f, intent)
  <2> HIDE DEF intent, b
  <2> QED
    BY <1>2, LocalFieldsTypes
<1>4. LocalParse(text) = [f EXCEPT !.confidence = Confidence(f, text)]
  BY DEF LocalParse, LocalParseAs, WithConfidence
<1> HIDE DEF f, intent
<1> QED
  BY <1>1, <1>3, <1>4 DEF Shaped, IsTextParse, IsParse, Fields

LEMMA NormalizedDeckTypes ==
  ASSUME NEW raw, NEW text, NEW b, NEW intent, Shaped(b, intent), NEW card, NEW given
  PROVE  Shaped(NormalizedDeck(raw, text, b, card, DeckOf(text, given)), intent)
<1> DEFINE deck == DeckOf(text, given)
           named == IF deck = <<>> /\ card = NoCard THEN ResolveCardName(text) ELSE card
           fields == [b EXCEPT !.deck = deck, !.metric = OrElse(raw.metric, "usage_rate")]
           top == IF /\ deck = <<>> /\ raw.rank = None
                     /\ named # NoCard \/ Says(text, {"popular_decks"})
                  THEN Default(Coerced(raw.top), 5) ELSE Coerced(raw.top)
           n == NormalizedDeck(raw, text, b, card, deck)
<1>2. n = fields \/ n = [fields EXCEPT !.card = named, !.rank = Coerced(raw.rank), !.top = top]
  BY DEF NormalizedDeck
<1> HIDE DEF deck, named, top, n
<1>3. Shaped(fields, intent)
  BY DEF Shaped, Fields
<1> HIDE DEF fields
<1>4. Shaped(n, intent)
  BY <1>2, <1>3 DEF Shaped, Fields
<1> QED
  BY <1>4 DEF n, deck

LEMMA NormalizedFieldsTypes ==
  ASSUME NEW raw, NEW text, NEW b, Shaped(b, raw.intent), NEW given, NEW card
  PROVE  IsTextParse(NormalizedFields(raw, text, b, given, card))
<1> DEFINE n == NormalizedFields(raw, text, b, given, card)
<1>1. CASE raw.intent \notin SupportedIntents
  BY <1>1, LocalParseTypes DEF NormalizedFields
<1>2. CASE raw.intent \in SupportedIntents
  <2> SUFFICES Shaped(n, raw.intent)
    BY <1>2 DEF Shaped, IsTextParse, IsParse
  <2>1. CASE raw.intent \in RemovedIntents \cup {"reject"}
    BY <1>2, <2>1 DEF NormalizedFields, Shaped, Fields
  <2>2. CASE raw.intent = "deck_query"
    BY <1>2, <2>2, NormalizedDeckTypes DEF NormalizedFields, RemovedIntents
  <2>3. CASE raw.intent = "card_query"
    <3> DEFINE metrics == NormalizeMetrics(raw.metrics, text, "card_query")
    <3>1. n = NormalizedCard(raw, text, b, card, metrics)
      BY <1>2, <2>3 DEF NormalizedFields, RemovedIntents
    <3> HIDE DEF n, metrics
    <3> QED
      BY <3>1 DEF NormalizedCard, Shaped, Fields, n
  <2>4. CASE raw.intent = "card_cooccurrence_query"
    <3>1. n = NormalizedCooccurrence(raw, text, b, given)
      BY <1>2, <2>4 DEF NormalizedFields, RemovedIntents
    <3> HIDE DEF n
    <3> QED
      BY <3>1 DEF NormalizedCooccurrence, Shaped, Fields, n
  <2>5. CASE raw.intent = "card_compare_query"
    <3> DEFINE both == BothNames(raw, text)
    <3>1. n = NormalizedCompare(raw, text, b, both)
      BY <1>2, <2>5 DEF NormalizedFields, RemovedIntents
    <3> HIDE DEF n, both
    <3> QED
      BY <3>1 DEF NormalizedCompare, Shaped, Fields, n
  <2>6. CASE raw.intent = "card_rank_lookup_query"
    BY <1>2, <2>6 DEF NormalizedFields, RemovedIntents, Shaped, Fields
  <2>7. CASE raw.intent = "meta_analysis_query"
    BY <1>2, <2>7 DEF NormalizedFields, RemovedIntents, Shaped, Fields
  <2> QED
    BY <1>2, <2>1, <2>2, <2>3, <2>4, <2>5, <2>6, <2>7 DEF SupportedIntents, CardIntents
<1> QED
  BY <1>1, <1>2

LEMMA NormalizeParseTypes ==
  ASSUME NEW raw, NEW text
  PROVE  IsTextParse(NormalizeParse(raw, text))
<1> DEFINE b == [Blank(text, raw.intent) EXCEPT !.confidence = "medium"]
<1>1. Shaped(b, raw.intent)
  BY BlankTypes DEF Shaped, Fields
<1> HIDE DEF b
<1>2. \A given, card : IsTextParse(NormalizedFields(raw, text, b, given, card))
  BY <1>1, NormalizedFieldsTypes
<1> QED
  BY <1>2 DEF NormalizeParse, b

LEMMA ChangedParses ==
  ASSUME NEW p, IsTextParse(p)
  PROVE  /\ \A metrics, card : IsTextParse(MetricsOfCard(p, metrics, card))
         /\ \A metrics : IsTextParse(Merged(p, metrics)) /\ Merged(p, metrics).intent = p.intent
                           /\ Merged(p, metrics).card = p.card
<1>1. ASSUME NEW metrics, NEW card PROVE IsTextParse(MetricsOfCard(p, metrics, card))
  BY DEF MetricsOfCard, IsTextParse, IsParse, Fields, SupportedIntents, CardIntents
<1>2. ASSUME NEW metrics
      PROVE  /\ IsTextParse(Merged(p, metrics)) /\ Merged(p, metrics).intent = p.intent
             /\ Merged(p, metrics).card = p.card
  BY DEF Merged, IsTextParse, IsParse, Fields
<1> QED
  BY <1>1, <1>2

-----------------------------------------------------------------------------
(* The questions of one utterance.                                         *)

(* What equal keys have in common. *)
LEMMA KeyParts ==
  ASSUME NEW p, NEW q, SemanticKey(p) = SemanticKey(q)
  PROVE  /\ p.intent = q.intent
         /\ p.intent = "meta_analysis_query" => p.analysis = q.analysis
         /\ p.intent # "meta_analysis_query" =>
              /\ p.card = q.card /\ p.metrics = q.metrics /\ p.names = q.names /\ p.deck = q.deck
              /\ p.rank = q.rank /\ p.top = q.top /\ p.form = q.form
<1>1. SemanticKey(p)[1] = p.intent /\ SemanticKey(q)[1] = q.intent
  BY DEF SemanticKey
<1>2. p.intent = q.intent
  BY <1>1
<1>3. CASE p.intent = "meta_analysis_query"
  <2>1. SemanticKey(p)[2] = p.analysis /\ SemanticKey(q)[2] = q.analysis
    BY <1>2, <1>3 DEF SemanticKey
  <2> QED
    BY <1>2, <1>3, <2>1
<1>4. CASE p.intent # "meta_analysis_query"
  <2> DEFINE k == SemanticKey(p)
             l == SemanticKey(q)
  <2>1. /\ k[2] = p.card /\ k[3] = p.metrics /\ k[4] = p.names /\ k[5] = p.deck
        /\ k[6] = p.rank /\ k[7] = p.top /\ k[8] = p.form
    BY <1>2, <1>4 DEF SemanticKey
  <2>2. /\ l[2] = q.card /\ l[3] = q.metrics /\ l[4] = q.names /\ l[5] = q.deck
        /\ l[6] = q.rank /\ l[7] = q.top /\ l[8] = q.form
    BY <1>2, <1>4 DEF SemanticKey
  <2>3. k = l
    OBVIOUS
  <2> HIDE DEF k, l
  <2> QED
    BY <1>2, <1>4, <2>1, <2>2, <2>3
<1> QED
  BY <1>3, <1>4

LEMMA KeyMade ==
  ASSUME NEW p, NEW q, p.intent = q.intent,
         p.intent = "meta_analysis_query" => p.analysis = q.analysis,
         p.intent # "meta_analysis_query" =>
              /\ p.card = q.card /\ p.metrics = q.metrics /\ p.names = q.names /\ p.deck = q.deck
              /\ p.rank = q.rank /\ p.top = q.top /\ p.form = q.form
  PROVE  SemanticKey(p) = SemanticKey(q)
BY DEF SemanticKey

LEMMA OneCardKept ==
  ASSUME NEW p, NEW q, SemanticKey(p) = SemanticKey(q)
  PROVE  /\ OfKnownCard(p) <=> OfKnownCard(q)
         /\ OfKnownCard(p) => p.card = q.card
BY KeyParts DEF OfKnownCard

LEMMA FoundDistinct ==
  ASSUME NEW found, IsFound(found)
  PROVE  \A i, j \in DOMAIN found.subs :
           SemanticKey(found.subs[i]) = SemanticKey(found.subs[j]) => i = j
<1>1. SUFFICES ASSUME NEW i \in DOMAIN found.subs, NEW j \in DOMAIN found.subs,
                      SemanticKey(found.subs[i]) = SemanticKey(found.subs[j])
               PROVE  i = j
  OBVIOUS
<1>2. CASE OfKnownCard(found.subs[i])
  <2>1. OfKnownCard(found.subs[j]) /\ found.subs[i].card = found.subs[j].card
    BY <1>1, <1>2, OneCardKept
  <2> QED
    BY <1>2, <2>1 DEF IsFound, OnePerCard
<1>3. CASE ~OfKnownCard(found.subs[i])
  BY <1>1, <1>3 DEF IsFound
<1> QED
  BY <1>2, <1>3

LEMMA MergeKeeps ==
  ASSUME NEW found, IsFound(found), NEW i \in DOMAIN found.subs, OfKnownCard(found.subs[i]),
         NEW metrics
  PROVE  IsFound([found EXCEPT !.subs[i] = Merged(@, metrics)])
<1> DEFINE s == found.subs
           m == Merged(s[i], metrics)
           t == [s EXCEPT ![i] = m]
           new == [found EXCEPT !.subs[i] = Merged(@, metrics)]
<1>1. DOMAIN new = {"subs", "seen"} /\ new.subs = t /\ new.seen = found.seen
  BY DEF IsFound
<1>2. IsSequence(s) /\ Len(s) \in 0 .. MaxSubqueries
  BY DEF IsFound
<1> HIDE DEF s
<1>3. Len(s) \in Nat /\ DOMAIN s = 1 .. Len(s) /\ s = [k \in 1 .. Len(s) |-> s[k]]
  BY <1>2, SequenceFacts
<1>4. IsTextParse(m) /\ m.intent = s[i].intent /\ m.card = s[i].card
  BY ChangedParses DEF IsFound, s
<1> HIDE DEF m
<1>5. t = [k \in 1 .. Len(s) |-> t[k]] /\ DOMAIN t = 1 .. Len(s)
  BY <1>3
<1>6. t[i] = m /\ \A k \in 1 .. Len(s) : k # i => t[k] = s[k]
  BY <1>3 DEF s
<1> HIDE DEF t, new
<1>7. IsSequence(t) /\ Len(t) = Len(s)
  BY <1>3, <1>5, MappedSequence
<1>8. \A k \in DOMAIN t : IsTextParse(t[k]) /\ t[k].intent = s[k].intent /\ t[k].card = s[k].card
  BY <1>3, <1>4, <1>5, <1>6 DEF IsFound, s
<1>9. \A k \in DOMAIN t : OfKnownCard(t[k]) <=> OfKnownCard(s[k])
  BY <1>8 DEF OfKnownCard
<1>10. OnePerCard(t)
  <2>1. OnePerCard(s)
    BY DEF IsFound, s
  <2> QED
    BY <1>3, <1>5, <1>8, <1>9, <2>1 DEF OnePerCard
<1>11. ASSUME NEW k \in DOMAIN t, ~OfKnownCard(t[k])
       PROVE  /\ SemanticKey(t[k]) \in found.seen
              /\ \A j \in DOMAIN t : SemanticKey(t[j]) = SemanticKey(t[k]) => k = j
  <2>1. k # i /\ t[k] = s[k] /\ ~OfKnownCard(s[k]) /\ k \in DOMAIN s
    BY <1>3, <1>5, <1>6, <1>9, <1>11 DEF s
  <2>2. ASSUME NEW j \in DOMAIN t, SemanticKey(t[j]) = SemanticKey(t[k]) PROVE k = j
    <3>1. ~OfKnownCard(t[j])
      BY <1>11, <2>2, OneCardKept
    <3>2. j # i /\ t[j] = s[j] /\ j \in DOMAIN s
      BY <1>3, <1>5, <1>6, <1>9, <3>1 DEF s
    <3> QED
      BY <2>1, <2>2, <3>2 DEF IsFound, s
  <2> QED
    BY <2>1, <2>2 DEF IsFound, s
<1>12. \A k \in DOMAIN t : IsTextParse(t[k]) /\ t[k].intent # "reject"
  BY <1>3, <1>5, <1>8 DEF IsFound, s
<1>13. IsFound(new)
  BY <1>1, <1>2, <1>7, <1>10, <1>11, <1>12 DEF IsFound
<1> QED
  BY <1>13 DEF new

LEMMA AppendKeeps ==
  ASSUME NEW found, IsFound(found), NEW p, IsTextParse(p), p.intent # "reject",
         SemanticKey(p) \notin found.seen, Len(found.subs) < MaxSubqueries,
         OfKnownCard(p) => \A i \in DOMAIN found.subs :
           ~(OfKnownCard(found.subs[i]) /\ found.subs[i].card = p.card)
  PROVE  IsFound([subs |-> Append(found.subs, p), seen |-> found.seen \cup {SemanticKey(p)}])
<1> DEFINE s == found.subs
           N == Len(s)
           t == Append(s, p)
           seen == found.seen \cup {SemanticKey(p)}
           new == [subs |-> t, seen |-> seen]
<1>1. DOMAIN new = {"subs", "seen"} /\ new.subs = t /\ new.seen = seen
  OBVIOUS
<1>2. IsSequence(s) /\ N \in 0 .. MaxSubqueries /\ N < MaxSubqueries /\ MaxSubqueries \in Nat
  BY TextAssumption DEF IsFound
<1> HIDE DEF s
<1>3. N \in Nat /\ DOMAIN s = 1 .. N
  BY <1>2, SequenceFacts
<1>4. /\ IsSequence(t) /\ Len(t) = N + 1 /\ DOMAIN t = 1 .. (N + 1)
      /\ t[N + 1] = p /\ \A i \in 1 .. N : t[i] = s[i]
  BY <1>2, <1>3, AppendedSequence
<1> HIDE DEF t, N, seen, new
<1>5. \A i \in 1 .. N : IsTextParse(s[i]) /\ s[i].intent # "reject"
  BY <1>3 DEF IsFound, s
<1>6. \A i \in DOMAIN t : IsTextParse(t[i]) /\ t[i].intent # "reject"
  BY <1>3, <1>4, <1>5
<1>7. \A i \in 1 .. N : OfKnownCard(p) => ~(OfKnownCard(s[i]) /\ s[i].card = p.card)
  BY <1>3 DEF s
<1>8. OnePerCard(s)
  BY DEF IsFound, s
<1>9. OnePerCard(t)
  <2> SUFFICES ASSUME NEW i \in DOMAIN t, NEW j \in DOMAIN t,
                      OfKnownCard(t[i]), OfKnownCard(t[j]), t[i].card = t[j].card
               PROVE  i = j
    BY DEF OnePerCard
  <2>1. CASE i \in 1 .. N /\ j \in 1 .. N
    BY <1>3, <1>4, <1>8, <2>1 DEF OnePerCard
  <2>2. CASE i = N + 1 /\ j \in 1 .. N
    BY <1>4, <1>7, <2>2
  <2>3. CASE j = N + 1 /\ i \in 1 .. N
    BY <1>4, <1>7, <2>3
  <2> QED
    BY <1>3, <1>4, <2>1, <2>2, <2>3
<1>10. \A i \in 1 .. N : ~OfKnownCard(s[i]) =>
         /\ SemanticKey(s[i]) \in found.seen
         /\ \A j \in 1 .. N : SemanticKey(s[j]) = SemanticKey(s[i]) => i = j
  BY <1>3 DEF IsFound, s
<1>11. SemanticKey(p) \notin found.seen
  OBVIOUS
<1>12. ASSUME NEW i \in DOMAIN t, ~OfKnownCard(t[i])
       PROVE  /\ SemanticKey(t[i]) \in seen
              /\ \A j \in DOMAIN t : SemanticKey(t[j]) = SemanticKey(t[i]) => i = j
  <2>1. CASE i = N + 1
    <3>1. t[i] = p /\ SemanticKey(t[i]) \in seen
      BY <1>4, <2>1 DEF seen
    <3>2. ASSUME NEW j \in DOMAIN t, SemanticKey(t[j]) = SemanticKey(t[i]), j # i PROVE FALSE
      <4>1. j \in 1 .. N /\ t[j] = s[j]
        BY <1>3, <1>4, <2>1, <3>2
      <4>2. ~OfKnownCard(s[j])
        BY <1>12, <3>2, <4>1, OneCardKept
      <4> QED
        BY <1>10, <1>11, <3>1, <3>2, <4>1, <4>2
    <3> QED
      BY <3>1, <3>2
  <2>2. CASE i \in 1 .. N
    <3>1. t[i] = s[i] /\ SemanticKey(s[i]) \in found.seen
      BY <1>4, <1>10, <1>12, <2>2
    <3>2. ASSUME NEW j \in DOMAIN t, SemanticKey(t[j]) = SemanticKey(t[i]) PROVE i = j
      <4>1. j # N + 1
        BY <1>4, <1>11, <3>1, <3>2
      <4>2. j \in 1 .. N /\ t[j] = s[j]
        BY <1>3, <1>4, <4>1
      <4> QED
        BY <1>10, <1>12, <2>2, <3>1, <3>2, <4>2
    <3> QED
      BY <3>1, <3>2 DEF seen
  <2> QED
    BY <1>3, <1>4, <2>1, <2>2
<1>13. Len(t) \in 0 .. MaxSubqueries
  BY <1>2, <1>4
<1>14. IsFound(new)
  BY <1>1, <1>4, <1>6, <1>9, <1>12, <1>13 DEF IsFound
<1> QED
  BY <1>14 DEF new, t, seen, s

LEMMA AddCandidateKeeps ==
  ASSUME NEW found, IsFound(found), NEW p, IsTextParse(p)
  PROVE  IsFound(AddCandidate(found, p))
<1> DEFINE same == SameCard(found.subs, p)
           key == SemanticKey(p)
<1>1. CASE p.intent = "reject"
  BY <1>1 DEF AddCandidate
<1>2. CASE p.intent # "reject" /\ same # {}
  <2> DEFINE i == CHOOSE i \in same : \A j \in same : i <= j
             metrics == Distinct(found.subs[i].metrics \o p.metrics)
  <2>1. same \in SUBSET Nat
    <3>1. DOMAIN found.subs = 1 .. Len(found.subs) /\ Len(found.subs) \in Nat
      BY SequenceFacts DEF IsFound
    <3> QED
      BY <3>1 DEF SameCard
  <2> HIDE DEF same
  <2>2. \E x \in same : \A j \in same : x <= j
    BY <1>2, <2>1, LeastIsOne
  <2>3. i \in same
    BY <2>2
  <2>4. i \in DOMAIN found.subs /\ OfKnownCard(found.subs[i])
    BY <2>3 DEF same, SameCard, OfKnownCard
  <2>5. AddCandidate(found, p) = [found EXCEPT !.subs[i] = Merged(@, metrics)]
    BY <1>2 DEF AddCandidate, same
  <2> HIDE DEF i, metrics
  <2> QED
    BY <2>4, <2>5, MergeKeeps
<1>3. CASE p.intent # "reject" /\ same = {} /\ key \notin found.seen /\ Len(found.subs) < MaxSubqueries
  <2>1. ASSUME OfKnownCard(p), NEW i \in DOMAIN found.subs
        PROVE  ~(OfKnownCard(found.subs[i]) /\ found.subs[i].card = p.card)
    BY <1>3, <2>1 DEF SameCard, OfKnownCard
  <2>2. Len(found.subs) \in Nat /\ MaxSubqueries \in Nat
    BY TextAssumption DEF IsFound
  <2>3. AddCandidate(found, p) = [subs |-> Append(found.subs, p), seen |-> found.seen \cup {key}]
    BY <1>3, <2>2 DEF AddCandidate
  <2> QED
    BY <1>3, <2>1, <2>3, AppendKeeps
<1>4. CASE same = {} /\ (key \in found.seen \/ ~(Len(found.subs) < MaxSubqueries))
  <2>1. Len(found.subs) \in Nat /\ MaxSubqueries \in Nat
    BY TextAssumption DEF IsFound
  <2>2. key \in found.seen \/ Len(found.subs) >= MaxSubqueries
    BY <1>4, <2>1
  <2>3. AddCandidate(found, p) = found
    BY <1>4, <2>2 DEF AddCandidate
  <2> QED
    BY <2>3
<1> QED
  BY <1>1, <1>2, <1>3, <1>4

LEMMA AddAllKeeps ==
  ASSUME NEW found, IsFound(found), NEW parses, IsSequence(parses),
         \A i \in DOMAIN parses : IsTextParse(parses[i])
  PROVE  IsFound(AddAll(found, parses))
<1> DEFINE N == Len(parses)
<1>1. N \in Nat /\ DOMAIN parses = 1 .. N
  BY SequenceFacts
<1>2. PICK f : /\ f[0] = found
               /\ \A n \in 1 .. N : f[n] = AddCandidate(f[n - 1], parses[n])
               /\ AddAll(found, parses) = f[N]
  BY <1>1, AddAllSolved
<1> DEFINE X == {n \in 0 .. N : IsFound(f[n])}
<1> HIDE DEF N
<1>3. 0 \in X
  BY <1>1, <1>2
<1>4. ASSUME NEW n \in 1 .. N, n - 1 \in X PROVE n \in X
  <2>1. IsFound(f[n - 1]) /\ f[n] = AddCandidate(f[n - 1], parses[n]) /\ IsTextParse(parses[n])
    BY <1>1, <1>2, <1>4
  <2>2. IsFound(f[n])
    BY <2>1, AddCandidateKeeps
  <2> QED
    BY <1>1, <2>2
<1>5. N \in X
  <2> HIDE DEF X
  <2> QED
    BY <1>1, <1>3, <1>4, Reaches
<1> QED
  BY <1>2, <1>5

LEMMA CandidatesTypes ==
  ASSUME NEW text, IsSequence(text.names), NEW p, IsTextParse(p), NEW last
  PROVE  /\ IsSequence(SegmentCandidates(text, p, last))
         /\ \A i \in DOMAIN SegmentCandidates(text, p, last) :
              IsTextParse(SegmentCandidates(text, p, last)[i])
<1> DEFINE c == SegmentCandidates(text, p, last)
           metrics == ExtractMetrics(text)
           other == MetricsOfCard(LocalParse(WithCard(text, last)), metrics, last)
<1>1. CASE NamesMetricsOfCards(text, p)
  <2> DEFINE N == Len(text.names)
  <2>1. N \in Nat /\ DOMAIN text.names = 1 .. N
    BY SequenceFacts
  <2>2. c = [i \in 1 .. N |-> MetricsOfCard(p, metrics, text.names[i])]
    BY <1>1, <2>1 DEF SegmentCandidates
  <2> HIDE DEF c, metrics, N
  <2>3. c = [i \in 1 .. N |-> c[i]] /\ \A i \in 1 .. N : IsTextParse(c[i])
    BY <2>2, ChangedParses
  <2>4. IsSequence(c) /\ DOMAIN c = 1 .. N
    BY <2>1, <2>3, MappedSequence
  <2> QED
    BY <2>3, <2>4 DEF c
<1>2. CASE ~NamesMetricsOfCards(text, p)
  <2>1. \E e : c = <<e>> /\ IsTextParse(e)
    <3>1. c = <<other>> \/ c = <<p>>
      BY <1>2 DEF SegmentCandidates
    <3>2. IsTextParse(other)
      BY LocalParseTypes, ChangedParses
    <3> HIDE DEF c, other
    <3> QED
      BY <3>1, <3>2
  <2>2. PICK e : c = <<e>> /\ IsTextParse(e)
    BY <2>1
  <2> HIDE DEF c
  <2>3. <<e>> \in Seq({e}) /\ DOMAIN <<e>> = {1} /\ <<e>>[1] = e
    OBVIOUS
  <2>4. IsSequence(<<e>>)
    BY <2>3, SomeSequence
  <2>5. IsSequence(c) /\ \A i \in DOMAIN c : IsTextParse(c[i])
    BY <2>2, <2>3, <2>4
  <2> QED
    BY <2>5 DEF c
<1> QED
  BY <1>1, <1>2

LEMMA SplitTypes ==
  ASSUME NEW texts, IsSequence(texts), \A i \in DOMAIN texts : IsSequence(texts[i].names)
  PROVE  IsFound(SplitCandidates(texts))
<1> DEFINE N == Len(texts)
<1>1. N \in Nat /\ DOMAIN texts = 1 .. N
  BY SequenceFacts
<1>2. PICK f : /\ f[0] = NothingRead
               /\ \A n \in 1 .. N : f[n] = ReadText(f[n - 1], texts[n])
               /\ SplitCandidates(texts) = f[N].found
  BY <1>1, SplitSolved
<1> DEFINE X == {n \in 0 .. N : IsFound(f[n].found)}
<1> HIDE DEF N
<1>3. 0 \in X
  <2>1. <<>> \in Seq({}) /\ Len(<<>>) = 0 /\ DOMAIN <<>> = {}
    OBVIOUS
  <2>2. IsSequence(<<>>)
    BY <2>1, SomeSequence
  <2>3. f[0].found = [subs |-> <<>>, seen |-> {}]
    BY <1>2 DEF NothingRead
  <2>4. IsFound([subs |-> <<>>, seen |-> {}])
    BY <2>1, <2>2, TextAssumption DEF IsFound, OnePerCard
  <2> QED
    BY <1>1, <2>3, <2>4
<1>4. ASSUME NEW n \in 1 .. N, n - 1 \in X PROVE n \in X
  <2> DEFINE read == f[n - 1]
             text == texts[n]
             c == SegmentCandidates(text, LocalParse(text), read.last)
  <2>1. IsFound(read.found) /\ f[n] = ReadText(read, text) /\ IsSequence(text.names)
    BY <1>1, <1>2, <1>4
  <2>2. f[n].found = AddAll(read.found, c)
    BY <2>1 DEF ReadText
  <2> HIDE DEF read, text
  <2>3. IsSequence(c) /\ \A i \in DOMAIN c : IsTextParse(c[i])
    BY <2>1, LocalParseTypes, CandidatesTypes
  <2> HIDE DEF c
  <2>4. IsFound(f[n].found)
    BY <2>1, <2>2, <2>3, AddAllKeeps
  <2> QED
    BY <1>1, <2>4
<1>5. N \in X
  <2> HIDE DEF X
  <2> QED
    BY <1>1, <1>3, <1>4, Reaches
<1> QED
  BY <1>2, <1>5

-----------------------------------------------------------------------------
(* The parts of a query.                                                   *)

Parts(subs) ==
  /\ IsSequence(subs) /\ Len(subs) \in 0 .. MaxSubqueries
  /\ \A i \in DOMAIN subs : IsTextParse(subs[i])
  /\ \A i, j \in DOMAIN subs : SemanticKey(subs[i]) = SemanticKey(subs[j]) => i = j

LEMMA PartsWithout ==
  ASSUME NEW subs, Parts(subs), NEW dropped
  PROVE  /\ Parts(Without(subs, dropped))
         /\ OnePerCard(subs) => OnePerCard(Without(subs, dropped))
<1> DEFINE S == Range(subs)
           N == Len(subs)
           r == Without(subs, dropped)
<1>1. subs \in Seq(S) /\ DOMAIN subs = 1 .. N /\ N \in 0 .. MaxSubqueries
  BY SequenceFacts DEF Parts
<1>2. PICK at : Leaves(r, at, S, subs, dropped, N)
  <2> HIDE DEF S
  <2> QED
    BY <1>1, WithoutTypes
<1> HIDE DEF S, N, r
<1>3. /\ r \in Seq(S) /\ Len(r) <= N /\ at \in [1 .. Len(r) -> (1 .. N) \ dropped]
      /\ \A i, j \in 1 .. Len(r) : at[i] = at[j] => i = j
      /\ \A i \in 1 .. Len(r) : r[i] = subs[at[i]]
  BY <1>2 DEF Leaves
<1>4. IsSequence(r) /\ Len(r) \in Nat /\ DOMAIN r = 1 .. Len(r)
  BY <1>3, SomeSequence
<1>5. \A i \in DOMAIN r : at[i] \in DOMAIN subs /\ r[i] = subs[at[i]]
  BY <1>1, <1>3, <1>4
<1>6. \A i \in DOMAIN r : IsTextParse(r[i])
  BY <1>5 DEF Parts
<1>7. \A i, j \in DOMAIN r : SemanticKey(r[i]) = SemanticKey(r[j]) => i = j
  BY <1>3, <1>4, <1>5 DEF Parts
<1>8. Len(r) \in 0 .. MaxSubqueries
  BY <1>1, <1>3, <1>4, TextAssumption
<1>9. OnePerCard(subs) => OnePerCard(r)
  BY <1>3, <1>4, <1>5 DEF OnePerCard
<1>10. Parts(r)
  BY <1>4, <1>6, <1>7, <1>8 DEF Parts
<1> QED
  BY <1>9, <1>10 DEF r

LEMMA SingleTypes ==
  ASSUME NEW p, IsTextParse(p)
  PROVE  /\ IsTextQuery(Single(p)) /\ OnePerCard(Single(p).subs)
         /\ Single(p).intent = p.intent /\ Single(p).confidence = p.confidence
<1> DEFINE q == Single(p)
<1>1. /\ DOMAIN q = {"intent", "subs", "source", "confidence"} /\ q.subs = <<p>>
      /\ q.intent = p.intent /\ q.confidence = p.confidence
  BY DEF Single
<1> HIDE DEF q
<1>2. <<p>> \in Seq({p}) /\ DOMAIN <<p>> = {1} /\ <<p>>[1] = p /\ Len(<<p>>) = 1
  OBVIOUS
<1>3. IsSequence(<<p>>) /\ 1 \in 1 .. MaxSubqueries
  <2>1. IsSequence(<<p>>)
    BY <1>2, SomeSequence
  <2>2. 1 \in 1 .. MaxSubqueries
    BY TextAssumption
  <2> QED
    BY <2>1, <2>2
<1>4. OnePerCard(q.subs)
  BY <1>1, <1>2 DEF OnePerCard
<1>5. IsInjective(Keys(q))
  BY <1>1, <1>2 DEF IsInjective, Keys
<1>6. IsTextQuery(q)
  BY <1>1, <1>2, <1>3, <1>5 DEF IsTextQuery, IsTextParse, IsQuery
<1> QED
  BY <1>1, <1>4, <1>6 DEF q

LEMMA QueryOfTypes ==
  ASSUME NEW subs, Parts(subs), NEW full, IsTextParse(full)
  PROVE  /\ IsTextQuery(QueryOf(subs, full))
         /\ OnePerCard(subs) => OnePerCard(QueryOf(subs, full).subs)
<1>1. Len(subs) \in Nat /\ DOMAIN subs = 1 .. Len(subs)
  BY SequenceFacts DEF Parts
<1>2. CASE subs = <<>>
  BY <1>2, SingleTypes DEF QueryOf
<1>3. CASE subs # <<>> /\ Len(subs) = 1
  <2>1. IsTextParse(subs[1])
    BY <1>1, <1>3 DEF Parts
  <2> QED
    BY <1>3, <2>1, SingleTypes DEF QueryOf
<1>4. CASE subs # <<>> /\ Len(subs) # 1
  <2> DEFINE q == Multi(subs)
  <2>1. QueryOf(subs, full) = q
    BY <1>4 DEF QueryOf
  <2>2. /\ DOMAIN q = {"intent", "subs", "source", "confidence"} /\ q.subs = subs
        /\ q.intent = "multi_intent"
    BY DEF Multi
  <2> HIDE DEF q
  <2>3. Len(subs) # 0
    <3>1. subs \in Seq(Range(subs))
      BY SequenceFacts DEF Parts
    <3> HIDE DEF Range
    <3> QED
      BY <1>4, <3>1
  <2>4. Len(subs) \in 1 .. MaxSubqueries
    BY <1>1, <2>3, TextAssumption DEF Parts
  <2>5. IsInjective(Keys(q))
    BY <2>2 DEF IsInjective, Keys, Parts
  <2>6. IsTextQuery(q)
    BY <2>2, <2>4, <2>5 DEF IsTextQuery, IsTextParse, IsQuery, Parts
  <2> QED
    BY <2>1, <2>2, <2>6
<1> QED
  BY <1>2, <1>3, <1>4

LEMMA AskedByTypes ==
  ASSUME NEW split, IsFound(split), NEW full, IsTextParse(full), NEW text
  PROVE  /\ IsTextQuery(AskedBy(split, full, text))
         /\ OnePerCard(AskedBy(split, full, text).subs)
<1> DEFINE with == WithFull(split, full)
           subs == UnlessInMeta(with, text)
<1>1. ASSUME NEW found, IsFound(found) PROVE Parts(found.subs) /\ OnePerCard(found.subs)
  BY <1>1, FoundDistinct DEF IsFound, Parts
<1>2. Parts(with) /\ OnePerCard(with)
  BY <1>1, AddCandidateKeeps DEF WithFull
<1> HIDE DEF with
<1>3. Parts(subs) /\ OnePerCard(subs)
  BY <1>2, PartsWithout DEF UnlessInMeta
<1>4. AskedBy(split, full, text) = QueryOf(subs, full)
  BY DEF AskedBy, with
<1> HIDE DEF subs
<1> QED
  BY <1>3, <1>4, QueryOfTypes

LEMMA LocalQueryTypes ==
  ASSUME NEW segments, IsSequence(segments)
  PROVE  IsTextQuery(LocalQuery(segments)) /\ OnePerCard(LocalQuery(segments).subs)
<1> DEFINE N == Len(segments)
           texts == [i \in DOMAIN segments |-> TextOf(segments[i])]
           whole == Whole(segments)
<1>1. N \in Nat /\ DOMAIN segments = 1 .. N
  BY SequenceFacts
<1>2. texts = [i \in 1 .. N |-> TextOf(segments[i])]
  BY <1>1
<1> HIDE DEF texts, whole, N
<1>3. texts = [i \in 1 .. N |-> texts[i]] /\ \A i \in 1 .. N : IsSequence(texts[i].names)
  BY <1>2, TextNames
<1>4. IsSequence(texts) /\ DOMAIN texts = 1 .. N
  BY <1>1, <1>3, MappedSequence
<1>5. IsFound(SplitCandidates(texts))
  BY <1>3, <1>4, SplitTypes
<1>6. LocalQuery(segments) = AskedBy(SplitCandidates(texts), LocalParse(whole), whole)
  BY DEF LocalQuery, LocalQueryOf, texts, whole
<1> QED
  BY <1>5, <1>6, LocalParseTypes, AskedByTypes

LEMMA KeptTypes ==
  ASSUME NEW parses, IsSequence(parses), Len(parses) <= MaxSubqueries,
         \A i \in DOMAIN parses : IsTextParse(parses[i])
  PROVE  Parts(Kept(parses))
<1> DEFINE S == Range(parses)
           N == Len(parses)
           dropped == Repeated(parses) \cup {i \in DOMAIN parses : parses[i].intent = "reject"}
           r == Kept(parses)
<1>1. parses \in Seq(S) /\ DOMAIN parses = 1 .. N /\ N \in Nat /\ N <= MaxSubqueries
  BY SequenceFacts
<1>2. r = Without(parses, dropped)
  BY DEF Kept
<1> HIDE DEF S, N, r, dropped
<1>3. PICK at : Leaves(r, at, S, parses, dropped, N)
  BY <1>1, <1>2, WithoutTypes DEF N
<1>4. /\ r \in Seq(S) /\ Len(r) <= N /\ at \in [1 .. Len(r) -> (1 .. N) \ dropped]
      /\ \A i, j \in 1 .. Len(r) : at[i] = at[j] => i = j
      /\ \A i \in 1 .. Len(r) : r[i] = parses[at[i]]
  BY <1>3 DEF Leaves
<1>5. IsSequence(r) /\ Len(r) \in Nat /\ DOMAIN r = 1 .. Len(r)
  BY <1>4, SomeSequence
<1>6. \A i \in DOMAIN r : at[i] \in 1 .. N /\ at[i] \notin Repeated(parses) /\ r[i] = parses[at[i]]
  BY <1>4, <1>5 DEF dropped
<1>7. \A i \in DOMAIN r : IsTextParse(r[i])
  BY <1>1, <1>6
<1>8. ASSUME NEW i \in DOMAIN r, NEW j \in DOMAIN r, at[i] < at[j]
      PROVE  SemanticKey(r[i]) # SemanticKey(r[j])
  <2>1. at[i] \in 1 .. (at[j] - 1) /\ at[j] \in DOMAIN parses
    BY <1>1, <1>6, <1>8
  <2>2. SemanticKey(parses[at[i]]) # SemanticKey(parses[at[j]])
    BY <1>6, <2>1 DEF Repeated
  <2> QED
    BY <1>6, <2>2
<1>9. ASSUME NEW i \in DOMAIN r, NEW j \in DOMAIN r, SemanticKey(r[i]) = SemanticKey(r[j])
      PROVE  i = j
  <2>1. ~(at[i] < at[j]) /\ ~(at[j] < at[i])
    BY <1>8, <1>9
  <2>2. at[i] \in 1 .. N /\ at[j] \in 1 .. N
    BY <1>6
  <2>3. at[i] = at[j]
    BY <1>1, <2>1, <2>2
  <2> QED
    BY <1>4, <1>5, <2>3
<1>10. Len(r) \in 0 .. MaxSubqueries
  BY <1>1, <1>4, <1>5, TextAssumption
<1>11. Parts(r)
  BY <1>5, <1>7, <1>9, <1>10 DEF Parts
<1> QED
  BY <1>11 DEF r

LEMMA NormalizeQueryTypes ==
  ASSUME NEW payload, IsSequence(payload.subs), NEW segments, IsSequence(segments)
  PROVE  IsTextQuery(NormalizeQuery(payload, segments))
<1> DEFINE whole == Whole(segments)
           subs == Upto(payload.subs, MaxSubqueries)
           all == NormalizeAll(subs, whole)
           kept == Kept(all)
<1>1. CASE payload.intent # "multi_intent"
  BY <1>1, NormalizeParseTypes, SingleTypes DEF NormalizeQuery
<1>2. CASE payload.intent = "multi_intent"
  <2> DEFINE N == Len(payload.subs)
             n == IF MaxSubqueries < N THEN MaxSubqueries ELSE N
  <2>1. payload.subs \in Seq(Range(payload.subs)) /\ N \in Nat
    BY SequenceFacts
  <2>2. n \in Nat /\ n <= MaxSubqueries /\ n <= N
    BY <2>1, TextAssumption
  <2>3. subs = SubSeq(payload.subs, 1, n)
    BY DEF Upto
  <2> HIDE DEF subs, n
  <2>4. DOMAIN subs = 1 .. n
    <3> HIDE DEF Range
    <3> QED
      BY <2>1, <2>2, <2>3
  <2>5. all = [i \in 1 .. n |-> NormalizeParse(subs[i], whole)]
    BY <2>4 DEF NormalizeAll
  <2> HIDE DEF all, whole
  <2>6. all = [i \in 1 .. n |-> all[i]] /\ \A i \in 1 .. n : IsTextParse(all[i])
    BY <2>5, NormalizeParseTypes
  <2>7. IsSequence(all) /\ Len(all) = n /\ DOMAIN all = 1 .. n
    BY <2>2, <2>6, MappedSequence
  <2>8. Parts(kept)
    BY <2>2, <2>6, <2>7, KeptTypes
  <2>9. NormalizeQuery(payload, segments) = KeptOrLocal(kept, segments)
    BY <1>2 DEF NormalizeQuery, all, whole, subs
  <2> HIDE DEF kept
  <2>10. CASE kept = <<>>
    BY <2>9, <2>10, LocalQueryTypes DEF KeptOrLocal
  <2>11. CASE kept # <<>>
    <3>1. kept \in Seq(Range(kept)) /\ DOMAIN kept = 1 .. Len(kept)
      BY <2>8, SequenceFacts DEF Parts
    <3>2. 1 \in DOMAIN kept
      <4> HIDE DEF Range
      <4> QED
        BY <2>11, <3>1
    <3>3. IsTextParse(kept[1])
      BY <2>8, <3>2 DEF Parts
    <3> QED
      BY <2>8, <2>9, <2>11, <3>3, QueryOfTypes DEF KeptOrLocal
  <2> QED
    BY <2>10, <2>11
<1> QED
  BY <1>1, <1>2

-----------------------------------------------------------------------------
(* The parse that is answered.                                             *)

AskedOf(q) == [i \in DOMAIN q.subs |-> Asks(q.subs[i])]

(* What ConfidentParseKept says of a local parse and the one answered. *)
KeptAs(l, q) ==
  /\ l.intent = "multi_intent" => AskedOf(q) = AskedOf(l)
  /\ l.intent # "reject" /\ l.confidence = "high" => q.intent = l.intent

LEMMA SomeQuery ==
  ASSUME NEW q, IsQuery(q)
  PROVE  q # NoQuery
BY DEF IsQuery, IsParse, NoQuery, SupportedIntents, RemovedIntents, CardIntents

LEMMA KeysAsk ==
  ASSUME NEW q, NEW r, Keys(q) = Keys(r)
  PROVE  AskedOf(q) = AskedOf(r)
<1>1. DOMAIN q.subs = DOMAIN r.subs
  <2>1. DOMAIN Keys(q) = DOMAIN q.subs /\ DOMAIN Keys(r) = DOMAIN r.subs
    BY DEF Keys
  <2> QED
    BY <2>1
<1>2. ASSUME NEW i \in DOMAIN q.subs PROVE Asks(q.subs[i]) = Asks(r.subs[i])
  <2>1. Keys(q)[i] = SemanticKey(q.subs[i]) /\ Keys(r)[i] = SemanticKey(r.subs[i])
    BY <1>1 DEF Keys
  <2>2. SemanticKey(q.subs[i]) = SemanticKey(r.subs[i])
    BY <2>1
  <2> QED
    BY <2>2, KeyParts DEF Asks
<1> QED
  BY <1>1, <1>2 DEF AskedOf

LEMMA SourceChanged ==
  ASSUME NEW q, IsTextQuery(q), NEW source
  PROVE  /\ IsTextQuery([q EXCEPT !.source = source])
         /\ [q EXCEPT !.source = source].subs = q.subs
         /\ [q EXCEPT !.source = source].intent = q.intent
<1> DEFINE r == [q EXCEPT !.source = source]
<1>1. DOMAIN r = DOMAIN q /\ r.subs = q.subs /\ r.intent = q.intent
  BY DEF IsTextQuery, IsQuery
<1> HIDE DEF r
<1>2. IsTextQuery(r)
  BY <1>1 DEF IsTextQuery, IsQuery, Keys
<1> QED
  BY <1>1, <1>2 DEF r

LEMMA KeptItself ==
  ASSUME NEW q, NEW r, r.subs = q.subs, r.intent = q.intent
  PROVE  KeptAs(q, r)
BY DEF KeptAs, AskedOf

LEMMA ReconciledTypes ==
  ASSUME NEW l, IsTextQuery(l), NEW m, IsTextQuery(m)
  PROVE  IsTextQuery(Reconciled(l, m)) /\ KeptAs(l, Reconciled(l, m))
<1> DEFINE r == Reconciled(l, m)
<1>1. CASE OverrulesModel(l, m)
  <2>1. r = [l EXCEPT !.source = "llm_parser"]
    BY <1>1 DEF Reconciled
  <2> HIDE DEF r
  <2>2. IsTextQuery(r) /\ r.subs = l.subs /\ r.intent = l.intent
    BY <2>1, SourceChanged
  <2> QED
    BY <2>2, KeptItself DEF r
<1>2. CASE ~OverrulesModel(l, m)
  <2>1. r = [m EXCEPT !.source = "llm_parser", !.confidence = "high"]
    BY <1>2 DEF Reconciled
  <2> HIDE DEF r
  <2>2. DOMAIN r = DOMAIN m /\ r.subs = m.subs /\ r.intent = m.intent
    BY <2>1 DEF IsTextQuery, IsQuery
  <2>3. IsTextQuery(r)
    BY <2>2 DEF IsTextQuery, IsQuery, Keys
  <2>4. AskedOf(r) = AskedOf(m)
    BY <2>2 DEF AskedOf
  <2>5. l.intent = "multi_intent" => m.intent = "multi_intent" /\ AskedOf(m) = AskedOf(l)
    BY <1>2, KeysAsk DEF OverrulesModel
  <2>6. l.intent # "reject" /\ l.confidence = "high" => m.intent = l.intent
    BY <1>2, <2>5 DEF OverrulesModel
  <2>7. KeptAs(l, r)
    BY <2>2, <2>4, <2>5, <2>6 DEF KeptAs
  <2> QED
    BY <2>3, <2>7 DEF r
<1> QED
  BY <1>1, <1>2

LEMMA FallbackTypes ==
  ASSUME NEW l, IsTextQuery(l)
  PROVE  IsTextQuery(ValidatedFallback(l)) /\ KeptAs(l, ValidatedFallback(l))
<1>1. KeptAs(l, l) /\ KeptAs(l, [l EXCEPT !.source = "validated_fallback"])
  BY KeptItself, SourceChanged
<1> QED
  BY <1>1, SourceChanged DEF ValidatedFallback

LEMMA PageTypes == IsTextQuery(PageQuery)
<1>1. IsTextParse(PageParse)
  BY DEF PageParse, IsTextParse, IsParse, Fields, SupportedIntents, CardIntents, NamedForms
<1> QED
  BY <1>1, SingleTypes, SourceChanged DEF PageQuery

LEMMA WithModeTypes ==
  ASSUME NEW p, IsTextParse(p), NEW mode
  PROVE  /\ IsParse(WithMode(p, mode)) /\ Asks(WithMode(p, mode)) = Asks(p)
         /\ WithMode(p, mode).intent = p.intent
         /\ \/ WithMode(p, mode) = p
            \/ /\ WithMode(p, mode) = AsOrdinary(p)
               /\ p.form = "base8" /\ p.intent = "card_query"
<1> DEFINE m == WithMode(p, mode)
<1>1. CASE m = p
  BY <1>1 DEF IsTextParse
<1>2. CASE m # p
  <2>1. m = AsOrdinary(p) /\ p.form = "base8" /\ p.intent = "card_query"
    BY <1>2 DEF WithMode
  <2> HIDE DEF m
  <2>2. /\ DOMAIN m = Fields /\ m.intent = p.intent /\ m.card = p.card /\ m.names = p.names
        /\ m.deck = p.deck /\ m.metrics = p.metrics /\ m.rank = p.rank /\ m.top = p.top
        /\ m.form = "ordinary"
    BY <2>1 DEF IsTextParse, IsParse, Fields, AsOrdinary
  <2>3. IsParse(m)
    BY <2>2 DEF IsTextParse, IsParse
  <2>4. Asks(m) = Asks(p)
    BY <2>1, <2>2 DEF Asks
  <2> QED
    BY <2>1, <2>2, <2>3, <2>4 DEF m
<1> QED
  BY <1>1, <1>2

(* The page's mode keeps different parts different. *)
LEMMA ModeInjective ==
  ASSUME NEW p, IsTextParse(p), NEW q, IsTextParse(q), NEW mode,
         SemanticKey(WithMode(p, mode)) = SemanticKey(WithMode(q, mode))
  PROVE  SemanticKey(p) = SemanticKey(q)
<1> DEFINE m == WithMode(p, mode)
           n == WithMode(q, mode)
<1>1. /\ m = p \/ (m = AsOrdinary(p) /\ p.form = "base8" /\ p.intent = "card_query")
      /\ n = q \/ (n = AsOrdinary(q) /\ q.form = "base8" /\ q.intent = "card_query")
  BY WithModeTypes
<1>2. SemanticKey(m) = SemanticKey(n)
  OBVIOUS
<1>3. p.form # "ordinary" /\ q.form # "ordinary" /\ DOMAIN p = Fields /\ DOMAIN q = Fields
  BY DEF IsTextParse, IsParse, NamedForms
<1> HIDE DEF m, n
<1>4. /\ m.intent = n.intent
      /\ m.intent # "meta_analysis_query" => m.form = n.form
  BY <1>2, KeyParts
<1>5. CASE m = p /\ n = q
  BY <1>2, <1>5
<1>6. CASE m = AsOrdinary(p) /\ p.intent = "card_query" /\ n = q
  <2>1. m.form = "ordinary" /\ m.intent = "card_query"
    BY <1>3, <1>6 DEF Fields, AsOrdinary
  <2> QED
    BY <1>3, <1>4, <1>6, <2>1
<1>7. CASE n = AsOrdinary(q) /\ q.intent = "card_query" /\ m = p
  <2>1. n.form = "ordinary" /\ n.intent = "card_query"
    BY <1>3, <1>7 DEF Fields, AsOrdinary
  <2> QED
    BY <1>3, <1>4, <1>7, <2>1
<1>8. CASE /\ m = AsOrdinary(p) /\ p.form = "base8" /\ p.intent = "card_query"
           /\ n = AsOrdinary(q) /\ q.form = "base8" /\ q.intent = "card_query"
  <2>1. /\ m.intent = "card_query" /\ m.card = p.card /\ m.metrics = p.metrics
        /\ m.names = p.names /\ m.deck = p.deck /\ m.rank = p.rank /\ m.top = p.top
    BY <1>3, <1>8 DEF Fields, AsOrdinary
  <2>2. /\ n.intent = "card_query" /\ n.card = q.card /\ n.metrics = q.metrics
        /\ n.names = q.names /\ n.deck = q.deck /\ n.rank = q.rank /\ n.top = q.top
    BY <1>3, <1>8 DEF Fields, AsOrdinary
  <2>3. /\ m.card = n.card /\ m.metrics = n.metrics /\ m.names = n.names /\ m.deck = n.deck
        /\ m.rank = n.rank /\ m.top = n.top
    BY <1>2, <2>1, KeyParts
  <2> QED
    BY <1>8, <2>1, <2>2, <2>3, KeyMade
<1> QED
  BY <1>1, <1>5, <1>6, <1>7, <1>8

LEMMA ModeTypes ==
  ASSUME NEW q, IsTextQuery(q), NEW mode
  PROVE  /\ IsQuery(ApplySelectedEntityMode(q, mode))
         /\ ApplySelectedEntityMode(q, mode).intent = q.intent
         /\ AskedOf(ApplySelectedEntityMode(q, mode)) = AskedOf(q)
<1> DEFINE r == ApplySelectedEntityMode(q, mode)
           s == q.subs
           t == [i \in DOMAIN s |-> WithMode(s[i], mode)]
           N == Len(s)
<1>1. r = [q EXCEPT !.subs = t]
  BY DEF ApplySelectedEntityMode
<1>2. /\ N \in 1 .. MaxSubqueries /\ DOMAIN s = 1 .. N /\ N \in Nat
      /\ \A i \in 1 .. N : IsTextParse(s[i])
  <2>1. IsSequence(s) /\ N \in 1 .. MaxSubqueries /\ \A i \in DOMAIN s : IsTextParse(s[i])
    BY DEF IsTextQuery, IsQuery
  <2> QED
    BY <2>1, SequenceFacts
<1>3. t = [i \in 1 .. N |-> WithMode(s[i], mode)]
  BY <1>2
<1> HIDE DEF r, t, N
<1>4. /\ DOMAIN r = {"intent", "subs", "source", "confidence"} /\ r.subs = t
      /\ r.intent = q.intent
  BY <1>1 DEF IsTextQuery, IsQuery
<1>5. t = [i \in 1 .. N |-> t[i]] /\ \A i \in 1 .. N : t[i] = WithMode(s[i], mode)
  BY <1>3
<1>6. IsSequence(t) /\ Len(t) = N /\ DOMAIN t = 1 .. N
  BY <1>2, <1>5, MappedSequence
<1>7. \A i \in 1 .. N : IsParse(t[i]) /\ Asks(t[i]) = Asks(s[i]) /\ t[i].intent = s[i].intent
  BY <1>2, <1>5, WithModeTypes
<1>8. \A i, j \in 1 .. N : SemanticKey(s[i]) = SemanticKey(s[j]) => i = j
  BY <1>2 DEF IsTextQuery, IsQuery, IsInjective, Keys
<1>9. \A i, j \in 1 .. N : SemanticKey(t[i]) = SemanticKey(t[j]) => i = j
  BY <1>2, <1>5, <1>8, ModeInjective
<1>10. IsInjective(Keys(r))
  BY <1>4, <1>6, <1>9 DEF IsInjective, Keys
<1>11. r.intent = "multi_intent" \/ (Len(r.subs) = 1 /\ r.subs[1].intent = r.intent)
  <2>1. CASE q.intent = "multi_intent"
    BY <1>4, <2>1
  <2>2. CASE q.intent # "multi_intent"
    <3>1. N = 1 /\ s[1].intent = q.intent
      BY <2>2 DEF IsTextQuery, IsQuery, N
    <3> QED
      BY <1>4, <1>6, <1>7, <3>1
  <2> QED
    BY <2>1, <2>2
<1>12. IsQuery(r)
  BY <1>2, <1>4, <1>6, <1>7, <1>10, <1>11 DEF IsQuery
<1>13. AskedOf(r) = AskedOf(q)
  BY <1>2, <1>4, <1>6, <1>7 DEF AskedOf
<1> QED
  BY <1>4, <1>12, <1>13 DEF r

(* Of different parts every one is executed. *)
LEMMA AllExecuted ==
  ASSUME NEW q, IsQuery(q)
  PROVE  /\ Executed(q.subs) = q.subs /\ IsQuery([q EXCEPT !.subs = Executed(@)])
         /\ [q EXCEPT !.subs = Executed(@)].subs = q.subs
         /\ [q EXCEPT !.subs = Executed(@)].intent = q.intent
<1> DEFINE s == q.subs
           S == Range(s)
<1>1. s \in Seq(S) /\ Len(s) \in Nat /\ DOMAIN s = 1 .. Len(s)
  BY SequenceFacts DEF IsQuery
<1>2. ASSUME NEW n \in 1 .. Len(s), n \in Repeated(s) PROVE FALSE
  <2>1. PICK k \in 1 .. (n - 1) : SemanticKey(s[k]) = SemanticKey(s[n])
    BY <1>2 DEF Repeated
  <2>2. k \in DOMAIN s /\ n \in DOMAIN s /\ k # n
    BY <1>1, <2>1
  <2>3. Keys(q)[k] = Keys(q)[n] /\ k \in DOMAIN Keys(q) /\ n \in DOMAIN Keys(q)
    BY <2>1, <2>2 DEF Keys
  <2> QED
    BY <2>2, <2>3 DEF IsQuery, IsInjective
<1>3. Without(s, Repeated(s)) = s
  <2> HIDE DEF S, s
  <2> QED
    BY <1>1, <1>2, WithoutNone
<1>4. Executed(q.subs) = q.subs
  BY <1>3 DEF Executed
<1> DEFINE e == [q EXCEPT !.subs = Executed(@)]
<1>5. DOMAIN e = DOMAIN q /\ e.subs = q.subs /\ e.intent = q.intent
  BY <1>4 DEF IsQuery
<1> HIDE DEF e
<1>6. IsQuery(e)
  BY <1>5 DEF IsQuery, Keys
<1> QED
  BY <1>4, <1>5, <1>6 DEF e

-----------------------------------------------------------------------------
(* The invariant, step by step.                                            *)

LEMMA InitInv == Init => QuestionInv
BY DEF Init, QuestionInv, ConfidentParseKept, RetrieverDemanded

LEMMA FromPageInv == QuestionInv /\ FromPage => QuestionInv'
<1> SUFFICES ASSUME QuestionInv, FromPage PROVE QuestionInv'
  OBVIOUS
<1>1. /\ phase = "asked" /\ query' = PageQuery /\ phase' = "parsed" /\ local' = local
      /\ question' = question /\ local = NoQuery /\ question \in Asked
  BY DEF FromPage, QuestionInv
<1>2. IsTextQuery(PageQuery) /\ IsQuery(PageQuery) /\ PageQuery # NoQuery
  BY PageTypes, SomeQuery DEF IsTextQuery
<1>3. ConfidentParseKept' /\ RetrieverDemanded'
  BY <1>1 DEF ConfidentParseKept, RetrieverDemanded
<1> QED
  BY <1>1, <1>2, <1>3 DEF QuestionInv, Ended

LEMMA RefuseInv == QuestionInv /\ RefuseWithoutKey => QuestionInv'
BY DEF QuestionInv, RefuseWithoutKey, executions, ConfidentParseKept, RetrieverDemanded, Ended

LEMMA ParseLocallyInv == QuestionInv /\ ParseLocally => QuestionInv'
<1> SUFFICES ASSUME QuestionInv, ParseLocally PROVE QuestionInv'
  OBVIOUS
<1>1. /\ phase = "asked" /\ local' = LocalQuery(question) /\ question' = question
      /\ query = NoQuery /\ question \in Asked
      /\ \/ query' = local' /\ phase' = "parsed"
         \/ query' = query /\ phase' = "local"
  BY DEF ParseLocally, QuestionInv
<1>2. IsTextQuery(local') /\ OnePerCard(local'.subs) /\ local' # NoQuery
  <2>1. IsTextQuery(LocalQuery(question)) /\ OnePerCard(LocalQuery(question).subs)
    BY <1>1, LocalQueryTypes, QuestionsAssumption
  <2>2. LocalQuery(question) # NoQuery
    BY <2>1, SomeQuery DEF IsTextQuery
  <2> QED
    BY <1>1, <2>1, <2>2
<1>3. ConfidentParseKept' /\ RetrieverDemanded'
  BY <1>1 DEF ConfidentParseKept, RetrieverDemanded
<1>4. query' = NoQuery \/ IsTextQuery(query')
  BY <1>1, <1>2
<1>5. query' = NoQuery \/ IsQuery(query')
  BY <1>4 DEF IsTextQuery
<1>6. phase' = "parsed" => IsTextQuery(query') /\ query' # NoQuery
  BY <1>1, <1>2
<1>7. phase' = "local" => query' = NoQuery
  BY <1>1
<1> QED
  BY <1>1, <1>2, <1>3, <1>5, <1>6, <1>7 DEF QuestionInv, Ended

(* The model's parse, or what is answered without one. *)
LEMMA AnsweredInv ==
  ASSUME QuestionInv, phase = "local", phase' = "parsed", UNCHANGED <<question, local, executions>>,
         IsTextQuery(query'), KeptAs(local, query')
  PROVE  QuestionInv'
<1>1. local' = local /\ question' = question /\ question \in Asked
  BY DEF QuestionInv
<1>2. IsQuery(query') /\ query' # NoQuery
  BY SomeQuery DEF IsTextQuery
<1>3. KeptAs(local', query')
  BY <1>1
<1>4. ConfidentParseKept'
  BY <1>3 DEF KeptAs, AskedOf, ConfidentParseKept
<1>5. RetrieverDemanded'
  BY DEF RetrieverDemanded
<1>6. local' = NoQuery \/ (IsTextQuery(local') /\ OnePerCard(local'.subs))
  BY <1>1 DEF QuestionInv
<1> QED
  BY <1>1, <1>2, <1>4, <1>5, <1>6 DEF QuestionInv, Ended

LEMMA ModelAnswersInv ==
  ASSUME NEW payload \in Payloads
  PROVE  QuestionInv /\ ModelAnswers(payload) => QuestionInv'
<1> SUFFICES ASSUME QuestionInv, ModelAnswers(payload) PROVE QuestionInv'
  OBVIOUS
<1>1. phase = "local" /\ phase' = "parsed" /\ UNCHANGED <<question, local, executions>>
  BY DEF ModelAnswers
<1>2. IsTextQuery(local)
  BY <1>1 DEF QuestionInv
<1> DEFINE m == NormalizeQuery(payload, question)
<1>3. query' = Reconciled(local, m)
  BY DEF ModelAnswers, ValidatedParse
<1>4. IsTextQuery(m)
  BY NormalizeQueryTypes, QuestionsAssumption DEF QuestionInv
<1> HIDE DEF m
<1>5. IsTextQuery(query') /\ KeptAs(local, query')
  BY <1>2, <1>3, <1>4, ReconciledTypes
<1> QED
  BY <1>1, <1>5, AnsweredInv

LEMMA ModelFailsInv == QuestionInv /\ ModelFails => QuestionInv'
<1> SUFFICES ASSUME QuestionInv, ModelFails PROVE QuestionInv'
  OBVIOUS
<1>1. /\ phase = "local" /\ phase' = "parsed" /\ UNCHANGED <<question, local, executions>>
      /\ query' = ValidatedFallback(local)
  BY DEF ModelFails
<1>2. IsTextQuery(local)
  BY <1>1 DEF QuestionInv
<1>3. IsTextQuery(query') /\ KeptAs(local, query')
  BY <1>1, <1>2, FallbackTypes
<1> QED
  BY <1>1, <1>3, AnsweredInv

LEMMA AdmitInv ==
  ASSUME NEW strict, NEW mode
  PROVE  QuestionInv /\ Admit(strict, mode) => QuestionInv'
<1> SUFFICES ASSUME QuestionInv, Admit(strict, mode) PROVE QuestionInv'
  OBVIOUS
<1> DEFINE parsed == ApplySelectedEntityMode(query, mode)
           e == [parsed EXCEPT !.subs = Executed(@)]
<1>1. /\ phase = "parsed" /\ IsTextQuery(query) /\ query # NoQuery /\ question \in Asked
      /\ question' = question /\ local' = local
      /\ local = NoQuery \/ (IsTextQuery(local) /\ OnePerCard(local.subs))
      /\ ConfidentParseKept
  BY DEF QuestionInv, Admit
<1>2. CASE ~Admitted(query, strict)
  <2>1. phase' = "refused" /\ UNCHANGED <<query, executions>>
    BY <1>2 DEF Admit
  <2>2. ConfidentParseKept' /\ RetrieverDemanded'
    BY <1>1, <2>1 DEF ConfidentParseKept, RetrieverDemanded
  <2> QED
    BY <1>1, <2>1, <2>2 DEF QuestionInv, Ended, IsTextQuery
<1>3. CASE Admitted(query, strict)
  <2>1. phase' = "running" /\ query' = e /\ retriever' = QueryNeedsRag(parsed)
    BY <1>3 DEF Admit
  <2>2. IsQuery(parsed) /\ parsed.intent = query.intent /\ AskedOf(parsed) = AskedOf(query)
    BY <1>1, ModeTypes
  <2> HIDE DEF parsed
  <2>3. IsQuery(e) /\ e.subs = parsed.subs /\ e.intent = parsed.intent
    BY <2>2, AllExecuted
  <2> HIDE DEF e
  <2>4. IsQuery(query') /\ query' # NoQuery
    BY <2>1, <2>3, SomeQuery
  <2>5. AskedOf(query') = AskedOf(query) /\ query'.intent = query.intent
    BY <2>1, <2>2, <2>3 DEF AskedOf
  <2>6. ConfidentParseKept'
    <3>1. local # NoQuery => KeptAs(local, query)
      BY <1>1 DEF ConfidentParseKept, KeptAs, AskedOf
    <3>2. local' # NoQuery => KeptAs(local', query')
      BY <1>1, <2>5, <3>1 DEF KeptAs
    <3> QED
      BY <3>2 DEF ConfidentParseKept, KeptAs, AskedOf
  <2>7. \A i \in DOMAIN query'.subs : IsParse(query'.subs[i])
    BY <2>4 DEF IsQuery
  <2>8. retriever' <=> \E i \in DOMAIN query'.subs : SubqueryNeedsRag(query'.subs[i])
    BY <2>1, <2>3 DEF QueryNeedsRag
  <2>9. RetrieverDemanded'
    BY <2>7, <2>8, Resolved DEF RetrieverDemanded, IsOpen
  <2> QED
    BY <1>1, <2>1, <2>4, <2>6, <2>9 DEF QuestionInv, Ended
<1> QED
  BY <1>2, <1>3

(* A step that leaves the parses and goes on from "running", or ends. *)
LEMMA GoesOnInv ==
  ASSUME QuestionInv, UNCHANGED <<question, local, query, retriever>>,
         \/ phase = "running" /\ phase' \in {"running", "answered", "failed"}
         \/ phase' = "cancelled"
         \/ phase' = phase
  PROVE  QuestionInv'
<1>1. ConfidentParseKept'
  BY DEF QuestionInv, ConfidentParseKept
<1>2. RetrieverDemanded'
  BY DEF QuestionInv, RetrieverDemanded, IsOpen
<1> QED
  BY <1>1, <1>2 DEF QuestionInv, Ended

LEMMA NextInv == QuestionInv /\ [Next]_vars => QuestionInv'
<1> SUFFICES ASSUME QuestionInv, [Next]_vars PROVE QuestionInv'
  OBVIOUS
<1>1. CASE FromPage
  BY <1>1, FromPageInv
<1>2. CASE RefuseWithoutKey
  BY <1>2, RefuseInv
<1>3. CASE ParseLocally
  BY <1>3, ParseLocallyInv
<1>4. CASE ModelFails
  BY <1>4, ModelFailsInv
<1>5. ASSUME NEW payload \in Payloads, ModelAnswers(payload) PROVE QuestionInv'
  BY <1>5, ModelAnswersInv
<1>6. ASSUME NEW strict \in BOOLEAN, NEW mode \in {"base8", "loadout_entity"}, Admit(strict, mode)
      PROVE  QuestionInv'
  BY <1>6, AdmitInv
<1>7. ASSUME NEW i \in DOMAIN trace, Select(i) PROVE QuestionInv'
  BY <1>7, GoesOnInv DEF Select
<1>8. ASSUME NEW i \in DOMAIN trace, Run(i) PROVE QuestionInv'
  BY <1>8, GoesOnInv DEF Run
<1>9. CASE Answer
  BY <1>9, GoesOnInv DEF Answer, executions
<1>10. CASE Cancel
  BY <1>10, GoesOnInv DEF Cancel, executions
<1>11. CASE UNCHANGED vars
  BY <1>11, GoesOnInv DEF vars
<1> QED
  BY <1>1, <1>2, <1>3, <1>4, <1>5, <1>6, <1>7, <1>8, <1>9, <1>10, <1>11 DEF Next, Progress

(* In every state of a request, whatever the question and the model's      *)
(* payload, the parses are well formed, the parts of a query are different *)
(* questions, and the properties below hold: parser_fallback.py,           *)
(* parser_normalization.py and parser_orchestration.py with answer_query.  *)
THEOREM Invariance == Spec => []QuestionInv
<1> QED
  BY InitInv, NextInv, PTL DEF Spec

(* query_needs_rag, which decides before the data is opened, and the       *)
(* skills' can_handle, which decide afterwards, agree on every question    *)
(* but one: the retriever is opened exactly when an open skill is selected *)
(* for a part whose deck is not a text the model gave in a list's place.   *)
THEOREM RetrieverAgrees == Spec => []RetrieverDemanded
<1>1. QuestionInv => RetrieverDemanded
  BY DEF QuestionInv
<1> QED
  BY <1>1, Invariance, PTL

(* reconcile_model_parse: what a confident local parse asks is asked,      *)
(* whatever the model answered.                                            *)
THEOREM ConfidentKept == Spec => []ConfidentParseKept
<1>1. QuestionInv => ConfidentParseKept
  BY DEF QuestionInv
<1> QED
  BY <1>1, Invariance, PTL

(* However many parts a question is cut into, there are at most            *)
(* MAX_SUBQUERIES of them, no two the same, and each has a skill unless it *)
(* is rejected, asks the position of no known card, or has a text in the   *)
(* place of a deck and a card or a number along with it.                   *)
THEOREM EachPartRouted == Spec => []PartsRouted
<1>1. QuestionInv => PartsRouted
  <2> SUFFICES ASSUME QuestionInv PROVE PartsRouted
    OBVIOUS
  <2>1. ASSUME NEW q, q = NoQuery \/ IsQuery(q)
        PROVE  Len(q.subs) <= MaxSubqueries /\ IsInjective(Keys(q))
    <3>1. CASE IsQuery(q)
      <4>1. Len(q.subs) \in 1 .. MaxSubqueries
        BY <3>1 DEF IsQuery
      <4>2. MaxSubqueries \in Nat
        BY TextAssumption
      <4> QED
        BY <3>1, <4>1, <4>2 DEF IsQuery
    <3>2. CASE q = NoQuery
      <4>1. q.subs = <<>> /\ Len(<<>>) = 0 /\ DOMAIN <<>> = {}
        BY <3>2 DEF NoQuery
      <4>2. Len(q.subs) <= MaxSubqueries
        BY <4>1, TextAssumption
      <4>3. DOMAIN Keys(q) = {}
        BY <4>1 DEF Keys
      <4> QED
        BY <4>2, <4>3 DEF IsInjective
    <3> QED
      BY <2>1, <3>1, <3>2
  <2>2. (local = NoQuery \/ IsQuery(local)) /\ (query = NoQuery \/ IsQuery(query))
    BY DEF QuestionInv, IsTextQuery
  <2>3. \A q \in {local, query} : Len(q.subs) <= MaxSubqueries /\ IsInjective(Keys(q))
    BY <2>1, <2>2
  <2>4. OnePerCard(local.subs)
    BY DEF QuestionInv, NoQuery, OnePerCard
  <2>5. SubqueriesDistinct
    BY <2>3, <2>4 DEF SubqueriesDistinct, OnePerCard, OfKnownCard
  <2>6. EveryQuestionRouted
    <3> SUFFICES ASSUME phase = "running", NEW i \in DOMAIN query.subs,
                        Resolve(query.subs[i]) = "none"
                 PROVE  \/ query.subs[i].intent = "reject"
                        \/ query.subs[i].intent = "card_rank_lookup_query"
                             /\ query.subs[i].card = NoCard
                        \/ OfText(query.subs[i]) /\ ~Open(query.subs[i])
      BY DEF EveryQuestionRouted
    <3>1. IsParse(query.subs[i])
      BY DEF QuestionInv, IsQuery
    <3> QED
      BY <3>1, Resolved
  <2> QED
    BY <2>5, <2>6 DEF PartsRouted
<1> QED
  BY <1>1, Invariance, PTL

=============================================================================
