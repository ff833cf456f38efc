------------------------- MODULE LiveCollection_proofs -------------------------
(***************************************************************************)
(* Proofs about LiveCollection, for any ranking, logs, limits and faults.  *)
(***************************************************************************)
EXTENDS LiveCollection, FiniteSetTheorems, WellFoundedInduction, TLAPS

-----------------------------------------------------------------------------
(* Recursion over the positions of a sequence.                             *)

(* Some natural numbers have a least one. *)
LEMMA LeastIsOne ==
  ASSUME NEW S \in SUBSET Nat, S # {}
  PROVE  Min(S) \in S /\ \A y \in S : Min(S) <= y
<1> DEFINE R == {ss \in Nat \X Nat : ss[1] < ss[2]}
<1>1. \A x, y \in Nat : y < x => <<y, x>> \in R
  OBVIOUS
<1>2. IsWellFoundedOn(R, Nat)
  BY NatLessThanWellFounded DEF OpToRel
<1> HIDE DEF R
<1>3. \E x \in S : \A y \in S : ~(<<y, x>> \in R)
  BY <1>2, WFMin
<1>4. PICK x \in S : \A y \in S : ~(<<y, x>> \in R)
  BY <1>3
<1>5. ASSUME NEW y \in S PROVE x <= y
  <2>1. x \in Nat /\ y \in Nat /\ ~(y < x)
    BY <1>1, <1>4
  <2> QED
    BY <2>1
<1> QED
  BY <1>5 DEF Min

(* What holds at first and is kept by each step holds at every position. *)
LEMMA Reaches ==
  ASSUME NEW N \in Nat, NEW X, NEW f, f[0] \in X,
         \A n \in 1 .. N : f[n - 1] \in X => f[n] \in X
  PROVE  \A n \in 0 .. N : f[n] \in X
<1> DEFINE S == {n \in 0 .. N : f[n] \notin X}
<1>1. SUFFICES ASSUME S # {} PROVE FALSE
  OBVIOUS
<1>2. S \in SUBSET Nat
  OBVIOUS
<1> HIDE DEF S
<1>3. PICK m \in S : \A y \in S : m <= y
  BY <1>1, <1>2, LeastIsOne
<1>4. m \in 1 .. N /\ f[m] \notin X
  BY <1>3 DEF S
<1>5. m - 1 \in 0 .. N /\ m - 1 \notin S
  BY <1>3, <1>4
<1> QED
  BY <1>4, <1>5 DEF S

Solves(f, N, x, Step) ==
  f = [n \in 0 .. N |-> IF n = 0 THEN x ELSE Step[<<f[n - 1], n>>]]

(* A step function defines a sequence of values, each in its range. *)
LEMMA Recursion ==
  ASSUME NEW N \in Nat, NEW X, NEW x \in X, NEW Step \in [X \X (1 .. N) -> X]
  PROVE  \E f : Solves(f, N, x, Step) /\ \A n \in 0 .. N : f[n] \in X
<1> DEFINE S == {m \in 0 .. N : ~ \E f : Solves(f, m, x, Step)}
<1>1. S = {}
  <2>1. SUFFICES ASSUME S # {} PROVE FALSE
    OBVIOUS
  <2>2. S \in SUBSET Nat
    OBVIOUS
  <2> HIDE DEF S
  <2>3. PICK m \in S : \A y \in S : m <= y
    BY <2>1, <2>2, LeastIsOne
  <2>4. m \in 0 .. N /\ ~ \E f : Solves(f, m, x, Step)
    BY <2>3 DEF S
  <2>5. CASE m = 0
    <3> DEFINE g == [n \in 0 .. 0 |-> x]
    <3>1. Solves(g, 0, x, Step)
      BY DEF Solves
    <3> QED
      BY <2>4, <2>5, <3>1
  <2>6. CASE m # 0
    <3>1. m - 1 \in 0 .. N /\ m - 1 \notin S
      BY <2>3, <2>4, <2>6
    <3>2. PICK f : Solves(f, m - 1, x, Step)
      BY <3>1 DEF S
    <3> DEFINE g == [n \in 0 .. m |-> IF n = m THEN Step[<<f[m - 1], m>>] ELSE f[n]]
    <3>3. ASSUME NEW n \in 0 .. m
          PROVE  g[n] = IF n = 0 THEN x ELSE Step[<<g[n - 1], n>>]
      <4>1. CASE n = m
        <5>1. m \in 1 .. N /\ m \in 0 .. m /\ m - 1 \in 0 .. m /\ m - 1 # m
          BY <2>4, <2>6
        <5>2. g[m] = Step[<<f[m - 1], m>>] /\ g[m - 1] = f[m - 1]
          BY <5>1, Zenon
        <5> HIDE DEF g
        <5> QED
          BY <4>1, <5>1, <5>2
      <4>2. CASE n # m
        <5>1. /\ n \in 0 .. (m - 1) /\ g[n] = f[n]
              /\ n # 0 => n - 1 \in 0 .. m /\ g[n - 1] = f[n - 1]
          BY <2>4, <2>6, <4>2
        <5>2. f[n] = IF n = 0 THEN x ELSE Step[<<f[n - 1], n>>]
          BY <3>2, <5>1 DEF Solves
        <5> HIDE DEF g
        <5> QED
          BY <5>1, <5>2
      <4> QED
        BY <4>1, <4>2
    <3>4. Solves(g, m, x, Step)
      BY <3>3, Zenon DEF Solves
    <3> QED
      BY <2>4, <3>4
  <2> QED
    BY <2>5, <2>6
<1>2. PICK f : Solves(f, N, x, Step)
  BY <1>1
<1>3. f[0] = x /\ \A n \in 1 .. N : f[n] = Step[<<f[n - 1], n>>]
  BY <1>2 DEF Solves
<1>4. \A n \in 0 .. N : f[n] \in X
  <2>1. \A n \in 1 .. N : f[n - 1] \in X => f[n] \in X
    BY <1>3
  <2> QED
    BY <1>3, <2>1, Reaches
<1> QED
  BY <1>2, <1>4

-----------------------------------------------------------------------------
(* The three recursive definitions.                                        *)

(* What is selected from a log are battles of that log. *)
LEMMA SelectedTypes ==
  ASSUME NEW p \in Player
  PROVE  Selected(p) \in Seq(Range(Log[p])) /\ Selected(p) \in Seq(Battle)
<1> DEFINE L == Log[p]
           N == Len(L)
           X == Seq(Range(L))
           Step == [q \in X \X (1 .. N) |-> Kept(q[1], L[q[2]])]
<1>1. L \in Seq(Battle) /\ N \in Nat /\ \A n \in 1 .. N : L[n] \in Range(L)
  BY CollectionAssumption DEF Player, Range
<1>2. ASSUME NEW k \in X, NEW b \in Range(L) PROVE Kept(k, b) \in X
  <2>1. Append(k, b) \in X
    OBVIOUS
  <2> HIDE DEF X
  <2> QED
    BY <2>1 DEF Kept
<1>3. Step \in [X \X (1 .. N) -> X] /\ <<>> \in X
  <2>1. <<>> \in X
    OBVIOUS
  <2> HIDE DEF X, N
  <2> QED
    BY <1>1, <1>2, <2>1
<1> HIDE DEF X
<1>4. PICK g : Solves(g, N, <<>>, Step) /\ \A n \in 0 .. N : g[n] \in X
  <2> HIDE DEF N, Step
  <2> QED
    BY <1>1, <1>3, Recursion
<1>5. g = [n \in 0 .. N |-> IF n = 0 THEN <<>> ELSE Kept(g[n - 1], L[n])]
  <2> HIDE DEF N
  <2>1. \A n \in 1 .. N : g[n - 1] \in X
    BY <1>1, <1>4
  <2>2. \A n \in 1 .. N : Step[<<g[n - 1], n>>] = Kept(g[n - 1], L[n])
    BY <2>1
  <2> HIDE DEF Step, X, L
  <2>3. g = [n \in 0 .. N |-> IF n = 0 THEN <<>> ELSE Step[<<g[n - 1], n>>]]
    BY <1>4, Zenon DEF Solves
  <2>4. ASSUME NEW n \in 0 .. N
        PROVE  (IF n = 0 THEN <<>> ELSE Step[<<g[n - 1], n>>])
               = (IF n = 0 THEN <<>> ELSE Kept(g[n - 1], L[n]))
    <3>1. n # 0 => n \in 1 .. N
      BY <1>1
    <3> QED
      BY <3>1, <2>2, Zenon
  <2> QED
    BY <2>3, <2>4, Zenon
<1>6. PICK f : /\ f = [n \in 0 .. N |-> IF n = 0 THEN <<>> ELSE Kept(f[n - 1], L[n])]
               /\ Selected(p) = f[N]
  BY <1>5 DEF Selected
<1>7. f[0] = <<>> /\ \A n \in 1 .. N : f[n] = Kept(f[n - 1], L[n])
  BY <1>1, <1>6
<1>8. \A n \in 1 .. N : f[n - 1] \in X => f[n] \in X
  BY <1>1, <1>2, <1>7
<1>9. f[N] \in X
  <2>1. N \in 0 .. N
    BY <1>1
  <2> HIDE DEF N
  <2> QED
    BY <1>1, <1>3, <1>7, <1>8, <2>1, Reaches
<1>10. Selected(p) \in Seq(Range(L))
  BY <1>6, <1>9 DEF X
<1>11. Range(L) \subseteq Battle
  BY <1>1 DEF Range
<1> QED
  BY <1>10, <1>11

LEMMA QueueTypes ==
  ASSUME NEW q
  PROVE  q \in Queue <=> q \in Seq(Entry) /\ Len(q) <= PlayerLimit
<1>1. PlayerLimit \in Nat
  BY CollectionAssumption
<1>2. q \in Queue <=> \E m \in 0 .. PlayerLimit : q \in [1 .. m -> Entry]
  BY DEF Queue, SeqOf
<1>3. ASSUME NEW m \in 0 .. PlayerLimit, q \in [1 .. m -> Entry]
      PROVE  q \in Seq(Entry) /\ Len(q) <= PlayerLimit
  <2> HIDE DEF Entry
  <2>1. m \in Nat
    BY <1>1
  <2>2. q \in Seq(Entry)
    BY <1>3, <2>1
  <2>3. Len(q) = m
    BY <1>3, <2>1, <2>2
  <2> QED
    BY <1>1, <2>2, <2>3
<1>4. ASSUME q \in Seq(Entry), Len(q) <= PlayerLimit
      PROVE  q \in [1 .. Len(q) -> Entry] /\ Len(q) \in 0 .. PlayerLimit
  BY <1>1, <1>4
<1> QED
  BY <1>2, <1>3, <1>4

LEMMA OpponentTypes ==
  ASSUME NEW p \in Player, NEW b \in Range(Log[p])
  PROVE  Opponent(b, p) \in Player
<1>1. Log[p] \in Seq(Battle) /\ \E o \in b.between : o # p
  BY CollectionAssumption DEF Player
<1>2. b \in Battle
  BY <1>1 DEF Range
<1>3. Opponent(b, p) \in b.between
  BY <1>1 DEF Opponent
<1> QED
  BY <1>2, <1>3, CollectionAssumption DEF Player

(* An opponent who is queued comes last, and once. *)
LEMMA QueuedSound ==
  ASSUME NEW q, Sound(q), NEW o \in Player
  PROVE  /\ Sound(Queued(q, o)) /\ Len(q) <= Len(Queued(q, o))
         /\ \A i \in 1 .. Len(q) : Queued(q, o)[i] = q[i]
<1>1. q \in Seq(Entry) /\ Len(q) <= PlayerLimit /\ Len(q) \in Nat /\ PlayerLimit \in Nat
  BY QueueTypes, CollectionAssumption DEF Sound
<1>2. CASE Queued(q, o) = q
  BY <1>1, <1>2
<1>3. CASE Queued(q, o) # q
  <2> DEFINE e == [tag |-> o, ranked |-> FALSE]
             r == Append(q, e)
  <2>1. e \in Entry /\ e.tag = o /\ e.ranked = FALSE
    BY DEF Entry
  <2>2. /\ Queued(q, o) = r /\ Len(q) < PlayerLimit
        /\ \A i \in 1 .. Len(q) : q[i].tag # o
    BY <1>1, <1>3 DEF Queued
  <2> HIDE DEF e
  <2>3. /\ r \in Seq(Entry) /\ Len(r) = Len(q) + 1 /\ r[Len(q) + 1] = e
        /\ \A i \in 1 .. Len(q) : r[i] = q[i]
    BY <1>1, <2>1
  <2> HIDE DEF r
  <2>4. r \in Queue
    BY <1>1, <2>2, <2>3, QueueTypes
  <2>5. ASSUME NEW i \in DOMAIN r
        PROVE  i \in 1 .. Len(q) \/ i = Len(q) + 1
    BY <1>1, <2>3
  <2>6. ASSUME NEW i \in DOMAIN r, NEW j \in DOMAIN r, r[i].tag = r[j].tag PROVE i = j
    <3>1. \A k, l \in 1 .. Len(q) : q[k].tag = q[l].tag => k = l
      BY <1>1 DEF Sound
    <3> QED
      BY <2>1, <2>2, <2>3, <2>5, <2>6, <3>1
  <2>7. ASSUME NEW i \in DOMAIN r, r[i].ranked
        PROVE  i \in DOMAIN Leaderboard /\ r[i].tag = Leaderboard[i]
    <3>1. i \in 1 .. Len(q)
      BY <2>1, <2>3, <2>5, <2>7
    <3> QED
      BY <1>1, <2>3, <2>7, <3>1 DEF Sound
  <2> QED
    BY <1>1, <2>2, <2>3, <2>4, <2>6, <2>7 DEF Sound
<1> QED
  BY <1>2, <1>3

(* The queue is extended behind its end. *)
LEMMA ExpandedSound ==
  ASSUME NEW p \in Player, NEW queue, Sound(queue)
  PROVE  /\ Sound(Expanded(queue, p)) /\ Len(queue) <= Len(Expanded(queue, p))
         /\ \A i \in 1 .. Len(queue) : Expanded(queue, p)[i] = queue[i]
<1> DEFINE B == Selected(p)
           N == Len(B)
           X == {q \in Queue : /\ Sound(q) /\ Len(queue) <= Len(q)
                               /\ \A i \in 1 .. Len(queue) : q[i] = queue[i]}
           Step == [q \in X \X (1 .. N) |-> Queued(q[1], Opponent(B[q[2]], p))]
<1>1. N \in Nat /\ \A n \in 1 .. N : Opponent(B[n], p) \in Player
  BY SelectedTypes, OpponentTypes
<1> HIDE DEF B
<1>2. ASSUME NEW q \in X, NEW o \in Player PROVE Queued(q, o) \in X
  <2>1. Sound(q) /\ Len(queue) <= Len(q) /\ \A i \in 1 .. Len(queue) : q[i] = queue[i]
    OBVIOUS
  <2>2. Len(queue) \in Nat /\ Len(q) \in Nat
    BY <2>1, QueueTypes DEF Sound
  <2> DEFINE r == Queued(q, o)
  <2>3. /\ Sound(r) /\ Len(q) <= Len(r) /\ r \in Queue /\ Len(r) \in Nat
        /\ \A i \in 1 .. Len(q) : r[i] = q[i]
    <3>1. Sound(r) /\ Len(q) <= Len(r) /\ \A i \in 1 .. Len(q) : r[i] = q[i]
      BY <2>1, QueuedSound
    <3> HIDE DEF r
    <3> QED
      BY <3>1, QueueTypes DEF Sound
  <2> HIDE DEF r
  <2>4. r \in X
    BY <2>1, <2>2, <2>3
  <2> QED
    BY <2>4 DEF r
<1>3. queue \in X
  BY QueueTypes DEF Sound
<1> HIDE DEF X, N
<1>4. Step \in [X \X (1 .. N) -> X]
  BY <1>1, <1>2
<1>5. PICK g : Solves(g, N, queue, Step) /\ \A n \in 0 .. N : g[n] \in X
  <2> HIDE DEF Step
  <2> QED
    BY <1>1, <1>3, <1>4, Recursion
<1>6. g = [n \in 0 .. N |-> IF n = 0 THEN queue ELSE Queued(g[n - 1], Opponent(B[n], p))]
  <2>1. \A n \in 1 .. N : g[n - 1] \in X
    BY <1>1, <1>5
  <2>2. \A n \in 1 .. N : Step[<<g[n - 1], n>>] = Queued(g[n - 1], Opponent(B[n], p))
    BY <2>1
  <2> HIDE DEF Step
  <2> QED
    BY <1>1, <1>5, <2>2 DEF Solves
<1>7. PICK f : /\ f = [n \in 0 .. N |->
                         IF n = 0 THEN queue ELSE Queued(f[n - 1], Opponent(B[n], p))]
               /\ Expanded(queue, p) = f[N]
  BY <1>6 DEF Expanded, N, B
<1>8. f[0] = queue /\ \A n \in 1 .. N : f[n] = Queued(f[n - 1], Opponent(B[n], p))
  BY <1>1, <1>7
<1>9. \A n \in 1 .. N : f[n - 1] \in X => f[n] \in X
  BY <1>1, <1>2, <1>8
<1>10. f[N] \in X
  <2>1. N \in 0 .. N
    BY <1>1
  <2> QED
    BY <1>1, <1>3, <1>8, <1>9, <2>1, Reaches
<1> QED
  BY <1>7, <1>10 DEF X

(* No more than the target are stored, and nothing but what was selected. *)
LEMMA StoredFacts ==
  ASSUME NEW facts, IsFiniteSet(facts), Cardinality(facts) <= Target,
         NEW p, NEW battles, battles \in Seq(Battle)
  PROVE  /\ IsFiniteSet(Stored(facts, p, battles))
         /\ Cardinality(Stored(facts, p, battles)) <= Target
         /\ facts \subseteq Stored(facts, p, battles)
         /\ Stored(facts, p, battles) \subseteq facts \cup {Fact(b, p) : b \in Range(battles)}
<1> DEFINE N == Len(battles)
           U == facts \cup {Fact(b, p) : b \in Range(battles)}
           X == {S \in SUBSET U : IsFiniteSet(S) /\ Cardinality(S) <= Target /\ facts \subseteq S}
           Step == [q \in X \X (1 .. N) |-> Added(q[1], Fact(battles[q[2]], p))]
<1>1. N \in Nat /\ \A n \in 1 .. N : Fact(battles[n], p) \in U
  BY DEF Range
<1> HIDE DEF U
<1>2. ASSUME NEW S \in X, NEW x \in U PROVE Added(S, x) \in X
  <2>1. /\ Target \in Nat /\ Cardinality(S) \in Nat /\ IsFiniteSet(S)
        /\ S \cup {x} \in SUBSET U /\ facts \subseteq S \cup {x}
    BY FS_CardinalityType, CollectionAssumption
  <2>2. /\ IsFiniteSet(S \cup {x})
        /\ Cardinality(S \cup {x}) = IF x \in S THEN Cardinality(S) ELSE Cardinality(S) + 1
    <3> HIDE DEF X
    <3> QED
      BY <2>1, FS_AddElement
  <2>3. CASE Cardinality(S) < Target
    <3>1. Added(S, x) = S \cup {x}
      BY <2>3 DEF Added
    <3>2. Cardinality(S \cup {x}) <= Target
      <4> HIDE DEF X
      <4> QED
        BY <2>1, <2>2, <2>3
    <3>3. S \cup {x} \in X
      BY <2>1, <2>2, <3>2
    <3> QED
      BY <3>1, <3>3
  <2>4. CASE ~(Cardinality(S) < Target)
    BY <2>4 DEF Added
  <2> QED
    BY <2>3, <2>4
<1>3. facts \in X
  BY DEF U
<1> HIDE DEF X, N
<1>4. Step \in [X \X (1 .. N) -> X]
  BY <1>1, <1>2
<1>5. PICK g : Solves(g, N, facts, Step) /\ \A n \in 0 .. N : g[n] \in X
  <2> HIDE DEF Step
  <2> QED
    BY <1>1, <1>3, <1>4, Recursion
<1>6. g = [n \in 0 .. N |-> IF n = 0 THEN facts ELSE Added(g[n - 1], Fact(battles[n], p))]
  <2>1. \A n \in 1 .. N : g[n - 1] \in X
    BY <1>1, <1>5
  <2>2. \A n \in 1 .. N : Step[<<g[n - 1], n>>] = Added(g[n - 1], Fact(battles[n], p))
    BY <2>1
  <2> HIDE DEF Step
  <2> QED
    BY <1>1, <1>5, <2>2 DEF Solves
<1>7. PICK f : /\ f = [n \in 0 .. N |->
                         IF n = 0 THEN facts ELSE Added(f[n - 1], Fact(battles[n], p))]
               /\ Stored(facts, p, battles) = f[N]
  BY <1>6 DEF Stored, N
<1>8. f[0] = facts /\ \A n \in 1 .. N : f[n] = Added(f[n - 1], Fact(battles[n], p))
  BY <1>1, <1>7
<1>9. \A n \in 1 .. N : f[n - 1] \in X => f[n] \in X
  BY <1>1, <1>2, <1>8
<1>10. f[N] \in X
  <2>1. N \in 0 .. N
    BY <1>1
  <2> QED
    BY <1>1, <1>3, <1>8, <1>9, <2>1, Reaches
<1> QED
  BY <1>7, <1>10 DEF X, U

-----------------------------------------------------------------------------
(* States of the workspace and of the run.                                 *)

LEMMA EmptyState ==
  ASSUME NEW id \in Nat, NEW w, w = EmptyWorkspace(id)
  PROVE  /\ w \in Workspace /\ w.queue = NoQueue /\ w.processed = 0 /\ IsFiniteSet(w.facts)
         /\ w.facts = {} /\ w.observed = {} /\ w.counted = 0 /\ w.id = id
         /\ w.counted = Cardinality(w.facts) /\ w.counted <= Target
         /\ {o[1] : o \in w.observed} = w.facts
         /\ \A p \in Player : w.requests[p] = "none"
<1> DEFINE none == [p \in Player |-> "none"]
<1>1. none \in [Player -> {"none", "failed", "success"}] /\ \A p \in Player : none[p] = "none"
  OBVIOUS
<1>2. /\ w = [id |-> id, queue |-> NoQueue, requests |-> none, facts |-> {}, counted |-> 0,
              observed |-> {}, processed |-> 0, limited |-> FALSE, old |-> FALSE]
      /\ PlayerLimit \in Nat /\ Target \in Nat
  BY CollectionAssumption DEF EmptyWorkspace
<1> HIDE DEF none
<1>3. w \in Workspace
  BY <1>1, <1>2 DEF Workspace
<1>4. /\ w.queue = NoQueue /\ w.processed = 0 /\ w.facts = {} /\ w.observed = {}
      /\ w.counted = 0 /\ w.id = id /\ w.requests = none
  BY <1>2
<1>5. IsFiniteSet({}) /\ Cardinality({}) = 0
  BY FS_EmptySet
<1> QED
  BY <1>1, <1>2, <1>3, <1>4, <1>5

LEMMA IdleRun ==
  /\ Idle \in Run /\ Idle.pc = "idle" /\ Idle.start = 0 /\ Idle.exhausted = FALSE
  /\ Idle.fetched = <<>> /\ Idle.next = 0 /\ Idle.usable = 0
<1>1. PlayerLimit \in Nat /\ <<>> \in Queue
  <2>1. PlayerLimit \in Nat
    BY CollectionAssumption
  <2>2. ASSUME NEW q, q = <<>> PROVE q \in Seq(Entry) /\ Len(q) <= PlayerLimit
    BY <2>1, <2>2
  <2>3. ASSUME NEW q, q = <<>> PROVE q \in Queue
    BY <2>2, <2>3, QueueTypes
  <2> QED
    BY <2>1, <2>3
<1>2. <<>> \in Seq(Result) /\ {} \in SUBSET DOMAIN Leaderboard
  OBVIOUS
<1>3. "idle" \in Phases
  BY DEF Phases
<1> HIDE DEF Queue, Result, Phases
<1>4. Idle \in Run
  BY <1>1, <1>2, <1>3 DEF Idle, Run
<1> QED
  BY <1>4 DEF Idle

(* Whatever stops a run, the workspace it leaves is consistent. *)
LEMMA RunEnds ==
  ASSUME NEW w, NEW r, Consistent(w, r)
  PROVE  Consistent(w, Idle)
<1>1. Idle \in Run /\ Idle.pc = "idle"
  BY IdleRun
<1>2. QueuesAgree(w, Idle)
  BY <1>1 DEF Consistent, QueuesAgree, Running
<1>3. PositionsAgree(w, Idle)
  BY <1>1 DEF PositionsAgree, Running
<1>4. CountedOnce(w, Idle)
  BY <1>1 DEF Consistent, CountedOnce, Running
<1> QED
  BY <1>1, <1>2, <1>3, <1>4 DEF Consistent

LEMMA EmptyConsistent ==
  ASSUME NEW id \in Nat, NEW w, w = EmptyWorkspace(id)
  PROVE  Consistent(w, Idle)
<1>1. /\ w \in Workspace /\ w.queue = NoQueue /\ w.processed = 0 /\ IsFiniteSet(w.facts)
      /\ w.facts = {} /\ w.observed = {} /\ \A p \in Player : w.requests[p] = "none"
      /\ w.counted = Cardinality(w.facts) /\ w.counted <= Target
      /\ {o[1] : o \in w.observed} = w.facts
  BY EmptyState
<1>2. Idle \in Run /\ Idle.pc = "idle"
  BY IdleRun
<1>3. QueuesAgree(w, Idle)
  BY <1>1, <1>2 DEF QueuesAgree, Running
<1>4. PositionsAgree(w, Idle)
  BY <1>2 DEF PositionsAgree, Running
<1>5. CountedOnce(w, Idle)
  BY <1>1, <1>2 DEF CountedOnce, Running
<1> QED
  BY <1>1, <1>2, <1>3, <1>4, <1>5 DEF Consistent

(* A step of a run that leaves the tables and its own queue alone.         *)
LEMMA RunMoves ==
  ASSUME NEW w, NEW r, Consistent(w, r), Running(r), r.pc # "expand",
         NEW v \in Workspace, v.queue = w.queue, v.requests = w.requests, v.facts = w.facts,
         v.counted = w.counted, v.observed = w.observed, v.processed = w.processed,
         NEW s \in Run, Running(s), s.pc # "expand", s.queue = r.queue,
         s.usable = r.usable, PositionsAgree(v, s)
  PROVE  Consistent(v, s)
<1>1. IsFiniteSet(v.facts)
  BY DEF Consistent
<1>2. QueuesAgree(v, s)
  <2>1. s.pc # "seed"
    BY DEF Running
  <2> QED
    BY <2>1 DEF Consistent, QueuesAgree, Asked
<1>3. CountedOnce(v, s)
  BY DEF Consistent, CountedOnce
<1> QED
  BY <1>1, <1>2, <1>3 DEF Consistent

Tables(w) ==
  /\ w \in Workspace /\ IsFiniteSet(w.facts)
  /\ w.counted = Cardinality(w.facts) /\ w.counted <= Target
  /\ {o[1] : o \in w.observed} = w.facts

RecordedInto(w, v, index, p, failed) ==
  /\ Tables(v) /\ Cardinality(v.facts \ w.facts) \in Nat
  /\ v.counted = w.counted + Cardinality(v.facts \ w.facts)
  /\ v.requests = [w.requests EXCEPT ![p] = IF failed THEN "failed" ELSE "success"]
  /\ v.processed = AtLeast(w.processed, index)
  /\ v.queue = w.queue /\ v.id = w.id

(* Recording a player: new facts are counted, each with its observer.      *)
LEMMA RecordedTables ==
  ASSUME NEW w, Tables(w),
         NEW index \in Nat \ {0}, NEW p \in Player, NEW battles \in Seq(Battle),
         NEW failed \in BOOLEAN, NEW v, v = Recorded(w, index, p, battles, failed)
  PROVE  RecordedInto(w, v, index, p, failed)
<1> DEFINE F == Stored(w.facts, p, battles)
           news == {Fact(b, p) : b \in Range(battles)}
           seen == news \cap F
           O == w.observed \cup (seen \X {p})
           C == w.counted + Cardinality(F \ w.facts)
           result == IF failed THEN "failed" ELSE "success"
           R == [w.requests EXCEPT ![p] = result]
           P == AtLeast(w.processed, index)
<1>0. /\ w \in Workspace /\ IsFiniteSet(w.facts)
      /\ w.counted = Cardinality(w.facts) /\ w.counted <= Target
      /\ {o[1] : o \in w.observed} = w.facts
  BY DEF Tables
<1>1. /\ IsFiniteSet(F) /\ Cardinality(F) <= Target
      /\ w.facts \subseteq F /\ F \subseteq w.facts \cup news
  BY <1>0, StoredFacts
<1>2. news \subseteq Facts
  BY DEF Facts, Range
<1> HIDE DEF F, news
<1>3. w.facts \in SUBSET Facts /\ w.observed \in SUBSET (Facts \X Player)
  BY <1>0 DEF Workspace
<1>4. F \in SUBSET Facts /\ O \in SUBSET (Facts \X Player)
  BY <1>1, <1>2, <1>3
<1>5. {o[1] : o \in O} = F
  <2>1. ASSUME NEW x \in F PROVE \E o \in O : x = o[1]
    <3>1. CASE x \in w.facts
      BY <1>0, <3>1
    <3>2. CASE x \notin w.facts
      <4>1. <<x, p>> \in O
        BY <1>1, <2>1, <3>2
      <4> QED
        BY <4>1
    <3> QED
      BY <3>1, <3>2
  <2>2. ASSUME NEW o \in O PROVE o[1] \in F
    <3>1. CASE o \in w.observed
      BY <1>0, <1>1, <3>1
    <3>2. CASE o \in seen \X {p}
      BY <3>2
    <3> QED
      BY <3>1, <3>2
  <2> HIDE DEF O
  <2> QED
    BY <2>1, <2>2
<1>6. Cardinality(F \ w.facts) \in Nat /\ C = Cardinality(F) /\ C \in Nat
  <2>1. IsFiniteSet(F \ w.facts)
    BY <1>1, FS_Difference
  <2>2. Cardinality(F \ w.facts) = Cardinality(F) - Cardinality(F \cap w.facts)
    BY <1>1, FS_Difference
  <2>3. F \cap w.facts = w.facts
    BY <1>1
  <2>4. Cardinality(F) \in Nat /\ Cardinality(w.facts) \in Nat /\ Cardinality(F \ w.facts) \in Nat
    BY <1>0, <1>1, <2>1, FS_CardinalityType
  <2>5. Cardinality(F \cap w.facts) = Cardinality(w.facts)
    BY <2>3, Zenon
  <2> DEFINE difference == Cardinality(F \ w.facts)
             overlap == Cardinality(F \cap w.facts)
  <2>6. /\ difference = Cardinality(F) - overlap /\ overlap = w.counted
        /\ C = w.counted + difference /\ difference \in Nat
    BY <1>0, <2>2, <2>4, <2>5, Zenon
  <2> HIDE DEF difference, overlap, C
  <2>7. C = Cardinality(F)
    BY <1>0, <2>4, <2>6
  <2> QED
    BY <2>4, <2>7
<1>7. /\ R \in [Player -> {"none", "failed", "success"}]
      /\ R = [w.requests EXCEPT ![p] = IF failed THEN "failed" ELSE "success"]
  BY <1>0 DEF Workspace
<1>8. P \in Nat
  BY <1>0 DEF AtLeast, Workspace
<1>9. v = [w EXCEPT !.facts = F, !.observed = @ \cup (seen \X {p}),
                    !.counted = @ + Cardinality(F \ w.facts),
                    !.requests = [@ EXCEPT ![p] = result], !.processed = AtLeast(@, index)]
  BY DEF Recorded, F, news
<1> HIDE DEF seen, result
<1>10. /\ v \in Workspace /\ v.facts = F /\ v.observed = O /\ v.counted = C /\ v.requests = R
       /\ v.processed = P /\ v.queue = w.queue /\ v.id = w.id
  <2>1. /\ v.facts = F /\ v.observed = O /\ v.counted = C /\ v.requests = R
        /\ v.processed = P /\ v.queue = w.queue /\ v.id = w.id
    BY <1>0, <1>9 DEF Workspace
  <2>2. v = [w EXCEPT !.facts = v.facts, !.observed = v.observed, !.counted = v.counted,
                      !.requests = v.requests, !.processed = v.processed]
    BY <1>0, <1>9 DEF Workspace
  <2> HIDE DEF O, C, R, P
  <2> QED
    BY <1>0, <1>4, <1>6, <1>7, <1>8, <2>1, <2>2 DEF Workspace
<1> HIDE DEF O, C, R, P
<1>11. v.counted = w.counted + Cardinality(v.facts \ w.facts)
  BY <1>10 DEF C
<1>12. v.processed = AtLeast(w.processed, index)
  BY <1>10 DEF P
<1> QED
  BY <1>1, <1>5, <1>6, <1>7, <1>10, <1>11, <1>12 DEF Tables, RecordedInto

-----------------------------------------------------------------------------
(* One lemma per action that does more than move the run.                  *)

LEMMA OpeningKeeps ==
  ASSUME CheckpointInv, OpenWorkspace
  PROVE  CheckpointInv'
<1> DEFINE v == ws'
           s == run'
           w == IF ws.limited \/ ws.old THEN EmptyWorkspace(ws.id + 1) ELSE ws
<1>1. ws \in Workspace /\ Consistent(ws, Idle)
  BY RunEnds DEF CheckpointInv, Consistent
<1>2. Consistent(w, Idle)
  <2>1. ws.id + 1 \in Nat
    BY <1>1 DEF Workspace
  <2> QED
    BY <1>1, <2>1, EmptyConsistent
<1>3. v = IF ~OverBudget(w) /\ w.queue = NoQueue /\ w.processed > 0
          THEN EmptyWorkspace(w.id + 1) ELSE w
  BY DEF OpenWorkspace, Opened
<1> HIDE DEF v, w
<1>4. w.id + 1 \in Nat /\ w.processed \in Nat
  BY <1>2 DEF Consistent, Workspace
<1>5. /\ Consistent(v, Idle)
      /\ OverBudget(v) \/ v.queue # NoQueue \/ v.processed = 0
  <2>1. CASE ~OverBudget(w) /\ w.queue = NoQueue /\ w.processed > 0
    <3>1. v = EmptyWorkspace(w.id + 1)
      BY <1>3, <2>1
    <3> QED
      BY <1>4, <3>1, EmptyConsistent, EmptyState
  <2>2. CASE ~(~OverBudget(w) /\ w.queue = NoQueue /\ w.processed > 0)
    <3>1. v = w
      BY <1>3, <2>2
    <3> QED
      BY <1>2, <1>4, <2>2, <3>1
  <2> QED
    BY <2>1, <2>2
<1>6. /\ v \in Workspace /\ IsFiniteSet(v.facts) /\ v.counted = Cardinality(v.facts)
      /\ v.counted \in Nat /\ v.processed \in Nat
  BY <1>5 DEF Consistent, CountedOnce, Workspace
<1>7. /\ Idle \in Run /\ Idle.start = 0 /\ Idle.usable = 0
      /\ "seed" \in Phases /\ "batch" \in Phases
  BY IdleRun DEF Phases
<1>8. CASE s = Idle
  BY <1>5, <1>8 DEF CheckpointInv, v
<1>9. CASE s = [Idle EXCEPT !.pc = "seed"] /\ v.queue = NoQueue /\ ~OverBudget(v)
  <2>1. s \in Run /\ s.pc = "seed" /\ s.start = 0 /\ s.usable = 0
    BY <1>7, <1>9 DEF Run
  <2> HIDE DEF s
  <2>2. v.processed = 0
    BY <1>5, <1>9
  <2>3. QueuesAgree(v, s)
    BY <1>5, <1>9, <2>1, <2>2 DEF Consistent, QueuesAgree, Running
  <2>4. PositionsAgree(v, s) /\ CountedOnce(v, s)
    BY <1>5, <2>1 DEF Consistent, PositionsAgree, CountedOnce, Running
  <2> QED
    BY <1>6, <2>1, <2>3, <2>4 DEF CheckpointInv, Consistent, v, s
<1>10. CASE s = Resumed(v) /\ v.queue # NoQueue
  <2>1. v.queue \in Queue
    BY <1>5, <1>10 DEF Consistent, QueuesAgree, Sound
  <2>2. /\ s \in Run /\ s.pc = "batch" /\ s.queue = v.queue
        /\ s.start = v.processed /\ s.usable = v.counted
    BY <1>6, <1>7, <1>10, <2>1 DEF Run, Resumed
  <2> HIDE DEF s
  <2>3. QueuesAgree(v, s)
    BY <1>5, <1>10, <2>2 DEF Consistent, QueuesAgree, Running
  <2>4. PositionsAgree(v, s) /\ CountedOnce(v, s)
    BY <1>5, <1>6, <2>2 DEF Consistent, PositionsAgree, CountedOnce, Running
  <2> QED
    BY <1>6, <2>2, <2>3, <2>4 DEF CheckpointInv, Consistent, v, s
<1>11. s = IF OverBudget(v) THEN Idle
           ELSE IF v.queue = NoQueue THEN [Idle EXCEPT !.pc = "seed"] ELSE Resumed(v)
  BY DEF OpenWorkspace, v
<1> QED
  BY <1>8, <1>9, <1>10, <1>11

LEMMA SeedsSound == Sound(Seeds) /\ Len(Seeds) <= PlayerLimit
<1> DEFINE N == AtMost(Len(Leaderboard), AtMost(SeedLimit, PlayerLimit))
<1>1. /\ Leaderboard \in Seq(Range(Leaderboard)) /\ Len(Leaderboard) \in Nat
      /\ \A i, j \in DOMAIN Leaderboard : Leaderboard[i] = Leaderboard[j] => i = j
      /\ SeedLimit \in Nat /\ PlayerLimit \in Nat
  BY CollectionAssumption DEF IsInjective
<1>2. N \in Nat /\ N <= Len(Leaderboard) /\ N <= PlayerLimit
  BY <1>1 DEF AtMost
<1> HIDE DEF N
<1>3. \A i \in 1 .. N : i \in DOMAIN Leaderboard /\ Leaderboard[i] \in Player
  BY <1>1, <1>2 DEF Player
<1>4. Seeds = [i \in 1 .. N |-> [tag |-> Leaderboard[i], ranked |-> TRUE]]
  BY DEF Seeds, N
<1>5. \A i \in 1 .. N : Seeds[i] \in Entry /\ Seeds[i].tag = Leaderboard[i]
  BY <1>3, <1>4 DEF Entry
<1>6. DOMAIN Seeds = 1 .. N /\ Seeds \in Seq(Entry) /\ Len(Seeds) = N
  <2>1. Seeds \in [1 .. N -> Entry]
    BY <1>4, <1>5
  <2> QED
    BY <1>2, <2>1
<1>7. Seeds \in Queue
  BY <1>2, <1>6, QueueTypes
<1> QED
  BY <1>1, <1>2, <1>3, <1>5, <1>6, <1>7 DEF Sound

LEMMA SeedingKeeps ==
  ASSUME CheckpointInv, SeedPlayers
  PROVE  CheckpointInv'
<1> DEFINE v == ws'
           s == run'
<1>1. /\ ws \in Workspace /\ run \in Run /\ run.pc = "seed" /\ ws.processed = 0
      /\ run.start = 0 /\ run.usable = 0
      /\ ws.facts = {} /\ \A p \in Player : ws.requests[p] = "none"
  BY DEF CheckpointInv, Consistent, QueuesAgree, SeedPlayers
<1>2. Sound(Seeds) /\ Seeds \in Queue /\ Len(Seeds) \in Nat
  BY SeedsSound, QueueTypes DEF Sound
<1>3. /\ v \in Workspace /\ v.queue = Seeds /\ v.requests = ws.requests /\ v.facts = ws.facts
      /\ v.counted = ws.counted /\ v.observed = ws.observed /\ v.processed = 0
  BY <1>1, <1>2 DEF SeedPlayers, Workspace
<1>4. /\ s \in Run /\ s.pc = "batch" /\ s.queue = Seeds /\ s.start = 0 /\ s.usable = 0
  BY <1>1, <1>2 DEF SeedPlayers, Run, Phases
<1> HIDE DEF v, s
<1>5. Asked(v, Seeds)
  BY <1>1, <1>2, <1>3 DEF Asked
<1>6. QueuesAgree(v, s)
  BY <1>1, <1>2, <1>3, <1>4, <1>5 DEF CheckpointInv, Consistent, QueuesAgree, Running
<1>7. PositionsAgree(v, s)
  BY <1>3, <1>4 DEF PositionsAgree, Running
<1>8. CountedOnce(v, s) /\ IsFiniteSet(v.facts)
  BY <1>1, <1>3, <1>4, FS_EmptySet DEF CheckpointInv, Consistent, CountedOnce, Running
<1> QED
  BY <1>3, <1>4, <1>6, <1>7, <1>8 DEF CheckpointInv, Consistent, v, s

LEMMA FetchingKeeps ==
  ASSUME CheckpointInv, FetchBatch
  PROVE  CheckpointInv'
<1> DEFINE v == ws'
           s == run'
           rest == Len(run.queue) - run.start
           size == AtMost(Concurrency, rest)
           end == AtMost(run.start + Concurrency, Len(run.queue))
<1>1. /\ ws \in Workspace /\ run \in Run /\ run.pc = "batch" /\ run.start = ws.processed
      /\ run.start < Len(run.queue) /\ Len(run.queue) \in 0 .. PlayerLimit
      /\ Concurrency \in Nat \ {0} /\ run.start \in Nat /\ PlayerLimit \in Nat
  BY CollectionAssumption, QueueTypes
  DEF CheckpointInv, Consistent, PositionsAgree, FetchBatch, Run
<1>2. /\ size \in Nat /\ end \in 0 .. PlayerLimit /\ end = run.start + size
      /\ end <= Len(run.queue)
  BY <1>1 DEF AtMost
<1>3. PICK failing \in SUBSET (run.start + 1 .. end), limited \in BOOLEAN :
        run' = [run EXCEPT
          !.pc = "record", !.limited = @ \/ limited, !.next = end,
          !.fetched = [i \in 1 .. size |->
                         [index |-> run.start + i, failed |-> run.start + i \in failing]]]
  BY DEF FetchBatch
<1> DEFINE batch == [i \in 1 .. size |->
                       [index |-> run.start + i, failed |-> run.start + i \in failing]]
<1> HIDE DEF size, end
<1>4. \A i \in 1 .. size : batch[i] \in Result /\ batch[i].index = run.start + i
  BY <1>1, <1>2 DEF Result
<1>5. batch \in Seq(Result) /\ Len(batch) = size
  <2>1. batch \in [1 .. size -> Result]
    BY <1>4
  <2> HIDE DEF batch
  <2> QED
    BY <1>2, <2>1
<1>6. "record" \in Phases /\ (run.limited \/ limited) \in BOOLEAN
  BY <1>1, <1>3 DEF Phases, Run
<1>7. /\ s \in Run /\ s.pc = "record" /\ s.queue = run.queue /\ s.start = run.start
      /\ s.usable = run.usable /\ s.next = end /\ s.fetched = batch
  <2> DEFINE l == run.limited \/ limited
  <2>1. s = [run EXCEPT !.pc = "record", !.limited = l, !.next = end, !.fetched = batch]
    BY <1>3
  <2> HIDE DEF batch, l, s
  <2>2. l \in BOOLEAN
    BY <1>6 DEF l
  <2> QED
    BY <1>1, <1>2, <1>5, <1>6, <2>1, <2>2 DEF Run
<1>8. v = ws
  BY DEF FetchBatch
<1> HIDE DEF batch, v, s
<1>9. PositionsAgree(v, s)
  BY <1>1, <1>2, <1>4, <1>5, <1>7, <1>8 DEF PositionsAgree
<1>10. Consistent(v, s)
  BY <1>1, <1>7, <1>8, <1>9, RunMoves DEF CheckpointInv, Running
<1> QED
  BY <1>10 DEF CheckpointInv, v, s

(* What is recorded next is the first player behind the checkpoint, whom   *)
(* nobody asked yet.                                                       *)
LEMMA NextUnasked ==
  ASSUME CheckpointInv, run.pc = "record", run.fetched # <<>>
  PROVE  LET result == Head(run.fetched)
             entry == run.queue[result.index]
         IN /\ result.index = ws.processed + 1 /\ result.index \in 1 .. Len(run.queue)
            /\ result.index \in 1 .. PlayerLimit /\ result.failed \in BOOLEAN
            /\ entry \in Entry /\ ws.requests[entry.tag] = "none"
            /\ run.next = ws.processed + Len(run.fetched) /\ run.next <= Len(run.queue)
            /\ \A i \in DOMAIN run.fetched : run.fetched[i].index = ws.processed + i
<1> DEFINE result == Head(run.fetched)
           entry == run.queue[result.index]
<1>1. /\ ws \in Workspace /\ run \in Run /\ Sound(run.queue) /\ Asked(ws, run.queue)
      /\ run.next = ws.processed + Len(run.fetched) /\ run.next <= Len(run.queue)
      /\ \A i \in DOMAIN run.fetched : run.fetched[i].index = ws.processed + i
  BY DEF CheckpointInv, Consistent, QueuesAgree, PositionsAgree, Running
<1>2. /\ run.fetched \in Seq(Result) /\ run.queue \in Seq(Entry) /\ ws.processed \in Nat
      /\ Len(run.queue) \in Nat /\ Len(run.queue) <= PlayerLimit /\ PlayerLimit \in Nat
  BY <1>1, QueueTypes, CollectionAssumption DEF Run, Workspace, Sound
<1>3. result = run.fetched[1] /\ result \in Result /\ Len(run.fetched) \in Nat \ {0}
  BY <1>2
<1> HIDE DEF result
<1>4. result.index = ws.processed + 1 /\ result.index \in 1 .. Len(run.queue)
  BY <1>1, <1>2, <1>3
<1>5. entry \in Entry /\ result.failed \in BOOLEAN
  BY <1>2, <1>3, <1>4 DEF Result
<1>6. ws.requests[entry.tag] = "none"
  <2>1. ASSUME ws.requests[entry.tag] # "none" PROVE FALSE
    <3>1. entry.tag \in Player
      BY <1>5 DEF Entry
    <3>2. PICK i \in DOMAIN run.queue : i <= ws.processed /\ run.queue[i].tag = entry.tag
      BY <1>1, <2>1, <3>1 DEF Asked
    <3>3. result.index \in DOMAIN run.queue /\ i # result.index
      BY <1>2, <1>4, <3>2
    <3> QED
      BY <1>1, <3>2, <3>3 DEF Sound
  <2> QED
    BY <2>1
<1> QED
  BY <1>1, <1>2, <1>4, <1>5, <1>6 DEF result

LEMMA RecordingKeeps ==
  ASSUME CheckpointInv, RecordPlayer
  PROVE  CheckpointInv'
<1> DEFINE v == ws'
           s == run'
           result == Head(run.fetched)
           index == result.index
           entry == run.queue[index]
           battles == IF result.failed THEN <<>> ELSE Selected(entry.tag)
           queue == IF Expand /\ entry.ranked /\ ~result.failed
                    THEN Expanded(run.queue, entry.tag) ELSE run.queue
<1>1. run.pc = "record" /\ run.fetched # <<>>
  BY DEF RecordPlayer
<1>2. /\ ws \in Workspace /\ run \in Run /\ IsFiniteSet(ws.facts)
      /\ ws.counted = Cardinality(ws.facts) /\ ws.counted <= Target
      /\ {o[1] : o \in ws.observed} = ws.facts /\ run.usable = ws.counted
      /\ Sound(run.queue) /\ Asked(ws, run.queue) /\ ws.queue = run.queue
      /\ run.start <= ws.processed
  BY <1>1 DEF CheckpointInv, Consistent, QueuesAgree, PositionsAgree, CountedOnce, Running
<1>3. /\ index = ws.processed + 1 /\ index \in 1 .. Len(run.queue)
      /\ index \in 1 .. PlayerLimit /\ result.failed \in BOOLEAN
      /\ entry \in Entry /\ entry.tag \in Player
      /\ run.next = ws.processed + Len(run.fetched) /\ run.next <= Len(run.queue)
      /\ \A i \in DOMAIN run.fetched : run.fetched[i].index = ws.processed + i
  BY <1>1, NextUnasked DEF Entry
<1>4. battles \in Seq(Battle)
  <2>1. <<>> \in Seq(Battle) /\ Selected(entry.tag) \in Seq(Battle)
    BY <1>3, SelectedTypes
  <2> QED
    BY <2>1
<1>5. /\ Sound(queue) /\ Len(run.queue) <= Len(queue)
      /\ \A i \in 1 .. Len(run.queue) : queue[i] = run.queue[i]
  <2>1. Len(run.queue) <= Len(run.queue)
    BY <1>2, QueueTypes DEF Sound
  <2> QED
    BY <1>2, <1>3, <2>1, ExpandedSound
<1>6. /\ v = Recorded(ws, index, entry.tag, battles, result.failed)
      /\ s = IF OverBudget(v) THEN Idle
             ELSE [run EXCEPT !.pc = IF queue # run.queue THEN "expand" ELSE "record",
                              !.queue = queue,
                              !.usable = @ + Cardinality(v.facts \ ws.facts),
                              !.fetched = Tail(@)]
  BY DEF RecordPlayer
<1> HIDE DEF v, s, result, index, entry, battles, queue
<1>7. /\ v \in Workspace /\ IsFiniteSet(v.facts)
      /\ v.counted = Cardinality(v.facts) /\ v.counted <= Target
      /\ {o[1] : o \in v.observed} = v.facts
      /\ Cardinality(v.facts \ ws.facts) \in Nat
      /\ v.counted = ws.counted + Cardinality(v.facts \ ws.facts)
      /\ v.requests = [ws.requests EXCEPT
                         ![entry.tag] = IF result.failed THEN "failed" ELSE "success"]
      /\ v.processed = AtLeast(ws.processed, index) /\ v.queue = ws.queue
  <2>1. Tables(ws)
    BY <1>2 DEF Tables
  <2>2. RecordedInto(ws, v, index, entry.tag, result.failed)
    BY <1>3, <1>4, <1>6, <2>1, RecordedTables
  <2> QED
    BY <2>2 DEF RecordedInto, Tables
<1>8. v.processed = ws.processed + 1 /\ v.processed = index /\ ws.processed \in Nat
  BY <1>2, <1>3, <1>7 DEF AtLeast, Workspace
<1>9. /\ \A p \in Player : p # entry.tag => v.requests[p] = ws.requests[p]
      /\ v.requests[entry.tag] # "none"
  BY <1>2, <1>3, <1>7 DEF Workspace
<1>10. ASSUME NEW q, Sound(q), Len(run.queue) <= Len(q),
              \A i \in 1 .. Len(run.queue) : q[i] = run.queue[i]
       PROVE  Asked(v, q)
  <2>1. /\ Len(run.queue) \in Nat /\ Len(q) \in Nat /\ run.queue \in Seq(Entry)
    BY <1>2, <1>10, QueueTypes DEF Sound
  <2>2. v.processed <= Len(q) /\ q[index] = entry
    BY <1>3, <1>8, <1>10, <2>1 DEF entry
  <2>3. ASSUME v.counted < Target, NEW i \in DOMAIN q, i <= v.processed
        PROVE  v.requests[q[i].tag] # "none"
    <3>1. CASE i = index
      BY <1>9, <2>2, <3>1
    <3>2. CASE i # index
      <4>1. i <= ws.processed /\ i \in DOMAIN run.queue
        BY <1>3, <1>8, <2>1, <2>3, <3>2
      <4>2. q[i].tag = run.queue[i].tag /\ run.queue[i].tag \in Player
        <5>1. q[i] = run.queue[i] /\ run.queue[i] \in Entry
          BY <1>10, <2>1, <4>1
        <5> QED
          BY <5>1 DEF Entry
      <4>3. ws.counted < Target
        <5>1. ws.counted \in Nat /\ Target \in Nat
          BY <1>2, CollectionAssumption DEF Workspace
        <5> DEFINE new == Cardinality(v.facts \ ws.facts)
        <5>2. new \in Nat /\ v.counted = ws.counted + new
          BY <1>7
        <5> HIDE DEF new
        <5> QED
          BY <2>3, <5>1, <5>2
      <4>4. ws.requests[run.queue[i].tag] # "none"
        BY <1>2, <4>1, <4>3 DEF Asked
      <4> QED
        BY <1>9, <4>2, <4>4
    <3> QED
      BY <3>1, <3>2
  <2>4. ASSUME NEW p \in Player, v.requests[p] # "none"
        PROVE  \E i \in DOMAIN q : i <= v.processed /\ q[i].tag = p
    <3>1. CASE p = entry.tag
      BY <1>3, <1>8, <1>10, <2>1, <2>2, <3>1
    <3>2. CASE p # entry.tag
      <4>1. PICK i \in DOMAIN run.queue : i <= ws.processed /\ run.queue[i].tag = p
        BY <1>2, <1>9, <2>4, <3>2 DEF Asked
      <4>2. i \in DOMAIN q /\ i <= v.processed /\ q[i] = run.queue[i]
        BY <1>8, <1>10, <2>1, <4>1
      <4> QED
        BY <4>1, <4>2
    <3> QED
      BY <3>1, <3>2
  <2> QED
    BY <2>3, <2>4 DEF Asked
<1>11. Asked(v, run.queue) /\ Asked(v, queue)
  <2>1. Len(run.queue) <= Len(run.queue)
    BY <1>2, QueueTypes DEF Sound
  <2> QED
    BY <1>2, <1>5, <1>10, <2>1
<1>12. CASE OverBudget(v)
  <2>1. s = Idle /\ Idle \in Run /\ Idle.pc = "idle"
    BY <1>6, <1>12, IdleRun
  <2>2. QueuesAgree(v, s)
    BY <1>2, <1>7, <1>8, <1>11, <2>1 DEF QueuesAgree, Running
  <2>3. PositionsAgree(v, s) /\ CountedOnce(v, s)
    BY <1>7, <2>1 DEF PositionsAgree, CountedOnce, Running
  <2> QED
    BY <1>7, <2>1, <2>2, <2>3 DEF CheckpointInv, Consistent, v, s
<1>13. CASE ~OverBudget(v)
  <2> DEFINE phase == IF queue # run.queue THEN "expand" ELSE "record"
             usable == run.usable + Cardinality(v.facts \ ws.facts)
  <2>1. /\ phase \in Phases /\ phase \in {"record", "expand"}
        /\ phase = "record" => queue = run.queue
    BY DEF Phases
  <2>2. usable \in Nat /\ usable = v.counted
    BY <1>2, <1>7 DEF Workspace
  <2>3. /\ run.fetched \in Seq(Result) /\ Tail(run.fetched) \in Seq(Result)
        /\ Len(Tail(run.fetched)) = Len(run.fetched) - 1 /\ Len(run.fetched) \in Nat
        /\ \A i \in DOMAIN Tail(run.fetched) :
             Tail(run.fetched)[i].index = ws.processed + 1 + i
    <3>1. run.fetched \in Seq(Result)
      BY <1>2 DEF Run
    <3>2. /\ Tail(run.fetched) \in Seq(Result) /\ Len(run.fetched) \in Nat
          /\ Len(Tail(run.fetched)) = Len(run.fetched) - 1
      BY <1>1, <3>1
    <3>3. ASSUME NEW i \in DOMAIN Tail(run.fetched)
          PROVE  Tail(run.fetched)[i].index = ws.processed + 1 + i
      <4>1. /\ i \in Nat /\ i + 1 \in DOMAIN run.fetched
            /\ Tail(run.fetched)[i] = run.fetched[i + 1]
        BY <1>1, <3>1, <3>2
      <4>2. run.fetched[i + 1].index = ws.processed + (i + 1)
        BY <1>3, <4>1
      <4>3. Tail(run.fetched)[i].index = ws.processed + (i + 1)
        BY <4>1, <4>2, Zenon
      <4>4. ws.processed + (i + 1) = ws.processed + 1 + i
        BY <1>8, <4>1
      <4> QED
        BY <4>3, <4>4, Zenon
    <3> QED
      BY <3>1, <3>2, <3>3
  <2>4. s = [run EXCEPT !.pc = phase, !.queue = queue, !.usable = usable,
                        !.fetched = Tail(run.fetched)]
    BY <1>6, <1>13
  <2> HIDE DEF phase, usable
  <2>5. /\ s \in Run /\ s.pc = phase /\ s.queue = queue /\ s.usable = usable
        /\ s.fetched = Tail(run.fetched) /\ s.start = run.start /\ s.next = run.next
    BY <1>2, <1>5, <2>1, <2>2, <2>3, <2>4 DEF Run, Sound
  <2>6. QueuesAgree(v, s)
    BY <1>2, <1>5, <1>7, <1>8, <1>11, <2>1, <2>5 DEF QueuesAgree, Running
  <2>7. PositionsAgree(v, s)
    <3>1. run.start \in Nat /\ run.next \in Nat /\ s.next <= Len(s.queue)
      <4>1. Len(run.queue) \in Nat /\ Len(queue) \in Nat /\ run.start \in Nat /\ run.next \in Nat
        BY <1>2, <1>5, QueueTypes, CollectionAssumption DEF Sound, Run
      <4> QED
        BY <1>3, <1>5, <2>5, <4>1
    <3>2. /\ Running(s) => s.start <= v.processed
          /\ s.next = v.processed + Len(s.fetched)
      BY <1>2, <1>3, <1>8, <2>3, <2>5, <3>1
    <3>3. \A i \in DOMAIN s.fetched : s.fetched[i].index = v.processed + i
      BY <1>8, <2>3, <2>5
    <3> QED
      BY <2>1, <2>5, <3>1, <3>2, <3>3 DEF PositionsAgree
  <2>8. CountedOnce(v, s)
    BY <1>7, <2>2, <2>5 DEF CountedOnce
  <2> QED
    BY <1>7, <2>5, <2>6, <2>7, <2>8 DEF CheckpointInv, Consistent, v, s
<1> QED
  BY <1>12, <1>13

LEMMA SavingKeeps ==
  ASSUME CheckpointInv, SaveQueue
  PROVE  CheckpointInv'
<1> DEFINE v == ws'
           s == run'
<1>1. /\ ws \in Workspace /\ run \in Run /\ run.pc = "expand"
      /\ Sound(run.queue) /\ Asked(ws, run.queue)
  BY DEF SaveQueue, CheckpointInv, Consistent, QueuesAgree, Running
<1>2. /\ v \in Workspace /\ v.queue = run.queue /\ v.requests = ws.requests
      /\ v.facts = ws.facts /\ v.counted = ws.counted /\ v.observed = ws.observed
      /\ v.processed = ws.processed
  BY <1>1 DEF SaveQueue, Workspace, Sound
<1>3. /\ s \in Run /\ s.pc = "record" /\ s.queue = run.queue /\ s.start = run.start
      /\ s.usable = run.usable /\ s.next = run.next /\ s.fetched = run.fetched
  BY <1>1 DEF SaveQueue, Run, Phases
<1> HIDE DEF v, s
<1>4. QueuesAgree(v, s)
  BY <1>1, <1>2, <1>3 DEF CheckpointInv, Consistent, QueuesAgree, Asked, Running
<1>5. PositionsAgree(v, s)
  BY <1>1, <1>2, <1>3 DEF CheckpointInv, Consistent, PositionsAgree, Running
<1>6. CountedOnce(v, s) /\ IsFiniteSet(v.facts)
  BY <1>1, <1>2, <1>3 DEF CheckpointInv, Consistent, CountedOnce, Running
<1> QED
  BY <1>2, <1>3, <1>4, <1>5, <1>6 DEF CheckpointInv, Consistent, v, s

LEMMA BatchEndKeeps ==
  ASSUME CheckpointInv, NextBatch
  PROVE  CheckpointInv'
<1> DEFINE v == ws'
           s == run'
<1>1. /\ ws \in Workspace /\ run \in Run /\ run.pc = "record" /\ run.fetched = <<>>
      /\ run.start <= ws.processed /\ run.next = ws.processed + Len(run.fetched)
      /\ ws.processed \in Nat
  BY CollectionAssumption
  DEF NextBatch, CheckpointInv, Consistent, PositionsAgree, Running, Workspace
<1>2. run.next = ws.processed
  BY <1>1
<1>3. /\ v \in Workspace /\ v.queue = ws.queue /\ v.requests = ws.requests
      /\ v.facts = ws.facts /\ v.counted = ws.counted /\ v.observed = ws.observed
      /\ v.processed = ws.processed
  BY <1>1 DEF NextBatch, Workspace, Run
<1>4. /\ s \in Run /\ s.queue = run.queue /\ s.usable = run.usable
      /\ \/ s.pc = "tail" /\ s.start = run.start /\ (s.limited \/ s.usable >= Target)
         \/ s.pc = "batch" /\ s.start = run.next
  <2>1. "tail" \in Phases /\ "batch" \in Phases
    BY DEF Phases
  <2>2. CASE run' = [run EXCEPT !.pc = "tail"] /\ (run.limited \/ run.usable >= Target)
    BY <1>1, <2>1, <2>2 DEF Run
  <2>3. CASE run' = [run EXCEPT !.pc = "batch", !.start = run.next]
    BY <1>1, <1>2, <2>1, <2>3 DEF Run
  <2> QED
    BY <2>2, <2>3 DEF NextBatch
<1> HIDE DEF v, s
<1>5. PositionsAgree(v, s)
  BY <1>1, <1>2, <1>3, <1>4 DEF PositionsAgree
<1>6. Consistent(v, s)
  BY <1>1, <1>3, <1>4, <1>5, RunMoves DEF CheckpointInv, Running
<1> QED
  BY <1>6 DEF CheckpointInv, v, s

(* Who is asked again was asked. *)
LEMMA FailedBefore ==
  FailedRanked \subseteq Range(Leaderboard) /\ \A p \in FailedRanked : ws.requests[p] # "none"
  BY DEF FailedRanked

LEMMA RoundKeeps ==
  ASSUME CheckpointInv, StartRound
  PROVE  CheckpointInv'
<1> DEFINE s == run'
<1>1. /\ ws \in Workspace /\ run \in Run /\ run.pc = "tail" /\ Running(run)
      /\ run.start <= ws.processed /\ ws' = ws
  BY DEF StartRound, CheckpointInv, Consistent, PositionsAgree, Running
<1>2. /\ s \in Run /\ s.queue = run.queue /\ s.usable = run.usable /\ s.start = run.start
      /\ \/ s.pc = "finish"
         \/ /\ s.pc = "retry" /\ s.retry = FailedRanked
            /\ ~run.spent /\ ~run.limited /\ s.spent = run.spent /\ s.limited = run.limited
  <2>1. "finish" \in Phases /\ "retry" \in Phases
    BY DEF Phases
  <2>2. FailedRanked \in SUBSET Range(Leaderboard)
    BY FailedBefore
  <2>3. CASE run' = [run EXCEPT !.pc = "finish"]
    BY <1>1, <2>1, <2>3 DEF Run
  <2>4. CASE /\ run' = [run EXCEPT !.pc = "retry", !.round = @ + 1, !.retry = FailedRanked]
             /\ ~run.spent /\ ~run.limited
    <3>1. run.round + 1 \in Nat
      BY <1>1 DEF Run
    <3> QED
      BY <1>1, <2>1, <2>2, <2>4, <3>1 DEF Run
  <2> QED
    BY <2>3, <2>4 DEF StartRound
<1>3. run.spent \/ run.limited \/ run.usable >= Target \/ run.start >= Len(run.queue)
  BY <1>1 DEF CheckpointInv, Consistent, PositionsAgree
<1> HIDE DEF s
<1>4. PositionsAgree(ws, s)
  BY <1>1, <1>2, <1>3, FailedBefore DEF PositionsAgree
<1>5. Consistent(ws, s)
  BY <1>1, <1>2, <1>4, RunMoves DEF CheckpointInv, Running
<1> QED
  BY <1>1, <1>5 DEF CheckpointInv, s

(* Whoever is asked again is one of those the round found failed, and only *)
(* the target or the end of the queue lets a round begin.                  *)
LEMMA Retried ==
  ASSUME CheckpointInv, run.pc = "retry", NEW p \in BestRanked(run.retry)
  PROVE  /\ p \in run.retry /\ p \in Player
         /\ \A q \in run.retry : ws.requests[q] # "none"
         /\ ~run.spent /\ ~run.limited
         /\ run.usable >= Target \/ run.start >= Len(run.queue)
         /\ RetriedAt(p) \in Nat \ {0}
<1>1. run \in Run /\ PositionsAgree(ws, run)
  BY DEF CheckpointInv, Consistent
<1>2. p \in run.retry /\ p \in Range(Leaderboard)
  BY <1>1 DEF BestRanked, Run
<1>3. RetriedAt(p) \in Nat \ {0}
  BY <1>2, CollectionAssumption DEF RetriedAt, AtLeast
<1> QED
  BY <1>1, <1>2, <1>3 DEF PositionsAgree, Player

LEMMA RetryFailureKeeps ==
  ASSUME CheckpointInv, RetryFails
  PROVE  CheckpointInv'
<1> DEFINE v == ws'
           s == run'
<1>1. /\ ws \in Workspace /\ run \in Run /\ run.pc = "retry" /\ run.retry # {}
      /\ Running(run) /\ run.start <= ws.processed
  BY DEF RetryFails, CheckpointInv, Consistent, PositionsAgree, Running
<1>2. PositionsAgree(ws, run)
  BY DEF CheckpointInv, Consistent
<1>3. PICK limited \in BOOLEAN, p \in BestRanked(run.retry) :
        /\ ws' = [ws EXCEPT !.limited = @ \/ limited]
        /\ run' = IF limited THEN [run EXCEPT !.pc = "finish", !.limited = TRUE]
                  ELSE [run EXCEPT !.retry = @ \ {p}]
  BY DEF RetryFails
<1>4. /\ v \in Workspace /\ v.queue = ws.queue /\ v.requests = ws.requests
      /\ v.facts = ws.facts /\ v.counted = ws.counted /\ v.observed = ws.observed
      /\ v.processed = ws.processed
  <2>1. (ws.limited \/ limited) \in BOOLEAN
    BY DEF Workspace
  <2> QED
    BY <1>1, <1>3, <2>1 DEF Workspace
<1>5. /\ s \in Run /\ s.queue = run.queue /\ s.usable = run.usable /\ s.start = run.start
      /\ \/ s.pc = "finish"
         \/ /\ s.pc = "retry" /\ s.retry \subseteq run.retry
            /\ s.spent = run.spent /\ s.limited = run.limited
  <2>1. "finish" \in Phases
    BY DEF Phases
  <2>2. CASE run' = [run EXCEPT !.pc = "finish", !.limited = TRUE]
    BY <1>1, <2>1, <2>2 DEF Run
  <2>3. CASE run' = [run EXCEPT !.retry = @ \ {p}]
    BY <1>1, <2>3 DEF Run
  <2> QED
    BY <1>3, <2>2, <2>3
<1> HIDE DEF v, s
<1>6. PositionsAgree(v, s)
  BY <1>1, <1>2, <1>4, <1>5 DEF PositionsAgree
<1>7. Consistent(v, s)
  BY <1>1, <1>4, <1>5, <1>6, RunMoves DEF CheckpointInv, Running
<1> QED
  BY <1>7 DEF CheckpointInv, v, s

LEMMA RetryKeeps ==
  ASSUME CheckpointInv, RetryPlayer
  PROVE  CheckpointInv'
<1> DEFINE v == ws'
           s == run'
<1>1. run.pc = "retry" /\ run.retry # {} /\ Running(run)
  BY DEF RetryPlayer, Running
<1>2. /\ ws \in Workspace /\ run \in Run /\ Tables(ws) /\ run.usable = ws.counted
      /\ Sound(run.queue) /\ Asked(ws, run.queue) /\ ws.queue = run.queue
      /\ run.start <= ws.processed /\ ws.processed \in Nat /\ ws.counted \in Nat
      /\ run.start \in Nat
  BY <1>1
  DEF CheckpointInv, Consistent, QueuesAgree, PositionsAgree, CountedOnce, Tables, Workspace, Run
<1>3. PICK limited \in BOOLEAN, p \in BestRanked(run.retry) :
        LET w == Recorded(ws, RetriedAt(p), p, Selected(p), FALSE)
        IN /\ v = [w EXCEPT !.limited = @ \/ (limited /\ ~OverBudget(w))]
           /\ s = IF OverBudget(w) THEN Idle
                  ELSE [run EXCEPT !.usable = @ + Cardinality(w.facts \ ws.facts),
                                   !.retry = @ \ {p}, !.limited = limited,
                                   !.pc = IF limited THEN "finish" ELSE "retry"]
  BY DEF RetryPlayer
<1> DEFINE w == Recorded(ws, RetriedAt(p), p, Selected(p), FALSE)
           new == Cardinality(w.facts \ ws.facts)
<1>4. /\ p \in run.retry /\ p \in Player /\ RetriedAt(p) \in Nat \ {0}
      /\ \A q \in run.retry : ws.requests[q] # "none"
      /\ ~run.spent /\ ~run.limited
      /\ run.usable >= Target \/ run.start >= Len(run.queue)
  BY <1>1, Retried
<1>5. /\ v = [w EXCEPT !.limited = @ \/ (limited /\ ~OverBudget(w))]
      /\ s = IF OverBudget(w) THEN Idle
             ELSE [run EXCEPT !.usable = @ + new, !.retry = @ \ {p}, !.limited = limited,
                              !.pc = IF limited THEN "finish" ELSE "retry"]
  BY <1>3
<1>6. RecordedInto(ws, w, RetriedAt(p), p, FALSE)
  <2>1. Selected(p) \in Seq(Battle)
    BY <1>4, SelectedTypes
  <2> QED
    BY <1>2, <1>4, <2>1, RecordedTables
<1> HIDE DEF v, s, w
<1>7. /\ Tables(w) /\ w.requests = [ws.requests EXCEPT ![p] = "success"]
      /\ w.processed = AtLeast(ws.processed, RetriedAt(p)) /\ w.queue = ws.queue
      /\ w.counted = ws.counted + new /\ new \in Nat
  BY <1>6 DEF RecordedInto
<1> HIDE DEF new
<1>8. /\ v \in Workspace /\ v.queue = w.queue /\ v.requests = w.requests
      /\ v.facts = w.facts /\ v.counted = w.counted /\ v.observed = w.observed
      /\ v.processed = w.processed
  <2> DEFINE l == w.limited \/ (limited /\ ~OverBudget(w))
  <2>1. l \in BOOLEAN /\ w \in Workspace
    BY <1>7 DEF Tables, Workspace
  <2>2. v = [w EXCEPT !.limited = l]
    BY <1>5
  <2> HIDE DEF l
  <2> QED
    BY <2>1, <2>2 DEF Workspace
<1>9. Tables(v)
  BY <1>7, <1>8 DEF Tables
<1>10. \A q \in Player : ws.requests[q] # "none" <=> v.requests[q] # "none"
  <2>1. ws.requests[p] # "none"
    BY <1>4
  <2> QED
    BY <1>2, <1>4, <1>7, <1>8, <2>1 DEF Workspace
<1>11. /\ v.processed \in Nat \ {0} /\ ws.processed <= v.processed /\ v.queue = run.queue
       /\ v.counted = ws.counted + new
  BY <1>2, <1>4, <1>7, <1>8 DEF AtLeast
<1>12. Len(run.queue) \in Nat /\ run.queue \in Seq(Entry) /\ Target \in Nat
  BY <1>2, QueueTypes, CollectionAssumption DEF Sound
<1>13. Asked(v, run.queue)
  <2>1. ASSUME v.counted < Target, NEW i \in DOMAIN run.queue
        PROVE  v.requests[run.queue[i].tag] # "none"
    <3>1. ws.counted < Target
      BY <1>2, <1>7, <1>11, <1>12, <2>1
    <3>2. i <= ws.processed
      BY <1>2, <1>4, <1>12, <2>1, <3>1
    <3>3. run.queue[i].tag \in Player
      <4>1. run.queue[i] \in Entry
        BY <1>12, <2>1
      <4> QED
        BY <4>1 DEF Entry
    <3>4. ws.requests[run.queue[i].tag] # "none"
      BY <1>2, <2>1, <3>1, <3>2 DEF Asked
    <3> QED
      BY <1>10, <3>3, <3>4
  <2>2. ASSUME NEW q \in Player, v.requests[q] # "none"
        PROVE  \E i \in DOMAIN run.queue : i <= v.processed /\ run.queue[i].tag = q
    <3>1. PICK i \in DOMAIN run.queue : i <= ws.processed /\ run.queue[i].tag = q
      BY <1>2, <1>10, <2>2 DEF Asked
    <3>2. i <= v.processed
      BY <1>2, <1>11, <1>12, <3>1
    <3> QED
      BY <3>1, <3>2
  <2> QED
    BY <2>1, <2>2 DEF Asked
<1>14. CASE OverBudget(w)
  <2>1. s = Idle /\ Idle \in Run /\ Idle.pc = "idle"
    BY <1>5, <1>14, IdleRun
  <2>2. QueuesAgree(v, s)
    BY <1>2, <1>11, <1>13, <2>1 DEF QueuesAgree, Running
  <2>3. PositionsAgree(v, s) /\ CountedOnce(v, s)
    BY <1>9, <2>1 DEF PositionsAgree, CountedOnce, Tables, Running
  <2> QED
    BY <1>9, <2>1, <2>2, <2>3 DEF CheckpointInv, Consistent, Tables, v, s
<1>15. CASE ~OverBudget(w)
  <2> DEFINE phase == IF limited THEN "finish" ELSE "retry"
             usable == run.usable + new
             rest == run.retry \ {p}
  <2>1. phase \in Phases /\ phase \in {"finish", "retry"} /\ (phase = "retry" => ~limited)
    BY DEF Phases
  <2>2. usable \in Nat /\ usable = v.counted /\ run.usable <= usable
    BY <1>2, <1>7, <1>11
  <2>3. rest \in SUBSET Range(Leaderboard) /\ rest \subseteq run.retry
    BY <1>2 DEF Run
  <2>4. s = [run EXCEPT !.usable = usable, !.retry = rest, !.limited = limited, !.pc = phase]
    BY <1>5, <1>15
  <2> HIDE DEF phase, usable, rest
  <2>5. /\ s \in Run /\ s.pc = phase /\ s.queue = run.queue /\ s.usable = usable
        /\ s.retry = rest /\ s.start = run.start /\ s.spent = run.spent /\ s.limited = limited
    BY <1>2, <2>1, <2>2, <2>3, <2>4 DEF Run
  <2>6. QueuesAgree(v, s)
    BY <1>2, <1>11, <1>13, <2>1, <2>5 DEF QueuesAgree, Running
  <2>7. PositionsAgree(v, s)
    <3>1. \A q \in rest : v.requests[q] # "none"
      <4>1. rest \subseteq Player
        BY <2>3 DEF Player
      <4> QED
        BY <1>4, <1>10, <2>3, <4>1
    <3>2. s.usable >= Target \/ s.start >= Len(s.queue)
      BY <1>2, <1>4, <1>12, <2>2, <2>5
    <3>3. s.start <= v.processed
      BY <1>2, <1>11, <2>5
    <3> QED
      BY <1>4, <2>1, <2>5, <3>1, <3>2, <3>3 DEF PositionsAgree
  <2>8. CountedOnce(v, s)
    BY <1>9, <2>2, <2>5 DEF CountedOnce, Tables
  <2> QED
    BY <1>9, <2>5, <2>6, <2>7, <2>8 DEF CheckpointInv, Consistent, Tables, v, s
<1> QED
  BY <1>14, <1>15

(* The queue of a workspace can get lost with a crash. *)
LEMMA CrashKeeps ==
  ASSUME CheckpointInv, Crash
  PROVE  CheckpointInv'
<1> DEFINE v == ws'
<1>1. ws \in Workspace /\ Consistent(ws, Idle)
  BY RunEnds DEF CheckpointInv, Consistent
<1>2. CASE v = ws
  BY <1>1, <1>2 DEF Crash, CheckpointInv
<1>3. CASE v = [ws EXCEPT !.queue = NoQueue]
  <2>1. /\ v \in Workspace /\ v.queue = NoQueue /\ v.requests = ws.requests
        /\ v.facts = ws.facts /\ v.counted = ws.counted /\ v.observed = ws.observed
        /\ v.processed = ws.processed
    BY <1>1, <1>3 DEF Workspace
  <2>2. Idle.pc = "idle"
    BY IdleRun
  <2> HIDE DEF v
  <2>3. QueuesAgree(v, Idle)
    BY <1>1, <2>1, <2>2 DEF Consistent, QueuesAgree, Running
  <2>4. PositionsAgree(v, Idle) /\ CountedOnce(v, Idle)
    BY <1>1, <2>1, <2>2 DEF Consistent, PositionsAgree, CountedOnce, Running
  <2>5. Consistent(v, Idle)
    BY <1>1, <2>1, <2>3, <2>4 DEF Consistent
  <2> QED
    BY <2>5 DEF Crash, CheckpointInv, v
<1> QED
  BY <1>2, <1>3 DEF Crash

LEMMA AgingKeeps ==
  ASSUME CheckpointInv, FortnightPasses
  PROVE  CheckpointInv'
<1> DEFINE v == ws'
<1>1. /\ ws \in Workspace /\ run \in Run /\ run.pc = "idle" /\ run' = run
  BY DEF FortnightPasses, CheckpointInv, Consistent
<1>2. /\ v \in Workspace /\ v.queue = ws.queue /\ v.requests = ws.requests
      /\ v.facts = ws.facts /\ v.counted = ws.counted /\ v.observed = ws.observed
      /\ v.processed = ws.processed
  BY <1>1 DEF FortnightPasses, Workspace
<1> HIDE DEF v
<1>3. QueuesAgree(v, run)
  BY <1>1, <1>2 DEF CheckpointInv, Consistent, QueuesAgree, Asked, Running
<1>4. PositionsAgree(v, run) /\ CountedOnce(v, run)
  BY <1>1, <1>2 DEF CheckpointInv, Consistent, PositionsAgree, CountedOnce, Running
<1>5. Consistent(v, run)
  BY <1>1, <1>2, <1>3, <1>4 DEF CheckpointInv, Consistent
<1> QED
  BY <1>1, <1>5 DEF CheckpointInv, v

(* The steps that move the run and touch nothing else. *)
LEMMA MovesKeep ==
  ASSUME CheckpointInv,
         NoPlayerLeft \/ TimeIsUp \/ EndRound \/ RetryTimeIsUp \/ Deliver
  PROVE  CheckpointInv'
<1> DEFINE s == run'
<1>1. /\ ws \in Workspace /\ run \in Run /\ ws' = ws /\ Running(run) /\ run.pc # "expand"
  BY DEF CheckpointInv, Consistent, Running,
         NoPlayerLeft, TimeIsUp, EndRound, RetryTimeIsUp, Deliver
<1>2. /\ s \in Run /\ s.queue = run.queue /\ s.usable = run.usable /\ s.start = run.start
      /\ s.exhausted = run.exhausted
      /\ \/ s.pc = "finish"
         \/ run.pc = "deliver" /\ s.pc = "discard"
         \/ s.pc = "tail" /\ (s.spent \/ s.usable >= Target \/ s.start >= Len(s.queue))
  <2>1. {"tail", "finish", "discard"} \subseteq Phases
    BY DEF Phases
  <2>2. CASE NoPlayerLeft
    BY <1>1, <2>1, <2>2 DEF NoPlayerLeft, Run
  <2>6. CASE EndRound
    <3>1. run.usable >= Target \/ run.start >= Len(run.queue)
      BY <2>6 DEF EndRound, CheckpointInv, Consistent, PositionsAgree
    <3> QED
      BY <1>1, <2>1, <2>6, <3>1 DEF EndRound, Run
  <2>3. CASE TimeIsUp
    BY <1>1, <2>1, <2>3 DEF TimeIsUp, Run
  <2>4. CASE RetryTimeIsUp
    BY <1>1, <2>1, <2>4 DEF RetryTimeIsUp, Run
  <2>5. CASE Deliver
    BY <1>1, <2>1, <2>5 DEF Deliver, Run
  <2> QED
    BY <2>2, <2>3, <2>4, <2>5, <2>6
<1> HIDE DEF s
<1>3. PositionsAgree(ws, s)
  BY <1>1, <1>2 DEF CheckpointInv, Consistent, PositionsAgree
<1>4. Consistent(ws, s)
  BY <1>1, <1>2, <1>3, RunMoves DEF CheckpointInv, Running
<1> QED
  BY <1>1, <1>4 DEF CheckpointInv, s

LEMMA BuildingKeeps ==
  ASSUME CheckpointInv, BuildSnapshot
  PROVE  CheckpointInv'
<1> DEFINE s == run'
<1>1. /\ ws \in Workspace /\ run \in Run /\ run.pc = "finish" /\ ws' = ws /\ Running(run)
  BY DEF CheckpointInv, Consistent, Running, BuildSnapshot
<1>2. CASE s = Idle
  BY <1>1, <1>2, RunEnds DEF CheckpointInv
<1>3. CASE s = [run EXCEPT !.pc = "deliver", !.exhausted = SourceExhausted]
  <2>1. "deliver" \in Phases /\ SourceExhausted \in BOOLEAN
    BY DEF Phases, SourceExhausted
  <2>2. /\ s \in Run /\ s.pc = "deliver" /\ s.queue = run.queue /\ s.usable = run.usable
        /\ s.start = run.start /\ s.exhausted = SourceExhausted
    BY <1>1, <1>3, <2>1 DEF Run
  <2> HIDE DEF s
  <2>3. SourceExhausted => run.start >= Len(run.queue) /\ run.usable < Target
    BY DEF SourceExhausted
  <2>4. PositionsAgree(ws, s)
    BY <1>1, <2>2, <2>3 DEF CheckpointInv, Consistent, PositionsAgree
  <2>5. Consistent(ws, s)
    BY <1>1, <2>2, <2>4, RunMoves DEF CheckpointInv, Running
  <2> QED
    BY <1>1, <2>5 DEF CheckpointInv, s
<1> QED
  BY <1>2, <1>3 DEF BuildSnapshot

LEMMA EndsKeep ==
  ASSUME CheckpointInv, SeedingFails \/ Refused \/ DiscardWorkspace
  PROVE  CheckpointInv'
<1>1. run' = Idle /\ (ws' = ws \/ ws' = EmptyWorkspace(ws.id + 1))
  BY DEF SeedingFails, Refused, DiscardWorkspace
<1>2. ws.id + 1 \in Nat
  BY DEF CheckpointInv, Consistent, Workspace
<1> QED
  BY <1>1, <1>2, RunEnds, EmptyConsistent DEF CheckpointInv

-----------------------------------------------------------------------------
(* Theorems.                                                               *)

LEMMA NextKeeps ==
  ASSUME CheckpointInv, [Next]_vars
  PROVE  CheckpointInv'
<1>1. CASE OpenWorkspace
  BY <1>1, OpeningKeeps
<1>2. CASE SeedPlayers
  BY <1>2, SeedingKeeps
<1>3. CASE FetchBatch
  BY <1>3, FetchingKeeps
<1>4. CASE RecordPlayer
  BY <1>4, RecordingKeeps
<1>5. CASE SaveQueue
  BY <1>5, SavingKeeps
<1>6. CASE NextBatch
  BY <1>6, BatchEndKeeps
<1>7. CASE StartRound
  BY <1>7, RoundKeeps
<1>8. CASE RetryFails
  BY <1>8, RetryFailureKeeps
<1>9. CASE RetryPlayer
  BY <1>9, RetryKeeps
<1>10. CASE BuildSnapshot
  BY <1>10, BuildingKeeps
<1>11. CASE NoPlayerLeft \/ TimeIsUp \/ EndRound \/ RetryTimeIsUp \/ Deliver
  BY <1>11, MovesKeep
<1>12. CASE SeedingFails \/ Refused \/ DiscardWorkspace
  BY <1>12, EndsKeep
<1>13. CASE Crash
  BY <1>13, CrashKeeps
<1>14. CASE FortnightPasses
  BY <1>14, AgingKeeps
<1>15. CASE UNCHANGED vars
  BY <1>15 DEF CheckpointInv, vars
<1> QED
  BY <1>1, <1>2, <1>3, <1>4, <1>5, <1>6, <1>7, <1>8, <1>9, <1>10, <1>11, <1>12, <1>13,
     <1>14, <1>15
  DEF Next, CollectorStep

(* The inductive invariant, for any ranking and any ranks in it: nobody    *)
(* behind the checkpoint was asked, nobody before it was left out while    *)
(* the target is not reached, whatever was fetched, recorded, saved, lost  *)
(* or resumed, and the tables count each battle once.                      *)
THEOREM Checkpoint == Spec => []CheckpointInv
<1>1. Init => CheckpointInv
  <2>1. ASSUME Init PROVE Consistent(ws, run)
    <3>1. ws = EmptyWorkspace(1) /\ run = Idle
      BY <2>1 DEF Init
    <3> QED
      BY <3>1, EmptyConsistent
  <2> QED
    BY <2>1 DEF CheckpointInv
<1>2. CheckpointInv /\ [Next]_vars => CheckpointInv'
  BY NextKeeps
<1> QED
  BY <1>1, <1>2, PTL DEF Spec

(* The tables are well formed and agree: a battle is counted once however  *)
(* often it is observed, the target is never exceeded, every stored battle *)
(* has an observer, and a resumed run goes on with the workspace's count.  *)
THEOREM CountedTables == Spec => []CollectionInv
<1>1. ASSUME CheckpointInv PROVE CollectionInv
  <2>1. ws \in Workspace /\ run \in Run /\ CountedOnce(ws, run)
    BY <1>1 DEF CheckpointInv, Consistent
  <2>2. ws.queue # NoQueue => Sound(ws.queue)
    BY <1>1 DEF CheckpointInv, Consistent, QueuesAgree
  <2>3. ASSUME Sound(ws.queue)
        PROVE  ws.queue \in Queue /\ IsInjective([i \in DOMAIN ws.queue |-> ws.queue[i].tag])
    BY <2>3 DEF Sound, IsInjective
  <2>4. CollectionTypeOK
    BY <2>1, <2>2, <2>3 DEF CollectionTypeOK, Workspace, Run
  <2> QED
    BY <2>1, <2>4 DEF CollectionInv, EachBattleCountedOnce
<1> QED
  BY <1>1, Checkpoint, PTL

(* While the target is not reached the checkpoint skips nobody, for any    *)
(* ranking and ranks, logs, limits, number of parallel requests and of     *)
(* stopped runs; and a source reported exhausted was asked to its last     *)
(* queued player.                                                          *)
THEOREM CheckpointComplete == Spec => []NobodySkipped
<1>1. ASSUME CheckpointInv PROVE NobodySkipped
  <2>1. /\ ws.processed \in Nat /\ run.start \in Nat
        /\ Running(run) => /\ Sound(run.queue) /\ Asked(ws, run.queue)
                           /\ run.start <= ws.processed
        /\ run.pc \in {"deliver", "discard"} /\ run.exhausted =>
             run.start >= Len(run.queue) /\ run.usable < Target
        /\ ws.queue # NoQueue => Sound(ws.queue) /\ Asked(ws, ws.queue)
        /\ ws.counted = Cardinality(ws.facts) /\ (Running(run) => run.usable = ws.counted)
    BY <1>1
    DEF CheckpointInv, Consistent, QueuesAgree, PositionsAgree, CountedOnce, Workspace, Run
  <2>2. ASSUME ws.queue # NoQueue, Cardinality(ws.facts) < Target,
               NEW i \in 1 .. AtMost(ws.processed, Len(ws.queue))
        PROVE  ws.requests[ws.queue[i].tag] # "none"
    <3>1. Len(ws.queue) \in Nat
      BY <2>1, <2>2, QueueTypes DEF Sound
    <3>2. i \in DOMAIN ws.queue /\ i <= ws.processed
      <4>1. ws.queue \in Seq(Entry)
        BY <2>1, <2>2, QueueTypes DEF Sound
      <4> QED
        BY <2>1, <3>1, <4>1 DEF AtMost
    <3> QED
      BY <2>1, <2>2, <3>2 DEF Asked
  <2>3. ASSUME run.pc \in {"deliver", "discard"}, run.exhausted, NEW i \in DOMAIN run.queue
        PROVE  ws.requests[run.queue[i].tag] # "none"
    <3>1. Running(run)
      BY <2>3 DEF Running
    <3>2. run.queue \in Seq(Entry)
      BY <2>1, <3>1, QueueTypes DEF Sound
    <3>3. i <= ws.processed /\ ws.counted < Target
      BY <2>1, <2>3, <3>1, <3>2
    <3> QED
      BY <2>1, <3>1, <3>3 DEF Asked
  <2> QED
    BY <2>2, <2>3 DEF NobodySkipped
<1> QED
  BY <1>1, Checkpoint, PTL

(* What a step makes of the answers recorded in a workspace. *)
LEMMA AnswersKept ==
  ASSUME CheckpointInv, [Next]_vars, ws'.id = ws.id,
         NEW p \in Player, ws.requests[p] = "success"
  PROVE  ws'.requests[p] = "success"
<1> DEFINE v == ws'
<1>1. ws \in Workspace
  BY DEF CheckpointInv, Consistent
<1>2. ASSUME NEW id, v = EmptyWorkspace(id) PROVE v.id = id
  BY <1>2 DEF EmptyWorkspace
<1>3. CASE OpenWorkspace
  <2> DEFINE w == IF ws.limited \/ ws.old THEN EmptyWorkspace(ws.id + 1) ELSE ws
  <2>1. w.id \in {ws.id, ws.id + 1}
    BY DEF EmptyWorkspace
  <2>2. v = w \/ v = EmptyWorkspace(w.id + 1)
    BY <1>3 DEF OpenWorkspace, Opened
  <2>3. v = ws \/ v = EmptyWorkspace(ws.id + 1) \/ v = EmptyWorkspace(w.id + 1)
    BY <2>2
  <2>4. ws.id \in Nat /\ ws.id + 1 # ws.id /\ w.id + 1 # ws.id
    BY <1>1, <2>1 DEF Workspace
  <2> HIDE DEF v, w
  <2>5. v = ws
    BY <1>2, <2>3, <2>4 DEF v
  <2> QED
    BY <2>5 DEF v
<1>4. CASE RecordPlayer
  <2> DEFINE result == Head(run.fetched)
             entry == run.queue[result.index]
             battles == IF result.failed THEN <<>> ELSE Selected(entry.tag)
  <2>1. v = Recorded(ws, result.index, entry.tag, battles, result.failed)
    BY <1>4 DEF RecordPlayer
  <2>2. ws.requests[entry.tag] = "none"
    BY <1>4, NextUnasked DEF RecordPlayer
  <2> HIDE DEF entry, battles, result
  <2>3. v.requests = [ws.requests EXCEPT
                        ![entry.tag] = IF result.failed THEN "failed" ELSE "success"]
    BY <1>1, <2>1 DEF Recorded, Workspace
  <2> QED
    BY <1>1, <2>2, <2>3 DEF Workspace
<1>5. CASE RetryPlayer
  <2>1. PICK limited \in BOOLEAN, q \in BestRanked(run.retry) :
          LET w == Recorded(ws, RetriedAt(q), q, Selected(q), FALSE)
          IN v = [w EXCEPT !.limited = @ \/ (limited /\ ~OverBudget(w))]
    BY <1>5 DEF RetryPlayer
  <2> DEFINE w == Recorded(ws, RetriedAt(q), q, Selected(q), FALSE)
  <2>2. w.requests = [ws.requests EXCEPT ![q] = "success"]
    BY <1>1 DEF Recorded, Workspace
  <2>3. v.requests = w.requests
    <3>1. DOMAIN w = DOMAIN ws
      BY DEF Recorded
    <3>2. "requests" \in DOMAIN w
      BY <1>1, <3>1 DEF Workspace
    <3> HIDE DEF w
    <3> QED
      BY <2>1, <3>2 DEF w
  <2> HIDE DEF w
  <2> QED
    BY <1>1, <2>2, <2>3 DEF Workspace
<1>6. CASE DiscardWorkspace
  <2>1. ws.id \in Nat /\ ws.id + 1 # ws.id
    BY <1>1 DEF Workspace
  <2>2. v = EmptyWorkspace(ws.id + 1) \/ v = ws
    BY <1>6 DEF DiscardWorkspace
  <2> HIDE DEF v
  <2> QED
    BY <1>2, <2>1, <2>2 DEF v
<1>7. CASE SeedPlayers \/ SaveQueue \/ NextBatch \/ RetryFails \/ Crash \/ FortnightPasses
  <2>1. v.requests = ws.requests
    BY <1>1, <1>7 DEF SeedPlayers, SaveQueue, NextBatch, RetryFails, Crash, FortnightPasses,
                      Workspace
  <2> QED
    BY <2>1
<1>8. CASE \/ SeedingFails \/ NoPlayerLeft \/ TimeIsUp \/ FetchBatch \/ StartRound \/ EndRound
           \/ RetryTimeIsUp \/ BuildSnapshot \/ Deliver \/ Refused \/ UNCHANGED vars
  <2>1. ws' = ws
    BY <1>8 DEF SeedingFails, NoPlayerLeft, TimeIsUp, FetchBatch, StartRound, EndRound,
                RetryTimeIsUp, BuildSnapshot, Deliver, Refused, vars
  <2> QED
    BY <2>1
<1> QED
  BY <1>3, <1>4, <1>5, <1>6, <1>7, <1>8 DEF Next, CollectorStep

(* However often a run is stopped and resumed, a player whose log was      *)
(* recorded keeps that answer and is not the one recorded again.           *)
THEOREM NotAskedAgain == Spec => AnsweredStaysAnswered
<1>1. ASSUME CheckpointInv, [Next]_vars
      PROVE  \A p \in Player :
               ws.requests[p] = "success" /\ ws'.id = ws.id =>
                 /\ ws'.requests[p] = "success"
                 /\ RecordPlayer => run.queue[Head(run.fetched).index].tag # p
  <2>1. SUFFICES ASSUME NEW p \in Player, ws.requests[p] = "success", ws'.id = ws.id
                 PROVE  /\ ws'.requests[p] = "success"
                        /\ RecordPlayer => run.queue[Head(run.fetched).index].tag # p
    OBVIOUS
  <2>2. ws'.requests[p] = "success"
    BY <1>1, <2>1, AnswersKept
  <2>3. ASSUME RecordPlayer PROVE run.queue[Head(run.fetched).index].tag # p
    <3>1. ws.requests[run.queue[Head(run.fetched).index].tag] = "none"
      BY <1>1, <2>3, NextUnasked DEF RecordPlayer
    <3> QED
      BY <2>1, <3>1
  <2> QED
    BY <2>2, <2>3
<1> QED
  BY <1>1, Checkpoint, PTL DEF Spec, AnsweredStaysAnswered

==============================================================================
