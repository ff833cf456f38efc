-------------------------- MODULE AnswerStream_proofs --------------------------
(***************************************************************************)
(* Proofs about AnswerStream, for any queries and any length of the        *)
(* answers.                                                                *)
(***************************************************************************)
EXTENDS AnswerStream, SequenceTheorems, WellFoundedInduction, TLAPS

-----------------------------------------------------------------------------
(* Recursion over the positions of a sequence.                             *)

(* Some natural numbers have a least one. *)
LEMMA LeastIsOne ==
  ASSUME NEW S \in SUBSET Nat, S # {}
  PROVE  \E x \in S : \A y \in S : x <= y
<1> DEFINE R == {ss \in Nat \X Nat : ss[1] < ss[2]}
<1>1. \A x, y \in Nat : y < x => <<y, x>> \in R
  OBVIOUS
<1>2. IsWellFoundedOn(R, Nat)
  BY NatLessThanWellFounded DEF OpToRel
<1> HIDE DEF R
<1>3. \E x \in S : \A y \in S : ~(<<y, x>> \in R)
  BY <1>2, WFMin
<1>4. PICK x \in S : \A y \in S : ~(<<y, x>> \in R)
  BY <1>3
<1>5. ASSUME NEW y \in S PROVE x <= y
  <2>1. x \in Nat /\ y \in Nat /\ ~(y < x)
    BY <1>1, <1>4
  <2> QED
    BY <2>1
<1> QED
  BY <1>5

(* What holds at first and is kept by each step holds at every position. *)
LEMMA Reaches ==
  ASSUME NEW N \in Nat, NEW X, NEW f, f[0] \in X,
         \A n \in 1 .. N : f[n - 1] \in X => f[n] \in X
  PROVE  \A n \in 0 .. N : f[n] \in X
<1> DEFINE S == {n \in 0 .. N : f[n] \notin X}
<1>1. SUFFICES ASSUME S # {} PROVE FALSE
  OBVIOUS
<1>2. S \in SUBSET Nat
  OBVIOUS
<1> HIDE DEF S
<1>3. PICK m \in S : \A y \in S : m <= y
  BY <1>1, <1>2, LeastIsOne
<1>4. m \in 1 .. N /\ f[m] \notin X
  BY <1>3 DEF S
<1>5. m - 1 \in 0 .. N /\ m - 1 \notin S
  BY <1>3, <1>4
<1> QED
  BY <1>4, <1>5 DEF S

Solves(f, N, x, Rule) ==
  f = [n \in 0 .. N |-> IF n = 0 THEN x ELSE Rule[<<f[n - 1], n>>]]

(* A step function defines a sequence of values, each in its range. *)
LEMMA Recursion ==
  ASSUME NEW N \in Nat, NEW X, NEW x \in X, NEW Rule \in [X \X (1 .. N) -> X]
  PROVE  \E f : Solves(f, N, x, Rule) /\ \A n \in 0 .. N : f[n] \in X
<1> DEFINE S == {m \in 0 .. N : ~ \E f : Solves(f, m, x, Rule)}
<1>1. S = {}
  <2>1. SUFFICES ASSUME S # {} PROVE FALSE
    OBVIOUS
  <2>2. S \in SUBSET Nat
    OBVIOUS
  <2> HIDE DEF S
  <2>3. PICK m \in S : \A y \in S : m <= y
    BY <2>1, <2>2, LeastIsOne
  <2>4. m \in 0 .. N /\ ~ \E f : Solves(f, m, x, Rule)
    BY <2>3 DEF S
  <2>5. CASE m = 0
    <3> DEFINE g == [n \in 0 .. 0 |-> x]
    <3>1. Solves(g, 0, x, Rule)
      BY DEF Solves
    <3> QED
      BY <2>4, <2>5, <3>1
  <2>6. CASE m # 0
    <3>1. m - 1 \in 0 .. N /\ m - 1 \notin S
      BY <2>3, <2>4, <2>6
    <3>2. PICK f : Solves(f, m - 1, x, Rule)
      BY <3>1 DEF S
    <3> DEFINE g == [n \in 0 .. m |-> IF n = m THEN Rule[<<f[m - 1], m>>] ELSE f[n]]
    <3>3. ASSUME NEW n \in 0 .. m
          PROVE  g[n] = IF n = 0 THEN x ELSE Rule[<<g[n - 1], n>>]
      <4>1. CASE n = m
        <5>1. m \in 1 .. N /\ m \in 0 .. m /\ m - 1 \in 0 .. m /\ m - 1 # m
          BY <2>4, <2>6
        <5>2. g[m] = Rule[<<f[m - 1], m>>] /\ g[m - 1] = f[m - 1]
          BY <5>1, Zenon
        <5> HIDE DEF g
        <5> QED
          BY <4>1, <5>1, <5>2
      <4>2. CASE n # m
        <5>1. /\ n \in 0 .. (m - 1) /\ g[n] = f[n]
              /\ n # 0 => n - 1 \in 0 .. m /\ g[n - 1] = f[n - 1]
          BY <2>4, <2>6, <4>2
        <5>2. f[n] = IF n = 0 THEN x ELSE Rule[<<f[n - 1], n>>]
          BY <3>2, <5>1 DEF Solves
        <5> HIDE DEF g
        <5> QED
          BY <5>1, <5>2
      <4> QED
        BY <4>1, <4>2
    <3>4. Solves(g, m, x, Rule)
      BY <3>3, Zenon DEF Solves
    <3> QED
      BY <2>4, <3>4
  <2> QED
    BY <2>5, <2>6
<1>2. PICK f : Solves(f, N, x, Rule)
  BY <1>1
<1>3. f[0] = x /\ \A n \in 1 .. N : f[n] = Rule[<<f[n - 1], n>>]
  BY <1>2 DEF Solves
<1>4. \A n \in 0 .. N : f[n] \in X
  <2>1. \A n \in 1 .. N : f[n - 1] \in X => f[n] \in X
    BY <1>3
  <2> QED
    BY <1>3, <2>1, Reaches
<1> QED
  BY <1>2, <1>4

-----------------------------------------------------------------------------
(* The two recursive definitions.                                          *)

(* What is let through of a text is a text of supported pieces, not longer. *)
LEMMA KeptTypes ==
  ASSUME NEW S, NEW text \in Seq(S)
  PROVE  /\ Kept(text) \in Seq({s \in S : Supported(s)})
         /\ Len(Kept(text)) <= Len(text)
<1> DEFINE N == Len(text)
           F == {s \in S : Supported(s)}
           X == Seq(F)
           Next1(k, n) == IF Supported(text[n]) THEN Append(k, text[n]) ELSE k
           Step1 == [q \in X \X (1 .. N) |-> Next1(q[1], q[2])]
<1>1. N \in Nat /\ \A n \in 1 .. N : text[n] \in S
  OBVIOUS
<1>2. ASSUME NEW k \in X, NEW n \in 1 .. N PROVE Next1(k, n) \in X
  <2>1. CASE Supported(text[n])
    <3>1. text[n] \in F
      BY <1>1, <2>1
    <3> HIDE DEF F, N
    <3>2. Append(k, text[n]) \in X
      BY <3>1
    <3> QED
      BY <2>1, <3>2
  <2> QED
    BY <2>1
<1>3. Step1 \in [X \X (1 .. N) -> X] /\ <<>> \in X
  <2>1. <<>> \in X
    OBVIOUS
  <2> HIDE DEF X, N, Next1
  <2> QED
    BY <1>2, <2>1
<1>4. PICK g : Solves(g, N, <<>>, Step1) /\ \A n \in 0 .. N : g[n] \in X
  <2> HIDE DEF N, Step1, X
  <2> QED
    BY <1>1, <1>3, Recursion
<1>5. g = [n \in 0 .. N |-> IF n = 0 THEN <<>> ELSE Next1(g[n - 1], n)]
  <2> HIDE DEF N, X, Next1
  <2>1. ASSUME NEW n \in 1 .. N
        PROVE  Step1[<<g[n - 1], n>>] = Next1(g[n - 1], n)
    <3>1. g[n - 1] \in X
      BY <1>1, <1>4
    <3> QED
      BY <3>1
  <2> HIDE DEF Step1
  <2>2. g = [n \in 0 .. N |-> IF n = 0 THEN <<>> ELSE Step1[<<g[n - 1], n>>]]
    BY <1>4, Zenon DEF Solves
  <2>3. ASSUME NEW n \in 0 .. N
        PROVE  (IF n = 0 THEN <<>> ELSE Step1[<<g[n - 1], n>>])
               = (IF n = 0 THEN <<>> ELSE Next1(g[n - 1], n))
    <3>1. n # 0 => n \in 1 .. N
      BY <1>1
    <3> QED
      BY <3>1, <2>1, Zenon
  <2> QED
    BY <2>2, <2>3, Zenon
<1>6. PICK f : /\ f = [n \in 0 .. N |-> IF n = 0 THEN <<>> ELSE Next1(f[n - 1], n)]
               /\ Kept(text) = f[N]
  BY <1>5 DEF Kept, NoText
<1> DEFINE Y == {k \in X \X (0 .. N) : Len(k[1]) <= k[2]}
           h == [n \in 0 .. N |-> <<f[n], n>>]
<1>7. f[0] = <<>> /\ \A n \in 1 .. N : f[n] = Next1(f[n - 1], n)
  <2> HIDE DEF N, Next1
  <2> QED
    BY <1>1, <1>6
<1>8. h[0] \in Y
  <2>1. 0 \in 0 .. N /\ Len(<<>>) <= 0
    BY <1>1
  <2>2. h[0] = <<<<>>, 0>>
    BY <1>7, <2>1
  <2> HIDE DEF X, N, h
  <2> QED
    BY <1>3, <2>1, <2>2
<1>9. \A n \in 1 .. N : h[n - 1] \in Y => h[n] \in Y
  <2> TAKE n \in 1 .. N
  <2> HAVE h[n - 1] \in Y
  <2>1. f[n - 1] \in X /\ Len(f[n - 1]) <= n - 1
    <3> HIDE DEF X, N
    <3> QED
      BY <1>1
  <2>2. Next1(f[n - 1], n) \in X
    BY <1>2, <2>1
  <2>3. Len(Next1(f[n - 1], n)) <= n
    <3> HIDE DEF F, N
    <3> QED
      BY <1>1, <2>1
  <2>4. h[n] = <<f[n], n>> /\ n \in 0 .. N
    <3> HIDE DEF N
    <3> QED
      BY <1>1
  <2> HIDE DEF X, N, Next1, h
  <2> QED
    BY <1>7, <2>2, <2>3, <2>4
<1>10. \A n \in 0 .. N : h[n] \in Y
  <2> HIDE DEF h, Y, N
  <2> QED
    BY <1>1, <1>8, <1>9, Reaches
<1>11. h[N] \in Y /\ N \in 0 .. N
  BY <1>1, <1>10
<1> HIDE DEF N, X
<1> QED
  BY <1>6, <1>11 DEF X, N

(* Sections of supported pieces make an answer of them. *)
LEMMA JoinedTypes ==
  ASSUME NEW S, NEW texts \in Seq(Seq(S))
  PROVE  Joined(texts) \in Seq(S)
<1> DEFINE N == Len(texts)
           X == Seq(S)
           Step1 == [q \in X \X (1 .. N) |-> q[1] \o texts[q[2]]]
<1>1. N \in Nat /\ \A n \in 1 .. N : texts[n] \in X
  OBVIOUS
<1>2. ASSUME NEW k \in X, NEW n \in 1 .. N PROVE k \o texts[n] \in X
  <2>1. texts[n] \in Seq(S)
    BY <1>1
  <2> QED
    BY <2>1
<1>3. Step1 \in [X \X (1 .. N) -> X] /\ <<>> \in X
  <2>1. <<>> \in X
    OBVIOUS
  <2> HIDE DEF X, N
  <2> QED
    BY <1>2, <2>1
<1>4. PICK g : Solves(g, N, <<>>, Step1) /\ \A n \in 0 .. N : g[n] \in X
  <2> HIDE DEF N, Step1, X
  <2> QED
    BY <1>1, <1>3, Recursion
<1>5. g = [n \in 0 .. N |-> IF n = 0 THEN <<>> ELSE g[n - 1] \o texts[n]]
  <2> HIDE DEF N, X
  <2>1. ASSUME NEW n \in 1 .. N
        PROVE  Step1[<<g[n - 1], n>>] = g[n - 1] \o texts[n]
    <3>1. g[n - 1] \in X
      BY <1>1, <1>4
    <3> QED
      BY <3>1
  <2> HIDE DEF Step1
  <2>2. g = [n \in 0 .. N |-> IF n = 0 THEN <<>> ELSE Step1[<<g[n - 1], n>>]]
    BY <1>4, Zenon DEF Solves
  <2>3. ASSUME NEW n \in 0 .. N
        PROVE  (IF n = 0 THEN <<>> ELSE Step1[<<g[n - 1], n>>])
               = (IF n = 0 THEN <<>> ELSE g[n - 1] \o texts[n])
    <3>1. n # 0 => n \in 1 .. N
      BY <1>1
    <3> QED
      BY <3>1, <2>1, Zenon
  <2> QED
    BY <2>2, <2>3, Zenon
<1>6. PICK f : /\ f = [n \in 0 .. N |-> IF n = 0 THEN <<>> ELSE f[n - 1] \o texts[n]]
               /\ Joined(texts) = f[N]
  BY <1>5 DEF Joined, NoText
<1>7. f[0] = <<>> /\ \A n \in 1 .. N : f[n] = f[n - 1] \o texts[n]
  <2> HIDE DEF N
  <2>1. \A n \in 0 .. N : f[n] = IF n = 0 THEN <<>> ELSE f[n - 1] \o texts[n]
    BY <1>6, Zenon
  <2>2. 0 \in 0 .. N /\ \A n \in 1 .. N : n \in 0 .. N /\ n # 0
    BY <1>1
  <2> QED
    BY <2>1, <2>2, Zenon
<1>8. \A n \in 1 .. N : f[n - 1] \in X => f[n] \in X
  <2> HIDE DEF X, N
  <2> QED
    BY <1>2, <1>7
<1>9. \A n \in 0 .. N : f[n] \in X
  <2> HIDE DEF X, N
  <2> QED
    BY <1>1, <1>3, <1>7, <1>8, Reaches
<1> QED
  BY <1>1, <1>6, <1>9

-----------------------------------------------------------------------------
(* A step of a job.                                                        *)

(* What a step may make of a job of this skill, and queue: the text it has *)
(* let through is what was queued, unless it is the whole answer.          *)
Outcome(job, skill, streaming, strict, new, added) ==
  /\ new \in Job
  /\ JobProgress(new, skill, streaming, strict)
  /\ added \in Seq(Text)
  /\ (strict \/ skill # "rag") => added \in Seq(Fine)
  /\ ~streaming => added = NoText
  /\ streaming =>
       /\ new.pc \notin {"done", "failed"} => new.public = job.public \o added
       /\ new.pc = "done" => \/ job.public \o added \in {NoText, new.answer}
                             \/ new.answer = <<"withheld">> \o (job.public \o added)
                             \/ new.cut /\ new.answer \in {Refusal, added}

LEMMA EndOfConcat ==
  ASSUME NEW text \in Seq(Text), NEW end \in Seq(Text)
  PROVE  EndsWith(text \o end, end)
BY ConcatProperties DEF EndsWith

LEMMA FineText == Fine \subseteq Text /\ Seq(Fine) \subseteq Seq(Text)
<1>1. Fine \subseteq Text
  BY DEF Fine
<1> QED
  BY <1>1

LEMMA OneJob ==
  ASSUME AnswerTypeOK
  PROVE  /\ Len(query) \in Nat /\ Len(query) # 0 /\ 1 \in Jobs
         /\ \A j \in Jobs : query[j] \in {"direct", "rag", "synthesis"}
         /\ Streaming => Jobs = {1}
         /\ Streaming \in BOOLEAN /\ Strict \in BOOLEAN
<1>1. query \in Seq({"direct", "rag", "synthesis"}) /\ query # <<>>
  BY QueriesAssumption DEF AnswerTypeOK
<1>2. Len(query) \in Nat /\ Len(query) # 0 /\ 1 \in Jobs
  BY <1>1 DEF Jobs
<1>3. \A j \in Jobs : query[j] \in {"direct", "rag", "synthesis"}
  BY <1>1 DEF Jobs
<1>4. Streaming => Jobs = {1}
  BY DEF Streaming, Jobs
<1>5. Streaming \in BOOLEAN /\ Strict \in BOOLEAN
  BY DEF AnswerTypeOK, Streaming, Strict
<1> QED
  BY <1>2, <1>3, <1>4, <1>5

(* The invariant does not care which job takes such a step. *)
LEMMA OutcomeKeeps ==
  ASSUME StreamInv, NEW j \in Jobs, task = "run", jobs[j].pc \notin {"done", "failed"},
         NEW new, NEW added, Outcome(jobs[j], query[j], Streaming, Strict, new, added),
         Step(j, new), queue' = queue \o added
  PROVE  StreamInv'
<1>1. /\ jobs' = [jobs EXCEPT ![j] = new] /\ mode' = mode /\ query' = query /\ task' = "run"
      /\ shown' = shown /\ message' = message /\ stream' = stream
  BY DEF Step, request, client
<1>2. /\ Jobs' = Jobs /\ Streaming' = Streaming /\ Strict' = Strict
      /\ \A k \in Jobs : Trusted(k)' = Trusted(k)
  BY <1>1 DEF Jobs, Streaming, Strict, Trusted
<1>3. jobs \in [Jobs -> Job] /\ jobs[j] \in Job /\ new \in Job
  BY DEF StreamInv, AnswerTypeOK, Outcome
<1>4. jobs' \in [Jobs -> Job] /\ jobs'[j] = new /\ \A k \in Jobs : k # j => jobs'[k] = jobs[k]
  BY <1>1, <1>3
<1>5. queue \in Seq(Text) /\ shown \in Seq(Text) /\ added \in Seq(Text) /\ message \in Seq(Text)
  BY DEF StreamInv, AnswerTypeOK, Outcome
<1>6. AnswerTypeOK'
  <2>1. queue' \in Seq(Text)
    BY <1>5
  <2> QED
    BY <1>1, <1>2, <1>4, <1>5, <2>1 DEF StreamInv, AnswerTypeOK
<1>7. \A k \in Jobs : JobProgress(jobs'[k], query[k], Streaming, Strict)
  BY <1>4 DEF StreamInv, Outcome
<1>8. (\A k \in Jobs : Trusted(k)) => {queue', shown, message} \subseteq Seq(Fine)
  <2>1. SUFFICES ASSUME \A k \in Jobs : Trusted(k) PROVE queue' \in Seq(Fine)
    BY DEF StreamInv
  <2>2. added \in Seq(Fine) /\ queue \in Seq(Fine)
    BY <2>1 DEF StreamInv, Outcome, Trusted
  <2> HIDE DEF Fine
  <2> QED
    BY <2>2
<1>9. stream # "completed"
  BY DEF StreamInv, ContentProgress
<1>10. ContentProgress'
  <2>1. Content' = Content \o added /\ Content \in Seq(Text)
    BY <1>1, <1>5 DEF Content
  <2>2. ~Streaming => Content' = NoText
    <3>1. ASSUME ~Streaming PROVE Content = NoText /\ added = NoText
      BY <3>1 DEF StreamInv, ContentProgress, Outcome
    <3> QED
      BY <2>1, <3>1 DEF NoText
  <2>3. ASSUME Streaming
        PROVE  /\ jobs'[1].pc \notin {"done", "failed"} => Content' = jobs'[1].public
               /\ jobs'[1].pc = "done" => Settled(jobs[1].answer)'
    <3>1. j = 1 /\ jobs'[1] = new /\ 1 \in Jobs'
      BY <1>2, <1>4, <2>3, OneJob DEF StreamInv
    <3>2. Content = jobs[1].public
      BY <2>3, <3>1 DEF StreamInv, ContentProgress
    <3>3. Content' = jobs[1].public \o added
      BY <2>1, <3>2
    <3>4. EndsWith(Content', added)
      BY <1>5, <2>1, EndOfConcat
    <3>5. CASE new.pc = "done" /\ new.cut /\ new.answer \in {Refusal, added}
      <4>1. (\E k \in Jobs : jobs[k].cut)'
        BY <3>1, <3>5
      <4> QED
        BY <3>1, <3>4, <3>5, <4>1 DEF Settled
    <3>6. CASE ~(new.pc = "done" /\ new.cut /\ new.answer \in {Refusal, added})
      BY <2>3, <3>1, <3>3, <3>6 DEF Outcome, Settled
    <3> QED
      BY <3>5, <3>6
  <2> QED
    BY <1>1, <1>2, <1>9, <2>2, <2>3 DEF ContentProgress
<1>11. ShownIsAnswered'
  BY <1>1, <1>9 DEF ShownIsAnswered
<1> QED
  BY <1>1, <1>2, <1>6, <1>7, <1>8, <1>10, <1>11 DEF StreamInv

(* A job of a sensible kind stays one whatever text it ends with. *)
LEMMA EndedTypes ==
  ASSUME NEW job \in Job, NEW text \in Seq(Text)
  PROVE  LET new == Ended(job, text)
         IN  /\ new \in Job
             /\ new.pc = "done" /\ new.answer = text /\ new.half = NoHalf
             /\ new.public = job.public /\ new.said = job.said /\ new.cut = job.cut
             /\ new.dropped = job.dropped
BY DEF Ended, Job, NoHalf

LEMMA GivenUpTypes ==
  ASSUME NEW job \in Job
  PROVE  LET new == GivenUp(job)
         IN  /\ new \in Job
             /\ new.pc = "done" /\ new.answer = Refusal /\ new.public = job.public
             /\ new.cut = (job.said # NoText)
<1>1. Refusal \in Seq(Text)
  BY DEF Text, Refusal
<1> DEFINE e == Ended(job, Refusal)
<1>2. e \in Job /\ e.pc = "done" /\ e.answer = Refusal /\ e.public = job.public
  BY <1>1, EndedTypes
<1> HIDE DEF e
<1>3. GivenUp(job) = [e EXCEPT !.cut = (job.said # NoText)]
  BY DEF GivenUp, e
<1> QED
  BY <1>2, <1>3 DEF Job

(* The end of a piece: it is let through, dropped, or ends the text. *)
LEMMA FinishTypes ==
  ASSUME NEW job \in Job, NEW skill \in {"rag", "synthesis"}, NEW streaming, NEW strict,
         JobProgress(job, skill, streaming, strict), job.pc = "streaming"
  PROVE  LET f == Finish(job, skill)
             added == NewlyPublic(job, f)
         IN  /\ f \in Job /\ f.half = NoHalf /\ f.said = job.said /\ f.pc = "streaming"
             /\ f.calls = job.calls /\ f.cut = job.cut /\ f.answer = job.answer
             /\ added \in Seq(Fine) /\ f.public \in Seq(Fine) /\ f.public = job.public \o added
             /\ Len(f.public) + f.dropped <= Len(f.said)
             /\ skill = "rag" => ~f.stopped /\ (f.dropped = 0 => f.said = f.public)
<1> DEFINE f == Finish(job, skill)
           added == NewlyPublic(job, f)
           p == job.public
<1>1. p \in Seq(Fine) /\ Len(p) \in Nat /\ job.said \in Seq(Sentence) /\ job.dropped \in 0 .. MaxSentences
  BY DEF JobProgress, Job
<1>2. /\ Len(p) + Len(Held(job)) + job.dropped <= Len(job.said) /\ Len(job.said) <= MaxSentences
      /\ skill = "rag" => job.said = p \o Held(job) /\ job.dropped = 0 /\ ~job.stopped
  BY DEF JobProgress
<1>3. SubSeq(p, Len(p) + 1, Len(p)) = <<>> /\ p \o <<>> = p
  <2> HIDE DEF p
  <2>1. SubSeq(p, Len(p) + 1, Len(p)) = <<>>
    BY <1>1, SubSeqEmpty
  <2>2. p \o <<>> = p
    BY <1>1, ConcatEmptySeq
  <2> QED
    BY <2>1, <2>2
<1>4. CASE job.half = NoHalf
  <2>1. f = job /\ Held(job) = <<>>
    BY <1>4 DEF Finish, Held, NoText
  <2>2. added = <<>>
    BY <2>1, <1>3 DEF NewlyPublic
  <2> QED
    BY <1>1, <1>2, <1>3, <1>4, <2>1, <2>2
<1>5. CASE job.half # NoHalf
  <2> DEFINE c == Checked(job, skill, job.half)
  <2>1. job.half \in Sentence /\ Len(Held(job)) = 1 /\ Held(job) = <<job.half>>
    BY <1>5 DEF Job, Held
  <2>2. f = [c EXCEPT !.half = NoHalf]
    BY <1>5 DEF Finish
  <2>3. Len(p) + 1 + job.dropped <= Len(job.said) /\ Len(job.said) \in Nat
    BY <1>1, <1>2, <2>1
  <2>4. CASE c.public = p /\ c \in Job /\ c.said = job.said /\ c.pc = job.pc /\ c.calls = job.calls
             /\ c.cut = job.cut /\ c.answer = job.answer /\ c.dropped \in {job.dropped, job.dropped + 1}
             /\ (skill = "rag" => ~c.stopped /\ c.dropped # 0)
    <3>1. f \in Job /\ f.public = p /\ f.half = NoHalf /\ f.said = job.said /\ f.pc = "streaming"
          /\ f.calls = job.calls /\ f.cut = job.cut /\ f.answer = job.answer
          /\ f.dropped = c.dropped /\ f.stopped = c.stopped
      <4> HIDE DEF c
      <4> QED
        BY <2>2, <2>4 DEF Job
    <3>2. added = <<>>
      BY <3>1, <1>3 DEF NewlyPublic
    <3> HIDE DEF c
    <3> QED
      BY <1>1, <1>3, <2>3, <2>4, <3>1, <3>2
  <2>5. CASE job.stopped
    <3>1. c = job
      BY <2>5 DEF Checked
    <3> QED
      BY <2>4, <2>5, <3>1, <1>2
  <2>6. CASE ~job.stopped /\ job.half = "heading" /\ skill = "synthesis"
    <3>1. c = [job EXCEPT !.stopped = TRUE]
      BY <2>6 DEF Checked
    <3>2. c \in Job /\ c.public = p /\ c.said = job.said /\ c.pc = job.pc /\ c.calls = job.calls
          /\ c.cut = job.cut /\ c.answer = job.answer /\ c.dropped = job.dropped
      BY <3>1 DEF Job
    <3> QED
      BY <2>4, <2>6, <3>2
  <2>7. CASE ~job.stopped /\ ~(job.half = "heading" /\ skill = "synthesis") /\ ~Supported(job.half)
    <3>1. c = [job EXCEPT !.dropped = @ + 1]
      BY <2>7 DEF Checked
    <3>2. job.dropped + 1 \in 0 .. MaxSentences
      BY <1>1, <1>2, <2>3, SentencesAssumption
    <3>3. c \in Job /\ c.public = p /\ c.said = job.said /\ c.pc = job.pc /\ c.calls = job.calls
          /\ c.cut = job.cut /\ c.answer = job.answer /\ c.dropped = job.dropped + 1
          /\ c.stopped = job.stopped
      BY <3>1, <3>2 DEF Job
    <3>4. c.dropped # 0
      BY <1>1, <3>3
    <3> QED
      BY <1>1, <2>4, <2>7, <3>3, <3>4
  <2>8. CASE ~job.stopped /\ ~(job.half = "heading" /\ skill = "synthesis") /\ Supported(job.half)
    <3>1. c = [job EXCEPT !.public = Append(p, job.half)]
      BY <2>8 DEF Checked
    <3>2. job.half \in Fine
      BY <2>1, <2>8 DEF Fine, Text
    <3> DEFINE q == Append(p, job.half)
    <3>3. q \in Seq(Fine) /\ Len(q) = Len(p) + 1 /\ q = p \o <<job.half>> /\ <<job.half>> \in Seq(Fine)
      <4> HIDE DEF p
      <4> QED
        BY <1>1, <3>2, AppendProperties, AppendIsConcat
    <3>4. q \in Seq(Text)
      BY <3>3, FineText
    <3>5. SubSeq(q, Len(p) + 1, Len(q)) = <<job.half>>
      <4> HIDE DEF p, q
      <4> DEFINE n == Len(p) + 1
                 t == SubSeq(q, n, n)
      <4>3. \A i \in n .. n : q[i] \in Fine
        BY <1>1, <3>3, ElementOfSeq
      <4>4. t \in Seq(Fine) /\ Len(t) = 1 /\ t[1] = q[n]
        <5>1. n \in Int /\ n - n + 1 = 1 /\ n + 1 - 1 = n
          BY <1>1
        <5> HIDE DEF n
        <5>2. /\ SubSeq(q, n, n) \in Seq(Fine)
              /\ Len(SubSeq(q, n, n)) = IF n <= n THEN n - n + 1 ELSE 0
              /\ \A i \in 1 .. n - n + 1 : SubSeq(q, n, n)[i] = q[n + i - 1]
          BY <4>3, <5>1, SubSeqProperties
        <5> QED
          BY <5>1, <5>2
      <4>5. t = <<t[1]>>
        <5> HIDE DEF t
        <5> QED
          BY <4>4
      <4>1. SubSeq(q, Len(p) + 1, Len(q)) = <<q[Len(p) + 1]>>
        BY <3>3, <4>4, <4>5
      <4>2. q[Len(p) + 1] = job.half
        BY <1>1, <3>2, AppendProperties DEF q
      <4> QED
        BY <4>1, <4>2
    <3>6. f \in Job /\ f.public = q /\ f.half = NoHalf /\ f.said = job.said /\ f.pc = "streaming"
          /\ f.calls = job.calls /\ f.cut = job.cut /\ f.answer = job.answer
          /\ f.dropped = job.dropped /\ f.stopped = job.stopped
      <4> HIDE DEF q
      <4>1. c \in Job /\ c = [job EXCEPT !.public = q]
        BY <3>1, <3>4 DEF q, Job
      <4> HIDE DEF c
      <4> QED
        BY <2>2, <4>1 DEF Job
    <3>7. added = <<job.half>>
      BY <3>5, <3>6 DEF NewlyPublic
    <3>8. skill = "rag" => ~f.stopped /\ f.said = q
      BY <1>2, <2>1, <3>3, <3>6
    <3>9. Len(q) + f.dropped <= Len(f.said)
      BY <2>3, <3>3, <3>6
    <3> HIDE DEF q, f, c
    <3>10. /\ f \in Job /\ f.half = NoHalf /\ f.said = job.said /\ f.pc = "streaming"
           /\ f.calls = job.calls /\ f.cut = job.cut /\ f.answer = job.answer
           /\ added \in Seq(Fine) /\ f.public \in Seq(Fine) /\ f.public = job.public \o added
           /\ Len(f.public) + f.dropped <= Len(f.said)
           /\ skill = "rag" => ~f.stopped /\ (f.dropped = 0 => f.said = f.public)
      BY <3>3, <3>6, <3>7, <3>8, <3>9
    <3> QED
      BY <3>10 DEF f
  <2> QED
    BY <2>5, <2>6, <2>7, <2>8
<1> QED
  BY <1>4, <1>5

(* What precedes the heading of the references is not longer. *)
LEMMA BeforeHeadingTypes ==
  ASSUME NEW S, NEW text \in Seq(S)
  PROVE  BeforeHeading(text) \in Seq(S) /\ Len(BeforeHeading(text)) <= Len(text)
<1> DEFINE cuts == {i \in 1 .. Len(text) : text[i] = "heading"}
           at == CHOOSE i \in cuts : \A k \in cuts : i <= k
<1>1. CASE cuts = {}
  BY <1>1 DEF BeforeHeading
<1>2. CASE cuts # {}
  <2>1. cuts \in SUBSET Nat
    OBVIOUS
  <2>2. \E i \in cuts : \A k \in cuts : i <= k
    <3> HIDE DEF cuts
    <3> QED
      BY <1>2, <2>1, LeastIsOne
  <2>3. at \in cuts
    <3> HIDE DEF cuts
    <3> QED
      BY <2>2
  <2>4. at - 1 \in 0 .. Len(text) /\ Len(text) \in Nat
    BY <2>3
  <2>5. BeforeHeading(text) = SubSeq(text, 1, at - 1)
    BY <1>2 DEF BeforeHeading
  <2> DEFINE n == at - 1
  <2>6. \A i \in 1 .. n : text[i] \in S
    BY <2>4, ElementOfSeq
  <2> HIDE DEF n
  <2>7. n \in 0 .. Len(text) /\ BeforeHeading(text) = SubSeq(text, 1, n)
    BY <2>4, <2>5 DEF n
  <2> HIDE DEF cuts, at
  <2>8. /\ SubSeq(text, 1, n) \in Seq(S)
        /\ Len(SubSeq(text, 1, n)) = IF 1 <= n THEN n - 1 + 1 ELSE 0
    BY <2>4, <2>6, <2>7, SubSeqProperties
  <2> QED
    BY <2>4, <2>7, <2>8
<1> QED
  BY <1>1, <1>2

LEMMA GroundedText ==
  ASSUME NEW text \in Seq(Text)
  PROVE  Grounded(text) <=> text \in Seq(Fine)
<1>1. ASSUME text \in Seq(Fine) PROVE Grounded(text)
  <2>1. \A i \in 1 .. Len(text) : text[i] \in Fine
    BY <1>1, ElementOfSeq
  <2> QED
    BY <2>1 DEF Grounded, Fine
<1>2. ASSUME Grounded(text) PROVE text \in Seq(Fine)
  <2>1. Len(text) \in Nat /\ text = [i \in 1 .. Len(text) |-> text[i]]
        /\ \A i \in 1 .. Len(text) : text[i] \in Text
    OBVIOUS
  <2>2. \A i \in 1 .. Len(text) : text[i] \in Fine
    BY <1>2, <2>1 DEF Grounded, Fine
  <2>3. text \in [1 .. Len(text) -> Fine]
    BY <2>1, <2>2
  <2> QED
    BY <2>1, <2>3
<1> QED
  BY <1>1, <1>2

LEMMA FixedText ==
  /\ \A t \in {"boundary", "unavailable", "no_evidence", "structured", "refusal", "refs", "notice",
               "withheld", "evidence", "snapshot", "failed"} : t \in Fine /\ <<t>> \in Seq(Fine)
  /\ Refusal \in Seq(Fine)
  /\ NoText \in Seq(Fine)
<1>1. \A t \in {"boundary", "unavailable", "no_evidence", "structured", "refusal", "refs", "notice",
                "withheld", "evidence", "snapshot", "failed"} : t \in Fine
  BY DEF Fine, Text, Supported
<1>2. \A t \in Fine, u \in Fine : <<t>> \in Seq(Fine) /\ <<t, u>> \in Seq(Fine)
  <2> HIDE DEF Fine
  <2> QED
    OBVIOUS
<1>3. NoText \in Seq(Fine)
  <2> HIDE DEF Fine
  <2> QED
    BY DEF NoText
<1> QED
  BY <1>1, <1>2, <1>3 DEF Refusal

(* A synthesis of supported text keeps it whole, or refuses it whole. *)
LEMMA ConcludedTypes ==
  ASSUME NEW job \in Job, NEW text \in Seq(Fine), NEW whole \in BOOLEAN
  PROVE  LET new == Concluded(job, text, whole)
             body == IF text = NoText THEN <<"withheld">> ELSE text
         IN  /\ new \in Job /\ new.pc = "done" /\ new.cut = job.cut /\ new.public = job.public
             /\ new.answer \in Seq(Fine)
             /\ new.answer = IF Strict /\ ~whole THEN Refusal
                             ELSE body \o Notice(job) \o <<"refs">>
             /\ Notice(job) \in Seq(Fine)
<1> DEFINE body == IF text = NoText THEN <<"withheld">> ELSE text
           told == body \o Notice(job) \o <<"refs">>
           final == IF Strict /\ ~whole THEN Refusal ELSE told
<1>1. Notice(job) \in Seq(Fine)
  BY FixedText DEF Notice
<1>2. body \in Seq(Fine) /\ <<"refs">> \in Seq(Fine)
  BY FixedText
<1>3. final \in Seq(Fine)
  <2>1. told \in Seq(Fine)
    <3> HIDE DEF body, Fine
    <3> QED
      BY <1>1, <1>2
  <2> HIDE DEF told
  <2> QED
    BY <2>1, FixedText
<1>4. final \in Seq(Text)
  <2> HIDE DEF final
  <2> QED
    BY <1>3, FineText
<1>5. Concluded(job, text, whole) = Ended(job, final)
  BY DEF Concluded
<1> HIDE DEF final
<1>6. LET new == Ended(job, final)
      IN  new \in Job /\ new.pc = "done" /\ new.cut = job.cut /\ new.public = job.public /\ new.answer = final
  BY <1>4, EndedTypes
<1>7. LET new == Concluded(job, text, whole)
      IN  new \in Job /\ new.pc = "done" /\ new.cut = job.cut /\ new.public = job.public /\ new.answer = final
  BY <1>5, <1>6
<1> QED
  BY <1>1, <1>3, <1>7 DEF final

LEMMA FilteredTypes ==
  ASSUME NEW job \in Job, NEW said \in Seq(Text), Len(said) <= MaxSentences,
         NEW whole \in BOOLEAN
  PROVE  LET new == Filtered(job, said, whole)
         IN  /\ new \in Job /\ new.pc = "done" /\ new.cut = job.cut /\ new.public = job.public
             /\ new.answer \in Seq(Fine)
<1> DEFINE text == BeforeHeading(said)
           kept == Kept(text)
           d == Len(text) - Len(kept)
           cleared == [job EXCEPT !.dropped = d]
<1>1. text \in Seq(Text) /\ Len(text) <= Len(said)
  BY BeforeHeadingTypes
<1>2. kept \in Seq(Fine) /\ Len(kept) <= Len(text)
  <2>1. kept \in Seq({s \in Text : Supported(s)}) /\ Len(kept) <= Len(text)
    <3> HIDE DEF text
    <3> QED
      BY <1>1, KeptTypes
  <2> QED
    BY <2>1 DEF Fine
<1>3. d \in 0 .. MaxSentences
  <2>1. Len(text) \in Nat /\ Len(kept) \in Nat /\ Len(said) \in Nat
    <3> HIDE DEF text, kept
    <3> QED
      BY <1>1, <1>2, LenProperties
  <2> HIDE DEF text, kept
  <2> QED
    BY <1>1, <1>2, <2>1, SentencesAssumption
<1>4. Filtered(job, said, whole) = Concluded(cleared, kept, whole)
  BY DEF Filtered
<1> HIDE DEF d, kept, text
<1>5. cleared \in Job /\ cleared.cut = job.cut /\ cleared.public = job.public
  BY <1>3 DEF Job
<1> HIDE DEF cleared
<1>6. LET new == Concluded(cleared, kept, whole)
      IN  new \in Job /\ new.pc = "done" /\ new.cut = cleared.cut /\ new.public = cleared.public
          /\ new.answer \in Seq(Fine)
  BY <1>2, <1>5, ConcludedTypes
<1> QED
  BY <1>4, <1>5, <1>6

-----------------------------------------------------------------------------
(* The steps of the jobs, one by one.                                      *)

LEMMA JobFacts ==
  ASSUME StreamInv, NEW j \in Jobs
  PROVE  /\ jobs[j] \in Job /\ JobProgress(jobs[j], query[j], Streaming, Strict)
         /\ query[j] \in {"direct", "rag", "synthesis"}
         /\ Streaming \in BOOLEAN /\ Strict \in BOOLEAN
         /\ queue \in Seq(Text)
BY OneJob DEF StreamInv, AnswerTypeOK

LEMMA SilentKeeps ==
  ASSUME StreamInv, NEW j \in Jobs, task = "run", jobs[j].pc \notin {"done", "failed"},
         NEW new, Outcome(jobs[j], query[j], Streaming, Strict, new, NoText),
         Step(j, new), UNCHANGED queue
  PROVE  StreamInv'
<1>1. queue' = queue \o NoText
  BY JobFacts DEF NoText
<1> QED
  BY <1>1, OutcomeKeeps

(* A job that has said nothing has let nothing through. *)
LEMMA Unsaid ==
  ASSUME NEW job \in Job, NEW skill, NEW streaming, NEW strict,
         JobProgress(job, skill, streaming, strict), job.said = NoText,
         job.pc \notin {"done", "failed"}
  PROVE  job.public = NoText /\ job.dropped = 0
<1>1. job.public \in Seq(Text) /\ job.dropped \in Nat
  BY DEF Job
<1>2. CASE job.pc = "streaming"
  <2>1. Len(job.public) + Len(Held(job)) + job.dropped <= 0
    BY <1>2 DEF JobProgress, NoText
  <2>2. Len(Held(job)) \in Nat
    BY DEF Held, NoText
  <2> QED
    BY <1>1, <2>1, <2>2 DEF NoText
<1> QED
  BY <1>2 DEF JobProgress, Job

LEMMA GivenUpOutcome ==
  ASSUME NEW job \in Job, NEW streaming, NEW strict, JobProgress(job, "rag", streaming, strict),
         job.pc \notin {"done", "failed"},
         NEW f \in Job, NEW added \in Seq(Fine), f.public \in Seq(Fine), f.said = job.said,
         ~streaming => added = NoText, job.said = NoText => added = NoText
  PROVE  Outcome(job, "rag", streaming, strict, GivenUp(f), added)
<1> DEFINE new == GivenUp(f)
<1>1. /\ new \in Job /\ new.pc = "done" /\ new.answer = Refusal /\ new.public = f.public
      /\ new.cut = (f.said # NoText)
  BY GivenUpTypes
<1> HIDE DEF new
<1>2. JobProgress(new, "rag", streaming, strict)
  BY <1>1, FixedText DEF JobProgress
<1>3. added \in Seq(Text)
  BY FineText
<1>4. ~new.cut => job.public \o added = NoText
  <2>1. ASSUME ~new.cut PROVE job.public = NoText /\ added = NoText
    <3>1. job.said = NoText
      BY <1>1, <2>1
    <3> QED
      BY <3>1, Unsaid
  <2>2. NoText \o NoText = NoText
    BY DEF NoText
  <2> QED
    BY <2>1, <2>2
<1>5. new.cut \in BOOLEAN
  BY <1>1
<1>6. Outcome(job, "rag", streaming, strict, new, added)
  BY <1>1, <1>2, <1>3, <1>4, <1>5 DEF Outcome
<1> QED
  BY <1>6 DEF new

LEMMA CallingOutcome ==
  ASSUME NEW job \in Job, NEW skill \in {"rag", "synthesis"}, NEW streaming, NEW strict,
         JobProgress(job, skill, streaming, strict), job.pc \notin {"done", "failed"},
         NEW f \in Job, f.said = NoText, f.public = NoText, f.half = NoHalf, f.dropped = 0,
         ~f.cut, f.answer = NoText, job.public = NoText,
         NEW pc, \/ pc = "retried" /\ skill = "rag" /\ f.calls = 1
                 \/ pc = "called" /\ f.calls \in {0, 2}
                 \/ pc = "streaming" /\ streaming /\ f.calls = 0 /\ ~f.stopped
  PROVE  Outcome(job, skill, streaming, strict, Calling(f, pc), NoText)
<1> DEFINE new == Calling(f, pc)
<1>1. /\ new \in Job /\ new.pc = pc /\ new.said = NoText /\ new.public = NoText /\ new.half = NoHalf
      /\ new.dropped = 0 /\ ~new.cut /\ new.answer = NoText /\ new.calls = f.calls + 1
      /\ new.stopped = f.stopped
  <2>1. f.calls + 1 \in 0 .. 3
    OBVIOUS
  <2> QED
    BY <2>1 DEF Calling, Job
<1> HIDE DEF new
<1>2. Held(new) = NoText /\ Len(NoText) = 0 /\ NoText \o NoText = NoText
  BY <1>1 DEF Held, NoText
<1>3. JobProgress(new, skill, streaming, strict)
  BY <1>1, <1>2, FixedText, SentencesAssumption DEF JobProgress
<1>4. NoText \in Seq(Text) /\ NoText \in Seq(Fine)
  BY FixedText, FineText
<1>5. Outcome(job, skill, streaming, strict, new, NoText)
  BY <1>1, <1>2, <1>3, <1>4 DEF Outcome
<1> QED
  BY <1>5 DEF new

LEMMA FailedOutcome ==
  ASSUME NEW job \in Job, NEW skill, NEW streaming, NEW strict,
         JobProgress(job, skill, streaming, strict), job.pc \notin {"done", "failed"}
  PROVE  Outcome(job, skill, streaming, strict, Failed(job), NoText)
<1> DEFINE new == Failed(job)
<1>1. new \in Job /\ new.pc = "failed" /\ new.public = job.public /\ new.answer = job.answer
  BY DEF Failed, Job, NoHalf
<1> HIDE DEF new
<1>2. JobProgress(new, skill, streaming, strict)
  BY <1>1 DEF JobProgress
<1>3. NoText \in Seq(Text) /\ NoText \in Seq(Fine)
  BY FixedText, FineText
<1>4. Outcome(job, skill, streaming, strict, new, NoText)
  BY <1>1, <1>2, <1>3 DEF Outcome
<1> QED
  BY <1>4 DEF new

(* A job that ends with a text of its own before it said anything. *)
LEMMA EndedOutcome ==
  ASSUME NEW job \in Job, NEW skill, NEW streaming, NEW strict,
         JobProgress(job, skill, streaming, strict), job.pc \notin {"done", "failed"},
         job.public = NoText, NEW text \in Seq(Text), (strict \/ skill # "rag") => text \in Seq(Fine),
         NEW added, added = NoText \/ (streaming /\ added = text)
  PROVE  Outcome(job, skill, streaming, strict, Ended(job, text), added)
<1> DEFINE new == Ended(job, text)
<1>1. new \in Job /\ new.pc = "done" /\ new.answer = text /\ new.public = job.public
  BY EndedTypes
<1> HIDE DEF new
<1>2. JobProgress(new, skill, streaming, strict)
  BY <1>1 DEF JobProgress
<1>3. /\ added \in Seq(Text) /\ ((strict \/ skill # "rag") => added \in Seq(Fine))
      /\ NoText \o added = added
  <2>1. NoText \in Seq(Text) /\ NoText \in Seq(Fine)
    BY FixedText, FineText
  <2>2. added \in Seq(Text) /\ ((strict \/ skill # "rag") => added \in Seq(Fine))
    BY <2>1
  <2>3. <<>> \o added = added
    BY <2>2, ConcatEmptySeq
  <2> QED
    BY <2>2, <2>3 DEF NoText
<1>4. Outcome(job, skill, streaming, strict, new, added)
  BY <1>1, <1>2, <1>3 DEF Outcome
<1> QED
  BY <1>4 DEF new

LEMMA StartKeeps ==
  ASSUME StreamInv, NEW j \in Jobs, StartJob(j)
  PROVE  StreamInv'
<1> DEFINE job == jobs[j]
<1>1. /\ job \in Job /\ JobProgress(job, query[j], Streaming, Strict)
      /\ query[j] \in {"direct", "rag", "synthesis"}
      /\ task = "run" /\ job.pc = "start" /\ UNCHANGED queue
  BY JobFacts DEF StartJob, Running
<1>2. /\ job.public = NoText /\ job.said = NoText /\ job.half = NoHalf /\ job.dropped = 0 /\ ~job.cut
      /\ job.calls = 0 /\ job.answer = NoText
  BY <1>1 DEF JobProgress
<1>3. CASE Step(j, Ended(job, <<"no_evidence">>))
  <2>1. <<"no_evidence">> \in Seq(Fine) /\ <<"no_evidence">> \in Seq(Text)
    BY FixedText, FineText
  <2> HIDE DEF job
  <2>2. Outcome(job, query[j], Streaming, Strict, Ended(job, <<"no_evidence">>), NoText)
    BY <1>1, <1>2, <2>1, EndedOutcome
  <2> QED
    BY <1>1, <1>3, <2>2, SilentKeeps DEF job
<1>4. CASE Step(j, Failed(job))
  BY <1>1, <1>4, FailedOutcome, SilentKeeps
<1>5. CASE query[j] = "direct" /\ Step(j, Ended(job, <<"structured">>))
  <2>1. <<"structured">> \in Seq(Fine) /\ <<"structured">> \in Seq(Text)
    BY FixedText, FineText
  <2> HIDE DEF job
  <2>2. Outcome(job, query[j], Streaming, Strict, Ended(job, <<"structured">>), NoText)
    BY <1>1, <1>2, <2>1, EndedOutcome
  <2> QED
    BY <1>1, <1>5, <2>2, SilentKeeps DEF job
<1>6. CASE query[j] # "direct" /\ Step(j, Calling(job, IF Streaming THEN "streaming" ELSE "called"))
  <2> DEFINE pc == IF Streaming THEN "streaming" ELSE "called"
  <2>1. ~job.stopped
    BY <1>1 DEF JobProgress
  <2> HIDE DEF job
  <2>2. Outcome(job, query[j], Streaming, Strict, Calling(job, pc), NoText)
    BY <1>1, <1>2, <1>6, <2>1, CallingOutcome
  <2> QED
    BY <1>1, <1>6, <2>2, SilentKeeps DEF job
<1> QED
  BY <1>3, <1>4, <1>5, <1>6 DEF StartJob

LEMMA DeltaStartKeeps ==
  ASSUME StreamInv, NEW j \in Jobs, DeltaStarts(j)
  PROVE  StreamInv'
<1> DEFINE job == jobs[j]
<1>1. /\ job \in Job /\ JobProgress(job, query[j], Streaming, Strict)
      /\ task = "run" /\ job.pc = "streaming" /\ UNCHANGED queue
      /\ job.half = NoHalf /\ Len(job.said) < MaxSentences
  BY JobFacts DEF DeltaStarts, Running
<1>2. PICK s \in Sentence : Step(j, [job EXCEPT !.half = s, !.said = Append(@, s)])
  BY DEF DeltaStarts
<1> DEFINE new == [job EXCEPT !.half = s, !.said = Append(@, s)]
<1>3. /\ job.said \in Seq(Sentence) /\ Append(job.said, s) \in Seq(Sentence)
      /\ Len(Append(job.said, s)) = Len(job.said) + 1 /\ Append(job.said, s) = job.said \o <<s>>
      /\ Len(job.said) \in Nat
  <2>1. job.said \in Seq(Sentence)
    BY <1>1 DEF Job
  <2> QED
    BY <2>1, AppendProperties, AppendIsConcat
<1>4. /\ new \in Job /\ new.half = s /\ new.said = Append(job.said, s) /\ new.pc = "streaming"
      /\ new.public = job.public /\ new.dropped = job.dropped /\ new.stopped = job.stopped
      /\ new.cut = job.cut /\ new.calls = job.calls /\ new.answer = job.answer
  BY <1>1, <1>3 DEF Job
<1>5. Held(job) = <<>> /\ Held(new) = <<s>> /\ Len(Held(job)) = 0 /\ Len(Held(new)) = 1
  BY <1>1, <1>4 DEF Held, NoText, NoHalf, Sentence
<1> HIDE DEF new, job
<1>6. job.public \in Seq(Fine) /\ job.public \o NoText = job.public
      /\ Len(job.public) \in Nat /\ job.dropped \in Nat
  <2>1. job.public \in Seq(Fine) /\ job.dropped \in Nat
    BY <1>1 DEF JobProgress, Job
  <2> QED
    BY <2>1, ConcatEmptySeq, LenProperties DEF NoText
<1>7. /\ Len(new.public) + Len(Held(new)) + new.dropped <= Len(new.said)
      /\ Len(new.said) <= MaxSentences
  BY <1>1, <1>3, <1>4, <1>5, <1>6, SentencesAssumption DEF JobProgress
<1>8. query[j] = "rag" => new.said = new.public \o Held(new) /\ new.dropped = 0 /\ ~new.stopped
  <2>1. query[j] = "rag" => job.said = job.public
    BY <1>1, <1>5, <1>6 DEF JobProgress, NoText
  <2> QED
    BY <1>1, <1>3, <1>4, <1>5, <2>1 DEF JobProgress
<1>9. JobProgress(new, query[j], Streaming, Strict)
  BY <1>1, <1>4, <1>7, <1>8 DEF JobProgress
<1>10. Outcome(job, query[j], Streaming, Strict, new, NoText)
  BY <1>4, <1>6, <1>9, FixedText, FineText DEF Outcome
<1> QED
  BY <1>1, <1>2, <1>10, SilentKeeps DEF new, job

(* A streaming job whose last piece was let through goes on. *)
LEMMA FinishedOutcome ==
  ASSUME NEW job \in Job, NEW skill \in {"rag", "synthesis"}, NEW streaming, NEW strict,
         JobProgress(job, skill, streaming, strict), job.pc = "streaming",
         skill = "rag" => Finish(job, skill).dropped = 0
  PROVE  Outcome(job, skill, streaming, strict, Finish(job, skill),
                 NewlyPublic(job, Finish(job, skill)))
<1> DEFINE f == Finish(job, skill)
           added == NewlyPublic(job, f)
<1>1. /\ f \in Job /\ f.half = NoHalf /\ f.said = job.said /\ f.pc = "streaming"
      /\ f.calls = job.calls /\ f.cut = job.cut /\ f.answer = job.answer
      /\ added \in Seq(Fine) /\ f.public \in Seq(Fine) /\ f.public = job.public \o added
      /\ Len(f.public) + f.dropped <= Len(f.said)
      /\ skill = "rag" => ~f.stopped /\ (f.dropped = 0 => f.said = f.public)
      /\ skill = "rag" => f.dropped = 0
  BY FinishTypes
<1> HIDE DEF f, added
<1>2. Held(f) = <<>> /\ Len(Held(f)) = 0 /\ f.public \o <<>> = f.public
      /\ Len(f.public) \in Nat /\ f.dropped \in Nat
  <2>1. f.dropped \in Nat
    BY <1>1 DEF Job
  <2> QED
    BY <1>1, <2>1, ConcatEmptySeq, LenProperties DEF Held, NoText
<1>3. JobProgress(f, skill, streaming, strict)
  BY <1>1, <1>2 DEF JobProgress
<1>4. streaming
  BY DEF JobProgress
<1>5. Outcome(job, skill, streaming, strict, f, added)
  BY <1>1, <1>3, <1>4, FineText DEF Outcome
<1> QED
  BY <1>5 DEF f, added

LEMMA DeltaEndKeeps ==
  ASSUME StreamInv, NEW j \in Jobs, DeltaEnds(j)
  PROVE  StreamInv'
<1> DEFINE job == jobs[j]
           skill == query[j]
           f == Finish(job, skill)
           added == NewlyPublic(job, f)
<1>1. /\ job \in Job /\ JobProgress(job, skill, Streaming, Strict) /\ Streaming
      /\ task = "run" /\ job.pc = "streaming" /\ queue' = queue \o added /\ job.half # NoHalf
      /\ skill \in {"rag", "synthesis"}
      /\ Step(j, IF skill = "rag" /\ f.dropped > 0 THEN GivenUp(f) ELSE f)
  BY JobFacts DEF DeltaEnds, Running, Publish, JobProgress
<1>2. /\ f \in Job /\ f.said = job.said /\ added \in Seq(Fine) /\ f.public \in Seq(Fine)
  BY <1>1, FinishTypes
<1>3. CASE skill = "rag" /\ f.dropped > 0
  <2>1. job.said # NoText
    <3>1. Len(Held(job)) = 1 /\ Len(job.public) \in Nat /\ job.dropped \in Nat
      BY <1>1 DEF Held, Job
    <3>2. Len(job.public) + Len(Held(job)) + job.dropped <= Len(job.said)
      BY <1>1 DEF JobProgress
    <3> QED
      BY <3>1, <3>2 DEF NoText
  <2> HIDE DEF added, f, job
  <2>2. Outcome(job, "rag", Streaming, Strict, GivenUp(f), added)
    BY <1>1, <1>2, <1>3, <2>1, GivenUpOutcome
  <2> QED
    BY <1>1, <1>3, <2>2, OutcomeKeeps DEF job
<1>4. CASE ~(skill = "rag" /\ f.dropped > 0)
  <2>1. skill = "rag" => f.dropped = 0
    BY <1>2, <1>4 DEF Job
  <2>2. Outcome(job, skill, Streaming, Strict, f, added)
    <3> HIDE DEF job
    <3> QED
      BY <1>1, <2>1, FinishedOutcome
  <2> HIDE DEF added, f
  <2> QED
    BY <1>1, <1>4, <2>2, OutcomeKeeps
<1> QED
  BY <1>3, <1>4

LEMMA Associate ==
  ASSUME NEW S, NEW a \in Seq(S), NEW b \in Seq(S), NEW c \in Seq(S)
  PROVE  (a \o b) \o c \in Seq(S) /\ a \o (b \o c) = (a \o b) \o c
BY ConcatProperties, ConcatAssociative

LEMMA ReferencesTypes == ASSUME NEW text PROVE References(text) \in Seq(Fine)
BY FixedText DEF References

LEMMA RagStreamEndKeeps ==
  ASSUME StreamInv, NEW j \in Jobs, RagStreamEnds(j)
  PROVE  StreamInv'
<1> DEFINE job == jobs[j]
           f == Finish(job, "rag")
           added == NewlyPublic(job, f)
           refs == References(f.said)
<1>1. /\ job \in Job /\ JobProgress(job, "rag", Streaming, Strict) /\ Streaming
      /\ task = "run" /\ job.pc = "streaming" /\ query[j] = "rag" /\ queue \in Seq(Text)
  BY JobFacts DEF RagStreamEnds, Running, JobProgress
<1>2. /\ f \in Job /\ f.half = NoHalf /\ f.said = job.said /\ f.pc = "streaming"
      /\ f.calls = job.calls /\ f.cut = job.cut /\ f.answer = job.answer
      /\ added \in Seq(Fine) /\ f.public \in Seq(Fine) /\ f.public = job.public \o added
      /\ Len(f.public) + f.dropped <= Len(f.said)
      /\ f.dropped = 0 => f.said = f.public
  BY <1>1, FinishTypes
<1>3. CASE f.said = NoText
  <2>1. Step(j, Calling(f, "retried")) /\ UNCHANGED queue
    BY <1>3 DEF RagStreamEnds
  <2>2. f.public = NoText /\ f.dropped = 0
    <3>1. Len(f.public) \in Nat /\ f.dropped \in Nat
      BY <1>2 DEF Job
    <3> QED
      BY <1>2, <1>3, <3>1 DEF NoText
  <2>3. job.public = NoText
    <3> HIDE DEF job
    <3> QED
      BY <1>1, <1>2, <1>3, Unsaid
  <2>4. ~f.cut /\ f.answer = NoText /\ f.calls = 1
    BY <1>1, <1>2 DEF JobProgress
  <2> HIDE DEF job, f
  <2>5. Outcome(job, "rag", Streaming, Strict, Calling(f, "retried"), NoText)
    BY <1>1, <1>2, <1>3, <2>2, <2>3, <2>4, CallingOutcome
  <2> QED
    BY <1>1, <2>1, <2>5, SilentKeeps DEF job
<1>4. CASE f.said # NoText /\ f.dropped > 0
  <2>1. Step(j, GivenUp(f)) /\ queue' = queue \o added
    BY <1>4 DEF RagStreamEnds, Publish
  <2> HIDE DEF job, f, added
  <2>2. Outcome(job, "rag", Streaming, Strict, GivenUp(f), added)
    BY <1>1, <1>2, <1>4, GivenUpOutcome
  <2> QED
    BY <1>1, <2>1, <2>2, OutcomeKeeps DEF job
<1>5. CASE f.said # NoText /\ ~(f.dropped > 0)
  <2> DEFINE new == Ended(f, f.said \o refs)
  <2>1. /\ Step(j, new) \/ Step(j, GivenUp(f))
        /\ queue' = queue \o added \o refs
    BY <1>5 DEF RagStreamEnds
  <2>2. f.said = f.public
    BY <1>2, <1>5 DEF Job
  <2>3. refs \in Seq(Fine) /\ job.public \in Seq(Fine)
    BY <1>1, ReferencesTypes DEF JobProgress
  <2> HIDE DEF job, f, added, refs
  <2>4. /\ f.said \o refs \in Seq(Fine) /\ added \o refs \in Seq(Fine)
        /\ job.public \o (added \o refs) = f.said \o refs
    <3> HIDE DEF Fine
    <3>1. f.said \o refs \in Seq(Fine) /\ added \o refs \in Seq(Fine)
      BY <1>2, <2>2, <2>3, ConcatProperties
    <3>2. job.public \o (added \o refs) = (job.public \o added) \o refs
      <4>1. job.public \in Seq(Fine) /\ added \in Seq(Fine) /\ refs \in Seq(Fine)
        BY <1>2, <2>3
      <4> DEFINE p == job.public
      <4> HIDE DEF p
      <4>2. p \in Seq(Fine)
        BY <4>1 DEF p
      <4>3. p \o (added \o refs) = (p \o added) \o refs
        BY <4>1, <4>2, Associate
      <4> QED
        BY <4>3 DEF p
    <3> QED
      BY <1>2, <2>2, <3>1, <3>2
  <2>5. queue' = queue \o (added \o refs)
    <3>1. added \in Seq(Text) /\ refs \in Seq(Text)
      BY <1>2, <2>3, FineText
    <3> QED
      BY <1>1, <2>1, <3>1, ConcatAssociative
  <2>6. /\ new \in Job /\ new.pc = "done" /\ new.answer = f.said \o refs /\ new.public = f.public
    BY <1>2, <2>4, FineText, EndedTypes
  <2> HIDE DEF new
  <2>7. JobProgress(new, "rag", Streaming, Strict)
    BY <1>2, <2>4, <2>6 DEF JobProgress
  <2>8. Outcome(job, "rag", Streaming, Strict, new, added \o refs)
    BY <1>1, <2>4, <2>6, <2>7, FineText DEF Outcome
  <2>9. Outcome(job, "rag", Streaming, Strict, GivenUp(f), added \o refs)
    BY <1>1, <1>2, <1>5, <2>4, GivenUpOutcome
  <2> QED
    BY <1>1, <2>1, <2>5, <2>8, <2>9, OutcomeKeeps DEF job
<1> QED
  BY <1>3, <1>4, <1>5

LEMMA RagBreakKeeps ==
  ASSUME StreamInv, NEW j \in Jobs, RagStreamBreaks(j) \/ RagCallFails(j)
  PROVE  StreamInv'
<1> DEFINE job == jobs[j]
<1>1. /\ job \in Job /\ JobProgress(job, "rag", Streaming, Strict)
      /\ task = "run" /\ job.pc \in {"streaming", "retried", "called"} /\ query[j] = "rag"
      /\ UNCHANGED queue
  BY JobFacts DEF RagStreamBreaks, RagCallFails, Running
<1>2. CASE Step(j, GivenUp(job))
  <2>1. job.public \in Seq(Fine) /\ NoText \in Seq(Fine)
    BY <1>1, FixedText DEF JobProgress
  <2> HIDE DEF job
  <2>2. Outcome(job, "rag", Streaming, Strict, GivenUp(job), NoText)
    BY <1>1, <2>1, GivenUpOutcome
  <2> QED
    BY <1>1, <1>2, <2>2, SilentKeeps DEF job
<1>3. CASE job.said = NoText /\ job.pc = "streaming" /\ Step(j, Calling(job, "retried"))
  <2>1. ~job.cut /\ job.answer = NoText /\ job.calls = 1
    BY <1>1, <1>3 DEF JobProgress
  <2>2. job.public = NoText /\ job.dropped = 0
    <3> HIDE DEF job
    <3> QED
      BY <1>1, <1>3, Unsaid
  <2>3. job.half = NoHalf
    <3>1. Len(Held(job)) <= 0
      BY <1>1, <1>3, <2>2 DEF JobProgress, NoText
    <3> QED
      BY <3>1 DEF Held
  <2> HIDE DEF job
  <2>4. Outcome(job, "rag", Streaming, Strict, Calling(job, "retried"), NoText)
    BY <1>1, <1>3, <2>1, <2>2, <2>3, CallingOutcome
  <2> QED
    BY <1>1, <1>3, <2>4, SilentKeeps DEF job
<1> QED
  BY <1>2, <1>3 DEF RagStreamBreaks, RagCallFails

LEMMA RagRetryKeeps ==
  ASSUME StreamInv, NEW j \in Jobs, RagRetryReturns(j)
  PROVE  StreamInv'
<1> DEFINE job == jobs[j]
<1>1. /\ job \in Job /\ JobProgress(job, "rag", Streaming, Strict) /\ query[j] = "rag"
      /\ task = "run" /\ job.pc = "retried" /\ UNCHANGED queue
      /\ Step(j, Calling(job, "called"))
  BY JobFacts DEF RagRetryReturns, Running, JobProgress
<1>2. /\ job.said = NoText /\ job.public = NoText /\ job.half = NoHalf /\ job.dropped = 0
      /\ ~job.cut /\ job.answer = NoText /\ job.calls = 2
  BY <1>1 DEF JobProgress
<1> HIDE DEF job
<1>3. Outcome(job, "rag", Streaming, Strict, Calling(job, "called"), NoText)
  BY <1>1, <1>2, CallingOutcome
<1> QED
  BY <1>1, <1>3, SilentKeeps DEF job

LEMMA RagCallKeeps ==
  ASSUME StreamInv, NEW j \in Jobs, RagCallReturns(j)
  PROVE  StreamInv'
<1> DEFINE job == jobs[j]
<1>1. /\ job \in Job /\ JobProgress(job, "rag", Streaming, Strict) /\ query[j] = "rag"
      /\ task = "run" /\ job.pc = "called" /\ queue \in Seq(Text)
      /\ Streaming \in BOOLEAN /\ Strict \in BOOLEAN
  BY JobFacts DEF RagCallReturns, Running
<1>2. job.public = NoText /\ job.said = NoText
  BY <1>1 DEF JobProgress
<1>3. PICK said \in SeqOf(Sentence, MaxSentences) : \E verdict \in Verdicts(said) :
        LET text == said \o References(said)
        IN IF Strict /\ ~verdict
           THEN Step(j, GivenUp(job)) /\ UNCHANGED queue
           ELSE /\ Step(j, Ended(job, text))
                /\ queue' = IF Streaming THEN queue \o text ELSE queue
  BY DEF RagCallReturns
<1> DEFINE text == said \o References(said)
<1>4. text \in Seq(Text) /\ (Grounded(said) => text \in Seq(Fine))
  <2>1. said \in Seq(Sentence)
    BY DEF SeqOf
  <2>2. said \in Seq(Text)
    BY <2>1 DEF Text
  <2>3. References(said) \in Seq(Text) /\ References(said) \in Seq(Fine)
    BY ReferencesTypes, FineText
  <2>4. Grounded(said) => said \in Seq(Fine)
    BY <2>2, GroundedText
  <2> HIDE DEF Fine
  <2> QED
    BY <2>2, <2>3, <2>4, ConcatProperties
<1> HIDE DEF job
<1>9. PICK whole \in Verdicts(said) :
        IF Strict /\ ~whole
        THEN Step(j, GivenUp(job)) /\ UNCHANGED queue
        ELSE /\ Step(j, Ended(job, text))
             /\ queue' = IF Streaming THEN queue \o text ELSE queue
  BY <1>3
<1>10. whole \in BOOLEAN /\ (whole => Grounded(said))
  BY DEF Verdicts
<1> HIDE DEF text
<1>5. CASE Strict /\ ~whole
  <2>1. Step(j, GivenUp(job)) /\ UNCHANGED queue
    BY <1>9, <1>5
  <2>2. job.public \in Seq(Fine) /\ NoText \in Seq(Fine)
    BY <1>2, FixedText
  <2>3. Outcome(job, "rag", Streaming, Strict, GivenUp(job), NoText)
    BY <1>1, <2>2, GivenUpOutcome
  <2> QED
    BY <1>1, <2>1, <2>3, SilentKeeps DEF job
<1>6. CASE ~(Strict /\ ~whole)
  <2> DEFINE added == IF Streaming THEN text ELSE NoText
  <2>1. Step(j, Ended(job, text)) /\ queue' = IF Streaming THEN queue \o text ELSE queue
    BY <1>9, <1>6
  <2>2. queue' = queue \o added
    BY <1>1, <2>1 DEF NoText
  <2>3. Strict => text \in Seq(Fine)
    BY <1>4, <1>6, <1>10
  <2>4. added = NoText \/ (Streaming /\ added = text)
    OBVIOUS
  <2> HIDE DEF added
  <2>5. Outcome(job, "rag", Streaming, Strict, Ended(job, text), added)
    BY <1>1, <1>2, <1>4, <2>3, <2>4, EndedOutcome
  <2> QED
    BY <1>1, <2>1, <2>2, <2>5, OutcomeKeeps DEF job
<1> QED
  BY <1>5, <1>6

(* The end of a streamed synthesis: what it has let through, then the      *)
(* notice and the references.                                              *)
LEMMA SynthesisStreamEndKeeps ==
  ASSUME StreamInv, NEW j \in Jobs, SynthesisStreamEnds(j)
  PROVE  StreamInv'
<1> DEFINE job == jobs[j]
           e == Finish(job, "synthesis")
           f == [e EXCEPT !.streamed = TRUE]
           newly == NewlyPublic(job, e)
           notice == Notice(f)
           body == IF f.public = NoText THEN <<"withheld">> ELSE f.public
           added == newly \o notice \o <<"refs">>
<1>1. /\ job \in Job /\ JobProgress(job, "synthesis", Streaming, Strict) /\ Streaming
      /\ task = "run" /\ job.pc = "streaming" /\ query[j] = "synthesis" /\ queue \in Seq(Text)
  BY JobFacts DEF SynthesisStreamEnds, Running, JobProgress
<1>2. /\ e \in Job /\ newly \in Seq(Fine) /\ e.public \in Seq(Fine) /\ e.public = job.public \o newly
      /\ e.cut = job.cut
  BY <1>1, FinishTypes
<1>3. job.public \in Seq(Fine)
  BY <1>1 DEF JobProgress
<1>4. /\ \E verdict \in Verdicts(f.public) :
            Step(j, [Concluded(f, f.public, verdict) EXCEPT !.cut = Strict /\ ~verdict])
      /\ queue' = queue \o newly \o notice \o <<"refs">>
  <2>1. NewlyPublic(job, f) = newly
    <3>1. f.public = e.public
      BY <1>2 DEF Job
    <3> HIDE DEF f, e
    <3> QED
      BY <3>1 DEF NewlyPublic
  <2>2. /\ \E verdict \in Verdicts(f.public) :
              Step(j, [Concluded(f, f.public, verdict) EXCEPT !.cut = Strict /\ ~verdict])
        /\ queue' = queue \o NewlyPublic(job, f) \o notice \o <<"refs">>
    BY DEF SynthesisStreamEnds
  <2> QED
    BY <2>1, <2>2
<1> HIDE DEF job, e, newly
<1>5. f \in Job /\ f.public = e.public
  BY <1>2 DEF Job
<1> HIDE DEF f
<1>6. f.public \in Seq(Fine) /\ f.public = job.public \o newly
  BY <1>2, <1>5
<1>14. PICK whole \in Verdicts(f.public) :
         Step(j, [Concluded(f, f.public, whole) EXCEPT !.cut = Strict /\ ~whole])
  BY <1>4
<1> DEFINE concluded == Concluded(f, f.public, whole)
           new == [concluded EXCEPT !.cut = Strict /\ ~whole]
<1>15. /\ concluded \in Job /\ concluded.pc = "done" /\ concluded.public = f.public
       /\ concluded.answer \in Seq(Fine)
       /\ concluded.answer = IF Strict /\ ~whole THEN Refusal ELSE body \o notice \o <<"refs">>
       /\ notice \in Seq(Fine) /\ whole \in BOOLEAN
  <2>1. whole \in BOOLEAN
    BY DEF Verdicts
  <2> QED
    BY <1>5, <1>6, <2>1, ConcludedTypes
<1> HIDE DEF concluded, notice, body
<1>7. /\ new \in Job /\ new.pc = "done" /\ new.public = f.public /\ new.answer \in Seq(Fine)
      /\ new.answer = IF new.cut THEN Refusal ELSE body \o notice \o <<"refs">>
      /\ notice \in Seq(Fine)
  <2>1. (Strict /\ ~whole) \in BOOLEAN
    BY <1>1, <1>15, JobFacts
  <2> QED
    BY <1>15, <2>1 DEF Job
<1>8. <<"refs">> \in Seq(Fine) /\ <<"withheld">> \in Seq(Fine)
  BY FixedText
<1>16. Step(j, new)
  BY <1>14 DEF concluded
<1> HIDE DEF new
<1>9. /\ added \in Seq(Fine)
      /\ job.public \o added = f.public \o notice \o <<"refs">>
  <2> DEFINE p == job.public
             refs == <<"refs">>
  <2>1. p \in Seq(Fine) /\ newly \in Seq(Fine) /\ notice \in Seq(Fine) /\ refs \in Seq(Fine)
    BY <1>2, <1>3, <1>7, <1>8
  <2>2. f.public = p \o newly
    BY <1>6
  <2> HIDE DEF p, refs, Fine
  <2>3. newly \o notice \o refs \in Seq(Fine) /\ p \o newly \o notice \o refs = p \o (newly \o notice \o refs)
    <3>1. newly \o notice \in Seq(Fine) /\ newly \o notice \o refs \in Seq(Fine)
      BY <2>1, ConcatProperties
    <3>2. p \o newly \o notice = p \o (newly \o notice)
      BY <2>1, Associate
    <3> DEFINE told == newly \o notice
    <3>3. told \in Seq(Fine)
      BY <3>1
    <3> HIDE DEF told
    <3>4. p \o told \o refs = p \o (told \o refs)
      BY <2>1, <3>3, Associate
    <3>5. p \o (newly \o notice) \o refs = p \o (newly \o notice \o refs)
      BY <3>4 DEF told
    <3> QED
      BY <3>1, <3>2, <3>5
  <2> QED
    BY <2>2, <2>3 DEF p, refs
<1>10. queue' = queue \o added
  <2> DEFINE refs == <<"refs">>
  <2>1. newly \in Seq(Text) /\ notice \in Seq(Text) /\ refs \in Seq(Text)
    BY <1>2, <1>7, <1>8, FineText
  <2>2. queue' = queue \o newly \o notice \o refs
    BY <1>4
  <2> HIDE DEF refs
  <2>3. queue' = queue \o (newly \o notice \o refs)
    <3>1. newly \o notice \in Seq(Text) /\ newly \o notice \o refs \in Seq(Text)
      BY <2>1, ConcatProperties
    <3>2. queue \o newly \o notice = queue \o (newly \o notice)
      BY <1>1, <2>1, Associate
    <3>3. queue \o (newly \o notice) \o refs = queue \o (newly \o notice \o refs)
      BY <1>1, <2>1, <3>1, Associate
    <3> QED
      BY <2>2, <3>2, <3>3
  <2> QED
    BY <2>3 DEF refs
<1>11. \/ new.cut /\ new.answer = Refusal
       \/ job.public \o added = new.answer
       \/ new.answer = <<"withheld">> \o (job.public \o added)
  <2>1. CASE f.public # NoText \/ new.cut
    BY <1>7, <1>9, <2>1 DEF body
  <2>2. CASE f.public = NoText /\ ~new.cut
    <3> DEFINE refs == <<"refs">>
               withheld == <<"withheld">>
    <3>1. notice \in Seq(Fine) /\ refs \in Seq(Fine) /\ withheld \in Seq(Fine)
      BY <1>7, <1>8
    <3>2. new.answer = withheld \o notice \o refs /\ job.public \o added = NoText \o notice \o refs
      BY <1>7, <1>9, <2>2 DEF body
    <3> HIDE DEF refs, withheld, Fine
    <3>3. NoText \o notice = notice /\ withheld \o notice \o refs = withheld \o (notice \o refs)
      <4>1. NoText \o notice = notice
        BY <3>1, ConcatEmptySeq DEF NoText
      <4> QED
        BY <3>1, <4>1, Associate
    <3>4. new.answer = withheld \o (job.public \o added)
      BY <3>2, <3>3
    <3> QED
      BY <3>4 DEF withheld
  <2> QED
    BY <2>1, <2>2
<1> HIDE DEF added
<1>12. JobProgress(new, "synthesis", Streaming, Strict)
  BY <1>6, <1>7 DEF JobProgress
<1>13. Outcome(job, "synthesis", Streaming, Strict, new, added)
  BY <1>1, <1>7, <1>9, <1>11, <1>12, FineText DEF Outcome
<1> QED
  BY <1>1, <1>10, <1>13, <1>16, OutcomeKeeps DEF job

(* An answer that was not streamed, or that stands for one: whole unless   *)
(* the model had begun to say another.                                     *)
LEMMA ConcludeKeeps ==
  ASSUME StreamInv, NEW j \in Jobs, query[j] = "synthesis", task = "run",
         jobs[j].pc \in {"streaming", "called"},
         NEW said \in Seq(Text), Len(said) <= MaxSentences, NEW cut \in BOOLEAN,
         ~cut => jobs[j].said = NoText, Conclude(j, said, cut)
  PROVE  StreamInv'
<1> DEFINE job == jobs[j]
<1>1. /\ job \in Job /\ JobProgress(job, "synthesis", Streaming, Strict) /\ queue \in Seq(Text)
      /\ Streaming \in BOOLEAN /\ job.pc \notin {"done", "failed"}
  BY JobFacts
<1>11. PICK whole \in Verdicts(Kept(BeforeHeading(said))) :
         LET new == [Filtered(job, said, whole) EXCEPT !.cut = cut]
         IN Step(j, new) /\ queue' = IF Streaming THEN queue \o new.answer ELSE queue
  BY DEF Conclude
<1> DEFINE filtered == Filtered(job, said, whole)
           new == [filtered EXCEPT !.cut = cut]
           added == IF Streaming THEN new.answer ELSE NoText
<1>2. Step(j, new) /\ queue' = IF Streaming THEN queue \o new.answer ELSE queue
  BY <1>11
<1>12. whole \in BOOLEAN
  BY DEF Verdicts
<1>3. job.public \in Seq(Fine)
  BY <1>1 DEF JobProgress
<1>4. ~cut => job.public = NoText
  <2> HIDE DEF job
  <2>1. ~cut => job.said = NoText
    BY DEF job
  <2> QED
    BY <1>1, <2>1, Unsaid
<1>5. /\ filtered \in Job /\ filtered.pc = "done" /\ filtered.public = job.public
      /\ filtered.answer \in Seq(Fine)
  BY <1>1, <1>12, FilteredTypes
<1> HIDE DEF filtered, job
<1>6. /\ new \in Job /\ new.pc = "done" /\ new.public = job.public /\ new.cut = cut
      /\ new.answer \in Seq(Fine)
  BY <1>5 DEF Job
<1> HIDE DEF new
<1>7. /\ added \in Seq(Fine) /\ NoText \o added = added
      /\ queue' = queue \o added
  <2>1. added \in Seq(Fine)
    BY <1>6, FixedText
  <2>2. queue \o NoText = queue
    BY <1>1, ConcatEmptySeq DEF NoText
  <2>3. <<>> \o added = added
    BY <2>1, ConcatEmptySeq
  <2> QED
    BY <1>2, <2>1, <2>2, <2>3 DEF NoText
<1>8. /\ ~Streaming => added = NoText
      /\ Streaming => added = new.answer
  OBVIOUS
<1> HIDE DEF added
<1>9. JobProgress(new, "synthesis", Streaming, Strict)
  BY <1>3, <1>6 DEF JobProgress
<1>10. Outcome(job, "synthesis", Streaming, Strict, new, added)
  BY <1>4, <1>6, <1>7, <1>8, <1>9, FineText DEF Outcome
<1> QED
  BY <1>1, <1>2, <1>7, <1>10, OutcomeKeeps DEF job

LEMMA SynthesisKeeps ==
  ASSUME StreamInv, NEW j \in Jobs,
         SynthesisCallReturns(j) \/ SynthesisTimesOut(j) \/ SynthesisFails(j)
  PROVE  StreamInv'
<1> DEFINE job == jobs[j]
<1>1. /\ job \in Job /\ JobProgress(job, "synthesis", Streaming, Strict)
      /\ query[j] = "synthesis" /\ task = "run" /\ job.pc \in {"streaming", "called"}
  BY JobFacts DEF SynthesisCallReturns, SynthesisTimesOut, SynthesisFails, Running
<1>2. \A t \in {"evidence", "snapshot"} : <<t>> \in Seq(Text) /\ Len(<<t>>) <= MaxSentences
  <2>1. \A t \in {"evidence", "snapshot"} : <<t>> \in Seq(Text)
    BY FixedText, FineText
  <2> QED
    BY <2>1, SentencesAssumption
<1>3. CASE SynthesisCallReturns(j)
  <2>1. PICK said \in SeqOf(Sentence, MaxSentences) : Conclude(j, said, FALSE) /\ job.pc = "called"
    BY <1>3 DEF SynthesisCallReturns
  <2>2. said \in Seq(Text) /\ Len(said) <= MaxSentences
    <3>1. said \in Seq(Sentence) /\ Len(said) <= MaxSentences
      BY SentencesAssumption DEF SeqOf
    <3> QED
      BY <3>1 DEF Text
  <2>3. job.said = NoText
    BY <1>1, <2>1 DEF JobProgress
  <2> QED
    BY <1>1, <2>1, <2>2, <2>3, ConcludeKeeps
<1>4. CASE SynthesisTimesOut(j)
  BY <1>1, <1>2, <1>4, ConcludeKeeps DEF SynthesisTimesOut
<1>5. CASE SynthesisFails(j)
  <2>1. CASE job.said = NoText /\ Conclude(j, <<"evidence">>, FALSE)
    BY <1>1, <1>2, <2>1, ConcludeKeeps
  <2>2. CASE Step(j, Failed(job)) /\ UNCHANGED queue
    BY <1>1, <2>2, FailedOutcome, SilentKeeps
  <2>3. CASE Conclude(j, <<"snapshot">>, job.said # NoText)
    BY <1>1, <1>2, <2>3, ConcludeKeeps
  <2> QED
    BY <1>5, <2>1, <2>2, <2>3 DEF SynthesisFails
<1> QED
  BY <1>3, <1>4, <1>5

-----------------------------------------------------------------------------
(* The steps of the task and of the generator.                             *)

(* The answer of a request whose jobs do not change does not change. *)
LEMMA SameAnswer ==
  ASSUME UNCHANGED <<mode, query, jobs>>
  PROVE  /\ Jobs' = Jobs /\ Streaming' = Streaming /\ Strict' = Strict /\ Answer' = Answer
         /\ \A j : Trusted(j)' = Trusted(j)
<1>1. Jobs' = Jobs /\ Streaming' = Streaming /\ Strict' = Strict
  BY DEF Jobs, Streaming, Strict
<1>2. \A j : Trusted(j)' = Trusted(j)
  BY <1>1 DEF Trusted
<1>3. Answer' = Answer
  BY <1>1 DEF Answer, Section
<1> QED
  BY <1>1, <1>2, <1>3

LEMMA AnswerTypes ==
  ASSUME StreamInv
  PROVE  /\ Answer \in Seq(Text)
         /\ (\A j \in Jobs : Trusted(j)) => Answer \in Seq(Fine)
         /\ Len(query) = 1 => Answer = jobs[1].answer
<1>1. \A j \in Jobs : /\ jobs[j] \in Job /\ jobs[j].answer \in Seq(Text)
                      /\ JobProgress(jobs[j], query[j], Streaming, Strict)
  BY JobFacts DEF Job
<1>2. \A j \in Jobs : Trusted(j) => jobs[j].answer \in Seq(Fine)
  BY <1>1, FixedText DEF JobProgress, Trusted
<1>3. \A j \in Jobs : Section(j) \in Seq(Text) /\ (Trusted(j) => Section(j) \in Seq(Fine))
  <2>1. <<"failed">> \in Seq(Text) /\ <<"failed">> \in Seq(Fine)
    BY FixedText, FineText
  <2> QED
    BY <1>1, <1>2, <2>1 DEF Section
<1>4. Len(query) \in Nat /\ 1 \in Jobs
  BY OneJob DEF StreamInv
<1> DEFINE sections == [j \in Jobs |-> Section(j)]
<1>5. ASSUME NEW X, \A j \in Jobs : Section(j) \in Seq(X)
      PROVE  Joined(sections) \in Seq(X)
  <2>1. sections \in Seq(Seq(X))
    BY <1>4, <1>5 DEF Jobs
  <2> HIDE DEF sections
  <2> QED
    BY <2>1, JoinedTypes
<1>6. Answer = IF Len(query) = 1 THEN jobs[1].answer ELSE Joined(sections)
  BY DEF Answer
<1> HIDE DEF sections
<1>7. Answer \in Seq(Text)
  BY <1>1, <1>3, <1>4, <1>5, <1>6
<1>8. (\A j \in Jobs : Trusted(j)) => Answer \in Seq(Fine)
  BY <1>2, <1>3, <1>4, <1>5, <1>6
<1> QED
  BY <1>6, <1>7, <1>8

LEMMA NoContent ==
  ASSUME StreamInv
  PROVE  /\ queue \in Seq(Text) /\ shown \in Seq(Text) /\ message \in Seq(Text)
         /\ ContentCount = 0 <=> Content = NoText
         /\ ContentCount = 0 <=> shown = NoText /\ queue = NoText
<1>1. queue \in Seq(Text) /\ shown \in Seq(Text) /\ message \in Seq(Text)
  BY DEF StreamInv, AnswerTypeOK
<1>2. Len(queue) \in Nat /\ Len(shown) \in Nat
  BY <1>1
<1>3. ContentCount = 0 <=> shown = NoText /\ queue = NoText
  BY <1>1, <1>2 DEF ContentCount, NoText
<1>4. Len(shown \o queue) = ContentCount /\ shown \o queue \in Seq(Text)
  BY <1>1, ConcatProperties DEF ContentCount
<1>5. ContentCount = 0 <=> Content = NoText
  BY <1>4, EmptySeq DEF Content, NoText
<1> QED
  BY <1>1, <1>3, <1>5

(* A request that is refused, before it has any content. *)
LEMMA RefusedKeeps ==
  ASSUME StreamInv, task \in {"parse", "prepare"}, NEW text \in {"boundary", "unavailable"},
         Refused(text)
  PROVE  StreamInv'
<1> DEFINE job == [jobs[1] EXCEPT !.pc = "done", !.answer = <<text>>]
<1>1. /\ mode' = mode /\ query' = query /\ task' = "done" /\ queue' = queue
      /\ shown' = shown /\ message' = message /\ stream' = stream
      /\ jobs' = [jobs EXCEPT ![1].pc = "done", ![1].answer = <<text>>]
  BY DEF Refused, request, client
<1>2. /\ Jobs' = Jobs /\ Streaming' = Streaming /\ Strict' = Strict
      /\ \A k \in Jobs : Trusted(k)' = Trusted(k)
  BY <1>1 DEF Jobs, Streaming, Strict, Trusted
<1>3. <<text>> \in Seq(Fine) /\ <<text>> \in Seq(Text)
  BY FixedText, FineText
<1>4. jobs \in [Jobs -> Job] /\ 1 \in Jobs
  BY OneJob DEF StreamInv, AnswerTypeOK
<1>5. /\ job \in Job /\ job.pc = "done" /\ job.answer = <<text>> /\ job.public = jobs[1].public
  <2>1. jobs[1] \in Job
    BY <1>4
  <2> QED
    BY <1>3, <2>1 DEF Job
<1>6. jobs' \in [Jobs -> Job] /\ jobs'[1] = job /\ \A k \in Jobs : k # 1 => jobs'[k] = jobs[k]
  BY <1>1, <1>4, <1>5
<1> HIDE DEF job
<1>7. JobProgress(job, query[1], Streaming, Strict)
  <2>1. jobs[1].public \in Seq(Fine)
    BY <1>4 DEF StreamInv, JobProgress
  <2> QED
    BY <1>3, <1>5, <2>1 DEF JobProgress
<1>8. \A k \in Jobs : JobProgress(jobs'[k], query[k], Streaming, Strict)
  BY <1>6, <1>7 DEF StreamInv
<1>9. Content = NoText /\ stream # "completed"
  BY DEF StreamInv, ContentProgress
<1>10. ContentProgress'
  <2>1. Content' = NoText
    BY <1>1, <1>9 DEF Content
  <2>2. Settled(Answer)'
    BY <2>1 DEF Settled
  <2> QED
    BY <1>1, <2>2 DEF ContentProgress
<1>11. AnswerTypeOK'
  BY <1>1, <1>2, <1>6 DEF StreamInv, AnswerTypeOK
<1>12. ShownIsAnswered'
  BY <1>1, <1>9 DEF ShownIsAnswered
<1> QED
  BY <1>1, <1>2, <1>8, <1>10, <1>11, <1>12 DEF StreamInv

(* ... and one that goes on, or whose data is not ready. *)
LEMMA AdvanceKeeps ==
  ASSUME StreamInv, task \in {"parse", "prepare"}, task' \in {"prepare", "failed", "run"},
         UNCHANGED <<mode, query, jobs, queue, shown, message, stream>>
  PROVE  StreamInv'
<1>1. Jobs' = Jobs /\ Streaming' = Streaming /\ Strict' = Strict /\ Content' = Content
      /\ \A j : Trusted(j)' = Trusted(j)
  BY SameAnswer DEF Content
<1>2. /\ Content = NoText /\ stream # "completed" /\ 1 \in Jobs
      /\ \A j \in Jobs : jobs[j] = NewJob
  BY OneJob DEF StreamInv, ContentProgress
<1>3. NewJob.pc = "start" /\ NewJob.public = NoText
  BY DEF NewJob
<1>4. ContentProgress'
  BY <1>1, <1>2, <1>3 DEF ContentProgress
<1>5. AnswerTypeOK' /\ ShownIsAnswered'
  BY <1>1, <1>2 DEF StreamInv, AnswerTypeOK, ShownIsAnswered
<1> QED
  BY <1>1, <1>4, <1>5 DEF StreamInv

LEMMA CompleteTaskKeeps ==
  ASSUME StreamInv, CompleteTask
  PROVE  StreamInv'
<1>1. /\ task = "run" /\ JobsEnded /\ task' \in {"done", "failed"}
      /\ UNCHANGED <<mode, query, jobs, shown, message, stream>>
  BY DEF CompleteTask, request, client
<1>2. /\ Jobs' = Jobs /\ Streaming' = Streaming /\ Strict' = Strict /\ Answer' = Answer
      /\ \A j : Trusted(j)' = Trusted(j)
  BY <1>1, SameAnswer
<1>3. stream # "completed" /\ 1 \in Jobs
  BY <1>1, OneJob DEF StreamInv, ContentProgress
<1>4. \/ task' = "failed" /\ queue' = queue
      \/ /\ task' = "done" /\ (Len(query) = 1 => jobs[1].pc = "done")
         /\ queue' = IF ContentCount = 0 THEN Answer ELSE queue
  BY <1>1, <1>3 DEF CompleteTask, JobsEnded
<1>5. queue' \in Seq(Text) /\ ((\A j \in Jobs : Trusted(j)) => queue' \in Seq(Fine))
  BY <1>4, AnswerTypes DEF StreamInv, AnswerTypeOK
<1>6. AnswerTypeOK'
  BY <1>1, <1>2, <1>5 DEF StreamInv, AnswerTypeOK
<1>7. ASSUME task' = "done"
      PROVE  Settled(Answer)'
  <2>1. CASE ContentCount = 0
    <3>1. queue' = Answer /\ shown' = <<>>
      BY <1>1, <1>4, <1>7, <2>1, NoContent DEF NoText
    <3>2. Content' = Answer
      BY <3>1, AnswerTypes, ConcatEmptySeq DEF Content
    <3> QED
      BY <1>2, <3>2 DEF Settled
  <2>2. CASE ContentCount # 0
    <3>1. Content' = Content
      BY <1>1, <1>4, <1>7, <2>2 DEF Content
    <3>2. Streaming /\ Len(query) = 1
      BY <1>1, <2>2, NoContent DEF StreamInv, ContentProgress, Streaming
    <3>3. Settled(jobs[1].answer)
      BY <1>1, <1>3, <1>4, <1>7, <3>2 DEF StreamInv, ContentProgress
    <3> QED
      BY <1>1, <1>2, <3>1, <3>2, <3>3, AnswerTypes DEF Settled
  <2> QED
    BY <2>1, <2>2
<1>8. ContentProgress'
  BY <1>1, <1>2, <1>3, <1>7 DEF ContentProgress
<1>9. ShownIsAnswered'
  BY <1>1, <1>3 DEF ShownIsAnswered
<1> QED
  BY <1>1, <1>2, <1>5, <1>6, <1>8, <1>9 DEF StreamInv

(* The generator moves a piece from the queue to the client. *)
LEMMA DeliverKeeps ==
  ASSUME StreamInv, Deliver
  PROVE  StreamInv'
<1>1. /\ stream = "open" /\ queue # <<>> /\ shown' = Append(shown, Head(queue)) /\ queue' = Tail(queue)
      /\ UNCHANGED <<mode, query, task, jobs, message, stream>>
  BY DEF Deliver, request
<1>2. /\ Jobs' = Jobs /\ Streaming' = Streaming /\ Strict' = Strict /\ Answer' = Answer
      /\ \A j : Trusted(j)' = Trusted(j)
  BY <1>1, SameAnswer
<1>3. ASSUME NEW S, queue \in Seq(S), shown \in Seq(S)
      PROVE  queue' \in Seq(S) /\ shown' \in Seq(S) /\ shown' \o queue' = shown \o queue
  <2>1. Head(queue) \in S /\ Tail(queue) \in Seq(S) /\ queue = <<Head(queue)>> \o Tail(queue)
    BY <1>1, <1>3, HeadTailProperties
  <2>2. shown' = shown \o <<Head(queue)>> /\ shown' \in Seq(S)
    BY <1>1, <1>3, <2>1, AppendProperties, AppendIsConcat
  <2> DEFINE h == <<Head(queue)>>
             t == Tail(queue)
  <2>3. h \in Seq(S) /\ t \in Seq(S) /\ shown' = shown \o h /\ queue' = t /\ queue = h \o t
    BY <1>1, <2>1, <2>2
  <2> HIDE DEF h, t
  <2>4. shown \o h \o t = shown \o (h \o t)
    BY <1>3, <2>3, Associate
  <2> QED
    BY <2>2, <2>3, <2>4
<1>4. /\ queue \in Seq(Text) /\ shown \in Seq(Text) /\ message \in Seq(Text)
      /\ queue' \in Seq(Text) /\ shown' \in Seq(Text) /\ Content' = Content
  BY <1>3, NoContent DEF Content
<1>5. (\A j \in Jobs : Trusted(j)) => {queue', shown', message} \subseteq Seq(Fine)
  BY <1>3 DEF StreamInv
<1>6. AnswerTypeOK'
  BY <1>1, <1>2, <1>4 DEF StreamInv, AnswerTypeOK
<1>7. ContentProgress'
  BY <1>1, <1>2, <1>4 DEF StreamInv, ContentProgress, Settled
<1>8. ShownIsAnswered'
  BY <1>1 DEF ShownIsAnswered
<1> QED
  BY <1>1, <1>2, <1>5, <1>6, <1>7, <1>8 DEF StreamInv

(* The stream ends with the message: all content was delivered, and there  *)
(* was some, or the answer is shown now.                                   *)
LEMMA CompleteStreamKeeps ==
  ASSUME StreamInv, CompleteStream
  PROVE  StreamInv'
<1>1. /\ task = "done" /\ queue = <<>> /\ stream' = "completed" /\ message' = Answer
      /\ shown' = IF ContentCount = 0 THEN Answer ELSE shown
      /\ UNCHANGED <<mode, query, task, jobs, queue>>
  BY DEF CompleteStream, Drained, request
<1>2. /\ Jobs' = Jobs /\ Streaming' = Streaming /\ Strict' = Strict /\ Answer' = Answer
      /\ \A j : Trusted(j)' = Trusted(j)
  BY <1>1, SameAnswer
<1>3. shown \in Seq(Text) /\ Answer \in Seq(Text) /\ queue \in Seq(Text)
  BY NoContent, AnswerTypes
<1>4. Content = shown /\ Content' = shown'
  <2>1. shown \o <<>> = shown /\ Answer \o <<>> = Answer
    BY <1>3, ConcatEmptySeq
  <2> QED
    BY <1>1, <2>1 DEF Content
<1>5. AnswerTypeOK'
  BY <1>1, <1>2, <1>3 DEF StreamInv, AnswerTypeOK
<1>6. (\A j \in Jobs : Trusted(j)) => {queue', shown', message'} \subseteq Seq(Fine)
  BY <1>1, AnswerTypes DEF StreamInv
<1>7. Settled(Answer)' /\ ShownIsAnswered'
  <2>1. Settled(Answer)
    BY <1>1 DEF StreamInv, ContentProgress
  <2>2. CASE ContentCount = 0
    BY <1>1, <1>2, <1>4, <2>2 DEF Settled, ShownIsAnswered
  <2>3. CASE ContentCount # 0
    <3>1. Content # NoText /\ shown' = shown
      BY <1>1, <2>3, NoContent
    <3> QED
      BY <1>1, <1>2, <1>4, <2>1, <3>1 DEF Settled, ShownIsAnswered
  <2> QED
    BY <2>2, <2>3
<1>8. ContentProgress'
  BY <1>1, <1>2, <1>7 DEF ContentProgress
<1> QED
  BY <1>1, <1>2, <1>5, <1>6, <1>7, <1>8 DEF StreamInv

(* Any other end of the stream shows nothing more. *)
LEMMA StreamEndKeeps ==
  ASSUME StreamInv, UNCHANGED <<mode, query, jobs, queue, shown, message>>,
         \/ stream' = stream /\ task' = task
         \/ stream' \in {"failed", "broken", "closed"} /\ task' \in {task, "cancelled"}
  PROVE  StreamInv'
<1>1. /\ Jobs' = Jobs /\ Streaming' = Streaming /\ Strict' = Strict /\ Answer' = Answer
      /\ Content' = Content /\ \A j : Trusted(j)' = Trusted(j)
  BY SameAnswer DEF Content
<1>2. AnswerTypeOK'
  BY <1>1 DEF StreamInv, AnswerTypeOK
<1>3. ContentProgress'
  BY <1>1 DEF StreamInv, ContentProgress, Settled
<1>4. ShownIsAnswered'
  BY <1>1 DEF StreamInv, ShownIsAnswered
<1> QED
  BY <1>1, <1>2, <1>3, <1>4 DEF StreamInv

LEMMA StreamInit ==
  ASSUME Init
  PROVE  StreamInv
<1>1. /\ mode \in [strict : BOOLEAN, responses : BOOLEAN] /\ query \in Queries /\ task = "parse"
      /\ jobs = [j \in Jobs |-> NewJob] /\ queue = <<>> /\ shown = <<>> /\ message = <<>>
      /\ stream = "open"
  BY DEF Init, Jobs, NoText
<1>2. NewJob \in Job
  <2>1. 0 \in 0 .. MaxSentences /\ 0 \in 0 .. 3 /\ NoText \in Seq(Sentence) /\ NoText \in Seq(Text)
    BY SentencesAssumption DEF NoText
  <2> QED
    BY <2>1 DEF NewJob, Job
<1>3. NoText \in Seq(Fine) /\ NoText \in Seq(Text)
  BY FixedText, FineText
<1>4. AnswerTypeOK
  BY <1>1, <1>2, <1>3 DEF AnswerTypeOK, NoText
<1>5. \A skill, streaming, strict : JobProgress(NewJob, skill, streaming, strict)
  BY <1>3 DEF JobProgress, NewJob
<1>6. Content = NoText
  BY <1>1 DEF Content, NoText
<1>7. ContentProgress
  BY <1>1, <1>6 DEF ContentProgress
<1>8. ShownIsAnswered
  BY <1>1 DEF ShownIsAnswered
<1>9. \A j \in Jobs : jobs[j] = NewJob
  BY <1>1
<1> QED
  BY <1>1, <1>3, <1>4, <1>5, <1>7, <1>8, <1>9 DEF StreamInv, NoText

-----------------------------------------------------------------------------
(* StreamInv holds of every request: for every list of skills, every way   *)
(* the model's text is cut into deltas, every point at which it fails or   *)
(* falls silent, and every interleaving of task, generator and client.     *)
THEOREM Progress == Spec => []StreamInv
<1>1. Init => StreamInv
  BY StreamInit
<1>2. StreamInv /\ [Next]_vars => StreamInv'
  <2> SUFFICES ASSUME StreamInv, [Next]_vars
               PROVE  StreamInv'
    OBVIOUS
  <2>1. CASE ParseRequest
    <3>1. task = "parse"
      BY <2>1 DEF ParseRequest
    <3>2. CASE Refused("boundary") \/ Refused("unavailable")
      BY <3>1, <3>2, RefusedKeeps
    <3>3. CASE task' = "prepare" /\ UNCHANGED <<request, jobs, queue, client>>
      BY <3>1, <3>3, AdvanceKeeps DEF request, client
    <3> QED
      BY <2>1, <3>2, <3>3 DEF ParseRequest
  <2>2. CASE PrepareContext
    <3>1. task = "prepare"
      BY <2>2 DEF PrepareContext
    <3>2. CASE Refused("unavailable")
      BY <3>1, <3>2, RefusedKeeps
    <3>3. CASE task' \in {"failed", "run"} /\ UNCHANGED <<request, jobs, queue, client>>
      BY <3>1, <3>3, AdvanceKeeps DEF request, client
    <3> QED
      BY <2>2, <3>2, <3>3 DEF PrepareContext
  <2>3. ASSUME NEW j \in Jobs, StartJob(j) PROVE StreamInv'
    BY <2>3, StartKeeps
  <2>4. CASE CompleteTask
    BY <2>4, CompleteTaskKeeps
  <2>5. CASE Deliver
    BY <2>5, DeliverKeeps
  <2>6. CASE CompleteStream
    BY <2>6, CompleteStreamKeeps
  <2>7. CASE FailStream \/ RegisterFails \/ ClientLeaves
    BY <2>7, StreamEndKeeps DEF FailStream, RegisterFails, ClientLeaves, request
  <2>8. ASSUME NEW j \in Jobs, ModelNext(j) PROVE StreamInv'
    <3>1. CASE DeltaStarts(j)
      BY <3>1, DeltaStartKeeps
    <3>2. CASE DeltaEnds(j)
      BY <3>2, DeltaEndKeeps
    <3>3. CASE RagStreamEnds(j)
      BY <3>3, RagStreamEndKeeps
    <3>4. CASE RagRetryReturns(j)
      BY <3>4, RagRetryKeeps
    <3>5. CASE RagCallReturns(j)
      BY <3>5, RagCallKeeps
    <3>6. CASE SynthesisStreamEnds(j)
      BY <3>6, SynthesisStreamEndKeeps
    <3>7. CASE SynthesisCallReturns(j) \/ SynthesisFails(j)
      BY <3>7, SynthesisKeeps
    <3> QED
      BY <2>8, <3>1, <3>2, <3>3, <3>4, <3>5, <3>6, <3>7 DEF ModelNext
  <2>9. ASSUME NEW j \in Jobs, TimeoutNext(j) PROVE StreamInv'
    BY <2>9, RagBreakKeeps, SynthesisKeeps DEF TimeoutNext
  <2>10. CASE UNCHANGED vars
    BY <2>10, StreamEndKeeps DEF vars
  <2> QED
    BY <2>1, <2>2, <2>3, <2>4, <2>5, <2>6, <2>7, <2>8, <2>9, <2>10
    DEF Next, TaskNext, GeneratorNext, Jobs
<1> QED
  BY <1>1, <1>2, PTL DEF Spec

(* "so unsupported numeric claims are never emitted": no unsupported       *)
(* sentence is queued, shown or answered in strict mode, nor, whatever the *)
(* mode, where no skill is a RAG answer.                                   *)
THEOREM SupportedOnly == Spec => []AnswerInv
<1>1. StreamInv => AnswerInv
  <2> SUFFICES ASSUME StreamInv PROVE AnswerInv
    OBVIOUS
  <2>1. ASSUME Strict \/ \A j \in Jobs : query[j] # "rag",
               NEW text \in {queue, shown, message}
        PROVE  Grounded(text)
    <3>1. text \in Seq(Fine)
      BY <2>1 DEF StreamInv, Trusted
    <3>2. text \in Seq(Text)
      BY <3>1, FineText
    <3> QED
      BY <3>1, <3>2, GroundedText
  <2> QED
    BY <2>1 DEF AnswerInv, OnlySupportedText, StreamInv
<1> QED
  BY <1>1, Progress, PTL

(* What was shown piece by piece is what the message that ends the         *)
(* response says; where the model failed after public text, or that text   *)
(* did not pass as a whole, the message refuses it or was shown last.      *)
THEOREM ShownAnswered == Spec => []ShownIsAnswered
<1>1. StreamInv => ShownIsAnswered
  BY DEF StreamInv
<1> QED
  BY <1>1, Progress, PTL

=============================================================================
