---------------------------- MODULE AnswerStream ----------------------------
(***************************************************************************)
(* One request of POST /process: the task that answers it, with one job    *)
(* per subquery, the queue of runtime events between that task and the     *)
(* generator of the response, and the client.  Both are coroutines; the    *)
(* model may fail, or fall silent, at any point of a call, and the client  *)
(* may leave.                                                              *)
(*                                                                         *)
(* A text is a sequence of pieces: sentences of the model, and the fixed   *)
(* texts the code itself writes.  The data is that of AnswerEvidence, the  *)
(* admission of the request and the model's circuit are ProcessServing's.  *)
(***************************************************************************)
EXTENDS Integers, Sequences, SequencesExt

CONSTANTS
  Queries,      \* sequences of skills; more than one is a multi-intent query
  MaxSentences  \* bound: sentences of one model answer

ASSUME SentencesAssumption == MaxSentences \in Nat \ {0}
ASSUME QueriesAssumption == \A q \in Queries : q \in Seq({"direct", "rag", "synthesis"}) /\ q # <<>>

VARIABLES
  mode,     \* the process's configuration: [strict, responses]
  query,    \* the skills its parsed form selects
  task,     \* the answer task
  jobs,     \* one per skill of the query
  queue,    \* event_sink: content not yet read by the generator
  shown,    \* content yielded to the client
  message,  \* text of the message event that ends the stream
  stream    \* the generator of the response

vars == <<mode, query, task, jobs, queue, shown, message, stream>>
request == <<mode, query>>
client == <<shown, message, stream>>

Sentence == {"fact", "cite", "invented", "heading"}
NoHalf == "none"
NoText == <<>>
Supported(s) == s # "invented"

NewJob ==
  [pc |-> "start", said |-> NoText, half |-> NoHalf, public |-> NoText, dropped |-> 0,
   stopped |-> FALSE, streamed |-> FALSE, cut |-> FALSE, calls |-> 0, answer |-> NoText]

Jobs == 1..Len(query)
Strict == mode.strict                       \* EXTERNAL_API_REQUIRED, facts validated
Streaming == Len(query) = 1 /\ mode.responses  \* stream_content, uses_responses_api()
ContentCount == Len(queue) + Len(shown)

Init ==
  /\ mode \in [strict : BOOLEAN, responses : BOOLEAN]
  /\ query \in Queries
  /\ task = "parse"
  /\ jobs = [j \in 1..Len(query) |-> NewJob]
  /\ queue = NoText /\ shown = NoText /\ message = NoText
  /\ stream = "open"

-----------------------------------------------------------------------------
(* The answer task until its jobs start.                                   *)

(* A query that is refused or cannot be answered ends the task with a text *)
(* of its own, before any content was queued.                              *)
Refused(text) ==
  /\ task' = "done"
  /\ jobs' = [jobs EXCEPT ![1].pc = "done", ![1].answer = <<text>>]
  /\ UNCHANGED <<request, queue, client>>

ParseRequest ==
  /\ task = "parse"
  /\ \/ Refused("boundary")      \* the question is outside of the data
     \/ Refused("unavailable")   \* strict, and no validated model parse
     \/ /\ task' = "prepare"
        /\ UNCHANGED <<request, jobs, queue, client>>

PrepareContext ==
  /\ task = "prepare"
  /\ \/ Refused("unavailable")   \* no official snapshot
     \/ /\ task' = "failed"      \* the published data is not ready
        /\ UNCHANGED <<request, jobs, queue, client>>
     \/ /\ task' = "run"
        /\ UNCHANGED <<request, jobs, queue, client>>

-----------------------------------------------------------------------------
(* The jobs.                                                               *)

Running(j) == task = "run" /\ j \in Jobs
Step(j, job) == jobs' = [jobs EXCEPT ![j] = job] /\ UNCHANGED <<request, task, client>>

Ended(job, text) == [job EXCEPT !.pc = "done", !.answer = text, !.half = NoHalf]
Failed(job) == [job EXCEPT !.pc = "failed", !.half = NoHalf]
Calling(job, pc) == [job EXCEPT !.pc = pc, !.calls = @ + 1]

(* A skill without a retriever, an API key or evidence says so; a store or *)
(* an index that cannot be read fails the job; otherwise the model is      *)
(* asked, or the structured answer is complete.                            *)
StartJob(j) ==
  /\ Running(j) /\ jobs[j].pc = "start"
  /\ \/ Step(j, Ended(jobs[j], <<"no_evidence">>))
     \/ Step(j, Failed(jobs[j]))
     \/ Step(j, IF query[j] = "direct" THEN Ended(jobs[j], <<"structured">>)
                ELSE Calling(jobs[j], IF Streaming THEN "streaming" ELSE "called"))
  /\ UNCHANGED queue

(* GroundedStreamBuffer: a piece is checked when its end has arrived.  The *)
(* RAG answer stops at the first that is not supported, the synthesis      *)
(* leaves it out and ends at the heading of the references.                *)
Checked(job, skill, s) ==
  IF job.stopped THEN job
  ELSE IF s = "heading" /\ skill = "synthesis" THEN [job EXCEPT !.stopped = TRUE]
  ELSE IF Supported(s) THEN [job EXCEPT !.public = Append(@, s)]
  ELSE [job EXCEPT !.dropped = @ + 1]

(* Seeded fault: the text left at the end of the stream is not checked. *)
FinishUnchecked(job, skill) ==
  IF job.half = NoHalf \/ job.stopped THEN job
  ELSE [job EXCEPT !.half = NoHalf, !.public = Append(@, job.half)]

Finish(job, skill) ==
  IF job.half = NoHalf THEN job
  ELSE [Checked(job, skill, job.half) EXCEPT !.half = NoHalf]

(* What a push or finish adds is queued for the client. *)
NewlyPublic(before, after) == SubSeq(after.public, Len(before.public) + 1, Len(after.public))
Publish(before, after) == queue' = queue \o NewlyPublic(before, after)

(* The text of a RAG answer that is given up; what was queued stays. *)
Refusal == <<"refusal", "refs">>
GivenUp(job) == [Ended(job, Refusal) EXCEPT !.cut = job.said # NoText]

(* A delta of the stream starts a sentence ... *)
DeltaStarts(j) ==
  /\ Running(j) /\ jobs[j].pc = "streaming" /\ jobs[j].half = NoHalf
  /\ Len(jobs[j].said) < MaxSentences
  /\ \E s \in Sentence :
       Step(j, [jobs[j] EXCEPT !.half = s, !.said = Append(@, s)])
  /\ UNCHANGED queue

(* ... or ends one, which is checked and queued. *)
DeltaEnds(j) ==
  /\ Running(j) /\ jobs[j].pc = "streaming" /\ jobs[j].half # NoHalf
  /\ LET job == Finish(jobs[j], query[j])
     IN /\ Step(j, IF query[j] = "rag" /\ job.dropped > 0 THEN GivenUp(job) ELSE job)
        /\ Publish(jobs[j], job)

(* A text is also checked as a whole.  One whose pieces all pass may fail  *)
(* then: a document id is read up to the next blank, across two sentences. *)
Grounded(text) == \A i \in 1..Len(text) : Supported(text[i])
Verdicts(text) == {whole \in BOOLEAN : /\ whole => Grounded(text)
                                       /\ Grounded(text) /\ Len(text) < 2 => whole}

Cited(text) == \E i \in 1..Len(text) : text[i] = "cite"
References(text) == IF Cited(text) THEN NoText ELSE <<"refs">>

(* The model ends its stream: the RAG answer is complete, with its         *)
(* references, unless nothing was said; in strict mode a text that fails   *)
(* as a whole is given up after it was queued, references and all.         *)
RagStreamEnds(j) ==
  /\ Running(j) /\ query[j] = "rag" /\ jobs[j].pc = "streaming"
  /\ LET job == Finish(jobs[j], "rag")
     IN IF job.said = NoText
        THEN Step(j, Calling(job, "retried")) /\ UNCHANGED queue
        ELSE IF job.dropped > 0
        THEN Step(j, GivenUp(job)) /\ Publish(jobs[j], job)
        ELSE /\ \E whole \in Verdicts(job.said) :
                  Step(j, IF Strict /\ ~whole THEN GivenUp(job)
                          ELSE Ended(job, job.said \o References(job.said)))
             /\ queue' = queue \o NewlyPublic(jobs[j], job) \o References(job.said)

(* The stream breaks or times out.  Without any text the model is asked    *)
(* again, without streaming.                                               *)
RagStreamBreaks(j) ==
  /\ Running(j) /\ query[j] = "rag" /\ jobs[j].pc = "streaming"
  /\ Step(j, IF jobs[j].said = NoText THEN Calling(jobs[j], "retried") ELSE GivenUp(jobs[j]))
  /\ UNCHANGED queue

(* The answer to that is not used: control leaves the handler and the      *)
(* model is asked once more.                                               *)
RagRetryReturns(j) ==
  /\ Running(j) /\ jobs[j].pc = "retried"
  /\ Step(j, Calling(jobs[j], "called"))
  /\ UNCHANGED queue

(* A complete answer is checked as a whole, in strict mode. *)
RagCallReturns(j) ==
  /\ Running(j) /\ query[j] = "rag" /\ jobs[j].pc = "called"
  /\ \E said \in SeqOf(Sentence, MaxSentences) : \E whole \in Verdicts(said) :
       LET text == said \o References(said)
       IN IF Strict /\ ~whole
          THEN Step(j, GivenUp(jobs[j])) /\ UNCHANGED queue
          ELSE /\ Step(j, Ended(jobs[j], text))
               /\ queue' = IF Streaming THEN queue \o text ELSE queue

RagCallFails(j) ==
  /\ Running(j) /\ query[j] = "rag" /\ jobs[j].pc \in {"retried", "called"}
  /\ Step(j, GivenUp(jobs[j]))
  /\ UNCHANGED queue

-----------------------------------------------------------------------------
(* The synthesis of environment evidence.                                  *)

Notice(job) == IF job.dropped > 0 THEN <<"notice">> ELSE NoText

(* The end of build_evidence_synthesis_answer: the notice of what was left *)
(* out, the references, and the check of the whole.                        *)
Concluded(job, text, whole) ==
  LET body == IF text = NoText THEN <<"withheld">> ELSE text
  IN Ended(job, IF Strict /\ ~whole THEN Refusal ELSE body \o Notice(job) \o <<"refs">>)

(* Of a streamed answer only what follows its text is still queued, also   *)
(* when the answer turns into a refusal.                                   *)
SynthesisStreamEnds(j) ==
  /\ Running(j) /\ query[j] = "synthesis" /\ jobs[j].pc = "streaming"
  /\ LET job == [Finish(jobs[j], "synthesis") EXCEPT !.streamed = TRUE]
     IN /\ \E whole \in Verdicts(job.public) :
             Step(j, [Concluded(job, job.public, whole) EXCEPT !.cut = Strict /\ ~whole])
        /\ queue' = queue \o NewlyPublic(jobs[j], job) \o Notice(job) \o <<"refs">>

(* filter_completed_answer: what precedes the references, supported. *)
BeforeHeading(text) ==
  LET cuts == {i \in 1..Len(text) : text[i] = "heading"}
  IN IF cuts = {} THEN text ELSE SubSeq(text, 1, (CHOOSE i \in cuts : \A k \in cuts : i <= k) - 1)

Kept(text) ==
  LET kept[n \in 0..Len(text)] ==
        IF n = 0 THEN NoText
        ELSE IF Supported(text[n]) THEN Append(kept[n - 1], text[n]) ELSE kept[n - 1]
  IN kept[Len(text)]

Filtered(job, said, whole) ==
  LET text == BeforeHeading(said)
      kept == Kept(text)
  IN Concluded([job EXCEPT !.dropped = Len(text) - Len(kept)], kept, whole)

(* An answer that was not streamed is filtered and queued whole. *)
Conclude(j, said, cut) ==
  \E whole \in Verdicts(Kept(BeforeHeading(said))) :
    LET job == [Filtered(jobs[j], said, whole) EXCEPT !.cut = cut]
    IN /\ Step(j, job)
       /\ queue' = IF Streaming THEN queue \o job.answer ELSE queue

SynthesisCallReturns(j) ==
  /\ Running(j) /\ query[j] = "synthesis" /\ jobs[j].pc = "called"
  /\ \E said \in SeqOf(Sentence, MaxSentences) : Conclude(j, said, FALSE)

(* Seeded fault: only the wait for the first text is bounded. *)
SynthesisTimesOutFirst(j) ==
  /\ Running(j) /\ query[j] = "synthesis" /\ jobs[j].pc \in {"streaming", "called"}
  /\ jobs[j].said = NoText
  /\ Conclude(j, <<"evidence">>, FALSE)

(* Silence, or a stream that never started: the retrieved evidence itself  *)
(* is the answer.                                                          *)
SynthesisTimesOut(j) ==
  /\ Running(j) /\ query[j] = "synthesis" /\ jobs[j].pc \in {"streaming", "called"}
  /\ Conclude(j, <<"evidence">>, jobs[j].said # NoText)

SynthesisFails(j) ==
  /\ Running(j) /\ query[j] = "synthesis" /\ jobs[j].pc \in {"streaming", "called"}
  /\ IF jobs[j].pc = "streaming" /\ jobs[j].said = NoText
     THEN Conclude(j, <<"evidence">>, FALSE)
     ELSE IF Strict THEN Step(j, Failed(jobs[j])) /\ UNCHANGED queue
     ELSE Conclude(j, <<"snapshot">>, jobs[j].said # NoText)

-----------------------------------------------------------------------------
(* The end of the task.                                                    *)

JobsEnded == \A j \in Jobs : jobs[j].pc \in {"done", "failed"}
Section(j) == IF jobs[j].pc = "failed" THEN <<"failed">> ELSE jobs[j].answer

(* compose_multi_intent_answer: one section after the other. *)
Joined(sections) ==
  LET told[n \in 0..Len(sections)] ==
        IF n = 0 THEN NoText ELSE told[n - 1] \o sections[n]
  IN  told[Len(sections)]

Answer == IF Len(query) = 1 THEN jobs[1].answer ELSE Joined([j \in Jobs |-> Section(j)])

(* gather: the sections in the order of the question; a failed one does    *)
(* not fail the others.  Content is queued here when none was before.      *)
CompleteTask ==
  /\ task = "run" /\ JobsEnded
  /\ IF Len(query) = 1 /\ jobs[1].pc = "failed"
     THEN task' = "failed" /\ UNCHANGED queue
     ELSE /\ task' = "done"
          /\ queue' = IF ContentCount = 0 THEN Answer ELSE queue
  /\ UNCHANGED <<request, jobs, client>>

-----------------------------------------------------------------------------
(* The generator.                                                          *)

Deliver ==
  /\ stream = "open" /\ queue # <<>>
  /\ shown' = Append(shown, Head(queue)) /\ queue' = Tail(queue)
  /\ UNCHANGED <<request, task, jobs, message, stream>>

(* Seeded fault: the loop ends with the task, whatever is still queued. *)
DrainedAtOnce == task \in {"done", "failed"}
Drained == task \in {"done", "failed"} /\ queue = <<>>

FailStream ==
  /\ stream = "open" /\ Drained /\ task = "failed"
  /\ stream' = "failed"
  /\ UNCHANGED <<request, task, jobs, queue, shown, message>>

(* The answer is remembered for feedback, shown if nothing was, and sent   *)
(* as the message that completes the response; a store that cannot be      *)
(* written breaks the stream.                                              *)
CompleteStream ==
  /\ stream = "open" /\ Drained /\ task = "done"
  /\ stream' = "completed"
  /\ message' = Answer
  /\ shown' = IF ContentCount = 0 THEN Answer ELSE shown
  /\ UNCHANGED <<request, task, jobs, queue>>

RegisterFails ==
  /\ stream = "open" /\ Drained /\ task = "done"
  /\ stream' = "broken"
  /\ UNCHANGED <<request, task, jobs, queue, shown, message>>

(* The client leaves: the task and its jobs are cancelled. *)
ClientLeaves ==
  /\ stream = "open"
  /\ stream' = "closed"
  /\ task' = IF task \in {"done", "failed"} THEN task ELSE "cancelled"
  /\ UNCHANGED <<request, jobs, queue, shown, message>>

ModelNext(j) ==
  \/ DeltaStarts(j) \/ DeltaEnds(j) \/ RagStreamEnds(j) \/ RagRetryReturns(j)
  \/ RagCallReturns(j) \/ SynthesisStreamEnds(j) \/ SynthesisCallReturns(j) \/ SynthesisFails(j)

TimeoutNext(j) == RagStreamBreaks(j) \/ RagCallFails(j) \/ SynthesisTimesOut(j)

TaskNext == ParseRequest \/ PrepareContext \/ (\E j \in Jobs : StartJob(j)) \/ CompleteTask
GeneratorNext == Deliver \/ FailStream \/ CompleteStream \/ RegisterFails

Next ==
  \/ TaskNext \/ GeneratorNext \/ ClientLeaves
  \/ \E j \in 1..Len(query) : ModelNext(j) \/ TimeoutNext(j)

Spec == Init /\ [][Next]_vars

(* The event loop runs the task and the generator; every model call has a  *)
(* timeout, and nothing else is asked of the model.                        *)
FairSpec ==
  /\ Spec
  /\ WF_vars(TaskNext) /\ WF_vars(GeneratorNext)
  /\ WF_vars(\E j \in Jobs : TimeoutNext(j))

-----------------------------------------------------------------------------
(* State of the task, its jobs, the queue and the response.                *)
Text == {"boundary", "unavailable", "no_evidence", "structured", "refusal", "refs", "notice",
         "withheld", "evidence", "snapshot", "failed"} \cup Sentence

Job == [pc : {"start", "streaming", "retried", "called", "done", "failed"},
        said : Seq(Sentence), half : Sentence \cup {NoHalf}, public : Seq(Text),
        dropped : 0..MaxSentences, stopped : BOOLEAN, streamed : BOOLEAN,
        cut : BOOLEAN, calls : 0..3, answer : Seq(Text)]

AnswerTypeOK ==
  /\ mode \in [strict : BOOLEAN, responses : BOOLEAN]
  /\ query \in Queries
  /\ task \in {"parse", "prepare", "run", "done", "failed", "cancelled"}
  /\ stream \in {"open", "completed", "failed", "broken", "closed"}
  /\ {queue, shown, message} \subseteq Seq(Text)
  /\ jobs \in [Jobs -> Job]

(* "so unsupported numeric claims are never emitted": no sentence that the *)
(* evidence does not support is queued, shown or part of the answer, in    *)
(* strict mode and, whatever the mode, of a synthesis.                     *)
OnlySupportedText ==
  (Strict \/ \A j \in Jobs : query[j] # "rag")
     => \A text \in {queue, shown, message} : Grounded(text)

(* With the types, for every split of the text into deltas.                *)
AnswerInv == AnswerTypeOK /\ OnlySupportedText

EndsWith(text, end) ==
  Len(end) <= Len(text) /\ \A i \in 1..Len(end) : text[Len(text) - Len(end) + i] = end[i]

(* What the client was shown piece by piece is the text of the message     *)
(* that completes the response, however deliveries and the end of the task *)
(* interleave.  A streamed answer of which nothing is left says so in the  *)
(* message only; and when the model failed after public text, or the whole *)
(* did not pass although its pieces had, that text stays shown: then the   *)
(* message refuses it, or is what was shown last.                          *)
ShownIsAnswered ==
  stream = "completed" =>
    \/ shown = message \/ message = <<"withheld">> \o shown
    \/ (\E j \in Jobs : jobs[j].cut) /\ (message = Refusal \/ EndsWith(shown, message))

-----------------------------------------------------------------------------
(* Why it is so: what a job has said, let through and answered, and what   *)
(* of it reached the client, at every point of the request.                *)
Fine == {t \in Text : Supported(t)}
Trusted(j) == Strict \/ query[j] # "rag"
Held(job) == IF job.half = NoHalf THEN NoText ELSE <<job.half>>
Content == shown \o queue

(* A job that has not begun to stream has said nothing; a streaming one    *)
(* has let through what it said, but for what it dropped or still holds,   *)
(* the RAG answer, which stops at the first unsupported piece, exactly.    *)
JobProgress(job, skill, streaming, strict) ==
  /\ job.public \in Seq(Fine)
  /\ job.pc \in {"start", "retried", "called"} =>
       job.said = NoText /\ job.public = NoText /\ job.half = NoHalf /\ job.dropped = 0 /\ ~job.cut
  /\ job.pc = "start" => job.calls = 0 /\ ~job.stopped
  /\ job.pc = "retried" => job.calls = 2 /\ skill = "rag"
  /\ job.pc = "called" => skill # "direct"
  /\ job.pc = "streaming" =>
       /\ streaming /\ skill # "direct" /\ job.calls = 1 /\ ~job.cut
       /\ Len(job.public) + Len(Held(job)) + job.dropped <= Len(job.said)
       /\ Len(job.said) <= MaxSentences
       /\ skill = "rag" => job.said = job.public \o Held(job) /\ job.dropped = 0 /\ ~job.stopped
  /\ job.pc # "done" => job.answer = NoText
  /\ job.pc = "done" /\ (strict \/ skill # "rag") => job.answer \in Seq(Fine)

(* Nothing, the answer, or all of it but the words that nothing is left;   *)
(* or text that was cut, before the answer or refused by it.               *)
Settled(answer) ==
  \/ Content \in {NoText, answer} \/ answer = <<"withheld">> \o Content
  \/ (\E j \in Jobs : jobs[j].cut) /\ (answer = Refusal \/ EndsWith(Content, answer))

ContentProgress ==
  /\ task \in {"parse", "prepare"} => \A j \in Jobs : jobs[j] = NewJob
  /\ task \in {"parse", "prepare"} \/ (task = "run" /\ ~Streaming) => Content = NoText
  /\ task = "run" /\ Streaming =>
       /\ jobs[1].pc \notin {"done", "failed"} => Content = jobs[1].public
       /\ jobs[1].pc = "done" => Settled(jobs[1].answer)
  /\ task = "done" => Settled(Answer)
  /\ stream = "completed" => task = "done"

(* Together with the two properties an inductive invariant.                *)
StreamInv ==
  /\ AnswerTypeOK
  /\ \A j \in Jobs : JobProgress(jobs[j], query[j], Streaming, Strict)
  /\ (\A j \in Jobs : Trusted(j)) => {queue, shown, message} \subseteq Seq(Fine)
  /\ ContentProgress
  /\ ShownIsAnswered

-----------------------------------------------------------------------------
(* Every response ends, although the model may fall silent at any point.   *)
StreamEnds == <>(stream # "open")

(* "Never append a second answer after a partially delivered stream."      *)
NoSecondAnswer ==
  \A j \in Jobs : jobs[j].cut => \A i \in 1..Len(shown) : shown[i] \notin {"evidence", "snapshot"}

(* "A failed stream with no public text can safely use the non-streaming   *)
(* endpoint": one streaming and one other call.                            *)
ModelAskedTwice == \A j \in Jobs : jobs[j].calls <= 2
=============================================================================
