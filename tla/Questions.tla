----------------------------- MODULE Questions ------------------------------
(***************************************************************************)
(* One question from its text to the traces of the skills that answered    *)
(* it: the local parse, the parser model's payload or failure, the         *)
(* reconciliation, the admission in strict mode, the decision to open the  *)
(* retriever, and one execution per subquery, concurrent with the others.  *)
(* The process's settings are read where the code reads them.              *)
(***************************************************************************)
EXTENDS QuestionRouting

CONSTANTS
  Asked,     \* questions: sequences of segments
  Payloads   \* what the parser model may return

IsSequence(s) == s \in Seq(Range(s))

ASSUME QuestionsAssumption ==
  /\ \A segments \in Asked : IsSequence(segments)
  /\ \A payload \in Payloads : IsSequence(payload.subs)

VARIABLES
  question,
  phase,      \* "asked", "local", "parsed", "running" or how the request ended
  local,      \* the local parse
  query,      \* the parse that is answered
  retriever,  \* whether the request opened the retriever
  trace,      \* the last recorded state of each execution
  answers     \* what each structured execution answered

vars == <<question, phase, local, query, retriever, trace, answers>>
executions == <<retriever, trace, answers>>

Ended == {"refused", "answered", "failed", "cancelled"}
NoQuery == [intent |-> "none", subs |-> <<>>, source |-> "none", confidence |-> "low"]

Init ==
  /\ question \in Asked
  /\ phase = "asked"
  /\ local = NoQuery /\ query = NoQuery
  /\ retriever = FALSE /\ trace = <<>> /\ answers = <<>>

-----------------------------------------------------------------------------
(* parse_answer_request, parse_user_query_with_model.                      *)

(* The page's own question needs no parse; without an API key a strict     *)
(* process refuses, another answers the local parse.                       *)
FromPage ==
  /\ phase = "asked"
  /\ query' = PageQuery /\ phase' = "parsed"
  /\ UNCHANGED <<question, local, executions>>

RefuseWithoutKey ==
  /\ phase = "asked"
  /\ phase' = "refused"
  /\ UNCHANGED <<question, local, query, executions>>

ParseLocally ==
  /\ phase = "asked"
  /\ local' = LocalQuery(question)
  /\ \/ query' = local' /\ phase' = "parsed"  \* not_configured
     \/ UNCHANGED query /\ phase' = "local"
  /\ UNCHANGED <<question, executions>>

ModelAnswers(payload) ==
  /\ phase = "local"
  /\ query' = ValidatedParse(local, payload, question)
  /\ phase' = "parsed"
  /\ UNCHANGED <<question, local, executions>>

ModelFails ==
  /\ phase = "local"
  /\ query' = ValidatedFallback(local)
  /\ phase' = "parsed"
  /\ UNCHANGED <<question, local, executions>>

-----------------------------------------------------------------------------
(* answer_query, execute_subquery, SkillExecutor.execute.                  *)

(* Subqueries with the same key are executed once. *)
Executed(subs) == Without(subs, Repeated(subs))

Admit(strict, mode) ==
  /\ phase = "parsed"
  /\ LET parsed == ApplySelectedEntityMode(query, mode)
     IN  IF Admitted(query, strict) THEN
           /\ phase' = "running"
           /\ query' = [parsed EXCEPT !.subs = Executed(@)]
           /\ retriever' = QueryNeedsRag(parsed)
           /\ trace' = [i \in DOMAIN query'.subs |-> "pending"]
           /\ answers' = [i \in DOMAIN query'.subs |-> <<>>]
         ELSE phase' = "refused" /\ UNCHANGED <<query, executions>>
  /\ UNCHANGED <<question, local>>

IsOpen(i) == Resolve(query.subs[i]) \in {"EvidenceSynthesisSkill", "RAGEvidenceSkill"}

Select(i) ==
  /\ phase = "running" /\ trace[i] = "pending"
  /\ trace' = [trace EXCEPT ![i] = IF Resolve(query.subs[i]) = "none" THEN "fallback" ELSE "running"]
  /\ UNCHANGED <<question, phase, local, query, retriever, answers>>

(* A structured skill answers or raises by what it is asked; the repository *)
(* may be missing.  An open one is AnswerStream's.                          *)
Run(i) ==
  /\ phase = "running" /\ trace[i] = "running"
  /\ IF IsOpen(i) THEN
       /\ \E result \in {"success", "failed"} : trace' = [trace EXCEPT ![i] = result]
       /\ UNCHANGED answers
     ELSE \E repository \in BOOLEAN :
       LET answer == StructuredAnswer(query.subs[i], repository)
       IN  /\ trace' = [trace EXCEPT ![i] = IF answer = Fails THEN "failed" ELSE "success"]
           /\ answers' = [answers EXCEPT ![i] = answer]
  /\ UNCHANGED <<question, phase, local, query, retriever>>

Recorded == {"success", "failed", "fallback"}

(* Seeded fault: a compound answer waits for a skill that found nothing. *)
AnswerWithoutFallback ==
  /\ phase = "running" /\ \A i \in DOMAIN trace : trace[i] \in {"success", "failed"}
  /\ phase' = IF query.intent # "multi_intent" /\ trace[1] = "failed" THEN "failed" ELSE "answered"
  /\ UNCHANGED <<question, local, query, executions>>

(* A single question fails with its skill, a compound one does not. *)
Answer ==
  /\ phase = "running" /\ \A i \in DOMAIN trace : trace[i] \in Recorded
  /\ phase' = IF query.intent # "multi_intent" /\ trace[1] = "failed" THEN "failed" ELSE "answered"
  /\ UNCHANGED <<question, local, query, executions>>

(* The client left: the answer task is cancelled where it waits. *)
Cancel ==
  /\ phase \in {"local", "parsed", "running"}
  /\ phase' = "cancelled"
  /\ UNCHANGED <<question, local, query, executions>>

Progress ==
  \/ FromPage \/ RefuseWithoutKey \/ ParseLocally \/ ModelFails
  \/ \E payload \in Payloads : ModelAnswers(payload)
  \/ \E strict \in BOOLEAN, mode \in {"base8", "loadout_entity"} : Admit(strict, mode)
  \/ \E i \in DOMAIN trace : Select(i) \/ Run(i)
  \/ Answer

Next == Progress \/ Cancel

Spec == Init /\ [][Next]_vars

(* Every await of the request has a timeout of its own. *)
FairSpec == Spec /\ WF_vars(Progress)

-----------------------------------------------------------------------------
(* Properties.                                                             *)

(* A deck question whose deck is a text the model gave: neither no deck,   *)
(* as the retriever's opening and the deck ranking ask, nor an exact one.  *)
OfText(parse) ==
  parse.intent = "deck_query" /\ parse.deck # <<>> /\ Len(parse.deck) # DeckSize

(* The retriever is opened exactly for the requests one of whose skills    *)
(* uses it: query_needs_rag, which looks at the parse before the data is   *)
(* opened, agrees with the registry, which looks at it afterwards.  The    *)
(* one thing they disagree on is a text in the place of a deck, for which  *)
(* it is not opened though RAGEvidenceSkill may take the question.         *)
RetrieverDemanded ==
  phase \in {"running", "answered", "failed"} =>
    (retriever <=> \E i \in DOMAIN query.subs : IsOpen(i) /\ ~OfText(query.subs[i]))

(* Without that exception, and not so: every part whose skill retrieves    *)
(* evidence finds the retriever open.                                      *)
RetrieverForOpenParts ==
  phase = "running" => \A i \in DOMAIN query.subs : IsOpen(i) => retriever

(* The model does not change what a confident local parse asks: neither    *)
(* the intent of a single question nor, in a compound one, the questions,  *)
(* their order, their cards and their metrics.                             *)
Asks(parse) ==
  IF parse.intent = "meta_analysis_query" THEN <<parse.intent, parse.analysis>>
  ELSE <<parse.intent, parse.card, parse.names, parse.deck, parse.metrics, parse.rank, parse.top>>

ConfidentParseKept ==
  local # NoQuery /\ query # NoQuery =>
    /\ local.intent = "multi_intent" =>
         [i \in DOMAIN query.subs |-> Asks(query.subs[i])] =
         [i \in DOMAIN local.subs |-> Asks(local.subs[i])]
    /\ local.intent # "reject" /\ local.confidence = "high" => query.intent = local.intent

(* A compound question has at most MaxSubqueries parts, no two of them the *)
(* same, and the local parse asks for all metrics of a card in one part.   *)
SubqueriesDistinct ==
  /\ \A q \in {local, query} : Len(q.subs) <= MaxSubqueries /\ IsInjective(Keys(q))
  /\ \A i, j \in DOMAIN local.subs :
       /\ local.subs[i].intent = "card_query" /\ local.subs[j].intent = "card_query"
       /\ local.subs[i].card = local.subs[j].card /\ local.subs[i].card # NoCard
       => i = j

(* Whatever the rules and the model make of a question, a part that is not *)
(* rejected has a skill; only a position asked of no known card has none,  *)
(* and a ranking or a card's decks asked for along with a text in the      *)
(* place of a deck.                                                        *)
EveryQuestionRouted ==
  phase = "running" => \A i \in DOMAIN query.subs :
    Resolve(query.subs[i]) = "none" =>
      \/ query.subs[i].intent = "reject"
      \/ query.subs[i].intent = "card_rank_lookup_query" /\ query.subs[i].card = NoCard
      \/ OfText(query.subs[i]) /\ ~Open(query.subs[i])

(* However a question is cut into parts, each part is asked once and asked *)
(* of somebody.                                                            *)
PartsRouted == SubqueriesDistinct /\ EveryQuestionRouted

-----------------------------------------------------------------------------
(* Why it is so: what every parse is like, of whatever text or payload.    *)
Fields == {"intent", "card", "names", "deck", "metrics", "metric", "rank", "top", "analysis",
           "form", "entity", "confidence"}
NamedForms == {"base8", "tower", "evolution", "elite"}

(* A parse of a question; only the page's data mode makes it "ordinary". *)
IsParse(p) ==
  /\ DOMAIN p = Fields
  /\ p.intent \in SupportedIntents /\ p.form \in NamedForms \cup {"ordinary"}
IsTextParse(p) == IsParse(p) /\ p.form \in NamedForms

IsQuery(q) ==
  /\ DOMAIN q = {"intent", "subs", "source", "confidence"}
  /\ IsSequence(q.subs) /\ Len(q.subs) \in 1..MaxSubqueries
  /\ \A i \in DOMAIN q.subs : IsParse(q.subs[i])
  /\ IsInjective(Keys(q))
  /\ q.intent = "multi_intent" \/ (Len(q.subs) = 1 /\ q.subs[1].intent = q.intent)
IsTextQuery(q) == IsQuery(q) /\ \A i \in DOMAIN q.subs : IsTextParse(q.subs[i])

(* While the segments are read: what makes two questions different is not  *)
(* the key they were found under, which merging metrics changes, but that  *)
(* a card has one, and every other its own key.                            *)
OfKnownCard(p) == p.intent = "card_query" /\ p.card # NoCard
OnePerCard(subs) ==
  \A i, j \in DOMAIN subs :
    OfKnownCard(subs[i]) /\ OfKnownCard(subs[j]) /\ subs[i].card = subs[j].card => i = j

IsFound(found) ==
  /\ DOMAIN found = {"subs", "seen"}
  /\ IsSequence(found.subs) /\ Len(found.subs) \in 0..MaxSubqueries
  /\ \A i \in DOMAIN found.subs : IsTextParse(found.subs[i]) /\ found.subs[i].intent # "reject"
  /\ OnePerCard(found.subs)
  /\ \A i \in DOMAIN found.subs : ~OfKnownCard(found.subs[i]) =>
       /\ SemanticKey(found.subs[i]) \in found.seen
       /\ \A j \in DOMAIN found.subs : SemanticKey(found.subs[j]) = SemanticKey(found.subs[i]) => i = j

(* With the three properties an inductive invariant. *)
QuestionInv ==
  /\ phase \in {"asked", "local", "parsed", "running"} \cup Ended
  /\ question \in Asked
  /\ phase = "asked" => local = NoQuery /\ query = NoQuery
  /\ phase = "local" => local # NoQuery /\ query = NoQuery
  /\ phase \in {"parsed", "running", "answered", "failed"} => query # NoQuery
  /\ local = NoQuery \/ (IsTextQuery(local) /\ OnePerCard(local.subs))
  /\ query = NoQuery \/ IsQuery(query)
  /\ phase = "parsed" => IsTextQuery(query)
  /\ ConfidentParseKept /\ RetrieverDemanded

(* Every request ends, whichever of its executions fail. *)
RequestEnds == <>(phase \in Ended)
=============================================================================
