------------------------------- MODULE Judges -------------------------------
(***************************************************************************)
(* Verdicts of the guardrails: the three layers of the injection check     *)
(* (app/services/guardrails/injection.py) and what the faithfulness and    *)
(* hallucination judges make of a model's reply (faithfulness.py and       *)
(* hallucination.py, which read it alike).                                 *)
(*                                                                         *)
(* What a text contains (a pattern, a keyword, a word of a verdict) is an  *)
(* input; what follows from it is modelled.                                *)
(***************************************************************************)
EXTENDS Integers, SequencesExt

-----------------------------------------------------------------------------
(***************************************************************************)
(* PromptInjectionDetector                                                 *)
(***************************************************************************)

Keywords == 29      \* _RISK_KEYWORDS_KO and _RISK_KEYWORDS_EN

\* classifier_check: hits / (Keywords * 0.3), compared with a limit of tenths.
score_exceeds(hits, tenths) == hits * 100 > tenths * Keywords * 3

\* _parse_judge_response: INJECTION anywhere counts, unless the reply begins with
\* SAFE or has "판단: SAFE" in it.
is_injection(reply) == reply.injection /\ ~reply.safe

\* Mutant: the model may clear a question the classifier is sure about, and not one
\* it suspects.
detect_swapped(query) ==
    \/ query.definite
    \/ score_exceeds(query.hits, 5) /\ ~score_exceeds(query.hits, 8)
    \/ /\ query.suspicious \/ score_exceeds(query.hits, 8)
       /\ is_injection(query.reply)

\* detect: TRUE if the question is blocked.
blocked(query) ==
    \/ query.definite
    \/ score_exceeds(query.hits, 8)
    \/ /\ query.suspicious \/ score_exceeds(query.hits, 5)
       /\ is_injection(query.reply)

\* A question that shows more signs of an injection, to the same judge, is not let
\* through when one with fewer is blocked, whichever layer decides (injection.py:192).
MoreSignsStayBlocked(query) ==
    blocked(query) =>
        \A definite, suspicious \in BOOLEAN, hits \in query.hits..Keywords :
            /\ query.definite => definite
            /\ query.suspicious => suspicious
            => blocked([query EXCEPT !.definite = definite, !.suspicious = suspicious,
                                     !.hits = hits])

-----------------------------------------------------------------------------
(***************************************************************************)
(* FaithfulnessChecker and HallucinationDetector.  A reply is a sequence   *)
(* of lines with a key: score (with a number in tenths, or one that cannot *)
(* be read), verdict (which may say that the answer failed), and others.   *)
(***************************************************************************)

Perfect == 10
Unreadable == -1

\* Mutant: a score that cannot be read counts as the worst.
parse_line_strict(result, line) ==
    CASE line.key = "score" ->
            [result EXCEPT !.score = IF line.number = Unreadable THEN 0 ELSE line.number]
      [] line.key = "verdict" -> [result EXCEPT !.failed = line.failed]
      [] OTHER -> result

\* One line of _parse_result.
parse_line(result, line) ==
    CASE line.key = "score" /\ line.number # Unreadable ->
            [result EXCEPT !.score = line.number]
      [] line.key = "verdict" -> [result EXCEPT !.failed = line.failed]
      [] OTHER -> result

parse_result(reply) ==
    FoldLeft(parse_line, [score |-> Perfect, failed |-> FALSE], reply)

\* verify: the threshold decides, and the verdict of the reply is overwritten.
verify(reply, threshold) ==
    [parse_result(reply) EXCEPT !.failed = parse_result(reply).score < threshold]

\* handle_result: what becomes of the answer.
handle_result(result, action) ==
    IF ~result.failed THEN "answer"
    ELSE CASE action = "block" -> "refusal"
           [] action = "warn" -> "warning"
           [] OTHER -> "answer"

\* An answer is held back or marked just when the last score in the reply that can
\* be read is below the threshold: a reply without one counts as perfect, even if
\* its verdict is FAIL (faithfulness.py:74, hallucination.py:71).
OnlyAStatedScoreCondemns(judged) ==
    LET stated == {i \in DOMAIN judged.reply : /\ judged.reply[i].key = "score"
                                              /\ judged.reply[i].number # Unreadable}
    IN  handle_result(verify(judged.reply, judged.threshold), judged.action) # "answer"
        <=> /\ judged.action \in {"block", "warn"}
            /\ \/ \E last \in stated : /\ \A i \in stated : i <= last
                                      /\ judged.reply[last].number < judged.threshold
               \/ stated = {} /\ Perfect < judged.threshold
=============================================================================
