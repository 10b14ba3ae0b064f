----------------------------- MODULE Algorithms -----------------------------
(***************************************************************************)
(* The operators of Chunking, PersonalData, Judges and Ranking, applied to *)
(* every input of a bounded size: a step puts an input or takes it away.   *)
(***************************************************************************)
EXTENDS Chunking, PersonalData, Judges, Ranking

CONSTANTS
    MaxLines,       \* lines of a text
    TextLength,     \* places of a scanned text
    MaxReply,       \* lines of a judge's reply
    Numbers,        \* scores a reply may have, in tenths
    Thresholds,     \* and those they are compared with
    MaxHits,        \* hits of a list
    Smoothings,     \* the constant k of a fusion
    Weights         \* weights of its lists

ASSUME AlgorithmsAssumption ==
    /\ MaxLines \in Nat /\ TextLength \in Nat /\ MaxReply \in Nat /\ MaxHits \in Nat
    /\ Numbers \subseteq Int /\ Thresholds \subseteq Int
    /\ Smoothings \subseteq Nat /\ Weights \subseteq Nat

VARIABLE input

Nothing == [about |-> "nothing"]

-----------------------------------------------------------------------------
Markdown == {"blank", "text", "h1", "h2", "h3"}
Plain == {"blank", "text", "title"}

Texts(strategies, types, kinds, cuts, contexts) ==
    [about : {"text"}, strategy : strategies, file_type : types,
     lines : UNION {[1..n -> kinds] : n \in 0..MaxLines},
     embedder : {TRUE}, low : cuts, contextual : contexts, failing : {{1}}]

\* The parsers on every text, and the other strategies, with a context for all
\* chunks but the first, on texts without headings.
PutText ==
    /\ input = Nothing
    /\ \/ input' \in Texts({"header"}, {"md"}, Markdown, {{}}, {FALSE})
       \/ input' \in Texts({"auto"}, {"pdf"}, Plain, {{}}, BOOLEAN)
       \/ input' \in Texts({"recursive", "auto"}, {"txt"}, {"blank", "text"}, {{}}, {TRUE})
       \/ input' \in Texts({"semantic"}, {"md"}, {"blank", "text"},
                           SUBSET (1..MaxLines - 1), {TRUE})
       \/ \E text \in Texts({"semantic"}, {"md"}, Markdown \ {"h3"}, {{}}, {TRUE}) :
             input' = [text EXCEPT !.embedder = FALSE]

Spans(n) == {S \in SUBSET Span(TextLength) :
                /\ Cardinality(S) <= n
                /\ \A s, t \in S : s = t \/ places(s) \cap places(t) = {}}

PutScan ==
    /\ input = Nothing
    /\ \E resident, email \in Spans(1), account \in Spans(2),
          dates \in {{}, {2, 3}, {TextLength}},
          lines \in {<<>>, <<TRUE>>, <<FALSE, TRUE>>} :
          input' = [about |-> "scan", length |-> TextLength, dates |-> dates,
                    found |-> [resident |-> resident, email |-> email,
                               account |-> account],
                    lines |-> lines]

Query ==
    [about : {"query"}, definite : BOOLEAN, suspicious : BOOLEAN, hits : 0..Keywords,
     reply : [injection : BOOLEAN, safe : BOOLEAN]]

PutQuery ==
    /\ input = Nothing
    /\ input' \in Query

ReplyLine ==
    [key : {"score"}, number : Numbers]
        \cup [key : {"verdict"}, failed : BOOLEAN] \cup [key : {"other"}]

Reply ==
    [about : {"reply"}, reply : UNION {[1..n -> ReplyLine] : n \in 0..MaxReply},
     threshold : Thresholds, action : {"block", "warn", "regenerate"}]

PutReply ==
    /\ input = Nothing
    /\ input' \in Reply

\* Lists without duplicates: a store returns a passage once.
Lists == {list \in UNION {[1..n -> {[chunk |-> c, store |-> st, score |-> 0] :
                                       c \in Chunk, st \in Store}] : n \in 0..MaxHits} :
             \A i, j \in DOMAIN list : list[i] = list[j] => i = j}

ListPair ==
    [about : {"lists"}, vector : Lists, keyword : Lists, k : Smoothings,
     vector_weight : Weights, keyword_weight : Weights]

PutLists ==
    /\ input = Nothing
    /\ input' \in ListPair

Take ==
    /\ input # Nothing
    /\ input' = Nothing

InputInit == input = Nothing
InputNext == PutText \/ PutScan \/ PutQuery \/ PutReply \/ PutLists \/ Take
InputSpec == InputInit /\ [][InputNext]_input

-----------------------------------------------------------------------------
(***************************************************************************)
(* The properties of the modules, of the inputs they are about             *)
(***************************************************************************)

\* Whatever the strategy, no line of a document is lost except the headings the
\* parsers drop.
EveryLine == input.about = "text" => EveryLineIsKept(input)

\* The headings before a chunk of markdown are those its text is under.
Breadcrumbs == input.about = "text" => BreadcrumbIsPath(input)

\* The chunks of a text follow one another and are numbered without a gap.
ChunkOrder == input.about = "text" => ChunksFollowTheText(input)

\* Every place a pattern finds is a candidate or has a reason not to be one.
ScanFinds == input.about = "scan" => ScanMissesNothing(input)

\* The masked text hides the candidates that are no false alarm, and nothing else.
MaskHides == input.about = "scan" => MaskHidesAllButFalseAlarms(input)

\* A question with more signs of an injection stays blocked.
Screening == input.about = "query" => MoreSignsStayBlocked(input)

\* An answer is held back just when the last readable score is too low.
Judgement == input.about = "reply" => OnlyAStatedScoreCondemns(input)

\* The fusion keeps the order two lists agree on.
FusionKeepsRanks == input.about = "lists" =>
            FusionRespectsRanks(input.vector, input.keyword, input.k,
                                input.vector_weight, input.keyword_weight)
=============================================================================
