---------------------------- MODULE PersonalData ----------------------------
(***************************************************************************)
(* KoreanPIIDetector (app/services/guardrails/pii.py): the scan for        *)
(* candidates, the model's verdict on each, and the masking of the rest.   *)
(*                                                                         *)
(* What the regular expressions find is an input: for each kind of data a  *)
(* set of spans, disjoint as finditer returns them, and the places that    *)
(* look like dates.  A text is the sequence of its places, and a starred   *)
(* character is 0.  Three kinds stand for nine: one that is never taken    *)
(* inside a date and comes first, the e-mail address, whose mask has       *)
(* another length than itself, and one of low priority.                    *)
(***************************************************************************)
EXTENDS Orders, SequencesExt

Ordered == <<"resident", "email", "account">>

NeverInDates == {"resident", "account"}

Span(n) == {s \in (1..n) \X (1..n) : s[1] < s[2]}

places(span) == span[1]..span[2]

touches(span, S) == places(span) \cap S # {}

match(kind, span) == [kind |-> kind, start |-> span[1], end |-> span[2]]

occupied(candidates) ==
    UNION {candidates[i].start..candidates[i].end : i \in DOMAIN candidates}

left_to_right(spans) == by_key(spans, [s \in spans |-> s[1]])

\* Mutant: only a span that begins inside another candidate is skipped.
scan_kind_starts(candidates, kind, spans, dates) ==
    LET accepted == {s \in spans : /\ s[1] \notin occupied(candidates)
                                   /\ ~(kind \in NeverInDates /\ touches(s, dates))}
        sorted == left_to_right(accepted)
    IN  candidates \o [i \in DOMAIN sorted |-> match(kind, sorted[i])]

\* One pattern: the spans of it that are not in a date and not taken, from left to
\* right.
scan_kind(candidates, kind, spans, dates) ==
    LET accepted == {s \in spans : /\ ~touches(s, occupied(candidates))
                                   /\ ~(kind \in NeverInDates /\ touches(s, dates))}
        sorted == left_to_right(accepted)
    IN  candidates \o [i \in DOMAIN sorted |-> match(kind, sorted[i])]

regex_scan(found, dates) ==
    FoldLeft(LAMBDA candidates, kind : scan_kind(candidates, kind, found[kind], dates),
             <<>>, Ordered)

\* _parse_verified: the lines that are left are paired with the candidates in
\* order; TRUE: the line calls it a false alarm.  A candidate without a line stays.
parse_verified(candidates, lines) ==
    LET kept == {i \in DOMAIN candidates : i \in DOMAIN lines => ~lines[i]}
        order == in_order(kept)
    IN  [k \in DOMAIN order |-> candidates[order[k]]]

detect(found, dates, lines) ==
    parse_verified(regex_scan(found, dates), lines)

\* The first part stays readable (one place here) and every other character is
\* starred; of an address the first character and the domain (the last place)
\* stay, with three stars between them.
mask_value(m) ==
    IF m.kind = "email" THEN <<m.start, 0, 0, 0, m.end>>
    ELSE <<m.start>> \o [i \in 1..m.end - m.start |-> 0]

\* Mutant: from the front, so that the places of the later ones have moved.
mask_forwards(text, matches) ==
    LET sorted == by_key(ToSet(matches), [m \in ToSet(matches) |-> m.start])
    IN  FoldLeft(LAMBDA t, m : SubSeq(t, 1, m.start - 1) \o mask_value(m)
                                  \o SubSeq(t, m.end + 1, Len(t)), text, sorted)

\* From the back.
mask(text, matches) ==
    LET sorted == by_key(ToSet(matches), [m \in ToSet(matches) |-> -m.start])
    IN  FoldLeft(LAMBDA t, m : SubSeq(t, 1, m.start - 1) \o mask_value(m)
                                  \o SubSeq(t, m.end + 1, Len(t)), text, sorted)

-----------------------------------------------------------------------------
(***************************************************************************)
(* Properties of one scan: scan has the length of the text, found, dates   *)
(* and lines                                                               *)
(***************************************************************************)

\* No two candidates overlap, and whatever a pattern finds is a candidate, unless
\* it looks like part of a date or overlaps a candidate of a kind that comes
\* earlier (pii.py:56).
ScanMissesNothing(scan) ==
    LET candidates == regex_scan(scan.found, scan.dates)
        rank(kind) == CHOOSE i \in DOMAIN Ordered : Ordered[i] = kind
    IN  /\ \A i, j \in DOMAIN candidates : i # j =>
             (candidates[i].start..candidates[i].end)
                \cap (candidates[j].start..candidates[j].end) = {}
        /\ \A k \in DOMAIN scan.found : \A s \in scan.found[k] :
             \/ \E i \in DOMAIN candidates : candidates[i] = match(k, s)
             \/ k \in NeverInDates /\ touches(s, scan.dates)
             \/ \E i \in DOMAIN candidates :
                   /\ rank(candidates[i].kind) < rank(k)
                   /\ touches(s, candidates[i].start..candidates[i].end)

\* In the masked text every candidate that no line of the model's answer calls a
\* false alarm is replaced by its mask, and the rest of the text is as it was,
\* although candidates come by kind and masks change the length (pii.py:186).
MaskHidesAllButFalseAlarms(scan) ==
    LET candidates == regex_scan(scan.found, scan.dates)
        text == [i \in 1..scan.length |-> i]
        hidden == {m \in ToSet(candidates) : ~\E i \in DOMAIN scan.lines :
                      /\ i \in DOMAIN candidates /\ candidates[i] = m
                      /\ scan.lines[i]}
        shown(i) ==
            IF \E m \in hidden : m.start = i
            THEN mask_value(CHOOSE m \in hidden : m.start = i)
            ELSE IF \E m \in hidden : i \in m.start..m.end THEN <<>> ELSE <<i>>
    IN  mask(text, detect(scan.found, scan.dates, scan.lines))
            = FlattenSeq([i \in 1..scan.length |-> shown(i)])
=============================================================================
