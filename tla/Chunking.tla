------------------------------ MODULE Chunking ------------------------------
(***************************************************************************)
(* How the text of a document becomes chunks: the choice of the strategy   *)
(* (app/services/document/processor.py) and the strategies of              *)
(* app/services/chunking: auto_detect.py, header.py, recursive.py,         *)
(* semantic.py, contextual.py, as operators.                               *)
(*                                                                         *)
(* A text is a sequence of lines, and a line what the parsers tell apart:  *)
(*   blank; h1, h2, h3: a markdown heading; title: short, without a full   *)
(*   stop or comma at its end and not a number; text: any other.           *)
(* A line with text is one sentence of LineLength characters, and is named *)
(* by its number; a piece of text is the sequence of its sentences.        *)
(***************************************************************************)
EXTENDS Orders, SequencesExt

CONSTANTS LineLength, ChunkSize     \* 512 or 1024 characters in the code

ASSUME ChunkingAssumption == LineLength \in Nat \ {0} /\ ChunkSize \in Nat

sentences(lines) == in_order({i \in DOMAIN lines : lines[i] # "blank"})

\* Chunk, with the headings put before its text and whether the model's context
\* was added to it.
piece(crumb, body, index) ==
    [crumb |-> crumb, body |-> body, index |-> index, contextual |-> FALSE]

\* Mutant: a chunk keeps the number it has in its section.
numbered_kept(pieces) == pieces

\* The chunks of texts that were cut out one after the other, counted from 0.
numbered(pieces) == [i \in DOMAIN pieces |-> [pieces[i] EXCEPT !.index = i - 1]]

-----------------------------------------------------------------------------
(***************************************************************************)
(* RecursiveChunking                                                       *)
(***************************************************************************)

split_length(size) == IF size \div 170 > 2 THEN size \div 170 ELSE 2

split_overlap(size) ==
    IF split_length(size) \div 3 > 1 THEN split_length(size) \div 3 ELSE 1

\* DocumentSplitter of Haystack: n sentences at a time, each time step further on,
\* until the last sentence is in.
windows(body, n, step) ==
    LET last(k) == IF k * step + n < Len(body) THEN k * step + n ELSE Len(body)
        ks == {k \in 0..Len(body) : k = 0 \/ (k - 1) * step + n < Len(body)}
    IN  [i \in 1..Cardinality(ks) |-> SubSeq(body, (i - 1) * step + 1, last(i - 1))]

recursive(body) ==
    IF body = <<>> THEN <<>>
    ELSE IF Len(body) * LineLength <= ChunkSize THEN <<piece(<<>>, body, 0)>>
    ELSE LET n == split_length(ChunkSize)
             cuts == windows(body, n, n - split_overlap(ChunkSize))
         IN  numbered([i \in DOMAIN cuts |-> piece(<<>>, cuts[i], 0)])

-----------------------------------------------------------------------------
(***************************************************************************)
(* SectionHeaderChunking: the text is parsed into sections, each with its  *)
(* headings.                                                               *)
(***************************************************************************)

level(line) == CASE line = "h1" -> 1 [] line = "h2" -> 2 [] line = "h3" -> 3
                 [] OTHER -> 0

\* A section ends; one without text is dropped.
closed(parsed, crumb) ==
    IF parsed.body = <<>> THEN parsed.sections
    ELSE Append(parsed.sections, [crumb |-> crumb, body |-> parsed.body])

\* A line that is no heading.
with_line(lines, parsed, i) ==
    [parsed EXCEPT !.body = IF lines[i] = "blank" THEN @ ELSE Append(@, i)]

breadcrumb(stack) ==
    LET levels == in_order({lv \in 1..3 : stack[lv] # 0})
    IN  [k \in DOMAIN levels |-> stack[levels[k]]]

\* Mutant: the deeper headings of the section before stay on the stack.
with_heading_kept(parsed, i, lv) ==
    [sections |-> closed(parsed, breadcrumb(parsed.stack)),
     body |-> <<>>,
     stack |-> [parsed.stack EXCEPT ![lv] = i]]

\* heading_stack: the heading takes its level and clears the ones below.
with_heading(parsed, i, lv) ==
    [sections |-> closed(parsed, breadcrumb(parsed.stack)),
     body |-> <<>>,
     stack |-> [j \in 1..3 |-> IF j < lv THEN parsed.stack[j] ELSE IF j = lv THEN i ELSE 0]]

parse_markdown(lines) ==
    LET parsed[i \in 0..Len(lines)] ==
            IF i = 0 THEN [sections |-> <<>>, body |-> <<>>, stack |-> <<0, 0, 0>>]
            ELSE IF level(lines[i]) = 0 THEN with_line(lines, parsed[i - 1], i)
            ELSE with_heading(parsed[i - 1], i, level(lines[i]))
        last == parsed[Len(lines)]
    IN  closed(last, breadcrumb(last.stack))

\* Mutant: the line after a title is not looked at.
is_heading_candidate_alone(lines, i) ==
    /\ lines[i] \in {"title", "h1", "h2", "h3"}
    /\ i = 1 \/ lines[i - 1] = "blank"

is_heading_candidate(lines, i) ==
    /\ lines[i] \in {"title", "h1", "h2", "h3"}
    /\ i < Len(lines) => lines[i + 1] # "blank"
    /\ i = 1 \/ lines[i - 1] = "blank"

parse_plaintext(lines) ==
    LET parsed[i \in 0..Len(lines)] ==
            IF i = 0 THEN [sections |-> <<>>, body |-> <<>>, heading |-> <<>>]
            ELSE IF is_heading_candidate(lines, i)
            THEN [sections |-> closed(parsed[i - 1], parsed[i - 1].heading),
                  body |-> <<>>, heading |-> <<i>>]
            ELSE with_line(lines, parsed[i - 1], i)
        last == parsed[Len(lines)]
    IN  closed(last, last.heading)

\* Every section is cut by itself, and the chunks are counted through.
header(lines, file_type) ==
    LET sections == IF file_type = "md" THEN parse_markdown(lines)
                    ELSE parse_plaintext(lines)
        of_section(s) == [j \in DOMAIN recursive(s.body) |->
                             [recursive(s.body)[j] EXCEPT !.crumb = s.crumb]]
        all == FlattenSeq([i \in DOMAIN sections |-> of_section(sections[i])])
    IN  IF sentences(lines) = <<>> THEN <<>>
        ELSE IF all = <<>> THEN <<piece(<<>>, sentences(lines), 0)>>
        ELSE numbered(all)

-----------------------------------------------------------------------------
(***************************************************************************)
(* SemanticChunking, for the sentences after which the similarity to the   *)
(* next one is below the threshold.                                        *)
(***************************************************************************)

split_points(n, low) == in_order({1} \cup {i \in 2..n : i - 1 \in low})

semantic(body, low) ==
    LET starts == split_points(Len(body), low)
        end(k) == IF k < Len(starts) THEN starts[k + 1] - 1 ELSE Len(body)
    IN  IF body = <<>> THEN <<>>
        ELSE numbered([k \in DOMAIN starts |->
                          piece(<<>>, SubSeq(body, starts[k], end(k)), 0)])

-----------------------------------------------------------------------------
(***************************************************************************)
(* AutoDetectChunking, ContextualChunking and the choice among all of them *)
(***************************************************************************)

auto(lines, file_type) ==
    IF file_type \in {"md", "pdf"} THEN header(lines, file_type)
    ELSE recursive(sentences(lines))

\* A context is put before each chunk; a chunk whose call fails stays as it is.
contextual(chunks, failing) ==
    [i \in DOMAIN chunks |-> [chunks[i] EXCEPT !.contextual = i \notin failing]]

\* _get_chunking_strategy, and chunk() of what it returns.  Without an embedder
\* the semantic strategy is auto, and then has no contexts.
chunk(text) ==
    LET base == CASE text.strategy = "recursive" -> recursive(sentences(text.lines))
                  [] text.strategy = "header" -> header(text.lines, text.file_type)
                  [] text.strategy = "semantic" /\ text.embedder ->
                        semantic(sentences(text.lines), text.low)
                  [] OTHER -> auto(text.lines, text.file_type)
    IN  IF text.contextual /\ (text.strategy = "semantic" => text.embedder)
        THEN contextual(base, text.failing)
        ELSE base

-----------------------------------------------------------------------------
(***************************************************************************)
(* Properties of one text                                                  *)
(***************************************************************************)

parsed_by_header(text) ==
    \/ text.strategy = "header"
    \/ text.strategy \in {"auto", "semantic"} /\ text.file_type \in {"md", "pdf"}
       /\ ~(text.strategy = "semantic" /\ text.embedder)

\* Line i of a markdown text is under heading h.
under(lines, h, i) ==
    /\ h < i /\ level(lines[h]) > 0
    /\ \A j \in h + 1..i : level(lines[j]) = 0 \/ level(lines[j]) > level(lines[h])

\* Every line with text can be found: it is in a chunk, or a heading put before
\* one, whatever the strategy is and whichever calls for contexts fail.  The
\* exceptions are what _parse_markdown and _parse_plaintext drop: a heading with
\* no text under it, and a title in the very last line (header.py:82, 115).
EveryLineIsKept(text) ==
    LET lines == text.lines
        chunks == chunk(text)
        found == UNION {ToSet(chunks[k].body) \cup ToSet(chunks[k].crumb) :
                           k \in DOMAIN chunks}
        dropped(i) ==
            /\ parsed_by_header(text)
            /\ IF text.file_type = "md"
               THEN /\ level(lines[i]) > 0
                    /\ ~\E j \in DOMAIN lines :
                          level(lines[j]) = 0 /\ lines[j] # "blank" /\ under(lines, i, j)
               ELSE i = Len(lines) /\ is_heading_candidate(lines, i)
    IN  \A i \in DOMAIN lines : lines[i] # "blank" => i \in found \/ dropped(i)

\* The headings before a chunk of markdown are the ones its lines are under, from
\* the outermost to the innermost, and no others (header.py:63).
BreadcrumbIsPath(text) ==
    LET path(i) == in_order({h \in DOMAIN text.lines : under(text.lines, h, i)})
    IN  parsed_by_header(text) /\ text.file_type = "md" =>
          \A k \in DOMAIN chunk(text) :
             \A i \in ToSet(chunk(text)[k].body) :
                \/ chunk(text)[k].crumb = path(i)
                \/ level(text.lines[i]) > 0 /\ Len(chunk(text)) = 1

\* The chunks are numbered from 0 without a gap, each is a stretch of the text
\* under one heading, and each goes on where the one before it ends or overlaps
\* it (GET /documents/{id}/chunks lists them by chunk_index).
ChunksFollowTheText(text) ==
    LET chunks == chunk(text)
        first(k) == chunks[k].body[1]
        last(k) == chunks[k].body[Len(chunks[k].body)]
    IN  \A k \in DOMAIN chunks :
          /\ chunks[k].index = k - 1
          /\ chunks[k].body = in_order({i \in ToSet(sentences(text.lines)) :
                                          i \in first(k)..last(k)})
          /\ k > 1 => first(k - 1) < first(k) /\ last(k - 1) < last(k)
=============================================================================
