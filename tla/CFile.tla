-------------------------------- MODULE CFile --------------------------------
(***************************************************************************)
(* A C file and its nodes: the lexer and the spans of the C backend        *)
(* (projection/c.rs), the cover of the file by nodes and the binding of    *)
(* its comments (projection/mod.rs), and its re-ingest against the nodes   *)
(* it had (projection/ingest.rs, file_against), edit after edit.           *)
(*                                                                         *)
(* A file is a sequence of bytes, and a byte one of Byte: "x" stands for   *)
(* every byte the backend does not look at, "s" for the keyword struct,    *)
(* "n" for a newline and "_" for other white space.  Offsets count from 0  *)
(* and a span ends before its end, as in the code.                         *)
(***************************************************************************)
EXTENDS Reconcile

CONSTANTS
  Pieces,   \* what an edit puts in, by alphabet: sets of sequences of bytes
  MaxEdits  \* bound: edits of the file, by alphabet

Quote == "\""
Backslash == "\\"

Byte == {"x", "s", "_", "n", "{", "}", ";", "#", "/", "*", Backslash, Quote}

ASSUME PiecesAssumption == \A a \in DOMAIN Pieces : Pieces[a] \subseteq Seq(Byte)

VARIABLES
  alphabet,  \* which pieces the file is typed in
  src,       \* the file
  nodes,     \* the nodes stored for it, in the order of their keys
  edits      \* edits so far, of MaxEdits

fileVars == <<alphabet, src, nodes, edits>>

-----------------------------------------------------------------------------
(* The lexer.  Regions other than code are opaque.                         *)

White == {"_", "n"}

At(s, i) == s[i + 1]

Text(s, from, to) == SubSeq(s, from + 1, to)

InkOf(text) == SelectSeq(text, LAMBDA b : b \notin White)

LeastOr(S, default) == IF S = {} THEN default ELSE Least(S)

AtLineStart(s, i) ==
  \A j \in 0..i - 1 :
    At(s, j) \in White \/ \E k \in j..i - 1 : At(s, k) = "n"

\* The newline that ends the line i is on, a backslash before it not counting.
LineEnd(s, i) ==
  LeastOr({j \in i..Len(s) - 1 : At(s, j) = "n" /\ (j = 0 \/ At(s, j - 1) # Backslash)},
          Len(s))

\* Block comments do not nest.
BlockEnd(s, i) ==
  LeastOr({j \in i + 2..Len(s) - 2 : At(s, j) = "*" /\ At(s, j + 1) = "/"}, Len(s) - 2) + 2

\* Faulty: an escaped quote ends the literal.
LiteralEndUnescaped(s, i) ==
  LeastOr({j \in i + 1..Len(s) - 1 : At(s, j) = Quote}, Len(s) - 1) + 1

\* A literal may run to the end of the file; so may an escape.
LiteralEnd(s, i) ==
  LET end[j \in 0..Len(s) + 1] ==
        IF j >= Len(s) THEN Len(s)
        ELSE IF At(s, j) = Quote THEN j + 1
        ELSE end[j + (IF At(s, j) = Backslash THEN 2 ELSE 1)]
  IN  end[i + 1]

\* The region that begins at i.
Opens(s, i) ==
  LET Next == IF i + 1 < Len(s) THEN At(s, i + 1) ELSE "x"
      Region(kind, end) == [kind |-> kind, start |-> i, end |-> end]
  IN  CASE At(s, i) = "#" /\ AtLineStart(s, i) ->
             Region("Directive", Least({LineEnd(s, i) + 1, Len(s)}))
        [] At(s, i) = "/" /\ Next = "/" -> Region("LineComment", LineEnd(s, i))
        [] At(s, i) = "/" /\ Next = "*" -> Region("BlockComment", BlockEnd(s, i))
        [] At(s, i) = Quote -> Region("Str", LiteralEnd(s, i))
        [] OTHER -> Region("Code", i + 1)

\* The regions of the file, code byte by byte.
lex(s) ==
  LET from[i \in 0..Len(s)] ==
        IF i = Len(s) THEN <<>> ELSE <<Opens(s, i)>> \o from[Opens(s, i).end]
  IN  from[0]

-----------------------------------------------------------------------------
(* Spans: items are the top level, anchors what a comment may describe.    *)

Span(kind, start, end) == [kind |-> kind, start |-> start, end |-> end]

\* The first byte from here that is not white; comments are not skipped.
Begin(s, from) == LeastOr({j \in from..Len(s) - 1 : At(s, j) \notin White}, Len(s))

kind_of(text) ==
  IF text[1] = "s" THEN "struct"
  ELSE IF text[Len(text)] = "}" THEN "definition" ELSE "decl"

NoStart == -1

ScanInit == [depth |-> 0, item |-> NoStart, prev |-> 0, out |-> <<>>]

\* An item ends before end; it began where its first brace did, or here.
ItemEnds(s, scan, end) ==
  LET start == IF scan.item = NoStart THEN Begin(s, scan.prev) ELSE scan.item
  IN  [depth |-> 0, item |-> NoStart, prev |-> end,
       out |-> Append(scan.out, Span(kind_of(Text(s, start, end)), start, end))]

Closes(s, scan, i, deep) ==
  CASE scan.depth = 0 -> [scan EXCEPT !.item = NoStart, !.prev = i + 1]
    [] scan.depth = 1 -> ItemEnds(s, scan, i + 1)
    [] OTHER ->
         [scan EXCEPT !.depth = @ - 1,
            !.out = IF deep THEN Append(@, Span("block", Begin(s, scan.prev), i + 1)) ELSE @]

\* Faulty: a statement may begin before what was found last ends.
StatementEndsAnywhere(s, scan, i) ==
  LET start == Begin(s, scan.prev)
  IN  [scan EXCEPT !.prev = i + 1,
         !.out = IF i + 1 > start THEN Append(@, Span("stmt", start, i + 1)) ELSE @]

StatementEnds(s, scan, i) ==
  LET floor == IF scan.out = <<>> THEN scan.prev
               ELSE Greatest({scan.prev, scan.out[Len(scan.out)].end})
      start == Begin(s, floor)
  IN  [scan EXCEPT !.prev = i + 1,
         !.out = IF i + 1 > start THEN Append(@, Span("stmt", start, i + 1)) ELSE @]

Semicolon(s, scan, i, deep) ==
  CASE scan.depth = 0 -> ItemEnds(s, scan, i + 1)
    [] scan.depth > 0 /\ deep -> StatementEnds(s, scan, i)
    [] OTHER -> scan

Scan(s, scan, region, deep) ==
  LET i == region.start
  IN  CASE region.kind = "Directive" /\ scan.depth = 0 ->
             [scan EXCEPT !.item = NoStart, !.prev = region.end,
                !.out = Append(@, Span("directive", i, region.end))]
        [] region.kind = "Code" /\ At(s, i) = "{" ->
             [scan EXCEPT !.depth = @ + 1,
                !.item = IF scan.depth = 0 THEN Begin(s, scan.prev) ELSE @]
        [] region.kind = "Code" /\ At(s, i) = "}" -> Closes(s, scan, i, deep)
        [] region.kind = "Code" /\ At(s, i) = ";" -> Semicolon(s, scan, i, deep)
        [] OTHER -> scan

\* By start, the longer first.
Sorted(spans) ==
  LET Before(a, b) == a.start < b.start \/ (a.start = b.start /\ a.end > b.end)
      Place(j) == Cardinality({i \in DOMAIN spans : Before(spans[i], spans[j])}) + 1
  IN  [r \in DOMAIN spans |-> spans[CHOOSE j \in DOMAIN spans : Place(j) = r]]

spans_from(s, deep) ==
  LET regions == lex(s)
      after[r \in 0..Len(regions)] ==
        IF r = 0 THEN ScanInit ELSE Scan(s, after[r - 1], regions[r], deep)
  IN  Sorted(after[Len(regions)].out)

anchors(s) == spans_from(s, TRUE)

\* An item that overlaps the one before it is left out.
items(s) ==
  LET spans == spans_from(s, FALSE)
      kept[k \in 0..Len(spans)] ==
        IF k = 0 THEN <<>>
        ELSE IF /\ kept[k - 1] # <<>>
                /\ spans[k].start < kept[k - 1][Len(kept[k - 1])].end
             THEN kept[k - 1] ELSE Append(kept[k - 1], spans[k])
  IN  kept[Len(spans)]

comments(s) == SelectSeq(lex(s), LAMBDA r : r.kind \in {"LineComment", "BlockComment"})

-----------------------------------------------------------------------------
(* The cover of the file, and what each comment describes.                 *)

Node(kind, text) == [kind |-> kind, text |-> text]

\* Faulty: what follows the last item is left out.
NodesUpToTheLast(s, spans) ==
  LET cover[k \in 0..Len(spans)] ==
        IF k = 0 THEN <<>>
        ELSE LET cursor == IF k = 1 THEN 0 ELSE spans[k - 1].end
                 gap == Text(s, cursor, spans[k].start)
             IN  cover[k - 1]
                   \o (IF gap = <<>> THEN <<>> ELSE <<Node("trivia", gap)>>)
                   \o <<Node(spans[k].kind, Text(s, spans[k].start, spans[k].end))>>
  IN  cover[Len(spans)]

\* The items, and the bytes between them and after them as trivia.
nodes_from_items(s, spans) ==
  LET Trivia(from, to) ==
        IF to > from THEN <<Node("trivia", Text(s, from, to))>> ELSE <<>>
      Cursor(k) == IF k = 0 THEN 0 ELSE spans[k].end
      cover[k \in 0..Len(spans)] ==
        IF k = 0 THEN <<>>
        ELSE cover[k - 1] \o Trivia(Cursor(k - 1), spans[k].start)
               \o <<Node(spans[k].kind, Text(s, spans[k].start, spans[k].end))>>
  IN  cover[Len(spans)] \o Trivia(Cursor(Len(spans)), Len(s))

LineStart(s, i) ==
  Greatest({0} \union {j \in 1..i : At(s, j - 1) = "n"})

\* The innermost of the anchors from the comment's start or earlier: the last of
\* them that reaches as far as upTo.
Innermost(spans, c, upTo) ==
  LET reach == {k \in DOMAIN spans : spans[k].start <= c.start /\ spans[k].end >= upTo}
  IN  IF reach = {} THEN <<>> ELSE <<spans[Greatest(reach)]>>

\* The relation of comment c to what it describes, a sequence of one or no span.
bind(s, c) ==
  LET spans == anchors(s)
      line == LineStart(s, c.start)
      after == {k \in DOMAIN spans : spans[k].start >= c.end}
  IN  IF InkOf(Text(s, line, c.start)) # <<>>
        THEN [relation |-> "trailing", target |-> Innermost(spans, c, line)]
      ELSE IF after # {}
        THEN [relation |-> "precedes", target |-> <<spans[Least(after)]>>]
      ELSE [relation |-> "encloses", target |-> Innermost(spans, c, c.end)]

-----------------------------------------------------------------------------
(* A file that is edited, and ingested again after each edit.              *)

FileInit ==
  /\ alphabet \in DOMAIN Pieces
  /\ src = <<>>
  /\ nodes = <<>>
  /\ edits = 0

\* file_against: the stored nodes the file's new ones continue keep their keys.
Ingest(s) ==
  /\ src' = s
  /\ nodes' = reconcile(nodes, nodes_from_items(s, items(s))).nodes
  /\ edits' = edits + 1
  /\ UNCHANGED alphabet

TypeIn(at, piece) ==
  /\ edits < MaxEdits[alphabet]
  /\ Ingest(Text(src, 0, at) \o piece \o Text(src, at, Len(src)))

CutOut(from, to) ==
  /\ edits < MaxEdits[alphabet]
  /\ Ingest(Text(src, 0, from) \o Text(src, to, Len(src)))

FileNext ==
  \/ \E at \in 0..Len(src), piece \in Pieces[alphabet] : TypeIn(at, piece)
  \/ \E from, to \in 0..Len(src) : from < to /\ CutOut(from, to)

FileSpec == FileInit /\ [][FileNext]_fileVars

-----------------------------------------------------------------------------
(* Properties. *)

\* Texts one after the other.
Joined(texts) ==
  LET joined[k \in 0..Len(texts)] ==
        IF k = 0 THEN <<>> ELSE joined[k - 1] \o texts[k]
  IN  joined[Len(texts)]

\* Whatever the file holds, however the lexer misreads it and whatever keys its
\* edits left, its nodes in the order of their keys are the file, byte for byte,
\* and no two share a key, from which ids derive.
ProjectsByteExactly ==
  /\ Joined(regenerate(nodes)) = src
  /\ \A i, j \in DOMAIN nodes : i < j => nodes[i].order < nodes[j].order

\* C as it is read one byte at a time, without looking ahead: what state is each
\* byte read in?  "slash", "/" and "escape" are half-read tokens.
Reading ==
  LET fresh[i \in 0..Len(src)] ==
        \/ i = 0 \/ At(src, i - 1) = "n"
        \/ fresh[i - 1] /\ At(src, i - 1) \in White
      IsNext(i, b) == i + 1 < Len(src) /\ At(src, i + 1) = b
      FromCode(i) ==
        CASE At(src, i) = "#" /\ fresh[i] -> "Directive"
          [] At(src, i) = "/" /\ IsNext(i, "/") -> "LineComment"
          [] At(src, i) = "/" /\ IsNext(i, "*") -> "BlockOpens"
          [] At(src, i) = Quote -> "Str"
          [] OTHER -> "Code"
      mode[i \in 0..Len(src) - 1] ==
        LET was == IF i = 0 THEN "Code" ELSE mode[i - 1]
            b == IF i = 0 THEN "x" ELSE At(src, i - 1)
            Continued == i > 1 /\ At(src, i - 2) = Backslash
        IN  CASE was = "Code" -> FromCode(i)
              [] was = "Directive" /\ b = "n" /\ ~Continued -> FromCode(i)
              [] was = "LineComment" /\ At(src, i) = "n" /\ b # Backslash -> "Code"
              [] was = "BlockOpens" -> "BlockBegun"
              [] was = "BlockBegun" /\ At(src, i) = "*" -> "BlockStar"
              [] was = "BlockBegun" /\ At(src, i) # "*" -> "Block"
              [] was = "Block" /\ At(src, i) = "*" -> "BlockStar"
              [] was = "BlockStar" /\ At(src, i) = "/" -> "BlockEnds"
              [] was = "BlockStar" /\ At(src, i) \notin {"*", "/"} -> "Block"
              [] was = "BlockEnds" -> FromCode(i)
              [] was = "Str" /\ At(src, i) = Quote -> "StrEnds"
              [] was = "Str" /\ At(src, i) = Backslash -> "Escape"
              [] was = "Escape" -> "Str"
              [] was = "StrEnds" -> FromCode(i)
              [] OTHER -> was
  IN  mode

\* The lexer's jumps, to the end of a directive, a comment or a literal, its
\* escapes, continuations and what is never closed, land where a reader that
\* takes one byte at a time is in code again: no brace is counted that is not one.
CodeIsCode ==
  LET regions == lex(src)
      mode == Reading
      code == {regions[k].start : k \in {k \in DOMAIN regions : regions[k].kind = "Code"}}
  IN  code = {i \in 0..Len(src) - 1 : mode[i] = "Code"}

\* Two statements never overlap, and none reaches into a block: a comment in a
\* body is looked up among them.
StatementsStandAlone ==
  LET spans == anchors(src)
  IN  \A j, k \in DOMAIN spans :
        j # k /\ spans[j].kind = "stmt" /\ spans[k].kind \in {"stmt", "block"} =>
          spans[j].end <= spans[k].start \/ spans[k].end <= spans[j].start

\* A comment on lines of its own introduces the element below it, where there
\* is one: an anchor whose first ink is the first ink below the comment.
IntroducesTheElementBelow ==
  LET regions == lex(src)
      IsInk(k) == ~(\/ regions[k].kind \in {"LineComment", "BlockComment"}
                    \/ regions[k].kind = "Code" /\ At(src, regions[k].start) \in White)
      FirstInk(from) ==
        LeastOr({regions[k].start : k \in {k \in DOMAIN regions :
                                             regions[k].start >= from /\ IsInk(k)}}, Len(src))
      Below(c, a) == FirstInk(a.start) = FirstInk(c.end) /\ a.end > FirstInk(c.end)
  IN  \A k \in DOMAIN comments(src) :
        LET c == comments(src)[k]
            edge == bind(src, c)
        IN  edge.relation = "precedes" /\ (\E j \in DOMAIN anchors(src) : Below(c, anchors(src)[j]))
              => Below(c, edge.target[1])
=============================================================================
