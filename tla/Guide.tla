------------------------------- MODULE Guide -------------------------------
(* Guided decoding of tool calls (needle-toolcall-shim, guide.rs and the     *)
(* decode loop of model.rs): a small model writes a list of calls token by   *)
(* token, and JsonGuide masks the tokens that do not fit what was written.   *)
(*                                                                           *)
(* A text is a sequence of characters; ' stands for the JSON quote, T for    *)
(* the word <tool_call>, N for the word name and A for the word arguments,   *)
(* t, e and 0 for the literals true, false and null.  Whitespace is left     *)
(* out.  A token is a text; the empty one is the end of the sequence.  What  *)
(* the model prefers is open: of the tokens left by the mask, any may come.  *)
EXTENDS Integers, SequencesExt, FiniteSetsExt

CONSTANTS
  Tools,       \* name |-> key |-> [type, enum]: the tools offered, with their schemas
  Vocabulary,  \* the tokenizer's tokens
  Openings,    \* what the model has written when the instance starts, as tokens
  MaxTokens    \* bound: max_gen_len - 1, counted from there

EndOfSequence == << >>

Letters == UNION {Range(n) : n \in DOMAIN Tools}
  \union UNION {UNION {Range(k) : k \in DOMAIN Tools[n]} : n \in DOMAIN Tools}

\* The tokenizer falls back to single bytes, and its tokens end with <eos>.
ASSUME VocabularyAssumption ==
  /\ EndOfSequence \in Vocabulary
  /\ \A c \in Letters \union {"'"} : <<c>> \in Vocabulary

\* Reading a value, its first literal that matches is taken to be all of it.
ASSUME LiteralAssumption ==
  \A n \in DOMAIN Tools : \A k \in DOMAIN Tools[n] :
    \A v, w \in Tools[n][k].enum : ~IsStrictPrefix(v, w)

VARIABLES
  machine,    \* the JsonStateMachine: where in the JSON the output stands
  generated,  \* the tokens of the output
  left,       \* tokens that may still be generated
  fast,       \* whether the decode loop fast-forwards what is forced
  stopped     \* whether the end of the sequence was chosen

guideVars == <<machine, generated, left, fast, stopped>>

-----------------------------------------------------------------------------
(* What the tools allow (ToolConstraints). *)

\* The texts a value of this schema must be one of; none when it is free.
SchemaLiterals(schema) ==
  schema.enum \union CASE schema.type = "boolean" -> {<<"t">>, <<"e">>}
                       [] schema.type = "null" -> {<<"0">>}
                       [] OTHER -> {}

ValueLiterals(name, key) ==
  IF name \in DOMAIN Tools /\ key \in DOMAIN Tools[name]
  THEN SchemaLiterals(Tools[name][key]) ELSE {}

\* The characters that may follow prefix in one of the words.
Children(words, prefix) ==
  {w[Len(prefix) + 1] : w \in {w \in words : IsStrictPrefix(prefix, w)}}

\* The longest text that every word beginning with prefix goes on with.
UniqueContinuation(words, prefix) ==
  LET forced == {s \in UNION {Suffixes(w) : w \in words} :
                   \A n \in 0..(Len(s) - 1) :
                     LET so == prefix \o SubSeq(s, 1, n)
                     IN  so \notin words /\ Children(words, so) = {s[n + 1]}}
  IN  CHOOSE s \in forced : \A r \in forced : Len(r) <= Len(s)

-----------------------------------------------------------------------------
(* Reading the output (JsonStateMachine). *)

NameField == <<"'", "N", "'", ":", "'">>
ArgumentsField == <<"'", "A", "'", ":", "{">>

NewMachine ==
  [state |-> "free", buffer |-> << >>, constrained |-> << >>, targets |-> {},
   function |-> << >>, key |-> << >>, used |-> {},
   inArguments |-> FALSE, argumentsDepth |-> 0, depth |-> 0,
   inString |-> FALSE, escaped |-> FALSE]

\* Where the last colon of a text is; 0 when it has none.
LastColon(text) == Max({0} \union {i \in 1..Len(text) : text[i] = ":"})

\* What stands between the two quotes last before the last colon.
LastArgumentKey(text) ==
  LET quotes == {i \in 1..(LastColon(text) - 1) : text[i] = "'"}
      end == Max(quotes)
      start == Max(quotes \ {end})
  IN  IF Cardinality(quotes) < 2 THEN << >> ELSE SubSeq(text, start + 1, end - 1)

FeedLiteral(m, c) ==
  LET value == Append(m.constrained, c)
  IN  IF value \in m.targets
      THEN [m EXCEPT !.constrained = << >>, !.targets = {}, !.state = "free"]
      ELSE [m EXCEPT !.constrained = value]

FeedKey(m, c) ==
  IF c # "'" THEN [m EXCEPT !.constrained = Append(@, c)]
  ELSE LET closed == [m EXCEPT !.constrained = << >>, !.state = "free"]
       IN  IF m.state = "name" THEN [closed EXCEPT !.function = m.constrained]
           ELSE [closed EXCEPT !.key = m.constrained, !.used = @ \union {m.constrained}]

FeedString(m, c) ==
  IF m.escaped THEN [m EXCEPT !.escaped = FALSE]
  ELSE [m EXCEPT !.escaped = (c = "\\"), !.inString = (c # "'")]

FeedClose(m, c) ==
  LET shallower == [m EXCEPT !.depth = Max({@ - 1, 0})]
  IN  IF c = "}" /\ m.inArguments /\ shallower.depth < m.argumentsDepth
      THEN [shallower EXCEPT !.inArguments = FALSE, !.used = {}] ELSE shallower

AtArguments(m) == m.inArguments /\ m.depth = m.argumentsDepth

FeedFree(m, c) ==
  LET n == [m EXCEPT !.depth = IF c \in {"{", "["} THEN @ + 1 ELSE @]
      Ends(text) == IsSuffix(text, n.buffer)
  IN  CASE Ends(NameField) /\ ~n.inArguments ->
             [n EXCEPT !.state = "name", !.constrained = << >>]
        [] Ends(ArgumentsField) ->
             [n EXCEPT !.inArguments = TRUE, !.argumentsDepth = n.depth, !.used = {}]
        [] AtArguments(n) /\ (Ends(<<"{", "'">>) \/ Ends(<<",", "'">>)) ->
             [n EXCEPT !.state = "key", !.constrained = << >>]
        [] OTHER ->
             [n EXCEPT !.key = IF c = ":" /\ AtArguments(n)
                               THEN LastArgumentKey(n.buffer) ELSE @,
                       !.inString = Ends(<<":", "'">>)]

FeedChar(m, c) ==
  LET n == [m EXCEPT !.buffer = Append(@, c)]
  IN  CASE m.state = "literal" -> FeedLiteral(n, c)
        [] m.state \in {"name", "key"} -> FeedKey(n, c)
        [] m.state = "free" /\ m.inString -> FeedString(n, c)
        [] m.state = "free" /\ ~m.inString /\ c \in {"}", "]"} -> FeedClose(n, c)
        [] OTHER -> FeedFree(n, c)

\* A value that must be a literal has begun: before its quote, or just after it
\* when colon and quote came in one token.
StartLiteral(m) ==
  LET targets == ValueLiterals(m.function, m.key)
      forced == [m EXCEPT !.state = "literal", !.targets = targets]
  IN  IF m.state # "free" \/ ~AtArguments(m) \/ targets = {} THEN m
      ELSE IF ~m.inString /\ IsSuffix(<<":">>, m.buffer)
      THEN [forced EXCEPT !.constrained = << >>]
      ELSE IF m.inString /\ IsSuffix(<<":", "'">>, m.buffer)
      THEN [forced EXCEPT !.inString = FALSE, !.constrained = <<"'">>]
      ELSE m

Update(m, token) == StartLiteral(FoldLeft(FeedChar, m, token))

-----------------------------------------------------------------------------
(* The mask (JsonGuide). *)

StringLiteralComplete(text) ==
  LET step(read, c) ==
        CASE read = "begin" -> IF c = "'" THEN "open" ELSE "broken"
          [] read = "open" -> CASE c = "'" -> "closed" [] c = "\\" -> "escape" [] OTHER -> "open"
          [] read = "escape" -> "open"
          [] read = "closed" -> CASE c = "'" -> "closed" [] c = "\\" -> "skip" [] OTHER -> "broken"
          [] read = "skip" -> "closed"
          [] OTHER -> "broken"
  IN  FoldLeft(step, "begin", text) = "closed"

TopLevelArgumentValueFinished(text) ==
  LET tail == SubSeq(text, LastColon(text) + 1, Len(text))
  IN  /\ LastColon(text) # 0 /\ tail # << >>
      /\ \/ tail \in {<<"t">>, <<"e">>, <<"0">>}
         \/ Last(tail) = "'" /\ StringLiteralComplete(tail)
         \/ Last(tail) \in {"1", "}", "]"}

EndsWithArgKeyQuote(text) == LastColon(text) # 0 /\ Last(text) = "'"

\* What the structure owes after this output, by the first row that applies;
\* nothing when it owes nothing.
StructuralTargets(m) ==
  LET s == m.buffer
      rows == <<
        <<s = << >>, {<<"T">>, <<"[">>}>>,
        <<s = <<"T">>, {<<"[">>}>>,
        <<s = <<"[">>, {<<"{">>, <<"]">>}>>,
        <<s = <<"[", "{">>, {NameField}>>,
        <<m.function # << >> /\ IsSuffix(NameField \o m.function \o <<"'">>, s),
          {<<",">> \o ArgumentsField}>>,
        <<IsSuffix(ArgumentsField, s), {<<"'">>, <<"}">>}>>,
        <<AtArguments(m) /\ EndsWithArgKeyQuote(s), {<<":">>}>>,
        <<AtArguments(m) /\ TopLevelArgumentValueFinished(s), {<<",">>, <<"}">>}>>,
        <<IsSuffix(<<"}", "}">>, s), {<<"]">>, <<",", "{">>}>> >>
      due == {i \in DOMAIN rows : rows[i][1]}
  IN  IF m.state # "free" \/ m.inString \/ due = {} THEN {} ELSE rows[Min(due)][2]

Fits(text, target) == IsPrefix(text, target) \/ IsPrefix(target, text)

\* The tokens that bring current towards a target, or past it.
Towards(targets, current) ==
  {token \in Vocabulary \ {EndOfSequence} :
     \E target \in targets : Fits(current \o token, target)}

\* Faulty: a key that was given may be given again.
WordsWithUsed(m) ==
  CASE m.state = "name" -> DOMAIN Tools
    [] m.state = "key" /\ m.function \in DOMAIN Tools -> DOMAIN Tools[m.function]
    [] OTHER -> {}

\* The names, or the keys still unused, that may be written now.
CurrentWords(m) ==
  CASE m.state = "name" -> DOMAIN Tools
    [] m.state = "key" /\ m.function \in DOMAIN Tools -> DOMAIN Tools[m.function] \ m.used
    [] OTHER -> {}

\* A token goes on with a word, or ends it and goes on with what is owed.
ValidContinuation(token, words, prefix, owed) ==
  LET quotes == {i \in 1..Len(token) : token[i] = "'"}
  IN  IF quotes = {} THEN \E w \in words : IsPrefix(prefix \o token, w)
      ELSE LET quote == Min(quotes)
           IN  /\ prefix \o SubSeq(token, 1, quote - 1) \in words
               /\ Fits(SubSeq(token, quote + 1, Len(token)), owed)

\* The tokens in a word's place.
Continuing(m) ==
  LET words == CurrentWords(m)
      owed == IF m.state = "name" THEN <<",">> \o ArgumentsField ELSE <<":">>
  IN  {token \in Vocabulary \ {EndOfSequence} :
         ValidContinuation(token, words, m.constrained, owed)}

\* The tokens the mask leaves.  When none fits it leaves them all.
Allowed(m) ==
  LET valid == CASE m.state = "literal" -> Towards(m.targets, m.constrained)
                 [] m.state # "literal" /\ StructuralTargets(m) # {} ->
                      Towards(StructuralTargets(m), m.buffer)
                 [] OTHER -> Continuing(m)
  IN  IF valid = {} THEN Vocabulary ELSE valid

\* A forced text in tokens, the longest that fits at each place.
TokenizeKnownSuffix(suffix) ==
  LET tokens[n \in 0..Len(suffix)] ==
        IF n = Len(suffix) THEN << >>
        ELSE LET rest == SubSeq(suffix, n + 1, Len(suffix))
                 fitting == {t \in Vocabulary \ {EndOfSequence} : IsPrefix(t, rest)}
                 best == CHOOSE t \in fitting : \A r \in fitting : Len(r) <= Len(t)
             IN  <<best>> \o tokens[n + Len(best)]
  IN  tokens[0]

UniqueFastForward(m) ==
  IF m.state \notin {"name", "key"} \/ CurrentWords(m) = {} THEN << >>
  ELSE TokenizeKnownSuffix(UniqueContinuation(CurrentWords(m), m.constrained))

-----------------------------------------------------------------------------
(* The decode loop (generate_with_options). *)

GuideInit ==
  /\ generated \in Openings
  /\ machine = FoldLeft(Update, NewMachine, generated)
  /\ left = MaxTokens
  /\ fast \in BOOLEAN
  /\ stopped = FALSE

Decoding == ~stopped /\ left > 0

Emit(tokens) ==
  /\ machine' = FoldLeft(Update, machine, tokens)
  /\ generated' = generated \o tokens
  /\ left' = left - Len(tokens)

\* What can only go on one way is written without asking the model.
FastForward ==
  LET forced == UniqueFastForward(machine)
  IN  /\ Decoding
      /\ fast /\ forced # << >>
      /\ Emit(SubSeq(forced, 1, Min({Len(forced), left})))
      /\ UNCHANGED <<fast, stopped>>

\* The model chooses one of the tokens the mask leaves.
Generate(token) ==
  /\ Decoding
  /\ ~(fast /\ UniqueFastForward(machine) # << >>)
  /\ token \in Allowed(machine)
  /\ IF token = EndOfSequence
     THEN stopped' = TRUE /\ UNCHANGED <<machine, generated, left>>
     ELSE Emit(<<token>>) /\ UNCHANGED stopped
  /\ UNCHANGED fast

GuideNext == FastForward \/ \E token \in Vocabulary : Generate(token)

GuideSpec == GuideInit /\ [][GuideNext]_guideVars

-----------------------------------------------------------------------------
(* What was written, read by itself: a list of calls, whose values are       *)
(* strings and scalars.  A value that is nested is not read further.         *)

NewReading ==
  [at |-> "calls", owed |-> <<"[">>, text |-> << >>, name |-> << >>, key |-> << >>,
   given |-> {}, guarded |-> FALSE, callable |-> TRUE]

\* Of the words given, key is one not seen, or none is left to choose from.
Chosen(key, seen, words) == key \in words \ seen \/ words \subseteq seen

\* What may be read as a name, a key or a value there.
Fit(r) ==
  LET known == r.name \in DOMAIN Tools
      literals == ValueLiterals(r.name, r.key)
  IN  CASE r.at = "name" -> r.text \in DOMAIN Tools
        [] r.at = "key" -> known => Chosen(r.text, r.given, DOMAIN Tools[r.name])
        [] OTHER -> literals # {} => r.text \in literals

ReadChar(r, c) ==
  LET Owing(owed, at) == [r EXCEPT !.owed = owed, !.at = at]
      Opening(owed, at) == [Owing(owed, at) EXCEPT !.text = << >>, !.guarded = FALSE]
      Longer(at) == [r EXCEPT !.text = Append(@, c), !.at = at]
      Judged(n) == [n EXCEPT !.callable = @ /\ (r.guarded => Fit(n)), !.guarded = FALSE]
      Begins == r.at = "value" /\ r.text = << >>
      MayEnd == r.at = "after" \/ (r.at = "value" /\ r.text # << >>)
  IN  CASE r.at \in {"broken", "nested"} -> r
        [] r.owed # << >> /\ c = Head(r.owed) -> [r EXCEPT !.owed = Tail(@)]
        [] r.owed # << >> /\ c # Head(r.owed) -> [r EXCEPT !.at = "broken"]
        [] r.at = "calls" /\ c = "{" -> [Opening(NameField, "name") EXCEPT !.given = {}]
        [] r.at \in {"calls", "more"} /\ c = "]" -> Owing(<< >>, "end")
        [] r.at \in {"name", "key", "string"} /\ c \notin {"'", "\\"} -> Longer(r.at)
        [] r.at = "name" /\ c = "'" ->
             [Judged(r) EXCEPT !.name = r.text, !.at = "keys", !.owed = <<",">> \o ArgumentsField]
        [] r.at = "keys" /\ c = "'" -> Opening(<< >>, "key")
        [] r.at = "key" /\ c = "'" ->
             [Judged(r) EXCEPT !.key = r.text, !.given = @ \union {r.text},
                               !.text = << >>, !.at = "value", !.owed = <<":">>]
        [] Begins /\ c = "'" -> Longer("string")
        [] Begins /\ c \in {"{", "["} -> Longer("nested")
        [] r.at = "value" /\ c = "1" -> Longer("value")
        [] Begins /\ c \in {"t", "e", "0"} -> Judged(Longer("after"))
        [] r.at = "string" /\ c = "'" -> Judged(Longer("after"))
        [] r.at = "string" /\ c = "\\" -> Longer("escape")
        [] r.at = "escape" -> Longer("string")
        [] MayEnd /\ c = "," ->
             [Opening(<<"'">>, "key") EXCEPT !.callable = Judged(r).callable]
        [] (r.at = "keys" \/ MayEnd) /\ c = "}" ->
             [Judged(r) EXCEPT !.at = "more", !.owed = <<"}">>]
        [] r.at = "more" /\ c = "," ->
             [Opening(<<"{">> \o NameField, "name") EXCEPT !.given = {}]
        [] OTHER -> [r EXCEPT !.at = "broken"]

\* A name, key or value is guarded when a token ended where it opens: the mask
\* has seen it open before any of it was written.
ReadToken(r, token) ==
  LET n == FoldLeft(ReadChar, r, token)
      opened == /\ n.owed = << >>
                /\ <<n.at, n.text>> \in
                     {"name", "key", "value"} \X {<< >>} \union {<<"string", <<"'">>>>}
  IN  [n EXCEPT !.guarded = @ \/ opened]

AsCalls ==
  FoldLeft(ReadToken, NewReading,
           IF generated # << >> /\ Head(generated) = <<"T">> THEN Tail(generated) ELSE generated)

-----------------------------------------------------------------------------
(* Properties *)

\* In an output that reads as a list of calls with plain values, each call names
\* a tool that was offered and gives that tool's parameters, each once as long as
\* there is one it has not given, and an enumerated one a value of its schema,
\* whatever tokens the text came in, as long as the name, key or value opened at
\* the end of one (current_trie, start_literal_if_needed, valid_continuation).
CallsAreCallable == AsCalls.callable

\* Every output is the beginning of a list of calls (README of the shim:
\* "Guided decoding constrains Needle's compact JSON structure").
StructureIsConstrained == AsCalls.at # "broken"
=============================================================================
