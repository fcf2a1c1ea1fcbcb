------------------------------ MODULE Highlight ------------------------------
(***************************************************************************)
(* The syntax highlighting of code blocks: highlightLine cuts a line into   *)
(* coloured tokens.  A character stands for its class: "a" for letters,    *)
(* "k" for a keyword, "1" for digits, "dq", "sq" and "bq" for the double,   *)
(* single and back quote, "bs" for the backslash, "{" in JSON for every    *)
(* bracket and the comma, ">" in shell for "<" too, the others for         *)
(* themselves.  A regular expression is what it matches at a position: a   *)
(* length, 0 for no match.                                                 *)
(***************************************************************************)
EXTENDS Page, Integers, FiniteSets, Arrays

CONSTANT MaxLine    \* the length of a line

ASSUME LineAssumption == MaxLine \in Nat

Languages == {"yaml", "bash", "go", "json", "text"}

Alphabet(language) ==
    CASE language = "yaml" -> {"a", "k", "1", " ", "sq", "dq", "#", ":", "-", ".",
                               "{", "}", "[", "]"}
      [] language = "bash" -> {"a", "1", " ", "sq", "dq", "#", "$", "-", "|", "&",
                               ">", "{", "}"}
      [] language = "go" -> {"a", "k", " ", "sq", "dq", "bq", "/"}
      [] language = "json" -> {"a", "k", "1", " ", "sq", "dq", "bs", "#", ":", "-",
                               ".", "{"}
      [] language = "text" -> {"a", " ", "#"}

-----------------------------------------------------------------------------
(* Regular expressions.                                                    *)

\* The character at i, "" beside the line.
At(s, i) == IF i \in DOMAIN s THEN s[i] ELSE ""

IsWord(c) == c \in {"a", "k", "1"}

\* How many characters from i on are in the set.
Span(s, i, set) ==
    LET ends == {j \in i .. Len(s) + 1 : At(s, j) \notin set}
    IN Min(ends) - i

Quoted(s, i, open, close) ==
    LET ends == {j \in i + 1 .. Len(s) : s[j] = close}
    IN IF s[i] # open \/ ends = {} THEN 0
       ELSE Min(ends) - i + 1

\* A JSON string, which a quote ends unless it is escaped: it follows an odd
\* number of backslashes.
Escapable(s, i) ==
    LET slashes(j) == j - 1 - Max({k \in i .. j - 1 : s[k] # "bs"})
        ends == {j \in i + 1 .. Len(s) : s[j] = "dq" /\ slashes(j) % 2 = 0}
    IN IF s[i] # "dq" \/ ends = {} THEN 0
       ELSE Min(ends) - i + 1

\* The first alternative that matches.
FirstOf(lengths) ==
    LET found == {n \in DOMAIN lengths : lengths[n] > 0}
    IN IF found = {} THEN 0
       ELSE lengths[Min(found)]

Boundary(s, i) == IsWord(At(s, i - 1)) # IsWord(At(s, i))

Keyword(s, i) ==
    IF s[i] = "k" /\ Boundary(s, i) /\ Boundary(s, i + 1) THEN 1 ELSE 0

\* Digits, then a fraction and a unit where parts allows them; boundaries on
\* both sides.  A fraction after which there is no boundary is given back.
Number(s, i, parts) ==
    LET digits == Span(s, i, {"1"})
        decimals == IF "fraction" \in parts /\ At(s, i + digits) = "."
                    THEN Span(s, i + digits + 1, {"1"}) ELSE 0
        unit(n) == IF "unit" \in parts THEN Span(s, i + n, {"a", "k"}) ELSE 0
        upTo(n) == IF Boundary(s, i + n + unit(n)) THEN n + unit(n) ELSE 0
    IN IF digits = 0 \/ ~Boundary(s, i) THEN 0
       ELSE FirstOf(<<IF decimals > 0 THEN upTo(digits + 1 + decimals) ELSE 0,
                      upTo(digits)>>)

\* A shell variable or option.
Variable(s, i) ==
    CASE s[i] = "$" /\ At(s, i + 1) = "{" /\ Quoted(s, i + 1, "{", "}") > 0 ->
            1 + Quoted(s, i + 1, "{", "}")
      [] s[i] = "$" /\ At(s, i + 1) = "a" -> 1 + Span(s, i + 1, {"a", "1"})
      [] OTHER -> 0

Flag(s, i) ==
    LET dashes == IF At(s, i + 1) = "-" THEN 2 ELSE 1
    IN IF s[i] = "-" /\ At(s, i + dashes) = "a"
       THEN dashes + Span(s, i + dashes, {"a", "1", "-"}) ELSE 0

\* The operators of the shell; two of them are doubled.
Operator(s, i) ==
    IF s[i] \in {"|", "&"} /\ At(s, i + 1) = s[i] THEN 2
    ELSE IF s[i] \in {"|", ">"} THEN 1 ELSE 0

MatchAt(language, s, i) ==
    CASE language = "yaml" ->
            FirstOf(<<Quoted(s, i, "dq", "dq"), Quoted(s, i, "sq", "sq"),
                      Quoted(s, i, "{", "}"), Quoted(s, i, "[", "]"), Keyword(s, i),
                      Number(s, i, {"fraction", "unit"})>>)
      [] language = "bash" ->
            FirstOf(<<Quoted(s, i, "dq", "dq"), Quoted(s, i, "sq", "sq"),
                      Variable(s, i), Flag(s, i), Operator(s, i), Number(s, i, {})>>)
      [] language = "go" ->
            FirstOf(<<Quoted(s, i, "dq", "dq"), Quoted(s, i, "bq", "bq"),
                      Quoted(s, i, "sq", "sq")>>)
      [] language = "gowords" -> Keyword(s, i)
      [] language = "json" ->
            FirstOf(<<Escapable(s, i), Keyword(s, i), Number(s, i, {"fraction"}),
                      IF s[i] = "-" /\ Number(s, i + 1, {"fraction"}) > 0
                      THEN 1 + Number(s, i + 1, {"fraction"}) ELSE 0,
                      IF s[i] \in {"{", ":"} THEN 1 ELSE 0>>)

-----------------------------------------------------------------------------
(* Tokens.                                                                 *)

Token(text, type) == [text |-> text, type |-> type]

Plain(text) == IF text = <<>> THEN <<>> ELSE <<Token(text, "plain")>>

\* The colour of a match.  A JSON key has the colour of a string: the test for
\* the colon after it sees the match alone.
TypeOf(language, text) ==
    CASE text[1] \in {"dq", "sq", "bq", "$"} -> "string"
      [] text[1] \in {"{", "["} -> IF language = "json" THEN "punct" ELSE "string"
      [] text[1] = "k" -> "keyword"
      [] text[1] = "1" -> "number"
      [] text[1] = "-" -> IF language = "json" THEN "number" ELSE "flag"
      [] OTHER -> "punct"

\* The loop over the matches, length[j] being that of the match at j.
\* Mutant: what follows the last one is dropped.
TokensToLast(language, s, length) ==
    LET from[i \in 1 .. Len(s) + 1] ==
            IF \A j \in i .. Len(s) : length[j] = 0 THEN <<>>
            ELSE LET start == Min({j \in i .. Len(s) : length[j] > 0})
                     text == SubSeq(s, start, start + length[start] - 1)
                 IN Plain(SubSeq(s, i, start - 1))
                    \o <<Token(text, TypeOf(language, text))>>
                    \o from[start + length[start]]
    IN from[1]

Tokens(language, s, length) ==
    LET from[i \in 1 .. Len(s) + 1] ==
            IF \A j \in i .. Len(s) : length[j] = 0
            THEN Plain(SubSeq(s, i, Len(s)))
            ELSE LET start == Min({j \in i .. Len(s) : length[j] > 0})
                     text == SubSeq(s, start, start + length[start] - 1)
                 IN Plain(SubSeq(s, i, start - 1))
                    \o <<Token(text, TypeOf(language, text))>>
                    \o from[start + length[start]]
    IN from[1]

Scan(language, s) ==
    Tokens(language, s, [j \in DOMAIN s |-> MatchAt(language, s, j)])

\* A key and its colon, or a dash, come first.
tokenizeYaml(s) ==
    LET indent == Span(s, 1, {" "})
        key == Span(s, indent + 1, {"a", "k", "1", "-", "."})
        colon == indent + key + 1
        rest(i) == i + Span(s, i, {" "})
        space(i) == Plain(SubSeq(s, i, rest(i) - 1))
        from(i) == Scan("yaml", SubSeq(s, rest(i), Len(s)))
    IN IF key > 0 /\ At(s, colon) = ":"
       THEN Plain(SubSeq(s, 1, indent))
            \o <<Token(SubSeq(s, indent + 1, colon - 1), "key"),
                 Token(<<":">>, "punct")>> \o space(colon + 1) \o from(colon + 1)
       ELSE IF At(s, indent + 1) = "-" /\ At(s, indent + 2) = " "
       THEN Plain(SubSeq(s, 1, indent)) \o <<Token(<<"-">>, "punct")>>
            \o space(indent + 2) \o from(indent + 2)
       ELSE Scan("yaml", s)

\* The first text of a command: its indentation is given as a token of its own
\* and again with the command, the white space at its end is dropped.
pushPlain(text) ==
    LET leading == Span(text, 1, {" "})
        trimmed == Max({0} \cup {i \in DOMAIN text : text[i] # " "})
    IN Plain(SubSeq(text, 1, leading))
       \o <<Token(SubSeq(text, 1, trimmed), "command")>>

FirstIsCommand(tokens) ==
    IF tokens # <<>> /\ tokens[1].type = "plain" /\ Range(tokens[1].text) # {" "}
    THEN pushPlain(tokens[1].text) \o Tail(tokens)
    ELSE tokens

tokenizeBash(s) == FirstIsCommand(Scan("bash", s))

\* Between the strings, keywords are found one by one.
WithKeywords(tokens) ==
    Flat([i \in DOMAIN tokens |->
                  IF tokens[i].type = "plain" THEN Scan("gowords", tokens[i].text)
                  ELSE <<tokens[i]>>])

tokenizeGo(s) == WithKeywords(Scan("go", s))

tokenizeJson(s) == Scan("json", s)

\* inSingle and inDouble before position i: the quote it is inside of, "" for
\* none.  The other kind of quote has no meaning inside.
Quotes(s) ==
    LET inside[i \in 1 .. Len(s) + 1] ==
            IF i = 1 THEN ""
            ELSE LET quote == inside[i - 1]
                     c == s[i - 1]
                 IN IF c \notin {"sq", "dq"} \/ quote \notin {"", c} THEN quote
                    ELSE IF quote = c THEN "" ELSE c
    IN inside

\* Mutant: double quotes are taken for other characters.
findCommentStartSingle(s) ==
    {i \in DOMAIN s :
        /\ s[i] = "#" /\ At(s, i - 1) \in {"", " "}
        /\ Cardinality({j \in 1 .. i - 1 : s[j] = "sq"}) % 2 = 0}

findCommentStart(s) ==
    {i \in DOMAIN s : /\ s[i] = "#" /\ At(s, i - 1) \in {"", " "}
                      /\ Quotes(s)[i] = ""}

\* inDouble and inBacktick before position i.
GoQuotes(s) ==
    LET inside[i \in 1 .. Len(s) + 1] ==
            IF i = 1 THEN <<FALSE, FALSE>>
            ELSE LET in == inside[i - 1]
                     c == s[i - 1]
                 IN IF c = "dq" /\ ~in[2] THEN <<~in[1], in[2]>>
                    ELSE IF c = "bq" THEN <<in[1], ~in[2]>> ELSE in
    IN inside

findGoCommentStart(s) ==
    {i \in DOMAIN s : /\ s[i] = "/" /\ At(s, i + 1) = "/"
                      /\ GoQuotes(s)[i] = <<FALSE, FALSE>>}

\* The code before position first, and the comment from there on.
CodeAndComment(s, language, first) ==
    LET code == SubSeq(s, 1, first - 1) IN
    (CASE language = "go" -> tokenizeGo(code)
       [] language = "yaml" -> tokenizeYaml(code)
       [] language = "json" -> tokenizeJson(code)
       [] OTHER -> tokenizeBash(code))
    \o IF first > Len(s) THEN <<>>
       ELSE <<Token(SubSeq(s, first, Len(s)), "comment")>>

highlightLine(s, language) ==
    IF language = "text" THEN <<Token(s, "plain")>>
    ELSE CodeAndComment(s, language,
           Min({Len(s) + 1} \cup IF language = "go" THEN findGoCommentStart(s)
                                 ELSE findCommentStart(s)))

-----------------------------------------------------------------------------
(* A code block shows a line, which is also what the copy button copies.    *)

CodeInit ==
    /\ widget = "code" /\ pending = Nothing
    /\ ui \in [mounted : {TRUE}, language : Languages, line : {<<>>}]

\* A line with one character more.
CodeLine ==
    /\ On("code") /\ Len(ui.line) < MaxLine
    /\ \E c \in Alphabet(ui.language) :
          Becomes([ui EXCEPT !.line = Append(@, c)], pending)

\* The text that is shown.
Rendered(tokens) == Flat([i \in DOMAIN tokens |-> tokens[i].text])

NoSpace(s) == Without(s, {" "})

\* Every character of the code is shown, once and in its place, whatever the
\* patterns match and wherever a comment starts.  Of a shell line this is said
\* of all that is not white space: pushPlain doubles the white space before the
\* first command and drops that after it.
TokensAreTheLine ==
    widget = "code" =>
      LET shown == Rendered(highlightLine(ui.line, ui.language)) IN
      IF ui.language = "bash" THEN NoSpace(shown) = NoSpace(ui.line)
      ELSE shown = ui.line

\* What a pattern knows and findCommentStart does not, or the reverse: brackets
\* that hide the quotes between them, escapes, and single quotes in JSON.
KnownToOne(language) ==
    CASE language = "yaml" -> {"{", "["}
      [] language = "bash" -> {"{"}
      [] language = "json" -> {"sq", "bs"}

\* The scan for a comment and the patterns agree on what is quoted: in a YAML,
\* shell or JSON line without the characters that only one of them knows, no
\* comment starts inside what the patterns, given the whole line, take for a
\* string in quotes.  Nothing is said of Go, where the scan knows no single
\* quotes and toggles on a back quote between double quotes.
QuotedHashIsCode ==
    /\ widget = "code" /\ ui.language \in {"yaml", "bash", "json"}
    /\ Range(ui.line) \cap KnownToOne(ui.language) = {}
    => LET tokens == Scan(ui.language, ui.line)
           offset(k) == Len(Rendered(SubSeq(tokens, 1, k - 1)))
       IN \A i \in findCommentStart(ui.line), k \in DOMAIN tokens :
             tokens[k].type = "string" /\ tokens[k].text[1] \in {"sq", "dq"}
               => i \notin offset(k) + 1 .. offset(k) + Len(tokens[k].text)
=============================================================================
