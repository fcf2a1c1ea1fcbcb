--------------------------- MODULE HighlightProofs ---------------------------
(***************************************************************************)
(* That the highlighter shows every line of code as it is, and that its    *)
(* patterns and its scan for comments agree on what is quoted.             *)
(***************************************************************************)
EXTENDS Highlight, SequenceProofs

-----------------------------------------------------------------------------
(* Regular expressions.                                                    *)

\* The characters that the patterns tell apart.
Chars == {"a", "k", "1", " ", "sq", "dq", "bq", "bs", "#", ":", "-", ".", "{", "}", "[", "]",
          "$", "|", "&", ">", "/"}

\* What At finds in a line is a character of it, or nothing.
LEMMA AtType ==
    ASSUME NEW s \in Seq(Chars), NEW i
    PROVE  /\ i \in 1 .. Len(s) => At(s, i) = s[i]
           /\ i \notin 1 .. Len(s) => At(s, i) = ""
  BY SeqIsFunction, Zenon DEF At

\* A span ends with the line at the latest, and holds characters of the set only.
LEMMA SpanInLine ==
    ASSUME NEW s \in Seq(Chars), NEW i \in 1 .. Len(s) + 1, NEW set,
           \A j : At(s, j) \in set => j \in 1 .. Len(s)
    PROVE  /\ Span(s, i, set) \in 0 .. Len(s) + 1 - i
           /\ \A j \in i .. i + Span(s, i, set) - 1 : j \in 1 .. Len(s) /\ s[j] \in set
  <1> DEFINE N == Len(s)
             ends == {j \in i .. N + 1 : At(s, j) \notin set}
             m == Min(ends)
  <1>1. N \in Nat
    BY SeqIsFunction
  <1>5. Span(s, i, set) = m - i
    BY Zenon DEF Span
  <1>0. /\ i \in 1 .. N + 1
        /\ \A j : j \in 1 .. N => At(s, j) = s[j]
        /\ \A j : At(s, j) \in set => j \in 1 .. N
    BY AtType, Zenon
  <1> HIDE DEF N
  <1>2. ends \in SUBSET Nat
    BY <1>0, <1>1
  <1>3. N + 1 \in ends
    <2>1. N + 1 \notin 1 .. N /\ N + 1 \in i .. N + 1
      BY <1>0, <1>1
    <2> QED
      BY <1>0, <2>1, Zenon
  <1>4. m \in ends /\ \A j \in ends : m <= j
    <2> HIDE DEF ends
    <2> QED
      BY <1>2, <1>3, MinIsLeast, Zenon
  <1> HIDE DEF m
  <1>6. m \in i .. N + 1
    BY <1>4, Zenon
  <1>7. ASSUME NEW j \in i .. i + (m - i) - 1 PROVE j \in 1 .. N /\ s[j] \in set
    <2>1. j \in i .. N + 1 /\ ~ (m <= j) /\ j \in 1 .. N
      BY <1>0, <1>1, <1>6
    <2>2. At(s, j) \in set
      BY <1>4, <2>1, Zenon
    <2> QED
      BY <1>0, <2>1, <2>2
  <1>8. m - i \in 0 .. N + 1 - i
    BY <1>0, <1>1, <1>6
  <1> QED
    BY <1>5, <1>7, <1>8, Zenon DEF N

\* What Quoted matches begins with the opening character and ends with the first
\* closing one; if it matches nothing after an opening one, there is none.
LEMMA QuotedInLine ==
    ASSUME NEW s \in Seq(Chars), NEW i \in 1 .. Len(s), NEW open, NEW close
    PROVE  LET n == Quoted(s, i, open, close) IN
           /\ n = 0 \/ /\ n \in 2 .. Len(s) + 1 - i
                       /\ s[i] = open /\ s[i + n - 1] = close
                       /\ \A j \in i + 1 .. i + n - 2 : s[j] # close
           /\ n = 0 /\ s[i] = open => \A j \in i + 1 .. Len(s) : s[j] # close
  <1> DEFINE ends == {j \in i + 1 .. Len(s) : s[j] = close}
             m == Min(ends)
             n == Quoted(s, i, open, close)
  <1>1. Len(s) \in Nat
    BY SeqIsFunction
  <1>2. ends \in SUBSET Nat
    BY <1>1
  <1>3. ends # {} => m \in ends /\ \A j \in ends : m <= j
    <2> HIDE DEF ends
    <2> QED
      BY <1>2, MinIsLeast, Zenon
  <1>4. n = IF s[i] # open \/ ends = {} THEN 0 ELSE m - i + 1
    BY Zenon DEF Quoted
  <1> HIDE DEF m, n
  <1>5. CASE s[i] # open \/ ends = {}
    <2>1. n = 0
      BY <1>4, <1>5, Zenon
    <2>2. s[i] = open => \A j \in i + 1 .. Len(s) : s[j] # close
      BY <1>5
    <2> QED
      BY <2>1, <2>2, Zenon DEF n
  <1>6. CASE s[i] = open /\ ends # {}
    <2>1. n = m - i + 1 /\ m \in i + 1 .. Len(s) /\ s[m] = close
      BY <1>3, <1>4, <1>6
    <2>2. n \in 2 .. Len(s) + 1 - i /\ i + n - 1 = m /\ n # 0
      BY <1>1, <2>1
    <2>3. ASSUME NEW j \in i + 1 .. i + n - 2 PROVE s[j] # close
      <3>1. j \in i + 1 .. Len(s) /\ ~ (m <= j)
        BY <1>1, <2>1, <2>2
      <3> QED
        BY <1>3, <1>6, <3>1, Zenon
    <2> QED
      BY <1>6, <2>1, <2>2, <2>3, Zenon DEF n
  <1> QED
    BY <1>5, <1>6, Zenon

\* FirstOf is the length of one of the alternatives, 0 if all are.
LEMMA FirstOfIsOne ==
    ASSUME NEW lengths \in Seq(Nat)
    PROVE  \/ FirstOf(lengths) = 0 /\ \A n \in 1 .. Len(lengths) : lengths[n] = 0
           \/ \E n \in 1 .. Len(lengths) : lengths[n] > 0 /\ FirstOf(lengths) = lengths[n]
  <1> DEFINE found == {n \in DOMAIN lengths : lengths[n] > 0}
             m == Min(found)
  <1>1. /\ DOMAIN lengths = 1 .. Len(lengths)
        /\ \A n \in 1 .. Len(lengths) : lengths[n] \in Nat
    BY SeqIsFunction, Zenon
  <1>2. found \in SUBSET Nat
    BY <1>1
  <1>3. found # {} => m \in found
    <2> HIDE DEF found
    <2> QED
      BY <1>2, MinIsLeast, Zenon
  <1>4. FirstOf(lengths) = IF found = {} THEN 0 ELSE lengths[m]
    BY Zenon DEF FirstOf
  <1> HIDE DEF m
  <1>5. CASE found = {}
    BY <1>1, <1>4, <1>5
  <1>6. CASE found # {}
    BY <1>1, <1>3, <1>4, <1>6, Zenon
  <1> QED
    BY <1>5, <1>6, Zenon

\* Of two alternatives.
LEMMA FirstOf2 ==
    ASSUME NEW a \in Nat, NEW b \in Nat
    PROVE  FirstOf(<<a, b>>) \in {0, a, b}
  <1>1. <<a, b>> \in Seq(Nat) /\ Len(<<a, b>>) = 2
    OBVIOUS
  <1>2. \/ FirstOf(<<a, b>>) = 0 /\ \A n \in 1 .. 2 : <<a, b>>[n] = 0
        \/ \E n \in 1 .. 2 : <<a, b>>[n] > 0 /\ FirstOf(<<a, b>>) = <<a, b>>[n]
    BY <1>1, FirstOfIsOne, Zenon
  <1> DEFINE f == FirstOf(<<a, b>>)
  <1> HIDE DEF f
  <1> QED
    BY <1>2 DEF f

\* Of three.
LEMMA FirstOf3 ==
    ASSUME NEW a \in Nat, NEW b \in Nat, NEW c \in Nat
    PROVE  /\ FirstOf(<<a, b, c>>) \in {a, b, c}
           /\ FirstOf(<<a, b, c>>) = 0 => a = 0 /\ b = 0 /\ c = 0
  <1>1. <<a, b, c>> \in Seq(Nat) /\ Len(<<a, b, c>>) = 3
    OBVIOUS
  <1>2. \/ FirstOf(<<a, b, c>>) = 0 /\ \A n \in 1 .. 3 : <<a, b, c>>[n] = 0
        \/ \E n \in 1 .. 3 : /\ <<a, b, c>>[n] > 0
                             /\ FirstOf(<<a, b, c>>) = <<a, b, c>>[n]
    BY <1>1, FirstOfIsOne, Zenon
  <1> DEFINE f == FirstOf(<<a, b, c>>)
  <1> HIDE DEF f
  <1> QED
    BY <1>2 DEF f

\* One of the lengths, 0 if all are.
OneOf5(n, a, b, c, d, e) ==
    n \in {a, b, c, d, e} /\ (n = 0 => a = 0 /\ b = 0 /\ c = 0 /\ d = 0 /\ e = 0)

OneOf6(n, a, b, c, d, e, f) ==
    /\ n \in {a, b, c, d, e, f}
    /\ n = 0 => a = 0 /\ b = 0 /\ c = 0 /\ d = 0 /\ e = 0 /\ f = 0

\* Of five.
LEMMA FirstOf5 ==
    ASSUME NEW a \in Nat, NEW b \in Nat, NEW c \in Nat, NEW d \in Nat, NEW e \in Nat
    PROVE  OneOf5(FirstOf(<<a, b, c, d, e>>), a, b, c, d, e)
  <1>1. <<a, b, c, d, e>> \in Seq(Nat) /\ Len(<<a, b, c, d, e>>) = 5
    OBVIOUS
  <1>2. \/ FirstOf(<<a, b, c, d, e>>) = 0 /\ \A n \in 1 .. 5 : <<a, b, c, d, e>>[n] = 0
        \/ \E n \in 1 .. 5 : /\ <<a, b, c, d, e>>[n] > 0
                             /\ FirstOf(<<a, b, c, d, e>>) = <<a, b, c, d, e>>[n]
    BY <1>1, FirstOfIsOne, Zenon
  <1> QED
    BY <1>2 DEF OneOf5

\* Of six.
LEMMA FirstOf6 ==
    ASSUME NEW a \in Nat, NEW b \in Nat, NEW c \in Nat, NEW d \in Nat, NEW e \in Nat,
           NEW f \in Nat
    PROVE  OneOf6(FirstOf(<<a, b, c, d, e, f>>), a, b, c, d, e, f)
  <1>1. <<a, b, c, d, e, f>> \in Seq(Nat) /\ Len(<<a, b, c, d, e, f>>) = 6
    OBVIOUS
  <1>2. \/ FirstOf(<<a, b, c, d, e, f>>) = 0
           /\ \A n \in 1 .. 6 : <<a, b, c, d, e, f>>[n] = 0
        \/ \E n \in 1 .. 6 : /\ <<a, b, c, d, e, f>>[n] > 0
                             /\ FirstOf(<<a, b, c, d, e, f>>) = <<a, b, c, d, e, f>>[n]
    BY <1>1, FirstOfIsOne, Zenon
  <1> QED
    BY <1>2 DEF OneOf6

QuoteMarks == {"sq", "dq"}

\* A match of n characters at i ends with the line at the latest ...
InLine(s, i, n) == n \in 0 .. Len(s) + 1 - i

\* ... and holds no quotes, ...
Calm(s, i, n) == /\ InLine(s, i, n)
                 /\ \A j \in i .. i + n - 1 : s[j] \notin QuoteMarks

\* ... or is what stands between two quotes.
Quotation(s, i, n, q) ==
    /\ InLine(s, i, n) /\ n >= 2
    /\ s[i] = q /\ s[i + n - 1] = q
    /\ \A j \in i + 1 .. i + n - 2 : s[j] # q

\* The characters that a pattern counts are those of the line.
LEMMA NothingBeside ==
    ASSUME NEW s \in Seq(Chars), NEW set, "" \notin set
    PROVE  \A j : At(s, j) \in set => j \in 1 .. Len(s)
  BY AtType, Zenon

\* A character that is one of the line's.
LEMMA OneOfTheLine ==
    ASSUME NEW s \in Seq(Chars), NEW j, NEW c, At(s, j) = c, c # ""
    PROVE  j \in 1 .. Len(s) /\ s[j] = c
  BY AtType, Zenon

\* A span of other characters holds no quotes.
LEMMA SpanCalm ==
    ASSUME NEW s \in Seq(Chars), NEW i \in 1 .. Len(s) + 1, NEW set,
           \A j : At(s, j) \in set => j \in 1 .. Len(s),
           set \cap QuoteMarks = {}
    PROVE  Calm(s, i, Span(s, i, set))
  BY SpanInLine DEF Calm, InLine

\* The empty match holds none.
LEMMA CalmNone ==
    ASSUME NEW s \in Seq(Chars), NEW i \in 1 .. Len(s) + 1
    PROVE  Calm(s, i, 0)
  <1>1. Len(s) \in Nat
    BY SeqIsFunction
  <1> QED
    BY <1>1 DEF Calm, InLine

\* Nor do another character and what holds none.
LEMMA CalmMore ==
    ASSUME NEW s \in Seq(Chars), NEW i \in 1 .. Len(s), s[i] \notin QuoteMarks,
           NEW n, Calm(s, i + 1, n)
    PROVE  Calm(s, i, 1 + n)
  <1>1. Len(s) \in Nat
    BY SeqIsFunction
  <1>2. n \in Nat /\ 1 + n \in 0 .. Len(s) + 1 - i
    BY <1>1 DEF Calm, InLine
  <1>3. ASSUME NEW j \in i .. i + (1 + n) - 1 PROVE s[j] \notin QuoteMarks
    <2>1. j = i \/ j \in i + 1 .. i + 1 + n - 1
      BY <1>1, <1>2
    <2> QED
      BY <2>1, Zenon DEF Calm
  <1> QED
    BY <1>2, <1>3, Zenon DEF Calm, InLine

\* One character.
LEMMA OneCalm ==
    ASSUME NEW s \in Seq(Chars), NEW i \in 1 .. Len(s), s[i] \notin QuoteMarks
    PROVE  Calm(s, i, 1)
  <1>1. Len(s) \in Nat
    BY SeqIsFunction
  <1>2. i + 1 \in 1 .. Len(s) + 1 /\ 1 + 0 = 1
    BY <1>1
  <1>3. Calm(s, i + 1, 0)
    BY <1>2, CalmNone
  <1>4. Calm(s, i, 1 + 0)
    BY <1>3, CalmMore, Zenon
  <1> QED
    BY <1>2, <1>4, Zenon

\* A keyword.
LEMMA KeywordCalm ==
    ASSUME NEW s \in Seq(Chars), NEW i \in 1 .. Len(s)
    PROVE  Calm(s, i, Keyword(s, i))
  <1>1. Len(s) \in Nat
    BY SeqIsFunction
  <1>2. Keyword(s, i) = 0 \/ (Keyword(s, i) = 1 /\ s[i] = "k")
    BY Zenon DEF Keyword
  <1> QED
    BY <1>1, <1>2 DEF Calm, InLine, QuoteMarks

\* What holds no quotes ends with the line.
LEMMA CalmIsInLine ==
    ASSUME NEW s \in Seq(Chars), NEW i \in 1 .. Len(s), NEW n, Calm(s, i, n)
    PROVE  n \in Nat /\ InLine(s, i, n)
  <1>1. Len(s) \in Nat
    BY SeqIsFunction
  <1> QED
    BY <1>1 DEF Calm, InLine

\* So does what stands between brackets.
LEMMA BracesInLine ==
    ASSUME NEW s \in Seq(Chars), NEW i \in 1 .. Len(s), NEW open, NEW close
    PROVE  LET n == Quoted(s, i, open, close) IN
           /\ n \in Nat /\ InLine(s, i, n)
           /\ s[i] # open => n = 0
  <1>1. Len(s) \in Nat
    BY SeqIsFunction
  <1> DEFINE n == Quoted(s, i, open, close)
  <1>2. n = 0 \/ n \in 2 .. Len(s) + 1 - i
    BY QuotedInLine
  <1>3. s[i] # open => n = 0
    BY Zenon DEF Quoted
  <1> HIDE DEF n
  <1>4. n \in Nat /\ InLine(s, i, n)
    BY <1>1, <1>2 DEF InLine
  <1> QED
    BY <1>3, <1>4, Zenon DEF n

\* Two texts without quotes, one after the other.
LEMMA CalmJoined ==
    ASSUME NEW s \in Seq(Chars), NEW i \in 1 .. Len(s) + 1, NEW m, NEW n,
           Calm(s, i, m), Calm(s, i + m, n)
    PROVE  Calm(s, i, m + n)
  <1>1. Len(s) \in Nat
    BY SeqIsFunction
  <1> QED
    BY <1>1 DEF Calm, InLine

\* A number, with its fraction and its unit or without.
LEMMA NumberCalm ==
    ASSUME NEW s \in Seq(Chars), NEW i \in 1 .. Len(s) + 1, NEW parts
    PROVE  Calm(s, i, Number(s, i, parts)) /\ Number(s, i, parts) \in Nat
  <1> DEFINE digits == Span(s, i, {"1"})
             after == Span(s, i + digits + 1, {"1"})
             decimals == IF "fraction" \in parts /\ At(s, i + digits) = "."
                         THEN after ELSE 0
             unit(n) == IF "unit" \in parts THEN Span(s, i + n, {"a", "k"}) ELSE 0
             upTo(n) == IF Boundary(s, i + n + unit(n)) THEN n + unit(n) ELSE 0
             a == IF decimals > 0 THEN upTo(digits + 1 + decimals) ELSE 0
             b == upTo(digits)
  <1>1. Len(s) \in Nat
    BY SeqIsFunction
  <1>2. /\ \A j : At(s, j) \in {"1"} => j \in 1 .. Len(s)
        /\ \A j : At(s, j) \in {"a", "k"} => j \in 1 .. Len(s)
    <2>1. "" \notin {"1"} /\ "" \notin {"a", "k"}
      BY Zenon
    <2> QED
      BY <2>1, NothingBeside, Zenon
  <1>3. {"1"} \cap QuoteMarks = {} /\ {"a", "k"} \cap QuoteMarks = {} /\ "." \notin QuoteMarks
    BY Zenon DEF QuoteMarks
  <1>4. Calm(s, i, digits)
    BY <1>2, <1>3, SpanCalm, Zenon
  <1>5. \A j \in 1 .. Len(s) + 1 : Calm(s, j, 0)
    BY CalmNone, Zenon
  <1>6. \A n : i + n \in 1 .. Len(s) + 1 => Calm(s, i + n, unit(n))
    BY <1>2, <1>3, <1>5, SpanCalm, Zenon
  <1>7. \A n : upTo(n) \in {0, n + unit(n)}
    BY Zenon
  <1>8. \/ Number(s, i, parts) = 0
        \/ Number(s, i, parts) = FirstOf(<<a, b>>)
    BY Zenon DEF Number
  <1> HIDE DEF digits, after, unit, upTo
  <1>9. digits \in Nat /\ i + digits \in 1 .. Len(s) + 1
    BY <1>1, <1>4 DEF Calm, InLine
  <1>10. \A n : Calm(s, i, n) => Calm(s, i, upTo(n)) /\ upTo(n) \in Nat
    <2> SUFFICES ASSUME NEW n, Calm(s, i, n) PROVE Calm(s, i, upTo(n)) /\ upTo(n) \in Nat
      OBVIOUS
    <2>1. i + n \in 1 .. Len(s) + 1 /\ n \in Nat
      BY <1>1 DEF Calm, InLine
    <2>2. Calm(s, i + n, unit(n))
      BY <1>6, <2>1, Zenon
    <2>3. Calm(s, i, n + unit(n))
      BY <2>2, CalmJoined, Zenon
    <2>4. n + unit(n) \in Nat
      BY <1>1, <2>3 DEF Calm, InLine
    <2> QED
      BY <1>5, <1>7, <2>3, <2>4
  <1>11. Calm(s, i, b) /\ b \in Nat
    BY <1>4, <1>10, Zenon
  <1>12. Calm(s, i, a) /\ a \in Nat
    <2>1. CASE ~(decimals > 0)
      BY <1>5, <2>1
    <2>2. CASE decimals > 0
      <3>1. decimals = after /\ At(s, i + digits) = "."
        <4>1. ~(0 > 0)
          OBVIOUS
        <4> QED
          BY <2>2, <4>1, Zenon
      <3>2. "." # ""
        BY Zenon
      <3>3. i + digits \in 1 .. Len(s) /\ s[i + digits] = "."
        BY <3>1, <3>2, OneOfTheLine, Zenon
      <3>4. s[i + digits] = "."
        BY <3>3, Zenon
      <3>5. (i + digits) + 1 \in 1 .. Len(s) + 1
        BY <1>1, <3>3
      <3>6. Calm(s, (i + digits) + 1, after)
        BY <1>2, <1>3, <3>5, SpanCalm, Zenon DEF after
      <3>7. Calm(s, i + digits, 1 + after)
        BY <1>3, <3>3, <3>4, <3>6, CalmMore, Zenon
      <3>8. Calm(s, i, digits + (1 + after))
        BY <1>4, <3>7, CalmJoined, Zenon
      <3>9. digits + (1 + after) = (digits + 1) + decimals
        <4>1. after \in Nat
          BY <1>1, <3>5, <3>6 DEF Calm, InLine
        <4> HIDE DEF decimals
        <4> QED
          BY <1>9, <3>1, <4>1
      <3> HIDE DEF decimals
      <3> QED
        BY <1>10, <2>2, <3>8, <3>9, Zenon
    <2> QED
      BY <2>1, <2>2, Zenon
  <1> HIDE DEF a, b
  <1>13. FirstOf(<<a, b>>) \in {0, a, b}
    BY <1>11, <1>12, FirstOf2, Zenon
  <1>14. 0 \in Nat
    OBVIOUS
  <1> QED
    BY <1>5, <1>8, <1>11, <1>12, <1>13, <1>14, Zenon

\* A variable of the shell, unless it is in braces.
LEMMA VariableCalm ==
    ASSUME NEW s \in Seq(Chars), NEW i \in 1 .. Len(s)
    PROVE  /\ Variable(s, i) \in Nat /\ InLine(s, i, Variable(s, i))
           /\ At(s, i + 1) # "{" => Calm(s, i, Variable(s, i))
  <1> DEFINE name == Span(s, i + 1, {"a", "1"})
             braces == Quoted(s, i + 1, "{", "}")
  <1>1. Len(s) \in Nat /\ i + 1 \in 1 .. Len(s) + 1 /\ i \in 1 .. Len(s) + 1
    BY SeqIsFunction
  <1>2. \A j : At(s, j) \in {"a", "1"} => j \in 1 .. Len(s)
    <2>1. "" \notin {"a", "1"}
      BY Zenon
    <2> QED
      BY <2>1, NothingBeside, Zenon
  <1>3. Calm(s, i + 1, name)
    <2>1. {"a", "1"} \cap QuoteMarks = {}
      BY Zenon DEF QuoteMarks
    <2> QED
      BY <1>1, <1>2, <2>1, SpanCalm, Zenon
  <1>4. \/ Variable(s, i) = 0
        \/ Variable(s, i) = 1 + name /\ s[i] = "$"
        \/ Variable(s, i) = 1 + braces /\ At(s, i + 1) = "{"
    BY Zenon DEF Variable
  <1>5. "$" \notin QuoteMarks
    BY Zenon DEF QuoteMarks
  <1>6. CASE Variable(s, i) = 0
    <2>1. Calm(s, i, 0)
      BY <1>1, CalmNone, Zenon
    <2> QED
      BY <1>6, <2>1, CalmIsInLine, Zenon
  <1>7. CASE Variable(s, i) = 1 + name /\ s[i] = "$"
    <2> HIDE DEF name
    <2>1. Calm(s, i, 1 + name)
      BY <1>3, <1>5, <1>7, CalmMore, Zenon
    <2> QED
      BY <1>7, <2>1, CalmIsInLine, Zenon
  <1>8. CASE Variable(s, i) = 1 + braces /\ At(s, i + 1) = "{"
    <2>1. "{" # ""
      BY Zenon
    <2>2. i + 1 \in 1 .. Len(s)
      BY <1>8, <2>1, OneOfTheLine, Zenon
    <2>3. braces \in Nat /\ InLine(s, i + 1, braces)
      BY <2>2, BracesInLine, Zenon
    <2> HIDE DEF braces
    <2>4. 1 + braces \in Nat /\ InLine(s, i, 1 + braces)
      BY <1>1, <2>3 DEF InLine
    <2> QED
      BY <1>8, <2>4, Zenon
  <1> QED
    BY <1>4, <1>6, <1>7, <1>8, Zenon

\* An option of the shell.
LEMMA FlagCalm ==
    ASSUME NEW s \in Seq(Chars), NEW i \in 1 .. Len(s)
    PROVE  Calm(s, i, Flag(s, i))
  <1> DEFINE word == {"a", "1", "-"}
             name(dashes) == Span(s, i + dashes, word)
  <1>1. Len(s) \in Nat
    BY SeqIsFunction
  <1>2. \A j : At(s, j) \in word => j \in 1 .. Len(s)
    <2>1. "" \notin word
      BY Zenon
    <2> QED
      BY <2>1, NothingBeside, Zenon
  <1>3. word \cap QuoteMarks = {} /\ "-" \in word /\ "a" \in word
    BY Zenon DEF QuoteMarks
  <1>4. \/ Flag(s, i) = 0
        \/ Flag(s, i) = 1 + name(1) /\ s[i] = "-" /\ At(s, i + 1) = "a"
        \/ Flag(s, i) = 2 + name(2) /\ s[i] = "-" /\ At(s, i + 1) = "-" /\ At(s, i + 2) = "a"
    BY Zenon DEF Flag
  <1>5. \A d : i + d \in 1 .. Len(s) + 1 => Calm(s, i + d, name(d))
    BY <1>2, <1>3, SpanCalm, Zenon
  <1> HIDE DEF name, word
  <1>6. CASE Flag(s, i) = 0
    BY <1>1, <1>6 DEF Calm, InLine
  <1>7. CASE Flag(s, i) = 1 + name(1) /\ s[i] = "-" /\ At(s, i + 1) = "a"
    <2>1. i + 1 \in 1 .. Len(s) + 1
      BY <1>1
    <2>2. Calm(s, i + 1, name(1))
      BY <1>5, <2>1
    <2> QED
      BY <1>1, <1>7, <2>2 DEF Calm, InLine, QuoteMarks
  <1>8. CASE /\ Flag(s, i) = 2 + name(2) /\ s[i] = "-"
             /\ At(s, i + 1) = "-" /\ At(s, i + 2) = "a"
    <2>1. i + 1 \in 1 .. Len(s)
      BY <1>2, <1>3, <1>8, Zenon
    <2>2. s[i + 1] = "-" /\ "-" \notin QuoteMarks
      BY <1>8, <2>1, AtType, Zenon DEF QuoteMarks
    <2>3. i + 2 \in 1 .. Len(s) + 1 /\ (i + 1) + 1 = i + 2
      BY <1>1, <2>1
    <2>4. Calm(s, i + 2, name(2))
      BY <1>5, <2>3
    <2>5. Calm(s, i + 1, 1 + name(2))
      BY <2>1, <2>2, <2>3, <2>4, CalmMore
    <2>6. Calm(s, i, 1 + (1 + name(2)))
      BY <1>8, <2>2, <2>5, CalmMore, Zenon
    <2>7. 1 + (1 + name(2)) = 2 + name(2)
      BY <2>4 DEF Calm, InLine
    <2> QED
      BY <1>8, <2>6, <2>7, Zenon
  <1> QED
    BY <1>4, <1>6, <1>7, <1>8, Zenon

\* An operator of the shell.
LEMMA OperatorCalm ==
    ASSUME NEW s \in Seq(Chars), NEW i \in 1 .. Len(s)
    PROVE  Calm(s, i, Operator(s, i))
  <1> DEFINE n == Operator(s, i)
  <1>1. Len(s) \in Nat /\ i \in 1 .. Len(s) + 1 /\ 1 + 1 = 2
    BY SeqIsFunction
  <1>2. \/ n = 0 \/ (s[i] \in {"|", ">"} /\ n = 1)
        \/ (s[i] \in {"|", "&"} /\ At(s, i + 1) = s[i] /\ n = 2)
    BY Zenon DEF Operator
  <1>3. \A c \in {"|", "&"} : c # ""
    BY Zenon
  <1>4. \A c \in {"|", "&", ">"} : c \notin QuoteMarks
    BY Zenon DEF QuoteMarks
  <1>5. Calm(s, i, n)
    <2> HIDE DEF n
    <2>1. CASE n = 0
      BY <1>1, <2>1, CalmNone, Zenon
    <2>2. CASE s[i] \in {"|", ">"} /\ n = 1
      BY <1>4, <2>2, OneCalm, Zenon
    <2>3. CASE s[i] \in {"|", "&"} /\ At(s, i + 1) = s[i] /\ n = 2
      <3>1. At(s, i + 1) = s[i] /\ s[i] # ""
        BY <1>3, <2>3, Zenon
      <3>2. i + 1 \in 1 .. Len(s) /\ s[i + 1] = s[i]
        BY <3>1, OneOfTheLine, Zenon
      <3>3. s[i + 1] = s[i] /\ s[i] \notin QuoteMarks
        BY <1>4, <2>3, <3>2, Zenon
      <3>4. Calm(s, i + 1, 1)
        BY <3>2, <3>3, OneCalm, Zenon
      <3>5. Calm(s, i, 1 + 1)
        BY <3>3, <3>4, CalmMore, Zenon
      <3> QED
        BY <1>1, <2>3, <3>5, Zenon
    <2> QED
      BY <1>2, <2>1, <2>2, <2>3, Zenon
  <1> QED
    BY <1>5, Zenon

\* A sign and a number.
LEMMA NegativeCalm ==
    ASSUME NEW s \in Seq(Chars), NEW i \in 1 .. Len(s), NEW parts
    PROVE  Calm(s, i, IF s[i] = "-" /\ Number(s, i + 1, parts) > 0
                      THEN 1 + Number(s, i + 1, parts) ELSE 0)
  <1> DEFINE number == Number(s, i + 1, parts)
             n == IF s[i] = "-" /\ number > 0 THEN 1 + number ELSE 0
  <1>1. Len(s) \in Nat /\ i \in 1 .. Len(s) + 1 /\ i + 1 \in 1 .. Len(s) + 1
    BY SeqIsFunction
  <1>2. n = 0 \/ (s[i] = "-" /\ n = 1 + number)
    BY Zenon
  <1>3. Calm(s, i + 1, number)
    BY <1>1, NumberCalm, Zenon
  <1>4. "-" \notin QuoteMarks
    BY Zenon DEF QuoteMarks
  <1> HIDE DEF number
  <1>5. Calm(s, i, n)
    <2> HIDE DEF n
    <2>1. CASE n = 0
      BY <1>1, <2>1, CalmNone, Zenon
    <2>2. CASE s[i] = "-" /\ n = 1 + number
      <3>1. Calm(s, i, 1 + number)
        BY <1>3, <1>4, <2>2, CalmMore, Zenon
      <3> QED
        BY <2>2, <3>1, Zenon
    <2> QED
      BY <1>2, <2>1, <2>2, Zenon
  <1> QED
    BY <1>5, Zenon DEF number

\* The punctuation of JSON.
LEMMA PunctuationCalm ==
    ASSUME NEW s \in Seq(Chars), NEW i \in 1 .. Len(s)
    PROVE  Calm(s, i, IF s[i] \in {"{", ":"} THEN 1 ELSE 0)
  <1> DEFINE n == IF s[i] \in {"{", ":"} THEN 1 ELSE 0
  <1>1. Len(s) \in Nat /\ i \in 1 .. Len(s) + 1
    BY SeqIsFunction
  <1>2. n = 0 \/ (s[i] \notin QuoteMarks /\ n = 1)
    BY Zenon DEF QuoteMarks
  <1>3. Calm(s, i, n)
    <2> HIDE DEF n
    <2> QED
      BY <1>1, <1>2, CalmNone, OneCalm, Zenon
  <1> QED
    BY <1>3, Zenon

\* What a match may be: text without quotes, or a quotation; text without quotes
\* that begins with a quote is no match, of a quote that is not closed.
Matched(s, i, n, marks) ==
    \/ \E q \in marks : Quotation(s, i, n, q)
    \/ Calm(s, i, n) /\ \A q \in marks : s[i] = q => \A j \in i + 1 .. Len(s) : s[j] # q

\* A quotation in the quote that begins it.
LEMMA QuotedMatched ==
    ASSUME NEW s \in Seq(Chars), NEW i \in 1 .. Len(s), NEW q
    PROVE  LET n == Quoted(s, i, q, q) IN
           /\ n \in Nat /\ InLine(s, i, n)
           /\ n # 0 => Quotation(s, i, n, q)
           /\ n = 0 /\ s[i] = q => \A j \in i + 1 .. Len(s) : s[j] # q
  <1>1. Len(s) \in Nat
    BY SeqIsFunction
  <1> DEFINE n == Quoted(s, i, q, q)
  <1>2. /\ n = 0 \/ (/\ n \in 2 .. Len(s) + 1 - i
                     /\ s[i] = q /\ s[i + n - 1] = q
                     /\ \A j \in i + 1 .. i + n - 2 : s[j] # q)
        /\ n = 0 /\ s[i] = q => \A j \in i + 1 .. Len(s) : s[j] # q
    BY QuotedInLine
  <1> HIDE DEF n
  <1>3. /\ n \in Nat /\ InLine(s, i, n)
        /\ n # 0 => Quotation(s, i, n, q)
    BY <1>1, <1>2 DEF InLine, Quotation
  <1> QED
    BY <1>2, <1>3, Zenon DEF n

\* A string of JSON ends with the line; where nothing is escaped, it is a
\* quotation like those of the others.
LEMMA EscapableMatched ==
    ASSUME NEW s \in Seq(Chars), NEW i \in 1 .. Len(s)
    PROVE  LET n == Escapable(s, i) IN
           /\ n \in Nat /\ InLine(s, i, n)
           /\ (\A j \in 1 .. Len(s) : s[j] # "bs")
                => /\ n # 0 => Quotation(s, i, n, "dq")
                   /\ n = 0 /\ s[i] = "dq" => \A j \in i + 1 .. Len(s) : s[j] # "dq"
  <1> DEFINE others(j) == {k \in i .. j - 1 : s[k] # "bs"}
             slashes(j) == j - 1 - Max(others(j))
             ends == {j \in i + 1 .. Len(s) : s[j] = "dq" /\ slashes(j) % 2 = 0}
             closing == {j \in i + 1 .. Len(s) : s[j] = "dq"}
             n == Escapable(s, i)
  <1>1. Len(s) \in Nat
    BY SeqIsFunction
  <1>2. n = IF s[i] # "dq" \/ ends = {} THEN 0 ELSE Min(ends) - i + 1
    BY DEF Escapable
  <1>3. Quoted(s, i, "dq", "dq") = IF s[i] # "dq" \/ closing = {} THEN 0 ELSE Min(closing) - i + 1
    BY DEF Quoted
  <1>4. n \in Nat /\ InLine(s, i, n)
    <2>1. ends \in SUBSET (i + 1 .. Len(s))
      BY Zenon
    <2> HIDE DEF ends, n
    <2>2. CASE ends = {} \/ s[i] # "dq"
      BY <1>1, <1>2, <2>2 DEF InLine
    <2>3. CASE ends # {} /\ s[i] = "dq"
      <3>1. ends \in SUBSET Nat
        BY <1>1, <2>1
      <3>2. Min(ends) \in ends
        BY <2>3, <3>1, MinIsLeast, Zenon
      <3>3. Min(ends) \in i + 1 .. Len(s)
        BY <2>1, <3>2, Zenon
      <3>4. n = Min(ends) - i + 1
        BY <1>2, <2>3, Zenon
      <3> QED
        BY <1>1, <3>3, <3>4 DEF InLine
    <2> QED
      BY <2>2, <2>3, Zenon
  <1>5. ASSUME \A j \in 1 .. Len(s) : s[j] # "bs" PROVE n = Quoted(s, i, "dq", "dq")
    <2>1. ASSUME NEW j \in i + 1 .. Len(s) PROVE slashes(j) % 2 = 0
      <3>1. others(j) = i .. j - 1
        BY <1>1, <1>5
      <3>2. j - 1 \in Int /\ j - 1 >= i /\ j - 1 <= Len(s) /\ i >= 1
        BY <1>1
      <3> DEFINE T == i .. j - 1
      <3>3. T \in SUBSET (0 .. Len(s)) /\ T # {} /\ j - 1 \in T
        <4>1. j - 1 \in T
          BY <3>2
        <4>2. \A x \in T : x \in 0 .. Len(s)
          BY <1>1, <3>2
        <4> QED
          BY <4>1, <4>2, Zenon
      <3> HIDE DEF T
      <3>4. Max(T) \in T /\ \A y \in T : y <= Max(T)
        BY <1>1, <3>3, MaxIsGreatest, Zenon
      <3>5. Max(T) = j - 1
        BY <3>2, <3>3, <3>4 DEF T
      <3>6. slashes(j) = (j - 1) - (j - 1)
        BY <3>1, <3>5, Zenon DEF T
      <3>7. slashes(j) = 0
        BY <3>2, <3>6
      <3> QED
        BY <3>7
    <2>2. ends = closing
      BY <2>1, Zenon
    <2> HIDE DEF ends, closing, n
    <2> QED
      BY <1>2, <1>3, <2>2, Zenon
  <1> HIDE DEF n
  <1> QED
    BY <1>4, <1>5, QuotedMatched, Zenon DEF n

\* Text without quotes is no part of a quotation.
LEMMA CalmMatched ==
    ASSUME NEW s \in Seq(Chars), NEW i \in 1 .. Len(s), NEW n \in Nat, n # 0,
           Calm(s, i, n), NEW marks \in SUBSET QuoteMarks
    PROVE  Matched(s, i, n, marks)
  <1>1. s[i] \notin QuoteMarks
    BY DEF Calm
  <1> QED
    BY <1>1, Zenon DEF Matched

\* The matches of the patterns of YAML.
LEMMA YamlMatch ==
    ASSUME NEW s \in Seq(Chars), NEW i \in 1 .. Len(s)
    PROVE  LET n == MatchAt("yaml", s, i) IN
           InLine(s, i, n) /\ ("{" # s[i] /\ "[" # s[i] => Matched(s, i, n, QuoteMarks))
  <1> DEFINE a == Quoted(s, i, "dq", "dq")
             b == Quoted(s, i, "sq", "sq")
             c == Quoted(s, i, "{", "}")
             d == Quoted(s, i, "[", "]")
             e == Keyword(s, i)
             f == Number(s, i, {"fraction", "unit"})
             n == FirstOf(<<a, b, c, d, e, f>>)
  <1>1. MatchAt("yaml", s, i) = n
    BY Zenon DEF MatchAt
  <1>2. /\ a \in Nat /\ InLine(s, i, a) /\ (a # 0 => Quotation(s, i, a, "dq"))
        /\ a = 0 /\ s[i] = "dq" => \A j \in i + 1 .. Len(s) : s[j] # "dq"
    BY QuotedMatched
  <1>3. /\ b \in Nat /\ InLine(s, i, b) /\ (b # 0 => Quotation(s, i, b, "sq"))
        /\ b = 0 /\ s[i] = "sq" => \A j \in i + 1 .. Len(s) : s[j] # "sq"
    BY QuotedMatched
  <1>4. c \in Nat /\ InLine(s, i, c) /\ ("{" # s[i] => c = 0)
    BY BracesInLine, Zenon
  <1>5. d \in Nat /\ InLine(s, i, d) /\ ("[" # s[i] => d = 0)
    BY BracesInLine, Zenon
  <1>6. /\ e \in Nat /\ InLine(s, i, e) /\ Calm(s, i, e)
        /\ f \in Nat /\ InLine(s, i, f) /\ Calm(s, i, f)
    <2>1. i \in 1 .. Len(s) + 1
      BY SeqIsFunction
    <2>2. Calm(s, i, e)
      BY KeywordCalm, Zenon
    <2>3. Calm(s, i, f)
      BY <2>1, NumberCalm, Zenon
    <2> QED
      BY <2>2, <2>3, CalmIsInLine, Zenon
  <1> HIDE DEF a, b, c, d, e, f
  <1>7. /\ n \in {a, b, c, d, e, f}
        /\ n = 0 => a = 0 /\ b = 0 /\ c = 0 /\ d = 0 /\ e = 0 /\ f = 0
    <2>1. a \in Nat /\ b \in Nat /\ c \in Nat /\ d \in Nat /\ e \in Nat /\ f \in Nat
      BY <1>2, <1>3, <1>4, <1>5, <1>6, Zenon
    <2>2. OneOf6(n, a, b, c, d, e, f)
      BY <2>1, FirstOf6, Zenon
    <2> HIDE DEF n
    <2> QED
      BY <2>2, Zenon DEF OneOf6
  <1> HIDE DEF n
  <1>8. Calm(s, i, 0) /\ InLine(s, i, n)
    <2>1. Len(s) \in Nat
      BY SeqIsFunction
    <2>2. i \in 1 .. Len(s) + 1
      BY <2>1
    <2> QED
      BY <1>2, <1>3, <1>4, <1>5, <1>6, <1>7, <2>2, CalmNone, Zenon
  <1>9. ASSUME "{" # s[i], "[" # s[i] PROVE Matched(s, i, n, QuoteMarks)
    <2>1. CASE n = 0
      BY <1>2, <1>3, <1>7, <1>8, <2>1, Zenon DEF Matched, QuoteMarks
    <2>2. CASE n # 0 /\ n = a
      BY <1>2, <2>2, Zenon DEF Matched, QuoteMarks
    <2>3. CASE n # 0 /\ n = b
      BY <1>3, <2>3, Zenon DEF Matched, QuoteMarks
    <2>4. CASE n # 0 /\ (n = e \/ n = f)
      <3>1. Calm(s, i, n) /\ n \in Nat
        BY <1>6, <2>4, Zenon
      <3> QED
        BY <2>4, <3>1, CalmMatched, Zenon
    <2> QED
      BY <1>4, <1>5, <1>7, <1>9, <2>1, <2>2, <2>3, <2>4, Zenon
  <1> QED
    BY <1>1, <1>8, <1>9, Zenon

\* Those of the shell.
LEMMA BashMatch ==
    ASSUME NEW s \in Seq(Chars), NEW i \in 1 .. Len(s)
    PROVE  LET n == MatchAt("bash", s, i) IN
           InLine(s, i, n) /\ (At(s, i + 1) # "{" => Matched(s, i, n, QuoteMarks))
  <1> DEFINE a == Quoted(s, i, "dq", "dq")
             b == Quoted(s, i, "sq", "sq")
             c == Variable(s, i)
             d == Flag(s, i)
             e == Operator(s, i)
             f == Number(s, i, {})
             n == FirstOf(<<a, b, c, d, e, f>>)
  <1>1. MatchAt("bash", s, i) = n
    BY Zenon DEF MatchAt
  <1>2. /\ a \in Nat /\ InLine(s, i, a) /\ (a # 0 => Quotation(s, i, a, "dq"))
        /\ a = 0 /\ s[i] = "dq" => \A j \in i + 1 .. Len(s) : s[j] # "dq"
    BY QuotedMatched
  <1>3. /\ b \in Nat /\ InLine(s, i, b) /\ (b # 0 => Quotation(s, i, b, "sq"))
        /\ b = 0 /\ s[i] = "sq" => \A j \in i + 1 .. Len(s) : s[j] # "sq"
    BY QuotedMatched
  <1>4. /\ c \in Nat /\ InLine(s, i, c) /\ (At(s, i + 1) # "{" => Calm(s, i, c))
        /\ Calm(s, i, d) /\ Calm(s, i, e) /\ Calm(s, i, f)
    <2>1. c \in Nat /\ InLine(s, i, c) /\ (At(s, i + 1) # "{" => Calm(s, i, c))
      BY VariableCalm, Zenon
    <2>5. i \in 1 .. Len(s) + 1
      BY SeqIsFunction
    <2>2. Calm(s, i, d)
      BY FlagCalm, Zenon
    <2>3. Calm(s, i, e)
      BY OperatorCalm, Zenon
    <2>4. Calm(s, i, f)
      BY <2>5, NumberCalm, Zenon
    <2> QED
      BY <2>1, <2>2, <2>3, <2>4, Zenon
  <1> HIDE DEF a, b, c, d, e, f
  <1>5. /\ c \in Nat /\ d \in Nat /\ e \in Nat /\ f \in Nat
        /\ InLine(s, i, c) /\ InLine(s, i, d) /\ InLine(s, i, e) /\ InLine(s, i, f)
    BY <1>4, CalmIsInLine, Zenon
  <1>6. /\ n \in {a, b, c, d, e, f}
        /\ n = 0 => a = 0 /\ b = 0 /\ c = 0 /\ d = 0 /\ e = 0 /\ f = 0
    <2>1. a \in Nat /\ b \in Nat /\ c \in Nat /\ d \in Nat /\ e \in Nat /\ f \in Nat
      BY <1>2, <1>3, <1>5, Zenon
    <2>2. OneOf6(n, a, b, c, d, e, f)
      BY <2>1, FirstOf6, Zenon
    <2> HIDE DEF n
    <2> QED
      BY <2>2, Zenon DEF OneOf6
  <1> HIDE DEF n
  <1>7. InLine(s, i, n)
    BY <1>2, <1>3, <1>5, <1>6, Zenon
  <1>8. ASSUME At(s, i + 1) # "{" PROVE Matched(s, i, n, QuoteMarks)
    <2>1. CASE n = 0
      BY <1>2, <1>3, <1>4, <1>6, <1>8, <2>1, Zenon DEF Matched, QuoteMarks
    <2>2. CASE n # 0 /\ n = a
      BY <1>2, <2>2, Zenon DEF Matched, QuoteMarks
    <2>3. CASE n # 0 /\ n = b
      BY <1>3, <2>3, Zenon DEF Matched, QuoteMarks
    <2>4. CASE n # 0 /\ n \in {c, d, e, f}
      <3>1. Calm(s, i, n) /\ n \in Nat
        BY <1>4, <1>5, <1>8, <2>4, Zenon
      <3> QED
        BY <2>4, <3>1, CalmMatched, Zenon
    <2> QED
      BY <1>6, <2>1, <2>2, <2>3, <2>4, Zenon
  <1> QED
    BY <1>1, <1>7, <1>8, Zenon

\* Those of JSON, which knows one kind of quote.
LEMMA JsonMatch ==
    ASSUME NEW s \in Seq(Chars), NEW i \in 1 .. Len(s)
    PROVE  LET n == MatchAt("json", s, i) IN
           InLine(s, i, n) /\ ((\A j \in 1 .. Len(s) : s[j] # "bs") => Matched(s, i, n, {"dq"}))
  <1> DEFINE a == Escapable(s, i)
             b == Keyword(s, i)
             c == Number(s, i, {"fraction"})
             d == IF s[i] = "-" /\ Number(s, i + 1, {"fraction"}) > 0
                  THEN 1 + Number(s, i + 1, {"fraction"}) ELSE 0
             e == IF s[i] \in {"{", ":"} THEN 1 ELSE 0
             n == FirstOf(<<a, b, c, d, e>>)
  <1>1. MatchAt("json", s, i) = n
    BY Zenon DEF MatchAt
  <1>2. /\ a \in Nat /\ InLine(s, i, a)
        /\ (\A j \in 1 .. Len(s) : s[j] # "bs")
             => /\ a # 0 => Quotation(s, i, a, "dq")
                /\ a = 0 /\ s[i] = "dq" => \A j \in i + 1 .. Len(s) : s[j] # "dq"
    BY EscapableMatched, Zenon
  <1>3. Calm(s, i, b) /\ Calm(s, i, c) /\ Calm(s, i, d) /\ Calm(s, i, e)
    <2>1. Calm(s, i, b)
      BY KeywordCalm, Zenon
    <2>5. i \in 1 .. Len(s) + 1
      BY SeqIsFunction
    <2>2. Calm(s, i, c)
      BY <2>5, NumberCalm, Zenon
    <2>3. Calm(s, i, d)
      BY NegativeCalm, Zenon
    <2>4. Calm(s, i, e)
      BY PunctuationCalm, Zenon
    <2> QED
      BY <2>1, <2>2, <2>3, <2>4, Zenon
  <1> HIDE DEF a, b, c, d, e
  <1>4. /\ b \in Nat /\ c \in Nat /\ d \in Nat /\ e \in Nat
        /\ InLine(s, i, b) /\ InLine(s, i, c) /\ InLine(s, i, d) /\ InLine(s, i, e)
    BY <1>3, CalmIsInLine, Zenon
  <1>5. /\ n \in {a, b, c, d, e}
        /\ n = 0 => a = 0 /\ b = 0 /\ c = 0 /\ d = 0 /\ e = 0
    <2>1. a \in Nat /\ b \in Nat /\ c \in Nat /\ d \in Nat /\ e \in Nat
      BY <1>2, <1>4, Zenon
    <2>2. OneOf5(n, a, b, c, d, e)
      BY <2>1, FirstOf5, Zenon
    <2> HIDE DEF n
    <2> QED
      BY <2>2, Zenon DEF OneOf5
  <1> HIDE DEF n
  <1>6. InLine(s, i, n)
    BY <1>2, <1>4, <1>5, Zenon
  <1>7. ASSUME \A j \in 1 .. Len(s) : s[j] # "bs" PROVE Matched(s, i, n, {"dq"})
    <2>1. CASE n = 0
      BY <1>2, <1>3, <1>5, <1>7, <2>1, Zenon DEF Matched
    <2>2. CASE n # 0 /\ n = a
      BY <1>2, <1>7, <2>2, Zenon DEF Matched
    <2>3. CASE n # 0 /\ n \in {b, c, d, e}
      <3>1. Calm(s, i, n) /\ n \in Nat
        BY <1>3, <1>4, <2>3, Zenon
      <3>2. {"dq"} \in SUBSET QuoteMarks
        BY Zenon DEF QuoteMarks
      <3> QED
        BY <2>3, <3>1, <3>2, CalmMatched, Zenon
    <2> QED
      BY <1>5, <2>1, <2>2, <2>3, Zenon
  <1> QED
    BY <1>1, <1>6, <1>7, Zenon

\* Those of Go.
LEMMA GoMatch ==
    ASSUME NEW s \in Seq(Chars), NEW i \in 1 .. Len(s)
    PROVE  InLine(s, i, MatchAt("go", s, i)) /\ InLine(s, i, MatchAt("gowords", s, i))
  <1> DEFINE a == Quoted(s, i, "dq", "dq")
             b == Quoted(s, i, "bq", "bq")
             c == Quoted(s, i, "sq", "sq")
  <1>1. MatchAt("go", s, i) = FirstOf(<<a, b, c>>)
    BY Zenon DEF MatchAt
  <1>2. MatchAt("gowords", s, i) = Keyword(s, i)
    BY Zenon DEF MatchAt
  <1>3. /\ a \in Nat /\ InLine(s, i, a)
        /\ b \in Nat /\ InLine(s, i, b)
        /\ c \in Nat /\ InLine(s, i, c)
    BY BracesInLine
  <1> HIDE DEF a, b, c
  <1>4. FirstOf(<<a, b, c>>) \in {a, b, c}
    BY <1>3, FirstOf3
  <1>5. InLine(s, i, Keyword(s, i))
    BY KeywordCalm, CalmIsInLine, Zenon
  <1> QED
    BY <1>1, <1>2, <1>3, <1>4, <1>5, Zenon

\* A match ends with the line at the latest.
LEMMA MatchInLine ==
    ASSUME NEW s \in Seq(Chars), NEW i \in 1 .. Len(s),
           NEW language \in {"yaml", "bash", "json", "go", "gowords"}
    PROVE  InLine(s, i, MatchAt(language, s, i))
  BY YamlMatch, BashMatch, JsonMatch, GoMatch, Zenon

-----------------------------------------------------------------------------
(* Tokens.                                                                 *)

TokenTypes == {"plain", "string", "punct", "keyword", "number", "flag", "key",
               "command", "comment"}

TokenSet == [text : Seq(Chars), type : TokenTypes]

TextOf == [t \in TokenSet |-> t.text]

\* A token is one.
LEMMA TokenType ==
    ASSUME NEW text \in Seq(Chars), NEW type \in TokenTypes
    PROVE  Token(text, type) \in TokenSet /\ Token(text, type).text = text
  BY Zenon DEF Token, TokenSet

\* The type of a match is one of them.
LEMMA TypeOfType ==
    ASSUME NEW language, NEW text
    PROVE  TypeOf(language, text) \in TokenTypes
  BY DEF TypeOf, TokenTypes

\* The text of a token is text.
LEMMA TextOfType == Gives(TextOf, TokenSet, Seq(Chars))
  BY Zenon DEF Gives, TextOf, TokenSet

\* What is shown of tokens is their texts, joined.
LEMMA RenderedIsMap ==
    ASSUME NEW tokens \in Seq(TokenSet)
    PROVE  Rendered(tokens) = FlatMap(tokens, TextOf)
  <1>1. \A i \in DOMAIN tokens : tokens[i] \in TokenSet
    BY SeqIsFunction, Zenon
  <1>2. \A i \in DOMAIN tokens : TextOf[tokens[i]] = tokens[i].text
    BY <1>1, Zenon DEF TextOf
  <1>3. [i \in DOMAIN tokens |-> tokens[i].text] = Mapped(tokens, TextOf)
    BY <1>2, Zenon DEF Mapped
  <1> QED
    BY <1>3, Zenon DEF Rendered, FlatMap

\* What is shown of tokens is text.
LEMMA RenderedType ==
    ASSUME NEW tokens \in Seq(TokenSet)
    PROVE  Rendered(tokens) \in Seq(Chars)
  BY RenderedIsMap, TextOfType, FlatMapType, Zenon

\* Tokens one after the other show their texts one after the other.
LEMMA RenderedConcat ==
    ASSUME NEW a \in Seq(TokenSet), NEW b \in Seq(TokenSet)
    PROVE  a \o b \in Seq(TokenSet) /\ Rendered(a \o b) = Rendered(a) \o Rendered(b)
  <1>1. a \o b \in Seq(TokenSet)
    OBVIOUS
  <1>2. /\ Rendered(a) = FlatMap(a, TextOf) /\ Rendered(b) = FlatMap(b, TextOf)
        /\ Rendered(a \o b) = FlatMap(a \o b, TextOf)
    BY <1>1, RenderedIsMap, Zenon
  <1>3. FlatMap(a \o b, TextOf) = FlatMap(a, TextOf) \o FlatMap(b, TextOf)
    BY TextOfType, FlatMapConcat
  <1> QED
    BY <1>1, <1>2, <1>3, Zenon

\* One token shows its text.
LEMMA RenderedOne ==
    ASSUME NEW t \in TokenSet
    PROVE  <<t>> \in Seq(TokenSet) /\ Rendered(<<t>>) = t.text
  <1>1. <<t>> \in Seq(TokenSet)
    OBVIOUS
  <1>2. Rendered(<<t>>) = FlatMap(<<t>>, TextOf)
    BY <1>1, RenderedIsMap, Zenon
  <1>3. FlatMap(<<t>>, TextOf) = TextOf[t]
    BY TextOfType, FlatMapOne, Zenon
  <1>4. TextOf[t] = t.text
    BY Zenon DEF TextOf
  <1> QED
    BY <1>1, <1>2, <1>3, <1>4, Zenon

\* No tokens show nothing.
LEMMA RenderedEmpty == <<>> \in Seq(TokenSet) /\ Rendered(<<>>) = <<>>
  <1>1. <<>> \in Seq(TokenSet)
    OBVIOUS
  <1>2. Rendered(<<>>) = FlatMap(<<>>, TextOf)
    BY <1>1, RenderedIsMap, Zenon
  <1>3. FlatMap(<<>>, TextOf) = <<>>
    BY TextOfType, FlatMapOne, Zenon
  <1> QED
    BY <1>1, <1>2, <1>3, Zenon

\* Plain text is shown as it is.
LEMMA PlainShows ==
    ASSUME NEW text \in Seq(Chars)
    PROVE  Plain(text) \in Seq(TokenSet) /\ Rendered(Plain(text)) = text
  <1>1. CASE text = <<>>
    <2>1. Plain(text) = <<>>
      BY <1>1, Zenon DEF Plain
    <2> QED
      BY <1>1, <2>1, RenderedEmpty, Zenon
  <1>2. CASE text # <<>>
    <2> DEFINE t == Token(text, "plain")
    <2>1. Plain(text) = <<t>>
      BY <1>2, Zenon DEF Plain
    <2>3. "plain" \in TokenTypes
      BY DEF TokenTypes
    <2>2. t \in TokenSet /\ t.text = text
      BY <2>3, TokenType, Zenon
    <2> HIDE DEF t
    <2> QED
      BY <2>1, <2>2, RenderedOne, Zenon
  <1> QED
    BY <1>1, <1>2, Zenon

\* A token made of a text shows it.
LEMMA TokenShows ==
    ASSUME NEW text \in Seq(Chars), NEW type \in TokenTypes
    PROVE  /\ <<Token(text, type)>> \in Seq(TokenSet)
           /\ Rendered(<<Token(text, type)>>) = text
  <1> DEFINE t == Token(text, type)
  <1>1. t \in TokenSet /\ t.text = text
    BY TokenType, Zenon
  <1> HIDE DEF t
  <1>2. <<t>> \in Seq(TokenSet) /\ Rendered(<<t>>) = t.text
    BY <1>1, RenderedOne, Zenon
  <1> QED
    BY <1>1, <1>2, Zenon DEF t

-----------------------------------------------------------------------------
(* The loop over the matches.                                              *)

\* A text is the part of it up to a place and the rest.
LEMMA SubSeqSplit ==
    ASSUME NEW S, NEW s \in Seq(S), NEW i \in Int, NEW k \in Int, NEW m \in Int,
           1 <= i, i <= k, k <= m + 1, m <= Len(s)
    PROVE  /\ SubSeq(s, i, k - 1) \in Seq(S) /\ SubSeq(s, k, m) \in Seq(S)
           /\ SubSeq(s, i, k - 1) \o SubSeq(s, k, m) = SubSeq(s, i, m)
           /\ Len(SubSeq(s, i, k - 1)) = k - i
  OBVIOUS

\* A part of a sequence and the rest of it.
LEMMA SubSeqRest ==
    ASSUME NEW S, NEW s \in Seq(S), NEW i \in 1 .. Len(s) + 1, NEW k \in i .. Len(s) + 1
    PROVE  SubSeq(s, i, k - 1) \o SubSeq(s, k, Len(s)) = SubSeq(s, i, Len(s))
  <1> DEFINE m == Len(s)
  <1>1. /\ i \in Int /\ k \in Int /\ m \in Int
        /\ 1 <= i /\ i <= k /\ k <= m + 1 /\ m <= Len(s)
    BY SeqIsFunction
  <1> HIDE DEF m
  <1>2. SubSeq(s, i, k - 1) \o SubSeq(s, k, m) = SubSeq(s, i, m)
    BY <1>1, SubSeqSplit
  <1> QED
    BY <1>2, Zenon DEF m

\* A pair is two sequences of one element.
LEMMA TwoElements ==
    ASSUME NEW a, NEW b
    PROVE  <<a>> \o <<b>> = <<a, b>>
  <1> DEFINE T == {a, b}
             u == <<a>> \o <<b>>
  <1>1. <<a>> \in Seq(T) /\ <<b>> \in Seq(T) /\ Len(<<a>>) = 1 /\ Len(<<b>>) = 1
    OBVIOUS
  <1>2. u \in Seq(T) /\ Len(u) = 2 /\ u[1] = a /\ u[2] = b
    BY <1>1
  <1> HIDE DEF u
  <1>3. u = <<a, b>>
    BY <1>2
  <1> QED
    BY <1>3, Zenon DEF u

\* The whole of a sequence is one of its parts.
LEMMA SubSeqAll ==
    ASSUME NEW S, NEW s \in Seq(S)
    PROVE  SubSeq(s, 1, Len(s)) = s
  OBVIOUS

\* All matches end with the line at the latest.
Fits(s, length) == \A j \in 1 .. Len(s) : InLine(s, j, length[j])

\* From i on there is no match, or one that starts here, with this text, ...
NoMatch(s, length, i) == \A j \in i .. Len(s) : length[j] = 0

StartAt(s, length, i) == Min({j \in i .. Len(s) : length[j] > 0})

TextAt(s, length, j) == SubSeq(s, j, j + length[j] - 1)

\* ... up to there.
After(s, length, i) == StartAt(s, length, i) + length[StartAt(s, length, i)]

HeadAt(language, s, length, i) ==
    LET text == TextAt(s, length, StartAt(s, length, i)) IN
    Plain(SubSeq(s, i, StartAt(s, length, i) - 1))
    \o <<Token(text, TypeOf(language, text))>>

\* The tokens from each position on.
ScanOf(language, s, length) ==
    CHOOSE f : f = [i \in 1 .. Len(s) + 1 |->
                      IF NoMatch(s, length, i) THEN Plain(SubSeq(s, i, Len(s)))
                      ELSE HeadAt(language, s, length, i) \o f[After(s, length, i)]]

\* The loop of the model is this function.
LEMMA TokensIsScan ==
    ASSUME NEW language, NEW s, NEW length
    PROVE  Tokens(language, s, length) = ScanOf(language, s, length)[1]
  BY Zenon DEF Tokens, ScanOf, NoMatch, StartAt, TextAt, After, HeadAt

\* The next match is the first one, and the loop goes on after it.
LEMMA StartFound ==
    ASSUME NEW s \in Seq(Chars), NEW length, Fits(s, length),
           NEW i \in 1 .. Len(s) + 1, ~NoMatch(s, length, i)
    PROVE  LET j == StartAt(s, length, i) IN
           /\ j \in i .. Len(s) /\ length[j] \in 1 .. Len(s) + 1 - j
           /\ \A k \in i .. j - 1 : length[k] = 0
           /\ After(s, length, i) \in i + 1 .. Len(s) + 1
  <1> DEFINE found == {j \in i .. Len(s) : length[j] > 0}
             j == Min(found)
  <1>1. Len(s) \in Nat
    BY SeqIsFunction
  <1>2. \A k \in i .. Len(s) : length[k] \in 0 .. Len(s) + 1 - k
    BY <1>1 DEF Fits, InLine
  <1>3. found \in SUBSET Nat /\ found # {}
    BY <1>1, <1>2 DEF NoMatch
  <1>4. j \in found /\ \A k \in found : j <= k
    <2> HIDE DEF found
    <2> QED
      BY <1>3, MinIsLeast, Zenon
  <1>5. StartAt(s, length, i) = j /\ After(s, length, i) = j + length[j]
    BY Zenon DEF StartAt, After
  <1> HIDE DEF j
  <1>6. j \in i .. Len(s) /\ length[j] \in 1 .. Len(s) + 1 - j
    BY <1>1, <1>2, <1>4
  <1>7. ASSUME NEW k \in i .. j - 1 PROVE length[k] = 0
    <2>1. k \in i .. Len(s) /\ ~ (j <= k)
      BY <1>1, <1>6
    <2> QED
      BY <1>2, <1>4, <2>1
  <1>8. j + length[j] \in i + 1 .. Len(s) + 1
    BY <1>1, <1>6
  <1> QED
    BY <1>5, <1>6, <1>7, <1>8, Zenon

\* What holds where no match follows, and at i if it holds after the next match,
\* holds everywhere.
LEMMA ScanInduction ==
    ASSUME NEW s \in Seq(Chars), NEW length, Fits(s, length), NEW P,
           \A i \in 1 .. Len(s) + 1 :
              (NoMatch(s, length, i) \/ After(s, length, i) \in P) => i \in P
    PROVE  1 .. Len(s) + 1 \subseteq P
  <1> DEFINE n == Len(s) + 1
             next == [i \in 1 .. n |-> IF NoMatch(s, length, i) THEN 0
                                       ELSE After(s, length, i)]
  <1>1. n \in Nat
    BY SeqIsFunction
  <1>2. ASSUME NEW i \in 1 .. n PROVE next[i] # 0 => next[i] \in i + 1 .. n
    <2>1. ~NoMatch(s, length, i) => After(s, length, i) \in i + 1 .. n
      BY StartFound, Zenon
    <2> QED
      BY <2>1, Zenon
  <1>3. ASSUME NEW i \in 1 .. n, next[i] = 0 \/ next[i] \in P PROVE i \in P
    <2>1. ~NoMatch(s, length, i) => After(s, length, i) \in i + 1 .. n
      BY StartFound, Zenon
    <2>2. ~NoMatch(s, length, i) => After(s, length, i) # 0
      BY <2>1
    <2>3. NoMatch(s, length, i) \/ After(s, length, i) \in P
      BY <1>3, <2>2, Zenon
    <2> QED
      BY <2>3, Zenon
  <1> HIDE DEF n, next
  <1>4. 1 .. n \subseteq P
    BY <1>1, <1>2, <1>3, ChainInduction, Zenon
  <1> QED
    BY <1>4, Zenon DEF n

\* The tokens from i on are those of the next match and the ones after it.
LEMMA ScanEquation ==
    ASSUME NEW language, NEW s \in Seq(Chars), NEW length, Fits(s, length)
    PROVE  \A i \in 1 .. Len(s) + 1 :
             ScanOf(language, s, length)[i] =
               IF NoMatch(s, length, i) THEN Plain(SubSeq(s, i, Len(s)))
               ELSE HeadAt(language, s, length, i)
                    \o ScanOf(language, s, length)[After(s, length, i)]
  <1> DEFINE n == Len(s) + 1
             none(i) == NoMatch(s, length, i)
             after(i) == After(s, length, i)
             start(i) == HeadAt(language, s, length, i)
             rest(i) == Plain(SubSeq(s, i, Len(s)))
             next == [i \in 1 .. n |-> IF none(i) THEN 0 ELSE after(i)]
             head == [i \in 1 .. n |-> start(i)]
             base == [i \in 1 .. n |-> rest(i)]
             G(f, i) == IF none(i) THEN rest(i) ELSE start(i) \o f[after(i)]
             scan == ScanOf(language, s, length)
  <1>1. n \in Nat
    BY SeqIsFunction
  <1>2. ASSUME NEW i \in 1 .. n
        PROVE  /\ ~none(i) => after(i) \in i + 1 .. n
               /\ ~none(i) => after(i) # 0
    <2>1. ~none(i) => after(i) \in i + 1 .. n
      BY StartFound, Zenon
    <2>2. ~none(i) => after(i) # 0
      BY <2>1
    <2> QED
      BY <2>1, <2>2, Zenon
  <1>3. scan = CHOOSE f : f = [i \in 1 .. n |-> G(f, i)]
    BY Zenon DEF ScanOf
  <1> HIDE DEF n, none, after, start, rest, scan
  <1>4. ASSUME NEW i \in 1 .. n
        PROVE  /\ next[i] # 0 => next[i] \in i + 1 .. n
               /\ next[i] = 0 <=> none(i)
               /\ ~none(i) => next[i] = after(i)
    BY <1>2, Zenon
  <1>5. ASSUME NEW f, NEW i \in 1 .. n
        PROVE  G(f, i) = IF next[i] = 0 THEN base[i] ELSE head[i] \o f[next[i]]
    BY <1>4, Zenon
  <1> HIDE DEF next, head, base, G
  <1>6. PICK f : IsChain(f, n, base, head, next)
    BY <1>1, <1>4, ChainFunction, Zenon
  <1>7. f = [i \in 1 .. n |-> G(f, i)]
    BY <1>5, <1>6, Zenon DEF IsChain
  <1>8. scan = [i \in 1 .. n |-> G(scan, i)]
    BY <1>3, <1>7, Zenon
  <1>9. \A i \in 1 .. n : scan[i] = G(scan, i)
    BY <1>8, Zenon
  <1> QED
    BY <1>9, Zenon DEF n, none, after, start, rest, scan, G

\* The text before the next match and that match are a part of the line.
LEMMA HeadShows ==
    ASSUME NEW language, NEW s \in Seq(Chars), NEW length, Fits(s, length),
           NEW i \in 1 .. Len(s) + 1, ~NoMatch(s, length, i)
    PROVE  /\ HeadAt(language, s, length, i) \in Seq(TokenSet)
           /\ Rendered(HeadAt(language, s, length, i))
                = SubSeq(s, i, After(s, length, i) - 1)
  <1> DEFINE j == StartAt(s, length, i)
             k == After(s, length, i)
             before == SubSeq(s, i, j - 1)
             text == SubSeq(s, j, j + length[j] - 1)
             token == <<Token(text, TypeOf(language, text))>>
  <1>1. /\ j \in i .. Len(s) /\ length[j] \in 1 .. Len(s) + 1 - j
        /\ k \in i + 1 .. Len(s) + 1 /\ k = j + length[j]
    BY StartFound, Zenon DEF After
  <1>2. HeadAt(language, s, length, i) = Plain(before) \o token
    BY Zenon DEF HeadAt, TextAt
  <1>3. /\ before \in Seq(Chars) /\ text \in Seq(Chars)
        /\ before \o text = SubSeq(s, i, k - 1)
    <2>1. Len(s) \in Nat
      BY SeqIsFunction
    <2> DEFINE m == k - 1
    <2> HIDE DEF j, k
    <2>2. /\ i \in Int /\ j \in Int /\ m \in Int /\ j + length[j] - 1 = m
          /\ 1 <= i /\ i <= j /\ j <= m + 1 /\ m <= Len(s)
      BY <1>1, <2>1
    <2>3. before \o text = before \o SubSeq(s, j, m) /\ text = SubSeq(s, j, m)
      BY <2>2, Zenon
    <2> HIDE DEF m
    <2>4. /\ SubSeq(s, i, j - 1) \in Seq(Chars) /\ SubSeq(s, j, m) \in Seq(Chars)
          /\ SubSeq(s, i, j - 1) \o SubSeq(s, j, m) = SubSeq(s, i, m)
      BY <2>2
    <2> QED
      BY <2>3, <2>4, Zenon DEF m
  <1>4. Plain(before) \in Seq(TokenSet) /\ Rendered(Plain(before)) = before
    BY <1>3, PlainShows, Zenon
  <1>5. token \in Seq(TokenSet) /\ Rendered(token) = text
    BY <1>3, TypeOfType, TokenShows, Zenon
  <1> HIDE DEF token
  <1>6. /\ Plain(before) \o token \in Seq(TokenSet)
        /\ Rendered(Plain(before) \o token) = Rendered(Plain(before)) \o Rendered(token)
    BY <1>4, <1>5, RenderedConcat, Zenon
  <1> QED
    BY <1>2, <1>3, <1>4, <1>5, <1>6, Zenon

\* The tokens from i on show the line from i on.
LEMMA ScanShows ==
    ASSUME NEW language, NEW s \in Seq(Chars), NEW length, Fits(s, length)
    PROVE  \A i \in 1 .. Len(s) + 1 :
             /\ ScanOf(language, s, length)[i] \in Seq(TokenSet)
             /\ Rendered(ScanOf(language, s, length)[i]) = SubSeq(s, i, Len(s))
  <1> DEFINE scan == ScanOf(language, s, length)
             after(i) == After(s, length, i)
             P == {i \in 1 .. Len(s) + 1 : /\ scan[i] \in Seq(TokenSet)
                                           /\ Rendered(scan[i]) = SubSeq(s, i, Len(s))}
  <1>1. Len(s) \in Nat
    BY SeqIsFunction
  <1>2. ASSUME NEW i \in 1 .. Len(s) + 1,
               NoMatch(s, length, i) \/ after(i) \in P
        PROVE  /\ scan[i] \in Seq(TokenSet)
               /\ Rendered(scan[i]) = SubSeq(s, i, Len(s))
    <2>1. CASE NoMatch(s, length, i)
      <3>1. scan[i] = Plain(SubSeq(s, i, Len(s)))
        BY <2>1, ScanEquation, Zenon
      <3>2. SubSeq(s, i, Len(s)) \in Seq(Chars)
        BY <1>1
      <3> QED
        BY <3>1, <3>2, PlainShows, Zenon
    <2>2. CASE ~NoMatch(s, length, i)
      <3> DEFINE head == HeadAt(language, s, length, i)
                 k == after(i)
      <3>1. scan[i] = head \o scan[k]
        BY <2>2, ScanEquation, Zenon
      <3>2. /\ head \in Seq(TokenSet) /\ Rendered(head) = SubSeq(s, i, k - 1)
            /\ k \in i + 1 .. Len(s) + 1
        BY <2>2, HeadShows, StartFound, Zenon
      <3>3. scan[k] \in Seq(TokenSet) /\ Rendered(scan[k]) = SubSeq(s, k, Len(s))
        BY <1>2, <2>2, Zenon
      <3> HIDE DEF head, k, scan
      <3>4. /\ head \o scan[k] \in Seq(TokenSet)
            /\ Rendered(head \o scan[k]) = Rendered(head) \o Rendered(scan[k])
        BY <3>2, <3>3, RenderedConcat, Zenon
      <3>5. SubSeq(s, i, k - 1) \o SubSeq(s, k, Len(s)) = SubSeq(s, i, Len(s))
        <4>1. k \in i .. Len(s) + 1
          BY <1>1, <3>2
        <4> QED
          BY <4>1, SubSeqRest, Zenon
      <3> QED
        BY <3>1, <3>2, <3>3, <3>4, <3>5, Zenon
    <2> QED
      BY <2>1, <2>2, Zenon
  <1>3. \A i \in 1 .. Len(s) + 1 : (NoMatch(s, length, i) \/ after(i) \in P) => i \in P
    BY <1>2, Zenon
  <1>4. 1 .. Len(s) + 1 \subseteq P
    <2> HIDE DEF P
    <2> QED
      BY <1>3, ScanInduction, Zenon
  <1> QED
    BY <1>4, Zenon

PatternLanguages == {"yaml", "bash", "json", "go", "gowords"}

MatchesOf(language, s) == [j \in DOMAIN s |-> MatchAt(language, s, j)]

\* The matches of every language fit into its lines.
LEMMA MatchesFit ==
    ASSUME NEW s \in Seq(Chars), NEW language \in PatternLanguages
    PROVE  /\ Fits(s, MatchesOf(language, s))
           /\ \A j \in 1 .. Len(s) : MatchesOf(language, s)[j] = MatchAt(language, s, j)
  <1>1. DOMAIN s = 1 .. Len(s)
    BY SeqIsFunction, Zenon
  <1>2. \A j \in 1 .. Len(s) : MatchesOf(language, s)[j] = MatchAt(language, s, j)
    BY <1>1, Zenon DEF MatchesOf
  <1>3. \A j \in 1 .. Len(s) : InLine(s, j, MatchAt(language, s, j))
    BY MatchInLine, Zenon DEF PatternLanguages
  <1> QED
    BY <1>2, <1>3, Zenon DEF Fits

\* Whatever the patterns of a language match, Scan shows the line.
LEMMA ScanIsTheLine ==
    ASSUME NEW s \in Seq(Chars), NEW language \in PatternLanguages
    PROVE  Scan(language, s) \in Seq(TokenSet) /\ Rendered(Scan(language, s)) = s
  <1> DEFINE length == MatchesOf(language, s)
  <1>1. Scan(language, s) = ScanOf(language, s, length)[1]
    BY TokensIsScan, Zenon DEF Scan, MatchesOf
  <1>2. Fits(s, length)
    BY MatchesFit, Zenon
  <1>3. 1 \in 1 .. Len(s) + 1
    <2>1. Len(s) \in Nat
      BY SeqIsFunction
    <2> QED
      BY <2>1
  <1> HIDE DEF length
  <1>4. /\ ScanOf(language, s, length)[1] \in Seq(TokenSet)
        /\ Rendered(ScanOf(language, s, length)[1]) = SubSeq(s, 1, Len(s))
    BY <1>2, <1>3, ScanShows, Zenon
  <1> QED
    BY <1>1, <1>4, SubSeqAll

-----------------------------------------------------------------------------
(* The languages.                                                          *)

\* The tokens show the line from position i up to k.
Part(tokens, s, i, k) ==
    /\ k \in 1 .. Len(s) + 1 /\ i \in 1 .. k
    /\ tokens \in Seq(TokenSet) /\ Rendered(tokens) = SubSeq(s, i, k - 1)

\* Tokens of adjacent parts show both.
LEMMA PartConcat ==
    ASSUME NEW s \in Seq(Chars), NEW a, NEW b, NEW i, NEW j, NEW k,
           Part(a, s, i, j), Part(b, s, j, k)
    PROVE  Part(a \o b, s, i, k)
  <1> DEFINE m == k - 1
  <1>1. Len(s) \in Nat
    BY SeqIsFunction
  <1>2. /\ a \in Seq(TokenSet) /\ b \in Seq(TokenSet)
        /\ Rendered(a) = SubSeq(s, i, j - 1) /\ Rendered(b) = SubSeq(s, j, m)
        /\ k \in 1 .. Len(s) + 1 /\ i \in 1 .. j /\ j \in 1 .. k
    BY Zenon DEF Part
  <1>3. /\ i \in Int /\ j \in Int /\ m \in Int
        /\ 1 <= i /\ i <= j /\ j <= m + 1 /\ m <= Len(s) /\ i \in 1 .. k
    BY <1>1, <1>2
  <1>4. a \o b \in Seq(TokenSet) /\ Rendered(a \o b) = Rendered(a) \o Rendered(b)
    BY <1>2, RenderedConcat, Zenon
  <1> HIDE DEF m
  <1>5. SubSeq(s, i, j - 1) \o SubSeq(s, j, m) = SubSeq(s, i, m)
    BY <1>3, SubSeqSplit
  <1> QED
    BY <1>2, <1>3, <1>4, <1>5, Zenon DEF Part, m

\* One token, or plain text, shows the part that it is made of.
LEMMA PartText ==
    ASSUME NEW s \in Seq(Chars), NEW k \in 1 .. Len(s) + 1, NEW i \in 1 .. k
    PROVE  /\ Part(Plain(SubSeq(s, i, k - 1)), s, i, k)
           /\ \A type \in TokenTypes :
                Part(<<Token(SubSeq(s, i, k - 1), type)>>, s, i, k)
  <1>1. Len(s) \in Nat
    BY SeqIsFunction
  <1>2. SubSeq(s, i, k - 1) \in Seq(Chars)
    BY <1>1
  <1>3. /\ Plain(SubSeq(s, i, k - 1)) \in Seq(TokenSet)
        /\ Rendered(Plain(SubSeq(s, i, k - 1))) = SubSeq(s, i, k - 1)
    BY <1>2, PlainShows, Zenon
  <1>4. ASSUME NEW type \in TokenTypes
        PROVE  Part(<<Token(SubSeq(s, i, k - 1), type)>>, s, i, k)
    BY <1>2, TokenShows, Zenon DEF Part
  <1> QED
    BY <1>3, <1>4, Zenon DEF Part

\* One character.
LEMMA PartChar ==
    ASSUME NEW s \in Seq(Chars), NEW i \in 1 .. Len(s), NEW type \in TokenTypes
    PROVE  Part(<<Token(<<s[i]>>, type)>>, s, i, i + 1)
  <1>1. Len(s) \in Nat
    BY SeqIsFunction
  <1>2. i + 1 \in 1 .. Len(s) + 1 /\ i \in 1 .. i + 1 /\ (i + 1) - 1 = i
    BY <1>1
  <1>3. SubSeq(s, i, i) = <<s[i]>>
    <2> DEFINE u == SubSeq(s, i, i)
    <2>1. i \in Nat /\ i <= i /\ i \in 1 .. Len(s)
      BY <1>1
    <2>2. u \in Seq(Chars) /\ Len(u) = 1 /\ u[1] = s[i]
      BY <2>1
    <2> HIDE DEF u
    <2>3. u = <<s[i]>>
      BY <2>2
    <2> QED
      BY <2>3, Zenon DEF u
  <1>4. Part(<<Token(SubSeq(s, i, (i + 1) - 1), type)>>, s, i, i + 1)
    BY <1>2, PartText
  <1> QED
    BY <1>2, <1>3, <1>4, Zenon

\* The scan of the rest of a line.
LEMMA PartScan ==
    ASSUME NEW s \in Seq(Chars), NEW i \in 1 .. Len(s) + 1,
           NEW language \in PatternLanguages
    PROVE  Part(Scan(language, SubSeq(s, i, Len(s))), s, i, Len(s) + 1)
  <1>1. Len(s) \in Nat
    BY SeqIsFunction
  <1>2. SubSeq(s, i, Len(s)) \in Seq(Chars)
    BY <1>1
  <1>3. /\ (Len(s) + 1) - 1 = Len(s)
        /\ Len(s) + 1 \in 1 .. Len(s) + 1
    BY <1>1
  <1>4. /\ Scan(language, SubSeq(s, i, Len(s))) \in Seq(TokenSet)
        /\ Rendered(Scan(language, SubSeq(s, i, Len(s)))) = SubSeq(s, i, Len(s))
    BY <1>2, ScanIsTheLine, Zenon
  <1> QED
    BY <1>3, <1>4, Zenon DEF Part

\* Tokens that show the part from the first character to the last show the line.
LEMMA PartWhole ==
    ASSUME NEW s \in Seq(Chars), NEW tokens
    PROVE  Part(tokens, s, 1, Len(s) + 1)
             <=> tokens \in Seq(TokenSet) /\ Rendered(tokens) = s
  <1>1. Len(s) \in Nat
    BY SeqIsFunction
  <1>2. /\ (Len(s) + 1) - 1 = Len(s) /\ 1 \in 1 .. Len(s) + 1
        /\ Len(s) + 1 \in 1 .. Len(s) + 1
    BY <1>1
  <1>3. SubSeq(s, 1, Len(s)) = s
    BY SubSeqAll
  <1> QED
    BY <1>2, <1>3, Zenon DEF Part

\* White space ends with the line at the latest.
LEMMA SpacesInLine ==
    ASSUME NEW s \in Seq(Chars), NEW i \in 1 .. Len(s) + 1
    PROVE  /\ Span(s, i, {" "}) \in 0 .. Len(s) + 1 - i
           /\ \A j \in i .. i + Span(s, i, {" "}) - 1 : s[j] = " "
  <1>1. \A j : At(s, j) \in {" "} => j \in 1 .. Len(s)
    <2>1. "" \notin {" "}
      BY Zenon
    <2> QED
      BY <2>1, NothingBeside, Zenon
  <1>2. /\ Span(s, i, {" "}) \in 0 .. Len(s) + 1 - i
        /\ \A j \in i .. i + Span(s, i, {" "}) - 1 : s[j] \in {" "}
    BY <1>1, SpanInLine, Zenon
  <1> QED
    BY <1>2, Zenon

\* White space and the scan of what follows show the rest of a line.
LEMMA PartRest ==
    ASSUME NEW s \in Seq(Chars), NEW i \in 1 .. Len(s) + 1, NEW a, Part(a, s, 1, i)
    PROVE  LET rest == i + Span(s, i, {" "})
               tokens == a \o Plain(SubSeq(s, i, rest - 1))
                         \o Scan("yaml", SubSeq(s, rest, Len(s)))
           IN tokens \in Seq(TokenSet) /\ Rendered(tokens) = s
  <1> DEFINE spaces == Span(s, i, {" "})
             rest == i + spaces
  <1>1. Len(s) \in Nat
    BY SeqIsFunction
  <1>2. spaces \in 0 .. Len(s) + 1 - i
    BY SpacesInLine, Zenon
  <1> HIDE DEF spaces
  <1>3. rest \in 1 .. Len(s) + 1 /\ i \in 1 .. rest
    BY <1>1, <1>2
  <1> HIDE DEF rest
  <1>4. Part(Plain(SubSeq(s, i, rest - 1)), s, i, rest)
    BY <1>3, PartText, Zenon
  <1>5. Part(Scan("yaml", SubSeq(s, rest, Len(s))), s, rest, Len(s) + 1)
    <2>1. "yaml" \in PatternLanguages
      BY DEF PatternLanguages
    <2> QED
      BY <1>3, <2>1, PartScan, Zenon
  <1>6. Part(a \o Plain(SubSeq(s, i, rest - 1)), s, 1, rest)
    BY <1>4, PartConcat, Zenon
  <1>7. Part(a \o Plain(SubSeq(s, i, rest - 1)) \o Scan("yaml", SubSeq(s, rest, Len(s))),
             s, 1, Len(s) + 1)
    BY <1>5, <1>6, PartConcat, Zenon
  <1> QED
    BY <1>7, PartWhole, Zenon DEF rest, spaces

\* The tokens of a line of YAML show it.
LEMMA YamlShows ==
    ASSUME NEW s \in Seq(Chars)
    PROVE  tokenizeYaml(s) \in Seq(TokenSet) /\ Rendered(tokenizeYaml(s)) = s
  <1> DEFINE indent == Span(s, 1, {" "})
             key == Span(s, indent + 1, {"a", "k", "1", "-", "."})
             colon == indent + key + 1
             rest(i) == i + Span(s, i, {" "})
             space(i) == Plain(SubSeq(s, i, rest(i) - 1))
             from(i) == Scan("yaml", SubSeq(s, rest(i), Len(s)))
             first == Plain(SubSeq(s, 1, indent))
             name == Token(SubSeq(s, indent + 1, colon - 1), "key")
             mark == Token(<<":">>, "punct")
             dash == Token(<<"-">>, "punct")
  <1>1. \/ /\ key > 0 /\ At(s, colon) = ":"
           /\ tokenizeYaml(s)
                = first \o <<name, mark>> \o space(colon + 1) \o from(colon + 1)
        \/ /\ At(s, indent + 1) = "-"
           /\ tokenizeYaml(s)
                = first \o <<dash>> \o space(indent + 2) \o from(indent + 2)
        \/ tokenizeYaml(s) = Scan("yaml", s)
    BY Zenon DEF tokenizeYaml
  <1>2. Len(s) \in Nat /\ 1 \in 1 .. Len(s) + 1 /\ "key" \in TokenTypes /\ "punct" \in TokenTypes
    BY SeqIsFunction DEF TokenTypes
  <1>3. indent \in 0 .. Len(s)
    <2>1. indent \in 0 .. Len(s) + 1 - 1
      BY <1>2, SpacesInLine, Zenon
    <2> HIDE DEF indent
    <2> QED
      BY <1>2, <2>1
  <1> HIDE DEF indent
  <1>4. key \in 0 .. Len(s) - indent
    <2>1. \A j : At(s, j) \in {"a", "k", "1", "-", "."} => j \in 1 .. Len(s)
      <3>1. "" \notin {"a", "k", "1", "-", "."}
        BY Zenon
      <3> QED
        BY <3>1, NothingBeside, Zenon
    <2>2. indent + 1 \in 1 .. Len(s) + 1
      BY <1>2, <1>3
    <2>3. key \in 0 .. Len(s) + 1 - (indent + 1)
      BY <2>1, <2>2, SpanInLine, Zenon
    <2> HIDE DEF key
    <2> QED
      BY <1>2, <1>3, <2>3
  <1> HIDE DEF key
  <1>5. Part(first, s, 1, indent + 1)
    <2>1. indent + 1 \in 1 .. Len(s) + 1 /\ 1 \in 1 .. indent + 1 /\ (indent + 1) - 1 = indent
      BY <1>2, <1>3
    <2>2. Part(Plain(SubSeq(s, 1, (indent + 1) - 1)), s, 1, indent + 1)
      BY <2>1, PartText
    <2> QED
      BY <2>1, <2>2, Zenon
  <1>6. CASE /\ key > 0 /\ At(s, colon) = ":"
             /\ tokenizeYaml(s)
                  = first \o <<name, mark>> \o space(colon + 1) \o from(colon + 1)
    <2>1. colon \in 1 .. Len(s) /\ s[colon] = ":"
      <3>1. \A j : At(s, j) \in {":"} => j \in 1 .. Len(s)
        <4>1. "" \notin {":"}
          BY Zenon
        <4> QED
          BY <4>1, NothingBeside, Zenon
      <3>2. At(s, colon) = ":"
        BY <1>6, Zenon
      <3> HIDE DEF colon
      <3>3. colon \in 1 .. Len(s)
        BY <3>1, <3>2
      <3> QED
        BY <3>2, <3>3, AtType, Zenon
    <2>2. /\ indent + 1 \in 1 .. colon /\ colon \in 1 .. Len(s) + 1
          /\ colon + 1 \in 1 .. Len(s) + 1
      BY <1>2, <1>3, <1>4, <2>1
    <2> HIDE DEF colon, first
    <2>3. Part(<<name>>, s, indent + 1, colon)
      BY <1>2, <2>2, PartText, Zenon
    <2>4. Part(<<mark>>, s, colon, colon + 1)
      BY <1>2, <2>1, PartChar, Zenon
    <2> HIDE DEF name, mark
    <2>5. Part(<<name, mark>>, s, indent + 1, colon + 1)
      <3>1. <<name>> \o <<mark>> = <<name, mark>>
        BY TwoElements, Zenon
      <3>2. Part(<<name>> \o <<mark>>, s, indent + 1, colon + 1)
        BY <2>3, <2>4, PartConcat, Zenon
      <3> QED
        BY <3>1, <3>2, Zenon
    <2>6. Part(first \o <<name, mark>>, s, 1, colon + 1)
      BY <1>5, <2>5, PartConcat, Zenon
    <2> DEFINE a == first \o <<name, mark>>
               i == colon + 1
    <2>7. /\ Part(a, s, 1, i) /\ i \in 1 .. Len(s) + 1
          /\ tokenizeYaml(s) = a \o space(i) \o from(i)
      BY <1>6, <2>2, <2>6, Zenon
    <2> HIDE DEF a, i
    <2>8. a \o space(i) \o from(i) \in Seq(TokenSet) /\ Rendered(a \o space(i) \o from(i)) = s
      BY <2>7, PartRest, Zenon
    <2> QED
      BY <2>7, <2>8, Zenon
  <1>7. CASE /\ At(s, indent + 1) = "-"
             /\ tokenizeYaml(s)
                  = first \o <<dash>> \o space(indent + 2) \o from(indent + 2)
    <2> DEFINE at == indent + 1
               i == indent + 2
               a == first \o <<dash>>
    <2>1. at \in 1 .. Len(s) /\ s[at] = "-"
      <3>1. \A j : At(s, j) \in {"-"} => j \in 1 .. Len(s)
        <4>1. "" \notin {"-"}
          BY Zenon
        <4> QED
          BY <4>1, NothingBeside, Zenon
      <3>3. At(s, at) = "-"
        BY <1>7, Zenon
      <3> HIDE DEF at
      <3>2. at \in 1 .. Len(s)
        BY <3>1, <3>3
      <3> QED
        BY <3>2, <3>3, AtType, Zenon
    <2>2. i \in 1 .. Len(s) + 1 /\ at + 1 = i
      BY <1>2, <1>3, <2>1
    <2> HIDE DEF first, i
    <2>3. Part(<<dash>>, s, at, i)
      BY <1>2, <2>1, <2>2, PartChar, Zenon
    <2> HIDE DEF dash
    <2>4. Part(a, s, 1, i)
      BY <1>5, <2>3, PartConcat, Zenon
    <2>5. tokenizeYaml(s) = a \o space(i) \o from(i)
      BY <1>7, Zenon DEF i
    <2> HIDE DEF a
    <2>6. a \o space(i) \o from(i) \in Seq(TokenSet) /\ Rendered(a \o space(i) \o from(i)) = s
      BY <2>2, <2>4, PartRest, Zenon
    <2> QED
      BY <2>5, <2>6, Zenon
  <1>8. CASE tokenizeYaml(s) = Scan("yaml", s)
    <2>1. "yaml" \in PatternLanguages
      BY DEF PatternLanguages
    <2> QED
      BY <1>8, <2>1, ScanIsTheLine, Zenon
  <1> QED
    BY <1>1, <1>6, <1>7, <1>8, Zenon

\* Without white space, texts one after the other are so too.
LEMMA NoSpaceConcat ==
    ASSUME NEW a \in Seq(Chars), NEW b \in Seq(Chars)
    PROVE  /\ NoSpace(a \o b) = NoSpace(a) \o NoSpace(b)
           /\ NoSpace(a) \in Seq(Chars) /\ a \o b \in Seq(Chars)
  <1> DEFINE blank == {" "}
             T == Chars \ blank
  <1>1. NoSpace(a) = Without(a, blank) /\ NoSpace(b) = Without(b, blank)
        /\ NoSpace(a \o b) = Without(a \o b, blank)
    BY Zenon DEF NoSpace
  <1> HIDE DEF blank
  <1>2. Without(a \o b, blank) = Without(a, blank) \o Without(b, blank)
    BY WithoutConcat
  <1>3. Without(a, blank) \in Seq(T)
    BY WithoutType, Zenon
  <1>4. T \subseteq Chars
    BY Zenon
  <1> HIDE DEF T
  <1>5. Without(a, blank) \in Seq(Chars)
    BY <1>3, <1>4
  <1>6. a \o b \in Seq(Chars)
    OBVIOUS
  <1> QED
    BY <1>1, <1>2, <1>5, <1>6, Zenon

\* A sequence of elements of a set is one over that set.
LEMMA SeqOfOthers ==
    ASSUME NEW S, NEW T, NEW u \in Seq(S), \A i \in 1 .. Len(u) : u[i] \in T
    PROVE  u \in Seq(T)
  OBVIOUS

\* Nothing but the empty sequence has no elements.
LEMMA SeqOfNothing ==
    ASSUME NEW T, T = {}, NEW w \in Seq(T)
    PROVE  w = <<>>
  <1>1. Len(w) \in Nat /\ \A i \in 1 .. Len(w) : w[i] \in T
    BY SeqIsFunction
  <1>2. Len(w) = 0
    <2>1. Len(w) # 0 => 1 \in 1 .. Len(w)
      BY <1>1
    <2> QED
      BY <1>1, <2>1, Zenon
  <1> QED
    BY <1>2

\* Nothing is left of white space.
LEMMA SpacesVanish ==
    ASSUME NEW u \in Seq(Chars), \A i \in 1 .. Len(u) : u[i] = " "
    PROVE  NoSpace(u) = <<>>
  <1> DEFINE blank == {" "}
             T == blank \ blank
  <1>1. \A i \in 1 .. Len(u) : u[i] \in blank
    BY Zenon
  <1>2. NoSpace(u) = Without(u, blank)
    BY Zenon DEF NoSpace
  <1> HIDE DEF blank
  <1>3. u \in Seq(blank)
    BY <1>1, SeqOfOthers, Zenon
  <1>4. Without(u, blank) \in Seq(T)
    BY <1>3, WithoutType, Zenon
  <1>5. T = {}
    BY Zenon
  <1>6. Without(u, blank) = <<>>
    <2> DEFINE w == Without(u, blank)
    <2>1. w \in Seq(T)
      BY <1>4, Zenon
    <2> HIDE DEF w, T
    <2>2. w = <<>>
      BY <1>5, <2>1, SeqOfNothing, Zenon
    <2> QED
      BY <2>2, Zenon DEF w
  <1> QED
    BY <1>2, <1>6, Zenon

\* The white space that pushPlain doubles and the one that it drops aside, it
\* shows the text.
LEMMA CommandShows ==
    ASSUME NEW text \in Seq(Chars)
    PROVE  /\ pushPlain(text) \in Seq(TokenSet)
           /\ NoSpace(Rendered(pushPlain(text))) = NoSpace(text)
  <1> DEFINE leading == Span(text, 1, {" "})
             ends == {0} \cup {i \in DOMAIN text : text[i] # " "}
             end == Max(ends)
             n == Len(text)
             first == SubSeq(text, 1, leading)
             command == SubSeq(text, 1, end)
             last == SubSeq(text, end + 1, n)
             token == <<Token(command, "command")>>
  <1>1. pushPlain(text) = Plain(first) \o token
    BY Zenon DEF pushPlain
  <1>2. n \in Nat /\ 1 \in 1 .. n + 1
    BY SeqIsFunction
  <1>3. /\ leading \in 0 .. n + 1 - 1
        /\ \A j \in 1 .. 1 + leading - 1 : text[j] = " "
    BY <1>2, SpacesInLine, Zenon
  <1>4. /\ ends \in SUBSET (0 .. n) /\ ends # {}
        /\ \A j \in 1 .. n : j \notin ends => text[j] = " "
    <2>1. 0 \in 0 .. n /\ 1 .. n \subseteq 0 .. n
      BY <1>2
    <2>2. DOMAIN text = 1 .. n
      BY SeqIsFunction, Zenon
    <2> HIDE DEF n
    <2> QED
      BY <2>1, <2>2, Zenon
  <1> HIDE DEF leading, ends
  <1>5. end \in ends /\ \A j \in ends : j <= end
    <2> HIDE DEF n
    <2> QED
      BY <1>2, <1>4, MaxIsGreatest, Zenon
  <1> HIDE DEF end
  <1>6. leading \in 0 .. n /\ end \in 0 .. n /\ \A j \in end + 1 .. n : j \in 1 .. n /\ j \notin ends
    <2>1. n + 1 - 1 = n
      BY <1>2
    <2>2. leading \in 0 .. n /\ end \in 0 .. n
      BY <1>3, <1>4, <1>5, <2>1, Zenon
    <2> HIDE DEF n
    <2> QED
      BY <1>2, <1>5, <2>2
  <1>7. first \in Seq(Chars) /\ Len(first) = leading
        /\ \A j \in 1 .. leading : first[j] = text[j]
    BY <1>2, <1>6
  <1>8. NoSpace(first) = <<>>
    <2>1. \A j \in 1 .. leading : j \in 1 .. 1 + leading - 1
      BY <1>6
    <2>2. \A j \in 1 .. Len(first) : first[j] = " "
      BY <1>3, <1>7, <2>1, Zenon
    <2> HIDE DEF first
    <2> QED
      BY <1>7, <2>2, SpacesVanish, Zenon
  <1>9. /\ command \in Seq(Chars) /\ last \in Seq(Chars) /\ Len(last) = n - end
        /\ \A j \in 1 .. n - end : last[j] = text[end + j]
        /\ command \o last = text
    <2> DEFINE k == end + 1
    <2>1. k \in 1 .. n + 1 /\ 1 \in 1 .. n + 1 /\ k - 1 = end
      BY <1>2, <1>6
    <2>2. SubSeq(text, 1, k - 1) \o SubSeq(text, k, Len(text)) = SubSeq(text, 1, Len(text))
      <3> HIDE DEF k
      <3> QED
        BY <2>1, SubSeqRest, Zenon
    <2>3. SubSeq(text, 1, Len(text)) = text
      BY SubSeqAll
    <2>4. command \o last = text
      BY <2>1, <2>2, <2>3, Zenon
    <2>5. command \in Seq(Chars)
      BY <1>2, <1>6
    <2>6. last \in Seq(Chars) /\ Len(last) = n - end
          /\ \A j \in 1 .. n - end : last[j] = text[end + j]
      BY <1>2, <1>6
    <2> QED
      BY <2>4, <2>5, <2>6, Zenon
  <1>10. NoSpace(last) = <<>>
    <2>1. ASSUME NEW j \in 1 .. n - end PROVE last[j] = " "
      <3>1. end + j \in end + 1 .. n
        BY <1>2, <1>6
      <3> QED
        BY <1>4, <1>6, <1>9, <3>1, Zenon
    <2> HIDE DEF last
    <2>2. \A j \in 1 .. Len(last) : last[j] = " "
      BY <1>9, <2>1, Zenon
    <2> QED
      BY <1>9, <2>2, SpacesVanish, Zenon
  <1> HIDE DEF first, command, last
  <1>11. NoSpace(text) = NoSpace(command)
    <2>1. /\ NoSpace(command \o last) = NoSpace(command) \o NoSpace(last)
          /\ NoSpace(command) \in Seq(Chars)
      BY <1>9, NoSpaceConcat, Zenon
    <2> DEFINE w == NoSpace(command)
    <2>2. NoSpace(text) = w \o <<>> /\ w \in Seq(Chars)
      BY <1>9, <1>10, <2>1, Zenon
    <2> HIDE DEF w
    <2>3. w \o <<>> = w
      BY <2>2
    <2> QED
      BY <2>2, <2>3, Zenon DEF w
  <1>12. /\ Plain(first) \in Seq(TokenSet) /\ Rendered(Plain(first)) = first
         /\ token \in Seq(TokenSet) /\ Rendered(token) = command
    <2>1. "command" \in TokenTypes
      BY DEF TokenTypes
    <2> QED
      BY <1>7, <1>9, <2>1, PlainShows, TokenShows, Zenon
  <1> HIDE DEF token
  <1>13. /\ Plain(first) \o token \in Seq(TokenSet)
         /\ Rendered(Plain(first) \o token) = first \o command
    BY <1>12, RenderedConcat, Zenon
  <1>14. NoSpace(first \o command) = NoSpace(command)
    <2> DEFINE w == NoSpace(command)
    <2>1. NoSpace(first \o command) = <<>> \o w /\ w \in Seq(Chars)
      BY <1>7, <1>8, <1>9, NoSpaceConcat, Zenon
    <2> HIDE DEF w
    <2>2. <<>> \o w = w
      BY <2>1
    <2> QED
      BY <2>1, <2>2, Zenon DEF w
  <1> QED
    BY <1>1, <1>11, <1>13, <1>14, Zenon

\* The tokens of a shell line show it, up to white space.
LEMMA BashShows ==
    ASSUME NEW s \in Seq(Chars)
    PROVE  /\ tokenizeBash(s) \in Seq(TokenSet)
           /\ NoSpace(Rendered(tokenizeBash(s))) = NoSpace(s)
  <1> DEFINE tokens == Scan("bash", s)
             text == tokens[1].text
             rest == Tail(tokens)
  <1>1. tokens \in Seq(TokenSet) /\ Rendered(tokens) = s
    <2>1. "bash" \in PatternLanguages
      BY DEF PatternLanguages
    <2> QED
      BY <2>1, ScanIsTheLine, Zenon
  <1>2. \/ tokenizeBash(s) = tokens
        \/ tokens # <<>> /\ tokenizeBash(s) = pushPlain(text) \o rest
    BY Zenon DEF tokenizeBash, FirstIsCommand
  <1> HIDE DEF tokens
  <1>3. CASE tokenizeBash(s) = tokens
    BY <1>1, <1>3, Zenon
  <1>4. CASE tokens # <<>> /\ tokenizeBash(s) = pushPlain(text) \o rest
    <2> DEFINE one == <<tokens[1]>>
               command == pushPlain(text)
    <2>1. /\ tokens[1] \in TokenSet /\ rest \in Seq(TokenSet)
          /\ tokens = one \o rest
      BY <1>1, <1>4
    <2>2. text \in Seq(Chars)
      BY <2>1, Zenon DEF TokenSet
    <2>3. one \in Seq(TokenSet) /\ Rendered(one) = text
      BY <2>1, RenderedOne, Zenon
    <2>4. command \in Seq(TokenSet) /\ NoSpace(Rendered(command)) = NoSpace(text)
      BY <2>2, CommandShows, Zenon
    <2> HIDE DEF rest, one, command, text
    <2>5. /\ command \o rest \in Seq(TokenSet)
          /\ Rendered(command \o rest) = Rendered(command) \o Rendered(rest)
          /\ Rendered(one \o rest) = text \o Rendered(rest)
      BY <2>1, <2>3, <2>4, RenderedConcat, Zenon
    <2>6. Rendered(command) \in Seq(Chars) /\ Rendered(rest) \in Seq(Chars)
      BY <2>1, <2>4, RenderedType, Zenon
    <2>7. /\ NoSpace(Rendered(command) \o Rendered(rest))
               = NoSpace(Rendered(command)) \o NoSpace(Rendered(rest))
          /\ NoSpace(text \o Rendered(rest)) = NoSpace(text) \o NoSpace(Rendered(rest))
      BY <2>2, <2>6, NoSpaceConcat, Zenon
    <2>8. text \o Rendered(rest) = s
      BY <1>1, <2>1, <2>5, Zenon
    <2> QED
      BY <1>4, <2>4, <2>5, <2>7, <2>8, Zenon DEF command
  <1> QED
    BY <1>2, <1>3, <1>4, Zenon

\* What the search for keywords makes of a token, ...
KeywordsOf == [t \in TokenSet |->
                 IF t.type = "plain" THEN Scan("gowords", t.text) ELSE <<t>>]

\* ... which it shows as it was.
LEMMA KeywordsShow ==
    /\ Gives(KeywordsOf, TokenSet, Seq(TokenSet))
    /\ \A t \in TokenSet : Rendered(KeywordsOf[t]) = t.text
  <1>1. ASSUME NEW t \in TokenSet
        PROVE  LET k == IF t.type = "plain" THEN Scan("gowords", t.text) ELSE <<t>>
               IN k \in Seq(TokenSet) /\ Rendered(k) = t.text
    <2>1. t.text \in Seq(Chars)
      BY Zenon DEF TokenSet
    <2>2. "gowords" \in PatternLanguages
      BY DEF PatternLanguages
    <2>3. Scan("gowords", t.text) \in Seq(TokenSet) /\ Rendered(Scan("gowords", t.text)) = t.text
      BY <2>1, <2>2, ScanIsTheLine, Zenon
    <2>4. <<t>> \in Seq(TokenSet) /\ Rendered(<<t>>) = t.text
      BY RenderedOne, Zenon
    <2> QED
      BY <2>3, <2>4, Zenon
  <1> QED
    BY <1>1, Zenon DEF KeywordsOf, Gives

\* Tokens show the same after the search for keywords.
LEMMA FlatMapShows ==
    ASSUME NEW tokens \in Seq(TokenSet)
    PROVE  /\ FlatMap(tokens, KeywordsOf) \in Seq(TokenSet)
           /\ Rendered(FlatMap(tokens, KeywordsOf)) = Rendered(tokens)
  <1> DEFINE map(u) == FlatMap(u, KeywordsOf)
             P == {u \in Seq(TokenSet) : Rendered(map(u)) = Rendered(u)}
  <1>1. \A u \in Seq(TokenSet) : map(u) \in Seq(TokenSet)
    BY KeywordsShow, FlatMapType, Zenon
  <1>2. <<>> \in P
    <2>1. map(<<>>) = <<>>
      BY KeywordsShow, FlatMapOne, Zenon
    <2> HIDE DEF map
    <2> QED
      BY <2>1, RenderedEmpty, Zenon
  <1>3. ASSUME NEW u \in Seq(TokenSet), NEW e \in TokenSet, u \in P
        PROVE  Append(u, e) \in P
    <2>1. Append(u, e) = u \o <<e>> /\ Append(u, e) \in Seq(TokenSet)
      OBVIOUS
    <2>2. <<e>> \in Seq(TokenSet) /\ Rendered(<<e>>) = e.text
      BY RenderedOne, Zenon
    <2>3. map(u \o <<e>>) = map(u) \o map(<<e>>)
      <3> DEFINE one == <<e>>
      <3>1. Gives(KeywordsOf, TokenSet, Seq(TokenSet))
        BY KeywordsShow, Zenon
      <3>2. one \in Seq(TokenSet)
        BY <2>2, Zenon
      <3> HIDE DEF one
      <3>3. FlatMap(u \o one, KeywordsOf) = FlatMap(u, KeywordsOf) \o FlatMap(one, KeywordsOf)
        BY <3>1, <3>2, FlatMapConcat
      <3> QED
        BY <3>3, Zenon DEF one
    <2>4. Rendered(map(<<e>>)) = e.text
      <3>1. map(<<e>>) = KeywordsOf[e]
        BY KeywordsShow, FlatMapOne, Zenon
      <3> QED
        BY <3>1, KeywordsShow, Zenon
    <2>5. map(u) \in Seq(TokenSet) /\ map(<<e>>) \in Seq(TokenSet)
      BY <1>1, <2>2, Zenon
    <2> HIDE DEF map
    <2>6. Rendered(map(u) \o map(<<e>>)) = Rendered(map(u)) \o Rendered(map(<<e>>))
      BY <2>5, RenderedConcat, Zenon
    <2>7. Rendered(u \o <<e>>) = Rendered(u) \o Rendered(<<e>>)
      BY <2>2, RenderedConcat, Zenon
    <2>8. Rendered(map(u)) = Rendered(u)
      BY <1>3, Zenon
    <2>9. Rendered(map(u \o <<e>>)) = Rendered(u \o <<e>>)
      BY <2>2, <2>3, <2>4, <2>6, <2>7, <2>8, Zenon
    <2> QED
      BY <2>1, <2>9, Zenon
  <1>4. Seq(TokenSet) \subseteq P
    <2> HIDE DEF P
    <2> QED
      BY <1>2, <1>3, SeqInduction, Zenon
  <1> QED
    BY <1>1, <1>4, Zenon

\* The tokens of a line of Go show it.
LEMMA GoShows ==
    ASSUME NEW s \in Seq(Chars)
    PROVE  tokenizeGo(s) \in Seq(TokenSet) /\ Rendered(tokenizeGo(s)) = s
  <1> DEFINE tokens == Scan("go", s)
  <1>1. tokens \in Seq(TokenSet) /\ Rendered(tokens) = s
    <2>1. "go" \in PatternLanguages
      BY DEF PatternLanguages
    <2> QED
      BY <2>1, ScanIsTheLine, Zenon
  <1>2. tokenizeGo(s) = WithKeywords(tokens)
    BY Zenon DEF tokenizeGo
  <1> HIDE DEF tokens
  <1>3. WithKeywords(tokens) = FlatMap(tokens, KeywordsOf)
    <2>1. \A i \in DOMAIN tokens : tokens[i] \in TokenSet
      BY <1>1, SeqIsFunction, Zenon
    <2>2. \A i \in DOMAIN tokens :
            KeywordsOf[tokens[i]] = IF tokens[i].type = "plain"
                                    THEN Scan("gowords", tokens[i].text)
                                    ELSE <<tokens[i]>>
      BY <2>1, Zenon DEF KeywordsOf
    <2> QED
      BY <2>2, Zenon DEF WithKeywords, FlatMap, Mapped
  <1> QED
    BY <1>1, <1>2, <1>3, FlatMapShows, Zenon

\* A comment starts inside the line.
LEMMA CommentInLine ==
    ASSUME NEW s \in Seq(Chars)
    PROVE  /\ findCommentStart(s) \subseteq 1 .. Len(s)
           /\ findGoCommentStart(s) \subseteq 1 .. Len(s)
  <1>1. DOMAIN s = 1 .. Len(s)
    BY SeqIsFunction, Zenon
  <1> QED
    BY <1>1, Zenon DEF findCommentStart, findGoCommentStart

\* A line is shown whole, wherever its comment starts.
LEMMA SplitShows ==
    ASSUME NEW s \in Seq(Chars), NEW language \in Languages \ {"text"},
           NEW first \in 1 .. Len(s) + 1
    PROVE  LET shown == Rendered(CodeAndComment(s, language, first)) IN
           IF language = "bash" THEN NoSpace(shown) = NoSpace(s) ELSE shown = s
  <1> DEFINE code == SubSeq(s, 1, first - 1)
             rest == SubSeq(s, first, Len(s))
             tokens == CASE language = "go" -> tokenizeGo(code)
                         [] language = "yaml" -> tokenizeYaml(code)
                         [] language = "json" -> tokenizeJson(code)
                         [] OTHER -> tokenizeBash(code)
             comment == IF first > Len(s) THEN <<>> ELSE <<Token(rest, "comment")>>
  <1>1. CodeAndComment(s, language, first) = tokens \o comment
    BY Zenon DEF CodeAndComment
  <1>2. Len(s) \in Nat
    BY SeqIsFunction
  <1>3. code \in Seq(Chars) /\ rest \in Seq(Chars) /\ (first > Len(s) => rest = <<>>)
    BY <1>2
  <1>4. code \o rest = s
    <2>1. 1 \in 1 .. Len(s) + 1 /\ first \in 1 .. Len(s) + 1
      BY <1>2
    <2>2. code \o rest = SubSeq(s, 1, Len(s))
      BY <2>1, SubSeqRest, Zenon
    <2> QED
      BY <2>2, SubSeqAll, Zenon
  <1>5. comment \in Seq(TokenSet) /\ Rendered(comment) = rest
    <2>1. CASE first > Len(s)
      BY <1>3, <2>1, RenderedEmpty, Zenon
    <2>2. CASE ~ (first > Len(s))
      <3>1. "comment" \in TokenTypes
        BY DEF TokenTypes
      <3> QED
        BY <1>3, <2>2, <3>1, TokenShows, Zenon
    <2> QED
      BY <2>1, <2>2, Zenon
  <1>6. /\ tokens \in Seq(TokenSet)
        /\ IF language = "bash" THEN NoSpace(Rendered(tokens)) = NoSpace(code)
           ELSE Rendered(tokens) = code
    <2>1. CASE language = "go"
      <3>1. tokens = tokenizeGo(code)
        BY <2>1, Zenon
      <3> QED
        BY <1>3, <2>1, <3>1, GoShows, Zenon
    <2>2. CASE language = "yaml"
      <3>1. tokens = tokenizeYaml(code)
        BY <2>2, Zenon
      <3> QED
        BY <1>3, <2>2, <3>1, YamlShows, Zenon
    <2>3. CASE language = "json"
      <3>1. tokens = Scan("json", code)
        BY <2>3, Zenon DEF tokenizeJson
      <3>2. "json" \in PatternLanguages
        BY DEF PatternLanguages
      <3> QED
        BY <1>3, <2>3, <3>1, <3>2, ScanIsTheLine, Zenon
    <2>4. CASE language = "bash"
      <3>1. tokens = tokenizeBash(code)
        BY <2>4
      <3> QED
        BY <1>3, <2>4, <3>1, BashShows, Zenon
    <2> QED
      BY <2>1, <2>2, <2>3, <2>4, Zenon DEF Languages
  <1> HIDE DEF code, rest, tokens, comment
  <1>7. Rendered(tokens \o comment) = Rendered(tokens) \o rest /\ Rendered(tokens) \in Seq(Chars)
    BY <1>5, <1>6, RenderedConcat, RenderedType, Zenon
  <1>8. CASE language = "bash"
    <2>1. NoSpace(Rendered(tokens) \o rest) = NoSpace(Rendered(tokens)) \o NoSpace(rest)
      BY <1>3, <1>7, NoSpaceConcat, Zenon
    <2>2. NoSpace(code \o rest) = NoSpace(code) \o NoSpace(rest)
      BY <1>3, NoSpaceConcat, Zenon
    <2> QED
      BY <1>1, <1>4, <1>6, <1>7, <1>8, <2>1, <2>2, Zenon
  <1>9. CASE language # "bash"
    BY <1>1, <1>4, <1>6, <1>7, <1>9, Zenon
  <1> QED
    BY <1>8, <1>9, Zenon

\* What highlightLine makes of a line shows it.
LEMMA LineShows ==
    ASSUME NEW s \in Seq(Chars), NEW language \in Languages
    PROVE  LET shown == Rendered(highlightLine(s, language)) IN
           IF language = "bash" THEN NoSpace(shown) = NoSpace(s) ELSE shown = s
  <1>1. CASE language = "text"
    <2>1. highlightLine(s, language) = <<Token(s, "plain")>>
      BY <1>1, Zenon DEF highlightLine
    <2>2. "plain" \in TokenTypes
      BY DEF TokenTypes
    <2>3. Rendered(<<Token(s, "plain")>>) = s
      BY <2>2, TokenShows, Zenon
    <2> QED
      BY <1>1, <2>1, <2>3, Zenon
  <1>2. CASE language # "text"
    <2> DEFINE starts == IF language = "go" THEN findGoCommentStart(s)
                         ELSE findCommentStart(s)
               all == {Len(s) + 1} \cup starts
               first == Min(all)
    <2>1. highlightLine(s, language) = CodeAndComment(s, language, first)
      BY <1>2, Zenon DEF highlightLine
    <2>2. Len(s) \in Nat
      BY SeqIsFunction
    <2>3. starts \subseteq 1 .. Len(s)
      BY CommentInLine, Zenon
    <2> HIDE DEF starts
    <2>4. all \in SUBSET Nat /\ all # {} /\ all \subseteq 1 .. Len(s) + 1
      <3>1. /\ Len(s) + 1 \in 1 .. Len(s) + 1 /\ 1 .. Len(s) \subseteq 1 .. Len(s) + 1
            /\ 1 .. Len(s) + 1 \subseteq Nat
        BY <2>2
      <3>2. all \subseteq 1 .. Len(s) + 1 /\ all # {}
        BY <2>3, <3>1, Zenon
      <3> QED
        BY <3>1, <3>2, Zenon
    <2> HIDE DEF all
    <2>5. first \in all
      BY <2>4, MinIsLeast, Zenon
    <2> HIDE DEF first
    <2>6. first \in 1 .. Len(s) + 1 /\ language \in Languages \ {"text"}
      BY <1>2, <2>4, <2>5, Zenon
    <2>7. LET shown == Rendered(CodeAndComment(s, language, first)) IN
          IF language = "bash" THEN NoSpace(shown) = NoSpace(s) ELSE shown = s
      BY <2>6, SplitShows, Zenon
    <2> QED
      BY <2>1, <2>7, Zenon
  <1> QED
    BY <1>1, <1>2, Zenon

-----------------------------------------------------------------------------
(* Quotes.                                                                 *)

NoQuote == ""

InQuotes == {NoQuote} \cup QuoteMarks

\* Inside of what after character c.
NextQuote(quote, c) ==
    IF c \notin {"sq", "dq"} \/ quote \notin {NoQuote, c} THEN quote
    ELSE IF quote = c THEN NoQuote ELSE c

\* Outside of quotes is no quote.
LEMMA NoQuoteIsNone == NoQuote \notin QuoteMarks
  BY Zenon DEF NoQuote, QuoteMarks

\* After a character the scan is in a quote or outside.
LEMMA NextQuoteType ==
    ASSUME NEW quote \in InQuotes, NEW c
    PROVE  NextQuote(quote, c) \in InQuotes
  BY Zenon DEF NextQuote, InQuotes, QuoteMarks

\* The quotes are counted from the first character on.
LEMMA QuotesEquation ==
    ASSUME NEW s \in Seq(Chars)
    PROVE  /\ Quotes(s)[1] = NoQuote
           /\ \A i \in 1 .. Len(s) + 1 : Quotes(s)[i] \in InQuotes
           /\ \A i \in 1 .. Len(s) : Quotes(s)[i + 1] = NextQuote(Quotes(s)[i], s[i])
  <1> DEFINE n == Len(s) + 1
             G(f, i) == IF i = 1 THEN NoQuote ELSE NextQuote(f[i - 1], s[i - 1])
             step == [i \in 1 .. n |-> [q \in InQuotes |-> NextQuote(q, s[i - 1])]]
             quotes == Quotes(s)
  <1>1. n \in Nat /\ Len(s) \in Nat /\ 1 \in 1 .. n /\ 1 <= n
    BY SeqIsFunction
  <1>2. quotes = CHOOSE f : f = [i \in 1 .. n |-> G(f, i)]
    BY Zenon DEF Quotes, NextQuote, NoQuote
  <1>3. NoQuote \in InQuotes
    BY Zenon DEF InQuotes
  <1>4. \A i \in 1 .. n, q \in InQuotes :
           step[i][q] = NextQuote(q, s[i - 1]) /\ step[i][q] \in InQuotes
    BY NextQuoteType, Zenon
  <1> HIDE DEF step, quotes, n
  <1>5. PICK f : IsForward(f, n, NoQuote, step)
    BY <1>1, ForwardFunction, Zenon
  <1>6. /\ f = [i \in 1 .. n |-> f[i]]
        /\ \A i \in 1 .. n : f[i] = IF i = 1 THEN NoQuote ELSE step[i][f[i - 1]]
    BY <1>5, Zenon DEF IsForward
  <1> DEFINE T == {i \in 1 .. n : f[i] \in InQuotes}
  <1>7. 1 .. n \subseteq T
    <2>1. 1 <= n => 1 \in T
      BY <1>1, <1>3, <1>6, Zenon
    <2>2. ASSUME NEW i \in 1 .. n - 1, i \in T PROVE i + 1 \in T
      <3>1. i + 1 \in 1 .. n /\ i + 1 # 1 /\ (i + 1) - 1 = i
        BY <1>1
      <3>2. f[i + 1] = step[i + 1][f[i]]
        BY <1>6, <3>1, Zenon
      <3> QED
        BY <1>4, <2>2, <3>1, <3>2, Zenon
    <2>3. 1 \in Int /\ n \in Int
      BY <1>1
    <2> HIDE DEF T
    <2> QED
      BY <2>1, <2>2, <2>3, IntervalInduction, Zenon
  <1>8. ASSUME NEW i \in 1 .. n PROVE f[i] = G(f, i)
    <2>1. i # 1 => i - 1 \in 1 .. n
      BY <1>1
    <2> QED
      BY <1>4, <1>6, <1>7, <2>1, Zenon
  <1> HIDE DEF G, T
  <1>9. f = [i \in 1 .. n |-> G(f, i)]
    BY <1>6, <1>8, Zenon
  <1>10. quotes = [i \in 1 .. n |-> G(quotes, i)]
    BY <1>2, <1>9, Zenon
  <1>11. \A i \in 1 .. n : quotes[i] = IF i = 1 THEN NoQuote ELSE NextQuote(quotes[i - 1], s[i - 1])
    BY <1>10, Zenon DEF G
  <1>12. ASSUME NEW i \in 1 .. n - 1 PROVE quotes[i + 1] = NextQuote(quotes[i], s[i])
    <2>1. i + 1 \in 1 .. n /\ i + 1 # 1 /\ (i + 1) - 1 = i
      BY <1>1
    <2> QED
      BY <1>11, <2>1, Zenon
  <1> DEFINE U == {i \in 1 .. n : quotes[i] \in InQuotes}
  <1>13. 1 .. n \subseteq U
    <2>1. 1 <= n => 1 \in U
      BY <1>1, <1>3, <1>11, Zenon
    <2>2. ASSUME NEW i \in 1 .. n - 1, i \in U PROVE i + 1 \in U
      <3>1. i + 1 \in 1 .. n
        BY <1>1
      <3> QED
        BY <1>12, <2>2, <3>1, NextQuoteType, Zenon
    <2>3. 1 \in Int /\ n \in Int
      BY <1>1
    <2> HIDE DEF U
    <2> QED
      BY <2>1, <2>2, <2>3, IntervalInduction, Zenon
  <1>14. n - 1 = Len(s)
    BY <1>1 DEF n
  <1> QED
    BY <1>1, <1>11, <1>12, <1>13, <1>14, Zenon DEF n, quotes

\* The state stays the same over characters that do not change it.
LEMMA QuoteStays ==
    ASSUME NEW s \in Seq(Chars), NEW p \in 1 .. Len(s) + 1, NEW r \in p .. Len(s) + 1,
           \A j \in p .. r - 1 : NextQuote(Quotes(s)[p], s[j]) = Quotes(s)[p]
    PROVE  \A x \in p .. r : Quotes(s)[x] = Quotes(s)[p]
  <1> DEFINE q == Quotes(s)[p]
             T == {x \in p .. r : Quotes(s)[x] = q}
  <1>1. Len(s) \in Nat /\ p \in Int /\ r \in Int /\ p <= r /\ p \in p .. r
    BY SeqIsFunction
  <1>2. p <= r => p \in T
    BY <1>1, Zenon
  <1>3. ASSUME NEW i \in p .. r - 1, i \in T PROVE i + 1 \in T
    <2>1. i + 1 \in p .. r /\ i \in 1 .. Len(s)
      BY <1>1
    <2>2. Quotes(s)[i + 1] = NextQuote(Quotes(s)[i], s[i])
      BY <2>1, QuotesEquation, Zenon
    <2>3. Quotes(s)[i] = q
      BY <1>3, Zenon
    <2>4. NextQuote(q, s[i]) = q
      BY <1>3, Zenon
    <2>5. Quotes(s)[i + 1] = q
      BY <2>2, <2>3, <2>4, Zenon
    <2> QED
      BY <2>1, <2>5, Zenon
  <1>4. p .. r \subseteq T
    <2> HIDE DEF T
    <2> QED
      BY <1>1, <1>2, <1>3, IntervalInduction, Zenon
  <1> QED
    BY <1>4, Zenon

\* What does not change it: any character but a quote; inside quotes also a quote
\* of the other kind.
LEMMA NextQuoteSame ==
    ASSUME NEW q \in InQuotes, NEW c
    PROVE  /\ c \notin QuoteMarks => NextQuote(q, c) = q
           /\ q \in QuoteMarks /\ c # q => NextQuote(q, c) = q
           /\ q \in QuoteMarks => NextQuote(q, q) = NoQuote
           /\ c \in QuoteMarks => NextQuote(NoQuote, c) = c
  BY NoQuoteIsNone, Zenon DEF NextQuote, QuoteMarks

\* Inside quotes that are not closed before r it stays there.
LEMMA StaysInside ==
    ASSUME NEW s \in Seq(Chars), NEW p \in 1 .. Len(s) + 1, NEW r \in p .. Len(s) + 1,
           Quotes(s)[p] \in QuoteMarks, \A j \in p .. r - 1 : s[j] # Quotes(s)[p]
    PROVE  \A x \in p .. r : Quotes(s)[x] = Quotes(s)[p]
  <1>1. Quotes(s)[p] \in InQuotes
    BY QuotesEquation, Zenon
  <1>2. \A j \in p .. r - 1 : NextQuote(Quotes(s)[p], s[j]) = Quotes(s)[p]
    BY <1>1, NextQuoteSame, Zenon
  <1> QED
    BY <1>2, QuoteStays, Zenon

\* No comment starts inside quotes.
LEMMA NoCommentInside ==
    ASSUME NEW s \in Seq(Chars), NEW x, Quotes(s)[x] \in QuoteMarks \/ s[x] \in QuoteMarks
    PROVE  x \notin findCommentStart(s)
  <1>1. "#" \notin QuoteMarks
    BY Zenon DEF QuoteMarks
  <1>2. x \in findCommentStart(s) => s[x] = "#" /\ Quotes(s)[x] = NoQuote
    BY Zenon DEF findCommentStart, NoQuote
  <1> QED
    BY <1>1, <1>2, NoQuoteIsNone, Zenon

\* Outside of quotes, or inside of ones that are never closed: where the patterns
\* look for the next match.
Alive(s, p) == \/ Quotes(s)[p] = NoQuote
               \/ \A j \in p .. Len(s) : s[j] # Quotes(s)[p]

\* How far a match of n characters, or none, takes the loop.
Step(n) == IF n = 0 THEN 1 ELSE n

\* No comment starts in a text that begins here.
Free(s, o, n) ==
    \A c \in findCommentStart(s) : c \notin o .. o + n - 1

\* After text without quotes the search is where it was.
LEMMA AliveCalm ==
    ASSUME NEW s \in Seq(Chars), NEW p \in 1 .. Len(s), NEW n, Calm(s, p, n),
           s[p] \notin QuoteMarks, Alive(s, p)
    PROVE  Alive(s, p + Step(n)) /\ p + Step(n) \in p .. Len(s) + 1
  <1> DEFINE r == p + Step(n)
  <1>1. Len(s) \in Nat
    BY SeqIsFunction
  <1>2. n \in 0 .. Len(s) + 1 - p /\ Step(n) \in 1 .. Len(s) + 1 - p
    BY <1>1 DEF Calm, InLine, Step
  <1>3. ASSUME NEW j \in p .. r - 1 PROVE s[j] \notin QuoteMarks
    <2>1. CASE n = 0
      <3>1. j = p
        BY <1>1, <1>2, <2>1 DEF Step
      <3> QED
        BY <3>1, Zenon
    <2>2. CASE n # 0
      <3>1. j \in p .. p + n - 1
        BY <1>1, <1>2, <2>2 DEF Step
      <3> QED
        BY <3>1, Zenon DEF Calm
    <2> QED
      BY <2>1, <2>2, Zenon
  <1> HIDE DEF r
  <1>4. r \in p .. Len(s) + 1 /\ p \in 1 .. Len(s) + 1 /\ r \in p .. r
        /\ \A j \in r .. Len(s) : j \in p .. Len(s)
    BY <1>1, <1>2 DEF r
  <1>5. Quotes(s)[p] \in InQuotes
    BY <1>4, QuotesEquation, Zenon
  <1>6. \A j \in p .. r - 1 : NextQuote(Quotes(s)[p], s[j]) = Quotes(s)[p]
    BY <1>3, <1>5, NextQuoteSame, Zenon
  <1>7. \A x \in p .. r : Quotes(s)[x] = Quotes(s)[p]
    BY <1>4, <1>6, QuoteStays, Zenon
  <1>8. Quotes(s)[r] = Quotes(s)[p]
    BY <1>4, <1>7, Zenon
  <1>9. Alive(s, r)
    BY <1>4, <1>8, Zenon DEF Alive
  <1> QED
    BY <1>4, <1>9, Zenon DEF r

\* A search that is inside of quotes which are never closed stays there, and no
\* comment starts any more.
LEMMA AliveInside ==
    ASSUME NEW s \in Seq(Chars), NEW p \in 1 .. Len(s) + 1, Quotes(s)[p] \in QuoteMarks,
           \A j \in p .. Len(s) : s[j] # Quotes(s)[p]
    PROVE  \A x \in p .. Len(s) + 1 : Alive(s, x) /\ Quotes(s)[x] = Quotes(s)[p]
                                      /\ x \notin findCommentStart(s)
  <1> DEFINE r == Len(s) + 1
  <1>1. Len(s) \in Nat
    BY SeqIsFunction
  <1>2. r \in p .. Len(s) + 1 /\ r - 1 = Len(s)
        /\ \A x \in p .. r : \A j : j \in x .. Len(s) => j \in p .. Len(s)
    BY <1>1
  <1>3. \A x \in p .. r : Quotes(s)[x] = Quotes(s)[p]
    <2> HIDE DEF r
    <2> QED
      BY <1>2, StaysInside, Zenon
  <1>4. ASSUME NEW x \in p .. r
        PROVE  Alive(s, x) /\ Quotes(s)[x] = Quotes(s)[p] /\ x \notin findCommentStart(s)
    <2>1. Quotes(s)[x] = Quotes(s)[p]
      BY <1>3, Zenon
    <2>2. Alive(s, x)
      BY <1>2, <2>1, Zenon DEF Alive
    <2>3. x \notin findCommentStart(s)
      BY <2>1, NoCommentInside, Zenon
    <2> QED
      BY <2>1, <2>2, <2>3, Zenon
  <1> QED
    BY <1>4, Zenon

\* No comment starts in what begins with a quote: in the quotation that the
\* patterns match or, if they match none, in the rest of the line.
Hidden(s, p, n) ==
    s[p] \in QuoteMarks =>
      \A c \in findCommentStart(s) :
         c \notin p .. IF n = 0 THEN Len(s) ELSE p + n - 1

\* The step over a quotation.
LEMMA AliveQuotation ==
    ASSUME NEW s \in Seq(Chars), NEW p \in 1 .. Len(s), NEW n, NEW q \in QuoteMarks,
           Quotation(s, p, n, q), Alive(s, p)
    PROVE  Alive(s, p + n) /\ p + n \in p .. Len(s) + 1 /\ Hidden(s, p, n) /\ n \in Nat /\ n # 0
  <1>1. Len(s) \in Nat
    BY SeqIsFunction
  <1>2. /\ n \in Nat /\ n # 0 /\ p + n \in p .. Len(s) + 1 /\ p + n - 1 \in 1 .. Len(s)
        /\ p + 1 \in 1 .. Len(s) + 1 /\ p \in 1 .. Len(s) + 1
        /\ p + n - 1 \in p + 1 .. Len(s) + 1 /\ (p + n - 1) + 1 = p + n
        /\ p \in p .. Len(s) /\ (p + n - 1) - 1 = p + n - 2
        /\ \A x \in p .. p + n - 1 : x = p \/ x \in p + 1 .. p + n - 1
        /\ \A x \in p .. p + n - 1 : x \in p .. Len(s) + 1
        /\ p + n - 1 \in p + 1 .. p + n - 1
    BY <1>1 DEF Quotation, InLine
  <1>3. s[p] = q /\ s[p + n - 1] = q /\ \A j \in p + 1 .. p + n - 2 : s[j] # q
    BY Zenon DEF Quotation
  <1>4. Quotes(s)[p] \in InQuotes
    BY <1>2, QuotesEquation, Zenon
  <1>5. CASE Quotes(s)[p] = NoQuote
    <2>1. Quotes(s)[p + 1] = q
      <3>1. Quotes(s)[p + 1] = NextQuote(Quotes(s)[p], s[p])
        BY QuotesEquation, Zenon
      <3> QED
        BY <1>3, <1>4, <1>5, <3>1, NextQuoteSame, Zenon
    <2> DEFINE r == p + n - 1
               o == p + 1
    <2>2. \A x \in o .. r : Quotes(s)[x] = q
      <3>1. o \in 1 .. Len(s) + 1 /\ r \in o .. Len(s) + 1 /\ Quotes(s)[o] \in QuoteMarks
        BY <1>2, <2>1, Zenon
      <3>2. \A j \in o .. r - 1 : s[j] # Quotes(s)[o]
        BY <1>2, <1>3, <2>1, Zenon
      <3>3. Quotes(s)[o] = q
        BY <2>1, Zenon
      <3> HIDE DEF o, r
      <3>4. \A x \in o .. r : Quotes(s)[x] = Quotes(s)[o]
        BY <3>1, <3>2, StaysInside, Zenon
      <3> QED
        BY <3>3, <3>4, Zenon
    <2>3. Quotes(s)[p + n] = NoQuote
      <3>1. Quotes(s)[r] = q /\ s[r] = q
        BY <1>2, <1>3, <2>2, Zenon
      <3>2. Quotes(s)[r + 1] = NextQuote(Quotes(s)[r], s[r])
        <4>1. r \in 1 .. Len(s)
          BY <1>2, Zenon
        <4> HIDE DEF r
        <4> QED
          BY <4>1, QuotesEquation, Zenon
      <3>3. q \in InQuotes
        BY Zenon DEF InQuotes
      <3>4. NextQuote(q, q) = NoQuote
        BY <3>3, NextQuoteSame, Zenon
      <3> QED
        BY <1>2, <3>1, <3>2, <3>4, Zenon
    <2>4. ASSUME NEW x \in p .. p + n - 1 PROVE x \notin findCommentStart(s)
      <3>1. Quotes(s)[x] \in QuoteMarks \/ s[x] \in QuoteMarks
        BY <1>2, <1>3, <2>2, Zenon
      <3> QED
        BY <3>1, NoCommentInside, Zenon
    <2> QED
      BY <1>2, <2>3, <2>4, Zenon DEF Alive, Hidden
  <1>6. CASE Quotes(s)[p] # NoQuote
    <2>1. Quotes(s)[p] \in QuoteMarks /\ \A j \in p .. Len(s) : s[j] # Quotes(s)[p]
      BY <1>4, <1>6, Zenon DEF Alive, InQuotes
    <2>2. \A x \in p .. Len(s) + 1 : Alive(s, x) /\ x \notin findCommentStart(s)
      BY <1>2, <2>1, AliveInside, Zenon
    <2> QED
      BY <1>2, <2>2, Zenon DEF Hidden
  <1> QED
    BY <1>5, <1>6, Zenon

\* The step over a quote that is not closed.
LEMMA AliveUnclosed ==
    ASSUME NEW s \in Seq(Chars), NEW p \in 1 .. Len(s), s[p] \in QuoteMarks,
           \A j \in p + 1 .. Len(s) : s[j] # s[p], Alive(s, p)
    PROVE  Alive(s, p + 1) /\ Hidden(s, p, 0)
  <1>1. Len(s) \in Nat
    BY SeqIsFunction
  <1>2. /\ p + 1 \in 1 .. Len(s) + 1 /\ p \in 1 .. Len(s) + 1 /\ p \in p .. Len(s)
        /\ p + 1 \in p .. Len(s) + 1 /\ p + 1 \in p + 1 .. Len(s) + 1
        /\ \A x \in p .. Len(s) : x = p \/ x \in p + 1 .. Len(s) + 1
        /\ \A x \in p .. Len(s) : x \in p .. Len(s) + 1
    BY <1>1
  <1>3. Quotes(s)[p] \in InQuotes
    BY <1>2, QuotesEquation, Zenon
  <1>4. CASE Quotes(s)[p] = NoQuote
    <2>1. Quotes(s)[p + 1] = s[p]
      <3>1. Quotes(s)[p + 1] = NextQuote(Quotes(s)[p], s[p])
        BY QuotesEquation, Zenon
      <3> QED
        BY <1>3, <1>4, <3>1, NextQuoteSame, Zenon
    <2>2. \A x \in p + 1 .. Len(s) + 1 : Alive(s, x) /\ x \notin findCommentStart(s)
      <3> DEFINE o == p + 1
      <3>1. /\ o \in 1 .. Len(s) + 1 /\ Quotes(s)[o] \in QuoteMarks
            /\ \A j \in o .. Len(s) : s[j] # Quotes(s)[o]
        BY <1>2, <2>1, Zenon
      <3> HIDE DEF o
      <3>2. \A x \in o .. Len(s) + 1 : Alive(s, x) /\ x \notin findCommentStart(s)
        BY <3>1, AliveInside, Zenon
      <3> QED
        BY <3>2, Zenon DEF o
    <2>3. p \notin findCommentStart(s)
      BY NoCommentInside, Zenon
    <2>4. \A x \in p .. Len(s) : x \notin findCommentStart(s)
      BY <1>2, <2>2, <2>3, Zenon
    <2> QED
      BY <1>2, <2>2, <2>4, Zenon DEF Hidden
  <1>5. CASE Quotes(s)[p] # NoQuote
    <2>1. Quotes(s)[p] \in QuoteMarks /\ \A j \in p .. Len(s) : s[j] # Quotes(s)[p]
      BY <1>3, <1>5, Zenon DEF Alive, InQuotes
    <2>2. \A x \in p .. Len(s) + 1 : Alive(s, x) /\ x \notin findCommentStart(s)
      BY <1>2, <2>1, AliveInside, Zenon
    <2>3. \A x \in p .. Len(s) : x \notin findCommentStart(s)
      BY <1>2, <2>2, Zenon
    <2> QED
      BY <1>2, <2>2, <2>3, Zenon DEF Hidden
  <1> QED
    BY <1>4, <1>5, Zenon

\* The search and the count of the quotes keep together.
LEMMA AliveStep ==
    ASSUME NEW s \in Seq(Chars), NEW p \in 1 .. Len(s), NEW n,
           Matched(s, p, n, QuoteMarks), Alive(s, p)
    PROVE  Alive(s, p + Step(n)) /\ Hidden(s, p, n)
  <1>1. CASE \E q \in QuoteMarks : Quotation(s, p, n, q)
    <2>1. Alive(s, p + n) /\ Hidden(s, p, n) /\ n # 0
      BY <1>1, AliveQuotation, Zenon
    <2> QED
      BY <2>1, Zenon DEF Step
  <1>2. CASE /\ Calm(s, p, n)
             /\ \A q \in QuoteMarks : s[p] = q => \A j \in p + 1 .. Len(s) : s[j] # q
    <2>1. CASE s[p] \notin QuoteMarks
      BY <1>2, <2>1, AliveCalm, Zenon DEF Hidden
    <2>2. CASE s[p] \in QuoteMarks
      <3>1. n = 0
        <4>1. n \in Nat
          BY <1>2, CalmIsInLine, Zenon
        <4> QED
          BY <1>2, <2>2, <4>1 DEF Calm
      <3>2. Alive(s, p + 1) /\ Hidden(s, p, 0)
        BY <1>2, <2>2, AliveUnclosed, Zenon
      <3> QED
        BY <3>1, <3>2, Zenon DEF Step
    <2> QED
      BY <2>1, <2>2, Zenon
  <1> QED
    BY <1>1, <1>2, Zenon DEF Matched

\* No comment starts in a text in quotes that is shown from position o on, ...
TextFree(s, o, text) ==
    text[1] \in QuoteMarks => Free(s, o, Len(text))

\* ... nor in any of the tokens that are shown from position i on.
Placed(tokens, i, s) ==
    \A k \in 1 .. Len(tokens) :
       TextFree(s, i + Len(Rendered(SubSeq(tokens, 1, k - 1))), tokens[k].text)

\* The beginnings of a concatenation.
Begins(a, b, k, S) ==
    /\ k \in 1 .. Len(a) => /\ SubSeq(a \o b, 1, k - 1) = SubSeq(a, 1, k - 1)
                            /\ (a \o b)[k] = a[k]
    /\ k \notin 1 .. Len(a) =>
         /\ k - Len(a) \in 1 .. Len(b)
         /\ SubSeq(a \o b, 1, k - 1) = a \o SubSeq(b, 1, (k - Len(a)) - 1)
         /\ (a \o b)[k] = b[k - Len(a)]
         /\ SubSeq(b, 1, (k - Len(a)) - 1) \in Seq(S)

\* So a concatenation begins.
LEMMA ConcatBegins ==
    ASSUME NEW S, NEW a \in Seq(S), NEW b \in Seq(S), NEW k \in 1 .. Len(a) + Len(b)
    PROVE  Begins(a, b, k, S)
  <1>1. Len(a) \in Nat /\ Len(b) \in Nat
    BY SeqIsFunction
  <1>2. ASSUME k \in 1 .. Len(a)
        PROVE  SubSeq(a \o b, 1, k - 1) = SubSeq(a, 1, k - 1) /\ (a \o b)[k] = a[k]
    BY <1>1, <1>2
  <1>3. ASSUME k \notin 1 .. Len(a)
        PROVE  /\ k - Len(a) \in 1 .. Len(b)
               /\ SubSeq(a \o b, 1, k - 1) = a \o SubSeq(b, 1, (k - Len(a)) - 1)
               /\ (a \o b)[k] = b[k - Len(a)]
               /\ SubSeq(b, 1, (k - Len(a)) - 1) \in Seq(S)
    BY <1>1, <1>3
  <1> QED
    BY <1>2, <1>3, Zenon DEF Begins

\* Tokens after those that are placed are placed after what these show.
LEMMA PlacedConcat ==
    ASSUME NEW s, NEW a \in Seq(TokenSet), NEW b \in Seq(TokenSet), NEW i \in Int,
           Placed(a, i, s), Placed(b, i + Len(Rendered(a)), s)
    PROVE  Placed(a \o b, i, s)
  <1> DEFINE n == Len(a)
             m == Len(b)
             ra == Len(Rendered(a))
             off(k) == Len(Rendered(SubSeq(a \o b, 1, k - 1)))
  <1>1. n \in Nat /\ m \in Nat /\ ra \in Nat /\ Len(a \o b) = n + m /\ Rendered(a) \in Seq(Chars)
    <2>1. Rendered(a) \in Seq(Chars) /\ a \o b \in Seq(TokenSet)
      BY RenderedType, RenderedConcat, Zenon
    <2>2. Len(Rendered(a)) \in Nat
      BY <2>1, SeqIsFunction
    <2> QED
      BY <2>1, <2>2
  <1>2. ASSUME NEW k \in 1 .. n + m
        PROVE  TextFree(s, i + off(k), (a \o b)[k].text)
    <2>0. Begins(a, b, k, TokenSet)
      BY ConcatBegins, Zenon
    <2>1. CASE k \in 1 .. n
      <3>1. SubSeq(a \o b, 1, k - 1) = SubSeq(a, 1, k - 1) /\ (a \o b)[k] = a[k]
        BY <2>0, <2>1, Zenon DEF Begins
      <3>2. TextFree(s, i + Len(Rendered(SubSeq(a, 1, k - 1))), a[k].text)
        BY <2>1, Zenon DEF Placed
      <3> QED
        BY <3>1, <3>2, Zenon
    <2>2. CASE k \notin 1 .. n
      <3> DEFINE h == k - n
                 u == SubSeq(b, 1, h - 1)
      <3>1. /\ h \in 1 .. m /\ SubSeq(a \o b, 1, k - 1) = a \o u
            /\ (a \o b)[k] = b[h] /\ u \in Seq(TokenSet)
        BY <2>0, <2>2, Zenon DEF Begins
      <3>2. TextFree(s, (i + ra) + Len(Rendered(u)), b[h].text)
        BY <3>1, Zenon DEF Placed
      <3> HIDE DEF u, h
      <3>3. Rendered(a \o u) = Rendered(a) \o Rendered(u) /\ Rendered(u) \in Seq(Chars)
        BY <3>1, RenderedConcat, RenderedType, Zenon
      <3>4. Len(Rendered(a) \o Rendered(u)) = ra + Len(Rendered(u)) /\ Len(Rendered(u)) \in Nat
        BY <1>1, <3>3
      <3>5. off(k) = ra + Len(Rendered(u))
        BY <3>1, <3>3, <3>4, Zenon
      <3> HIDE DEF ra, off
      <3>6. i + (ra + Len(Rendered(u))) = (i + ra) + Len(Rendered(u))
        BY <1>1, <3>4
      <3> QED
        BY <3>1, <3>2, <3>5, <3>6, Zenon
    <2> QED
      BY <2>1, <2>2, Zenon
  <1> QED
    BY <1>1, <1>2, Zenon DEF Placed

\* One token is placed if its text is free of comments.
LEMMA PlacedOne ==
    ASSUME NEW s, NEW t \in TokenSet, NEW i \in Int, TextFree(s, i, t.text)
    PROVE  Placed(<<t>>, i, s)
  <1>1. /\ Len(<<t>>) = 1 /\ <<t>>[1] = t /\ SubSeq(<<t>>, 1, 1 - 1) = <<>>
        /\ i + 0 = i /\ Len(<<>>) = 0 /\ \A k \in 1 .. 1 : k = 1
    OBVIOUS
  <1>2. i + Len(Rendered(SubSeq(<<t>>, 1, 1 - 1))) = i
    BY <1>1, RenderedEmpty, Zenon
  <1>3. TextFree(s, i + Len(Rendered(SubSeq(<<t>>, 1, 1 - 1))), <<t>>[1].text)
    BY <1>1, <1>2, Zenon
  <1>4. \A k \in 1 .. 1 :
          TextFree(s, i + Len(Rendered(SubSeq(<<t>>, 1, k - 1))), <<t>>[k].text)
    BY <1>1, <1>3, Zenon
  <1> QED
    BY <1>1, <1>4, Zenon DEF Placed

\* So is plain text.
LEMMA PlacedPlain ==
    ASSUME NEW s, NEW text \in Seq(Chars), NEW i \in Int,
           text # <<>> => TextFree(s, i, text)
    PROVE  Placed(Plain(text), i, s)
  <1>1. CASE text = <<>>
    <2>1. Plain(text) = <<>>
      BY <1>1, Zenon DEF Plain
    <2>2. \A k \in 1 .. Len(<<>>) : FALSE
      OBVIOUS
    <2> QED
      BY <2>1, <2>2, Zenon DEF Placed
  <1>2. CASE text # <<>>
    <2> DEFINE t == Token(text, "plain")
    <2>1. Plain(text) = <<t>>
      BY <1>2, Zenon DEF Plain
    <2>2. "plain" \in TokenTypes
      BY DEF TokenTypes
    <2>3. t \in TokenSet /\ t.text = text
      BY <2>2, TokenType, Zenon
    <2> HIDE DEF t
    <2> QED
      BY <1>2, <2>1, <2>3, PlacedOne, Zenon
  <1> QED
    BY <1>1, <1>2, Zenon

\* All matches are of text without quotes or of quotations.
AllMatched(s, length) == \A p \in 1 .. Len(s) : Matched(s, p, length[p], QuoteMarks)

\* Positions without a match are passed one by one.
LEMMA AliveRun ==
    ASSUME NEW s \in Seq(Chars), NEW length, AllMatched(s, length),
           NEW i \in 1 .. Len(s) + 1, NEW j \in i .. Len(s) + 1,
           \A k \in i .. j - 1 : length[k] = 0, Alive(s, i)
    PROVE  Alive(s, j)
  <1> DEFINE T == {k \in i .. j : Alive(s, k)}
  <1>1. Len(s) \in Nat /\ i \in Int /\ j \in Int /\ i <= j /\ i \in i .. j /\ j \in i .. j
    BY SeqIsFunction
  <1>2. i <= j => i \in T
    BY <1>1, Zenon
  <1>3. ASSUME NEW k \in i .. j - 1, k \in T PROVE k + 1 \in T
    <2>1. k \in 1 .. Len(s) /\ k + 1 \in i .. j
      BY <1>1
    <2>2. Matched(s, k, 0, QuoteMarks) /\ Alive(s, k)
      BY <1>3, <2>1, Zenon DEF AllMatched
    <2>3. Alive(s, k + Step(0))
      BY <2>1, <2>2, AliveStep, Zenon
    <2>4. Step(0) = 1
      BY Zenon DEF Step
    <2> QED
      BY <2>1, <2>3, <2>4, Zenon
  <1>4. i .. j \subseteq T
    <2> HIDE DEF T
    <2> QED
      BY <1>1, <1>2, <1>3, IntervalInduction, Zenon
  <1> QED
    BY <1>1, <1>4, Zenon

\* The part of the line from i up to k is free of comments if it begins with a
\* quote and the match at i, or the rest of the line if there is none, covers it.
LEMMA PartFree ==
    ASSUME NEW s \in Seq(Chars), NEW i \in 1 .. Len(s), NEW k \in i + 1 .. Len(s) + 1,
           NEW n \in Nat, Hidden(s, i, n), n = 0 \/ k <= i + n
    PROVE  TextFree(s, i, SubSeq(s, i, k - 1))
  <1> DEFINE text == SubSeq(s, i, k - 1)
  <1>1. Len(s) \in Nat
    BY SeqIsFunction
  <1>2. text[1] = s[i] /\ Len(text) = k - i
    <2>1. i \in Nat /\ k - 1 \in Nat /\ i <= k - 1 /\ k - 1 <= Len(s)
      BY <1>1
    <2> QED
      BY <1>1, <2>1
  <1> HIDE DEF text
  <1>3. ASSUME s[i] \in QuoteMarks, NEW c \in findCommentStart(s)
        PROVE  c \notin i .. i + Len(text) - 1
    <2>1. c \notin i .. IF n = 0 THEN Len(s) ELSE i + n - 1
      BY <1>3, Zenon DEF Hidden
    <2>2. \A x : x \in i .. i + Len(text) - 1 => x \in i .. IF n = 0 THEN Len(s) ELSE i + n - 1
      <3>1. CASE n = 0
        BY <1>1, <1>2, <3>1
      <3>2. CASE n # 0
        BY <1>1, <1>2, <3>2
      <3> QED
        BY <3>1, <3>2, Zenon
    <2> QED
      BY <2>1, <2>2, Zenon
  <1>4. TextFree(s, i, text)
    BY <1>2, <1>3, Zenon DEF TextFree, Free
  <1> QED
    BY <1>4, Zenon DEF text

\* No comment starts in a quoted token.
LEMMA ScanPlaced ==
    ASSUME NEW language, NEW s \in Seq(Chars), NEW length, Fits(s, length),
           AllMatched(s, length)
    PROVE  \A i \in 1 .. Len(s) + 1 :
             Alive(s, i) => Placed(ScanOf(language, s, length)[i], i, s)
  <1> DEFINE scan == ScanOf(language, s, length)
             after(i) == After(s, length, i)
             P == {i \in 1 .. Len(s) + 1 : Alive(s, i) => Placed(scan[i], i, s)}
  <1>1. Len(s) \in Nat
    BY SeqIsFunction
  <1>2. ASSUME NEW i \in 1 .. Len(s) + 1, NEW k \in i .. Len(s) + 1, Alive(s, i),
               k > i => length[i] = 0
        PROVE  Placed(Plain(SubSeq(s, i, k - 1)), i, s)
    <2>1. CASE k = i
      <3> DEFINE text == SubSeq(s, i, k - 1)
      <3>1. text = <<>> /\ i \in Int /\ text \in Seq(Chars)
        BY <1>1, <2>1
      <3> HIDE DEF text
      <3>2. Placed(Plain(text), i, s)
        BY <3>1, PlacedPlain, Zenon
      <3> QED
        BY <3>2, Zenon DEF text
    <2>2. CASE k # i
      <3> DEFINE text == SubSeq(s, i, k - 1)
      <3>1. /\ i \in 1 .. Len(s) /\ k \in i + 1 .. Len(s) + 1 /\ k > i /\ i \in Int
            /\ text \in Seq(Chars) /\ 0 \in Nat
        BY <1>1, <2>2
      <3>2. Matched(s, i, 0, QuoteMarks)
        BY <1>2, <3>1, Zenon DEF AllMatched
      <3>3. Hidden(s, i, 0)
        BY <1>2, <3>1, <3>2, AliveStep, Zenon
      <3>4. TextFree(s, i, text)
        BY <3>1, <3>3, PartFree, Zenon
      <3> HIDE DEF text
      <3>5. Placed(Plain(text), i, s)
        BY <3>1, <3>4, PlacedPlain, Zenon
      <3> QED
        BY <3>5, Zenon DEF text
    <2> QED
      BY <2>1, <2>2, Zenon
  <1>3. ASSUME NEW i \in 1 .. Len(s) + 1, NoMatch(s, length, i) \/ after(i) \in P,
               Alive(s, i)
        PROVE  Placed(scan[i], i, s)
    <2>1. CASE NoMatch(s, length, i)
      <3>1. scan[i] = Plain(SubSeq(s, i, Len(s)))
        BY <2>1, ScanEquation, Zenon
      <3> DEFINE k == Len(s) + 1
      <3>2. k \in i .. Len(s) + 1 /\ (k > i => i \in i .. Len(s)) /\ k - 1 = Len(s)
        BY <1>1
      <3>3. k > i => length[i] = 0
        BY <2>1, <3>2, Zenon DEF NoMatch
      <3>4. Placed(Plain(SubSeq(s, i, k - 1)), i, s)
        <4> HIDE DEF k
        <4> QED
          BY <1>2, <1>3, <3>2, <3>3, Zenon
      <3> QED
        BY <3>1, <3>2, <3>4, Zenon
    <2>2. CASE ~NoMatch(s, length, i)
      <3> DEFINE j == StartAt(s, length, i)
                 n == length[j]
                 k == after(i)
                 before == Plain(SubSeq(s, i, j - 1))
                 text == SubSeq(s, j, k - 1)
                 token == Token(text, TypeOf(language, text))
                 head == HeadAt(language, s, length, i)
      <3>1. /\ j \in i .. Len(s) /\ n \in 1 .. Len(s) + 1 - j /\ k = j + n
            /\ k \in i + 1 .. Len(s) + 1 /\ \A h \in i .. j - 1 : length[h] = 0
        BY <2>2, StartFound, Zenon DEF After
      <3>2. head = before \o <<token>>
        <4>1. k - 1 = j + (n - 1)
          <5> HIDE DEF j, n, k
          <5> QED
            BY <1>1, <3>1
        <4>2. TextAt(s, length, j) = text
          BY <4>1, Zenon DEF TextAt
        <4> HIDE DEF j, k, text
        <4>3. head = Plain(SubSeq(s, i, j - 1))
                     \o <<Token(TextAt(s, length, j), TypeOf(language, TextAt(s, length, j)))>>
          BY Zenon DEF HeadAt, j
        <4> QED
          BY <4>2, <4>3, Zenon
      <3>3. scan[i] = head \o scan[k]
        BY <2>2, ScanEquation, Zenon
      <3>4. head \in Seq(TokenSet) /\ Rendered(head) = SubSeq(s, i, k - 1)
        BY <2>2, HeadShows, Zenon
      <3>5. Alive(s, k) => Placed(scan[k], k, s)
        BY <1>3, <2>2, Zenon
      <3>6. scan[k] \in Seq(TokenSet)
        <4>1. k \in 1 .. Len(s) + 1
          BY <1>1, <3>1
        <4> HIDE DEF k
        <4> QED
          BY <4>1, ScanShows, Zenon
      <3> HIDE DEF j, n, k, head, scan
      <3>7. /\ j \in i .. Len(s) + 1 /\ j \in 1 .. Len(s) /\ k \in j + 1 .. Len(s) + 1
            /\ n \in Nat /\ n # 0 /\ k <= j + n /\ (j > i => i \in i .. j - 1)
            /\ i \in Int /\ j \in Int /\ k \in Int /\ i + (j - i) = j /\ i + (k - i) = k
            /\ text \in Seq(Chars) /\ Len(SubSeq(s, i, j - 1)) = j - i
            /\ Len(SubSeq(s, i, k - 1)) = k - i /\ SubSeq(s, i, j - 1) \in Seq(Chars)
        BY <1>1, <3>1
      <3>8. Alive(s, j)
        BY <1>3, <3>1, <3>7, AliveRun, Zenon
      <3>9. Alive(s, k) /\ Hidden(s, j, n)
        <4>1. Matched(s, j, n, QuoteMarks)
          BY <3>7, Zenon DEF AllMatched, n
        <4>2. Alive(s, j + Step(n)) /\ Hidden(s, j, n)
          BY <3>7, <3>8, <4>1, AliveStep, Zenon
        <4> QED
          BY <3>1, <3>7, <4>2, Zenon DEF Step
      <3>10. Placed(before, i, s)
        BY <1>2, <1>3, <3>1, <3>7, Zenon
      <3>11. Placed(<<token>>, j, s)
        <4>1. TextFree(s, j, text)
          BY <3>7, <3>9, PartFree, Zenon
        <4>2. token \in TokenSet /\ token.text = text
          BY <3>7, TypeOfType, TokenType, Zenon
        <4> HIDE DEF token, text
        <4> QED
          BY <3>7, <4>1, <4>2, PlacedOne, Zenon
      <3>12. Placed(head, i, s)
        <4>1. before \in Seq(TokenSet) /\ Rendered(before) = SubSeq(s, i, j - 1)
          BY <3>7, PlainShows, Zenon
        <4>2. <<token>> \in Seq(TokenSet)
          BY <3>7, TypeOfType, TokenShows, Zenon
        <4>3. i + Len(Rendered(before)) = j
          BY <3>7, <4>1, Zenon
        <4> HIDE DEF before, token
        <4> QED
          BY <3>2, <3>7, <3>10, <3>11, <4>1, <4>2, <4>3, PlacedConcat, Zenon
      <3>13. i + Len(Rendered(head)) = k
        BY <3>4, <3>7, Zenon
      <3> QED
        BY <3>3, <3>4, <3>5, <3>6, <3>7, <3>9, <3>12, <3>13, PlacedConcat, Zenon
    <2> QED
      BY <2>1, <2>2, Zenon
  <1>4. \A i \in 1 .. Len(s) + 1 : (NoMatch(s, length, i) \/ after(i) \in P) => i \in P
    BY <1>3, Zenon
  <1>5. 1 .. Len(s) + 1 \subseteq P
    <2> HIDE DEF P
    <2> QED
      BY <1>4, ScanInduction, Zenon
  <1> QED
    BY <1>5, Zenon

-----------------------------------------------------------------------------
(* Lines of code.                                                          *)

\* The lines of a language are made of the characters the patterns tell apart.
LEMMA AlphabetChars ==
    ASSUME NEW language \in Languages, NEW s \in Seq(Alphabet(language))
    PROVE  s \in Seq(Chars)
  <1>2. Alphabet(language) \subseteq Chars
    <2>1. CASE language = "yaml"
      BY <2>1, Zenon DEF Alphabet, Chars
    <2>2. CASE language = "bash"
      BY <2>2, Zenon DEF Alphabet, Chars
    <2>3. CASE language = "go"
      BY <2>3, Zenon DEF Alphabet, Chars
    <2>4. CASE language = "json"
      BY <2>4, Zenon DEF Alphabet, Chars
    <2>5. CASE language = "text"
      BY <2>5, Zenon DEF Alphabet, Chars
    <2> QED
      BY <2>1, <2>2, <2>3, <2>4, <2>5, Zenon DEF Languages
  <1>3. \A i \in 1 .. Len(s) : s[i] \in Chars
    BY <1>2, SeqIsFunction, Zenon
  <1> QED
    BY <1>3, SeqOfOthers, Zenon

\* In a JSON line without single quotes the strings are all quotations.
LEMMA JsonMatched ==
    ASSUME NEW s, NEW i \in 1 .. Len(s), NEW n, s[i] # "sq", Matched(s, i, n, {"dq"})
    PROVE  Matched(s, i, n, QuoteMarks)
  BY Zenon DEF Matched, QuoteMarks

\* Where a line without the characters that only the patterns or only the scan
\* for a comment knows is matched, it is matched by a quotation or by text
\* without quotes.
LEMMA LanguageMatched ==
    ASSUME NEW language \in {"yaml", "bash", "json"}, NEW s \in Seq(Alphabet(language)),
           Range(s) \cap KnownToOne(language) = {}
    PROVE  s \in Seq(Chars) /\ AllMatched(s, MatchesOf(language, s))
  <1>1. language \in Languages /\ language \in PatternLanguages
    BY Zenon DEF Languages, PatternLanguages
  <1>2. s \in Seq(Chars)
    BY <1>1, AlphabetChars, Zenon
  <1>5. \A j \in 1 .. Len(s) : s[j] \in Range(s)
    <2>1. DOMAIN s = 1 .. Len(s)
      BY <1>2, SeqIsFunction, Zenon
    <2> SUFFICES ASSUME NEW j \in 1 .. Len(s) PROVE s[j] \in Range(s)
      OBVIOUS
    <2> QED
      BY <2>1, Zenon DEF Range
  <1>6. \A j \in 1 .. Len(s) : s[j] \notin KnownToOne(language)
    BY <1>5, Zenon
  <1>3. ASSUME NEW i \in 1 .. Len(s)
        PROVE  Matched(s, i, MatchAt(language, s, i), QuoteMarks)
    <2>1. CASE language = "yaml"
      <3>1. KnownToOne(language) = {"{", "["}
        BY <2>1, Zenon DEF KnownToOne
      <3>2. "{" # s[i] /\ "[" # s[i]
        BY <1>6, <3>1, Zenon
      <3> QED
        BY <1>2, <2>1, <3>2, YamlMatch, Zenon
    <2>2. CASE language = "bash"
      <3>1. KnownToOne(language) = {"{"}
        BY <2>2, Zenon DEF KnownToOne
      <3>2. At(s, i + 1) # "{"
        <4>1. "{" # ""
          BY Zenon
        <4>2. At(s, i + 1) = "{" => i + 1 \in 1 .. Len(s) /\ s[i + 1] = "{"
          BY <1>2, <4>1, OneOfTheLine, Zenon
        <4> QED
          BY <1>6, <3>1, <4>2, Zenon
      <3> QED
        BY <1>2, <2>2, <3>2, BashMatch, Zenon
    <2>3. CASE language = "json"
      <3>1. KnownToOne(language) = {"sq", "bs"}
        BY <2>3, Zenon DEF KnownToOne
      <3>2. \A j \in 1 .. Len(s) : s[j] # "sq" /\ s[j] # "bs"
        BY <1>6, <3>1, Zenon
      <3>3. Matched(s, i, MatchAt("json", s, i), {"dq"})
        BY <1>2, <3>2, JsonMatch, Zenon
      <3> QED
        BY <2>3, <3>2, <3>3, JsonMatched, Zenon
    <2> QED
      BY <2>1, <2>2, <2>3, Zenon
  <1>4. \A i \in 1 .. Len(s) : MatchesOf(language, s)[i] = MatchAt(language, s, i)
    BY <1>1, <1>2, MatchesFit, Zenon
  <1> QED
    BY <1>2, <1>3, <1>4, Zenon DEF AllMatched

\* No comment starts inside of the strings of tokens that are placed in the line.
LEMMA PlacedFree ==
    ASSUME NEW s, NEW tokens \in Seq(TokenSet), Placed(tokens, 1, s)
    PROVE  LET offset(k) == Len(Rendered(SubSeq(tokens, 1, k - 1)))
           IN \A i \in findCommentStart(s), k \in DOMAIN tokens :
                 tokens[k].text[1] \in QuoteMarks
                   => i \notin offset(k) + 1 .. offset(k) + Len(tokens[k].text)
  <1> DEFINE offset(k) == Len(Rendered(SubSeq(tokens, 1, k - 1)))
  <1>1. DOMAIN tokens = 1 .. Len(tokens) /\ Len(tokens) \in Nat
    BY SeqIsFunction
  <1>2. ASSUME NEW k \in DOMAIN tokens, NEW i \in findCommentStart(s),
               tokens[k].text[1] \in QuoteMarks
        PROVE  i \notin offset(k) + 1 .. offset(k) + Len(tokens[k].text)
    <2> DEFINE m == Len(tokens[k].text)
               o == offset(k)
    <2>1. tokens[k] \in TokenSet /\ SubSeq(tokens, 1, k - 1) \in Seq(TokenSet)
      BY <1>1
    <2>2. tokens[k].text \in Seq(Chars)
      BY <2>1 DEF TokenSet
    <2>3. m \in Nat
      BY <2>2, SeqIsFunction, Zenon
    <2>4. o \in Nat
      BY <2>1, RenderedType, SeqIsFunction, Zenon
    <2>5. i \notin 1 + o .. 1 + o + m - 1
      BY <1>1, <1>2, Zenon DEF Placed, TextFree, Free
    <2> HIDE DEF m, o
    <2>6. 1 + o .. 1 + o + m - 1 = o + 1 .. o + m
      BY <2>3, <2>4
    <2> QED
      BY <2>5, <2>6, Zenon DEF m, o
  <1> QED
    BY <1>2, Zenon

\* A scan of such matches places its tokens.
LEMMA MatchedPlaced ==
    ASSUME NEW language \in PatternLanguages, NEW s \in Seq(Chars),
           AllMatched(s, MatchesOf(language, s))
    PROVE  Placed(Scan(language, s), 1, s)
  <1> DEFINE length == MatchesOf(language, s)
  <1>1. Fits(s, length)
    BY MatchesFit, Zenon
  <1>2. 1 \in 1 .. Len(s) + 1
    <2>1. Len(s) \in Nat
      BY SeqIsFunction
    <2> QED
      BY <2>1
  <1>3. Alive(s, 1)
    BY QuotesEquation, Zenon DEF Alive
  <1>4. Scan(language, s) = ScanOf(language, s, length)[1]
    BY TokensIsScan, Zenon DEF Scan, MatchesOf
  <1> HIDE DEF length
  <1>5. AllMatched(s, length)
    BY Zenon DEF length
  <1> QED
    BY <1>1, <1>2, <1>3, <1>4, <1>5, ScanPlaced, Zenon

\* No comment starts inside of what the patterns take for a string in quotes.
LEMMA QuotedFree ==
    ASSUME NEW language \in {"yaml", "bash", "json"}, NEW s \in Seq(Alphabet(language)),
           Range(s) \cap KnownToOne(language) = {}
    PROVE  LET tokens == Scan(language, s)
               offset(k) == Len(Rendered(SubSeq(tokens, 1, k - 1)))
           IN \A i \in findCommentStart(s), k \in DOMAIN tokens :
                 tokens[k].text[1] \in {"sq", "dq"}
                   => i \notin offset(k) + 1 .. offset(k) + Len(tokens[k].text)
  <1> DEFINE tokens == Scan(language, s)
  <1>1. language \in PatternLanguages
    BY Zenon DEF PatternLanguages
  <1>2. s \in Seq(Chars) /\ AllMatched(s, MatchesOf(language, s))
    BY LanguageMatched, Zenon
  <1>3. tokens \in Seq(TokenSet)
    BY <1>1, <1>2, ScanIsTheLine, Zenon
  <1>4. Placed(tokens, 1, s)
    BY <1>1, <1>2, MatchedPlaced, Zenon
  <1> HIDE DEF tokens
  <1> QED
    BY <1>3, <1>4, PlacedFree, Zenon DEF tokens, QuoteMarks

-----------------------------------------------------------------------------
(* The code block.                                                         *)

\* The line of a code block is one of its language, whether it is still shown or
\* not.
CodeInv ==
    widget = "code" =>
      /\ DOMAIN ui = {"mounted", "language", "line"}
      /\ ui.language \in Languages /\ ui.line \in Seq(Alphabet(ui.language))

\* A code block begins with an empty line.
LEMMA CodeBegins == ASSUME CodeInit PROVE CodeInv
  <1>1. ui \in [mounted : {TRUE}, language : Languages, line : {<<>>}]
    BY Zenon DEF CodeInit
  <1>2. /\ DOMAIN ui = {"mounted", "language", "line"} /\ ui.language \in Languages
        /\ ui.line = <<>>
    BY <1>1
  <1> DEFINE S == Alphabet(ui.language)
  <1> HIDE DEF S
  <1>3. <<>> \in Seq(S)
    OBVIOUS
  <1> QED
    BY <1>2, <1>3, Zenon DEF CodeInv, S

\* A character of the language is added.
LEMMA CodeKept == ASSUME CodeInv, CodeLine PROVE CodeInv'
  <1>1. widget = "code" /\ UNCHANGED widget
    BY Zenon DEF CodeLine, On, Becomes
  <1>2. PICK c \in Alphabet(ui.language) : ui' = [ui EXCEPT !.line = Append(@, c)]
    BY Zenon DEF CodeLine, Becomes
  <1>3. /\ DOMAIN ui = {"mounted", "language", "line"}
        /\ ui.language \in Languages /\ ui.line \in Seq(Alphabet(ui.language))
    BY <1>1, Zenon DEF CodeInv
  <1> DEFINE S == Alphabet(ui.language)
             line == Append(ui.line, c)
  <1> HIDE DEF S
  <1>4. c \in S /\ ui.line \in Seq(S)
    BY <1>3, Zenon DEF S
  <1>5. line \in Seq(S)
    BY <1>4
  <1>6. /\ DOMAIN ui' = {"mounted", "language", "line"} /\ ui'.language = ui.language
        /\ ui'.line = line
    BY <1>2, <1>3
  <1> HIDE DEF line
  <1> QED
    BY <1>3, <1>5, <1>6, Zenon DEF CodeInv, S

\* What the highlighter promises holds of every line.
LEMMA CodeHolds == ASSUME CodeInv PROVE TokensAreTheLine /\ QuotedHashIsCode
  <1> SUFFICES ASSUME widget = "code" PROVE TokensAreTheLine /\ QuotedHashIsCode
    BY Zenon DEF TokensAreTheLine, QuotedHashIsCode
  <1>1. ui.language \in Languages /\ ui.line \in Seq(Alphabet(ui.language))
    BY Zenon DEF CodeInv
  <1>2. ui.line \in Seq(Chars)
    BY <1>1, AlphabetChars, Zenon
  <1>3. TokensAreTheLine
    BY <1>1, <1>2, LineShows, Zenon DEF TokensAreTheLine
  <1>4. QuotedHashIsCode
    BY <1>1, QuotedFree, Zenon DEF QuotedHashIsCode
  <1> QED
    BY <1>3, <1>4, Zenon
=============================================================================
