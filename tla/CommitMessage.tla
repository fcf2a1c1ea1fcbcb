--------------------------- MODULE CommitMessage ---------------------------
(***************************************************************************)
(* The message of an automatic commit: what the plugin makes of the answer *)
(* of its helper session.  A text is the sequence of its lines, a line one *)
(* of "blank", "quotes" (double quotation marks and nothing else), "fence" *)
(* (other quotation marks, as those of a code fence), "brace" (an opening  *)
(* brace), "field" (the subject field of a JSON object with something in   *)
(* it or after it), "emptyField" (that field, empty and alone) and "words".*)
(***************************************************************************)
EXTENDS Page, Arrays

CONSTANT MaxLines   \* the lines of an answer

ASSUME AnswerAssumption == MaxLines \in Nat

NoMessage == [subject |-> "null", body |-> <<>>]

\* Texts of at most n lines.
UpTo(n, lines) == UNION {[1 .. m -> lines] : m \in 0 .. n}

\* A subject as the helper gives it in a field; <<>> for none.  "quotes" are
\* quotation marks of any kind here.
Subjects == UpTo(MaxLines, {"blank", "quotes", "words"})

Texts ==
    UpTo(MaxLines, {"blank", "quotes", "fence", "brace", "field", "emptyField", "words"})

\* structured is the subject in the structured output; json is "none" if the
\* text holds nothing like an object, "broken" if it does not parse, otherwise
\* the subject in it; text is all the text of the answer.
Answers ==
    {a \in [structured : Subjects, json : {<<"none">>, <<"broken">>} \cup Subjects,
            text : Texts] :
       a.json # <<"none">> => Range(a.text) \cap {"brace", "field", "emptyField"} # {}}

HasText(s) == Range(s) \ {"blank"} # {}

\* The first line without quotation marks and white space around it.
sanitizeSubject(s) ==
    IF s = <<>> \/ s[1] \in {"blank", "quotes", "fence"} THEN "" ELSE s[1]

\* The value of a subject field, if the line is one.
SubjectValue(line) ==
    CASE line = "field" -> <<"words">> [] line = "emptyField" -> <<>> [] OTHER -> <<line>>

\* Mutant: an empty subject is taken.
fromProseTextEmpty(text) ==
    LET lines == Without(text, {"blank"}) IN
    IF lines = <<>> THEN NoMessage
    ELSE [subject |-> sanitizeSubject(SubjectValue(lines[1])),
          body |-> Without(Tail(lines), {"quotes", "brace"})]

\* The first line that is not blank; what is around the value of a subject
\* field is cut off.  Braces and double quotation marks are taken out of the
\* body.
fromProseText(text) ==
    LET lines == Without(text, {"blank"})
        subject == sanitizeSubject(SubjectValue(lines[1]))
    IN IF lines = <<>> THEN NoMessage
       ELSE IF subject = "" THEN NoMessage
       ELSE [subject |-> subject,
             body |-> Without(Tail(lines), {"quotes", "brace"})]

extractMessage(a) ==
    IF HasText(a.structured)
    THEN [subject |-> sanitizeSubject(a.structured), body |-> <<>>]
    ELSE IF a.json \in Subjects /\ HasText(a.json)
    THEN [subject |-> sanitizeSubject(a.json), body |-> <<>>]
    ELSE fromProseText(a.text)

fallbackMessage == [subject |-> "fallback", body |-> <<"words">>]

MessageInit ==
    /\ widget = "message" /\ pending = Nothing
    /\ \E a \in Answers :
          ui = [mounted |-> TRUE, answer |-> a, generated |-> FALSE,
                message |-> NoMessage]

\* The helper has answered, or has failed or taken too long.
finalMessage(generated) ==
    /\ On("message") /\ ui.message = NoMessage
    /\ LET message == IF generated THEN extractMessage(ui.answer) ELSE NoMessage
       IN Becomes([ui EXCEPT !.generated = generated,
                     !.message = IF message = NoMessage THEN fallbackMessage
                                 ELSE message], pending)

MessageNext == \E generated \in BOOLEAN : finalMessage(generated)

\* The commit has a subject, and the fallback stands in exactly if there is no
\* answer, no line in it, or if no subject field is filled and the first line
\* is only quotation marks, a code fence say, or an empty field: the words after
\* such a line are not looked at.  The subject is empty only if the helper
\* filled a subject field whose first line has nothing but quotation marks or
\* white space.
CommitHasSubject ==
    widget = "message" /\ ui.message # NoMessage =>
      LET a == ui.answer
          fields == HasText(a.structured) \/ (a.json \in Subjects /\ HasText(a.json))
          lines == Without(a.text, {"blank"})
      IN /\ ui.message.subject = "fallback"
               <=> \/ ~ui.generated
                   \/ /\ ~fields
                      /\ lines = <<>> \/ lines[1] \in {"quotes", "fence", "emptyField"}
         /\ ui.message.subject = "" => fields
         /\ ui.generated /\ a.structured # <<>> /\ a.structured[1] = "words"
               => ui.message.subject = "words"
=============================================================================
