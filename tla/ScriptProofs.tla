---------------------------- MODULE ScriptProofs ----------------------------
(***************************************************************************)
(* The scripts and the plugin: that commit flows exclude each other and    *)
(* never start from the work of the plugin itself, that a commit has a     *)
(* subject whatever the model answers, and that no diagram is lost.        *)
(***************************************************************************)
EXTENDS SkillScripts, CommitMessage, AutoCommit, SequenceProofs

-----------------------------------------------------------------------------
(* The plugin.                                                             *)

\* The awaits before a call has started its generator.
Early == {"off", "received", "rev-parse", "add", "list", "diff"}

\* A helper that can still become idle, is idle, or whose event is being looked
\* at is known; it becomes idle once, and one call handles that.
HelpersKnown ==
    /\ \A c \in Call : generator[c] = "prompt" => c \in internalSessions
    /\ \A c \in idle : c \in internalSessions
    /\ \A d \in Call : pc[d] = "received" /\ session[d] \in Call
                          => session[d] \in internalSessions

HelpersIdleOnce ==
    /\ \A c \in Call : generator[c] \in {"none", "create", "prompt"}
                          => c \notin idle /\ \A d \in Call : session[d] # c
    /\ \A c \in idle, d \in Call : session[d] # c
    /\ \A d, e \in Call : session[d] \in Call /\ session[d] = session[e] => d = e

CallsStart ==
    \A c \in Call : /\ pc[c] \in Early => generator[c] = "none"
                    /\ pc[c] = "off" => session[c] = "user"

\* The inductive invariant.
Inv == /\ TypeOK /\ OneFlow /\ HelperStartsNoFlow
       /\ HelpersKnown /\ HelpersIdleOnce /\ CallsStart

-----------------------------------------------------------------------------

\* The plugin starts with no call, no helper and busy not set.
LEMMA InitInv == AutoCommitInit => Inv
  <1> SUFFICES ASSUME AutoCommitInit PROVE Inv
      OBVIOUS
  <1> USE CallAssumption DEF AutoCommitInit, Flow, Early, Sessions, Generator
  <1>1. TypeOK BY Zenon DEF TypeOK
  <1>2. \A c \in Call : ~InFlow(c) BY SMT DEF InFlow
  <1>3. OneFlow BY <1>2, Zenon DEF OneFlow
  <1>4. HelperStartsNoFlow BY <1>2 DEF HelperStartsNoFlow
  <1>5. HelpersKnown /\ HelpersIdleOnce /\ CallsStart
        BY SMT DEF HelpersKnown, HelpersIdleOnce, CallsStart
  <1> QED BY <1>1, <1>3, <1>4, <1>5 DEF Inv

\* Every value the steps give the tree has its type.
LEMMA TreeType ==
    ASSUME tree \in [changed : BOOLEAN, staged : BOOLEAN]
    PROVE /\ [changed |-> FALSE, staged |-> tree.changed \/ tree.staged]
               \in [changed : BOOLEAN, staged : BOOLEAN]
          /\ [tree EXCEPT !.staged = FALSE] \in [changed : BOOLEAN, staged : BOOLEAN]
          /\ [tree EXCEPT !.changed = TRUE] \in [changed : BOOLEAN, staged : BOOLEAN]
  <1>1. (tree.changed \/ tree.staged) \in BOOLEAN BY Zenon
  <1>2. \A b \in BOOLEAN : [changed |-> FALSE, staged |-> b]
                              \in [changed : BOOLEAN, staged : BOOLEAN]
        BY SMT
  <1>3. /\ [tree EXCEPT !.staged = FALSE] \in [changed : BOOLEAN, staged : BOOLEAN]
        /\ [tree EXCEPT !.changed = TRUE] \in [changed : BOOLEAN, staged : BOOLEAN]
        BY Zenon
  <1> QED BY <1>1, <1>2, <1>3, Zenon

\* An idle helper is known when a call takes its event.
LEMMA SessionIdleInv ==
    ASSUME Inv, NEW c \in Call, NEW s \in Sessions, SessionIdle(c, s)
    PROVE Inv'
  <1> USE CallAssumption
      DEF Inv, SessionIdle, Moves, Sessions, Flow, Early, Generator
  <1>1. TypeOK' BY SMT DEF TypeOK
  <1>2. OneFlow' BY SMT DEF TypeOK, OneFlow, InFlow
  <1>3. HelperStartsNoFlow' BY SMT DEF TypeOK, HelperStartsNoFlow, InFlow
  <1>4. HelpersKnown' BY SMT DEF TypeOK, HelpersKnown
  <1>5. HelpersIdleOnce' BY SMT DEF TypeOK, HelpersIdleOnce
  <1>6. CallsStart' BY SMT DEF TypeOK, CallsStart
  <1> QED BY <1>1, <1>2, <1>3, <1>4, <1>5, <1>6

\* The decision uses that the session of an event is known if it is a helper.
LEMMA DecideInv ==
    ASSUME Inv, NEW c \in Call, Decide(c)
    PROVE Inv'
  <1> USE CallAssumption DEF Inv, Decide, Moves, Sessions, Flow, Early, Generator
  <1>0. busy' \in BOOLEAN BY Zenon DEF TypeOK
  <1>1. TypeOK' BY <1>0, SMT DEF TypeOK
  <1>2. OneFlow' BY SMT DEF TypeOK, OneFlow, InFlow
  <1>3. HelperStartsNoFlow'
        BY SMT DEF TypeOK, HelperStartsNoFlow, HelpersKnown, InFlow
  <1>4. HelpersKnown' BY SMT DEF TypeOK, HelpersKnown, HelpersIdleOnce
  <1>5. HelpersIdleOnce' BY SMT DEF TypeOK, HelpersIdleOnce
  <1>6. CallsStart' BY SMT DEF TypeOK, CallsStart
  <1> QED BY <1>1, <1>2, <1>3, <1>4, <1>5, <1>6

\* A step inside a flow moves its call, releases busy if it ends the flow, and
\* leaves the sessions alone.
LEMMA FlowInv ==
    ASSUME Inv, NEW c \in Call,
           GitReturns(c) \/ Timeout(c) \/ Generated(c) \/ Commit(c)
             \/ FlowEnds(c) \/ FlowFails(c)
    PROVE Inv'
  <1> USE CallAssumption DEF Inv, Moves, Finish, Sessions, Flow, Early, Generator
  <1>a. tree' \in [changed : BOOLEAN, staged : BOOLEAN]
        BY TreeType, Zenon DEF GitReturns, Timeout, Generated, RaceDecided, Commit,
                               FlowEnds, FlowFails, TypeOK
  <1>b. /\ pc[c] \in Flow
        /\ UNCHANGED <<internalSessions, session, generator, idle>>
        BY SMT DEF GitReturns, Timeout, Generated, RaceDecided, Commit, FlowEnds,
                   FlowFails
  <1>c. \/ pc' = [pc EXCEPT ![c] = "done"] /\ busy' = FALSE
        \/ \E p \in Flow : /\ pc' = [pc EXCEPT ![c] = p] /\ busy' = busy
                           /\ p \in Early => pc[c] \in Early
        BY SMT DEF GitReturns, Timeout, Generated, RaceDecided, Commit, FlowEnds,
                   FlowFails
  <1>d. busy' \in BOOLEAN BY <1>c, Zenon DEF TypeOK
  <1>1. TypeOK' BY <1>a, <1>b, <1>c, <1>d, SMT DEF TypeOK
  <1>2. OneFlow' BY <1>b, <1>c, SMT DEF TypeOK, OneFlow, InFlow
  <1>3. HelperStartsNoFlow' BY <1>b, <1>c, SMT DEF TypeOK, HelperStartsNoFlow, InFlow
  <1>4. HelpersKnown' BY <1>b, <1>c, SMT DEF TypeOK, HelpersKnown
  <1>5. HelpersIdleOnce' BY <1>b, <1>c, SMT DEF TypeOK, HelpersIdleOnce
  <1>6. CallsStart' BY <1>b, <1>c, SMT DEF TypeOK, CallsStart
  <1> QED BY <1>1, <1>2, <1>3, <1>4, <1>5, <1>6

\* The generator of a call starts once, and adds its helper before it can
\* become idle.
LEMMA GeneratorInv ==
    ASSUME Inv, NEW c \in Call,
           StartRace(c) \/ HelperCreated(c) \/ HelperAnswers(c) \/ HelperDeleted(c)
    PROVE Inv'
  <1> USE CallAssumption DEF Inv, StartRace, HelperCreated, HelperAnswers,
          HelperDeleted, Moves, Sessions, Flow, Early, Generator
  <1>1. TypeOK' BY SMT DEF TypeOK
  <1>2. OneFlow' BY SMT DEF TypeOK, OneFlow, InFlow
  <1>3. HelperStartsNoFlow' BY SMT DEF TypeOK, HelperStartsNoFlow, InFlow
  <1>4. HelpersKnown' BY SMT DEF TypeOK, HelpersKnown
  <1>5. HelpersIdleOnce' BY SMT DEF TypeOK, HelpersIdleOnce, CallsStart
  <1>6. CallsStart' BY SMT DEF TypeOK, CallsStart
  <1> QED BY <1>1, <1>2, <1>3, <1>4, <1>5, <1>6

\* Work in the tree, and stuttering, change none of it.
LEMMA OtherInv ==
    ASSUME Inv, Work \/ UNCHANGED vars
    PROVE Inv'
  <1>1. tree' \in [changed : BOOLEAN, staged : BOOLEAN]
        BY TreeType, Zenon DEF Work, vars, Inv, TypeOK
  <1>2. UNCHANGED <<busy, internalSessions, pc, session, generator, idle>>
        BY DEF Work, vars
  <1> QED
      BY <1>1, <1>2, Zenon
         DEF Inv, TypeOK, OneFlow, HelperStartsNoFlow, HelpersKnown,
             HelpersIdleOnce, CallsStart, InFlow

\* Every step of the plugin, its helpers or the sessions keeps the invariant.
LEMMA StepInv ==
    ASSUME Inv, [AutoCommitNext]_vars
    PROVE Inv'
  <1>1. CASE Work \/ UNCHANGED vars BY <1>1, OtherInv
  <1>2. CASE \E c \in Call, s \in Sessions : SessionIdle(c, s)
        BY <1>2, SessionIdleInv
  <1>3. CASE \E c \in Call : Decide(c) BY <1>3, DecideInv
  <1>4. CASE \E c \in Call : GitReturns(c) \/ Timeout(c) \/ Generated(c)
                                \/ Commit(c) \/ FlowEnds(c) \/ FlowFails(c)
        BY <1>4, FlowInv
  <1>5. CASE \E c \in Call : StartRace(c) \/ HelperCreated(c)
                                \/ HelperAnswers(c) \/ HelperDeleted(c)
        BY <1>5, GeneratorInv
  <1> QED BY <1>1, <1>2, <1>3, <1>4, <1>5 DEF AutoCommitNext, FlowStep

\* The invariant holds in every state of the plugin.
LEMMA AlwaysInv == AutoCommitSpec => []Inv
  BY InitInv, StepInv, PTL DEF AutoCommitSpec

\* At most one call of the event hook is between the claim and the release of
\* busy, for any number of idle events handled concurrently.
THEOREM FlowsExclude == AutoCommitSpec => []OneFlow
  <1>1. Inv => OneFlow BY DEF Inv
  <1> QED BY <1>1, AlwaysInv, PTL

\* No idle event of a helper session ever starts a commit flow.
THEOREM PluginIgnoresHelpers == AutoCommitSpec => []HelperStartsNoFlow
  <1>1. Inv => HelperStartsNoFlow BY DEF Inv
  <1> QED BY <1>1, AlwaysInv, PTL

-----------------------------------------------------------------------------
(* The message of a commit.                                                *)

\* What the plugin commits with, for an answer or without one.
Outcome(a, generated) ==
    LET message == IF generated THEN extractMessage(a) ELSE NoMessage
    IN IF message = NoMessage THEN fallbackMessage ELSE message

\* The message is not made yet, or made from the answer.
MessageInv ==
    widget = "message" =>
      \E a \in Answers, generated \in BOOLEAN :
         \E message \in {NoMessage, Outcome(a, generated)} :
            ui = [mounted |-> TRUE, answer |-> a, generated |-> generated,
                  message |-> message]

\* The message is not made at first.
LEMMA MessageBegins == ASSUME MessageInit PROVE MessageInv
  BY Zenon DEF MessageInit, MessageInv

\* It is made from the answer, once.
LEMMA MessageKept == ASSUME MessageInv, MessageNext PROVE MessageInv'
  <1>1. PICK generated \in BOOLEAN : finalMessage(generated)
    BY Zenon DEF MessageNext
  <1>2. widget = "message" /\ ui.message = NoMessage
    BY <1>1, Zenon DEF finalMessage, On
  <1>3. PICK a \in Answers, g \in BOOLEAN :
           \E m \in {NoMessage, Outcome(a, g)} :
              ui = [mounted |-> TRUE, answer |-> a, generated |-> g, message |-> m]
    BY <1>2, Zenon DEF MessageInv
  <1>4. ui' = [ui EXCEPT !.generated = generated, !.message = Outcome(ui.answer, generated)]
    BY <1>1, Zenon DEF finalMessage, Becomes, Outcome
  <1>5. ui' = [mounted |-> TRUE, answer |-> a, generated |-> generated,
               message |-> Outcome(a, generated)]
    <2>1. PICK m : ui = [mounted |-> TRUE, answer |-> a, generated |-> g, message |-> m]
      BY <1>3, Zenon
    <2> QED
      BY <1>4, <2>1, Zenon
  <1> QED
    BY <1>5, Zenon DEF MessageInv

\* A short sequence is a sequence.
LEMMA UpToIsSeq ==
    ASSUME NEW S, NEW n \in Nat, NEW s \in UpTo(n, S)
    PROVE  s \in Seq(S)
  <1>1. PICK m \in 0 .. n : s \in [1 .. m -> S]
    BY DEF UpTo
  <1>2. m \in Nat
    OBVIOUS
  <1> QED
    BY <1>1, <1>2, FunctionIsSeq, Zenon

\* Every message made from an answer has a subject.
LEMMA MessageHolds == ASSUME MessageInv PROVE CommitHasSubject
  <1> SUFFICES ASSUME widget = "message", ui.message # NoMessage PROVE CommitHasSubject
    BY Zenon DEF CommitHasSubject
  <1>1. PICK a \in Answers, g \in BOOLEAN :
           \E m \in {NoMessage, Outcome(a, g)} :
             ui = [mounted |-> TRUE, answer |-> a, generated |-> g, message |-> m]
    BY Zenon DEF MessageInv
  <1>2. ui.answer = a /\ ui.generated = g /\ ui.message = Outcome(a, g)
    BY <1>1
  <1> DEFINE Given == {"blank", "quotes", "words"}
             Line == {"quotes", "fence", "brace", "field", "emptyField", "words"}
             Void == {"quotes", "fence", "emptyField"}
             fields == HasText(a.structured) \/ (a.json \in Subjects /\ HasText(a.json))
             lines == Without(a.text, {"blank"})
  <1>3. /\ a.structured \in Seq(Given)
        /\ a.json \in Subjects => a.json \in Seq(Given)
        /\ a.text \in Seq(Line \cup {"blank"})
    <2>1. a.structured \in Subjects /\ a.text \in Texts
      BY DEF Answers
    <2>2. Line \cup {"blank"}
            = {"blank", "quotes", "fence", "brace", "field", "emptyField", "words"}
      OBVIOUS
    <2> QED
      BY <2>1, <2>2, AnswerAssumption, UpToIsSeq, Zenon DEF Subjects, Texts
  <1>4. lines \in Seq(Line)
    <2>1. (Line \cup {"blank"}) \ {"blank"} = Line
      OBVIOUS
    <2> QED
      BY <1>3, <2>1, WithoutType, Zenon
  <1>5. lines # <<>> => lines[1] \in Line
    BY <1>4
  <1>6. ASSUME NEW s \in Seq(Given)
        PROVE  sanitizeSubject(s) \in {"", "words"}
    <2>1. s # <<>> => s[1] \in Given
      BY <1>6
    <2> QED
      BY <2>1, Zenon DEF sanitizeSubject
  <1>7. NoMessage.subject = "null"
    BY DEF NoMessage
  <1>8. fields => extractMessage(a).subject \in {"", "words"}
    <2>1. ASSUME NEW s \in Seq(Given)
          PROVE  [subject |-> sanitizeSubject(s), body |-> <<>>].subject \in {"", "words"}
      BY <1>6, <2>1, Zenon
    <2> QED
      BY <1>3, <2>1, Zenon DEF extractMessage
  <1>9. fields /\ g => ui.message.subject \in {"", "words"}
    <2>1. extractMessage(a).subject \in {"", "words"} => extractMessage(a) # NoMessage
      BY <1>7, Zenon
    <2> QED
      BY <1>2, <1>8, <2>1, Zenon DEF Outcome
  <1>10. ~fields => extractMessage(a) = fromProseText(a.text)
    BY Zenon DEF extractMessage
  <1> HIDE DEF fields
  <1> DEFINE subject == sanitizeSubject(SubjectValue(lines[1]))
  <1>. HIDE DEF lines
  <1>11. lines # <<>> => IF lines[1] \in Void THEN subject = ""
                         ELSE subject \in {"brace", "words"}
    <2> SUFFICES ASSUME lines # <<>>
                 PROVE  IF lines[1] \in Void THEN subject = ""
                        ELSE subject \in {"brace", "words"}
      BY Zenon
    <2>1. CASE lines[1] = "field"
      <3>1. SubjectValue(lines[1]) = <<"words">>
        BY <2>1 DEF SubjectValue
      <3>2. sanitizeSubject(<<"words">>) = "words"
        BY DEF sanitizeSubject
      <3> QED
        BY <2>1, <3>1, <3>2
    <2>2. CASE lines[1] = "emptyField"
      <3>1. SubjectValue(lines[1]) = <<>>
        BY <2>2 DEF SubjectValue
      <3>2. sanitizeSubject(<<>>) = ""
        BY Zenon DEF sanitizeSubject
      <3> QED
        BY <2>2, <3>1, <3>2, Zenon
    <2>3. CASE lines[1] \in {"quotes", "fence", "brace", "words"}
      <3>1. SubjectValue(lines[1]) = <<lines[1]>>
        BY <2>3 DEF SubjectValue
      <3>2. <<lines[1]>> # <<>> /\ <<lines[1]>>[1] = lines[1]
        OBVIOUS
      <3>3. subject = IF lines[1] \in {"blank", "quotes", "fence"} THEN "" ELSE lines[1]
        BY <3>1, <3>2, Zenon DEF sanitizeSubject
      <3> QED
        BY <2>3, <3>3, Zenon
    <2> QED
      BY <1>5, <2>1, <2>2, <2>3, Zenon
  <1>12. "" \notin {"brace", "words"}
    BY Zenon
  <1>13. fromProseText(a.text) = IF lines = <<>> THEN NoMessage
                                ELSE IF subject = "" THEN NoMessage
                                ELSE [subject |-> subject,
                                      body |-> Without(Tail(lines), {"quotes", "brace"})]
    BY Zenon DEF fromProseText, lines
  <1> HIDE DEF subject
  <1>14. IF lines = <<>> \/ lines[1] \in Void THEN fromProseText(a.text) = NoMessage
         ELSE fromProseText(a.text).subject \in {"brace", "words"}
    <2>1. CASE lines = <<>> \/ lines[1] \in Void
      BY <1>11, <1>13, <2>1, Zenon
    <2>2. CASE lines # <<>> /\ lines[1] \notin Void
      <3>0. subject # ""
        BY <1>11, <1>12, <2>2, Zenon
      <3>1. fromProseText(a.text) = [subject |-> subject,
                                     body |-> Without(Tail(lines), {"quotes", "brace"})]
        BY <1>13, <2>2, <3>0, Zenon
      <3>2. fromProseText(a.text).subject = subject
        BY <3>1
      <3> QED
        BY <1>11, <2>2, <3>2, Zenon
    <2> QED
      BY <2>1, <2>2, Zenon
  <1>15. fallbackMessage.subject = "fallback"
    BY DEF fallbackMessage
  <1>16. ui.message.subject = "fallback"
           <=> ~g \/ (~fields /\ (lines = <<>> \/ lines[1] \in Void))
    <2>0. ~g \/ (~fields /\ (lines = <<>> \/ lines[1] \in Void))
            => ui.message.subject = "fallback"
      <3>1. ~g => Outcome(a, g) = fallbackMessage
        BY Zenon DEF Outcome
      <3>2. ~fields /\ (lines = <<>> \/ lines[1] \in Void) => Outcome(a, g) = fallbackMessage
        BY <1>10, <1>14, Zenon DEF Outcome
      <3> QED
        BY <1>2, <1>15, <3>1, <3>2, Zenon
    <2> SUFFICES ASSUME ui.message.subject = "fallback", g
                 PROVE  ~fields /\ (lines = <<>> \/ lines[1] \in Void)
      BY <2>0, Zenon
    <2>1. ~fields
      BY <1>9
    <2>2. fromProseText(a.text).subject \notin {"brace", "words"}
      <3> SUFFICES ASSUME fromProseText(a.text).subject \in {"brace", "words"} PROVE FALSE
        OBVIOUS
      <3>1. fromProseText(a.text) # NoMessage
        BY <1>7
      <3> QED
        BY <1>2, <1>10, <2>1, <3>1 DEF Outcome
    <2> QED
      BY <1>14, <2>1, <2>2, Zenon
  <1>17. ui.message.subject = "" => fields
    BY <1>2, <1>10, <1>14, <1>15, Zenon DEF Outcome
  <1>18. g /\ a.structured # <<>> /\ a.structured[1] = "words" => ui.message.subject = "words"
    <2> SUFFICES ASSUME g, a.structured # <<>>, a.structured[1] = "words"
                 PROVE  ui.message.subject = "words"
      OBVIOUS
    <2>1. 1 \in DOMAIN a.structured
      BY <1>3
    <2>2. "words" \in Range(a.structured)
      BY <2>1, Zenon DEF Range
    <2>3. HasText(a.structured)
      BY <2>2 DEF HasText
    <2>4. sanitizeSubject(a.structured) = "words"
      BY DEF sanitizeSubject
    <2>5. extractMessage(a) = [subject |-> "words", body |-> <<>>]
      BY <2>3, <2>4, Zenon DEF extractMessage
    <2> QED
      BY <1>2, <2>5 DEF Outcome, NoMessage
  <1> QED
    BY <1>2, <1>16, <1>17, <1>18, Zenon DEF CommitHasSubject, fields, lines

-----------------------------------------------------------------------------
(* The renderer.                                                           *)

\* The opening and the closing of the next block from i on, 0 for none.
OpenAt(s, i) == Min0({j \in i .. Len(s) : s[j] = "open"})

CloseAt(s, i) ==
    IF OpenAt(s, i) = 0 THEN 0
    ELSE Min0({j \in OpenAt(s, i) + 1 .. Len(s) : s[j] \notin Contents})

\* The blocks from each position on, as extractFrom computes them.
BlocksOf(s) ==
    CHOOSE f : f = [i \in 1 .. Len(s) + 1 |->
                      IF CloseAt(s, i) = 0 THEN <<>>
                      ELSE <<SubSeq(s, OpenAt(s, i) + 1, CloseAt(s, i) - 1)>>
                           \o f[CloseAt(s, i) + 1]]

\* The loop of the model is this function.
LEMMA ExtractIsBlocks ==
    ASSUME NEW s, NEW start
    PROVE  extractFrom(s, start) = BlocksOf(s)[start]
  BY Zenon DEF extractFrom, BlocksOf, CloseAt, OpenAt

\* Min0 is an element, or 0.
LEMMA Min0InSet ==
    ASSUME NEW T \in SUBSET Nat
    PROVE  Min0(T) \in T \cup {0}
  BY LeastElement, Zenon DEF Min0

\* A block closes after it opens.
LEMMA CloseIsLater ==
    ASSUME NEW s, Len(s) \in Nat, NEW i \in 1 .. Len(s) + 1, CloseAt(s, i) # 0
    PROVE  /\ OpenAt(s, i) \in i .. Len(s)
           /\ CloseAt(s, i) \in OpenAt(s, i) + 1 .. Len(s)
  <1> DEFINE opens == {j \in i .. Len(s) : s[j] = "open"}
             closes == {j \in OpenAt(s, i) + 1 .. Len(s) : s[j] \notin Contents}
  <1>1. opens \in SUBSET Nat
    OBVIOUS
  <1>2. OpenAt(s, i) \in opens
    BY <1>1, Min0InSet, Zenon DEF OpenAt, CloseAt
  <1>3. closes \in SUBSET Nat
    BY <1>2
  <1>4. CloseAt(s, i) \in closes
    BY <1>3, Min0InSet, Zenon DEF CloseAt
  <1> QED
    BY <1>2, <1>4

\* The blocks are a sequence.
LEMMA BlocksAreSeq ==
    ASSUME NEW S, NEW s \in Seq(S)
    PROVE  extractFrom(s, 1) \in Seq(Seq(S))
  <1> DEFINE n == Len(s) + 1
             next == [i \in 1 .. n |-> IF CloseAt(s, i) = 0 THEN 0 ELSE CloseAt(s, i) + 1]
             head == [i \in 1 .. n |->
                        IF CloseAt(s, i) = 0 THEN <<>>
                        ELSE <<SubSeq(s, OpenAt(s, i) + 1, CloseAt(s, i) - 1)>>]
             base == [i \in 1 .. n |-> <<>>]
             G(f, i) == IF CloseAt(s, i) = 0 THEN <<>>
                        ELSE <<SubSeq(s, OpenAt(s, i) + 1, CloseAt(s, i) - 1)>>
                             \o f[CloseAt(s, i) + 1]
  <1>1. Len(s) \in Nat /\ n \in Nat /\ 1 \in 1 .. n /\ \A i \in 1 .. Len(s) : s[i] \in S
    BY SeqIsFunction
  <1>2. ASSUME NEW i \in 1 .. n
        PROVE  /\ next[i] # 0 => next[i] \in i + 1 .. n
               /\ next[i] = 0 <=> CloseAt(s, i) = 0
               /\ next[i] # 0 => next[i] = CloseAt(s, i) + 1
    BY <1>1, CloseIsLater
  <1>3. ASSUME NEW i \in 1 .. n PROVE head[i] \in Seq(Seq(S))
    <2>1. CASE CloseAt(s, i) = 0
      <3>1. head[i] = <<>>
        BY <2>1, Zenon
      <3>2. <<>> \in Seq(Seq(S))
        OBVIOUS
      <3> QED
        BY <3>1, <3>2, Zenon
    <2>2. CASE CloseAt(s, i) # 0
      <3> DEFINE a == OpenAt(s, i) + 1
                 b == CloseAt(s, i) - 1
      <3>1. a \in Int /\ b \in Int /\ \A j \in a .. b : s[j] \in S
        BY <1>1, <2>2, CloseIsLater
      <3>2. SubSeq(s, a, b) \in Seq(S)
        <4> HIDE DEF a, b
        <4> QED
          BY <3>1
      <3> QED
        BY <2>2, <3>2, OneElement, Zenon
    <2> QED
      BY <2>1, <2>2, Zenon
  <1>4. ASSUME NEW i \in 1 .. n PROVE base[i] \in Seq(Seq(S))
    OBVIOUS
  <1>5. ASSUME NEW f, NEW i \in 1 .. n
        PROVE  G(f, i) = IF next[i] = 0 THEN base[i] ELSE head[i] \o f[next[i]]
    <2>1. CASE CloseAt(s, i) = 0
      BY <1>2, <2>1, Zenon
    <2>2. CASE CloseAt(s, i) # 0
      <3>1. head[i] = <<SubSeq(s, OpenAt(s, i) + 1, CloseAt(s, i) - 1)>>
        BY <2>2, Zenon
      <3> QED
        BY <1>2, <2>2, <3>1, Zenon
    <2> QED
      BY <2>1, <2>2, Zenon
  <1>6. BlocksOf(s) = CHOOSE f : f = [i \in 1 .. n |-> G(f, i)]
    BY Zenon DEF BlocksOf
  <1> HIDE DEF n, next, head, base, G
  <1>7. PICK f : IsChain(f, n, base, head, next)
    BY <1>1, <1>2, ChainFunction, Zenon
  <1>8. f = [i \in 1 .. n |-> G(f, i)]
    BY <1>5, <1>7, Zenon DEF IsChain
  <1>9. BlocksOf(s) = [i \in 1 .. n |-> G(BlocksOf(s), i)]
    BY <1>6, <1>8, Zenon
  <1>10. IsChain(BlocksOf(s), n, base, head, next)
    BY <1>5, <1>9, Zenon DEF IsChain
  <1>11. BlocksOf(s)[1] \in Seq(Seq(S))
    BY <1>1, <1>2, <1>3, <1>4, <1>10, ChainType, Zenon
  <1> QED
    BY <1>11, ExtractIsBlocks, Zenon

\* The first k blocks that dot has accepted are in the files of their names,
\* unless a later one of the same name is.
BlocksKept(blocks, report, files) ==
    \A i \in 1 .. Len(report) :
       report[i] => \E j \in i .. Len(report) :
                       blocks[j] = blocks[i] /\ <<blocks[j], j>> \in files

\* So they were before the file of the next block was cut.
CutKept(blocks, report, files) ==
    \E before : /\ BlocksKept(blocks, report, before)
               /\ {f \in before : f[1] # blocks[Len(report) + 1]} \subseteq files

\* The reports are those of the first blocks; the script goes on until it has
\* reported all of them, unless a file cannot be written.
RenderInv ==
    widget = "render" =>
      /\ DOMAIN ui = {"mounted", "combine", "markdown", "blocks", "files", "report", "phase"}
      /\ ui.combine \in BOOLEAN /\ ui.phase \in {"main", "render", "exit", "thrown"}
      /\ ui.blocks \in Seq(Range(ui.blocks)) /\ ui.report \in Seq(BOOLEAN)
      /\ ui.phase = "main" => ui.report = <<>>
      /\ ~ui.combine =>
           /\ ui.phase = "render" => Len(ui.report) < Len(ui.blocks)
           /\ ui.phase = "exit" /\ ui.report # <<>> => Len(ui.report) = Len(ui.blocks)
           /\ ui.phase # "thrown" => BlocksKept(ui.blocks, ui.report, ui.files)
           /\ ui.phase = "thrown" => CutKept(ui.blocks, ui.report, ui.files)

\* Nothing is reported at first.
LEMMA RenderBegins == ASSUME RenderInit PROVE RenderInv
  <1>1. PICK combine \in BOOLEAN, n \in 0 .. MaxTokens :
          \E s \in [1 .. n -> {"open", "fence"} \cup Contents] :
             ui = [mounted |-> TRUE, combine |-> combine, markdown |-> s,
                   blocks |-> extractDotBlocks(s), files |-> {}, report |-> <<>>,
                   phase |-> "main"]
    BY Zenon DEF RenderInit
  <1>2. PICK s \in [1 .. n -> {"open", "fence"} \cup Contents] :
             ui = [mounted |-> TRUE, combine |-> combine, markdown |-> s,
                   blocks |-> extractDotBlocks(s), files |-> {}, report |-> <<>>,
                   phase |-> "main"]
    BY <1>1, Zenon
  <1>3. n \in Nat
    BY ScriptAssumption
  <1>4. s \in Seq({"open", "fence"} \cup Contents)
    BY <1>3, FunctionIsSeq, Zenon
  <1> DEFINE blocks == extractDotBlocks(s)
  <1>5. blocks \in Seq(Range(blocks))
    <2> DEFINE found == extractFrom(s, 1)
               m == Len(found)
    <2>1. found \in Seq(Seq({"open", "fence"} \cup Contents))
      BY <1>4, BlocksAreSeq, Zenon
    <2>2. m \in Nat /\ DOMAIN found = 1 .. m
      BY <2>1, SeqIsFunction, Zenon
    <2>3. blocks = [i \in DOMAIN found |-> blocks[i]]
      BY Zenon DEF extractDotBlocks
    <2> HIDE DEF blocks, found, m
    <2>4. blocks \in [1 .. m -> Range(blocks)]
      BY <2>2, <2>3, Zenon DEF Range
    <2> QED
      BY <2>2, <2>4, FunctionIsSeq, Zenon
  <1> HIDE DEF blocks
  <1>6. <<>> \in Seq(BOOLEAN) /\ \A i \in 1 .. Len(<<>>) : FALSE
    OBVIOUS
  <1>7. ui = [mounted |-> TRUE, combine |-> combine, markdown |-> s,
              blocks |-> blocks, files |-> {}, report |-> <<>>, phase |-> "main"]
    BY <1>2, Zenon DEF blocks
  <1> QED
    BY <1>5, <1>6, <1>7, Zenon DEF RenderInv, BlocksKept

RenderNext ==
    \/ RenderExit \/ RenderStart \/ RenderThrows
    \/ \E accepted \in renderToSvg : RenderCombined(accepted) \/ RenderBlock(accepted)

\* One more block.
LEMMA OneMoreBlock ==
    ASSUME NEW blocks, NEW report \in Seq(BOOLEAN), NEW files, NEW accepted \in BOOLEAN,
           BlocksKept(blocks, report, files)
    PROVE  LET i == Len(report) + 1
               name == blocks[i]
           IN BlocksKept(blocks, Append(report, accepted),
                         IF ~accepted THEN files
                         ELSE {f \in files : f[1] # name} \cup {<<name, i>>})
  <1> DEFINE k == Len(report) + 1
             name == blocks[k]
             now == Append(report, accepted)
             kept == IF ~accepted THEN files
                     ELSE {f \in files : f[1] # name} \cup {<<name, k>>}
  <1>1. /\ Len(report) \in Nat /\ Len(now) = k /\ now[k] = accepted
        /\ \A i \in 1 .. Len(report) : now[i] = report[i]
    OBVIOUS
  <1>2. \A i \in 1 .. k : k \in i .. k
    BY <1>1
  <1>3. \A i \in 1 .. Len(report) : \A j \in i .. Len(report) : j \in i .. k
    BY <1>1
  <1>4. \A i \in 1 .. k : i = k \/ i \in 1 .. Len(report)
    BY <1>1
  <1> HIDE DEF k, now
  <1>5. accepted => <<blocks[k], k>> \in kept
    BY Zenon
  <1>6. ASSUME NEW i \in 1 .. k, now[i]
        PROVE  \E j \in i .. k : blocks[j] = blocks[i] /\ <<blocks[j], j>> \in kept
    <2>1. CASE i = k
      BY <1>1, <1>2, <1>5, <1>6, <2>1, Zenon
    <2>2. CASE i \in 1 .. Len(report)
      <3>1. PICK j \in i .. Len(report) : blocks[j] = blocks[i] /\ <<blocks[j], j>> \in files
        BY <1>1, <1>6, <2>2, Zenon DEF BlocksKept
      <3>2. CASE ~accepted \/ blocks[j] # name
        <4>1. <<blocks[j], j>>[1] = blocks[j]
          OBVIOUS
        <4>2. <<blocks[j], j>> \in kept
          BY <3>1, <3>2, <4>1, Zenon
        <4> QED
          BY <1>3, <2>2, <3>1, <4>2, Zenon
      <3>3. CASE accepted /\ blocks[j] = name
        BY <1>2, <1>5, <3>1, <3>3, Zenon
      <3> QED
        BY <3>2, <3>3, Zenon
    <2> QED
      BY <1>4, <2>1, <2>2, Zenon
  <1> HIDE DEF kept
  <1>7. BlocksKept(blocks, now, kept)
    BY <1>1, <1>6, Zenon DEF BlocksKept
  <1> QED
    BY <1>7, Zenon DEF kept, now, k

\* A step that changes the phase, the reports and the files.
LEMMA RenderAfter ==
    ASSUME RenderInv, widget = "render", UNCHANGED widget, NEW f, NEW r \in Seq(BOOLEAN),
           NEW p \in {"render", "exit", "thrown"}, DOMAIN ui' = DOMAIN ui,
           ui'.combine = ui.combine, ui'.blocks = ui.blocks,
           ui'.files = f, ui'.report = r, ui'.phase = p,
           ~ui.combine => /\ p = "render" => Len(r) < Len(ui.blocks)
                          /\ p = "exit" /\ r # <<>> => Len(r) = Len(ui.blocks)
                          /\ p # "thrown" => BlocksKept(ui.blocks, r, f)
                          /\ p = "thrown" => CutKept(ui.blocks, r, f)
    PROVE  RenderInv'
  <1>1. p # "main" /\ p \in {"main", "render", "exit", "thrown"}
    OBVIOUS
  <1> QED
    BY <1>1, Zenon DEF RenderInv

\* Every step of the script keeps the reports to the first blocks.
LEMMA RenderKept == ASSUME RenderInv, RenderNext PROVE RenderInv'
  <1>1. widget = "render" /\ UNCHANGED widget
    BY Zenon DEF RenderNext, RenderExit, RenderStart, RenderThrows, RenderCombined,
       RenderBlock, On, Becomes
  <1>2. /\ DOMAIN ui = {"mounted", "combine", "markdown", "blocks", "files", "report", "phase"}
        /\ ui.report \in Seq(BOOLEAN) /\ ui.blocks \in Seq(Range(ui.blocks))
        /\ ui.phase = "main" => ui.report = <<>>
        /\ ~ui.combine => /\ ui.phase = "render" => Len(ui.report) < Len(ui.blocks)
                          /\ ui.phase # "thrown"
                               => BlocksKept(ui.blocks, ui.report, ui.files)
    BY <1>1, Zenon DEF RenderInv
  <1>3. ASSUME NEW p
        PROVE  LET new == [ui EXCEPT !.phase = p] IN
               /\ DOMAIN new = DOMAIN ui /\ new.combine = ui.combine /\ new.blocks = ui.blocks
               /\ new.files = ui.files /\ new.report = ui.report /\ new.phase = p
    BY <1>2
  <1>6. CASE RenderExit
    <2>1. ui.phase = "main" /\ ui' = [ui EXCEPT !.phase = "exit"]
      BY <1>6, Zenon DEF RenderExit, Becomes
    <2>2. /\ DOMAIN ui' = DOMAIN ui /\ ui'.combine = ui.combine /\ ui'.blocks = ui.blocks
          /\ ui'.files = ui.files /\ ui'.report = ui.report /\ ui'.phase = "exit"
      BY <1>3, <2>1, Zenon
    <2> QED
      BY <1>1, <1>2, <2>1, <2>2, RenderAfter, Zenon
  <1>7. CASE RenderStart
    <2>1. /\ ui.phase = "main" /\ ui.blocks # <<>>
          /\ ui' = [ui EXCEPT !.phase = "render"]
      BY <1>7, Zenon DEF RenderStart, Becomes
    <2>2. /\ DOMAIN ui' = DOMAIN ui /\ ui'.combine = ui.combine /\ ui'.blocks = ui.blocks
          /\ ui'.files = ui.files /\ ui'.report = ui.report /\ ui'.phase = "render"
      BY <1>3, <2>1, Zenon
    <2>3. Len(ui.report) < Len(ui.blocks)
      <3>1. Len(ui.report) = 0
        BY <1>2, <2>1
      <3>2. Len(ui.blocks) > 0
        BY <1>2, <2>1
      <3> QED
        BY <3>1, <3>2
    <2> QED
      BY <1>1, <1>2, <2>1, <2>2, <2>3, RenderAfter, Zenon
  <1>8. ASSUME NEW accepted \in renderToSvg, RenderCombined(accepted) PROVE RenderInv'
    <2> DEFINE f == IF ~accepted THEN {}
                    ELSE {<<"combined", i>> : i \in combineGraphs(ui.blocks)}
    <2>1. /\ ui.combine
          /\ ui' = [ui EXCEPT !.phase = "exit", !.report = <<accepted>>, !.files = f]
      BY <1>8, Zenon DEF RenderCombined, Becomes
    <2>2. <<accepted>> \in Seq(BOOLEAN)
      BY OneElement, Zenon DEF renderToSvg
    <2> HIDE DEF f
    <2>3. /\ DOMAIN ui' = DOMAIN ui /\ ui'.combine = ui.combine /\ ui'.blocks = ui.blocks
          /\ ui'.files = f /\ ui'.report = <<accepted>> /\ ui'.phase = "exit"
      BY <1>2, <2>1, Zenon
    <2> QED
      BY <1>1, <2>1, <2>2, <2>3, RenderAfter, Zenon
  <1>9. ASSUME NEW accepted \in renderToSvg, RenderBlock(accepted) PROVE RenderInv'
    <2> DEFINE i == Len(ui.report) + 1
               name == ui.blocks[i]
               f == IF ~accepted THEN ui.files
                    ELSE {g \in ui.files : g[1] # name} \cup {<<name, i>>}
               r == Append(ui.report, accepted)
               p == IF i = Len(ui.blocks) THEN "exit" ELSE ui.phase
    <2>1. /\ ui.phase = "render" /\ ~ui.combine
          /\ ui' = [ui EXCEPT !.report = r, !.files = f, !.phase = p]
      BY <1>2, <1>9 DEF RenderBlock, On, Becomes
    <2>2. r \in Seq(BOOLEAN) /\ Len(r) = i
      BY <1>2 DEF renderToSvg
    <2>3. BlocksKept(ui.blocks, r, f)
      BY <1>2, <2>1, OneMoreBlock, Zenon DEF renderToSvg
    <2>4. /\ i \in Nat /\ Len(ui.blocks) \in Nat /\ i <= Len(ui.blocks)
      BY <1>2, <2>1
    <2>5. p \in {"render", "exit"} /\ (p = "render" => i < Len(ui.blocks))
          /\ (p = "exit" => i = Len(ui.blocks))
      BY <2>1, <2>4
    <2> HIDE DEF i, f, r, p
    <2>6. /\ DOMAIN ui' = DOMAIN ui /\ ui'.combine = ui.combine /\ ui'.blocks = ui.blocks
          /\ ui'.files = f /\ ui'.report = r /\ ui'.phase = p
      BY <1>2, <2>1
    <2> QED
      BY <1>1, <2>1, <2>2, <2>3, <2>5, <2>6, RenderAfter, Zenon
  <1>10. CASE RenderThrows
    <2>1. PICK f :
            /\ ui' = [ui EXCEPT !.phase = "thrown", !.files = f]
            /\ ~ui.combine => f \in {ui.files, {g \in ui.files : g[1] # ui.blocks[Len(ui.report) + 1]}}
      BY <1>10, Zenon DEF RenderThrows, Becomes
    <2>2. /\ DOMAIN ui' = DOMAIN ui /\ ui'.combine = ui.combine /\ ui'.blocks = ui.blocks
          /\ ui'.files = f /\ ui'.report = ui.report /\ ui'.phase = "thrown"
      BY <1>2, <2>1
    <2>3. ui.phase = "render"
      BY <1>10, Zenon DEF RenderThrows
    <2>4. ~ui.combine => CutKept(ui.blocks, ui.report, f)
      BY <1>2, <2>1, <2>3, Zenon DEF CutKept
    <2> QED
      BY <1>1, <1>2, <2>2, <2>4, RenderAfter, Zenon
  <1> QED
    BY <1>6, <1>7, <1>8, <1>9, <1>10, Zenon DEF RenderNext

\* So no diagram that was reported is lost.
LEMMA RenderHolds == ASSUME RenderInv PROVE DiagramsKept
  <1> DEFINE n == Len(ui.report)
             blocks == ui.blocks
  <1> SUFFICES ASSUME widget = "render", ui.phase \in {"exit", "thrown"}, ui.report # <<>>,
                      ~ui.combine
               PROVE  /\ ui.phase = "exit" => n = Len(blocks)
                      /\ \A i \in 1 .. n : ui.report[i] =>
                           \/ \E j \in i .. n : /\ blocks[j] = blocks[i]
                                               /\ <<blocks[j], j>> \in ui.files
                           \/ ui.phase = "thrown" /\ blocks[i] = blocks[n + 1]
    BY Zenon DEF DiagramsKept
  <1>1. /\ ui.phase = "exit" => n = Len(blocks)
        /\ ui.phase = "exit" => BlocksKept(blocks, ui.report, ui.files)
        /\ ui.phase = "thrown" => CutKept(blocks, ui.report, ui.files)
    BY Zenon DEF RenderInv
  <1> HIDE DEF blocks
  <1>2. CASE ui.phase = "exit"
    BY <1>1, <1>2, Zenon DEF BlocksKept
  <1>3. CASE ui.phase = "thrown"
    <2>1. PICK before : /\ BlocksKept(blocks, ui.report, before)
                        /\ {f \in before : f[1] # blocks[n + 1]} \subseteq ui.files
      BY <1>1, <1>3, Zenon DEF CutKept
    <2> SUFFICES ASSUME NEW i \in 1 .. n, ui.report[i], blocks[i] # blocks[n + 1]
                 PROVE  \E j \in i .. n : blocks[j] = blocks[i] /\ <<blocks[j], j>> \in ui.files
      BY <1>1, <1>3, Zenon
    <2>2. PICK j \in i .. n : blocks[j] = blocks[i] /\ <<blocks[j], j>> \in before
      BY <2>1, Zenon DEF BlocksKept
    <2>3. <<blocks[j], j>>[1] = blocks[j]
      OBVIOUS
    <2> QED
      BY <2>1, <2>2, <2>3, Zenon
  <1> QED
    BY <1>2, <1>3, Zenon
=============================================================================
