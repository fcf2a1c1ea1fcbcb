---------------------------- MODULE SkillScripts ----------------------------
(***************************************************************************)
(* Two scripts kept with the agent skills: the condition-based waits and   *)
(* the renderer of Graphviz diagrams.  Like a component they are on their  *)
(* own, and wait for what they have registered.                            *)
(***************************************************************************)
EXTENDS Page

CONSTANTS
    timeoutMs,      \* the timeout of a wait
    MaxEvents,      \* events of a thread
    MaxTokens       \* the length of a file with diagrams

ASSUME ScriptAssumption == timeoutMs \in Nat /\ MaxEvents \in Nat /\ MaxTokens \in Nat

-----------------------------------------------------------------------------
(* waitForEvent, waitForEventCount, waitForEventMatch: a check that is      *)
(* repeated until enough events match or the time is over.  The first and   *)
(* the last wait for one event.  Time is counted in units of the polling   *)
(* interval; inTime are the events that came before the time was over.     *)

\* Mutant: the time is looked at first.
checkTimeFirst(state, calls) ==
    IF state.now > timeoutMs
    THEN Becomes([state EXCEPT !.status = "rejected"], calls)
    ELSE IF state.matching >= state.count
    THEN Becomes([state EXCEPT !.status = "resolved"], calls)
    ELSE Becomes(state, Register(calls, {"timer"}))

\* Mutant: no further check is set up.
checkOnce(state, calls) ==
    IF state.matching >= state.count
    THEN Becomes([state EXCEPT !.status = "resolved"], calls)
    ELSE IF state.now > timeoutMs
    THEN Becomes([state EXCEPT !.status = "rejected"], calls)
    ELSE Becomes(state, calls)

check(state, calls) ==
    IF state.matching >= state.count
    THEN Becomes([state EXCEPT !.status = "resolved"], calls)
    ELSE IF state.now > timeoutMs
    THEN Becomes([state EXCEPT !.status = "rejected"], calls)
    ELSE Becomes(state, Register(calls, {"timer"}))

Waits(counts) ==
    [mounted : {TRUE}, count : counts, matching : 0 .. MaxEvents,
     inTime : {0}, now : {0}, status : {"called"}]

waitForEvent == Waits({1})

waitForEventCount == Waits(0 .. MaxEvents)

waitForEventMatch == Waits({1})

WaitInit ==
    /\ widget = "wait" /\ pending = Nothing
    /\ ui \in waitForEvent \cup waitForEventCount \cup waitForEventMatch

WaitCall ==
    /\ On("wait") /\ ui.status = "called"
    /\ check([ui EXCEPT !.status = "pending", !.inTime = ui.matching], pending)

\* The thread gets one more event that matches.
WaitEvent ==
    /\ On("wait") /\ ui.status = "pending" /\ ui.matching < MaxEvents
    /\ Becomes([ui EXCEPT !.matching = @ + 1,
                          !.inTime = IF ui.now <= timeoutMs THEN @ + 1 ELSE @],
               pending)

\* Time passes; a timer may be late.
WaitClock ==
    /\ On("wait") /\ ui.status = "pending" /\ ui.now <= timeoutMs
    /\ Becomes([ui EXCEPT !.now = @ + 1], pending)

WaitCheck ==
    /\ On("wait") /\ Fires("timer")
    /\ check(ui, Cancel(pending, {"timer"}))

-----------------------------------------------------------------------------
(* render-graphs.  A file is a sequence of "open" for the start of a dot   *)
(* block, "fence" for any other fence, and contents: a digraph "a" or text *)
(* without a digraph.                                                      *)

Contents == {"a", "text"}

Min0(set) == IF set = {} THEN 0 ELSE CHOOSE i \in set : \A j \in set : i <= j

\* The contents of the blocks from position i on.  A fence of any kind ends a
\* block, so a dot block that starts inside another one is none.
extractFrom(s, start) ==
    LET from[i \in 1 .. Len(s) + 1] ==
          LET open == Min0({j \in i .. Len(s) : s[j] = "open"})
              close == IF open = 0 THEN 0
                       ELSE Min0({j \in open + 1 .. Len(s) : s[j] \notin Contents})
          IN IF close = 0 THEN <<>>
             ELSE <<SubSeq(s, open + 1, close - 1)>> \o from[close + 1]
    IN from[start]

\* The name: that of the first digraph, or a number.
extractDotBlocks(s) ==
    LET blocks == extractFrom(s, 1)
        first(block) == Min0({k \in DOMAIN block : block[k] # "text"})
    IN [i \in DOMAIN blocks |->
          IF first(blocks[i]) = 0 THEN <<"graph", i>>
          ELSE <<"digraph", blocks[i][first(blocks[i])]>>]

\* The clusters of the combined graph that are not empty: what is no digraph
\* has no body.
combineGraphs(blocks) == {i \in DOMAIN blocks : blocks[i][1] = "digraph"}

\* dot accepts a graph or does not.
renderToSvg == BOOLEAN

RenderInit ==
    /\ widget = "render" /\ pending = Nothing
    /\ \E combine \in BOOLEAN, n \in 0 .. MaxTokens :
       \E s \in [1 .. n -> {"open", "fence"} \cup Contents] :
          ui = [mounted |-> TRUE, combine |-> combine, markdown |-> s,
                blocks |-> extractDotBlocks(s), files |-> {}, report |-> <<>>,
                phase |-> "main"]

\* Every end before anything is rendered: no directory given, no SKILL.md, no
\* dot, no block in the file, or a file or directory that throws.
RenderExit ==
    /\ On("render") /\ ui.phase = "main"
    /\ Becomes([ui EXCEPT !.phase = "exit"], pending)

RenderStart ==
    /\ On("render") /\ ui.phase = "main" /\ ui.blocks # <<>>
    /\ Becomes([ui EXCEPT !.phase = "render"], pending)

RenderCombined(accepted) ==
    /\ On("render") /\ ui.phase = "render" /\ ui.combine
    /\ Becomes([ui EXCEPT !.phase = "exit", !.report = <<accepted>>,
                  !.files = IF ~accepted THEN {}
                            ELSE {<<"combined", i>> : i \in combineGraphs(ui.blocks)}],
               pending)

\* Mutant: the first failure ends the loop.
RenderBlockUntil(accepted) ==
    /\ On("render") /\ ui.phase = "render" /\ ~ui.combine
    /\ LET i == Len(ui.report) + 1
           name == ui.blocks[i]
       IN Becomes([ui EXCEPT
             !.report = Append(@, accepted),
             !.files = IF ~accepted THEN @
                       ELSE {f \in @ : f[1] # name} \cup {<<name, i>>},
             !.phase = IF i = Len(ui.blocks) \/ ~accepted THEN "exit" ELSE @],
             pending)

\* The next block is rendered; a file of the same name is overwritten.
RenderBlock(accepted) ==
    /\ On("render") /\ ui.phase = "render" /\ ~ui.combine
    /\ LET i == Len(ui.report) + 1
           name == ui.blocks[i]
       IN Becomes([ui EXCEPT
             !.report = Append(@, accepted),
             !.files = IF ~accepted THEN @
                       ELSE {f \in @ : f[1] # name} \cup {<<name, i>>},
             !.phase = IF i = Len(ui.blocks) THEN "exit" ELSE @], pending)

\* A file cannot be written, and what throws ends the script: the file is as it
\* was or is cut.  Of a combined graph the source may be what is not written.
RenderThrows ==
    /\ On("render") /\ ui.phase = "render"
    /\ \E files \in
          IF ui.combine
          THEN {{}, {<<"combined", i>> : i \in combineGraphs(ui.blocks)}}
          ELSE {ui.files, {f \in ui.files : f[1] # ui.blocks[Len(ui.report) + 1]}} :
             Becomes([ui EXCEPT !.phase = "thrown", !.files = files], pending)

-----------------------------------------------------------------------------

ScriptInit == WaitInit \/ RenderInit

ScriptNext ==
    \/ WaitCall \/ WaitEvent \/ WaitClock \/ WaitCheck
    \/ RenderExit \/ RenderStart \/ RenderThrows
    \/ \E accepted \in renderToSvg : RenderCombined(accepted) \/ RenderBlock(accepted)

\* A wait is rejected only if too few events came in time: the check looks at
\* the events before the clock, so a late timer costs no event; it resolves
\* only with enough of them.
WaitIsHonest ==
    widget = "wait" =>
      /\ ui.status = "rejected" => ui.inTime < ui.count
      /\ ui.status = "resolved" => ui.matching >= ui.count
      /\ ui.status \in {"rejected", "resolved"} => pending["timer"] = 0

\* A wait does not go on for ever.
WaitSettles ==
    widget = "wait" /\ ui.status = "pending"
      ~> widget = "wait" /\ ui.status \in {"resolved", "rejected"}

\* A diagram that dot does not accept costs no other one.  When the blocks have
\* been rendered one by one, each was reported, and each one that dot accepted
\* is in the file of its name unless a later one of that name is; so are those
\* rendered before a file that could not be written, but for that file.
DiagramsKept ==
    widget = "render" /\ ui.phase \in {"exit", "thrown"} /\ ui.report # <<>> /\ ~ui.combine =>
      LET n == Len(ui.report) IN
      /\ ui.phase = "exit" => n = Len(ui.blocks)
      /\ \A i \in 1 .. n : ui.report[i] =>
           \/ \E j \in i .. n : /\ ui.blocks[j] = ui.blocks[i]
                               /\ <<ui.blocks[j], j>> \in ui.files
           \/ ui.phase = "thrown" /\ ui.blocks[i] = ui.blocks[n + 1]
=============================================================================
