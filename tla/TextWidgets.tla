----------------------------- MODULE TextWidgets -----------------------------
(***************************************************************************)
(* Components that bring text up step by step: TypingAnimation, the        *)
(* Terminal with its lines, AnimatedList, WordRotate, NumberTicker,        *)
(* DiaTextReveal, SparklesText and TextReveal.                             *)
(***************************************************************************)
EXTENDS Page, Integers

CONSTANTS
    WordsToAnimate,     \* the values that the words prop of TypingAnimation takes
    Lines               \* the lines of a Terminal

ASSUME WordsAssumption ==
    /\ WordsToAnimate \in Seq(Seq(Nat))
    /\ WordsToAnimate # <<>>

\* The first line is typed, as in the only Terminal of the site.  (A span in its
\* place could be taken for complete before it is visible.)
ASSUME LinesAssumption ==
    /\ Lines \in Seq(Nat)
    /\ Lines # <<>> => Lines[1] # 0

-----------------------------------------------------------------------------
(* TypingAnimation.  A word is its number of graphemes, the displayed text  *)
(* the number of a word and how much of it is shown.                       *)

\* The current word, an empty one if there is none.
Word ==
    LET words == WordsToAnimate[ui.source] IN
    IF ui.word \in DOMAIN words THEN words[ui.word] ELSE 0

TypingInit ==
    /\ widget = "typing" /\ pending = Nothing
    /\ ui \in [mounted : {TRUE}, shouldStart : {FALSE}, source : {1},
               loop : BOOLEAN, word : {1}, char : {0}, text : {<<1, 0>>},
               phase : {"typing"}]

\* The timer effect: it has run with every change, so the timer that fires
\* knows the current state.
TypingEffect(new, calls) ==
    Becomes(new, RegisterIf(new.shouldStart /\ WordsToAnimate[new.source] # <<>>,
                            Cancel(calls, {"timer"}), {"timer"}))

TypingInView ==
    /\ On("typing") /\ ~ui.shouldStart
    /\ TypingEffect([ui EXCEPT !.shouldStart = TRUE], pending)

\* Other words: the reset effect.
TypingSource(s) ==
    /\ On("typing") /\ s > ui.source
    /\ TypingEffect([ui EXCEPT !.source = s, !.word = 1, !.char = 0,
                               !.text = <<1, 0>>, !.phase = "typing"], pending)

\* Mutant: only a loop goes on to the next word.
TypedOneWord ==
    CASE ui.phase = "typing" /\ ui.char < Word ->
            [ui EXCEPT !.text = <<ui.word, ui.char + 1>>, !.char = @ + 1]
      [] ui.phase = "typing" /\ ui.char >= Word ->
            IF ui.loop THEN [ui EXCEPT !.phase = "pause"] ELSE ui
      [] OTHER -> ui

\* The state after the callback of the timer.
Typed ==
    LET words == WordsToAnimate[ui.source] IN
    CASE ui.phase = "typing" /\ ui.char < Word ->
            [ui EXCEPT !.text = <<ui.word, ui.char + 1>>, !.char = @ + 1]
      [] ui.phase = "typing" /\ ui.char >= Word ->
            IF ui.loop \/ (Len(words) > 1 /\ ui.word # Len(words))
            THEN [ui EXCEPT !.phase = "pause"] ELSE ui
      [] ui.phase = "pause" -> [ui EXCEPT !.phase = "deleting"]
      [] ui.phase = "deleting" /\ ui.char > 0 ->
            [ui EXCEPT !.text = <<ui.word, ui.char - 1>>, !.char = @ - 1]
      [] ui.phase = "deleting" /\ ui.char = 0 ->
            [ui EXCEPT !.word = (ui.word % Len(words)) + 1, !.phase = "typing"]

\* When nothing changes the effect does not run again.
TypingTick ==
    /\ On("typing") /\ Fires("timer")
    /\ LET rest == Cancel(pending, {"timer"}) IN
       IF Typed = ui THEN Becomes(ui, rest) ELSE TypingEffect(Typed, rest)

TypingComplete ==
    /\ ~ui.loop /\ ui.word = Len(WordsToAnimate[ui.source])
    /\ ui.char >= Word /\ ui.phase # "deleting"

-----------------------------------------------------------------------------
(* Terminal in sequence mode: a line of type TypingAnimation types itself   *)
(* and a line of type AnimatedSpan fades in, each when it is its turn.     *)

\* A line is its length if it is typed, 0 if it is a span.
Line == DOMAIN Lines

IsSpan(i) == Lines[i] = 0

\* shown: characters typed, for a span 1 when it is visible.  fresh: spans
\* whose first, hidden state has not been reported as complete yet.
TerminalInit ==
    /\ widget = "terminal" /\ pending = Nothing
    /\ ui = [mounted |-> TRUE, inView |-> FALSE, activeIndex |-> 1,
             started |-> {}, shown |-> [i \in Line |-> 0],
             done |-> {}, fresh |-> {i \in Line : IsSpan(i)}]

TerminalInView ==
    /\ On("terminal") /\ ~ui.inView
    /\ Becomes([ui EXCEPT !.inView = TRUE], pending)

\* Mutant: any completion advances the sequence.
completeAnyItem(state, i) ==
    [state EXCEPT !.activeIndex = IF @ \in Line THEN @ + 1 ELSE @]

completeItem(state, i) ==
    [state EXCEPT !.activeIndex = IF i = @ THEN @ + 1 ELSE @]

\* The effects of line i see that it is its turn.
TerminalStart(i) ==
    /\ On("terminal") /\ ui.inView /\ i = ui.activeIndex /\ i \notin ui.started
    /\ Becomes([ui EXCEPT !.started = @ \cup {i}],
               RegisterIf(~IsSpan(i), pending, {"timer"}))

\* The interval of typed line i; it ends itself.
TerminalType(i) ==
    /\ On("terminal") /\ ~IsSpan(i) /\ i \in ui.started \ ui.done
    /\ Fires("timer")
    /\ IF ui.shown[i] < Lines[i]
       THEN Becomes([ui EXCEPT !.shown[i] = @ + 1], pending)
       ELSE Becomes(completeItem([ui EXCEPT !.done = @ \cup {i}], i),
                    Cancel(pending, {"timer"}))

\* onAnimationComplete of a span that has become visible.
TerminalSpanShown(i) ==
    /\ On("terminal") /\ IsSpan(i) /\ i \in ui.started \ ui.done
    /\ Becomes(completeItem([ui EXCEPT !.shown[i] = 1, !.done = @ \cup {i}], i),
               pending)

\* It is also called, one frame after the mount, for the hidden state.
TerminalSpanHidden(i) ==
    /\ On("terminal") /\ i \in ui.fresh /\ ui.done = {}
    /\ Becomes(completeItem([ui EXCEPT !.fresh = @ \ {i}], i), pending)

LineShown(i) == ui.shown[i] = IF IsSpan(i) THEN 1 ELSE Lines[i]

-----------------------------------------------------------------------------
(* AnimatedList.                                                           *)

ListInit ==
    /\ widget = "list" /\ pending = Register(Nothing, {"timer"})
    /\ ui = [mounted |-> TRUE, index |-> 0, length |-> 2]

ListEffect(new, calls) ==
    Becomes(new, RegisterIf(new.index < new.length - 1,
                            Cancel(calls, {"timer"}), {"timer"}))

ListTick ==
    /\ On("list") /\ Fires("timer")
    /\ ListEffect([ui EXCEPT !.index = (@ + 1) % ui.length],
                  Cancel(pending, {"timer"}))

\* The children change.
ListChildren(n) ==
    /\ On("list") /\ ui.length = 2
    /\ ListEffect([ui EXCEPT !.length = n], pending)

-----------------------------------------------------------------------------
(* WordRotate.                                                             *)

RotateInit ==
    /\ widget = "rotate" /\ pending = Register(Nothing, {"timer"})
    /\ ui = [mounted |-> TRUE, index |-> 0, length |-> 3]

RotateTick ==
    /\ On("rotate") /\ Fires("timer")
    /\ Becomes([ui EXCEPT !.index = (@ + 1) % ui.length], pending)

\* Another array of words: the interval starts anew, the index stays.
RotateWords ==
    /\ On("rotate")
    /\ Becomes(ui, Register(Cancel(pending, {"timer"}), {"timer"}))

-----------------------------------------------------------------------------
(* NumberTicker.  target is what the spring was last sent to.              *)

TickerInit ==
    /\ widget = "ticker" /\ pending = Nothing
    /\ ui = [mounted |-> TRUE, inView |-> FALSE, value |-> 1, target |-> 0,
             text |-> 0]

TickerEffect(new, calls) ==
    Becomes(new, RegisterIf(new.inView, Cancel(calls, {"timer"}), {"timer"}))

TickerInView ==
    /\ On("ticker") /\ ~ui.inView
    /\ TickerEffect([ui EXCEPT !.inView = TRUE], pending)

TickerValue ==
    /\ On("ticker") /\ ui.value = 1
    /\ TickerEffect([ui EXCEPT !.value = 2], pending)

TickerSet ==
    /\ On("ticker") /\ Fires("timer")
    /\ Becomes([ui EXCEPT !.target = ui.value], Cancel(pending, {"timer"}))

\* The spring moves, and its listener writes the number.
TickerSpring ==
    /\ On("ticker") /\ ui.text # ui.target
    /\ Becomes([ui EXCEPT !.text = ui.target], pending)

-----------------------------------------------------------------------------
(* DiaTextReveal.                                                          *)

BandHalf == 17

SweepStart == -BandHalf

SweepEnd == 100 + BandHalf

\* The stops of the gradient over the text, for n colors of the band: what is
\* shown there and at which percentage, rounded down.
buildGradient(pos, n) ==
    LET from == pos - BandHalf
        to == pos + BandHalf
        stop(kind, percent) == [kind |-> kind, percent |-> percent]
        band == [i \in 1 .. n |->
                   stop("color", IF n = 1 THEN pos
                                 ELSE from + ((i - 1) * 2 * BandHalf) \div (n - 1))]
    IN IF from >= 100 THEN <<stop("text", 0), stop("text", 100)>>
       ELSE (IF from > 0 THEN <<stop("text", 0), stop("text", from)>> ELSE <<>>)
            \o band
            \o (IF to < 100 THEN <<stop("transparent", to), stop("transparent", 100)>>
                ELSE <<>>)

\* running: the last run of the effect has returned a cleanup.
DiaInit ==
    /\ widget = "dia"
    /\ \E startOnView, once, repeat, reduced \in BOOLEAN :
          LET new == [mounted |-> TRUE, inView |-> FALSE, index |-> 0,
                      startOnView |-> startOnView, once |-> once,
                      repeat |-> repeat, reduced |-> reduced,
                      hasPlayed |-> FALSE, running |-> FALSE,
                      sweep |-> "start"]
          IN IF reduced
             THEN ui = [new EXCEPT !.sweep = "end"] /\ pending = Nothing
             ELSE IF startOnView THEN ui = new /\ pending = Nothing
             ELSE /\ ui = [new EXCEPT !.hasPlayed = TRUE, !.running = TRUE]
                  /\ pending = Register(Nothing, {"frame"})

\* The cleanup of the effect stops the sweep and the timer.
DiaCleanup(calls) ==
    IF ui.running THEN Cancel(calls, {"frame", "timer"}) ELSE calls

\* The effect, after isInView has changed to seen.
DiaEffect(seen) ==
    LET quiet == DiaCleanup(pending)
        idle == [ui EXCEPT !.inView = seen, !.running = FALSE]
    IN IF ui.reduced THEN Becomes([idle EXCEPT !.sweep = "end"], quiet)
       ELSE IF (ui.startOnView /\ ~seen) \/ (ui.once /\ ui.hasPlayed)
       THEN Becomes(idle, quiet)
       ELSE Becomes([idle EXCEPT !.hasPlayed = TRUE, !.running = TRUE,
                                 !.sweep = "start"],
                    Register(quiet, {"frame"}))

DiaInView == On("dia") /\ ~ui.inView /\ DiaEffect(TRUE)

\* useInView reports that the text has left the view unless it is told once.
DiaOutOfView == On("dia") /\ ui.inView /\ ~ui.once /\ DiaEffect(FALSE)

\* The sweep completes; with repeat a timer is set for the next text.
DiaSwept ==
    /\ On("dia") /\ Fires("frame")
    /\ Becomes([ui EXCEPT !.sweep = "end"],
               RegisterIf(ui.repeat, Cancel(pending, {"frame"}), {"timer"}))

DiaRepeat ==
    /\ On("dia") /\ Fires("timer")
    /\ Becomes([ui EXCEPT !.index = 1 - @, !.sweep = "start"],
               Register(Cancel(pending, {"timer"}), {"frame"}))

-----------------------------------------------------------------------------
(* SparklesText: stars with a lifespan, replaced when it is over.          *)

SparklesInit ==
    /\ widget = "sparkles" /\ pending = Register(Nothing, {"timer"})
    /\ ui = [mounted |-> TRUE, count |-> 2, sparkles |-> <<1, 1>>]

SparklesUpdate ==
    /\ On("sparkles") /\ Fires("timer")
    /\ \E fresh \in 1 .. 2 :
          Becomes([ui EXCEPT !.sparkles =
                     [i \in DOMAIN @ |-> IF @[i] = 0 THEN fresh ELSE @[i] - 1]],
                  pending)

\* Another sparklesCount: the stars are made anew.
SparklesCount ==
    /\ On("sparkles")
    /\ Becomes([ui EXCEPT !.count = 3, !.sparkles = <<1, 1, 1>>],
               Register(Cancel(pending, {"timer"}), {"timer"}))

-----------------------------------------------------------------------------
(* TextReveal: the scroll position, in eighths of the section, reveals four *)
(* words one after the other; opacity in percent.                          *)

RevealInit ==
    /\ widget = "reveal" /\ pending = Nothing
    /\ ui = [mounted |-> TRUE, progress |-> 0]

Opacity(i, progress) ==
    LET start == 2 * (i - 1) IN
    IF progress <= start THEN 0
    ELSE IF progress >= start + 2 THEN 100 ELSE (progress - start) * 50

RevealScroll(p) ==
    /\ On("reveal") /\ p # ui.progress
    /\ Becomes([ui EXCEPT !.progress = p], pending)

-----------------------------------------------------------------------------

TextInit ==
    TypingInit \/ TerminalInit \/ ListInit \/ RotateInit \/ TickerInit
    \/ DiaInit \/ SparklesInit \/ RevealInit

TextNext ==
    \/ TypingInView \/ TypingTick
    \/ \E s \in DOMAIN WordsToAnimate : TypingSource(s)
    \/ TerminalInView
    \/ \E i \in Line : TerminalStart(i) \/ TerminalType(i)
                       \/ TerminalSpanShown(i) \/ TerminalSpanHidden(i)
    \/ ListTick \/ \E n \in {1, 3} : ListChildren(n)
    \/ RotateTick \/ RotateWords
    \/ TickerInView \/ TickerValue \/ TickerSet \/ TickerSpring
    \/ DiaInView \/ DiaOutOfView \/ DiaSwept \/ DiaRepeat
    \/ SparklesUpdate \/ SparklesCount
    \/ \E p \in 0 .. 8 : RevealScroll(p)

\* The cleanups of the effects, when the component is unmounted.
TextCleanup ==
    CASE widget = "dia" -> DiaCleanup(pending)
      [] widget = "reveal" -> pending
      [] OTHER -> Cancel(pending, {"timer"})

\* The steps the browser takes by itself: timers, effects, animations.
TextTick ==
    \/ TypingTick \/ ListTick \/ TickerSet \/ TickerSpring \/ DiaSwept
    \/ \E i \in Line : TerminalStart(i) \/ TerminalType(i) \/ TerminalSpanShown(i)

-----------------------------------------------------------------------------
(* Properties.                                                             *)

\* What the stops next to a point, on either side of it, show there.
Shows(stops, x) ==
    LET near == {i \in DOMAIN stops :
                   \/ stops[i].percent <= x /\ \A j \in i + 1 .. Len(stops) :
                                                  stops[j].percent > x
                   \/ stops[i].percent >= x /\ \A j \in 1 .. i - 1 :
                                                  stops[j].percent < x}
    IN {stops[i].kind : i \in near}

\* The lines of a Terminal appear in their order, the next one only when the
\* one before is complete, whatever completions motion reports; the words of
\* TextReveal are revealed from the first to the last; the band of colors of
\* DiaTextReveal sweeps over the text from the left, which is in its own color
\* behind the band, and all in its own color at the end (in front of the band
\* buildGradient makes it transparent, where the comment on textColor has it in
\* its own color as well; nothing is said of that part).  TypingAnimation
\* displays a prefix of the word it is at, also when the words change while a
\* timer is pending: no character of an earlier word stays.
TextInOrder ==
    /\ widget = "typing" =>
        /\ ui.text[2] = ui.char
        /\ ui.char > 0 => ui.text[1] = ui.word /\ ui.char <= Word
    /\ widget = "terminal" =>
        \A i, j \in Line : i < j /\ ui.shown[j] > 0 => LineShown(i)
    /\ widget = "reveal" =>
        \A i \in 1 .. 3 :
            Opacity(i, ui.progress) < 100 => Opacity(i + 1, ui.progress) = 0
    /\ widget = "dia" /\ ui.sweep = "end" =>
        /\ \A n \in {1, 2, 5}, pos \in SweepStart .. SweepEnd :
              LET stops == buildGradient(pos, n) IN
              \A x \in {0, 50, 100, pos - BandHalf - 1} :
                 x \in 0 .. pos - BandHalf - 1 => Shows(stops, x) = {"text"}
        /\ \A x \in 0 .. 100 : Shows(buildGradient(SweepEnd, 5), x) = {"text"}

\* What has to be shown once the component is, and stays, in the view.
TextStarted ==
    /\ ui.mounted
    /\ \/ /\ widget = "typing" /\ ui.shouldStart /\ ~ui.loop
          /\ WordsToAnimate[ui.source] # <<>>
       \/ widget = "terminal" /\ ui.inView
       \/ widget = "list"
       \/ widget = "ticker" /\ ui.inView
       \/ widget = "dia" /\ ui.inView /\ (ui.startOnView \/ ~ui.once)

TextShown ==
    CASE widget = "typing" -> TypingComplete
      [] widget = "terminal" -> \A i \in Line : LineShown(i)
      [] widget = "list" -> ui.index + 1 >= ui.length
      [] widget = "ticker" -> ui.text = ui.value
      [] widget = "dia" -> ui.sweep = "end"
      [] OTHER -> TRUE

\* A component that stays in the view brings up all of its text: all words of
\* TypingAnimation without loop, all lines of a Terminal, all items of an
\* AnimatedList, the number of a NumberTicker, a swept DiaTextReveal.  The one
\* exception is DiaTextReveal with startOnView off and once on, whose sweep is
\* stopped for good when it comes into view.
EverythingShown == <>[]TextStarted => []<>TextShown
=============================================================================
