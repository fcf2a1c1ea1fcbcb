-------------------------- MODULE ComponentProofs --------------------------
(***************************************************************************)
(* What the steps of each component of the website keep: the invariants of *)
(* the single components first, then those of the groups that the modules  *)
(* of the website make of them.                                            *)
(***************************************************************************)
EXTENDS TextWidgets, CanvasWidgets, RetroGrid, LayoutWidgets, Ornaments,
        CopyButton, SkillScripts, TLAPS

-----------------------------------------------------------------------------
(* Registrations.                                                          *)

\* At most one registration of each of the kinds, and none of another kind.
Only(p, kinds) == /\ p \in [Calls -> 0 .. 1]
                  /\ \A k \in Calls \ kinds : p[k] = 0

\* Nothing registered is at most one of each of any kinds.
LEMMA OnlyNothing == ASSUME NEW K PROVE Only(Nothing, K)
  BY DEF Only, Nothing

\* Without kinds nothing is registered.
LEMMA NothingOnly == ASSUME NEW p, Only(p, {}) PROVE p = Nothing
  BY DEF Only, Nothing

\* More kinds may be allowed.
LEMMA OnlyMore ==
    ASSUME NEW p, NEW K, NEW L, Only(p, K), K \subseteq L
    PROVE Only(p, L)
  BY DEF Only

\* After a cancellation of the kinds J only the others can be left.
LEMMA OnlyCancel ==
    ASSUME NEW p, NEW K, NEW J, NEW L, Only(p, K), K \subseteq L \cup J
    PROVE Only(Cancel(p, J), L)
  BY DEF Only, Cancel

\* What was not registered may be, once.
LEMMA OnlyRegister ==
    ASSUME NEW p, NEW K, NEW J, NEW L, Only(p, K), K \cap J = {}, K \cup J \subseteq L
    PROVE Only(Register(p, J), L)
  BY DEF Only, Register

\* Only what is registered calls back.
LEMMA OnlyFires ==
    ASSUME NEW K, Only(pending, K), NEW k \in Calls, Fires(k)
    PROVE k \in K
  BY DEF Only, Fires

-----------------------------------------------------------------------------
(* TypingAnimation.                                                        *)

\* The states of TypingAnimation.
TypingStates ==
    [mounted : BOOLEAN, shouldStart : BOOLEAN, source : DOMAIN WordsToAnimate,
     loop : BOOLEAN, word : Nat, char : Nat, text : Nat \X Nat,
     phase : {"typing", "pause", "deleting"}]

\* Its steps.
TypingNext ==
    \/ TypingInView \/ TypingTick
    \/ \E s \in DOMAIN WordsToAnimate : TypingSource(s)

\* A prefix of the word it is at is displayed.
TypingPrefix ==
        /\ ui.text[2] = ui.char
        /\ ui.char > 0 => ui.text[1] = ui.word /\ ui.char <= Word

\* One timer, as long as the component is there and has words.
TypingInv ==
    /\ ui \in TypingStates
    /\ Only(pending, IF ui.mounted /\ WordsToAnimate[ui.source] # <<>>
                     THEN {"timer"} ELSE {})
    /\ TypingPrefix

\* It begins with one timer, or none without words, and an empty text.
LEMMA TypingInit0 == TypingInit => TypingInv
  <1> SUFFICES ASSUME TypingInit PROVE TypingInv
      OBVIOUS
  <1>a. 1 \in DOMAIN WordsToAnimate BY WordsAssumption
  <1>1. ui \in TypingStates
     <2>1. 1 \in Nat /\ 0 \in Nat /\ <<1, 0>> \in Nat \X Nat OBVIOUS
     <2> QED BY <1>a, <2>1, Zenon DEF TypingInit, TypingStates
  <1>2. TypingPrefix BY DEF TypingInit, TypingPrefix
  <1> QED BY <1>1, <1>2, OnlyNothing DEF TypingInit, TypingInv

\* A word has a length.
LEMMA WordNat == ASSUME ui \in TypingStates PROVE Word \in Nat
  BY WordsAssumption DEF TypingStates, Word

\* The effect replaces the timer of the render before.
LEMMA TypingEffectKept ==
   ASSUME TypingInv, NEW new \in TypingStates, NEW calls, new.mounted,
          Only(calls, {"timer"}), TypingEffect(new, calls)
   PROVE  /\ ui' = new
          /\ Only(pending, IF ui.mounted /\ WordsToAnimate[ui.source] # <<>>
                     THEN {"timer"} ELSE {})'
  <1>1. Only(Cancel(calls, {"timer"}), {}) BY OnlyCancel
  <1>2. Only(RegisterIf(new.shouldStart /\ WordsToAnimate[new.source] # <<>>,
                        Cancel(calls, {"timer"}), {"timer"}),
             IF new.mounted /\ WordsToAnimate[new.source] # <<>> THEN {"timer"} ELSE {})
    <2>1. CASE new.shouldStart /\ WordsToAnimate[new.source] # <<>>
       BY <1>1, <2>1, OnlyRegister DEF RegisterIf
    <2>2. CASE ~(new.shouldStart /\ WordsToAnimate[new.source] # <<>>)
       BY <1>1, <2>2, OnlyMore DEF RegisterIf
    <2> QED BY <2>1, <2>2
  <1> QED BY <1>2 DEF TypingEffect, Becomes

\* Every step keeps the displayed text a prefix, a change of the words while a
\* timer is pending included.
LEMMA TypingKept ==
    ASSUME TypingInv, TypingNext
    PROVE TypingInv'
  <1> USE DEF TypingInv
  <1>m. ui.mounted BY Zenon DEF TypingNext, TypingInView, TypingTick, TypingSource, On
  <1>o. Only(pending, {"timer"}) BY OnlyMore
  <1>1. CASE TypingInView
    <2> DEFINE new == [ui EXCEPT !.shouldStart = TRUE]
    <2>1. new \in TypingStates /\ new.mounted BY <1>m, Zenon DEF TypingStates
    <2>2. TypingEffect(new, pending) BY <1>1 DEF TypingInView
    <2> HIDE DEF new
    <2>3. ui' = new BY <2>1, <2>2, <1>o, TypingEffectKept
    <2>4. TypingPrefix' BY <2>3 DEF new, TypingPrefix, Word, TypingStates
    <2> QED BY <2>1, <2>2, <2>3, <2>4, <1>o, TypingEffectKept
  <1>2. ASSUME NEW s \in DOMAIN WordsToAnimate, TypingSource(s)
        PROVE TypingInv'
    <2> DEFINE new == [ui EXCEPT !.source = s, !.word = 1, !.char = 0,
                               !.text = <<1, 0>>, !.phase = "typing"]
    <2>1. new \in TypingStates /\ new.mounted
      <3>1. 1 \in Nat /\ 0 \in Nat /\ <<1, 0>> \in Nat \X Nat OBVIOUS
      <3> QED BY <1>m, <3>1, Zenon DEF TypingStates
    <2>2. TypingEffect(new, pending) BY <1>2 DEF TypingSource
    <2>5. new.text = <<1, 0>> /\ new.char = 0 BY DEF TypingStates
    <2> HIDE DEF new
    <2>3. ui' = new BY <2>1, <2>2, <1>o, TypingEffectKept
    <2>4. TypingPrefix' BY <2>3, <2>5 DEF TypingPrefix
    <2> QED BY <2>1, <2>2, <2>3, <2>4, <1>o, TypingEffectKept
  <1>3. CASE TypingTick
    <2> DEFINE rest == Cancel(pending, {"timer"})
    <2>1. Only(rest, {}) /\ Only(rest, {"timer"}) BY <1>o, OnlyCancel
    <2>2. WordsToAnimate[ui.source] # <<>>
       BY <1>3, OnlyFires DEF TypingTick, Calls
    <2>w. Word \in Nat BY WordNat
    <2>x. Len(WordsToAnimate[ui.source]) \in Nat \ {0}
      BY <2>2, WordsAssumption DEF TypingStates
    <2>3. /\ Typed \in TypingStates /\ Typed.mounted
          /\ Typed.source = ui.source
          /\ Typed.text[2] = Typed.char
          /\ Typed.char > 0 => /\ Typed.text[1] = Typed.word
                              /\ Typed.word = ui.word /\ Typed.char <= Word
      <3>1. CASE ui.phase = "typing" /\ ui.char < Word
        <4>1. Typed = [ui EXCEPT !.text = <<ui.word, ui.char + 1>>, !.char = @ + 1]
          BY <3>1, <2>w DEF Typed, TypingStates
        <4>2. <<ui.word, ui.char + 1>> \in Nat \X Nat /\ ui.char + 1 \in Nat
          BY DEF TypingStates
        <4>3. Typed \in TypingStates BY <4>1, <4>2, Zenon DEF TypingStates
        <4> QED BY <4>1, <4>3, <3>1, <2>w, <1>m DEF TypingStates
      <3>2. CASE ui.phase = "typing" /\ ui.char >= Word
        <4>1. Typed = [ui EXCEPT !.phase = "pause"] \/ Typed = ui
          BY <3>2, <2>w DEF Typed, TypingStates
        <4> QED BY <4>1, <1>m DEF TypingStates, TypingPrefix
      <3>3. CASE ui.phase = "pause"
        <4>1. Typed = [ui EXCEPT !.phase = "deleting"]
          BY <3>3 DEF Typed
        <4> QED BY <4>1, <1>m DEF TypingStates, TypingPrefix
      <3>4. CASE ui.phase = "deleting" /\ ui.char > 0
        <4>1. Typed = [ui EXCEPT !.text = <<ui.word, ui.char - 1>>, !.char = @ - 1]
          BY <3>4 DEF Typed
        <4>2. <<ui.word, ui.char - 1>> \in Nat \X Nat /\ ui.char - 1 \in Nat
          BY <3>4 DEF TypingStates
        <4>3. Typed \in TypingStates BY <4>1, <4>2, Zenon DEF TypingStates
        <4> QED BY <4>1, <4>3, <3>4, <2>w, <1>m DEF TypingStates, TypingPrefix
      <3>5. CASE ui.phase = "deleting" /\ ui.char = 0
        <4>1. Typed = [ui EXCEPT !.word = (ui.word % Len(WordsToAnimate[ui.source])) + 1,
                                 !.phase = "typing"]
          BY <3>5 DEF Typed
        <4>2. (ui.word % Len(WordsToAnimate[ui.source])) + 1 \in Nat
          BY <2>x DEF TypingStates
        <4>3. Typed \in TypingStates BY <4>1, <4>2, Zenon DEF TypingStates
        <4> QED BY <4>1, <4>3, <3>5, <1>m DEF TypingStates, TypingPrefix
      <3> QED BY <2>w, <3>1, <3>2, <3>3, <3>4, <3>5 DEF TypingStates
    <2>4. ui' = Typed /\ Only(pending, IF ui.mounted /\ WordsToAnimate[ui.source] # <<>>
                     THEN {"timer"} ELSE {})'
      <3>1. CASE Typed = ui
        BY <3>1, <1>3, <2>1, <2>2, <1>m DEF TypingTick, Becomes
      <3>2. CASE Typed # ui
        <4>1. TypingEffect(Typed, rest) BY <3>2, <1>3 DEF TypingTick
        <4> QED BY <4>1, <2>1, <2>3, TypingEffectKept
      <3> QED BY <3>1, <3>2
    <2>5. TypingPrefix' BY <2>3, <2>4 DEF TypingPrefix, Word
    <2> QED BY <2>3, <2>4, <2>5
  <1> QED BY <1>1, <1>2, <1>3 DEF TypingNext

-----------------------------------------------------------------------------

\* A component that is mounted has registered at most the kinds, one of each.
Registered(kinds) ==
    /\ "mounted" \in DOMAIN ui
    /\ Only(pending, IF ui.mounted THEN kinds ELSE {})

\* React unmounts the component; calls are what its cleanups leave.
Gone(calls) == Becomes([ui EXCEPT !.mounted = FALSE], calls)

\* Cancelling and registering again adds nothing.
LEMMA OnlyRestart ==
    ASSUME NEW c, NEW p, NEW J, NEW K, Only(p, K), J \subseteq K
    PROVE /\ Only(RegisterIf(c, Cancel(p, J), J), K)
          /\ Only(Register(Cancel(p, J), J), K)
          /\ Only(Cancel(p, J), K)
  <1>1. Only(Cancel(p, J), K \ J) BY OnlyCancel
  <1>2. Only(Register(Cancel(p, J), J), K) BY <1>1, OnlyRegister
  <1>3. Only(Cancel(p, J), K) BY <1>1, OnlyMore
  <1> QED BY <1>2, <1>3 DEF RegisterIf

\* A component that stays mounted and registers nothing else.
LEMMA RegisteredStays ==
    ASSUME NEW K, Registered(K), ui.mounted, NEW new, NEW calls, Becomes(new, calls),
           "mounted" \in DOMAIN new, new.mounted = ui.mounted, Only(calls, K)
    PROVE Registered(K)'
  BY DEF Registered, Becomes

\* AnimatedList replaces its timer when it fires or its children change.
LEMMA ListKept ==
    ASSUME Registered({"timer"}), ListTick \/ \E n \in {1, 3} : ListChildren(n)
    PROVE Registered({"timer"})' /\ widget = "list" /\ UNCHANGED widget
  <1>1. ui.mounted /\ "mounted" \in DOMAIN ui /\ Only(pending, {"timer"})
    BY DEF ListTick, ListChildren, On, Registered
  <1>2. Only(Cancel(pending, {"timer"}), {"timer"}) BY <1>1, OnlyRestart
  <1>3. \A c : /\ Only(RegisterIf(c, Cancel(pending, {"timer"}), {"timer"}), {"timer"})
               /\ Only(RegisterIf(c, Cancel(Cancel(pending, {"timer"}), {"timer"}),
                                  {"timer"}), {"timer"})
    BY <1>1, <1>2, OnlyRestart
  <1> QED BY <1>1, <1>3, RegisteredStays, Zenon
          DEF ListTick, ListChildren, ListEffect, On, Becomes

\* WordRotate keeps one interval through its ticks and new words.
LEMMA RotateKept ==
    ASSUME Registered({"timer"}), RotateTick \/ RotateWords
    PROVE Registered({"timer"})' /\ widget = "rotate" /\ UNCHANGED widget
  <1>1. ui.mounted /\ "mounted" \in DOMAIN ui /\ Only(pending, {"timer"})
    BY DEF RotateTick, RotateWords, On, Registered
  <1>2. Only(Register(Cancel(pending, {"timer"}), {"timer"}), {"timer"}) BY <1>1, OnlyRestart
  <1> QED BY <1>1, <1>2, RegisteredStays, Zenon DEF RotateTick, RotateWords, On, Becomes

\* NumberTicker sets its timer again when it comes into view or its value
\* changes.
LEMMA TickerKept ==
    ASSUME Registered({"timer"}), TickerInView \/ TickerValue \/ TickerSet \/ TickerSpring
    PROVE Registered({"timer"})' /\ widget = "ticker" /\ UNCHANGED widget
  <1>1. ui.mounted /\ "mounted" \in DOMAIN ui /\ Only(pending, {"timer"})
    BY DEF TickerInView, TickerValue, TickerSet, TickerSpring, On, Registered
  <1>2. Only(Cancel(pending, {"timer"}), {"timer"}) BY <1>1, OnlyRestart
  <1>3. \A c : Only(RegisterIf(c, Cancel(pending, {"timer"}), {"timer"}), {"timer"})
    BY <1>1, OnlyRestart
  <1> QED BY <1>1, <1>2, <1>3, RegisteredStays, Zenon
          DEF TickerInView, TickerValue, TickerSet, TickerSpring, TickerEffect, On, Becomes

\* SparklesText replaces its interval.
LEMMA SparklesKept ==
    ASSUME Registered({"timer"}), SparklesUpdate \/ SparklesCount
    PROVE Registered({"timer"})' /\ widget = "sparkles" /\ UNCHANGED widget
  <1>1. ui.mounted /\ "mounted" \in DOMAIN ui /\ Only(pending, {"timer"})
    BY DEF SparklesUpdate, SparklesCount, On, Registered
  <1>2. Only(Register(Cancel(pending, {"timer"}), {"timer"}), {"timer"}) BY <1>1, OnlyRestart
  <1> QED BY <1>1, <1>2, RegisteredStays, Zenon DEF SparklesUpdate, SparklesCount, On, Becomes

\* TextReveal registers nothing.
LEMMA RevealKept ==
    ASSUME Registered({}), \E p \in 0 .. 8 : RevealScroll(p)
    PROVE Registered({})' /\ widget = "reveal" /\ UNCHANGED widget
  <1>1. ui.mounted /\ "mounted" \in DOMAIN ui /\ Only(pending, {})
    BY DEF RevealScroll, On, Registered
  <1> QED BY <1>1, RegisteredStays, Zenon DEF RevealScroll, On, Becomes

-----------------------------------------------------------------------------
(* DiaTextReveal.                                                          *)

\* DiaTextReveal waits for the frame of a sweep or for the timer between two,
\* never for both.
DiaInv ==
    /\ {"mounted", "running"} \subseteq DOMAIN ui
    /\ ui.mounted /\ ui.running => Only(pending, {"frame"}) \/ Only(pending, {"timer"})
    /\ ~(ui.mounted /\ ui.running) => Only(pending, {})

\* Its cleanup cancels whichever it waits for.
LEMMA DiaQuiet ==
    ASSUME DiaInv
    PROVE Only(DiaCleanup(pending), {})
  BY OnlyCancel DEF DiaInv, DiaCleanup

\* Its effect, run after the cleanup, starts one sweep at most.
LEMMA DiaEffectKept ==
    ASSUME DiaInv, ui.mounted, NEW seen \in BOOLEAN, DiaEffect(seen)
    PROVE DiaInv' /\ UNCHANGED widget
  <1>1. Only(DiaCleanup(pending), {}) BY DiaQuiet
  <1>2. Only(Register(DiaCleanup(pending), {"frame"}), {"frame"}) BY <1>1, OnlyRegister
  <1>3. /\ UNCHANGED widget
        /\ {"mounted", "running"} \subseteq DOMAIN ui' /\ ui'.mounted = ui.mounted
        /\ \/ pending' = DiaCleanup(pending) /\ ui'.running = FALSE
           \/ pending' = Register(DiaCleanup(pending), {"frame"}) /\ ui'.running = TRUE
    <2> DEFINE idle == [ui EXCEPT !.inView = seen, !.running = FALSE]
    <2>1. /\ {"mounted", "running"} \subseteq DOMAIN idle /\ idle.mounted = ui.mounted
          /\ idle.running = FALSE
      BY Zenon DEF DiaInv
    <2> HIDE DEF idle
    <2>2. \/ ui' = [idle EXCEPT !.sweep = "end"] /\ pending' = DiaCleanup(pending)
          \/ ui' = idle /\ pending' = DiaCleanup(pending)
          \/ /\ ui' = [idle EXCEPT !.hasPlayed = TRUE, !.running = TRUE, !.sweep = "start"]
             /\ pending' = Register(DiaCleanup(pending), {"frame"})
      BY DEF DiaEffect, Becomes, idle
    <2>3. UNCHANGED widget BY DEF DiaEffect, Becomes
    <2> QED BY <2>1, <2>2, <2>3, Zenon
  <1> QED BY <1>1, <1>2, <1>3 DEF DiaInv

\* Coming into view, leaving it, the end of a sweep and its repetition keep the
\* two apart.
LEMMA DiaKept ==
    ASSUME DiaInv, DiaInView \/ DiaOutOfView \/ DiaSwept \/ DiaRepeat
    PROVE DiaInv' /\ widget = "dia" /\ UNCHANGED widget
  <1>1. CASE DiaInView \/ DiaOutOfView
    BY <1>1, DiaEffectKept, Zenon DEF DiaInView, DiaOutOfView, On
  <1>2. CASE DiaSwept
    <2>1. Fires("frame") /\ ui.mounted /\ widget = "dia" BY <1>2 DEF DiaSwept, On
    <2>2. ui.running /\ Only(pending, {"frame"})
      BY <2>1, OnlyFires DEF DiaInv, Calls
    <2>3. Only(Cancel(pending, {"frame"}), {}) BY <2>2, OnlyCancel
    <2>4. Only(Register(Cancel(pending, {"frame"}), {"timer"}), {"timer"})
      BY <2>3, OnlyRegister
    <2>5. Only(Cancel(pending, {"frame"}), {"timer"}) BY <2>3, OnlyMore
    <2> QED BY <1>2, <2>1, <2>2, <2>4, <2>5 DEF DiaInv, DiaSwept, Becomes, RegisterIf
  <1>3. CASE DiaRepeat
    <2>1. Fires("timer") /\ ui.mounted /\ widget = "dia" BY <1>3 DEF DiaRepeat, On
    <2>2. ui.running /\ Only(pending, {"timer"})
      BY <2>1, OnlyFires DEF DiaInv, Calls
    <2>3. Only(Cancel(pending, {"timer"}), {}) BY <2>2, OnlyCancel
    <2>4. Only(Register(Cancel(pending, {"timer"}), {"frame"}), {"frame"})
      BY <2>3, OnlyRegister
    <2> QED BY <1>3, <2>1, <2>2, <2>4 DEF DiaInv, DiaRepeat, Becomes
  <1> QED BY <1>1, <1>2, <1>3

\* Unmounted, it waits for nothing.
LEMMA DiaGone ==
    ASSUME DiaInv, Gone(DiaCleanup(pending))
    PROVE DiaInv'
  BY DiaQuiet DEF DiaInv, Gone, Becomes

-----------------------------------------------------------------------------
(* Terminal.                                                               *)

\* The states of Terminal: its sequence and the lines on their way.
TerminalStates ==
    [mounted : BOOLEAN, inView : BOOLEAN, activeIndex : Nat, started : SUBSET Line,
     shown : [Line -> Nat], done : SUBSET Nat, fresh : SUBSET Line]

\* Lines complete in their order, and only the current one may have started
\* without being complete.
TerminalInv ==
    /\ ui \in TerminalStates
    /\ ui.activeIndex >= 1
    /\ ui.done = 1 .. ui.activeIndex - 1
    /\ \A i \in ui.started : i <= ui.activeIndex
    /\ \A i \in Line : /\ i \in ui.done => LineShown(i)
                       /\ ui.shown[i] > 0 => i \in ui.started
                       /\ ~IsSpan(i) => ui.shown[i] <= Lines[i]
    /\ \A i \in ui.fresh : IsSpan(i)
    /\ Only(pending, IF ui.mounted /\ ui.activeIndex \in ui.started
                        /\ ~IsSpan(ui.activeIndex)
                     THEN {"timer"} ELSE {})

\* Its steps.
TerminalNext ==
    \/ TerminalInView
    \/ \E i \in Line : TerminalStart(i) \/ TerminalType(i)
                       \/ TerminalSpanShown(i) \/ TerminalSpanHidden(i)

\* Lines are numbered from one and have lengths.
LEMMA LineType == Line \subseteq Nat \ {0} /\ \A i \in Line : Lines[i] \in Nat
  BY LinesAssumption DEF Line

\* It begins at the first line with nothing shown.
LEMMA TerminalInit0 == TerminalInit => TerminalInv
  <1> SUFFICES ASSUME TerminalInit PROVE TerminalInv
      OBVIOUS
  <1>1. ui \in TerminalStates BY DEF TerminalInit, TerminalStates
  <1> QED BY <1>1, LineType, OnlyNothing DEF TerminalInit, TerminalInv, LineShown

\* Every step keeps the lines before the active one complete and those behind
\* it empty: a line is started only when it is the active one, and the active
\* one moves on only when its line is complete.
LEMMA TerminalKept ==
    ASSUME TerminalInv, TerminalNext
    PROVE TerminalInv' /\ widget = "terminal" /\ UNCHANGED widget
  <1>w. widget = "terminal" /\ ui.mounted
    BY Zenon DEF TerminalNext, TerminalInView, TerminalStart, TerminalType,
                 TerminalSpanShown, TerminalSpanHidden, On
  <1>1. CASE TerminalInView
    <2>1. ui' = [ui EXCEPT !.inView = TRUE] /\ UNCHANGED <<pending, widget>>
      BY <1>1 DEF TerminalInView, Becomes
    <2>2. ui' \in TerminalStates BY <2>1, Zenon DEF TerminalInv, TerminalStates
    <2> QED BY <1>w, <2>1, <2>2, Zenon DEF TerminalInv, TerminalStates, LineShown
  <1>2. ASSUME NEW i \in Line, TerminalStart(i) PROVE TerminalInv' /\ UNCHANGED widget
    <2>1. ui' = [ui EXCEPT !.started = @ \cup {i}] /\ i = ui.activeIndex /\ i \notin ui.started
          /\ UNCHANGED widget
      BY <1>2 DEF TerminalStart, Becomes
    <2>2. ui.started \cup {i} \in SUBSET Line BY DEF TerminalInv, TerminalStates
    <2>3. ui' \in TerminalStates BY <2>1, <2>2, Zenon DEF TerminalInv, TerminalStates
    <2>4. Only(pending, {}) BY <2>1 DEF TerminalInv
    <2>5. Only(Register(pending, {"timer"}), {"timer"}) BY <2>4, OnlyRegister
    <2>6. pending' = IF IsSpan(i) THEN pending ELSE Register(pending, {"timer"})
      BY <1>2 DEF TerminalStart, Becomes, RegisterIf
    <2>7. /\ ui'.mounted = ui.mounted /\ ui'.activeIndex = ui.activeIndex
          /\ ui'.started = ui.started \cup {i} /\ ui'.shown = ui.shown
          /\ ui'.done = ui.done /\ ui'.fresh = ui.fresh
      BY <2>1 DEF TerminalInv, TerminalStates
    <2> QED BY <1>w, <2>1, <2>3, <2>4, <2>5, <2>6, <2>7, LineType DEF TerminalInv, LineShown
  <1>3. ASSUME NEW i \in Line, TerminalType(i) PROVE TerminalInv' /\ UNCHANGED widget
    <2>1. /\ ~IsSpan(i) /\ i \in ui.started /\ i \notin ui.done /\ UNCHANGED widget
          /\ i = ui.activeIndex /\ Only(pending, {"timer"})
      BY <1>3, <1>w, LineType DEF TerminalInv, TerminalStates, TerminalType, Becomes
    <2>2. CASE ui.shown[i] < Lines[i]
      <3>1. ui' = [ui EXCEPT !.shown[i] = @ + 1] /\ pending' = pending
        BY <1>3, <2>2 DEF TerminalType, Becomes
      <3>2. ui.shown \in [Line -> Nat] BY DEF TerminalInv, TerminalStates
      <3>3. [ui.shown EXCEPT ![i] = @ + 1] \in [Line -> Nat] BY <3>2
      <3>4. ui' \in TerminalStates BY <3>1, <3>3, Zenon DEF TerminalInv, TerminalStates
      <3>5. /\ ui'.mounted = ui.mounted /\ ui'.activeIndex = ui.activeIndex
            /\ ui'.started = ui.started /\ ui'.shown = [ui.shown EXCEPT ![i] = @ + 1]
            /\ ui'.done = ui.done /\ ui'.fresh = ui.fresh
        BY <3>1 DEF TerminalInv, TerminalStates
      <3> QED BY <2>1, <2>2, <3>1, <3>2, <3>4, <3>5, LineType DEF TerminalInv, LineShown
    <2>3. CASE ~(ui.shown[i] < Lines[i])
      <3>1. /\ ui' = completeItem([ui EXCEPT !.done = @ \cup {i}], i)
            /\ pending' = Cancel(pending, {"timer"})
        BY <1>3, <2>3 DEF TerminalType, Becomes
      <3>2. /\ ui'.mounted = ui.mounted /\ ui'.activeIndex = i + 1
            /\ ui'.started = ui.started /\ ui'.shown = ui.shown
            /\ ui'.done = ui.done \cup {i} /\ ui'.fresh = ui.fresh
            /\ ui'.inView = ui.inView
            /\ ui' = [mounted |-> ui.mounted, inView |-> ui.inView, activeIndex |-> i + 1,
                      started |-> ui.started, shown |-> ui.shown,
                      done |-> ui.done \cup {i}, fresh |-> ui.fresh]
        BY <2>1, <3>1, Zenon DEF TerminalInv, TerminalStates, completeItem
      <3>3. i + 1 \in Nat /\ ui.done \cup {i} \in SUBSET Nat
        BY LineType DEF TerminalInv, TerminalStates
      <3>4. ui' \in TerminalStates BY <3>2, <3>3, Zenon DEF TerminalInv, TerminalStates
      <3>5. LineShown(i) BY <2>1, <2>3, LineType DEF TerminalInv, TerminalStates, LineShown
      <3>6. Only(pending', {}) BY <2>1, <3>1, OnlyCancel
      <3> QED BY <2>1, <3>2, <3>4, <3>5, <3>6, LineType
              DEF TerminalInv, TerminalStates, LineShown
    <2> QED BY <2>2, <2>3
  <1>4. ASSUME NEW i \in Line, TerminalSpanShown(i) PROVE TerminalInv' /\ UNCHANGED widget
    <2>1. /\ IsSpan(i) /\ i \in ui.started /\ i \notin ui.done /\ UNCHANGED widget
          /\ i = ui.activeIndex /\ Only(pending, {}) /\ pending' = pending
          /\ ui' = completeItem([ui EXCEPT !.shown[i] = 1, !.done = @ \cup {i}], i)
      BY <1>4, <1>w, LineType DEF TerminalInv, TerminalStates, TerminalSpanShown, Becomes
    <2>2. /\ ui'.mounted = ui.mounted /\ ui'.activeIndex = i + 1
          /\ ui'.started = ui.started /\ ui'.shown = [ui.shown EXCEPT ![i] = 1]
          /\ ui'.done = ui.done \cup {i} /\ ui'.fresh = ui.fresh
          /\ ui' = [mounted |-> ui.mounted, inView |-> ui.inView, activeIndex |-> i + 1,
                    started |-> ui.started, shown |-> [ui.shown EXCEPT ![i] = 1],
                    done |-> ui.done \cup {i}, fresh |-> ui.fresh]
      BY <2>1, Zenon DEF TerminalInv, TerminalStates, completeItem
    <2>3. /\ i + 1 \in Nat /\ ui.done \cup {i} \in SUBSET Nat
          /\ [ui.shown EXCEPT ![i] = 1] \in [Line -> Nat]
      BY LineType DEF TerminalInv, TerminalStates
    <2>4. ui' \in TerminalStates BY <2>2, <2>3, Zenon DEF TerminalInv, TerminalStates
    <2>5. \A j \in Line : /\ ui'.shown[j] = (IF j = i THEN 1 ELSE ui.shown[j])
                          /\ j \in ui'.done <=> j \in ui.done \/ j = i
      BY <2>2 DEF TerminalInv, TerminalStates
    <2>6. \A j \in Line : /\ j \in ui'.done => LineShown(j)'
                          /\ ui'.shown[j] > 0 => j \in ui'.started
                          /\ ~IsSpan(j) => ui'.shown[j] <= Lines[j]
      BY <2>1, <2>2, <2>5, LineType DEF TerminalInv, LineShown
    <2>7. i \in Nat \ {0} /\ ui.done = 1 .. i - 1 /\ ui.started \subseteq Nat
          /\ \A j \in ui.started : j <= i
      BY <2>1, LineType DEF TerminalInv, TerminalStates
    <2>8. 1 .. i = (1 .. i - 1) \cup {i} BY <2>7
    <2>9. i + 1 >= 1 /\ (i + 1) - 1 = i /\ \A j \in ui.started : j <= i + 1 /\ j # i + 1
      BY <2>7
    <2>10. /\ ui'.activeIndex >= 1 /\ ui'.done = 1 .. ui'.activeIndex - 1
           /\ \A j \in ui'.started : j <= ui'.activeIndex
           /\ ui'.activeIndex \notin ui'.started
      BY <2>2, <2>7, <2>8, <2>9
    <2>11. Only(pending', IF ui'.mounted /\ ui'.activeIndex \in ui'.started
                             /\ ~IsSpan(ui'.activeIndex)
                          THEN {"timer"} ELSE {})
      BY <2>1, <2>10
    <2>12. \A j \in ui'.fresh : IsSpan(j) BY <2>2 DEF TerminalInv
    <2> QED BY <2>1, <2>4, <2>6, <2>10, <2>11, <2>12 DEF TerminalInv, LineShown
  <1>5. ASSUME NEW i \in Line, TerminalSpanHidden(i) PROVE TerminalInv' /\ UNCHANGED widget
    <2>1. /\ IsSpan(i) /\ ui.done = {} /\ UNCHANGED widget /\ pending' = pending
          /\ ui' = completeItem([ui EXCEPT !.fresh = @ \ {i}], i)
      BY <1>5, Zenon DEF TerminalInv, TerminalSpanHidden, Becomes
    <2>2. ui.activeIndex = 1 BY <2>1 DEF TerminalInv, TerminalStates
    <2>3. i # ui.activeIndex BY <2>1, <2>2, LinesAssumption DEF Line, IsSpan
    <2>4. /\ ui' = [ui EXCEPT !.fresh = @ \ {i}]
          /\ ui'.mounted = ui.mounted /\ ui'.activeIndex = ui.activeIndex
          /\ ui'.started = ui.started /\ ui'.shown = ui.shown
          /\ ui'.done = ui.done /\ ui'.fresh = ui.fresh \ {i}
      BY <2>1, <2>3, Zenon DEF TerminalInv, TerminalStates, completeItem
    <2>5. ui.fresh \ {i} \in SUBSET Line BY DEF TerminalInv, TerminalStates
    <2>6. ui' \in TerminalStates BY <2>4, <2>5, Zenon DEF TerminalInv, TerminalStates
    <2> QED BY <2>1, <2>4, <2>6, Zenon DEF TerminalInv, LineShown
  <1> QED BY <1>w, <1>1, <1>2, <1>3, <1>4, <1>5, SMTT(40) DEF TerminalNext, TerminalInView, Becomes

\* Unmounted, its timer is cancelled and its lines stay as they are.
LEMMA TerminalGone ==
    ASSUME TerminalInv, Gone(Cancel(pending, {"timer"}))
    PROVE TerminalInv'
  <1>1. /\ ui' = [ui EXCEPT !.mounted = FALSE] /\ pending' = Cancel(pending, {"timer"})
    BY DEF Gone, Becomes
  <1>2. ui' \in TerminalStates BY <1>1, Zenon DEF TerminalInv, TerminalStates
  <1>3. Only(pending', {}) BY <1>1, OnlyCancel DEF TerminalInv
  <1>4. /\ ui'.mounted = FALSE /\ ui'.activeIndex = ui.activeIndex
        /\ ui'.started = ui.started /\ ui'.shown = ui.shown
        /\ ui'.done = ui.done /\ ui'.fresh = ui.fresh
    BY <1>1 DEF TerminalInv, TerminalStates
  <1> QED BY <1>2, <1>3, <1>4 DEF TerminalInv, LineShown

-----------------------------------------------------------------------------
(* Particles.                                                              *)

\* At most one frame, timer and listener of a kind.
ParticlesInv == Registered({"frame", "timer", "resize", "pointer"})

\* The steps of Particles.
ParticlesNext ==
    \/ ParticlesFrame \/ ParticlesResize \/ ParticlesTimeout
    \/ \E inside \in BOOLEAN : ParticlesPointer(inside)
    \/ ParticlesColor \/ ParticlesRefresh
    \/ \E q \in Quantities : ParticlesQuantity(q)

\* The first effects register each once.
LEMMA ParticlesInit0 == ParticlesInit => ParticlesInv
  <1> SUFFICES ASSUME ParticlesInit PROVE ParticlesInv
      OBVIOUS
  <1>0. Only(Nothing, {}) BY OnlyNothing
  <1>1. Only(pending, {"frame", "timer", "resize", "pointer"})
    BY <1>0, OnlyRegister DEF ParticlesInit
  <1> QED BY <1>1 DEF ParticlesInit, ParticlesInv, initCanvas, Registered

\* Resizes, timeouts, frames and new props cancel what they register again.
LEMMA ParticlesKept ==
    ASSUME ParticlesInv, ParticlesNext
    PROVE ParticlesInv' /\ widget = "particles" /\ UNCHANGED widget
  <1> DEFINE All == {"frame", "timer", "resize", "pointer"}
  <1>1. ui.mounted /\ widget = "particles" /\ UNCHANGED widget
    BY DEF ParticlesNext, ParticlesFrame, ParticlesResize, ParticlesTimeout,
           ParticlesPointer, ParticlesColor, ParticlesRefresh, ParticlesQuantity,
           On, Becomes
  <1>2. Only(pending, All) BY <1>1 DEF ParticlesInv, Registered
  <1>3. Only(pending', All)
    <2>1. Only(Cancel(pending, {"timer"}), All \ {"timer"}) BY <1>2, OnlyCancel
    <2>2. Only(Cancel(pending, {"timer"}), All) BY <2>1, OnlyMore
    <2>3. Only(Register(Cancel(pending, {"timer"}), {"timer"}), All)
      BY <2>1, OnlyRegister
    <2>4. Only(Cancel(pending, {"frame"}), All \ {"frame"}) BY <1>2, OnlyCancel
    <2>5. Only(Register(Cancel(pending, {"frame"}), {"frame"}), All)
      BY <2>4, OnlyRegister
    <2>6. Only(ParticlesStops(pending), All \ {"frame", "timer", "resize"})
      BY <1>2, OnlyCancel DEF ParticlesStops
    <2>7. Only(Register(ParticlesStops(pending), {"frame", "resize"}), All)
      BY <2>6, OnlyRegister, OnlyMore
    <2> QED BY <1>2, <2>2, <2>3, <2>5, <2>7
      DEF ParticlesNext, ParticlesFrame, ParticlesResize, ParticlesTimeout,
          ParticlesPointer, ParticlesColor, ParticlesRefresh, ParticlesQuantity, Becomes
  <1>4. ui'.mounted /\ "mounted" \in DOMAIN ui'
    <2>1. /\ "mounted" \in DOMAIN initCanvas(ui) /\ initCanvas(ui).mounted
      BY <1>1 DEF ParticlesInv, Registered, initCanvas
    <2>2. \A state, leaving : "mounted" \in DOMAIN state /\ state.mounted
             => /\ "mounted" \in DOMAIN moveCircles(state, leaving)
                /\ moveCircles(state, leaving).mounted
      BY DEF moveCircles
    <2>3. \/ ui' = ui \/ ui' = initCanvas(ui)
          \/ \E leaving : ui' = moveCircles(ui, leaving)
          \/ \E leaving : ui' = moveCircles(initCanvas(ui), leaving)
          \/ \E inside \in BOOLEAN : ui' = [ui EXCEPT !.mouse = @ \/ inside]
          \/ \E q \in Quantities : ui' = [ui EXCEPT !.quantity = q]
      BY DEF ParticlesNext, ParticlesFrame, ParticlesResize, ParticlesTimeout,
             ParticlesPointer, ParticlesColor, ParticlesRefresh, ParticlesQuantity, Becomes
    <2> QED BY <1>1, <2>1, <2>2, <2>3 DEF ParticlesInv, Registered
  <1> QED BY <1>1, <1>3, <1>4 DEF ParticlesInv, Registered

\* Unmounted, its three cleanups cancel everything.
LEMMA ParticlesGone ==
    ASSUME ParticlesInv, Gone(Cancel(ParticlesStops(pending), {"pointer"}))
    PROVE ParticlesInv'
  <1>1. Only(pending, {"frame", "timer", "resize", "pointer"})
    BY NothingOnly, OnlyMore DEF ParticlesInv, Registered
  <1>2. Only(ParticlesStops(pending), {"pointer"})
    BY <1>1, OnlyCancel DEF ParticlesStops
  <1>3. Only(Cancel(ParticlesStops(pending), {"pointer"}), {}) BY <1>2, OnlyCancel
  <1> QED BY <1>3 DEF ParticlesInv, Registered, Gone, Becomes

-----------------------------------------------------------------------------
(* FlickeringGrid.                                                         *)

\* What FlickeringGrid registers.
FlickerCalls == {"frame", "resize", "view"}

\* Its steps.
FlickerNext ==
    \/ \E w \in 0 .. 2, seen \in BOOLEAN : FlickerView(seen, w)
    \/ \E w \in 0 .. 2 : FlickerProps(w) \/ FlickerResize(w)
    \/ FlickerFrame

\* Its effect runs again after its cleanup, whatever comes first.
LEMMA FlickerKept ==
    ASSUME Registered(FlickerCalls), FlickerNext
    PROVE Registered(FlickerCalls)' /\ widget = "flicker" /\ UNCHANGED widget
  <1>1. /\ ui.mounted /\ "mounted" \in DOMAIN ui /\ Only(pending, FlickerCalls)
        /\ widget = "flicker"
    BY Zenon DEF FlickerNext, FlickerView, FlickerProps, FlickerResize, FlickerFrame, On,
           Registered
  <1>2. \A c : Only(RegisterIf(c, Cancel(pending, {"frame"}), {"frame"}), FlickerCalls)
    BY <1>1, OnlyRestart DEF FlickerCalls
  <1>3. \A c : Only(RegisterIf(c, Register(FlickerStops(pending), {"resize", "view"}),
                               {"frame"}), FlickerCalls)
    <2>1. Only(FlickerStops(pending), {})
      BY <1>1, OnlyCancel DEF FlickerStops, FlickerCalls
    <2>2. Only(Register(FlickerStops(pending), {"resize", "view"}), {"resize", "view"})
      BY <2>1, OnlyRegister
    <2>3. Only(Register(FlickerStops(pending), {"resize", "view"}), FlickerCalls)
      BY <2>2, OnlyMore DEF FlickerCalls
    <2>4. Only(Register(Register(FlickerStops(pending), {"resize", "view"}), {"frame"}),
               FlickerCalls)
      BY <2>2, OnlyRegister DEF FlickerCalls
    <2> QED BY <2>3, <2>4 DEF RegisterIf
  <1> QED BY <1>1, <1>2, <1>3, RegisteredStays, Zenon
          DEF FlickerNext, FlickerView, FlickerProps, FlickerResize, FlickerFrame,
              FlickerEffect, Becomes

-----------------------------------------------------------------------------
(* IconCloud.                                                              *)

\* The fields of IconCloud that its steps change.
CloudFields == {"isPaused", "isDragging", "targetRotation", "images", "loads",
                "loaded", "canvases", "drawn", "late"}

\* Without a late image the canvases hold the images that have been loaded, and
\* the drawing stops only with every image loaded and drawn.
CloudState(state) ==
    /\ CloudFields \cup {"mounted"} \subseteq DOMAIN state
    /\ state.loaded \subseteq Icons
    /\ ~state.late => state.canvases = state.loaded

\* Without a pending frame every icon is loaded and, unless one of them came
\* late, drawn.
CloudInv ==
    /\ Registered({"frame", "view"})
    /\ CloudState(ui)
    /\ ui.mounted /\ pending["frame"] = 0 =>
         ui.loaded = Icons /\ (~ui.late => ui.drawn = Icons)

\* The steps of IconCloud.
CloudNext ==
    \/ CloudFrame \/ CloudRotated
    \/ \E g \in 1 .. 2, i \in Icons : CloudLoaded(g, i)
    \/ CloudImages \/ \E paused \in BOOLEAN : CloudPause(paused)
    \/ \E hit \in BOOLEAN : CloudMouseDown(hit)
    \/ CloudMouseMove \/ CloudMouseUp

\* It begins with a frame.
LEMMA CloudInit0 == CloudInit => CloudInv
  <1> SUFFICES ASSUME CloudInit PROVE CloudInv
      OBVIOUS
  <1>0. Only(Nothing, {}) BY OnlyNothing
  <1>1. Only(pending, {"frame", "view"}) BY <1>0, OnlyRegister DEF CloudInit
  <1>2. pending["frame"] # 0 BY DEF CloudInit, Register, Nothing, Calls
  <1> QED BY <1>1, <1>2 DEF CloudInit, CloudInv, CloudState, CloudFields, Registered

\* A frame draws the icons that are loaded and asks for another one unless
\* nothing moves and all icons are loaded.
LEMMA AnimateKept ==
    ASSUME CloudInv, ui.mounted, NEW state, CloudState(state), state.mounted,
           animate(state, Cancel(pending, {"frame"}))
    PROVE CloudInv' /\ UNCHANGED widget
  <1>1. Only(pending, {"frame", "view"}) BY DEF CloudInv, Registered
  <1>2. /\ Only(Cancel(pending, {"frame"}), {"view"})
        /\ Only(Cancel(pending, {"frame"}), {"frame", "view"})
    BY <1>1, OnlyCancel
  <1>3. Only(Register(Cancel(pending, {"frame"}), {"frame"}), {"frame", "view"})
    BY <1>2, OnlyRegister
  <1>4. Register(Cancel(pending, {"frame"}), {"frame"})["frame"] # 0
    BY <1>2 DEF Only, Register, Calls
  <1>5. /\ ui' = [state EXCEPT !.drawn = state.loaded \cap state.canvases]
        /\ UNCHANGED widget
        /\ \/ pending' = Register(Cancel(pending, {"frame"}), {"frame"})
           \/ pending' = Cancel(pending, {"frame"}) /\ state.loaded = Icons
    BY DEF animate, Becomes, RegisterIf, shouldContinue
  <1>6. /\ CloudState(ui') /\ ui'.mounted /\ ui'.loaded = state.loaded
        /\ ui'.late = state.late /\ ui'.drawn = state.loaded \cap state.canvases
    BY <1>5 DEF CloudState, CloudFields
  <1>7. Only(pending', {"frame", "view"}) BY <1>2, <1>3, <1>5
  <1> QED BY <1>4, <1>5, <1>6, <1>7 DEF CloudInv, CloudState, Registered

\* Loads, drags, pauses and new images keep a frame pending as long as an icon
\* is missing.
LEMMA CloudKept ==
    ASSUME CloudInv, CloudNext
    PROVE CloudInv' /\ widget = "cloud" /\ UNCHANGED widget
  <1>1. widget = "cloud"
    BY Zenon DEF CloudNext, CloudFrame, CloudRotated, CloudLoaded, CloudImages, CloudPause,
           CloudMouseDown, CloudMouseMove, CloudMouseUp, On
  <1>2. ASSUME NEW g \in 1 .. 2, NEW i \in Icons, CloudLoaded(g, i)
        PROVE CloudInv' /\ UNCHANGED widget
    <2>1. /\ pending' = pending /\ UNCHANGED widget
          /\ ui' = [ui EXCEPT !.loads = @ \ {<<g, i>>}, !.loaded = @ \cup {i},
                          !.canvases = IF g = ui.images THEN @ \cup {i} ELSE @,
                          !.late = @ \/ g # ui.images]
      BY <1>2 DEF CloudLoaded, Becomes
    <2>2. /\ CloudFields \cup {"mounted"} \subseteq DOMAIN ui'
          /\ ui'.mounted = ui.mounted /\ ui'.drawn = ui.drawn
          /\ ui'.loaded = ui.loaded \cup {i}
          /\ ui'.canvases = IF g = ui.images THEN ui.canvases \cup {i} ELSE ui.canvases
          /\ ui'.late = (ui.late \/ g # ui.images)
      BY <2>1 DEF CloudInv, CloudState, CloudFields
    <2> QED BY <2>1, <2>2, ZenonT(60) DEF CloudInv, CloudState, Registered
  <1>3. CASE ~\E g \in 1 .. 2, i \in Icons : CloudLoaded(g, i)
    <2>1. PICK state : /\ animate(state, Cancel(pending, {"frame"}))
                       /\ \/ state = ui
                          \/ state = [ui EXCEPT !.targetRotation = FALSE]
                          \/ state = [ui EXCEPT !.images = 2,
                                        !.loads = @ \cup ({2} \X Icons),
                                        !.loaded = {}, !.canvases = {}]
                          \/ \E paused : state = [ui EXCEPT !.isPaused = paused]
                          \/ \E hit : state = [ui EXCEPT !.isDragging = TRUE,
                                                 !.targetRotation = @ \/ hit]
                          \/ state = [ui EXCEPT !.isDragging = FALSE]
      BY <1>3, ZenonT(60) DEF CloudNext, CloudFrame, CloudRotated, CloudImages, CloudPause,
           CloudMouseDown, CloudMouseMove, CloudMouseUp, CloudEffect
    <2>2. CloudState(state) /\ state.mounted = ui.mounted
      BY <2>1, ZenonT(60) DEF CloudInv, CloudState, CloudFields
    <2>3. ui.mounted
      BY <1>3, Zenon DEF CloudNext, CloudFrame, CloudRotated, CloudImages, CloudPause,
           CloudMouseDown, CloudMouseMove, CloudMouseUp, On
    <2> QED BY <1>1, <2>1, <2>2, <2>3, AnimateKept, Zenon
  <1>4. CASE \E g \in 1 .. 2, i \in Icons : CloudLoaded(g, i)
    <2>1. PICK g \in 1 .. 2, i \in Icons : CloudLoaded(g, i) BY <1>4
    <2> QED BY <1>1, <1>2, <2>1
  <1> QED BY <1>3, <1>4

\* Unmounted, the frame and the observer are cancelled.
LEMMA CloudGone ==
    ASSUME CloudInv, Gone(Cancel(pending, {"frame", "view"}))
    PROVE CloudInv'
  <1>1. Only(Cancel(pending, {"frame", "view"}), {})
    BY OnlyCancel DEF CloudInv, Registered
  <1> QED BY <1>1 DEF CloudInv, CloudState, CloudFields, Registered, Gone, Becomes

-----------------------------------------------------------------------------
(* RetroGrid.                                                              *)

\* The fields of RetroGrid.
RetroFields ==
    {"mounted", "gl", "pipeline", "alive", "frameId", "isVisible", "lost",
     "isContextLost", "heard", "size", "reduced", "told", "theme", "scheme", "canvas2d",
     "colour", "isWebGlReady", "shaders"}

\* The objects of a pipeline are alive unless the context is lost, a pipeline is
\* made with a context that is kept, and a component that was told of the loss
\* of its context has no pipeline.
RetroState(state) ==
    /\ DOMAIN state = RetroFields
    /\ state.alive = IF state.pipeline /\ ~state.lost THEN 2 ELSE 0
    /\ state.pipeline => state.gl
    /\ state.isContextLost => state.heard
    /\ state.heard => state.lost /\ ~state.pipeline

\* A frame is registered exactly when one is remembered.
RetroCalls(state, calls) ==
    /\ Only(calls, {"resize", "view", "pointer", "frame"})
    /\ calls["frame"] = IF state.frameId THEN 1 ELSE 0

\* The colours that the theme allows.
ThemeColours(state) ==
    {"gray"} \cup (IF state.theme = "dark" THEN {"dark"}
                   ELSE IF state.theme = "light" THEN {"light"}
                   ELSE IF state.scheme THEN {"dark"} ELSE {"light"})

\* What syncScene establishes.
InStep(state) ==
    /\ state.isWebGlReady => state.pipeline
    /\ state.frameId => state.pipeline /\ state.isVisible /\ state.size # 0
                        /\ state.colour \in ThemeColours(state)
    /\ state.pipeline /\ state.isVisible /\ state.size # 0 /\ ~state.frameId
          => state.reduced \/ state.told

\* While it is mounted the grid is in step; once it is gone its pipeline and
\* its frame are too.
RetroInv ==
    /\ widget = "retro"
    /\ RetroState(ui)
    /\ ui.mounted => RetroCalls(ui, pending) /\ InStep(ui)
    /\ ~ui.mounted => ~ui.pipeline /\ ~ui.frameId /\ Only(pending, {})

\* stopAnimation forgets the frame, which is right only where nothing has to
\* move.
LEMMA StopKept ==
    ASSUME widget = "retro", NEW state, NEW calls, RetroState(state), state.mounted,
           RetroCalls(state, calls), stopAnimation(state, calls),
           state.isWebGlReady => state.pipeline,
           state.pipeline /\ state.isVisible /\ state.size # 0
             => state.reduced \/ state.told
    PROVE RetroInv' /\ UNCHANGED widget
  <1>1. /\ ui' = [state EXCEPT !.frameId = FALSE] /\ UNCHANGED widget
        /\ pending' = IF state.frameId THEN Cancel(calls, {"frame"}) ELSE calls
    BY DEF stopAnimation, Becomes
  <1>2. /\ DOMAIN ui' = RetroFields /\ ui'.frameId = FALSE
        /\ \A f \in RetroFields \ {"frameId"} : ui'[f] = state[f]
    BY <1>1 DEF RetroState, RetroFields
  <1>3. RetroState(ui') /\ ui'.mounted
    BY <1>2 DEF RetroState, RetroFields
  <1>4. /\ Only(Cancel(calls, {"frame"}), {"resize", "view", "pointer", "frame"})
        /\ state.frameId => Cancel(calls, {"frame"})["frame"] = 0
    BY OnlyCancel DEF RetroCalls, Only, Cancel, Calls
  <1>5. RetroCalls(ui', pending') BY <1>1, <1>2, <1>4 DEF RetroCalls
  <1>6. InStep(ui') BY <1>2 DEF InStep, RetroFields
  <1> QED BY <1>1, <1>3, <1>5, <1>6 DEF RetroInv

\* showScene requests a frame or draws a still picture.
LEMMA ShowKept ==
    ASSUME widget = "retro", NEW state, NEW calls, RetroState(state), state.mounted,
           RetroCalls(state, calls), state.pipeline, showScene(state, calls)
    PROVE RetroInv' /\ UNCHANGED widget
  <1>1. CASE state.size = 0 BY <1>1, StopKept DEF showScene
  <1>2. CASE state.size # 0
    <2> DEFINE shown == [updateLineColor(state) EXCEPT !.isWebGlReady = TRUE]
    <2>1. /\ DOMAIN shown = RetroFields /\ shown.isWebGlReady = TRUE
          /\ \A f \in RetroFields \ {"isWebGlReady", "colour"} : shown[f] = state[f]
          /\ shown.colour \in ThemeColours(state)
      BY Zenon DEF RetroState, RetroFields, updateLineColor, resolveLineColor, isDarkMode,
             ThemeColours
    <2> HIDE DEF shown
    <2>2. RetroState(shown) /\ shown.mounted /\ RetroCalls(shown, calls) /\ shown.pipeline
      BY <2>1 DEF RetroState, RetroFields, RetroCalls
    <2>3. CASE state.reduced \/ ~state.isVisible
      <3>1. stopAnimation(shown, calls) BY <1>2, <2>3 DEF showScene, shown
      <3>2. shown.isVisible => shown.reduced BY <2>1, <2>3 DEF RetroFields
      <3> QED BY <2>2, <3>1, <3>2, StopKept
    <2>4. CASE ~(state.reduced \/ ~state.isVisible)
      <3>1. /\ ui' = [shown EXCEPT !.frameId = TRUE] /\ UNCHANGED widget
            /\ pending' = RegisterIf(~state.frameId, calls, {"frame"})
        BY <1>2, <2>4 DEF showScene, shown, Becomes
      <3>2. /\ DOMAIN ui' = RetroFields /\ ui'.frameId = TRUE
            /\ \A f \in RetroFields \ {"frameId"} : ui'[f] = shown[f]
        BY <2>1, <3>1 DEF RetroFields
      <3>3. RetroState(ui') /\ ui'.mounted BY <2>2, <3>2 DEF RetroState, RetroFields
      <3>4. /\ Only(pending', {"resize", "view", "pointer", "frame"})
            /\ pending'["frame"] = 1
        BY <3>1 DEF RetroCalls, RegisterIf, Only, Register, Calls
      <3>5. InStep(ui') BY <1>2, <2>1, <2>4, <3>2 DEF InStep, RetroFields, ThemeColours
      <3> QED BY <3>1, <3>2, <3>3, <3>4, <3>5 DEF RetroInv, RetroCalls
    <2> QED BY <2>3, <2>4
  <1> QED BY <1>1, <1>2

\* syncScene puts the grid in step from whatever state it is called in.
LEMMA SyncKept ==
    ASSUME widget = "retro", NEW state, NEW calls, RetroState(state), state.mounted,
           RetroCalls(state, calls), syncScene(state, calls)
    PROVE RetroInv' /\ UNCHANGED widget
  <1>1. CASE state.isContextLost
    <2> DEFINE new == [state EXCEPT !.isWebGlReady = FALSE]
    <2>1. /\ DOMAIN new = RetroFields /\ new.isWebGlReady = FALSE
          /\ \A f \in RetroFields \ {"isWebGlReady"} : new[f] = state[f]
      BY DEF RetroState, RetroFields
    <2>2. stopAnimation(new, calls) BY <1>1 DEF syncScene
    <2> HIDE DEF new
    <2>3. RetroState(new) /\ new.mounted /\ RetroCalls(new, calls) /\ ~new.pipeline
      BY <1>1, <2>1 DEF RetroState, RetroFields, RetroCalls
    <2> QED BY <2>1, <2>2, <2>3, StopKept
  <1>2. CASE ~state.isContextLost /\ state.gl /\ state.pipeline
    BY <1>2, ShowKept DEF syncScene
  <1>3. CASE ~state.isContextLost /\ ~(state.gl /\ state.pipeline)
    <2>1. ~state.pipeline BY <1>3 DEF RetroState
    <2>2. PICK attempt \in Attempts(state) :
             LET made == initializePipeline(state, attempt)
             IN IF made.pipeline THEN showScene(made, calls)
                ELSE stopAnimation([made EXCEPT !.isWebGlReady = FALSE], calls)
      BY <1>3 DEF syncScene
    <2> DEFINE made == initializePipeline(state, attempt)
               hidden == [made EXCEPT !.isWebGlReady = FALSE]
    <2>3. /\ DOMAIN made = RetroFields
          /\ \A f \in RetroFields \ {"gl", "pipeline", "alive", "shaders"} :
                made[f] = state[f]
          /\ \/ made.pipeline = FALSE /\ made.alive = state.alive
             \/ /\ made.pipeline = TRUE /\ made.gl = TRUE /\ ~state.lost
                /\ made.alive = state.alive + 2
      <3> DEFINE opened == [state EXCEPT !.gl = TRUE]
                 released == releasePipeline(opened, TRUE)
                 clean == [released EXCEPT !.gl = TRUE]
      <3>1. /\ DOMAIN opened = RetroFields /\ opened.pipeline = state.pipeline
            /\ opened.alive = state.alive
            /\ \A f \in RetroFields \ {"gl"} : opened[f] = state[f]
        BY DEF RetroState, RetroFields
      <3> HIDE DEF opened
      <3>2. /\ DOMAIN released = RetroFields /\ released.pipeline = FALSE
            /\ released.alive = state.alive
            /\ \A f \in RetroFields \ {"gl", "pipeline", "alive"} : released[f] = state[f]
        BY <2>1, <3>1, Zenon DEF releasePipeline, RetroFields
      <3> HIDE DEF released
      <3>3. /\ DOMAIN clean = RetroFields /\ clean.pipeline = FALSE
            /\ clean.alive = state.alive /\ clean.gl = TRUE
            /\ \A f \in RetroFields \ {"gl", "pipeline", "alive"} : clean[f] = state[f]
        BY <3>2 DEF RetroFields
      <3> HIDE DEF clean
      <3>4. CASE attempt = "context"
        <4>1. made = releasePipeline(state, FALSE) BY <3>4 DEF initializePipeline
        <4> QED BY <4>1, <2>1, Zenon DEF releasePipeline, RetroState, RetroFields
      <3>5. CASE attempt = "shader"
        <4>1. made = [clean EXCEPT !.shaders = @ + 1]
          BY <3>5 DEF initializePipeline, clean, released, opened
        <4> QED BY <3>3, <4>1 DEF RetroFields
      <3>6. CASE attempt = "made"
        <4>1. made = [clean EXCEPT !.pipeline = TRUE, !.alive = @ + 2]
          BY <3>6 DEF initializePipeline, clean, released, opened
        <4>2. ~state.lost BY <3>6 DEF Attempts
        <4> QED BY <3>3, <4>1, <4>2, ZenonT(60) DEF RetroFields
      <3>7. CASE attempt \notin {"context", "shader", "made"}
        <4>1. made = clean
          BY <3>7, Zenon DEF initializePipeline, clean, released, opened
        <4> QED BY <3>3, <4>1 DEF RetroFields
      <3> QED BY <3>4, <3>5, <3>6, <3>7, Zenon
    <2>4. /\ made.pipeline => showScene(made, calls)
          /\ ~made.pipeline => stopAnimation(hidden, calls)
      BY <2>2
    <2> HIDE DEF made
    <2>5. RetroState(made) /\ made.mounted /\ RetroCalls(made, calls)
      BY <1>3, <2>1, <2>3 DEF RetroState, RetroFields, RetroCalls
    <2>6. CASE made.pipeline BY <2>4, <2>5, <2>6, ShowKept
    <2>7. CASE ~made.pipeline
      <3>1. /\ DOMAIN hidden = RetroFields /\ hidden.isWebGlReady = FALSE
            /\ \A f \in RetroFields \ {"isWebGlReady"} : hidden[f] = made[f]
        BY <2>3 DEF RetroFields
      <3>2. stopAnimation(hidden, calls) BY <2>4, <2>7
      <3> HIDE DEF hidden
      <3>3. RetroState(hidden) /\ hidden.mounted /\ RetroCalls(hidden, calls) /\ ~hidden.pipeline
        BY <2>5, <2>7, <3>1 DEF RetroState, RetroFields, RetroCalls
      <3> QED BY <3>1, <3>2, <3>3, StopKept
    <2> QED BY <2>6, <2>7
  <1> QED BY <1>1, <1>2, <1>3

\* Nothing is there before the mount.
LEMMA RetroInit0 == RetroInit => RetroInv
  <1> SUFFICES ASSUME RetroInit PROVE RetroInv
      OBVIOUS
  <1>1. PICK s \in 0 .. 1, r \in BOOLEAN, c \in BOOLEAN :
           ui = [RetroStart EXCEPT !.size = s, !.reduced = r, !.canvas2d = c,
                                   !.mounted = FALSE]
    BY Zenon DEF RetroInit
  <1>2. DOMAIN ui = RetroFields BY <1>1 DEF RetroStart, RetroFields
  <1>3. /\ ui.mounted = FALSE /\ ui.pipeline = FALSE /\ ui.frameId = FALSE
        /\ ui.alive = 0 /\ ui.isContextLost = FALSE /\ ui.heard = FALSE
    BY <1>1 DEF RetroStart
  <1> QED BY <1>2, <1>3, OnlyNothing DEF RetroInit, RetroInv, RetroState

\* An event that changes what the scene depends on and then calls syncScene.
LEMMA RetroSynced ==
    ASSUME RetroInv, ui.mounted, NEW state,
           DOMAIN state = RetroFields, syncScene(state, pending),
           \A f \in {"mounted", "gl", "pipeline", "alive", "frameId"} : state[f] = ui[f],
           \/ \A f \in {"lost", "heard", "isContextLost"} : state[f] = ui[f]
           \/ ui.heard /\ ~state.lost /\ ~state.heard /\ ~state.isContextLost
    PROVE RetroInv' /\ UNCHANGED widget
  <1>1. RetroState(state) /\ RetroCalls(state, pending) /\ state.mounted
    BY DEF RetroInv, RetroState, RetroCalls
  <1> QED BY <1>1, SyncKept DEF RetroInv

\* The first effect makes the pipeline, or stays with the style sheet.
LEMMA RetroMountKept ==
    ASSUME RetroInv, RetroMount
    PROVE RetroInv' /\ UNCHANGED widget
  <1> DEFINE state == [RetroStart EXCEPT !.size = ui.size, !.theme = ui.theme,
                     !.scheme = ui.scheme, !.canvas2d = ui.canvas2d,
                     !.colour = resolveLineColor(ui, "light"),
                     !.reduced = ui.reduced, !.told = ui.reduced,
                     !.lost = ui.lost, !.heard = ui.heard,
                     !.alive = ui.alive, !.shaders = ui.shaders,
                     !.isWebGlReady = ui.isWebGlReady]
             calls == Register(pending, {"resize", "view", "pointer"})
  <1>1. syncScene(state, calls) /\ ~ui.mounted BY DEF RetroMount
  <1>2. RetroState(state) /\ state.mounted /\ state.frameId = FALSE
    BY <1>1, Zenon DEF RetroInv, RetroState, RetroStart, RetroFields
  <1>3. Only(calls, {"resize", "view", "pointer"})
    BY <1>1, OnlyRegister DEF RetroInv
  <1>4. RetroCalls(state, calls)
    BY <1>2, <1>3 DEF RetroCalls, Only, Calls
  <1> QED BY <1>1, <1>2, <1>4, SyncKept, Zenon DEF RetroInv

\* A loss of the context frees its objects; told of it, or unmounted, the
\* component drops the pipeline and the frame.
LEMMA RetroLossKept ==
    ASSUME RetroInv, handleContextLost \/ RetroUnmount \/ RetroContextLost
    PROVE RetroInv' /\ UNCHANGED widget
  <1>1. ui.mounted BY Zenon DEF handleContextLost, RetroUnmount, RetroContextLost, On
  <1>2. CASE handleContextLost
    <2> DEFINE state == releasePipeline([ui EXCEPT !.isContextLost = TRUE, !.heard = TRUE,
                                                  !.isWebGlReady = FALSE], FALSE)
    <2>1. /\ DOMAIN state = RetroFields /\ state.pipeline = FALSE /\ state.heard = TRUE
          /\ state.isWebGlReady = FALSE
          /\ \A f \in {"alive", "mounted", "lost", "frameId"} : state[f] = ui[f]
      BY DEF RetroInv, RetroState, RetroFields, releasePipeline
    <2>2. stopAnimation(state, pending) /\ ui.lost BY <1>2, Zenon DEF handleContextLost
    <2> HIDE DEF state
    <2>3. RetroState(state) /\ RetroCalls(state, pending) /\ state.mounted /\ ~state.pipeline
      BY <1>1, <2>1, <2>2 DEF RetroInv, RetroState, RetroCalls
    <2> QED BY <2>1, <2>2, <2>3, StopKept DEF RetroInv
  <1>3. CASE RetroUnmount
    <2> DEFINE released == releasePipeline(ui, ~ui.isContextLost)
               calls == Cancel(pending, {"resize", "view", "pointer"})
    <2>1. /\ DOMAIN released = RetroFields /\ released.pipeline = FALSE
          /\ released.alive = 0
          /\ \A f \in {"lost", "frameId", "heard", "isContextLost"} : released[f] = ui[f]
      BY <1>1 DEF RetroInv, RetroState, RetroFields, releasePipeline
    <2>2. /\ ui' = [[released EXCEPT !.mounted = FALSE] EXCEPT !.frameId = FALSE]
          /\ pending' = (IF [released EXCEPT !.mounted = FALSE].frameId
                         THEN Cancel(calls, {"frame"}) ELSE calls)
          /\ UNCHANGED widget
      BY <1>3 DEF RetroUnmount, stopAnimation, Becomes
    <2> HIDE DEF released
    <2>3. /\ DOMAIN ui' = RetroFields /\ ui'.pipeline = FALSE /\ ui'.alive = 0
          /\ ui'.frameId = FALSE /\ ui'.mounted = FALSE /\ ui'.lost = ui.lost
          /\ ui'.isContextLost = ui.isContextLost /\ ui'.heard = ui.heard
          /\ pending' = IF ui.frameId THEN Cancel(calls, {"frame"}) ELSE calls
      BY <2>1, <2>2 DEF RetroFields
    <2>4. /\ Only(pending, {"resize", "view", "pointer", "frame"})
          /\ ~ui.frameId => pending["frame"] = 0
      BY <1>1 DEF RetroInv, RetroCalls
    <2>5. Only(pending', {})
      BY <2>3, <2>4 DEF Only, Cancel, Calls
    <2> QED BY <2>2, <2>3, <2>5 DEF RetroInv, RetroState
  <1>4. CASE RetroContextLost
    <2>1. /\ ui' = [ui EXCEPT !.lost = TRUE, !.heard = FALSE, !.alive = 0, !.shaders = 0]
          /\ UNCHANGED <<pending, widget>> /\ ~ui.isContextLost
      BY <1>4 DEF RetroContextLost, Becomes
    <2>2. /\ DOMAIN ui' = RetroFields /\ ui'.alive = 0 /\ ui'.lost = TRUE /\ ui'.heard = FALSE
          /\ \A f \in RetroFields \ {"lost", "heard", "alive", "shaders"} : ui'[f] = ui[f]
      BY <2>1, Zenon DEF RetroInv, RetroState, RetroFields
    <2>3. RetroState(ui') BY <2>1, <2>2 DEF RetroInv, RetroState, RetroFields
    <2>4. InStep(ui') /\ RetroCalls(ui', pending')
      BY <1>1, <2>1, <2>2 DEF RetroInv, InStep, RetroCalls, RetroFields, ThemeColours
    <2> QED BY <1>1, <2>1, <2>2, <2>3, <2>4 DEF RetroInv, RetroFields
  <1> QED BY <1>2, <1>3, <1>4

\* A frame draws and requests the next one.
LEMMA RetroFrameKept ==
    ASSUME RetroInv, frame
    PROVE RetroInv' /\ UNCHANGED widget
  <1> DEFINE again == ~ui.reduced /\ ui.isVisible
  <1>1. /\ ui.mounted /\ Fires("frame") /\ UNCHANGED widget
        /\ ui' = [ui EXCEPT !.frameId = again]
        /\ pending' = RegisterIf(again, Cancel(pending, {"frame"}), {"frame"})
    BY DEF frame, On, Becomes
  <1>2. /\ DOMAIN ui' = RetroFields /\ ui'.frameId = again
        /\ \A f \in RetroFields \ {"frameId"} : ui'[f] = ui[f]
    BY <1>1 DEF RetroInv, RetroState, RetroFields
  <1>3. ui.frameId BY <1>1 DEF RetroInv, RetroCalls, Fires
  <1>4. RetroState(ui') BY <1>2 DEF RetroInv, RetroState, RetroFields
  <1>5. RetroCalls(ui', pending')
    <2>1. Only(pending, {"resize", "view", "pointer", "frame"})
      BY <1>1 DEF RetroInv, RetroCalls
    <2>2. /\ Only(Cancel(pending, {"frame"}), {"resize", "view", "pointer", "frame"})
          /\ Only(Register(Cancel(pending, {"frame"}), {"frame"}),
                  {"resize", "view", "pointer", "frame"})
      BY <2>1, OnlyRestart
    <2>3. /\ Cancel(pending, {"frame"})["frame"] = 0
          /\ Register(Cancel(pending, {"frame"}), {"frame"})["frame"] = 1
      BY <2>1 DEF Only, Cancel, Register, Calls
    <2> HIDE DEF again
    <2>4. CASE again BY <1>1, <1>2, <2>2, <2>3, <2>4 DEF RetroCalls, RegisterIf
    <2>5. CASE ~again BY <1>1, <1>2, <2>2, <2>3, <2>5 DEF RetroCalls, RegisterIf
    <2> QED BY <2>4, <2>5
  <1>6. InStep(ui')
    BY <1>1, <1>2, <1>3, Zenon DEF RetroInv, InStep, ThemeColours, RetroFields
  <1> QED BY <1>1, <1>2, <1>4, <1>5, <1>6 DEF RetroInv, RetroFields

\* The observer stops and restarts the loop.
LEMMA RetroViewKept ==
    ASSUME RetroInv, NEW seen \in BOOLEAN, RetroView(seen)
    PROVE RetroInv' /\ UNCHANGED widget
  <1> DEFINE state == [ui EXCEPT !.isVisible = seen]
  <1>1. /\ DOMAIN state = RetroFields /\ state.isVisible = seen /\ ui.mounted
        /\ \A f \in RetroFields \ {"isVisible"} : state[f] = ui[f]
    BY DEF RetroInv, RetroState, RetroFields, RetroView, On
  <1>2. /\ seen => syncScene(state, pending)
        /\ ~seen => stopAnimation(state, pending)
    BY DEF RetroView
  <1> HIDE DEF state
  <1>3. CASE seen BY <1>1, <1>2, <1>3, RetroSynced DEF RetroFields
  <1>4. CASE ~seen
    <2>1. /\ RetroState(state) /\ RetroCalls(state, pending) /\ state.mounted
          /\ ~state.isVisible /\ (state.isWebGlReady => state.pipeline)
      BY <1>1, <1>4 DEF RetroInv, RetroState, RetroCalls, RetroFields, InStep
    <2> QED BY <1>2, <1>4, <2>1, StopKept DEF RetroInv
  <1> QED BY <1>3, <1>4

\* The preference for less motion changes before the component is told.
LEMMA RetroReducedKept ==
    ASSUME RetroInv, RetroReduced
    PROVE RetroInv' /\ UNCHANGED widget
  <1>1. /\ ui' = [ui EXCEPT !.reduced = ~@] /\ UNCHANGED <<pending, widget>>
        /\ ui.mounted /\ ui.told = ui.reduced
    BY DEF RetroReduced, Becomes, On
  <1>2. /\ DOMAIN ui' = RetroFields /\ ui'.reduced = ~ui.reduced
        /\ \A f \in RetroFields \ {"reduced"} : ui'[f] = ui[f]
    BY <1>1 DEF RetroInv, RetroState, RetroFields
  <1>3. RetroState(ui') BY <1>2 DEF RetroInv, RetroState, RetroFields
  <1>4. RetroCalls(ui', pending') BY <1>1, <1>2 DEF RetroInv, RetroCalls, RetroFields
  <1>5. InStep(ui')
    BY <1>1, <1>2 DEF RetroInv, InStep, ThemeColours, RetroFields
  <1> QED BY <1>1, <1>2, <1>3, <1>4, <1>5 DEF RetroInv, RetroFields

\* Every step of RetroGrid keeps its invariant.
LEMMA RetroKept ==
    ASSUME RetroInv, RetroNext
    PROVE RetroInv' /\ UNCHANGED widget
  <1>1. ASSUME RetroProps \/ handleColorSchemeChange \/ handleMotionChange
               \/ (\E theme : RetroTheme(theme)) \/ (\E s : RetroResize(s))
               \/ handleContextRestored
        PROVE RetroInv' /\ UNCHANGED widget
    <2>1. PICK state :
             /\ syncScene(state, pending)
             /\ \/ state = ui
                \/ state = [ui EXCEPT !.scheme = ~@]
                \/ state = [ui EXCEPT !.told = ui.reduced]
                \/ \E theme : state = [ui EXCEPT !.theme = theme]
                \/ \E s : state = [ui EXCEPT !.size = s]
                \/ /\ ui.lost /\ ui.heard
                   /\ state = [ui EXCEPT !.lost = FALSE, !.heard = FALSE,
                                         !.isContextLost = FALSE]
      BY <1>1, Zenon DEF RetroProps, handleColorSchemeChange, handleMotionChange, RetroTheme,
                  RetroResize, handleContextRestored
    <2>2. ui.mounted
      BY <1>1, Zenon DEF RetroProps, handleColorSchemeChange, handleMotionChange, RetroTheme,
                  RetroResize, handleContextRestored, On
    <2>3. DOMAIN ui = RetroFields BY DEF RetroInv, RetroState
    <2>4. /\ DOMAIN state = RetroFields
          /\ \A f \in {"mounted", "gl", "pipeline", "alive", "frameId"} : state[f] = ui[f]
          /\ \/ \A f \in {"lost", "heard", "isContextLost"} : state[f] = ui[f]
             \/ ui.heard /\ ~state.lost /\ ~state.heard /\ ~state.isContextLost
      BY <2>1, <2>3, ZenonT(60) DEF RetroFields
    <2> QED BY <2>1, <2>2, <2>4, RetroSynced
  <1> QED BY <1>1, RetroMountKept, RetroLossKept, RetroFrameKept, RetroViewKept,
             RetroReducedKept DEF RetroNext

\* What the property of the run says follows.
LEMMA RetroHolds ==
    ASSUME RetroInv
    PROVE RetroLoop /\ PipelineReleased
  <1>1. On("retro") => RetroLoop
    BY DEF RetroInv, RetroLoop, RetroCalls, InStep, ThemeColours, Shown, On, RetroState
  <1> QED BY <1>1 DEF RetroInv, RetroState, RetroLoop, PipelineReleased

-----------------------------------------------------------------------------
(* Highlighter, and the components without an effect.                      *)

\* The annotation and its observer exist exactly while the text is to be
\* highlighted.
HighlighterInv ==
    /\ {"mounted", "shouldShow"} \subseteq DOMAIN ui
    /\ Only(pending, IF ui.mounted /\ ui.shouldShow THEN {"annotation", "resize"} ELSE {})

\* They are made by the first effect if the text need not come into view.
LEMMA HighlighterInit0 == HighlighterInit => HighlighterInv
  <1> SUFFICES ASSUME HighlighterInit PROVE HighlighterInv
      OBVIOUS
  <1>1. Only(Nothing, {}) BY OnlyNothing
  <1>2. Only(Register(Nothing, {"annotation", "resize"}), {"annotation", "resize"})
    BY <1>1, OnlyRegister
  <1>3. PICK isView \in BOOLEAN :
          /\ ui = [mounted |-> TRUE, shouldShow |-> ~isView]
          /\ pending = RegisterIf(~isView, Nothing, {"annotation", "resize"})
    BY Zenon DEF HighlighterInit
  <1>4. CASE isView BY <1>1, <1>3, <1>4, ZenonT(60) DEF HighlighterInv, RegisterIf
  <1>5. CASE ~isView BY <1>2, <1>3, <1>5, Zenon DEF HighlighterInv, RegisterIf
  <1> QED BY <1>4, <1>5

\* The cleanup removes both.
LEMMA HighlighterQuiet ==
    ASSUME HighlighterInv
    PROVE Only(HighlighterStops(pending), {})
  BY OnlyCancel DEF HighlighterInv, HighlighterStops

\* Coming into view and another style run the effect again after its cleanup.
LEMMA HighlighterKept ==
    ASSUME HighlighterInv, HighlighterInView \/ HighlighterStyle
    PROVE HighlighterInv' /\ widget = "highlighter" /\ UNCHANGED widget
  <1>1. Only(HighlighterStops(pending), {}) BY HighlighterQuiet
  <1>2. Only(Register(HighlighterStops(pending), {"annotation", "resize"}),
             {"annotation", "resize"})
    BY <1>1, OnlyRegister
  <1> QED BY <1>1, <1>2
          DEF HighlighterInv, HighlighterInView, HighlighterStyle, HighlighterEffect,
              RegisterIf, On, Becomes

\* Unmounted, neither is left.
LEMMA HighlighterGone ==
    ASSUME HighlighterInv, Gone(HighlighterStops(pending))
    PROVE HighlighterInv'
  BY HighlighterQuiet DEF HighlighterInv, Gone, Becomes

\* MagicCard keeps its listeners, which its pointer events do not touch.
LEMMA CardKept ==
    ASSUME Registered({"pointer"}), CardEnter \/ handlePointerMove \/ CardLeave \/ CardGlobal
    PROVE Registered({"pointer"})' /\ widget = "card" /\ UNCHANGED widget
  BY Zenon DEF CardEnter, handlePointerMove, CardLeave, CardGlobal, reset, Registered, On, Becomes

\* InteractiveGridPattern registers nothing.
LEMMA HoverKept ==
    ASSUME Registered({}), (\E square \in 1 .. 2 : HoverEnter(square)) \/ HoverLeave
    PROVE Registered({})' /\ widget = "hover" /\ UNCHANGED widget
  BY Zenon DEF HoverEnter, HoverLeave, Registered, On, Becomes

\* GlareHover registers nothing.
LEMMA GlareKept ==
    ASSUME Registered({}), GlareEnter \/ GlareLeave \/ GlareArrives
    PROVE Registered({})' /\ widget = "glare" /\ UNCHANGED widget
  BY Zenon DEF GlareEnter, GlareLeave, GlareArrives, Registered, On, Becomes

\* BlurFade registers nothing.
LEMMA BlurKept ==
    ASSUME Registered({}), BlurInView \/ BlurShown
    PROVE Registered({})' /\ widget = "blur" /\ UNCHANGED widget
  BY DEF BlurInView, BlurShown, Registered, On, Becomes

-----------------------------------------------------------------------------
(* Mounting and unmounting the components that only register.              *)

\* A cleanup that cancels all the kinds leaves nothing.
LEMMA RegisteredGone ==
    ASSUME NEW K, Registered(K), Gone(Cancel(pending, K)) \/ (K = {} /\ Gone(pending))
    PROVE Registered(K)'
  <1>1. Only(pending, K)
    <2>1. K \subseteq K /\ {} \subseteq K OBVIOUS
    <2>2. CASE ui.mounted BY <2>2 DEF Registered
    <2>3. CASE ~ui.mounted
      <3>1. Only(pending, {}) BY <2>3 DEF Registered
      <3> QED BY <2>1, <3>1, OnlyMore
    <2> QED BY <2>2, <2>3
  <1>2. Only(Cancel(pending, K), {}) BY <1>1, OnlyCancel
  <1>3. "mounted" \in DOMAIN ui' /\ ui'.mounted = FALSE BY DEF Registered, Gone, Becomes
  <1>4. Only(pending', {}) BY <1>1, <1>2 DEF Gone, Becomes
  <1> QED BY <1>3, <1>4 DEF Registered

\* Registered once from nothing.
LEMMA OnlyOne ==
    ASSUME NEW K PROVE Only(Register(Nothing, K), K)
  <1>1. Only(Nothing, {}) BY OnlyNothing
  <1> QED BY <1>1, OnlyRegister

\* The components with one timer begin with that or with none.
LEMMA TimersInit ==
    ASSUME ListInit \/ RotateInit \/ TickerInit \/ SparklesInit
    PROVE Registered({"timer"}) /\ widget \in {"list", "rotate", "ticker", "sparkles"}
  <1>1. Only(Nothing, {"timer"}) BY OnlyNothing
  <1>2. Only(Register(Nothing, {"timer"}), {"timer"}) BY OnlyOne
  <1>3. ui.mounted /\ "mounted" \in DOMAIN ui
    BY DEF ListInit, RotateInit, TickerInit, SparklesInit
  <1>4. Only(pending, {"timer"})
    BY <1>1, <1>2 DEF ListInit, RotateInit, TickerInit, SparklesInit
  <1> QED BY <1>3, <1>4 DEF ListInit, RotateInit, TickerInit, SparklesInit, Registered

\* The steps of TypingAnimation are its own.
LEMMA TypingOn == ASSUME TypingNext PROVE widget = "typing" /\ UNCHANGED widget
  BY Zenon DEF TypingNext, TypingInView, TypingTick, TypingSource, TypingEffect, On, Becomes

\* Unmounted, its timer is cancelled and its text stays.
LEMMA TypingGone ==
    ASSUME TypingInv, Gone(Cancel(pending, {"timer"}))
    PROVE TypingInv'
  <1>1. Only(pending, {"timer"}) BY OnlyMore DEF TypingInv
  <1>2. Only(pending', {})
    <2>1. Only(Cancel(pending, {"timer"}), {}) BY <1>1, OnlyCancel
    <2> QED BY <2>1 DEF Gone, Becomes
  <1>3. ui' = [ui EXCEPT !.mounted = FALSE] BY DEF Gone, Becomes
  <1>4. /\ ui' \in TypingStates /\ ui'.mounted = FALSE
        /\ ui'.text = ui.text /\ ui'.char = ui.char /\ ui'.word = ui.word
        /\ ui'.source = ui.source
    BY <1>3, Zenon DEF TypingInv, TypingStates
  <1>5. TypingPrefix' BY <1>4 DEF TypingInv, TypingPrefix, Word
  <1> QED BY <1>2, <1>4, <1>5 DEF TypingInv

\* How far TextReveal is scrolled.
RevealInv == /\ Registered({})
             /\ "progress" \in DOMAIN ui /\ ui.progress \in 0 .. 8

\* It begins at the top.
LEMMA RevealInit0 == RevealInit => RevealInv
  BY OnlyNothing DEF RevealInit, RevealInv, Registered

\* Scrolling, and being unmounted, keep it in range.
LEMMA RevealScrolls ==
    ASSUME RevealInv, (\E p \in 0 .. 8 : RevealScroll(p)) \/ Gone(pending)
    PROVE RevealInv'
  <1>1. Registered({})' BY RevealKept, RegisteredGone DEF RevealInv
  <1>2. "progress" \in DOMAIN ui' /\ ui'.progress \in 0 .. 8
    BY DEF RevealInv, RevealScroll, Gone, Becomes
  <1> QED BY <1>1, <1>2 DEF RevealInv

\* A sweep starts at once unless the text has to come into view first or motion
\* is to be reduced.
LEMMA DiaInit0 == DiaInit => DiaInv
  <1> SUFFICES ASSUME DiaInit PROVE DiaInv
      OBVIOUS
  <1>1. Only(Nothing, {}) BY OnlyNothing
  <1>2. Only(Register(Nothing, {"frame"}), {"frame"}) BY OnlyOne
  <1>3. /\ {"mounted", "running"} \subseteq DOMAIN ui
        /\ \/ ui.running = FALSE /\ pending = Nothing
           \/ ui.mounted /\ ui.running = TRUE /\ pending = Register(Nothing, {"frame"})
    <2>1. PICK startOnView \in BOOLEAN, once \in BOOLEAN, repeat \in BOOLEAN,
               reduced \in BOOLEAN :
            LET new == [mounted |-> TRUE, inView |-> FALSE, index |-> 0,
                        startOnView |-> startOnView, once |-> once,
                        repeat |-> repeat, reduced |-> reduced,
                        hasPlayed |-> FALSE, running |-> FALSE, sweep |-> "start"]
            IN IF reduced
               THEN ui = [new EXCEPT !.sweep = "end"] /\ pending = Nothing
               ELSE IF startOnView THEN ui = new /\ pending = Nothing
               ELSE /\ ui = [new EXCEPT !.hasPlayed = TRUE, !.running = TRUE]
                    /\ pending = Register(Nothing, {"frame"})
      BY Zenon DEF DiaInit
    <2> DEFINE new == [mounted |-> TRUE, inView |-> FALSE, index |-> 0,
                       startOnView |-> startOnView, once |-> once,
                       repeat |-> repeat, reduced |-> reduced,
                       hasPlayed |-> FALSE, running |-> FALSE, sweep |-> "start"]
    <2>2. /\ {"mounted", "running", "hasPlayed", "sweep"} \subseteq DOMAIN new
          /\ new.mounted /\ new.running = FALSE
      OBVIOUS
    <2>3. \/ ui = [new EXCEPT !.sweep = "end"] /\ pending = Nothing
          \/ ui = new /\ pending = Nothing
          \/ /\ ui = [new EXCEPT !.hasPlayed = TRUE, !.running = TRUE]
             /\ pending = Register(Nothing, {"frame"})
      BY <2>1, Zenon
    <2> HIDE DEF new
    <2> QED BY <2>2, <2>3, Zenon
  <1> QED BY <1>1, <1>2, <1>3 DEF DiaInv

\* FlickeringGrid begins with its observers.
LEMMA FlickerInit0 == FlickerInit => Registered(FlickerCalls)
  <1> SUFFICES ASSUME FlickerInit PROVE Registered(FlickerCalls)
      OBVIOUS
  <1> QED BY OnlyOne, OnlyMore DEF FlickerInit, FlickerCalls, Registered

\* Unmounted, all are cancelled.
LEMMA FlickerGone ==
    ASSUME Registered(FlickerCalls), Gone(FlickerStops(pending))
    PROVE Registered(FlickerCalls)'
  BY RegisteredGone DEF FlickerStops, FlickerCalls
-----------------------------------------------------------------------------
(* What the components of the layout register.                             *)

\* AnimatedBeam keeps one resize observer, through changes of its props too.
LEMMA BeamRegisters ==
    ASSUME Registered({"resize"}),
           (\E p \in DOMAIN Layouts : BeamLayout(p)) \/ BeamResize \/ BeamProps
    PROVE Registered({"resize"})' /\ widget = "beam" /\ UNCHANGED widget
  <1>1. ui.mounted /\ "mounted" \in DOMAIN ui /\ Only(pending, {"resize"}) /\ widget = "beam"
    BY Zenon DEF BeamLayout, BeamResize, BeamProps, On, Registered
  <1>2. Only(Register(Cancel(pending, {"resize"}), {"resize"}), {"resize"})
    BY <1>1, OnlyRestart, Zenon
  <1>3. CASE \E p \in DOMAIN Layouts : BeamLayout(p)
    <2>1. PICK p \in DOMAIN Layouts : BeamLayout(p) BY <1>3
    <2>2. \/ Becomes([ui EXCEPT !.page = p, !.stale = TRUE], pending)
          \/ Becomes([ui EXCEPT !.page = p, !.alone = TRUE], pending)
      BY <2>1, Zenon DEF BeamLayout
    <2> QED BY <1>1, <2>2, RegisteredStays, Zenon DEF Becomes
  <1>4. CASE BeamResize
    <2> DEFINE path == updatePath(ui.page, ui.beam, ui.beam.curvature)
               new == [ui EXCEPT !.path = path, !.stale = FALSE, !.alone = FALSE]
    <2>1. Becomes(new, pending) BY <1>4 DEF BeamResize
    <2> HIDE DEF path
    <2>2. "mounted" \in DOMAIN new /\ new.mounted = ui.mounted BY <1>1, Zenon
    <2> HIDE DEF new
    <2> QED BY <1>1, <2>1, <2>2, RegisteredStays, Zenon DEF Becomes
  <1>5. CASE BeamProps
    <2> DEFINE c == -ui.beam.curvature
               path == updatePath(ui.page, ui.beam, c)
               new == [ui EXCEPT !.beam.curvature = c, !.alone = FALSE, !.path = path]
    <2>1. Becomes(new, Register(Cancel(pending, {"resize"}), {"resize"}))
      BY <1>5 DEF BeamProps
    <2> HIDE DEF c, path
    <2>2. "mounted" \in DOMAIN new /\ new.mounted = ui.mounted BY <1>1, Zenon
    <2> HIDE DEF new
    <2> QED BY <1>1, <1>2, <2>1, <2>2, RegisteredStays, Zenon DEF Becomes
  <1> QED BY <1>3, <1>4, <1>5

\* DotPattern keeps its listener.
LEMMA DotRegisters ==
    ASSUME Registered({"resize"}),
           (\E size \in Sizes, window \in BOOLEAN : DotLayout(size, window))
           \/ updateDimensions
    PROVE Registered({"resize"})' /\ widget = "dots" /\ UNCHANGED widget
  <1>1. ui.mounted /\ "mounted" \in DOMAIN ui /\ Only(pending, {"resize"}) /\ widget = "dots"
    BY Zenon DEF DotLayout, updateDimensions, On, Registered
  <1> QED BY <1>1, RegisteredStays, Zenon DEF DotLayout, updateDimensions, Becomes

\* AnimatedGridPattern keeps its observer while its squares move.
LEMMA GridRegisters ==
    ASSUME Registered({"resize"}),
           \/ \E d \in GridSizes : GridResize(d)
           \/ GridSquares
           \/ \E i \in SquareIds : GridMove(i) \/ GridMoveLate(i)
    PROVE Registered({"resize"})' /\ widget = "grid" /\ UNCHANGED widget
  <1>1. ui.mounted /\ "mounted" \in DOMAIN ui /\ Only(pending, {"resize"}) /\ widget = "grid"
    BY Zenon DEF GridResize, GridSquares, GridMove, GridMoveLate, On, Registered
  <1>2. \A state, positions : "mounted" \in DOMAIN state =>
          /\ "mounted" \in DOMAIN generateSquares(state, positions)
          /\ generateSquares(state, positions).mounted = state.mounted
    BY Zenon DEF generateSquares
  <1>3. CASE \E d \in GridSizes : GridResize(d)
    BY <1>1, <1>3, RegisteredStays, Zenon DEF GridResize, Becomes
  <1>4. CASE GridSquares
    BY <1>1, <1>2, <1>4, RegisteredStays, Zenon DEF GridSquares, Becomes
  <1>5. CASE \E i \in SquareIds : GridMove(i)
    BY <1>1, <1>5, RegisteredStays, Zenon DEF GridMove, Becomes
  <1>6. CASE \E i \in SquareIds : GridMoveLate(i)
    <2>1. PICK i \in SquareIds : GridMoveLate(i) BY <1>6
    <2> DEFINE late == [ui EXCEPT !.still = @ \cup {i}, !.raced = @ \cup {i}]
    <2>2. "mounted" \in DOMAIN late /\ late.mounted = ui.mounted BY <1>1, Zenon
    <2>3. PICK positions : Becomes(generateSquares(late, positions), pending)
      BY <2>1, Zenon DEF GridMoveLate
    <2> HIDE DEF late
    <2> QED BY <1>1, <1>2, <2>2, <2>3, RegisteredStays, Zenon DEF Becomes
  <1> QED BY <1>3, <1>4, <1>5, <1>6

\* A gauge is mounted with every value.
LEMMA GaugesMounted ==
    ASSUME NEW min, NEW max, NEW gauge \in Gauges(min, max)
    PROVE "mounted" \in DOMAIN gauge /\ gauge.mounted
  <1>1. PICK v : gauge \in [mounted : {TRUE}, min : {min}, max : {max}, value : {v},
                             percent : currentPercent(v, min, max)]
    BY Zenon DEF Gauges
  <1>2. DOMAIN gauge = {"mounted", "min", "max", "value", "percent"} /\ gauge.mounted = TRUE
    BY <1>1, Zenon
  <1> QED BY <1>2

\* The gauge and the blur register nothing.
LEMMA OrnamentsRegister ==
    ASSUME Registered({}), OrnamentsNext
    PROVE Registered({})' /\ widget \in {"gauge", "layers"} /\ UNCHANGED widget
  <1>1. CASE GaugeValue
    <2>1. PICK new \in Gauges(ui.min, ui.max) : Becomes(new, pending)
      BY <1>1, Zenon DEF GaugeValue
    <2>2. "mounted" \in DOMAIN new /\ new.mounted BY GaugesMounted
    <2>3. ui.mounted /\ widget = "gauge" BY <1>1, Zenon DEF GaugeValue, On
    <2> QED BY <2>1, <2>2, <2>3, Zenon DEF Registered, Becomes
  <1>2. CASE ~GaugeValue
    BY <1>2, Zenon DEF OrnamentsNext, BlurLayersProps, Registered, On, Becomes
  <1> QED BY <1>1, <1>2

\* What the components of the layout and the ornaments begin with.
LEMMA LayoutRegistersFirst ==
    /\ BeamInit \/ DotInit \/ GridInit => Registered({"resize"})
    /\ CardInit => Registered({"pointer"})
    /\ HoverInit \/ GlareInit \/ BlurInit \/ GaugeInit \/ BlurLayersInit => Registered({})
  <1>1. BeamInit \/ DotInit \/ GridInit => Registered({"resize"})
    BY OnlyOne DEF BeamInit, DotInit, GridInit, Registered
  <1>2. CardInit => Registered({"pointer"})
    BY OnlyOne DEF CardInit, reset, Registered
  <1>3. HoverInit \/ GlareInit \/ BlurInit \/ GaugeInit \/ BlurLayersInit => Registered({})
    <2>1. CASE GaugeInit
      BY <2>1, OnlyNothing, GaugesMounted, Zenon DEF GaugeInit, Registered
    <2>2. HoverInit \/ GlareInit \/ BlurInit \/ BlurLayersInit => Registered({})
      BY OnlyNothing, Zenon DEF HoverInit, GlareInit, BlurInit, BlurLayersInit, Registered
    <2> QED BY <2>1, <2>2
  <1> QED BY <1>1, <1>2, <1>3

-----------------------------------------------------------------------------
(* The components with text.                                               *)

\* The components of text.
TextNames == {"typing", "terminal", "list", "rotate", "ticker", "sparkles", "dia",
              "reveal"}

\* Their invariants.
TextInv ==
    /\ widget = "typing" => TypingInv
    /\ widget = "terminal" => TerminalInv
    /\ widget \in {"list", "rotate", "ticker", "sparkles"} => Registered({"timer"})
    /\ widget = "dia" => DiaInv
    /\ widget = "reveal" => RevealInv

\* They hold when the component is mounted.
LEMMA TextBegins == ASSUME TextInit PROVE TextInv /\ widget \in TextNames
  <1>1. CASE TypingInit
    <2>1. widget = "typing" BY <1>1 DEF TypingInit
    <2> QED BY <1>1, <2>1, TypingInit0 DEF TextInv, TextNames
  <1>2. CASE TerminalInit
    <2>1. widget = "terminal" BY <1>2 DEF TerminalInit
    <2> QED BY <1>2, <2>1, TerminalInit0 DEF TextInv, TextNames
  <1>3. CASE ListInit \/ RotateInit \/ TickerInit \/ SparklesInit
    BY <1>3, TimersInit DEF TextInv, TextNames
  <1>4. CASE DiaInit
    <2>1. widget = "dia" BY <1>4 DEF DiaInit
    <2> QED BY <1>4, <2>1, DiaInit0 DEF TextInv, TextNames
  <1>5. CASE RevealInit
    <2>1. widget = "reveal" BY <1>5 DEF RevealInit
    <2> QED BY <1>5, <2>1, RevealInit0 DEF TextInv, TextNames
  <1> QED BY <1>1, <1>2, <1>3, <1>4, <1>5 DEF TextInit

\* The steps of each keep its own.
LEMMA TextKept ==
    ASSUME TextInv, TextNext
    PROVE TextInv' /\ widget \in TextNames /\ UNCHANGED widget
  <1> DEFINE Goal == TextInv' /\ widget \in TextNames /\ UNCHANGED widget
  <1> HIDE DEF Goal
  <1>1. CASE TypingNext
    <2>1. widget = "typing" /\ UNCHANGED widget BY <1>1, TypingOn
    <2>2. TypingInv' BY <1>1, <2>1, TypingKept DEF TextInv
    <2> QED BY <2>1, <2>2 DEF TextInv, TextNames, Goal
  <1>2. CASE TerminalNext
    <2>1. widget = "terminal"
      BY <1>2, Zenon DEF TerminalNext, TerminalInView, TerminalStart, TerminalType,
                  TerminalSpanShown, TerminalSpanHidden, On
    <2>2. TerminalInv' /\ UNCHANGED widget BY <1>2, <2>1, TerminalKept DEF TextInv
    <2> QED BY <2>1, <2>2 DEF TextInv, TextNames, Goal
  <1>3. CASE ListTick \/ \E n \in {1, 3} : ListChildren(n)
    <2>1. widget = "list" BY <1>3, Zenon DEF ListTick, ListChildren, On
    <2>2. Registered({"timer"})' /\ UNCHANGED widget BY <1>3, <2>1, ListKept DEF TextInv
    <2> QED BY <2>1, <2>2 DEF TextInv, TextNames, Goal
  <1>4. CASE RotateTick \/ RotateWords
    <2>1. widget = "rotate" BY <1>4, Zenon DEF RotateTick, RotateWords, On
    <2>2. Registered({"timer"})' /\ UNCHANGED widget BY <1>4, <2>1, RotateKept DEF TextInv
    <2> QED BY <2>1, <2>2 DEF TextInv, TextNames, Goal
  <1>5. CASE TickerInView \/ TickerValue \/ TickerSet \/ TickerSpring
    <2>1. widget = "ticker"
      BY <1>5, Zenon DEF TickerInView, TickerValue, TickerSet, TickerSpring, On
    <2>2. Registered({"timer"})' /\ UNCHANGED widget BY <1>5, <2>1, TickerKept DEF TextInv
    <2> QED BY <2>1, <2>2 DEF TextInv, TextNames, Goal
  <1>6. CASE DiaInView \/ DiaOutOfView \/ DiaSwept \/ DiaRepeat
    <2>1. widget = "dia" BY <1>6, Zenon DEF DiaInView, DiaOutOfView, DiaSwept, DiaRepeat, On
    <2>2. DiaInv' /\ UNCHANGED widget BY <1>6, <2>1, DiaKept DEF TextInv
    <2> QED BY <2>1, <2>2 DEF TextInv, TextNames, Goal
  <1>7. CASE SparklesUpdate \/ SparklesCount
    <2>1. widget = "sparkles" BY <1>7, Zenon DEF SparklesUpdate, SparklesCount, On
    <2>2. Registered({"timer"})' /\ UNCHANGED widget
      BY <1>7, <2>1, SparklesKept DEF TextInv
    <2> QED BY <2>1, <2>2 DEF TextInv, TextNames, Goal
  <1>8. CASE \E p \in 0 .. 8 : RevealScroll(p)
    <2>1. widget = "reveal" /\ UNCHANGED widget BY <1>8, Zenon DEF RevealScroll, On, Becomes
    <2>2. RevealInv' BY <1>8, <2>1, RevealScrolls DEF TextInv
    <2> QED BY <2>1, <2>2 DEF TextInv, TextNames, Goal
  <1> QED BY <1>1, <1>2, <1>3, <1>4, <1>5, <1>6, <1>7, <1>8, Zenon
          DEF TextNext, TypingNext, TerminalNext, Goal

\* The cleanup of each is complete.
LEMMA TextGone ==
    ASSUME TextInv, widget \in TextNames, Gone(TextCleanup)
    PROVE TextInv'
  <1>0. UNCHANGED widget BY DEF Gone, Becomes
  <1>1. CASE widget = "typing"
    <2>1. Gone(Cancel(pending, {"timer"})) BY <1>1 DEF TextCleanup
    <2>2. TypingInv' BY <1>1, <2>1, TypingGone DEF TextInv
    <2> QED BY <1>0, <1>1, <2>2 DEF TextInv
  <1>2. CASE widget = "terminal"
    <2>1. Gone(Cancel(pending, {"timer"})) BY <1>2 DEF TextCleanup
    <2>2. TerminalInv' BY <1>2, <2>1, TerminalGone DEF TextInv
    <2> QED BY <1>0, <1>2, <2>2 DEF TextInv
  <1>3. CASE widget \in {"list", "rotate", "ticker", "sparkles"}
    <2>1. Gone(Cancel(pending, {"timer"})) BY <1>3 DEF TextCleanup
    <2>2. Registered({"timer"})' BY <1>3, <2>1, RegisteredGone DEF TextInv
    <2> QED BY <1>0, <1>3, <2>2 DEF TextInv
  <1>4. CASE widget = "dia"
    <2>1. Gone(DiaCleanup(pending)) BY <1>4 DEF TextCleanup
    <2>2. DiaInv' BY <1>4, <2>1, DiaGone DEF TextInv
    <2> QED BY <1>0, <1>4, <2>2 DEF TextInv
  <1>5. CASE widget = "reveal"
    <2>1. Gone(pending) BY <1>5 DEF TextCleanup
    <2>2. RevealInv' BY <1>5, <2>1, RevealScrolls DEF TextInv
    <2> QED BY <1>0, <1>5, <2>2 DEF TextInv
  <1> QED BY <1>1, <1>2, <1>3, <1>4, <1>5 DEF TextNames

\* Each registers a kind once, and nothing is left of it when it is gone.
LEMMA TextRegisters ==
    ASSUME TextInv, widget \in TextNames
    PROVE \E K : Only(pending, IF ui.mounted THEN K ELSE {})
  <1>1. CASE widget = "typing"
    BY <1>1, OnlyMore, Zenon DEF TextInv, TypingInv
  <1>2. CASE widget = "terminal" BY <1>2, OnlyMore, Zenon DEF TextInv, TerminalInv
  <1>3. CASE widget \in {"list", "rotate", "ticker", "sparkles"}
    BY <1>3 DEF TextInv, Registered
  <1>4. CASE widget = "dia" BY <1>4, OnlyMore, Zenon DEF TextInv, DiaInv
  <1>5. CASE widget = "reveal" BY <1>5, Zenon DEF TextInv, RevealInv, Registered
  <1> QED BY <1>1, <1>2, <1>3, <1>4, <1>5 DEF TextNames

\* Their texts are shown in order.
LEMMA TextShowsInOrder ==
    ASSUME TextInv
    PROVE /\ widget = "typing" =>
               /\ ui.text[2] = ui.char
               /\ ui.char > 0 => ui.text[1] = ui.word /\ ui.char <= Word
          /\ widget = "terminal" =>
               \A i, j \in Line : i < j /\ ui.shown[j] > 0 => LineShown(i)
          /\ widget = "reveal" =>
               \A i \in 1 .. 3 :
                  Opacity(i, ui.progress) < 100 => Opacity(i + 1, ui.progress) = 0
  <1>1. widget = "typing" =>
          /\ ui.text[2] = ui.char
          /\ ui.char > 0 => ui.text[1] = ui.word /\ ui.char <= Word
    BY DEF TextInv, TypingInv, TypingPrefix
  <1>2. ASSUME widget = "terminal", NEW i \in Line, NEW j \in Line, i < j, ui.shown[j] > 0
        PROVE LineShown(i)
    <2>1. TerminalInv BY <1>2 DEF TextInv
    <2>2. i \in Nat \ {0} /\ j \in Nat /\ ui.activeIndex \in Nat
      BY <2>1, LineType DEF TerminalInv, TerminalStates
    <2>3. j <= ui.activeIndex BY <1>2, <2>1 DEF TerminalInv
    <2>4. i \in 1 .. ui.activeIndex - 1 BY <1>2, <2>2, <2>3
    <2> QED BY <2>1, <2>4 DEF TerminalInv
  <1>3. ASSUME widget = "reveal", NEW i \in 1 .. 3, Opacity(i, ui.progress) < 100
        PROVE Opacity(i + 1, ui.progress) = 0
    <2>1. ui.progress \in Int BY <1>3 DEF TextInv, RevealInv
    <2> QED BY <1>3, <2>1 DEF Opacity
  <1> QED BY <1>1, <1>2, <1>3

-----------------------------------------------------------------------------
(* The components with a canvas.                                           *)

\* The components with a canvas.
CanvasNames == {"particles", "flicker", "cloud"}

\* Their invariants.
CanvasInv ==
    /\ widget = "particles" => ParticlesInv
    /\ widget = "flicker" => Registered(FlickerCalls)
    /\ widget = "cloud" => CloudInv

\* They hold when the component is mounted.
LEMMA CanvasBegins == ASSUME CanvasInit PROVE CanvasInv /\ widget \in CanvasNames
  <1>1. CASE ParticlesInit
    <2>1. widget = "particles" BY <1>1 DEF ParticlesInit
    <2> QED BY <1>1, <2>1, ParticlesInit0 DEF CanvasInv, CanvasNames
  <1>2. CASE FlickerInit
    <2>1. widget = "flicker" BY <1>2 DEF FlickerInit
    <2> QED BY <1>2, <2>1, FlickerInit0 DEF CanvasInv, CanvasNames
  <1>3. CASE CloudInit
    <2>1. widget = "cloud" BY <1>3 DEF CloudInit
    <2> QED BY <1>3, <2>1, CloudInit0 DEF CanvasInv, CanvasNames
  <1> QED BY <1>1, <1>2, <1>3 DEF CanvasInit

\* The steps of each keep its own.
LEMMA CanvasKept ==
    ASSUME CanvasInv, CanvasNext
    PROVE CanvasInv' /\ widget \in CanvasNames /\ UNCHANGED widget
  <1> DEFINE Goal == CanvasInv' /\ widget \in CanvasNames /\ UNCHANGED widget
  <1> HIDE DEF Goal
  <1>1. CASE ParticlesNext
    <2>1. widget = "particles"
      BY <1>1, Zenon DEF ParticlesNext, ParticlesFrame, ParticlesResize, ParticlesTimeout,
           ParticlesPointer, ParticlesColor, ParticlesRefresh, ParticlesQuantity, On
    <2>2. ParticlesInv' /\ UNCHANGED widget BY <1>1, <2>1, ParticlesKept DEF CanvasInv
    <2> QED BY <2>1, <2>2 DEF CanvasInv, CanvasNames, Goal
  <1>2. CASE FlickerNext
    <2>1. widget = "flicker"
      BY <1>2, Zenon DEF FlickerNext, FlickerView, FlickerProps, FlickerResize,
                         FlickerFrame, On
    <2>2. Registered(FlickerCalls)' /\ UNCHANGED widget
      BY <1>2, <2>1, FlickerKept DEF CanvasInv
    <2> QED BY <2>1, <2>2 DEF CanvasInv, CanvasNames, Goal
  <1>3. CASE CloudNext
    <2>1. widget = "cloud"
      BY <1>3, Zenon DEF CloudNext, CloudFrame, CloudRotated, CloudLoaded, CloudImages,
                         CloudPause, CloudMouseDown, CloudMouseMove, CloudMouseUp, On
    <2>2. CloudInv' /\ UNCHANGED widget BY <1>3, <2>1, CloudKept DEF CanvasInv
    <2> QED BY <2>1, <2>2 DEF CanvasInv, CanvasNames, Goal
  <1> QED BY <1>1, <1>2, <1>3, Zenon
          DEF CanvasNext, ParticlesNext, FlickerNext, CloudNext, Goal

\* The cleanup of each is complete.
LEMMA CanvasGone ==
    ASSUME CanvasInv, widget \in CanvasNames, Gone(CanvasCleanup)
    PROVE CanvasInv'
  <1>0. UNCHANGED widget BY DEF Gone, Becomes
  <1>1. CASE widget = "particles"
    <2>1. Gone(Cancel(ParticlesStops(pending), {"pointer"})) BY <1>1 DEF CanvasCleanup
    <2>2. ParticlesInv' BY <1>1, <2>1, ParticlesGone DEF CanvasInv
    <2> QED BY <1>0, <1>1, <2>2 DEF CanvasInv
  <1>2. CASE widget = "flicker"
    <2>1. Gone(FlickerStops(pending)) BY <1>2 DEF CanvasCleanup
    <2>2. Registered(FlickerCalls)' BY <1>2, <2>1, FlickerGone DEF CanvasInv
    <2> QED BY <1>0, <1>2, <2>2 DEF CanvasInv
  <1>3. CASE widget = "cloud"
    <2>1. Gone(Cancel(pending, {"frame", "view"})) BY <1>3 DEF CanvasCleanup
    <2>2. CloudInv' BY <1>3, <2>1, CloudGone DEF CanvasInv
    <2> QED BY <1>0, <1>3, <2>2 DEF CanvasInv
  <1> QED BY <1>1, <1>2, <1>3 DEF CanvasNames

\* Each registers a kind once, and nothing is left of it when it is gone.
LEMMA CanvasRegisters ==
    ASSUME CanvasInv, widget \in CanvasNames
    PROVE \E K : Only(pending, IF ui.mounted THEN K ELSE {})
  BY Zenon DEF CanvasNames, CanvasInv, ParticlesInv, CloudInv, Registered

\* A loop that stops has drawn everything.
LEMMA CanvasHolds == ASSUME CanvasInv PROVE StoppedWhenDrawn
  BY DEF CanvasInv, CloudInv, StoppedWhenDrawn, On

-----------------------------------------------------------------------------
(* What the components of the layout and the ornaments register.           *)

\* The components of the layout.
LayoutNames == {"beam", "dots", "grid", "highlighter", "card", "hover", "glare", "blur"}

\* The ornaments.
OrnamentNames == {"gauge", "layers"}

\* Those that register nothing.
PlainNames == {"hover", "glare", "blur", "gauge", "layers"}

\* What each of them has registered.
LayoutCalls ==
    /\ widget \in {"beam", "dots", "grid"} => Registered({"resize"})
    /\ widget = "highlighter" => HighlighterInv
    /\ widget = "card" => Registered({"pointer"})
    /\ widget \in PlainNames => Registered({})

\* The first effects register it.
LEMMA LayoutCallsBegin ==
    ASSUME LayoutInit \/ OrnamentsInit
    PROVE LayoutCalls /\ widget \in LayoutNames \cup OrnamentNames
  <1>1. CASE BeamInit \/ DotInit \/ GridInit
    <2>1. widget \in {"beam", "dots", "grid"} BY <1>1, Zenon DEF BeamInit, DotInit, GridInit
    <2>2. Registered({"resize"}) BY <1>1, LayoutRegistersFirst
    <2> QED BY <2>1, <2>2 DEF LayoutCalls, LayoutNames, PlainNames
  <1>2. CASE HighlighterInit
    <2>1. widget = "highlighter" BY <1>2 DEF HighlighterInit
    <2> QED BY <1>2, <2>1, HighlighterInit0 DEF LayoutCalls, LayoutNames, PlainNames
  <1>3. CASE CardInit
    <2>1. widget = "card" BY <1>3 DEF CardInit
    <2> QED BY <1>3, <2>1, LayoutRegistersFirst DEF LayoutCalls, LayoutNames, PlainNames
  <1>4. CASE HoverInit \/ GlareInit \/ BlurInit \/ GaugeInit \/ BlurLayersInit
    <2>1. widget \in PlainNames
      BY <1>4, Zenon DEF HoverInit, GlareInit, BlurInit, GaugeInit, BlurLayersInit, PlainNames
    <2>2. Registered({}) BY <1>4, LayoutRegistersFirst
    <2> QED BY <2>1, <2>2 DEF LayoutCalls, LayoutNames, OrnamentNames, PlainNames
  <1> QED BY <1>1, <1>2, <1>3, <1>4 DEF LayoutInit, OrnamentsInit

\* The steps of the layout keep it.
LEMMA LayoutCallsKept ==
    ASSUME LayoutCalls, LayoutNext
    PROVE LayoutCalls' /\ widget \in LayoutNames /\ UNCHANGED widget
  <1> DEFINE Goal == LayoutCalls' /\ widget \in LayoutNames /\ UNCHANGED widget
  <1> HIDE DEF Goal
  <1>1. CASE (\E p \in DOMAIN Layouts : BeamLayout(p)) \/ BeamResize \/ BeamProps
    <2>1. widget = "beam" BY <1>1, Zenon DEF BeamLayout, BeamResize, BeamProps, On
    <2>2. Registered({"resize"})' /\ UNCHANGED widget
      BY <1>1, <2>1, BeamRegisters DEF LayoutCalls
    <2> QED BY <2>1, <2>2 DEF LayoutCalls, LayoutNames, PlainNames, Goal
  <1>2. CASE \/ \E size \in Sizes, window \in BOOLEAN : DotLayout(size, window)
             \/ updateDimensions
    <2>1. widget = "dots" BY <1>2, Zenon DEF DotLayout, updateDimensions, On
    <2>2. Registered({"resize"})' /\ UNCHANGED widget
      BY <1>2, <2>1, DotRegisters DEF LayoutCalls
    <2> QED BY <2>1, <2>2 DEF LayoutCalls, LayoutNames, PlainNames, Goal
  <1>3. CASE \/ \E d \in GridSizes : GridResize(d)
             \/ GridSquares
             \/ \E i \in SquareIds : GridMove(i) \/ GridMoveLate(i)
    <2>1. widget = "grid"
      BY <1>3, Zenon DEF GridResize, GridSquares, GridMove, GridMoveLate, On
    <2>2. Registered({"resize"})' /\ UNCHANGED widget
      BY <1>3, <2>1, GridRegisters DEF LayoutCalls
    <2> QED BY <2>1, <2>2 DEF LayoutCalls, LayoutNames, PlainNames, Goal
  <1>4. CASE HighlighterInView \/ HighlighterStyle
    <2>1. widget = "highlighter" BY <1>4, Zenon DEF HighlighterInView, HighlighterStyle, On
    <2>2. HighlighterInv' /\ UNCHANGED widget
      BY <1>4, <2>1, HighlighterKept DEF LayoutCalls
    <2> QED BY <2>1, <2>2 DEF LayoutCalls, LayoutNames, PlainNames, Goal
  <1>5. CASE CardEnter \/ handlePointerMove \/ CardLeave \/ CardGlobal
    <2>1. widget = "card"
      BY <1>5, Zenon DEF CardEnter, handlePointerMove, CardLeave, CardGlobal, On
    <2>2. Registered({"pointer"})' /\ UNCHANGED widget
      BY <1>5, <2>1, CardKept DEF LayoutCalls
    <2> QED BY <2>1, <2>2 DEF LayoutCalls, LayoutNames, PlainNames, Goal
  <1>6. CASE (\E square \in 1 .. 2 : HoverEnter(square)) \/ HoverLeave
    <2>1. widget = "hover" BY <1>6, Zenon DEF HoverEnter, HoverLeave, On
    <2>2. Registered({})' /\ UNCHANGED widget
      BY <1>6, <2>1, HoverKept DEF LayoutCalls, PlainNames
    <2> QED BY <2>1, <2>2 DEF LayoutCalls, LayoutNames, PlainNames, Goal
  <1>7. CASE GlareEnter \/ GlareLeave \/ GlareArrives
    <2>1. widget = "glare" BY <1>7, Zenon DEF GlareEnter, GlareLeave, GlareArrives, On
    <2>2. Registered({})' /\ UNCHANGED widget
      BY <1>7, <2>1, GlareKept DEF LayoutCalls, PlainNames
    <2> QED BY <2>1, <2>2 DEF LayoutCalls, LayoutNames, PlainNames, Goal
  <1>8. CASE BlurInView \/ BlurShown
    <2>1. widget = "blur" BY <1>8, Zenon DEF BlurInView, BlurShown, On
    <2>2. Registered({})' /\ UNCHANGED widget
      BY <1>8, <2>1, BlurKept DEF LayoutCalls, PlainNames
    <2> QED BY <2>1, <2>2 DEF LayoutCalls, LayoutNames, PlainNames, Goal
  <1> QED BY <1>1, <1>2, <1>3, <1>4, <1>5, <1>6, <1>7, <1>8, Zenon DEF LayoutNext, Goal

\* So do those of the ornaments.
LEMMA OrnamentCallsKept ==
    ASSUME LayoutCalls, OrnamentsNext
    PROVE LayoutCalls' /\ widget \in OrnamentNames /\ UNCHANGED widget
  <1>1. widget \in OrnamentNames
    BY Zenon DEF OrnamentsNext, GaugeValue, BlurLayersProps, On, OrnamentNames
  <1>2. Registered({}) BY <1>1 DEF LayoutCalls, OrnamentNames, PlainNames
  <1>3. Registered({})' /\ UNCHANGED widget BY <1>2, OrnamentsRegister
  <1> QED BY <1>1, <1>3 DEF LayoutCalls, OrnamentNames, PlainNames

\* The cleanup of each is complete.
LEMMA LayoutCallsGone ==
    ASSUME LayoutCalls, widget \in LayoutNames \cup OrnamentNames, Gone(LayoutCleanup)
    PROVE LayoutCalls'
  <1>0. UNCHANGED widget BY DEF Gone, Becomes
  <1>1. CASE widget \in {"beam", "dots", "grid"}
    <2>1. Gone(Cancel(pending, {"resize"})) BY <1>1 DEF LayoutCleanup
    <2>2. Registered({"resize"})' BY <1>1, <2>1, RegisteredGone DEF LayoutCalls
    <2> QED BY <1>0, <1>1, <2>2 DEF LayoutCalls, PlainNames
  <1>2. CASE widget = "highlighter"
    <2>1. Gone(HighlighterStops(pending)) BY <1>2 DEF LayoutCleanup
    <2>2. HighlighterInv' BY <1>2, <2>1, HighlighterGone DEF LayoutCalls
    <2> QED BY <1>0, <1>2, <2>2 DEF LayoutCalls, PlainNames
  <1>3. CASE widget = "card"
    <2>1. Gone(Cancel(pending, {"pointer"})) BY <1>3 DEF LayoutCleanup
    <2>2. Registered({"pointer"})' BY <1>3, <2>1, RegisteredGone DEF LayoutCalls
    <2> QED BY <1>0, <1>3, <2>2 DEF LayoutCalls, PlainNames
  <1>4. CASE widget \in PlainNames
    <2>1. Gone(pending) BY <1>4 DEF LayoutCleanup, PlainNames
    <2>2. Registered({})' BY <1>4, <2>1, RegisteredGone DEF LayoutCalls
    <2> QED BY <1>0, <1>4, <2>2 DEF LayoutCalls, PlainNames
  <1> QED BY <1>1, <1>2, <1>3, <1>4 DEF LayoutNames, OrnamentNames, PlainNames

\* Each registers a kind once, and nothing is left of it when it is gone.
LEMMA LayoutRegisters ==
    ASSUME LayoutCalls, widget \in LayoutNames \cup OrnamentNames
    PROVE \E K : Only(pending, IF ui.mounted THEN K ELSE {})
  <1>1. CASE widget = "highlighter" BY <1>1, OnlyMore DEF LayoutCalls, HighlighterInv
  <1>2. CASE widget # "highlighter"
    BY <1>2 DEF LayoutCalls, LayoutNames, OrnamentNames, PlainNames, Registered
  <1> QED BY <1>1, <1>2

-----------------------------------------------------------------------------
(* CopyButton.                                                             *)

\* Whenever the label says "Copied" a timer is pending.  Nothing bounds the
\* timers, each click has its own, and nothing else is registered.
CopyInv ==
    /\ {"mounted", "copied", "writes"} \subseteq DOMAIN ui
    /\ pending \in [Calls -> Nat]
    /\ \A k \in Calls \ {"timer"} : pending[k] = 0
    /\ ui.copied => pending["timer"] > 0

\* The button begins without label and timer.
LEMMA CopyBegins == ASSUME CopyInit PROVE CopyInv
  BY DEF CopyInit, CopyInv, Nothing

\* A write sets label and timer at once, and any timer that fires takes the
\* label back.
LEMMA CopyKept ==
    ASSUME CopyInv, CopyNext
    PROVE CopyInv' /\ UNCHANGED widget
  <1>0. "timer" \in Calls BY DEF Calls
  <1>1. CASE CopyClick BY <1>1 DEF CopyInv, CopyClick, Becomes
  <1>2. CASE CopyTimer BY <1>2 DEF CopyInv, CopyTimer, Cancel, Becomes
  <1>3. ASSUME NEW written \in BOOLEAN, CopySettled(written)
        PROVE CopyInv' /\ UNCHANGED widget
    <2>1. /\ ui' = [ui EXCEPT !.writes = @ - 1, !.copied = written /\ ui.mounted]
          /\ pending' = IF written THEN Register(pending, {"timer"}) ELSE pending
          /\ UNCHANGED widget
      BY <1>3, Zenon DEF CopySettled, RegisterIf, Becomes
    <2>2. /\ {"mounted", "copied", "writes"} \subseteq DOMAIN ui'
          /\ ui'.copied = (written /\ ui.mounted)
      BY <2>1, Zenon DEF CopyInv
    <2>3. /\ pending' \in [Calls -> Nat] /\ (written => pending'["timer"] > 0)
          /\ \A k \in Calls \ {"timer"} : pending'[k] = 0
      BY <1>0, <2>1 DEF CopyInv, Register
    <2> QED BY <2>1, <2>2, <2>3 DEF CopyInv
  <1> QED BY <1>1, <1>2, <1>3 DEF CopyNext

\* No cleanup cancels a timer.
LEMMA CopyGone == ASSUME CopyInv, Gone(pending) PROVE CopyInv'
  BY DEF CopyInv, Gone, Becomes

-----------------------------------------------------------------------------
(* The condition-based waits.                                              *)

\* The fields of a wait.
WaitFields == {"mounted", "count", "matching", "inTime", "now", "status"}

\* No more events came in time than came at all.
WaitState(state) ==
    /\ DOMAIN state = WaitFields
    /\ state.mounted
    /\ state.count \in Nat /\ state.matching \in Nat /\ state.inTime \in Nat
    /\ state.inTime <= state.matching

\* A wait has one timer while it is pending; it was rejected for want of events
\* in time, and resolved with enough of them.
WaitInv ==
    /\ WaitState(ui)
    /\ Only(pending, IF ui.status = "pending" THEN {"timer"} ELSE {})
    /\ ui.status = "rejected" => ui.inTime < ui.count
    /\ ui.status = "resolved" => ui.matching >= ui.count

\* A call has settled nothing yet.
LEMMA WaitBegins == ASSUME WaitInit PROVE WaitInv
  <1>1. 1 \in Nat /\ 0 .. MaxEvents \subseteq Nat BY ScriptAssumption
  <1>3. WaitState(ui) /\ ui.status = "called"
    <2>1. ui \in Waits({1}) \cup Waits(0 .. MaxEvents)
      BY DEF WaitInit, waitForEvent, waitForEventCount, waitForEventMatch
    <2>2. ASSUME NEW C \in SUBSET Nat, ui \in Waits(C)
          PROVE  WaitState(ui) /\ ui.status = "called"
      <3>1. /\ DOMAIN ui = WaitFields /\ ui.mounted = TRUE /\ ui.count \in C
            /\ ui.matching \in 0 .. MaxEvents /\ ui.inTime = 0 /\ ui.status = "called"
        BY <2>2, Zenon DEF Waits, WaitFields
      <3>2. ui.count \in Nat BY <3>1, Zenon
      <3>3. ui.matching \in Nat /\ 0 <= ui.matching BY <3>1
      <3> QED BY <3>1, <3>2, <3>3 DEF WaitState
    <2> QED BY <1>1, <2>1, <2>2, Zenon
  <1>2. pending = Nothing BY DEF WaitInit
  <1> QED BY <1>2, <1>3, OnlyNothing DEF WaitInv

\* A check resolves before it looks at the clock, so what it rejects has too
\* few events now, and had no more in time.
LEMMA CheckKept ==
    ASSUME NEW state, NEW calls, WaitState(state), state.status = "pending",
           Only(calls, {}), check(state, calls)
    PROVE WaitInv' /\ UNCHANGED widget
  <1>1. Only(Register(calls, {"timer"}), {"timer"}) BY OnlyRegister
  <1>2. CASE state.matching >= state.count
    <2>1. ui' = [state EXCEPT !.status = "resolved"] /\ pending' = calls /\ UNCHANGED widget
      BY <1>2 DEF check, Becomes
    <2>2. WaitState(ui') /\ ui'.status = "resolved" /\ ui'.matching >= ui'.count
      BY <1>2, <2>1 DEF WaitState, WaitFields
    <2> QED BY <2>1, <2>2 DEF WaitInv
  <1>3. CASE ~(state.matching >= state.count)
    <2>1. \/ ui' = [state EXCEPT !.status = "rejected"] /\ pending' = calls
          \/ ui' = state /\ pending' = Register(calls, {"timer"})
      BY <1>3 DEF check, Becomes
    <2>2. UNCHANGED widget BY DEF check, Becomes
    <2>3. CASE ui' = [state EXCEPT !.status = "rejected"] /\ pending' = calls
      <3>1. WaitState(ui') /\ ui'.status = "rejected" /\ ui'.inTime < ui'.count
        BY <1>3, <2>3 DEF WaitState, WaitFields
      <3> QED BY <2>2, <2>3, <3>1 DEF WaitInv
    <2>4. CASE ui' = state /\ pending' = Register(calls, {"timer"})
      BY <1>1, <2>2, <2>4 DEF WaitInv
    <2> QED BY <2>1, <2>3, <2>4
  <1> QED BY <1>2, <1>3

\* The steps of a wait.
WaitNext == WaitCall \/ WaitEvent \/ WaitClock \/ WaitCheck

\* Every step keeps the invariant, a timer that fires late included.
LEMMA WaitKept ==
    ASSUME WaitInv, WaitNext
    PROVE WaitInv' /\ UNCHANGED widget
  <1>1. CASE WaitCall
    <2> DEFINE state == [ui EXCEPT !.status = "pending", !.inTime = ui.matching]
    <2>1. WaitState(state) /\ state.status = "pending" BY DEF WaitInv, WaitState, WaitFields
    <2>2. check(state, pending) /\ Only(pending, {}) BY <1>1 DEF WaitCall, WaitInv
    <2> HIDE DEF state
    <2> QED BY <2>1, <2>2, CheckKept
  <1>2. CASE WaitEvent
    <2>1. /\ ui.status = "pending" /\ UNCHANGED <<pending, widget>>
          /\ \E t \in {ui.inTime, ui.inTime + 1} :
                ui' = [ui EXCEPT !.matching = @ + 1, !.inTime = t]
      BY <1>2, Zenon DEF WaitEvent, Becomes
    <2>2. WaitState(ui') /\ ui'.status = "pending"
      BY <2>1 DEF WaitInv, WaitState, WaitFields
    <2> QED BY <2>1, <2>2 DEF WaitInv
  <1>3. CASE WaitClock
    <2>1. /\ ui.status = "pending" /\ UNCHANGED <<pending, widget>>
          /\ ui' = [ui EXCEPT !.now = @ + 1]
      BY <1>3 DEF WaitClock, Becomes
    <2>2. WaitState(ui') /\ ui'.status = "pending"
      BY <2>1 DEF WaitInv, WaitState, WaitFields
    <2> QED BY <2>1, <2>2 DEF WaitInv
  <1>4. CASE WaitCheck
    <2>1. ui.status = "pending"
      BY <1>4, OnlyFires DEF WaitCheck, WaitInv, Calls
    <2>2. Only(Cancel(pending, {"timer"}), {}) BY <2>1, OnlyCancel DEF WaitInv
    <2> QED BY <1>4, <2>1, <2>2, CheckKept DEF WaitCheck, WaitInv
  <1> QED BY <1>1, <1>2, <1>3, <1>4 DEF WaitNext

\* A settled wait is honest.
LEMMA WaitHolds == ASSUME WaitInv PROVE WaitIsHonest
  BY DEF WaitInv, WaitIsHonest, Only, Calls

\* A wait has at most one timer.
LEMMA WaitRegisters == ASSUME WaitInv PROVE \E K : Only(pending, IF ui.mounted THEN K ELSE {})
  BY DEF WaitInv, WaitState

\* A label that says "Copied" is taken back.
LEMMA CopyHolds == ASSUME CopyInv PROVE CopiedIsTakenBack
  BY DEF CopyInv, CopiedIsTakenBack

-----------------------------------------------------------------------------
(* What follows for the registrations of any component.                    *)

\* RetroGrid registers a kind once, and nothing is left of it when it is gone.
LEMMA RetroRegisters == ASSUME RetroInv PROVE \E K : Only(pending, IF ui.mounted THEN K ELSE {})
  BY Zenon DEF RetroInv, RetroCalls

\* So nothing is pending for a component that is gone, and nothing twice.
LEMMA HeldOnce ==
    ASSUME \E K : Only(pending, IF ui.mounted THEN K ELSE {})
    PROVE /\ ~ui.mounted => pending = Nothing
          /\ \A k \in Calls : pending[k] <= 1
  <1>1. ~ui.mounted => pending = Nothing BY NothingOnly
  <1>2. \A k \in Calls : pending[k] <= 1 BY DEF Only
  <1> QED BY <1>1, <1>2

-----------------------------------------------------------------------------
(* Steps that leave the page as it is.                                     *)

\* The components of text stay as they are.
LEMMA TextStays == ASSUME TextInv, UNCHANGED <<widget, ui, pending>> PROVE TextInv'
  <1>1. widget = "typing" => TypingInv'
    BY Zenon DEF TextInv, TypingInv, TypingPrefix, Word
  <1>2. widget = "terminal" => TerminalInv'
    BY Zenon DEF TextInv, TerminalInv, LineShown
  <1>3. widget \in {"list", "rotate", "ticker", "sparkles"} => Registered({"timer"})'
    BY Zenon DEF TextInv, Registered
  <1>4. widget = "dia" => DiaInv' BY Zenon DEF TextInv, DiaInv
  <1>5. widget = "reveal" => RevealInv' BY Zenon DEF TextInv, RevealInv, Registered
  <1> QED BY <1>1, <1>2, <1>3, <1>4, <1>5, Zenon DEF TextInv

\* So do those with a canvas.
LEMMA CanvasStays == ASSUME CanvasInv, UNCHANGED <<widget, ui, pending>> PROVE CanvasInv'
  <1>1. widget = "particles" => ParticlesInv'
    BY Zenon DEF CanvasInv, ParticlesInv, Registered
  <1>2. widget = "flicker" => Registered(FlickerCalls)' BY Zenon DEF CanvasInv, Registered
  <1>3. widget = "cloud" => CloudInv' BY Zenon DEF CanvasInv, CloudInv, Registered
  <1> QED BY <1>1, <1>2, <1>3, Zenon DEF CanvasInv

\* So does RetroGrid.
LEMMA RetroStays == ASSUME RetroInv, UNCHANGED <<widget, ui, pending>> PROVE RetroInv'
  BY Zenon DEF RetroInv

\* So do those of the layout and the ornaments.
LEMMA LayoutCallsStay == ASSUME LayoutCalls, UNCHANGED <<widget, ui, pending>> PROVE LayoutCalls'
  <1>1. widget \in {"beam", "dots", "grid"} => Registered({"resize"})'
    BY Zenon DEF LayoutCalls, Registered
  <1>2. widget = "highlighter" => HighlighterInv' BY Zenon DEF LayoutCalls, HighlighterInv
  <1>3. widget = "card" => Registered({"pointer"})' BY Zenon DEF LayoutCalls, Registered
  <1>4. widget \in PlainNames => Registered({})' BY Zenon DEF LayoutCalls, Registered
  <1> QED BY <1>1, <1>2, <1>3, <1>4, Zenon DEF LayoutCalls

\* So does the copy button.
LEMMA CopyStays == ASSUME CopyInv, UNCHANGED <<widget, ui, pending>> PROVE CopyInv'
  BY Zenon DEF CopyInv

\* So does a wait.
LEMMA WaitStays == ASSUME WaitInv, UNCHANGED <<widget, ui, pending>> PROVE WaitInv'
  BY Zenon DEF WaitInv

-----------------------------------------------------------------------------
(* All components and scripts.  The invariant of a group says nothing of a *)
(* component of another group.                                             *)

\* The parts that register nothing.
QuietNames == {"honeycomb", "site", "tree", "code", "render", "message", "none"}

\* The parts outside the other groups.
RestNames == QuietNames \cup {"copy", "wait"}

\* The copy button, the waits and the parts that register nothing.
RestInv ==
    /\ widget = "copy" => CopyInv
    /\ widget = "wait" => WaitInv
    /\ widget \in QuietNames => pending = Nothing

\* The invariant of the component on the page.
CallsInv ==
    /\ widget \in TextNames \cup CanvasNames \cup {"retro"} \cup LayoutNames
                    \cup OrnamentNames \cup RestNames
    /\ TextInv
    /\ CanvasInv
    /\ widget = "retro" => RetroInv
    /\ LayoutCalls
    /\ RestInv

\* The groups have no component in common.
LEMMA Disjoint ==
    /\ \A w \in TextNames :
          w \notin CanvasNames \cup {"retro"} \cup LayoutNames \cup OrnamentNames
                     \cup RestNames
    /\ \A w \in CanvasNames :
          w \notin {"retro"} \cup LayoutNames \cup OrnamentNames \cup RestNames
    /\ \A w \in LayoutNames \cup OrnamentNames : w \notin {"retro"} \cup RestNames
    /\ "retro" \notin RestNames
  BY DEF TextNames, CanvasNames, LayoutNames, OrnamentNames, RestNames, QuietNames

\* A component of another group cannot break the invariant of a group.
LEMMA Others ==
    /\ widget \notin TextNames => TextInv
    /\ widget \notin CanvasNames => CanvasInv
    /\ widget \notin LayoutNames \cup OrnamentNames => LayoutCalls
    /\ widget \notin RestNames => RestInv
  <1>1. widget \notin TextNames => TextInv BY DEF TextNames, TextInv
  <1>2. widget \notin CanvasNames => CanvasInv BY DEF CanvasNames, CanvasInv
  <1>3. widget \notin LayoutNames \cup OrnamentNames => LayoutCalls
    BY DEF LayoutNames, OrnamentNames, PlainNames, LayoutCalls
  <1>4. widget \notin RestNames => RestInv BY DEF RestNames, QuietNames, RestInv
  <1> QED BY <1>1, <1>2, <1>3, <1>4

\* The same after a step.
LEMMA OthersNext ==
    /\ widget' \notin TextNames => TextInv'
    /\ widget' \notin CanvasNames => CanvasInv'
    /\ widget' \notin LayoutNames \cup OrnamentNames => LayoutCalls'
    /\ widget' \notin RestNames => RestInv'
  <1>1. widget' \notin TextNames => TextInv' BY DEF TextNames, TextInv
  <1>2. widget' \notin CanvasNames => CanvasInv' BY DEF CanvasNames, CanvasInv
  <1>3. widget' \notin LayoutNames \cup OrnamentNames => LayoutCalls'
    BY DEF LayoutNames, OrnamentNames, PlainNames, LayoutCalls
  <1>4. widget' \notin RestNames => RestInv' BY DEF RestNames, QuietNames, RestInv
  <1> QED BY <1>1, <1>2, <1>3, <1>4

\* The invariant holds when a component is mounted or a script called.
LEMMA CallsBegin ==
    ASSUME \/ TextInit \/ CanvasInit \/ RetroInit \/ LayoutInit \/ OrnamentsInit
           \/ CopyInit \/ WaitInit
           \/ (widget \in QuietNames /\ pending = Nothing)
    PROVE CallsInv
  <1>1. CASE TextInit
    <2>1. TextInv /\ widget \in TextNames BY <1>1, TextBegins
    <2> QED BY <2>1, Disjoint, Others DEF CallsInv
  <1>2. CASE CanvasInit
    <2>1. CanvasInv /\ widget \in CanvasNames BY <1>2, CanvasBegins
    <2> QED BY <2>1, Disjoint, Others DEF CallsInv
  <1>3. CASE RetroInit
    <2>1. RetroInv /\ widget = "retro" BY <1>3, RetroInit0 DEF RetroInv
    <2> QED BY <2>1, Disjoint, Others DEF CallsInv
  <1>4. CASE LayoutInit \/ OrnamentsInit
    <2>1. LayoutCalls /\ widget \in LayoutNames \cup OrnamentNames
      BY <1>4, LayoutCallsBegin
    <2> QED BY <2>1, Disjoint, Others DEF CallsInv
  <1>5. CASE CopyInit \/ WaitInit \/ (widget \in QuietNames /\ pending = Nothing)
    <2>1. RestInv /\ widget \in RestNames
      <3>1. CASE CopyInit
        <4>1. widget = "copy" BY <3>1 DEF CopyInit
        <4> QED BY <3>1, <4>1, CopyBegins DEF RestInv, RestNames, QuietNames
      <3>2. CASE WaitInit
        <4>1. widget = "wait" BY <3>2 DEF WaitInit
        <4> QED BY <3>2, <4>1, WaitBegins DEF RestInv, RestNames, QuietNames
      <3>3. CASE widget \in QuietNames /\ pending = Nothing
        BY <3>3 DEF RestInv, RestNames, QuietNames
      <3> QED BY <1>5, <3>1, <3>2, <3>3
    <2> QED BY <2>1, Disjoint, Others DEF CallsInv
  <1> QED BY <1>1, <1>2, <1>3, <1>4, <1>5

\* The steps of the copy button, of a wait and of the parts that register nothing.
LEMMA RestKept ==
    ASSUME RestInv,
           \/ CopyNext \/ WaitNext
           \/ (widget \in QuietNames /\ UNCHANGED <<pending, widget>>)
    PROVE RestInv' /\ widget \in RestNames /\ UNCHANGED widget
  <1>1. CASE CopyNext
    <2>1. widget = "copy"
      BY <1>1, Zenon DEF CopyNext, CopyClick, CopyTimer, CopySettled, On
    <2>2. CopyInv' /\ UNCHANGED widget BY <1>1, <2>1, CopyKept DEF RestInv
    <2> QED BY <2>1, <2>2 DEF RestInv, RestNames, QuietNames
  <1>2. CASE WaitNext
    <2>1. widget = "wait"
      BY <1>2, Zenon DEF WaitNext, WaitCall, WaitEvent, WaitClock, WaitCheck, On
    <2>2. WaitInv' /\ UNCHANGED widget BY <1>2, <2>1, WaitKept DEF RestInv
    <2> QED BY <2>1, <2>2 DEF RestInv, RestNames, QuietNames
  <1>3. CASE widget \in QuietNames /\ UNCHANGED <<pending, widget>>
    BY <1>3 DEF RestInv, RestNames, QuietNames
  <1> QED BY <1>1, <1>2, <1>3

\* Every step of a component or script keeps the invariant, and only the layout
\* and the ornaments change what is drawn of them.
LEMMA CallsKept ==
    ASSUME CallsInv,
           \/ TextNext \/ CanvasNext \/ RetroNext \/ LayoutNext \/ OrnamentsNext
           \/ CopyNext \/ WaitNext
           \/ (widget \in QuietNames /\ UNCHANGED <<pending, widget>>)
    PROVE /\ CallsInv' /\ UNCHANGED widget
          /\ widget \in LayoutNames \cup OrnamentNames => LayoutNext \/ OrnamentsNext
  <1> DEFINE Goal == /\ CallsInv' /\ UNCHANGED widget
                     /\ widget \in LayoutNames \cup OrnamentNames
                          => LayoutNext \/ OrnamentsNext
  <1>1. CASE TextNext
    <2>1. TextInv' /\ widget \in TextNames /\ UNCHANGED widget BY <1>1, TextKept DEF CallsInv
    <2> QED BY <2>1, Disjoint, OthersNext DEF CallsInv
  <1>2. CASE CanvasNext
    <2>1. CanvasInv' /\ widget \in CanvasNames /\ UNCHANGED widget
      BY <1>2, CanvasKept DEF CallsInv
    <2> QED BY <2>1, Disjoint, OthersNext DEF CallsInv
  <1>3. CASE RetroNext
    <2>1. widget = "retro"
      BY <1>3, Zenon
         DEF RetroNext, RetroMount, RetroProps, handleColorSchemeChange, RetroTheme,
             RetroReduced, handleMotionChange, RetroResize, RetroView, RetroContextLost,
             handleContextLost, handleContextRestored, frame, RetroUnmount, On
    <2>2. RetroInv' /\ UNCHANGED widget BY <1>3, <2>1, RetroKept DEF CallsInv
    <2> QED BY <2>1, <2>2, Disjoint, OthersNext DEF CallsInv
  <1>4. CASE LayoutNext \/ OrnamentsNext
    <2>1. LayoutCalls' /\ widget \in LayoutNames \cup OrnamentNames /\ UNCHANGED widget
      BY <1>4, LayoutCallsKept, OrnamentCallsKept DEF CallsInv
    <2> QED BY <1>4, <2>1, Disjoint, OthersNext DEF CallsInv
  <1>5. CASE CopyNext \/ WaitNext \/ (widget \in QuietNames /\ UNCHANGED <<pending, widget>>)
    <2>1. RestInv' /\ widget \in RestNames /\ UNCHANGED widget BY <1>5, RestKept DEF CallsInv
    <2> QED BY <2>1, Disjoint, OthersNext DEF CallsInv
  <1> HIDE DEF Goal
  <1>6. Goal BY <1>1, <1>2, <1>3, <1>4, <1>5 DEF Goal
  <1> QED BY <1>6 DEF Goal

\* The steps of the components that register something are not those of the parts
\* that register nothing.
LEMMA BusyNext ==
    ASSUME CallsInv,
           \/ TextNext \/ CanvasNext \/ RetroNext \/ LayoutNext \/ OrnamentsNext
           \/ CopyNext \/ WaitNext
    PROVE widget \notin QuietNames
  <1>1. CASE TextNext
    BY <1>1, TextKept, Disjoint DEF CallsInv, RestNames
  <1>2. CASE CanvasNext
    BY <1>2, CanvasKept, Disjoint DEF CallsInv, RestNames
  <1>3. CASE RetroNext
    <2>1. widget = "retro"
      BY <1>3, Zenon
         DEF RetroNext, RetroMount, RetroProps, handleColorSchemeChange, RetroTheme,
             RetroReduced, handleMotionChange, RetroResize, RetroView, RetroContextLost,
             handleContextLost, handleContextRestored, frame, RetroUnmount, On
    <2> QED BY <2>1 DEF QuietNames
  <1>4. CASE LayoutNext \/ OrnamentsNext
    BY <1>4, LayoutCallsKept, OrnamentCallsKept, Disjoint DEF CallsInv, RestNames
  <1>5. CASE CopyNext
    <2>1. widget = "copy"
      BY <1>5, Zenon DEF CopyNext, CopyClick, CopyTimer, CopySettled, On
    <2> QED BY <2>1 DEF QuietNames
  <1>6. CASE WaitNext
    <2>1. widget = "wait"
      BY <1>6, Zenon DEF WaitNext, WaitCall, WaitEvent, WaitClock, WaitCheck, On
    <2> QED BY <2>1 DEF QuietNames
  <1> QED BY <1>1, <1>2, <1>3, <1>4, <1>5, <1>6

\* React unmounts a component, and its cleanups run.
LEMMA CallsGone ==
    ASSUME CallsInv, widget \notin {"none", "wait", "render", "message", "retro"},
           Gone(CASE widget \in TextNames -> TextCleanup
                  [] widget \in CanvasNames -> CanvasCleanup
                  [] OTHER -> LayoutCleanup)
    PROVE CallsInv'
  <1>0. UNCHANGED widget BY DEF Gone, Becomes
  <1>1. CASE widget \in TextNames
    <2>1. Gone(TextCleanup) BY <1>1, Disjoint
    <2>2. TextInv' BY <1>1, <2>1, TextGone DEF CallsInv
    <2> QED BY <1>0, <1>1, <2>2, Disjoint, OthersNext DEF CallsInv
  <1>2. CASE widget \in CanvasNames
    <2>1. Gone(CanvasCleanup) BY <1>2, Disjoint
    <2>2. CanvasInv' BY <1>2, <2>1, CanvasGone DEF CallsInv
    <2> QED BY <1>0, <1>2, <2>2, Disjoint, OthersNext DEF CallsInv
  <1>3. CASE widget \in LayoutNames \cup OrnamentNames
    <2>1. Gone(LayoutCleanup) BY <1>3, Disjoint
    <2>2. LayoutCalls' BY <1>3, <2>1, LayoutCallsGone DEF CallsInv
    <2> QED BY <1>0, <1>3, <2>2, Disjoint, OthersNext DEF CallsInv
  <1>4. CASE widget \in RestNames
    <2>1. Gone(LayoutCleanup) BY <1>4, Disjoint
    <2>2. widget \in {"copy", "honeycomb", "site", "tree", "code"}
      BY <1>4 DEF RestNames, QuietNames
    <2>3. LayoutCleanup = pending BY <2>2 DEF LayoutCleanup
    <2>4. UNCHANGED <<widget, pending>> /\ Gone(pending) BY <2>1, <2>3 DEF Gone, Becomes
    <2>5. widget = "copy" => CopyInv' BY <2>4, CopyGone DEF CallsInv, RestInv
    <2>6. RestInv' BY <2>2, <2>4, <2>5 DEF CallsInv, RestInv, QuietNames
    <2> QED BY <1>0, <1>4, <2>6, Disjoint, OthersNext DEF CallsInv
  <1> QED BY <1>1, <1>2, <1>3, <1>4 DEF CallsInv

\* A step that leaves the page alone keeps it too.
LEMMA CallsStay == ASSUME CallsInv, UNCHANGED <<widget, ui, pending>> PROVE CallsInv'
  <1>1. TextInv' /\ CanvasInv' /\ LayoutCalls'
    BY TextStays, CanvasStays, LayoutCallsStay DEF CallsInv
  <1>2. (widget = "retro" => RetroInv)' BY RetroStays DEF CallsInv
  <1>3. RestInv' BY CopyStays, WaitStays DEF CallsInv, RestInv
  <1> QED BY <1>1, <1>2, <1>3 DEF CallsInv

\* A copy button has only timers registered.
LEMMA CopyRegisters ==
    ASSUME CallsInv, widget = "copy"
    PROVE \A k \in Calls : pending[k] > 0 => k = "timer"
  <1>1. CopyInv BY DEF CallsInv, RestInv
  <1> QED BY <1>1 DEF CopyInv

\* At most one registration of each kind, and none once the component is gone.
LEMMA CallsRegister ==
    ASSUME CallsInv, widget # "copy"
    PROVE /\ ~ui.mounted => pending = Nothing
          /\ \A k \in Calls : pending[k] <= 1
  <1>1. CASE widget \in QuietNames
    <2>1. pending = Nothing BY <1>1 DEF CallsInv, RestInv
    <2> QED BY <2>1 DEF Nothing
  <1>2. CASE widget \notin QuietNames
    <2>1. \E K : Only(pending, IF ui.mounted THEN K ELSE {})
      BY <1>2, TextRegisters, CanvasRegisters, RetroRegisters, LayoutRegisters, WaitRegisters
         DEF CallsInv, RestInv, RestNames
    <2> QED BY <2>1, HeldOnce, Zenon
  <1> QED BY <1>1, <1>2

\* What the invariant says of the single components.
LEMMA CallsHold ==
    ASSUME CallsInv
    PROVE /\ StoppedWhenDrawn /\ RetroLoop /\ PipelineReleased
          /\ CopiedIsTakenBack /\ WaitIsHonest
  <1>1. StoppedWhenDrawn BY CanvasHolds DEF CallsInv
  <1>2. RetroLoop /\ PipelineReleased
    BY RetroHolds, Zenon DEF CallsInv, RetroLoop, PipelineReleased, On
  <1>3. CopiedIsTakenBack BY CopyHolds DEF CallsInv, RestInv, CopiedIsTakenBack
  <1>4. WaitIsHonest BY WaitHolds DEF CallsInv, RestInv, WaitIsHonest
  <1> QED BY <1>1, <1>2, <1>3, <1>4
=============================================================================
