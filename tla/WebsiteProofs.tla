--------------------------- MODULE WebsiteProofs ---------------------------
(***************************************************************************)
(* The components and scripts together.  Which of them a behaviour runs is *)
(* settled by its first state; the invariant of that one is kept by its    *)
(* own steps, by those of the plugin and by React when it unmounts it.     *)
(***************************************************************************)
EXTENDS Website, ComponentProofs, DrawingProofs, HighlightProofs, ScriptProofs

\* The inductive invariant: that of the component on the page, and of what it
\* has drawn.
PageInv == CallsInv /\ DrawInv

\* Only the layout and the ornaments draw.
LEMMA OthersDrawNothing ==
    /\ widget \notin LayoutNames \cup OrnamentNames => DrawInv
    /\ widget' \notin LayoutNames \cup OrnamentNames => DrawInv'
  BY DEF LayoutNames, OrnamentNames, DrawInv

-----------------------------------------------------------------------------
(* The parts that register nothing.                                        *)

\* Everything but the copy button and the waits.
QuietNext ==
    \/ HoneycombProps \/ CodeLine \/ MessageNext
    \/ \E to \in Pages : HeaderLink(to) \/ SidebarLink(to) \/ History(to)
    \/ SheetOpenChange \/ PagerLink \/ DocsMobileNav
    \/ \E id \in DOMAIN Elements : Folder(id) \/ File(id)
    \/ CollapseButton
    \/ \E id \in Ids("nested") \cup {"none"} : TreeProps(id)
    \/ RenderExit \/ RenderStart \/ RenderThrows
    \/ \E accepted \in renderToSvg : RenderCombined(accepted) \/ RenderBlock(accepted)

\* These steps register nothing.
LEMMA QuietKept ==
    ASSUME QuietNext
    PROVE widget \in QuietNames /\ UNCHANGED <<pending, widget>>
  <1>1. CASE HoneycombProps \/ CodeLine \/ MessageNext
    BY <1>1, Zenon DEF HoneycombProps, CodeLine, MessageNext, finalMessage, On, Becomes, QuietNames
  <1>2. CASE \E to \in Pages : HeaderLink(to) \/ SidebarLink(to) \/ History(to)
    BY <1>2, Zenon DEF HeaderLink, SidebarLink, History, GoTo, On, Becomes, QuietNames
  <1>3. CASE SheetOpenChange \/ PagerLink \/ DocsMobileNav
    BY <1>3, Zenon DEF SheetOpenChange, PagerLink, DocsMobileNav, GoTo, On, Becomes, QuietNames
  <1>4. CASE \E id \in DOMAIN Elements : Folder(id) \/ File(id)
    BY <1>4, Zenon DEF Folder, File, On, Becomes, QuietNames
  <1>5. CASE CollapseButton \/ \E id \in Ids("nested") \cup {"none"} : TreeProps(id)
    BY <1>5, Zenon DEF CollapseButton, TreeProps, On, Becomes, QuietNames
  <1>6. CASE RenderExit \/ RenderStart \/ RenderThrows
    BY <1>6, Zenon DEF RenderExit, RenderStart, RenderThrows, On, Becomes, QuietNames
  <1>7. CASE \E accepted \in renderToSvg : RenderCombined(accepted) \/ RenderBlock(accepted)
    BY <1>7, Zenon DEF RenderCombined, RenderBlock, On, Becomes, QuietNames
  <1> QED BY <1>1, <1>2, <1>3, <1>4, <1>5, <1>6, <1>7, Zenon DEF QuietNext

-----------------------------------------------------------------------------
(* The invariant holds in every state.                                     *)

\* It holds in the first one.
LEMMA PageBegins == ASSUME PageInit \/ NoPage PROVE PageInv
  <1>1. CASE LayoutInit \/ OrnamentsInit
    BY <1>1, CallsBegin, DrawBegins DEF PageInv
  <1>2. CASE TextInit \/ CanvasInit \/ RetroInit \/ CopyInit \/ WaitInit
    <2>1. CallsInv BY <1>2, CallsBegin
    <2>2. widget \notin LayoutNames \cup OrnamentNames
      <3>1. CASE TextInit BY <3>1, TextBegins, Disjoint
      <3>2. CASE CanvasInit BY <3>2, CanvasBegins, Disjoint
      <3>3. CASE RetroInit \/ CopyInit \/ WaitInit
        BY <3>3, Zenon DEF RetroInit, CopyInit, WaitInit, LayoutNames, OrnamentNames
      <3> QED BY <1>2, <3>1, <3>2, <3>3
    <2> QED BY <2>1, <2>2, OthersDrawNothing DEF PageInv
  <1>3. CASE HoneycombInit \/ SiteInit \/ TreeInit \/ CodeInit \/ RenderInit
             \/ MessageInit \/ NoPage
    <2>1. widget \in QuietNames /\ pending = Nothing
      BY <1>3, Zenon DEF HoneycombInit, SiteInit, TreeInit, CodeInit, RenderInit,
                         MessageInit, NoPage, QuietNames
    <2>2. widget \notin LayoutNames \cup OrnamentNames
      BY <2>1, Disjoint DEF RestNames
    <2> QED BY <2>1, <2>2, CallsBegin, OthersDrawNothing DEF PageInv
  <1> QED BY <1>1, <1>2, <1>3, Zenon DEF PageInit, ChromeInit, ScriptInit

\* React unmounts the component.
LEMMA UnmountKept == ASSUME PageInv, Unmount PROVE PageInv'
  <1>1. Text = TextNames /\ Canvas = CanvasNames
    BY DEF Text, TextNames, Canvas, CanvasNames
  <1>2. widget \notin {"none", "wait", "render", "message", "retro"}
    BY DEF Unmount, Scripts
  <1>3. CallsInv' BY <1>1, <1>2, CallsGone DEF Unmount, Gone, PageInv
  <1>4. DrawInv' BY DrawGone DEF PageInv, Unmount, Becomes
  <1> QED BY <1>3, <1>4 DEF PageInv

\* Every step of a component or script keeps it.
LEMMA PageKept == ASSUME PageInv, PageNext PROVE PageInv'
  <1>1. CASE Unmount BY <1>1, UnmountKept
  <1>2. CASE \/ TextNext \/ CanvasNext \/ RetroNext \/ LayoutNext \/ OrnamentsNext
             \/ CopyNext \/ WaitNext \/ QuietNext
    <2>1. /\ CallsInv' /\ UNCHANGED widget
          /\ widget \in LayoutNames \cup OrnamentNames => LayoutNext \/ OrnamentsNext
      BY <1>2, CallsKept, QuietKept DEF PageInv
    <2>2. DrawInv' BY <2>1, DrawKept, OthersDrawNothing DEF PageInv
    <2> QED BY <2>1, <2>2 DEF PageInv
  <1>3. ChromeNext => QuietNext \/ CopyNext BY Zenon DEF ChromeNext, QuietNext
  <1>4. ScriptNext => QuietNext \/ WaitNext BY Zenon DEF ScriptNext, QuietNext, WaitNext
  <1>5. HoneycombProps \/ CodeLine \/ MessageNext => QuietNext BY Zenon DEF QuietNext
  <1> QED BY <1>1, <1>2, <1>3, <1>4, <1>5 DEF PageNext

\* A step that leaves the page alone, one of the plugin among them, keeps it too.
LEMMA PageStays == ASSUME PageInv, UNCHANGED page PROVE PageInv'
  <1>1. UNCHANGED <<widget, ui, pending>> BY DEF page
  <1> QED BY <1>1, CallsStay, DrawStays DEF PageInv

\* It holds in every state of every behaviour.
LEMMA PageAlways == Spec => []PageInv
  <1>1. Init => PageInv BY PageBegins DEF Init
  <1>2. ASSUME PageInv, [Next]_<<page, vars>> PROVE PageInv'
    <2>1. PageNext \/ UNCHANGED page BY <1>2, Zenon DEF Next
    <2> QED BY <1>2, <2>1, PageKept, PageStays
  <1> QED BY <1>1, <1>2, PTL DEF Spec

-----------------------------------------------------------------------------
(* What a commit message, a rendered document and a line of code hold.     *)

\* The invariants of the three parts that compute something from a text.
ContentInv == MessageInv /\ RenderInv /\ CodeInv

\* The other parts have no such text.
LEMMA OthersHoldNothing ==
    /\ widget # "message" => MessageInv
    /\ widget # "render" => RenderInv
    /\ widget # "code" => CodeInv
  BY Zenon DEF MessageInv, RenderInv, CodeInv

\* The same after a step.
LEMMA OthersHoldNothingNext ==
    /\ widget' # "message" => MessageInv'
    /\ widget' # "render" => RenderInv'
    /\ widget' # "code" => CodeInv'
  BY Zenon DEF MessageInv, RenderInv, CodeInv

\* They hold when a component is mounted or a script called.
LEMMA ContentBegins == ASSUME PageInv, PageInit \/ NoPage PROVE ContentInv
  <1>1. CASE MessageInit
    <2>1. widget = "message" BY <1>1, Zenon DEF MessageInit
    <2> QED BY <1>1, <2>1, MessageBegins, OthersHoldNothing DEF ContentInv
  <1>2. CASE RenderInit
    <2>1. widget = "render" BY <1>2, Zenon DEF RenderInit
    <2> QED BY <1>2, <2>1, RenderBegins, OthersHoldNothing DEF ContentInv
  <1>3. CASE CodeInit
    <2>1. widget = "code" BY <1>3, Zenon DEF CodeInit
    <2> QED BY <1>3, <2>1, CodeBegins, OthersHoldNothing DEF ContentInv
  <1>4. CASE LayoutInit \/ OrnamentsInit
    <2>1. widget \in LayoutNames \cup OrnamentNames BY <1>4, LayoutCallsBegin
    <2>2. widget \notin QuietNames BY <2>1, Disjoint DEF RestNames
    <2> QED BY <2>2, OthersHoldNothing DEF ContentInv, QuietNames
  <1>5. CASE TextInit \/ CanvasInit
    <2>1. widget \in TextNames \cup CanvasNames BY <1>5, TextBegins, CanvasBegins
    <2>2. widget \notin QuietNames BY <2>1, Disjoint DEF RestNames
    <2> QED BY <2>2, OthersHoldNothing DEF ContentInv, QuietNames
  <1>6. CASE RetroInit \/ CopyInit \/ WaitInit \/ HoneycombInit \/ SiteInit \/ TreeInit
             \/ NoPage
    <2>1. widget \notin {"message", "render", "code"}
      BY <1>6, Zenon DEF RetroInit, CopyInit, WaitInit, HoneycombInit, SiteInit, TreeInit,
                         NoPage
    <2> QED BY <2>1, OthersHoldNothing DEF ContentInv
  <1> QED
    BY <1>1, <1>2, <1>3, <1>4, <1>5, <1>6, Zenon DEF PageInit, ChromeInit, ScriptInit

\* The steps of the parts that register nothing.
LEMMA QuietContentKept == ASSUME ContentInv, QuietNext PROVE ContentInv'
  <1>1. UNCHANGED widget BY QuietKept
  <1>2. CASE CodeLine
    <2>1. widget = "code" BY <1>2, Zenon DEF CodeLine, On
    <2> QED BY <1>1, <1>2, <2>1, CodeKept, OthersHoldNothingNext DEF ContentInv
  <1>3. CASE MessageNext
    <2>1. widget = "message" BY <1>3, Zenon DEF MessageNext, finalMessage, On
    <2> QED BY <1>1, <1>3, <2>1, MessageKept, OthersHoldNothingNext DEF ContentInv
  <1>4. CASE RenderNext
    <2>1. widget = "render"
      BY <1>4, Zenon DEF RenderNext, RenderExit, RenderStart, RenderThrows, RenderCombined,
                         RenderBlock, On
    <2> QED BY <1>1, <1>4, <2>1, RenderKept, OthersHoldNothingNext DEF ContentInv
  <1>5. ASSUME ~CodeLine, ~MessageNext, ~RenderNext
        PROVE  widget \notin {"message", "render", "code"}
    BY <1>5, Zenon
       DEF QuietNext, RenderNext, HoneycombProps, HeaderLink, SidebarLink, History,
           SheetOpenChange, PagerLink, DocsMobileNav, Folder, File, CollapseButton, TreeProps,
           On
  <1> QED BY <1>1, <1>2, <1>3, <1>4, <1>5, OthersHoldNothingNext DEF ContentInv

\* Every step of a component or script keeps them.
LEMMA ContentKept == ASSUME PageInv, ContentInv, PageNext PROVE ContentInv'
  <1>1. CASE Unmount
    <2>1. UNCHANGED widget /\ widget \notin {"message", "render"}
      BY <1>1, Zenon DEF Unmount, Becomes, Scripts
    <2>2. ui' = [ui EXCEPT !.mounted = FALSE] BY <1>1, Zenon DEF Unmount, Becomes
    <2>3. ASSUME widget = "code" PROVE CodeInv'
      <3>1. /\ DOMAIN ui = {"mounted", "language", "line"}
            /\ ui.language \in Languages /\ ui.line \in Seq(Alphabet(ui.language))
        BY <2>3, Zenon DEF ContentInv, CodeInv
      <3>2. DOMAIN ui' = DOMAIN ui /\ ui'.language = ui.language /\ ui'.line = ui.line
        BY <2>2, <3>1
      <3> QED BY <3>1, <3>2, Zenon DEF CodeInv
    <2> QED BY <2>1, <2>3, OthersHoldNothingNext DEF ContentInv
  <1>2. CASE TextNext \/ CanvasNext \/ RetroNext \/ LayoutNext \/ OrnamentsNext
             \/ CopyNext \/ WaitNext
    <2>1. widget \notin QuietNames BY <1>2, BusyNext DEF PageInv
    <2>2. UNCHANGED widget BY <1>2, CallsKept DEF PageInv
    <2> QED BY <2>1, <2>2, OthersHoldNothingNext DEF ContentInv, QuietNames
  <1>3. CASE QuietNext BY <1>3, QuietContentKept
  <1>4. ChromeNext => QuietNext \/ CopyNext BY Zenon DEF ChromeNext, QuietNext
  <1>5. ScriptNext => QuietNext \/ WaitNext BY Zenon DEF ScriptNext, QuietNext, WaitNext
  <1>6. HoneycombProps \/ CodeLine \/ MessageNext => QuietNext BY Zenon DEF QuietNext
  <1> QED BY <1>1, <1>2, <1>3, <1>4, <1>5, <1>6 DEF PageNext

\* They hold in every state of every behaviour.
LEMMA ContentAlways == Spec => []ContentInv
  <1>1. Init => ContentInv BY PageBegins, ContentBegins DEF Init
  <1>2. ASSUME PageInv, ContentInv, [Next]_<<page, vars>> PROVE ContentInv'
    <2>1. PageNext \/ UNCHANGED page BY <1>2, Zenon DEF Next
    <2>2. CASE UNCHANGED page
      BY <1>2, <2>2, Zenon DEF page, ContentInv, MessageInv, RenderInv, CodeInv
    <2> QED BY <1>2, <2>1, <2>2, ContentKept
  <1> QED BY <1>1, <1>2, PageAlways, PTL DEF Spec

-----------------------------------------------------------------------------
(* The theorems.                                                           *)

\* Whatever a component has done and whenever it is unmounted, its cleanups leave
\* no timer, frame, observer or listener behind but the timers of a copy button,
\* and nothing else can still call back but the onload of images.
THEOREM CleanupsComplete == Spec => []NothingAfterUnmount
  <1>1. ASSUME PageInv, ~ui.mounted, widget = "copy" PROVE NothingAfterUnmount
    BY <1>1, CopyRegisters DEF PageInv, NothingAfterUnmount, CallsLeft
  <1>2. ASSUME PageInv, ~ui.mounted, widget # "copy" PROVE NothingAfterUnmount
    <2>1. \A k \in Calls : pending[k] = 0
      BY <1>2, CallsRegister DEF PageInv, Nothing
    <2> QED BY <2>1 DEF NothingAfterUnmount, CallsLeft
  <1>3. PageInv => NothingAfterUnmount BY <1>1, <1>2 DEF NothingAfterUnmount
  <1> QED BY <1>3, PageAlways, PTL

\* No effect of a component other than the copy button registers a second
\* callback of a kind while the first is pending.
THEOREM EffectsDoNotPileUp == Spec => []RegisteredOnce
  <1>1. PageInv => RegisteredOnce BY CallsRegister DEF PageInv, RegisteredOnce
  <1> QED BY <1>1, PageAlways, PTL

\* The animated texts appear in their order, for all words and all sequences of
\* terminal lines; behind the band of DiaTextReveal the text has its own color.
THEOREM TextsAppearInOrder == Spec => []TextInOrder
  <1>1. PageInv => TextInOrder
    BY TextShowsInOrder, SweepInOrder DEF PageInv, CallsInv, TextInOrder
  <1> QED BY <1>1, PageAlways, PTL

\* An IconCloud without a pending frame has drawn every icon, for every set of
\* icons and every order of their loads, unless an image of replaced images came
\* late.
THEOREM CloudStopsComplete == Spec => []StoppedWhenDrawn
  <1>1. PageInv => StoppedWhenDrawn BY CallsHold DEF PageInv
  <1> QED BY <1>1, PageAlways, PTL

\* The loop of RetroGrid runs exactly when there is something to animate, through
\* lost and restored contexts, resizes and changes of theme.
THEOREM RetroRuns == Spec => []RetroLoop
  <1>1. PageInv => RetroLoop BY CallsHold DEF PageInv
  <1> QED BY <1>1, PageAlways, PTL

\* The WebGL objects of RetroGrid live exactly as long as its pipeline, unless the
\* context is lost.
THEOREM RetroReleases == Spec => []PipelineReleased
  <1>1. PageInv => PipelineReleased BY CallsHold DEF PageInv
  <1> QED BY <1>1, PageAlways, PTL

\* Once the reported resizes have been handled the beams, dots and squares fit
\* the page, for all layouts, sizes and numbers of squares.
THEOREM DrawingsFit == Spec => []DrawingFits
  <1>1. PageInv => DrawingFits BY DrawHolds DEF PageInv
  <1> QED BY <1>1, PageAlways, PTL

\* The arcs of the gauge fit the circle and grow with the value, for every range
\* and for values outside of it; the blur grows towards its side, and is the same
\* everywhere at both sides.
THEOREM OrnamentsAlwaysFit == Spec => []OrnamentsFit
  <1>1. PageInv => OrnamentsFit BY DrawHolds DEF PageInv
  <1> QED BY <1>1, PageAlways, PTL

\* However clicks, clipboard writes and timers interleave, a copy button that says
\* "Copied" has a timer that takes it back.
THEOREM CopiedGoesAway == Spec => []CopiedIsTakenBack
  <1>1. PageInv => CopiedIsTakenBack BY CallsHold DEF PageInv
  <1> QED BY <1>1, PageAlways, PTL

\* A wait is rejected only for want of events in time and resolved only with
\* enough of them, for every timeout and number of events.
THEOREM WaitsAreHonest == Spec => []WaitIsHonest
  <1>1. PageInv => WaitIsHonest BY CallsHold DEF PageInv
  <1> QED BY <1>1, PageAlways, PTL

\* Whatever the helper answers, in however many lines, the commit has a subject,
\* and the fallback stands in exactly if there is no answer, or no field is filled
\* and the first line has nothing to take; the subject is empty only if the helper
\* filled a field whose first line has nothing.
THEOREM CommitsHaveSubjects == Spec => []CommitHasSubject
  <1>1. ContentInv => CommitHasSubject BY MessageHolds DEF ContentInv
  <1> QED BY <1>1, ContentAlways, PTL

\* When the diagrams of a document are rendered one by one each is reported, and
\* each one that dot accepted is in the file of its name unless a later one of that
\* name is, for documents of every length and every choice of rejected diagrams;
\* a file that cannot be written costs at most the one of its name.
THEOREM ReportedDiagramsKept == Spec => []DiagramsKept
  <1>1. ContentInv => DiagramsKept BY RenderHolds DEF ContentInv
  <1> QED BY <1>1, ContentAlways, PTL

\* In every language the tokens that the highlighter shows are the line, in shell
\* but for white space, for lines of every length.
THEOREM HighlightedLineIsTheLine == Spec => []TokensAreTheLine
  <1>1. ContentInv => TokensAreTheLine BY CodeHolds DEF ContentInv
  <1> QED BY <1>1, ContentAlways, PTL

\* No comment starts inside what the patterns take for a string in quotes, in
\* YAML, shell and JSON without the characters that only the patterns or only the
\* scan for a comment knows, for lines of every length.
THEOREM QuotedHashNoComment == Spec => []QuotedHashIsCode
  <1>1. ContentInv => QuotedHashIsCode BY CodeHolds DEF ContentInv
  <1> QED BY <1>1, ContentAlways, PTL

-----------------------------------------------------------------------------
(* The plugin.                                                             *)

\* Beside the components the plugin behaves as it is specified alone.
LEMMA PluginUndisturbed == Spec => AutoCommitSpec
  <1>1. Init => AutoCommitInit BY DEF Init
  <1>2. [Next]_<<page, vars>> => [AutoCommitNext]_vars BY Zenon DEF Next
  <1> QED BY <1>1, <1>2, PTL DEF Spec, AutoCommitSpec, Fairness

\* Two commit flows never run at the same time, and busy says whether one does,
\* whatever the number of calls of the event hook.
THEOREM FlowsNeverOverlap == Spec => []OneFlow
  BY PluginUndisturbed, FlowsExclude, PTL

\* The idle event of a helper never starts a commit flow, whatever the number of
\* calls of the event hook.
THEOREM HelpersStartNoFlow == Spec => []HelperStartsNoFlow
  BY PluginUndisturbed, PluginIgnoresHelpers, PTL
=============================================================================
