------------------------------- MODULE Website -------------------------------
(***************************************************************************)
(* The programs of the repository that run beside the operator: the        *)
(* components of the website, the scripts of the agent skills and the      *)
(* auto-commit plugin.  They share no state, so a behaviour runs one of     *)
(* them: a component or script on the page, or the plugin.                 *)
(***************************************************************************)
EXTENDS TextWidgets, CanvasWidgets, RetroGrid, LayoutWidgets, Ornaments,
        Honeycomb, SiteChrome, Highlight, SkillScripts, CommitMessage, AutoCommit

page == <<widget, ui, pending>>

Text == {"typing", "terminal", "list", "rotate", "ticker", "dia", "sparkles",
         "reveal"}

Canvas == {"particles", "flicker", "cloud"}

Scripts == {"none", "wait", "render", "message"}

\* React unmounts a component and calls the cleanups of its effects.
Unmount ==
    /\ widget \notin Scripts \cup {"retro"} /\ ui.mounted
    /\ Becomes([ui EXCEPT !.mounted = FALSE],
               CASE widget \in Text -> TextCleanup
                 [] widget \in Canvas -> CanvasCleanup
                 [] OTHER -> LayoutCleanup)

\* No component: the plugin runs.
NoPage == widget = "none" /\ ui = [mounted |-> FALSE] /\ pending = Nothing

PageInit ==
    TextInit \/ CanvasInit \/ RetroInit \/ LayoutInit \/ OrnamentsInit
    \/ HoneycombInit \/ ChromeInit \/ CodeInit \/ ScriptInit
    \/ MessageInit

PageNext ==
    TextNext \/ CanvasNext \/ RetroNext \/ LayoutNext \/ OrnamentsNext
    \/ HoneycombProps \/ ChromeNext \/ CodeLine \/ ScriptNext
    \/ MessageNext \/ Unmount

Init == (PageInit \/ NoPage) /\ AutoCommitInit

Next == \/ PageNext /\ UNCHANGED vars
        \/ widget = "none" /\ AutoCommitNext /\ UNCHANGED page

\* Timers, intervals, animations and the effects after a render are not held
\* up for ever; neither is the clock, nor the plugin.
Fairness ==
    /\ WF_page(TextTick)
    /\ WF_page(WaitCheck) /\ WF_page(WaitClock)
    /\ AutoCommitFairness

Spec == Init /\ [][Next]_<<page, vars>> /\ Fairness

-----------------------------------------------------------------------------
(* Properties of every component.                                          *)

\* What may still call back: the kinds of registrations, and the handlers of
\* the images of an IconCloud on their way.
CallsLeft ==
    {k \in Calls : pending[k] > 0}
      \cup {k \in {"onload"} : widget = "cloud" /\ ui.loads # {}}

\* A component that is gone has no frame, timer, observer or listener left:
\* every cleanup cancels what its effect has registered, in whatever state it
\* is called, and nothing that still comes registers more.  What has no cleanup
\* is the exception: the timers of a copy button and the onload of the images
\* of an IconCloud.
NothingAfterUnmount ==
    ~ui.mounted =>
      CallsLeft \subseteq {k \in {"timer"} : widget = "copy"}
                           \cup {k \in {"onload"} : widget = "cloud"}

\* An effect that runs again does not add to what it has registered: there is
\* at most one frame, timer, observer and listener of a kind.  Only the timers
\* of a copy button may be several; the onload handlers of images are not
\* counted, each image has its own.
RegisteredOnce ==
    widget # "copy" => \A k \in Calls : pending[k] <= 1
=============================================================================
