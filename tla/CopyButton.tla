----------------------------- MODULE CopyButton -----------------------------
(***************************************************************************)
(* The button that copies a code block.  writes are the clipboard promises *)
(* under way.                                                              *)
(***************************************************************************)
EXTENDS Page

CONSTANT MaxWrites    \* clicks whose write or timer is under way

CopyInit ==
    /\ widget = "copy" /\ pending = Nothing
    /\ ui = [mounted |-> TRUE, copied |-> FALSE, writes |-> 0]

\* The button is clicked; clicks wait for the clipboard independently.
CopyClick ==
    /\ On("copy") /\ ui.writes + pending["timer"] < MaxWrites
    /\ Becomes([ui EXCEPT !.writes = @ + 1], pending)

\* The promise is settled; what follows the await also runs when the button
\* is gone, where setting its state has no effect.  Mutant: without a timer.
CopySettledForGood(written) ==
    /\ widget = "copy" /\ ui.writes > 0
    /\ Becomes([ui EXCEPT !.writes = @ - 1, !.copied = written /\ ui.mounted],
               pending)

CopySettled(written) ==
    /\ widget = "copy" /\ ui.writes > 0
    /\ Becomes([ui EXCEPT !.writes = @ - 1, !.copied = written /\ ui.mounted],
               RegisterIf(written, pending, {"timer"}))

\* No timer is ever cancelled.
CopyTimer ==
    /\ widget = "copy" /\ Fires("timer")
    /\ Becomes([ui EXCEPT !.copied = FALSE], Cancel(pending, {"timer"}))

CopyNext == CopyClick \/ CopyTimer \/ \E written \in BOOLEAN : CopySettled(written)

-----------------------------------------------------------------------------
\* The button says "Copied" only while a timer will take it back, however the
\* clicks, the clipboard and earlier timers interleave.
CopiedIsTakenBack == widget = "copy" /\ ui.copied => pending["timer"] > 0
=============================================================================
