------------------------------ MODULE RetroGrid ------------------------------
(***************************************************************************)
(* RetroGrid draws with WebGL: it makes a pipeline (a program and a        *)
(* buffer), animates while it can be seen, falls back to a style sheet     *)
(* while it has no pipeline, and makes the pipeline again when the         *)
(* context was lost and restored.                                          *)
(***************************************************************************)
EXTENDS Page

\* gl: the context is kept.  pipeline: positionBuffer and programInfo are set.
\* frameId: animationFrameId # null.  alive: programs and buffers of the
\* context that are not deleted.  size is zero or not.  theme is the class of
\* the document, scheme whether the system prefers dark, canvas2d whether there
\* is a context to resolve a colour with.  reduced and lost are the preference
\* and the context as they are; told and isContextLost what the component has
\* last been told of them; heard says that the event of the loss was
\* delivered, and the default, to keep the context lost, prevented.
RetroStart ==
    [mounted |-> TRUE, gl |-> FALSE, pipeline |-> FALSE, alive |-> 0,
     frameId |-> FALSE, isVisible |-> TRUE, lost |-> FALSE,
     isContextLost |-> FALSE, heard |-> FALSE, size |-> 1, reduced |-> FALSE, told |-> FALSE,
     theme |-> "none", scheme |-> FALSE, canvas2d |-> TRUE,
     colour |-> "light", isWebGlReady |-> FALSE, shaders |-> 0]

isDarkMode(state) ==
    state.theme = "dark" \/ (state.theme # "light" /\ state.scheme)

\* Without a context every colour becomes the same gray.
resolveLineColor(state, color) == IF state.canvas2d THEN color ELSE "gray"

updateLineColor(state) ==
    [state EXCEPT !.colour =
       resolveLineColor(state, IF isDarkMode(state) THEN "dark" ELSE "light")]

MaxShaders == 1

\* Where initializePipeline may stop: no context, one shader of the two, no
\* program, no locations or no buffer, or at its end.  A lost context gives
\* no objects.
Attempts(state) ==
    IF state.lost THEN {"context", "program"}
    ELSE {"context", "program", "locations", "made"}
         \cup (IF state.shaders < MaxShaders THEN {"shader"} ELSE {})

\* Mutant: the objects are forgotten, not deleted.
releasePipelineForgets(state, shouldDeleteResources) ==
    [state EXCEPT !.pipeline = FALSE,
                  !.gl = IF shouldDeleteResources THEN FALSE ELSE @]

releasePipeline(state, shouldDeleteResources) ==
    [state EXCEPT
       !.alive = IF shouldDeleteResources /\ state.gl /\ state.pipeline
                    /\ ~state.lost
                 THEN @ - 2 ELSE @,
       !.pipeline = FALSE,
       !.gl = IF shouldDeleteResources THEN FALSE ELSE @]

\* A program made before a later step fails is deleted again; a shader is not
\* when only the other one fails.
initializePipeline(state, attempt) ==
    IF attempt = "context" THEN releasePipeline(state, FALSE)
    ELSE LET clean == [releasePipeline([state EXCEPT !.gl = TRUE], TRUE)
                         EXCEPT !.gl = TRUE]
         IN CASE attempt = "shader" -> [clean EXCEPT !.shaders = @ + 1]
              [] attempt = "made" ->
                    [clean EXCEPT !.pipeline = TRUE, !.alive = @ + 2]
              [] OTHER -> clean

\* stopAnimation cancels the frame whose handle is kept.
stopAnimation(state, calls) ==
    Becomes([state EXCEPT !.frameId = FALSE],
            IF state.frameId THEN Cancel(calls, {"frame"}) ELSE calls)

\* syncScene once there is a pipeline.
showScene(state, calls) ==
    IF state.size = 0 THEN stopAnimation(state, calls)
    ELSE LET shown == [updateLineColor(state) EXCEPT !.isWebGlReady = TRUE]
         IN IF state.reduced \/ ~state.isVisible
            THEN stopAnimation(shown, calls)
            ELSE Becomes([shown EXCEPT !.frameId = TRUE],
                         RegisterIf(~state.frameId, calls, {"frame"}))

\* Mutant: a pipeline that cannot be made leaves the canvas on show.
syncSceneStaysReady(state, calls) ==
    IF state.isContextLost
    THEN stopAnimation([state EXCEPT !.isWebGlReady = FALSE], calls)
    ELSE IF state.gl /\ state.pipeline THEN showScene(state, calls)
    ELSE \E attempt \in Attempts(state) :
            LET made == initializePipeline(state, attempt)
            IN IF made.pipeline THEN showScene(made, calls)
               ELSE Becomes(made, calls)

\* What is rendered.
Shown(state) == IF state.isWebGlReady THEN "canvas" ELSE "fallback"

\* What every observer, listener and prop change calls.
syncScene(state, calls) ==
    IF state.isContextLost
    THEN stopAnimation([state EXCEPT !.isWebGlReady = FALSE], calls)
    ELSE IF state.gl /\ state.pipeline THEN showScene(state, calls)
    ELSE \E attempt \in Attempts(state) :
            LET made == initializePipeline(state, attempt)
            IN IF made.pipeline THEN showScene(made, calls)
               ELSE stopAnimation([made EXCEPT !.isWebGlReady = FALSE], calls)

\* Before the effect: the theme, the preference and the size are as they are.
RetroInit ==
    /\ widget = "retro" /\ pending = Nothing
    /\ \E s \in 0 .. 1, r \in BOOLEAN, c \in BOOLEAN :
          ui = [RetroStart EXCEPT !.size = s, !.reduced = r, !.canvas2d = c,
                                  !.mounted = FALSE]

\* The effect after the mount, its variables new; it registers its observers
\* and listeners.  In strict mode React also unmounts and mounts it again on
\* the same canvas, whose context may have been lost meanwhile.
RetroMount ==
    /\ widget = "retro" /\ ~ui.mounted
    /\ syncScene([RetroStart EXCEPT !.size = ui.size, !.theme = ui.theme,
                     !.scheme = ui.scheme, !.canvas2d = ui.canvas2d,
                     !.colour = resolveLineColor(ui, "light"),
                     !.reduced = ui.reduced, !.told = ui.reduced,
                     !.lost = ui.lost, !.heard = ui.heard,
                     !.alive = ui.alive, !.shaders = ui.shaders,
                     !.isWebGlReady = ui.isWebGlReady],
                 Register(pending, {"resize", "view", "pointer"}))

\* The container or the window is resized.
RetroResize(s) ==
    On("retro") /\ syncScene([ui EXCEPT !.size = s], pending)

\* Another angle, cell size or colour.
RetroProps == On("retro") /\ syncScene(ui, pending)

\* The class of the document changes, or the scheme of the system.
RetroTheme(theme) == On("retro") /\ syncScene([ui EXCEPT !.theme = theme], pending)

handleColorSchemeChange ==
    On("retro") /\ syncScene([ui EXCEPT !.scheme = ~@], pending)

\* The preference changes; its listener is called after that.
RetroReduced ==
    /\ On("retro") /\ ui.told = ui.reduced
    /\ Becomes([ui EXCEPT !.reduced = ~@], pending)

handleMotionChange ==
    /\ On("retro") /\ ui.told # ui.reduced
    /\ syncScene([ui EXCEPT !.told = ui.reduced], pending)

RetroView(seen) ==
    /\ On("retro")
    /\ LET new == [ui EXCEPT !.isVisible = seen] IN
       IF seen THEN syncScene(new, pending) ELSE stopAnimation(new, pending)

\* The context is lost with all that it holds; its event follows.
RetroContextLost ==
    /\ On("retro") /\ ~ui.lost /\ ui.gl /\ ~ui.isContextLost
    /\ Becomes([ui EXCEPT !.lost = TRUE, !.heard = FALSE, !.alive = 0, !.shaders = 0], pending)

handleContextLost ==
    /\ On("retro") /\ ui.lost /\ ~ui.heard
    /\ stopAnimation(releasePipeline([ui EXCEPT !.isContextLost = TRUE, !.heard = TRUE,
                                                !.isWebGlReady = FALSE], FALSE),
                     pending)

\* The context is restored and the event delivered.
handleContextRestored ==
    /\ On("retro") /\ ui.lost /\ ui.heard
    /\ syncScene([ui EXCEPT !.lost = FALSE, !.heard = FALSE,
                             !.isContextLost = FALSE], pending)

frame ==
    /\ On("retro") /\ Fires("frame")
    /\ LET again == ~ui.reduced /\ ui.isVisible IN
       Becomes([ui EXCEPT !.frameId = again],
               RegisterIf(again, Cancel(pending, {"frame"}), {"frame"}))

\* The cleanup of the effect.
RetroUnmount ==
    /\ On("retro")
    /\ stopAnimation([releasePipeline(ui, ~ui.isContextLost)
                        EXCEPT !.mounted = FALSE],
                     Cancel(pending, {"resize", "view", "pointer"}))

RetroNext ==
    \/ RetroMount \/ RetroProps \/ handleColorSchemeChange
    \/ \E theme \in {"none", "light", "dark"} : RetroTheme(theme)
    \/ RetroReduced \/ handleMotionChange
    \/ \E s \in 0 .. 1 : RetroResize(s)
    \/ \E seen \in BOOLEAN : RetroView(seen)
    \/ RetroContextLost \/ handleContextLost \/ handleContextRestored
    \/ frame \/ RetroUnmount

\* The canvas takes the place of the style sheet grid only while there is a
\* pipeline to draw it, and exactly one frame is requested whenever the grid is
\* on show, in view, not empty and free to move; it draws in the colour of the
\* theme, or in gray.
RetroLoop ==
    On("retro") =>
      /\ Shown(ui) = "canvas" => ui.gl /\ ui.pipeline /\ ~ui.isContextLost
      /\ pending["frame"] = IF ui.frameId THEN 1 ELSE 0
      /\ ui.frameId => ui.pipeline /\ ui.isVisible /\ ui.size # 0
                       /\ ui.colour \in {"gray"} \cup
                             (IF ui.theme = "dark" THEN {"dark"}
                              ELSE IF ui.theme = "light" THEN {"light"}
                              ELSE IF ui.scheme THEN {"dark"} ELSE {"light"})
      /\ ui.pipeline /\ ui.isVisible /\ ui.size # 0 /\ ~ui.frameId
            => ui.reduced \/ ui.told

\* Every program and buffer is deleted, or lost with its context: those alive
\* are the ones of the current pipeline.
PipelineReleased ==
    widget = "retro" /\ ~ui.lost => ui.alive = IF ui.pipeline THEN 2 ELSE 0
=============================================================================
