----------------------------- MODULE AutoCommit -----------------------------
(***************************************************************************)
(* The auto-commit plugin: when a session becomes idle it stages what has   *)
(* changed, lets a helper session write a message, and commits.            *)
(*                                                                         *)
(* An event is handled by a call of the event hook; calls run concurrently *)
(* and change places at every await.  The helper session, the generator    *)
(* that talks to it and the timeout it races against go on when the call   *)
(* that started them does not wait for them any longer.                    *)
(***************************************************************************)
EXTENDS Naturals, FiniteSets

CONSTANT Call       \* the calls of the event hook

ASSUME CallAssumption == "user" \notin Call

VARIABLES
    busy,               \* the module variable of this name
    internalSessions,   \* the helpers known by it, each named by its call
    pc,                 \* pc[c]: the await that call c is at
    session,            \* session[c]: the session whose event c handles
    generator,          \* generator[c]: the await generateCommitMessage is at
    idle,               \* helpers that have become idle without a call yet
    tree                \* the work tree: changed files and staged files

vars == <<busy, internalSessions, pc, session, generator, idle, tree>>

\* "user" is any session that is not a helper of the plugin.
Sessions == Call \cup {"user"}

\* The awaits between the claim of busy and its release.
Flow == {"rev-parse", "add", "list", "diff", "race", "commit", "log"}

Generator == {"none", "create", "prompt", "delete", "over"}

TypeOK ==
    /\ busy \in BOOLEAN
    /\ internalSessions \subseteq Call
    /\ pc \in [Call -> {"off", "received", "done"} \cup Flow]
    /\ session \in [Call -> Sessions]
    /\ generator \in [Call -> Generator]
    /\ idle \subseteq Call
    /\ tree \in [changed : BOOLEAN, staged : BOOLEAN]

AutoCommitInit ==
    /\ busy = FALSE
    /\ internalSessions = {}
    /\ pc = [c \in Call |-> "off"]
    /\ session = [c \in Call |-> "user"]
    /\ generator = [c \in Call |-> "none"]
    /\ idle = {}
    /\ tree = [changed |-> TRUE, staged |-> FALSE]

Moves(c, place) == pc' = [pc EXCEPT ![c] = place]

\* session.idle of a user's session, or of a helper.
SessionIdle(c, s) ==
    /\ pc[c] = "off"
    /\ s \in {"user"} \cup idle
    /\ idle' = idle \ {s}
    /\ session' = [session EXCEPT ![c] = s]
    /\ Moves(c, "received")
    /\ UNCHANGED <<busy, internalSessions, generator, tree>>

\* After the log entry; the decision has no await in it.  Mutant: a skipped
\* call also goes through finally.
DecideReleasing(c) ==
    /\ pc[c] = "received"
    /\ IF session[c] \in internalSessions
       THEN /\ internalSessions' = internalSessions \ {session[c]}
            /\ Moves(c, "done") /\ UNCHANGED busy
       ELSE /\ UNCHANGED internalSessions
            /\ Moves(c, IF busy THEN "done" ELSE "rev-parse")
            /\ busy' = ~busy
    /\ UNCHANGED <<session, generator, idle, tree>>

Decide(c) ==
    /\ pc[c] = "received"
    /\ IF session[c] \in internalSessions
       THEN /\ internalSessions' = internalSessions \ {session[c]}
            /\ Moves(c, "done") /\ UNCHANGED busy
       ELSE /\ UNCHANGED internalSessions
            /\ Moves(c, IF busy THEN "done" ELSE "rev-parse")
            /\ busy' = TRUE
    /\ UNCHANGED <<session, generator, idle, tree>>

\* finally.  Mutant: forgotten.
FinishBusy(c) == Moves(c, "done") /\ UNCHANGED busy

Finish(c) == Moves(c, "done") /\ busy' = FALSE

\* rev-parse, add -u and diff --name-only return.  Outside a work tree, and
\* without staged files, the flow logs that it skips.  A command that fails is
\* no error: add then stages nothing, and the other two print nothing.
GitReturns(c) ==
    /\ \/ pc[c] = "rev-parse" /\ Moves(c, "log") /\ UNCHANGED tree
       \/ pc[c] = "rev-parse" /\ Moves(c, "add") /\ UNCHANGED tree
       \/ /\ pc[c] = "add" /\ Moves(c, "list")
          /\ tree' = [changed |-> FALSE, staged |-> tree.changed \/ tree.staged]
       \/ pc[c] = "add" /\ Moves(c, "list") /\ UNCHANGED tree
       \/ pc[c] = "list" /\ Moves(c, "log") /\ UNCHANGED tree
       \/ pc[c] = "list" /\ tree.staged /\ Moves(c, "diff") /\ UNCHANGED tree
    /\ UNCHANGED <<busy, internalSessions, session, generator, idle>>

\* The diff and its statistics are there: the race starts.
StartRace(c) ==
    /\ pc[c] = "diff"
    /\ Moves(c, "race")
    /\ generator' = [generator EXCEPT ![c] = "create"]
    /\ UNCHANGED <<busy, internalSessions, session, idle, tree>>

\* The race is decided: by the generator, with a message or an error, or by
\* the timeout.  With or without a message there is a commit to make.
RaceDecided(c) ==
    /\ pc[c] = "race"
    /\ Moves(c, "commit")
    /\ UNCHANGED <<busy, internalSessions, session, generator, idle, tree>>

Timeout(c) == generator[c] # "over" /\ RaceDecided(c)

Generated(c) == generator[c] = "over" /\ RaceDecided(c)

\* git commit succeeds or fails.
Commit(c) ==
    /\ pc[c] = "commit"
    /\ Moves(c, "log")
    /\ \/ tree' = [tree EXCEPT !.staged = FALSE]
       \/ UNCHANGED tree
    /\ UNCHANGED <<busy, internalSessions, session, generator, idle>>

\* The last log entry is written, finally follows.
FlowEnds(c) ==
    /\ pc[c] = "log"
    /\ Finish(c)
    /\ UNCHANGED <<internalSessions, session, generator, idle, tree>>

\* A command throws outside the inner try: the error is logged.
FlowFails(c) ==
    /\ pc[c] \in Flow \ {"race", "log"}
    /\ Moves(c, "log")
    /\ UNCHANGED <<busy, internalSessions, session, generator, idle, tree>>

\* generateCommitMessage.  The helper is created, or is not; it is prompted
\* and, once it has answered or failed, becomes idle, unless the prompt never
\* got to it; it is deleted whether that works or not.  It may also never
\* answer.
HelperCreated(c) ==
    /\ generator[c] = "create"
    /\ \/ /\ generator' = [generator EXCEPT ![c] = "prompt"]
          /\ internalSessions' = internalSessions \cup {c}
       \/ /\ generator' = [generator EXCEPT ![c] = "over"]
          /\ UNCHANGED internalSessions
    /\ UNCHANGED <<busy, pc, session, idle, tree>>

HelperAnswers(c) ==
    /\ generator[c] = "prompt"
    /\ generator' = [generator EXCEPT ![c] = "delete"]
    /\ idle' = idle \cup {c} \/ idle' = idle
    /\ UNCHANGED <<busy, internalSessions, pc, session, tree>>

\* Mutant: the helper is forgotten when it is deleted.
HelperForgotten(c) ==
    /\ generator[c] = "delete"
    /\ generator' = [generator EXCEPT ![c] = "over"]
    /\ internalSessions' = internalSessions \ {c}
    /\ UNCHANGED <<busy, pc, session, idle, tree>>

HelperDeleted(c) ==
    /\ generator[c] = "delete"
    /\ generator' = [generator EXCEPT ![c] = "over"]
    /\ UNCHANGED <<busy, internalSessions, pc, session, idle, tree>>

\* A session goes on working.
Work ==
    /\ ~tree.changed
    /\ tree' = [tree EXCEPT !.changed = TRUE]
    /\ UNCHANGED <<busy, internalSessions, pc, session, generator, idle>>

FlowStep(c) ==
    \/ Decide(c) \/ GitReturns(c) \/ StartRace(c) \/ Timeout(c) \/ Generated(c)
    \/ Commit(c) \/ FlowEnds(c)

AutoCommitNext ==
    \/ \E c \in Call :
          \/ \E s \in Sessions : SessionIdle(c, s)
          \/ FlowStep(c) \/ FlowFails(c)
          \/ HelperCreated(c) \/ HelperAnswers(c) \/ HelperDeleted(c)
    \/ Work

\* Timers fire and commands return; that a helper answers is not assumed.
AutoCommitFairness == \A c \in Call : WF_vars(FlowStep(c))

AutoCommitSpec == AutoCommitInit /\ [][AutoCommitNext]_vars /\ AutoCommitFairness

-----------------------------------------------------------------------------
(* Properties.                                                             *)

InFlow(c) == pc[c] \in Flow

\* Two commit flows never run at the same time, and busy says whether one
\* does: the check and the claim of busy are not separated by an await, and
\* only the call that claimed it releases it.
OneFlow ==
    /\ \A c, d \in Call : InFlow(c) /\ InFlow(d) => c = d
    /\ busy <=> \E c \in Call : InFlow(c)

\* The idle event of a helper never starts a commit flow, be it delivered
\* before or after the helper is deleted, and however late: the plugin does
\* not run on its own work.
HelperStartsNoFlow == \A c \in Call : InFlow(c) => session[c] = "user"

\* A flow ends, also when the helper never answers: the timeout decides the
\* race, and finally releases busy for the next idle session.
BusyIsReleased == busy ~> ~busy
=============================================================================
