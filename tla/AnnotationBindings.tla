------------------------ MODULE AnnotationBindings ------------------------
(***************************************************************************)
(* The temporary Hyprland bindings of an annotated recording               *)
(* (rust/mluva-gtk/src/screen_annotation/session.rs and hyprland.rs, with  *)
(* the ownership of application/annotations.rs).                           *)
(*                                                                         *)
(* A binding swallows a click of the person for as long as it exists, so   *)
(* what matters is who is left to remove it.  The session adds the two     *)
(* bindings under its own token by a hyprctl process of its own; Stop, a   *)
(* failed addition, the setting and the start of Mluva remove them by      *)
(* other hyprctl processes, and a watchdog process removes them when its   *)
(* pipe closes.  None of these processes waits for another.                *)
(*                                                                         *)
(* The recordings are 1 .. N and name their tokens; token 0 stands for     *)
(* every token.  Hyprland itself stays up.                                 *)
(***************************************************************************)
EXTENDS Naturals, FiniteSets

CONSTANTS
    N,             \* recordings
    Interrupt,     \* whether a recording may end before its bindings are confirmed
    MaxToggles,    \* changes of the setting
    MaxRestarts,   \* restarts of the portal session for another setting
    MaxExits,      \* ends of the program
    MaxFaults      \* hyprctl calls that fail

ASSUME ConstantsAssumption ==
    /\ N \in Nat \ {0}
    /\ Interrupt \in BOOLEAN
    /\ {MaxToggles, MaxRestarts, MaxExits, MaxFaults} \subseteq Nat

Recordings == 1 .. N

VARIABLES
    up,        \* "up", "closing" or "down": the Mluva process
    enabled,   \* the saved setting
    portal,    \* this run's portal session registered the ink and pin actions
    rec,       \* recordings begun so far
    going,     \* the recording under way, 0 without one
    slot,      \* the recording whose session the application holds, 0 without one
    kept,      \* recordings whose session is held by their unfinished summary
    stage,     \* how far the activation of each session is
    closed,    \* sessions that were stopped
    binding,   \* sessions whose bindings Stop still has to remove
    bound,     \* tokens whose bindings Hyprland holds
    cmds,      \* hyprctl processes under way: <<what, token>>
    dog,       \* the watchdog process of each session
    dirs,      \* sessions whose directory of raw frames exists
    spent      \* how much of each bound is used

process == <<up, enabled, portal>>
recording == <<rec, going, slot, kept>>
session == <<stage, closed, binding>>
desktop == <<bound, cmds, dog, dirs>>
vars == <<process, recording, session, desktop, spent>>

Stages == {"none", "dog", "outputs", "asking", "adding", "checking", "undoing",
           "ready", "over", "dropped", "dead"}
Commands == ({"add", "remove", "clean"} \X Recordings) \cup {<<"all", 0>>}

Activating(s) == stage[s] \in {"dog", "outputs", "asking", "adding", "checking", "undoing"}
Spend(what) == spent' = [spent EXCEPT ![what] = @ + 1]
Fault == spent.faults < MaxFaults /\ Spend("faults")

Init ==
    /\ up = "up" /\ enabled = TRUE /\ portal = FALSE
    /\ rec = 0 /\ going = 0 /\ slot = 0 /\ kept = {}
    /\ stage = [s \in Recordings |-> "none"] /\ closed = {} /\ binding = {}
    /\ bound = {} /\ cmds = {} /\ dog = [s \in Recordings |-> "none"] /\ dirs = {}
    /\ spent = [toggles |-> 0, restarts |-> 0, exits |-> 0, faults |-> 0]

---------------------------------------------------------------------------
(* What Hyprland does.                                                     *)

\* `add_script` first removes what any session left and then stores its own table.
AddScript(s) == {s}

\* `remove_script` knows only its own token.
RemoveScript(s) == bound \ {s}

Effect(c) ==
    CASE c[1] = "add" -> AddScript(c[2])
      [] c[1] = "all" -> {}
      [] OTHER -> RemoveScript(c[2])

---------------------------------------------------------------------------
(* The session.                                                            *)

\* A bug: only the watchdog removes the bindings.
RemovalForgotten(s) == {}

\* What a stopped session S leaves for hyprctl: its removal, unless it never sent its bindings.
Removal(s) == IF s \in binding \ closed THEN {<<"remove", s>>} ELSE {}

\* `stop` of the sessions in S, while the hyprctl processes in more start as well.
Stop(S, more) ==
    /\ closed' = closed \cup S
    /\ binding' = binding \ (S \ closed)
    /\ cmds' = cmds \cup (UNION {Removal(s) : s \in S}) \cup more

\* `activate` after a failed `install`: the session is stopped.
Fail(s) ==
    /\ stage' = [stage EXCEPT ![s] = "over"]
    /\ Stop({s}, {})

\* `start_watchdog`: nothing is sent to Hyprland before the watchdog reported itself ready.
WatchdogReady(s) ==
    /\ stage[s] = "dog"
    /\ stage' = [stage EXCEPT ![s] = "outputs"]
    /\ dog' = [dog EXCEPT ![s] = "waiting"]
    /\ UNCHANGED <<process, recording, closed, binding, bound, cmds, dirs, spent>>

WatchdogFails(s) ==
    /\ stage[s] = "dog"
    /\ Fault
    /\ Fail(s)
    /\ UNCHANGED <<process, recording, bound, dog, dirs>>

\* The outputs are known and the overlays mapped; the bindings in use are asked for.  From here
\* on Stop removes the bindings.
Install(s) ==
    /\ stage[s] = "outputs"
    /\ \/ /\ s \notin closed
          /\ stage' = [stage EXCEPT ![s] = "asking"]
          /\ binding' = binding \cup {s}
          /\ UNCHANGED <<closed, cmds>>
       \/ s \in closed /\ Fail(s)
    /\ UNCHANGED <<process, recording, bound, dog, dirs, spent>>

\* The answer of `binds`: the key is free and the bindings are sent, or it has a binding.
Asked(s) ==
    /\ stage[s] = "asking"
    /\ \/ /\ stage' = [stage EXCEPT ![s] = "adding"]
          /\ cmds' = cmds \cup {<<"add", s>>}
          /\ UNCHANGED <<closed, binding>>
       \/ Fail(s)
    /\ UNCHANGED <<process, recording, bound, dog, dirs, spent>>

\* `bind_with` removes what it sent whenever a later step fails.
Undo(s) ==
    /\ stage' = [stage EXCEPT ![s] = "undoing"]
    /\ cmds' = cmds \cup {<<"remove", s>>}

\* The second answer of `binds` is searched for Mluva's descriptions, of whichever token.
Checked(s) ==
    /\ stage[s] = "checking"
    /\ \/ /\ bound # {}
          /\ stage' = [stage EXCEPT ![s] = IF s \in closed THEN "over" ELSE "ready"]
          /\ UNCHANGED <<cmds, spent>>
       \/ bound = {} /\ Undo(s) /\ UNCHANGED spent
       \/ bound # {} /\ Fault /\ Undo(s)
    /\ UNCHANGED <<process, recording, closed, binding, bound, dog, dirs>>

Undone(s) ==
    /\ stage[s] = "undoing" /\ <<"remove", s>> \notin cmds
    /\ Fail(s)
    /\ UNCHANGED <<process, recording, bound, dog, dirs, spent>>

\* A bug: an activation that is under way does not hold its session.
DropEarly(s) ==
    /\ stage[s] \in {"adding", "checking", "ready", "over"} /\ slot # s /\ s \notin kept
    /\ stage' = [stage EXCEPT ![s] = "dropped"]
    /\ dirs' = dirs \ {s}
    /\ Stop({s}, {})
    /\ UNCHANGED <<process, recording, bound, dog, spent>>

\* Nobody holds the session any more: its frames go and the watchdog's pipe closes.
Drop(s) ==
    /\ stage[s] \in {"ready", "over"} /\ slot # s /\ s \notin kept
    /\ stage' = [stage EXCEPT ![s] = "dropped"]
    /\ dirs' = dirs \ {s}
    /\ Stop({s}, {})
    /\ UNCHANGED <<process, recording, bound, dog, spent>>

---------------------------------------------------------------------------
(* hyprctl and the watchdog.                                               *)

\* Who waits for a hyprctl process that ended, and whether it went well.
Answer(c, well) ==
    /\ stage' = IF c[1] = "add" /\ stage[c[2]] = "adding"
                THEN [stage EXCEPT ![c[2]] = IF well THEN "checking" ELSE "undoing"]
                ELSE stage
    /\ cmds' = (cmds \ {c}) \cup (IF c[1] = "add" /\ stage[c[2]] = "adding" /\ ~well
                                  THEN {<<"remove", c[2]>>} ELSE {})
    /\ dog' = IF c[1] = "clean" THEN [dog EXCEPT ![c[2]] = "gone"] ELSE dog
    /\ dirs' = IF c[1] = "clean" THEN dirs \ {c[2]} ELSE dirs

Lands(c) ==
    /\ c \in cmds
    /\ bound' = Effect(c)
    /\ Answer(c, TRUE)
    /\ UNCHANGED <<process, recording, closed, binding, spent>>

\* No answer in time: Hyprland may have applied the script all the same.
TimesOut(c) ==
    /\ c \in cmds
    /\ Fault
    /\ bound' \in {bound, Effect(c)}
    /\ Answer(c, FALSE)
    /\ UNCHANGED <<process, recording, closed, binding>>

\* `run_cleanup`: the end of its pipe tells the watchdog to clean up.
DogHears(s) ==
    /\ dog[s] = "waiting" /\ stage[s] \in {"dropped", "dead"}
    /\ dog' = [dog EXCEPT ![s] = "cleaning"]
    /\ cmds' = cmds \cup {<<"clean", s>>}
    /\ UNCHANGED <<process, recording, session, bound, dirs, spent>>

---------------------------------------------------------------------------
(* The application.                                                        *)

\* `start_annotation` as a recording begins.
Begin ==
    /\ up = "up" /\ going = 0 /\ rec < N
    /\ rec' = rec + 1 /\ going' = rec + 1
    /\ \/ /\ enabled /\ portal /\ slot = 0
          /\ slot' = rec + 1
          /\ stage' = [stage EXCEPT ![rec + 1] = "dog"]
          /\ dirs' = dirs \cup {rec + 1}
       \/ ~(enabled /\ portal /\ slot = 0) /\ UNCHANGED <<slot, stage, dirs>>
    /\ UNCHANGED <<process, kept, closed, binding, bound, cmds, dog, spent>>

\* A bug: the ended recording's session stays with the application.
EndKeepsSession ==
    /\ up = "up" /\ going # 0
    /\ going' = 0
    /\ Stop({slot} \ {0}, {})
    /\ UNCHANGED <<process, rec, slot, kept, stage, bound, dog, dirs, spent>>

\* The recording stops, is cancelled or fails.  The summary of a recording that could be drawn
\* on keeps the session until it is written.
End ==
    /\ up = "up" /\ going # 0
    /\ Interrupt \/ slot = 0 \/ (slot # 0 /\ ~Activating(slot))
    /\ going' = 0 /\ slot' = 0
    /\ Stop({slot} \ {0}, {})
    /\ \/ slot # 0 /\ stage[slot] = "ready" /\ kept' = kept \cup {slot}
       \/ kept' = kept
    /\ UNCHANGED <<process, rec, stage, bound, dog, dirs, spent>>

Summarised(s) ==
    /\ s \in kept
    /\ kept' = kept \ {s}
    /\ UNCHANGED <<process, rec, going, slot, session, desktop, spent>>

\* `set_annotation_enabled(false)`.
Disable ==
    /\ up = "up" /\ enabled /\ spent.toggles < MaxToggles
    /\ Spend("toggles")
    /\ enabled' = FALSE /\ portal' = FALSE
    /\ Stop({slot} \ {0}, {<<"all", 0>>})
    /\ dirs' = dirs \cap {slot}
    /\ UNCHANGED <<up, recording, stage, bound, dog>>

Enable ==
    /\ up = "up" /\ ~enabled /\ spent.toggles < MaxToggles
    /\ Spend("toggles")
    /\ enabled' = TRUE /\ portal' = FALSE
    /\ UNCHANGED <<up, recording, session, desktop>>

\* `close_shortcuts` for another setting; a new portal session has to register again.
RestartShortcuts ==
    /\ up = "up" /\ portal /\ spent.restarts < MaxRestarts
    /\ Spend("restarts")
    /\ portal' = FALSE
    /\ UNCHANGED <<up, enabled, recording, session, desktop>>

Registered ==
    /\ up = "up" /\ enabled /\ ~portal
    /\ portal' = TRUE
    /\ UNCHANGED <<up, enabled, recording, session, desktop, spent>>

\* `shutdown`: the session is stopped and every task is waited for.
Quit ==
    /\ up = "up" /\ spent.exits < MaxExits
    /\ Spend("exits")
    /\ up' = "closing" /\ portal' = FALSE
    /\ going' = 0 /\ slot' = 0 /\ kept' = {}
    /\ Stop({slot} \ {0}, {})
    /\ UNCHANGED <<enabled, rec, stage, bound, dog, dirs>>

\* The process is gone, and with it its end of every pipe.
Gone ==
    /\ up' = "down" /\ portal' = FALSE
    /\ going' = 0 /\ slot' = 0 /\ kept' = {}
    /\ stage' = [s \in Recordings |-> IF stage[s] = "none" \/ (stage[s] = "dropped" /\ dog[s] = "gone")
                                      THEN stage[s] ELSE "dead"]
    /\ UNCHANGED <<enabled, rec, closed, binding, bound, cmds>>

Exit ==
    /\ up = "closing"
    /\ \A s \in Recordings : stage[s] \in {"none", "dropped", "dead"}
    /\ \A c \in cmds : c[1] = "clean"
    /\ Gone
    /\ UNCHANGED <<dog, dirs, spent>>

Crash ==
    /\ up # "down" /\ spent.exits < MaxExits
    /\ Spend("exits")
    /\ Gone
    /\ UNCHANGED <<dog, dirs>>

\* A kill of the whole control group takes the watchdogs as well.
GroupKill ==
    /\ up # "down" /\ spent.exits < MaxExits
    /\ Spend("exits")
    /\ Gone
    /\ dog' = [s \in Recordings |-> IF dog[s] = "none" THEN "none" ELSE "gone"]
    /\ UNCHANGED dirs

\* `clean_annotation_leftovers`.  A hyprctl process of the run before has ended by then.
LeftoversWanted == enabled \/ dirs # {}

Restart ==
    /\ up = "down" /\ \A c \in cmds : c[1] = "clean"
    /\ up' = "up"
    /\ dirs' = {}
    /\ cmds' = cmds \cup (IF LeftoversWanted THEN {<<"all", 0>>} ELSE {})
    /\ UNCHANGED <<enabled, portal, recording, session, bound, dog, spent>>

Work(s) ==
    \/ WatchdogReady(s) \/ WatchdogFails(s) \/ Install(s) \/ Asked(s) \/ Checked(s)
    \/ Undone(s) \/ Drop(s) \/ Summarised(s) \/ DogHears(s)

Next ==
    \/ \E s \in Recordings : Work(s)
    \/ \E c \in Commands : Lands(c) \/ TimesOut(c)
    \/ Begin \/ End \/ Disable \/ Enable \/ RestartShortcuts \/ Registered
    \/ Quit \/ Exit \/ Crash \/ GroupKill \/ Restart

Spec == Init /\ [][Next]_vars

\* Every await of the session has a timeout, hyprctl processes end, and the program runs its
\* tasks.  Nobody has to record, to change a setting or to start Mluva.
Fairness ==
    /\ \A s \in Recordings : WF_vars(Work(s))
    /\ \A c \in Commands : WF_vars(Lands(c))
    /\ WF_vars(Exit)

FairSpec == Spec /\ Fairness

\* Mluva is started again after it ended.
RestartedSpec == FairSpec /\ WF_vars(Restart)

---------------------------------------------------------------------------
(* Properties.                                                             *)

TypeOK ==
    /\ up \in {"up", "closing", "down"} /\ enabled \in BOOLEAN /\ portal \in BOOLEAN
    /\ rec \in 0 .. N /\ going \in 0 .. rec /\ slot \in 0 .. rec /\ kept \subseteq 1 .. rec
    /\ stage \in [Recordings -> Stages]
    /\ closed \subseteq 1 .. rec /\ binding \subseteq 1 .. rec /\ bound \subseteq 1 .. rec
    /\ cmds \subseteq Commands
    /\ dog \in [Recordings -> {"none", "waiting", "cleaning", "gone"}]
    /\ dirs \subseteq 1 .. rec
    /\ spent \in [toggles : 0 .. MaxToggles, restarts : 0 .. MaxRestarts,
                  exits : 0 .. MaxExits, faults : 0 .. MaxFaults]
    \* One session at most can be drawn on, and it belongs to the recording under way.
    /\ slot # 0 => slot = going
    /\ \A s \in Recordings : stage[s] = "ready" /\ s \notin closed => slot = s

\* Whatever order Stop, the setting and the addition met in, bindings that Hyprland holds for a
\* session of the running program have a watchdog that will still remove them, as long as
\* hyprctl does not fail.
BoundIsWatched ==
    spent.faults = 0 =>
        \A s \in bound : stage[s] # "dead" => dog[s] = "waiting" \/ <<"clean", s>> \in cmds

\* A recording that is over leaves no binding behind for good, even when one hyprctl call or the
\* program's own removal fails.
BindingsGo == \A s \in Recordings : (s <= rec /\ going # s) ~> [](s \notin bound)

\* While a session takes ink, Hyprland holds its bindings: the cleanup of an earlier recording
\* does not remove them.
ReadyIsBound == \A s \in Recordings : stage[s] = "ready" /\ s \notin closed => s \in bound

\* The bindings of a session that takes ink are lost only to the cleanup of a start or of the setting, or to
\* the addition of another session: no removal that a stop or a failed addition asked for, no watchdog, and
\* nothing that another recording left behind takes them away.
ReadyKeeps ==
    \A s \in Recordings :
        stage[s] = "ready" /\ s \notin closed /\ s \in bound \ bound'
            => \E c \in cmds \ cmds' : c = <<"all", 0>> \/ (c[1] = "add" /\ c[2] # s)
ReadyKeepsBound == [][ReadyKeeps]_vars

\* After a crash of Mluva alone, its watchdogs remove the bindings that were in place.
WatchdogCleans ==
    \A s \in Recordings :
        (stage[s] = "dead" /\ dog[s] = "waiting" /\ <<"add", s>> \notin cmds) ~> [](s \notin bound)

\* After any end of the program, also of its watchdogs, the next start with the setting on
\* removes what is left.
RestartCleans ==
    \A s \in Recordings : (up = "down" /\ enabled /\ stage[s] = "dead") ~> [](s \notin bound)

\* "From here on the bindings may exist in Hyprland, so Stop always removes them."
\* (session.rs): once a session is stopped and nothing is under way, its bindings are gone.
StopAlwaysRemoves ==
    cmds = {} /\ (\A s \in Recordings : ~Activating(s))
        => \A s \in bound : stage[s] \in {"dead", "dropped"} \/ s \notin closed \/ slot # s

\* "only once this run's portal session has registered the actions they dispatch to"
\* (application/annotations.rs): bindings are added while the portal session holds the actions.
AddedWhenRegistered == [][(\E s \in Recordings : s \in bound' \ bound) => portal]_vars
=============================================================================
