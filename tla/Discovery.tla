----------------------------- MODULE Discovery -----------------------------
(***************************************************************************)
(* Which running sessions Mluva sees, and what a remembered choice comes   *)
(* to mean (agent_targets.rs, claude_sessions.rs, codex/threads.rs,        *)
(* herdr.rs, agent_target.rs, agent_voice_controller.rs).                  *)
(*                                                                         *)
(* A pass reads Herdr's guarded list, Herdr's full list, Claude Code's     *)
(* registry and the locks of Codex threads at different moments, while     *)
(* processes start, exit, clear their session, rewrite their entry and     *)
(* reuse PIDs.  It joins what it read by session ID.                       *)
(*                                                                         *)
(* One instance is about one kind of session.  A start time is the number  *)
(* of the process: both tell it from every other process.                  *)
(***************************************************************************)
EXTENDS Naturals, Sequences, FiniteSets, SequencesExt

CONSTANTS
    Kind,        \* "claude", "codex", "agy" (Antigravity), "opencode" in Herdr's panes, or "core": a terminal of Herdr Core
    PIDs,        \* process IDs, used again after an exit
    Sessions,    \* session or thread IDs
    MaxStarts,   \* processes that start
    MaxChanges,  \* changes of session and of Herdr's guard
    MaxFaults    \* reads of Herdr and of threads that fail

VARIABLES
    procs,       \* by PID: the process, or Nobody
    files,       \* by PID: the registry entry on disk
    started,     \* processes started so far
    changes, faults,
    pass,        \* what the current pass has read
    entries,     \* ClaudeRegistry.entries: the last whole entry of each live process
    known,       \* CodexThreads.known: threads that were read
    targets,     \* the sessions the wheel and the menu show
    choice,      \* settings.selected
    chosen,      \* the processes it was seen with when the person chose it
    steady,      \* the processes that ran unchanged, by their start, since the current pass began
    seen,        \* those that ran unchanged since the last whole pass
    whole        \* those whose entry was read whole since they last changed

vars == <<procs, files, started, changes, faults, pass, entries, known, targets, choice, chosen, steady, seen, whole>>

NoSession == "none"
Nobody == [start |-> 0, sid |-> NoSession, pane |-> 0, said |-> NoSession, vouched |-> FALSE]
NoEntry == [state |-> "none", sid |-> NoSession, start |-> 0]
\* The guard of an agent Herdr does not vouch for.
NoGuard == [start |-> 0, sid |-> NoSession]
\* The guard of every terminal of Herdr Core.
CoreGuard == [start |-> 0, sid |-> "core"]

Idle == [on |-> FALSE, guarded |-> <<>>, listed |-> <<>>, sessions |-> <<>>, threads |-> <<>>,
         todo |-> {}, herdr |-> TRUE]

Alive == {p \in PIDs : procs[p] # Nobody}
Panes == {1}

Init ==
    /\ procs = [p \in PIDs |-> Nobody]
    /\ files = [p \in PIDs |-> NoEntry]
    /\ started = 0 /\ changes = 0 /\ faults = 0
    /\ pass = Idle
    /\ entries = [p \in PIDs |-> NoEntry]
    /\ known = {}
    /\ targets = <<>>
    /\ choice = <<>> /\ chosen = {}
    /\ steady = {} /\ seen = {} /\ whole = {}

-----------------------------------------------------------------------------
(***************************************************************************)
(* The sessions' own life.  Claude Code, Codex, OpenCode and Herdr are not *)
(* in the repository; what Mluva relies on is taken from how it reads them.*)
(***************************************************************************)

\* A process starts, with a session nobody else runs, in a pane or outside Herdr.
Launch(p, s, n) ==
    /\ started < MaxStarts /\ procs[p] = Nobody
    /\ \A q \in Alive : procs[q].sid # s /\ (n # 0 => procs[q].pane # n)
    /\ Kind \in {"opencode", "core"} => n # 0
    /\ started' = started + 1
    /\ procs' = [procs EXCEPT ![p] = [Nobody EXCEPT !.start = started + 1, !.sid = s, !.pane = n]]
    /\ UNCHANGED <<files, changes, faults, pass, entries, known, targets, choice, chosen, steady, seen, whole>>

\* Whatever else happens to a process, it did not run unchanged.
Touched(p) ==
    /\ steady' = steady \ {procs[p].start}
    /\ seen' = seen \ {procs[p].start}
    /\ whole' = whole \ {procs[p].start}

\* It exits; its registry entry may stay behind.
Exit(p) ==
    /\ procs[p] # Nobody
    /\ procs' = [procs EXCEPT ![p] = Nobody]
    /\ \/ files' = [files EXCEPT ![p] = NoEntry]
       \/ files' = files
    /\ UNCHANGED <<started, changes, faults, pass, entries, known, targets, choice, chosen>>
    /\ Touched(p)

\* It clears its session: the process goes on with a new one.
Clear(p, s) ==
    /\ procs[p] # Nobody /\ changes < MaxChanges
    /\ \A q \in PIDs : procs[q].sid # s /\ files[q].sid # s
    /\ changes' = changes + 1
    /\ procs' = [procs EXCEPT ![p].sid = s]
    /\ UNCHANGED <<files, started, faults, pass, entries, known, targets, choice, chosen>>
    /\ Touched(p)

\* Claude Code rewrites its entry in place: it can be read in between.
BeginRewrite(p) ==
    /\ Kind = "claude" /\ procs[p] # Nobody /\ files[p].state # "torn"
    /\ files' = [files EXCEPT ![p].state = "torn"]
    /\ UNCHANGED <<procs, started, changes, faults, pass, entries, known, targets, choice, chosen, steady, seen, whole>>

EndRewrite(p) ==
    /\ procs[p] # Nobody /\ files[p].state = "torn"
    /\ files' = [files EXCEPT ![p] = [state |-> "whole", sid |-> procs[p].sid, start |-> procs[p].start]]
    /\ UNCHANGED <<procs, started, changes, faults, pass, entries, known, targets, choice, chosen>>
    /\ Touched(p)

\* Herdr learns which session the pane runs.
Report(p) ==
    /\ Kind # "core" /\ procs[p] # Nobody /\ procs[p].pane # 0 /\ procs[p].said # procs[p].sid
    /\ procs' = [procs EXCEPT ![p].said = procs[p].sid]
    /\ UNCHANGED <<files, started, changes, faults, pass, entries, known, targets, choice, chosen>>
    /\ Touched(p)

\* Herdr's guard for the exact process and session appears or goes away.
Vouch(p) ==
    /\ Kind # "core" /\ procs[p] # Nobody /\ procs[p].pane # 0 /\ changes < MaxChanges
    /\ procs[p].said = procs[p].sid
    /\ changes' = changes + 1
    /\ procs' = [procs EXCEPT ![p].vouched = ~@]
    /\ UNCHANGED <<files, started, faults, pass, entries, known, targets, choice, chosen>>
    /\ Touched(p)

Vouched(p) == procs[p].vouched /\ procs[p].said = procs[p].sid

-----------------------------------------------------------------------------
(***************************************************************************)
(* The reads of one pass.                                                  *)
(***************************************************************************)

\* A target of which nothing is known.  `core` is the process in a terminal of Herdr Core, which the program
\* does not record.
Blank == [sid |-> NoSession, pid |-> 0, started |-> 0, pane |-> 0, guard |-> NoGuard,
          inbox |-> FALSE, lock |-> FALSE, missing |-> FALSE, core |-> 0]

\* What one agent Herdr lists becomes.
AgentInPane(p, guard) == [Blank EXCEPT !.sid = procs[p].said, !.pane = procs[p].pane, !.guard = guard]

\* A terminal of Herdr Core: its process, no session, and always the same guard.
TerminalOfCore(p) == [Blank EXCEPT !.pane = procs[p].pane, !.guard = CoreGuard, !.pid = p,
                             !.core = procs[p].start]

InPanes == {p \in Alive : procs[p].pane # 0}
InOrder(S) == SetToSortSeq(S, LAMBDA p, q : procs[p].start < procs[q].start)

\* What there is to read for this kind of session.
Sources == {"guarded", "listed"} \union (IF Kind = "claude" THEN {"registry"} ELSE {})
               \union (IF Kind = "codex" THEN {"locks", "starts"} ELSE {})
               \union (IF Kind = "agy" THEN {"presence"} ELSE {})

\* After a failed read the pass promises nothing.
Failed(n) ==
    /\ n <= MaxFaults - faults
    /\ faults' = faults + n
    /\ steady' = IF n = 0 THEN steady ELSE {}

Begin ==
    /\ ~pass.on
    /\ pass' = [Idle EXCEPT !.on = TRUE, !.todo = Sources]
    /\ steady' = {procs[p].start : p \in Alive} /\ seen' = {}
    /\ UNCHANGED <<procs, files, started, changes, faults, entries, known, targets, choice, chosen, whole>>

Reads(what) == pass.on /\ what \in pass.todo

\* agent.guarded_list, or Herdr Core's terminal.list: the agents Herdr vouches for.
ReadGuarded ==
    /\ Reads("guarded")
    /\ \/ /\ pass' = [pass EXCEPT !.todo = @ \ ({"guarded"} \union IF Kind = "core" THEN {"listed"} ELSE {}),
                                  !.guarded = LET P == IF Kind = "core" THEN InPanes
                                                       ELSE {p \in InPanes : Vouched(p)}
                                              IN [i \in 1..Cardinality(P) |->
                                                    LET p == InOrder(P)[i]
                                                    IN IF Kind = "core" THEN TerminalOfCore(p)
                                                       ELSE AgentInPane(p, [start |-> procs[p].start,
                                                                            sid |-> procs[p].sid])]]
          /\ UNCHANGED <<faults, steady>>
       \/ \* No server answers: this pass has no Herdr.
          /\ Failed(1)
          /\ pass' = [pass EXCEPT !.todo = @ \ {"guarded", "listed"}, !.herdr = FALSE]
    /\ UNCHANGED <<procs, files, started, changes, entries, known, targets, choice, chosen, seen, whole>>

\* agent.list, after it: a pane in both keeps what the guarded list said of it, and an agent guarded in
\* between follows the others.  A failed list leaves the guarded agents.
ReadListed ==
    /\ Reads("listed") /\ "guarded" \notin pass.todo
    /\ LET listed == [i \in 1..Cardinality(InPanes) |-> AgentInPane(InOrder(InPanes)[i], NoGuard)]
           of(t) == {i \in DOMAIN pass.guarded : pass.guarded[i].pane = t.pane}
           joined == [i \in DOMAIN listed |->
                        IF of(listed[i]) = {} THEN listed[i]
                        ELSE pass.guarded[CHOOSE k \in of(listed[i]) : TRUE]]
           later == SelectSeq(pass.guarded, LAMBDA t : \A i \in DOMAIN listed : listed[i].pane # t.pane)
       IN \/ /\ pass' = [pass EXCEPT !.todo = @ \ {"listed"}, !.listed = joined \o later]
             /\ UNCHANGED <<faults, steady>>
          \/ /\ Failed(1)
             /\ pass' = [pass EXCEPT !.todo = @ \ {"listed"}, !.listed = pass.guarded]
    /\ UNCHANGED <<procs, files, started, changes, entries, known, targets, choice, chosen, seen, whole>>

\* Mutant: an entry that cannot be read whole is no entry.
EntryUnlessTorn(p) == IF procs[p] # Nobody /\ files[p].start = procs[p].start /\ files[p].state = "whole"
                      THEN files[p] ELSE NoEntry

\* ClaudeRegistry::live: the entry of a live process that names its start; while it cannot be read whole,
\* the last whole one of exactly this process.
EntryOf(p) ==
    IF procs[p] = Nobody \/ files[p].state = "none" THEN NoEntry
    ELSE IF files[p].state = "whole" THEN (IF files[p].start = procs[p].start THEN files[p] ELSE NoEntry)
    ELSE IF entries[p].start = procs[p].start THEN entries[p] ELSE NoEntry

ReadRegistry ==
    /\ Reads("registry")
    /\ LET live == [p \in PIDs |-> EntryOf(p)]
           P == {p \in PIDs : live[p] # NoEntry}
       IN /\ entries' = live
          /\ pass' = [pass EXCEPT !.todo = @ \ {"registry"},
                                  !.sessions = [i \in 1..Cardinality(P) |->
                                     LET p == InOrder(P)[i]
                                     IN [Blank EXCEPT !.sid = live[p].sid, !.pid = p, !.started = live[p].start,
                                                      !.inbox = TRUE]]]
    /\ whole' = whole \union {procs[p].start : p \in {q \in Alive : files[q].state = "whole" /\ files[q].sid = procs[q].sid
                                                                 /\ files[q].start = procs[q].start}}
    /\ UNCHANGED <<procs, files, started, changes, faults, known, targets, choice, chosen, steady, seen>>

\* The processes that hold the lock of a thread or a conversation; a file left behind has no holder.
Holders == IF Kind \in {"codex", "agy"} THEN Alive ELSE {}

\* live_sessions: the holder of each presence lock with its start.
ReadPresence ==
    /\ Reads("presence")
    /\ pass' = [pass EXCEPT !.todo = @ \ {"presence"},
                            !.threads = [i \in 1..Cardinality(Holders) |->
                               LET p == InOrder(Holders)[i]
                               IN [Blank EXCEPT !.sid = procs[p].sid, !.pid = p, !.started = procs[p].start,
                                                !.lock = TRUE]]]
    /\ UNCHANGED <<procs, files, started, changes, faults, entries, known, targets, choice, chosen, steady, seen, whole>>

\* live_threads, and the first read of a thread, which may fail.
ReadLocks ==
    /\ Reads("locks")
    /\ LET held == {procs[p].sid : p \in Holders}
           new == held \ known
       IN \E read \in SUBSET new :
            /\ Failed(Cardinality(new \ read))
            /\ known' = (known \intersect held) \union read
            /\ pass' = [pass EXCEPT !.todo = @ \ {"locks"},
                                    !.threads = LET P == {p \in Holders : procs[p].sid \in known'}
                                                IN [i \in 1..Cardinality(P) |->
                                                      LET p == InOrder(P)[i]
                                                      IN [Blank EXCEPT !.sid = procs[p].sid, !.pid = p,
                                                                       !.lock = TRUE]]]
    /\ UNCHANGED <<procs, files, started, changes, entries, targets, choice, chosen, seen, whole>>

\* The start of each holder, read after the server was asked: it may be gone, or its PID another's by now.
ReadStarts ==
    /\ Reads("starts") /\ "locks" \notin pass.todo
    /\ LET start(t) == [t EXCEPT !.started = procs[t.pid].start]
       IN pass' = [pass EXCEPT !.todo = @ \ {"starts"},
                               !.threads = [i \in DOMAIN pass.threads |-> start(pass.threads[i])]]
    /\ UNCHANGED <<procs, files, started, changes, faults, entries, known, targets, choice, chosen, steady, seen, whole>>

-----------------------------------------------------------------------------
(***************************************************************************)
(* Joining, identity, and the choice.                                      *)
(***************************************************************************)

Has(t, found) == t.sid # NoSession /\ \E i \in DOMAIN found : found[i].sid = t.sid
Sighting(t, found) == found[CHOOSE i \in DOMAIN found :
                              found[i].sid = t.sid /\ \A k \in DOMAIN found : found[k].sid = t.sid => k <= i]

\* A pane keeps its place and its guard, and takes process and route from the sighting of its session; what
\* no pane shows follows.
Join(panes, found) ==
    [i \in DOMAIN panes |->
       IF Has(panes[i], found)
       THEN LET s == Sighting(panes[i], found)
            IN [panes[i] EXCEPT !.pid = s.pid, !.started = s.started, !.inbox = @ \/ s.inbox, !.lock = @ \/ s.lock]
       ELSE panes[i]]
    \o SelectSeq(found, LAMBDA s : \A i \in DOMAIN panes : panes[i].sid # s.sid)

Merged == Join(Join(IF Kind = "core" THEN pass.guarded ELSE pass.listed, pass.sessions), pass.threads)

SameSession(a, b) == a.sid = b.sid /\ a.pid = b.pid /\ (a.started = 0 \/ b.started = 0 \/ a.started = b.started)

SameInstance(a, b) ==
    IF a.sid # NoSession /\ b.sid # NoSession THEN SameSession(a, b)
    ELSE IF a.guard # NoGuard /\ b.guard # NoGuard THEN a.pane = b.pane /\ a.guard = b.guard
    ELSE /\ a.guard = NoGuard /\ b.guard = NoGuard
         /\ a.sid = NoSession /\ b.sid = NoSession
         /\ a.pane # 0 /\ a.pane = b.pane

Matches(ts, c) == {i \in DOMAIN ts : SameInstance(ts[i], c)}
First(S) == CHOOSE i \in S : \A k \in S : i <= k

\* The pass ends: the list is replaced, and a choice nothing matches stays in it as missing.  When Herdr failed
\* and the wheel is open, it keeps what it shows.
Publish ==
    /\ pass.on /\ pass.todo = {}
    /\ pass' = Idle
    /\ \/ ~pass.herdr /\ UNCHANGED targets
       \/ targets' = IF choice # <<>> /\ Matches(Merged, choice[1]) = {}
                     THEN Append(Merged, [choice[1] EXCEPT !.missing = TRUE]) ELSE Merged
    /\ seen' = steady /\ steady' = {}
    /\ UNCHANGED <<procs, files, started, changes, faults, entries, known, choice, chosen, whole>>

\* The living processes a target was seen with: two when its guard and its registry entry were read before and after
\* one process followed another.
SeenWith(t) == {t.started, t.guard.start, IF t.guard = CoreGuard THEN t.core ELSE 0}
                   \intersect {procs[p].start : p \in Alive}

\* A press on an entry that is shown: the first target of that identity is chosen.  One choice is followed.
Choose(i) ==
    /\ choice = <<>> /\ i \in DOMAIN targets
    /\ LET t == targets[First(Matches(targets, targets[i]))]
       IN choice' = <<t>> /\ chosen' = SeenWith(targets[i])
    /\ UNCHANGED <<procs, files, started, changes, faults, pass, entries, known, targets, steady, seen, whole>>

Next ==
    \/ \E p \in PIDs : \/ \E s \in Sessions, n \in Panes \union {0} : Launch(p, s, n)
                       \/ \E s \in Sessions : Clear(p, s)
                       \/ Exit(p) \/ BeginRewrite(p) \/ EndRewrite(p) \/ Report(p) \/ Vouch(p)
    \/ Begin \/ ReadGuarded \/ ReadListed \/ ReadRegistry \/ ReadLocks \/ ReadStarts \/ ReadPresence
    \/ Publish
    \/ \E i \in 1..4 : Choose(i)

Spec == Init /\ [][Next]_vars

-----------------------------------------------------------------------------

Selected == targets[First(Matches(targets, choice[1]))]

\* The process a message to a target reaches now, after its transport checked again: Herdr its guard, the inbox
\* its entry and start, Codex's queue the lock's holder.  0 for nobody.
Reaches(t) ==
    LET at == IF t.guard # NoGuard
              THEN {p \in InPanes : /\ procs[p].pane = t.pane
                                    /\ \/ t.guard = CoreGuard
                                       \/ Vouched(p) /\ t.guard = [start |-> procs[p].start, sid |-> procs[p].sid]}
              ELSE IF t.inbox
              THEN {p \in {t.pid} \intersect Alive : /\ files[p] = [state |-> "whole", sid |-> t.sid, start |-> t.started]
                                                     /\ procs[p].start = t.started}
              ELSE IF t.lock THEN {p \in {t.pid} \intersect Alive : procs[p].sid = t.sid}
              ELSE {}
    IN IF t.missing \/ at = {} THEN 0 ELSE procs[CHOOSE p \in at : TRUE].start

TypeOK ==
    /\ \A p \in PIDs : procs[p].sid \in Sessions \union {NoSession} /\ files[p].state \in {"none", "whole", "torn"}
    /\ started \in 0..MaxStarts /\ changes \in 0..MaxChanges /\ faults \in 0..MaxFaults
    /\ pass.todo \subseteq Sources
    /\ known \subseteq Sessions /\ Len(choice) <= 1
    /\ chosen \union steady \union seen \union whole \subseteq 1..MaxStarts

\* The sources agree on what a process runs: Herdr reports its session, and its entry named it when it was read.
Settled(p) ==
    /\ procs[p].pane # 0 => procs[p].said = procs[p].sid \/ Kind = "core"
    /\ Kind = "claude" => procs[p].start \in whole

\* A target that stands for a process.
Stands(t, p) == t.started = procs[p].start \/ (procs[p].pane # 0 /\ t.pane = procs[p].pane)

\* A session that runs unchanged through a pass is shown by it exactly once, whatever sources see it, and is
\* the one its target reaches -- also while Claude Code rewrites its entry, which was read whole before.
ShownOnce ==
    \A p \in Alive : procs[p].start \in seen /\ Settled(p) =>
        LET own == {i \in DOMAIN targets : ~targets[i].missing /\ Stands(targets[i], p)}
        IN /\ Cardinality(own) = 1
           /\ \A i \in own : Reaches(targets[i]) \in {0, procs[p].start}

\* The session that was chosen is still the selected one after such a pass.
ChoiceIsFound ==
    \A p \in Alive : procs[p].start \in seen /\ Settled(p) /\ choice # <<>>
                     /\ choice[1].started = procs[p].start /\ choice[1].sid = procs[p].sid =>
        ~Selected.missing /\ Selected.started = procs[p].start

SessionsAreShown == ShownOnce /\ ChoiceIsFound

\* The choice never comes to reach another session (agent_target.rs:443: "a restarted, resumed or cleared
\* session, or a new session in the same pane, never takes it over").
NeverTakenOver ==
    (choice # <<>> /\ Matches(targets, choice[1]) # {} /\ chosen # {}) => Reaches(Selected) \in {0} \union chosen
=============================================================================
