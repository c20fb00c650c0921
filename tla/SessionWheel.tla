---------------------------- MODULE SessionWheel ----------------------------
(***************************************************************************)
(* The wheel that chooses a session (agent_session_wheel.rs,               *)
(* agent_voice_controller/wheel.rs): the list that discovery keeps, the    *)
(* choice, which is an identity, the dropdown that follows it, the page of *)
(* keys that is drawn, and the dial, whose hand and ticks move toward what *)
(* was drawn (agent_session_wheel/stage.rs).                               *)
(*                                                                         *)
(* An eased value is at rest (0), full (1) or between (2); the hand is at  *)
(* its tick or on the way.  Names, geometry, colours, the recording that   *)
(* follows (AgentRoute) and who owns which key (Shortcuts) are left out.   *)
(***************************************************************************)
EXTENDS Naturals, Sequences, FiniteSets, SequencesExt

CONSTANTS
    Sessions,   \* their identities
    PerPage,    \* KEYS.len()
    MaxChanges, \* bound: what happens to the sessions
    MaxChoices, \* bound: choices
    MaxHovers,  \* bound: the pointer on another name
    Animated    \* the desktop's animations

VARIABLES
    sessions, \* what discovery would find now, in its order: [id, state]
    targets,  \* AgentVoiceController.targets
    selected, \* settings.selected, or Nobody
    menu,     \* the entry of the dropdown: 0 for "Choose a session"
    poll,     \* the refresh under way: [at, fresh: its generation is the present one, list, failed]
    cli,      \* `mluva agents select`, waiting for its own discovery: as poll
    wheel,    \* [open, page, rendered, entries, chosen: its selected, slots, lit, hub, record]
    stage,    \* [mapped, tick, hover, target, hand, light, warn, warnTo, opened, turned, lift, level, lit]
    wanted,   \* the session the person last chose
    spent

wheelVars == <<sessions, targets, selected, menu, poll, cli, wheel, stage, wanted, spent>>

Nobody == "nobody"
Idle == [at |-> "idle", fresh |-> TRUE, list |-> <<>>, failed |-> FALSE]
NoPage == 99
Ids(list) == {list[i].id : i \in DOMAIN list}
PositionOf(list, id) == IF id \in Ids(list) THEN CHOOSE i \in DOMAIN list : list[i].id = id ELSE 0
Live(list, id) == SelectSeq(list, LAMBDA t : t.id = id)

Pages(list) == IF list = <<>> THEN 1 ELSE (Len(list) + PerPage - 1) \div PerPage
OnPage(list, page) == SubSeq(list, page * PerPage + 1, IF (page + 1) * PerPage < Len(list) THEN (page + 1) * PerPage ELSE Len(list))

\* Availability: a session takes a message, keeps a draft, waits at a prompt or is not found.
Records(t) == t.state \in {"ready", "draft"}
Warns(t) == t.state \in {"blocked", "gone"}

\* DialText::show: what the hub says of the remembered session, and whether the key goes on to record.
HubOf(list, live, page) ==
    IF live = <<>> THEN [says |-> IF list = <<>> THEN "no sessions" ELSE "choose", key |-> FALSE, elsewhere |-> NoPage]
    ELSE LET at == (PositionOf(list, live[1].id) - 1) \div PerPage
         IN [says |-> live[1].state, key |-> Records(live[1]),
             elsewhere |-> IF live[1].state = "ready" /\ at # page THEN at ELSE NoPage]

-----------------------------------------------------------------------------
(***************************************************************************)
(* The dial.                                                               *)
(***************************************************************************)

Moving(m) == Animated /\ m.mapped
Levels(count, full) == [i \in 1..count |-> IF i = full THEN 1 ELSE 0]

\* Motion::rest.
Rest(m) ==
    [m EXCEPT !.opened = TRUE, !.turned = TRUE, !.warn = m.warnTo, !.hand = "there",
              !.light = IF m.target = 0 THEN @ ELSE 1,
              !.lift = Levels(Len(@), m.hover), !.level = Levels(Len(@), m.lit)]

\* Motion::fit: another number of ticks starts at rest, the same one keeps its levels.
Fit(m, count, chosen) ==
    [m EXCEPT !.level = IF Len(@) = count THEN @ ELSE Levels(count, chosen),
              !.lift = IF Len(m.level) = count THEN @ ELSE Levels(count, 0),
              !.lit = chosen]

\* Stage::arrange; what no longer stands is no longer hovered.
Arrange(m, count, chosen, warns) ==
    LET n == Fit([m EXCEPT !.warnTo = IF warns THEN 1 ELSE 0, !.hover = IF @ > count THEN 0 ELSE @], count, chosen)
    IN IF Moving(m) THEN [n EXCEPT !.tick = TRUE] ELSE Rest(n)

\* Stage::aim and Motion::aim.
Aim(m, chosen, swing) ==
    IF chosen = 0 THEN [m EXCEPT !.target = 0, !.light = 0, !.hand = "there", !.tick = @ \/ (swing /\ Animated)]
    ELSE IF swing /\ Animated /\ m.target # 0
    THEN [m EXCEPT !.target = chosen, !.hand = IF m.target = chosen THEN @ ELSE "away", !.tick = TRUE]
    ELSE [m EXCEPT !.target = chosen, !.hand = "there", !.light = 1, !.tick = @ \/ (swing /\ Animated)]

\* Stage::turn.
Turn(m) == IF Moving(m) THEN [m EXCEPT !.turned = FALSE, !.tick = TRUE] ELSE m

\* Stage::open and Motion::open, when the window is mapped.
Opened(m) ==
    IF ~Animated THEN Rest([m EXCEPT !.mapped = TRUE])
    ELSE [m EXCEPT !.mapped = TRUE, !.tick = TRUE, !.opened = FALSE, !.turned = TRUE, !.warn = m.warnTo,
                   !.lift = Levels(Len(@), 0), !.level = Levels(Len(@), 0),
                   !.hand = IF m.target \in {0, 1} THEN "there" ELSE "away",
                   !.light = IF m.target = 0 THEN @ ELSE 0]

\* follow: a value that has not arrived comes nearer, and may arrive.
Followed(value, to, arrives) == IF value = to \/ arrives THEN to ELSE 2

\* Motion::advance, where the parts in `done` arrive; and the tick callback, which ends when all have.
Advanced(m, done) ==
    LET hand == IF "hand" \in done THEN "there" ELSE m.hand
        light == IF m.target = 0 THEN 0 ELSE IF hand = "there" THEN 1 ELSE 2
        lifts == Levels(Len(m.lift), m.hover)
        levels == Levels(Len(m.level), m.lit)
        n == [m EXCEPT !.opened = @ \/ "time" \in done, !.turned = @ \/ "time" \in done, !.hand = hand,
                       !.light = Followed(@, light, "light" \in done), !.warn = Followed(@, m.warnTo, "warn" \in done),
                       !.lift = [i \in DOMAIN @ |-> Followed(@[i], lifts[i], "levels" \in done)],
                       !.level = [i \in DOMAIN @ |-> Followed(@[i], levels[i], "levels" \in done)]]
        settled == /\ n.opened /\ n.turned /\ n.hand = "there" /\ n.light = light /\ n.warn = n.warnTo
                   /\ n.lift = lifts /\ n.level = levels
    IN [n EXCEPT !.tick = ~settled]

Frame(done) ==
    /\ stage.mapped /\ stage.tick
    /\ stage' = Advanced(stage, done)
    /\ UNCHANGED <<sessions, targets, selected, menu, poll, cli, wheel, wanted, spent>>

\* Stage::set_hover.
Hover(i) ==
    /\ stage.mapped /\ i \in 0..Len(wheel.slots) /\ i # stage.hover /\ spent.hovers < MaxHovers
    /\ stage' = LET m == [stage EXCEPT !.hover = i] IN IF Moving(m) THEN [m EXCEPT !.tick = TRUE] ELSE Rest(m)
    /\ spent' = [spent EXCEPT !.hovers = @ + 1]
    /\ UNCHANGED <<sessions, targets, selected, menu, poll, cli, wheel, wanted>>

-----------------------------------------------------------------------------
(***************************************************************************)
(* The wheel.                                                              *)
(***************************************************************************)

\* The first lines of SessionWheel::update.
Unchanged(w, list, live) == w.entries = list /\ w.chosen = live /\ w.rendered = w.page

\* SessionWheel::update: what is drawn, and the dial.  `rendered` is the page that was asked for.
Updated(w, m, list, id) ==
    LET live == Live(list, id)
        page == IF w.page < Pages(list) THEN w.page ELSE Pages(list) - 1
        slots == OnPage(list, page)
        at == PositionOf(list, id)
        chosen == IF at # 0 /\ (at - 1) \div PerPage = page THEN ((at - 1) % PerPage) + 1 ELSE 0
        placed == Arrange(m, Len(slots), chosen, live # <<>> /\ Warns(live[1]))
        swing == m.mapped /\ w.rendered = w.page /\ Len(w.slots) = Len(slots)
        aimed == Aim(placed, chosen, swing)
    IN IF Unchanged(w, list, live) THEN [wheel |-> w, stage |-> m]
       ELSE [wheel |-> [w EXCEPT !.page = page, !.rendered = w.page, !.entries = list, !.chosen = live, !.slots = slots,
                                 !.lit = chosen, !.hub = HubOf(list, live, page),
                                 !.record = live # <<>> /\ Records(live[1])],
             stage |-> IF m.mapped /\ w.rendered \notin {NoPage, w.page} THEN Turn(aimed) ELSE aimed]

\* render_wheel: only a wheel that is open is drawn.
Draws(w, list, id) ==
    LET to == IF w.open THEN Updated(w, stage, list, id) ELSE [wheel |-> w, stage |-> stage]
    IN wheel' = to.wheel /\ stage' = to.stage

\* The dropdown's handler of a choice: routing made anew, so a discovery under way is dropped.
Renewed(p) == [p EXCEPT !.fresh = FALSE]
Chosen(i) ==
    /\ menu' = i
    /\ selected' = IF i = 0 THEN Nobody ELSE targets[i].id
    /\ poll' = Renewed(poll) /\ cli' = Renewed(cli)
    /\ Draws(wheel, targets, selected')

\* set_selected of the dropdown: its handler runs when the entry is another one.
SetMenu(i) == IF i = menu THEN UNCHANGED <<menu, selected, poll, cli, wheel, stage>> ELSE Chosen(i)

\* open_wheel; refresh follows.
OpenWheel ==
    /\ ~wheel.open
    /\ LET ready == {i \in DOMAIN targets : targets[i].state = "ready"}
           first == IF selected = Nobody /\ ready # {} THEN CHOOSE i \in ready : \A j \in ready : i <= j ELSE 0
           id == IF first # 0 THEN targets[first].id ELSE selected
           at == PositionOf(targets, id)
           w == [wheel EXCEPT !.open = TRUE, !.page = IF at = 0 THEN 0 ELSE (at - 1) \div PerPage]
           to == Updated(w, stage, targets, id)
       IN /\ wheel' = to.wheel /\ stage' = to.stage
          /\ selected' = id
          /\ menu' = IF first # 0 THEN first ELSE menu
          /\ cli' = IF first # 0 THEN Renewed(cli) ELSE cli
          /\ poll' = IF poll.at = "idle" THEN [Idle EXCEPT !.at = "asked"]
                     ELSE IF first # 0 THEN Renewed(poll) ELSE poll
          /\ wanted' = id
    /\ UNCHANGED <<sessions, targets, spent>>

\* The window is mapped: the dial fades in.
Maps ==
    /\ wheel.open /\ ~stage.mapped
    /\ stage' = Opened(stage)
    /\ UNCHANGED <<sessions, targets, selected, menu, poll, cli, wheel, wanted, spent>>

Hidden(w) == [w EXCEPT !.open = FALSE]

\* Escape, Cancel, a click outside, the transcript key, or the record key with a session that can be recorded for.
HideWheel ==
    /\ wheel.open
    /\ wheel' = Hidden(wheel) /\ stage' = [stage EXCEPT !.mapped = FALSE]
    /\ UNCHANGED <<sessions, targets, selected, menu, poll, cli, wanted, spent>>

\* choose_wheel's first half: the entry of the page at that slot.
AtSlot(slot) ==
    IF wheel.page * PerPage + slot \in DOMAIN wheel.entries THEN wheel.entries[wheel.page * PerPage + slot].id ELSE Nobody

\* A key, a name or a tick: choose_wheel.
ChooseSlot(slot) ==
    /\ stage.mapped /\ spent.choices < MaxChoices
    /\ LET id == AtSlot(slot)
       IN IF id = Nobody \/ PositionOf(targets, id) = 0
          THEN UNCHANGED <<menu, selected, poll, cli, wheel, stage>>
          ELSE SetMenu(PositionOf(targets, id))
    /\ wanted' = IF slot \in DOMAIN wheel.slots THEN wheel.slots[slot].id ELSE wanted
    /\ spent' = [spent EXCEPT !.choices = @ + 1]
    /\ UNCHANGED <<sessions, targets>>

\* The dropdown itself.
ChooseInMenu(i) ==
    /\ i \in 0..Len(targets) /\ spent.choices < MaxChoices
    /\ SetMenu(i)
    /\ wanted' = IF i = 0 THEN Nobody ELSE targets[i].id
    /\ spent' = [spent EXCEPT !.choices = @ + 1]
    /\ UNCHANGED <<sessions, targets>>

\* page_wheel.
PageWheel(forward) ==
    /\ stage.mapped
    /\ LET last == Pages(wheel.entries) - 1
           page == IF forward THEN (IF wheel.page < last THEN wheel.page + 1 ELSE last)
                   ELSE IF wheel.page = 0 THEN 0 ELSE wheel.page - 1
       IN Draws([wheel EXCEPT !.page = page], targets, selected)
    /\ UNCHANGED <<sessions, targets, selected, menu, poll, cli, wanted, spent>>

\* Whatever else renders: the countdown, a delivery, the approved key.
Renders ==
    /\ wheel.open /\ Draws(wheel, targets, selected)
    /\ UNCHANGED <<sessions, targets, selected, menu, poll, cli, wanted, spent>>

-----------------------------------------------------------------------------
(***************************************************************************)
(* Discovery.                                                              *)
(***************************************************************************)

\* The list with the chosen session, missing when it was not found.
WithChoice(list, id) ==
    IF id = Nobody \/ id \in Ids(list) THEN list ELSE Append(list, [id |-> id, state |-> "gone"])

\* update_targets: the dropdown is filled without a choice being made.
UpdateTargets(list, id) ==
    LET ts == WithChoice(list, id)
    IN targets' = ts /\ menu' = PositionOf(ts, id) /\ Draws(wheel, ts, id)

Refresh ==
    /\ poll.at = "idle"
    /\ poll' = [Idle EXCEPT !.at = "asked"]
    /\ UNCHANGED <<sessions, targets, selected, menu, cli, wheel, stage, wanted, spent>>

\* Discovery reads the sessions; or no Herdr server answers.
Reads ==
    /\ poll.at = "asked"
    /\ \/ poll' = [poll EXCEPT !.at = "found", !.list = sessions] /\ UNCHANGED spent
       \/ /\ spent.changes < MaxChanges /\ spent' = [spent EXCEPT !.changes = @ + 1]
          /\ poll' = [poll EXCEPT !.at = "found", !.failed = TRUE]
    /\ UNCHANGED <<sessions, targets, selected, menu, cli, wheel, stage, wanted>>

Applies(p) == p.fresh

Found ==
    /\ poll.at = "found" /\ poll' = Idle
    /\ IF ~Applies(poll) THEN UNCHANGED <<targets, menu, wheel, stage>>
       ELSE IF poll.failed /\ wheel.open THEN Draws(wheel, targets, selected) /\ UNCHANGED <<targets, menu>>
       ELSE UpdateTargets(poll.list, selected)
    /\ UNCHANGED <<sessions, selected, cli, wanted, spent>>

\* `mluva agents select` asks, and chooses among what it found; `mluva agents clear`.
AskCli ==
    /\ cli.at = "idle" /\ spent.choices < MaxChoices
    /\ cli' = [Idle EXCEPT !.at = "found", !.list = sessions]
    /\ spent' = [spent EXCEPT !.choices = @ + 1]
    /\ UNCHANGED <<sessions, targets, selected, menu, poll, wheel, stage, wanted>>

CliSelect(id) ==
    /\ cli.at = "found" /\ cli' = Idle
    /\ IF Applies(cli) /\ \E i \in DOMAIN cli.list : cli.list[i] = [id |-> id, state |-> "ready"]
       THEN /\ selected' = id /\ wanted' = id /\ poll' = Renewed(poll)
            /\ UpdateTargets(cli.list, id)
       ELSE UNCHANGED <<targets, selected, menu, poll, wheel, stage, wanted>>
    /\ UNCHANGED <<sessions, spent>>

CliClear ==
    /\ selected # Nobody /\ spent.choices < MaxChoices
    /\ spent' = [spent EXCEPT !.choices = @ + 1]
    /\ selected' = Nobody /\ wanted' = Nobody /\ poll' = Renewed(poll) /\ cli' = Renewed(cli)
    /\ UpdateTargets(targets, Nobody)
    /\ UNCHANGED sessions

\* Sessions start, end, move and change their state.
SessionsChange ==
    /\ spent.changes < MaxChanges /\ spent' = [spent EXCEPT !.changes = @ + 1]
    /\ \/ \E id \in Sessions \ Ids(sessions), i \in 1..Len(sessions) + 1 :
             sessions' = InsertAt(sessions, i, [id |-> id, state |-> "ready"])
       \/ \E i \in DOMAIN sessions : sessions' = RemoveAt(sessions, i)
       \/ \E i \in DOMAIN sessions, s \in {"ready", "blocked", "draft"} : sessions' = [sessions EXCEPT ![i].state = s]
    /\ UNCHANGED <<targets, selected, menu, poll, cli, wheel, stage, wanted>>

-----------------------------------------------------------------------------

Init ==
    /\ \E order \in {SetToSeq(Sessions)} : sessions = [i \in DOMAIN order |-> [id |-> order[i], state |-> "ready"]]
    /\ targets = <<>> /\ selected = Nobody /\ menu = 0 /\ poll = Idle /\ cli = Idle
    /\ wheel = [open |-> FALSE, page |-> 0, rendered |-> NoPage, entries |-> <<>>, chosen |-> <<>>, slots |-> <<>>,
                lit |-> 0, hub |-> HubOf(<<>>, <<>>, 0), record |-> FALSE]
    /\ stage = [mapped |-> FALSE, tick |-> FALSE, hover |-> 0, target |-> 0, hand |-> "there", light |-> 0,
                warn |-> 0, warnTo |-> 0, opened |-> TRUE, turned |-> TRUE, lift |-> <<>>, level |-> <<>>, lit |-> 0]
    /\ wanted = Nobody /\ spent = [changes |-> 0, choices |-> 0, hovers |-> 0]

Next ==
    \/ OpenWheel \/ Maps \/ HideWheel \/ Renders \/ Refresh \/ Reads \/ Found \/ AskCli \/ CliClear \/ SessionsChange
    \/ \E slot \in 1..PerPage : ChooseSlot(slot)
    \/ \E i \in 0..Cardinality(Sessions) + 1 : ChooseInMenu(i)
    \/ \E forward \in BOOLEAN : PageWheel(forward)
    \/ \E id \in Sessions : CliSelect(id)
    \/ \E done \in SUBSET {"time", "hand", "light", "warn", "levels"} : Frame(done)
    \/ \E i \in 0..PerPage : Hover(i)

Spec == Init /\ [][Next]_wheelVars

-----------------------------------------------------------------------------

TypeOK ==
    /\ selected \in Sessions \cup {Nobody} /\ menu \in 0..Len(targets)
    /\ poll.at \in {"idle", "asked", "found"} /\ cli.at \in {"idle", "found"}
    /\ wheel.page \in 0..Cardinality(Sessions) /\ wheel.lit \in 0..PerPage
    /\ stage.light \in 0..2 /\ stage.warn \in 0..2 /\ Len(stage.lift) = Len(stage.level)

\* The choice is the session that was drawn at the slot that was pressed, or the entry that was picked, whatever
\* discovery finds meanwhile; and the dropdown names it, so that picking it again or another one is noticed
\* (agent_voice_controller.rs:899 "Selection is the target's identity, never this position").
ChoiceIsFollowed == selected = wanted /\ menu = PositionOf(targets, selected)

\* The open wheel shows the present list and choice: a page that exists, the keys of its sessions, and in the hub
\* what the record key would do.
WheelIsCurrent ==
    wheel.open =>
        /\ wheel.page < Pages(targets) /\ wheel.slots = OnPage(targets, wheel.page)
        /\ wheel.hub = HubOf(targets, Live(targets, selected), wheel.page)
        /\ wheel.record = wheel.hub.key
        /\ wheel.lit = (IF \E i \in DOMAIN wheel.slots : wheel.slots[i].id = selected
                        THEN PositionOf(wheel.slots, selected) ELSE 0)

\* The dial comes to rest at what the wheel shows: with no frame to come everything is where it heads, and it
\* heads for the chosen tick.
DialSettles ==
    stage.mapped =>
        /\ stage.target = wheel.lit /\ Len(stage.level) = Len(wheel.slots)
        /\ ~stage.tick => Rest(stage) = stage

WheelStands == ChoiceIsFollowed /\ WheelIsCurrent /\ DialSettles
=============================================================================
