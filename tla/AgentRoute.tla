----------------------------- MODULE AgentRoute -----------------------------
(***************************************************************************)
(* Agent dictation end to end on GTK's main thread: the controller that    *)
(* owns the routing attempt (agent_voice_controller.rs with cli.rs and     *)
(* wheel.rs) composed with the application handlers that own the capture   *)
(* (application/lifecycle.rs, capture_controller.rs), the discovery and    *)
(* delivery tasks they spawn, and the History row each message keeps.      *)
(*                                                                         *)
(* One action is one handler run to completion, with the renders it calls: *)
(* `render` writes the outcome of a step to the row, once per attempt.     *)
(* Everything that runs on the background runtime (preparing and finishing *)
(* a capture, discovery, delivery, the taken-watch) starts in one action   *)
(* and its result is applied by another, with any handler in between.      *)
(* Spoken updates are off here: CaptureOwner has the waiting they cause.   *)
(***************************************************************************)
EXTENDS VoiceRoute, FiniteSets

CONSTANTS
    Spoken,         \* the texts a recording or an edited draft may hold
    Outcomes,       \* the outcomes a transport may report
    Sightings,      \* the sightings discovery may return
    MaxAttempts,    \* bound: attempts begun
    MaxChoices,     \* bound: recipient choices made
    ClockJumps,     \* whether the wall clock may be set back
    PrivacyChanges  \* whether Incognito may be switched

ASSUME AgentRouteAssumption ==
    /\ Spoken \subseteq Text /\ Outcomes \subseteq SendOutcome /\ Sightings \subseteq Sighting
    /\ MaxAttempts \in Nat /\ MaxChoices \in Nat
    /\ ClockJumps \in BOOLEAN /\ PrivacyChanges \in BOOLEAN

VARIABLES
    attempt,    \* the routing attempt, VoiceRoute::attempt
    reported,   \* the steps already written, as <<attempt, step>>
    rows,       \* each message's History row: its delivery_outcome
    selected,   \* settings.selected
    enabled,    \* settings.enabled
    targets,    \* the last list of sessions found
    poll,       \* the running discovery: none, current, or of an older generation
    switches,   \* CLI select requests that wait for their own discovery
    cap,        \* the capture and the attempt it belongs to, if any
    wheel,      \* the session wheel is visible
    editor,     \* the document the attempt's text is in, and whether it is on screen
    flights,    \* deliveries running on the background runtime
    watches,    \* queued messages whose taking is still watched
    gap,        \* the wall clock minus last_tick
    incognito,
    closed

\* History variables: what was promised and what really happened.
VARIABLES
    begun,      \* attempts begun so far
    chosen,     \* the session that was selected when each attempt began
    stopped,    \* attempts something stopped while their message was pending
    handed,     \* attempts handed to a transport
    fate,       \* what really became of each message's text
    asked,      \* recipient choices made so far, in order
    applied     \* the choice the selection comes from

route    == <<attempt, reported, rows>>
choice   == <<selected, enabled, switches, asked, applied>>
finding  == <<targets, poll>>
capture  == <<cap, wheel, editor>>
delivery == <<flights, watches, fate>>
promises == <<begun, chosen, stopped, handed>>
ambient  == <<gap, incognito, closed>>
vars == <<route, choice, finding, capture, delivery, promises, ambient>>

Id == 1..MaxAttempts
Step == DraftReason \cup {"grace", "delivered", "taken", "held", "unconfirmed"}
Sent == {"sent", "queued", "prefilled", "delivered", "held", "unconfirmed"}
Word == Sent \cup {"absent", "ready", "no-speech", "draft-kept", "recipient-unavailable",
                   "busy", "cancelled"}
CapturePhase == {"None", "Preparing", "Recording", "Processing", "Cancelling"}
NoCapture == [phase |-> "None", agent |-> NoId]
Found == {f \in [Session -> Sightings \cup {"missing"}] : \A s \in Session : f[s] \in SightingOf(s)}
Flight == [id : Id, session : Session, via : Reachable, text : Text, doc : Id,
           row : 0..MaxAttempts, result : SendOutcome \cup {"none"}]
Watch == [id : Id, doc : Id, row : 0..MaxAttempts]
Switch == [session : Session, order : 1..MaxChoices, stale : BOOLEAN]

Init ==
    /\ attempt = NoAttempt
    /\ reported = {} /\ rows = [d \in Id |-> "absent"]
    /\ selected \in Session \cup {NoSession} /\ enabled \in BOOLEAN
    /\ targets = [s \in Session |-> "missing"] /\ poll = "idle" /\ switches = {}
    /\ cap = NoCapture /\ wheel = FALSE /\ editor = [doc |-> NoId, mapped |-> FALSE]
    /\ flights = {} /\ watches = {} /\ fate = [d \in Id |-> "unsent"]
    /\ gap = 0 /\ incognito \in BOOLEAN /\ closed = FALSE
    /\ begun = 0 /\ chosen = [i \in Id |-> NoSession] /\ stopped = {} /\ handed = {}
    /\ asked = 0 /\ applied = 0

-----------------------------------------------------------------------------
(* What `render` writes                                                     *)

LevelWord(via) ==
    CASE via = "send" -> "sent" [] via = "queue" -> "queued" [] OTHER -> "prefilled"

ReasonWord(reason) ==
    CASE reason \in {"Kept", "Edited", "Interrupted", "TooLong"} -> "draft-kept"
      [] reason \in {"RecipientChanged", "Unavailable", "Rejected"} -> "recipient-unavailable"
      [] reason = "Busy" -> "busy"
      [] reason = "Cancelled" -> "cancelled"
      [] OTHER -> "none"

\* The newest step an attempt's phase implies, and the outcome it has for the row.
StepOf(a) ==
    CASE a.phase = "Grace" -> "grace"
      [] a.phase = "Delivered" -> IF a.taken THEN "taken" ELSE "delivered"
      [] a.phase = "Held" -> "held"
      [] a.phase = "Unconfirmed" -> "unconfirmed"
      [] a.phase = "Draft" -> a.reason
      [] OTHER -> "none"

\* Mutated: what the agent has taken still says how it was accepted.
WordOfAcceptance(a) ==
    CASE a.phase = "Delivered" -> LevelWord(a.via)
      [] a.phase = "Held" -> "held"
      [] a.phase = "Unconfirmed" -> "unconfirmed"
      [] a.phase = "Draft" -> ReasonWord(a.reason)
      [] OTHER -> "none"

WordOf(a) ==
    CASE a.phase = "Delivered" -> IF a.taken THEN "delivered" ELSE LevelWord(a.via)
      [] a.phase = "Held" -> "held"
      [] a.phase = "Unconfirmed" -> "unconfirmed"
      [] a.phase = "Draft" -> ReasonWord(a.reason)
      [] OTHER -> "none"

\* A step is written once; its outcome goes to the row, unless there is none
\* or Incognito is on. r are the rows as the handler has them.
News(a) == StepOf(a) # "none" /\ <<a.id, StepOf(a)>> \notin reported

Report(a, r, private) ==
    /\ reported' = IF News(a) THEN {w \in reported : w[1] = a.id} \cup {<<a.id, StepOf(a)>>}
                              ELSE reported
    /\ rows' = IF News(a) /\ WordOf(a) # "none" /\ a.row # NoId /\ ~private
               THEN [r EXCEPT ![a.row] = WordOf(a)] ELSE r

\* The handler ends with attempt a on screen.
Render(a) == attempt' = a /\ Report(a, rows, incognito)

-----------------------------------------------------------------------------
(* Pieces several handlers share                                            *)

\* What the handler stops is a message still pending.
Stopping == stopped' = IF attempt.phase \in Pending THEN stopped \cup {attempt.id} ELSE stopped

\* `generation + 1`: what was started before it is stale.
Outdated == {[w EXCEPT !.stale = TRUE] : w \in switches}
OutdatedPoll == IF poll = "fresh" THEN "stale" ELSE poll

SelectedSighting == IF selected = NoSession THEN "missing" ELSE targets[selected]

\* Stopping or cancelling the capture by its phase: Stop while it records,
\* cancel while it prepares, nothing once it is finishing.
StopCapture(c) ==
    [c EXCEPT !.phase = CASE c.phase = "Recording" -> "Processing"
                          [] c.phase = "Preparing" -> "Cancelling"
                          [] OTHER -> c.phase]

CancelCapture(c) ==
    [c EXCEPT !.phase = IF c.phase \in {"Preparing", "Recording"} THEN "Cancelling" ELSE c.phase]

\* `agent_release`: finish the recording and its capture; a capture already gone
\* or finishing abandons the attempt.
ReleasedAttempt(a, c) ==
    IF a.phase # "Recording" THEN a
    ELSE IF c.phase \in {"Preparing", "Recording"} THEN Release(a)
    ELSE AbandonCapture(a, "Interrupted")

ReleasedCapture(a, c) == IF a.phase = "Recording" THEN StopCapture(c) ELSE c

\* `interrupt`, with the application's `agent_interrupted`.
InterruptedAttempt(a, c) ==
    LET held == Disarm(a, "Interrupted")
    IN  IF c.agent # NoId THEN ReleasedAttempt(held, c)
        ELSE IF c.phase = "None" THEN AbandonCapture(held, "Interrupted")
        ELSE held

InterruptedCapture(a, c) == IF c.agent # NoId THEN ReleasedCapture(a, c) ELSE c

\* `submit` for a submission whose permission was just consumed from a.
FlightOf(a) == [id |-> a.id, session |-> a.session, via |-> a.via, text |-> a.text,
                doc |-> a.doc, row |-> a.row, result |-> "none"]
Submit(a) ==
    /\ flights' = flights \cup {FlightOf(a)}
    /\ handed' = handed \cup {a.id}

\* A new attempt for the selected session.
MayStart == enabled /\ selected # NoSession /\ MayBegin(attempt, SelectedSighting)
Promise(id) == begun' = id /\ chosen' = [chosen EXCEPT ![id] = selected]

\* `cli_select` and the recipient dropdown: the choice is made and everything
\* started under the old one is outdated.
Choice(session, order) ==
    /\ selected' = session
    /\ applied' = order
    /\ switches' = Outdated
    /\ poll' = OutdatedPoll

-----------------------------------------------------------------------------
(* Choosing a recipient and changing settings                               *)

\* The dropdown, or a name on the wheel, which sets the dropdown.
Choose(session) ==
    /\ attempt.phase # "Recording" /\ enabled
    /\ session # selected
    /\ session \in Session => targets[session] # "missing"
    /\ asked < MaxChoices /\ asked' = asked + 1
    /\ Stopping
    /\ Render(Disarm(attempt, "RecipientChanged"))
    /\ Choice(session, asked + 1)
    /\ UNCHANGED <<enabled, targets, capture, delivery, begun, chosen, handed, ambient>>

\* `save_settings` when Enable or the socket changed, then its `refresh`.
SaveRouting(on) ==
    /\ Stopping
    /\ Render(InterruptedAttempt(attempt, cap))
    /\ cap' = InterruptedCapture(attempt, cap)
    /\ wheel' = FALSE
    /\ enabled' = on
    /\ switches' = Outdated
    /\ poll' = IF on /\ poll = "idle" THEN "fresh" ELSE OutdatedPoll
    /\ UNCHANGED <<selected, asked, applied, targets, editor, delivery,
                   begun, chosen, handed, ambient>>

\* `save_settings` when only a key or the spoken updates changed.
SaveOther ==
    /\ switches' = Outdated
    /\ poll' = IF enabled /\ poll = "idle" THEN "fresh" ELSE OutdatedPoll
    /\ Render(attempt)
    /\ UNCHANGED <<selected, enabled, asked, applied, targets, capture, delivery,
                   promises, ambient>>

\* `mluva agents select`, before its discovery: the request stops a pending send.
AskSwitch(session) ==
    /\ asked < MaxChoices /\ asked' = asked + 1
    /\ Stopping
    /\ Render(Disarm(attempt, "RecipientChanged"))
    /\ switches' = switches \cup {[session |-> session, order |-> asked + 1, stale |-> FALSE]}
    /\ UNCHANGED <<selected, enabled, applied, finding, capture, delivery,
                   begun, chosen, handed, ambient>>

\* `update_targets`, on the attempt the handler has so far.
UpdateTargets(a, found) == targets' = found /\ Render(Observe(a, found))

\* Mutated: an outdated request is not refused.
FinishSwitchAnyway(w, found) ==
    LET rest == switches \ {w}
    IN  IF ~CanReceive(found[w.session])
        THEN /\ switches' = rest
             /\ UNCHANGED <<route, selected, enabled, asked, applied, finding, capture,
                            delivery, promises, ambient>>
        ELSE /\ Stopping
             /\ UpdateTargets(Disarm(attempt, "RecipientChanged"), found)
             /\ selected' = w.session /\ enabled' = TRUE /\ applied' = w.order
             /\ switches' = {[v EXCEPT !.stale = TRUE] : v \in rest}
             /\ poll' = OutdatedPoll
             /\ UNCHANGED <<asked, capture, delivery, begun, chosen, handed, ambient>>

\* Its discovery answered: refused when the routing changed meanwhile or the
\* session cannot take a message, else `cli_select` and `update_targets`.
FinishSwitch(w, found) ==
    LET rest == switches \ {w}
    IN  IF w.stale \/ ~CanReceive(found[w.session])
        THEN /\ switches' = rest
             /\ UNCHANGED <<route, selected, enabled, asked, applied, finding, capture,
                            delivery, promises, ambient>>
        ELSE /\ Stopping
             /\ UpdateTargets(Disarm(attempt, "RecipientChanged"), found)
             /\ selected' = w.session /\ enabled' = TRUE /\ applied' = w.order
             /\ switches' = {[v EXCEPT !.stale = TRUE] : v \in rest}
             /\ poll' = OutdatedPoll
             /\ UNCHANGED <<asked, capture, delivery, begun, chosen, handed, ambient>>

\* `mluva agents clear`: `update_targets` runs over the list it already has.
Clear ==
    /\ asked < MaxChoices /\ asked' = asked + 1
    /\ Stopping
    /\ Render(Observe(Disarm(attempt, "RecipientChanged"), targets))
    /\ Choice(NoSession, asked + 1)
    /\ UNCHANGED <<enabled, targets, capture, delivery, begun, chosen, handed, ambient>>

\* `refresh` from its button.
Refresh ==
    /\ enabled /\ poll = "idle" /\ poll' = "fresh"
    /\ UNCHANGED <<route, choice, targets, capture, delivery, promises, ambient>>

\* A discovery ends: without an answer, outdated, kept off an open wheel, or applied.
DropFound ==
    /\ poll # "idle" /\ poll' = "idle"
    /\ UNCHANGED <<route, choice, targets, capture, delivery, promises, ambient>>

ApplyFound(found) ==
    /\ poll = "fresh" /\ poll' = "idle"
    /\ UpdateTargets(attempt, found)
    /\ IF attempt.phase \in Pending /\ ~CanReceive(found[attempt.session])
       THEN Stopping ELSE stopped' = stopped
    /\ UNCHANGED <<choice, capture, delivery, begun, chosen, handed, ambient>>

-----------------------------------------------------------------------------
(* The agent key, the record key and their captures                         *)

\* `agent_shortcut` or `agent_toggle` during the attempt's own capture.
AgentKeyStops ==
    /\ cap.agent # NoId /\ cap.phase = "Recording"
    /\ Render(ReleasedAttempt(attempt, cap))
    /\ cap' = ReleasedCapture(attempt, cap)
    /\ UNCHANGED <<choice, finding, wheel, editor, delivery, promises, ambient>>

AgentKeyCancels ==
    /\ cap.agent # NoId /\ cap.phase = "Preparing"
    /\ Stopping
    /\ Render(Disarm(attempt, "Cancelled"))
    /\ cap' = CancelCapture(cap)
    /\ UNCHANGED <<choice, finding, wheel, editor, delivery, begun, chosen, handed, ambient>>

\* The key during the cancel window sends at once and opens nothing (`send_now`).
AgentKeySends ==
    /\ cap.agent = NoId /\ ~wheel
    /\ attempt.phase = "Grace"
    /\ Submit(attempt)
    /\ Render(StartSubmission(attempt))
    /\ UNCHANGED <<choice, finding, capture, watches, fate, begun, chosen, stopped, ambient>>

\* `open_wheel`: with nothing remembered, the first session that can be reached is chosen.
OpenWheel ==
    /\ cap.phase = "None" /\ ~wheel /\ enabled /\ attempt.phase # "Grace"
    /\ wheel' = TRUE
    /\ Stopping
    /\ Render(Disarm(attempt, "Kept"))
    /\ \/ /\ \/ selected # NoSession
             \/ \A s \in Session : ~CanReceive(targets[s])
          /\ poll' = IF poll = "idle" THEN "fresh" ELSE poll
          /\ UNCHANGED <<selected, applied, switches, asked>>
       \/ /\ selected = NoSession
          /\ asked < MaxChoices /\ asked' = asked + 1
          /\ \E s \in Session :
                /\ CanReceive(targets[s])
                /\ selected' = s /\ applied' = asked + 1 /\ switches' = Outdated
          /\ poll' = IF poll = "idle" THEN "fresh" ELSE OutdatedPoll
    /\ UNCHANGED <<enabled, targets, cap, editor, delivery, begun, chosen, handed, ambient>>

HideWheel ==
    /\ wheel /\ wheel' = FALSE
    /\ UNCHANGED <<route, choice, finding, cap, editor, delivery, promises, ambient>>

\* `agent_press`: begin, then the capture starts, or cannot and the attempt is abandoned.
AgentPress(started) ==
    LET id  == begun + 1
        new == Begun(id, selected, SelectedSighting)
    IN  /\ cap.phase = "None" /\ MayStart /\ begun < MaxAttempts
        /\ Promise(id)
        /\ wheel' = FALSE
        /\ IF started
           THEN Render(new) /\ cap' = [phase |-> "Preparing", agent |-> id]
           ELSE Render(AbandonCapture(new, "Interrupted")) /\ cap' = cap
        /\ UNCHANGED <<choice, finding, editor, delivery, stopped, handed, ambient>>

\* An ordinary recording: `leave_for_capture` renders what it interrupts, then
\* forgets an attempt that is not being delivered.
StartOther(started) ==
    /\ cap.phase = "None"
    /\ Stopping
    /\ Report(Disarm(attempt, "Interrupted"), rows, incognito)
    /\ attempt' = IF attempt.phase = "Submitting" THEN attempt ELSE NoAttempt
    /\ wheel' = FALSE
    /\ cap' = IF started THEN [phase |-> "Preparing", agent |-> NoId] ELSE cap
    /\ UNCHANGED <<choice, finding, editor, delivery, begun, chosen, handed, ambient>>

\* Mutated: the capture stops and its attempt is not told.
RecordKeyStopsCaptureOnly ==
    /\ cap.phase \in {"Preparing", "Recording"}
    /\ cap' = StopCapture(cap)
    /\ UNCHANGED <<route, choice, finding, wheel, editor, delivery, promises, ambient>>

\* The record key while a capture runs.
RecordKeyStops ==
    /\ cap.phase \in {"Preparing", "Recording"}
    /\ Render(IF cap.phase = "Recording" /\ cap.agent # NoId THEN Release(attempt) ELSE attempt)
    /\ cap' = StopCapture(cap)
    /\ UNCHANGED <<choice, finding, wheel, editor, delivery, promises, ambient>>

\* Escape on the capture page cancels the capture and leaves its attempt to
\* `capture_cancelled`.
Escape ==
    /\ cap.phase \in {"Preparing", "Recording"}
    /\ cap' = CancelCapture(cap)
    /\ UNCHANGED <<route, choice, finding, wheel, editor, delivery, promises, ambient>>

Cancel ==
    /\ ~wheel
    /\ Stopping
    /\ Render(Disarm(attempt, "Cancelled"))
    /\ cap' = CancelCapture(cap)
    /\ UNCHANGED <<choice, finding, wheel, editor, delivery, begun, chosen, handed, ambient>>

KeepDraft ==
    LET kept == Disarm(attempt, "Kept")
    IN  /\ Stopping
        /\ Render(ReleasedAttempt(kept, cap))
        /\ cap' = ReleasedCapture(kept, cap)
        /\ UNCHANGED <<choice, finding, wheel, editor, delivery, begun, chosen, handed, ambient>>

\* Screen lock, suspend, a rebound key: `interrupt`.
Interrupt ==
    /\ Stopping
    /\ Render(InterruptedAttempt(attempt, cap))
    /\ cap' = InterruptedCapture(attempt, cap)
    /\ wheel' = FALSE
    /\ UNCHANGED <<choice, finding, editor, delivery, begun, chosen, handed, ambient>>

\* `inline_changed` for Incognito, whose control is unavailable during a capture.
SwitchPrivacy ==
    /\ PrivacyChanges /\ cap.phase = "None"
    /\ incognito' = ~incognito
    /\ Stopping
    /\ attempt' = InterruptedAttempt(attempt, cap)
    /\ Report(attempt', rows, incognito')
    /\ wheel' = FALSE
    /\ UNCHANGED <<choice, finding, cap, editor, delivery, begun, chosen, handed, gap, closed>>

-----------------------------------------------------------------------------
(* What the capture's own tasks report                                      *)

Prepared ==
    /\ cap.phase = "Preparing"
    /\ cap' = [cap EXCEPT !.phase = "Recording"]
    /\ UNCHANGED <<route, choice, finding, wheel, editor, delivery, promises, ambient>>

\* `capture_failed` and `capture_cancelled`: an agent capture takes its attempt along.
CaptureEnds(reason) ==
    /\ Render(IF cap.agent # NoId THEN AbandonCapture(attempt, reason) ELSE attempt)
    /\ cap' = NoCapture
    /\ UNCHANGED <<choice, finding, wheel, editor, delivery, promises, ambient>>

\* A failing preparation still cleans up when a cancel is requested, and fails.
CaptureFailed ==
    /\ cap.phase \in {"Preparing", "Processing", "Cancelling"}
    /\ CaptureEnds("Interrupted")

CaptureCancelled == cap.phase = "Cancelling" /\ CaptureEnds("Cancelled")

\* `capture_completed` of an agent capture: its text is saved, or not, and shown
\* in the editor, or not; `completed` then starts the countdown or keeps the draft.
AgentCompleted(text, saved, shown) ==
    LET id   == cap.agent
        row  == IF saved THEN id ELSE NoId
        seen == IF shown THEN attempt ELSE Disarm(attempt, "Interrupted")
        read == Recognized(seen, id, text, id, row)
        kept == IF shown THEN read ELSE Disarm(read, "Interrupted")
        base == IF saved
                THEN [rows EXCEPT ![id] = IF text = "empty" THEN "no-speech" ELSE "ready"]
                ELSE rows
    IN  /\ cap.agent # NoId /\ cap.phase = "Processing"
        /\ saved => ~incognito
        /\ cap' = NoCapture
        /\ IF Accepts(attempt, id)
           THEN /\ attempt' = kept /\ Report(kept, base, incognito)
                /\ editor' = [doc |-> IF shown THEN id ELSE NoId, mapped |-> shown]
           ELSE attempt' = attempt /\ rows' = base /\ UNCHANGED <<reported, editor>>
        /\ UNCHANGED <<choice, finding, wheel, delivery, promises, ambient>>

OtherCompleted ==
    /\ cap.agent = NoId /\ cap.phase = "Processing" /\ cap' = NoCapture
    /\ UNCHANGED <<route, choice, finding, wheel, editor, delivery, promises, ambient>>

-----------------------------------------------------------------------------
(* The draft in the editor                                                  *)

\* `send_draft`: a fresh attempt for the selected session with the text on screen.
SendDraft(text) ==
    LET id   == begun + 1
        new  == Begun(id, selected, SelectedSighting)
        read == Recognized(Release(new), id, text, editor.doc, attempt.row)
    IN  /\ editor.mapped
        /\ attempt.phase = "Draft" /\ attempt.text # "empty"
        /\ MayStart /\ begun < MaxAttempts
        /\ Promise(id)
        /\ Render(read)
        /\ wheel' = FALSE
        /\ UNCHANGED <<choice, finding, cap, editor, delivery, stopped, handed, ambient>>

\* Editing the document of the current attempt, or leaving it.
Edit ==
    /\ editor.mapped /\ attempt.doc = editor.doc /\ attempt.phase = "Grace"
    /\ Stopping
    /\ Render(Disarm(attempt, "Edited"))
    /\ UNCHANGED <<choice, finding, capture, delivery, begun, chosen, handed, ambient>>

LeaveEditor ==
    /\ editor.mapped /\ editor' = [editor EXCEPT !.mapped = FALSE]
    /\ IF attempt.doc = editor.doc
       THEN Stopping /\ Render(Disarm(attempt, "Kept"))
       ELSE UNCHANGED <<route, stopped>>
    /\ UNCHANGED <<choice, finding, cap, wheel, delivery, begun, chosen, handed, ambient>>

ReturnToEditor ==
    /\ editor.doc # NoId /\ ~editor.mapped /\ editor' = [editor EXCEPT !.mapped = TRUE]
    /\ UNCHANGED <<route, choice, finding, cap, wheel, delivery, promises, ambient>>

-----------------------------------------------------------------------------
(* Time                                                                     *)

\* One unit passes, or the clock is set back by one.  No frame is held up for
\* more than MaxGap units, which already invalidates a countdown.
MaxGap == 2

MoveClock(by) ==
    /\ gap' = gap + by
    /\ attempt' = [attempt EXCEPT !.left = IF attempt.phase = "Grace" THEN @ - by ELSE @,
                                  !.age = IF attempt.phase = "Recording" /\ @ + by >= 0
                                          THEN @ + by ELSE @]
    /\ UNCHANGED <<reported, rows, choice, finding, capture, delivery, promises,
                   incognito, closed>>

Elapse == gap < MaxGap /\ attempt.age < MaxRecording /\ MoveClock(1)
SetBack == ClockJumps /\ gap > -1 /\ MoveClock(-1)

\* Mutated: only a clock set back interrupts a countdown.
LateFrameBackOnly == attempt.phase = "Grace" /\ gap < 0

\* A frame held up for more than a unit, or a clock set back, during a countdown.
LateFrame == attempt.phase = "Grace" /\ (gap < 0 \/ gap > 1)

\* `tick`, ten times a second when the frame is not held up.
Tick ==
    LET late == LateFrame \/ RecordingTimedOut(attempt)
        a    == IF late THEN InterruptedAttempt(attempt, cap) ELSE attempt
    IN  /\ gap' = 0
        /\ cap' = IF late THEN InterruptedCapture(attempt, cap) ELSE cap
        /\ wheel' = (wheel /\ ~late)
        /\ IF late THEN Stopping ELSE stopped' = stopped
        /\ poll' \in {poll} \cup (IF enabled /\ poll = "idle" THEN {"fresh"} ELSE {})
        /\ IF Due(a)
           THEN /\ Render(TakeSubmission(a))
                /\ IF TooLate(a) THEN UNCHANGED <<flights, handed>> ELSE Submit(a)
           ELSE Render(a) /\ UNCHANGED <<flights, handed>>
        /\ UNCHANGED <<choice, targets, editor, watches, fate, begun, chosen, incognito, closed>>

-----------------------------------------------------------------------------
(* Delivery, on the background runtime and back                             *)

\* The transport's word for what it did with a message.
FateOf(f, outcome) ==
    CASE outcome = "Accepted" -> LevelWord(f.via)
      [] outcome = "Taken" -> "delivered"
      [] outcome = "Held" -> "held"
      [] outcome = "Unconfirmed" -> "unconfirmed"
      [] OTHER -> fate[f.doc]

\* The transport writes the message, or not; closing cancels what it has not finished.
Transmit(f, outcome) ==
    /\ f.result = "none"
    /\ closed => outcome \in {"Rejected", "Unconfirmed"}
    /\ flights' = (flights \ {f}) \cup {[f EXCEPT !.result = outcome]}
    /\ fate' = [fate EXCEPT ![f.doc] = FateOf(f, outcome)]
    /\ UNCHANGED <<route, choice, finding, capture, watches, promises, ambient>>

\* GTK applies the outcome; a queued message is watched until it is taken.
Receive(f) ==
    /\ f.result # "none"
    /\ flights' = flights \ {f}
    /\ IF closed THEN UNCHANGED <<route, watches>>
       ELSE /\ Render(Delivered(attempt, f.id, f.result))
            /\ watches' = IF f.result = "Accepted" /\ f.via = "queue"
                          THEN watches \cup {[id |-> f.id, doc |-> f.doc, row |-> f.row]}
                          ELSE watches
    /\ UNCHANGED <<choice, finding, capture, fate, promises, ambient>>

\* The watch sees the agent take it: the current attempt learns it, else its row does.
TakenSeen(w) ==
    /\ watches' = watches \ {w}
    /\ fate' = [fate EXCEPT ![w.doc] = "delivered"]
    /\ IF LearnsTaken(attempt, w.id)
       THEN Render(TakenBy(attempt, w.id))
       ELSE /\ rows' = IF w.row # NoId /\ ~incognito
                       THEN [rows EXCEPT ![w.row] = "delivered"] ELSE rows
            /\ UNCHANGED <<attempt, reported>>
    /\ UNCHANGED <<choice, finding, capture, flights, promises, ambient>>

WatchEnds(w) ==
    /\ watches' = watches \ {w}
    /\ UNCHANGED <<route, choice, finding, capture, flights, fate, promises, ambient>>

-----------------------------------------------------------------------------
\* `shutdown`: the attempt is abandoned without a render, everything else is dropped.
Close ==
    /\ closed' = TRUE
    /\ Stopping
    /\ attempt' = AbandonCapture(attempt, "Interrupted")
    /\ wheel' = FALSE /\ cap' = NoCapture
    /\ poll' = "idle" /\ switches' = {} /\ watches' = {}
    /\ UNCHANGED <<reported, rows, selected, enabled, asked, applied, targets, editor,
                   flights, fate, begun, chosen, handed, gap, incognito>>

Person ==
    \/ \E s \in Session \cup {NoSession} : Choose(s)
    \/ \E on \in BOOLEAN : SaveRouting(on)
    \/ SaveOther
    \/ \E s \in Session : AskSwitch(s)
    \/ Clear \/ Refresh
    \/ AgentKeyStops \/ AgentKeyCancels \/ AgentKeySends
    \/ OpenWheel \/ HideWheel
    \/ \E started \in BOOLEAN : AgentPress(started) \/ StartOther(started)
    \/ RecordKeyStops \/ Escape \/ Cancel \/ KeepDraft \/ Interrupt \/ SwitchPrivacy
    \/ \E text \in Spoken : SendDraft(text)
    \/ Edit \/ LeaveEditor \/ ReturnToEditor

Finder ==
    \/ \E w \in switches, found \in Found : FinishSwitch(w, found)
    \/ DropFound
    \/ \E found \in Found : ApplyFound(found)

Recorder ==
    \/ Prepared \/ CaptureFailed \/ CaptureCancelled
    \/ \E text \in Spoken, saved, shown \in BOOLEAN : AgentCompleted(text, saved, shown)
    \/ OtherCompleted

Watcher == \E w \in watches : TakenSeen(w) \/ WatchEnds(w)

Transport ==
    \E f \in flights : Receive(f) \/ \E outcome \in Outcomes : Transmit(f, outcome)

Next ==
    \/ ~closed /\ (Person \/ Finder \/ Recorder \/ Watcher \/ Elapse \/ SetBack \/ Tick \/ Close)
    \/ Transport

Spec == Init /\ [][Next]_vars

\* What always comes: time and the ticks GTK runs as it passes, the end of a
\* capture task (preparing, cancelling and recognizing are bounded by their own
\* timeouts) and the outcome of a delivery, applied on GTK.  Nothing is promised
\* of the person, of discovery or of a taken-watch.
Fairness ==
    /\ WF_vars(~closed /\ Tick)
    /\ WF_vars(~closed /\ Elapse)
    /\ WF_vars(~closed /\ Recorder)
    /\ WF_vars(Transport)

FairSpec == Spec /\ Fairness

-----------------------------------------------------------------------------
(* Properties                                                               *)

\* Type correctness of the controller, the capture and the delivery state.
TypeOK ==
    /\ attempt \in Attempt /\ attempt.id \in 0..begun
    /\ reported \subseteq Id \X Step /\ rows \in [Id -> Word]
    /\ selected \in Session \cup {NoSession} /\ enabled \in BOOLEAN
    /\ targets \in [Session -> Sighting] /\ poll \in {"idle", "fresh", "stale"}
    /\ switches \subseteq Switch
    /\ cap \in [phase : CapturePhase, agent : 0..MaxAttempts] /\ wheel \in BOOLEAN
    /\ editor \in [doc : 0..MaxAttempts, mapped : BOOLEAN]
    /\ flights \subseteq Flight /\ watches \subseteq Watch
    /\ gap \in Int /\ incognito \in BOOLEAN /\ closed \in BOOLEAN
    /\ begun \in 0..MaxAttempts /\ chosen \in [Id -> Session \cup {NoSession}]
    /\ stopped \subseteq Id /\ handed \subseteq Id
    /\ fate \in [Id -> Sent \cup {"unsent"}]
    /\ asked \in 0..MaxChoices /\ applied \in 0..MaxChoices

\* A message is handed to a transport only while nothing of its text may have
\* reached any agent, and by one delivery at a time: an accepted, held, taken or
\* uncertain message is never written again, whatever is pressed afterwards.
NeverWrittenAgain ==
    /\ \A f \in flights : f.result = "none" => fate[f.doc] = "unsent"
    /\ \A f, g \in flights : f.doc = g.doc => f = g

\* What stopped a pending message (Cancel, Keep draft, an edit, another
\* recipient, a lock, another recording) holds: that attempt is never handed over.
StopHolds == stopped \cap handed = {}

\* The message goes to the session that was selected when its recording or its
\* resend began, whatever is chosen, discovered or renamed before it goes.
NeverRetargeted ==
    \A f \in flights : f.session = chosen[f.id]

\* The attempt and the capture never lose each other: while the attempt records
\* or is recognized there is exactly its capture, in the matching phase, and no
\* agent capture runs without its attempt.
CaptureIsOwned ==
    /\ attempt.phase \in {"Recording", "Finalizing"} => cap.agent = attempt.id
    /\ cap.agent # NoId =>
          /\ cap.agent = attempt.id
          /\ cap.phase \in {"Preparing", "Recording"} => attempt.phase = "Recording"
          /\ cap.phase = "Processing" => attempt.phase = "Finalizing"
          /\ cap.phase = "Cancelling" => attempt.phase \in {"Recording", "Finalizing", "Draft"}

\* A delivery in flight is the attempt that is shown as being delivered, until
\* its outcome is applied: no new attempt and no new recording displaces it.
DeliveryIsShown ==
    ~closed => flights = (IF attempt.phase = "Submitting"
                          THEN {f \in flights : f.id = attempt.id} ELSE {})

\* A row says of its message what really became of it once nothing of it is in
\* flight: never sent for a message that was not, never kept for one that was.
RowsTellTheTruth ==
    ~closed => \A d \in Id :
        rows[d] # "absent" /\ (\A f \in flights : f.doc # d) =>
            rows[d] = fate[d] \/ (fate[d] = "unsent" /\ rows[d] \notin Sent)

\* No message is left without an outcome: a row that still says only that the
\* text was recognized belongs to the attempt that counts down or is delivered.
EveryMessageIsAccounted ==
    ~closed => \A d \in Id :
        rows[d] = "ready" => attempt.row = d /\ attempt.phase \in {"Grace", "Submitting"}

\* No capture and no message is without its attempt: see CaptureIsOwned and EveryMessageIsAccounted.
NothingIsLost == CaptureIsOwned /\ EveryMessageIsAccounted

\* What the attempt and History show is so: see DeliveryIsShown and RowsTellTheTruth.
WhatIsShownIsTrue == DeliveryIsShown /\ RowsTellTheTruth

\* What is handed over fits the route that carries it whole.  (Only a composer link has a limit of its own, and
\* its messages have no other route.)
HandedTextFits ==
    \A f \in flights : f.text # "empty" /\ ~TooLong(f.text, f.via)

\* A countdown does not survive interrupted timing: a tick that follows a clock
\* set back or a frame held up hands nothing over.
NoSendAcrossABreak == [][gap \notin 0..1 /\ gap' = 0 => handed' = handed]_vars

\* Incognito leaves History alone: while it is on no row is written.
PrivateLeavesRows == [][incognito /\ incognito' => rows' = rows]_vars

\* The selection follows the newest choice: a slow request for an older one never
\* undoes a newer one that was already applied.
NewestChoiceWins == [][applied' >= applied]_vars

\* No message is pending for ever: the recording limit, the end of recognition
\* or the countdown ends it, even if nobody touches anything.
PendingEnds ==
    \A i \in Id : (attempt.id = i /\ attempt.phase \in Pending)
                  ~> ~(attempt.id = i /\ attempt.phase \in Pending)

\* A countdown is decided: the message goes out unless something stopped it.
CountdownIsDecided ==
    \A i \in Id : (attempt.id = i /\ attempt.phase = "Grace") ~> (i \in handed \cup stopped)

\* A delivery is not shown as running for ever.
DeliveryEnds == attempt.phase = "Submitting" ~> closed \/ attempt.phase # "Submitting"

\* Nothing an attempt waits for lasts for ever: see PendingEnds, CountdownIsDecided and DeliveryEnds.
EveryWaitEnds == PendingEnds /\ CountdownIsDecided /\ DeliveryEnds

\* "If nothing is recognised ... it is saved in History with the outcome
\* no-speech" (docs/agent-routing.md): the row of a silent recording says so.
SilenceStaysNoSpeech ==
    attempt.phase = "Draft" /\ attempt.text = "empty" /\ attempt.row # NoId
        /\ attempt.row = attempt.id => rows[attempt.row] = "no-speech"

\* "Every path that ends a pending send passes through `render`, so none is
\* unrecorded" (the comment on `report_phase`), Mluva closing included.
EveryEndIsRecorded ==
    \A d \in Id : rows[d] = "ready" => attempt.row = d /\ attempt.phase \in {"Grace", "Submitting"}

-----------------------------------------------------------------------------
(* The abstract specification this one implements                           *)

Armed == IF attempt.phase \in Pending /\ attempt.disarmed = NoReason THEN {attempt.id} ELSE {}

Intent == INSTANCE OneShotDelivery WITH
    Attempt <- Id,
    armed   <- Armed,
    spent   <- handed,
    kept    <- (1..begun) \ (Armed \cup handed),
    moving  <- {f.id : f \in flights}

\* Every step of the controller gives, loses, uses or settles the one permission.
OneShot == Intent!Spec
=============================================================================
