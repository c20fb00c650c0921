--------------------------- MODULE TextInsertion ---------------------------
(***************************************************************************)
(* Putting a dictated text into the field it was dictated for              *)
(* (text_target.rs, terminal_target.rs, delivery.rs, dictation.rs,         *)
(* history_controller.rs).                                                 *)
(*                                                                         *)
(* When a recording begins the focused field is captured: its caret, its   *)
(* selection and how it can be edited.  When the words are known the field *)
(* is restored, the text copied, and inserted once: through the field's    *)
(* editing interface, or by a paste key sent to whatever has the focus.    *)
(* Meanwhile the person types, selects and moves between windows, focus    *)
(* events wait to be read, and a pasted text arrives late.                 *)
(*                                                                         *)
(* A text is a sequence of numbered units; 0 is a unit of the dictation,   *)
(* which is one character outside the Basic Multilingual Plane.            *)
(***************************************************************************)
EXTENDS Naturals, Sequences, FiniteSets

CONSTANTS
    Kinds,       \* of fields: "editable", "firefox", "chromium", "terminal"
    MaxTouches,  \* edits and selections by the person
    MaxMoves,    \* moves of the focus by the person
    MaxRetries,  \* Paste again in History
    MaxFaults    \* helpers, calls and key presses that fail

VARIABLES
    kind,        \* of the field of interest
    field,       \* its text, caret and selection
    focus,       \* what has the focus: the field, another one, a window of Mluva
    events,      \* focus events the desktop sent and nobody read
    tracker,     \* FocusedTextTargetTracker
    snap,        \* TextTargetSnapshot or TerminalTargetSnapshot
    watch,       \* SelectionChanges of a retained selection
    pc,          \* the next step of the delivery
    keys,        \* paste keys the field has not handled
    receipt,     \* DeliveryReceipt of this delivery
    row,         \* delivery_outcome in History
    remembered,  \* HistoryController.targets has the field
    attempts, landed, arrivals, strays, lost, picked,   \* what happened, for the properties
    touched,     \* since the capture, since the last look at the target: the person changed the field
    moved,       \* after the last look at the target: the focus moved
    touches, moves, faults

delivery == <<snap, pc, receipt, row, remembered, attempts, picked>>
person == <<touches, moves>>
vars == <<kind, field, focus, events, tracker, snap, watch, pc, keys, receipt, row, remembered, attempts, landed,
          arrivals, strays, lost, picked, touched, moved, touches, moves, faults>>

Nothing == "none"
Places == {"field", "other", "own"}
\* Gecko counts UTF-16 units, the others characters.
Width == IF kind = "firefox" THEN 2 ELSE 1
Ours == [n \in 1..Width |-> 0]

NoSnap == [on |-> FALSE, caret |-> 0, sel |-> <<>>, retained |-> FALSE, editable |-> FALSE, characters |-> 0]
NoWatch == [changed |-> FALSE, insertion |-> <<>>]
NoTracker == [state |-> "off", node |-> Nothing, heard |-> FALSE, initial |-> Nothing]

\* The field holds two units, with a caret or a selection.
Init ==
    /\ kind \in Kinds
    /\ \E s, e \in 0..2 :
        /\ s <= e
        /\ field = [text |-> <<1, 2>>, caret |-> e, sel |-> IF s = e THEN <<>> ELSE <<s, e>>]
    /\ focus \in Places /\ events = <<>> /\ tracker = NoTracker
    /\ snap = NoSnap /\ watch = NoWatch /\ pc = "idle" /\ keys = 0
    /\ receipt = "none" /\ row = "none" /\ remembered = FALSE
    /\ attempts = 0 /\ landed = FALSE /\ arrivals = 0 /\ strays = 0 /\ lost = {} /\ picked = {}
    /\ touched = [capture |-> FALSE, auth |-> FALSE] /\ moved = FALSE
    /\ touches = 0 /\ moves = 0 /\ faults = 0

-----------------------------------------------------------------------------
(***************************************************************************)
(* The field and the person.                                               *)
(***************************************************************************)

Start(f) == IF f.sel = <<>> THEN f.caret ELSE f.sel[1]
End(f) == IF f.sel = <<>> THEN f.caret ELSE f.sel[2]
Without(f, s, e) == SubSeq(f.text, 1, s) \o SubSeq(f.text, e + 1, Len(f.text))
With(f, s, units) == SubSeq(f.text, 1, s) \o units \o SubSeq(f.text, s + 1, Len(f.text))
Units(f, s, e) == {f.text[n] : n \in s + 1..e}

\* Typing and pasting replace the selection.
Replaced(f, units) ==
    LET s == Start(f)
        rest == [f EXCEPT !.text = Without(f, s, End(f))]
    IN [text |-> With(rest, s, units), caret |-> s + Len(units), sel |-> <<>>]

\* The three listeners of a retained selection hear of every change of the field.
Noticed(insertion) ==
    watch' = IF snap.retained THEN [changed |-> TRUE, insertion |-> insertion] ELSE watch

Touches ==
    /\ touches < MaxTouches /\ focus = "field"
    /\ pc # "idle" \/ attempts > 0   \* before that, a different initial field
    /\ touches' = touches + 1
    /\ touched' = [capture |-> TRUE, auth |-> TRUE]
    /\ UNCHANGED <<kind, focus, events, tracker, delivery, keys, landed, arrivals, strays, lost, moved, moves, faults>>

Type ==
    /\ Touches
    /\ field' = Replaced(field, <<3 + touches>>)
    /\ Noticed(<<Start(field), Start(field) + 1>>)

Select ==
    /\ Touches
    /\ \E s, e \in 0..Len(field.text) :
        /\ s <= e
        /\ field' = [field EXCEPT !.caret = e, !.sel = IF s = e THEN <<>> ELSE <<s, e>>]
    /\ field' # field
    /\ watch' = IF snap.retained THEN [watch EXCEPT !.changed = TRUE] ELSE watch

\* The focus moves; what loses and what gains it send an event each.
Focused(to) ==
    /\ focus' = to
    /\ events' = IF tracker.state = "off" \/ to = focus THEN events
                 ELSE events \o <<[gained |-> FALSE, node |-> focus], [gained |-> TRUE, node |-> to]>>

Move(to) ==
    /\ moves < MaxMoves /\ to # focus
    /\ moves' = moves + 1 /\ moved' = (pc = "inject")
    /\ Focused(to)
    /\ UNCHANGED <<kind, field, tracker, delivery, watch, keys, landed, arrivals, strays, lost, touched, touches,
                   faults>>

\* The application handles the paste key: the clipboard holds the dictation.
Handle ==
    /\ keys > 0
    /\ keys' = keys - 1
    /\ landed' = TRUE /\ arrivals' = arrivals + 1
    /\ lost' = lost \cup Units(field, Start(field), End(field))
    /\ field' = Replaced(field, Ours)
    /\ Noticed(<<Start(field), Start(field) + Width>>)
    /\ UNCHANGED <<kind, focus, events, tracker, delivery, strays, touched, moved, person, faults>>

-----------------------------------------------------------------------------
(***************************************************************************)
(* Which field has the focus.                                              *)
(***************************************************************************)

trackerOnly == <<kind, field, focus, delivery, watch, keys, landed, arrivals, strays, lost, touched, moved, person,
                 faults>>

\* The listener is registered before the first look at the desktop.  A terminal needs no accessibility.
Register ==
    /\ tracker.state = "off" /\ kind # "terminal"
    /\ tracker' = [tracker EXCEPT !.state = "listening"]
    /\ UNCHANGED <<events, trackerOnly>>

Foreign(node) == IF node = "own" THEN Nothing ELSE node

\* The one focused text in the one active window; a window of Mluva, or two candidates, are none.
FindFocused ==
    /\ tracker.state = "listening"
    /\ \E found \in {Foreign(focus), Nothing} : tracker' = [tracker EXCEPT !.state = "found", !.initial = found]
    /\ UNCHANGED <<events, trackerOnly>>

\* A focus event that arrived meanwhile knows better.
Seeded(t) == IF t.heard THEN t.node ELSE t.initial

Track ==
    /\ tracker.state = "found"
    /\ tracker' = [tracker EXCEPT !.state = "on", !.node = Seeded(tracker)]
    /\ UNCHANGED <<events, trackerOnly>>

\* Losing the focus clears only the field that had it.
AfterEvent(node, event) ==
    IF event.gained THEN Foreign(event.node) ELSE IF event.node \in {node, "own"} THEN Nothing ELSE node

\* Any query of the desktop, or the main loop, dispatches events.  An owner that does not answer counts as Mluva.
Dispatch ==
    /\ events # <<>>
    /\ events' = Tail(events)
    /\ \E node \in {AfterEvent(tracker.node, Head(events)), Nothing} :
        tracker' = [tracker EXCEPT !.node = node, !.heard = TRUE]
    /\ UNCHANGED trackerOnly

-----------------------------------------------------------------------------
(***************************************************************************)
(* One delivery.                                                           *)
(***************************************************************************)

\* A terminal is asked of the compositor; a text is what the tracker saw last.
Captures == IF kind = "terminal" THEN focus = "field" ELSE tracker.node = "field"

\* An automatic snapshot of Chromium keeps its selection in place; Firefox is never edited directly.
Snapshot(f) ==
    LET retained == kind = "chromium" /\ f.sel # <<>>
    IN [on |-> TRUE, caret |-> f.caret, sel |-> f.sel, retained |-> retained,
        editable |-> kind = "editable" \/ (kind = "chromium" /\ ~retained), characters |-> Len(f.text)]

\* The shortcut starts a recording.
Record ==
    /\ pc = "idle" /\ attempts = 0
    /\ kind = "terminal" \/ tracker.state = "on"
    /\ pc' = "recording"
    /\ IF Captures
       THEN /\ snap' = Snapshot(field)
            /\ picked' = IF field.sel = <<>> THEN {} ELSE Units(field, Start(field), End(field))
       ELSE UNCHANGED <<snap, picked>>
    /\ touched' = [capture |-> FALSE, auth |-> FALSE]
    /\ UNCHANGED <<kind, field, focus, events, tracker, watch, keys, receipt, row, remembered, attempts, landed,
                   arrivals, strays, lost, moved, person, faults>>

Begin ==
    /\ pc' = "restore"
    /\ attempts' = attempts + 1
    /\ receipt' = "none" /\ landed' = FALSE
    /\ UNCHANGED <<kind, field, focus, events, tracker, snap, watch, keys, row, remembered, arrivals, strays, lost,
                   picked, touched, moved, person, faults>>

\* Its words are known.
Recognized == pc = "recording" /\ Begin
\* Paste or Copy again, in History.
RetryDelivery == pc = "idle" /\ attempts \in 1..MaxRetries /\ snap.on /\ remembered /\ Begin

\* DeliveryTarget::restore.
RetainsFocused == snap.retained /\ tracker.node = "field" /\ focus = "field"
Retains == snap.retained /\ tracker.node = "field" /\ focus = "field" /\ ~watch.changed
StillThere == snap.editable \/ tracker.node = "field"
Fits == (IF snap.sel = <<>> THEN snap.caret ELSE snap.sel[2]) <= Len(field.text)

Authorized ==
    /\ touched' = [touched EXCEPT !.auth = FALSE]
    /\ UNCHANGED faults

\* A call of the desktop that is not answered counts as no.
Unanswered == faults < MaxFaults /\ faults' = faults + 1 /\ UNCHANGED touched
Declined == UNCHANGED <<touched, faults>>

Restored ==
    \/ /\ kind = "terminal" /\ focus = "field"
       /\ Authorized /\ UNCHANGED <<field, focus, events>>
    \/ /\ kind # "terminal" /\ Retains
       /\ Authorized /\ UNCHANGED <<field, focus, events>>
    \/ /\ kind # "terminal" /\ ~snap.retained /\ StillThere /\ Fits
       /\ Authorized /\ Focused("field")
       /\ field' = [field EXCEPT !.sel = snap.sel, !.caret = IF snap.sel = <<>> THEN snap.caret ELSE snap.sel[2]]

NotRestored ==
    \/ /\ \/ kind = "terminal" /\ focus # "field"
          \/ snap.retained /\ ~Retains
          \/ kind # "terminal" /\ ~snap.retained /\ ~StillThere
       /\ Declined /\ UNCHANGED <<field, focus, events>>
    \/ /\ kind # "terminal" /\ ~snap.retained /\ StillThere
       /\ \/ focus # "field" /\ Declined /\ UNCHANGED <<focus, events>>
          \/ ~Fits /\ Declined /\ Focused("field")
          \/ Fits /\ Unanswered /\ Focused("field")
       /\ UNCHANGED field
    \/ Unanswered /\ UNCHANGED <<field, focus, events>>

\* The first look at the target: without it the text is only copied.
Restore ==
    /\ pc = "restore"
    /\ IF ~snap.on THEN Declined /\ pc' = "copyOnly" /\ UNCHANGED <<field, focus, events, remembered>>
       ELSE \/ Restored /\ pc' = "copy" /\ UNCHANGED remembered
            \/ NotRestored /\ pc' = "copyOnly" /\ remembered' = FALSE
    /\ UNCHANGED <<kind, tracker, snap, watch, keys, receipt, row, attempts, landed, arrivals, strays, lost, picked,
                   moved, person>>

\* The receipt, and what History says of the delivery; the page remembers the target of a new entry.
After(outcome) == "idle"

Ended(outcome) ==
    /\ receipt' = outcome /\ pc' = After(outcome)
    /\ \/ row' = outcome /\ UNCHANGED faults
       \/ attempts > 1 /\ faults < MaxFaults /\ faults' = faults + 1 /\ row' = row
    /\ remembered' = IF attempts = 1 THEN snap.on ELSE remembered
    /\ UNCHANGED <<snap, attempts, picked>>

elsewhere == <<kind, events, tracker, touched, moved, person>>

\* The text is on the clipboard before anything else is tried.
Copy ==
    /\ pc \in {"copy", "copyOnly"}
    /\ \/ pc = "copy" /\ pc' = "direct" /\ UNCHANGED <<snap, receipt, row, remembered, attempts, picked, faults>>
       \/ pc = "copyOnly" /\ Ended("copied")
       \/ /\ faults < MaxFaults /\ faults' = faults + 1 /\ pc' = "idle"
          /\ row' = IF attempts = 1 THEN "delivery-failed" ELSE row
          /\ remembered' = IF attempts = 1 THEN snap.on ELSE remembered
          /\ UNCHANGED <<snap, receipt, attempts, picked>>
    /\ UNCHANGED <<elsewhere, field, focus, watch, keys, landed, arrivals, strays, lost>>

\* insert_text: an editable field is changed in two calls; a call that fails may have been carried out.
Direct == snap.editable
\* What follows a direct change that failed.
Uncertain == "paste-unconfirmed"

Delete ==
    /\ pc = "direct" /\ Direct /\ snap.sel # <<>>
    /\ \/ /\ snap.sel[2] <= Len(field.text)
          /\ field' = [text |-> Without(field, snap.sel[1], snap.sel[2]), caret |-> snap.sel[1], sel |-> <<>>]
          /\ lost' = lost \cup Units(field, snap.sel[1], snap.sel[2])
          /\ \/ pc' = "insert" /\ UNCHANGED <<snap, receipt, row, remembered, attempts, picked, faults>>
             \/ Ended(Uncertain)
       \/ Ended(Uncertain) /\ UNCHANGED <<field, lost>>
    /\ UNCHANGED <<elsewhere, focus, watch, keys, landed, arrivals, strays>>

Insert ==
    /\ pc = "insert" \/ (pc = "direct" /\ Direct /\ snap.sel = <<>>)
    /\ LET s == IF snap.sel = <<>> THEN snap.caret ELSE snap.sel[1]
       IN \/ /\ s <= Len(field.text)
             /\ field' = [text |-> With(field, s, Ours), caret |-> s + Width, sel |-> <<>>]
             /\ landed' = TRUE /\ arrivals' = arrivals + 1
             /\ \/ Ended("pasted")
                \/ Ended(Uncertain)
          \/ Ended(Uncertain) /\ UNCHANGED <<field, landed, arrivals>>
    /\ UNCHANGED <<elsewhere, focus, watch, keys, strays, lost>>

\* A field that cannot be edited is pasted into, where there is a helper for the key.
Helper ==
    /\ pc = "direct" /\ ~Direct
    /\ \/ pc' = "wait" /\ UNCHANGED <<snap, receipt, row, remembered, attempts, picked, faults>>
       \/ Ended("copied")
    /\ UNCHANGED <<elsewhere, field, focus, watch, keys, landed, arrivals, strays, lost>>

\* The target is looked at again immediately before the key.
Authorize ==
    /\ pc = "wait"
    /\ \/ Restored /\ pc' = "inject" /\ UNCHANGED <<receipt, row, remembered>>
       \/ /\ NotRestored /\ pc' = "idle" /\ receipt' = "copied" /\ row' = "copied"
          /\ remembered' = IF attempts = 1 THEN TRUE ELSE remembered
    /\ UNCHANGED <<kind, tracker, snap, watch, keys, attempts, landed, arrivals, strays, lost, picked, moved, person>>

\* The helper presses the key: it goes to what has the focus now.
Press ==
    \/ focus = "field" /\ keys' = keys + 1 /\ UNCHANGED <<strays, arrivals>>
    \/ focus # "field" /\ strays' = strays + 1 /\ arrivals' = arrivals + 1 /\ UNCHANGED keys

Inject ==
    /\ pc = "inject"
    /\ \/ Press /\ pc' = "confirm" /\ UNCHANGED <<snap, receipt, row, remembered, attempts, picked, faults>>
       \/ Press /\ Ended(Uncertain)
       \/ UNCHANGED <<keys, strays, arrivals>> /\ Ended(Uncertain)
    /\ UNCHANGED <<elsewhere, field, focus, watch, landed, lost>>

\* RetainedSelection::confirm, from numbers alone.
ConfirmsRetained ==
    LET lower == field.caret - Width
        removed == (Width + snap.characters) - Len(field.text)
    IN /\ tracker.node = "field" /\ field.sel = <<>>
       /\ field.caret >= Width /\ removed >= 1
       /\ snap.caret \in {lower, lower + removed}
       /\ watch.changed /\ watch.insertion # <<>>
       /\ watch.insertion[1] <= lower /\ field.caret <= watch.insertion[2]

\* confirm_insertion: a terminal has no caret to look at.
Confirms ==
    IF snap.retained THEN ConfirmsRetained
    ELSE field.caret = (IF snap.sel = <<>> THEN snap.caret ELSE snap.sel[1]) + Width

Confirm ==
    /\ pc = "confirm" /\ kind # "terminal" /\ Confirms
    /\ Ended("pasted")
    /\ UNCHANGED <<elsewhere, field, focus, watch, keys, landed, arrivals, strays, lost>>

\* The time is over, the target cannot tell, or does not answer.
GiveUp ==
    /\ pc = "confirm"
    /\ Ended("paste-unconfirmed")
    /\ UNCHANGED <<elsewhere, field, focus, watch, keys, landed, arrivals, strays, lost>>

Next ==
    \/ Type \/ Select \/ \E to \in Places : Move(to)
    \/ Handle
    \/ Register \/ FindFocused \/ Track \/ Dispatch
    \/ Record \/ Recognized \/ RetryDelivery
    \/ Restore \/ Copy \/ Delete \/ Insert \/ Helper \/ Authorize \/ Inject \/ Confirm \/ GiveUp

Spec == Init /\ [][Next]_vars

-----------------------------------------------------------------------------
TypeOK ==
    /\ kind \in Kinds /\ focus \in Places
    /\ field.caret \in 0..Len(field.text)
    /\ field.sel = <<>> \/ (field.sel[1] < field.sel[2] /\ field.sel[2] <= Len(field.text))
    /\ tracker.node \in Places \cup {Nothing}
    /\ receipt \in {"none", "copied", "pasted", "paste-unconfirmed"}
    /\ keys \in Nat /\ strays <= arrivals

\* "Insert once": however a delivery fails, its text arrives in at most one place, once
\* (delivery.rs:116, text_target.rs:408).
ArrivesOnce == arrivals + keys <= attempts

\* A receipt that says pasted is true: the text is in the captured field.  The person may have moved the caret to
\* where the text would have ended since the field was authorized, or a selection as long as the text may have left
\* it there (delivery.rs:1 "an honest durable receipt").
PastedIsTrue ==
    receipt = "pasted" => landed \/ touched.auth \/ (~snap.retained /\ snap.sel # <<>>)

\* A selection that was kept in place replaces only what was selected, whatever the person did while the words were
\* recognized; a field edited directly does so if nobody changed it since the recording began (text_target.rs:172).
ReplacesOnlyTheSelection ==
    lost \subseteq picked \/ (IF snap.retained THEN touched.auth ELSE touched.capture \/ attempts > 1)

\* When all focus events are read, the tracker knows the focused text or none: one that arrived during the first
\* look at the desktop is not overruled by it (text_target.rs:105).
TrackerIsTrue ==
    tracker.state = "on" /\ events = <<>> => tracker.node \in {Foreign(focus), Nothing}

\* The key is pressed in another window only when the focus moved after the last look at the target
\* (delivery.rs:159-168).
StraysOnlyWhenMoved == [][strays' # strays => moved]_vars

InsertionIsExact == ArrivesOnce /\ PastedIsTrue /\ ReplacesOnlyTheSelection /\ TrackerIsTrue
=============================================================================
