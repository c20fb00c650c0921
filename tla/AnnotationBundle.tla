-------------------------- MODULE AnnotationBundle --------------------------
(***************************************************************************)
(* What becomes of one recording's marks: they are collected when          *)
(* recognition is final, written as a bundle of files whose paths are      *)
(* delivered with the dictation, and the bundle passes from the recording  *)
(* to its conversation (rust/mluva-gtk/src/application/annotations.rs,     *)
(* screen_annotation/session.rs, rust/mluva-core/src/annotations.rs and    *)
(* the start of rust/mluva-workflows/src/services.rs).                     *)
(*                                                                         *)
(* A delivered path is out of Mluva's hands, so the files behind it have   *)
(* to stay where they are for as long as the conversation exists, across   *)
(* a crash between any two of these steps; what was not delivered has to   *)
(* go.  A thread writes the files while the task that asked for them may   *)
(* be dropped and removes the directory under it.                          *)
(*                                                                         *)
(* Drift that is no mark, Incognito (nothing is annotated, and a start in  *)
(* Incognito recovers nothing) and the drawing itself are left out.        *)
(***************************************************************************)
EXTENDS Naturals, FiniteSets

CONSTANTS
    MaxMarks,     \* strokes and pins
    MaxToggles,   \* times the setting is switched off
    MaxExits,     \* ends of the program
    Kill,         \* whether the program may also be killed
    MaxFaults,    \* files, rows or images that cannot be written
    NoneOf        \* what the fields hold before they are set

\* The values the model is meant for.
ConstantsAssumption ==
    {MaxMarks, MaxToggles, MaxExits, MaxFaults} \subseteq Nat /\ Kill \in BOOLEAN

VARIABLES
    up,         \* "up", "closing" or "down"
    phase,      \* "recording", "processing", "delivered", "done" or "cancelled"
    holder,     \* who holds the session: "application", "summary" or "none"
    closed,     \* drawing has ended
    marks,      \* the marks made
    pins,       \* clicks whose pointer is being read
    grabs,      \* marks whose image is under way
    frames,     \* marks whose image was kept
    files,      \* raw images in the runtime directory
    handed,     \* what `collect` returned, NoneOf before
    late,       \* `collect` did not wait to the end
    task,       \* how far the summary is
    writer,     \* how far the thread writing the bundle is
    bundle,     \* what exists of the bundle: "dir" and its files
    row,        \* the owner of the bundle's row: "capture", a conversation, or "none"
    convs,      \* conversations that exist
    told,       \* the summary was delivered with the dictation
    spent       \* how much of each bound is used

capture == <<phase, holder, closed, marks, pins, grabs, frames, files, handed, late>>
writing == <<task, writer>>
stored == <<bundle, row, convs, told>>
vars == <<up, capture, writing, stored, spent>>

Parts == {"dir", "image", "sheet", "data", "summary"}
Conversations == {"own", "recovered", "other"}

Spend(what) == spent' = [spent EXCEPT ![what] = @ + 1]
Fault == spent.faults < MaxFaults /\ Spend("faults")

Init ==
    /\ up = "up" /\ phase = "recording" /\ holder = "application" /\ closed = FALSE
    /\ marks = {} /\ pins = 0 /\ grabs = {} /\ frames = {} /\ files = {}
    /\ handed = NoneOf /\ late = FALSE /\ task = "none" /\ writer = "none"
    /\ bundle = {} /\ row = "none" /\ convs = {"other"} /\ told = FALSE
    /\ spent = [toggles |-> 0, exits |-> 0, faults |-> 0]

---------------------------------------------------------------------------
(* Marks and their images.                                                 *)

Sealed == handed # NoneOf
NewMark == Cardinality(marks) + 1

\* A stroke begins.
Draw ==
    /\ up = "up" /\ holder = "application" /\ ~closed
    /\ Cardinality(marks) + pins < MaxMarks
    /\ marks' = marks \cup {NewMark} /\ grabs' = grabs \cup {NewMark}
    /\ UNCHANGED <<up, phase, holder, closed, pins, frames, files, handed, late, writing, stored,
                   spent>>

\* A click while the key is held; the pointer is read by a call of its own.
Click ==
    /\ up = "up" /\ holder = "application" /\ ~closed
    /\ Cardinality(marks) + pins < MaxMarks
    /\ pins' = pins + 1
    /\ UNCHANGED <<up, phase, holder, closed, marks, grabs, frames, files, handed, late, writing,
                   stored, spent>>

\* The pointer is read, also after Stop: a pin until the marks were handed over.
Pinned ==
    /\ up = "up" /\ pins > 0
    /\ pins' = pins - 1
    /\ \/ /\ ~Sealed /\ holder # "none"
          /\ marks' = marks \cup {NewMark} /\ grabs' = grabs \cup {NewMark}
       \/ UNCHANGED <<marks, grabs>>
    /\ UNCHANGED <<up, phase, holder, closed, frames, files, handed, late, writing, stored, spent>>

\* `captured`: a late image only removes its own file.
Captured(m) ==
    /\ up = "up" /\ m \in grabs
    /\ grabs' = grabs \ {m}
    /\ \/ /\ ~Sealed /\ holder # "none"
          /\ frames' = frames \cup {m} /\ files' = files \cup {m}
       \/ UNCHANGED <<frames, files>>
    /\ UNCHANGED <<up, phase, holder, closed, marks, pins, handed, late, writing, stored, spent>>

---------------------------------------------------------------------------
(* Stop, and the setting.                                                  *)

HasMarks == marks # {} \/ pins > 0

\* `annotation_appendix`: the marks wait for recognition; a recording without marks waits for
\* nothing.
Stop ==
    /\ up = "up" /\ phase = "recording"
    /\ phase' = "processing" /\ closed' = TRUE
    /\ holder' = IF holder # "none" /\ HasMarks THEN "summary" ELSE "none"
    /\ files' = IF holder' = "none" THEN {} ELSE files
    /\ UNCHANGED <<up, marks, pins, grabs, frames, handed, late, writing, stored, spent>>

\* `discard_annotation`.
Cancel ==
    /\ up = "up" /\ phase = "recording"
    /\ phase' = "cancelled" /\ closed' = TRUE /\ holder' = "none" /\ files' = {}
    /\ UNCHANGED <<up, marks, pins, grabs, frames, handed, late, writing, stored, spent>>

\* `set_annotation_enabled(false)`: the frames of every session but the application's go.
SwitchOff ==
    /\ up = "up" /\ spent.toggles < MaxToggles
    /\ Spend("toggles")
    /\ closed' = TRUE
    /\ files' = IF holder = "application" THEN files ELSE {}
    /\ UNCHANGED <<up, phase, holder, marks, pins, grabs, frames, handed, late, writing, stored>>

---------------------------------------------------------------------------
(* The summary, once recognition is final.                                 *)

\* Recognition ends: with text the summary is made, otherwise the marks are discarded.
Recognised ==
    /\ up = "up" /\ phase = "processing" /\ task = "none"
    /\ \/ /\ task' = IF holder = "summary" THEN "collecting" ELSE "without"
          /\ UNCHANGED <<phase, holder, files>>
       \/ /\ phase' = "done" /\ holder' = "none" /\ files' = {}
          /\ UNCHANGED task
    /\ UNCHANGED <<up, closed, marks, pins, grabs, frames, handed, late, writer, stored, spent>>

Idle == grabs = {} /\ pins = 0

TimesOut == ~Idle

\* `collect` waits until nothing is under way, or for `COLLECT_TIMEOUT`.
Collect(timeout) ==
    /\ up = "up" /\ task = "collecting"
    /\ IF timeout THEN TimesOut ELSE Idle
    /\ handed' = [marks |-> marks, frames |-> frames \cap files, unread |-> pins]
    /\ late' = timeout
    /\ task' = IF marks = {} THEN "without" ELSE "reserving"
    /\ UNCHANGED <<up, phase, holder, closed, marks, pins, grabs, frames, files, writer, stored,
                   spent>>

\* `create`: a directory and a row of the recording.
Reserve ==
    /\ up = "up" /\ task = "reserving"
    /\ \/ /\ bundle' = {"dir"} /\ row' = "capture"
          /\ task' = "writing" /\ writer' = "load"
          /\ UNCHANGED spent
       \/ Fault /\ task' = "without" /\ UNCHANGED <<bundle, row, writer>>
    /\ UNCHANGED <<up, capture, convs, told>>

\* The order of `bundle::write`: the summary comes last.
After(part) ==
    CASE part = "images" -> "sheet" [] part = "sheet" -> "data"
      [] part = "data" -> "summary" [] part = "summary" -> "written"

File(part) == IF part = "images" THEN "image" ELSE part

\* The raw frames are read to draw onto them; without one there is no bundle.
Load ==
    /\ up # "down" /\ writer = "load"
    /\ writer' = IF "dir" \in bundle /\ handed.frames # {} /\ handed.frames \subseteq files
                 THEN "images" ELSE "failed"
    /\ UNCHANGED <<up, capture, task, stored, spent>>

\* One file of the bundle.  Nothing makes the directory again once it is gone.
Write ==
    /\ up # "down" /\ writer \in {"images", "sheet", "data", "summary"}
    /\ \/ /\ "dir" \in bundle
          /\ bundle' = bundle \cup {File(writer)} /\ writer' = After(writer)
          /\ UNCHANGED spent
       \/ "dir" \notin bundle /\ writer' = "failed" /\ UNCHANGED <<bundle, spent>>
       \/ "dir" \in bundle /\ Fault /\ writer' = "failed" /\ UNCHANGED bundle
    /\ UNCHANGED <<up, capture, task, row, convs, told>>

\* The task hears of the end of the writing; the session goes.  After a failure `Unfinished`
\* removes the bundle.
Written ==
    /\ up = "up" /\ task = "writing" /\ writer \in {"written", "failed"}
    /\ holder' = "none" /\ files' = {}
    /\ IF writer = "written"
       THEN /\ told' = TRUE /\ task' = "without"
            /\ UNCHANGED <<bundle, row>>
       ELSE /\ bundle' = {} /\ row' = "none" /\ task' = "without"
            /\ UNCHANGED told
    /\ UNCHANGED <<up, phase, closed, marks, pins, grabs, frames, handed, late, writer, convs,
                   spent>>

\* The dictation is delivered and saved in History, which may fail.  Nothing comes between the
\* end of the summary and this.
Deliver ==
    /\ up = "up" /\ phase = "processing" /\ task = "without"
    /\ phase' = "delivered"
    /\ \/ convs' = convs \cup {"own"} /\ UNCHANGED spent
       \/ Fault /\ UNCHANGED convs
    /\ UNCHANGED <<up, holder, closed, marks, pins, grabs, frames, files, handed, late, writing,
                   bundle, row, told>>

\* `capture_completed` gives the bundle to the conversation; a failure leaves it to the next start.
Finish ==
    /\ up = "up" /\ phase = "delivered"
    /\ phase' = "done"
    /\ \/ row' = (IF row = "capture" /\ "own" \in convs THEN "own" ELSE row) /\ UNCHANGED spent
       \/ Fault /\ UNCHANGED row
    /\ UNCHANGED <<up, holder, closed, marks, pins, grabs, frames, files, handed, late, writing,
                   bundle, convs, told>>

---------------------------------------------------------------------------
(* The end of the program, and its next start.                             *)

\* `shutdown`: the recording and its task are dropped.  The task removes its unfinished bundle
\* before it lets go of the session.
Quit ==
    /\ up = "up" /\ spent.exits < MaxExits
    /\ Spend("exits")
    /\ up' = "closing" /\ closed' = TRUE
    /\ IF task = "writing"
       THEN task' = "deleting" /\ UNCHANGED <<holder, files>>
       ELSE task' = "dropped" /\ holder' = "none" /\ files' = {}
    /\ UNCHANGED <<phase, marks, pins, grabs, frames, handed, late, writer, stored>>

\* `delete` removes what it finds in the directory,
Empties ==
    /\ up = "closing" /\ task = "deleting"
    /\ bundle' = bundle \cap {"dir"} /\ task' = "removing"
    /\ UNCHANGED <<up, capture, writer, row, convs, told, spent>>

RowAfter == IF bundle = {"dir"} THEN "none" ELSE row

\* and then the directory, which fails when the thread has written a file meanwhile; the row
\* goes only after the directory.
Removes ==
    /\ up = "closing" /\ task = "removing"
    /\ task' = "dropped"
    /\ bundle' = IF bundle = {"dir"} THEN {} ELSE bundle
    /\ row' = RowAfter
    /\ holder' = "none" /\ files' = {}
    /\ UNCHANGED <<up, phase, closed, marks, pins, grabs, frames, handed, late, writer, convs, told,
                   spent>>

Gone ==
    /\ up' = "down"
    /\ closed' = TRUE /\ holder' = "none" /\ pins' = 0 /\ grabs' = {}
    /\ task' = "dropped" /\ writer' = "none"
    /\ UNCHANGED <<phase, marks, frames, files, handed, late, stored>>

Exit ==
    /\ up = "closing" /\ task = "dropped"
    /\ Gone
    /\ UNCHANGED spent

Crash ==
    /\ Kill /\ up # "down" /\ spent.exits < MaxExits
    /\ Spend("exits")
    /\ Gone

\* `is_complete`: the summary is written last, and every keyframe is there.
Complete == {"summary", "data", "image"} \subseteq bundle

\* `ServiceContainer::open`: a complete bundle may have been delivered and gets a conversation
\* of its own; any other is removed.  The raw frames left behind go.
Restart ==
    /\ up = "down"
    /\ up' = "up"
    /\ files' = {}
    /\ phase' = IF phase \in {"recording", "processing", "delivered"} THEN "done" ELSE phase
    /\ \/ /\ row = "capture" /\ Complete
          /\ convs' = convs \cup {"recovered"} /\ row' = "recovered"
          /\ UNCHANGED bundle
       \/ /\ row = "capture" /\ ~Complete
          /\ bundle' = {} /\ row' = "none"
          /\ UNCHANGED convs
       \/ row # "capture" /\ UNCHANGED <<bundle, row, convs>>
    /\ UNCHANGED <<holder, closed, marks, pins, grabs, frames, handed, late, writing, told, spent>>

---------------------------------------------------------------------------
(* History.                                                                *)

\* `merge` moves the bundle into another conversation,
Merge ==
    /\ up = "up" /\ "other" \in convs /\ row \in {"own", "recovered"}
    /\ row' = "other"
    /\ convs' = convs \ {row}
    /\ UNCHANGED <<up, capture, writing, bundle, told, spent>>

\* and deletion takes it along.
Delete(c) ==
    /\ up = "up" /\ c \in convs /\ phase \in {"done", "cancelled"}
    /\ convs' = convs \ {c}
    /\ IF row = c THEN bundle' = {} /\ row' = "none" ELSE UNCHANGED <<bundle, row>>
    /\ told' = (told /\ row # c)
    /\ UNCHANGED <<up, capture, writing, spent>>

Next ==
    \/ Draw \/ Click \/ Pinned \/ (\E m \in grabs : Captured(m))
    \/ Stop \/ Cancel \/ SwitchOff
    \/ Recognised \/ (\E timeout \in BOOLEAN : Collect(timeout)) \/ Reserve \/ Load \/ Write \/ Written
    \/ Deliver \/ Finish
    \/ Quit \/ Empties \/ Removes \/ Exit \/ Crash \/ Restart
    \/ Merge \/ (\E c \in Conversations : Delete(c))

\* Recognition, the timeout of `collect`, the writing thread and the program's tasks go on.
Fairness ==
    /\ WF_vars(Recognised) /\ WF_vars(\E timeout \in BOOLEAN : Collect(timeout))
    /\ WF_vars(Reserve) /\ WF_vars(Load \/ Write) /\ WF_vars(Written) /\ WF_vars(Deliver) /\ WF_vars(Finish)

Spec == Init /\ [][Next]_vars /\ Fairness

---------------------------------------------------------------------------
(* Properties.                                                             *)

TypeOK ==
    /\ ConstantsAssumption
    /\ up \in {"up", "closing", "down"}
    /\ phase \in {"recording", "processing", "delivered", "done", "cancelled"}
    /\ holder \in {"application", "summary", "none"} /\ {closed, late, told} \subseteq BOOLEAN
    /\ marks \subseteq 1 .. MaxMarks /\ pins \in 0 .. MaxMarks
    /\ {grabs, frames, files} \subseteq SUBSET marks
    /\ handed # NoneOf => handed.marks \subseteq marks /\ handed.frames \subseteq handed.marks
    /\ task \in {"none", "collecting", "without", "reserving", "writing", "deleting", "removing",
                 "dropped"}
    /\ writer \in {"none", "load", "images", "sheet", "data", "summary", "written", "failed"}
    /\ bundle \subseteq Parts
    /\ row \in {"none", "capture"} \cup Conversations /\ convs \subseteq Conversations
    /\ spent \in [toggles : 0 .. MaxToggles, exits : 0 .. MaxExits, faults : 0 .. MaxFaults]
    \* Raw images outlive their session only while the program is down.
    /\ holder = "none" /\ up # "down" => files = {}

\* The paths of a delivered summary stay valid until its conversation is deleted, through any
\* crash, failed binding, recovery and merge.
DeliveredPathsStand == told => bundle = Parts /\ row # "none"

\* A bundle that a conversation owns is whole, and its conversation exists.
OwnedIsWhole == row \in Conversations => bundle = Parts /\ row \in convs

\* No directory is left without a row by which a later start or deletion would find it.
NoOrphanBundle == bundle # {} => row # "none"

\* Whatever was marked or clicked before Stop is in what the bundle is written from, unless the
\* wait for it ran into its timeout.
EveryMarkIsHanded ==
    Sealed /\ ~late => handed.unread = 0 /\ (up = "up" => handed.marks = marks)

\* The raw images a bundle is drawn from are there until they were read.
FramesStand ==
    up = "up" /\ task \in {"reserving", "writing"} /\ writer \in {"none", "load"}
        => handed.frames \subseteq files

\* An image that never ends does not keep the dictation.
Delivers == (phase = "processing" /\ up = "up") ~> (phase = "done" \/ up # "up")

\* "A bundle interrupted by quitting is removed, never recovered as a conversation."
\* (docs/screen-annotation.md)
QuitLeavesNothing == "recovered" \in convs => told
=============================================================================
