------------------------------- MODULE Meeting -------------------------------
(***************************************************************************)
(* A Meeting from the press to its archive (mluva-gtk/src/                 *)
(* meeting_controller.rs, mluva-workflows/src/meeting*.rs, mluva-audio/src/*)
(* meeting_capture.rs, mluva-core/src/meeting.rs).  Each session has a     *)
(* start, a finish and a close that take its operation lock in any order,  *)
(* while the controller shows the session it last started.                 *)
(*                                                                         *)
(* The two PipeWire streams are one recording.  What is said, its          *)
(* insights, exports and the clock are left out; so is a repaired archive. *)
(***************************************************************************)
EXTENDS Naturals, Sequences, FiniteSets

CONSTANTS
    Meetings,    \* 1..n, in the order they start
    MaxMeetings, \* how many the archive keeps
    MaxTitles,   \* bound: titles the person saves
    MaxRetries,  \* bound: retries
    MaxFailures, \* bound: recorder, recognition and disk failures
    Kill         \* the program may be killed

ASSUME MeetingAssumption ==
    /\ Meetings \subseteq Nat \ {0}
    /\ MaxMeetings \in Nat \ {0}
    /\ {MaxTitles, MaxRetries, MaxFailures} \subseteq Nat /\ Kill \in BOOLEAN

VARIABLES
    ctl,   \* the controller: [active, processing, cancelling, closed, waiting, retry, quit]
    ses,   \* the sessions
    disk,  \* the audio of each meeting: "none", "parts", "audio"
    index, \* the archive, newest first: [id, done, title]
    retry, \* the retry under way: [at, row, cut]
    sent,  \* meetings whose audio was uploaded
    notice, \* what the person was last told of each meeting
    title, \* the title last saved for each meeting
    used

meetingVars == <<ctl, ses, disk, index, retry, sent, notice, title, used>>

NoSession == [phase |-> "preparing", private |-> FALSE, cut |-> FALSE, lock |-> "free", start |-> "no",
              finish |-> "no", close |-> "no", recorder |-> "new", kept |-> FALSE]
NoRetry == [at |-> "no", row |-> [id |-> 0, done |-> FALSE, title |-> 0], cut |-> FALSE]
Idle == [active |-> 0, processing |-> FALSE, cancelling |-> FALSE, closed |-> FALSE, waiting |-> FALSE,
         retry |-> 0, quit |-> FALSE]

MeetingInit ==
    /\ ctl = Idle /\ ses = [m \in Meetings |-> NoSession] /\ disk = [m \in Meetings |-> "none"]
    /\ index = <<>> /\ retry = NoRetry /\ sent = {} /\ notice = [m \in Meetings |-> "nothing"]
    /\ title = [m \in Meetings |-> 0] /\ used = [faults |-> 0, retries |-> 0, titles |-> 0, kills |-> 0]

Use(what) == used' = [used EXCEPT ![what] = @ + 1]
MayFail == used.faults < MaxFailures
Rows == {index[i] : i \in DOMAIN index}
RowOf(m) == {r \in Rows : r.id = m}
Tell(m, what) == notice' = [notice EXCEPT ![m] = what]
archive == <<disk, index, sent>>
person == <<notice, title>>

\* MeetingController::phase, busy and owns.
Phase == IF ctl.processing THEN "processing" ELSE IF ctl.active = 0 THEN "none" ELSE ses[ctl.active].phase
Owns(m) == ~ ctl.closed /\ ctl.active = m
Reset == [Idle EXCEPT !.closed = ctl.closed, !.waiting = ctl.waiting]

-----------------------------------------------------------------------------
\* The controller.

New == {m \in Meetings : ses[m].start = "no" /\ \A k \in Meetings : k < m => ses[k].start # "no"}

\* start: launch freezes the privacy of the session.
Starts(m, private) ==
    /\ ctl' = [ctl EXCEPT !.active = m, !.waiting = FALSE]
    /\ ses' = [ses EXCEPT ![m].start = "queued", ![m].private = private]
    /\ UNCHANGED <<archive, retry, person, used>>

\* toggle with nothing recorded: at once, or when a spoken update that played is reaped.
Free == ~ ctl.closed /\ ctl.active = 0 /\ ctl.retry = 0 /\ Phase # "processing"
TogglesOn ==
    /\ Free /\ ~ ctl.waiting
    /\ \/ \E m \in New, private \in BOOLEAN : Starts(m, private)
       \/ ctl' = [ctl EXCEPT !.waiting = TRUE] /\ UNCHANGED <<ses, archive, retry, person, used>>
PlaybackEnds ==
    /\ ctl.waiting /\ ~ ctl.closed
    /\ IF ctl.retry # 0 \/ ctl.active # 0 \/ New = {}
       THEN ctl' = [ctl EXCEPT !.waiting = FALSE] /\ UNCHANGED <<ses, archive, retry, person, used>>
       ELSE \E m \in New, private \in BOOLEAN : Starts(m, private)
TogglesWaiting ==
    /\ ctl.waiting /\ ~ ctl.closed /\ ctl' = [ctl EXCEPT !.waiting = FALSE]
    /\ UNCHANGED <<ses, archive, retry, person, used>>

\* stop.
StopMeeting ==
    /\ ~ ctl.closed /\ ~ ctl.waiting /\ ctl.retry = 0 /\ Phase = "recording"
    /\ ctl' = [ctl EXCEPT !.processing = TRUE]
    /\ ses' = [ses EXCEPT ![ctl.active].finish = "queued"]
    /\ UNCHANGED <<archive, retry, person, used>>

\* cancel: only a Meeting that still prepares or records; its close follows.
Cancellable == Phase \in {"preparing", "recording"}
Cancel ==
    /\ ~ ctl.closed /\ ~ ctl.cancelling /\ Cancellable
    /\ ctl' = [ctl EXCEPT !.cancelling = TRUE]
    /\ ses' = [ses EXCEPT ![ctl.active].cut = TRUE, ![ctl.active].close = "queued"]
    /\ UNCHANGED <<archive, retry, person, used>>

\* What follows the tasks, for the session that is still the active one.
StartSeen(m) ==
    /\ ses[m].start \in {"ready", "failed"}
    /\ ses' = [ses EXCEPT ![m].start = "seen"]
    /\ IF Owns(m) /\ ~ ctl.cancelling /\ ses[m].start = "failed"
       THEN ctl' = Reset /\ Tell(m, "not started") /\ UNCHANGED title
       ELSE UNCHANGED <<ctl, person>>
    /\ UNCHANGED <<archive, retry, used>>

FinishSeen(m) ==
    /\ ses[m].finish \in {"saved", "kept", "erased"}
    /\ ses' = [ses EXCEPT ![m].finish = "seen"]
    /\ IF Owns(m) THEN ctl' = Reset /\ Tell(m, ses[m].finish) /\ UNCHANGED title
       ELSE UNCHANGED <<ctl, person>>
    /\ UNCHANGED <<archive, retry, used>>

CloseSeen(m) ==
    /\ ses[m].close = "closed"
    /\ ses' = [ses EXCEPT ![m].close = "seen"]
    /\ IF Owns(m) THEN ctl' = Reset /\ Tell(m, "cancelled") /\ UNCHANGED title
       ELSE UNCHANGED <<ctl, person>>
    /\ UNCHANGED <<archive, retry, used>>

-----------------------------------------------------------------------------
\* The tasks of a session, under its operation lock.

Release(s) == [s EXCEPT !.lock = "free"]
\* recorder.close(): the owner's thread erases what it recorded and nobody kept.
Closed(s) == [s EXCEPT !.recorder = "closed"]
Erased(m) == IF ses[m].kept THEN disk ELSE [disk EXCEPT ![m] = "none"]
Step(m, s) == ses' = [ses EXCEPT ![m] = s]

StartLocks(m) ==
    /\ ses[m].start = "queued" /\ ses[m].lock = "free"
    /\ Step(m, IF ses[m].cut THEN [ses[m] EXCEPT !.start = "failed"] ELSE [ses[m] EXCEPT !.start = "opening", !.lock = "start"])
    /\ UNCHANGED <<ctl, archive, retry, person, used>>

\* prepare_destination and recorder.start, which the cancellation does not interrupt.
StartOpens(m) ==
    /\ ses[m].start = "opening"
    /\ \/ /\ ses[m].cut
          /\ Step(m, Release(Closed([ses[m] EXCEPT !.start = "failed", !.phase = "cancelled"])))
          /\ UNCHANGED <<disk, used>>
       \/ /\ ~ ses[m].cut /\ ses[m].recorder # "closed"
          /\ Step(m, [ses[m] EXCEPT !.start = "opened", !.recorder = "recording"])
          /\ disk' = [disk EXCEPT ![m] = "parts"] /\ UNCHANGED used
       \/ /\ MayFail /\ Use("faults")
          /\ Step(m, Release(Closed([ses[m] EXCEPT !.start = "failed", !.phase = "failed"])))
          /\ UNCHANGED disk
    /\ UNCHANGED <<ctl, index, sent, retry, person>>
StartEnds(m) ==
    /\ ses[m].start = "opened"
    /\ IF ses[m].cut
       THEN /\ Step(m, Release(Closed([ses[m] EXCEPT !.start = "failed", !.phase = "cancelled"])))
            /\ disk' = Erased(m)
       ELSE Step(m, Release([ses[m] EXCEPT !.start = "ready", !.phase = "recording"])) /\ UNCHANGED disk
    /\ UNCHANGED <<ctl, index, sent, retry, person, used>>

FinishLocks(m) ==
    /\ ses[m].finish = "queued" /\ ses[m].lock = "free"
    /\ Step(m, IF ses[m].phase = "recording"
               THEN [ses[m] EXCEPT !.finish = "stopping", !.phase = "processing", !.lock = "finish"]
               ELSE [ses[m] EXCEPT !.finish = "erased"])
    /\ UNCHANGED <<ctl, archive, retry, person, used>>

\* recorder.stop() mixes what the streams have; neither may be usable.
FinishStops(m) ==
    /\ ses[m].finish = "stopping"
    /\ \/ /\ Step(m, [ses[m] EXCEPT !.finish = "stopped", !.recorder = "stopped"])
          /\ disk' = [disk EXCEPT ![m] = "audio"] /\ UNCHANGED used
       \/ /\ MayFail /\ Use("faults")
          /\ Step(m, Release(Closed([ses[m] EXCEPT !.finish = "erased", !.phase = "failed"])))
          /\ disk' = Erased(m)
    /\ UNCHANGED <<ctl, index, sent, retry, person>>

\* The cancellation comes first in the select; then the audio goes to the provider.
CutFirstNever(m) == FALSE
CutFirst(m) == ses[m].cut
FinishSends(m) ==
    /\ ses[m].finish = "stopped"
    /\ IF CutFirst(m)
       THEN /\ Step(m, Release(Closed([ses[m] EXCEPT !.finish = "erased", !.phase = "cancelled"])))
            /\ disk' = Erased(m) /\ UNCHANGED sent
       ELSE Step(m, [ses[m] EXCEPT !.finish = "sending"]) /\ sent' = sent \cup {m} /\ UNCHANGED disk
    /\ UNCHANGED <<ctl, index, retry, person, used>>

\* MeetingStore::save: the row takes its place or the front, and the oldest goes with its recording.
Saved(row) ==
    LET all == IF RowOf(row.id) # {} THEN [i \in DOMAIN index |-> IF index[i].id = row.id THEN row ELSE index[i]]
               ELSE <<row>> \o index
    IN  SubSeq(all, 1, IF Len(all) < MaxMeetings THEN Len(all) ELSE MaxMeetings)
Kept(rows, m) == \E i \in DOMAIN rows : rows[i].id = m
DeletedBeyond(rows, d) == [m \in Meetings |-> IF RowOf(m) # {} /\ ~ Kept(rows, m) THEN "none" ELSE d[m]]

\* complete returns: a transcript or a failed row is saved and the recorder gives the audio up, before
\* the recorder closes; Incognito saves nothing.
FinishReturns(m) ==
    /\ ses[m].finish = "sending" /\ ~ ses[m].cut
    /\ \E done \in BOOLEAN, written \in BOOLEAN :
        LET private == ses[m].private
            rows == Saved([id |-> m, done |-> done, title |-> 0])
            over == [ses[m] EXCEPT !.finish = IF private THEN "erased" ELSE IF written THEN "saved" ELSE "kept",
                                   !.phase = IF done /\ written THEN "completed" ELSE "failed", !.kept = ~ private]
        IN  /\ private => written
            /\ IF done /\ written THEN UNCHANGED used ELSE MayFail /\ Use("faults")
            /\ Step(m, Release(Closed(over)))
            /\ index' = IF written /\ ~ private THEN rows ELSE index
            /\ disk' = IF private THEN [disk EXCEPT ![m] = "none"]
                       ELSE IF written THEN DeletedBeyond(rows, disk) ELSE disk
    /\ UNCHANGED <<ctl, sent, retry, person>>

FinishCut(m) ==
    /\ ses[m].finish = "sending" /\ ses[m].cut
    /\ Step(m, Release(Closed([ses[m] EXCEPT !.finish = "erased", !.phase = "cancelled"])))
    /\ disk' = Erased(m)
    /\ UNCHANGED <<ctl, index, sent, retry, person, used>>

CloseRuns(m) ==
    /\ ses[m].close = "queued" /\ ses[m].lock = "free"
    /\ Step(m, Closed([ses[m] EXCEPT !.close = "closed", !.phase = "closed"]))
    /\ disk' = IF ses[m].recorder \in {"recording", "stopped"} THEN Erased(m) ELSE disk
    /\ UNCHANGED <<ctl, index, sent, retry, person, used>>

-----------------------------------------------------------------------------
\* The archive.

\* retry_record: the button is there for a failed row with a recording.
Retry(row) ==
    /\ ~ ctl.closed /\ ctl.active = 0 /\ ctl.retry = 0 /\ retry.at = "no" /\ used.retries < MaxRetries
    /\ Use("retries")
    /\ row \in Rows /\ ~ row.done /\ disk[row.id] = "audio"
    /\ ctl' = [ctl EXCEPT !.retry = row.id]
    /\ retry' = [NoRetry EXCEPT !.at = "queued", !.row = row]
    /\ UNCHANGED <<ses, archive, person>>

\* MeetingWorkflow::retry reads the row and its recording when it runs.
RetryReads ==
    /\ retry.at = "queued"
    /\ retry' = IF retry.cut \/ RowOf(retry.row.id) = {} \/ disk[retry.row.id] # "audio"
                THEN [retry EXCEPT !.at = "over"]
                ELSE [retry EXCEPT !.at = "sending", !.row = CHOOSE r \in RowOf(retry.row.id) : TRUE]
    /\ UNCHANGED <<ctl, ses, archive, person, used>>

RetryReturns ==
    /\ retry.at = "sending" /\ retry' = [retry EXCEPT !.at = "over"]
    /\ \/ /\ ~ retry.cut
          /\ index' = Saved([retry.row EXCEPT !.done = TRUE])
          /\ disk' = DeletedBeyond(index', disk) /\ UNCHANGED used
       \/ MayFail /\ Use("faults") /\ UNCHANGED <<index, disk>>
       \/ retry.cut /\ UNCHANGED <<index, disk, used>>
    /\ UNCHANGED <<ctl, ses, sent, person>>

RetrySeen ==
    /\ retry.at = "over" /\ retry' = NoRetry
    /\ ctl' = IF ~ ctl.closed THEN Reset ELSE ctl
    /\ UNCHANGED <<ses, archive, person, used>>

Rename(m) ==
    /\ ~ ctl.closed /\ RowOf(m) # {} /\ used.titles < MaxTitles /\ Use("titles")
    /\ LET row == CHOOSE r \in RowOf(m) : TRUE IN
       /\ index' = Saved([row EXCEPT !.title = used.titles + 1])
       /\ title' = [title EXCEPT ![m] = used.titles + 1]
    /\ UNCHANGED <<ctl, ses, disk, sent, retry, notice>>

\* MeetingStore::delete keeps every other row, in its order: one at most is of the meeting.
Without(m) ==
    LET i == CHOOSE i \in DOMAIN index : index[i].id = m
    IN  SubSeq(index, 1, i - 1) \o SubSeq(index, i + 1, Len(index))
\* delete waits for the retry of its row.
Deletable(m) == ctl.retry # m
Delete(m) ==
    /\ ~ ctl.closed /\ RowOf(m) # {} /\ Deletable(m)
    /\ index' = Without(m)
    /\ disk' = [disk EXCEPT ![m] = "none"]
    /\ Tell(m, "deleted")
    /\ UNCHANGED <<ctl, ses, sent, retry, title, used>>

-----------------------------------------------------------------------------

\* shutdown: the active session is cut and closed, the retry is cut, and the program waits for both.
Shutdown ==
    /\ ~ ctl.closed
    /\ ctl' = [ctl EXCEPT !.closed = TRUE, !.waiting = FALSE, !.active = 0, !.retry = 0]
    /\ ses' = [m \in Meetings |-> IF m = ctl.active
                  THEN [ses[m] EXCEPT !.cut = TRUE, !.close = IF @ = "no" THEN "queued" ELSE @] ELSE ses[m]]
    /\ retry' = IF ctl.retry # 0 THEN [retry EXCEPT !.cut = TRUE] ELSE retry
    /\ UNCHANGED <<archive, person, used>>

Quits ==
    /\ ctl.closed /\ ~ ctl.quit
    /\ \A m \in Meetings : ses[m].close # "queued"
    /\ retry.at \notin {"queued", "sending"}
    /\ ctl' = [ctl EXCEPT !.quit = TRUE]
    /\ UNCHANGED <<ses, archive, retry, person, used>>

\* The program dies; the memory of Incognito goes with it, and what it recorded so far stays.
Killed ==
    /\ Kill /\ ~ ctl.quit /\ Use("kills")
    /\ ctl' = [Idle EXCEPT !.closed = TRUE, !.quit = TRUE] /\ retry' = NoRetry
    /\ ses' = [m \in Meetings |-> [NoSession EXCEPT !.start = "seen", !.private = ses[m].private]]
    /\ disk' = [m \in Meetings |-> IF ses[m].private THEN "none" ELSE disk[m]]
    /\ UNCHANGED <<index, sent, person>>

MeetingNext ==
    \/ TogglesOn \/ TogglesWaiting \/ PlaybackEnds \/ StopMeeting \/ Cancel \/ RetryReads \/ RetryReturns \/ RetrySeen
    \/ Shutdown \/ Quits \/ Killed
    \/ \E r \in Rows : Retry(r)
    \/ \E m \in Meetings :
        \/ StartSeen(m) \/ FinishSeen(m) \/ CloseSeen(m)
        \/ StartLocks(m) \/ StartOpens(m) \/ StartEnds(m)
        \/ FinishLocks(m) \/ FinishStops(m) \/ FinishSends(m) \/ FinishReturns(m) \/ FinishCut(m)
        \/ CloseRuns(m) \/ Rename(m) \/ Delete(m)

MeetingSpec == MeetingInit /\ [][MeetingNext]_meetingVars

-----------------------------------------------------------------------------

MeetingTypeOK ==
    /\ ctl.active \in {0} \cup Meetings /\ ctl.retry \in {0} \cup Meetings
    /\ index \in Seq([id : Meetings, done : BOOLEAN, title : Nat]) /\ Len(index) <= MaxMeetings
    /\ disk \in [Meetings -> {"none", "parts", "audio"}] /\ sent \subseteq Meetings

AtRest(m) ==
    /\ ses[m].lock = "free" /\ ses[m].start # "queued" /\ ses[m].finish # "queued" /\ ses[m].close # "queued"

\* Every row of the archive has its recording; what the person was told cancelled was neither uploaded
\* nor kept; Incognito leaves nothing; and outside a kill, audio that stays is in the archive or was
\* named to the person.
AudioIsAccounted ==
    /\ \A r \in Rows : disk[r.id] = "audio"
    /\ \A m \in Meetings : notice[m] = "cancelled" => m \notin sent /\ disk[m] = "none" /\ RowOf(m) = {}
    /\ \A m \in Meetings : AtRest(m) /\ ses[m].private /\ ses[m].phase \notin {"preparing", "recording"} =>
        disk[m] = "none" /\ RowOf(m) = {}
    /\ \A m \in Meetings :
        used.kills = 0 /\ AtRest(m) /\ ses[m].phase # "recording" /\ disk[m] # "none" /\ RowOf(m) = {} =>
            ses[m].finish = "kept" \/ notice[m] = "kept" \/ ctl.closed

\* "Closing waits for that owner, so it cannot erase indexed audio or allow a later terminal phase/index
\* write after shutdown has completed" (meeting_session.rs).
QuitIsQuiet == ctl.quit => \A m \in Meetings : ses[m].lock = "free" /\ ses[m].recorder # "recording"

\* A meeting: its audio is accounted for, and quitting leaves nothing running.
MeetingsStand == AudioIsAccounted /\ QuitIsQuiet

\* "Meeting title saved." (meeting_view.rs:409): the row keeps the title that was saved last.
SavedTitleStays == \A r \in Rows : r.title = title[r.id]
=============================================================================
