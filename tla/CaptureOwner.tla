---------------------------- MODULE CaptureOwner ----------------------------
(***************************************************************************)
(* Who may open a microphone.  The application (application/lifecycle.rs)  *)
(* and the Meeting controller (meeting_controller.rs) each open one only   *)
(* after the spoken update that may be playing was cancelled and its       *)
(* player reaped; until then a request waits, behind one flag per owner.   *)
(* The spoken updates (agent_voice_controller.rs with spoken_reply.rs) are *)
(* modelled as jobs that wait for the one before them.                     *)
(*                                                                         *)
(* One action is one handler on GTK's main thread.  The attempt is only    *)
(* its phase here: AgentRoute has what becomes of its message.  The wheel  *)
(* is left out: it is hidden whenever a dictation request waits.           *)
(***************************************************************************)
EXTENDS Integers, FiniteSets

CONSTANTS
    MaxSpeech,      \* bound: spoken updates started
    MaxRequests,    \* bound: captures asked for, of any kind
    MaxAttempts     \* bound: agent attempts begun

ASSUME CaptureOwnerAssumption ==
    MaxSpeech \in Nat /\ MaxRequests \in Nat /\ MaxAttempts \in Nat

VARIABLES
    jobs,       \* the spoken updates, by number
    spoken,     \* the newest of them: `speech`
    attempt,    \* the agent attempt and its phase
    cap,        \* the dictation capture and the attempt it belongs to
    meeting,    \* a Meeting holds its microphone
    waiting,    \* capture_audio_waiting: a dictation request waits
    deferred,   \* waiting_playback: a Meeting request waits
    requests,   \* the tasks that await the end of a spoken update
    closed

\* History variables.
VARIABLES
    asked,      \* captures asked for so far
    begun,      \* agent attempts begun so far
    wanted      \* the dictation request the flag was raised for

speech  == <<jobs, spoken>>
flags   == <<waiting, deferred, requests>>
history == <<asked, wanted>>
vars == <<speech, attempt, begun, cap, meeting, flags, closed, history>>

Nobody == 0
Job == 1..MaxSpeech
Stage == {"none", "queued", "fetching", "playing", "done"}
Phase == {"None", "Recording", "Finalizing", "Grace", "Submitting", "Over"}
CapturePhase == {"None", "Preparing", "Recording", "Processing", "Cancelling"}
Request == [n : 1..MaxRequests, by : {"dictation", "agent", "meeting"},
            id : 0..MaxAttempts, on : Job]
NoJob == [stage |-> "none", cancelled |-> FALSE, prior |-> Nobody]
NoCapture == [phase |-> "None", agent |-> Nobody]

Init ==
    /\ jobs = [j \in Job |-> NoJob] /\ spoken = 0
    /\ attempt = [id |-> Nobody, phase |-> "None"] /\ begun = 0
    /\ cap = NoCapture /\ meeting = FALSE
    /\ waiting = FALSE /\ deferred = FALSE /\ requests = {}
    /\ closed = FALSE
    /\ asked = 0 /\ wanted = Nobody

-----------------------------------------------------------------------------
(* The attempt, as far as a capture knows it                                *)

Pending == {"Recording", "Finalizing", "Grace"}

Disarmed(a) == IF a.phase = "Grace" THEN [a EXCEPT !.phase = "Over"] ELSE a
Released(a) == IF a.phase = "Recording" THEN [a EXCEPT !.phase = "Finalizing"] ELSE a

Abandoned(a) == IF a.phase \in Pending THEN [a EXCEPT !.phase = "Over"] ELSE a

\* `leave_for_capture`: an ordinary recording forgets all but a delivery.
LeftForCapture(a) ==
    IF a.phase = "Submitting" THEN a ELSE [id |-> Nobody, phase |-> "None"]

-----------------------------------------------------------------------------
(* Spoken updates                                                           *)

Unfinished(j) == jobs[j].stage \in {"queued", "fetching", "playing"}
Speaking == spoken # Nobody /\ Unfinished(spoken)

\* Mutated: the job is asked for and not cancelled.
SilencedLater == jobs

\* `stop_voice` cancels the newest job; the older ones were cancelled before it began.
Silenced == IF spoken = Nobody THEN jobs ELSE [jobs EXCEPT ![spoken].cancelled = TRUE]

MeetingBusy == deferred \/ meeting
CaptureBusy == cap.phase # "None" \/ waiting \/ MeetingBusy

\* `speak_visible`, for a status change or on request.
Speak ==
    /\ ~closed /\ ~CaptureBusy /\ spoken < MaxSpeech
    /\ attempt.phase \notin Pending \cup {"Submitting"}
    /\ spoken' = spoken + 1
    /\ jobs' = [Silenced EXCEPT ![spoken + 1] =
                    [stage |-> IF Speaking THEN "queued" ELSE "fetching",
                     cancelled |-> FALSE,
                     prior |-> IF Speaking THEN spoken ELSE Nobody]]
    /\ UNCHANGED <<attempt, begun, cap, meeting, flags, closed, history>>

JobMoves(j, stage) ==
    /\ jobs' = [jobs EXCEPT ![j].stage = stage]
    /\ UNCHANGED <<spoken, attempt, begun, cap, meeting, flags, closed, history>>

PriorEnded(j) ==
    jobs[j].stage = "queued" /\ jobs[jobs[j].prior].stage = "done" /\ JobMoves(j, "fetching")

\* The player starts with the first audio unless a cancellation came before it.
StartPlayer(j) == jobs[j].stage = "fetching" /\ ~jobs[j].cancelled /\ JobMoves(j, "playing")

\* It ended, failed or was cancelled, and its player is reaped: `done`.
EndSpeech(j) == jobs[j].stage \in {"fetching", "playing"} /\ JobMoves(j, "done")

\* The dropdown and `agents select` (which disarm as well), the mute button, opening
\* the wheel.
Silence(disarms) ==
    /\ ~closed /\ Speaking
    /\ jobs' = Silenced
    /\ attempt' = IF disarms THEN Disarmed(attempt) ELSE attempt
    /\ UNCHANGED <<spoken, begun, cap, meeting, flags, closed, history>>

-----------------------------------------------------------------------------
(* A dictation request: the tail of `toggle_recording` with no capture      *)

\* What waited is taken back by lowering the flag; so is it when it goes on.
Lower == waiting' = FALSE /\ wanted' = Nobody

\* Mutated: the refusal returns before the flag is lowered.
RefuseFlagged(rest) ==
    /\ requests' = rest
    /\ UNCHANGED <<jobs, cap, waiting, wanted>>

\* Not ready, a retry or a Meeting in the way, or the agent attempt is over.
Refuse(rest) ==
    /\ Lower /\ requests' = rest
    /\ UNCHANGED <<jobs, cap>>

\* Mutated: the capture opens while the cancelled player is still being reaped.
BeginAtOnce(by, id, n, rest) ==
    /\ jobs' = Silenced /\ Lower /\ requests' = rest
    /\ \/ cap' = [phase |-> "Preparing", agent |-> id]
       \/ UNCHANGED cap

\* Request n waits for the newest spoken update, or opens now, or cannot be prepared.
Begin(by, id, n, rest) ==
    \/ /\ Speaking /\ jobs' = Silenced
       /\ waiting' = TRUE /\ wanted' = n
       /\ requests' = rest \cup {[n |-> n, by |-> by, id |-> id, on |-> spoken]}
       /\ UNCHANGED cap
    \/ /\ ~Speaking /\ Lower /\ requests' = rest
       /\ \/ cap' = [phase |-> "Preparing", agent |-> id]
          \/ UNCHANGED cap
       /\ UNCHANGED jobs

\* The record key, button or command, for every kind of capture but an agent's.
Record ==
    /\ ~closed /\ cap.phase = "None"
    /\ \/ waiting /\ Lower /\ UNCHANGED <<jobs, attempt, cap, requests, asked>>
       \/ /\ ~waiting /\ asked < MaxRequests /\ asked' = asked + 1
          /\ \/ Refuse(requests) /\ UNCHANGED attempt
             \/ /\ ~MeetingBusy
                /\ attempt' = LeftForCapture(attempt)
                /\ Begin("dictation", Nobody, asked + 1, requests)
    /\ UNCHANGED <<spoken, begun, meeting, deferred, closed>>

\* `agent_press`; a flag it finds raised is an ordinary request's, which it lowers.
AgentPress ==
    LET id  == begun + 1
        new == [id |-> id, phase |-> "Recording"]
    IN  /\ ~closed /\ cap.phase = "None" /\ ~MeetingBusy
        /\ attempt.phase \notin Pending \cup {"Submitting"}
        /\ begun < MaxAttempts /\ begun' = id
        /\ \/ /\ waiting /\ Lower /\ attempt' = Abandoned(new)
              /\ UNCHANGED <<jobs, cap, requests, asked>>
           \/ /\ ~waiting /\ asked < MaxRequests /\ asked' = asked + 1
              /\ Begin("agent", id, asked + 1, requests)
              /\ attempt' = IF waiting' \/ cap'.phase # "None" THEN new ELSE Abandoned(new)
        /\ UNCHANGED <<spoken, meeting, deferred, closed>>

\* Mutated: a Meeting that began to wait meanwhile is not asked.
ResumeOverMeeting(r) ==
    /\ ~closed /\ waiting
    /\ r.by = "agent" => attempt = [id |-> r.id, phase |-> "Recording"]
    /\ attempt' = IF r.by = "agent" THEN attempt ELSE LeftForCapture(attempt)
    /\ Begin(r.by, r.id, r.n, requests \ {r})
    /\ UNCHANGED <<spoken, begun, meeting, deferred, closed, asked>>

\* The waiting task finds the flag raised and asks again.
Resume(r) ==
    /\ ~closed /\ waiting
    /\ ~MeetingBusy
    /\ r.by = "agent" => attempt = [id |-> r.id, phase |-> "Recording"]
    /\ attempt' = IF r.by = "agent" THEN attempt ELSE LeftForCapture(attempt)
    /\ Begin(r.by, r.id, r.n, requests \ {r})
    /\ UNCHANGED <<spoken, begun, meeting, deferred, closed, asked>>

ResumeRefused(r) ==
    /\ ~closed /\ waiting
    /\ Refuse(requests \ {r})
    /\ UNCHANGED <<spoken, attempt, begun, meeting, deferred, closed, asked>>

\* It finds the flag lowered, or Mluva closed.
ResumeIdle(r) ==
    /\ closed \/ (IF r.by = "meeting" THEN ~deferred ELSE ~waiting)
    /\ requests' = requests \ {r}
    /\ UNCHANGED <<speech, attempt, begun, cap, meeting, waiting, deferred, closed, history>>

-----------------------------------------------------------------------------
(* Ending a capture and its attempt                                         *)

CancelledCapture ==
    [cap EXCEPT !.phase = IF @ \in {"Preparing", "Recording"} THEN "Cancelling" ELSE @]

StoppedCapture ==
    [cap EXCEPT !.phase = CASE @ = "Recording" -> "Processing"
                            [] @ = "Preparing" -> "Cancelling"
                            [] OTHER -> @]

\* `agent_release` on attempt a: nothing unless it records.
Release(a) ==
    IF a.phase # "Recording" THEN attempt' = a /\ UNCHANGED <<cap, waiting, wanted>>
    ELSE /\ Lower
         /\ cap' = StoppedCapture
         /\ attempt' = IF cap.phase \in {"Preparing", "Recording"} THEN Released(a)
                       ELSE Abandoned(a)

\* The record key during a capture; an agent's recording is released with it.
StopKey ==
    /\ ~closed /\ cap.phase \in {"Preparing", "Recording"}
    /\ cap' = StoppedCapture
    /\ attempt' = IF cap.phase = "Recording" /\ cap.agent # Nobody THEN Released(attempt)
                  ELSE attempt
    /\ UNCHANGED <<speech, begun, meeting, flags, closed, history>>

\* `cancel`.
Cancel ==
    /\ ~closed /\ Lower
    /\ attempt' = Disarmed(attempt)
    /\ cap' = CancelledCapture
    /\ UNCHANGED <<speech, begun, meeting, deferred, requests, closed, asked>>

KeepDraft ==
    /\ ~closed /\ attempt.phase \in Pending
    /\ Release(Disarmed(attempt))
    /\ UNCHANGED <<speech, begun, meeting, deferred, requests, closed, asked>>

\* `interrupt` with `agent_interrupted`, which lowers the flag first.
Interrupt ==
    /\ jobs' = Silenced
    /\ IF cap.agent # Nobody THEN Release(Disarmed(attempt))
       ELSE /\ Lower /\ UNCHANGED cap
            /\ attempt' = IF cap.phase = "None" THEN Abandoned(Disarmed(attempt))
                          ELSE Disarmed(attempt)
    /\ UNCHANGED <<spoken, begun, meeting, deferred, requests, closed, asked>>

\* A lock, a suspend, new settings; and `tick` at the recording limit.
Lock == ~closed /\ Interrupt
Limit == ~closed /\ attempt.phase = "Recording" /\ Interrupt

Prepared ==
    /\ cap.phase = "Preparing" /\ cap' = [cap EXCEPT !.phase = "Recording"]
    /\ UNCHANGED <<speech, attempt, begun, meeting, flags, closed, history>>

\* `capture_failed` and `capture_cancelled`.
CaptureEnds ==
    /\ cap.phase \in {"Preparing", "Processing", "Cancelling"} /\ cap' = NoCapture
    /\ attempt' = IF cap.agent # Nobody THEN Abandoned(attempt) ELSE attempt
    /\ UNCHANGED <<speech, begun, meeting, flags, closed, history>>

\* `capture_completed`; the countdown starts or the draft is kept.
CaptureCompletes ==
    /\ cap.phase = "Processing" /\ cap' = NoCapture
    /\ IF cap.agent = Nobody \/ attempt.phase # "Finalizing" THEN UNCHANGED attempt
       ELSE \E phase \in {"Grace", "Over"} : attempt' = [attempt EXCEPT !.phase = phase]
    /\ UNCHANGED <<speech, begun, meeting, flags, closed, history>>

\* The countdown ends in a delivery, and the delivery ends.
Deliver ==
    /\ \/ attempt.phase = "Grace" /\ attempt' = [attempt EXCEPT !.phase = "Submitting"]
       \/ attempt.phase = "Submitting" /\ attempt' = [attempt EXCEPT !.phase = "Over"]
    /\ UNCHANGED <<speech, begun, cap, meeting, flags, closed, history>>

-----------------------------------------------------------------------------
(* Meetings                                                                 *)

\* `start`, refused during a dictation capture.
MeetingStart ==
    \/ cap.phase = "None" /\ meeting' = TRUE
    \/ UNCHANGED meeting

\* `toggle` with no Meeting running and the flag down.
MeetingBegin(n, rest) ==
    /\ attempt' = Disarmed(attempt)
    /\ \/ /\ Speaking /\ jobs' = Silenced
          /\ deferred' = TRUE
          /\ requests' = rest \cup {[n |-> n, by |-> "meeting", id |-> Nobody, on |-> spoken]}
          /\ UNCHANGED meeting
       \/ /\ ~Speaking /\ deferred' = FALSE /\ requests' = rest
          /\ MeetingStart /\ UNCHANGED jobs

\* The Meeting button, insensitive while a dictation capture runs.
MeetingToggle ==
    /\ ~closed /\ cap.phase = "None" /\ ~meeting
    /\ \/ /\ deferred /\ deferred' = FALSE
          /\ UNCHANGED <<jobs, attempt, meeting, requests, asked>>
       \/ /\ ~deferred /\ asked < MaxRequests /\ asked' = asked + 1
          /\ MeetingBegin(asked + 1, requests)
    /\ UNCHANGED <<spoken, begun, cap, waiting, closed, wanted>>

MeetingResume(r) ==
    /\ ~closed /\ deferred
    /\ MeetingBegin(r.n, requests \ {r})
    /\ UNCHANGED <<spoken, begun, cap, waiting, closed, asked, wanted>>

MeetingEnds ==
    /\ meeting /\ meeting' = FALSE
    /\ UNCHANGED <<speech, attempt, begun, cap, flags, closed, history>>

-----------------------------------------------------------------------------
\* `shutdown` with the controllers' own.
Close ==
    /\ ~closed /\ closed' = TRUE
    /\ jobs' = [j \in Job |-> [jobs[j] EXCEPT !.cancelled = jobs[j].stage # "none"]]
    /\ attempt' = Abandoned(attempt)
    /\ cap' = NoCapture /\ meeting' = FALSE
    /\ Lower /\ deferred' = FALSE
    /\ UNCHANGED <<spoken, begun, requests, asked>>

Person ==
    \/ Speak \/ \E disarms \in BOOLEAN : Silence(disarms)
    \/ Record \/ AgentPress \/ StopKey \/ Cancel \/ KeepDraft \/ Lock
    \/ MeetingToggle \/ Close

\* A waiting task goes on once the spoken update it awaits is done.
Wake ==
    \E r \in requests :
        /\ jobs[r.on].stage = "done"
        /\ \/ r.by # "meeting" /\ (Resume(r) \/ ResumeRefused(r))
           \/ r.by = "meeting" /\ MeetingResume(r)
           \/ ResumeIdle(r)

Playback == \E j \in Job : PriorEnded(j) \/ StartPlayer(j) \/ EndSpeech(j)

\* What the cancellation of a job brings about: its end, and that of the wait for it.
Reaping == \E j \in Job : PriorEnded(j) \/ (jobs[j].cancelled /\ EndSpeech(j))

Recorder == Prepared \/ CaptureEnds \/ CaptureCompletes \/ Deliver \/ MeetingEnds

Next == Person \/ Wake \/ Playback \/ Recorder \/ Limit

Spec == Init /\ [][Next]_vars

\* A cancelled spoken update kills and reaps its player, GTK runs the tasks that
\* are ready, and the tick ends a recording at its limit.
FairSpec == Spec /\ WF_vars(Reaping) /\ WF_vars(Wake) /\ WF_vars(Limit)

-----------------------------------------------------------------------------
(* Properties                                                               *)

\* Type correctness.
TypeOK ==
    /\ jobs \in [Job -> [stage : Stage, cancelled : BOOLEAN, prior : 0..MaxSpeech]]
    /\ spoken \in 0..MaxSpeech
    /\ attempt \in [id : 0..MaxAttempts, phase : Phase] /\ begun \in 0..MaxAttempts
    /\ cap \in [phase : CapturePhase, agent : 0..MaxAttempts] /\ meeting \in BOOLEAN
    /\ waiting \in BOOLEAN /\ deferred \in BOOLEAN /\ requests \subseteq Request
    /\ closed \in BOOLEAN
    /\ asked \in 0..MaxRequests /\ wanted \in 0..MaxRequests

\* "Starting native dictation or Meeting cancels and reaps playback before
\* capture": while a microphone is open no spoken update is left, not even one
\* that was cancelled and whose player still sounds, or one queued behind it.
SilenceBeforeCapture ==
    cap.phase # "None" \/ meeting => \A j \in Job : ~Unfinished(j)

\* Dictation and Meeting never hold a microphone together, whichever of two
\* waiting requests goes on first.
OneMicrophone == ~(cap.phase # "None" /\ meeting)

\* Two spoken updates never sound, or fetch their audio, at once.
OneVoice ==
    \A j, k \in Job : jobs[j].stage \in {"fetching", "playing"}
                      /\ jobs[k].stage \in {"fetching", "playing"} => j = k

\* An agent's recording always has its attempt: it cannot be delivered as a
\* message of another attempt, or of none.
AgentCaptureHasAttempt ==
    cap.agent # Nobody /\ cap.phase = "Recording"
        => attempt = [id |-> cap.agent, phase |-> "Recording"]

\* No flag is left raised without a task that will lower it: one would make every
\* later press do nothing and count as a busy capture for ever.
FlagsAreServed ==
    /\ waiting => \E r \in requests : r.by # "meeting"
    /\ deferred => \E r \in requests : r.by = "meeting"

\* A capture that waits does not wait for ever: the spoken update it cancelled ends.
WaitingEnds == waiting ~> ~waiting

\* An attempt left recording without a capture is not left for ever.
RecordingEnds ==
    \A i \in 1..MaxAttempts : attempt = [id |-> i, phase |-> "Recording"]
                              ~> attempt # [id |-> i, phase |-> "Recording"]

\* Nothing is recorded or spoken twice at once: see OneMicrophone and OneVoice.
OneAtATime == OneMicrophone /\ OneVoice

\* Whatever waits has its task, and an agent's recording its attempt: see FlagsAreServed and
\* AgentCaptureHasAttempt.
RequestsAreServed == FlagsAreServed /\ AgentCaptureHasAttempt

\* What waits and what records ends: see WaitingEnds and RecordingEnds.
OwnersEnd == WaitingEnds /\ RecordingEnds

\* "Cancel stops recording" (docs/agent-routing.md): afterwards the attempt records
\* only while its capture is being cancelled.
CancelStopsRecording ==
    [][Cancel /\ attempt.phase = "Recording" =>
          attempt'.phase # "Recording" \/ cap'.agent = attempt'.id]_vars

\* "A second press during preparation cancels before recording starts"
\* (docs/product-contract.md): when a waiting agent dictation is the one still
\* wanted, no recording that a second press took back starts in its place.
WantedOpens ==
    [][waiting /\ cap'.phase = "Preparing" =>
          \A r \in requests : r.n = wanted /\ r.by = "agent" => cap'.agent = r.id]_vars
=============================================================================
