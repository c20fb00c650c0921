--------------------------- MODULE CaptureSession ---------------------------
(***************************************************************************)
(* One recording, from the press that prepares it to the report that ends  *)
(* it: CaptureSession (mluva-workflows/src/capture.rs) with the owner      *)
(* thread of its microphone (mluva-audio/src/capture.rs), the completion   *)
(* of its dictation (dictation.rs) and the controller that starts, stops,  *)
(* cancels and abandons it (capture_controller.rs).                        *)
(*                                                                         *)
(* The tasks share one thread: what runs between two awaits is one action. *)
(* They take turns at `state`, whose lock is fair.  The owner thread runs  *)
(* beside them and drains a queue of requests; dropping a caller does not  *)
(* take its request back.  Text is spoken or empty, audio is a file that   *)
(* exists or not, and a step fails only where Faults allows it.            *)
(***************************************************************************)
EXTENDS Integers, Sequences

CONSTANTS
    Cancels,    \* the cancel tasks: one for every press that cancels
    Faults      \* the steps that may fail

ASSUME CaptureSessionAssumption ==
    /\ Cancels \cap {"prepare", "complete", "exit"} = {}
    /\ Faults \subseteq {"destination", "provider", "microphone", "silent", "finish",
                         "transcribe", "deliver", "history", "stop"}

VARIABLES
    opts,           \* the options frozen when the recording was asked for
    phase,
    cancellation,   \* the session's cancellation token
    pc,             \* where every task awaits
    lock,           \* the tasks at `state`: its holder, then those who wait
    requested,      \* microphone_requested
    cancelled,      \* the outcome of the first cancel_locked
    outcome,        \* the result of complete_locked
    realtime,       \* the recognition session of this recording
    heard,          \* what recognition returned
    owns            \* the controller's `active` is this recording

\* The owner thread and what it holds.
VARIABLES
    requests, answers, service, mic, pcm, file

\* History variables: what the person, the provider and the target got.
VARIABLES
    opened, sent, delivered, row, said, exit

session == <<opts, phase, cancellation, requested, cancelled, outcome, owns>>
tasks   == <<pc, lock>>
speech  == <<realtime, heard>>
sound   == <<mic, pcm, opened, sent>>
owner   == <<requests, answers, service>>
results == <<delivered, row>>
vars == <<session, tasks, speech, sound, owner, file, results, said, exit>>

Task == {"prepare", "complete", "exit"} \cup Cancels
Terminal == {"Completed", "Cancelled", "Failed"}
CapturePhase == {"Preparing", "Recording", "Processing", "Cancelling"} \cup Terminal
RequestKind == {"destination", "start", "stop", "cancel", "close"}
Policy == {"Never", "Failures", "Always"}
Options == [incognito : BOOLEAN, policy : Policy, live : BOOLEAN,
            kind : {"deliver", "append", "draft"}]
NoRow == [outcome |-> "none", audio |-> FALSE]
NotCancelled == [done |-> FALSE, beforeReady |-> FALSE, streamed |-> FALSE]

Init ==
    /\ opts \in {o \in Options : o.incognito => o.kind # "append"}
    /\ phase = "Preparing" /\ cancellation = FALSE
    /\ pc = [t \in Task |-> IF t = "prepare" THEN "spawned" ELSE "idle"]
    /\ lock = <<>>
    /\ requested = FALSE /\ cancelled = NotCancelled /\ outcome = "none"
    /\ realtime = "none" /\ heard = "none" /\ owns = TRUE
    /\ requests = <<>> /\ answers = [k \in RequestKind |-> "none"]
    /\ service = "running" /\ mic = FALSE /\ pcm = FALSE /\ file = FALSE
    /\ opened = FALSE /\ sent = FALSE /\ delivered = FALSE /\ row = NoRow
    /\ said = <<>> /\ exit = FALSE

-----------------------------------------------------------------------------
(* Awaits, the lock and reports                                             *)

\* A task is polled for the first time with nobody at the lock, or it is its turn.
Enters(t) ==
    \/ pc[t] = "spawned" /\ lock = <<>>
    \/ pc[t] = "waiting" /\ Head(lock) = t
Held(t) == IF pc[t] = "spawned" THEN <<t>> ELSE lock

\* The task runs on to its next await, still at the lock, or leaves it.
Awaits(t, at) == pc' = [pc EXCEPT ![t] = at] /\ lock' = Held(t)
\* Mutated: the lock is kept.
LeavesLocked(t) == pc' = [pc EXCEPT ![t] = "done"] /\ lock' = Held(t)

Leaves(t) == pc' = [pc EXCEPT ![t] = "done"] /\ lock' = Tail(Held(t))
At(t, at) == pc[t] = at /\ Head(lock) = t

\* `send`: a request the owner no longer takes is answered with an error; `close` is the last.
Asks(kind) ==
    IF service = "running"
    THEN /\ requests' = Append(requests, kind)
         /\ service' = IF kind = "close" THEN "closing" ELSE service
         /\ UNCHANGED answers
    ELSE answers' = [answers EXCEPT ![kind] = "failed"] /\ UNCHANGED <<requests, service>>
Answered(kind) == answers[kind] # "none"

\* Mutated: an end is reported without asking whose recording it is.
ReportsAlways(end) == owns' = FALSE /\ said' = Append(said, end)

\* The controller hears of an end if the recording is still its own.
Reports(end) == owns' = FALSE /\ said' = IF owns THEN Append(said, end) ELSE said

-----------------------------------------------------------------------------
(* cancel_locked                                                            *)

Ended(r) == IF r = "open" THEN "closing" ELSE r

CancelLocked(t) ==
    \/ /\ cancelled.done
       /\ Leaves(t) /\ Reports("cancelled") /\ UNCHANGED <<owner, speech>>
    \/ /\ ~cancelled.done
       /\ realtime' = Ended(realtime)
       /\ Asks("cancel") /\ Awaits(t, "erase") /\ UNCHANGED <<owns, said, heard>>

Erased(t) ==
    /\ At(t, "erase") /\ Answered("cancel")
    /\ \/ realtime # "none" /\ Awaits(t, "reap") /\ UNCHANGED owner
       \/ realtime = "none" /\ Asks("close") /\ Awaits(t, "close")
    /\ UNCHANGED <<session, speech, sound, file, results, said, exit>>

\* The stream is closed: what it had sent by then is what was sent.
Reaped(t) ==
    /\ At(t, "reap") /\ realtime = "closed"
    /\ realtime' = "none" /\ cancelled' = [cancelled EXCEPT !.streamed = sent]
    /\ Asks("close") /\ Awaits(t, "close")
    /\ UNCHANGED <<opts, phase, cancellation, requested, outcome, owns, heard, sound, file,
                   results, said, exit>>

\* Mutated: the end of the owner thread is not waited for.
ClosedAtOnce(t) ==
    /\ At(t, "close")
    /\ cancelled' = [cancelled EXCEPT !.done = TRUE, !.beforeReady = ~requested]
    /\ phase' = "Cancelled" /\ Leaves(t) /\ Reports("cancelled")
    /\ UNCHANGED <<opts, cancellation, requested, outcome, speech, owner, sound, file, results,
                   exit>>

Closed(t) ==
    /\ At(t, "close") /\ service = "closed"
    /\ cancelled' = [cancelled EXCEPT !.done = TRUE, !.beforeReady = ~requested]
    /\ phase' = "Cancelled" /\ Leaves(t) /\ Reports("cancelled")
    /\ UNCHANGED <<opts, cancellation, requested, outcome, speech, owner, sound, file, results,
                   exit>>

-----------------------------------------------------------------------------
(* prepare_and_start                                                        *)

\* Whatever preparation came to, a cancellation requested meanwhile decides.
PrepareCancelled ==
    /\ cancellation
    /\ \/ Enters("prepare")
       \/ At("prepare", "destination") /\ Answered("destination")
       \/ At("prepare", "provider")
       \/ At("prepare", "microphone")
    /\ CancelLocked("prepare")
    /\ UNCHANGED <<opts, phase, cancellation, requested, cancelled, outcome, sound, file,
                   results, exit>>

\* Its destination belongs to the session, so nothing fails before it is asked for.
Prepare ==
    /\ Enters("prepare") /\ ~cancellation
    /\ Asks("destination") /\ Awaits("prepare", "destination")
    /\ UNCHANGED <<session, speech, sound, file, results, said, exit>>

OpenProvider ==
    /\ At("prepare", "destination") /\ ~cancellation /\ answers["destination"] = "ok"
    /\ opts.live /\ Awaits("prepare", "provider")
    /\ UNCHANGED <<session, speech, owner, sound, file, results, said, exit>>

\* Mutated: the microphone counts as asked for only once it records.
StartMicrophoneSilently ==
    /\ ~cancellation
    /\ \/ /\ At("prepare", "destination") /\ answers["destination"] = "ok" /\ ~opts.live
          /\ UNCHANGED realtime
       \/ /\ At("prepare", "provider")
          /\ realtime' \in {"open"} \cup (IF "provider" \in Faults THEN {"none"} ELSE {})
    /\ Asks("start") /\ Awaits("prepare", "microphone")
    /\ UNCHANGED <<session, heard, sound, file, results, said, exit>>

\* With a session, or with the batch fallback when none is open.
StartMicrophone ==
    /\ ~cancellation
    /\ \/ /\ At("prepare", "destination") /\ answers["destination"] = "ok" /\ ~opts.live
          /\ UNCHANGED realtime
       \/ /\ At("prepare", "provider")
          /\ realtime' \in {"open"} \cup (IF "provider" \in Faults THEN {"none"} ELSE {})
    /\ requested' = TRUE /\ Asks("start") /\ Awaits("prepare", "microphone")
    /\ UNCHANGED <<opts, phase, cancellation, cancelled, outcome, owns, heard, sound, file,
                   results, said, exit>>

\* Ready means a first sample of sound, not a process.
Started ==
    /\ At("prepare", "microphone") /\ ~cancellation /\ answers["start"] = "ok" /\ pcm
    /\ phase' = "Recording" /\ Leaves("prepare")
    /\ UNCHANGED <<opts, cancellation, requested, cancelled, outcome, owns, speech, owner,
                   sound, file, results, said, exit>>

\* No destination, no microphone, or no sample within three seconds.
PrepareFails ==
    /\ ~cancellation
    /\ \/ At("prepare", "destination") /\ answers["destination"] = "failed"
       \/ At("prepare", "microphone") /\ answers["start"] = "failed"
       \/ /\ At("prepare", "microphone") /\ answers["start"] = "ok" /\ ~pcm
          /\ "silent" \in Faults
    /\ \/ /\ realtime # "none" /\ realtime' = "closing" /\ UNCHANGED owner
          /\ Awaits("prepare", "failReap")
       \/ /\ realtime = "none" /\ UNCHANGED realtime
          /\ Asks("cancel") /\ Awaits("prepare", "failErase")
    /\ UNCHANGED <<session, heard, sound, file, results, said, exit>>

FailReaped ==
    /\ At("prepare", "failReap") /\ realtime = "closed"
    /\ realtime' = "none" /\ Asks("cancel") /\ Awaits("prepare", "failErase")
    /\ UNCHANGED <<session, heard, sound, file, results, said, exit>>

FailErased ==
    /\ At("prepare", "failErase") /\ Answered("cancel")
    /\ Asks("close") /\ Awaits("prepare", "failClose")
    /\ UNCHANGED <<session, speech, sound, file, results, said, exit>>

FailClosed ==
    /\ At("prepare", "failClose") /\ service = "closed"
    /\ phase' = "Failed" /\ Leaves("prepare") /\ Reports("failed")
    /\ UNCHANGED <<opts, cancellation, requested, cancelled, outcome, speech, owner, sound, file,
                   results, exit>>

-----------------------------------------------------------------------------
(* complete_with_appendix                                                   *)

Retains(success) ==
    ~opts.incognito /\ (opts.policy = "Always" \/ (opts.policy = "Failures" /\ ~success))
Saves == IF "history" \in Faults THEN BOOLEAN ELSE {TRUE}

\* The result is known; the stream and the owner thread are ended before it is returned.
Ends(end) ==
    /\ outcome' = end
    /\ \/ realtime # "none" /\ realtime' = Ended(realtime) /\ Awaits("complete", "endReap")
          /\ UNCHANGED owner
       \/ realtime = "none" /\ Asks("close") /\ Awaits("complete", "endClose")
          /\ UNCHANGED realtime

\* An error outside the dictation workflow: the file follows the policy, and no row is written.
Breaks ==
    /\ file' = (file /\ Retains(FALSE))
    /\ Ends("failed") /\ UNCHANGED results

\* `record_failure`
RecordFailure ==
    /\ file' = (file /\ Retains(FALSE))
    /\ \E saved \in Saves :
           row' = IF ~opts.incognito /\ saved
                  THEN [outcome |-> "failed", audio |-> file'] ELSE row
    /\ Ends("failed") /\ UNCHANGED delivered

\* Nothing was said: `keep_row` for a draft whose policy keeps failures.
Silence ==
    LET keepRow == opts.kind = "draft" /\ Retains(FALSE)
        retain  == Retains(opts.kind # "draft") IN
    /\ \E saved \in Saves :
           /\ row' = IF keepRow /\ saved
                     THEN [outcome |-> "silent", audio |-> retain] ELSE row
           /\ file' = (file /\ retain /\ (keepRow => saved))
    /\ Ends("completed") /\ UNCHANGED delivered

\* Mutated: the row names the audio before the policy is asked.
DeliverNaming ==
    /\ delivered' = (opts.kind = "deliver")
    /\ \E saved \in Saves :
           /\ row' = IF ~opts.incognito /\ saved
                     THEN [outcome |-> "text", audio |-> TRUE] ELSE row
           /\ file' = (file /\ Retains(TRUE) /\ saved)
    /\ Ends("completed")

\* The text is delivered, or left to its conversation or agent; then History has it.
Deliver ==
    /\ delivered' = (opts.kind = "deliver")
    /\ \E saved \in Saves :
           /\ row' = IF ~opts.incognito /\ saved
                     THEN [outcome |-> "text", audio |-> Retains(TRUE)] ELSE row
           /\ file' = (file /\ Retains(TRUE) /\ saved)
    /\ Ends("completed")

DeliverOrFail ==
    \/ Deliver
    \/ "deliver" \in Faults /\ opts.kind = "deliver" /\ RecordFailure

\* What follows a recognition, up to the next await: an appendix may be waited for.
Recognized(text) ==
    /\ heard' = text
    /\ \/ text = "empty" /\ Silence
       \/ text = "text" /\ DeliverOrFail
       \/ text = "text" /\ Awaits("complete", "appending")
          /\ UNCHANGED <<outcome, realtime, owner, file, results>>

CompleteKeeps == <<opts, phase, cancellation, requested, cancelled, owns, sound, said, exit>>

Complete ==
    /\ Enters("complete") /\ phase = "Processing"
    /\ Asks("stop") /\ Awaits("complete", "stopping")
    /\ UNCHANGED <<session, speech, sound, file, results, said, exit>>

\* The application was left first: "This capture is not ready to finish."
CompleteRefused ==
    /\ Enters("complete") /\ phase # "Processing"
    /\ Leaves("complete") /\ Reports("failed")
    /\ UNCHANGED <<opts, phase, cancellation, requested, cancelled, outcome, speech, owner,
                   sound, file, results, exit>>

StopFailed ==
    /\ At("complete", "stopping") /\ answers["stop"] = "failed"
    /\ Breaks /\ UNCHANGED heard /\ UNCHANGED CompleteKeeps

Stopped ==
    /\ At("complete", "stopping") /\ answers["stop"] = "ok"
    /\ Awaits("complete", IF realtime = "open" THEN "finishing" ELSE "transcribing")
    /\ UNCHANGED <<session, speech, owner, sound, file, results, said, exit>>

\* Mutated: the recognized text is used without looking at the token again.
FinishedBlindly ==
    /\ At("complete", "finishing")
    /\ \E text \in {"text", "empty"} : Recognized(text)
    /\ UNCHANGED CompleteKeeps

\* `finish` is not interrupted; the token is looked at before its text is used.
Finished ==
    /\ At("complete", "finishing")
    /\ \/ cancellation /\ heard' = "text" /\ Breaks
       \/ ~cancellation /\ \E text \in {"text", "empty"} : Recognized(text)
    /\ UNCHANGED CompleteKeeps

\* The stream gave no committed text: the whole recording is recognized instead.
FinishFailed ==
    /\ At("complete", "finishing") /\ "finish" \in Faults
    /\ realtime' = "closing" /\ Awaits("complete", "fallback")
    /\ UNCHANGED <<session, heard, owner, sound, file, results, said, exit>>

FallsBack ==
    /\ At("complete", "fallback") /\ realtime = "closed"
    /\ Awaits("complete", "transcribing")
    /\ UNCHANGED <<session, speech, owner, sound, file, results, said, exit>>

Transcribed ==
    /\ At("complete", "transcribing") /\ ~cancellation
    /\ \/ \E text \in {"text", "empty"} : Recognized(text)
       \/ "transcribe" \in Faults /\ RecordFailure /\ UNCHANGED heard
    /\ UNCHANGED CompleteKeeps

Appended ==
    /\ At("complete", "appending") /\ ~cancellation
    /\ DeliverOrFail /\ UNCHANGED heard /\ UNCHANGED CompleteKeeps

\* The select around the completion is biased to the token.
CompleteClosing ==
    /\ At("complete", "transcribing") \/ At("complete", "appending")
    /\ cancellation /\ Breaks /\ UNCHANGED heard /\ UNCHANGED CompleteKeeps

EndReaped ==
    /\ At("complete", "endReap") /\ realtime = "closed"
    /\ realtime' = "none" /\ Asks("close") /\ Awaits("complete", "endClose")
    /\ UNCHANGED <<session, heard, sound, file, results, said, exit>>

EndClosed ==
    /\ At("complete", "endClose") /\ service = "closed"
    /\ phase' = (IF outcome = "completed" THEN "Completed" ELSE "Failed")
    /\ Leaves("complete") /\ Reports(outcome)
    /\ UNCHANGED <<opts, cancellation, requested, cancelled, outcome, speech, owner, sound, file,
                   results, exit>>

-----------------------------------------------------------------------------
(* The owner thread, the microphone and the provider                        *)

Serve(kind) ==
    /\ requests # <<>> /\ Head(requests) = kind /\ requests' = Tail(requests)
    /\ UNCHANGED <<session, tasks, speech, pcm, sent, results, said, exit>>

Answers(kind, answer) == answers' = [answers EXCEPT ![kind] = answer]

\* Only private audio needs a store that can fail: in memory, with its cleanup process.
ServeDestination ==
    /\ Serve("destination")
    /\ \/ Answers("destination", "ok")
       \/ "destination" \in Faults /\ opts.incognito /\ Answers("destination", "failed")
    /\ UNCHANGED <<service, mic, opened, file>>

ServeStart ==
    /\ Serve("start") /\ UNCHANGED service
    /\ \/ /\ Answers("start", "ok")
          /\ mic' = TRUE /\ opened' = TRUE /\ file' = TRUE
       \/ /\ "microphone" \in Faults
          /\ Answers("start", "failed") /\ UNCHANGED <<mic, opened, file>>

\* A recording that cannot be finished leaves what was written.
ServeStop ==
    /\ Serve("stop") /\ mic' = FALSE
    /\ \/ Answers("stop", "ok")
       \/ "stop" \in Faults /\ Answers("stop", "failed")
    /\ UNCHANGED <<service, opened, file>>

ServeCancel ==
    /\ Serve("cancel") /\ Answers("cancel", "ok")
    /\ mic' = FALSE /\ file' = FALSE
    /\ UNCHANGED <<service, opened>>

\* The microphone is reaped, private audio goes with its store, and the thread ends.
ServeClose ==
    /\ Serve("close") /\ Answers("close", "ok") /\ service' = "closed"
    /\ mic' = FALSE /\ file' = (file /\ ~mic /\ ~opts.incognito)
    /\ UNCHANGED opened

FirstPcm ==
    /\ mic /\ ~pcm /\ pcm' = TRUE
    /\ UNCHANGED <<session, tasks, speech, owner, mic, opened, sent, file, results, said, exit>>

Stream ==
    /\ pcm /\ realtime = "open" /\ ~sent /\ sent' = TRUE
    /\ UNCHANGED <<session, tasks, speech, owner, mic, opened, pcm, file, results, said, exit>>

\* The connection of a stream that was cancelled or finished is closed.
StreamCloses ==
    /\ realtime = "closing" /\ realtime' = "closed"
    /\ UNCHANGED <<session, tasks, heard, owner, sound, file, results, said, exit>>

-----------------------------------------------------------------------------
(* The controller                                                           *)

Spawned(t) == pc' = [pc EXCEPT ![t] = "spawned"] /\ UNCHANGED lock

\* `cancel`: Escape, or the record key while the recording is prepared.
Cancel(c) ==
    /\ owns /\ pc[c] = "idle" /\ phase \in {"Preparing", "Recording", "Cancelling"}
    /\ phase' = "Cancelling" /\ cancellation' = TRUE /\ Spawned(c)
    /\ UNCHANGED <<opts, requested, cancelled, outcome, owns, speech, owner, sound, file,
                   results, said, exit>>

\* The cancel task looks at the phase before it asks for the lock.
StillCancelled(c) == phase \in {"Cancelling", "Cancelled"}

CancelTask(c) ==
    /\ Enters(c) /\ (pc[c] = "spawned" => StillCancelled(c))
    /\ CancelLocked(c)
    /\ UNCHANGED <<opts, phase, cancellation, requested, cancelled, outcome, sound, file,
                   results, exit>>

CancelTooLate(c) ==
    /\ pc[c] = "spawned" /\ ~StillCancelled(c)
    /\ pc' = [pc EXCEPT ![c] = "done"]
    /\ UNCHANGED <<session, lock, speech, owner, sound, file, results, said, exit>>

Stop ==
    /\ owns /\ phase = "Recording" /\ phase' = "Processing" /\ Spawned("complete")
    /\ UNCHANGED <<opts, cancellation, requested, cancelled, outcome, owns, speech, owner, sound,
                   file, results, said, exit>>

\* `shutdown`: the controller lets go of the session and leaves the rest to a task.
Exit ==
    /\ ~exit /\ exit' = TRUE /\ owns' = FALSE
    /\ \/ owns /\ cancellation' = TRUE /\ Spawned("exit")
       \/ ~owns /\ UNCHANGED <<cancellation, tasks>>
    /\ UNCHANGED <<opts, phase, requested, cancelled, outcome, speech, owner, sound, file,
                   results, said>>

ExitTask ==
    /\ Enters("exit")
    /\ \/ phase \in Terminal /\ Leaves("exit") /\ UNCHANGED <<owner, speech, owns, said>>
       \/ phase \notin Terminal /\ CancelLocked("exit")
    /\ UNCHANGED <<opts, phase, cancellation, requested, cancelled, outcome, sound, file,
                   results, exit>>

\* A first poll while another task holds the lock.
Queue(t) ==
    /\ pc[t] = "spawned" /\ lock # <<>> /\ (t \in Cancels => StillCancelled(t))
    /\ pc' = [pc EXCEPT ![t] = "waiting"] /\ lock' = Append(lock, t)
    /\ UNCHANGED <<session, speech, owner, sound, file, results, said, exit>>

-----------------------------------------------------------------------------
PrepareStep ==
    \/ PrepareCancelled \/ Prepare \/ OpenProvider \/ StartMicrophone \/ Started
    \/ PrepareFails \/ FailReaped \/ FailErased \/ FailClosed
CompleteStep ==
    \/ Complete \/ CompleteRefused \/ StopFailed \/ Stopped \/ Finished \/ FinishFailed
    \/ FallsBack \/ Transcribed \/ Appended \/ CompleteClosing \/ EndReaped \/ EndClosed
TaskStep(t) ==
    \/ Queue(t) \/ Erased(t) \/ Reaped(t) \/ Closed(t)
    \/ t = "prepare" /\ PrepareStep
    \/ t = "complete" /\ CompleteStep
    \/ t = "exit" /\ ExitTask
    \/ t \in Cancels /\ (CancelTask(t) \/ CancelTooLate(t))
OwnerStep ==
    ServeDestination \/ ServeStart \/ ServeStop \/ ServeCancel \/ ServeClose

Next ==
    \/ \E t \in Task : TaskStep(t)
    \/ OwnerStep \/ FirstPcm \/ Stream \/ StreamCloses
    \/ \E c \in Cancels : Cancel(c)
    \/ Stop \/ Exit

Spec == Init /\ [][Next]_vars

\* Every task is polled again once what it awaits is there: the owner thread answers, a closed
\* stream is acknowledged, provider calls and the first sample have deadlines.  Nothing makes a
\* person press a key.
Fairness ==
    /\ \A t \in Task : WF_vars(TaskStep(t))
    /\ WF_vars(OwnerStep) /\ WF_vars(FirstPcm) /\ WF_vars(StreamCloses)
FairSpec == Spec /\ Fairness

-----------------------------------------------------------------------------
(* Properties                                                               *)

TypeOK ==
    /\ opts \in Options /\ phase \in CapturePhase /\ cancellation \in BOOLEAN
    /\ requested \in BOOLEAN /\ owns \in BOOLEAN /\ exit \in BOOLEAN
    /\ cancelled \in [done : BOOLEAN, beforeReady : BOOLEAN, streamed : BOOLEAN]
    /\ outcome \in {"none", "completed", "failed"}
    /\ pc \in [Task -> {"idle", "spawned", "waiting", "destination", "provider", "microphone",
                        "failReap", "failErase", "failClose", "erase", "reap", "close",
                        "stopping", "finishing", "fallback", "transcribing", "appending",
                        "endReap", "endClose", "done"}]
    /\ lock \in Seq(Task)
    /\ realtime \in {"none", "open", "closing", "closed"}
    /\ heard \in {"none", "text", "empty"}
    /\ requests \in Seq(RequestKind)
    /\ answers \in [RequestKind -> {"none", "ok", "failed"}]
    /\ service \in {"running", "closing", "closed"}
    /\ mic \in BOOLEAN /\ pcm \in BOOLEAN /\ file \in BOOLEAN
    /\ opened \in BOOLEAN /\ sent \in BOOLEAN /\ delivered \in BOOLEAN
    /\ row \in [outcome : {"none", "text", "silent", "failed"}, audio : BOOLEAN]
    /\ said \in Seq({"completed", "failed", "cancelled"})

\* When a recording has ended, or its end was reported, the microphone is off, no request that
\* would open it is left behind and nothing is streamed: an abandoned start is waited for
\* (capture.rs, "always awaits any already-issued microphone operation before releasing it").
EndIsQuiet ==
    (phase \in Terminal \/ said # <<>>) =>
        ~mic /\ requests = <<>> /\ realtime \in {"none", "closed"}

\* What the status of a cancellation says of the microphone, of the sound already sent and of
\* the file (CaptureCancelled::status) is so, whichever step the cancellation met.
CancelIsTruthful ==
    said = <<"cancelled">> =>
        /\ cancelled.beforeReady => ~opened
        /\ ~cancelled.streamed => ~sent
        /\ ~file

\* The preparing task, every cancel task and the completing task may each bring an end: the
\* controller acts on one (`owns` in capture_controller.rs).
OneReport == Len(said) <= 1

\* Leaving the application stops a recording in any phase before its text goes anywhere:
\* nothing is delivered, recorded in History or reported afterwards (CaptureSession::shutdown).
ExitDeliversNothing == [][exit => UNCHANGED <<delivered, row, said>>]_vars

\* A private recording leaves neither row nor audio, and the policy `never` no audio, however
\* the recording ends and whichever step fails (record_failure, complete_with_appendix).
PrivateLeavesNothing ==
    phase \in Terminal =>
        /\ ~Retains(FALSE) => ~file
        /\ opts.incognito => row = NoRow

\* A History row that offers audio to retry has it, from the row's first moment on.
RowKeepsAudio == row.audio => file

\* Audio that is kept is named by a row or by the reported failure, or is the silent audio the
\* policy asks for; only leaving the application may keep a file that nobody is told of.
KeptAudioIsNamed ==
    phase \in Terminal /\ file /\ ~exit =>
        row.audio \/ said = <<"failed">> \/ heard = "empty"

\* Audio and History agree with the policy and with each other: see PrivateLeavesNothing, RowKeepsAudio
\* and KeptAudioIsNamed.
AudioIsAccounted == PrivateLeavesNothing /\ RowKeepsAudio /\ KeptAudioIsNamed

\* A recording that is prepared, stopped or cancelled ends or comes to record, whatever fails
\* and whichever task waits for the lock.
CaptureEnds == phase # "Recording" ~> phase \in Terminal \cup {"Recording"}

\* Leaving the application ends a recording in any phase, so that it can be waited for.
ExitEnds == exit ~> phase \in Terminal /\ pc["exit"] \in {"idle", "done"}

\* Every recording ends, and so does leaving the application: see CaptureEnds and ExitEnds.
SessionEnds == CaptureEnds /\ ExitEnds

\* The status "Open History to recover retained audio." (capture_controller.rs): audio retained
\* by a failure is in History.
HistoryRecovers == said = <<"failed">> /\ file => row.audio
=============================================================================
