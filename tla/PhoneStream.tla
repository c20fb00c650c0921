---------------------------- MODULE PhoneStream ----------------------------
(***************************************************************************)
(* One recording of the phone microphone: the page (mluva-web/web/app.js,  *)
(* live.js), the companion that carries its requests (mluva-web/src), and  *)
(* the desktop that owns the recording (core/phone.rs, audio/external.rs,  *)
(* gtk application/phone.rs).  A request is handled whole: the desktop     *)
(* takes one at a time.  An answer may not arrive; the request it belonged *)
(* to may still be on its way.  The recording itself is CaptureSession.    *)
(***************************************************************************)
EXTENDS Naturals, Sequences

CONSTANTS
    MaxChunks,      \* half seconds of sound
    QueueLimit,     \* chunks that may wait on the phone
    PcmLimit,       \* MAX_PCM_BYTES, in chunks
    PrepareLimit,   \* the watch over a recording that prepares, in ticks
    AudioLimit,     \* the watch over a recording, in ticks
    MaxTicks,       \* ticks without sound that are told apart
    MaxLost,        \* answers that do not arrive
    MaxCrashes,     \* the desktop, the companion or the page ends
    IncognitoPhone  \* the recording leaves nothing behind

\* The values the model is meant for.
PhoneAssumption ==
    /\ {MaxChunks, QueueLimit, PcmLimit, PrepareLimit, AudioLimit, MaxTicks, MaxLost, MaxCrashes} \subseteq Nat
    /\ PcmLimit > 0 /\ QueueLimit > 0 /\ IncognitoPhone \in BOOLEAN
ASSUME PhoneAssumption

VARIABLES
    page,       \* at, the chunks it made and numbered, failure, pcStopped, live, stored
    queue,      \* the numbers of the chunks that wait; the first is on its way
    calls,      \* per slot: a request and its answer
    desk,       \* the desktop: up, phase, sequence, who ended it
    audio,      \* the chunks in the recording's file
    quiet,      \* ticks since the last sound, and since the recording began
    reply,      \* what the desktop keeps of a finished recording: completed or nothing
    job,        \* the companion's job
    words,      \* the ways by which it was recognised, in order
    lost, crashes

vars == <<page, queue, calls, desk, audio, quiet, reply, job, words, lost, crashes>>

Slot == {"chunk", "poll", "main", "stray"}
Live == {"preparing", "recording"}
Over == {"completed", "failed", "cancelled"}
NoCall == [kind |-> "free", seq |-> 0, phase |-> "", next |-> 0]
Call(kind, seq) == [kind |-> kind, seq |-> seq, phase |-> "", next |-> 0]
Sent(s) == calls[s].kind # "free" /\ calls[s].phase = ""
Answered(s) == calls[s].phase # ""
NoSession == [up |-> "ready", phase |-> "none", sequence |-> 0, by |-> "none"]

Init ==
    /\ page = [at |-> "idle", made |-> 0, sequence |-> 0, tries |-> 0, failed |-> FALSE, stopped |-> FALSE,
               live |-> TRUE, stored |-> FALSE]
    /\ queue = <<>> /\ calls = [s \in Slot |-> NoCall]
    /\ desk = [NoSession EXCEPT !.up = "off"] /\ audio = <<>> /\ quiet = [sound |-> 0, on |-> 0]
    /\ reply = "none" /\ job = "none" /\ words = <<>> /\ lost = 0 /\ crashes = 0

-----------------------------------------------------------------------------
\* The phone

Recorder == page.at = "recording"
Asks(s, c) == calls' = [calls EXCEPT ![s] = c]
At(at) == page' = [page EXCEPT !.at = at]
desktop == <<desk, audio, quiet, reply>>
companion == <<job, words>>

\* Record: the page asks the desktop first, and numbers chunks once it records.
Record ==
    /\ page.at = "idle" /\ At("starting") /\ Asks("main", Call("start", 0))
    /\ UNCHANGED <<queue, desktop, companion, lost, crashes>>
Start ==
    LET p == calls["main"].phase IN
    /\ page.at = "starting" /\ Answered("main") /\ UNCHANGED <<queue, desktop, companion, lost, crashes>>
    /\ \/ p = "starting" /\ Asks("main", Call("start", 0)) /\ UNCHANGED page
       \/ p = "preparing" /\ Asks("main", Call("status", 0)) /\ UNCHANGED page
       \/ p = "recording" /\ At("recording") /\ Asks("main", NoCall)
       \/ p \notin {"starting", "preparing", "recording"} /\ At("leaving") /\ Asks("main", Call("cancel", 0))

\* fail: the first failure ends the phone's recording.
Fails(p) == [p EXCEPT !.failed = TRUE, !.at = IF @ = "recording" THEN "finishing" ELSE @,
                      !.stored = @ \/ p.at = "recording"]
\* The recorder stops; what it recorded is stored.
Stops(p) == IF p.at = "recording" THEN [p EXCEPT !.at = "finishing", !.stored = TRUE] ELSE p
\* observe
Observes(p, phase) ==
    IF phase \in {"processing", "completed"} THEN Stops([p EXCEPT !.stopped = TRUE])
    ELSE IF phase \in {"failed", "cancelled"} /\ ~ p.failed THEN Fails(p)
    ELSE p

\* "Connection is too slow for live audio."
Overflows(p) == Fails(p)
\* enqueue: a chunk leaves the worklet; the last one when the recorder stops.
Chunk ==
    /\ Recorder /\ page.made < MaxChunks /\ UNCHANGED <<calls, desktop, companion, lost, crashes>>
    /\ LET p == [page EXCEPT !.made = @ + 1] IN
       IF page.failed \/ page.stopped THEN page' = p /\ UNCHANGED queue
       ELSE IF Len(queue) = QueueLimit THEN page' = Overflows(p) /\ UNCHANGED queue
       ELSE page' = [p EXCEPT !.sequence = @ + 1] /\ queue' = Append(queue, page.sequence)
Stop ==
    /\ Recorder /\ page' = Stops(page)
    /\ UNCHANGED <<queue, calls, desktop, companion, lost, crashes>>

\* The queue: one request at a time, tried twice.
SendChunk ==
    /\ queue # <<>> /\ calls["chunk"] = NoCall /\ UNCHANGED <<page, desktop, companion, lost, crashes>>
    /\ IF page.failed \/ page.stopped THEN queue' = Tail(queue) /\ UNCHANGED calls
       ELSE Asks("chunk", Call("audio", Head(queue))) /\ UNCHANGED queue
ChunkFails ==
    IF page.tries = 0 THEN page' = [page EXCEPT !.tries = 1] /\ Asks("chunk", Call("audio", Head(queue))) /\ UNCHANGED queue
    ELSE page' = [(IF page.failed THEN page ELSE Fails(page)) EXCEPT !.tries = 0] /\ Asks("chunk", NoCall) /\ queue' = Tail(queue)
\* The acknowledgement counts this chunk.
Complete(c, p) == p.stopped \/ c.next = c.seq + 1
ChunkAnswered ==
    LET c == calls["chunk"]
        p == Observes(page, c.phase)
    IN
    /\ Answered("chunk") /\ UNCHANGED <<desktop, companion, lost, crashes>>
    /\ IF c.phase = "error" THEN ChunkFails
       ELSE /\ page' = [(IF Complete(c, p) \/ p.failed THEN p ELSE Fails(p)) EXCEPT !.tries = 0]
            /\ Asks("chunk", NoCall) /\ queue' = Tail(queue)

\* The poll, once a second.
Polls ==
    /\ Recorder /\ calls["poll"] = NoCall /\ ~ page.failed /\ ~ page.stopped /\ Asks("poll", Call("status", 0))
    /\ UNCHANGED <<page, queue, desktop, companion, lost, crashes>>
\* Mutated: the poll sees nothing.
PolledBlind(phase) == page' = page
Polled(phase) == page' = IF phase = "error" /\ ~ page.failed THEN Fails(page) ELSE Observes(page, phase)
PollAnswered ==
    /\ Answered("poll") /\ Polled(calls["poll"].phase) /\ Asks("poll", NoCall)
    /\ UNCHANGED <<queue, desktop, companion, lost, crashes>>

\* finish: when the queue is empty, Stop with the count, or Cancel.
Finish ==
    /\ page.at = "finishing" /\ queue = <<>> /\ calls["chunk"] = NoCall
    /\ IF page.failed THEN At("cancelling") /\ Asks("main", Call("cancel", 0))
       ELSE At("stopping") /\ Asks("main", Call("stop", page.sequence))
    /\ UNCHANGED <<queue, desktop, companion, lost, crashes>>

Waits(phase) == page' = [page EXCEPT !.at = CASE phase = "processing" -> "waiting"
                                             [] phase = "completed" -> "done" [] OTHER -> "kept",
                                     !.stored = @ /\ phase # "completed"]
FinishAnswered ==
    LET p == calls["main"].phase IN
    /\ page.at \in {"stopping", "cancelling", "leaving"} /\ Answered("main")
    /\ UNCHANGED <<queue, desktop, companion, lost, crashes>>
    /\ \/ page.at = "stopping" /\ p = "error" /\ At("cancelling") /\ Asks("main", Call("cancel", 0))
       \/ page.at = "stopping" /\ p # "error" /\ Waits(p) /\ Asks("main", NoCall)
       \/ page.at = "cancelling" /\ At("kept") /\ Asks("main", NoCall)
       \/ page.at = "leaving" /\ At("gone") /\ Asks("main", NoCall)

\* Retry: transfer.
Retry ==
    /\ page.at = "kept" /\ UNCHANGED <<queue, desktop, companion, lost, crashes>>
    /\ IF page.live THEN At("asking") /\ Asks("main", Call("status", 0))
       ELSE At("uploading") /\ Asks("main", Call("upload", 0))
\* Uploaded once the desktop says that its recording ended without a result.
Uploads(phase) == phase \in {"failed", "cancelled"} /\ ~ IncognitoPhone
Asked ==
    LET p == calls["main"].phase IN
    /\ page.at = "asking" /\ Answered("main") /\ UNCHANGED <<queue, desktop, companion, lost, crashes>>
    /\ \/ Uploads(p) /\ page' = [page EXCEPT !.at = "uploading", !.live = FALSE] /\ Asks("main", Call("upload", 0))
       \/ ~ Uploads(p) /\ p \in Live /\ At("cancelling") /\ Asks("main", Call("cancel", 0))
       \/ ~ Uploads(p) /\ p \notin Live /\ Waits(p) /\ Asks("main", NoCall)
\* The job or the recording is asked for until it is over.
Wait ==
    /\ page.at = "waiting" /\ calls["main"] = NoCall /\ UNCHANGED <<page, queue, desktop, companion, lost, crashes>>
    /\ Asks("main", Call(IF page.live THEN "status" ELSE "job", 0))
Waited ==
    /\ page.at \in {"uploading", "waiting"} /\ Answered("main")
    /\ Waits(calls["main"].phase) /\ Asks("main", NoCall)
    /\ UNCHANGED <<queue, desktop, companion, lost, crashes>>

\* An answer does not arrive; its request may be on its way.
Lost(s) ==
    /\ s # "stray" /\ calls[s].kind # "free" /\ lost < MaxLost /\ lost' = lost + 1
    /\ \E on \in {TRUE, FALSE} :
        /\ on => Sent(s) /\ calls["stray"] = NoCall
        /\ calls' = [calls EXCEPT ![s].phase = "error", !["stray"] = IF on THEN calls[s] ELSE @]
    /\ UNCHANGED <<page, queue, desktop, companion, crashes>>

-----------------------------------------------------------------------------
\* The desktop

Phase == IF desk.phase = "completed" THEN "processing" ELSE desk.phase
\* What the desktop tells of the recording.
Tells == IF reply = "completed" THEN "completed" ELSE Phase
Replies(s, phase, n) ==
    calls' = [calls EXCEPT ![s] = IF s = "stray" THEN NoCall ELSE [@ EXCEPT !.phase = phase, !.next = n]]
Known == desk.up = "ready" /\ desk.phase # "none"

\* Start: refused while the desktop is busy; the first one begins the recording.
HandleStart(s) ==
    /\ UNCHANGED <<audio, reply>>
    /\ \/ desk.up = "off" /\ desk' = [desk EXCEPT !.up = "starting"] /\ UNCHANGED <<calls, quiet>>
       \/ desk.up = "off" /\ Replies(s, "error", 0) /\ UNCHANGED <<desk, quiet>>
       \/ desk.up = "starting" /\ Replies(s, "starting", 0) /\ UNCHANGED <<desk, quiet>>
       \/ desk.up = "ready" /\ desk.phase = "none" /\ Replies(s, "error", 0) /\ UNCHANGED <<desk, quiet>>
       \/ /\ desk.up = "ready" /\ desk.phase = "none" /\ Replies(s, "preparing", 0)
          /\ desk' = [desk EXCEPT !.phase = "preparing"] /\ quiet' = [sound |-> 0, on |-> 0]
       \/ Known /\ Replies(s, Tells, desk.sequence) /\ UNCHANGED <<desk, quiet>>

\* Mutated: a chunk that was written is written again.
NewOrAgain(n) == n <= desk.sequence
\* The next chunk is written; an earlier one is only acknowledged.
NewChunk(n) == n = desk.sequence
\* MAX_PCM_BYTES is reached with this chunk.
Full == Len(audio) + 1 = PcmLimit
HandleAudio(s) ==
    LET n == calls[s].seq IN
    /\ UNCHANGED reply
    /\ \/ ~ Known /\ Replies(s, "error", 0) /\ UNCHANGED <<desk, audio, quiet>>
       \/ Known /\ desk.phase # "recording" /\ Replies(s, Tells, desk.sequence) /\ UNCHANGED <<desk, audio, quiet>>
       \/ Known /\ desk.phase = "recording" /\ n > desk.sequence /\ Replies(s, "error", 0) /\ UNCHANGED <<desk, audio, quiet>>
       \/ /\ Known /\ desk.phase = "recording" /\ n <= desk.sequence
          /\ LET new == NewChunk(n)
                 full == new /\ Full
                 d == IF new THEN [desk EXCEPT !.sequence = @ + 1] ELSE desk
             IN /\ audio' = IF new THEN Append(audio, n) ELSE audio
                /\ quiet' = IF new THEN [quiet EXCEPT !.sound = 0] ELSE quiet
                /\ desk' = IF full THEN [d EXCEPT !.phase = "processing", !.by = "limit"] ELSE d
                /\ Replies(s, IF full THEN "processing" ELSE "recording", d.sequence)

Counted(n) == n = desk.sequence
HandleStop(s) ==
    /\ UNCHANGED <<audio, quiet, reply>>
    /\ IF Known /\ desk.phase = "recording" /\ Counted(calls[s].seq)
       THEN desk' = [desk EXCEPT !.phase = "processing", !.by = "phone"] /\ Replies(s, "processing", desk.sequence)
       ELSE UNCHANGED desk /\ Replies(s, IF Known /\ desk.phase # "recording" THEN Tells ELSE "error", desk.sequence)
HandleCancel(s) ==
    /\ UNCHANGED <<audio, quiet, reply>>
    /\ IF Known /\ desk.phase \in Live
       THEN desk' = [desk EXCEPT !.phase = "cancelled", !.by = "phone"] /\ Replies(s, "cancelled", desk.sequence)
       ELSE UNCHANGED desk /\ Replies(s, IF Known THEN Tells ELSE "error", desk.sequence)

\* Ready; prepared; stopped, cancelled or shut at the desk; recognised.
DeskReady == desk.up = "starting" /\ desk' = [desk EXCEPT !.up = "ready"] /\ UNCHANGED <<audio, quiet, reply, words>>
Prepared ==
    /\ desk.phase = "preparing" /\ UNCHANGED <<audio, reply, words>> /\ quiet' = [quiet EXCEPT !.on = 0]
    /\ \E p \in {"recording", "failed"} : desk' = [desk EXCEPT !.phase = p]
AtTheDesk ==
    /\ UNCHANGED <<audio, quiet, reply, words>>
    /\ \/ desk.phase = "recording" /\ desk' = [desk EXCEPT !.phase = "processing", !.by = "desk"]
       \/ desk.phase \in Live /\ desk' = [desk EXCEPT !.phase = "cancelled", !.by = "desk"]
Completes ==
    /\ desk.phase = "processing" /\ UNCHANGED <<audio, quiet, reply>>
    /\ \E p \in {"completed", "failed"} :
        /\ desk' = [desk EXCEPT !.phase = p]
        /\ words' = IF p = "completed" THEN Append(words, "live") ELSE words
\* phone_completed, when the window hears of it.
Reported ==
    /\ desk.phase = "completed" /\ reply = "none" /\ reply' = "completed"
    /\ UNCHANGED <<desk, audio, quiet, words>>

\* Mutated: nobody watches a recording.
ExpiredNever == FALSE
Expired ==
    \/ desk.phase = "preparing" /\ quiet.sound > PrepareLimit
    \/ desk.phase = "recording" /\ quiet.sound > AudioLimit
\* The watch of the desktop, once a second.
Watch ==
    /\ Expired /\ desk' = [desk EXCEPT !.phase = "cancelled", !.by = "watch"] /\ UNCHANGED <<audio, quiet, reply, words>>
Tick ==
    /\ desk.phase \in Live /\ quiet.sound < MaxTicks /\ ~ Expired
    /\ quiet' = [sound |-> quiet.sound + 1, on |-> quiet.on + 1] /\ UNCHANGED <<desk, audio, reply, words>>

-----------------------------------------------------------------------------
\* The companion

\* completed: a row of this recording with words.
InHistory == words # <<>> /\ ~ IncognitoPhone
\* start and status look into the history first; status keeps what it heard.
Serve(s) ==
    LET k == calls[s].kind IN
    /\ Sent(s) /\ UNCHANGED <<page, queue, lost, crashes>>
    /\ \/ k \in {"start", "status"} /\ InHistory /\ Replies(s, "completed", 0) /\ UNCHANGED <<desktop, companion>>
       \/ k = "start" /\ ~ InHistory /\ HandleStart(s) /\ UNCHANGED companion
       \/ /\ k = "status" /\ ~ InHistory /\ Replies(s, IF Known THEN Tells ELSE "error", desk.sequence)
          /\ job' = IF Known /\ Tells = "completed" THEN "completed" ELSE job
          /\ UNCHANGED <<desktop, words>>
       \/ k = "audio" /\ HandleAudio(s) /\ UNCHANGED companion
       \/ k = "stop" /\ HandleStop(s) /\ UNCHANGED companion
       \/ k = "cancel" /\ HandleCancel(s) /\ UNCHANGED companion
       \/ /\ k = "job" /\ UNCHANGED <<desktop, companion>>
          /\ Replies(s, IF job # "none" THEN job ELSE IF InHistory THEN "completed" ELSE "error", 0)

\* The job, or the words in the history.
HistoryReceipt == IF job \in {"processing", "completed"} THEN job ELSE IF InHistory THEN "completed" ELSE "none"
\* upload: its job, the history and the desktop are asked before it is taken in.
Upload(s) ==
    /\ Sent(s) /\ calls[s].kind = "upload" /\ UNCHANGED <<page, queue, lost, crashes, desktop, words>>
    /\ \/ HistoryReceipt # "none" /\ Replies(s, HistoryReceipt, 0) /\ UNCHANGED job
       \/ HistoryReceipt = "none" /\ Known /\ Tells \in Live \cup {"processing"} /\ Replies(s, "error", 0) /\ UNCHANGED job
       \/ HistoryReceipt = "none" /\ Known /\ Tells = "completed" /\ Replies(s, "completed", 0) /\ UNCHANGED job
       \/ /\ HistoryReceipt = "none" /\ ~ (Known /\ Tells \in Live \cup {"processing", "completed"})
          /\ Replies(s, "processing", 0) /\ job' = "processing"

\* process, with its row in the history; it may fail.
Process ==
    /\ job = "processing" /\ UNCHANGED <<page, queue, calls, desktop, lost, crashes>>
    /\ \/ job' = "failed" /\ UNCHANGED words
       \/ job' = "completed" /\ words' = Append(words, "inbox")

\* The desktop, the companion or the page goes away, and comes back.
DesktopEnds ==
    /\ desk.up # "off" /\ desk' = [NoSession EXCEPT !.up = "off"] /\ reply' = "none" /\ audio' = <<>>
    /\ quiet' = [sound |-> 0, on |-> 0] /\ UNCHANGED <<page, queue, calls, companion>>
DesktopBegins == desk.up = "off" /\ desk' = [desk EXCEPT !.up = "starting"]
                 /\ UNCHANGED <<page, queue, calls, audio, quiet, reply, companion, lost, crashes>>
CompanionEnds == /\ job' = "none" /\ calls' = [s \in Slot |-> IF Sent(s) /\ s # "stray" THEN [calls[s] EXCEPT !.phase = "error"]
                                                             ELSE IF s = "stray" THEN NoCall ELSE calls[s]]
                 /\ UNCHANGED <<page, queue, desktop, words>>
\* What was stored is there again, as it was stored: from the live microphone.
PageEnds ==
    /\ page.at # "gone" /\ page' = [page EXCEPT !.at = IF page.stored THEN "kept" ELSE "gone", !.live = TRUE]
    /\ queue' = <<>>
    /\ \E s \in Slot : calls' = [t \in Slot |-> IF t # "stray" THEN NoCall
                                                ELSE IF Sent(s) THEN calls[s] ELSE calls[t]]
    /\ UNCHANGED <<desktop, companion>>
Crash == crashes < MaxCrashes /\ crashes' = crashes + 1 /\ UNCHANGED lost /\ (DesktopEnds \/ CompanionEnds \/ PageEnds)

-----------------------------------------------------------------------------
Phone == Start \/ SendChunk \/ ChunkAnswered \/ Polls \/ PollAnswered \/ Finish \/ FinishAnswered \/ Asked \/ Wait \/ Waited
Desk == /\ UNCHANGED <<page, queue, calls, job, lost, crashes>>
        /\ (DeskReady \/ Prepared \/ AtTheDesk \/ Completes \/ Reported \/ Watch \/ Tick)
ServesCall(s) == Serve(s) \/ Upload(s)
Next ==
    \/ Record \/ Chunk \/ Stop \/ Retry \/ Phone \/ Desk \/ Process \/ Crash \/ DesktopBegins
    \/ \E s \in Slot : ServesCall(s) \/ Lost(s)
Spec == Init /\ [][Next]_vars

Unmoved == UNCHANGED <<page, queue, calls, job, lost, crashes>>
\* The page runs, requests are served, the desktop's timer and its work go on.  People need do nothing.
Fairness ==
    /\ WF_vars(Start) /\ WF_vars(SendChunk) /\ WF_vars(ChunkAnswered) /\ WF_vars(Polls) /\ WF_vars(PollAnswered)
    /\ WF_vars(Finish) /\ WF_vars(FinishAnswered) /\ WF_vars(Asked) /\ WF_vars(Wait) /\ WF_vars(Waited)
    /\ WF_vars(Unmoved /\ DeskReady) /\ WF_vars(Unmoved /\ Prepared) /\ WF_vars(Unmoved /\ Completes)
    /\ WF_vars(Unmoved /\ Reported) /\ WF_vars(Unmoved /\ Watch) /\ WF_vars(Unmoved /\ Tick) /\ WF_vars(Process)
    /\ \A s \in Slot : WF_vars(ServesCall(s))
LiveSpec == Spec /\ Fairness
\* And somebody goes on asking for the transfer, with the desktop open and recognition at hand.
RetrySpec == LiveSpec /\ SF_vars(Retry) /\ WF_vars(DesktopBegins) /\ SF_vars(Process /\ job' = "completed")

-----------------------------------------------------------------------------
\* Properties

\* Types.
TypeOK ==
    /\ page.at \in {"idle", "starting", "recording", "finishing", "stopping", "cancelling", "leaving", "kept", "asking",
                    "uploading", "waiting", "done", "gone"}
    /\ page.sequence <= page.made /\ page.made <= MaxChunks /\ Len(queue) <= QueueLimit
    /\ desk.phase \in Live \cup Over \cup {"none", "processing"} /\ desk.up \in {"off", "starting", "ready"}
    /\ Len(audio) <= PcmLimit

\* "Half-second requests are numbered and acknowledged in order; a retry of an acknowledged chunk cannot
\* append it twice": the file holds the chunks in their order, each once, none left out.
SoundIsWhole == audio = [i \in 1..desk.sequence |-> i - 1]

\* "It does not silently skip speech": a recording that the phone stopped holds all that the phone recorded.
StoppedIsComplete == desk.by = "phone" /\ desk.phase \in {"processing", "completed"} => Len(audio) = page.made

\* The phone deletes its copy only of a recording that was recognised.
CopyOutlivesTheTransfer == page.at = "done" => words # <<>>

\* "Retries cannot pay twice": the recording is made into words once, by the desktop or by the companion.
RecognisedOnce == Len(words) <= 1

\* The phone's sound arrives whole, in order and to its end; it is recognised once, and its copy is kept
\* until then.
PhoneSoundArrives == SoundIsWhole /\ StoppedIsComplete /\ RecognisedOnce /\ CopyOutlivesTheTransfer

\* A recording that the desktop ended, or the phone left, ends on both sides.
StopsTogether == (page.at = "recording" /\ desk.phase \in Over \cup {"none", "processing"}) ~> page.at # "recording"
Abandoned == (desk.phase \in Live /\ page.at \in {"gone", "kept"}) ~> desk.phase \notin Live

\* "Cancels without final delivery after twenty seconds without audio": the watch waits that long for sound
\* from a recording that has begun.
WatchWaitsForSound == [][desk.phase = "recording" /\ desk'.by = "watch" => quiet.on > AudioLimit]_vars

\* "This desktop session is unavailable. Keep the phone audio and retry its transfer": retrying transfers it.
RetryTransfers == page.at = "kept" ~> page.at \in {"done", "gone"}
=============================================================================
