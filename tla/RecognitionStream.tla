--------------------------- MODULE RecognitionStream ---------------------------
(***************************************************************************)
(* One live recognition: the tasks around its socket, its bounded audio    *)
(* queue, cancellation, and the rule that only what the service finished   *)
(* becomes text (mluva-providers: realtime.rs for ElevenLabs, which counts *)
(* its commits; stream.rs for Microsoft and xAI, whose segments have keys, *)
(* and Mistral, which sends deltas and one final text).                    *)
(*                                                                         *)
(* Audio is its chunks, numbered; a text is the chunks it says.  Every     *)
(* timeout is a fault, since it can only pass when something is late.  The *)
(* wire formats are kept as the events they decode to; the handshake, the  *)
(* messages of errors and languages are left out.                          *)
(***************************************************************************)
EXTENDS Naturals, Sequences, FiniteSets, SequencesExt

CONSTANTS
    Wire,        \* "commits" | "segments" | "deltas"
    Capacity,    \* maximum_queued_chunks
    Interval,    \* MANUAL_COMMIT_INTERVAL_BYTES, in chunks
    Expecting,   \* AUDIO_EXPECTING_TEXT_BYTES, in chunks
    MaxChunks,   \* bound: the recording
    MaxPartials, \* bound: unfinished words shown, and segments sent again
    MaxFaults    \* bound: what goes wrong

VARIABLES
    source,   \* the recorder: [offered: chunks, refused, at: its submit_audio passed the check]
    queue,    \* the audio channel
    policy,   \* Policy
    sender,   \* send_audio: [at, item]
    receiver, \* the reading task: [at, segment: to tell]
    job,      \* the consumer being called: [at, kind, segment]
    consumer, \* [preview, committed]: still installed
    told,     \* what the committed consumer was given, in order
    finisher, \* finish(): [at, text]
    closer,   \* close_workers: none | asked | sender | receiver | closed
    service,  \* [current: heard and not finished, commits: asked for, keys, said, ended, gone, withheld]
    inbound,  \* its events on the way
    shown,    \* the words it previewed and did not take back
    late,     \* a timeout passed
    spent

streamVars == <<source, queue, policy, sender, receiver, job, consumer, told, finisher, closer, service, inbound, shown, late, spent>>
tasks == <<sender, receiver, job, consumer, told>>

Finish == 0
Manual == Wire = "commits"
Event(kind, text, key) == [kind |-> kind, text |-> text, key |-> key]
NoSegment == [sequence |-> 0, text |-> <<>>]
NoJob == [at |-> "none", kind |-> "preview", segment |-> NoSegment]
Joined(segments) == FlattenSeq([i \in DOMAIN segments |-> segments[i].text])
Fault == spent.faults < MaxFaults /\ spent' = [spent EXCEPT !.faults = @ + 1]
Closing == closer \notin {"none", "asked"}

-----------------------------------------------------------------------------
(***************************************************************************)
(* The callers: audio, finish, cancel.                                     *)
(***************************************************************************)

\* fail: the first failure is kept, unless the session is cancelled.
Failed(p) == [p EXCEPT !.failure = @ \/ ~p.cancelled]

\* submit_audio: the state is looked at, ...
Offer ==
    /\ source.at = "idle" /\ source.offered < MaxChunks /\ finisher.at = "none"
    /\ source' = [source EXCEPT !.offered = @ + 1, !.refused = @ \/ policy.failure \/ policy.cancelled,
                                !.at = IF policy.failure \/ policy.cancelled THEN "idle" ELSE "checked"]
    /\ UNCHANGED <<queue, policy, tasks, finisher, closer, service, inbound, late, spent, shown>>

QueueFull(p) == Failed(p)

\* ... and the chunk is queued, if there is room and the task still reads.
Submit ==
    /\ source.at = "checked" /\ source' = [source EXCEPT !.at = "idle"]
    /\ IF Len(queue) < Capacity /\ sender.at # "ended"
       THEN queue' = Append(queue, source.offered) /\ UNCHANGED policy
       ELSE policy' = QueueFull(policy) /\ UNCHANGED queue
    /\ UNCHANGED <<tasks, finisher, closer, service, inbound, late, spent, shown>>

\* request_cancel and request_close.
Cancelled(p) == [p EXCEPT !.cancelled = TRUE, !.finishing = TRUE, !.volatile = <<>>]
Asked == IF closer = "none" THEN "asked" ELSE closer
NoConsumers == [preview |-> FALSE, committed |-> FALSE]

\* cancel, by a caller or by a dropped session; a future of finish that is dropped goes with it.
Cancel ==
    /\ ~policy.cancelled /\ closer = "none" /\ finisher.at # "returned"
    /\ policy' = Cancelled(policy) /\ closer' = Asked /\ consumer' = NoConsumers
    /\ finisher' \in {finisher} \cup (IF finisher.at = "none" THEN {} ELSE {[finisher EXCEPT !.at = "dropped"]})
    /\ UNCHANGED <<source, queue, sender, receiver, job, told, service, inbound, late, spent, shown>>

Returns(text) == [at |-> "returned", text |-> text]
NoText == <<Finish>>

\* finish, once the recorder has stopped: refused after a cancel, and an error when something failed before.
BeginFinish ==
    /\ finisher.at = "none" /\ source.at = "idle"
    /\ IF policy.cancelled
       THEN finisher' = Returns(NoText) /\ UNCHANGED <<policy, closer, consumer>>
       ELSE IF policy.failure
       THEN /\ policy' = Cancelled(policy) /\ closer' = Asked /\ consumer' = NoConsumers
            /\ finisher' = Returns(NoText)
       ELSE /\ policy' = [policy EXCEPT !.finishing = TRUE]
            /\ finisher' = [finisher EXCEPT !.at = "queueing"] /\ UNCHANGED <<closer, consumer>>
    /\ UNCHANGED <<source, queue, sender, receiver, job, told, service, inbound, late, spent, shown>>

\* The end of the audio is queued, when there is room before the deadline.
QueueFinish ==
    /\ finisher.at = "queueing" /\ finisher' = [finisher EXCEPT !.at = "sending"]
    /\ \/ Len(queue) < Capacity /\ sender.at # "ended" /\ queue' = Append(queue, Finish) /\ UNCHANGED <<policy, spent>>
       \/ sender.at = "ended" /\ policy' = Failed(policy) /\ UNCHANGED <<queue, spent>>
       \/ Fault /\ policy' = Failed(policy) /\ UNCHANGED queue
    /\ UNCHANGED <<source, tasks, closer, service, inbound, late, shown>>

\* wait_for: stream.rs gives up on a failure, realtime.rs waits for its deadline.
GivesUp(p) == p.cancelled \/ (~Manual /\ p.failure)

WaitSent ==
    /\ finisher.at = "sending" /\ finisher' = [finisher EXCEPT !.at = "finishing"]
    /\ \/ policy.senderDone /\ UNCHANGED <<policy, spent>>
       \/ ~policy.senderDone /\ GivesUp(policy) /\ policy' = Failed(policy) /\ UNCHANGED spent
       \/ ~policy.senderDone /\ Fault /\ policy' = Failed(policy)
    /\ UNCHANGED <<source, queue, tasks, closer, service, inbound, late, shown>>

WaitFinal ==
    /\ finisher.at = "finishing" /\ finisher' = [finisher EXCEPT !.at = "judging"]
    /\ \/ (policy.failure \/ policy.final) /\ UNCHANGED <<policy, spent>>
       \/ ~policy.final /\ GivesUp(policy) /\ policy' = Failed(policy) /\ UNCHANGED spent
       \/ ~policy.final /\ Fault /\ policy' = Failed(policy)
    /\ UNCHANGED <<source, queue, tasks, closer, service, inbound, late, shown>>

Suspicious(p, text) == ~Manual /\ text = <<>> /\ p.sent >= Expecting

Judge ==
    /\ finisher.at = "judging"
    /\ LET text == Joined(policy.segments)
           ends == policy.failure \/ Suspicious(policy, text)
       IN IF policy.cancelled /\ ~policy.failure
          THEN finisher' = Returns(NoText) /\ UNCHANGED <<policy, closer, consumer>>
          ELSE IF ends
          THEN /\ finisher' = Returns(NoText)
               /\ policy' = Cancelled(policy) /\ closer' = Asked /\ consumer' = NoConsumers
          ELSE /\ finisher' = [at |-> "closing", text |-> text] /\ closer' = Asked
               /\ UNCHANGED <<policy, consumer>>
    /\ UNCHANGED <<source, queue, sender, receiver, job, told, service, inbound, late, spent, shown>>

FinishReturns ==
    /\ finisher.at = "closing" /\ closer = "closed" /\ finisher' = [finisher EXCEPT !.at = "returned"]
    /\ UNCHANGED <<source, queue, policy, tasks, closer, service, inbound, late, spent, shown>>

-----------------------------------------------------------------------------
(***************************************************************************)
(* send_audio.                                                             *)
(***************************************************************************)

Token == policy.cancelled \/ Closing
SenderEnds == sender' = [at |-> "ended", item |-> Finish]
Ended(p) == [p EXCEPT !.senderDone = TRUE]

AllCommitted(p) == p.since = 0 /\ p.commits > 0

\* A chunk is taken; the end commits what is left, or waits for the commits that are under way.
Take ==
    /\ sender.at = "waiting" /\ ~Token /\ queue # <<>>
    /\ queue' = Tail(queue)
    /\ IF Manual /\ Head(queue) = Finish
       THEN IF AllCommitted(policy)
            THEN /\ policy' = Ended([policy EXCEPT !.target = policy.commits, !.final = policy.dispatched >= policy.commits])
                 /\ SenderEnds
            ELSE /\ policy' = [policy EXCEPT !.commits = @ + 1, !.target = policy.commits + 1]
                 /\ sender' = [at |-> "sending", item |-> Finish]
       ELSE sender' = [at |-> "sending", item |-> Head(queue)] /\ UNCHANGED policy
    /\ UNCHANGED <<source, receiver, job, consumer, told, finisher, closer, service, inbound, late, spent, shown>>

\* The service hears a chunk; a commit, or the end of the audio.
Hears(s, item) ==
    IF item # Finish THEN [s EXCEPT !.current = Append(@, item)]
    ELSE IF Manual THEN [s EXCEPT !.commits = Append(@, s.current), !.current = <<>>]
    ELSE [s EXCEPT !.ended = TRUE]

\* The message is sent, or the connection is gone; every Interval chunks a commit follows.
Send ==
    /\ sender.at = "sending"
    /\ IF Token THEN SenderEnds /\ policy' = Ended(policy) /\ UNCHANGED service
       ELSE IF service.gone THEN SenderEnds /\ policy' = Ended(Failed(policy)) /\ UNCHANGED service
       ELSE /\ service' = Hears(service, sender.item)
            /\ IF sender.item = Finish THEN SenderEnds /\ policy' = Ended(policy)
               ELSE LET due == Manual /\ policy.since + 1 >= Interval
                    IN /\ policy' = [policy EXCEPT !.sent = @ + 1, !.since = IF due THEN 0 ELSE @ + 1,
                                                   !.commits = IF due THEN @ + 1 ELSE @]
                       /\ sender' = [at |-> IF due THEN "committing" ELSE "waiting", item |-> Finish]
    /\ UNCHANGED <<source, queue, receiver, job, consumer, told, finisher, closer, inbound, late, spent, shown>>

Commit ==
    /\ sender.at = "committing"
    /\ IF Token THEN SenderEnds /\ policy' = Ended(policy) /\ UNCHANGED service
       ELSE IF service.gone THEN SenderEnds /\ policy' = Ended(Failed(policy)) /\ UNCHANGED service
       ELSE service' = Hears(service, Finish) /\ sender' = [at |-> "waiting", item |-> Finish] /\ UNCHANGED policy
    /\ UNCHANGED <<source, queue, receiver, job, consumer, told, finisher, closer, inbound, late, spent, shown>>

StopSending ==
    /\ sender.at = "waiting" /\ Token /\ SenderEnds /\ policy' = Ended(policy)
    /\ UNCHANGED <<source, queue, receiver, job, consumer, told, finisher, closer, service, inbound, late, spent, shown>>

-----------------------------------------------------------------------------
(***************************************************************************)
(* The reading task, and the consumers it calls on another thread.         *)
(***************************************************************************)

\* What the event changes: [policy, next: where the reader goes on, segment: to be told].
Same(p) == [policy |-> p, next |-> "reading", segment |-> NoSegment]
Shown(p) == [policy |-> p, next |-> "preview", segment |-> NoSegment]
Stopped(p) == Same(Failed(p))
Deaf(p) == p.cancelled \/ p.closing
Told(p, key, text) ==
    [policy |-> [p EXCEPT !.volatile = <<>>, !.segments = Append(@, [key |-> key, text |-> text])], next |-> "tell",
     segment |-> [sequence |-> Len(p.segments) + 1, text |-> text]]

Known(p, key) == \E i \in DOMAIN p.segments : p.segments[i].key = key

\* Shared::event of realtime.rs.
OfCommits(p, e) ==
    CASE e.kind = "partial" -> IF Deaf(p) THEN Same(p) ELSE Shown([p EXCEPT !.volatile = e.text])
      [] e.kind = "committed" ->
            IF Deaf(p) THEN Same(p)
            ELSE IF e.text = <<>> THEN [policy |-> [p EXCEPT !.volatile = <<>>], next |-> "dispatch", segment |-> NoSegment]
            ELSE Told(p, Len(p.segments) + 1, e.text)
      [] OTHER -> Stopped(p)

Unfinished(p) == p.volatile # <<>>

\* Shared::event of stream.rs.
OfStream(p, e) ==
    CASE e.kind \in {"interim", "append", "discard"} ->
            IF Deaf(p) \/ p.final THEN Same(p)
            ELSE Shown([p EXCEPT !.volatile = IF e.kind = "append" THEN @ \o e.text ELSE e.text])
      [] e.kind = "segment" ->
            IF Deaf(p) \/ p.final THEN Same(p)
            ELSE IF e.text = <<>> THEN Shown([p EXCEPT !.volatile = <<>>])
            ELSE IF Known(p, e.key)
            THEN Shown([p EXCEPT !.volatile = <<>>,
                                 !.segments = [i \in DOMAIN @ |-> IF @[i].key = e.key THEN [@[i] EXCEPT !.text = e.text] ELSE @[i]]])
            ELSE Told(p, e.key, e.text)
      [] e.kind = "final" ->
            IF Deaf(p) THEN Same(p)
            ELSE IF ~p.finishing \/ (e.text = <<>> /\ Unfinished(p)) THEN Stopped(p)
            ELSE Shown([p EXCEPT !.volatile = <<>>, !.final = TRUE,
                                 !.segments = IF e.text = <<>> THEN <<>> ELSE <<[key |-> 0, text |-> e.text]>>])
      [] e.kind = "done" ->
            IF Deaf(p) THEN Same(p)
            ELSE IF ~p.finishing \/ Unfinished(p) THEN Stopped(p)
            ELSE Same([p EXCEPT !.final = TRUE])
      [] OTHER -> Stopped(p)

Outcome(p, e) == IF Manual THEN OfCommits(p, e) ELSE OfStream(p, e)
Expected(p) == p.cancelled \/ p.closing \/ p.final

\* The reader leaves after an event when the session is over.
Over(p) == p.cancelled \/ p.closing \/ (~Manual /\ p.final)
GoesOn(p) == [at |-> IF Over(p) THEN "ended" ELSE "reading", segment |-> NoSegment]

Read ==
    /\ receiver.at = "reading" /\ ~Token /\ inbound # <<>>
    /\ inbound' = Tail(inbound)
    /\ LET e == Head(inbound) IN
       IF e.kind = "closed"
       THEN /\ policy' = IF Expected(policy) THEN policy ELSE Failed(policy)
            /\ receiver' = [receiver EXCEPT !.at = "ended"] /\ UNCHANGED shown
       ELSE LET to == Outcome(policy, e)
            IN /\ policy' = to.policy
               /\ receiver' = IF to.next = "reading" THEN GoesOn(to.policy) ELSE [at |-> to.next, segment |-> to.segment]
               /\ shown' = IF Manual THEN shown
                            ELSE IF e.kind = "discard" THEN shown \ ToSet(policy.volatile)
                            ELSE shown \cup ToSet(to.policy.volatile)
    /\ UNCHANGED <<source, queue, sender, job, consumer, told, finisher, closer, service, late, spent>>

StopReading ==
    /\ receiver.at = "reading" /\ Token /\ receiver' = [receiver EXCEPT !.at = "ended"]
    /\ UNCHANGED <<source, queue, policy, sender, job, consumer, told, finisher, closer, service, inbound, late, spent, shown>>

\* preview and committed: a thread is asked to call the consumer, unless the session is cancelled.
Installed(kind) == IF kind = "tell" THEN consumer.committed ELSE consumer.preview
Call ==
    /\ receiver.at \in {"tell", "preview"} /\ job.at = "none" /\ ~policy.cancelled
    /\ job' = [at |-> "asked", kind |-> receiver.at, segment |-> receiver.segment]
    /\ UNCHANGED <<source, queue, policy, sender, receiver, consumer, told, finisher, closer, service, inbound, late, spent, shown>>

After(kind) == IF kind = "tell" THEN (IF Manual THEN "dispatch" ELSE "preview") ELSE "reading"
ReaderAfter(kind) ==
    IF After(kind) = "reading" THEN GoesOn(policy) ELSE [at |-> After(kind), segment |-> NoSegment]

SkipCall ==
    /\ receiver.at \in {"tell", "preview"} /\ job.at = "none" /\ policy.cancelled
    /\ receiver' = ReaderAfter(receiver.at)
    /\ UNCHANGED <<source, queue, policy, sender, job, consumer, told, finisher, closer, service, inbound, late, spent, shown>>

\* The thread takes the consumer out, ...
TakeConsumer ==
    /\ job.at = "asked"
    /\ IF policy.cancelled \/ ~Installed(job.kind)
       THEN /\ job' = NoJob /\ UNCHANGED <<consumer, told>>
            /\ receiver' = IF receiver.at = job.kind THEN ReaderAfter(job.kind) ELSE receiver
       ELSE /\ job' = [job EXCEPT !.at = "called"] /\ UNCHANGED receiver
            /\ consumer' = [consumer EXCEPT ![IF job.kind = "tell" THEN "committed" ELSE "preview"] = FALSE]
            /\ told' = IF job.kind = "tell" THEN Append(told, job.segment) ELSE told
    /\ UNCHANGED <<source, queue, policy, sender, finisher, closer, service, inbound, late, spent, shown>>

\* ... and puts it back when it succeeded and nobody cancelled.
ConsumerReturns ==
    /\ job.at = "called" /\ job' = NoJob
    /\ receiver' = IF receiver.at = job.kind THEN ReaderAfter(job.kind) ELSE receiver
    /\ LET name == IF job.kind = "tell" THEN "committed" ELSE "preview"
       IN \/ consumer' = [consumer EXCEPT ![name] = ~policy.cancelled] /\ UNCHANGED spent
          \/ Fault /\ UNCHANGED consumer
    /\ UNCHANGED <<source, queue, policy, sender, told, finisher, closer, service, inbound, late, shown>>

Reached(p) == p.target # 0 /\ p.dispatched + 1 >= p.target

\* A commit is answered.
Dispatch ==
    /\ receiver.at = "dispatch"
    /\ policy' = [policy EXCEPT !.dispatched = @ + 1, !.final = @ \/ Reached(policy)]
    /\ receiver' = [at |-> "preview", segment |-> NoSegment]
    /\ UNCHANGED <<source, queue, sender, job, consumer, told, finisher, closer, service, inbound, late, spent, shown>>

-----------------------------------------------------------------------------
(***************************************************************************)
(* close_workers: ends both tasks, and acknowledges that they ended.       *)
(***************************************************************************)

BeginClose ==
    /\ closer = "asked" /\ closer' = "sender" /\ policy' = [policy EXCEPT !.closing = TRUE]
    /\ UNCHANGED <<source, queue, tasks, finisher, service, inbound, late, spent, shown>>

CloseSender ==
    /\ closer = "sender" /\ closer' = "receiver"
    /\ \/ sender.at = "ended" /\ service' = [service EXCEPT !.gone = TRUE] /\ UNCHANGED <<sender, late, spent>>
       \/ /\ sender.at # "ended" /\ Fault /\ late' = TRUE
          /\ sender' = [at |-> "ended", item |-> Finish] /\ UNCHANGED service
    /\ UNCHANGED <<source, queue, policy, receiver, job, consumer, told, finisher, inbound, shown>>

CloseReceiver ==
    /\ closer = "receiver" /\ closer' = "closed"
    /\ \/ receiver.at = "ended" /\ UNCHANGED <<receiver, late, spent>>
       \/ receiver.at # "ended" /\ Fault /\ late' = TRUE /\ receiver' = [at |-> "ended", segment |-> NoSegment]
    /\ UNCHANGED <<source, queue, policy, sender, job, consumer, told, finisher, service, inbound, shown>>

-----------------------------------------------------------------------------
(***************************************************************************)
(* The service.                                                            *)
(***************************************************************************)

Says(e, s) ==
    /\ ~service.gone
    /\ inbound' = Append(inbound, e) /\ service' = s
    /\ UNCHANGED <<source, queue, policy, tasks, finisher, closer, late, shown>>

\* Words it may still change: a delta adds what was not said yet.
Unsaid == SubSeq(service.current, service.said + 1, Len(service.current))
ServiceShows ==
    /\ spent.partials < MaxPartials /\ spent' = [spent EXCEPT !.partials = @ + 1]
    /\ IF Wire = "deltas"
       THEN Unsaid # <<>> /\ Says(Event("append", Unsaid, 0), [service EXCEPT !.said = Len(service.current)])
       ELSE /\ service.current # <<>>
            /\ Says(Event(IF Manual THEN "partial" ELSE "interim", service.current, 0), service)

\* It finishes words: the answer to a commit, or a segment.
ServiceFinishes ==
    \/ /\ Manual /\ service.commits # <<>> /\ UNCHANGED spent
       /\ Says(Event("committed", Head(service.commits), 0), [service EXCEPT !.commits = Tail(@)])
    \/ /\ Wire = "segments" /\ service.current # <<>> /\ UNCHANGED spent
       /\ Says(Event("segment", service.current, service.keys + 1),
               [service EXCEPT !.current = <<>>, !.keys = @ + 1, !.last = service.current])

\* A segment is sent again.
ServiceRepeats ==
    /\ Wire = "segments" /\ service.keys > 0 /\ spent.partials < MaxPartials
    /\ spent' = [spent EXCEPT !.partials = @ + 1]
    /\ Says(Event("segment", service.last, service.keys), service)

\* It finishes the turn, when it finished every word.
ServiceEnds ==
    /\ service.ended /\ UNCHANGED spent
    /\ \/ Wire = "segments" /\ service.current = <<>> /\ Says(Event("done", <<>>, 0), [service EXCEPT !.ended = FALSE])
       \/ Wire = "deltas" /\ Says(Event("final", service.current, 0), [service EXCEPT !.ended = FALSE])

\* It reports an error, closes, ends too early, or ends without the words.
ServiceFails ==
    /\ Fault
    /\ \/ Says(Event("failed", <<>>, 0), service)
       \/ Says(Event("closed", <<>>, 0), [service EXCEPT !.gone = TRUE])
       \/ /\ Manual /\ service.commits # <<>>
          /\ Says(Event("committed", <<>>, 0), [service EXCEPT !.commits = Tail(@), !.withheld = TRUE])
       \/ ~Manual /\ Says(Event(IF Wire = "deltas" THEN "final" ELSE "done", <<>>, 0), [service EXCEPT !.withheld = TRUE])
       \/ /\ Wire = "segments" /\ service.current # <<>>
          /\ Says(Event("discard", <<>>, 0), [service EXCEPT !.current = <<>>, !.withheld = TRUE])

-----------------------------------------------------------------------------

Init ==
    /\ source = [offered |-> 0, refused |-> FALSE, at |-> "idle"] /\ queue = <<>>
    /\ policy = [segments |-> <<>>, volatile |-> <<>>, failure |-> FALSE, finishing |-> FALSE, cancelled |-> FALSE,
                 closing |-> FALSE, sent |-> 0, since |-> 0, commits |-> 0, dispatched |-> 0, target |-> 0,
                 final |-> FALSE, senderDone |-> FALSE]
    /\ sender = [at |-> "waiting", item |-> Finish] /\ receiver = [at |-> "reading", segment |-> NoSegment]
    /\ job = NoJob /\ consumer = [preview |-> TRUE, committed |-> TRUE] /\ told = <<>>
    /\ finisher = [at |-> "none", text |-> NoText] /\ closer = "none"
    /\ service = [current |-> <<>>, commits |-> <<>>, keys |-> 0, last |-> <<>>, said |-> 0, ended |-> FALSE,
                  gone |-> FALSE, withheld |-> FALSE]
    /\ inbound = <<>> /\ shown = {} /\ late = FALSE /\ spent = [partials |-> 0, faults |-> 0]

Next ==
    \/ Offer \/ Submit \/ Cancel \/ BeginFinish \/ QueueFinish \/ WaitSent \/ WaitFinal \/ Judge \/ FinishReturns
    \/ Take \/ Send \/ Commit \/ StopSending
    \/ Read \/ StopReading \/ Call \/ SkipCall \/ TakeConsumer \/ ConsumerReturns \/ Dispatch
    \/ BeginClose \/ CloseSender \/ CloseReceiver
    \/ ServiceShows \/ ServiceFinishes \/ ServiceRepeats \/ ServiceEnds \/ ServiceFails

Spec == Init /\ [][Next]_streamVars

-----------------------------------------------------------------------------

TypeOK ==
    /\ source.offered \in 0..MaxChunks /\ Len(queue) <= Capacity /\ policy.sent <= MaxChunks
    /\ sender.at \in {"waiting", "sending", "committing", "ended"}
    /\ receiver.at \in {"reading", "tell", "dispatch", "preview", "ended"}
    /\ finisher.at \in {"none", "queueing", "sending", "finishing", "judging", "closing", "returned", "dropped"}
    /\ closer \in {"none", "asked", "sender", "receiver", "closed"}

\* A text that finish returns is the whole recording: every chunk, once and in order, unless the service kept
\* words to itself that it never showed, or took back.  A refused chunk, a failure or words that were shown and not finished are an
\* error, so the recording is recognized again (stream.rs:4 "A stream that ends without finishing the words it
\* previewed fails").
TextIsWhole ==
    finisher.text # NoText =>
        /\ ~source.refused
        /\ \A i, j \in DOMAIN finisher.text : i < j => finisher.text[i] < finisher.text[j]
        /\ ~service.withheld => finisher.text = [i \in 1..source.offered |-> i]
        /\ ~Manual => shown \subseteq ToSet(finisher.text)
        /\ ~Manual /\ finisher.text = <<>> => source.offered < Expecting

\* The committed consumer is told every segment once, in the order of their numbers, and nothing after one it failed.
SegmentsInOrder == \A i \in DOMAIN told : told[i].sequence = i

\* Once the closing is acknowledged nothing of the session runs on, unless a task had to be aborted.
ClosedIsQuiet == closer = "closed" /\ ~late => sender.at = "ended" /\ receiver.at = "ended" /\ job.at = "none"

StreamStands == TextIsWhole /\ SegmentsInOrder /\ ClosedIsQuiet
=============================================================================
