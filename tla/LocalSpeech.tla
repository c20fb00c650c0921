------------------------------ MODULE LocalSpeech ------------------------------
(***************************************************************************)
(* A recording that a model on this computer, or a service without a live  *)
(* stream, recognizes: earlier parts are recognized for the preview while  *)
(* it goes on, and the whole of it once it is finished (mluva-providers:   *)
(* batch_preview.rs), by clients that own a model process (local_asr.rs,   *)
(* qwen.rs).                                                               *)
(*                                                                         *)
(* Audio is its chunks, numbered; a text is the chunks it says.  Qwen's    *)
(* wait until its server answers and the search for a GPU are part of      *)
(* being connected; what a worker answers with, memory and time limits are *)
(* one failure.                                                            *)
(***************************************************************************)
EXTENDS Naturals, Sequences, FiniteSets, SequencesExt

CONSTANTS
    Local,      \* PreviewBackend::Local, whose client stays with its weights
    Limit,       \* MAX_PREVIEW_BYTES, in chunks
    MaxChunks,  \* bound: the recording
    MaxFaults   \* bound: what goes wrong

VARIABLES
    state,     \* State: [audio: chunks kept, offset, text, healthy, finishing, active, resident: clients or 0]
    given,     \* [chunks: submitted, lost: some were refused]
    tokens,    \* [cancelled, stopped: stop_preview, closed], and whether the worker is to look: ready
    worker,    \* the preview task: [at, chunks, ok, client]
    request,   \* the two owned requests: name -> [at, chunks, client, ok]
    client,    \* LocalSpeechClient: id -> [cancelled, process, abandoned, lifecycle: who holds the lock]
    finisher,  \* finish(): [at, chunks, client, ok]
    cleanup,   \* the task cancel() starts: [at, client]
    callback,  \* who is calling the preview callback
    faults,
    late       \* a task was aborted, or its future dropped while it closed a client

speechVars == <<state, given, tokens, worker, request, client, finisher, cleanup, callback, faults, late>>

Clients == 1..(MaxChunks + 1)
None == 0
Fault == faults < MaxFaults /\ faults' = faults + 1
Free == \E c \in Clients : client[c].process = "unused"
NewClient == CHOOSE c \in Clients : client[c].process = "unused" /\ \A d \in 1..(c - 1) : client[d].process # "unused"

\* The process of a client runs until its lifecycle task has reaped it.
Runs(c) == client[c].process \in {"up", "stopping"}

\* Dropped references: a client nobody names is dropped, and its process is stopped.
Named(c, s, w, rq, f, k) ==
    c \in {s.active, s.resident, w.client, rq["preview"].client, rq["final"].client, f.client, k.client}
Dropped(cl, s, w, rq, f, k) ==
    [c \in Clients |-> IF Named(c, s, w, rq, f, k) \/ cl[c].process # "up" THEN cl[c] ELSE [cl[c] EXCEPT !.process = "stopping"]]

-----------------------------------------------------------------------------
(***************************************************************************)
(* The clients: connection, cancel, close, lifecycle.                      *)
(***************************************************************************)

\* StopOnDrop: the future of a request is dropped.
Abandoned(cl, c) == [cl EXCEPT ![c].abandoned = @ \/ cl[c].process = "up",
                               ![c].process = IF @ = "up" THEN "stopping" ELSE @]

\* cancel: the token, and the process that listens to it.
CancelledClient(cl, c) == [cl EXCEPT ![c].cancelled = TRUE, ![c].process = IF @ = "up" THEN "stopping" ELSE @]

\* close waits its turn, stops the process, ...
CanClose(c) == client[c].lifecycle = "free" \/ ~Local
StartClose(cl, c, who) == [cl EXCEPT ![c].lifecycle = who, ![c].process = IF @ = "up" THEN "stopping" ELSE @]

\* ... and returns once it is gone.
Closed(c, who) == client[c].lifecycle = who /\ ~Runs(c)
EndClose(cl, c) == [cl EXCEPT ![c].lifecycle = "free", ![c].process = IF @ = "gone" THEN "none" ELSE @, ![c].abandoned = FALSE]

\* lifecycle: the process is killed and reaped; or it ends by itself.
Reap ==
    \E c \in Clients :
        /\ client[c].process = "stopping" /\ client' = [client EXCEPT ![c].process = "gone"]
        /\ UNCHANGED <<state, given, tokens, worker, request, finisher, cleanup, callback, faults, late>>
Dies ==
    \E c \in Clients :
        /\ Fault /\ client[c].process = "up" /\ client' = [client EXCEPT ![c].process = "gone"]
        /\ UNCHANGED <<state, given, tokens, worker, request, finisher, cleanup, callback, late>>

-----------------------------------------------------------------------------
(***************************************************************************)
(* The recorder, and cancel.                                               *)
(***************************************************************************)

Due(kept, offset) == kept > offset
\* The subtraction wraps when the audio was emptied under a preview.
Wraps(kept, offset) == kept # offset

Submit ==
    /\ given.chunks < MaxChunks
    /\ LET deaf == ~state.healthy \/ state.finishing \/ tokens.cancelled
           full == state.audio = Limit
       IN /\ given' = [chunks |-> given.chunks + 1, lost |-> given.lost \/ deaf \/ full]
          /\ IF deaf THEN UNCHANGED <<state, tokens>>
             ELSE /\ state' = IF full THEN [state EXCEPT !.healthy = FALSE, !.audio = 0]
                              ELSE [state EXCEPT !.audio = @ + 1]
                  /\ tokens' = [tokens EXCEPT !.ready = @ \/ full \/ Due(state'.audio, state.offset)]
    /\ UNCHANGED <<worker, request, client, finisher, cleanup, callback, faults, late>>

\* cancel: nothing more is recognized or shown, and one task cleans up.
Erased(s) == [s EXCEPT !.audio = 0, !.text = <<>>]
Ending(t) == [t EXCEPT !.cancelled = TRUE, !.stopped = TRUE, !.ready = TRUE]
Cleaning == IF cleanup.at = "none" THEN [at |-> "looking", client |-> None] ELSE cleanup

\* By a caller; when finish is dropped, with it.
Cancel ==
    /\ cleanup.at = "none" \/ finisher.at \notin {"none", "returned", "dropped"}
    /\ \E drops \in {FALSE} \cup {finisher.at \notin {"none", "returned", "dropped"}} :
          /\ drops \/ ~tokens.cancelled
          /\ finisher' = IF drops THEN [finisher EXCEPT !.at = "dropped", !.client = None] ELSE finisher
          /\ late' = (late \/ (drops /\ finisher.client # None))
    /\ tokens' = Ending(tokens) /\ state' = Erased(state) /\ cleanup' = Cleaning
    /\ LET freed == [c \in Clients |-> IF finisher' # finisher /\ client[c].lifecycle = "finish"
                                       THEN [client[c] EXCEPT !.lifecycle = "free"] ELSE client[c]]
       IN client' = Dropped(freed, state', worker, request, finisher', cleanup')
    /\ UNCHANGED <<given, worker, request, callback, faults>>

\* The task: the client in use is cancelled, the preview task awaited, the client in use again, the requests, the resident.
CleanupLooks ==
    /\ \/ cleanup.at = "looking" /\ cleanup' = [at |-> IF state.active = None THEN "reaping" ELSE "cancelling", client |-> state.active]
       \/ cleanup.at = "again" /\ cleanup' = [at |-> IF state.active = None THEN "waiting" ELSE "cancelling again", client |-> state.active]
    /\ client' = IF state.active = None THEN client ELSE CancelledClient(client, state.active)
    /\ UNCHANGED <<state, given, tokens, worker, request, finisher, callback, faults, late>>

CleanupCloses ==
    /\ cleanup.at \in {"cancelling", "cancelling again", "emptying"}
    /\ \/ CanClose(cleanup.client) /\ client' = StartClose(client, cleanup.client, "cleanup") /\ UNCHANGED <<cleanup, tokens>>
       \/ /\ Closed(cleanup.client, "cleanup")
          /\ cleanup' = [at |-> CASE cleanup.at = "cancelling" -> "reaping"
                                  [] cleanup.at = "cancelling again" -> "waiting"
                                  [] OTHER -> "done", client |-> None]
          /\ tokens' = [tokens EXCEPT !.closed = cleanup'.at = "done"]
          /\ client' = EndClose(client, cleanup.client)
    /\ UNCHANGED <<state, given, worker, request, finisher, callback, faults, late>>

\* reap_worker: two seconds, then it is aborted.
Reaps(next) ==
    \/ worker.at = "ended" /\ next /\ UNCHANGED <<worker, client, late, faults>>
    \/ /\ worker.at \in {"waiting", "asking", "closing"} /\ Fault /\ late' = TRUE
       /\ worker' = [worker EXCEPT !.at = "ended", !.client = None] /\ next
       /\ client' = [c \in Clients |-> IF client[c].lifecycle = "worker" THEN [client[c] EXCEPT !.lifecycle = "free"] ELSE client[c]]

NoRequests == \A r \in DOMAIN request : request[r].at \in {"none", "answered"}

CleanupReaps ==
    /\ cleanup.at = "reaping" /\ Reaps(cleanup' = [cleanup EXCEPT !.at = "again"])
    /\ UNCHANGED <<state, given, tokens, request, finisher, callback>>

CleanupEmpties ==
    /\ cleanup.at = "waiting" /\ NoRequests
    /\ cleanup' = [at |-> IF state.resident = None THEN "done" ELSE "emptying", client |-> state.resident]
    /\ tokens' = [tokens EXCEPT !.closed = state.resident = None]
    /\ state' = [state EXCEPT !.resident = None]
    /\ UNCHANGED <<given, worker, request, client, finisher, callback, faults, late>>

-----------------------------------------------------------------------------
(***************************************************************************)
(* preview_loop.                                                           *)
(***************************************************************************)

Wake ==
    /\ worker.at = "waiting" /\ (tokens.stopped \/ tokens.ready)
    /\ IF tokens.stopped \/ ~state.healthy \/ state.finishing \/ tokens.cancelled
       THEN worker' = [worker EXCEPT !.at = "leaving"] /\ UNCHANGED <<state, tokens>>
       ELSE /\ tokens' = [tokens EXCEPT !.ready = FALSE]
            /\ IF Wraps(state.audio, state.offset)
               THEN /\ worker' = [worker EXCEPT !.at = "registering", !.chunks = [i \in 1..(state.audio - state.offset) |-> state.offset + i]]
                    /\ state' = [state EXCEPT !.offset = state.audio]
               ELSE UNCHANGED <<worker, state>>
    /\ UNCHANGED <<given, request, client, finisher, cleanup, callback, faults, late>>

\* transcribe: under the lock cancel takes, the request is counted or refused.
Refused(r) == tokens.cancelled \/ (r = "preview" /\ tokens.stopped)
Registered(r, chunks) == [request EXCEPT ![r] = [at |-> "staging", chunks |-> chunks, client |-> None, ok |-> FALSE]]

RegisterPreview ==
    /\ worker.at = "registering"
    /\ IF Refused("preview") THEN worker' = [worker EXCEPT !.at = "judging", !.ok = FALSE] /\ UNCHANGED request
       ELSE worker' = [worker EXCEPT !.at = "asking"] /\ request' = Registered("preview", worker.chunks)
    /\ UNCHANGED <<state, given, tokens, client, finisher, cleanup, callback, faults, late>>

Answered ==
    /\ worker.at = "asking" /\ request["preview"].at = "answered"
    /\ worker' = [worker EXCEPT !.at = "judging", !.ok = request["preview"].ok]
    /\ request' = [request EXCEPT !["preview"].at = "none"]
    /\ UNCHANGED <<state, given, tokens, client, finisher, cleanup, callback, faults, late>>

Judge ==
    /\ worker.at = "judging"
    /\ IF tokens.cancelled \/ state.finishing THEN worker' = [worker EXCEPT !.at = "leaving"] /\ UNCHANGED <<state, tokens>>
       ELSE IF ~worker.ok THEN worker' = [worker EXCEPT !.at = "leaving"] /\ state' = [state EXCEPT !.healthy = FALSE] /\ UNCHANGED tokens
       ELSE /\ worker' = [worker EXCEPT !.at = "showing"]
            /\ state' = [state EXCEPT !.text = @ \o worker.chunks]
            /\ tokens' = [tokens EXCEPT !.ready = @ \/ Wraps(state.audio, state.offset)]
    /\ UNCHANGED <<given, request, client, finisher, cleanup, callback, faults, late>>

\* notify_preview: one caller at a time; what is shown is decided before the callback is called.
Quiet == state.finishing \/ tokens.cancelled
Notify(who) == callback = "nobody" /\ callback' = IF Quiet THEN "nobody" ELSE who

WorkerShows ==
    /\ worker.at = "showing" /\ Notify("worker")
    /\ worker' = [worker EXCEPT !.at = IF Quiet THEN "waiting" ELSE "calling"]
    /\ UNCHANGED <<state, given, tokens, request, client, finisher, cleanup, faults, late>>

CallbackReturns ==
    /\ callback # "nobody" /\ callback' = "nobody"
    /\ worker' = IF callback = "worker" THEN [worker EXCEPT !.at = "waiting"] ELSE worker
    /\ UNCHANGED <<state, given, tokens, request, client, finisher, cleanup, faults, late>>

\* preview: the resident is closed unless finish needs it.
Leave ==
    /\ worker.at = "leaving"
    /\ IF state.finishing THEN worker' = [worker EXCEPT !.at = "ended"]
       ELSE worker' = [worker EXCEPT !.at = "taking"]
    /\ UNCHANGED <<state, given, tokens, request, client, finisher, cleanup, callback, faults, late>>

TakeResident ==
    /\ worker.at = "taking" /\ state' = [state EXCEPT !.resident = None]
    /\ worker' = [worker EXCEPT !.at = IF state.resident = None THEN "ended" ELSE "closing", !.client = state.resident]
    /\ UNCHANGED <<given, tokens, request, client, finisher, cleanup, callback, faults, late>>

WorkerCloses ==
    /\ worker.at = "closing"
    /\ \/ CanClose(worker.client) /\ client' = StartClose(client, worker.client, "worker") /\ UNCHANGED worker
       \/ /\ Closed(worker.client, "worker") /\ client' = EndClose(client, worker.client)
          /\ worker' = [worker EXCEPT !.at = "ended", !.client = None]
    /\ UNCHANGED <<state, given, tokens, request, finisher, cleanup, callback, faults, late>>

-----------------------------------------------------------------------------
(***************************************************************************)
(* transcribe_owned, for the preview and for the whole recording.          *)
(***************************************************************************)

Stops(r) == tokens.cancelled \/ (r = "preview" /\ tokens.stopped)
To(r, at) == request' = [request EXCEPT ![r].at = at]

\* The audio is written to a private file; from here to its end the request owns it.
Stage(r) ==
    /\ request[r].at = "staging"
    /\ \/ To(r, "opening") /\ UNCHANGED faults
       \/ Fault /\ To(r, "answered")
    /\ UNCHANGED <<state, given, tokens, worker, client, finisher, cleanup, callback, late>>

\* client(): the resident, or a new one.
Open(r) ==
    /\ request[r].at = "opening"
    /\ \/ /\ Stops(r) /\ To(r, "answered") /\ UNCHANGED <<state, client, faults>>
       \/ /\ ~Stops(r) /\ Local /\ state.resident # None
          /\ request' = [request EXCEPT ![r].at = "activating", ![r].client = state.resident] /\ UNCHANGED <<state, client, faults>>
       \/ /\ ~Stops(r) /\ (Local => state.resident = None) /\ Free
          /\ request' = [request EXCEPT ![r].at = "activating", ![r].client = NewClient]
          /\ client' = [client EXCEPT ![NewClient].process = "none"]
          /\ state' = [state EXCEPT !.resident = IF Local THEN NewClient ELSE @] /\ UNCHANGED faults
       \/ ~Stops(r) /\ (Local => state.resident = None) /\ Fault /\ To(r, "answered") /\ UNCHANGED <<state, client>>
    /\ UNCHANGED <<given, tokens, worker, finisher, cleanup, callback, late>>

Activate(r) ==
    /\ request[r].at = "activating" /\ To(r, "connecting") /\ state' = [state EXCEPT !.active = request[r].client]
    /\ UNCHANGED <<given, tokens, worker, client, finisher, cleanup, callback, faults, late>>

\* connection: the process that stands, or a new one, unless the client is cancelled.
Connect(r) ==
    LET c == request[r].client IN
    /\ request[r].at = "connecting" /\ client[c].lifecycle = "free"
    /\ IF client[c].cancelled THEN To(r, "closing") /\ UNCHANGED <<client, faults>>
       ELSE /\ ~(client[c].abandoned /\ Runs(c))
            /\ IF client[c].process = "gone" /\ ~client[c].abandoned
               THEN To(r, "closing") /\ UNCHANGED client
               ELSE To(r, "asking") /\ client' = [client EXCEPT ![c].process = "up", ![c].abandoned = FALSE]
            /\ UNCHANGED faults
    /\ UNCHANGED <<state, given, tokens, worker, finisher, cleanup, callback, late>>

\* The answer of the process; it failed, or it is gone.
Answer(r) ==
    LET c == request[r].client
        keeps == Local /\ r = "preview"
    IN
    /\ request[r].at = "asking" /\ ~Stops(r)
    /\ \/ client[c].process = "up" /\ request' = [request EXCEPT ![r].ok = TRUE, ![r].at = IF keeps THEN "clearing" ELSE "closing"] /\ UNCHANGED faults
       \/ client[c].process # "up" /\ To(r, "closing") /\ UNCHANGED faults
       \/ Fault /\ To(r, "closing")
    /\ UNCHANGED <<state, given, tokens, worker, client, finisher, cleanup, callback, late>>

\* Words of a part, while it is recognized.
Partial(r) ==
    /\ request[r].at = "asking" /\ ~Stops(r) /\ Local /\ ~Quiet /\ client[request[r].client].process = "up"
    /\ Notify("request")
    /\ UNCHANGED <<state, given, tokens, worker, request, client, finisher, cleanup, faults, late>>

\* The stop is looked at first: what was under way is dropped.
Abandon(r) ==
    /\ request[r].at \in {"connecting", "asking"} /\ Stops(r) /\ callback # "request"
    /\ To(r, "closing") /\ client' = IF request[r].at = "asking" THEN Abandoned(client, request[r].client) ELSE client
    /\ UNCHANGED <<state, given, tokens, worker, finisher, cleanup, callback, faults, late>>

Close(r) ==
    LET c == request[r].client IN
    /\ request[r].at = "closing" /\ callback # "request"
    /\ \/ CanClose(c) /\ client' = StartClose(client, c, r) /\ UNCHANGED <<request, state>>
       \/ /\ Closed(c, r) /\ client' = EndClose(client, c)
          /\ To(r, "clearing") /\ state' = [state EXCEPT !.resident = IF Local THEN None ELSE @]
    /\ UNCHANGED <<given, tokens, worker, finisher, cleanup, callback, faults, late>>

\* Nothing is active, the file is removed, and the answer is given up when cancelled; the last reference goes with it.
Clear(r) ==
    /\ request[r].at = "clearing" /\ callback # "request"
    /\ state' = [state EXCEPT !.active = None]
    /\ request' = [request EXCEPT ![r].at = "answered", ![r].client = None, ![r].ok = @ /\ ~tokens.cancelled]
    /\ client' = Dropped(client, state', worker, request', finisher, cleanup)
    /\ UNCHANGED <<given, tokens, worker, finisher, cleanup, callback, faults, late>>

-----------------------------------------------------------------------------
(***************************************************************************)
(* finish.                                                                 *)
(***************************************************************************)

FinishTo(at) == finisher' = [finisher EXCEPT !.at = at]

\* The audio is taken out, ...
BeginFinish ==
    /\ finisher.at = "none" /\ finisher' = [finisher EXCEPT !.at = "stopping", !.chunks = [i \in 1..state.audio |-> i]]
    /\ state' = [state EXCEPT !.finishing = TRUE, !.audio = 0]
    /\ UNCHANGED <<given, tokens, worker, request, client, cleanup, callback, faults, late>>

\* ... the preview is stopped, ...
StopPreview ==
    /\ finisher.at = "stopping" /\ FinishTo("looking") /\ tokens' = [tokens EXCEPT !.stopped = TRUE, !.ready = TRUE]
    /\ UNCHANGED <<state, given, worker, request, client, cleanup, callback, faults, late>>

LookAtActive ==
    /\ finisher.at = "looking"
    /\ finisher' = [finisher EXCEPT !.at = IF state.active = None THEN "reaping" ELSE "giving up", !.client = state.active]
    /\ UNCHANGED <<state, given, tokens, worker, request, client, cleanup, callback, faults, late>>

\* ... the client in use is not the next one's, and is cancelled, ...
GiveUpActive ==
    /\ finisher.at = "giving up" /\ FinishTo("cancelling")
    /\ state' = [state EXCEPT !.resident = IF Local THEN None ELSE @]
    /\ client' = CancelledClient(Dropped(client, state', worker, request, finisher, cleanup), finisher.client)
    /\ UNCHANGED <<given, tokens, worker, request, cleanup, callback, faults, late>>

FinishCloses ==
    /\ finisher.at \in {"cancelling", "emptying"}
    /\ \/ CanClose(finisher.client) /\ client' = StartClose(client, finisher.client, "finish") /\ UNCHANGED finisher
       \/ /\ Closed(finisher.client, "finish") /\ client' = EndClose(client, finisher.client)
          /\ finisher' = [finisher EXCEPT !.at = IF @ = "cancelling" THEN "reaping" ELSE "returned", !.client = None]
    /\ UNCHANGED <<state, given, tokens, worker, request, cleanup, callback, faults, late>>

\* ... and its owners are awaited.
FinishReaps ==
    /\ finisher.at = "reaping" /\ Reaps(FinishTo("waiting"))
    /\ UNCHANGED <<state, given, tokens, request, cleanup, callback>>

Usable == state.healthy /\ ~tokens.cancelled /\ finisher.chunks # <<>>

FinishWaits ==
    /\ finisher.at = "waiting" /\ NoRequests /\ FinishTo(IF Usable THEN "registering" ELSE "ending")
    /\ UNCHANGED <<state, given, tokens, worker, request, client, cleanup, callback, faults, late>>

\* The whole recording is recognized.
RegisterFinal ==
    /\ finisher.at = "registering"
    /\ IF Refused("final") THEN FinishTo("ending") /\ UNCHANGED request
       ELSE FinishTo("asking") /\ request' = Registered("final", finisher.chunks)
    /\ UNCHANGED <<state, given, tokens, worker, client, cleanup, callback, faults, late>>

FinalAnswered ==
    /\ finisher.at = "asking" /\ request["final"].at = "answered"
    /\ finisher' = [finisher EXCEPT !.at = "ending", !.ok = request["final"].ok]
    /\ UNCHANGED <<state, given, tokens, worker, request, client, cleanup, callback, faults, late>>

FinishEmpties ==
    /\ finisher.at = "ending" /\ state' = [state EXCEPT !.resident = None]
    /\ finisher' = [finisher EXCEPT !.at = IF state.resident = None THEN "returned" ELSE "emptying", !.client = state.resident]
    /\ UNCHANGED <<given, tokens, worker, request, client, cleanup, callback, faults, late>>

-----------------------------------------------------------------------------

Init ==
    /\ state = [audio |-> 0, offset |-> 0, text |-> <<>>, healthy |-> TRUE, finishing |-> FALSE, active |-> None, resident |-> None]
    /\ given = [chunks |-> 0, lost |-> FALSE]
    /\ tokens = [cancelled |-> FALSE, stopped |-> FALSE, closed |-> FALSE, ready |-> FALSE]
    /\ worker = [at |-> "waiting", chunks |-> <<>>, ok |-> FALSE, client |-> None]
    /\ request = [r \in {"preview", "final"} |-> [at |-> "none", chunks |-> <<>>, client |-> None, ok |-> FALSE]]
    /\ client = [c \in Clients |-> [cancelled |-> FALSE, process |-> "unused", abandoned |-> FALSE, lifecycle |-> "free"]]
    /\ finisher = [at |-> "none", chunks |-> <<>>, client |-> None, ok |-> FALSE]
    /\ cleanup = [at |-> "none", client |-> None] /\ callback = "nobody" /\ faults = 0 /\ late = FALSE

Next ==
    \/ Reap \/ Dies
    \/ Submit \/ Cancel \/ CleanupLooks \/ CleanupCloses \/ CleanupReaps \/ CleanupEmpties
    \/ Wake \/ RegisterPreview \/ Answered \/ Judge \/ WorkerShows \/ CallbackReturns \/ Leave \/ TakeResident \/ WorkerCloses
    \/ \E r \in {"preview", "final"} :
          Stage(r) \/ Open(r) \/ Activate(r) \/ Connect(r) \/ Answer(r) \/ Partial(r) \/ Abandon(r) \/ Close(r) \/ Clear(r)
    \/ BeginFinish \/ StopPreview \/ LookAtActive \/ GiveUpActive \/ FinishCloses \/ FinishReaps \/ FinishWaits
    \/ RegisterFinal \/ FinalAnswered \/ FinishEmpties

Spec == Init /\ [][Next]_speechVars

-----------------------------------------------------------------------------

Files == {r \in DOMAIN request : request[r].at \notin {"none", "staging", "answered"}}

TypeOK ==
    /\ state.audio \in 0..Limit /\ state.offset \in 0..Limit /\ given.chunks \in 0..MaxChunks
    /\ \A c \in Clients : client[c].process \in {"unused", "none", "up", "stopping", "gone"}
    /\ callback \in {"nobody", "worker", "request"}

\* What finish returns says the whole recording, once and in order: a part that was recognized for the preview
\* never becomes final text, and a recording that lost audio is an error (batch_preview.rs:1 "only full-audio
\* recognition may become final text").
FinalIsWhole ==
    finisher.ok =>
        /\ finisher.chunks = [i \in 1..Len(finisher.chunks) |-> i]
        /\ request["final"].chunks = finisher.chunks /\ state.healthy

\* The words shown are the recording's first ones, each once.
PreviewIsPrefix == state.text = [i \in 1..Len(state.text) |-> i]

\* One model is in memory at a time.
OneModel == Local => Cardinality({c \in Clients : Runs(c)}) <= 1

\* Once finish has returned uncancelled, or the cancellation is acknowledged, no private audio, request, callback or process of the
\* recording is left, but one that a finish under way is closing.
NothingLeft ==
    (tokens.closed \/ (finisher.at = "returned" /\ ~tokens.cancelled)) /\ ~late =>
        /\ Files = {} /\ NoRequests /\ callback = "nobody" /\ worker.at = "ended"
        /\ \A c \in Clients : Runs(c) => c = finisher.client

SpeechStands == FinalIsWhole /\ PreviewIsPrefix /\ OneModel /\ NothingLeft
=============================================================================
