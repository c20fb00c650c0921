----------------------------- MODULE CodexQueue -----------------------------
(***************************************************************************)
(* Sending to an idle Codex thread through Codex's shared queue            *)
(* (mluva-providers/src/codex/queue.rs, rpc.rs), over the daemon or        *)
(* Mluva's own app server (server.rs).  Any call may be carried out while  *)
(* its answer is lost; the thread's owner takes a queued message in its    *)
(* own time.  Codex is modelled from what that code asks of it.            *)
(***************************************************************************)
EXTENDS Naturals, FiniteSets

CONSTANTS
    Messages,  \* submissions, one after another
    MaxFaults, \* bound: answers lost
    MaxStops   \* bound: app servers that exit

VARIABLES
    call,   \* the delivery: [m, at, item: the queue's ID is known, again: the call is tried again]
    adding, \* the request to queue that the server has not carried out: 0, or the message
    queue, turning, turns, \* Codex: messages queued, being dispatched, and in a turn
    thread, \* [held: its lock is held by the chosen process, busy]
    server, \* [daemon, helper: "none", "starting", "running" or "dead", lock, closing, shut]
    told,
    used

codexVars == <<call, adding, queue, turning, turns, thread, server, told, used>>

Idle == [m |-> 0, at |-> "idle", item |-> FALSE, again |-> FALSE]

Init ==
    /\ call = Idle /\ adding = 0 /\ queue = {} /\ turning = {} /\ turns = {}
    /\ thread = [held |-> TRUE, busy |-> FALSE]
    /\ server \in [daemon : BOOLEAN, helper : {"none"}, lock : {"free"}, closing : {FALSE}, shut : {FALSE}]
    /\ told = [m \in Messages |-> "nothing"]
    /\ used = [faults |-> 0, stops |-> 0]

Use(what) == used' = [used EXCEPT ![what] = @ + 1]
To(at) == call' = [call EXCEPT !.at = at, !.again = FALSE] /\ UNCHANGED told
Over(outcome) == told' = [told EXCEPT ![call.m] = outcome] /\ call' = Idle
codex == <<adding, queue, turning, turns>>

-----------------------------------------------------------------------------
\* Which server answers.

Answers == server.daemon \/ server.helper = "running"

\* submit: the lock is held by the same process; the delivery is counted before it connects.
Submit(m) ==
    /\ call = Idle /\ told[m] = "nothing"
    /\ IF thread.held THEN call' = [Idle EXCEPT !.m = m, !.at = "connecting"] /\ UNCHANGED told
       ELSE told' = [told EXCEPT ![m] = "rejected"] /\ UNCHANGED call
    /\ UNCHANGED <<codex, thread, server, used>>

\* connect: the daemon when it answers, else the helper, which is started under its lock.
ConnectsDaemon ==
    /\ call.at = "connecting" /\ server.daemon /\ To("checking")
    /\ UNCHANGED <<codex, thread, server, used>>
WantsHelper ==
    /\ call.at = "connecting" /\ ~ server.daemon
    /\ IF server.closing THEN Over("rejected") ELSE To("locking")
    /\ UNCHANGED <<codex, thread, server, used>>
ClosedNow == server.closing
LocksHelper ==
    /\ call.at = "locking" /\ server.lock = "free"
    /\ IF server.helper = "running" THEN To("checking") /\ UNCHANGED server
       ELSE IF ClosedNow THEN Over("rejected") /\ server' = [server EXCEPT !.helper = "none"]
       ELSE To("starting") /\ server' = [server EXCEPT !.lock = "taken", !.helper = "starting"]
    /\ UNCHANGED <<codex, thread, used>>
HelperStarts ==
    /\ call.at = "starting" /\ server.helper = "starting"
    /\ \/ To("checking") /\ server' = [server EXCEPT !.lock = "free", !.helper = "running"] /\ UNCHANGED used
       \/ /\ used.stops < MaxStops /\ Use("stops")
          /\ Over("rejected") /\ server' = [server EXCEPT !.lock = "free", !.helper = "none"]
    /\ UNCHANGED <<codex, thread>>

\* watchdog: a helper that exited, or that nobody used for ten minutes.
Watchdog ==
    /\ server.lock = "free" /\ (server.helper = "dead" \/ (server.helper = "running" /\ call = Idle))
    /\ server' = [server EXCEPT !.helper = "none"]
    /\ UNCHANGED <<call, codex, thread, told, used>>

Exits ==
    /\ used.stops < MaxStops /\ Use("stops")
    /\ \/ server.daemon /\ server' = [server EXCEPT !.daemon = FALSE]
       \/ server.helper = "running" /\ server' = [server EXCEPT !.helper = "dead"]
    /\ UNCHANGED <<call, codex, thread, told>>

\* shutdown: no helper starts any more; deliveries in flight finish, or five seconds pass; the helper stops.
Closes ==
    /\ ~ server.closing /\ server' = [server EXCEPT !.closing = TRUE]
    /\ UNCHANGED <<call, codex, thread, told, used>>
StopsHelper ==
    /\ server.closing /\ ~ server.shut /\ server.lock = "free"
    /\ call # Idle => used.faults < MaxFaults
    /\ IF call = Idle THEN UNCHANGED used ELSE Use("faults")
    /\ server' = [server EXCEPT !.helper = "none", !.shut = TRUE]
    /\ UNCHANGED <<call, codex, thread, told>>

-----------------------------------------------------------------------------
\* The delivery.

\* thread/queue/list: the server offers the queue at all.
Checks ==
    /\ call.at = "checking"
    /\ \/ Answers /\ To("adding")
       \/ Over("rejected")
    /\ UNCHANGED <<codex, thread, server, used>>

\* thread/queue/add: stored and answered, refused, or its answer is lost, before or after it is stored.
Adds ==
    /\ call.at = "adding"
    /\ \/ /\ Answers /\ queue' = queue \cup {call.m}
          /\ call' = [call EXCEPT !.at = "watching", !.item = TRUE] /\ UNCHANGED <<adding, told, used>>
       \/ Answers /\ Over("rejected") /\ UNCHANGED <<queue, adding, used>>
       \/ /\ ~ Answers /\ To("finding") /\ UNCHANGED <<queue, adding, used>>
       \/ /\ Answers /\ used.faults < MaxFaults /\ Use("faults") /\ To("finding")
          /\ \/ queue' = queue \cup {call.m} /\ UNCHANGED adding
             \/ adding' = call.m /\ UNCHANGED queue
    /\ UNCHANGED <<turning, turns, thread, server>>

\* One call; a broken connection is replaced once.
Asks(at) == call.at = at /\ Answers /\ UNCHANGED used
Broken(at) ==
    /\ call.at = at /\ ~ call.again
    /\ IF Answers THEN used.faults < MaxFaults /\ Use("faults") ELSE UNCHANGED used
    /\ call' = [call EXCEPT !.again = TRUE] /\ UNCHANGED told
Unasked(at) ==
    /\ call.at = at /\ call.again /\ server.helper # "starting"
    /\ IF Answers THEN used.faults < MaxFaults /\ Use("faults") ELSE UNCHANGED used

\* The replaced connection may have to start the helper again.
Reconnects ==
    /\ call.again /\ ~ Answers
    /\ \/ /\ server.lock = "free" /\ ~ ClosedNow
          /\ server' = [server EXCEPT !.lock = "taken", !.helper = "starting"] /\ UNCHANGED used
       \/ server.helper = "starting" /\ server' = [server EXCEPT !.lock = "free", !.helper = "running"] /\ UNCHANGED used
       \/ /\ server.helper = "starting" /\ used.stops < MaxStops /\ Use("stops")
          /\ server' = [server EXCEPT !.lock = "free", !.helper = "none"]
    /\ UNCHANGED <<call, codex, thread, told>>

\* find: the queue, then the latest turns.
Listed ==
    /\ \/ Asks("finding")
          /\ IF call.m \in queue THEN call' = [call EXCEPT !.at = "watching", !.item = TRUE, !.again = FALSE] /\ UNCHANGED told
             ELSE To("found turns")
       \/ Asks("watching") /\ IF call.m \in queue THEN To("watching") ELSE To("turns")
    /\ UNCHANGED <<codex, thread, server>>
InATurn ==
    /\ \/ Asks("found turns") /\ IF call.m \in turns THEN Over("accepted") ELSE Over("unconfirmed")
       \/ Asks("turns") /\ IF call.m \in turns THEN Over("accepted") ELSE To("confirming")
       \/ Asks("confirming") /\ IF call.m \in turns THEN Over("accepted") ELSE To("confirming")
    /\ UNCHANGED <<codex, thread, server>>
\* The last read of confirm finds nothing either.
NotConfirmed ==
    /\ call.at = "confirming" /\ call.m \notin turns /\ Over("unconfirmed")
    /\ UNCHANGED <<codex, thread, server, used>>

Breaks ==
    /\ \E at \in {"finding", "found turns", "watching", "turns", "confirming", "withdrawing"} : Broken(at)
    /\ UNCHANGED <<codex, thread, server>>
Fails ==
    /\ \/ \E at \in {"finding", "found turns"} : Unasked(at) /\ Over("unconfirmed")
       \/ \E at \in {"watching", "turns"} : Unasked(at) /\ To("withdrawing")
       \/ Unasked("confirming") /\ To("confirming")
       \/ Unasked("withdrawing") /\ Over("unconfirmed")
    /\ UNCHANGED <<codex, thread, server>>

\* The window ends, or the delivery is cancelled.
Withdraws ==
    /\ call.at = "watching" /\ ~ call.again /\ To("withdrawing")
    /\ UNCHANGED <<codex, thread, server, used>>

\* thread/queue/delete: deleted, or gone already; its answer may be lost with the message withdrawn.
Gone == To("confirming")
Deleted ==
    /\ Asks("withdrawing") /\ queue' = queue \ {call.m}
    /\ IF call.m \in queue THEN Over("busy") ELSE Gone
    /\ UNCHANGED <<adding, turning, turns, thread, server>>
DeletedUnheard ==
    /\ call.at = "withdrawing" /\ Answers /\ call.m \in queue /\ queue' = queue \ {call.m}
    /\ used.faults < MaxFaults /\ Use("faults")
    /\ IF call.again THEN Over("unconfirmed") ELSE call' = [call EXCEPT !.again = TRUE] /\ UNCHANGED told
    /\ UNCHANGED <<adding, turning, turns, thread, server>>

-----------------------------------------------------------------------------
\* Codex.

AddsLate ==
    /\ adding # 0 /\ adding' = 0 /\ queue' = queue \cup {adding}
    /\ UNCHANGED <<call, turning, turns, thread, server, told, used>>
Dispatches(m) ==
    /\ thread.held /\ ~ thread.busy /\ m \in queue
    /\ queue' = queue \ {m} /\ turning' = turning \cup {m} /\ thread' = [thread EXCEPT !.busy = TRUE]
    /\ UNCHANGED <<call, adding, turns, server, told, used>>
Turns(m) ==
    /\ m \in turning /\ turning' = turning \ {m} /\ turns' = turns \cup {m}
    /\ UNCHANGED <<call, adding, queue, thread, server, told, used>>
\* The person works with the thread, closes it or opens it again.
Works ==
    /\ \E held, busy \in BOOLEAN : thread' = [held |-> held, busy |-> busy] /\ thread' # thread
    /\ UNCHANGED <<call, codex, server, told, used>>

Next ==
    \/ ConnectsDaemon \/ WantsHelper \/ LocksHelper \/ HelperStarts \/ Watchdog \/ Exits \/ Closes \/ StopsHelper
    \/ Checks \/ Adds \/ Listed \/ InATurn \/ NotConfirmed \/ Breaks \/ Reconnects \/ Fails \/ Withdraws \/ Deleted
    \/ DeletedUnheard \/ AddsLate \/ Works
    \/ \E m \in Messages : Submit(m) \/ Dispatches(m) \/ Turns(m)

Spec == Init /\ [][Next]_codexVars

-----------------------------------------------------------------------------

TypeOK ==
    /\ call.m \in {0} \cup Messages /\ adding \in {0} \cup Messages
    /\ queue \cup turning \cup turns \subseteq Messages
    /\ server.helper \in {"none", "starting", "running", "dead"} /\ server.lock \in {"free", "taken"}
    /\ told \in [Messages -> {"nothing", "rejected", "busy", "unconfirmed", "accepted"}]

\* A delivery through Codex's queue keeps the promise of every transport: what is said to be sent is in a
\* turn of the thread, and what is said to be kept as a draft never gets there.
Contract == INSTANCE TransportContract WITH
    reached <- [m \in Messages |-> IF m \in turning \cup turns THEN 1 ELSE 0], taken <- turns
KeepsPromise == Contract!Spec

\* "stopped ... when Mluva closes" (server.rs): nothing starts the helper after Mluva stopped it.
NoHelperOutlives == server.shut => server.helper = "none"
=============================================================================
