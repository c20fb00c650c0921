-------------------------- MODULE AntigravityQueue --------------------------
(***************************************************************************)
(* Leaving a message in an Antigravity conversation's message store        *)
(* (mluva-providers/src/antigravity/queue.rs): the message file appears    *)
(* whole, then its notice, and the agent takes both in its own time.  What *)
(* reaches the session is what its agent can find: a file with its notice. *)
(***************************************************************************)
EXTENDS Naturals, FiniteSets

CONSTANTS
    Messages, \* submissions, one after another
    MaxFaults \* bound: writes that fail

VARIABLES
    call,   \* the delivery: [m, at]
    held,   \* the chosen process holds the conversation's lock
    store,  \* what stands there of each message: a set of "temporary", "file", "notice"
    watch,  \* messages watched until their notice is gone
    told, taken,
    faults

storeVars == <<call, held, store, watch, told, taken, faults>>

Idle == [m |-> 0, at |-> "idle"]

Init ==
    /\ call = Idle /\ held = TRUE /\ store = [m \in Messages |-> {}] /\ watch = {}
    /\ told = [m \in Messages |-> "nothing"] /\ taken = {} /\ faults = 0

Fails == faults < MaxFaults /\ faults' = faults + 1
Over(outcome) == told' = [told EXCEPT ![call.m] = outcome] /\ call' = Idle
To(at) == call' = [call EXCEPT !.at = at] /\ UNCHANGED told
Puts(what) == store' = [store EXCEPT ![call.m] = @ \cup {what}]

\* submit rechecks the lock before anything is written.
Submit(m) ==
    /\ call = Idle /\ told[m] = "nothing"
    /\ IF held THEN call' = [m |-> m, at |-> "checked"] /\ UNCHANGED told
       ELSE told' = [told EXCEPT ![m] = "rejected"] /\ UNCHANGED call
    /\ UNCHANGED <<held, store, watch, taken, faults>>

WritesTemporary ==
    /\ call.at = "checked"
    /\ \/ Puts("temporary") /\ To("written") /\ UNCHANGED faults
       \/ Fails /\ Over("rejected") /\ (Puts("temporary") \/ UNCHANGED store)
    /\ UNCHANGED <<held, watch, taken>>

\* Atomic, so a poll never reads a part of it.
Renames ==
    /\ call.at = "written"
    /\ \/ To("renamed") /\ store' = [store EXCEPT ![call.m] = (@ \ {"temporary"}) \cup {"file"}] /\ UNCHANGED faults
       \/ Fails /\ Over("rejected") /\ store' = [store EXCEPT ![call.m] = @ \ {"temporary"}]
    /\ UNCHANGED <<held, watch, taken>>

\* A failure after the file stands is never told as rejected.
Refused == "rejected"
NoticeFailed == "unconfirmed"
Notices ==
    /\ call.at = "renamed"
    /\ \/ Puts("notice") /\ Over("accepted") /\ watch' = watch \cup {call.m} /\ UNCHANGED faults
       \/ Fails /\ Over(NoticeFailed) /\ UNCHANGED <<watch, store>>
    /\ UNCHANGED <<held, taken>>

\* watch_taken: the notice is gone; or the watch is cut or over.
WatchSees(m) ==
    /\ m \in watch /\ "notice" \notin store[m]
    /\ told' = [told EXCEPT ![m] = "taken"] /\ watch' = watch \ {m}
    /\ UNCHANGED <<call, held, store, taken, faults>>
WatchEnds(m) ==
    /\ m \in watch /\ watch' = watch \ {m}
    /\ UNCHANGED <<call, held, store, told, taken, faults>>

\* The agent looks at notices, or at every file when it opens the conversation.
Takes(m) ==
    /\ held /\ m \notin taken /\ "file" \in store[m]
    /\ taken' = taken \cup {m} /\ store' = [store EXCEPT ![m] = @ \ {"notice"}]
    /\ UNCHANGED <<call, held, watch, told, faults>>
Holds == held' = ~ held /\ UNCHANGED <<call, store, watch, told, taken, faults>>

Next ==
    \/ WritesTemporary \/ Renames \/ Notices \/ Holds
    \/ \E m \in Messages : Submit(m) \/ WatchSees(m) \/ WatchEnds(m) \/ Takes(m)

Spec == Init /\ [][Next]_storeVars

-----------------------------------------------------------------------------

TypeOK ==
    /\ call.m \in {0} \cup Messages /\ held \in BOOLEAN /\ watch \subseteq Messages
    /\ store \in [Messages -> SUBSET {"temporary", "file", "notice"}]
    /\ told \in [Messages -> {"nothing", "rejected", "unconfirmed", "accepted", "taken"}]

\* A delivery to the store keeps the promise of every transport.
Contract == INSTANCE TransportContract WITH reached <- [m \in Messages |-> IF "file" \in store[m] THEN 1 ELSE 0]
KeepsPromise == Contract!Spec
=============================================================================
