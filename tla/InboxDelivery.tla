---------------------------- MODULE InboxDelivery ----------------------------
(***************************************************************************)
(* Queueing a message into a Claude Code session's own inbox and reading   *)
(* its receipt from the session's transcript                               *)
(* (mluva-providers/src/claude_inbox.rs).  The socket answers nothing: the *)
(* transcript says what became of the message, among whatever else the     *)
(* session writes there.  The session is modelled from what that file says *)
(* of Claude Code.                                                         *)
(***************************************************************************)
EXTENDS Naturals, Sequences, FiniteSets

CONSTANTS
    Messages,    \* submissions, one after another
    Texts,       \* what they may say
    Begins,      \* pairs of texts: the first is how the second begins
    MaxTyped,    \* bound: messages of others, typed into the session or held by it
    MaxRewrites, \* bound: rewritten transcripts
    MaxFaults    \* bound: connections that fail

VARIABLES
    call,    \* the delivery: [m, at, offset, peer: the process that answered]
    says,    \* the text of each message
    session, \* [current: the registry names the chosen session, alive, owner: who answers the socket]
    inbox,   \* the frame on the socket: 0, or the message
    queue,   \* the session's prompt queue: [id, text], id = 0 for what was typed
    log,     \* its transcript: [kind, id, text]
    told, reached, taken,
    unsure,  \* a record since the write may be taken for this message, by its text, and is another's
    weak,    \* messages claimed queued or held on the evidence of a text alone
    strays,  \* messages written to another process or taken by another session
    used

inboxVars == <<call, says, session, inbox, queue, log, told, reached, taken, unsure, weak, strays, used>>

Idle == [m |-> 0, at |-> "idle", offset |-> 0, peer |-> "nobody"]

Init ==
    /\ call = Idle /\ says \in [Messages -> Texts]
    /\ session = [current |-> TRUE, alive |-> TRUE, owner |-> "session"]
    /\ inbox = 0 /\ queue = <<>> /\ log = <<>>
    /\ told = [m \in Messages |-> "nothing"] /\ reached = [m \in Messages |-> 0] /\ taken = {}
    /\ unsure = FALSE /\ weak = {} /\ strays = {} /\ used = [typed |-> 0, rewrites |-> 0, faults |-> 0]

Use(what) == used' = [used EXCEPT ![what] = @ + 1]
Tell(m, outcome) == told' = [told EXCEPT ![m] = outcome]
Record(kind, id, text) == [kind |-> kind, id |-> id, text |-> text]
agent == <<session, queue, log>>

-----------------------------------------------------------------------------
\* The transport.

\* recheck: the registry entry still names this process, this session and this inbox.
Named == session.alive /\ session.current
Submit(m) ==
    /\ call = Idle /\ told[m] = "nothing" /\ \A k \in Messages : k < m => told[k] # "nothing"
    /\ IF Named THEN call' = [Idle EXCEPT !.m = m, !.at = "checked"] /\ UNCHANGED told
       ELSE Tell(m, "rejected") /\ UNCHANGED call
    /\ UNCHANGED <<says, agent, inbox, reached, taken, unsure, weak, strays, used>>

\* Transcript::new: what stands there before the write is history.
FromStart(n) == 0
History(n) == n
Opens ==
    /\ call.at = "checked"
    /\ call' = [call EXCEPT !.at = "opened", !.offset = History(Len(log))]
    /\ unsure' = FALSE
    /\ UNCHANGED <<says, agent, inbox, told, reached, taken, weak, strays, used>>

\* connect: only to the process the registry names.
PeerIsOwn == session.owner = "session"
Connects ==
    /\ call.at = "opened"
    /\ IF session.owner # "nobody" /\ PeerIsOwn
       THEN call' = [call EXCEPT !.at = "connected", !.peer = session.owner] /\ UNCHANGED told
       ELSE Tell(call.m, "rejected") /\ call' = Idle
    /\ UNCHANGED <<says, agent, inbox, reached, taken, unsure, weak, strays, used>>
ConnectFails ==
    /\ call.at = "opened" /\ used.faults < MaxFaults /\ Use("faults")
    /\ Tell(call.m, "rejected") /\ call' = Idle
    /\ UNCHANGED <<says, agent, inbox, reached, taken, unsure, weak, strays>>

\* write_frame, once: nothing, a part or the whole of the frame leaves.
WritesWhole ==
    /\ call.at = "connected" /\ session.owner = call.peer
    /\ call' = [call EXCEPT !.at = "receipt"]
    /\ inbox' = call.m
    /\ strays' = IF call.peer = "another" THEN strays \cup {call.m} ELSE strays
    /\ UNCHANGED <<says, agent, told, reached, taken, unsure, weak, used>>
WriteFails ==
    /\ call.at = "connected"
    /\ IF session.owner # call.peer THEN UNCHANGED used ELSE used.faults < MaxFaults /\ Use("faults")
    /\ \E outcome \in {"rejected", "unconfirmed"} : Tell(call.m, outcome)
    /\ call' = Idle
    /\ UNCHANGED <<says, agent, inbox, reached, taken, unsure, weak, strays>>

\* read: what was appended since, up to a bounded number of bytes; a shorter file is read from its beginning.
\* The queue admits a message with its text; the notice that holds one quotes how it begins, or all of it.
Starts(p, text) == p = text \/ <<p, text>> \in Begins
Rank == [none |-> 0, queued |-> 1, held |-> 2, taken |-> 3]
Evidence(r, m) ==
    CASE r.kind = "turn" /\ r.id = m -> "taken"
      [] r.kind = "enqueue" /\ r.text = says[m] -> "queued"
      [] r.kind = "held" /\ Starts(r.text, says[m]) -> "held"
      [] OTHER -> "none"
Start == IF Len(log) < call.offset THEN 0 ELSE call.offset
Best(upto) ==
    LET seen == {Evidence(log[i], call.m) : i \in (Start + 1)..upto} \cup {"none"}
    IN  CHOOSE e \in seen : \A other \in seen : Rank[other] <= Rank[e]

\* receipt: the first evidence within the window decides.
ReadsReceipt(upto) ==
    /\ call.at = "receipt" /\ upto \in Start..Len(log)
    /\ Start < Len(log) => upto > Start
    /\ CASE Best(upto) = "taken" -> Tell(call.m, "taken") /\ call' = Idle
         [] Best(upto) = "held" -> Tell(call.m, "held") /\ call' = Idle
         [] Best(upto) = "queued" ->
                Tell(call.m, "accepted") /\ call' = [call EXCEPT !.at = "watching", !.offset = upto]
         [] OTHER -> call' = [call EXCEPT !.offset = upto] /\ UNCHANGED told
    /\ weak' = IF Best(upto) \in {"held", "queued"} /\ reached[call.m] = 0 THEN weak \cup {call.m} ELSE weak
    /\ UNCHANGED <<says, agent, inbox, reached, taken, unsure, strays, used>>
WindowEnds ==
    /\ call.at = "receipt" /\ Tell(call.m, "unconfirmed") /\ call' = Idle
    /\ UNCHANGED <<says, agent, inbox, reached, taken, unsure, weak, strays, used>>

\* taken: the message's own ID shows in a turn; the watch ends with it, or after its limit.
Watches(upto) ==
    /\ call.at = "watching" /\ upto \in Start..Len(log) /\ (Start < Len(log) => upto > Start)
    /\ IF Best(upto) = "taken" THEN Tell(call.m, "taken") /\ call' = Idle
       ELSE call' = [call EXCEPT !.offset = upto] /\ UNCHANGED told
    /\ UNCHANGED <<says, agent, inbox, reached, taken, unsure, weak, strays, used>>
WatchEnds ==
    /\ call.at = "watching" /\ call' = Idle
    /\ UNCHANGED <<says, agent, inbox, told, reached, taken, unsure, weak, strays, used>>

-----------------------------------------------------------------------------
\* Claude Code.

\* A text that is queued, or a notice that quotes one, may be the text of message m.
MayBe(kind, text, m) == IF kind = "held" THEN Starts(text, says[m]) ELSE text = says[m]
Ambiguous(kind, text) == unsure \/ (call.m # 0 /\ MayBe(kind, text, call.m))

\* The frame names the session it is meant for; the session drops it, holds it or queues it.
Receives ==
    /\ inbox # 0 /\ inbox' = 0
    /\ IF ~ Named \/ session.owner # "session" THEN UNCHANGED <<queue, log, reached, unsure>>
       ELSE \/ UNCHANGED <<queue, log, reached, unsure>>
            \/ /\ reached' = [reached EXCEPT ![inbox] = @ + 1]
               /\ \/ \E quoted \in {p \in Texts : Starts(p, says[inbox])} :
                        /\ log' = Append(log, Record("held", inbox, quoted)) /\ UNCHANGED queue
                        /\ unsure' = IF inbox = call.m THEN unsure ELSE Ambiguous("held", quoted)
                  \/ /\ log' = Append(log, Record("enqueue", inbox, says[inbox]))
                     /\ queue' = Append(queue, [id |-> inbox, text |-> says[inbox]])
                     /\ unsure' = IF inbox = call.m THEN unsure ELSE Ambiguous("enqueue", says[inbox])
    /\ UNCHANGED <<call, says, session, told, taken, weak, strays, used>>

Types(text) ==
    /\ Named /\ used.typed < MaxTyped /\ Use("typed")
    /\ log' = Append(log, Record("enqueue", 0, text))
    /\ queue' = Append(queue, [id |-> 0, text |-> text])
    /\ unsure' = Ambiguous("enqueue", text)
    /\ UNCHANGED <<call, says, session, inbox, told, reached, taken, weak, strays>>

\* A message of another peer is held, and its notice quotes it.
HoldsAnother(quoted) ==
    /\ Named /\ used.typed < MaxTyped /\ Use("typed")
    /\ log' = Append(log, Record("held", 0, quoted))
    /\ unsure' = Ambiguous("held", quoted)
    /\ UNCHANGED <<call, says, session, inbox, queue, told, reached, taken, weak, strays>>

\* The head of the queue begins a turn, or is taken between two tool calls.
Turns ==
    /\ Named /\ queue # <<>>
    /\ queue' = Tail(queue)
    /\ log' = Append(log, Record("turn", Head(queue).id, Head(queue).text))
    /\ taken' = taken \cup ({Head(queue).id} \ {0})
    /\ UNCHANGED <<call, says, session, inbox, told, reached, unsure, weak, strays, used>>

\* A transcript written anew keeps its newest records.
Rewrites(from) ==
    /\ used.rewrites < MaxRewrites /\ Use("rewrites")
    /\ from \in 2..Len(log) /\ log' = SubSeq(log, from, Len(log))
    /\ unsure' = TRUE
    /\ UNCHANGED <<call, says, session, inbox, queue, told, reached, taken, weak, strays>>

\* /clear starts another session in the same process.
Clears ==
    /\ Named /\ session' = [session EXCEPT !.current = FALSE] /\ queue' = <<>>
    /\ UNCHANGED <<call, says, inbox, log, told, reached, taken, unsure, weak, strays, used>>
Exits ==
    /\ session.alive /\ session' = [session EXCEPT !.alive = FALSE, !.owner = "nobody"]
    /\ queue' = <<>> /\ inbox' = 0
    /\ UNCHANGED <<call, says, log, told, reached, taken, unsure, weak, strays, used>>
Rebinds ==
    /\ session.owner = "nobody" /\ session' = [session EXCEPT !.owner = "another"]
    /\ UNCHANGED <<call, says, inbox, queue, log, told, reached, taken, unsure, weak, strays, used>>

Next ==
    \/ Opens \/ Connects \/ ConnectFails \/ WritesWhole \/ WriteFails \/ WindowEnds \/ WatchEnds
    \/ Receives \/ Turns \/ Clears \/ Exits \/ Rebinds
    \/ \E m \in Messages : Submit(m)
    \/ \E n \in 0..Len(log) : ReadsReceipt(n) \/ Watches(n) \/ Rewrites(n)
    \/ \E t \in Texts : Types(t) \/ HoldsAnother(t)

Spec == Init /\ [][Next]_inboxVars

-----------------------------------------------------------------------------

TypeOK ==
    /\ call.m \in {0} \cup Messages /\ inbox \in {0} \cup Messages
    /\ told \in [Messages -> {"nothing", "rejected", "unconfirmed", "accepted", "held", "taken"}]
    /\ strays \subseteq Messages /\ unsure \in BOOLEAN

\* A delivery to the inbox keeps the promise of every transport, where a claim on the evidence of its text
\* alone, when the message is not there, counts as none.
Claim(m) == IF m \in weak /\ told[m] # "taken" THEN "nothing" ELSE told[m]
Contract == INSTANCE TransportContract WITH told <- [m \in Messages |-> Claim(m)]
KeepsPromise == Contract!Spec

\* Such a claim is made only when since the write the session queued this very text for another message, or
\* held another message that begins like this one, as far as its notice quotes it, or the transcript was
\* written anew; and no other process is ever written to.
ClaimHasCause == weak' \subseteq weak \/ unsure
InboxTellsTheTruth == [][ClaimHasCause]_inboxVars /\ [](strays = {})
=============================================================================
