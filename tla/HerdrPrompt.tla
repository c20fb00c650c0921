----------------------------- MODULE HerdrPrompt -----------------------------
(***************************************************************************)
(* Sending a prompt to a Herdr pane and reading its receipt                *)
(* (mluva-providers/src/herdr.rs).  A guarded server checks the guard and  *)
(* remembers the operation; a Herdr Core terminal takes the text as typed. *)
(* Herdr itself is modelled from what the code asks of it.                 *)
(***************************************************************************)
EXTENDS Naturals

CONSTANTS
    Messages,    \* submissions, one after another
    Core,        \* the pane is a Herdr Core terminal
    MaxRestarts, \* bound: restarts of the server
    MaxFaults    \* bound: answers lost or late

VARIABLES
    call,    \* the delivery: [m, at, epoch]
    request, \* the prompt the server has not read yet: [m, epoch], m = 0 for none
    reply,   \* what the server answered: [m, what], m = 0 for none
    server,  \* [epoch, ops: what it remembers of each operation, agent: who sits in the pane]
    told,    \* the outcome of each message
    reached, \* how often its text reached a pane
    blind,   \* messages called rejected by a Core terminal's call that got no answer
    used

herdrVars == <<call, request, reply, server, told, reached, blind, used>>

Idle == [m |-> 0, at |-> "idle", epoch |-> 0]
NoRequest == [m |-> 0, epoch |-> 0]
NoReply == [m |-> 0, what |-> "none"]

Init ==
    /\ call = Idle /\ request = NoRequest /\ reply = NoReply
    /\ server = [epoch |-> 1, ops |-> [m \in Messages |-> "none"], agent |-> "chosen"]
    /\ told = [m \in Messages |-> "nothing"] /\ reached = [m \in Messages |-> 0]
    /\ blind = {} /\ used = [faults |-> 0, restarts |-> 0]

MayFail == used.faults < MaxFaults
Fail == MayFail /\ used' = [used EXCEPT !.faults = @ + 1]

-----------------------------------------------------------------------------
\* The transport.

\* submit: a target that may receive now; discovery named its epoch and guard.
Submit(m) ==
    /\ call = Idle /\ told[m] = "nothing"
    /\ \/ /\ call' = [m |-> m, at |-> "asked", epoch |-> server.epoch]
          /\ request' = [m |-> m, epoch |-> server.epoch] /\ UNCHANGED told
       \/ told' = [told EXCEPT ![m] = "rejected"] /\ UNCHANGED <<call, request>>
    /\ UNCHANGED <<reply, server, reached, blind, used>>

Tell(outcome) == told' = [told EXCEPT ![call.m] = outcome] /\ call' = Idle
Look == call' = [call EXCEPT !.at = "looking"] /\ UNCHANGED told

\* The answer to the prompt: a receipt of this operation and epoch, a refusal, or neither.
Answered ==
    /\ call.at = "asked" /\ reply.m = call.m /\ reply' = NoReply
    /\ CASE reply.what \in {"accepted", "rejected", "unconfirmed"} -> Tell(reply.what)
         [] reply.what = "refused" -> Tell("rejected")
         [] reply.what = "unknown" -> IF Core THEN Tell("rejected") ELSE Look
    /\ UNCHANGED <<request, server, reached, blind, used>>

\* rpc fails: no connection, two seconds without a whole answer, or a broken one.
FailedSend == "rejected"
Unanswered ==
    /\ call.at = "asked" /\ reply' = NoReply
    /\ IF request = NoRequest /\ reply = NoReply THEN UNCHANGED used ELSE Fail
    /\ IF Core THEN Tell(FailedSend) /\ blind' = blind \cup {call.m} ELSE Look /\ UNCHANGED blind
    /\ \/ request' = NoRequest
       \/ UNCHANGED request
    /\ UNCHANGED <<server, reached>>

\* The receipt is asked for until it is there, the server knows nothing of it, or six seconds passed.
Receipt(op) == IF op = "none" THEN "unconfirmed" ELSE op
Looks ==
    /\ call.at = "looking"
    /\ Tell(IF server.epoch = call.epoch THEN Receipt(server.ops[call.m]) ELSE Receipt("none"))
    /\ UNCHANGED <<request, reply, server, reached, blind, used>>
LooksInVain ==
    /\ call.at = "looking" /\ Tell("unconfirmed")
    /\ UNCHANGED <<request, reply, server, reached, blind, used>>

Cancelled ==
    /\ call.at \in {"asked", "looking"} /\ Tell("unconfirmed") /\ reply' = NoReply
    /\ \/ request' = NoRequest
       \/ UNCHANGED request
    /\ UNCHANGED <<server, reached, blind, used>>

-----------------------------------------------------------------------------
\* Herdr.

Waiting == call.m = request.m /\ call.at = "asked"
Replies(what) == reply' = IF Waiting THEN [m |-> request.m, what |-> what] ELSE NoReply
Remembers(what) == server' = [server EXCEPT !.ops[request.m] = what]
Typed == reached' = [reached EXCEPT ![request.m] = @ + 1]

\* The guard names the exact agent process and pane, the epoch the server, and the request expires.
ReadsGuarded ==
    /\ ~ Core /\ request.m # 0 /\ request' = NoRequest
    /\ IF request.epoch # server.epoch \/ server.agent # "chosen"
       THEN Replies("refused") /\ UNCHANGED <<server, reached>>
       ELSE \/ Typed /\ Remembers("accepted") /\ Replies("accepted")
            \/ Remembers("rejected") /\ Replies("rejected") /\ UNCHANGED reached
            \/ Replies("refused") /\ UNCHANGED <<server, reached>>
            \/ Typed /\ Remembers("unconfirmed") /\ Replies("unconfirmed")
            \/ Remembers("unconfirmed") /\ Replies("unconfirmed") /\ UNCHANGED reached
            \/ Replies("unknown") /\ UNCHANGED <<server, reached>>
    /\ UNCHANGED <<call, told, blind, used>>

\* terminal.send names only the terminal.
ReadsCore ==
    /\ Core /\ request.m # 0 /\ request' = NoRequest
    /\ \/ Typed /\ Replies("accepted")
       \/ Replies("refused") /\ UNCHANGED reached
    /\ UNCHANGED <<call, server, told, blind, used>>

Restarts ==
    /\ used.restarts < MaxRestarts /\ used' = [used EXCEPT !.restarts = @ + 1]
    /\ server' = [epoch |-> server.epoch + 1, ops |-> [m \in Messages |-> "none"], agent |-> server.agent]
    /\ request' = NoRequest /\ reply' = NoReply
    /\ UNCHANGED <<call, told, reached, blind>>

Replaced ==
    /\ server.agent = "chosen" /\ server' = [server EXCEPT !.agent = "another"]
    /\ UNCHANGED <<call, request, reply, told, reached, blind, used>>

Next ==
    \/ Answered \/ Unanswered \/ Looks \/ LooksInVain \/ Cancelled
    \/ ReadsGuarded \/ ReadsCore \/ Restarts \/ Replaced
    \/ \E m \in Messages : Submit(m)

Spec == Init /\ [][Next]_herdrVars

-----------------------------------------------------------------------------

TypeOK ==
    /\ call.m \in {0} \cup Messages /\ call.at \in {"idle", "asked", "looking"}
    /\ told \in [Messages -> {"nothing", "accepted", "rejected", "unconfirmed"}]
    /\ reached \in [Messages -> Nat] /\ blind \subseteq Messages

\* A delivery to Herdr keeps the promise of every transport, where what a Core terminal's call without an
\* answer calls rejected counts as unconfirmed.
Claim(m) == IF m \in blind THEN "unconfirmed" ELSE told[m]
Contract == INSTANCE TransportContract WITH told <- [m \in Messages |-> Claim(m)], taken <- {}
KeepsPromise == Contract!Spec

\* "returns [`SendOutcome::Rejected`] when anything differs, [`SendOutcome::Unconfirmed`] when some input
\* may have reached it" (agent_targets.rs): what was rejected is in no pane.
RejectedIsUnheard == \A m \in Messages : told[m] = "rejected" => reached[m] = 0
=============================================================================
