----------------------------- MODULE LiveText -----------------------------
(***************************************************************************)
(* Live words: one device sends what is being said to the devices it       *)
(* selected, through the account's socket route.                           *)
(*                                                                         *)
(*   sender, desktop   account_controller.rs live, cancel_live, start_wire *)
(*   sender, browser   app.mjs beginLive, publish; wire.mjs DeviceWire     *)
(*   account           hosted/server/service.mjs socket, stream            *)
(*   receiver          account_controller.rs event; app.mjs event          *)
(*                                                                         *)
(* Every message is handled by its own invocation of the route, so two of  *)
(* them overlap when a connection breaks and the message is sent again.    *)
(***************************************************************************)
EXTENDS Naturals, Sequences, FiniteSets, SequencesExt

CONSTANTS
    Native,         \* the sender is the desktop; otherwise the browser
    Sessions,       \* recordings that are sent, numbered from 1 in the order of their identifiers
    Desktops, Browsers,   \* receivers
    Capacity,       \* messages that wait for the wire of the desktop (64)
    Shown,          \* sessions that a receiver keeps (6)
    MaxSaid,        \* settled parts of one recording
    MaxShown,       \* previews of one recording that are sent
    MaxBreaks,      \* connections that break
    MaxDies,        \* invocations of the route that end without an answer
    MaxPrivate,      \* times Incognito is switched on
    Removable,      \* receivers that may be removed from the account
    Leaves          \* receivers that may be offline for a while

\* The values the model is meant for.
LiveAssumption ==
    /\ Native \in BOOLEAN /\ Sessions \subseteq Nat \ {0} /\ Removable \subseteq Desktops \cup Browsers
    /\ {Capacity, Shown, MaxSaid, MaxShown, MaxBreaks, MaxDies, MaxPrivate} \subseteq Nat
ASSUME LiveAssumed == LiveAssumption

VARIABLES
    live,       \* the session being sent: its id and the next sequence number
    said,       \* per session: the settled parts so far
    pipe, pending,     \* per chain: messages that wait, and the one that is not acknowledged
    up, conn,   \* the wire is connected; connections so far
    wire,       \* "on", "closing" when it was cancelled, "off"
    failed,     \* browser: not sent any more (liveFailure): the recording a message of which failed, or 0
    signed, private,
    selected,   \* the receivers the sender chose
    removed,    \* receivers removed from the account
    table,      \* SESSION#id: the last message of a session, as accepted
    log,        \* per session: every message that was accepted
    settled,      \* per session: the settled words after each of them
    running,    \* invocations of the route
    answers,    \* acknowledgements and errors on their way to the sender
    inbox, online, shows,   \* receivers
    taken,      \* messages whose acknowledgement reached the sender
    asides, deaths

sender == <<live, said, pipe, pending, up, conn, wire, failed, signed, private, selected, taken, asides>>
route == <<removed, table, log, settled, running, answers, deaths>>
receiver == <<inbox, online, shows>>
liveVars == <<sender, route, receiver>>

Receivers == Desktops \cup Browsers
None == [id |-> 0]
\* The desktop sends one message after the other; in the browser every recording has its own promise chain.
Chains == IF Native THEN {0} ELSE Sessions
Chain(id) == IF Native THEN 0 ELSE id
Message(id, seq, phase, text) == [id |-> id, seq |-> seq, phase |-> phase, text |-> text, targets |-> selected]
Unseen == [seq |-> 0, text |-> <<>>, partial |-> 0, missing |-> FALSE, known |-> FALSE]

LiveInit ==
    /\ live = None /\ said = [s \in Sessions |-> 0]
    /\ pipe = [c \in Chains |-> <<>>] /\ pending = [c \in Chains |-> None] /\ up = FALSE /\ conn = 0
    /\ wire = "on" /\ failed = 0 /\ signed = TRUE /\ private = FALSE
    /\ selected = Receivers /\ removed = {}
    /\ table = [s \in Sessions |-> None] /\ log = [s \in Sessions |-> <<>>]
    /\ settled = [s \in Sessions |-> <<>>]
    /\ running = {} /\ answers = {}
    /\ inbox = [r \in Receivers |-> {}] /\ online = [r \in Receivers |-> TRUE]
    /\ shows = [r \in Receivers |-> [s \in Sessions |-> Unseen]]
    /\ taken = {} /\ asides = 0 /\ deaths = 0

-----------------------------------------------------------------------------
\* What is said

Sends == signed /\ ~ private /\ selected # {}

\* Mutated: nothing limits the channel.
FitsAll(msgs) == msgs
\* As many of the messages as the channel takes; the browser's chain takes all.
Fits(msgs) == IF Native THEN SubSeq(msgs, 1, IF Capacity - Len(pipe[0]) < Len(msgs)
                                            THEN Capacity - Len(pipe[0]) ELSE Len(msgs))
              ELSE msgs
Queued(id, msgs) == pipe' = [pipe EXCEPT ![Chain(id)] = @ \o msgs]
\* "started" goes before the first words of a session.
WithStart(id, seq, phases) ==
    LET lead == IF seq = 0 THEN <<Message(id, 0, "started", 0)>> ELSE <<>>
    IN lead \o [i \in 1..Len(phases) |-> Message(id, seq + Len(lead) + i - 1, phases[i][1], phases[i][2])]

Current(id) == live.id = id
Ended(id) == id \in Sessions /\ said[id] > MaxSaid
\* A recording that may be sent: the one that is, or one that follows it.
Sendable(id) == ~ Ended(id) /\ (Current(id) \/ (Native /\ (live = None \/ Ended(live.id))))
\* A new identifier starts a new session; one that was sent before starts at 0 again after Incognito.
Position(id) == IF Current(id) THEN live.seq ELSE 0

\* live: a preview.
Preview(id) ==
    /\ Sends /\ failed = 0 /\ Sendable(id) /\ Position(id) - said[id] <= MaxShown
    /\ LET msgs == WithStart(id, Position(id), << <<"partial", said[id] + 1>> >>)
           sent == Fits(msgs)
       IN /\ Queued(id, sent)
          /\ live' = [id |-> id, seq |-> Position(id) + Len(sent)]
    /\ UNCHANGED <<said, pending, up, conn, wire, failed, signed, private, selected, taken, asides, route, receiver>>

\* live, finished: every settled part and the end, as far as the channel takes them.
\* The browser publishes each part as it is settled, and the end when the recording stops.
FinishLive(id, parts) ==
    LET phases == [i \in 1..(parts + 1) |-> IF i <= parts THEN <<"segment", said[id] + i>> ELSE <<"stopped", 0>>]
        msgs == WithStart(id, Position(id), phases)
        sent == Fits(msgs)
    IN
    /\ Sends /\ failed = 0 /\ Sendable(id) /\ said[id] + parts <= MaxSaid
    /\ Queued(id, sent)
    /\ said' = [said EXCEPT ![id] = MaxSaid + 1]
    /\ live' = IF sent = msgs THEN [id |-> 0] ELSE [id |-> id, seq |-> Position(id) + Len(sent)]
    /\ UNCHANGED <<pending, up, conn, wire, failed, signed, private, selected, taken, asides, route, receiver>>

\* publish: a settled part while the browser records.
Settle(id) ==
    /\ ~ Native /\ Sends /\ failed = 0 /\ Sendable(id) /\ said[id] < MaxSaid
    /\ LET msgs == WithStart(id, Position(id), << <<"segment", said[id] + 1>> >>) IN
       /\ Queued(id, msgs)
       /\ live' = [id |-> id, seq |-> Position(id) + Len(msgs)]
    /\ said' = [said EXCEPT ![id] = @ + 1]
    /\ UNCHANGED <<pending, up, conn, wire, failed, signed, private, selected, taken, asides, route, receiver>>

\* cancel_live: the end of a recording that failed or was cancelled.
CancelLive ==
    /\ Native /\ live # None /\ ~ Ended(live.id)
    /\ pipe' = IF signed /\ ~ private THEN [pipe EXCEPT ![Chain(live.id)] = @ \o Fits(<<Message(live.id, live.seq, "stopped", 0)>>)] ELSE pipe
    /\ said' = [said EXCEPT ![live.id] = MaxSaid + 1]
    /\ live' = None
    /\ UNCHANGED <<pending, up, conn, wire, failed, signed, private, selected, taken, asides, route, receiver>>

-----------------------------------------------------------------------------
\* The wire

Waiting == {c \in Chains : pending[c] # None}
Post(ms) == running' = running \cup {[m |-> m, conn |-> conn', stage |-> "arrived"] : m \in ms}
Restless == wire \in {"on", "closing"}

\* Connected again: a message that was not acknowledged is sent again.
Connect ==
    /\ wire = "on" /\ ~ up
    /\ up' = TRUE /\ conn' = conn + 1
    /\ Post({pending[c] : c \in Waiting})
    /\ UNCHANGED <<live, said, pipe, pending, wire, failed, signed, private, selected, taken, asides,
                   removed, table, log, settled, answers, deaths, receiver>>

\* The connection breaks, and what was on its way to the sender is lost.
Break ==
    /\ up /\ conn <= MaxBreaks /\ up' = FALSE
    /\ answers' = {}
    /\ UNCHANGED <<live, said, pipe, pending, conn, wire, failed, signed, private, selected, taken, asides,
                   removed, table, log, settled, running, deaths, receiver>>

\* Nobody will answer: an invocation takes less time than the 12 seconds of the desktop or the 45 of the browser.
Unanswered(c) == pending[c] # None /\ answers = {} /\ \A v \in running : v.m # pending[c]

\* 12 seconds pass without an acknowledgement: the desktop connects again.
Timeout ==
    /\ Native /\ up /\ Unanswered(0) /\ up' = FALSE /\ answers' = {}
    /\ UNCHANGED <<live, said, pipe, pending, conn, wire, failed, signed, private, selected, taken, asides,
                   removed, table, log, settled, running, deaths, receiver>>

\* The next message; a browser takes it even when it is not connected.
Take ==
    /\ Restless /\ (Native => up) /\ conn' = conn
    /\ \E c \in Chains \ Waiting :
        /\ pipe[c] # <<>>
        /\ pending' = [pending EXCEPT ![c] = Head(pipe[c])] /\ pipe' = [pipe EXCEPT ![c] = Tail(@)]
        /\ Post(IF up THEN {Head(pipe[c])} ELSE {})
    /\ UNCHANGED <<live, said, up, wire, failed, signed, private, selected, taken, asides,
                   removed, table, log, settled, answers, deaths, receiver>>

Acknowledges(a) ==
    LET p == pending[Chain(a.m.id)] IN a.kind = "ack" /\ p # None /\ a.m.id = p.id /\ a.m.seq = p.seq

\* disconnect: the login is over.
SignsOut == /\ signed' = FALSE /\ wire' = "off" /\ up' = FALSE /\ live' = None
            /\ pipe' = [c \in Chains |-> <<>>]

\* Everything that waits is given up; in the browser it says that the recording, the present one, failed.
Rejected ==
    /\ pending' = [c \in Chains |-> None]
    /\ failed' \in IF Native \/ Waiting = {} THEN {failed} ELSE Waiting

\* An acknowledgement, or an error: the desktop gives the message up, the browser the recording;
\* an error of a removed device ends the login of the desktop.
WireAnswers(a) ==
    /\ up /\ Restless /\ a \in answers /\ answers' = answers \ {a}
    /\ \/ /\ a.kind = "ack"
          /\ pending' = IF Acknowledges(a) THEN [pending EXCEPT ![Chain(a.m.id)] = None] ELSE pending
          /\ taken' = IF Acknowledges(a) THEN taken \cup {pending[Chain(a.m.id)]} ELSE taken
          /\ UNCHANGED <<live, pipe, up, wire, failed, signed>>
       \/ /\ a.kind = "forbidden" /\ Native
          /\ SignsOut /\ pending' = [pending EXCEPT ![0] = None] /\ UNCHANGED <<taken, failed>>
       \/ /\ a.kind = "forbidden" /\ ~ Native
          /\ Rejected /\ up' = FALSE /\ UNCHANGED <<live, pipe, wire, signed, taken>>
       \/ /\ a.kind = "refused"
          /\ Rejected /\ UNCHANGED <<live, pipe, up, wire, signed, taken>>
    /\ UNCHANGED <<said, conn, private, selected, asides, removed, table, log, settled, running, deaths, receiver>>

\* 45 seconds pass: the browser gives the recording up.
GiveUp ==
    /\ ~ Native
    /\ \E c \in Waiting : Unanswered(c) /\ pending' = [pending EXCEPT ![c] = None] /\ failed' = c
    /\ UNCHANGED <<live, said, pipe, up, conn, wire, signed, private, selected, taken, asides, route, receiver>>

\* A new recording in the browser: its own chain, whether or not the last one has ended.
BeginLive(id) ==
    /\ ~ Native /\ Sends /\ said[id] = 0 /\ ~ Current(id) /\ (live = None \/ failed # 0)
    /\ said' = [s \in Sessions |-> IF s = live.id THEN MaxSaid + 1 ELSE said[s]]
    /\ live' = [id |-> id, seq |-> 1] /\ failed' = 0
    /\ pipe' = [pipe EXCEPT ![id] = <<Message(id, 0, "started", 0)>>]
    /\ UNCHANGED <<pending, up, conn, wire, signed, private, selected, taken, asides, route, receiver>>

\* Incognito: the wire is cancelled; it ends when it is polled, or takes one more turn first.
IncognitoOn ==
    /\ Native /\ signed /\ ~ private /\ asides < MaxPrivate /\ asides' = asides + 1
    /\ private' = TRUE /\ live' = None /\ wire' = IF wire = "on" THEN "closing" ELSE wire
    /\ UNCHANGED <<said, pipe, pending, up, conn, failed, signed, selected, taken, route, receiver>>
WireEnds ==
    /\ wire = "closing" /\ wire' = "off" /\ up' = FALSE /\ answers' = {}
    /\ pipe' = [c \in Chains |-> <<>>] /\ pending' = [c \in Chains |-> None]
    /\ UNCHANGED <<live, said, conn, failed, signed, private, selected, taken, asides,
                   removed, table, log, settled, running, deaths, receiver>>
IncognitoOff ==
    /\ private /\ wire = "off" /\ signed /\ private' = FALSE /\ wire' = "on"
    /\ UNCHANGED <<live, said, pipe, pending, up, conn, failed, signed, selected, taken, asides, route, receiver>>

\* devices.changed: a removed device leaves the selection.
LoadDevices ==
    /\ Sends /\ selected \cap removed # {} /\ selected' = selected \ removed
    /\ UNCHANGED <<live, said, pipe, pending, up, conn, wire, failed, signed, private, taken, asides, route, receiver>>

-----------------------------------------------------------------------------
\* The account

RemoveDevice(r) ==
    /\ r \in Removable \ removed /\ removed' = removed \cup {r}
    /\ online' = [online EXCEPT ![r] = FALSE] /\ inbox' = [inbox EXCEPT ![r] = {}]
    /\ UNCHANGED <<sender, table, log, settled, running, answers, deaths, shows>>

SendBack(v, kind) == answers' = IF up /\ v.conn = conn THEN answers \cup {[kind |-> kind, m |-> v.m]} ELSE answers
\* Goes on as w.
Becomes(v, w) == running' = (running \ {v}) \cup {w}
Ends(v) == running' = running \ {v}

\* A message that may be stored after the previous one.
Follows(m, previous) ==
    IF previous = None THEN m.phase = "started" /\ m.seq = 0
    ELSE previous.phase # "stopped" /\ m.seq = previous.seq + 1 /\ m.phase # "started"

\* Mutated: a repeated message is acknowledged without telling the receivers.
RepeatsAckOnly(v) == SendBack(v, "ack") /\ Ends(v)
\* The last message again: the receivers may not have heard of it.
Repeats(v) == Becomes(v, [v EXCEPT !.stage = "notify"]) /\ UNCHANGED answers

\* The checks: the targets are there, and the session goes on where it was.
Check(v) ==
    LET m == v.m
        previous == table[m.id]
    IN
    /\ v \in running /\ v.stage = "arrived"
    /\ \/ /\ m.targets \cap removed # {}
          /\ SendBack(v, "forbidden") /\ Ends(v)
       \/ /\ m.targets \cap removed = {} /\ previous # None /\ m.seq <= previous.seq
          /\ IF m.seq < previous.seq THEN SendBack(v, "ack") /\ Ends(v)
             ELSE IF [previous EXCEPT !.id = m.id] # m THEN SendBack(v, "refused") /\ Ends(v)
             ELSE Repeats(v)
       \/ /\ m.targets \cap removed = {} /\ ~ (previous # None /\ m.seq <= previous.seq)
          /\ IF Follows(m, previous) THEN Becomes(v, [m |-> m, conn |-> v.conn, stage |-> "commit", prev |-> previous]) /\ UNCHANGED answers
             ELSE SendBack(v, "refused") /\ Ends(v)
    /\ UNCHANGED <<sender, removed, table, log, settled, deaths, receiver>>

Still(v) == table[v.m.id] = v.prev
\* The settled words of a session so far.
WordsNow(s) == IF settled[s] = <<>> THEN <<>> ELSE settled[s][Len(settled[s])]

Commit(v) ==
    /\ v \in running /\ v.stage = "commit"
    /\ IF Still(v)
       THEN /\ table' = [table EXCEPT ![v.m.id] = v.m]
            /\ log' = [log EXCEPT ![v.m.id] = Append(@, v.m)]
            /\ settled' = [settled EXCEPT ![v.m.id] =
                           Append(@, IF v.m.phase = "segment" THEN Append(WordsNow(v.m.id), v.m.text) ELSE WordsNow(v.m.id))]
            /\ Becomes(v, [m |-> v.m, conn |-> v.conn, stage |-> "notify"])
            /\ UNCHANGED answers
       ELSE SendBack(v, "refused") /\ Ends(v) /\ UNCHANGED <<table, log, settled>>
    /\ UNCHANGED <<sender, removed, deaths, receiver>>

\* The receivers that are online get it; then the sender is told.
Notify(v) ==
    /\ v \in running /\ v.stage = "notify"
    /\ inbox' = [r \in Receivers |-> IF r \in v.m.targets /\ online[r] THEN inbox[r] \cup {v.m} ELSE inbox[r]]
    /\ SendBack(v, "ack") /\ Ends(v)
    /\ UNCHANGED <<sender, removed, table, log, settled, deaths, online, shows>>

\* An invocation ends without an answer.
Dies(v) ==
    /\ v \in running /\ deaths < MaxDies /\ deaths' = deaths + 1 /\ Ends(v)
    /\ UNCHANGED <<sender, removed, table, log, settled, answers, receiver>>

-----------------------------------------------------------------------------
\* Receivers

Kept(r) == {s \in Sessions : shows[r][s].known}

IsNew(r, m) == ~ shows[r][m.id].known \/ m.seq > shows[r][m.id].seq

\* Mutated: a gap is not noticed.
ShowsSilently(r, m) ==
    LET v == shows[r][m.id]
    IN [seq |-> m.seq, known |-> TRUE,
        missing |-> FALSE,
        text |-> IF m.phase = "segment" THEN Append(v.text, m.text) ELSE v.text,
        partial |-> IF m.phase = "partial" THEN m.text
                    ELSE IF m.phase = "started" THEN v.partial ELSE 0]

\* What a message does to the view of its session; only the browser notices a gap.
Shows(r, m) ==
    LET v == shows[r][m.id]
        gap == IF v.known THEN m.seq # v.seq + 1 ELSE m.phase # "started"
    IN [seq |-> m.seq, known |-> TRUE,
        missing |-> r \in Browsers /\ (v.missing \/ gap),
        text |-> IF m.phase = "segment" THEN Append(v.text, m.text) ELSE v.text,
        partial |-> IF m.phase = "partial" THEN m.text
                    ELSE IF m.phase = "started" THEN v.partial ELSE 0]

\* A full receiver forgets: the browser its oldest session, the desktop the smallest identifier.
Forgotten(r, m) ==
    LET known == Kept(r) \cup {m.id} IN
    IF Cardinality(known) <= Shown THEN {}
    ELSE {CHOOSE s \in (IF r \in Browsers THEN known \ {m.id} ELSE known) :
             \A t \in (IF r \in Browsers THEN known \ {m.id} ELSE known) : s <= t}

Receive(r, m) ==
    /\ m \in inbox[r] /\ inbox' = [inbox EXCEPT ![r] = @ \ {m}]
    /\ shows' = IF IsNew(r, m)
                THEN [shows EXCEPT ![r] = [s \in Sessions |->
                        IF s \in Forgotten(r, m) THEN Unseen ELSE IF s = m.id THEN Shows(r, m) ELSE @[s]]]
                ELSE shows
    /\ UNCHANGED <<sender, route, online>>

GoesOffline(r) ==
    /\ r \in Leaves /\ online[r] /\ r \notin removed
    /\ online' = [online EXCEPT ![r] = FALSE] /\ inbox' = [inbox EXCEPT ![r] = {}]
    /\ UNCHANGED <<sender, route, shows>>
ComesBack(r) ==
    /\ ~ online[r] /\ r \notin removed /\ online' = [online EXCEPT ![r] = TRUE]
    /\ UNCHANGED <<sender, route, inbox, shows>>

-----------------------------------------------------------------------------
Route == \E v \in running : Check(v) \/ Commit(v) \/ Notify(v)
Wire == Connect \/ Take \/ Timeout \/ GiveUp \/ WireEnds \/ \E a \in answers : WireAnswers(a)
Receiving == \E r \in Receivers : \E m \in inbox[r] : Receive(r, m)
Speaker ==
    \/ \E id \in Sessions : Preview(id) \/ Settle(id) \/ BeginLive(id) \/ \E parts \in 0..MaxSaid : FinishLive(id, parts)
    \/ CancelLive \/ IncognitoOn \/ IncognitoOff \/ LoadDevices
Around == Break \/ (\E v \in running : Dies(v)) \/ \E r \in Receivers : RemoveDevice(r) \/ GoesOffline(r) \/ ComesBack(r)

LiveNext == Speaker \/ Wire \/ Route \/ Receiving \/ Around
LiveTextSpec == LiveInit /\ [][LiveNext]_liveVars
\* The wire, the route and the receivers' event loops go on.
LiveFairness == WF_liveVars(Wire) /\ WF_liveVars(Route) /\ WF_liveVars(Receiving)
FairTextSpec == LiveTextSpec /\ LiveFairness

-----------------------------------------------------------------------------
\* Properties

\* Types.
LiveTypeOK ==
    /\ LiveAssumption
    /\ wire \in {"on", "closing", "off"} /\ conn \in Nat
    /\ (Native => Len(pipe[0]) <= Capacity)
    /\ \A s \in Sessions : said[s] \in 0..(MaxSaid + 1)
    /\ failed \in {0} \cup Sessions
    /\ \A a \in answers : a.kind \in {"ack", "forbidden", "refused"}
    /\ \A r \in Receivers, s \in Sessions : shows[r][s].missing \in BOOLEAN

\* What a browser shows as settled words, without saying that some are missing, is what was said so far, in
\* order and each part once, however often a message was sent and in whatever order it arrived.
ShownWordsAreWhole ==
    \A r \in Browsers, s \in DOMAIN log :
        ~ shows[r][s].missing => IsPrefix(shows[r][s].text, WordsNow(s))

\* A session is stored in order: two invocations that carry the same or the next message never both store it.
SequenceIsKept == \A s \in DOMAIN log : \A i \in 1..Len(log[s]) : log[s][i].seq = i - 1

\* A message that was acknowledged is one that was stored: no words are dropped behind an acknowledgement.
AcknowledgedIsStored == \A m \in taken : \E i \in 1..Len(log[m.id]) : log[m.id][i] = m

\* Live words: nothing is shown twice, out of order or with a gap, nothing is stored so, and, unless Incognito
\* came in between, nothing is dropped behind an acknowledgement.
LiveWordsAreWhole == ShownWordsAreWhole /\ SequenceIsKept /\ (asides = 0 => AcknowledgedIsStored)

\* The desktop's login ends only when that desktop is removed: nothing here removes it.
StaysSignedIn == signed

\* "Missing updates are reported": a desktop, too, shows only words that are whole.
DesktopReportsMissing ==
    \A r \in Desktops, s \in DOMAIN log : IsPrefix(shows[r][s].text, WordsNow(s))

\* Incognito pauses account traffic: no message starts on its way while it is on.
IncognitoIsQuiet == [][private => running' \subseteq running \cup {w \in running' : w.stage # "arrived"}]_liveVars

\* "Selected online receivers see ordered partial and settled words": a recording is silenced by a message of
\* its own only, not by one of the recording before it that fails late.
NewRecordingIsSent == live # None /\ failed # 0 => failed = live.id

\* Every message leaves in the end: it is acknowledged, refused or given up, whatever breaks on the way.
EverythingLeaves == []<>(\A c \in Chains : pending[c] = None /\ pipe[c] = <<>>)

\* A receiver that stays comes to show whatever was stored, also when the invocation that stored it ended
\* before it told anybody, or the browser gave the recording up.
Arrives ==
    \A r \in Receivers \ (Leaves \cup Removable), s \in Sessions :
        []<>(table[s] = None \/ failed # 0 \/ shows[r][s].seq >= table[s].seq)
=============================================================================
