----------------------------- MODULE VoiceRoute -----------------------------
(***************************************************************************)
(* The pure routing state machine of one dictated message: `VoiceRoute` in *)
(* rust/mluva-core/src/agent_voice.rs.  Every method of that type is an    *)
(* operator here that maps the current attempt to the next one; the        *)
(* modules that own the attempt (the controller, the application) compose  *)
(* them, because one handler of theirs calls several methods.              *)
(*                                                                         *)
(* Times are relative.  One unit is 1000 ms.  `left` is the deadline minus *)
(* the wall clock while the cancel window runs, `age` the wall clock minus *)
(* `started_ms`; the owner's clock actions move both.                      *)
(***************************************************************************)
EXTENDS Integers

CONSTANTS
    Session,        \* agent sessions, one per identity `same_instance` tells apart
    NoSession,      \* no session
    AppLinks,       \* those that are a link to an app's composer, not a running session
    MaxRecording    \* MAX_RECORDING_MS in units: the recording safety limit

ASSUME MaxRecordingAssumption == MaxRecording \in Nat \ {0}
ASSUME SessionAssumption == NoSession \notin Session /\ AppLinks \subseteq Session

CancelWindow == 2   \* CANCEL_WINDOW_MS in units
LateBy == 1         \* a countdown noticed more than this late is not sent

(***************************************************************************)
(* What one sighting of a session says of the transport that reaches it    *)
(* and its state: no longer listed, listed without a transport, listed but *)
(* not able to take a message, or reachable at one of three levels.        *)
(***************************************************************************)
Reachable == {"send", "queue", "prefill"}
Sighting == {"missing", "draft-only", "blocked"} \cup Reachable
CanReceive(sighting) == sighting \in Reachable

\* Only a composer link is prefilled, and it is reached in no other way.
SightingOf(s) == IF s \in AppLinks THEN {"missing", "prefill"} ELSE Sighting \ {"prefill"}

DraftReason == {"Kept", "Edited", "RecipientChanged", "Unavailable", "Cancelled",
                "Interrupted", "Empty", "TooLong", "Rejected", "Busy"}
SendOutcome == {"Accepted", "Taken", "Held", "Busy", "Rejected", "Unconfirmed"}

\* Recognized text by what the route tells apart: "medium" is longer than a
\* prefilled link carries, "long" is over the limit of every route.
Text == {"empty", "short", "medium", "long"}

RoutePhase == {"None", "Recording", "Finalizing", "Grace", "Draft", "Submitting",
               "Delivered", "Held", "Unconfirmed"}
Pending == {"Recording", "Finalizing", "Grace"}

NoReason == "none"
NoId == 0

Attempt == [id : Nat, session : Session \cup {NoSession}, via : Sighting, phase : RoutePhase,
            reason : DraftReason \cup {NoReason}, disarmed : DraftReason \cup {NoReason},
            left : Int, age : Int, text : Text, doc : Nat, row : Nat, taken : BOOLEAN]

\* Mutated: a message on its way does not refuse a new recording.
MayBeginDuringDelivery(a, sighting) == a.phase \notin Pending /\ CanReceive(sighting)

(***************************************************************************)
(* `begin` refuses while an attempt records, is recognized, counts down or *)
(* is being delivered, and refuses a session that cannot take a message.   *)
(***************************************************************************)
MayBegin(a, sighting) ==
    /\ a.phase \notin Pending \cup {"Submitting"}
    /\ CanReceive(sighting)

Begun(id, session, sighting) ==
    [id |-> id, session |-> session, via |-> sighting, phase |-> "Recording",
     reason |-> NoReason, disarmed |-> NoReason, left |-> 0, age |-> 0,
     text |-> "empty", doc |-> 0, row |-> 0, taken |-> FALSE]

\* `VoiceRoute::default` and `attempt = None`; the fields carry no meaning.
NoAttempt == [Begun(NoId, NoSession, "missing") EXCEPT !.phase = "None"]

\* The recording time is read only while recording, the deadline only in Grace.
Release(a) ==
    IF a.phase = "Recording" THEN [a EXCEPT !.phase = "Finalizing", !.age = 0] ELSE a

TooLong(text, sighting) == text = "long" \/ (text = "medium" /\ sighting = "prefill")

\* A disarmed attempt keeps its draft whatever was recognized.
RecognizedReason(a, text) ==
    IF a.disarmed # NoReason THEN a.disarmed
    ELSE IF text = "empty" THEN "Empty"
    ELSE IF TooLong(text, a.via) THEN "TooLong"
    ELSE NoReason

Accepts(a, id) == a.phase = "Finalizing" /\ a.id = id

Recognized(a, id, text, doc, row) ==
    IF ~Accepts(a, id) THEN a
    ELSE LET reason == RecognizedReason(a, text)
             read   == [a EXCEPT !.text = text, !.doc = doc, !.row = row]
         IN  IF reason = NoReason
             THEN [read EXCEPT !.phase = "Grace", !.left = CancelWindow]
             ELSE [read EXCEPT !.phase = "Draft", !.reason = reason]

ToDraft(a, reason) ==
    [a EXCEPT !.phase = "Draft", !.reason = reason, !.left = 0, !.age = 0]

\* Mutated: a countdown is marked, and goes on.
DisarmLeavesCountdown(a, reason) ==
    IF a.phase \in Pending THEN [a EXCEPT !.disarmed = reason] ELSE a

\* Disarming a recording only remembers why; disarming a countdown ends it.
Disarm(a, reason) ==
    CASE a.phase \in {"Recording", "Finalizing"} -> [a EXCEPT !.disarmed = reason]
      [] a.phase = "Grace" -> [ToDraft(a, reason) EXCEPT !.disarmed = reason]
      [] OTHER -> a

AbandonCapture(a, reason) ==
    IF a.phase \in Pending THEN [ToDraft(a, reason) EXCEPT !.disarmed = reason] ELSE a

\* Mutated: any session that can take a message will do.
ObserveAnySession(a, found) ==
    IF a.phase \notin Pending THEN a
    ELSE IF \E s \in DOMAIN found : CanReceive(found[s])
         THEN LET s == CHOOSE s \in DOMAIN found : CanReceive(found[s])
              IN  [a EXCEPT !.session = s, !.via = found[s]]
         ELSE Disarm(a, "Unavailable")

\* `observe`: a pending message follows its own session to the route that
\* reaches it now; a session gone or unable to take a message keeps the draft.
Observe(a, found) ==
    IF a.phase \notin Pending THEN a
    ELSE IF CanReceive(found[a.session]) THEN [a EXCEPT !.via = found[a.session]]
    ELSE Disarm(a, "Unavailable")

RecordingTimedOut(a) == a.phase = "Recording" /\ a.age >= MaxRecording

Due(a) == a.phase = "Grace" /\ a.left <= 0
\* Mutated: the tolerance has the wrong sign.
TooLateAtOnce(a) == a.left < LateBy

TooLate(a) == a.left < -LateBy

\* `start_submission`: the permission to send is consumed before any network work.
StartSubmission(a) == [a EXCEPT !.phase = "Submitting", !.left = 0]

\* What `take_submission` leaves when the countdown is due: consumed, or dropped late.
TakeSubmission(a) ==
    IF TooLate(a) THEN ToDraft(a, "Interrupted") ELSE StartSubmission(a)

\* Mutated: an uncertain delivery is offered as a draft again.
SettledUncertainAsDraft(outcome) ==
    CASE outcome \in {"Accepted", "Taken"} -> "Delivered"
      [] outcome = "Held" -> "Held"
      [] OTHER -> "Draft"

Settled(outcome) ==
    CASE outcome \in {"Accepted", "Taken"} -> "Delivered"
      [] outcome = "Held" -> "Held"
      [] outcome = "Unconfirmed" -> "Unconfirmed"
      [] OTHER -> "Draft"

\* Mutated: the outcome is remembered as the reason of a draft, draft or not.
DeliveredKeepsOutcome(a, id, outcome) ==
    IF a.id # id \/ a.phase # "Submitting" THEN a
    ELSE [a EXCEPT !.phase = Settled(outcome), !.taken = (outcome = "Taken"), !.reason = outcome]

Delivered(a, id, outcome) ==
    IF a.id # id \/ a.phase # "Submitting" THEN a
    ELSE [a EXCEPT !.phase = Settled(outcome), !.taken = (outcome = "Taken"),
                   !.reason = IF Settled(outcome) = "Draft" THEN outcome ELSE NoReason]

LearnsTaken(a, id) == a.id = id /\ a.phase = "Delivered" /\ ~a.taken
TakenBy(a, id) == IF LearnsTaken(a, id) THEN [a EXCEPT !.taken = TRUE] ELSE a
=============================================================================
