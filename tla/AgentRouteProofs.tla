-------------------------- MODULE AgentRouteProofs --------------------------
(***************************************************************************)
(* Proofs about AgentRoute for every number of sessions, attempts, choices *)
(* and every recording limit.                                              *)
(*                                                                         *)
(* The first part is about which attempt may still be sent.  The operators *)
(* of VoiceRoute come first: all but `Recognized` only take an attempt     *)
(* further along its life, and what disarms it leaves it disarmed.  The    *)
(* inductive invariant then says which attempt may still be sent; the      *)
(* safety theorems follow from it.                                         *)
(*                                                                         *)
(* The second part is about what becomes of a message: it is written at    *)
(* most once, what carries it is what the attempt shows, its capture and   *)
(* its History row stay with it, and every step of the controller is a     *)
(* step of OneShotDelivery.  Its invariant relates the attempt to its      *)
(* delivery, its capture, the editor, its row and what really became of    *)
(* its text.  Every step first falls into one of a few kinds (a handler    *)
(* that holds or stops the message, one that leaves it alone, one that     *)
(* begins another, ...), and each kind keeps each part.                    *)
(***************************************************************************)
EXTENDS AgentRoute, TLAPS

-----------------------------------------------------------------------------
(* The methods of VoiceRoute                                                *)

\* b is a as a later handler may find it: the same message to the same
\* session, never pending again once it was not, never re-armed.
Follows(a, b) ==
    /\ b \in Attempt
    /\ b.id = a.id /\ b.session = a.session /\ b.row = a.row /\ b.doc = a.doc
    /\ b.phase = "None" <=> a.phase = "None"
    /\ b.phase \in Pending => a.phase \in Pending
    /\ b.phase = "Grace" => a.phase = "Grace"
    /\ b.phase = "Grace" => b.disarmed = a.disarmed
    /\ a.disarmed # NoReason => b.disarmed # NoReason
    /\ a.via \in Reachable => b.via \in Reachable

\* b is stopped: if it is pending at all, it will end as a draft.
Halted(b) == b.phase # "Grace" /\ (b.phase \in Pending => b.disarmed # NoReason)

\* A pending message that is stopped and becomes a draft.
Drafted(a, reason) == [ToDraft(a, reason) EXCEPT !.disarmed = reason]

LEMMA DraftFollows ==
    ASSUME NEW a \in Attempt, NEW reason \in DraftReason, a.phase \in Pending
    PROVE  /\ Follows(a, ToDraft(a, reason)) /\ Halted(ToDraft(a, reason))
           /\ Follows(a, Drafted(a, reason)) /\ Halted(Drafted(a, reason))
           /\ Drafted(a, reason).phase \notin Pending
<1> DEFINE d == ToDraft(a, reason)
           e == Drafted(a, reason)
<1>1. reason # NoReason
  BY DEF DraftReason, NoReason
<1>2. d = [a EXCEPT !.phase = "Draft", !.reason = reason, !.left = 0, !.age = 0]
  BY DEF ToDraft
<1>3. e = [a EXCEPT !.phase = "Draft", !.reason = reason, !.left = 0, !.age = 0,
                    !.disarmed = reason]
  BY DEF Drafted, ToDraft, Attempt
<1>4. "Draft" \in RoutePhase /\ 0 \in Int
  BY DEF RoutePhase
<1> HIDE DEF d, e
<1>5. d \in Attempt /\ e \in Attempt
  BY <1>2, <1>3, <1>4 DEF Attempt
<1>6. /\ d.id = a.id /\ d.session = a.session /\ d.row = a.row /\ d.doc = a.doc
      /\ d.phase = "Draft" /\ d.disarmed = a.disarmed /\ d.via = a.via
  BY <1>2 DEF Attempt
<1>7. /\ e.id = a.id /\ e.session = a.session /\ e.row = a.row /\ e.doc = a.doc
      /\ e.phase = "Draft" /\ e.disarmed = reason /\ e.via = a.via
  BY <1>3 DEF Attempt
<1>8. Follows(a, d) /\ Halted(d)
  BY <1>1, <1>5, <1>6 DEF Follows, Halted, Pending
<1>9. Follows(a, e) /\ Halted(e) /\ e.phase \notin Pending
  BY <1>1, <1>5, <1>7 DEF Follows, Halted, Pending
<1> QED BY <1>8, <1>9 DEF d, e

\* What a handler that stops a message makes of it.
LEMMA DisarmHalts ==
    ASSUME NEW a \in Attempt, NEW reason \in DraftReason
    PROVE  Follows(a, Disarm(a, reason)) /\ Halted(Disarm(a, reason))
<1> DEFINE d == Disarm(a, reason)
<1>0. reason # NoReason
  BY DEF DraftReason, NoReason
<1>1. CASE a.phase \in {"Recording", "Finalizing"}
  <2>1. d = [a EXCEPT !.disarmed = reason]
    BY <1>1 DEF Disarm
  <2> QED BY <1>0, <1>1, <2>1 DEF Follows, Halted, Attempt, Pending, Reachable
<1>2. CASE a.phase = "Grace"
  <2>1. d = Drafted(a, reason)
    BY <1>2 DEF Disarm, Drafted
  <2> QED BY <1>2, <2>1, DraftFollows DEF Pending
<1>3. CASE a.phase \notin {"Recording", "Finalizing", "Grace"}
  <2>1. d = a
    BY <1>3 DEF Disarm
  <2> QED BY <1>3, <2>1 DEF Follows, Halted, Pending
<1> QED BY <1>1, <1>2, <1>3

LEMMA AbandonHalts ==
    ASSUME NEW a \in Attempt, NEW reason \in DraftReason
    PROVE  /\ Follows(a, AbandonCapture(a, reason)) /\ Halted(AbandonCapture(a, reason))
           /\ AbandonCapture(a, reason).phase \notin Pending
<1>1. CASE a.phase \in Pending
  BY <1>1, DraftFollows DEF AbandonCapture, Drafted
<1>2. CASE a.phase \notin Pending
  <2>1. AbandonCapture(a, reason) = a
    BY <1>2 DEF AbandonCapture
  <2> QED BY <1>2, <2>1 DEF Follows, Halted, Pending
<1> QED BY <1>1, <1>2

LEMMA ReleaseFollows ==
    ASSUME NEW a \in Attempt
    PROVE  /\ Follows(a, Release(a))
           /\ Halted(a) => Halted(Release(a))
           /\ Release(a).disarmed = a.disarmed
           /\ a.phase = "Recording" => Release(a).phase = "Finalizing"
<1> DEFINE r == Release(a)
<1>1. CASE a.phase = "Recording"
  <2>1. r = [a EXCEPT !.phase = "Finalizing", !.age = 0]
    BY <1>1 DEF Release
  <2>2. "Finalizing" \in RoutePhase /\ 0 \in Int
    BY DEF RoutePhase
  <2> HIDE DEF r
  <2>3. r \in Attempt
    BY <2>1, <2>2 DEF Attempt
  <2>4. /\ r.id = a.id /\ r.session = a.session /\ r.row = a.row /\ r.doc = a.doc
        /\ r.phase = "Finalizing" /\ r.disarmed = a.disarmed /\ r.via = a.via
    BY <2>1 DEF Attempt
  <2>5. Follows(a, r) /\ (Halted(a) => Halted(r)) /\ r.disarmed = a.disarmed /\ r.phase = "Finalizing"
    BY <1>1, <2>3, <2>4 DEF Follows, Halted, Pending
  <2> QED BY <2>5 DEF r
<1>2. CASE a.phase # "Recording"
  <2>1. r = a
    BY <1>2 DEF Release
  <2> QED BY <1>2, <2>1 DEF Follows, Halted, Pending
<1> QED BY <1>1, <1>2

LEMMA FollowsReflexive ==
    ASSUME NEW a \in Attempt
    PROVE  Follows(a, a)
BY DEF Follows

LEMMA FollowsTransitive ==
    ASSUME NEW a, NEW b, NEW c, Follows(a, b), Follows(b, c)
    PROVE  Follows(a, c)
BY DEF Follows

\* `agent_release` keeps a stopped message stopped.
LEMMA ReleasedFollows ==
    ASSUME NEW a \in Attempt, NEW c
    PROVE  /\ Follows(a, ReleasedAttempt(a, c))
           /\ Halted(a) => Halted(ReleasedAttempt(a, c))
<1>0. "Interrupted" \in DraftReason
  BY DEF DraftReason
<1> QED BY <1>0, AbandonHalts, ReleaseFollows, FollowsReflexive DEF ReleasedAttempt

\* `interrupt` stops a message wherever its capture is.
LEMMA InterruptHalts ==
    ASSUME NEW a \in Attempt, NEW c
    PROVE  Follows(a, InterruptedAttempt(a, c)) /\ Halted(InterruptedAttempt(a, c))
<1> DEFINE d == Disarm(a, "Interrupted")
<1>0. "Interrupted" \in DraftReason
  BY DEF DraftReason
<1>1. Follows(a, d) /\ Halted(d) /\ d \in Attempt
  BY <1>0, DisarmHalts DEF Follows
<1>2. Follows(d, ReleasedAttempt(d, c)) /\ Halted(ReleasedAttempt(d, c))
  BY <1>1, ReleasedFollows
<1>3. Follows(d, AbandonCapture(d, "Interrupted")) /\ Halted(AbandonCapture(d, "Interrupted"))
  BY <1>0, <1>1, AbandonHalts
<1>4. InterruptedAttempt(a, c) \in {ReleasedAttempt(d, c), AbandonCapture(d, "Interrupted"), d}
  BY DEF InterruptedAttempt
<1> QED BY <1>1, <1>2, <1>3, <1>4, FollowsTransitive

\* `observe` follows the session or stops the message.
LEMMA ObserveFollows ==
    ASSUME NEW a \in Attempt, NEW found \in [Session -> Sighting]
    PROVE  /\ Follows(a, Observe(a, found))
           /\ Halted(a) => Halted(Observe(a, found))
           /\ (a.phase \in Pending /\ ~CanReceive(found[a.session]))
                 => Halted(Observe(a, found))
<1>0. "Unavailable" \in DraftReason
  BY DEF DraftReason
<1>1. CASE a.phase \notin Pending
  <2>1. Observe(a, found) = a
    BY <1>1 DEF Observe
  <2> QED BY <1>1, <2>1, FollowsReflexive
<1>2. CASE a.phase \in Pending /\ ~CanReceive(found[a.session])
  <2>1. Observe(a, found) = Disarm(a, "Unavailable")
    BY <1>2 DEF Observe
  <2> QED BY <1>0, <2>1, DisarmHalts
<1>3. CASE a.phase \in Pending /\ CanReceive(found[a.session])
  <2>1. Observe(a, found) = [a EXCEPT !.via = found[a.session]]
    BY <1>3 DEF Observe
  <2>2. found[a.session] \in Reachable
    BY <1>3 DEF CanReceive
  <2> QED BY <1>3, <2>1, <2>2 DEF Follows, Halted, Attempt, Sighting, Reachable, Pending
<1> QED BY <1>1, <1>2, <1>3

\* Using the permission, and what comes of it.
LEMMA SubmissionFollows ==
    ASSUME NEW a \in Attempt, a.phase = "Grace"
    PROVE  /\ Follows(a, StartSubmission(a)) /\ Follows(a, TakeSubmission(a))
           /\ StartSubmission(a).phase = "Submitting" /\ Halted(TakeSubmission(a))
<1> DEFINE b == StartSubmission(a)
<1>1. b = [a EXCEPT !.phase = "Submitting", !.left = 0]
  BY DEF StartSubmission
<1>2. "Submitting" \in RoutePhase /\ 0 \in Int /\ "Interrupted" \in DraftReason
  BY DEF RoutePhase, DraftReason
<1> HIDE DEF b
<1>3. b \in Attempt
  BY <1>1, <1>2 DEF Attempt
<1>4. /\ b.id = a.id /\ b.session = a.session /\ b.row = a.row /\ b.doc = a.doc
      /\ b.phase = "Submitting" /\ b.disarmed = a.disarmed /\ b.via = a.via
  BY <1>1 DEF Attempt
<1>5. Follows(a, b) /\ Halted(b)
  BY <1>3, <1>4 DEF Follows, Halted, Pending
<1>6. TakeSubmission(a) \in {b, ToDraft(a, "Interrupted")}
  BY DEF TakeSubmission, b
<1> QED BY <1>2, <1>4, <1>5, <1>6, DraftFollows DEF b, Pending

LEMMA DeliveredFollows ==
    ASSUME NEW a \in Attempt, NEW id, NEW outcome \in SendOutcome
    PROVE  Follows(a, Delivered(a, id, outcome))
<1> DEFINE b == Delivered(a, id, outcome)
<1>1. CASE a.id # id \/ a.phase # "Submitting"
  <2>1. b = a
    BY <1>1 DEF Delivered
  <2> QED BY <2>1 DEF Follows
<1>2. CASE a.id = id /\ a.phase = "Submitting"
  <2> DEFINE reason == IF Settled(outcome) = "Draft" THEN outcome ELSE NoReason
  <2>1. b = [a EXCEPT !.phase = Settled(outcome), !.taken = (outcome = "Taken"),
                      !.reason = reason]
    BY <1>2 DEF Delivered
  <2>2. /\ Settled(outcome) \in RoutePhase \ (Pending \cup {"None"})
        /\ reason \in DraftReason \cup {NoReason}
    BY DEF Settled, RoutePhase, Pending, SendOutcome, DraftReason
  <2>3. (outcome = "Taken") \in BOOLEAN
    OBVIOUS
  <2> HIDE DEF b, reason
  <2>4. b \in Attempt
    BY <2>1, <2>2, <2>3 DEF Attempt
  <2>5. /\ b.id = a.id /\ b.session = a.session /\ b.row = a.row /\ b.doc = a.doc
        /\ b.phase = Settled(outcome) /\ b.disarmed = a.disarmed /\ b.via = a.via
    BY <2>1 DEF Attempt
  <2>6. Follows(a, b)
    BY <1>2, <2>2, <2>4, <2>5 DEF Follows, Pending
  <2> QED BY <2>6 DEF b
<1> QED BY <1>1, <1>2

LEMMA TakenFollows ==
    ASSUME NEW a \in Attempt, NEW id
    PROVE  Follows(a, TakenBy(a, id))
<1>1. CASE ~LearnsTaken(a, id)
  BY <1>1 DEF TakenBy, Follows
<1>2. CASE LearnsTaken(a, id)
  <2>1. TakenBy(a, id) = [a EXCEPT !.taken = TRUE]
    BY <1>2 DEF TakenBy
  <2> QED BY <2>1 DEF Follows, Attempt
<1> QED BY <1>1, <1>2

\* The clock only moves the times of an attempt.
LEMMA ClockFollows ==
    ASSUME NEW a \in Attempt, NEW left \in Int, NEW age \in Int
    PROVE  Follows(a, [a EXCEPT !.left = left, !.age = age])
BY DEF Follows, Attempt

\* A fresh attempt, and no attempt.
LEMMA BegunAttempt ==
    ASSUME NEW id \in Nat, NEW s \in Session \cup {NoSession}, NEW via \in Sighting
    PROVE  /\ Begun(id, s, via) \in Attempt
           /\ Begun(id, s, via).phase = "Recording"
           /\ Begun(id, s, via).id = id /\ Begun(id, s, via).session = s
           /\ Begun(id, s, via).via = via /\ Begun(id, s, via).disarmed = NoReason
           /\ Begun(id, s, via).row = 0
BY DEF Begun, Attempt, RoutePhase, Text

LEMMA NoAttemptIsAttempt ==
    NoAttempt \in Attempt /\ NoAttempt.phase = "None" /\ NoAttempt.id = 0 /\ NoAttempt.row = 0
<1> DEFINE b == Begun(NoId, NoSession, "missing")
<1>1. NoAttempt = [b EXCEPT !.phase = "None"]
  BY DEF NoAttempt
<1>2. b \in Attempt /\ b.id = 0 /\ b.row = 0
  BY BegunAttempt DEF NoId, Sighting
<1>3. "None" \in RoutePhase
  BY DEF RoutePhase
<1> HIDE DEF b
<1> QED BY <1>1, <1>2, <1>3 DEF Attempt

\* A disarmed recording never starts a countdown.
LEMMA RecognizedAttempt ==
    ASSUME NEW a \in Attempt, NEW id, NEW text \in Text, NEW doc \in Nat, NEW row \in Nat,
           Accepts(a, id), NEW b, b = Recognized(a, id, text, doc, row)
    PROVE  /\ b \in Attempt /\ b.id = a.id /\ b.session = a.session /\ b.via = a.via
           /\ b.doc = doc /\ b.row = row /\ b.disarmed = a.disarmed
           /\ b.phase \in {"Grace", "Draft"}
           /\ b.phase = "Grace" => a.disarmed = NoReason
<1> DEFINE reason == RecognizedReason(a, text)
<1>1. reason \in DraftReason \cup {NoReason} /\ (reason = NoReason => a.disarmed = NoReason)
  BY DEF RecognizedReason, Attempt, DraftReason, NoReason
<1>2. {"Grace", "Draft"} \subseteq RoutePhase /\ CancelWindow \in Int
  BY DEF RoutePhase, CancelWindow
<1>3. CASE reason = NoReason
  <2>1. b = [a EXCEPT !.text = text, !.doc = doc, !.row = row, !.phase = "Grace",
                      !.left = CancelWindow]
    BY <1>3 DEF Recognized, Attempt
  <2> QED BY <1>1, <1>2, <1>3, <2>1 DEF Attempt
<1>4. CASE reason # NoReason
  <2>1. b = [a EXCEPT !.text = text, !.doc = doc, !.row = row, !.phase = "Draft",
                      !.reason = reason]
    BY <1>4 DEF Recognized, Attempt
  <2> HIDE DEF reason
  <2> QED BY <1>1, <1>2, <1>4, <2>1 DEF Attempt
<1> QED BY <1>3, <1>4

-----------------------------------------------------------------------------
(* The inductive invariant                                                  *)

RouteType == attempt \in Attempt /\ reported \subseteq Id \X Step /\ rows \in [Id -> Word]
ChoiceType ==
    /\ selected \in Session \cup {NoSession} /\ enabled \in BOOLEAN /\ switches \subseteq Switch
    /\ asked \in 0..MaxChoices /\ applied \in 0..MaxChoices
FindingType == targets \in [Session -> Sighting] /\ poll \in {"idle", "fresh", "stale"}
Captures == [phase : CapturePhase, agent : 0..MaxAttempts]
CaptureType ==
    /\ cap \in Captures /\ wheel \in BOOLEAN
    /\ editor \in [doc : 0..MaxAttempts, mapped : BOOLEAN]
    /\ editor.mapped => editor.doc # NoId
DeliveryType ==
    /\ flights \subseteq Flight /\ watches \subseteq Watch /\ fate \in [Id -> Sent \cup {"unsent"}]
    /\ \A f \in flights : f.id \in 1..begun /\ f.session = chosen[f.id]
PromiseType ==
    /\ begun \in 0..MaxAttempts /\ chosen \in [Id -> Session \cup {NoSession}]
    /\ stopped \subseteq 1..begun /\ handed \subseteq 1..begun
AmbientType == gap \in Int /\ incognito \in BOOLEAN /\ closed \in BOOLEAN

\* Which attempt may still be sent: one that is pending was never handed over,
\* goes to the session that was chosen, and if something stopped it, it is disarmed.
Permission ==
    /\ attempt.id \in 0..begun /\ attempt.row \in 0..MaxAttempts
    /\ attempt.phase # "None" => attempt.id \in 1..begun
    /\ attempt.phase \in Pending =>
          /\ attempt.session \in Session /\ attempt.session = chosen[attempt.id]
          /\ attempt.via \in Reachable
          /\ attempt.id \notin handed
          /\ attempt.id \in stopped => attempt.disarmed # NoReason
    /\ attempt.phase = "Grace" => attempt.disarmed = NoReason /\ attempt.doc \in Id
    /\ stopped \cap handed = {}

IInv ==
    /\ RouteType /\ ChoiceType /\ FindingType /\ CaptureType
    /\ DeliveryType /\ PromiseType /\ AmbientType /\ Permission

\* The invariant contains what the model checker checks.
LEMMA InvariantSuffices == IInv => TypeOK /\ StopHolds /\ NeverRetargeted
BY AgentRouteAssumption DEF IInv, RouteType, ChoiceType, FindingType, CaptureType, Captures,
   DeliveryType, PromiseType, AmbientType, Permission, TypeOK, StopHolds, NeverRetargeted, Id

LEMMA InvariantInit == Init => IInv
<1> SUFFICES ASSUME Init PROVE IInv
  OBVIOUS
<1> USE AgentRouteAssumption
<1>1. RouteType /\ Permission
  BY NoAttemptIsAttempt DEF Init, RouteType, Permission, Word, Pending
<1>2. ChoiceType
  BY DEF Init, ChoiceType
<1>3. FindingType
  BY DEF Init, FindingType, Sighting
<1>4. AmbientType
  <2>1. gap \in Int
    BY DEF Init
  <2> QED BY <2>1 DEF Init, AmbientType
<1>5. PromiseType
  BY DEF Init, PromiseType
<1>6. cap \in Captures
  BY DEF Init, Captures, NoCapture, NoId, CapturePhase
<1>7. CaptureType
  <2>1. editor = [doc |-> NoId, mapped |-> FALSE] /\ wheel = FALSE
    BY DEF Init
  <2>2. editor \in [doc : 0..MaxAttempts, mapped : BOOLEAN] /\ ~editor.mapped
    BY <2>1 DEF NoId
  <2> QED BY <1>6, <2>1, <2>2 DEF CaptureType
<1>8. DeliveryType
  BY DEF Init, DeliveryType
<1> QED BY <1>1, <1>2, <1>3, <1>4, <1>5, <1>7, <1>8 DEF IInv

\* What a step leaves alone keeps its part of the invariant.
LEMMA GroupsStay ==
    ASSUME IInv
    PROVE  /\ UNCHANGED choice => ChoiceType'
           /\ UNCHANGED finding => FindingType'
           /\ UNCHANGED capture => CaptureType'
           /\ UNCHANGED <<delivery, begun, chosen>> => DeliveryType'
           /\ UNCHANGED promises => PromiseType'
           /\ UNCHANGED ambient => AmbientType'
<1>1. UNCHANGED choice => ChoiceType'
  BY DEF IInv, choice, ChoiceType
<1>2. UNCHANGED finding => FindingType'
  BY DEF IInv, finding, FindingType
<1>3. UNCHANGED capture => CaptureType'
  BY DEF IInv, capture, CaptureType
<1>4. UNCHANGED <<delivery, begun, chosen>> => DeliveryType'
  BY DEF IInv, delivery, DeliveryType
<1>5. UNCHANGED promises => PromiseType'
  BY DEF IInv, promises, PromiseType
<1>6. UNCHANGED ambient => AmbientType'
  BY DEF IInv, ambient, AmbientType
<1> QED BY <1>1, <1>2, <1>3, <1>4, <1>5, <1>6

\* Writing a step keeps the types of what is written.
LEMMA ReportTypes ==
    ASSUME NEW a \in Attempt, a.phase # "None" => a.id \in Id, NEW r \in [Id -> Word],
           reported \subseteq Id \X Step, NEW private, Report(a, r, private)
    PROVE  reported' \subseteq Id \X Step /\ rows' \in [Id -> Word]
<1>1. StepOf(a) # "none" => StepOf(a) \in Step /\ a.id \in Id
  BY DEF StepOf, Step, Attempt, NoReason
<1>2. WordOf(a) # "none" => WordOf(a) \in Word
  BY DEF WordOf, LevelWord, ReasonWord, Word, Sent
<1>3. reported' \subseteq Id \X Step
  BY <1>1 DEF Report, News
<1>4. rows' \in [Id -> Word]
  BY <1>2 DEF Report
<1> QED BY <1>3, <1>4

\* A step that takes the attempt further keeps its permission as it is, or stops it.
LEMMA PermissionStays ==
    ASSUME IInv, Follows(attempt, attempt'), UNCHANGED <<begun, chosen, handed>>,
           stopped' = stopped \/ (Stopping /\ Halted(attempt'))
    PROVE  Permission' /\ PromiseType'
<1>1. stopped' \subseteq 1..begun
  BY DEF IInv, Permission, PromiseType, Stopping, Pending
<1>2. PromiseType'
  BY <1>1 DEF IInv, PromiseType
<1>3. stopped' \cap handed' = {}
  BY DEF IInv, Permission, Stopping
<1>4. attempt'.phase \in Pending /\ attempt'.id \in stopped' => attempt'.disarmed # NoReason
  BY DEF IInv, Permission, Stopping, Follows, Halted
<1>5. attempt'.phase = "Grace" => attempt'.disarmed = NoReason /\ attempt'.doc \in Id
  BY DEF IInv, Permission, Follows
<1>6. attempt'.phase \in Pending =>
          /\ attempt'.session \in Session /\ attempt'.session = chosen'[attempt'.id]
          /\ attempt'.via \in Reachable
          /\ attempt'.id \notin handed'
  BY DEF IInv, Permission, Follows
<1>7. /\ attempt'.id \in 0..begun' /\ attempt'.row \in 0..MaxAttempts
      /\ attempt'.phase # "None" => attempt'.id \in 1..begun'
  BY DEF IInv, Permission, Follows
<1> QED BY <1>2, <1>3, <1>4, <1>5, <1>6, <1>7 DEF Permission

LEMMA RenderedStays ==
    ASSUME IInv, NEW a, Follows(attempt, a), Render(a), UNCHANGED <<begun, chosen, handed>>,
           stopped' = stopped \/ (Stopping /\ Halted(a))
    PROVE  RouteType' /\ Permission' /\ PromiseType'
<1>1. attempt' = a /\ Report(a, rows, incognito)
  BY DEF Render
<1>2. a \in Attempt /\ (a.phase # "None" => a.id \in Id)
  BY AgentRouteAssumption DEF IInv, Permission, PromiseType, Follows, Id
<1>3. RouteType'
  BY <1>1, <1>2, ReportTypes DEF IInv, RouteType
<1> QED BY <1>1, <1>3, PermissionStays

\* A step that leaves the attempt and its promises alone.
LEMMA RouteStays ==
    ASSUME IInv, UNCHANGED <<attempt, promises>>
    PROVE  Permission' /\ PromiseType'
BY DEF IInv, promises, Permission, PromiseType

LEMMA CaptureOperators ==
    ASSUME NEW c \in Captures, NEW a
    PROVE  {NoCapture, StopCapture(c), CancelCapture(c), ReleasedCapture(a, c),
            InterruptedCapture(a, c)} \subseteq Captures
<1>1. StopCapture(c) \in Captures
  BY DEF StopCapture, Captures, CapturePhase
<1>2. CancelCapture(c) \in Captures
  BY DEF CancelCapture, Captures, CapturePhase
<1>3. ReleasedCapture(a, c) \in Captures
  BY <1>1 DEF ReleasedCapture
<1>4. InterruptedCapture(a, c) \in Captures
  BY <1>3 DEF InterruptedCapture
<1>5. NoCapture \in Captures
  BY AgentRouteAssumption DEF NoCapture, Captures, CapturePhase, NoId
<1> QED BY <1>1, <1>2, <1>3, <1>4, <1>5

\* Handing the message over is what its permission allowed, once.
LEMMA SubmittedStays ==
    ASSUME IInv, attempt.phase = "Grace", Submit(attempt), NEW a, Follows(attempt, a),
           a.phase \notin Pending, Render(a),
           UNCHANGED <<begun, chosen, stopped, watches, fate>>
    PROVE  RouteType' /\ Permission' /\ PromiseType' /\ DeliveryType'
<1>1. attempt' = a /\ Report(a, rows, incognito)
  BY DEF Render
<1>2. a \in Attempt /\ (a.phase # "None" => a.id \in Id)
  BY AgentRouteAssumption DEF IInv, Permission, PromiseType, Follows, Id
<1>3. RouteType'
  BY <1>1, <1>2, ReportTypes DEF IInv, RouteType
<1>4. /\ attempt.id \in 1..begun /\ attempt.id \in Id /\ attempt.id \notin stopped
      /\ attempt.session \in Session /\ attempt.session = chosen[attempt.id]
      /\ attempt.via \in Reachable /\ attempt.doc \in Id /\ attempt.row \in 0..MaxAttempts
  BY AgentRouteAssumption DEF IInv, Permission, PromiseType, Pending, Id
<1>5. PromiseType'
  BY <1>4 DEF IInv, PromiseType, Submit
<1>6. Permission'
  BY <1>1, <1>4 DEF IInv, Permission, Submit, Follows, Pending
<1>7. FlightOf(attempt) \in Flight
  BY <1>4 DEF FlightOf, Flight, IInv, RouteType, Attempt
<1>8. FlightOf(attempt).id = attempt.id /\ FlightOf(attempt).session = attempt.session
  BY DEF FlightOf
<1>9. DeliveryType'
  BY <1>4, <1>7, <1>8 DEF IInv, DeliveryType, Submit
<1> QED BY <1>3, <1>5, <1>6, <1>9

\* A new attempt has a fresh identity and the session selected now.
LEMMA BegunStays ==
    ASSUME IInv, MayStart, begun < MaxAttempts, Promise(begun + 1), Render(attempt'),
           UNCHANGED <<stopped, handed, delivery>>,
           attempt' \in Attempt, attempt'.id = begun + 1, attempt'.session = selected,
           attempt'.via \in Reachable, attempt'.row \in 0..MaxAttempts,
           attempt'.phase = "Grace" => attempt'.disarmed = NoReason /\ attempt'.doc \in Id
    PROVE  RouteType' /\ Permission' /\ PromiseType' /\ DeliveryType'
<1>1. begun + 1 \in Id /\ begun \in Nat /\ MaxAttempts \in Nat /\ selected \in Session
  BY AgentRouteAssumption DEF IInv, PromiseType, ChoiceType, MayStart, Id
<1>2. RouteType'
  BY <1>1, ReportTypes DEF IInv, RouteType, Render
<1>3. /\ begun' = begun + 1 /\ chosen' = [chosen EXCEPT ![begun + 1] = selected]
      /\ stopped' = stopped /\ handed' = handed
  BY DEF Promise
<1>4. /\ chosen'[begun + 1] = selected /\ chosen' \in [Id -> Session \cup {NoSession}]
      /\ \A i \in 1..begun : chosen'[i] = chosen[i]
  BY <1>1, <1>3 DEF IInv, PromiseType, Id
<1>5. PromiseType'
  BY <1>1, <1>3, <1>4 DEF IInv, PromiseType
<1>6. begun + 1 \notin stopped /\ begun + 1 \notin handed
  BY <1>1 DEF IInv, PromiseType
<1>7. Permission'
  BY <1>1, <1>3, <1>4, <1>6 DEF IInv, Permission
<1>8. DeliveryType'
  BY <1>1, <1>3, <1>4 DEF IInv, DeliveryType, delivery
<1> QED BY <1>2, <1>5, <1>7, <1>8

-----------------------------------------------------------------------------
(* Every step keeps the invariant                                           *)

LEMMA ChoosingStays ==
    ASSUME IInv, \/ \E s \in Session \cup {NoSession} : Choose(s)
                 \/ \E s \in Session : AskSwitch(s)
                 \/ Clear
    PROVE  IInv'
<1> USE AgentRouteAssumption
<1> DEFINE d == Disarm(attempt, "RecipientChanged")
<1>1. Follows(attempt, d) /\ Halted(d) /\ d \in Attempt
  BY DisarmHalts DEF IInv, RouteType, DraftReason, Follows
<1>2. Outdated \subseteq Switch /\ OutdatedPoll \in {"idle", "fresh", "stale"}
  BY DEF IInv, ChoiceType, FindingType, Outdated, OutdatedPoll, Switch
<1> HIDE DEF d
<1>3. CASE \E s \in Session \cup {NoSession} : Choose(s)
  <2>1. PICK s \in Session \cup {NoSession} : Choose(s)
    BY <1>3
  <2>2. Render(d) /\ Stopping /\ UNCHANGED <<begun, chosen, handed>>
    BY <2>1 DEF Choose, d
  <2>3. RouteType' /\ Permission' /\ PromiseType'
    BY <1>1, <2>2, RenderedStays
  <2>4. ChoiceType' /\ FindingType'
    BY <1>2, <2>1 DEF Choose, Choice, IInv, ChoiceType, FindingType
  <2>5. CaptureType' /\ DeliveryType' /\ AmbientType'
    BY <2>1, GroupsStay DEF Choose
  <2> QED BY <2>3, <2>4, <2>5 DEF IInv
<1>4. CASE \E s \in Session : AskSwitch(s)
  <2>1. PICK s \in Session : AskSwitch(s)
    BY <1>4
  <2>2. Render(d) /\ Stopping /\ UNCHANGED <<begun, chosen, handed>>
    BY <2>1 DEF AskSwitch, d
  <2>3. RouteType' /\ Permission' /\ PromiseType'
    BY <1>1, <2>2, RenderedStays
  <2>4. [session |-> s, order |-> asked + 1, stale |-> FALSE] \in Switch
    BY <2>1 DEF AskSwitch, Switch, IInv, ChoiceType
  <2>5. asked' \in 0..MaxChoices
    BY <2>1 DEF AskSwitch, IInv, ChoiceType
  <2>6. ChoiceType'
    BY <2>1, <2>4, <2>5 DEF AskSwitch, IInv, ChoiceType
  <2>7. FindingType' /\ CaptureType' /\ DeliveryType' /\ AmbientType'
    BY <2>1, GroupsStay DEF AskSwitch
  <2> QED BY <2>3, <2>6, <2>7 DEF IInv
<1>5. CASE Clear
  <2>1. Render(Observe(d, targets)) /\ Stopping /\ UNCHANGED <<begun, chosen, handed>>
    BY <1>5 DEF Clear, d
  <2>2. Follows(attempt, Observe(d, targets)) /\ Halted(Observe(d, targets))
    BY <1>1, ObserveFollows, FollowsTransitive DEF IInv, FindingType
  <2>3. RouteType' /\ Permission' /\ PromiseType'
    BY <2>1, <2>2, RenderedStays
  <2>4. ChoiceType' /\ FindingType'
    BY <1>2, <1>5 DEF Clear, Choice, IInv, ChoiceType, FindingType
  <2>5. CaptureType' /\ DeliveryType' /\ AmbientType'
    BY <1>5, GroupsStay DEF Clear
  <2> QED BY <2>3, <2>4, <2>5 DEF IInv
<1> QED BY <1>3, <1>4, <1>5

LEMMA SettingsStay ==
    ASSUME IInv, \/ \E on \in BOOLEAN : SaveRouting(on)
                 \/ SaveOther \/ Refresh \/ SwitchPrivacy
    PROVE  IInv'
<1> DEFINE d == InterruptedAttempt(attempt, cap)
<1>1. Follows(attempt, d) /\ Halted(d)
  BY InterruptHalts DEF IInv, RouteType
<1>2. Outdated \subseteq Switch /\ OutdatedPoll \in {"idle", "fresh", "stale"}
  BY DEF IInv, ChoiceType, FindingType, Outdated, OutdatedPoll, Switch
<1>3. InterruptedCapture(attempt, cap) \in Captures
  BY CaptureOperators DEF IInv, CaptureType
<1> HIDE DEF d
<1>4. CASE \E on \in BOOLEAN : SaveRouting(on)
  <2>1. PICK on \in BOOLEAN : SaveRouting(on)
    BY <1>4
  <2>2. Render(d) /\ Stopping /\ UNCHANGED <<begun, chosen, handed>>
    BY <2>1 DEF SaveRouting, d
  <2>3. RouteType' /\ Permission' /\ PromiseType'
    BY <1>1, <2>2, RenderedStays
  <2>4. ChoiceType' /\ FindingType'
    BY <1>2, <2>1 DEF SaveRouting, IInv, ChoiceType, FindingType
  <2>5. CaptureType'
    BY <1>3, <2>1 DEF SaveRouting, IInv, CaptureType
  <2>6. DeliveryType' /\ AmbientType'
    BY <2>1, GroupsStay DEF SaveRouting
  <2> QED BY <2>3, <2>4, <2>5, <2>6 DEF IInv
<1>5. CASE SaveOther
  <2>1. Follows(attempt, attempt)
    BY FollowsReflexive DEF IInv, RouteType
  <2>2. Render(attempt) /\ UNCHANGED <<begun, chosen, handed, stopped>>
    BY <1>5 DEF SaveOther, promises
  <2>3. RouteType' /\ Permission' /\ PromiseType'
    BY <2>1, <2>2, RenderedStays
  <2>4. ChoiceType' /\ FindingType'
    BY <1>2, <1>5 DEF SaveOther, IInv, ChoiceType, FindingType
  <2>5. CaptureType' /\ DeliveryType' /\ AmbientType'
    BY <1>5, GroupsStay DEF SaveOther, promises
  <2> QED BY <2>3, <2>4, <2>5 DEF IInv
<1>6. CASE Refresh
  <2>1. RouteType' /\ Permission' /\ PromiseType'
    BY <1>6, RouteStays DEF Refresh, route, IInv, RouteType
  <2>2. FindingType'
    BY <1>6 DEF Refresh, IInv, FindingType
  <2>3. ChoiceType' /\ CaptureType' /\ DeliveryType' /\ AmbientType'
    BY <1>6, GroupsStay DEF Refresh, promises
  <2> QED BY <2>1, <2>2, <2>3 DEF IInv
<1>7. CASE SwitchPrivacy
  <2>1. attempt' = d /\ Report(attempt', rows, incognito')
    BY <1>7 DEF SwitchPrivacy, d
  <2>2. Permission' /\ PromiseType'
    BY <1>1, <1>7, <2>1, PermissionStays DEF SwitchPrivacy
  <2>3. attempt' \in Attempt /\ (attempt'.phase # "None" => attempt'.id \in Id)
    BY <1>1, <2>1, <2>2, AgentRouteAssumption DEF Follows, Permission, PromiseType, Id
  <2>4. RouteType'
    BY <2>1, <2>3, ReportTypes DEF IInv, RouteType
  <2>5. CaptureType'
    BY <1>7 DEF SwitchPrivacy, IInv, CaptureType
  <2>6. AmbientType'
    <3>1. gap' = gap /\ closed' = closed /\ incognito' \in BOOLEAN
      BY <1>7 DEF SwitchPrivacy
    <3> QED BY <3>1 DEF IInv, AmbientType
  <2>7. ChoiceType' /\ FindingType' /\ DeliveryType'
    BY <1>7, GroupsStay DEF SwitchPrivacy
  <2> QED BY <2>2, <2>4, <2>5, <2>6, <2>7 DEF IInv
<1> QED BY <1>4, <1>5, <1>6, <1>7

LEMMA FinderStays ==
    ASSUME IInv, Finder
    PROVE  IInv'
<1> USE AgentRouteAssumption
<1>1. Found \subseteq [Session -> Sighting]
  BY DEF Found, Sighting
<1>2. CASE \E w \in switches, found \in Found : FinishSwitch(w, found)
  <2>1. PICK w \in switches, found \in Found : FinishSwitch(w, found)
    BY <1>2
  <2> DEFINE rest == switches \ {w}
             d == Disarm(attempt, "RecipientChanged")
  <2>2. w \in Switch /\ rest \subseteq Switch /\ {[v EXCEPT !.stale = TRUE] : v \in rest} \subseteq Switch
    BY DEF IInv, ChoiceType, Switch
  <2>3. CASE w.stale \/ ~CanReceive(found[w.session])
    <3>1. switches' = rest /\ UNCHANGED <<route, selected, enabled, asked, applied, finding,
                                          capture, delivery, promises, ambient>>
      BY <2>1, <2>3 DEF FinishSwitch
    <3>2. RouteType' /\ Permission' /\ PromiseType'
      BY <3>1, RouteStays DEF route, IInv, RouteType
    <3>3. ChoiceType'
      BY <2>2, <3>1 DEF IInv, ChoiceType
    <3>4. FindingType' /\ CaptureType' /\ DeliveryType' /\ AmbientType'
      BY <3>1, GroupsStay DEF promises
    <3> QED BY <3>2, <3>3, <3>4 DEF IInv
  <2>4. CASE ~(w.stale \/ ~CanReceive(found[w.session]))
    <3>1. /\ Stopping /\ UpdateTargets(d, found)
          /\ selected' = w.session /\ enabled' = TRUE /\ applied' = w.order
          /\ switches' = {[v EXCEPT !.stale = TRUE] : v \in rest}
          /\ poll' = OutdatedPoll
          /\ UNCHANGED <<asked, capture, delivery, begun, chosen, handed, ambient>>
      BY <2>1, <2>4 DEF FinishSwitch
    <3>2. Follows(attempt, d) /\ Halted(d) /\ d \in Attempt
      BY DisarmHalts DEF IInv, RouteType, DraftReason, Follows
    <3> HIDE DEF d
    <3>3. Follows(attempt, Observe(d, found)) /\ Halted(Observe(d, found))
      BY <1>1, <3>2, ObserveFollows, FollowsTransitive
    <3>4. RouteType' /\ Permission' /\ PromiseType'
      BY <3>1, <3>3, RenderedStays DEF UpdateTargets
    <3>5. w.session \in Session /\ w.order \in 0..MaxChoices
      BY <2>2 DEF Switch
    <3>6. ChoiceType'
      BY <2>2, <3>1, <3>5 DEF IInv, ChoiceType
    <3>7. FindingType'
      BY <1>1, <3>1 DEF IInv, FindingType, UpdateTargets, OutdatedPoll
    <3>8. CaptureType' /\ DeliveryType' /\ AmbientType'
      BY <3>1, GroupsStay
    <3> QED BY <3>4, <3>6, <3>7, <3>8 DEF IInv
  <2> QED BY <2>3, <2>4
<1>3. CASE DropFound
  <2>1. RouteType' /\ Permission' /\ PromiseType'
    BY <1>3, RouteStays DEF DropFound, route, IInv, RouteType
  <2>2. FindingType'
    BY <1>3 DEF DropFound, IInv, FindingType
  <2>3. ChoiceType' /\ CaptureType' /\ DeliveryType' /\ AmbientType'
    BY <1>3, GroupsStay DEF DropFound, promises
  <2> QED BY <2>1, <2>2, <2>3 DEF IInv
<1>4. CASE \E found \in Found : ApplyFound(found)
  <2>1. PICK found \in Found : ApplyFound(found)
    BY <1>4
  <2>2. /\ Follows(attempt, Observe(attempt, found))
        /\ (attempt.phase \in Pending /\ ~CanReceive(found[attempt.session]))
              => Halted(Observe(attempt, found))
    BY <1>1, ObserveFollows DEF IInv, RouteType
  <2>3. /\ Render(Observe(attempt, found)) /\ UNCHANGED <<begun, chosen, handed>>
        /\ stopped' = stopped \/ (Stopping /\ Halted(Observe(attempt, found)))
    BY <2>1, <2>2 DEF ApplyFound, UpdateTargets
  <2>4. RouteType' /\ Permission' /\ PromiseType'
    BY <2>2, <2>3, RenderedStays
  <2>5. FindingType'
    BY <1>1, <2>1 DEF ApplyFound, UpdateTargets, FindingType
  <2>6. ChoiceType' /\ CaptureType' /\ DeliveryType' /\ AmbientType'
    BY <2>1, GroupsStay DEF ApplyFound
  <2> QED BY <2>4, <2>5, <2>6 DEF IInv
<1> QED BY <1>2, <1>3, <1>4 DEF Finder

\* A handler that only stops the pending message, and touches at most the
\* capture and the wheel.
LEMMA StoppingStays ==
    ASSUME IInv, NEW a, Follows(attempt, a), Render(a),
           stopped' = stopped \/ (Stopping /\ Halted(a)),
           cap' \in Captures, wheel' \in BOOLEAN, UNCHANGED editor,
           UNCHANGED <<choice, finding, delivery, begun, chosen, handed, ambient>>
    PROVE  IInv'
<1>1. RouteType' /\ Permission' /\ PromiseType'
  BY RenderedStays
<1>2. ChoiceType' /\ FindingType' /\ DeliveryType' /\ AmbientType'
  BY GroupsStay
<1>3. CaptureType'
  BY DEF IInv, CaptureType
<1> QED BY <1>1, <1>2, <1>3 DEF IInv

LEMMA KeysStay ==
    ASSUME IInv, \/ AgentKeyStops \/ AgentKeyCancels \/ RecordKeyStops
                 \/ Escape \/ Cancel \/ KeepDraft \/ Interrupt
    PROVE  IInv'
<1>1. attempt \in Attempt /\ cap \in Captures /\ wheel \in BOOLEAN
  BY DEF IInv, RouteType, CaptureType
<1>2. {"Cancelled", "Kept"} \subseteq DraftReason
  BY DEF DraftReason
<1>3. /\ StopCapture(cap) \in Captures /\ CancelCapture(cap) \in Captures
      /\ \A a : ReleasedCapture(a, cap) \in Captures /\ InterruptedCapture(a, cap) \in Captures
  BY <1>1, CaptureOperators
<1>4. CASE AgentKeyStops
  <2>1. Follows(attempt, ReleasedAttempt(attempt, cap))
    BY <1>1, ReleasedFollows
  <2> QED BY <1>1, <1>3, <1>4, <2>1, StoppingStays DEF AgentKeyStops, promises
<1>5. CASE AgentKeyCancels
  <2>1. /\ Follows(attempt, Disarm(attempt, "Cancelled"))
        /\ Halted(Disarm(attempt, "Cancelled"))
    BY <1>1, <1>2, DisarmHalts
  <2> QED BY <1>1, <1>3, <1>5, <2>1, StoppingStays DEF AgentKeyCancels
<1>6. CASE RecordKeyStops
  <2> DEFINE a == IF cap.phase = "Recording" /\ cap.agent # NoId THEN Release(attempt) ELSE attempt
  <2>1. Follows(attempt, a)
    BY <1>1, ReleaseFollows, FollowsReflexive
  <2>2. Render(a) /\ cap' = StopCapture(cap)
    BY <1>6 DEF RecordKeyStops
  <2>3. UNCHANGED <<choice, finding, wheel, editor, delivery, promises, ambient>>
    BY <1>6 DEF RecordKeyStops
  <2> HIDE DEF a
  <2> QED BY <1>1, <1>3, <2>1, <2>2, <2>3, StoppingStays DEF promises
<1>7. CASE Cancel
  <2>1. /\ Follows(attempt, Disarm(attempt, "Cancelled"))
        /\ Halted(Disarm(attempt, "Cancelled"))
    BY <1>1, <1>2, DisarmHalts
  <2> QED BY <1>1, <1>3, <1>7, <2>1, StoppingStays DEF Cancel
<1>8. CASE KeepDraft
  <2> DEFINE kept == Disarm(attempt, "Kept")
  <2>1. Follows(attempt, kept) /\ Halted(kept) /\ kept \in Attempt
    BY <1>1, <1>2, DisarmHalts DEF Follows
  <2>2. /\ Stopping /\ Render(ReleasedAttempt(kept, cap)) /\ cap' = ReleasedCapture(kept, cap)
        /\ UNCHANGED <<choice, finding, wheel, editor, delivery, begun, chosen, handed, ambient>>
    BY <1>8 DEF KeepDraft
  <2> HIDE DEF kept
  <2>3. Follows(attempt, ReleasedAttempt(kept, cap)) /\ Halted(ReleasedAttempt(kept, cap))
    BY <2>1, ReleasedFollows, FollowsTransitive
  <2> QED BY <1>1, <1>3, <2>2, <2>3, StoppingStays
<1>9. CASE Interrupt
  <2>1. /\ Follows(attempt, InterruptedAttempt(attempt, cap))
        /\ Halted(InterruptedAttempt(attempt, cap))
    BY <1>1, InterruptHalts
  <2> QED BY <1>1, <1>3, <1>9, <2>1, StoppingStays DEF Interrupt
<1>10. CASE Escape
  <2>1. RouteType' /\ Permission' /\ PromiseType'
    BY <1>10, RouteStays DEF Escape, route, IInv, RouteType
  <2>2. CaptureType'
    BY <1>3, <1>10 DEF Escape, IInv, CaptureType
  <2>3. ChoiceType' /\ FindingType' /\ DeliveryType' /\ AmbientType'
    BY <1>10, GroupsStay DEF Escape, promises
  <2> QED BY <2>1, <2>2, <2>3 DEF IInv
<1> QED BY <1>4, <1>5, <1>6, <1>7, <1>8, <1>9, <1>10

LEMMA SendingStays ==
    ASSUME IInv, AgentKeySends
    PROVE  IInv'
<1>1. attempt.phase = "Grace" /\ Submit(attempt) /\ Render(StartSubmission(attempt))
  BY DEF AgentKeySends
<1>2. UNCHANGED <<choice, finding, capture, watches, fate, begun, chosen, stopped, ambient>>
  BY DEF AgentKeySends
<1>3. Follows(attempt, StartSubmission(attempt)) /\ StartSubmission(attempt).phase \notin Pending
  BY <1>1, SubmissionFollows DEF IInv, RouteType, Pending
<1>4. RouteType' /\ Permission' /\ PromiseType' /\ DeliveryType'
  BY <1>1, <1>2, <1>3, SubmittedStays
<1>5. ChoiceType' /\ FindingType' /\ CaptureType' /\ AmbientType'
  BY <1>2, GroupsStay
<1> QED BY <1>4, <1>5 DEF IInv

LEMMA WheelStays ==
    ASSUME IInv, OpenWheel \/ HideWheel
    PROVE  IInv'
<1> DEFINE d == Disarm(attempt, "Kept")
<1>1. Follows(attempt, d) /\ Halted(d)
  BY DisarmHalts DEF IInv, RouteType, DraftReason
<1>2. Outdated \subseteq Switch /\ OutdatedPoll \in {"idle", "fresh", "stale"}
  BY DEF IInv, ChoiceType, FindingType, Outdated, OutdatedPoll, Switch
<1> HIDE DEF d
<1>3. CASE OpenWheel
  <2>1. Render(d) /\ Stopping /\ UNCHANGED <<begun, chosen, handed>>
    BY <1>3 DEF OpenWheel, d
  <2>2. RouteType' /\ Permission' /\ PromiseType'
    BY <1>1, <2>1, RenderedStays
  <2>3. asked' \in 0..MaxChoices /\ applied' \in 0..MaxChoices
    BY <1>3, AgentRouteAssumption DEF OpenWheel, IInv, ChoiceType
  <2>4. selected' \in Session \cup {NoSession} /\ switches' \subseteq Switch /\ enabled' = enabled
    BY <1>2, <1>3 DEF OpenWheel, IInv, ChoiceType
  <2>5. ChoiceType'
    BY <2>3, <2>4 DEF IInv, ChoiceType
  <2>6. FindingType'
    BY <1>2, <1>3 DEF OpenWheel, IInv, FindingType
  <2>7. CaptureType'
    BY <1>3 DEF OpenWheel, IInv, CaptureType
  <2>8. DeliveryType' /\ AmbientType'
    BY <1>3, GroupsStay DEF OpenWheel
  <2> QED BY <2>2, <2>5, <2>6, <2>7, <2>8 DEF IInv
<1>4. CASE HideWheel
  <2>1. RouteType' /\ Permission' /\ PromiseType'
    BY <1>4, RouteStays DEF HideWheel, route, IInv, RouteType
  <2>2. CaptureType'
    BY <1>4 DEF HideWheel, IInv, CaptureType
  <2>3. ChoiceType' /\ FindingType' /\ DeliveryType' /\ AmbientType'
    BY <1>4, GroupsStay DEF HideWheel, promises
  <2> QED BY <2>1, <2>2, <2>3 DEF IInv
<1> QED BY <1>3, <1>4

LEMMA BeginningStays ==
    ASSUME IInv, \/ \E started \in BOOLEAN : AgentPress(started) \/ StartOther(started)
                 \/ \E text \in Spoken : SendDraft(text)
    PROVE  IInv'
<1> DEFINE id == begun + 1
           new == Begun(id, selected, SelectedSighting)
<1>1. SelectedSighting \in Sighting
  BY DEF SelectedSighting, IInv, ChoiceType, FindingType, Sighting
<1>2. /\ new \in Attempt /\ new.phase = "Recording" /\ new.id = id /\ new.session = selected
      /\ new.via = SelectedSighting /\ new.row = 0
  <2>1. id \in Nat /\ selected \in Session \cup {NoSession}
    BY AgentRouteAssumption DEF IInv, PromiseType, ChoiceType
  <2> HIDE DEF id
  <2> QED BY <1>1, <2>1, BegunAttempt
<1>3. MayStart => SelectedSighting \in Reachable
  BY DEF MayStart, MayBegin, CanReceive
<1>4. begun < MaxAttempts => id \in 0..MaxAttempts
  BY AgentRouteAssumption DEF IInv, PromiseType
<1> HIDE DEF new
<1>5. CASE \E started \in BOOLEAN : AgentPress(started)
  <2>1. PICK started \in BOOLEAN : AgentPress(started)
    BY <1>5
  <2> DEFINE a == IF started THEN new ELSE AbandonCapture(new, "Interrupted")
  <2>2. /\ MayStart /\ begun < MaxAttempts /\ Promise(begun + 1) /\ wheel' = FALSE
        /\ UNCHANGED <<choice, finding, editor, delivery, stopped, handed, ambient>>
    BY <2>1 DEF AgentPress
  <2>3. /\ Render(a)
        /\ cap' = IF started THEN [phase |-> "Preparing", agent |-> id] ELSE cap
    BY <2>1 DEF AgentPress, new
  <2>4. Follows(new, a) /\ a.phase # "Grace"
    BY <1>2, AbandonHalts, FollowsReflexive DEF DraftReason, Pending, Halted
  <2> HIDE DEF a
  <2>5. /\ attempt' = a /\ a \in Attempt /\ a.id = begun + 1 /\ a.session = selected
        /\ a.via \in Reachable /\ a.row \in 0..MaxAttempts
    BY <1>2, <1>3, <2>2, <2>3, <2>4, AgentRouteAssumption DEF Follows, Render
  <2>6. RouteType' /\ Permission' /\ PromiseType' /\ DeliveryType'
    BY <2>2, <2>3, <2>4, <2>5, BegunStays
  <2>7. CaptureType'
    BY <1>4, <2>2, <2>3 DEF IInv, CaptureType, Captures, CapturePhase
  <2>8. ChoiceType' /\ FindingType' /\ AmbientType'
    BY <2>2, GroupsStay
  <2> QED BY <2>6, <2>7, <2>8 DEF IInv
<1>6. CASE \E started \in BOOLEAN : StartOther(started)
  <2>1. PICK started \in BOOLEAN : StartOther(started)
    BY <1>6
  <2> DEFINE d == Disarm(attempt, "Interrupted")
  <2>2. /\ Stopping /\ Report(d, rows, incognito) /\ wheel' = FALSE
        /\ attempt' = IF attempt.phase = "Submitting" THEN attempt ELSE NoAttempt
        /\ cap' = IF started THEN [phase |-> "Preparing", agent |-> NoId] ELSE cap
        /\ UNCHANGED <<choice, finding, editor, delivery, begun, chosen, handed, ambient>>
    BY <2>1 DEF StartOther
  <2>3. d \in Attempt /\ (d.phase # "None" => d.id \in Id)
    BY DisarmHalts, AgentRouteAssumption
       DEF IInv, RouteType, Permission, PromiseType, DraftReason, Follows, Id
  <2> HIDE DEF d
  <2>4. RouteType'
    BY <2>2, <2>3, ReportTypes, NoAttemptIsAttempt DEF IInv, RouteType
  <2>5. PromiseType' /\ stopped' \cap handed' = {}
    BY <2>2 DEF IInv, PromiseType, Permission, Stopping, Pending
  <2>6. Permission'
    <3>1. CASE attempt.phase = "Submitting"
      BY <2>2, <2>5, <3>1 DEF IInv, Permission, Pending
    <3>2. CASE attempt.phase # "Submitting"
      <4>1. attempt' = NoAttempt /\ begun' \in Nat
        BY <2>2, <3>2, AgentRouteAssumption DEF IInv, PromiseType
      <4> QED BY <2>5, <4>1, NoAttemptIsAttempt, AgentRouteAssumption DEF Permission, Pending
    <3> QED BY <3>1, <3>2
  <2>7. CaptureType'
    <3>1. [phase |-> "Preparing", agent |-> NoId] \in Captures
      BY AgentRouteAssumption DEF Captures, CapturePhase, NoId
    <3> QED BY <2>2, <3>1 DEF IInv, CaptureType
  <2>8. ChoiceType' /\ FindingType' /\ DeliveryType' /\ AmbientType'
    BY <2>2, GroupsStay
  <2> QED BY <2>4, <2>5, <2>6, <2>7, <2>8 DEF IInv
<1>7. CASE \E text \in Spoken : SendDraft(text)
  <2>1. PICK text \in Spoken : SendDraft(text)
    BY <1>7
  <2> DEFINE free == Release(new)
             a == Recognized(free, id, text, editor.doc, attempt.row)
  <2>2. /\ MayStart /\ begun < MaxAttempts /\ Promise(begun + 1) /\ wheel' = FALSE
        /\ UNCHANGED <<choice, finding, cap, editor, delivery, stopped, handed, ambient>>
        /\ Render(a) /\ editor.mapped
    BY <2>1 DEF SendDraft, new
  <2>3. Follows(new, free) /\ free.phase = "Finalizing"
    BY <1>2, ReleaseFollows
  <2>4. Accepts(free, id) /\ free \in Attempt
    BY <1>2, <2>3 DEF Accepts, Follows
  <2>5. text \in Text /\ editor.doc \in Id /\ editor.doc \in Nat
        /\ attempt.row \in 0..MaxAttempts /\ attempt.row \in Nat
    BY <2>2, AgentRouteAssumption DEF IInv, CaptureType, Permission, Id, NoId
  <2> HIDE DEF free
  <2>6. /\ a \in Attempt /\ a.id = free.id /\ a.session = free.session /\ a.via = free.via
        /\ a.doc = editor.doc /\ a.row = attempt.row /\ a.disarmed = free.disarmed
        /\ a.phase = "Grace" => free.disarmed = NoReason
    BY <2>4, <2>5, RecognizedAttempt
  <2> HIDE DEF a
  <2>7. /\ attempt' = a /\ a.id = begun + 1 /\ a.session = selected /\ a.via \in Reachable
    BY <1>2, <1>3, <2>2, <2>3, <2>6 DEF Follows, Render
  <2>8. RouteType' /\ Permission' /\ PromiseType' /\ DeliveryType'
    BY <2>2, <2>5, <2>6, <2>7, BegunStays
  <2>9. CaptureType'
    BY <2>2 DEF IInv, CaptureType
  <2>10. ChoiceType' /\ FindingType' /\ AmbientType'
    BY <2>2, GroupsStay
  <2> QED BY <2>8, <2>9, <2>10 DEF IInv
<1> QED BY <1>5, <1>6, <1>7

LEMMA EditorStays ==
    ASSUME IInv, Edit \/ LeaveEditor \/ ReturnToEditor
    PROVE  IInv'
<1> DEFINE Stop(reason) == Disarm(attempt, reason)
<1>1. \A reason \in DraftReason : Follows(attempt, Stop(reason)) /\ Halted(Stop(reason))
  BY DisarmHalts DEF IInv, RouteType
<1>2. {"Edited", "Kept"} \subseteq DraftReason
  BY DEF DraftReason
<1>3. CASE Edit
  <2>1. Render(Stop("Edited")) /\ Stopping
    BY <1>3 DEF Edit
  <2>2. UNCHANGED <<choice, finding, capture, delivery, begun, chosen, handed, ambient>>
    BY <1>3 DEF Edit
  <2> HIDE DEF Stop
  <2>3. RouteType' /\ Permission' /\ PromiseType'
    BY <1>1, <1>2, <2>1, <2>2, RenderedStays
  <2>4. ChoiceType' /\ FindingType' /\ CaptureType' /\ DeliveryType' /\ AmbientType'
    BY <2>2, GroupsStay
  <2> QED BY <2>3, <2>4 DEF IInv
<1>4. CASE LeaveEditor
  <2>1. UNCHANGED <<choice, finding, cap, wheel, delivery, begun, chosen, handed, ambient>>
    BY <1>4 DEF LeaveEditor
  <2>2. RouteType' /\ Permission' /\ PromiseType'
    <3>1. CASE attempt.doc = editor.doc
      <4>1. Stopping /\ Render(Stop("Kept"))
        BY <1>4, <3>1 DEF LeaveEditor
      <4> HIDE DEF Stop
      <4> QED BY <1>1, <1>2, <2>1, <4>1, RenderedStays
    <3>2. CASE attempt.doc # editor.doc
      BY <1>4, <2>1, <3>2, RouteStays DEF LeaveEditor, route, promises, IInv, RouteType
    <3> QED BY <3>1, <3>2
  <2>3. CaptureType'
    <3>1. editor' = [editor EXCEPT !.mapped = FALSE]
      BY <1>4 DEF LeaveEditor
    <3>2. editor' \in [doc : 0..MaxAttempts, mapped : BOOLEAN] /\ ~editor'.mapped
      BY <3>1 DEF IInv, CaptureType
    <3> QED BY <2>1, <3>2 DEF IInv, CaptureType
  <2>4. ChoiceType' /\ FindingType' /\ DeliveryType' /\ AmbientType'
    BY <2>1, GroupsStay
  <2> QED BY <2>2, <2>3, <2>4 DEF IInv
<1>5. CASE ReturnToEditor
  <2>1. RouteType' /\ Permission' /\ PromiseType'
    BY <1>5, RouteStays DEF ReturnToEditor, route, IInv, RouteType
  <2>2. CaptureType'
    <3>1. editor' = [editor EXCEPT !.mapped = TRUE] /\ editor.doc # NoId
      BY <1>5 DEF ReturnToEditor
    <3>2. editor' \in [doc : 0..MaxAttempts, mapped : BOOLEAN] /\ editor'.doc # NoId
      BY <3>1 DEF IInv, CaptureType
    <3> QED BY <1>5, <3>2 DEF ReturnToEditor, IInv, CaptureType
  <2>3. ChoiceType' /\ FindingType' /\ DeliveryType' /\ AmbientType'
    BY <1>5, GroupsStay DEF ReturnToEditor, promises
  <2> QED BY <2>1, <2>2, <2>3 DEF IInv
<1> QED BY <1>3, <1>4, <1>5

LEMMA RecorderStays ==
    ASSUME IInv, Recorder
    PROVE  IInv'
<1>1. /\ attempt \in Attempt /\ cap \in Captures /\ NoCapture \in Captures /\ wheel \in BOOLEAN
      /\ attempt.row \in 0..MaxAttempts
  BY CaptureOperators DEF IInv, RouteType, CaptureType, Permission
<1>2. {"Interrupted", "Cancelled"} \subseteq DraftReason
  BY DEF DraftReason
<1>3. CASE Prepared
  <2>1. RouteType' /\ Permission' /\ PromiseType'
    BY <1>3, RouteStays DEF Prepared, route, IInv, RouteType
  <2>2. cap' \in Captures
    BY <1>1, <1>3 DEF Prepared, Captures, CapturePhase
  <2>3. CaptureType'
    BY <1>3, <2>2 DEF Prepared, IInv, CaptureType
  <2>4. ChoiceType' /\ FindingType' /\ DeliveryType' /\ AmbientType'
    BY <1>3, GroupsStay DEF Prepared, promises
  <2> QED BY <2>1, <2>3, <2>4 DEF IInv
<1>4. ASSUME NEW reason \in DraftReason, CaptureEnds(reason) PROVE IInv'
  <2> DEFINE a == IF cap.agent # NoId THEN AbandonCapture(attempt, reason) ELSE attempt
  <2>1. Follows(attempt, a)
    BY <1>1, AbandonHalts, FollowsReflexive
  <2>2. Render(a) /\ cap' = NoCapture
    BY <1>4 DEF CaptureEnds
  <2>3. UNCHANGED <<choice, finding, wheel, editor, delivery, promises, ambient>>
    BY <1>4 DEF CaptureEnds
  <2> HIDE DEF a
  <2> QED BY <1>1, <2>1, <2>2, <2>3, StoppingStays DEF promises
<1>5. ASSUME NEW text \in Spoken, NEW saved \in BOOLEAN, NEW shown \in BOOLEAN,
             AgentCompleted(text, saved, shown)
      PROVE  IInv'
  <2> DEFINE id   == cap.agent
             row  == IF saved THEN id ELSE NoId
             seen == IF shown THEN attempt ELSE Disarm(attempt, "Interrupted")
             read == Recognized(seen, id, text, id, row)
             kept == IF shown THEN read ELSE Disarm(read, "Interrupted")
             base == IF saved
                     THEN [rows EXCEPT ![id] = IF text = "empty" THEN "no-speech" ELSE "ready"]
                     ELSE rows
  <2>1. /\ id # NoId /\ cap' = NoCapture
        /\ IF Accepts(attempt, id)
           THEN /\ attempt' = kept /\ Report(kept, base, incognito)
                /\ editor' = [doc |-> IF shown THEN id ELSE NoId, mapped |-> shown]
           ELSE attempt' = attempt /\ rows' = base /\ UNCHANGED <<reported, editor>>
        /\ UNCHANGED <<choice, finding, wheel, delivery, promises, ambient>>
    BY <1>5 DEF AgentCompleted
  <2>2. id \in Id /\ id \in Nat /\ row \in 0..MaxAttempts /\ row \in Nat /\ text \in Text
    BY <1>1, <2>1, AgentRouteAssumption DEF Captures, Id, NoId
  <2>3. base \in [Id -> Word]
    BY DEF IInv, RouteType, Word
  <2> HIDE DEF row, base, id
  <2>4. CASE Accepts(attempt, id)
    <3>1. seen \in Attempt /\ Follows(attempt, seen) /\ Accepts(seen, id)
      <4>1. CASE shown
        BY <1>1, <2>4, <4>1, FollowsReflexive
      <4>2. CASE ~shown
        <5>1. seen = [attempt EXCEPT !.disarmed = "Interrupted"]
          BY <2>4, <4>2 DEF Disarm, Accepts
        <5>2. Follows(attempt, seen) /\ seen \in Attempt
          BY <1>1, <1>2, <4>2, DisarmHalts DEF Follows
        <5>3. seen.phase = attempt.phase /\ seen.id = attempt.id
          BY <1>1, <5>1 DEF Attempt
        <5> QED BY <2>4, <5>2, <5>3 DEF Accepts
      <4> QED BY <4>1, <4>2
    <3> HIDE DEF seen
    <3>2. /\ read \in Attempt /\ read.id = seen.id /\ read.session = seen.session
          /\ read.via = seen.via /\ read.doc = id /\ read.row = row
          /\ read.phase \in {"Grace", "Draft"}
          /\ read.phase = "Grace" => read.disarmed = NoReason /\ seen.disarmed = NoReason
      BY <2>2, <3>1, RecognizedAttempt
    <3> HIDE DEF read
    <3>3. Follows(read, kept) /\ (kept.phase \in Pending => kept = read /\ kept.phase = "Grace")
      <4>1. CASE shown
        BY <3>2, <4>1, FollowsReflexive DEF Pending
      <4>2. CASE ~shown
        <5>1. kept = Disarm(read, "Interrupted")
          BY <4>2
        <5>2. Follows(read, kept) /\ Halted(kept)
          BY <1>2, <3>2, <5>1, DisarmHalts
        <5>3. kept.phase \notin Pending
          <6>1. CASE read.phase = "Grace"
            BY <1>2, <3>2, <5>1, <6>1, DraftFollows DEF Disarm, Drafted, Pending
          <6>2. CASE read.phase = "Draft"
            BY <5>1, <6>2 DEF Disarm, Pending
          <6> QED BY <3>2, <6>1, <6>2
        <5> QED BY <5>2, <5>3
      <4> QED BY <4>1, <4>2
    <3> HIDE DEF kept
    <3>4. /\ attempt' = kept /\ Report(kept, base, incognito) /\ UNCHANGED promises
          /\ editor' = [doc |-> IF shown THEN id ELSE NoId, mapped |-> shown]
      BY <2>1, <2>4
    <3>5. /\ kept \in Attempt /\ kept.id = attempt.id /\ kept.row = row
          /\ kept.session = attempt.session /\ attempt.phase = "Finalizing"
      BY <2>4, <3>1, <3>2, <3>3 DEF Follows, Accepts
    <3>6. kept.phase \in Pending =>
              /\ kept.disarmed = NoReason /\ kept.doc = id /\ kept.via \in Reachable
              /\ attempt.id \notin stopped
      BY <3>1, <3>2, <3>3, <3>5 DEF Follows, IInv, Permission, Pending
    <3>7. RouteType'
      BY <2>3, <3>4, <3>5, ReportTypes, AgentRouteAssumption
         DEF IInv, RouteType, Permission, PromiseType, Id
    <3>8. PromiseType'
      BY <3>4, GroupsStay
    <3>9. Permission'
      BY <2>2, <3>4, <3>5, <3>6 DEF IInv, Permission, promises, Pending
    <3>10. CaptureType'
      <4>1. editor' \in [doc : 0..MaxAttempts, mapped : BOOLEAN]
        BY <2>2, <3>4, AgentRouteAssumption DEF Id, NoId
      <4>2. editor'.mapped => editor'.doc # NoId
        BY <2>1, <3>4
      <4> QED BY <1>1, <2>1, <4>1, <4>2 DEF CaptureType
    <3>11. ChoiceType' /\ FindingType' /\ DeliveryType' /\ AmbientType'
      BY <2>1, GroupsStay DEF promises
    <3> QED BY <3>7, <3>8, <3>9, <3>10, <3>11 DEF IInv
  <2>5. CASE ~Accepts(attempt, id)
    <3>1. attempt' = attempt /\ rows' = base /\ UNCHANGED <<reported, editor>>
      BY <2>1, <2>5
    <3>2. RouteType'
      BY <2>3, <3>1 DEF IInv, RouteType
    <3>3. Permission' /\ PromiseType'
      BY <2>1, <3>1, RouteStays
    <3>4. CaptureType'
      BY <1>1, <2>1, <3>1 DEF IInv, CaptureType
    <3>5. ChoiceType' /\ FindingType' /\ DeliveryType' /\ AmbientType'
      BY <2>1, GroupsStay DEF promises
    <3> QED BY <3>2, <3>3, <3>4, <3>5 DEF IInv
  <2> QED BY <2>4, <2>5
<1>6. CASE OtherCompleted
  <2>1. RouteType' /\ Permission' /\ PromiseType'
    BY <1>6, RouteStays DEF OtherCompleted, route, IInv, RouteType
  <2>2. CaptureType'
    BY <1>1, <1>6 DEF OtherCompleted, IInv, CaptureType
  <2>3. ChoiceType' /\ FindingType' /\ DeliveryType' /\ AmbientType'
    BY <1>6, GroupsStay DEF OtherCompleted, promises
  <2> QED BY <2>1, <2>2, <2>3 DEF IInv
<1> QED BY <1>2, <1>3, <1>4, <1>5, <1>6 DEF Recorder, CaptureFailed, CaptureCancelled

LEMMA ClockStays ==
    ASSUME IInv, Elapse \/ SetBack
    PROVE  IInv'
<1>1. PICK by \in {-1, 1} : MoveClock(by)
  BY DEF Elapse, SetBack
<1> DEFINE left == IF attempt.phase = "Grace" THEN attempt.left - by ELSE attempt.left
           age  == IF attempt.phase = "Recording" /\ attempt.age + by >= 0
                   THEN attempt.age + by ELSE attempt.age
<1>2. attempt \in Attempt /\ left \in Int /\ age \in Int
  BY DEF IInv, RouteType, Attempt
<1>3. attempt' = [attempt EXCEPT !.left = left, !.age = age]
  BY <1>1, <1>2 DEF MoveClock, Attempt
<1> HIDE DEF left, age
<1>4. Follows(attempt, attempt')
  BY <1>2, <1>3, ClockFollows
<1>5. Permission' /\ PromiseType'
  BY <1>1, <1>4, PermissionStays DEF MoveClock, promises
<1>6. RouteType'
  BY <1>1, <1>4 DEF MoveClock, IInv, RouteType, Follows
<1>7. AmbientType'
  <2>1. gap' \in Int
    BY <1>1 DEF MoveClock, IInv, AmbientType
  <2> QED BY <1>1, <2>1 DEF MoveClock, IInv, AmbientType
<1>8. ChoiceType' /\ FindingType' /\ CaptureType' /\ DeliveryType'
  BY <1>1, GroupsStay DEF MoveClock, promises
<1> QED BY <1>5, <1>6, <1>7, <1>8 DEF IInv

\* A tick stops a countdown whose timing broke, and hands over one that is due.
LEMMA TickStays ==
    ASSUME IInv, Tick
    PROVE  IInv'
<1> DEFINE late == LateFrame \/ RecordingTimedOut(attempt)
           a    == IF late THEN InterruptedAttempt(attempt, cap) ELSE attempt
<1>1. attempt \in Attempt /\ cap \in Captures /\ wheel \in BOOLEAN
  BY DEF IInv, RouteType, CaptureType
<1>2. /\ gap' = 0
      /\ cap' = (IF late THEN InterruptedCapture(attempt, cap) ELSE cap)
      /\ wheel' = (wheel /\ ~late)
      /\ IF late THEN Stopping ELSE stopped' = stopped
      /\ poll' \in {poll} \cup (IF enabled /\ poll = "idle" THEN {"fresh"} ELSE {})
      /\ IF Due(a)
         THEN /\ Render(TakeSubmission(a))
              /\ IF TooLate(a) THEN UNCHANGED <<flights, handed>> ELSE Submit(a)
         ELSE Render(a) /\ UNCHANGED <<flights, handed>>
      /\ UNCHANGED <<choice, targets, editor, watches, fate, begun, chosen, incognito, closed>>
  BY DEF Tick
<1>3. late => Follows(attempt, a) /\ Halted(a)
  BY <1>1, InterruptHalts
<1>4. ~late => a = attempt
  OBVIOUS
<1>5. cap' \in Captures /\ wheel' \in BOOLEAN
  BY <1>1, <1>2, CaptureOperators
<1> HIDE DEF late, a
<1>6. CaptureType'
  BY <1>2, <1>5 DEF IInv, CaptureType
<1>7. FindingType'
  BY <1>2 DEF IInv, FindingType
<1>8. AmbientType'
  <2>1. gap' \in Int
    BY <1>2
  <2> QED BY <1>2, <2>1 DEF IInv, AmbientType
<1>9. ChoiceType'
  BY <1>2, GroupsStay
<1>10. RouteType' /\ Permission' /\ PromiseType' /\ DeliveryType'
  <2>1. CASE ~Due(a)
    <3>1. Render(a) /\ UNCHANGED <<flights, handed>>
      BY <1>2, <2>1
    <3>2. Follows(attempt, a) /\ (stopped' = stopped \/ (Stopping /\ Halted(a)))
      BY <1>1, <1>2, <1>3, <1>4, FollowsReflexive
    <3>3. RouteType' /\ Permission' /\ PromiseType'
      BY <1>2, <3>1, <3>2, RenderedStays
    <3>4. DeliveryType'
      BY <1>2, <3>1, GroupsStay DEF delivery
    <3> QED BY <3>3, <3>4
  <2>2. CASE Due(a)
    <3>1. ~late /\ a = attempt /\ attempt.phase = "Grace" /\ stopped' = stopped
      BY <1>2, <1>3, <1>4, <2>2 DEF Due, Halted
    <3>2. Render(TakeSubmission(attempt))
      BY <1>2, <2>2, <3>1
    <3>3. /\ Follows(attempt, TakeSubmission(attempt)) /\ Halted(TakeSubmission(attempt))
          /\ Follows(attempt, StartSubmission(attempt))
          /\ StartSubmission(attempt).phase = "Submitting"
      BY <1>1, <3>1, SubmissionFollows
    <3>4. CASE TooLate(attempt)
      <4>1. UNCHANGED <<flights, handed>>
        BY <1>2, <2>2, <3>1, <3>4
      <4>2. RouteType' /\ Permission' /\ PromiseType'
        BY <1>2, <3>1, <3>2, <3>3, <4>1, RenderedStays
      <4>3. DeliveryType'
        BY <1>2, <4>1, GroupsStay DEF delivery
      <4> QED BY <4>2, <4>3
    <3>5. CASE ~TooLate(attempt)
      <4>1. Submit(attempt)
        BY <1>2, <2>2, <3>1, <3>5
      <4>2. TakeSubmission(attempt) = StartSubmission(attempt)
        BY <3>5 DEF TakeSubmission
      <4>3. TakeSubmission(attempt).phase \notin Pending
        BY <3>3, <4>2 DEF Pending
      <4> QED BY <1>2, <3>1, <3>2, <3>3, <4>1, <4>3, SubmittedStays
    <3> QED BY <3>4, <3>5
  <2> QED BY <2>1, <2>2
<1> QED BY <1>6, <1>7, <1>8, <1>9, <1>10 DEF IInv

LEMMA DeliveryStays ==
    ASSUME IInv, Watcher \/ Transport
    PROVE  IInv'
<1> USE AgentRouteAssumption
<1>1. attempt \in Attempt
  BY DEF IInv, RouteType
<1>2. CASE \E w \in watches : TakenSeen(w)
  <2>1. PICK w \in watches : TakenSeen(w)
    BY <1>2
  <2>2. w \in Watch
    BY DEF IInv, DeliveryType
  <2>3. RouteType' /\ Permission' /\ PromiseType'
    <3>1. CASE LearnsTaken(attempt, w.id)
      <4>1. Render(TakenBy(attempt, w.id)) /\ UNCHANGED <<begun, chosen, handed, stopped>>
        BY <2>1, <3>1 DEF TakenSeen, promises
      <4> QED BY <1>1, <4>1, TakenFollows, RenderedStays
    <3>2. CASE ~LearnsTaken(attempt, w.id)
      <4>1. rows' = (IF w.row # NoId /\ ~incognito THEN [rows EXCEPT ![w.row] = "delivered"]
                                                   ELSE rows)
            /\ UNCHANGED <<attempt, reported, promises>>
        BY <2>1, <3>2 DEF TakenSeen
      <4>2. rows' \in [Id -> Word]
        BY <4>1 DEF IInv, RouteType, Word, Sent
      <4> QED BY <4>1, <4>2, RouteStays DEF IInv, RouteType
    <3> QED BY <3>1, <3>2
  <2>4. fate' \in [Id -> Sent \cup {"unsent"}]
    BY <2>1 DEF TakenSeen, IInv, DeliveryType, Sent
  <2>5. DeliveryType'
    BY <2>1, <2>4 DEF TakenSeen, promises, IInv, DeliveryType
  <2>6. ChoiceType' /\ FindingType' /\ CaptureType' /\ AmbientType'
    BY <2>1, GroupsStay DEF TakenSeen
  <2> QED BY <2>3, <2>5, <2>6 DEF IInv
<1>3. CASE \E w \in watches : WatchEnds(w)
  <2>1. PICK w \in watches : WatchEnds(w)
    BY <1>3
  <2>2. RouteType' /\ Permission' /\ PromiseType'
    BY <2>1, RouteStays DEF WatchEnds, route, IInv, RouteType
  <2>3. DeliveryType'
    BY <2>1 DEF WatchEnds, promises, IInv, DeliveryType
  <2>4. ChoiceType' /\ FindingType' /\ CaptureType' /\ AmbientType'
    BY <2>1, GroupsStay DEF WatchEnds
  <2> QED BY <2>2, <2>3, <2>4 DEF IInv
<1>4. CASE \E f \in flights : Receive(f)
  <2>1. PICK f \in flights : Receive(f)
    BY <1>4
  <2>2. f \in Flight /\ f.result \in SendOutcome
    BY <2>1 DEF Receive, IInv, DeliveryType, Flight
  <2>3. RouteType' /\ Permission' /\ PromiseType'
    <3>1. CASE closed
      BY <2>1, <3>1, RouteStays DEF Receive, route, IInv, RouteType
    <3>2. CASE ~closed
      <4>1. Render(Delivered(attempt, f.id, f.result)) /\ UNCHANGED <<begun, chosen, handed, stopped>>
        BY <2>1, <3>2 DEF Receive, promises
      <4>2. Follows(attempt, Delivered(attempt, f.id, f.result))
        BY <1>1, <2>2, DeliveredFollows
      <4> QED BY <4>1, <4>2, RenderedStays
    <3> QED BY <3>1, <3>2
  <2>4. watches' \subseteq Watch
    <3>1. [id |-> f.id, doc |-> f.doc, row |-> f.row] \in Watch
      BY <2>2 DEF Flight, Watch
    <3> QED BY <2>1, <3>1 DEF Receive, IInv, DeliveryType
  <2>5. DeliveryType'
    BY <2>1, <2>4 DEF Receive, promises, IInv, DeliveryType
  <2>6. ChoiceType' /\ FindingType' /\ CaptureType' /\ AmbientType'
    BY <2>1, GroupsStay DEF Receive
  <2> QED BY <2>3, <2>5, <2>6 DEF IInv
<1>5. CASE \E f \in flights, outcome \in Outcomes : Transmit(f, outcome)
  <2>1. PICK f \in flights, outcome \in Outcomes : Transmit(f, outcome)
    BY <1>5
  <2> DEFINE g == [f EXCEPT !.result = outcome]
  <2>2. f \in Flight /\ outcome \in SendOutcome
    BY DEF IInv, DeliveryType
  <2>3. g \in Flight /\ g.id = f.id /\ g.session = f.session
    BY <2>2 DEF Flight
  <2>4. flights' = (flights \ {f}) \cup {g}
        /\ fate' = [fate EXCEPT ![f.doc] = FateOf(f, outcome)]
        /\ UNCHANGED <<route, choice, finding, capture, watches, promises, ambient>>
    BY <2>1 DEF Transmit
  <2> HIDE DEF g
  <2>5. RouteType' /\ Permission' /\ PromiseType'
    BY <2>4, RouteStays DEF route, IInv, RouteType
  <2>6. FateOf(f, outcome) \in Sent \cup {"unsent"}
    BY <2>2 DEF FateOf, LevelWord, Sent, SendOutcome, Flight, IInv, DeliveryType
  <2>7. fate' \in [Id -> Sent \cup {"unsent"}]
    BY <2>4, <2>6 DEF IInv, DeliveryType
  <2>8. DeliveryType'
    BY <2>3, <2>4, <2>7 DEF promises, IInv, DeliveryType
  <2>9. ChoiceType' /\ FindingType' /\ CaptureType' /\ AmbientType'
    BY <2>4, GroupsStay
  <2> QED BY <2>5, <2>8, <2>9 DEF IInv
<1> QED BY <1>2, <1>3, <1>4, <1>5 DEF Watcher, Transport

LEMMA CloseStays ==
    ASSUME IInv, Close
    PROVE  IInv'
<1>1. Follows(attempt, attempt') /\ Halted(attempt')
  BY AbandonHalts DEF Close, IInv, RouteType, DraftReason
<1>2. Permission' /\ PromiseType'
  BY <1>1, PermissionStays DEF Close
<1>3. RouteType'
  BY <1>1 DEF Close, IInv, RouteType, Follows
<1>4. ChoiceType'
  BY DEF Close, IInv, ChoiceType
<1>5. FindingType'
  BY DEF Close, IInv, FindingType
<1>6. CaptureType'
  BY CaptureOperators DEF Close, IInv, CaptureType
<1>7. DeliveryType'
  BY DEF Close, IInv, DeliveryType
<1>8. AmbientType'
  <2>1. gap' = gap /\ incognito' = incognito /\ closed' = TRUE
    BY DEF Close
  <2> QED BY <2>1 DEF IInv, AmbientType
<1> QED BY <1>2, <1>3, <1>4, <1>5, <1>6, <1>7, <1>8 DEF IInv

LEMMA InvariantNext == IInv /\ [Next]_vars => IInv'
<1> SUFFICES ASSUME IInv, [Next]_vars PROVE IInv'
  OBVIOUS
<1>1. CASE Person
  BY <1>1, ChoosingStays, SettingsStay, KeysStay, SendingStays, WheelStays, BeginningStays,
     EditorStays DEF Person
<1>2. CASE Finder \/ Recorder \/ Watcher \/ Transport
  BY <1>2, FinderStays, RecorderStays, DeliveryStays
<1>3. CASE Elapse \/ SetBack \/ Tick \/ Close
  BY <1>3, ClockStays, TickStays, CloseStays
<1>4. CASE UNCHANGED vars
  <2>1. UNCHANGED <<route, choice, finding, capture, delivery, promises, ambient>>
    BY <1>4 DEF vars
  <2>2. RouteType' /\ Permission' /\ PromiseType'
    BY <2>1, RouteStays DEF route, IInv, RouteType
  <2> QED BY <2>1, <2>2, GroupsStay DEF promises, IInv
<1> QED BY <1>1, <1>2, <1>3, <1>4 DEF Next

-----------------------------------------------------------------------------
(* The theorems                                                             *)

THEOREM Invariant == Spec => []IInv
BY InvariantInit, InvariantNext, PTL DEF Spec

\* Type correctness: every variable of the controller, the capture and the
\* delivery keeps its type, for any sessions, bounds and recording limit.
THEOREM TypeCorrect == Spec => []TypeOK
BY Invariant, InvariantSuffices, PTL

\* What Cancel, an edit, another recipient, a lock or another recording stopped
\* is never handed to a transport, however the handlers interleave.
THEOREM StoppedStaysUnsent == Spec => []StopHolds
BY Invariant, InvariantSuffices, PTL

\* A delivery goes to the session that was selected when its attempt began.
THEOREM RecipientIsFixed == Spec => []NeverRetargeted
BY Invariant, InvariantSuffices, PTL

-----------------------------------------------------------------------------
(* What a handler may make of the attempt without handing it over           *)

Reasons == DraftReason \ {"Empty"}

\* b is a, possibly stopped, released or found on another route: only a pending
\* message changes, and what becomes a draft has a reason its row can say.
Held(a, b) ==
    /\ Follows(a, b) /\ b.text = a.text
    /\ a.phase \notin Pending => b = a
    /\ b.phase \in {a.phase, "Draft"} \/ (a.phase = "Recording" /\ b.phase = "Finalizing")
    /\ a.phase \in Pending /\ b.phase = "Draft" => b.reason \in Reasons
    /\ a.disarmed # "Empty" => b.disarmed # "Empty"
    /\ b.via = a.via \/ (a.phase \in Pending /\ b.via \in Reachable \cap SightingOf(a.session))

LEMMA UnmovedIsHeld ==
    ASSUME NEW a \in Attempt
    PROVE  Held(a, a)
BY FollowsReflexive DEF Held, Pending

LEMMA HeldTransitive ==
    ASSUME NEW a, NEW b, NEW c, Held(a, b), Held(b, c)
    PROVE  Held(a, c)
<1>1. Follows(a, c)
  BY FollowsTransitive DEF Held
<1>2. CASE a.phase \notin Pending
  <2>1. b = a
    BY <1>2 DEF Held
  <2> QED BY <2>1
<1>3. CASE a.phase \in Pending /\ b.phase \notin Pending
  <2>1. c = b
    BY <1>3 DEF Held
  <2> QED BY <2>1
<1>4. CASE a.phase \in Pending /\ b.phase \in Pending
  <2>1. b.session = a.session
    BY DEF Held, Follows
  <2>2. c.text = a.text /\ (a.disarmed # "Empty" => c.disarmed # "Empty")
    BY DEF Held
  <2>3. c.phase \in {a.phase, "Draft"} \/ (a.phase = "Recording" /\ c.phase = "Finalizing")
    BY <1>4 DEF Held, Pending
  <2>4. c.phase = "Draft" => c.reason \in Reasons
    BY <1>4 DEF Held
  <2>5. c.via = a.via \/ c.via \in Reachable \cap SightingOf(a.session)
    BY <1>4, <2>1 DEF Held
  <2> QED BY <1>1, <1>4, <2>2, <2>3, <2>4, <2>5 DEF Held
<1> QED BY <1>2, <1>3, <1>4

LEMMA DraftHolds ==
    ASSUME NEW a \in Attempt, NEW reason \in Reasons, a.phase \in Pending
    PROVE  Held(a, ToDraft(a, reason)) /\ Held(a, Drafted(a, reason))
<1> DEFINE d == ToDraft(a, reason)
           e == Drafted(a, reason)
<1>1. Follows(a, d) /\ Follows(a, e)
  BY DraftFollows DEF Reasons
<1>2. d = [a EXCEPT !.phase = "Draft", !.reason = reason, !.left = 0, !.age = 0]
  BY DEF ToDraft
<1>3. e = [a EXCEPT !.phase = "Draft", !.reason = reason, !.left = 0, !.age = 0,
                    !.disarmed = reason]
  BY DEF Drafted, ToDraft, Attempt
<1> HIDE DEF d, e
<1>4. /\ d.phase = "Draft" /\ d.reason = reason /\ d.text = a.text /\ d.via = a.via
      /\ d.disarmed = a.disarmed
  BY <1>2 DEF Attempt
<1>5. /\ e.phase = "Draft" /\ e.reason = reason /\ e.text = a.text /\ e.via = a.via
      /\ e.disarmed = reason /\ reason # "Empty"
  BY <1>3 DEF Attempt, Reasons
<1>6. Held(a, d)
  BY <1>1, <1>4 DEF Held
<1>7. Held(a, e)
  BY <1>1, <1>5 DEF Held
<1> QED BY <1>6, <1>7 DEF d, e

\* Stopping a message leaves a recording where it is and ends a countdown.
LEMMA DisarmHolds ==
    ASSUME NEW a \in Attempt, NEW reason \in Reasons
    PROVE  /\ Held(a, Disarm(a, reason))
           /\ \/ Disarm(a, reason).phase = a.phase
              \/ a.phase = "Grace" /\ Disarm(a, reason).phase = "Draft"
<1> DEFINE d == Disarm(a, reason)
<1>0. Follows(a, d)
  BY DisarmHalts DEF Reasons
<1>1. CASE a.phase \in {"Recording", "Finalizing"}
  <2>1. d = [a EXCEPT !.disarmed = reason]
    BY <1>1 DEF Disarm
  <2>2. d.phase = a.phase /\ d.text = a.text /\ d.via = a.via /\ d.disarmed = reason
    BY <2>1 DEF Attempt
  <2>3. reason # "Empty"
    BY DEF Reasons
  <2> HIDE DEF d
  <2>4. Held(a, d)
    BY <1>0, <1>1, <2>2, <2>3 DEF Held, Pending
  <2> QED BY <2>2, <2>4 DEF d
<1>2. CASE a.phase = "Grace"
  <2>1. d = Drafted(a, reason)
    BY <1>2 DEF Disarm, Drafted
  <2>2. Drafted(a, reason).phase = "Draft"
    BY DEF Drafted, ToDraft, Attempt
  <2> QED BY <1>2, <2>1, <2>2, DraftHolds DEF Pending
<1>3. CASE a.phase \notin {"Recording", "Finalizing", "Grace"}
  <2>1. d = a
    BY <1>3 DEF Disarm
  <2> QED BY <2>1, UnmovedIsHeld
<1> QED BY <1>1, <1>2, <1>3

LEMMA AbandonHolds ==
    ASSUME NEW a \in Attempt, NEW reason \in Reasons
    PROVE  /\ Held(a, AbandonCapture(a, reason))
           /\ AbandonCapture(a, reason).phase = IF a.phase \in Pending THEN "Draft" ELSE a.phase
<1>1. CASE a.phase \in Pending
  <2>1. AbandonCapture(a, reason) = Drafted(a, reason)
    BY <1>1 DEF AbandonCapture, Drafted
  <2>2. Drafted(a, reason).phase = "Draft"
    BY DEF Drafted, ToDraft, Attempt
  <2> QED BY <1>1, <2>1, <2>2, DraftHolds
<1>2. CASE a.phase \notin Pending
  <2>1. AbandonCapture(a, reason) = a
    BY <1>2 DEF AbandonCapture
  <2> QED BY <1>2, <2>1, UnmovedIsHeld
<1> QED BY <1>1, <1>2

LEMMA ReleaseHolds ==
    ASSUME NEW a \in Attempt
    PROVE  /\ Held(a, Release(a))
           /\ Release(a).phase = IF a.phase = "Recording" THEN "Finalizing" ELSE a.phase
<1>1. CASE a.phase = "Recording"
  <2> DEFINE r == Release(a)
  <2>1. r = [a EXCEPT !.phase = "Finalizing", !.age = 0]
    BY <1>1 DEF Release
  <2>2. Follows(a, r)
    BY ReleaseFollows
  <2>3. r.phase = "Finalizing" /\ r.text = a.text /\ r.via = a.via /\ r.disarmed = a.disarmed
    BY <2>1 DEF Attempt
  <2> HIDE DEF r
  <2>4. Held(a, r)
    BY <1>1, <2>2, <2>3 DEF Held, Pending
  <2> QED BY <1>1, <2>3, <2>4 DEF r
<1>2. CASE a.phase # "Recording"
  <2>1. Release(a) = a
    BY <1>2 DEF Release
  <2> QED BY <1>2, <2>1, UnmovedIsHeld
<1> QED BY <1>1, <1>2

LEMMA ObserveHolds ==
    ASSUME NEW a \in Attempt, NEW found \in [Session -> Sighting],
           \A s \in Session : found[s] \in SightingOf(s),
           a.phase \in Pending => a.session \in Session
    PROVE  /\ Held(a, Observe(a, found))
           /\ \/ Observe(a, found).phase = a.phase
              \/ a.phase = "Grace" /\ Observe(a, found).phase = "Draft"
<1> DEFINE o == Observe(a, found)
<1>0. Follows(a, o)
  BY ObserveFollows
<1>1. CASE a.phase \notin Pending
  <2>1. o = a
    BY <1>1 DEF Observe
  <2> QED BY <2>1, UnmovedIsHeld
<1>2. CASE a.phase \in Pending /\ ~CanReceive(found[a.session])
  <2>1. o = Disarm(a, "Unavailable") /\ "Unavailable" \in Reasons
    BY <1>2 DEF Observe, Reasons, DraftReason
  <2> QED BY <2>1, DisarmHolds
<1>3. CASE a.phase \in Pending /\ CanReceive(found[a.session])
  <2>1. o = [a EXCEPT !.via = found[a.session]]
    BY <1>3 DEF Observe
  <2>2. found[a.session] \in Reachable \cap SightingOf(a.session)
    BY <1>3 DEF CanReceive
  <2>3. /\ o.phase = a.phase /\ o.text = a.text /\ o.via = found[a.session]
        /\ o.disarmed = a.disarmed
    BY <2>1 DEF Attempt
  <2> HIDE DEF o
  <2>4. Held(a, o)
    BY <1>0, <1>3, <2>2, <2>3 DEF Held, Pending
  <2> QED BY <2>3, <2>4 DEF o
<1> QED BY <1>1, <1>2, <1>3

-----------------------------------------------------------------------------
(* The message fits the route that carries it                               *)

\* A composer link is reached in one way, and every other session in the others:
\* discovery never moves a message to a route with another limit.
RouteFits(a) ==
    /\ a.phase \in Pending \cup {"Submitting"} => a.via \in SightingOf(a.session)
    /\ a.phase \in {"Grace", "Submitting"} => a.text # "empty" /\ ~TooLong(a.text, a.via)

LEMMA HeldFits ==
    ASSUME NEW a \in Attempt, NEW b, Held(a, b), RouteFits(a),
           a.phase \in Pending => a.session \in Session /\ a.via \in Reachable
    PROVE  RouteFits(b)
<1>1. CASE a.phase \notin Pending
  <2>1. b = a
    BY <1>1 DEF Held
  <2> QED BY <2>1
<1>2. CASE a.phase \in Pending
  <2>1. b.session = a.session /\ b.text = a.text /\ b.phase # "Submitting"
    BY <1>2 DEF Held, Follows, Pending
  <2>2. a.via \in SightingOf(a.session) \cap Reachable
    BY <1>2 DEF RouteFits
  <2>3. b.via \in SightingOf(a.session) \cap Reachable
    BY <1>2, <2>2 DEF Held
  <2>4. b.via = "prefill" <=> a.via = "prefill"
    BY <2>2, <2>3 DEF SightingOf, Reachable
  <2>5. b.phase = "Grace" => b.text # "empty" /\ ~TooLong(b.text, b.via)
    BY <1>2, <2>1, <2>4 DEF Held, Follows, RouteFits, TooLong
  <2> QED BY <2>1, <2>3, <2>5 DEF RouteFits
<1> QED BY <1>1, <1>2

-----------------------------------------------------------------------------
(* The attempt and its capture                                              *)

\* CaptureIsOwned, of any attempt and capture, with what keeps it: nothing is
\* recognized yet of what is still captured.
Owned(a, c) ==
    /\ a.phase \in {"Recording", "Finalizing"} => c.agent = a.id /\ a.id # NoId
    /\ c.agent # NoId =>
          /\ c.agent = a.id
          /\ c.phase \in {"Preparing", "Recording"} => a.phase = "Recording"
          /\ c.phase = "Processing" => a.phase = "Finalizing"
          /\ c.phase = "Cancelling" => a.phase \in {"Recording", "Finalizing", "Draft"}
          /\ c.phase # "None"
          /\ a.text = "empty"

\* A countdown has no capture any more, so ending it leaves every capture owned.
LEMMA StoppedOwned ==
    ASSUME NEW a \in Attempt, NEW b, NEW c \in Captures, Owned(a, c), Held(a, b),
           b.phase = a.phase \/ (a.phase = "Grace" /\ b.phase = "Draft")
    PROVE  Owned(b, c) /\ Owned(b, CancelCapture(c))
<1>1. b.id = a.id /\ b.text = a.text
  BY DEF Held, Follows
<1>2. a.phase = "Grace" => c.agent = NoId
  BY DEF Owned, Captures, CapturePhase
<1>3. Owned(b, c)
  BY <1>1, <1>2 DEF Owned
<1>4. /\ CancelCapture(c).agent = c.agent
      /\ CancelCapture(c).phase = IF c.phase \in {"Preparing", "Recording"} THEN "Cancelling"
                                                                           ELSE c.phase
  BY DEF CancelCapture, Captures
<1>5. Owned(b, CancelCapture(c))
  BY <1>3, <1>4 DEF Owned
<1> QED BY <1>3, <1>5

LEMMA StopCaptureFields ==
    ASSUME NEW c \in Captures
    PROVE  /\ StopCapture(c).agent = c.agent
           /\ c.phase = "Recording" => StopCapture(c).phase = "Processing"
           /\ c.phase = "Preparing" => StopCapture(c).phase = "Cancelling"
           /\ c.phase \notin {"Preparing", "Recording"} => StopCapture(c).phase = c.phase
BY DEF StopCapture, Captures

\* Stop and `agent_release`: the attempt follows its capture.
LEMMA ReleasedOwned ==
    ASSUME NEW a \in Attempt, NEW c \in Captures, Owned(a, c)
    PROVE  /\ Held(a, ReleasedAttempt(a, c))
           /\ Owned(ReleasedAttempt(a, c), ReleasedCapture(a, c))
<1> DEFINE b == ReleasedAttempt(a, c)
<1>0. "Interrupted" \in Reasons
  BY DEF Reasons, DraftReason
<1>1. CASE a.phase # "Recording"
  <2>1. b = a /\ ReleasedCapture(a, c) = c
    BY <1>1 DEF ReleasedAttempt, ReleasedCapture
  <2> QED BY <2>1, UnmovedIsHeld
<1>2. CASE a.phase = "Recording" /\ c.phase \in {"Preparing", "Recording"}
  <2>1. b = Release(a) /\ ReleasedCapture(a, c) = StopCapture(c)
    BY <1>2 DEF ReleasedAttempt, ReleasedCapture
  <2>2. Held(a, b) /\ b.phase = "Finalizing" /\ b.id = a.id /\ b.text = a.text
    BY <1>2, <2>1, ReleaseHolds DEF Held, Follows
  <2> HIDE DEF b
  <2>3. Owned(b, StopCapture(c))
    BY <1>2, <2>2, StopCaptureFields DEF Owned
  <2> QED BY <2>1, <2>2, <2>3 DEF b
<1>3. CASE a.phase = "Recording" /\ c.phase \notin {"Preparing", "Recording"}
  <2>1. b = AbandonCapture(a, "Interrupted") /\ ReleasedCapture(a, c) = StopCapture(c)
    BY <1>3 DEF ReleasedAttempt, ReleasedCapture
  <2>2. Held(a, b) /\ b.phase = "Draft" /\ b.id = a.id /\ b.text = a.text
    BY <1>0, <1>3, <2>1, AbandonHolds DEF Held, Follows, Pending
  <2> HIDE DEF b
  <2>3. c.agent # NoId => c.phase = "Cancelling"
    BY <1>3 DEF Owned, Captures, CapturePhase
  <2>4. Owned(b, StopCapture(c))
    BY <1>3, <2>2, <2>3, StopCaptureFields DEF Owned
  <2> QED BY <2>1, <2>2, <2>4 DEF b
<1> QED BY <1>1, <1>2, <1>3

LEMMA InterruptedOwned ==
    ASSUME NEW a \in Attempt, NEW c \in Captures, Owned(a, c)
    PROVE  /\ Held(a, InterruptedAttempt(a, c))
           /\ Owned(InterruptedAttempt(a, c), InterruptedCapture(a, c))
<1> DEFINE d == Disarm(a, "Interrupted")
<1>0. "Interrupted" \in Reasons
  BY DEF Reasons, DraftReason
<1>1. Held(a, d) /\ (d.phase = a.phase \/ (a.phase = "Grace" /\ d.phase = "Draft"))
  BY <1>0, DisarmHolds
<1>2. d \in Attempt /\ d.id = a.id /\ d.text = a.text
  BY <1>1 DEF Held, Follows
<1>3. Owned(d, c)
  BY <1>1, StoppedOwned
<1>4. CASE c.agent # NoId
  <2>1. InterruptedAttempt(a, c) = ReleasedAttempt(d, c)
    BY <1>4 DEF InterruptedAttempt
  <2>2. a.phase = "Recording" <=> d.phase = "Recording"
    BY <1>1
  <2>3. InterruptedCapture(a, c) = ReleasedCapture(d, c)
    BY <1>4, <2>2 DEF InterruptedCapture, ReleasedCapture
  <2> HIDE DEF d
  <2> QED BY <1>1, <1>2, <1>3, <2>1, <2>3, ReleasedOwned, HeldTransitive
<1>5. CASE c.agent = NoId
  <2>1. InterruptedAttempt(a, c) \in {d, AbandonCapture(d, "Interrupted")}
        /\ InterruptedCapture(a, c) = c
    BY <1>5 DEF InterruptedAttempt, InterruptedCapture
  <2> HIDE DEF d
  <2>2. Held(d, AbandonCapture(d, "Interrupted")) /\ Held(d, d)
    BY <1>0, <1>2, AbandonHolds, UnmovedIsHeld
  <2>3. Held(a, InterruptedAttempt(a, c)) /\ Held(d, InterruptedAttempt(a, c))
    BY <1>1, <2>1, <2>2, HeldTransitive
  <2>4. d.phase \notin {"Recording", "Finalizing"}
    BY <1>2, <1>3, <1>5 DEF Owned, Attempt, NoId
  <2>5. InterruptedAttempt(a, c).phase \notin {"Recording", "Finalizing"}
    BY <2>3, <2>4 DEF Held
  <2> QED BY <1>5, <2>1, <2>3, <2>5 DEF Owned
<1> QED BY <1>4, <1>5

\* The record key: only a recording is released, and it is released with its capture.
LEMMA RecordStopOwned ==
    ASSUME NEW a \in Attempt, NEW c \in Captures, Owned(a, c), c.phase \in {"Preparing", "Recording"},
           NEW b, b = IF c.phase = "Recording" /\ c.agent # NoId THEN Release(a) ELSE a
    PROVE  Held(a, b) /\ Owned(b, StopCapture(c))
<1>1. CASE c.phase = "Recording" /\ c.agent # NoId
  <2>1. a.phase = "Recording"
    BY <1>1 DEF Owned
  <2>2. b = ReleasedAttempt(a, c) /\ StopCapture(c) = ReleasedCapture(a, c)
    BY <1>1, <2>1 DEF ReleasedAttempt, ReleasedCapture
  <2> QED BY <2>2, ReleasedOwned
<1>2. CASE ~(c.phase = "Recording" /\ c.agent # NoId)
  <2>1. b = a
    BY <1>2
  <2>2. Owned(a, StopCapture(c))
    BY <1>2, StopCaptureFields DEF Owned
  <2> QED BY <2>1, <2>2, UnmovedIsHeld
<1> QED BY <1>1, <1>2

-----------------------------------------------------------------------------
(* The invariant of a message's delivery                                    *)

\* What its transport has told of a message in flight.
FateWord(f) ==
    CASE f.result = "Accepted" -> LevelWord(f.via)
      [] f.result = "Taken" -> "delivered"
      [] f.result = "Held" -> "held"
      [] f.result = "Unconfirmed" -> "unconfirmed"
      [] OTHER -> "unsent"

\* What is in flight is the attempt's own message, as it was handed over.
FlightInv ==
    /\ \A f \in flights :
          /\ attempt.phase = "Submitting"
          /\ f.id = attempt.id /\ f.via = attempt.via /\ f.text = attempt.text
          /\ f.doc = attempt.doc /\ f.row = attempt.row
    /\ \A f, g \in flights : f = g
    /\ ~closed /\ attempt.phase = "Submitting" => flights # {}

\* Nothing was sent of what may still be sent, and a watched message was.
FateInv ==
    /\ attempt.phase \in {"Recording", "Finalizing"} => fate[attempt.id] = "unsent"
    /\ attempt.phase \in {"Grace", "Draft"} /\ attempt.doc # NoId => fate[attempt.doc] = "unsent"
    /\ \A f \in flights : fate[f.doc] = FateWord(f)
    /\ \A w \in watches : fate[w.doc] # "unsent" /\ \A f \in flights : f.doc # w.doc
    /\ \A d \in Id : d > begun => fate[d] = "unsent"

\* The editor shows the recognized text of the attempt, if any document.
EditorInv ==
    /\ attempt.doc \in 0..begun
    /\ attempt.phase \in {"Recording", "Finalizing"} => attempt.doc = NoId
    /\ attempt.text # "empty" => attempt.doc # NoId /\ editor.doc \in {attempt.doc, NoId}

TargetsFit == \A s \in Session : targets[s] \in SightingOf(s)

MInv ==
    /\ Owned(attempt, cap) /\ RouteFits(attempt) /\ TargetsFit
    /\ FlightInv /\ FateInv /\ EditorInv

\* The handlers below are of two kinds.  Some hold the message: they stop it,
\* release it or follow its session, and render what came of it.
HoldStep ==
    /\ Held(attempt, attempt') /\ Report(attempt', rows, incognito')
    /\ Owned(attempt', cap') /\ TargetsFit' /\ editor'.doc = editor.doc
    /\ UNCHANGED <<flights, watches, fate, begun, handed, closed>>

\* The others leave it alone.
IdleStep ==
    /\ Owned(attempt', cap') /\ TargetsFit' /\ editor'.doc = editor.doc
    /\ UNCHANGED <<route, flights, watches, fate, begun, handed, closed, incognito>>

\* A handler that stops the message for a reason.
LEMMA StopHeld ==
    ASSUME IInv, MInv, NEW reason \in Reasons, NEW d, d = Disarm(attempt, reason)
    PROVE  Held(attempt, d) /\ Owned(d, cap) /\ Owned(d, CancelCapture(cap)) /\ d \in Attempt
<1>1. attempt \in Attempt /\ cap \in Captures
  BY DEF IInv, RouteType, CaptureType
<1>2. Held(attempt, d) /\ (d.phase = attempt.phase \/ (attempt.phase = "Grace" /\ d.phase = "Draft"))
  BY <1>1, DisarmHolds
<1> QED BY <1>1, <1>2, StoppedOwned DEF MInv, Held, Follows

\* A handler that looks at the sessions found, on the attempt it has so far.
LEMMA ObserveHeld ==
    ASSUME IInv, MInv, NEW d \in Attempt, Held(attempt, d), Owned(d, cap),
           NEW found \in [Session -> Sighting], \A s \in Session : found[s] \in SightingOf(s)
    PROVE  Held(attempt, Observe(d, found)) /\ Owned(Observe(d, found), cap)
<1>1. d.phase \in Pending => d.session \in Session
  BY DEF Held, Follows, IInv, Permission
<1>2. /\ Held(d, Observe(d, found))
      /\ \/ Observe(d, found).phase = d.phase
         \/ d.phase = "Grace" /\ Observe(d, found).phase = "Draft"
  BY <1>1, ObserveHolds
<1>3. cap \in Captures
  BY DEF IInv, CaptureType
<1> QED BY <1>2, <1>3, HeldTransitive, StoppedOwned

LEMMA HandlerReasons ==
    {"RecipientChanged", "Kept", "Edited", "Cancelled", "Interrupted"} \subseteq Reasons
BY DEF Reasons, DraftReason

LEMMA ChoosingHolds ==
    ASSUME IInv, MInv, \/ \E s \in Session \cup {NoSession} : Choose(s)
                       \/ \E s \in Session : AskSwitch(s)
                       \/ Clear
    PROVE  HoldStep
<1> DEFINE d == Disarm(attempt, "RecipientChanged")
<1>1. Held(attempt, d) /\ Owned(d, cap) /\ d \in Attempt
  BY StopHeld, HandlerReasons
<1> HIDE DEF d
<1>2. CASE \E s \in Session \cup {NoSession} : Choose(s)
  <2>1. /\ Render(d) /\ UNCHANGED <<targets, capture, delivery, begun, handed, ambient>>
    BY <1>2 DEF Choose, d
  <2> QED BY <1>1, <2>1 DEF HoldStep, Render, MInv, TargetsFit, capture, delivery, ambient
<1>3. CASE \E s \in Session : AskSwitch(s)
  <2>1. /\ Render(d) /\ UNCHANGED <<finding, capture, delivery, begun, handed, ambient>>
    BY <1>3 DEF AskSwitch, d
  <2> QED BY <1>1, <2>1 DEF HoldStep, Render, MInv, TargetsFit, finding, capture, delivery, ambient
<1>4. CASE Clear
  <2>1. /\ Render(Observe(d, targets))
        /\ UNCHANGED <<targets, capture, delivery, begun, handed, ambient>>
    BY <1>4 DEF Clear, d
  <2>2. Held(attempt, Observe(d, targets)) /\ Owned(Observe(d, targets), cap)
    BY <1>1, ObserveHeld DEF IInv, FindingType, MInv, TargetsFit
  <2> QED BY <2>1, <2>2 DEF HoldStep, Render, MInv, TargetsFit, capture, delivery, ambient
<1> QED BY <1>2, <1>3, <1>4

LEMMA SettingsHold ==
    ASSUME IInv, MInv, \/ \E on \in BOOLEAN : SaveRouting(on)
                       \/ SaveOther \/ Refresh \/ SwitchPrivacy
    PROVE  HoldStep \/ IdleStep
<1> DEFINE d == InterruptedAttempt(attempt, cap)
           c == InterruptedCapture(attempt, cap)
<1>1. attempt \in Attempt /\ cap \in Captures /\ Owned(attempt, cap)
  BY DEF IInv, RouteType, CaptureType, MInv
<1>2. Held(attempt, d) /\ Owned(d, c)
  BY <1>1, InterruptedOwned
<1>3. cap.phase = "None" => c = cap
  BY <1>1 DEF Owned, InterruptedCapture
<1>4. Held(attempt, attempt)
  BY <1>1, UnmovedIsHeld
<1> HIDE DEF d, c
<1>5. CASE \E on \in BOOLEAN : SaveRouting(on)
  <2>1. /\ Render(d) /\ cap' = c
        /\ UNCHANGED <<targets, editor, delivery, begun, handed, ambient>>
    BY <1>5 DEF SaveRouting, c, d
  <2> QED BY <1>2, <2>1 DEF HoldStep, Render, MInv, TargetsFit, delivery, ambient
<1>6. CASE SaveOther
  <2>1. Render(attempt) /\ UNCHANGED <<targets, capture, delivery, promises, ambient>>
    BY <1>6 DEF SaveOther
  <2> QED BY <1>1, <1>4, <2>1
          DEF HoldStep, Render, MInv, TargetsFit, capture, delivery, promises, ambient
<1>7. CASE Refresh
  BY <1>1, <1>7 DEF Refresh, IdleStep, MInv, TargetsFit, capture, delivery, promises, ambient, route
<1>8. CASE SwitchPrivacy
  <2>1. /\ attempt' = d /\ Report(attempt', rows, incognito') /\ cap.phase = "None"
        /\ UNCHANGED <<finding, cap, editor, delivery, begun, handed, closed>>
    BY <1>8 DEF SwitchPrivacy, d
  <2> QED BY <1>2, <1>3, <2>1 DEF HoldStep, MInv, TargetsFit, finding, delivery
<1> QED BY <1>5, <1>6, <1>7, <1>8

LEMMA FindingHolds ==
    ASSUME IInv, MInv, Finder
    PROVE  HoldStep \/ IdleStep
<1>1. attempt \in Attempt /\ Owned(attempt, cap) /\ Held(attempt, attempt)
  BY UnmovedIsHeld DEF IInv, RouteType, MInv
<1>2. \A found \in Found : /\ found \in [Session -> Sighting]
                           /\ \A s \in Session : found[s] \in SightingOf(s)
  BY AgentRouteAssumption DEF Found, Sighting
<1>3. CASE \E w \in switches, found \in Found : FinishSwitch(w, found)
  <2>1. PICK w \in switches, found \in Found : FinishSwitch(w, found)
    BY <1>3
  <2> DEFINE d == Disarm(attempt, "RecipientChanged")
  <2>2. CASE w.stale \/ ~CanReceive(found[w.session])
    <3>1. UNCHANGED <<route, finding, capture, delivery, promises, ambient>>
      BY <2>1, <2>2 DEF FinishSwitch
    <3> QED BY <1>1, <3>1
            DEF IdleStep, MInv, TargetsFit, route, finding, capture, delivery, promises, ambient
  <2>3. CASE ~(w.stale \/ ~CanReceive(found[w.session]))
    <3>1. /\ targets' = found /\ Render(Observe(d, found))
          /\ UNCHANGED <<capture, delivery, begun, handed, ambient>>
      BY <2>1, <2>3 DEF FinishSwitch, UpdateTargets
    <3>2. Held(attempt, d) /\ Owned(d, cap) /\ d \in Attempt
      BY StopHeld, HandlerReasons
    <3> HIDE DEF d
    <3>3. Held(attempt, Observe(d, found)) /\ Owned(Observe(d, found), cap)
      BY <1>2, <3>2, ObserveHeld
    <3> QED BY <1>2, <3>1, <3>3 DEF HoldStep, Render, TargetsFit, capture, delivery, ambient
  <2> QED BY <2>2, <2>3
<1>4. CASE DropFound
  BY <1>1, <1>4
  DEF DropFound, IdleStep, MInv, TargetsFit, route, capture, delivery, promises, ambient
<1>5. CASE \E found \in Found : ApplyFound(found)
  <2>1. PICK found \in Found : ApplyFound(found)
    BY <1>5
  <2>2. /\ targets' = found /\ Render(Observe(attempt, found))
        /\ UNCHANGED <<capture, delivery, begun, handed, ambient>>
    BY <2>1 DEF ApplyFound, UpdateTargets
  <2>3. Held(attempt, Observe(attempt, found)) /\ Owned(Observe(attempt, found), cap)
    BY <1>1, <1>2, ObserveHeld
  <2> QED BY <1>2, <2>2, <2>3 DEF HoldStep, Render, TargetsFit, capture, delivery, ambient
<1> QED BY <1>3, <1>4, <1>5 DEF Finder

LEMMA KeysHold ==
    ASSUME IInv, MInv, \/ AgentKeyStops \/ AgentKeyCancels \/ RecordKeyStops
                       \/ Escape \/ Cancel \/ KeepDraft \/ Interrupt
    PROVE  HoldStep \/ IdleStep
<1>1. attempt \in Attempt /\ cap \in Captures /\ Owned(attempt, cap) /\ Held(attempt, attempt)
  BY UnmovedIsHeld DEF IInv, RouteType, CaptureType, MInv
<1>2. TargetsFit
  BY DEF MInv
<1>3. CASE AgentKeyStops
  <2>1. /\ Render(ReleasedAttempt(attempt, cap)) /\ cap' = ReleasedCapture(attempt, cap)
        /\ UNCHANGED <<finding, editor, delivery, promises, ambient>>
    BY <1>3 DEF AgentKeyStops
  <2>2. /\ Held(attempt, ReleasedAttempt(attempt, cap))
        /\ Owned(ReleasedAttempt(attempt, cap), ReleasedCapture(attempt, cap))
    BY <1>1, ReleasedOwned
  <2> QED BY <1>2, <2>1, <2>2
          DEF HoldStep, Render, TargetsFit, finding, delivery, promises, ambient
<1>4. CASE AgentKeyCancels \/ Cancel
  <2> DEFINE d == Disarm(attempt, "Cancelled")
  <2>1. /\ Render(d) /\ cap' = CancelCapture(cap)
        /\ UNCHANGED <<finding, editor, delivery, begun, handed, ambient>>
    BY <1>4 DEF AgentKeyCancels, Cancel
  <2>2. Held(attempt, d) /\ Owned(d, CancelCapture(cap))
    BY StopHeld, HandlerReasons
  <2> HIDE DEF d
  <2> QED BY <1>2, <2>1, <2>2 DEF HoldStep, Render, TargetsFit, finding, delivery, ambient
<1>5. CASE RecordKeyStops
  <2> DEFINE b == IF cap.phase = "Recording" /\ cap.agent # NoId THEN Release(attempt) ELSE attempt
  <2>1. /\ Render(b) /\ cap' = StopCapture(cap) /\ cap.phase \in {"Preparing", "Recording"}
        /\ UNCHANGED <<finding, editor, delivery, promises, ambient>>
    BY <1>5 DEF RecordKeyStops
  <2>2. Held(attempt, b) /\ Owned(b, StopCapture(cap))
    BY <1>1, <2>1, RecordStopOwned
  <2> HIDE DEF b
  <2> QED BY <1>2, <2>1, <2>2
          DEF HoldStep, Render, TargetsFit, finding, delivery, promises, ambient
<1>6. CASE Escape
  <2>1. Owned(attempt, CancelCapture(cap))
    BY <1>1, StoppedOwned
  <2> QED BY <1>2, <1>6, <2>1
          DEF Escape, IdleStep, TargetsFit, route, finding, delivery, promises, ambient
<1>7. CASE KeepDraft
  <2> DEFINE kept == Disarm(attempt, "Kept")
  <2>1. /\ Render(ReleasedAttempt(kept, cap)) /\ cap' = ReleasedCapture(kept, cap)
        /\ UNCHANGED <<finding, editor, delivery, begun, handed, ambient>>
    BY <1>7 DEF KeepDraft
  <2>2. Held(attempt, kept) /\ Owned(kept, cap) /\ kept \in Attempt
    BY StopHeld, HandlerReasons
  <2> HIDE DEF kept
  <2>3. /\ Held(attempt, ReleasedAttempt(kept, cap))
        /\ Owned(ReleasedAttempt(kept, cap), ReleasedCapture(kept, cap))
    BY <1>1, <2>2, ReleasedOwned, HeldTransitive
  <2> QED BY <1>2, <2>1, <2>3 DEF HoldStep, Render, TargetsFit, finding, delivery, ambient
<1>8. CASE Interrupt
  <2>1. /\ Render(InterruptedAttempt(attempt, cap)) /\ cap' = InterruptedCapture(attempt, cap)
        /\ UNCHANGED <<finding, editor, delivery, begun, handed, ambient>>
    BY <1>8 DEF Interrupt
  <2>2. /\ Held(attempt, InterruptedAttempt(attempt, cap))
        /\ Owned(InterruptedAttempt(attempt, cap), InterruptedCapture(attempt, cap))
    BY <1>1, InterruptedOwned
  <2> QED BY <1>2, <2>1, <2>2 DEF HoldStep, Render, TargetsFit, finding, delivery, ambient
<1> QED BY <1>3, <1>4, <1>5, <1>6, <1>7, <1>8

LEMMA ViewsHold ==
    ASSUME IInv, MInv, OpenWheel \/ HideWheel \/ Edit \/ LeaveEditor \/ ReturnToEditor
    PROVE  HoldStep \/ IdleStep
<1>1. \A reason \in Reasons :
         Held(attempt, Disarm(attempt, reason)) /\ Owned(Disarm(attempt, reason), cap)
  BY StopHeld
<1>2. TargetsFit /\ Owned(attempt, cap) /\ {"Kept", "Edited"} \subseteq Reasons
  BY HandlerReasons DEF MInv
<1>3. CASE OpenWheel
  <2>1. /\ Render(Disarm(attempt, "Kept"))
        /\ UNCHANGED <<targets, cap, editor, delivery, begun, handed, ambient>>
    BY <1>3 DEF OpenWheel
  <2> QED BY <1>1, <1>2, <2>1 DEF HoldStep, Render, TargetsFit, delivery, ambient
<1>4. CASE HideWheel
  BY <1>2, <1>4 DEF HideWheel, IdleStep, TargetsFit, route, finding, delivery, promises, ambient
<1>5. CASE Edit
  <2>1. /\ Render(Disarm(attempt, "Edited"))
        /\ UNCHANGED <<finding, capture, delivery, begun, handed, ambient>>
    BY <1>5 DEF Edit
  <2> QED BY <1>1, <1>2, <2>1
          DEF HoldStep, Render, TargetsFit, finding, capture, delivery, ambient
<1>6. CASE LeaveEditor
  <2>1. /\ editor'.doc = editor.doc
        /\ UNCHANGED <<finding, cap, delivery, begun, handed, ambient>>
    BY <1>6 DEF LeaveEditor, IInv, CaptureType
  <2>2. Render(Disarm(attempt, "Kept")) \/ UNCHANGED route
    BY <1>6 DEF LeaveEditor
  <2> QED BY <1>1, <1>2, <2>1, <2>2
          DEF HoldStep, IdleStep, Render, TargetsFit, route, finding, delivery, ambient
<1>7. CASE ReturnToEditor
  <2>1. editor'.doc = editor.doc
    BY <1>7 DEF ReturnToEditor, IInv, CaptureType
  <2> QED BY <1>2, <1>7, <2>1
          DEF ReturnToEditor, IdleStep, TargetsFit, route, finding, delivery, promises, ambient
<1> QED BY <1>3, <1>4, <1>5, <1>6, <1>7

LEMMA CaptureHolds ==
    ASSUME IInv, MInv, Prepared \/ CaptureFailed \/ CaptureCancelled \/ OtherCompleted
    PROVE  HoldStep \/ IdleStep
<1>1. attempt \in Attempt /\ cap \in Captures /\ Owned(attempt, cap) /\ Held(attempt, attempt)
  BY UnmovedIsHeld DEF IInv, RouteType, CaptureType, MInv
<1>2. TargetsFit
  BY DEF MInv
<1>3. CASE Prepared
  <2>1. cap'.agent = cap.agent /\ cap'.phase = "Recording" /\ cap.phase = "Preparing"
    BY <1>1, <1>3 DEF Prepared, Captures
  <2>2. Owned(attempt, cap')
    BY <1>1, <2>1 DEF Owned
  <2> QED BY <1>2, <1>3, <2>2
          DEF Prepared, IdleStep, TargetsFit, route, finding, delivery, promises, ambient
<1>4. CASE CaptureFailed \/ CaptureCancelled
  <2>1. PICK reason \in Reasons : CaptureEnds(reason)
    BY <1>4, HandlerReasons DEF CaptureFailed, CaptureCancelled
  <2> DEFINE b == IF cap.agent # NoId THEN AbandonCapture(attempt, reason) ELSE attempt
  <2>2. /\ Render(b) /\ cap' = NoCapture
        /\ UNCHANGED <<finding, editor, delivery, promises, ambient>>
    BY <2>1 DEF CaptureEnds
  <2>3. Held(attempt, b)
    BY <1>1, AbandonHolds
  <2>4. b.phase \notin {"Recording", "Finalizing"}
    BY <1>1, AbandonHolds DEF Owned, Pending
  <2>5. Owned(b, NoCapture)
    BY <2>4 DEF Owned, NoCapture
  <2> HIDE DEF b
  <2> QED BY <1>2, <2>2, <2>3, <2>5
          DEF HoldStep, Render, TargetsFit, finding, delivery, promises, ambient
<1>5. CASE OtherCompleted
  <2>1. cap' = NoCapture /\ cap.agent = NoId
    BY <1>5 DEF OtherCompleted
  <2>2. Owned(attempt, NoCapture)
    BY <1>1, <2>1 DEF Owned, NoCapture
  <2> QED BY <1>2, <1>5, <2>1, <2>2
          DEF OtherCompleted, IdleStep, TargetsFit, route, finding, delivery, promises, ambient
<1> QED BY <1>3, <1>4, <1>5

\* The message is handed over: its one permission is used.
SendStep ==
    /\ attempt.phase = "Grace"
    /\ Submit(attempt) /\ Render(StartSubmission(attempt))
    /\ UNCHANGED <<cap, editor, targets, watches, fate, begun, incognito, closed>>

\* A tick holds the message, unless its countdown is due and its timing was kept.
LEMMA TickHolds ==
    ASSUME IInv, MInv, Tick
    PROVE  \/ HoldStep
           \/ SendStep /\ gap \in 0..1
<1> DEFINE late == LateFrame \/ RecordingTimedOut(attempt)
           a    == IF late THEN InterruptedAttempt(attempt, cap) ELSE attempt
           c    == IF late THEN InterruptedCapture(attempt, cap) ELSE cap
<1>1. attempt \in Attempt /\ cap \in Captures /\ Owned(attempt, cap) /\ TargetsFit
  BY DEF IInv, RouteType, CaptureType, MInv
<1>2. Held(attempt, a) /\ Owned(a, c)
  BY <1>1, UnmovedIsHeld, InterruptedOwned
<1>3. /\ cap' = c
      /\ IF Due(a)
         THEN /\ Render(TakeSubmission(a))
              /\ IF TooLate(a) THEN UNCHANGED <<flights, handed>> ELSE Submit(a)
         ELSE Render(a) /\ UNCHANGED <<flights, handed>>
      /\ UNCHANGED <<targets, editor, watches, fate, begun, incognito, closed>>
  BY DEF Tick
<1>4. late => a.phase # "Grace"
  BY <1>1, InterruptHalts DEF Halted
<1>5. ~late => a = attempt /\ c = cap
  OBVIOUS
<1>6. gap \in Int /\ (gap \notin 0..1 /\ attempt.phase = "Grace" => late)
  BY DEF LateFrame, IInv, AmbientType
<1> HIDE DEF a, c, late
<1>7. CASE ~Due(a)
  BY <1>1, <1>2, <1>3, <1>7 DEF HoldStep, Render, TargetsFit
<1>8. CASE Due(a)
  <2>1. ~late /\ a = attempt /\ cap' = cap /\ attempt.phase = "Grace"
    BY <1>3, <1>4, <1>5, <1>8 DEF Due
  <2>2. CASE TooLate(a)
    <3>1. TakeSubmission(a) = ToDraft(attempt, "Interrupted")
      BY <2>1, <2>2 DEF TakeSubmission
    <3>2. /\ Held(attempt, ToDraft(attempt, "Interrupted"))
      BY <1>1, <2>1, HandlerReasons, DraftHolds DEF Pending
    <3>3. ToDraft(attempt, "Interrupted").phase = "Draft"
      BY <1>1 DEF ToDraft, Attempt
    <3>4. Owned(ToDraft(attempt, "Interrupted"), cap)
      BY <1>1, <2>1, <3>2, <3>3, StoppedOwned
    <3> QED BY <1>1, <1>3, <1>8, <2>1, <2>2, <3>1, <3>2, <3>4 DEF HoldStep, Render, TargetsFit
  <2>3. CASE ~TooLate(a)
    <3>1. TakeSubmission(a) = StartSubmission(attempt)
      BY <2>1, <2>3 DEF TakeSubmission
    <3> QED BY <1>3, <1>6, <1>8, <2>1, <2>3, <3>1 DEF SendStep
  <2> QED BY <2>2, <2>3
<1> QED BY <1>7, <1>8

-----------------------------------------------------------------------------
(* Beginning a message, and recognizing it                                  *)

\* What recognition says of the text it was given.
LEMMA RecognizedText ==
    ASSUME NEW a \in Attempt, NEW id, NEW text \in Text, NEW doc \in Nat, NEW row \in Nat,
           Accepts(a, id), NEW b, b = Recognized(a, id, text, doc, row)
    PROVE  /\ b.text = text
           /\ b.phase = "Grace" => text # "empty" /\ ~TooLong(text, a.via)
           /\ b.phase = "Draft" /\ text # "empty" /\ a.disarmed # "Empty" => b.reason \in Reasons
<1> DEFINE reason == RecognizedReason(a, text)
<1>1. reason = NoReason => text # "empty" /\ ~TooLong(text, a.via)
  BY DEF RecognizedReason, NoReason
<1>2. reason # NoReason /\ text # "empty" /\ a.disarmed # "Empty" => reason \in Reasons
  BY DEF RecognizedReason, Reasons, DraftReason, NoReason, Attempt
<1>3. CASE reason = NoReason
  <2>1. b = [a EXCEPT !.text = text, !.doc = doc, !.row = row, !.phase = "Grace",
                      !.left = CancelWindow]
    BY <1>3 DEF Recognized, Attempt
  <2> QED BY <1>1, <1>3, <2>1 DEF Attempt
<1>4. CASE reason # NoReason
  <2>1. b = [a EXCEPT !.text = text, !.doc = doc, !.row = row, !.phase = "Draft",
                      !.reason = reason]
    BY <1>4 DEF Recognized, Attempt
  <2> HIDE DEF reason
  <2> QED BY <1>2, <1>4, <2>1 DEF Attempt
<1> QED BY <1>3, <1>4

\* Another attempt: a recording, a capture that could not start, or the draft
\* on screen once more.
BeginStep ==
    /\ attempt.phase \notin Pending \cup {"Submitting"} /\ begun < MaxAttempts
    /\ begun' = begun + 1 /\ attempt' \in Attempt /\ attempt'.id = begun + 1
    /\ RouteFits(attempt') /\ attempt'.disarmed # "Empty"
    /\ attempt'.phase \in Pending => attempt'.disarmed = NoReason
    /\ \/ /\ attempt'.phase \in {"Recording", "Draft"}
          /\ attempt'.text = "empty" /\ attempt'.doc = NoId /\ attempt'.row = NoId
       \/ /\ attempt'.phase \in {"Grace", "Draft"}
          /\ attempt.phase = "Draft" /\ attempt.text # "empty" /\ editor.doc # NoId
          /\ attempt'.doc = editor.doc /\ attempt'.row = attempt.row
    /\ Report(attempt', rows, incognito) /\ Owned(attempt', cap') /\ TargetsFit'
    /\ UNCHANGED <<editor, flights, watches, fate, handed, incognito, closed>>

LEMMA BeginningBegins ==
    ASSUME IInv, MInv, \/ \E started \in BOOLEAN : AgentPress(started)
                       \/ \E text \in Spoken : SendDraft(text)
    PROVE  BeginStep
<1> DEFINE id == begun + 1
           new == Begun(id, selected, SelectedSighting)
<1>1. /\ attempt \in Attempt /\ cap \in Captures /\ Owned(attempt, cap) /\ TargetsFit
      /\ begun \in Nat
  BY AgentRouteAssumption DEF IInv, RouteType, CaptureType, PromiseType, MInv
<1>2. MayStart => /\ selected \in Session /\ SelectedSighting \in Reachable
                  /\ SelectedSighting \in SightingOf(selected)
                  /\ attempt.phase \notin Pending \cup {"Submitting"}
  BY DEF MayStart, MayBegin, CanReceive, SelectedSighting, IInv, ChoiceType, MInv, TargetsFit
<1>3. MayStart => /\ new \in Attempt /\ new.phase = "Recording" /\ new.id = id
                  /\ new.session = selected /\ new.via = SelectedSighting
                  /\ new.disarmed = NoReason /\ new.row = 0 /\ new.doc = 0 /\ new.text = "empty"
  <2>1. new.doc = 0 /\ new.text = "empty"
    BY DEF Begun
  <2>2. MayStart => id \in Nat /\ selected \in Session /\ SelectedSighting \in Sighting
    BY <1>1, <1>2 DEF Sighting
  <2> HIDE DEF id
  <2> QED BY <2>1, <2>2, BegunAttempt
<1>4. NoReason # "Empty" /\ id # NoId
  BY <1>1 DEF NoReason, NoId
<1> HIDE DEF new
<1>5. CASE \E started \in BOOLEAN : AgentPress(started)
  <2>1. PICK started \in BOOLEAN : AgentPress(started)
    BY <1>5
  <2> DEFINE b == IF started THEN new ELSE AbandonCapture(new, "Interrupted")
  <2>2. /\ MayStart /\ begun < MaxAttempts /\ begun' = id /\ Render(b) /\ cap.phase = "None"
        /\ cap' = IF started THEN [phase |-> "Preparing", agent |-> id] ELSE cap
        /\ UNCHANGED <<finding, editor, delivery, handed, ambient>>
    BY <2>1 DEF AgentPress, Promise, new
  <2>3. /\ Held(new, b) /\ b.phase = IF started THEN "Recording" ELSE "Draft"
    BY <1>3, <2>2, HandlerReasons, UnmovedIsHeld, AbandonHolds DEF Pending
  <2>4. b.doc = NoId /\ b.row = NoId /\ b.text = "empty" /\ b.id = id /\ b \in Attempt
    BY <1>3, <2>2, <2>3 DEF Held, Follows, NoId
  <2>5. RouteFits(new)
    BY <1>2, <1>3, <2>2 DEF RouteFits
  <2>6. RouteFits(b)
    BY <1>2, <1>3, <2>2, <2>3, <2>5, HeldFits
  <2>7. b.disarmed # "Empty" /\ (b.phase \in Pending => b.disarmed = NoReason)
    BY <1>3, <1>4, <2>2, <2>3 DEF Held, Pending
  <2>8. Owned(b, cap')
    BY <1>1, <1>4, <2>2, <2>3, <2>4 DEF Owned
  <2> HIDE DEF b
  <2> QED BY <1>1, <1>2, <2>2, <2>3, <2>4, <2>6, <2>7, <2>8
          DEF BeginStep, Render, TargetsFit, finding, delivery, ambient
<1>6. CASE \E text \in Spoken : SendDraft(text)
  <2>1. PICK text \in Spoken : SendDraft(text)
    BY <1>6
  <2> DEFINE free == Release(new)
             b == Recognized(free, id, text, editor.doc, attempt.row)
  <2>2. /\ MayStart /\ begun < MaxAttempts /\ begun' = id /\ Render(b)
        /\ editor.mapped /\ attempt.phase = "Draft" /\ attempt.text # "empty"
        /\ UNCHANGED <<finding, cap, editor, delivery, handed, ambient>>
    BY <2>1 DEF SendDraft, Promise, new
  <2>3. Held(new, free) /\ free.phase = "Finalizing" /\ free.disarmed = NoReason
    BY <1>3, <2>2, ReleaseHolds, ReleaseFollows
  <2>4. /\ Accepts(free, id) /\ free \in Attempt /\ free.session = selected
        /\ free.via \in SightingOf(selected)
    BY <1>2, <1>3, <2>2, <2>3 DEF Accepts, Held, Follows
  <2>5. /\ text \in Text /\ editor.doc \in Nat /\ editor.doc # NoId /\ attempt.row \in Nat
    BY <2>2, AgentRouteAssumption DEF IInv, CaptureType, Permission
  <2> HIDE DEF free
  <2>6. /\ b \in Attempt /\ b.id = free.id /\ b.session = free.session /\ b.via = free.via
        /\ b.doc = editor.doc /\ b.row = attempt.row /\ b.disarmed = free.disarmed
        /\ b.phase \in {"Grace", "Draft"}
    BY <2>4, <2>5, RecognizedAttempt
  <2>7. b.text = text /\ (b.phase = "Grace" => text # "empty" /\ ~TooLong(text, free.via))
    BY <2>4, <2>5, RecognizedText
  <2> HIDE DEF b
  <2>8. RouteFits(b)
    BY <2>4, <2>6, <2>7 DEF RouteFits, Pending
  <2>9. cap.agent = NoId
    BY <1>1, <2>2 DEF Owned
  <2>10. Owned(b, cap)
    BY <2>6, <2>9 DEF Owned
  <2>11. b.id = id
    BY <2>4, <2>6 DEF Accepts
  <2> QED BY <1>1, <1>2, <1>4, <2>2, <2>3, <2>5, <2>6, <2>8, <2>10, <2>11
          DEF BeginStep, Render, TargetsFit, finding, delivery, ambient
<1> QED BY <1>5, <1>6

\* A capture of the agent's is recognized: its text has the attempt's own number,
\* in the editor and in History, where it is written before the step is.
CompleteStep ==
    /\ attempt.phase = "Finalizing" /\ attempt.id \in Id
    /\ attempt' \in Attempt /\ attempt'.id = attempt.id /\ attempt'.doc = attempt.id
    /\ attempt'.phase \in {"Grace", "Draft"} /\ RouteFits(attempt')
    /\ attempt'.row \in {NoId, attempt.id} /\ (attempt'.row # NoId => ~incognito)
    /\ attempt'.phase = "Grace" => attempt.disarmed = NoReason /\ attempt'.disarmed = NoReason
    /\ attempt.disarmed # "Empty" => attempt'.disarmed # "Empty"
    /\ editor'.doc \in {attempt.id, NoId}
    /\ \E word \in {"no-speech", "ready"} :
          /\ word = "ready" /\ attempt'.phase = "Draft" /\ attempt.disarmed # "Empty"
                => attempt'.reason \in Reasons
          /\ Report(attempt', IF attempt'.row = NoId THEN rows
                              ELSE [rows EXCEPT ![attempt.id] = word], incognito)
    /\ Owned(attempt', cap')
    /\ UNCHANGED <<targets, flights, watches, fate, begun, handed, incognito, closed>>

LEMMA CompletionCompletes ==
    ASSUME IInv, MInv, \E text \in Spoken, saved, shown \in BOOLEAN : AgentCompleted(text, saved, shown)
    PROVE  CompleteStep
<1>1. PICK text \in Spoken, saved \in BOOLEAN, shown \in BOOLEAN : AgentCompleted(text, saved, shown)
  OBVIOUS
<1> DEFINE id   == cap.agent
           row  == IF saved THEN id ELSE NoId
           seen == IF shown THEN attempt ELSE Disarm(attempt, "Interrupted")
           read == Recognized(seen, id, text, id, row)
           kept == IF shown THEN read ELSE Disarm(read, "Interrupted")
           word == IF text = "empty" THEN "no-speech" ELSE "ready"
           base == IF saved THEN [rows EXCEPT ![id] = word] ELSE rows
<1>2. /\ cap.agent # NoId /\ cap.phase = "Processing" /\ (saved => ~incognito)
      /\ cap' = NoCapture
      /\ IF Accepts(attempt, id)
         THEN /\ attempt' = kept /\ Report(kept, base, incognito)
              /\ editor' = [doc |-> IF shown THEN id ELSE NoId, mapped |-> shown]
         ELSE attempt' = attempt /\ rows' = base /\ UNCHANGED <<reported, editor>>
      /\ UNCHANGED <<targets, flights, watches, fate, begun, handed, incognito, closed>>
  BY <1>1 DEF AgentCompleted, finding, delivery, promises, ambient
<1>3. attempt \in Attempt /\ Owned(attempt, cap) /\ RouteFits(attempt)
  BY DEF IInv, RouteType, MInv
<1>4. id = attempt.id /\ attempt.phase = "Finalizing" /\ Accepts(attempt, id)
  BY <1>2, <1>3 DEF Owned, Accepts
<1>5. id \in Id /\ id \in Nat /\ row \in Nat /\ text \in Text /\ attempt.session \in Session
      /\ attempt.via \in Reachable
  BY <1>2, <1>4, AgentRouteAssumption DEF IInv, CaptureType, Captures, Permission, Pending, Id, NoId
<1>6. /\ Held(attempt, seen) /\ seen.phase = "Finalizing"
      /\ shown => seen = attempt
      /\ ~shown => seen.disarmed # NoReason
  BY <1>3, <1>4, HandlerReasons, DisarmHolds, DisarmHalts, UnmovedIsHeld
     DEF Held, Halted, Pending, Reasons
<1>7. seen \in Attempt /\ Accepts(seen, id) /\ RouteFits(seen)
  BY <1>3, <1>4, <1>5, <1>6, HeldFits DEF Held, Follows, Accepts
<1> HIDE DEF seen
<1>8. /\ read \in Attempt /\ read.id = seen.id /\ read.session = seen.session
      /\ read.via = seen.via /\ read.doc = id /\ read.row = row /\ read.disarmed = seen.disarmed
      /\ read.phase \in {"Grace", "Draft"} /\ (read.phase = "Grace" => seen.disarmed = NoReason)
  BY <1>5, <1>7, RecognizedAttempt
<1>9. /\ read.text = text
      /\ read.phase = "Grace" => text # "empty" /\ ~TooLong(text, seen.via)
      /\ read.phase = "Draft" /\ text # "empty" /\ seen.disarmed # "Empty" => read.reason \in Reasons
  BY <1>5, <1>7, RecognizedText
<1> HIDE DEF read
<1>10. RouteFits(read)
  BY <1>6, <1>7, <1>8, <1>9 DEF RouteFits, Pending
<1>11. kept = read
  BY <1>6, <1>8 DEF Disarm
<1>12. attempt.disarmed # "Empty" => seen.disarmed # "Empty"
  BY <1>6 DEF Held
<1>13. Owned(read, NoCapture)
  BY <1>8 DEF Owned, NoCapture
<1>14. base = IF read.row = NoId THEN rows ELSE [rows EXCEPT ![attempt.id] = word]
  BY <1>2, <1>4, <1>8
<1>15. word = "ready" /\ read.phase = "Draft" /\ attempt.disarmed # "Empty"
          => read.reason \in Reasons
  BY <1>9, <1>12
<1>16. word \in {"no-speech", "ready"}
  OBVIOUS
<1>17. editor'.doc \in {attempt.id, NoId}
  BY <1>2, <1>4
<1>18. /\ read.phase = "Grace" => attempt.disarmed = NoReason /\ read.disarmed = NoReason
       /\ attempt.disarmed # "Empty" => read.disarmed # "Empty"
       /\ read.row \in {NoId, attempt.id} /\ (read.row # NoId => ~incognito)
       /\ read.id = attempt.id
  BY <1>2, <1>4, <1>6, <1>8, <1>12 DEF Held, Follows
<1>19. attempt' = read /\ Report(read, base, incognito)
  BY <1>2, <1>4, <1>11
<1> HIDE DEF word, base
<1> QED BY <1>2, <1>4, <1>5, <1>8, <1>10, <1>13, <1>14, <1>15, <1>16, <1>17, <1>18, <1>19
        DEF CompleteStep

-----------------------------------------------------------------------------
(* Every kind of step keeps the delivery invariant                          *)

LEMMA MInvInit == Init => MInv
<1> SUFFICES ASSUME Init PROVE MInv
  OBVIOUS
<1>1. NoAttempt.doc = 0 /\ NoAttempt.text = "empty"
  <2>1. Begun(NoId, NoSession, "missing") \in Attempt
    BY BegunAttempt DEF NoId, Sighting
  <2>2. Begun(NoId, NoSession, "missing").doc = 0 /\ Begun(NoId, NoSession, "missing").text = "empty"
    BY DEF Begun
  <2> QED BY <2>1, <2>2 DEF NoAttempt, Attempt
<1>2. /\ attempt.phase = "None" /\ attempt.doc = 0 /\ attempt.text = "empty"
      /\ cap.agent = NoId /\ flights = {} /\ watches = {} /\ begun = 0
      /\ targets = [s \in Session |-> "missing"] /\ fate = [d \in Id |-> "unsent"]
  BY <1>1, NoAttemptIsAttempt DEF Init, NoCapture
<1>3. Owned(attempt, cap) /\ RouteFits(attempt)
  BY <1>2 DEF Owned, RouteFits, Pending
<1>4. TargetsFit
  BY <1>2 DEF TargetsFit, SightingOf, Sighting
<1>5. FlightInv /\ EditorInv
  BY <1>2 DEF FlightInv, EditorInv
<1>6. FateInv
  BY <1>2 DEF FateInv
<1> QED BY <1>3, <1>4, <1>5, <1>6 DEF MInv

\* A message on its way has no capture.
LEMMA NoCaptureInFlight ==
    ASSUME IInv, MInv, attempt.phase \in {"Submitting", "Grace"}
    PROVE  cap.agent = NoId
BY DEF MInv, Owned, IInv, CaptureType, Captures, CapturePhase

LEMMA HoldKeeps ==
    ASSUME IInv, MInv, HoldStep
    PROVE  MInv'
<1>1. attempt \in Attempt /\ Held(attempt, attempt') /\ RouteFits(attempt)
  BY DEF IInv, RouteType, HoldStep, MInv
<1>2. RouteFits(attempt')
  BY <1>1, HeldFits DEF IInv, Permission
<1>3. /\ attempt'.id = attempt.id /\ attempt'.doc = attempt.doc /\ attempt'.text = attempt.text
      /\ attempt'.phase \in {attempt.phase, "Draft"}
            \/ (attempt.phase = "Recording" /\ attempt'.phase = "Finalizing")
      /\ attempt.phase \notin Pending => attempt' = attempt
  BY <1>1 DEF Held, Follows
<1>4. UNCHANGED <<flights, watches, fate, begun, closed>> /\ editor'.doc = editor.doc
  BY DEF HoldStep
<1>5. FlightInv'
  BY <1>3, <1>4 DEF MInv, FlightInv, Pending
<1>6. FateInv'
  BY <1>3, <1>4 DEF MInv, FateInv, EditorInv, Pending
<1>7. EditorInv'
  BY <1>3, <1>4 DEF MInv, EditorInv
<1> QED BY <1>2, <1>5, <1>6, <1>7 DEF HoldStep, MInv

\* b is a but for its times and whether it is known to be taken.
Alike(a, b) ==
    /\ b \in Attempt /\ b.id = a.id /\ b.session = a.session /\ b.via = a.via
    /\ b.phase = a.phase /\ b.reason = a.reason /\ b.disarmed = a.disarmed
    /\ b.text = a.text /\ b.doc = a.doc /\ b.row = a.row

LEMMA AlikeKeeps ==
    ASSUME IInv, MInv, Alike(attempt, attempt'), Owned(attempt', cap'), TargetsFit',
           editor'.doc = editor.doc, UNCHANGED <<flights, watches, fate, begun, closed>>
    PROVE  MInv'
<1>1. RouteFits(attempt')
  BY DEF MInv, RouteFits, Alike
<1>2. FlightInv'
  BY DEF MInv, FlightInv, Alike
<1>3. FateInv'
  BY DEF MInv, FateInv, Alike
<1>4. EditorInv'
  BY DEF MInv, EditorInv, Alike
<1> QED BY <1>1, <1>2, <1>3, <1>4 DEF MInv

LEMMA IdleKeeps ==
    ASSUME IInv, MInv, IdleStep
    PROVE  MInv'
<1>1. Alike(attempt, attempt')
  BY DEF IdleStep, route, Alike, IInv, RouteType
<1> QED BY <1>1, AlikeKeeps DEF IdleStep

LEMMA BeginKeeps ==
    ASSUME IInv, MInv, BeginStep
    PROVE  MInv'
<1>1. begun \in Nat /\ MaxAttempts \in Nat /\ begun + 1 \in Id
  BY AgentRouteAssumption DEF IInv, PromiseType, BeginStep, Id
<1>2. flights = {} /\ attempt'.phase # "Submitting"
  BY DEF BeginStep, MInv, FlightInv
<1>3. attempt.text # "empty" /\ editor.doc # NoId => editor.doc = attempt.doc
  BY DEF MInv, EditorInv
<1>4. FlightInv'
  BY <1>2 DEF BeginStep, FlightInv
<1>5. EditorInv'
  BY <1>1, <1>3 DEF BeginStep, MInv, EditorInv, NoId
<1>6. FateInv'
  <2>1. UNCHANGED <<flights, watches, fate>> /\ begun' = begun + 1 /\ attempt'.id = begun + 1
    BY DEF BeginStep
  <2>2. fate[begun + 1] = "unsent"
    BY <1>1 DEF MInv, FateInv
  <2>3. attempt'.phase \in {"Grace", "Draft"} /\ attempt'.doc # NoId => fate[attempt'.doc] = "unsent"
    BY <1>3 DEF BeginStep, MInv, FateInv
  <2>4. \A d \in Id : d > begun + 1 => d > begun
    BY <1>1 DEF Id
  <2> QED BY <2>1, <2>2, <2>3, <2>4 DEF MInv, FateInv
<1> QED BY <1>4, <1>5, <1>6 DEF BeginStep, MInv

LEMMA CompletionKeeps ==
    ASSUME IInv, MInv, CompleteStep
    PROVE  MInv'
<1>1. flights = {} /\ attempt'.phase # "Submitting"
  BY DEF CompleteStep, MInv, FlightInv
<1>2. attempt.id \in 1..begun
  BY DEF CompleteStep, IInv, Permission
<1>3. TargetsFit'
  BY DEF CompleteStep, MInv, TargetsFit
<1>4. FlightInv'
  BY <1>1 DEF CompleteStep, FlightInv
<1>5. FateInv'
  BY DEF CompleteStep, MInv, FateInv
<1>6. EditorInv'
  BY <1>2 DEF CompleteStep, EditorInv, NoId
<1> QED BY <1>3, <1>4, <1>5, <1>6 DEF CompleteStep, MInv

LEMMA SendKeeps ==
    ASSUME IInv, MInv, SendStep
    PROVE  MInv'
<1> DEFINE f == FlightOf(attempt)
<1>1. attempt \in Attempt /\ attempt.phase = "Grace" /\ attempt.doc \in Id
  BY DEF IInv, RouteType, SendStep, Permission
<1>2. attempt' = [attempt EXCEPT !.phase = "Submitting", !.left = 0]
  BY DEF SendStep, Render, StartSubmission
<1>3. /\ attempt'.phase = "Submitting" /\ attempt'.id = attempt.id /\ attempt'.via = attempt.via
      /\ attempt'.text = attempt.text /\ attempt'.doc = attempt.doc /\ attempt'.row = attempt.row
      /\ attempt'.session = attempt.session
  BY <1>1, <1>2 DEF Attempt
<1>4. flights = {} /\ flights' = {f}
  BY <1>1 DEF SendStep, Submit, MInv, FlightInv
<1>5. /\ f.id = attempt.id /\ f.via = attempt.via /\ f.text = attempt.text
      /\ f.doc = attempt.doc /\ f.row = attempt.row /\ f.result = "none"
  BY DEF FlightOf
<1>6. UNCHANGED <<cap, editor, targets, watches, fate, begun>>
  BY DEF SendStep
<1> HIDE DEF f
<1>7. Owned(attempt', cap')
  BY <1>1, <1>3, <1>6, NoCaptureInFlight DEF Owned
<1>8. RouteFits(attempt')
  BY <1>1, <1>3 DEF MInv, RouteFits, Pending
<1>9. FlightInv'
  BY <1>3, <1>4, <1>5 DEF FlightInv
<1>10. FateInv'
  <2>1. fate[attempt.doc] = "unsent" /\ FateWord(f) = "unsent"
    BY <1>1, <1>5 DEF MInv, FateInv, FateWord, Id, NoId
  <2> QED BY <1>3, <1>4, <1>5, <1>6, <2>1 DEF MInv, FateInv
<1>11. EditorInv' /\ TargetsFit'
  BY <1>1, <1>3, <1>6 DEF MInv, EditorInv, TargetsFit
<1> QED BY <1>7, <1>8, <1>9, <1>10, <1>11 DEF MInv

LEMMA OtherKeeps ==
    ASSUME IInv, MInv, \E started \in BOOLEAN : StartOther(started)
    PROVE  MInv'
<1>1. PICK started \in BOOLEAN : StartOther(started)
  OBVIOUS
<1>2. /\ cap.phase = "None"
      /\ attempt' = IF attempt.phase = "Submitting" THEN attempt ELSE NoAttempt
      /\ cap' = IF started THEN [phase |-> "Preparing", agent |-> NoId] ELSE cap
      /\ UNCHANGED <<targets, editor, flights, watches, fate, begun, closed>>
  BY <1>1 DEF StartOther, finding, delivery, ambient
<1>3. cap'.agent = NoId
  BY <1>2 DEF MInv, Owned
<1>4. NoAttempt.phase = "None" /\ NoAttempt.doc = NoId /\ NoAttempt.text = "empty"
  <2>1. Begun(NoId, NoSession, "missing") \in Attempt
    BY BegunAttempt DEF NoId, Sighting
  <2>2. Begun(NoId, NoSession, "missing").doc = NoId /\ Begun(NoId, NoSession, "missing").text = "empty"
    BY DEF Begun, NoId
  <2> QED BY <2>1, <2>2, NoAttemptIsAttempt DEF NoAttempt, Attempt
<1>5. begun \in Nat
  BY AgentRouteAssumption DEF IInv, PromiseType
<1>6. CASE attempt.phase = "Submitting"
  BY <1>2, <1>3, <1>6 DEF MInv, Owned, RouteFits, TargetsFit, FlightInv, FateInv, EditorInv, Pending
<1>7. CASE attempt.phase # "Submitting"
  <2>1. attempt' = NoAttempt /\ flights = {}
    BY <1>2, <1>7 DEF MInv, FlightInv
  <2>2. Owned(attempt', cap') /\ RouteFits(attempt') /\ TargetsFit'
    BY <1>2, <1>3, <1>4, <2>1 DEF MInv, Owned, RouteFits, TargetsFit, Pending
  <2>3. FlightInv' /\ FateInv'
    BY <1>2, <1>4, <2>1 DEF MInv, FlightInv, FateInv
  <2>4. EditorInv'
    BY <1>2, <1>4, <1>5, <2>1 DEF EditorInv, NoId
  <2> QED BY <2>2, <2>3, <2>4 DEF MInv
<1> QED BY <1>6, <1>7

LEMMA CloseHolds ==
    ASSUME IInv, MInv, Close
    PROVE  /\ Held(attempt, attempt') /\ attempt'.phase \notin Pending
           /\ cap' = NoCapture /\ watches' = {} /\ closed'
           /\ UNCHANGED <<reported, rows, targets, editor, flights, fate, begun, handed, incognito>>
<1>1. Held(attempt, attempt') /\ attempt'.phase \notin Pending
  BY AbandonHolds, HandlerReasons DEF Close, IInv, RouteType, Pending
<1> QED BY <1>1 DEF Close

LEMMA CloseKeeps ==
    ASSUME IInv, MInv, Close
    PROVE  MInv'
<1>1. /\ Held(attempt, attempt') /\ attempt'.phase \notin Pending
      /\ cap' = NoCapture /\ watches' = {} /\ closed'
      /\ UNCHANGED <<targets, editor, flights, fate, begun>>
  BY CloseHolds
<1>2. attempt \in Attempt /\ RouteFits(attempt)
  BY DEF IInv, RouteType, MInv
<1>3. RouteFits(attempt')
  BY <1>1, <1>2, HeldFits DEF IInv, Permission
<1>4. Owned(attempt', cap')
  BY <1>1 DEF Owned, NoCapture, Pending
<1>5. /\ attempt'.id = attempt.id /\ attempt'.doc = attempt.doc /\ attempt'.text = attempt.text
      /\ attempt'.phase \in {attempt.phase, "Draft"}
            \/ (attempt.phase = "Recording" /\ attempt'.phase = "Finalizing")
      /\ attempt.phase \notin Pending => attempt' = attempt
  BY <1>1 DEF Held, Follows
<1>6. FlightInv'
  BY <1>1, <1>5 DEF MInv, FlightInv, Pending
<1>7. FateInv'
  BY <1>1, <1>5 DEF MInv, FateInv, EditorInv, Pending
<1>8. EditorInv' /\ TargetsFit'
  BY <1>1, <1>5 DEF MInv, EditorInv, TargetsFit
<1> QED BY <1>3, <1>4, <1>6, <1>7, <1>8 DEF MInv

LEMMA ClockIsAlike ==
    ASSUME IInv, Elapse \/ SetBack
    PROVE  /\ Alike(attempt, attempt') /\ attempt'.taken = attempt.taken
           /\ UNCHANGED <<reported, rows, choice, finding, capture, delivery, promises,
                          incognito, closed>>
<1>1. PICK by \in {-1, 1} : MoveClock(by)
  BY DEF Elapse, SetBack
<1> DEFINE left == IF attempt.phase = "Grace" THEN attempt.left - by ELSE attempt.left
           age  == IF attempt.phase = "Recording" /\ attempt.age + by >= 0
                   THEN attempt.age + by ELSE attempt.age
<1>2. attempt \in Attempt /\ left \in Int /\ age \in Int
  BY DEF IInv, RouteType, Attempt
<1>3. attempt' = [attempt EXCEPT !.left = left, !.age = age]
  BY <1>1, <1>2 DEF MoveClock, Attempt
<1> HIDE DEF left, age
<1>4. Alike(attempt, attempt') /\ attempt'.taken = attempt.taken
  BY <1>2, <1>3 DEF Alike, Attempt
<1> QED BY <1>1, <1>4 DEF MoveClock

LEMMA ClockKeeps ==
    ASSUME IInv, MInv, Elapse \/ SetBack
    PROVE  MInv'
<1>1. /\ Alike(attempt, attempt')
      /\ UNCHANGED <<finding, capture, delivery, promises, closed>>
  BY ClockIsAlike
<1>2. Owned(attempt', cap')
  BY <1>1 DEF MInv, Owned, Alike, capture
<1> QED BY <1>1, <1>2, AlikeKeeps
        DEF MInv, TargetsFit, finding, capture, delivery, promises

\* The transport writes the message, and says what it did: the fate of its text.
LEMMA TransmitKeeps ==
    ASSUME IInv, MInv, NEW f \in flights, NEW outcome \in Outcomes, Transmit(f, outcome)
    PROVE  MInv'
<1> DEFINE g == [f EXCEPT !.result = outcome]
<1>1. /\ f.result = "none" /\ flights' = (flights \ {f}) \cup {g}
      /\ fate' = [fate EXCEPT ![f.doc] = FateOf(f, outcome)]
      /\ UNCHANGED <<route, finding, capture, watches, promises, ambient>>
  BY DEF Transmit
<1>2. f \in Flight /\ fate \in [Id -> Sent \cup {"unsent"}] /\ \A w \in watches : w.doc \in Id
  BY DEF IInv, DeliveryType, Watch
<1>3. /\ g.id = f.id /\ g.via = f.via /\ g.text = f.text /\ g.doc = f.doc /\ g.row = f.row
      /\ g.result = outcome /\ f.doc \in Id
  BY <1>2 DEF Flight
<1> HIDE DEF g
<1>4. flights' = {g} /\ attempt.phase = "Submitting" /\ f.doc = attempt.doc
  BY <1>1 DEF MInv, FlightInv
<1>5. fate[f.doc] = "unsent"
  BY <1>1 DEF MInv, FateInv, FateWord
<1>6. fate'[g.doc] = FateWord(g)
  BY <1>1, <1>2, <1>3, <1>5 DEF FateOf, FateWord
<1>7. \A d \in Id : d # f.doc => fate'[d] = fate[d]
  BY <1>1, <1>2
<1>8. attempt.doc <= begun /\ begun \in Nat
  BY AgentRouteAssumption DEF MInv, EditorInv, IInv, PromiseType
<1>9. FlightInv'
  BY <1>1, <1>3, <1>4 DEF MInv, FlightInv, route, ambient
<1>10. FateInv'
  <2>1. \A w \in watches : fate'[w.doc] # "unsent" /\ \A h \in flights' : h.doc # w.doc
    BY <1>2, <1>3, <1>4, <1>7 DEF MInv, FateInv
  <2>2. \A d \in Id : d > begun => fate'[d] = "unsent"
    <3> SUFFICES ASSUME NEW d \in Id, d > begun PROVE fate'[d] = "unsent"
      OBVIOUS
    <3>1. d # f.doc
      BY <1>4, <1>8 DEF Id, MInv, EditorInv
    <3> QED BY <1>7, <3>1 DEF MInv, FateInv
  <2> QED BY <1>1, <1>4, <1>6, <2>1, <2>2 DEF FateInv, route, promises
<1> QED BY <1>1, <1>9, <1>10
        DEF MInv, Owned, RouteFits, TargetsFit, EditorInv, route, finding, capture, promises

\* What the outcome of a delivery makes of its attempt.
LEMMA DeliveredOutcome ==
    ASSUME NEW a \in Attempt, NEW id, NEW outcome \in SendOutcome,
           a.id = id, a.phase = "Submitting", NEW b, b = Delivered(a, id, outcome)
    PROVE  /\ b \in Attempt /\ b.id = a.id /\ b.session = a.session /\ b.via = a.via
           /\ b.text = a.text /\ b.doc = a.doc /\ b.row = a.row /\ b.disarmed = a.disarmed
           /\ b.phase = Settled(outcome) /\ b.taken = (outcome = "Taken")
           /\ b.phase = "Draft" => b.reason = outcome /\ outcome \in {"Busy", "Rejected"}
<1> DEFINE reason == IF Settled(outcome) = "Draft" THEN outcome ELSE NoReason
<1>1. b = [a EXCEPT !.phase = Settled(outcome), !.taken = (outcome = "Taken"), !.reason = reason]
  BY DEF Delivered
<1>2. b \in Attempt
  BY DeliveredFollows DEF Follows
<1>3. Settled(outcome) = "Draft" => outcome \in {"Busy", "Rejected"} /\ reason = outcome
  BY DEF Settled, SendOutcome
<1> HIDE DEF reason
<1> QED BY <1>1, <1>2, <1>3 DEF Attempt

LEMMA ReceiveKeeps ==
    ASSUME IInv, MInv, NEW f \in flights, Receive(f)
    PROVE  MInv'
<1>1. /\ f.result # "none" /\ flights' = flights \ {f}
      /\ UNCHANGED <<finding, capture, fate, promises, ambient>>
  BY DEF Receive
<1>2. /\ f \in Flight /\ f.result \in SendOutcome /\ f.doc \in Id
      /\ attempt \in Attempt
  BY <1>1 DEF IInv, DeliveryType, Flight, RouteType
<1>3. /\ flights' = {} /\ attempt.phase = "Submitting" /\ f.id = attempt.id
      /\ f.doc = attempt.doc /\ fate[f.doc] = FateWord(f)
  BY <1>1 DEF MInv, FlightInv, FateInv
<1>4. cap.agent = NoId
  BY <1>3, NoCaptureInFlight
<1>5. CASE closed
  <2>1. UNCHANGED <<route, watches>>
    BY <1>5 DEF Receive
  <2>2. FlightInv' /\ FateInv'
    BY <1>1, <1>3, <1>5, <2>1 DEF MInv, FlightInv, FateInv, route, ambient, promises
  <2> QED BY <1>1, <2>1, <2>2
          DEF MInv, Owned, RouteFits, TargetsFit, EditorInv, route, finding, capture, promises
<1>6. CASE ~closed
  <2>1. attempt' = Delivered(attempt, f.id, f.result)
    BY <1>6 DEF Receive, Render
  <2>2. /\ attempt'.phase = Settled(f.result) /\ attempt'.text = attempt.text
        /\ attempt'.doc = attempt.doc
        /\ attempt'.phase = "Draft" => f.result \in {"Busy", "Rejected"}
    BY <1>2, <1>3, <2>1, DeliveredOutcome
  <2>3. attempt'.phase \in {"Delivered", "Held", "Unconfirmed", "Draft"}
    BY <2>2 DEF Settled
  <2>4. watches' \subseteq watches \cup {[id |-> f.id, doc |-> f.doc, row |-> f.row]}
        /\ (watches' # watches => f.result = "Accepted" /\ f.via = "queue")
    BY <1>6 DEF Receive
  <2>5. Owned(attempt', cap') /\ RouteFits(attempt')
    BY <1>1, <1>4, <2>3 DEF Owned, RouteFits, Pending, capture
  <2>6. FlightInv'
    BY <1>3, <2>3 DEF FlightInv
  <2>7. FateInv'
    <3>1. attempt'.phase = "Draft" => fate[attempt.doc] = "unsent"
      BY <1>3, <2>2 DEF FateWord
    <3>2. \A w \in watches' : fate[w.doc] # "unsent"
      BY <1>3, <2>4 DEF MInv, FateInv, FateWord, LevelWord
    <3> QED BY <1>1, <1>3, <2>2, <2>3, <3>1, <3>2 DEF MInv, FateInv, promises
  <2>8. EditorInv' /\ TargetsFit'
    BY <1>1, <2>2, <2>3 DEF MInv, EditorInv, TargetsFit, capture, promises, finding
  <2> QED BY <2>5, <2>6, <2>7, <2>8 DEF MInv
<1> QED BY <1>5, <1>6

LEMMA TakenIsAlike ==
    ASSUME NEW a \in Attempt, NEW id
    PROVE  Alike(a, TakenBy(a, id))
<1>1. CASE LearnsTaken(a, id)
  <2>1. TakenBy(a, id) = [a EXCEPT !.taken = TRUE]
    BY <1>1 DEF TakenBy
  <2> QED BY <2>1 DEF Alike, Attempt
<1>2. CASE ~LearnsTaken(a, id)
  BY <1>2 DEF TakenBy, Alike
<1> QED BY <1>1, <1>2

LEMMA WatchKeeps ==
    ASSUME IInv, MInv, Watcher
    PROVE  MInv'
<1>1. PICK w \in watches : TakenSeen(w) \/ WatchEnds(w)
  BY DEF Watcher
<1>2. attempt \in Attempt /\ w.doc \in Id /\ fate \in [Id -> Sent \cup {"unsent"}]
      /\ flights \subseteq Flight /\ watches \subseteq Watch
  BY DEF IInv, RouteType, DeliveryType, Watch
<1>3. watches' \subseteq watches /\ UNCHANGED <<finding, capture, flights, promises, ambient>>
  BY <1>1 DEF TakenSeen, WatchEnds
<1>4. Alike(attempt, attempt')
  BY <1>1, <1>2, TakenIsAlike DEF TakenSeen, WatchEnds, route, Render, Alike
<1>5. fate' \in {fate, [fate EXCEPT ![w.doc] = "delivered"]}
  BY <1>1 DEF TakenSeen, WatchEnds
<1>6. \A d \in Id : /\ fate[d] = "unsent" => fate'[d] = "unsent"
                    /\ fate[d] # "unsent" => fate'[d] # "unsent"
                    /\ d # w.doc => fate'[d] = fate[d]
  BY <1>2, <1>5 DEF MInv, FateInv
<1>7. Owned(attempt', cap') /\ RouteFits(attempt')
  BY <1>3, <1>4 DEF MInv, Owned, RouteFits, Alike, capture
<1>8. FlightInv'
  BY <1>3, <1>4 DEF MInv, FlightInv, Alike, ambient
<1>9. FateInv'
  <2>1. attempt.phase \in {"Recording", "Finalizing"} => attempt.id \in Id
    BY AgentRouteAssumption DEF IInv, Permission, PromiseType, Pending, Id
  <2>2. attempt.doc # NoId => attempt.doc \in Id
    BY AgentRouteAssumption DEF MInv, EditorInv, IInv, PromiseType, Id, NoId
  <2>3. \A f \in flights : fate'[f.doc] = FateWord(f)
    BY <1>2, <1>6 DEF MInv, FateInv, Flight
  <2>4. \A v \in watches' : fate'[v.doc] # "unsent" /\ \A f \in flights : f.doc # v.doc
    BY <1>2, <1>3, <1>6 DEF MInv, FateInv, Watch
  <2> QED BY <1>3, <1>4, <1>6, <2>1, <2>2, <2>3, <2>4 DEF MInv, FateInv, Alike, promises
<1>10. EditorInv' /\ TargetsFit'
  BY <1>3, <1>4 DEF MInv, EditorInv, TargetsFit, Alike, capture, promises, finding
<1> QED BY <1>7, <1>8, <1>9, <1>10 DEF MInv

LEMMA MInvNext == IInv /\ MInv /\ [Next]_vars => MInv'
<1> SUFFICES ASSUME IInv, MInv, [Next]_vars PROVE MInv'
  OBVIOUS
<1>1. CASE AgentKeySends
  <2>1. SendStep
    BY <1>1 DEF AgentKeySends, SendStep, capture, finding, ambient
  <2> QED BY <2>1, SendKeeps
<1>2. CASE Person /\ ~AgentKeySends
  BY <1>2, ChoosingHolds, SettingsHold, KeysHold, ViewsHold, BeginningBegins, OtherKeeps,
     HoldKeeps, IdleKeeps, BeginKeeps DEF Person
<1>3. CASE Finder
  BY <1>3, FindingHolds, HoldKeeps, IdleKeeps
<1>4. CASE Recorder
  BY <1>4, CaptureHolds, CompletionCompletes, HoldKeeps, IdleKeeps, CompletionKeeps DEF Recorder
<1>5. CASE Tick
  BY <1>5, TickHolds, HoldKeeps, SendKeeps
<1>6. CASE Watcher \/ Elapse \/ SetBack \/ Close
  BY <1>6, WatchKeeps, ClockKeeps, CloseKeeps
<1>7. CASE Transport
  BY <1>7, TransmitKeeps, ReceiveKeeps DEF Transport
<1>8. CASE UNCHANGED vars
  <2>1. UNCHANGED <<route, finding, capture, delivery, promises, ambient>>
    BY <1>8 DEF vars
  <2>2. IdleStep
    BY <2>1 DEF IdleStep, MInv, Owned, TargetsFit, route, finding, capture, delivery, promises, ambient
  <2> QED BY <2>2, IdleKeeps
<1> QED BY <1>1, <1>2, <1>3, <1>4, <1>5, <1>6, <1>7, <1>8 DEF Next

-----------------------------------------------------------------------------
(* What a message's row says, while Incognito is not switched               *)

\* A message's row has the number of its document, and is written as soon as it exists.
RowKnown(row, doc) ==
    /\ row \in {NoId, doc}
    /\ doc # NoId => (row = NoId <=> rows[doc] = "absent")

\* Until it ends a message has reported at most that its countdown began.
ReportInv ==
    /\ attempt.disarmed # "Empty"
    /\ \A w \in reported :
          /\ w[1] \in 1..begun
          /\ w[1] = attempt.id =>
                /\ attempt.phase \in Pending \cup {"Submitting"} => w[2] = "grace"
                /\ attempt.phase = "Delivered" /\ ~attempt.taken => w[2] # "taken"
    /\ ~closed => ~News(attempt)

\* What a row is of, and that Incognito has none.
RowShape ==
    /\ incognito => \A d \in Id : rows[d] = "absent"
    /\ RowKnown(attempt.row, attempt.doc)
    /\ attempt.phase \in {"Recording", "Finalizing"} => rows[attempt.id] = "absent"
    /\ \A d \in Id : d > begun => rows[d] = "absent"
    /\ \A w \in watches :
          /\ w.id \in 1..begun /\ RowKnown(w.row, w.doc)
          /\ w.id = attempt.id => w.doc = attempt.doc /\ w.row = attempt.row

RowInv == RowShape /\ RowsTellTheTruth /\ EveryMessageIsAccounted

Unsent == Word \ (Sent \cup {"ready", "absent"})

LEMMA RowInvInit == Init => ReportInv /\ RowInv
<1> SUFFICES ASSUME Init PROVE ReportInv /\ RowInv
  OBVIOUS
<1>1. NoAttempt.disarmed = NoReason /\ NoAttempt.doc = NoId
  <2>1. Begun(NoId, NoSession, "missing") \in Attempt
    BY BegunAttempt DEF NoId, Sighting
  <2>2. Begun(NoId, NoSession, "missing").disarmed = NoReason
        /\ Begun(NoId, NoSession, "missing").doc = NoId
    BY DEF Begun, NoId
  <2> QED BY <2>1, <2>2 DEF NoAttempt, Attempt
<1>2. /\ attempt.phase = "None" /\ attempt.row = NoId /\ attempt.doc = NoId
      /\ attempt.disarmed # "Empty"
  BY <1>1, NoAttemptIsAttempt DEF Init, NoId, NoReason
<1>3. rows = [d \in Id |-> "absent"] /\ reported = {} /\ watches = {} /\ flights = {}
  BY DEF Init
<1>4. ReportInv
  BY <1>2, <1>3 DEF ReportInv, News, StepOf
<1>5. RowInv
  BY <1>2, <1>3 DEF RowInv, RowShape, RowKnown, RowsTellTheTruth, EveryMessageIsAccounted
<1> QED BY <1>4, <1>5

\* What is written of an attempt, in the report and in its row.
LEMMA ReportWrites ==
    ASSUME NEW a, NEW r, NEW private, Report(a, r, private)
    PROVE  /\ StepOf(a) = "none" \/ <<a.id, StepOf(a)>> \in reported'
           /\ \A w \in reported' : w \in reported \/ (w = <<a.id, StepOf(a)>> /\ StepOf(a) # "none")
           /\ rows' = IF News(a) /\ WordOf(a) # "none" /\ a.row # NoId /\ ~private
                      THEN [r EXCEPT ![a.row] = WordOf(a)] ELSE r
           /\ ~News(a) => reported' = reported
BY DEF Report, News

\* The words of a draft say that nothing was sent.
LEMMA DraftWords ==
    ASSUME NEW a, a.phase = "Draft"
    PROVE  /\ StepOf(a) = a.reason /\ WordOf(a) = ReasonWord(a.reason)
           /\ WordOf(a) \in Unsent \cup {"none"}
           /\ a.reason \in Reasons => WordOf(a) # "none" /\ StepOf(a) \notin {"none", "grace", "taken"}
<1>1. StepOf(a) = a.reason /\ WordOf(a) = ReasonWord(a.reason)
  BY DEF StepOf, WordOf
<1>2. ReasonWord(a.reason) \in Unsent \cup {"none"}
  BY DEF ReasonWord, Unsent, Word, Sent
<1>3. a.reason \in Reasons => ReasonWord(a.reason) # "none" /\ a.reason \notin {"none", "grace", "taken"}
  BY DEF ReasonWord, Reasons, DraftReason
<1> QED BY <1>1, <1>2, <1>3

LEMMA PendingWords ==
    ASSUME NEW a, a.phase \in Pending \cup {"Submitting", "None"}
    PROVE  WordOf(a) = "none" /\ StepOf(a) \in {"none", "grace"}
BY DEF WordOf, StepOf, Pending

\* A handler that holds the message and renders it: the row of a stopped
\* countdown says it was kept, and no other row changes.
LEMMA HeldWrites ==
    ASSUME IInv, MInv, ReportInv, RowInv, ~closed,
           NEW d, Held(attempt, d), Report(d, rows, incognito)
    PROVE  /\ StepOf(d) = "none" \/ <<d.id, StepOf(d)>> \in reported'
           /\ \A w \in reported' :
                 \/ w \in reported
                 \/ /\ w = <<d.id, StepOf(d)>> /\ StepOf(d) # "none"
                    /\ attempt.phase \in Pending
           /\ \A x \in Id : \/ rows'[x] = rows[x]
                            \/ /\ x = attempt.doc /\ x = attempt.row /\ attempt.phase = "Grace"
                               /\ rows'[x] \in Unsent
           /\ \A x \in Id : rows'[x] = "ready" => d.row = x /\ d.phase \in {"Grace", "Submitting"}
<1>1. attempt \in Attempt /\ rows \in [Id -> Word] /\ reported \subseteq Id \X Step
  BY DEF IInv, RouteType
<1>2. d.id = attempt.id /\ d.row = attempt.row
  BY DEF Held, Follows
<1>3. /\ StepOf(d) = "none" \/ <<d.id, StepOf(d)>> \in reported'
      /\ \A w \in reported' : w \in reported \/ (w = <<d.id, StepOf(d)>> /\ StepOf(d) # "none")
      /\ rows' = IF News(d) /\ WordOf(d) # "none" /\ d.row # NoId /\ ~incognito
                 THEN [rows EXCEPT ![d.row] = WordOf(d)] ELSE rows
      /\ ~News(d) => reported' = reported
  BY ReportWrites
<1>4. \A x \in Id : rows[x] = "ready" =>
         attempt.row = x /\ attempt.phase \in {"Grace", "Submitting"}
  BY DEF RowInv, EveryMessageIsAccounted
<1>5. CASE attempt.phase \notin Pending
  <2>1. d = attempt /\ ~News(d)
    BY <1>5 DEF Held, ReportInv
  <2>2. rows' = rows /\ reported' = reported
    BY <1>3, <2>1
  <2> QED BY <1>3, <1>4, <2>1, <2>2
<1>6. CASE attempt.phase \in Pending /\ d.phase # "Draft"
  <2>1. d.phase \in Pending /\ (attempt.phase = "Grace" => d.phase = "Grace")
    BY <1>6 DEF Held, Pending
  <2>2. rows' = rows
    BY <1>3, <2>1, PendingWords
  <2> QED BY <1>2, <1>3, <1>4, <1>6, <2>1, <2>2 DEF Pending
<1>7. CASE attempt.phase \in Pending /\ d.phase = "Draft"
  <2>1. d.reason \in Reasons
    BY <1>7 DEF Held
  <2>2. WordOf(d) \in Unsent /\ WordOf(d) # "none" /\ StepOf(d) \notin {"none", "grace"}
    BY <1>7, <2>1, DraftWords
  <2>3. News(d)
    BY <1>2, <1>7, <2>2 DEF News, ReportInv
  <2>4. rows' = IF attempt.row # NoId /\ ~incognito
                THEN [rows EXCEPT ![attempt.row] = WordOf(d)] ELSE rows
    BY <1>2, <1>3, <2>2, <2>3
  <2>5. attempt.row # NoId => attempt.row = attempt.doc /\ attempt.phase = "Grace"
    BY <1>7 DEF RowInv, RowShape, RowKnown, MInv, EditorInv, Pending
  <2>6. \A x \in Id : \/ rows'[x] = rows[x] /\ (x = attempt.row => incognito \/ attempt.row = NoId)
                      \/ x = attempt.row /\ attempt.row # NoId /\ rows'[x] = WordOf(d)
    BY <1>1, <2>4
  <2>7. \A x \in Id : rows'[x] # "ready"
    <3> SUFFICES ASSUME NEW x \in Id, rows'[x] = "ready" PROVE FALSE
      OBVIOUS
    <3>1. rows'[x] = rows[x] /\ (x = attempt.row => incognito \/ attempt.row = NoId)
      BY <2>2, <2>6 DEF Unsent
    <3>2. attempt.row = x /\ x # NoId
      BY <1>4, <3>1 DEF Id, NoId
    <3>3. incognito /\ rows[x] = "ready"
      BY <3>1, <3>2
    <3> QED BY <3>3 DEF RowInv, RowShape
  <2>8. \A x \in Id : \/ rows'[x] = rows[x]
                      \/ /\ x = attempt.doc /\ x = attempt.row /\ attempt.phase = "Grace"
                         /\ rows'[x] \in Unsent
    BY <2>2, <2>5, <2>6
  <2> QED BY <1>3, <1>7, <2>7, <2>8
<1> QED BY <1>5, <1>6, <1>7

\* No row appears or disappears.
Present == \A x \in Id : rows'[x] = "absent" <=> rows[x] = "absent"

\* What keeps the number of its document and of its row keeps the shape of the rows.
LEMMA ShapeStays ==
    ASSUME IInv, MInv, RowShape, Present, UNCHANGED <<incognito, begun>>,
           attempt'.id = attempt.id, attempt'.row = attempt.row, attempt'.doc = attempt.doc,
           attempt'.phase \in {"Recording", "Finalizing"}
              => attempt.phase \in {"Recording", "Finalizing"},
           \A w \in watches' :
              \/ w \in watches
              \/ w.id = attempt.id /\ w.doc = attempt.doc /\ w.row = attempt.row
                 /\ attempt.phase # "None"
    PROVE  RowShape'
<1>1. attempt.id \in 0..begun /\ (attempt.phase # "None" => attempt.id \in 1..begun)
      /\ attempt.doc \in 0..begun /\ begun \in 0..MaxAttempts /\ MaxAttempts \in Nat
  BY AgentRouteAssumption DEF IInv, Permission, MInv, EditorInv, PromiseType
<1>2. attempt.doc # NoId => attempt.doc \in Id
  BY <1>1 DEF Id, NoId
<1>3. \A w \in watches : w.doc \in Id
  BY DEF IInv, DeliveryType, Watch
<1>4. RowKnown(attempt.row, attempt.doc)'
  BY <1>2 DEF RowShape, RowKnown, Present
<1>5. attempt'.phase \in {"Recording", "Finalizing"} => rows'[attempt'.id] = "absent"
  BY <1>1 DEF RowShape, Present, Id
<1>6. \A w \in watches' :
         /\ w.id \in 1..begun' /\ RowKnown(w.row, w.doc)'
         /\ w.id = attempt'.id => w.doc = attempt'.doc /\ w.row = attempt'.row
  <2> SUFFICES ASSUME NEW w \in watches'
               PROVE  /\ w.id \in 1..begun /\ RowKnown(w.row, w.doc)'
                      /\ w.id = attempt.id => w.doc = attempt.doc /\ w.row = attempt.row
    OBVIOUS
  <2>1. CASE w \in watches
    BY <1>3, <2>1 DEF RowShape, RowKnown, Present
  <2>2. CASE w \notin watches
    BY <1>1, <1>4, <2>2 DEF RowKnown
  <2> QED BY <2>1, <2>2
<1> QED BY <1>4, <1>5, <1>6 DEF RowShape, Present

LEMMA RowsHold ==
    ASSUME IInv, MInv, ReportInv, RowInv, ~closed, HoldStep, incognito' = incognito
    PROVE  ReportInv' /\ RowInv'
<1>1. /\ Held(attempt, attempt') /\ Report(attempt', rows, incognito)
      /\ UNCHANGED <<flights, watches, fate, begun, closed>>
  BY DEF HoldStep
<1>2. /\ attempt'.id = attempt.id /\ attempt'.row = attempt.row /\ attempt'.doc = attempt.doc
      /\ attempt'.phase \in {attempt.phase, "Draft"}
            \/ (attempt.phase = "Recording" /\ attempt'.phase = "Finalizing")
      /\ attempt.phase \notin Pending => attempt' = attempt
      /\ attempt'.disarmed # "Empty"
  BY <1>1 DEF Held, Follows, ReportInv
<1>3. /\ StepOf(attempt') = "none" \/ <<attempt'.id, StepOf(attempt')>> \in reported'
      /\ \A w \in reported' :
            \/ w \in reported
            \/ /\ w = <<attempt'.id, StepOf(attempt')>> /\ StepOf(attempt') # "none"
               /\ attempt.phase \in Pending
      /\ \A x \in Id : \/ rows'[x] = rows[x]
                       \/ /\ x = attempt.doc /\ x = attempt.row /\ attempt.phase = "Grace"
                          /\ rows'[x] \in Unsent
      /\ \A x \in Id : rows'[x] = "ready"
            => attempt'.row = x /\ attempt'.phase \in {"Grace", "Submitting"}
  BY <1>1, HeldWrites
<1>4. ReportInv'
  <2>1. attempt.phase \in Pending => attempt.id \in 1..begun
    BY DEF IInv, Permission, Pending
  <2>2. \A w \in reported' :
           /\ w[1] \in 1..begun'
           /\ w[1] = attempt'.id =>
                 /\ attempt'.phase \in Pending \cup {"Submitting"} => w[2] = "grace"
                 /\ attempt'.phase = "Delivered" /\ ~attempt'.taken => w[2] # "taken"
    <3> SUFFICES ASSUME NEW w \in reported'
                 PROVE  /\ w[1] \in 1..begun
                        /\ w[1] = attempt'.id =>
                              /\ attempt'.phase \in Pending \cup {"Submitting"} => w[2] = "grace"
                              /\ attempt'.phase = "Delivered" /\ ~attempt'.taken => w[2] # "taken"
      BY <1>1
    <3>1. CASE w \in reported
      BY <1>2, <3>1 DEF ReportInv, Pending
    <3>2. CASE w = <<attempt'.id, StepOf(attempt')>> /\ StepOf(attempt') # "none"
               /\ attempt.phase \in Pending
      <4>1. attempt'.phase \in Pending \cup {"Draft"}
        BY <1>2, <3>2 DEF Pending
      <4>2. attempt'.phase \in Pending => StepOf(attempt') = "grace"
        BY <3>2, PendingWords
      <4> QED BY <1>2, <2>1, <3>2, <4>1, <4>2 DEF Pending
    <3> QED BY <1>3, <3>1, <3>2
  <2> QED BY <1>2, <1>3, <2>2 DEF ReportInv, News
<1>5. Present
  BY <1>3 DEF Present, RowInv, RowShape, RowKnown, Unsent, Id, NoId
<1>6. RowShape'
  BY <1>1, <1>2, <1>5, ShapeStays DEF RowInv
<1>7. RowsTellTheTruth'
  BY <1>1, <1>3 DEF RowInv, RowsTellTheTruth, MInv, FateInv, Unsent, Id, NoId
<1>8. EveryMessageIsAccounted'
  BY <1>3 DEF EveryMessageIsAccounted
<1> QED BY <1>4, <1>6, <1>7, <1>8 DEF RowInv

LEMMA RowsIdle ==
    ASSUME IInv, MInv, ReportInv, RowInv, IdleStep
    PROVE  ReportInv' /\ RowInv'
<1>1. UNCHANGED <<attempt, reported, rows, flights, watches, fate, begun, closed, incognito>>
  BY DEF IdleStep, route
<1> QED BY <1>1 DEF ReportInv, News, RowInv, RowShape, RowKnown, RowsTellTheTruth,
                    EveryMessageIsAccounted

\* Nothing recorded or sent before counts for a new attempt; its words can only
\* say that nothing was sent.
LEMMA RowsBegin ==
    ASSUME IInv, MInv, ReportInv, RowInv, BeginStep
    PROVE  ReportInv' /\ RowInv'
<1>1. /\ attempt.phase \notin Pending \cup {"Submitting"} /\ begun' = begun + 1
      /\ attempt'.id = begun + 1 /\ attempt'.disarmed # "Empty"
      /\ Report(attempt', rows, incognito)
      /\ UNCHANGED <<flights, watches, fate, incognito, closed>>
  BY DEF BeginStep
<1>2. begun \in Nat /\ begun + 1 \in Id /\ rows \in [Id -> Word] /\ MaxAttempts \in Nat
      /\ attempt.doc \in 0..begun
  BY AgentRouteAssumption DEF IInv, PromiseType, RouteType, MInv, EditorInv, BeginStep, Id
<1>3. attempt'.phase \in {"Recording", "Grace", "Draft"}
  BY DEF BeginStep
<1>4. /\ StepOf(attempt') = "none" \/ <<attempt'.id, StepOf(attempt')>> \in reported'
      /\ \A w \in reported' : w \in reported \/ (w = <<attempt'.id, StepOf(attempt')>> /\ StepOf(attempt') # "none")
      /\ rows' = IF News(attempt') /\ WordOf(attempt') # "none" /\ attempt'.row # NoId /\ ~incognito
                 THEN [rows EXCEPT ![attempt'.row] = WordOf(attempt')] ELSE rows
  BY <1>1, ReportWrites
<1>5. WordOf(attempt') \in Unsent \cup {"none"}
      /\ (attempt'.phase \in Pending => StepOf(attempt') \in {"none", "grace"})
  BY <1>3, PendingWords, DraftWords DEF Pending
<1>6. \/ attempt'.doc = NoId /\ attempt'.row = NoId /\ rows' = rows
      \/ /\ attempt'.doc = attempt.doc /\ attempt'.row = attempt.row /\ attempt.doc # NoId
         /\ attempt.phase = "Draft" /\ attempt'.phase # "Recording"
  BY <1>4 DEF BeginStep, MInv, EditorInv
<1>7. ReportInv'
  <2>1. \A w \in reported' :
           /\ w[1] \in 1..begun'
           /\ w[1] = attempt'.id =>
                 /\ attempt'.phase \in Pending \cup {"Submitting"} => w[2] = "grace"
                 /\ attempt'.phase = "Delivered" /\ ~attempt'.taken => w[2] # "taken"
    <3> SUFFICES ASSUME NEW w \in reported'
                 PROVE  /\ w[1] \in 1..begun'
                        /\ w[1] = attempt'.id => (attempt'.phase \in Pending => w[2] = "grace")
      BY <1>3 DEF Pending
    <3>1. CASE w \in reported
      BY <1>1, <1>2, <3>1 DEF ReportInv
    <3>2. CASE w = <<attempt'.id, StepOf(attempt')>> /\ StepOf(attempt') # "none"
      BY <1>1, <1>2, <1>5, <3>2
    <3> QED BY <1>4, <3>1, <3>2
  <2> QED BY <1>1, <1>4, <2>1 DEF ReportInv, News
<1>8. \A x \in Id : \/ rows'[x] = rows[x]
                    \/ /\ x = attempt.doc /\ x = attempt.row /\ attempt.phase = "Draft"
                       /\ rows'[x] \in Unsent /\ attempt'.doc = x
  <2>1. CASE rows' = rows
    BY <2>1
  <2>2. CASE rows' # rows
    <3>1. /\ WordOf(attempt') \in Unsent /\ attempt.row # NoId
          /\ rows' = [rows EXCEPT ![attempt.row] = WordOf(attempt')]
          /\ attempt'.doc = attempt.doc /\ attempt.phase = "Draft"
      BY <1>4, <1>5, <1>6, <2>2
    <3>2. attempt.row = attempt.doc
      BY <3>1 DEF RowInv, RowShape, RowKnown
    <3> HIDE DEF Unsent
    <3> QED BY <1>2, <3>1, <3>2
  <2> QED BY <2>1, <2>2
<1>9. Present
  BY <1>8 DEF Present, RowInv, RowShape, RowKnown, Unsent, Id, NoId
<1>10. RowShape'
  <2>1. attempt.doc # NoId => attempt.doc \in Id
    BY <1>2 DEF Id, NoId
  <2>2. RowKnown(attempt.row, attempt.doc)'
    BY <1>6, <1>9, <2>1 DEF RowInv, RowShape, RowKnown, Present
  <2>3. \A w \in watches : w.id \in 1..begun /\ RowKnown(w.row, w.doc) /\ w.doc \in Id
    BY DEF RowInv, RowShape, IInv, DeliveryType, Watch
  <2>4. \A w \in watches' : w.id \in 1..begun' /\ RowKnown(w.row, w.doc)' /\ w.id # attempt'.id
    BY <1>1, <1>2, <1>9, <2>3 DEF RowKnown, Present
  <2>5. \A d \in Id : d > begun' => rows'[d] = "absent"
    BY <1>1, <1>2, <1>9 DEF RowInv, RowShape, Present, Id
  <2>6. rows'[attempt'.id] = "absent"
    BY <1>1, <1>2, <1>9 DEF RowInv, RowShape, Present
  <2>7. incognito' => \A d \in Id : rows'[d] = "absent"
    BY <1>1, <1>9 DEF RowInv, RowShape, Present
  <2> QED BY <2>2, <2>4, <2>5, <2>6, <2>7 DEF RowShape
<1>11. RowsTellTheTruth'
  BY <1>1, <1>2, <1>8 DEF RowInv, RowsTellTheTruth, MInv, FateInv, Unsent, Id, NoId
<1>12. EveryMessageIsAccounted'
  <2>1. ~closed => \A x \in Id : rows[x] # "ready"
    BY <1>1 DEF RowInv, EveryMessageIsAccounted, Pending
  <2> QED BY <1>1, <1>8, <2>1 DEF EveryMessageIsAccounted, Unsent
<1> QED BY <1>7, <1>10, <1>11, <1>12 DEF RowInv

\* Recognition writes the row of the attempt, which had none, and at once what
\* became of a message that is not counting down.
LEMMA RowsComplete ==
    ASSUME IInv, MInv, ReportInv, RowInv, CompleteStep, ~closed
    PROVE  ReportInv' /\ RowInv'
<1> DEFINE id == attempt.id
<1>1. PICK word \in {"no-speech", "ready"} :
         /\ word = "ready" /\ attempt'.phase = "Draft" /\ attempt.disarmed # "Empty"
               => attempt'.reason \in Reasons
         /\ Report(attempt', IF attempt'.row = NoId THEN rows
                             ELSE [rows EXCEPT ![id] = word], incognito)
  BY DEF CompleteStep
<1>2. /\ attempt.phase = "Finalizing" /\ id \in Id /\ id # NoId /\ id \in 1..begun
      /\ rows \in [Id -> Word]
      /\ attempt'.id = id /\ attempt'.doc = id /\ attempt'.phase \in {"Grace", "Draft"}
      /\ attempt'.row \in {NoId, id} /\ (attempt'.row # NoId => ~incognito)
      /\ attempt.disarmed # "Empty" /\ attempt'.disarmed # "Empty"
      /\ UNCHANGED <<flights, watches, fate, begun, incognito, closed>>
  BY DEF CompleteStep, ReportInv, IInv, Permission, RouteType, Id, NoId
<1>3. /\ StepOf(attempt') = "none" \/ <<id, StepOf(attempt')>> \in reported'
      /\ \A w \in reported' : w \in reported \/ (w = <<id, StepOf(attempt')>> /\ StepOf(attempt') # "none")
      /\ rows' = IF News(attempt') /\ WordOf(attempt') # "none" /\ attempt'.row # NoId /\ ~incognito
                 THEN [(IF attempt'.row = NoId THEN rows ELSE [rows EXCEPT ![id] = word])
                          EXCEPT ![attempt'.row] = WordOf(attempt')]
                 ELSE IF attempt'.row = NoId THEN rows ELSE [rows EXCEPT ![id] = word]
  BY <1>1, <1>2, ReportWrites
<1>4. /\ WordOf(attempt') \in Unsent \cup {"none"}
      /\ attempt'.phase = "Grace" => StepOf(attempt') \in {"none", "grace"}
      /\ attempt'.phase = "Draft" /\ attempt'.reason \in Reasons
            => WordOf(attempt') # "none" /\ StepOf(attempt') \notin {"none", "grace", "taken"}
  BY <1>2, PendingWords, DraftWords DEF Pending
<1>5. rows[id] = "absent" /\ \A x \in Id : rows[x] # "ready"
  BY <1>2 DEF RowInv, RowShape, EveryMessageIsAccounted
<1>6. \A x \in Id : x # id => rows'[x] = rows[x]
  BY <1>2, <1>3
<1>7. attempt'.row = NoId => rows' = rows
  BY <1>3
<1>8. attempt'.row # NoId => /\ rows'[id] \in Unsent \cup {"ready"}
                             /\ rows'[id] = "ready" => attempt'.phase = "Grace"
  <2> SUFFICES ASSUME attempt'.row # NoId
               PROVE  /\ rows'[id] \in Unsent \cup {"ready"}
                      /\ rows'[id] = "ready" => attempt'.phase = "Grace"
    OBVIOUS
  <2>1. attempt'.row = id /\ ~incognito
    BY <1>2
  <2>2. rows'[id] = IF News(attempt') /\ WordOf(attempt') # "none" THEN WordOf(attempt') ELSE word
    BY <1>2, <1>3, <2>1
  <2>3. "no-speech" \in Unsent /\ "ready" \notin Unsent /\ word \in {"no-speech", "ready"}
    BY DEF Unsent, Word, Sent
  <2>4. word = "ready" /\ attempt'.phase = "Draft"
           => News(attempt') /\ WordOf(attempt') # "none"
    <3> SUFFICES ASSUME word = "ready", attempt'.phase = "Draft"
                 PROVE  News(attempt') /\ WordOf(attempt') # "none"
      OBVIOUS
    <3>1. WordOf(attempt') # "none" /\ StepOf(attempt') \notin {"none", "grace", "taken"}
      BY <1>1, <1>2, <1>4
    <3>2. <<id, StepOf(attempt')>> \notin reported
      BY <1>2, <3>1 DEF ReportInv, Pending
    <3> QED BY <1>2, <3>1, <3>2 DEF News
  <2> QED BY <1>2, <1>4, <2>2, <2>3, <2>4
<1>9. ReportInv'
  <2>1. \A w \in reported' :
           /\ w[1] \in 1..begun'
           /\ w[1] = attempt'.id =>
                 /\ attempt'.phase \in Pending \cup {"Submitting"} => w[2] = "grace"
                 /\ attempt'.phase = "Delivered" /\ ~attempt'.taken => w[2] # "taken"
    <3> SUFFICES ASSUME NEW w \in reported'
                 PROVE  /\ w[1] \in 1..begun
                        /\ w[1] = id => (attempt'.phase = "Grace" => w[2] = "grace")
      BY <1>2 DEF Pending
    <3>1. CASE w \in reported
      BY <1>2, <3>1 DEF ReportInv, Pending
    <3>2. CASE w = <<id, StepOf(attempt')>> /\ StepOf(attempt') # "none"
      BY <1>2, <1>4, <3>2
    <3> QED BY <1>3, <3>1, <3>2
  <2> QED BY <1>2, <1>3, <2>1 DEF ReportInv, News
<1>10. RowShape'
  <2>1. RowKnown(attempt.row, attempt.doc)'
    BY <1>2, <1>5, <1>7, <1>8 DEF RowKnown, Unsent
  <2>2. \A w \in watches : /\ w.id \in 1..begun /\ RowKnown(w.row, w.doc) /\ w.doc \in Id
                           /\ w.id = id => w.doc = attempt.doc
    BY DEF RowInv, RowShape, IInv, DeliveryType, Watch
  <2>3. attempt.doc = NoId /\ fate[id] = "unsent"
    BY <1>2 DEF MInv, EditorInv, FateInv
  <2>4. \A w \in watches : w.id # id /\ w.doc # id
    BY <2>2, <2>3 DEF MInv, FateInv, Id, NoId
  <2>5. \A w \in watches' : w.id \in 1..begun' /\ RowKnown(w.row, w.doc)' /\ w.id # attempt'.id
    BY <1>2, <1>6, <2>2, <2>4 DEF RowKnown
  <2>6. \A d \in Id : d > begun => d # id
    BY <1>2 DEF Id, IInv, PromiseType
  <2>7. \A d \in Id : d > begun' => rows'[d] = "absent"
    BY <1>2, <1>6, <2>6 DEF RowInv, RowShape
  <2>8. incognito' => \A d \in Id : rows'[d] = "absent"
    BY <1>2, <1>7 DEF RowInv, RowShape
  <2> QED BY <1>2, <2>1, <2>5, <2>7, <2>8 DEF RowShape
<1>11. RowsTellTheTruth'
  <2>1. fate[id] = "unsent" /\ UNCHANGED <<fate, flights, closed>>
    BY <1>2 DEF MInv, FateInv
  <2>2. rows'[id] = "absent" \/ rows'[id] \notin Sent
    BY <1>5, <1>7, <1>8 DEF Unsent, Sent
  <2> QED BY <1>2, <1>6, <2>1, <2>2 DEF RowInv, RowsTellTheTruth
<1>12. EveryMessageIsAccounted'
  BY <1>2, <1>5, <1>6, <1>7, <1>8 DEF EveryMessageIsAccounted, Unsent
<1> QED BY <1>9, <1>10, <1>11, <1>12 DEF RowInv

\* Handing a message over writes nothing: its row still says only that it was recognized.
LEMMA RowsSend ==
    ASSUME IInv, MInv, ReportInv, RowInv, SendStep
    PROVE  ReportInv' /\ RowInv'
<1>1. attempt \in Attempt /\ attempt.phase = "Grace" /\ attempt.disarmed = NoReason
  BY DEF IInv, RouteType, SendStep, Permission
<1>2. attempt' = [attempt EXCEPT !.phase = "Submitting", !.left = 0]
      /\ Report(attempt', rows, incognito)
  <2>1. attempt' = StartSubmission(attempt) /\ Report(StartSubmission(attempt), rows, incognito)
    BY DEF SendStep, Render
  <2> QED BY <2>1 DEF StartSubmission
<1>3. /\ attempt'.phase = "Submitting" /\ attempt'.id = attempt.id /\ attempt'.doc = attempt.doc
      /\ attempt'.row = attempt.row /\ attempt'.disarmed = attempt.disarmed
  BY <1>1, <1>2 DEF Attempt
<1>4. ~News(attempt') /\ reported' = reported /\ rows' = rows
  BY <1>2, <1>3 DEF Report, News, StepOf
<1>5. flights = {} /\ \A f \in flights' : f.doc = attempt.doc
  BY <1>1 DEF SendStep, Submit, FlightOf, MInv, FlightInv
<1>6. UNCHANGED <<watches, fate, begun, incognito, closed>>
  BY DEF SendStep
<1>7. ReportInv'
  BY <1>1, <1>3, <1>4, <1>6 DEF ReportInv, News, Pending
<1>8. RowShape'
  BY <1>3, <1>4, <1>6, ShapeStays DEF RowInv, Present
<1>9. RowsTellTheTruth' /\ EveryMessageIsAccounted'
  BY <1>1, <1>3, <1>4, <1>5, <1>6 DEF RowInv, RowsTellTheTruth, EveryMessageIsAccounted
<1> QED BY <1>7, <1>8, <1>9 DEF RowInv

\* Another recording: the attempt it forgets was rendered, and was not counting down.
LEMMA RowsOther ==
    ASSUME IInv, MInv, ReportInv, RowInv, ~closed, \E started \in BOOLEAN : StartOther(started)
    PROVE  ReportInv' /\ RowInv'
<1> DEFINE d == Disarm(attempt, "Interrupted")
<1>1. /\ Report(d, rows, incognito)
      /\ attempt' = IF attempt.phase = "Submitting" THEN attempt ELSE NoAttempt
      /\ UNCHANGED <<flights, watches, fate, begun, closed, incognito>>
  BY DEF StartOther, delivery, ambient
<1>2. attempt \in Attempt /\ rows \in [Id -> Word]
  BY DEF IInv, RouteType
<1>3. Held(attempt, d) /\ Halted(d)
  BY <1>2, HandlerReasons, DisarmHolds, DisarmHalts DEF Reasons
<1> HIDE DEF d
<1>4. CASE attempt.phase = "Submitting"
  <2>1. d = attempt /\ attempt' = attempt
    BY <1>1, <1>3, <1>4 DEF Held, Pending
  <2>2. reported' = reported /\ rows' = rows
    BY <1>1, <2>1 DEF Report, ReportInv
  <2> QED BY <1>1, <2>1, <2>2
          DEF ReportInv, News, RowInv, RowShape, RowKnown, RowsTellTheTruth, EveryMessageIsAccounted
<1>5. CASE attempt.phase # "Submitting"
  <2>1. attempt'.phase = "None" /\ attempt'.id = 0 /\ attempt'.row = 0
    BY <1>1, <1>5, NoAttemptIsAttempt
  <2>2. attempt'.doc = NoId /\ attempt'.disarmed # "Empty"
    <3>1. Begun(NoId, NoSession, "missing") \in Attempt
      BY BegunAttempt DEF NoId, Sighting
    <3>2. Begun(NoId, NoSession, "missing").doc = NoId
          /\ Begun(NoId, NoSession, "missing").disarmed # "Empty"
      BY DEF Begun, NoId, NoReason
    <3> QED BY <1>1, <1>5, <3>1, <3>2 DEF NoAttempt, Attempt
  <2>3. /\ \A w \in reported' :
              \/ w \in reported
              \/ /\ w = <<d.id, StepOf(d)>> /\ StepOf(d) # "none"
                 /\ attempt.phase \in Pending
        /\ \A x \in Id : \/ rows'[x] = rows[x]
                         \/ /\ x = attempt.doc /\ x = attempt.row /\ attempt.phase = "Grace"
                            /\ rows'[x] \in Unsent
        /\ \A x \in Id : rows'[x] = "ready" => d.row = x /\ d.phase \in {"Grace", "Submitting"}
    BY <1>1, <1>3, HeldWrites
  <2>4. d.phase \notin {"Grace", "Submitting"} /\ d.id = attempt.id
    BY <1>3, <1>5 DEF Held, Halted, Follows, Pending
  <2>5. attempt.phase \in Pending => attempt.id \in 1..begun
    BY DEF IInv, Permission, Pending
  <2>6. \A w \in reported' : w[1] \in 1..begun
    BY <2>3, <2>4, <2>5 DEF ReportInv
  <2>7. \A w \in reported' : w[1] # 0
    BY <2>6
  <2>8. ReportInv'
    BY <1>1, <2>1, <2>2, <2>6, <2>7 DEF ReportInv, News, StepOf
  <2>9. Present
    BY <2>3 DEF Present, RowInv, RowShape, RowKnown, Unsent, Id, NoId
  <2>10. \A w \in watches : w.id \in 1..begun /\ RowKnown(w.row, w.doc) /\ w.doc \in Id
    BY DEF RowInv, RowShape, IInv, DeliveryType, Watch
  <2>11. \A w \in watches' : w.id \in 1..begun' /\ RowKnown(w.row, w.doc)' /\ w.id # attempt'.id
    BY <1>1, <2>1, <2>9, <2>10 DEF RowKnown, Present
  <2>12. RowShape'
    BY <1>1, <2>1, <2>2, <2>9, <2>11 DEF RowInv, RowShape, RowKnown, Present, NoId
  <2>13. RowsTellTheTruth' /\ EveryMessageIsAccounted'
    BY <1>1, <2>3, <2>4 DEF RowInv, RowsTellTheTruth, EveryMessageIsAccounted,
                            MInv, FateInv, Unsent, Id, NoId
  <2> QED BY <2>8, <2>12, <2>13 DEF RowInv
<1> QED BY <1>4, <1>5

LEMMA RowsClock ==
    ASSUME IInv, MInv, ReportInv, RowInv, incognito' = incognito, Elapse \/ SetBack
    PROVE  ReportInv' /\ RowInv'
<1>1. /\ Alike(attempt, attempt') /\ attempt'.taken = attempt.taken
      /\ UNCHANGED <<reported, rows, flights, watches, fate, begun, closed>>
  BY ClockIsAlike DEF delivery, promises
<1>2. StepOf(attempt') = StepOf(attempt)
  BY <1>1 DEF StepOf, Alike
<1>3. ReportInv'
  BY <1>1, <1>2 DEF ReportInv, News, Alike
<1>4. RowShape'
  BY <1>1, ShapeStays DEF RowInv, Present, Alike
<1>5. RowsTellTheTruth' /\ EveryMessageIsAccounted'
  BY <1>1 DEF RowInv, RowsTellTheTruth, EveryMessageIsAccounted, Alike
<1> QED BY <1>3, <1>4, <1>5 DEF RowInv

LEMMA RowsTransmit ==
    ASSUME IInv, MInv, ReportInv, RowInv,
           NEW f \in flights, NEW outcome \in Outcomes, Transmit(f, outcome)
    PROVE  ReportInv' /\ RowInv'
<1> DEFINE g == [f EXCEPT !.result = outcome]
<1>1. /\ flights' = (flights \ {f}) \cup {g}
      /\ fate' = [fate EXCEPT ![f.doc] = FateOf(f, outcome)]
      /\ UNCHANGED <<attempt, reported, rows, watches, begun, incognito, closed>>
  BY DEF Transmit, route, promises, ambient
<1>2. g.doc = f.doc /\ f.doc \in Id /\ fate \in [Id -> Sent \cup {"unsent"}]
  BY DEF IInv, DeliveryType, Flight
<1> HIDE DEF g
<1>3. flights = {f}
  BY DEF MInv, FlightInv
<1>4. \A d \in Id : (\A h \in flights' : h.doc # d) => fate'[d] = fate[d] /\ \A h \in flights : h.doc # d
  BY <1>1, <1>2, <1>3
<1>5. RowsTellTheTruth' /\ EveryMessageIsAccounted'
  BY <1>1, <1>4 DEF RowInv, RowsTellTheTruth, EveryMessageIsAccounted
<1>6. ReportInv'
  BY <1>1 DEF ReportInv, News
<1>7. RowShape'
  BY <1>1 DEF RowInv, RowShape, RowKnown
<1> QED BY <1>5, <1>6, <1>7 DEF RowInv

\* The step and the word of an outcome are those of what really became of the message.
LEMMA OutcomeWords ==
    ASSUME NEW f \in Flight, f.result # "none", NEW b, b.via = f.via,
           b.phase = Settled(f.result), b.taken = (f.result = "Taken"),
           b.phase = "Draft" => b.reason = f.result /\ f.result \in {"Busy", "Rejected"}
    PROVE  /\ WordOf(b) # "none" /\ WordOf(b) \notin {"ready", "absent"}
           /\ StepOf(b) \notin {"none", "grace"} /\ (~b.taken => StepOf(b) # "taken")
           /\ WordOf(b) = FateWord(f) \/ (FateWord(f) = "unsent" /\ WordOf(b) \notin Sent)
<1>1. f.result \in SendOutcome /\ f.via \in Reachable
  BY DEF Flight
<1>2. CASE f.result \in {"Accepted", "Taken"}
  BY <1>1, <1>2 DEF Settled, WordOf, StepOf, FateWord, LevelWord, Sent
<1>3. CASE f.result \in {"Held", "Unconfirmed"}
  BY <1>1, <1>3 DEF Settled, WordOf, StepOf, FateWord, Sent
<1>4. CASE f.result \in {"Busy", "Rejected"}
  BY <1>1, <1>4 DEF Settled, WordOf, StepOf, FateWord, ReasonWord, Sent
<1> QED BY <1>1, <1>2, <1>3, <1>4 DEF SendOutcome

\* The outcome of a delivery is what the attempt shows, and its row with it.
LEMMA RowsReceive ==
    ASSUME IInv, MInv, ReportInv, RowInv, NEW f \in flights, Receive(f)
    PROVE  ReportInv' /\ RowInv'
<1>1. /\ f.result # "none" /\ flights' = flights \ {f}
      /\ UNCHANGED <<fate, begun, incognito, closed>>
  BY DEF Receive, promises, ambient
<1>2. /\ f \in Flight /\ f.result \in SendOutcome /\ f.doc \in Id
      /\ attempt \in Attempt /\ rows \in [Id -> Word]
  BY <1>1 DEF IInv, DeliveryType, Flight, RouteType
<1>3. /\ flights = {f} /\ flights' = {} /\ attempt.phase = "Submitting" /\ f.id = attempt.id
      /\ f.doc = attempt.doc /\ f.row = attempt.row /\ f.via = attempt.via
      /\ fate[f.doc] = FateWord(f)
  BY <1>1 DEF MInv, FlightInv, FateInv
<1>4. attempt.id \in 1..begun
  BY <1>3 DEF IInv, Permission
<1>5. CASE closed
  <2>1. UNCHANGED <<attempt, reported, rows, watches>>
    BY <1>5 DEF Receive, route
  <2> QED BY <1>1, <1>5, <2>1 DEF ReportInv, News, RowInv, RowShape, RowKnown,
                                   RowsTellTheTruth, EveryMessageIsAccounted
<1>6. CASE ~closed
  <2> DEFINE b == Delivered(attempt, f.id, f.result)
  <2>1. attempt' = b /\ Report(b, rows, incognito)
        /\ watches' \subseteq watches \cup {[id |-> f.id, doc |-> f.doc, row |-> f.row]}
    BY <1>6 DEF Receive, Render
  <2>2. /\ b.id = attempt.id /\ b.via = f.via /\ b.doc = attempt.doc /\ b.row = attempt.row
        /\ b.disarmed = attempt.disarmed
        /\ b.phase = Settled(f.result) /\ b.taken = (f.result = "Taken")
        /\ b.phase = "Draft" => b.reason = f.result /\ f.result \in {"Busy", "Rejected"}
    BY <1>2, <1>3, DeliveredOutcome
  <2> HIDE DEF b
  <2>3. /\ WordOf(b) # "none" /\ WordOf(b) \notin {"ready", "absent"}
        /\ StepOf(b) \notin {"none", "grace"} /\ (~b.taken => StepOf(b) # "taken")
        /\ WordOf(b) = FateWord(f) \/ (FateWord(f) = "unsent" /\ WordOf(b) \notin Sent)
    BY <1>1, <1>2, <2>2, OutcomeWords
  <2>4. b.phase \in {"Delivered", "Held", "Unconfirmed", "Draft"}
    BY <2>2 DEF Settled
  <2>5. News(b)
    BY <1>3, <2>2, <2>3 DEF News, ReportInv
  <2>6. /\ <<b.id, StepOf(b)>> \in reported'
        /\ \A w \in reported' : w \in reported \/ w = <<b.id, StepOf(b)>>
        /\ rows' = IF b.row # NoId /\ ~incognito THEN [rows EXCEPT ![b.row] = WordOf(b)] ELSE rows
    BY <2>1, <2>3, <2>5, ReportWrites
  <2>7. ReportInv'
    <3>1. \A w \in reported' :
             /\ w[1] \in 1..begun'
             /\ w[1] = attempt'.id =>
                   /\ attempt'.phase \in Pending \cup {"Submitting"} => w[2] = "grace"
                   /\ attempt'.phase = "Delivered" /\ ~attempt'.taken => w[2] # "taken"
      BY <1>1, <1>3, <1>4, <2>1, <2>2, <2>3, <2>4, <2>6 DEF ReportInv, Pending
    <3> QED BY <2>1, <2>2, <2>6, <3>1 DEF ReportInv, News
  <2>8. attempt.row \in {NoId, attempt.doc} /\ (attempt.row = NoId => rows[attempt.doc] = "absent")
        /\ attempt.doc \in Id /\ attempt.doc # NoId
    BY <1>2, <1>3 DEF RowInv, RowShape, RowKnown, Id, NoId
  <2>9. \A x \in Id : \/ rows'[x] = rows[x] /\ (x = attempt.doc => attempt.row = NoId \/ incognito)
                      \/ /\ x = attempt.doc /\ x = attempt.row /\ ~incognito
                         /\ rows'[x] = WordOf(b)
    BY <1>2, <2>2, <2>6, <2>8
  <2>10. Present
    BY <2>3, <2>8, <2>9 DEF Present, RowInv, RowShape, RowKnown
  <2>11. \A w \in watches' :
            \/ w \in watches
            \/ w.id = attempt.id /\ w.doc = attempt.doc /\ w.row = attempt.row
               /\ attempt.phase # "None"
    BY <1>3, <2>1
  <2>12. attempt'.phase \notin {"Recording", "Finalizing"}
    BY <2>1, <2>4
  <2>13. RowShape'
    BY <1>1, <2>1, <2>2, <2>10, <2>11, <2>12, ShapeStays DEF RowInv
  <2>14. RowsTellTheTruth'
    <3> SUFFICES ASSUME NEW d \in Id, rows'[d] # "absent"
                 PROVE  rows'[d] = fate[d] \/ (fate[d] = "unsent" /\ rows'[d] \notin Sent)
      BY <1>1 DEF RowsTellTheTruth
    <3>1. CASE d # attempt.doc
      BY <1>3, <1>6, <2>9, <3>1 DEF RowInv, RowsTellTheTruth
    <3>2. CASE d = attempt.doc
      <4>1. attempt.row # NoId /\ ~incognito
        BY <2>8, <2>9, <3>2 DEF RowInv, RowShape
      <4>2. rows'[d] = WordOf(b)
        BY <2>9, <3>2, <4>1
      <4>3. fate[d] = FateWord(f)
        BY <1>3, <3>2
      <4> QED BY <2>3, <4>2, <4>3
    <3> QED BY <3>1, <3>2
  <2>15. EveryMessageIsAccounted'
    <3> SUFFICES ASSUME NEW d \in Id, rows'[d] = "ready" PROVE FALSE
      BY DEF EveryMessageIsAccounted
    <3>1. rows[d] = "ready" /\ (d = attempt.doc => attempt.row = NoId \/ incognito)
      BY <2>3, <2>9
    <3>2. attempt.row = d /\ d # NoId
      BY <1>6, <3>1 DEF RowInv, EveryMessageIsAccounted, Id, NoId
    <3> QED BY <2>8, <3>1, <3>2 DEF RowInv, RowShape
  <2> QED BY <2>7, <2>13, <2>14, <2>15 DEF RowInv
<1> QED BY <1>5, <1>6

\* A watch writes only the row of its message, which is nobody else's by then.
LEMMA RowsWatch ==
    ASSUME IInv, MInv, ReportInv, RowInv, ~closed, Watcher
    PROVE  ReportInv' /\ RowInv'
<1>1. PICK w \in watches : TakenSeen(w) \/ WatchEnds(w)
  BY DEF Watcher
<1>2. /\ watches' = watches \ {w} /\ UNCHANGED <<flights, begun, incognito, closed>>
  BY <1>1 DEF TakenSeen, WatchEnds, promises, ambient
<1>3. /\ attempt \in Attempt /\ rows \in [Id -> Word] /\ w.doc \in Id
      /\ w.row \in {NoId, w.doc} /\ (w.row = NoId <=> rows[w.doc] = "absent")
      /\ fate \in [Id -> Sent \cup {"unsent"}] /\ \A f \in flights : f.doc # w.doc
  BY DEF IInv, RouteType, DeliveryType, Watch, RowInv, RowShape, RowKnown, MInv, FateInv, Id, NoId
<1>4. CASE WatchEnds(w)
  <2>1. UNCHANGED <<attempt, reported, rows, fate>>
    BY <1>4 DEF WatchEnds, route
  <2> QED BY <1>2, <2>1 DEF ReportInv, News, RowInv, RowShape, RowKnown,
                            RowsTellTheTruth, EveryMessageIsAccounted
<1>5. CASE TakenSeen(w)
  <2> DEFINE b == TakenBy(attempt, w.id)
  <2>1. fate' = [fate EXCEPT ![w.doc] = "delivered"]
        /\ IF LearnsTaken(attempt, w.id)
           THEN Render(b)
           ELSE /\ rows' = IF w.row # NoId /\ ~incognito
                           THEN [rows EXCEPT ![w.row] = "delivered"] ELSE rows
                /\ UNCHANGED <<attempt, reported>>
    BY <1>5 DEF TakenSeen
  <2>2. LearnsTaken(attempt, w.id) =>
           /\ attempt.id = w.id /\ attempt.phase = "Delivered" /\ attempt.row = w.row
           /\ b = [attempt EXCEPT !.taken = TRUE]
    BY DEF LearnsTaken, TakenBy, RowInv, RowShape
  <2>3. LearnsTaken(attempt, w.id) =>
           /\ b.id = attempt.id /\ b.phase = "Delivered" /\ b.taken /\ b.row = w.row
           /\ b.doc = attempt.doc /\ b.disarmed = attempt.disarmed
    BY <1>3, <2>2 DEF Attempt
  <2> HIDE DEF b
  <2>4. LearnsTaken(attempt, w.id) =>
           StepOf(b) = "taken" /\ WordOf(b) = "delivered" /\ News(b)
    BY <2>2, <2>3 DEF StepOf, WordOf, News, ReportInv, LearnsTaken
  <2>5. LearnsTaken(attempt, w.id) =>
           /\ attempt' = b /\ <<b.id, "taken">> \in reported'
           /\ \A v \in reported' : v \in reported \/ v = <<b.id, "taken">>
           /\ rows' = IF w.row # NoId /\ ~incognito
                      THEN [rows EXCEPT ![w.row] = "delivered"] ELSE rows
    BY <2>1, <2>3, <2>4, ReportWrites DEF Render
  <2>6. rows' = IF w.row # NoId /\ ~incognito THEN [rows EXCEPT ![w.row] = "delivered"] ELSE rows
    BY <2>1, <2>5
  <2>7. \A x \in Id : \/ rows'[x] = rows[x] /\ (x = w.doc => w.row = NoId \/ incognito)
                      \/ x = w.doc /\ w.row = w.doc /\ rows'[x] = "delivered"
    BY <1>3, <2>6
  <2>8. \A x \in Id : x # w.doc => fate'[x] = fate[x]
    BY <1>3, <2>1
  <2>9. fate'[w.doc] = "delivered"
    BY <1>3, <2>1
  <2>10. Present
    BY <1>3, <2>7 DEF Present, NoId, Id
  <2>11. /\ attempt'.id = attempt.id /\ attempt'.row = attempt.row /\ attempt'.doc = attempt.doc
         /\ attempt'.phase = attempt.phase /\ attempt'.disarmed = attempt.disarmed
    BY <2>1, <2>2, <2>3, <2>5
  <2>12. RowShape'
    BY <1>2, <2>10, <2>11, ShapeStays DEF RowInv
  <2>13. RowsTellTheTruth'
    <3> SUFFICES ASSUME NEW d \in Id, rows'[d] # "absent", \A f \in flights : f.doc # d
                 PROVE  rows'[d] = fate'[d] \/ (fate'[d] = "unsent" /\ rows'[d] \notin Sent)
      BY <1>2 DEF RowsTellTheTruth
    <3>1. CASE d # w.doc
      BY <2>7, <2>8, <3>1 DEF RowInv, RowsTellTheTruth
    <3>2. CASE d = w.doc
      BY <1>3, <2>7, <2>9, <3>2 DEF RowInv, RowShape
    <3> QED BY <3>1, <3>2
  <2>14. EveryMessageIsAccounted'
    BY <2>7, <2>11 DEF RowInv, EveryMessageIsAccounted
  <2>15. ReportInv'
    <3>1. CASE LearnsTaken(attempt, w.id)
      <4>1. attempt.id \in 1..begun
        BY <2>2, <3>1 DEF IInv, Permission
      <4>2. \A v \in reported' : v[1] \in 1..begun'
        BY <1>2, <2>3, <2>5, <3>1, <4>1 DEF ReportInv
      <4>3. attempt'.phase = "Delivered" /\ attempt'.taken /\ ~(News(attempt)')
        BY <2>3, <2>4, <2>5, <3>1 DEF News
      <4> QED BY <2>11, <4>2, <4>3 DEF ReportInv, Pending
    <3>2. CASE ~LearnsTaken(attempt, w.id)
      BY <1>2, <2>1, <3>2 DEF ReportInv, News
    <3> QED BY <3>1, <3>2
  <2> QED BY <2>12, <2>13, <2>14, <2>15 DEF RowInv
<1> QED BY <1>1, <1>4, <1>5

LEMMA RowsClose ==
    ASSUME IInv, MInv, ReportInv, RowInv, Close
    PROVE  ReportInv' /\ RowInv'
<1>1. /\ Held(attempt, attempt') /\ attempt'.phase \notin Pending
      /\ watches' = {} /\ closed'
      /\ UNCHANGED <<reported, rows, flights, fate, begun, incognito>>
  BY CloseHolds
<1>2. /\ attempt'.id = attempt.id /\ attempt'.row = attempt.row /\ attempt'.doc = attempt.doc
      /\ attempt.phase \notin Pending => attempt' = attempt
      /\ attempt.phase \in Pending => attempt'.phase = "Draft"
      /\ attempt'.disarmed # "Empty"
  BY <1>1 DEF Held, Follows, ReportInv, Pending
<1>3. ReportInv'
  BY <1>1, <1>2 DEF ReportInv
<1>4. RowShape'
  BY <1>1, <1>2, ShapeStays DEF RowInv, Present, Pending
<1>5. RowsTellTheTruth' /\ EveryMessageIsAccounted'
  BY <1>1 DEF RowsTellTheTruth, EveryMessageIsAccounted
<1> QED BY <1>3, <1>4, <1>5 DEF RowInv

LEMMA RowInvNext ==
    IInv /\ MInv /\ ReportInv /\ RowInv /\ [Next]_vars /\ incognito' = incognito
        => ReportInv' /\ RowInv'
<1> SUFFICES ASSUME IInv, MInv, ReportInv, RowInv, [Next]_vars, incognito' = incognito
             PROVE  ReportInv' /\ RowInv'
  OBVIOUS
<1>1. CASE ~closed /\ AgentKeySends
  <2>1. SendStep
    BY <1>1 DEF AgentKeySends, SendStep, capture, finding, ambient
  <2> QED BY <2>1, RowsSend
<1>2. CASE ~closed /\ Person /\ ~AgentKeySends
  BY <1>2, ChoosingHolds, SettingsHold, KeysHold, ViewsHold, BeginningBegins, RowsOther,
     RowsHold, RowsIdle, RowsBegin DEF Person
<1>3. CASE ~closed /\ Finder
  BY <1>3, FindingHolds, RowsHold, RowsIdle
<1>4. CASE ~closed /\ Recorder
  BY <1>4, CaptureHolds, CompletionCompletes, RowsHold, RowsIdle, RowsComplete DEF Recorder
<1>5. CASE ~closed /\ Tick
  BY <1>5, TickHolds, RowsHold, RowsSend
<1>6. CASE ~closed /\ (Watcher \/ Elapse \/ SetBack \/ Close)
  BY <1>6, RowsWatch, RowsClock, RowsClose
<1>7. CASE Transport
  BY <1>7, RowsTransmit, RowsReceive DEF Transport
<1>8. CASE UNCHANGED vars
  <2>1. UNCHANGED <<route, finding, capture, delivery, promises, ambient>>
    BY <1>8 DEF vars
  <2>2. IdleStep
    BY <2>1 DEF IdleStep, MInv, Owned, TargetsFit, route, finding, capture, delivery, promises, ambient
  <2> QED BY <2>2, RowsIdle
<1> QED BY <1>1, <1>2, <1>3, <1>4, <1>5, <1>6, <1>7, <1>8 DEF Next

-----------------------------------------------------------------------------
(* The kinds of steps, together                                             *)

LEMMA StepKinds ==
    ASSUME IInv, MInv, [Next]_vars
    PROVE  \/ ~closed /\ HoldStep
           \/ IdleStep
           \/ BeginStep
           \/ ~closed /\ CompleteStep
           \/ SendStep /\ (gap \in 0..1 \/ gap' = gap)
           \/ ~closed /\ \E started \in BOOLEAN : StartOther(started)
           \/ Elapse \/ SetBack
           \/ Watcher
           \/ Close
           \/ \E f \in flights : Receive(f) \/ \E outcome \in Outcomes : Transmit(f, outcome)
<1>1. CASE ~closed /\ AgentKeySends
  <2>1. SendStep /\ gap' = gap
    BY <1>1 DEF AgentKeySends, SendStep, capture, finding, ambient
  <2> QED BY <2>1
<1>2. CASE ~closed /\ Person /\ ~AgentKeySends
  BY <1>2, ChoosingHolds, SettingsHold, KeysHold, ViewsHold, BeginningBegins DEF Person
<1>3. CASE ~closed /\ Finder
  BY <1>3, FindingHolds
<1>4. CASE ~closed /\ Recorder
  BY <1>4, CaptureHolds, CompletionCompletes DEF Recorder
<1>5. CASE ~closed /\ Tick
  BY <1>5, TickHolds
<1>6. CASE Watcher \/ Elapse \/ SetBack \/ Close
  BY <1>6
<1>7. CASE Transport
  BY <1>7 DEF Transport
<1>8. CASE UNCHANGED vars
  <2>1. UNCHANGED <<route, finding, capture, delivery, promises, ambient>>
    BY <1>8 DEF vars
  <2>2. IdleStep
    BY <2>1 DEF IdleStep, MInv, Owned, TargetsFit, route, finding, capture, delivery, promises, ambient
  <2> QED BY <2>2
<1> QED BY <1>1, <1>2, <1>3, <1>4, <1>5, <1>6, <1>7, <1>8 DEF Next

\* Only sending hands anything over, and not after timing was interrupted.
LEMMA SendingKeepsTime ==
    ASSUME IInv, MInv, [Next]_vars
    PROVE  gap \notin 0..1 /\ gap' = 0 => handed' = handed
<1>1. CASE SendStep /\ (gap \in 0..1 \/ gap' = gap)
  BY <1>1
<1>2. CASE HoldStep \/ IdleStep \/ BeginStep \/ CompleteStep
  BY <1>2 DEF HoldStep, IdleStep, BeginStep, CompleteStep
<1>3. CASE \E started \in BOOLEAN : StartOther(started)
  BY <1>3 DEF StartOther
<1>4. CASE Elapse \/ SetBack
  BY <1>4 DEF Elapse, SetBack, MoveClock, promises
<1>5. CASE Watcher
  BY <1>5 DEF Watcher, TakenSeen, WatchEnds, promises
<1>6. CASE Close
  BY <1>6 DEF Close
<1>7. CASE \E f \in flights : Receive(f) \/ \E outcome \in Outcomes : Transmit(f, outcome)
  BY <1>7 DEF Receive, Transmit, promises
<1> QED BY <1>1, <1>2, <1>3, <1>4, <1>5, <1>6, <1>7, StepKinds

\* While Incognito is on every handler that reports an attempt leaves the rows.
LEMMA PrivateReports ==
    ASSUME NEW a, NEW r, NEW private, private, Report(a, r, private)
    PROVE  rows' = r
BY DEF Report

LEMMA IncognitoLeavesRows ==
    ASSUME IInv, MInv, [Next]_vars, incognito, incognito'
    PROVE  rows' = rows
<1>1. CASE HoldStep \/ BeginStep
  BY <1>1, PrivateReports DEF HoldStep, BeginStep
<1>2. CASE IdleStep
  BY <1>2 DEF IdleStep, route
<1>3. CASE CompleteStep
  <2>1. attempt'.row = NoId
    BY <1>3 DEF CompleteStep
  <2> QED BY <1>3, <2>1, PrivateReports DEF CompleteStep
<1>4. CASE SendStep
  BY <1>4, PrivateReports DEF SendStep, Render
<1>5. CASE \E started \in BOOLEAN : StartOther(started)
  BY <1>5, PrivateReports DEF StartOther
<1>6. CASE Elapse \/ SetBack
  BY <1>6 DEF Elapse, SetBack, MoveClock
<1>7. CASE Watcher
  <2>1. PICK w \in watches : TakenSeen(w) \/ WatchEnds(w)
    BY <1>7 DEF Watcher
  <2> QED BY <2>1, PrivateReports DEF TakenSeen, WatchEnds, Render, route
<1>8. CASE Close
  BY <1>8 DEF Close
<1>9. CASE \E f \in flights : Receive(f) \/ \E outcome \in Outcomes : Transmit(f, outcome)
  BY <1>9, PrivateReports DEF Receive, Transmit, Render, route
<1> QED BY <1>1, <1>2, <1>3, <1>4, <1>5, <1>6, <1>7, <1>8, <1>9, StepKinds

\* A request for a recipient that is not outdated is newer than the selection.
ChoiceInv ==
    /\ applied <= asked
    /\ \A w \in switches : w.order <= asked /\ (~w.stale => w.order > applied)

LEMMA ChoiceInvInit == Init => ChoiceInv
BY DEF Init, ChoiceInv

LEMMA OutdatedRequests ==
    ASSUME IInv, ChoiceInv
    PROVE  \A w \in Outdated : w.stale /\ w.order <= asked
BY DEF IInv, ChoiceType, ChoiceInv, Outdated, Switch

LEMMA ChoiceInvNext ==
    IInv /\ ChoiceInv /\ [Next]_vars => ChoiceInv' /\ applied' >= applied
<1> SUFFICES ASSUME IInv, ChoiceInv, [Next]_vars PROVE ChoiceInv' /\ applied' >= applied
  OBVIOUS
<1>1. applied \in Nat /\ asked \in Nat /\ switches \subseteq Switch
  BY AgentRouteAssumption DEF IInv, ChoiceType
<1>2. \A w \in Switch : w.order \in Nat /\ w.stale \in BOOLEAN
  BY AgentRouteAssumption DEF Switch
<1>3. \A w \in Outdated : w.stale /\ w.order <= asked
  BY OutdatedRequests
<1>4. Outdated \subseteq Switch
  BY <1>1 DEF Outdated, Switch
<1>5. CASE UNCHANGED choice
  BY <1>1, <1>5 DEF ChoiceInv, choice
<1>6. CASE asked' = asked + 1 /\ applied' = asked + 1 /\ switches' = Outdated
  BY <1>1, <1>2, <1>3, <1>4, <1>6 DEF ChoiceInv
<1>7. CASE asked' = asked /\ applied' = applied /\ switches' \in {Outdated, {}}
  BY <1>1, <1>2, <1>3, <1>7 DEF ChoiceInv
<1>8. CASE \E s \in Session : AskSwitch(s)
  <2>1. PICK s \in Session : /\ asked' = asked + 1 /\ applied' = applied
                             /\ switches' = switches \cup {[session |-> s, order |-> asked + 1, stale |-> FALSE]}
    BY <1>8 DEF AskSwitch
  <2> QED BY <1>1, <1>2, <2>1 DEF ChoiceInv
<1>9. CASE \E w \in switches, found \in Found : FinishSwitch(w, found)
  <2>1. PICK w \in switches, found \in Found : FinishSwitch(w, found)
    BY <1>9
  <2>2. \/ switches' = switches \ {w} /\ asked' = asked /\ applied' = applied
        \/ /\ ~w.stale /\ applied' = w.order /\ asked' = asked
           /\ switches' = {[v EXCEPT !.stale = TRUE] : v \in switches \ {w}}
    BY <2>1 DEF FinishSwitch
  <2>3. \A v \in switches : [v EXCEPT !.stale = TRUE].stale /\ [v EXCEPT !.stale = TRUE].order = v.order
    BY <1>1 DEF Switch
  <2>4. CASE switches' = switches \ {w} /\ asked' = asked /\ applied' = applied
    BY <1>1, <2>4 DEF ChoiceInv
  <2>5. CASE /\ ~w.stale /\ applied' = w.order /\ asked' = asked
             /\ switches' = {[v EXCEPT !.stale = TRUE] : v \in switches \ {w}}
    <3>1. \A v \in switches' : v.stale /\ v.order <= asked
      BY <2>3, <2>5 DEF ChoiceInv
    <3>2. w.order \in Nat /\ w.order > applied /\ w.order <= asked
      BY <1>1, <1>2, <2>5 DEF ChoiceInv
    <3> QED BY <1>1, <2>5, <3>1, <3>2 DEF ChoiceInv
  <2> QED BY <2>2, <2>4, <2>5
<1>10. CASE Person /\ ~\E s \in Session : AskSwitch(s)
  <2>1. UNCHANGED choice
        \/ (asked' = asked + 1 /\ applied' = asked + 1 /\ switches' = Outdated)
        \/ (asked' = asked /\ applied' = applied /\ switches' \in {Outdated, {}})
    <3>0. CASE OpenWheel
      BY <3>0 DEF OpenWheel, choice
    <3>1. CASE \/ \E s \in Session \cup {NoSession} : Choose(s)
               \/ \E on \in BOOLEAN : SaveRouting(on)
               \/ SaveOther \/ Clear
      BY <3>1 DEF Choose, SaveRouting, SaveOther, Clear, Choice, choice
    <3>2. CASE \/ Refresh \/ AgentKeyStops \/ AgentKeyCancels \/ AgentKeySends \/ HideWheel
               \/ RecordKeyStops \/ Escape \/ Cancel \/ KeepDraft \/ Interrupt \/ SwitchPrivacy
               \/ Edit \/ LeaveEditor \/ ReturnToEditor
      BY <3>2 DEF Refresh, AgentKeyStops, AgentKeyCancels, AgentKeySends, HideWheel,
         RecordKeyStops, Escape, Cancel, KeepDraft, Interrupt, SwitchPrivacy,
         Edit, LeaveEditor, ReturnToEditor, choice
    <3>3. CASE \/ \E started \in BOOLEAN : AgentPress(started) \/ StartOther(started)
               \/ \E text \in Spoken : SendDraft(text)
      BY <3>3 DEF AgentPress, StartOther, SendDraft, choice
    <3> QED BY <1>10, <3>0, <3>1, <3>2, <3>3 DEF Person
  <2> QED BY <1>5, <1>6, <1>7, <2>1
<1>11. CASE Recorder \/ Tick \/ Elapse \/ SetBack
  <2>1. UNCHANGED choice
    BY <1>11 DEF Recorder, Prepared, CaptureFailed, CaptureCancelled, CaptureEnds, AgentCompleted,
       OtherCompleted, Tick, Elapse, SetBack, MoveClock, choice
  <2> QED BY <1>5, <2>1
<1>12. CASE Watcher \/ Transport \/ DropFound \/ \E found \in Found : ApplyFound(found)
  <2>1. UNCHANGED choice
    BY <1>12 DEF Watcher, TakenSeen, WatchEnds, Transport, Receive, Transmit, DropFound,
       ApplyFound, choice
  <2> QED BY <1>5, <2>1
<1>13. CASE Close
  BY <1>7, <1>13 DEF Close
<1>14. CASE UNCHANGED vars
  BY <1>5, <1>14 DEF vars
<1> QED BY <1>8, <1>9, <1>10, <1>11, <1>12, <1>13, <1>14 DEF Next, Finder

-----------------------------------------------------------------------------
(* Every step is a step of OneShotDelivery                                  *)

Kept == (1..begun) \ (Armed \cup handed)
Moving == {f.id : f \in flights}

\* Losing the permission, or none of it changing.
LEMMA LosingSteps ==
    ASSUME IInv, UNCHANGED <<begun, handed>>, Moving' = Moving, Armed' \subseteq Armed
    PROVE  [Intent!Next]_(Intent!vars)
<1>1. Armed = {} \/ (Armed = {attempt.id} /\ attempt.phase \in Pending)
  BY DEF Armed
<1>2. CASE Armed' = Armed
  <2>1. Kept' = Kept
    BY <1>2 DEF Kept
  <2> QED BY <1>2, <2>1 DEF Intent!vars, Kept, Moving
<1>3. CASE Armed' # Armed
  <2>1. Armed = {attempt.id} /\ Armed' = {} /\ attempt.phase \in Pending
    BY <1>1, <1>3
  <2>2. attempt.id \in 1..begun /\ attempt.id \in Id /\ attempt.id \notin handed
    BY <2>1, AgentRouteAssumption DEF IInv, Permission, PromiseType, Pending, Id
  <2>3. Kept' = Kept \cup {attempt.id}
    BY <2>1, <2>2 DEF Kept
  <2>4. Intent!Disarm(attempt.id)
    BY <2>1, <2>3 DEF Intent!Disarm, Kept, Moving
  <2> QED BY <2>2, <2>4 DEF Intent!Next
<1> QED BY <1>2, <1>3

\* What is held, or becomes a draft, is armed only if it was.
LEMMA FollowerIsArmed ==
    ASSUME IInv, Follows(attempt, attempt')
    PROVE  Armed' \subseteq Armed
<1>1. attempt'.phase \in Pending => attempt.phase \in Pending
  BY DEF Follows
<1>2. attempt'.disarmed = NoReason => attempt.disarmed = NoReason
  BY DEF Follows
<1>3. attempt'.id = attempt.id
  BY DEF Follows
<1> QED BY <1>1, <1>2, <1>3 DEF Armed

LEMMA NothingMoves ==
    ASSUME MInv, attempt.phase # "Submitting"
    PROVE  Moving = {} /\ flights = {}
BY DEF MInv, FlightInv, Moving

LEMMA BeginRefines ==
    ASSUME IInv, MInv, BeginStep
    PROVE  [Intent!Next]_(Intent!vars)
<1> DEFINE id == begun + 1
<1>1. /\ Armed = {} /\ Moving = {} /\ Moving' = {} /\ handed' = handed /\ begun' = id
      /\ attempt'.id = id
  BY NothingMoves DEF BeginStep, Armed, Moving
<1>2. begun \in Nat /\ id \in Id /\ handed \subseteq 1..begun
  BY AgentRouteAssumption DEF IInv, PromiseType, BeginStep, Id
<1>3. id \notin handed /\ id \notin Kept /\ id \notin Armed
  BY <1>1, <1>2 DEF Kept
<1>4. 1..begun' = (1..begun) \cup {id}
  BY <1>1, <1>2
<1> HIDE DEF id
<1>5. CASE attempt'.phase \in Pending
  <2>1. Armed' = {id}
    BY <1>1, <1>5 DEF BeginStep, Armed
  <2>2. Kept' = Kept
    BY <1>1, <1>2, <1>3, <1>4, <2>1 DEF Kept, id
  <2>3. Intent!Arm(id)
    BY <1>1, <1>3, <2>1, <2>2 DEF Intent!Arm, Intent!Free, Intent!Fresh, Kept, Moving
  <2> QED BY <1>2, <2>3 DEF Intent!Next
<1>6. CASE attempt'.phase \notin Pending
  <2>1. Armed' = {}
    BY <1>6 DEF Armed
  <2>2. Kept' = Kept \cup {id}
    BY <1>1, <1>2, <1>3, <1>4, <2>1 DEF Kept
  <2>3. Intent!Refuse(id)
    BY <1>1, <1>3, <2>1, <2>2 DEF Intent!Refuse, Intent!Free, Intent!Fresh, Kept, Moving
  <2> QED BY <1>2, <2>3 DEF Intent!Next
<1> QED BY <1>5, <1>6

LEMMA SendRefines ==
    ASSUME IInv, MInv, SendStep
    PROVE  [Intent!Next]_(Intent!vars)
<1>1. attempt \in Attempt /\ attempt.phase = "Grace" /\ attempt.disarmed = NoReason
      /\ attempt.id \in 1..begun /\ attempt.id \in Id
  BY AgentRouteAssumption DEF IInv, RouteType, SendStep, Permission, PromiseType, Id
<1>2. Armed = {attempt.id} /\ Moving = {} /\ flights = {}
  BY <1>1, NothingMoves DEF Armed, Pending
<1>3. attempt'.phase = "Submitting"
  BY <1>1, SubmissionFollows DEF SendStep, Render
<1>4. Armed' = {}
  BY <1>3 DEF Armed, Pending
<1>5. handed' = handed \cup {attempt.id} /\ begun' = begun /\ Moving' = {attempt.id}
  BY <1>2 DEF SendStep, Submit, FlightOf, Moving
<1>6. Kept' = Kept
  BY <1>2, <1>4, <1>5 DEF Kept
<1>7. PICK i \in Id : i = attempt.id
  BY <1>1
<1>8. Intent!Send(i)
  <2>1. i \in Armed /\ Moving' = {i} /\ handed' = handed \cup {i}
    BY <1>2, <1>5, <1>7
  <2>2. Moving = {} /\ Armed' = {}
    BY <1>2, <1>4
  <2> QED BY <1>6, <2>1, <2>2 DEF Intent!Send, Kept, Moving
<1> QED BY <1>8 DEF Intent!Next

LEMMA ReceiveRefines ==
    ASSUME IInv, MInv, NEW f \in flights, Receive(f)
    PROVE  [Intent!Next]_(Intent!vars)
<1>1. /\ flights = {f} /\ flights' = {} /\ attempt.phase = "Submitting"
      /\ handed' = handed /\ begun' = begun
  BY DEF MInv, FlightInv, Receive, promises
<1>2. attempt \in Attempt /\ f.result \in SendOutcome
  BY DEF IInv, RouteType, DeliveryType, Flight, Receive
<1>3. Moving # {} /\ Moving' = {}
  BY <1>1 DEF Moving
<1>4. Follows(attempt, attempt')
  BY <1>2, DeliveredFollows, FollowsReflexive DEF Receive, Render, route
<1>5. Armed = {} /\ Armed' = {}
  BY <1>1, <1>4, FollowerIsArmed DEF Armed, Pending
<1>6. Kept' = Kept
  BY <1>1, <1>5 DEF Kept
<1>7. Intent!Settle
  BY <1>1, <1>3, <1>5, <1>6 DEF Intent!Settle, Kept, Moving
<1> QED BY <1>7 DEF Intent!Next

LEMMA OneShotInit == Init => Intent!Init
<1> SUFFICES ASSUME Init PROVE Intent!Init
  OBVIOUS
<1>1. attempt.phase = "None" /\ handed = {} /\ begun = 0 /\ flights = {}
  BY NoAttemptIsAttempt DEF Init
<1>2. Armed = {} /\ Moving = {} /\ Kept = {}
  BY <1>1 DEF Armed, Moving, Kept, Pending
<1> QED BY <1>1, <1>2 DEF Intent!Init, Kept, Moving

LEMMA OneShotNext == IInv /\ MInv /\ [Next]_vars => [Intent!Next]_(Intent!vars)
<1> SUFFICES ASSUME IInv, MInv, [Next]_vars PROVE [Intent!Next]_(Intent!vars)
  OBVIOUS
<1>1. CASE HoldStep \/ IdleStep
  <2>1. Follows(attempt, attempt') /\ UNCHANGED <<begun, handed, flights>>
    BY <1>1, FollowsReflexive DEF HoldStep, Held, IdleStep, route, IInv, RouteType
  <2> QED BY <2>1, FollowerIsArmed, LosingSteps DEF Moving
<1>2. CASE CompleteStep
  <2>1. /\ attempt.phase = "Finalizing" /\ attempt'.id = attempt.id
        /\ attempt'.phase \in {"Grace", "Draft"}
        /\ attempt'.phase = "Grace" => attempt.disarmed = NoReason
        /\ UNCHANGED <<begun, handed, flights>>
    BY <1>2 DEF CompleteStep
  <2>2. Armed' \subseteq Armed
    BY <2>1 DEF Armed, Pending
  <2> QED BY <2>1, <2>2, LosingSteps DEF Moving
<1>3. CASE \E started \in BOOLEAN : StartOther(started)
  <2>1. UNCHANGED <<begun, handed, flights>> /\ attempt' \in {attempt, NoAttempt}
    BY <1>3 DEF StartOther, delivery
  <2>2. Armed' \subseteq Armed
    BY <2>1, NoAttemptIsAttempt DEF Armed, Pending
  <2> QED BY <2>1, <2>2, LosingSteps DEF Moving
<1>4. CASE Elapse \/ SetBack
  <2>1. Alike(attempt, attempt') /\ UNCHANGED <<begun, handed, flights>>
    BY <1>4, ClockIsAlike DEF promises, delivery
  <2>2. Armed' \subseteq Armed
    BY <2>1 DEF Alike, Armed
  <2> QED BY <2>1, <2>2, LosingSteps DEF Moving
<1>5. CASE Watcher
  <2>1. PICK w \in watches : TakenSeen(w) \/ WatchEnds(w)
    BY <1>5 DEF Watcher
  <2>2. attempt \in Attempt
    BY DEF IInv, RouteType
  <2>3. UNCHANGED <<begun, handed, flights>>
    BY <2>1 DEF TakenSeen, WatchEnds, promises
  <2>4. Follows(attempt, attempt')
    BY <2>1, <2>2, TakenFollows, FollowsReflexive DEF TakenSeen, WatchEnds, Render, route
  <2> QED BY <2>3, <2>4, FollowerIsArmed, LosingSteps DEF Moving
<1>6. CASE Close
  BY <1>6, CloseHolds, FollowerIsArmed, LosingSteps DEF Held, Moving
<1>7. CASE \E f \in flights, outcome \in Outcomes : Transmit(f, outcome)
  <2>1. PICK f \in flights, outcome \in Outcomes : Transmit(f, outcome)
    BY <1>7
  <2>2. UNCHANGED <<begun, handed, attempt>>
        /\ flights' = (flights \ {f}) \cup {[f EXCEPT !.result = outcome]}
    BY <2>1 DEF Transmit, promises, route
  <2>3. [f EXCEPT !.result = outcome].id = f.id
    BY DEF IInv, DeliveryType, Flight
  <2>4. Moving' = Moving
    BY <2>2, <2>3 DEF Moving
  <2>5. Armed' = Armed
    BY <2>2 DEF Armed
  <2> QED BY <2>2, <2>4, <2>5, LosingSteps
<1> QED BY <1>1, <1>2, <1>3, <1>4, <1>5, <1>6, <1>7, BeginRefines, SendRefines,
           ReceiveRefines, StepKinds

-----------------------------------------------------------------------------
(* The theorems                                                             *)

\* The invariant of delivery, on top of the one AgentRouteProofs proves.
THEOREM DeliveryInvariant == Spec => [](IInv /\ MInv)
<1>1. Init => IInv /\ MInv
  BY InvariantInit, MInvInit
<1>2. (IInv /\ MInv) /\ [Next]_vars => (IInv /\ MInv)'
  BY InvariantNext, MInvNext
<1> QED BY <1>1, <1>2, PTL DEF Spec

\* A message is handed to a transport only while nothing of its text may have
\* reached an agent, and no text is in two deliveries: accepted, held, taken or
\* uncertain, it is never written again, for any number of attempts.
THEOREM WrittenOnce == Spec => []NeverWrittenAgain
<1>1. IInv /\ MInv => NeverWrittenAgain
  BY DEF MInv, FlightInv, FateInv, FateWord, NeverWrittenAgain
<1> QED BY <1>1, DeliveryInvariant, PTL

\* What is handed over has words and fits the route that carries it, although
\* discovery may move a message to another route while it counts down.
THEOREM HandedOverWhole == Spec => []HandedTextFits
<1>1. IInv /\ MInv => HandedTextFits
  BY DEF MInv, FlightInv, RouteFits, HandedTextFits
<1> QED BY <1>1, DeliveryInvariant, PTL

\* An attempt and its capture never lose each other.
THEOREM AttemptKeepsItsCapture == Spec => []CaptureIsOwned
<1>1. IInv /\ MInv => CaptureIsOwned
  BY DEF MInv, Owned, CaptureIsOwned
<1> QED BY <1>1, DeliveryInvariant, PTL

\* What is in flight is what the attempt shows as being delivered.
THEOREM FlightIsShown == Spec => []DeliveryIsShown
<1>1. IInv /\ MInv => DeliveryIsShown
  BY DEF MInv, FlightInv, DeliveryIsShown
<1> QED BY <1>1, DeliveryInvariant, PTL

\* While nobody switches Incognito (a switch leaves rows as they were, by
\* design), every row belongs to a message that is counted down or delivered,
\* or says what became of it.
THEOREM NothingLost == Spec /\ [][incognito' = incognito]_vars => []NothingIsLost
<1> DEFINE Inv == IInv /\ MInv /\ ReportInv /\ RowInv
<1>1. Init => Inv
  BY InvariantInit, MInvInit, RowInvInit
<1>2. Inv /\ [Next]_vars /\ [incognito' = incognito]_vars => Inv'
  <2>1. [incognito' = incognito]_vars => incognito' = incognito
    BY DEF vars, ambient
  <2> QED BY <2>1, InvariantNext, MInvNext, RowInvNext
<1>3. Inv => NothingIsLost
  BY DEF MInv, Owned, CaptureIsOwned, RowInv, NothingIsLost
<1> QED BY <1>1, <1>2, <1>3, PTL DEF Spec

\* While nobody switches Incognito, what the attempt and History show of a
\* message is what became of it.
THEOREM ShownTrue == Spec /\ [][incognito' = incognito]_vars => []WhatIsShownIsTrue
<1> DEFINE Inv == IInv /\ MInv /\ ReportInv /\ RowInv
<1>1. Init => Inv
  BY InvariantInit, MInvInit, RowInvInit
<1>2. Inv /\ [Next]_vars /\ [incognito' = incognito]_vars => Inv'
  <2>1. [incognito' = incognito]_vars => incognito' = incognito
    BY DEF vars, ambient
  <2> QED BY <2>1, InvariantNext, MInvNext, RowInvNext
<1>3. Inv => WhatIsShownIsTrue
  BY DEF MInv, FlightInv, DeliveryIsShown, RowInv, WhatIsShownIsTrue
<1> QED BY <1>1, <1>2, <1>3, PTL DEF Spec

\* The selection follows the newest choice: no step, a late answer to an older
\* request included, takes it back to an older one.
THEOREM SelectionFollowsNewest == Spec => NewestChoiceWins
<1>1. Init => IInv /\ ChoiceInv
  BY InvariantInit, ChoiceInvInit
<1>2. (IInv /\ ChoiceInv) /\ [Next]_vars => (IInv /\ ChoiceInv)'
  BY InvariantNext, ChoiceInvNext
<1>3. (IInv /\ ChoiceInv) /\ [Next]_vars => [applied' >= applied]_vars
  BY ChoiceInvNext
<1> QED BY <1>1, <1>2, <1>3, PTL DEF Spec, NewestChoiceWins

\* A countdown does not survive interrupted timing: the tick that notices a
\* clock set back or a frame held up hands nothing over.
THEOREM BrokenTimingSendsNothing == Spec => NoSendAcrossABreak
<1>1. (IInv /\ MInv) /\ [Next]_vars => [gap \notin 0..1 /\ gap' = 0 => handed' = handed]_vars
  BY SendingKeepsTime
<1> QED BY <1>1, DeliveryInvariant, PTL DEF Spec, NoSendAcrossABreak

\* While Incognito is on no step writes a row of History.
THEOREM IncognitoWritesNothing == Spec => PrivateLeavesRows
<1>1. (IInv /\ MInv) /\ [Next]_vars => [incognito /\ incognito' => rows' = rows]_vars
  BY IncognitoLeavesRows
<1> QED BY <1>1, DeliveryInvariant, PTL DEF Spec, PrivateLeavesRows

\* AgentRoute implements OneShotDelivery: every step of every handler gives the
\* one permission of a fresh attempt, loses it, uses it, settles what it was
\* used for, or does nothing to it.
THEOREM ImplementsOneShot == Spec => OneShot
<1>1. IInv /\ MInv /\ [Next]_vars => [Intent!Next]_(Intent!vars)
  BY OneShotNext
<1> QED BY <1>1, OneShotInit, DeliveryInvariant, PTL DEF Spec, OneShot, Intent!Spec
=============================================================================
