------------------------- MODULE CaptureOwnerProofs -------------------------
(***************************************************************************)
(* Proofs about CaptureOwner for any number of spoken updates, requests    *)
(* and attempts.  The heart is the queue of spoken updates: whatever comes *)
(* after an unfinished one is still queued, so the newest speaks for all   *)
(* of them, and `stop_voice`, which asks only the newest, is enough.       *)
(***************************************************************************)
EXTENDS CaptureOwner, TLAPS

Jobs == [stage : Stage, cancelled : BOOLEAN, prior : 0..MaxSpeech]
Attempts == [id : 0..MaxAttempts, phase : Phase]
Captures == [phase : CapturePhase, agent : 0..MaxAttempts]

SpeechType == jobs \in [Job -> Jobs] /\ spoken \in 0..MaxSpeech

\* The newest job speaks for all: what follows an unfinished one is queued.
Queue ==
    /\ \A j \in Job : j > spoken => jobs[j].stage = "none"
    /\ \A j, k \in Job : j < k /\ k <= spoken /\ Unfinished(j) => jobs[k].stage = "queued"
    /\ \A k \in Job : jobs[k].stage = "queued" => k - 1 \in Job /\ jobs[k].prior = k - 1

OwnerType ==
    /\ attempt \in Attempts /\ begun \in 0..MaxAttempts
    /\ cap \in Captures /\ meeting \in BOOLEAN

FlagType ==
    /\ waiting \in BOOLEAN /\ deferred \in BOOLEAN /\ requests \subseteq Request
    /\ closed \in BOOLEAN /\ asked \in 0..MaxRequests /\ wanted \in 0..MaxRequests

\* While a request waits no capture runs; nothing waits once Mluva closed.
Calm ==
    /\ waiting => cap.phase = "None"
    /\ closed => ~waiting /\ ~deferred

\* Only an agent's request names an attempt.
Named == \A r \in requests : r.by # "agent" => r.id = Nobody

\* What an agent capture that can still be stopped knows of its attempt.
Owned ==
    cap.agent # Nobody /\ cap.phase \in {"Preparing", "Recording"}
        => attempt = [id |-> cap.agent, phase |-> "Recording"]

IInv ==
    /\ SpeechType /\ Queue /\ OwnerType /\ FlagType /\ Calm /\ Named /\ Owned
    /\ SilenceBeforeCapture /\ OneMicrophone /\ FlagsAreServed

-----------------------------------------------------------------------------
(* Spoken updates                                                           *)

\* If the newest spoken update is finished, all are.
LEMMA NewestSpeaksForAll ==
    ASSUME SpeechType, Queue, ~Speaking
    PROVE  \A j \in Job : ~Unfinished(j)
<1> SUFFICES ASSUME NEW j \in Job, Unfinished(j) PROVE FALSE
  OBVIOUS
<1>1. MaxSpeech \in Nat /\ spoken \in Int /\ j \in Int /\ j > 0
  BY CaptureOwnerAssumption DEF SpeechType, Job
<1>2. j <= spoken
  BY <1>1 DEF Queue, Unfinished
<1>3. spoken \in Job /\ spoken # Nobody
  BY <1>1, <1>2 DEF SpeechType, Job, Nobody
<1>4. j # spoken
  BY <1>3 DEF Speaking
<1>5. jobs[spoken].stage = "queued"
  BY <1>1, <1>2, <1>3, <1>4 DEF Queue
<1> QED BY <1>3, <1>5 DEF Speaking, Unfinished

\* Cancelling a job changes neither its stage nor what it waits for.
LEMMA SilencedKeeps ==
    ASSUME SpeechType
    PROVE  /\ Silenced \in [Job -> Jobs]
           /\ \A j \in Job : /\ Silenced[j].stage = jobs[j].stage
                             /\ Silenced[j].prior = jobs[j].prior
<1>1. CASE spoken = Nobody
  BY <1>1 DEF Silenced, SpeechType
<1>2. CASE spoken # Nobody
  <2>1. Silenced = [jobs EXCEPT ![spoken].cancelled = TRUE] /\ spoken \in Job
    BY <1>2, CaptureOwnerAssumption DEF Silenced, SpeechType, Job, Nobody
  <2>2. ASSUME NEW j \in Job
        PROVE  /\ Silenced[j] \in Jobs
               /\ Silenced[j].stage = jobs[j].stage /\ Silenced[j].prior = jobs[j].prior
    BY <2>1 DEF SpeechType, Jobs
  <2> QED BY <2>1, <2>2 DEF SpeechType
<1> QED BY <1>1, <1>2

\* The same holds of every step that leaves stages and order alone.
LEMMA SpeechStays ==
    ASSUME SpeechType, Queue, jobs' \in [Job -> Jobs], UNCHANGED spoken,
           \A j \in Job : jobs'[j].stage = jobs[j].stage /\ jobs'[j].prior = jobs[j].prior
    PROVE  SpeechType' /\ Queue' /\ \A j \in Job : Unfinished(j)' = Unfinished(j)
<1>1. SpeechType'
  BY DEF SpeechType
<1>2. \A j \in Job : Unfinished(j)' <=> Unfinished(j)
  BY DEF Unfinished
<1>3. \A j \in Job : j > spoken' => jobs'[j].stage = "none"
  BY DEF Queue
<1>4. \A j, k \in Job : j < k /\ k <= spoken' /\ Unfinished(j)' => jobs'[k].stage = "queued"
  BY <1>2 DEF Queue
<1>5. \A k \in Job : jobs'[k].stage = "queued" => k - 1 \in Job /\ jobs'[k].prior = k - 1
  BY DEF Queue
<1>6. Queue'
  BY <1>3, <1>4, <1>5 DEF Queue
<1> QED BY <1>1, <1>2, <1>6 DEF Unfinished

\* In particular of a step that stops the voice, and of one that does not touch it.
LEMMA StoppedVoice ==
    ASSUME SpeechType, Queue, jobs' = jobs \/ jobs' = Silenced, UNCHANGED spoken
    PROVE  SpeechType' /\ Queue' /\ \A j \in Job : Unfinished(j)' = Unfinished(j)
<1>1. CASE jobs' = jobs
  BY <1>1, SpeechStays DEF SpeechType
<1>2. CASE jobs' = Silenced
  BY <1>2, SilencedKeeps, SpeechStays
<1> QED BY <1>1, <1>2

LEMMA SpeakStays ==
    ASSUME IInv, Speak
    PROVE  IInv'
<1> DEFINE new == [stage |-> IF Speaking THEN "queued" ELSE "fetching",
                   cancelled |-> FALSE,
                   prior |-> IF Speaking THEN spoken ELSE Nobody]
<1>1. /\ spoken \in 0..MaxSpeech /\ MaxSpeech \in Nat /\ spoken < MaxSpeech
      /\ spoken' = spoken + 1 /\ spoken + 1 \in Job
  BY CaptureOwnerAssumption DEF IInv, SpeechType, Speak, Job
<1>2. jobs' = [Silenced EXCEPT ![spoken + 1] = new] /\ Silenced \in [Job -> Jobs]
  BY SilencedKeeps DEF Speak, IInv
<1>3. new \in Jobs /\ new.stage = (IF Speaking THEN "queued" ELSE "fetching")
      /\ new.prior = (IF Speaking THEN spoken ELSE Nobody)
  BY <1>1 DEF Jobs, Stage, Nobody
<1> HIDE DEF new
<1>4. SpeechType'
  BY <1>1, <1>2, <1>3 DEF SpeechType, Job
<1>5. \A j \in Job : j # spoken + 1 => /\ jobs'[j].stage = jobs[j].stage
                                       /\ jobs'[j].prior = jobs[j].prior
  BY <1>2, SilencedKeeps DEF IInv
<1>6. jobs'[spoken + 1] = new
  BY <1>1, <1>2
<1>7. \A j \in Job : j > spoken' => jobs'[j].stage = "none"
  BY <1>1, <1>5 DEF IInv, Queue, Job
<1>8. ASSUME NEW j \in Job, NEW k \in Job, j < k, k <= spoken', Unfinished(j)'
      PROVE  jobs'[k].stage = "queued"
  <2>1. j # spoken + 1 /\ Unfinished(j)
    BY <1>1, <1>5, <1>8 DEF Unfinished, Job
  <2>2. CASE k = spoken + 1
    <3>1. Speaking
      BY <2>1, NewestSpeaksForAll DEF IInv
    <3> QED BY <1>3, <1>6, <2>2, <3>1
  <2>3. CASE k # spoken + 1
    BY <1>1, <1>5, <1>8, <2>1, <2>3 DEF IInv, Queue, Job
  <2> QED BY <2>2, <2>3
<1>9. ASSUME NEW k \in Job, jobs'[k].stage = "queued"
      PROVE  k - 1 \in Job /\ jobs'[k].prior = k - 1
  <2>1. CASE k = spoken + 1
    <3>1. Speaking
      BY <1>3, <1>6, <1>9, <2>1
    <3>2. spoken \in Job
      BY <1>1, <3>1 DEF Speaking, Nobody, Job
    <3> QED BY <1>1, <1>3, <1>6, <2>1, <3>1, <3>2
  <2>2. CASE k # spoken + 1
    BY <1>5, <1>9, <2>2 DEF IInv, Queue
  <2> QED BY <2>1, <2>2
<1>10. Queue'
  BY <1>7, <1>8, <1>9 DEF Queue
<1>11. cap.phase = "None" /\ ~meeting
  BY DEF Speak, CaptureBusy, MeetingBusy
<1>12. UNCHANGED <<attempt, begun, cap, meeting, waiting, deferred, requests, closed, asked, wanted>>
  BY DEF Speak, flags, history
<1>13. OwnerType' /\ FlagType' /\ Calm' /\ Named' /\ Owned' /\ FlagsAreServed'
  BY <1>12 DEF IInv, OwnerType, FlagType, Calm, Named, Owned, FlagsAreServed
<1>14. SilenceBeforeCapture' /\ OneMicrophone'
  BY <1>11, <1>12 DEF SilenceBeforeCapture, OneMicrophone
<1> QED BY <1>4, <1>10, <1>13, <1>14 DEF IInv

\* A job with nothing unfinished before it may move on.
LEMMA MoveStays ==
    ASSUME IInv, NEW j \in Job, NEW stage \in {"fetching", "playing", "done"},
           JobMoves(j, stage), Unfinished(j), \A i \in Job : i < j => ~Unfinished(i)
    PROVE  IInv'
<1>1. jobs' = [jobs EXCEPT ![j].stage = stage] /\ jobs \in [Job -> Jobs] /\ spoken' = spoken
  BY DEF JobMoves, IInv, SpeechType
<1>2. jobs'[j].stage = stage /\ jobs'[j].prior = jobs[j].prior /\ jobs'[j] \in Jobs
  <2>1. jobs'[j] = [jobs[j] EXCEPT !.stage = stage] /\ jobs[j] \in Jobs
    BY <1>1
  <2>2. stage \in Stage
    BY DEF Stage
  <2> QED BY <2>1, <2>2 DEF Jobs
<1>3. \A i \in Job : i # j => jobs'[i] = jobs[i]
  BY <1>1
<1>4. SpeechType'
  <2>1. jobs' \in [Job -> Jobs]
    BY <1>1, <1>2, <1>3
  <2> QED BY <1>1, <2>1 DEF IInv, SpeechType
<1>5. j <= spoken
  BY CaptureOwnerAssumption DEF IInv, Queue, Unfinished, SpeechType, Job
<1>6. \A i \in Job : i > spoken' => jobs'[i].stage = "none"
  <2>1. \A i \in Job : i > spoken => i # j
    BY <1>5, CaptureOwnerAssumption DEF Job, IInv, SpeechType
  <2> QED BY <1>1, <1>3, <2>1 DEF IInv, Queue
<1>7. ASSUME NEW i \in Job, NEW k \in Job, i < k, k <= spoken', Unfinished(i)'
      PROVE  jobs'[k].stage = "queued"
  <2>1. Unfinished(i)
    <3>1. CASE i # j
      BY <1>3, <1>7, <3>1 DEF Unfinished
    <3> QED BY <3>1
  <2>2. k # j
    BY <1>7, <2>1
  <2> QED BY <1>1, <1>3, <1>7, <2>1, <2>2 DEF IInv, Queue
<1>8. \A k \in Job : jobs'[k].stage = "queued" => k - 1 \in Job /\ jobs'[k].prior = k - 1
  BY <1>2, <1>3 DEF IInv, Queue
<1>9. Queue'
  BY <1>6, <1>7, <1>8 DEF Queue
<1>10. cap.phase = "None" /\ ~meeting
  BY DEF IInv, SilenceBeforeCapture
<1>11. UNCHANGED <<attempt, begun, cap, meeting, waiting, deferred, requests, closed, asked, wanted>>
  BY DEF JobMoves, flags, history
<1>12. OwnerType' /\ FlagType' /\ Calm' /\ Named' /\ Owned' /\ FlagsAreServed'
  BY <1>11 DEF IInv, OwnerType, FlagType, Calm, Named, Owned, FlagsAreServed
<1>13. SilenceBeforeCapture' /\ OneMicrophone'
  BY <1>10, <1>11 DEF SilenceBeforeCapture, OneMicrophone
<1> QED BY <1>4, <1>9, <1>12, <1>13 DEF IInv

LEMMA PlaybackStays ==
    ASSUME IInv, Playback
    PROVE  IInv'
<1>1. PICK j \in Job : PriorEnded(j) \/ StartPlayer(j) \/ EndSpeech(j)
  BY DEF Playback
<1>2. j <= spoken /\ j \in Int /\ spoken \in Int
  <2>1. jobs[j].stage # "none" /\ j \in Int /\ spoken \in Int
    BY <1>1, CaptureOwnerAssumption
       DEF PriorEnded, StartPlayer, EndSpeech, Job, IInv, SpeechType
  <2> QED BY <2>1 DEF IInv, Queue
<1>3. CASE PriorEnded(j)
  <2>1. j - 1 \in Job /\ jobs[j - 1].stage = "done"
    BY <1>3 DEF PriorEnded, IInv, Queue
  <2>2. ASSUME NEW i \in Job, i < j, Unfinished(i) PROVE FALSE
    <3>1. i \in Int /\ i # j - 1
      BY <2>1, <2>2 DEF Unfinished, Job
    <3>2. jobs[j - 1].stage = "queued"
      BY <1>2, <2>1, <2>2, <3>1 DEF IInv, Queue
    <3> QED BY <2>1, <3>2
  <2> QED BY <1>3, <2>2, MoveStays DEF PriorEnded, Unfinished
<1>4. CASE StartPlayer(j) \/ EndSpeech(j)
  <2>1. jobs[j].stage # "queued" /\ Unfinished(j)
    BY <1>4 DEF StartPlayer, EndSpeech, Unfinished
  <2>2. \A i \in Job : i < j => ~Unfinished(i)
    BY <1>2, <2>1 DEF IInv, Queue
  <2> QED BY <1>4, <2>1, <2>2, MoveStays DEF StartPlayer, EndSpeech
<1> QED BY <1>1, <1>3, <1>4

-----------------------------------------------------------------------------
(* Requests                                                                 *)

\* The tail of `toggle_recording` keeps microphones apart, whatever it decides.
LEMMA BeginStays ==
    ASSUME IInv, cap.phase = "None", ~MeetingBusy,
           NEW by \in {"dictation", "agent"}, NEW id \in 0..MaxAttempts,
           by # "agent" => id = Nobody,
           NEW n \in 1..MaxRequests, NEW rest \in SUBSET requests,
           Begin(by, id, n, rest), UNCHANGED <<spoken, meeting, deferred>>
    PROVE  /\ SpeechType' /\ Queue' /\ SilenceBeforeCapture' /\ OneMicrophone'
           /\ cap' \in Captures /\ waiting' \in BOOLEAN /\ wanted' \in 0..MaxRequests
           /\ requests' \subseteq Request /\ Named'
           /\ waiting' => cap'.phase = "None"
           /\ waiting' => \E r \in requests' : r.by # "meeting"
           /\ cap' = cap \/ cap' = [phase |-> "Preparing", agent |-> id]
<1>1. /\ ~meeting /\ ~deferred /\ cap \in Captures /\ requests \subseteq Request
      /\ 0 \in 0..MaxRequests /\ n \in 0..MaxRequests
  BY CaptureOwnerAssumption DEF MeetingBusy, IInv, OwnerType, FlagType
<1>2. jobs' = jobs \/ jobs' = Silenced
  BY DEF Begin
<1>3. SpeechType' /\ Queue' /\ \A j \in Job : Unfinished(j)' = Unfinished(j)
  BY <1>2, StoppedVoice DEF IInv
<1>4. CASE waiting'
  <2>1. /\ Speaking /\ wanted' = n /\ cap' = cap
        /\ requests' = rest \cup {[n |-> n, by |-> by, id |-> id, on |-> spoken]}
    BY <1>4 DEF Begin, Lower
  <2>2. spoken \in Job
    BY <2>1, CaptureOwnerAssumption DEF Speaking, IInv, SpeechType, Job, Nobody
  <2>3. [n |-> n, by |-> by, id |-> id, on |-> spoken] \in Request
    BY <2>2 DEF Request
  <2>4. SilenceBeforeCapture' /\ OneMicrophone'
    BY <1>1, <2>1 DEF SilenceBeforeCapture, OneMicrophone
  <2>5. Named'
    BY <2>1 DEF IInv, Named
  <2> QED BY <1>1, <1>3, <1>4, <2>1, <2>3, <2>4, <2>5
<1>5. CASE ~waiting'
  <2>1. /\ ~Speaking /\ waiting' = FALSE /\ wanted' = 0 /\ requests' = rest
        /\ cap' = cap \/ cap' = [phase |-> "Preparing", agent |-> id]
    BY <1>5 DEF Begin, Lower, Nobody
  <2>2. \A j \in Job : ~Unfinished(j)'
    BY <1>3, <2>1, NewestSpeaksForAll DEF IInv
  <2>3. SilenceBeforeCapture' /\ OneMicrophone'
    BY <1>1, <2>2 DEF SilenceBeforeCapture, OneMicrophone
  <2>4. cap' \in Captures
    BY <1>1, <2>1 DEF Captures, CapturePhase
  <2>5. Named'
    BY <2>1 DEF IInv, Named
  <2> QED BY <1>1, <1>3, <2>1, <2>3, <2>4, <2>5
<1> QED BY <1>4, <1>5

LEMMA AttemptOperators ==
    ASSUME NEW a \in Attempts
    PROVE  /\ Disarmed(a) \in Attempts /\ Released(a) \in Attempts
           /\ Abandoned(a) \in Attempts /\ LeftForCapture(a) \in Attempts
           /\ a.phase = "Recording" => Disarmed(a) = a
<1>1. Disarmed(a) \in Attempts /\ Released(a) \in Attempts /\ Abandoned(a) \in Attempts
  BY DEF Attempts, Phase, Disarmed, Released, Abandoned
<1>2. LeftForCapture(a) \in Attempts
  BY CaptureOwnerAssumption DEF Attempts, Phase, LeftForCapture, Nobody
<1>3. a.phase = "Recording" => Disarmed(a) = a
  BY DEF Disarmed
<1> QED BY <1>1, <1>2, <1>3

\* A request taken back leaves the flag down and nothing wanted.
LEMMA Lowered ==
    ASSUME Lower
    PROVE  ~waiting' /\ waiting' \in BOOLEAN /\ wanted' \in 0..MaxRequests
<1>1. waiting' = FALSE
  BY DEF Lower
<1>2. wanted' \in 0..MaxRequests
  BY CaptureOwnerAssumption DEF Lower, Nobody
<1> QED BY <1>1, <1>2

LEMMA RecordStays ==
    ASSUME IInv, Record
    PROVE  IInv'
<1>1. /\ ~closed /\ cap.phase = "None" /\ attempt \in Attempts /\ Calm
      /\ asked \in 0..MaxRequests /\ MaxRequests \in Nat
      /\ UNCHANGED <<spoken, begun, meeting, deferred, closed>>
  BY CaptureOwnerAssumption DEF Record, IInv, OwnerType, FlagType
<1>2. CASE waiting
  <2>1. /\ ~waiting' /\ waiting' \in BOOLEAN /\ wanted' \in 0..MaxRequests
        /\ UNCHANGED <<jobs, attempt, cap, requests, asked>>
    BY <1>2, Lowered DEF Record
  <2>2. SpeechType' /\ Queue' /\ SilenceBeforeCapture' /\ OneMicrophone' /\ Owned'
    BY <1>1, <2>1 DEF IInv, SpeechType, Queue, Unfinished, SilenceBeforeCapture,
                      OneMicrophone, Owned
  <2>3. OwnerType' /\ FlagType'
    BY <1>1, <2>1 DEF IInv, OwnerType, FlagType
  <2>4. Calm' /\ Named'
    BY <1>1, <2>1 DEF IInv, Calm, Named
  <2>5. FlagsAreServed'
    BY <1>1, <2>1 DEF IInv, FlagsAreServed
  <2> QED BY <2>2, <2>3, <2>4, <2>5 DEF IInv
<1>3. CASE ~waiting /\ Refuse(requests) /\ UNCHANGED attempt /\ asked' = asked + 1
           /\ asked < MaxRequests
  <2>0. asked' \in 0..MaxRequests
    BY <1>1, <1>3
  <2>1. /\ ~waiting' /\ waiting' \in BOOLEAN /\ wanted' \in 0..MaxRequests
        /\ UNCHANGED <<jobs, attempt, cap, requests>>
    BY <1>3, Lowered DEF Refuse
  <2>2. SpeechType' /\ Queue' /\ SilenceBeforeCapture' /\ OneMicrophone' /\ Owned'
    BY <1>1, <2>1 DEF IInv, SpeechType, Queue, Unfinished, SilenceBeforeCapture,
                      OneMicrophone, Owned
  <2>3. OwnerType' /\ FlagType'
    BY <1>1, <2>0, <2>1 DEF IInv, OwnerType, FlagType
  <2>4. Calm' /\ Named'
    BY <1>1, <1>3, <2>1 DEF IInv, Calm, Named
  <2>5. FlagsAreServed'
    BY <1>1, <1>3, <2>1 DEF IInv, FlagsAreServed
  <2> QED BY <2>2, <2>3, <2>4, <2>5 DEF IInv
<1>4. CASE /\ ~MeetingBusy /\ attempt' = LeftForCapture(attempt)
           /\ asked' = asked + 1 /\ asked < MaxRequests
           /\ Begin("dictation", Nobody, asked + 1, requests)
  <2>1. asked + 1 \in 1..MaxRequests /\ Nobody \in 0..MaxAttempts
    BY <1>1, <1>4, CaptureOwnerAssumption DEF Nobody
  <2>2. /\ SpeechType' /\ Queue' /\ SilenceBeforeCapture' /\ OneMicrophone'
        /\ cap' \in Captures /\ waiting' \in BOOLEAN /\ wanted' \in 0..MaxRequests
        /\ requests' \subseteq Request /\ Named'
        /\ waiting' => cap'.phase = "None"
        /\ waiting' => \E r \in requests' : r.by # "meeting"
        /\ cap' = cap \/ cap' = [phase |-> "Preparing", agent |-> Nobody]
    BY <1>1, <1>4, <2>1, BeginStays
  <2>3. attempt' \in Attempts
    BY <1>1, <1>4, AttemptOperators
  <2>4. OwnerType' /\ FlagType'
    BY <1>1, <1>4, <2>1, <2>2, <2>3 DEF IInv, OwnerType, FlagType
  <2>5. Calm' /\ Owned'
    BY <1>1, <2>2 DEF Calm, Owned
  <2>6. ~deferred'
    BY <1>1, <1>4 DEF MeetingBusy
  <2>7. FlagsAreServed'
    BY <2>2, <2>6 DEF FlagsAreServed
  <2> QED BY <2>2, <2>4, <2>5, <2>7 DEF IInv
<1> QED BY <1>2, <1>3, <1>4 DEF Record

LEMMA AgentPressStays ==
    ASSUME IInv, AgentPress
    PROVE  IInv'
<1> DEFINE id  == begun + 1
           new == [id |-> id, phase |-> "Recording"]
<1>1. /\ ~closed /\ cap.phase = "None" /\ ~MeetingBusy /\ attempt \in Attempts /\ Calm
      /\ begun' = id /\ id \in 0..MaxAttempts
      /\ asked \in 0..MaxRequests /\ MaxRequests \in Nat
      /\ UNCHANGED <<spoken, meeting, deferred, closed>>
  BY CaptureOwnerAssumption DEF AgentPress, IInv, OwnerType, FlagType
<1>2. new \in Attempts /\ Abandoned(new) \in Attempts
  <2>1. new \in Attempts
    BY <1>1 DEF Attempts, Phase
  <2> QED BY <2>1, AttemptOperators
<1>3. CASE /\ waiting /\ Lower /\ attempt' = Abandoned(new)
           /\ UNCHANGED <<jobs, cap, requests, asked>>
  <2>1. ~waiting' /\ waiting' \in BOOLEAN /\ wanted' \in 0..MaxRequests
    BY <1>3, Lowered
  <2>2. SpeechType' /\ Queue' /\ SilenceBeforeCapture' /\ OneMicrophone' /\ Owned'
    BY <1>1, <1>3 DEF IInv, SpeechType, Queue, Unfinished, SilenceBeforeCapture,
                      OneMicrophone, Owned
  <2> HIDE DEF new, id
  <2>3. OwnerType' /\ FlagType'
    BY <1>1, <1>2, <1>3, <2>1 DEF IInv, OwnerType, FlagType
  <2>4. Calm' /\ Named'
    BY <1>1, <1>2, <1>3, <2>1 DEF IInv, Calm, Named
  <2>5. FlagsAreServed'
    BY <1>1, <1>2, <1>3, <2>1 DEF IInv, FlagsAreServed
  <2> QED BY <2>2, <2>3, <2>4, <2>5 DEF IInv
<1>4. CASE /\ asked < MaxRequests /\ asked' = asked + 1
           /\ Begin("agent", id, asked + 1, requests)
           /\ attempt' = IF waiting' \/ cap'.phase # "None" THEN new ELSE Abandoned(new)
  <2>1. asked + 1 \in 1..MaxRequests
    BY <1>1, <1>4
  <2>2. /\ SpeechType' /\ Queue' /\ SilenceBeforeCapture' /\ OneMicrophone'
        /\ cap' \in Captures /\ waiting' \in BOOLEAN /\ wanted' \in 0..MaxRequests
        /\ requests' \subseteq Request /\ Named'
        /\ waiting' => cap'.phase = "None"
        /\ waiting' => \E r \in requests' : r.by # "meeting"
        /\ cap' = cap \/ cap' = [phase |-> "Preparing", agent |-> id]
    BY <1>1, <1>4, <2>1, BeginStays
  <2>3. Owned'
    BY <1>1, <1>4, <2>2 DEF Owned
  <2>4. ~deferred'
    BY <1>1 DEF MeetingBusy
  <2> HIDE DEF new, id
  <2>5. OwnerType' /\ FlagType'
    BY <1>1, <1>2, <1>4, <2>1, <2>2 DEF IInv, OwnerType, FlagType
  <2>6. Calm' /\ FlagsAreServed'
    BY <1>1, <2>2, <2>4 DEF Calm, FlagsAreServed
  <2> QED BY <2>2, <2>3, <2>5, <2>6 DEF IInv
<1> QED BY <1>3, <1>4 DEF AgentPress

\* A waiting task that finds its flag raised, or lowered.
LEMMA DictationWakes ==
    ASSUME IInv, NEW r \in requests, r.by # "meeting", Resume(r) \/ ResumeRefused(r)
    PROVE  IInv'
<1>1. /\ ~closed /\ waiting /\ cap.phase = "None" /\ attempt \in Attempts
      /\ r.n \in 1..MaxRequests /\ r.by \in {"dictation", "agent"} /\ r.id \in 0..MaxAttempts
      /\ UNCHANGED <<spoken, begun, meeting, deferred, closed, asked>>
  BY DEF Resume, ResumeRefused, IInv, OwnerType, FlagType, Request, Calm
<1>2. CASE Resume(r)
  <2>1. /\ ~MeetingBusy /\ Begin(r.by, r.id, r.n, requests \ {r})
        /\ r.by = "agent" => attempt = [id |-> r.id, phase |-> "Recording"]
        /\ attempt' = IF r.by = "agent" THEN attempt ELSE LeftForCapture(attempt)
    BY <1>2 DEF Resume
  <2>2. requests \ {r} \in SUBSET requests
    OBVIOUS
  <2>3. /\ SpeechType' /\ Queue' /\ SilenceBeforeCapture' /\ OneMicrophone'
        /\ cap' \in Captures /\ waiting' \in BOOLEAN /\ wanted' \in 0..MaxRequests
        /\ requests' \subseteq Request /\ Named'
        /\ waiting' => cap'.phase = "None"
        /\ waiting' => \E q \in requests' : q.by # "meeting"
        /\ cap' = cap \/ cap' = [phase |-> "Preparing", agent |-> r.id]
    BY <1>1, <2>1, <2>2, BeginStays DEF IInv, Named
  <2>4. attempt' \in Attempts
    BY <1>1, <2>1, AttemptOperators
  <2>5. OwnerType' /\ FlagType'
    BY <1>1, <2>3, <2>4 DEF IInv, OwnerType, FlagType
  <2>6. Calm' /\ FlagsAreServed'
    BY <1>1, <2>1, <2>3 DEF Calm, FlagsAreServed, MeetingBusy
  <2>7. Owned'
    BY <1>1, <2>1, <2>3 DEF Owned, IInv, Named
  <2> QED BY <2>3, <2>5, <2>6, <2>7 DEF IInv
<1>3. CASE ResumeRefused(r)
  <2>1. /\ ~waiting' /\ waiting' \in BOOLEAN /\ wanted' \in 0..MaxRequests
        /\ requests' = requests \ {r} /\ UNCHANGED <<jobs, attempt, cap>>
    BY <1>3, Lowered DEF ResumeRefused, Refuse
  <2>2. SpeechType' /\ Queue' /\ SilenceBeforeCapture' /\ OneMicrophone' /\ Owned'
    BY <1>1, <2>1 DEF IInv, SpeechType, Queue, Unfinished, SilenceBeforeCapture,
                      OneMicrophone, Owned
  <2>3. OwnerType' /\ FlagType'
    BY <1>1, <2>1 DEF IInv, OwnerType, FlagType
  <2>4. Calm' /\ Named'
    BY <1>1, <2>1 DEF IInv, Calm, Named
  <2>5. FlagsAreServed'
    BY <1>1, <2>1 DEF IInv, FlagsAreServed
  <2> QED BY <2>2, <2>3, <2>4, <2>5 DEF IInv
<1> QED BY <1>2, <1>3

LEMMA IdleWakes ==
    ASSUME IInv, NEW r \in requests, ResumeIdle(r)
    PROVE  IInv'
<1>1. /\ closed \/ (IF r.by = "meeting" THEN ~deferred ELSE ~waiting)
      /\ requests' = requests \ {r}
      /\ UNCHANGED <<jobs, spoken, attempt, begun, cap, meeting, waiting, deferred, closed,
                     asked, wanted>>
  BY DEF ResumeIdle, speech, history
<1>2. FlagsAreServed'
  BY <1>1 DEF IInv, FlagsAreServed, Calm
<1>3. SpeechType' /\ Queue' /\ SilenceBeforeCapture' /\ OneMicrophone' /\ Owned'
  BY <1>1 DEF IInv, SpeechType, Queue, Unfinished, SilenceBeforeCapture, OneMicrophone, Owned
<1>4. OwnerType' /\ FlagType' /\ Calm' /\ Named'
  BY <1>1 DEF IInv, OwnerType, FlagType, Calm, Named
<1> QED BY <1>2, <1>3, <1>4 DEF IInv

\* Meeting's own request; `rest` keeps what other owners wait for.
LEMMA MeetingBeginStays ==
    ASSUME IInv, ~closed, NEW n \in 1..MaxRequests, NEW rest \in SUBSET requests,
           \A r \in requests : r.by # "meeting" => r \in rest,
           MeetingBegin(n, rest), asked' \in 0..MaxRequests,
           UNCHANGED <<spoken, begun, cap, waiting, closed, wanted>>
    PROVE  IInv'
<1>1. jobs' = jobs \/ jobs' = Silenced
  BY DEF MeetingBegin
<1>2. SpeechType' /\ Queue' /\ \A j \in Job : Unfinished(j)' = Unfinished(j)
  BY <1>1, StoppedVoice DEF IInv
<1>3. attempt' = Disarmed(attempt) /\ attempt' \in Attempts /\ Owned'
  <2>1. attempt' = Disarmed(attempt) /\ attempt \in Attempts
    BY DEF MeetingBegin, IInv, OwnerType
  <2>2. attempt' \in Attempts /\ (attempt.phase = "Recording" => attempt' = attempt)
    BY <2>1, AttemptOperators
  <2> QED BY <2>1, <2>2 DEF Owned, IInv
<1>4. CASE Speaking /\ deferred' = TRUE /\ UNCHANGED meeting
           /\ requests' = rest \cup {[n |-> n, by |-> "meeting", id |-> Nobody, on |-> spoken]}
  <2>1. spoken \in Job
    BY <1>4, CaptureOwnerAssumption DEF Speaking, IInv, SpeechType, Job, Nobody
  <2>2. [n |-> n, by |-> "meeting", id |-> Nobody, on |-> spoken] \in Request
    BY <2>1, CaptureOwnerAssumption DEF Request, Nobody
  <2>3. SilenceBeforeCapture' /\ OneMicrophone'
    BY <1>2, <1>4 DEF IInv, SilenceBeforeCapture, OneMicrophone
  <2>4. OwnerType' /\ FlagType'
    BY <1>3, <1>4, <2>2 DEF IInv, OwnerType, FlagType
  <2>5. Calm' /\ Named'
    BY <1>4 DEF IInv, Calm, Named
  <2>6. waiting' => \E r \in requests' : r.by # "meeting"
    BY <1>4 DEF IInv, FlagsAreServed
  <2>7. \E r \in requests' : r.by = "meeting"
    <3>1. [n |-> n, by |-> "meeting", id |-> Nobody, on |-> spoken] \in requests'
      BY <1>4
    <3> QED BY <3>1
  <2>8. FlagsAreServed'
    BY <2>6, <2>7 DEF FlagsAreServed
  <2> QED BY <1>2, <1>3, <2>3, <2>4, <2>5, <2>8 DEF IInv
<1>5. CASE ~Speaking /\ deferred' = FALSE /\ requests' = rest /\ MeetingStart
  <2>1. \A j \in Job : ~Unfinished(j)'
    BY <1>2, <1>5, NewestSpeaksForAll DEF IInv
  <2>2. meeting' \in BOOLEAN /\ (meeting' => cap.phase = "None")
    <3>1. CASE cap.phase = "None" /\ meeting' = TRUE
      BY <3>1
    <3>2. CASE UNCHANGED meeting
      BY <3>2 DEF IInv, OwnerType, OneMicrophone
    <3> QED BY <1>5, <3>1, <3>2 DEF MeetingStart
  <2>5. SilenceBeforeCapture' /\ OneMicrophone'
    BY <2>1, <2>2 DEF SilenceBeforeCapture, OneMicrophone
  <2>3. OwnerType' /\ FlagType'
    BY <1>3, <1>5, <2>2 DEF IInv, OwnerType, FlagType
  <2>4. Calm' /\ Named' /\ FlagsAreServed'
    BY <1>5 DEF IInv, Calm, Named, FlagsAreServed
  <2> QED BY <1>2, <1>3, <2>3, <2>4, <2>5 DEF IInv
<1> QED BY <1>4, <1>5 DEF MeetingBegin

\* A handler that opens no microphone and asks for none.
LEMMA HandlerStays ==
    ASSUME IInv, jobs' = jobs \/ jobs' = Silenced,
           UNCHANGED <<spoken, begun, requests, asked>>,
           attempt' \in Attempts, cap' \in Captures, meeting' \in BOOLEAN,
           waiting' = waiting \/ waiting' = FALSE, deferred' = deferred \/ deferred' = FALSE,
           closed' \in BOOLEAN, closed' => ~waiting' /\ ~deferred',
           wanted' \in 0..MaxRequests,
           cap'.phase # "None" => cap.phase # "None", meeting' => meeting, Owned'
    PROVE  IInv'
<1>1. SpeechType' /\ Queue' /\ \A j \in Job : Unfinished(j)' = Unfinished(j)
  BY StoppedVoice DEF IInv
<1>2. SilenceBeforeCapture' /\ OneMicrophone'
  BY <1>1 DEF IInv, SilenceBeforeCapture, OneMicrophone
<1>3. OwnerType' /\ FlagType'
  BY DEF IInv, OwnerType, FlagType
<1>4. Calm' /\ Named' /\ FlagsAreServed'
  BY DEF IInv, Calm, Named, FlagsAreServed
<1> QED BY <1>1, <1>2, <1>3, <1>4 DEF IInv

\* Stopping or cancelling the capture leaves nothing of it to be stopped again.
LEMMA CaptureOperators ==
    ASSUME cap \in Captures
    PROVE  /\ StoppedCapture \in Captures /\ CancelledCapture \in Captures
           /\ StoppedCapture.phase \notin {"Preparing", "Recording"}
           /\ CancelledCapture.phase \notin {"Preparing", "Recording"}
           /\ StoppedCapture.phase # "None" => cap.phase # "None"
           /\ CancelledCapture.phase # "None" => cap.phase # "None"
<1>1. /\ StoppedCapture.agent = cap.agent /\ CancelledCapture.agent = cap.agent
      /\ StoppedCapture = [phase |-> StoppedCapture.phase, agent |-> cap.agent]
      /\ CancelledCapture = [phase |-> CancelledCapture.phase, agent |-> cap.agent]
  BY DEF StoppedCapture, CancelledCapture, Captures
<1>2. StoppedCapture.phase = CASE cap.phase = "Recording" -> "Processing"
                               [] cap.phase = "Preparing" -> "Cancelling"
                               [] OTHER -> cap.phase
  BY DEF StoppedCapture, Captures
<1>3. CancelledCapture.phase =
          IF cap.phase \in {"Preparing", "Recording"} THEN "Cancelling" ELSE cap.phase
  BY DEF CancelledCapture, Captures
<1>4. StoppedCapture.phase \in CapturePhase /\ CancelledCapture.phase \in CapturePhase
  BY <1>2, <1>3 DEF CapturePhase, Captures
<1>5. StoppedCapture \in Captures /\ CancelledCapture \in Captures
  BY <1>1, <1>4 DEF Captures
<1> QED BY <1>2, <1>3, <1>5

\* `agent_release`, on an attempt that was disarmed first.
LEMMA ReleaseStays ==
    ASSUME IInv, Release(Disarmed(attempt))
    PROVE  /\ attempt' \in Attempts /\ cap' \in Captures /\ Owned'
           /\ cap'.phase # "None" => cap.phase # "None"
           /\ waiting' = waiting \/ waiting' = FALSE
           /\ wanted' \in 0..MaxRequests
<1> DEFINE a == Disarmed(attempt)
<1>1. attempt \in Attempts /\ cap \in Captures /\ wanted \in 0..MaxRequests
  BY DEF IInv, OwnerType, FlagType
<1>2. a \in Attempts /\ Released(a) \in Attempts /\ Abandoned(a) \in Attempts
      /\ (attempt.phase = "Recording" => a = attempt)
  BY <1>1, AttemptOperators
<1> HIDE DEF a
<1>3. CASE a.phase # "Recording"
  <2>1. attempt' = a /\ cap' = cap /\ waiting' = waiting /\ wanted' = wanted
    BY <1>3 DEF Release, a
  <2>2. Owned'
    BY <1>2, <1>3, <2>1 DEF IInv, Owned
  <2> QED BY <1>1, <1>2, <2>1, <2>2
<1>4. CASE a.phase = "Recording"
  <2>1. /\ Lower /\ cap' = StoppedCapture
        /\ attempt' = IF cap.phase \in {"Preparing", "Recording"} THEN Released(a)
                      ELSE Abandoned(a)
    BY <1>4 DEF Release, a
  <2>2. cap' \in Captures /\ Owned' /\ (cap'.phase # "None" => cap.phase # "None")
    BY <1>1, <2>1, CaptureOperators DEF Owned
  <2>3. attempt' \in Attempts
    BY <1>2, <2>1
  <2>4. waiting' = FALSE
    BY <2>1 DEF Lower
  <2> QED BY <2>1, <2>2, <2>3, <2>4, Lowered
<1> QED BY <1>3, <1>4

LEMMA SilenceStays ==
    ASSUME IInv, NEW disarms \in BOOLEAN, Silence(disarms)
    PROVE  IInv'
<1>1. /\ jobs' = Silenced /\ ~closed
      /\ attempt' = IF disarms THEN Disarmed(attempt) ELSE attempt
      /\ UNCHANGED <<spoken, begun, cap, meeting, waiting, deferred, requests, closed,
                     asked, wanted>>
  BY DEF Silence, flags, history
<1>2. attempt \in Attempts /\ cap \in Captures /\ meeting \in BOOLEAN
      /\ wanted \in 0..MaxRequests
  BY DEF IInv, OwnerType, FlagType
<1>3. attempt' \in Attempts /\ (attempt.phase = "Recording" => attempt' = attempt)
  BY <1>1, <1>2, AttemptOperators
<1>4. Owned'
  BY <1>1, <1>3 DEF IInv, Owned
<1>5. closed' \in BOOLEAN /\ (closed' => ~waiting' /\ ~deferred')
  BY <1>1 DEF IInv, FlagType
<1> QED BY <1>1, <1>2, <1>3, <1>4, <1>5, HandlerStays

LEMMA StopKeyStays ==
    ASSUME IInv, StopKey
    PROVE  IInv'
<1>1. /\ ~closed /\ cap' = StoppedCapture
      /\ attempt' = IF cap.phase = "Recording" /\ cap.agent # Nobody THEN Released(attempt)
                    ELSE attempt
      /\ UNCHANGED <<jobs, spoken, begun, meeting, waiting, deferred, requests, closed,
                     asked, wanted>>
  BY DEF StopKey, speech, flags, history
<1>2. attempt \in Attempts /\ cap \in Captures /\ meeting \in BOOLEAN
      /\ wanted \in 0..MaxRequests
  BY DEF IInv, OwnerType, FlagType
<1>3. attempt' \in Attempts
  BY <1>1, <1>2, AttemptOperators
<1>4. cap' \in Captures /\ Owned' /\ (cap'.phase # "None" => cap.phase # "None")
  BY <1>1, <1>2, CaptureOperators DEF Owned
<1>5. closed' \in BOOLEAN /\ (closed' => ~waiting' /\ ~deferred')
  BY <1>1 DEF IInv, FlagType
<1> QED BY <1>1, <1>2, <1>3, <1>4, <1>5, HandlerStays

LEMMA CancelStays ==
    ASSUME IInv, Cancel
    PROVE  IInv'
<1>1. /\ ~closed /\ Lower /\ attempt' = Disarmed(attempt) /\ cap' = CancelledCapture
      /\ UNCHANGED <<jobs, spoken, begun, meeting, deferred, requests, closed, asked>>
  BY DEF Cancel, speech
<1>2. attempt \in Attempts /\ cap \in Captures /\ meeting \in BOOLEAN
  BY DEF IInv, OwnerType
<1>3. attempt' \in Attempts
  BY <1>1, <1>2, AttemptOperators
<1>4. cap' \in Captures /\ Owned' /\ (cap'.phase # "None" => cap.phase # "None")
  BY <1>1, <1>2, CaptureOperators DEF Owned
<1>5. waiting' = FALSE /\ wanted' \in 0..MaxRequests
  BY <1>1, Lowered DEF Lower
<1>6. closed' \in BOOLEAN /\ (closed' => ~waiting' /\ ~deferred')
  BY <1>1 DEF IInv, FlagType
<1> QED BY <1>1, <1>2, <1>3, <1>4, <1>5, <1>6, HandlerStays

LEMMA KeepDraftStays ==
    ASSUME IInv, KeepDraft
    PROVE  IInv'
<1>1. /\ ~closed /\ Release(Disarmed(attempt))
      /\ UNCHANGED <<jobs, spoken, begun, meeting, deferred, requests, closed, asked>>
  BY DEF KeepDraft, speech
<1>2. /\ attempt' \in Attempts /\ cap' \in Captures /\ Owned'
      /\ cap'.phase # "None" => cap.phase # "None"
      /\ waiting' = waiting \/ waiting' = FALSE
      /\ wanted' \in 0..MaxRequests
  BY <1>1, ReleaseStays
<1>3. meeting \in BOOLEAN /\ closed' \in BOOLEAN /\ (closed' => ~waiting' /\ ~deferred')
  BY <1>1 DEF IInv, OwnerType, FlagType
<1> QED BY <1>1, <1>2, <1>3, HandlerStays

LEMMA InterruptStays ==
    ASSUME IInv, ~closed, Interrupt
    PROVE  IInv'
<1>1. /\ jobs' = Silenced
      /\ UNCHANGED <<spoken, begun, meeting, deferred, requests, closed, asked>>
  BY DEF Interrupt
<1>2. /\ attempt \in Attempts /\ cap \in Captures /\ meeting \in BOOLEAN
      /\ closed' \in BOOLEAN /\ (closed' => ~waiting' /\ ~deferred')
  BY <1>1 DEF IInv, OwnerType, FlagType
<1>3. CASE cap.agent # Nobody /\ Release(Disarmed(attempt))
  BY <1>1, <1>2, <1>3, ReleaseStays, HandlerStays
<1>4. CASE /\ cap.agent = Nobody /\ Lower /\ cap' = cap
           /\ attempt' = IF cap.phase = "None" THEN Abandoned(Disarmed(attempt))
                         ELSE Disarmed(attempt)
  <2>1. Disarmed(attempt) \in Attempts
    BY <1>2, AttemptOperators
  <2>2. Abandoned(Disarmed(attempt)) \in Attempts
    BY <2>1, AttemptOperators
  <2>3. attempt' \in Attempts /\ Owned'
    BY <1>4, <2>1, <2>2 DEF Owned
  <2>4. waiting' = FALSE /\ wanted' \in 0..MaxRequests
    BY <1>4, Lowered DEF Lower
  <2> QED BY <1>1, <1>2, <1>4, <2>3, <2>4, HandlerStays
<1> QED BY <1>3, <1>4 DEF Interrupt

\* The recorder's own steps.
LEMMA RecorderStays ==
    ASSUME IInv, Recorder
    PROVE  IInv'
<1>1. /\ attempt \in Attempts /\ cap \in Captures /\ meeting \in BOOLEAN
      /\ wanted \in 0..MaxRequests /\ closed \in BOOLEAN
      /\ closed => ~waiting /\ ~deferred
  BY DEF IInv, OwnerType, FlagType, Calm
<1>2. UNCHANGED <<jobs, spoken, begun, waiting, deferred, requests, closed, asked, wanted>>
  BY DEF Recorder, Prepared, CaptureEnds, CaptureCompletes, Deliver, MeetingEnds,
         speech, flags, history
<1>3. closed' \in BOOLEAN /\ (closed' => ~waiting' /\ ~deferred')
      /\ wanted' \in 0..MaxRequests
  BY <1>1, <1>2
<1>4. CASE Prepared
  <2>1. /\ cap' = [cap EXCEPT !.phase = "Recording"] /\ cap.phase = "Preparing"
        /\ UNCHANGED <<attempt, meeting>>
    BY <1>4 DEF Prepared
  <2>2. cap' \in Captures /\ cap'.agent = cap.agent
    BY <1>1, <2>1 DEF Captures, CapturePhase
  <2>3. Owned'
    BY <2>1, <2>2 DEF IInv, Owned
  <2> QED BY <1>1, <1>2, <1>3, <2>1, <2>2, <2>3, HandlerStays
<1>5. CASE CaptureEnds \/ CaptureCompletes
  <2>1. cap' = NoCapture /\ UNCHANGED meeting
    BY <1>5 DEF CaptureEnds, CaptureCompletes
  <2>2. cap' \in Captures /\ cap'.phase = "None" /\ cap'.agent = Nobody
    BY <2>1, CaptureOwnerAssumption DEF NoCapture, Captures, CapturePhase, Nobody
  <2>3. Owned'
    BY <2>2 DEF Owned
  <2>4. CASE CaptureEnds
    <3>1. attempt' = IF cap.agent # Nobody THEN Abandoned(attempt) ELSE attempt
      BY <2>4 DEF CaptureEnds
    <3>2. attempt' \in Attempts
      BY <1>1, <3>1, AttemptOperators
    <3> QED BY <1>1, <1>2, <1>3, <2>1, <2>2, <2>3, <3>2, HandlerStays
  <2>5. CASE CaptureCompletes
    <3>1. \/ attempt' = attempt
          \/ \E phase \in {"Grace", "Over"} : attempt' = [attempt EXCEPT !.phase = phase]
      BY <2>5 DEF CaptureCompletes
    <3>2. attempt' \in Attempts
      BY <1>1, <3>1 DEF Attempts, Phase
    <3> QED BY <1>1, <1>2, <1>3, <2>1, <2>2, <2>3, <3>2, HandlerStays
  <2> QED BY <1>5, <2>4, <2>5
<1>6. CASE Deliver
  <2>1. /\ attempt.phase # "Recording" /\ UNCHANGED <<cap, meeting>>
        /\ \E phase \in {"Submitting", "Over"} : attempt' = [attempt EXCEPT !.phase = phase]
    BY <1>6 DEF Deliver
  <2>2. attempt' \in Attempts
    BY <1>1, <2>1 DEF Attempts, Phase
  <2>3. Owned'
    BY <2>1 DEF IInv, Owned
  <2> QED BY <1>1, <1>2, <1>3, <2>1, <2>2, <2>3, HandlerStays
<1>7. CASE MeetingEnds
  <2>1. meeting' = FALSE /\ UNCHANGED <<attempt, cap>>
    BY <1>7 DEF MeetingEnds
  <2>2. Owned'
    BY <2>1 DEF IInv, Owned
  <2> QED BY <1>1, <1>2, <1>3, <2>1, <2>2, HandlerStays
<1> QED BY <1>4, <1>5, <1>6, <1>7 DEF Recorder

\* The Meeting button and its waiting task.
LEMMA MeetingStays ==
    ASSUME IInv, MeetingToggle \/ \E r \in requests : r.by = "meeting" /\ MeetingResume(r)
    PROVE  IInv'
<1>1. /\ attempt \in Attempts /\ cap \in Captures /\ meeting \in BOOLEAN
      /\ wanted \in 0..MaxRequests /\ asked \in 0..MaxRequests /\ MaxRequests \in Nat
      /\ requests \subseteq Request
  BY CaptureOwnerAssumption DEF IInv, OwnerType, FlagType
<1>2. CASE MeetingToggle /\ asked' = asked
  <2>1. /\ ~closed /\ deferred' = FALSE
        /\ UNCHANGED <<jobs, attempt, meeting, requests, asked>>
        /\ UNCHANGED <<spoken, begun, cap, waiting, closed, wanted>>
    BY <1>1, <1>2 DEF MeetingToggle
  <2>2. Owned'
    BY <2>1 DEF IInv, Owned
  <2>3. closed' \in BOOLEAN /\ (closed' => ~waiting' /\ ~deferred')
    BY <2>1 DEF IInv, FlagType
  <2> QED BY <1>1, <2>1, <2>2, <2>3, HandlerStays
<1>3. CASE MeetingToggle /\ asked' # asked
  <2>1. /\ ~closed /\ asked < MaxRequests /\ asked' = asked + 1
        /\ MeetingBegin(asked + 1, requests)
        /\ UNCHANGED <<spoken, begun, cap, waiting, closed, wanted>>
    BY <1>3 DEF MeetingToggle
  <2>2. asked + 1 \in 1..MaxRequests /\ asked' \in 0..MaxRequests
    BY <1>1, <2>1
  <2>3. requests \in SUBSET requests
    OBVIOUS
  <2> QED BY <2>1, <2>2, <2>3, MeetingBeginStays
<1>4. ASSUME NEW r \in requests, r.by = "meeting", MeetingResume(r)
      PROVE  IInv'
  <2>1. /\ ~closed /\ MeetingBegin(r.n, requests \ {r}) /\ asked' = asked
        /\ UNCHANGED <<spoken, begun, cap, waiting, closed, wanted>>
    BY <1>4 DEF MeetingResume
  <2>2. r.n \in 1..MaxRequests /\ asked' \in 0..MaxRequests
    BY <1>1, <2>1 DEF Request
  <2>3. /\ requests \ {r} \in SUBSET requests
        /\ \A q \in requests : q.by # "meeting" => q \in requests \ {r}
    BY <1>4
  <2> QED BY <2>1, <2>2, <2>3, MeetingBeginStays
<1> QED BY <1>2, <1>3, <1>4

\* Closing cancels every spoken update and drops every capture and every flag.
LEMMA CloseStays ==
    ASSUME IInv, Close
    PROVE  IInv'
<1>1. /\ jobs' = [j \in Job |-> [jobs[j] EXCEPT !.cancelled = jobs[j].stage # "none"]]
      /\ jobs \in [Job -> Jobs]
      /\ UNCHANGED <<spoken, begun, requests, asked>>
  BY DEF Close, IInv, SpeechType
<1>2. ASSUME NEW j \in Job
      PROVE  /\ jobs'[j] \in Jobs
             /\ jobs'[j].stage = jobs[j].stage /\ jobs'[j].prior = jobs[j].prior
  <2>1. jobs[j] \in Jobs /\ (jobs[j].stage # "none") \in BOOLEAN
    BY <1>1
  <2>2. jobs'[j] = [jobs[j] EXCEPT !.cancelled = jobs[j].stage # "none"]
    BY <1>1
  <2> QED BY <2>1, <2>2 DEF Jobs
<1>3. jobs' \in [Job -> Jobs]
  BY <1>1, <1>2
<1>4. SpeechType' /\ Queue'
  BY <1>1, <1>2, <1>3, SpeechStays DEF IInv
<1>5. attempt' \in Attempts
  BY AttemptOperators DEF Close, IInv, OwnerType
<1>6. cap' \in Captures /\ cap'.phase = "None" /\ cap'.agent = Nobody
  BY CaptureOwnerAssumption DEF Close, NoCapture, Captures, CapturePhase, Nobody
<1>7. /\ meeting' = FALSE /\ waiting' = FALSE /\ deferred' = FALSE /\ closed' = TRUE
      /\ wanted' \in 0..MaxRequests
  BY Lowered DEF Close, Lower
<1>8. OwnerType' /\ FlagType'
  BY <1>1, <1>5, <1>6, <1>7 DEF IInv, OwnerType, FlagType
<1>9. SilenceBeforeCapture' /\ OneMicrophone' /\ FlagsAreServed'
  BY <1>6, <1>7 DEF SilenceBeforeCapture, OneMicrophone, FlagsAreServed
<1>10. Calm' /\ Owned'
  BY <1>6, <1>7 DEF Calm, Owned
<1>11. Named'
  BY <1>1 DEF IInv, Named
<1> QED BY <1>4, <1>8, <1>9, <1>10, <1>11 DEF IInv

-----------------------------------------------------------------------------
(* The invariant                                                            *)

LEMMA InitHolds == Init => IInv
<1> SUFFICES ASSUME Init PROVE IInv
  OBVIOUS
<1>1. /\ jobs = [j \in Job |-> NoJob] /\ spoken = 0
      /\ attempt = [id |-> Nobody, phase |-> "None"] /\ begun = 0
      /\ cap = [phase |-> "None", agent |-> Nobody] /\ meeting = FALSE
      /\ waiting = FALSE /\ deferred = FALSE /\ requests = {} /\ closed = FALSE
      /\ asked = 0 /\ wanted = 0
  BY DEF Init, NoCapture, Nobody
<1>2. NoJob \in Jobs /\ NoJob.stage = "none"
  BY CaptureOwnerAssumption DEF NoJob, Jobs, Stage, Nobody
<1>3. SpeechType
  BY <1>1, <1>2, CaptureOwnerAssumption DEF SpeechType
<1>4. \A j \in Job : jobs[j].stage = "none"
  BY <1>1, <1>2
<1>5. Queue
  BY <1>4 DEF Queue, Unfinished
<1>6. 0 \in 0..MaxAttempts /\ 0 \in 0..MaxRequests
  BY CaptureOwnerAssumption
<1>7. attempt \in Attempts /\ cap \in Captures
  BY <1>1, <1>6 DEF Attempts, Captures, Phase, CapturePhase, Nobody
<1>8. OwnerType /\ FlagType
  BY <1>1, <1>6, <1>7 DEF OwnerType, FlagType
<1>9. Calm /\ Named /\ FlagsAreServed
  BY <1>1 DEF Calm, Named, FlagsAreServed
<1>10. Owned /\ SilenceBeforeCapture /\ OneMicrophone
  BY <1>1 DEF Owned, SilenceBeforeCapture, OneMicrophone
<1> QED BY <1>3, <1>5, <1>8, <1>9, <1>10 DEF IInv

LEMMA StutterStays ==
    ASSUME IInv, UNCHANGED vars
    PROVE  IInv'
<1>1. UNCHANGED <<jobs, spoken, attempt, begun, cap, meeting, waiting, deferred, requests,
                  closed, asked, wanted>>
  BY DEF vars, speech, flags, history
<1>2. SpeechType' /\ Queue' /\ SilenceBeforeCapture' /\ OneMicrophone' /\ Owned'
  BY <1>1 DEF IInv, SpeechType, Queue, Unfinished, SilenceBeforeCapture, OneMicrophone, Owned
<1>3. OwnerType' /\ FlagType' /\ Calm' /\ Named' /\ FlagsAreServed'
  BY <1>1 DEF IInv, OwnerType, FlagType, Calm, Named, FlagsAreServed
<1> QED BY <1>2, <1>3 DEF IInv

\* The inductive invariant: one step per handler.
THEOREM Invariant == Spec => []IInv
<1>1. ASSUME IInv, [Next]_vars PROVE IInv'
  <2>1. CASE Person
    <3>1. CASE Speak
      BY <1>1, <3>1, SpeakStays
    <3>2. CASE \E disarms \in BOOLEAN : Silence(disarms)
      BY <1>1, <3>2, SilenceStays
    <3>3. CASE Record \/ AgentPress
      BY <1>1, <3>3, RecordStays, AgentPressStays
    <3>4. CASE StopKey \/ Cancel \/ KeepDraft
      BY <1>1, <3>4, StopKeyStays, CancelStays, KeepDraftStays
    <3>5. CASE Lock
      BY <1>1, <3>5, InterruptStays DEF Lock
    <3>6. CASE MeetingToggle \/ Close
      BY <1>1, <3>6, MeetingStays, CloseStays
    <3> QED BY <2>1, <3>1, <3>2, <3>3, <3>4, <3>5, <3>6 DEF Person
  <2>2. CASE Wake
    <3>1. PICK r \in requests : \/ r.by # "meeting" /\ (Resume(r) \/ ResumeRefused(r))
                                \/ r.by = "meeting" /\ MeetingResume(r)
                                \/ ResumeIdle(r)
      BY <2>2 DEF Wake
    <3> QED BY <1>1, <3>1, DictationWakes, MeetingStays, IdleWakes
  <2>3. CASE Limit
    BY <1>1, <2>3, InterruptStays DEF Limit
  <2> QED BY <1>1, <2>1, <2>2, <2>3, PlaybackStays, RecorderStays, StutterStays DEF Next
<1> QED BY <1>1, InitHolds, PTL DEF Spec

\* Type correctness.
THEOREM Types == Spec => []TypeOK
<1>1. IInv => TypeOK
  BY DEF IInv, TypeOK, SpeechType, OwnerType, FlagType, Jobs, Attempts, Captures
<1> QED BY <1>1, Invariant, PTL

\* Whatever is spoken, cancelled or queued, no microphone opens before all of it
\* is reaped (lifecycle.rs, meeting_controller.rs, spoken_reply.rs).
THEOREM QuietMicrophone == Spec => []SilenceBeforeCapture
<1>1. IInv => SilenceBeforeCapture
  BY DEF IInv
<1> QED BY <1>1, Invariant, PTL

\* Dictation and Meeting never hold a microphone together.
THEOREM MicrophonesApart == Spec => []OneMicrophone
<1>1. IInv => OneMicrophone
  BY DEF IInv
<1> QED BY <1>1, Invariant, PTL

\* However many spoken updates are asked for, one sounds at a time.
THEOREM VoicesApart == Spec => []OneVoice
<1>1. ASSUME IInv PROVE OneVoice
  <2> SUFFICES ASSUME NEW j \in Job, NEW k \in Job, j < k,
                      jobs[j].stage \in {"fetching", "playing"},
                      jobs[k].stage \in {"fetching", "playing"}
               PROVE  FALSE
    BY CaptureOwnerAssumption DEF OneVoice, Job
  <2>1. Unfinished(j)
    BY DEF Unfinished
  <2>2. k <= spoken
    BY <1>1, CaptureOwnerAssumption DEF IInv, Queue, SpeechType, Job
  <2> QED BY <1>1, <2>1, <2>2 DEF IInv, Queue
<1> QED BY <1>1, Invariant, PTL

\* A raised flag always has the task that will lower it.
THEOREM NoFlagForgotten == Spec => []FlagsAreServed
<1>1. IInv => FlagsAreServed
  BY DEF IInv
<1> QED BY <1>1, Invariant, PTL

\* An agent's recording has its own attempt, and that attempt records.
THEOREM CaptureHasItsAttempt == Spec => []AgentCaptureHasAttempt
<1>1. IInv => AgentCaptureHasAttempt
  BY DEF IInv, Owned, AgentCaptureHasAttempt
<1> QED BY <1>1, Invariant, PTL

\* Neither microphones nor voices overlap (meeting_controller.rs, spoken_reply.rs).
THEOREM NothingOverlaps == Spec => []OneAtATime
BY MicrophonesApart, VoicesApart, PTL DEF OneAtATime

\* Flags have their tasks and agent recordings their attempts (lifecycle.rs).
THEOREM NobodyIsForgotten == Spec => []RequestsAreServed
BY NoFlagForgotten, CaptureHasItsAttempt, PTL DEF RequestsAreServed
=============================================================================
