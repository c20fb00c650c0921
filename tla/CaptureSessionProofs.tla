------------------------ MODULE CaptureSessionProofs ------------------------
(***************************************************************************)
(* Proofs about CaptureSession for any number of cancelling presses and    *)
(* any faults.  Two facts carry them: the holder of the lock is the only   *)
(* task that moves the session, and the owner thread has nothing left to   *)
(* do once it was closed.                                                  *)
(***************************************************************************)
EXTENDS CaptureSession, TLAPS

Resting == {"idle", "spawned", "waiting", "done"}
Busy == {"destination", "provider", "microphone", "failReap", "failErase", "failClose",
         "erase", "reap", "close", "stopping", "finishing", "fallback", "transcribing",
         "appending", "endReap", "endClose"}
Early == {"spawned", "waiting", "destination", "provider", "microphone"}

-----------------------------------------------------------------------------
(* The lock                                                                 *)

LockType == pc \in [Task -> Resting \cup Busy] /\ lock \in Seq(Task)

\* A task at one of the awaits inside the session holds the lock; one that waits is in line.
LockHeld ==
    /\ \A t \in Task : pc[t] \in Busy => lock # <<>> /\ Head(lock) = t
    /\ \A t \in Task : pc[t] = "waiting" => \E i \in 1..Len(lock) : lock[i] = t

LockInv == LockType /\ LockHeld

\* A task that may move the session.
Moves(t) == Enters(t) \/ (pc[t] \in Busy /\ Head(lock) = t)

\* Only the holder moves.
LEMMA Exclusive ==
    ASSUME LockInv, NEW t \in Task, NEW u \in Task, pc[t] \in Busy, Moves(u)
    PROVE  u = t
BY DEF LockInv, LockType, LockHeld, Moves, Enters, Busy

LEMMA HeldByMover ==
    ASSUME LockInv, NEW t \in Task, Moves(t)
    PROVE  Held(t) \in Seq(Task) /\ Held(t) # <<>> /\ Head(Held(t)) = t
<1>1. CASE pc[t] = "spawned"
  BY <1>1 DEF Held
<1>2. CASE pc[t] # "spawned"
  <2>1. Held(t) = lock /\ (pc[t] \in Busy \/ pc[t] = "waiting") /\ Head(lock) = t
    BY <1>2 DEF Held, Moves, Enters
  <2>2. lock # <<>>
    BY <2>1 DEF LockInv, LockType, LockHeld
  <2> QED BY <2>1, <2>2 DEF LockInv, LockType
<1> QED BY <1>1, <1>2

LEMMA InLine ==
    ASSUME LockInv, NEW t \in Task, Moves(t), NEW u \in Task, u # t, pc[u] = "waiting"
    PROVE  \E i \in 2..Len(Held(t)) : Held(t)[i] = u
<1>1. PICK i \in 1..Len(lock) : lock[i] = u
  BY DEF LockInv, LockHeld
<1>2. lock # <<>> /\ lock \in Seq(Task)
  BY <1>1 DEF LockInv, LockType
<1>3. pc[t] # "spawned" /\ Head(lock) = t /\ Held(t) = lock
  BY <1>2 DEF Moves, Enters, Held, Busy
<1>4. i # 1
  BY <1>1, <1>2, <1>3
<1> QED BY <1>1, <1>2, <1>3, <1>4

LEMMA AwaitsKeepsLock ==
    ASSUME LockInv, NEW t \in Task, Moves(t), NEW at \in Busy, Awaits(t, at)
    PROVE  LockInv'
<1>1. lock' \in Seq(Task) /\ lock' # <<>> /\ Head(lock') = t /\ lock' = Held(t)
  BY HeldByMover DEF Awaits
<1>2. pc' = [pc EXCEPT ![t] = at] /\ pc \in [Task -> Resting \cup Busy]
  BY DEF Awaits, LockInv, LockType
<1>3. LockType'
  BY <1>1, <1>2 DEF LockType
<1>4. \A u \in Task : pc'[u] \in Busy => u = t
  BY <1>2, Exclusive
<1>5. ASSUME NEW u \in Task, pc'[u] = "waiting"
      PROVE  \E i \in 1..Len(lock') : lock'[i] = u
  <2>1. u # t /\ pc[u] = "waiting"
    BY <1>2, <1>5 DEF Busy
  <2> QED BY <1>1, <2>1, InLine
<1> QED BY <1>1, <1>3, <1>4, <1>5 DEF LockInv, LockHeld

LEMMA LeavesKeepsLock ==
    ASSUME LockInv, NEW t \in Task, Moves(t), Leaves(t)
    PROVE  LockInv'
<1>1. Held(t) \in Seq(Task) /\ Held(t) # <<>> /\ lock' = Tail(Held(t))
  BY HeldByMover DEF Leaves
<1>2. pc' = [pc EXCEPT ![t] = "done"] /\ pc \in [Task -> Resting \cup Busy]
  BY DEF Leaves, LockInv, LockType
<1>3. LockType'
  BY <1>1, <1>2 DEF LockType, Resting
<1>4. \A u \in Task : pc'[u] \notin Busy
  BY <1>2, Exclusive DEF Busy
<1>5. ASSUME NEW u \in Task, pc'[u] = "waiting"
      PROVE  \E i \in 1..Len(lock') : lock'[i] = u
  <2>1. u # t /\ pc[u] = "waiting"
    BY <1>2, <1>5
  <2>2. PICK i \in 2..Len(Held(t)) : Held(t)[i] = u
    BY <2>1, InLine
  <2>3. i - 1 \in 1..Len(lock') /\ lock'[i - 1] = u
    BY <1>1, <2>2
  <2> QED BY <2>3
<1> QED BY <1>3, <1>4, <1>5 DEF LockInv, LockHeld

\* A task that is not at the lock, moved to another place that is not.
LEMMA RestKeepsLock ==
    ASSUME LockInv, NEW t \in Task, NEW at \in {"spawned", "done"},
           pc' = [pc EXCEPT ![t] = at], UNCHANGED lock
    PROVE  LockInv'
BY DEF LockInv, LockType, LockHeld, Resting, Busy

LEMMA QueueKeepsLock ==
    ASSUME LockInv, NEW t \in Task, Queue(t)
    PROVE  LockInv'
<1>1. /\ lock \in Seq(Task) /\ lock # <<>> /\ lock' = Append(lock, t)
      /\ pc' = [pc EXCEPT ![t] = "waiting"] /\ pc \in [Task -> Resting \cup Busy]
  BY DEF Queue, LockInv, LockType
<1>2. lock' \in Seq(Task) /\ Head(lock') = Head(lock) /\ lock' # <<>>
      /\ Len(lock') = Len(lock) + 1 /\ lock'[Len(lock) + 1] = t
      /\ \A i \in 1..Len(lock) : lock'[i] = lock[i]
  BY <1>1
<1>3. LockType'
  BY <1>1, <1>2 DEF LockType, Resting
<1>4. \A u \in Task : pc'[u] \in Busy => Head(lock') = u
  BY <1>1, <1>2 DEF LockInv, LockHeld, Busy
<1>5. ASSUME NEW u \in Task, pc'[u] = "waiting"
      PROVE  \E i \in 1..Len(lock') : lock'[i] = u
  <2>1. CASE u = t
    BY <1>1, <1>2, <2>1
  <2>2. CASE u # t
    BY <1>1, <1>2, <1>5, <2>2 DEF LockInv, LockHeld
  <2> QED BY <2>1, <2>2
<1> QED BY <1>2, <1>3, <1>4, <1>5 DEF LockInv, LockHeld

-----------------------------------------------------------------------------
(* The invariant                                                            *)

\* `close` is the last request, and nothing is left once it was served.
OwnerInv ==
    /\ service = "closed" => requests = <<>> /\ ~mic
    /\ service = "closing" =>
           /\ requests # <<>> /\ requests[Len(requests)] = "close"
           /\ \A i \in 1..Len(requests) - 1 : requests[i] # "close"
    /\ service = "running" => \A i \in 1..Len(requests) : requests[i] # "close"

\* Which tasks a recording has in each phase.
Order ==
    /\ pc["complete"] # "idle" => pc["prepare"] = "done" /\ phase \in {"Processing"} \cup Terminal
    /\ phase \in {"Recording", "Processing"} => pc["prepare"] = "done"
    /\ pc["prepare"] \in Early /\ ~cancellation => phase = "Preparing" /\ service = "running"
    /\ pc["complete"] \in Busy => phase = "Processing"
    /\ pc["exit"] # "idle" => exit /\ cancellation
    /\ \A c \in Cancels : pc[c] # "idle" =>
           cancellation /\ pc["complete"] = "idle" /\ phase \in {"Cancelling"} \cup Terminal

\* What is over when a recording is: its stream, then its owner thread.
Ending ==
    /\ \A t \in Task : pc[t] \in {"close", "failErase", "failClose", "endClose"} =>
           realtime = "none"
    /\ pc["complete"] \in {"endReap", "endClose"} => outcome # "none"
    /\ phase \in Terminal => service = "closed" /\ realtime = "none"
    /\ said # <<>> \/ cancelled.done => phase \in Terminal

\* Whose recording it is.
Reporting ==
    /\ owns => said = <<>>
    /\ Len(said) <= 1
    /\ exit => ~owns
    /\ ~owns => exit \/ pc["complete"] \in {"idle", "done"}
    /\ exit => cancellation \/ pc["complete"] \in {"idle", "done"}

\* TypeOK without the tasks and the lock, whose types are part of LockInv.
ValuesOK ==
    /\ opts \in Options /\ phase \in CapturePhase /\ cancellation \in BOOLEAN
    /\ requested \in BOOLEAN /\ owns \in BOOLEAN /\ exit \in BOOLEAN
    /\ cancelled \in [done : BOOLEAN, beforeReady : BOOLEAN, streamed : BOOLEAN]
    /\ outcome \in {"none", "completed", "failed"}
    /\ realtime \in {"none", "open", "closing", "closed"}
    /\ heard \in {"none", "text", "empty"}
    /\ requests \in Seq(RequestKind)
    /\ answers \in [RequestKind -> {"none", "ok", "failed"}]
    /\ service \in {"running", "closing", "closed"}
    /\ mic \in BOOLEAN /\ pcm \in BOOLEAN /\ file \in BOOLEAN
    /\ opened \in BOOLEAN /\ sent \in BOOLEAN /\ delivered \in BOOLEAN
    /\ row \in [outcome : {"none", "text", "silent", "failed"}, audio : BOOLEAN]
    /\ said \in Seq({"completed", "failed", "cancelled"})

IInv == ValuesOK /\ LockInv /\ OwnerInv /\ Order /\ Ending /\ Reporting

-----------------------------------------------------------------------------
(* What a step of a task does to the lock and to the owner thread           *)

\* It moves on at the lock, leaves it, joins its line, or ends without it.
ShapeOf(t) ==
    \/ Moves(t) /\ \E at \in Busy : Awaits(t, at)
    \/ Moves(t) /\ Leaves(t)
    \/ Queue(t)
    \/ pc' = [pc EXCEPT ![t] = "done"] /\ UNCHANGED lock

\* It asks the owner thread for one thing at most, and leaves the microphone alone.
AsksOf == UNCHANGED mic /\ (UNCHANGED owner \/ \E kind \in RequestKind : Asks(kind))

LEMMA AtMoves ==
    ASSUME NEW t, NEW at \in Busy, At(t, at)
    PROVE  Moves(t)
BY DEF At, Moves

LEMMA EndsShape ==
    ASSUME NEW end, Ends(end)
    PROVE  /\ \E at \in Busy : Awaits("complete", at)
           /\ UNCHANGED owner \/ \E kind \in RequestKind : Asks(kind)
BY DEF Ends, Busy, RequestKind

LEMMA RecognizedShape ==
    ASSUME NEW text, Recognized(text)
    PROVE  /\ \E at \in Busy : Awaits("complete", at)
           /\ UNCHANGED owner \/ \E kind \in RequestKind : Asks(kind)
<1>1. CASE Silence
  BY <1>1, EndsShape DEF Silence
<1>2. CASE DeliverOrFail
  BY <1>2, EndsShape DEF DeliverOrFail, Deliver, RecordFailure
<1>3. CASE Awaits("complete", "appending") /\ UNCHANGED owner
  BY <1>3 DEF Busy
<1> QED BY <1>1, <1>2, <1>3 DEF Recognized

LEMMA CancelLockedShape ==
    ASSUME NEW t, CancelLocked(t)
    PROVE  /\ (\E at \in Busy : Awaits(t, at)) \/ Leaves(t)
           /\ UNCHANGED owner \/ \E kind \in RequestKind : Asks(kind)
BY DEF CancelLocked, Busy, RequestKind

LEMMA PrepareShape ==
    ASSUME PrepareStep
    PROVE  ShapeOf("prepare") /\ AsksOf
<1> USE DEF ShapeOf, AsksOf
<1>1. CASE PrepareCancelled
  BY <1>1, AtMoves, CancelLockedShape DEF PrepareCancelled, Moves, Busy, RequestKind, sound
<1>2. CASE Prepare
  BY <1>2, AtMoves DEF Prepare, Moves, Busy, RequestKind, sound
<1>3. CASE OpenProvider
  BY <1>3, AtMoves DEF OpenProvider, Moves, Busy, RequestKind, sound
<1>4. CASE StartMicrophone
  BY <1>4, AtMoves DEF StartMicrophone, Moves, Busy, RequestKind, sound
<1>5. CASE Started
  BY <1>5, AtMoves DEF Started, Moves, Busy, RequestKind, sound
<1>6. CASE PrepareFails
  BY <1>6, AtMoves DEF PrepareFails, Moves, Busy, RequestKind, sound
<1>7. CASE FailReaped
  BY <1>7, AtMoves DEF FailReaped, Moves, Busy, RequestKind, sound
<1>8. CASE FailErased
  BY <1>8, AtMoves DEF FailErased, Moves, Busy, RequestKind, sound
<1>9. CASE FailClosed
  BY <1>9, AtMoves DEF FailClosed, Moves, Busy, RequestKind, sound
<1> QED BY <1>1, <1>2, <1>3, <1>4, <1>5, <1>6, <1>7, <1>8, <1>9 DEF PrepareStep

LEMMA CompleteShape ==
    ASSUME CompleteStep
    PROVE  ShapeOf("complete") /\ AsksOf
<1> USE DEF ShapeOf, AsksOf
<1>1. CASE Complete
  BY <1>1, AtMoves DEF Complete, Moves, Busy, RequestKind, sound
<1>2. CASE CompleteRefused
  BY <1>2, AtMoves DEF CompleteRefused, Moves, Busy, RequestKind, sound
<1>3. CASE StopFailed
  BY <1>3, AtMoves, EndsShape DEF StopFailed, Moves, Busy, RequestKind, sound, Breaks, CompleteKeeps
<1>4. CASE Stopped
  BY <1>4, AtMoves DEF Stopped, Moves, Busy, RequestKind, sound
<1>5. CASE Finished
  BY <1>5, AtMoves, EndsShape, RecognizedShape
     DEF Finished, Moves, Busy, RequestKind, sound, Breaks, CompleteKeeps
<1>6. CASE FinishFailed
  BY <1>6, AtMoves DEF FinishFailed, Moves, Busy, RequestKind, sound
<1>7. CASE FallsBack
  BY <1>7, AtMoves DEF FallsBack, Moves, Busy, RequestKind, sound
<1>8. CASE Transcribed
  BY <1>8, AtMoves, EndsShape, RecognizedShape
     DEF Transcribed, Moves, Busy, RequestKind, sound, RecordFailure, CompleteKeeps
<1>9. CASE Appended
  BY <1>9, AtMoves, EndsShape
     DEF Appended, Moves, Busy, RequestKind, sound, DeliverOrFail, Deliver, RecordFailure,
         CompleteKeeps
<1>10. CASE CompleteClosing
  BY <1>10, AtMoves, EndsShape
     DEF CompleteClosing, Moves, Busy, RequestKind, sound, Breaks, CompleteKeeps
<1>11. CASE EndReaped
  BY <1>11, AtMoves DEF EndReaped, Moves, Busy, RequestKind, sound
<1>12. CASE EndClosed
  BY <1>12, AtMoves DEF EndClosed, Moves, Busy, RequestKind, sound
<1> QED BY <1>1, <1>2, <1>3, <1>4, <1>5, <1>6, <1>7, <1>8, <1>9, <1>10, <1>11, <1>12
           DEF CompleteStep

LEMMA TaskShape ==
    ASSUME NEW t \in Task, TaskStep(t)
    PROVE  ShapeOf(t) /\ AsksOf
<1>1. CASE Queue(t)
  BY <1>1 DEF Queue, ShapeOf, AsksOf, sound
<1>2. CASE Erased(t)
  BY <1>2, AtMoves DEF Erased, ShapeOf, AsksOf, Busy, RequestKind, sound
<1>3. CASE Reaped(t)
  BY <1>3, AtMoves DEF Reaped, ShapeOf, AsksOf, Busy, RequestKind, sound
<1>4. CASE Closed(t)
  BY <1>4, AtMoves DEF Closed, ShapeOf, AsksOf, Busy, sound
<1>5. CASE t = "exit" /\ ExitTask
  BY <1>5, CancelLockedShape DEF ExitTask, ShapeOf, AsksOf, Moves, sound
<1>6. CASE CancelTask(t)
  BY <1>6, CancelLockedShape DEF CancelTask, ShapeOf, AsksOf, Moves, sound
<1>7. CASE CancelTooLate(t)
  BY <1>7 DEF CancelTooLate, ShapeOf, AsksOf, sound
<1> QED BY <1>1, <1>2, <1>3, <1>4, <1>5, <1>6, <1>7, PrepareShape, CompleteShape DEF TaskStep

\* Every step keeps the order of the tasks at the lock.
LEMMA LockKept ==
    ASSUME LockInv, Next
    PROVE  LockInv'
<1>1. ASSUME NEW t \in Task, TaskStep(t)
      PROVE  LockInv'
  BY <1>1, TaskShape, AwaitsKeepsLock, LeavesKeepsLock, QueueKeepsLock, RestKeepsLock
     DEF ShapeOf
<1>2. CASE OwnerStep \/ FirstPcm \/ Stream \/ StreamCloses
  <2>1. UNCHANGED tasks
    BY <1>2 DEF OwnerStep, ServeDestination, ServeStart, ServeStop, ServeCancel, ServeClose,
                Serve, FirstPcm, Stream, StreamCloses
  <2> QED BY <2>1 DEF tasks, LockInv, LockType, LockHeld
<1>3. ASSUME NEW c \in Cancels, Cancel(c)
      PROVE  LockInv'
  <2>1. c \in Task /\ pc' = [pc EXCEPT ![c] = "spawned"] /\ UNCHANGED lock /\ pc[c] = "idle"
    BY <1>3 DEF Cancel, Spawned, Task
  <2> QED BY <2>1, RestKeepsLock
<1>4. CASE Stop
  <2>1. pc' = [pc EXCEPT !["complete"] = "spawned"] /\ UNCHANGED lock /\ "complete" \in Task
    BY <1>4 DEF Stop, Spawned, Task
  <2> QED BY <2>1, RestKeepsLock
<1>5. CASE Exit
  <2>1. CASE pc' = [pc EXCEPT !["exit"] = "spawned"] /\ UNCHANGED lock
    BY <2>1, RestKeepsLock DEF Task
  <2>2. CASE UNCHANGED tasks
    BY <2>2 DEF tasks, LockInv, LockType, LockHeld
  <2> QED BY <1>5, <2>1, <2>2 DEF Exit, Spawned
<1> QED BY <1>1, <1>2, <1>3, <1>4, <1>5 DEF Next

-----------------------------------------------------------------------------
(* The owner thread                                                         *)

LEMMA AsksKeepsOwner ==
    ASSUME ValuesOK, OwnerInv, NEW kind \in RequestKind, Asks(kind), UNCHANGED mic
    PROVE  OwnerInv'
<1>1. CASE service # "running"
  BY <1>1 DEF Asks, OwnerInv
<1>2. CASE service = "running"
  <2>1. /\ requests \in Seq(RequestKind) /\ requests' = Append(requests, kind)
        /\ service' = (IF kind = "close" THEN "closing" ELSE "running")
        /\ \A i \in 1..Len(requests) : requests[i] # "close"
    BY <1>2 DEF Asks, OwnerInv, ValuesOK
  <2>2. /\ Len(requests') = Len(requests) + 1 /\ requests'[Len(requests')] = kind
        /\ requests' # <<>> /\ Len(requests) \in Nat
        /\ \A i \in 1..Len(requests) : requests'[i] = requests[i]
    BY <2>1
  <2>3. \A i \in 1..Len(requests') - 1 : requests'[i] # "close"
    BY <2>1, <2>2
  <2>4. kind # "close" => \A i \in 1..Len(requests') : requests'[i] # "close"
    BY <2>1, <2>2
  <2>5. kind = "close" => service' = "closing"
    BY <2>1
  <2>6. kind # "close" => service' = "running"
    BY <2>1
  <2>7. service' = "closing" => kind = "close"
    BY <2>1
  <2> QED BY <2>2, <2>3, <2>4, <2>5, <2>6, <2>7 DEF OwnerInv
<1> QED BY <1>1, <1>2

LEMMA ServeKeepsOwner ==
    ASSUME ValuesOK, OwnerInv, OwnerStep
    PROVE  OwnerInv'
<1>1. requests \in Seq(RequestKind) /\ requests # <<>> /\ requests' = Tail(requests)
  BY DEF OwnerStep, ServeDestination, ServeStart, ServeStop, ServeCancel, ServeClose, Serve,
         ValuesOK
<1>2. /\ Len(requests) \in Nat \ {0} /\ Len(requests') = Len(requests) - 1
      /\ \A i \in 1..Len(requests') : requests'[i] = requests[i + 1]
  BY <1>1
<1>3. service \in {"running", "closing"}
  BY <1>1 DEF OwnerInv, ValuesOK
<1>4. CASE ServeClose
  <2>1. Head(requests) = "close" /\ service' = "closed" /\ mic' = FALSE
    BY <1>4 DEF ServeClose, Serve
  <2>2. requests[1] = "close"
    BY <1>1, <2>1
  <2>3. Len(requests) = 1
    BY <1>2, <1>3, <2>2 DEF OwnerInv
  <2>4. requests' = <<>>
    BY <1>1, <1>2, <2>3
  <2> QED BY <2>1, <2>4 DEF OwnerInv
<1>5. CASE ~ServeClose
  <2>1. service' = service /\ requests[1] # "close"
    BY <1>1, <1>5 DEF OwnerStep, ServeDestination, ServeStart, ServeStop, ServeCancel, Serve
  <2>2. CASE service = "running"
    <3>1. \A i \in 1..Len(requests') : requests'[i] # "close"
      BY <1>2, <2>2 DEF OwnerInv
    <3> QED BY <2>1, <2>2, <3>1 DEF OwnerInv
  <2>3. CASE service = "closing"
    <3>1. requests[Len(requests)] = "close" /\ Len(requests) # 1
      BY <1>2, <2>1, <2>3 DEF OwnerInv
    <3>2. requests' # <<>> /\ requests'[Len(requests')] = "close"
      <4>1. Len(requests') \in Nat \ {0} /\ Len(requests') + 1 = Len(requests)
        BY <1>2, <3>1
      <4>2. requests'[Len(requests')] = requests[Len(requests') + 1]
        BY <1>2, <4>1
      <4>3. requests' # <<>>
        BY <1>1, <4>1
      <4> QED BY <3>1, <4>1, <4>2, <4>3
    <3>3. \A i \in 1..Len(requests') - 1 : requests'[i] # "close"
      BY <1>2, <2>3 DEF OwnerInv
    <3> QED BY <2>1, <2>3, <3>2, <3>3 DEF OwnerInv
  <2> QED BY <1>3, <2>2, <2>3
<1> QED BY <1>4, <1>5

LEMMA OwnerKept ==
    ASSUME ValuesOK, OwnerInv, Next
    PROVE  OwnerInv'
<1>1. ASSUME NEW t \in Task, TaskStep(t)
      PROVE  OwnerInv'
  <2>1. CASE UNCHANGED owner /\ UNCHANGED mic
    BY <2>1 DEF owner, OwnerInv
  <2> QED BY <1>1, <2>1, TaskShape, AsksKeepsOwner DEF AsksOf
<1>2. CASE OwnerStep
  BY <1>2, ServeKeepsOwner
<1>3. ASSUME FirstPcm \/ Stream \/ StreamCloses \/ (\E c \in Cancels : Cancel(c)) \/ Stop \/ Exit
      PROVE  OwnerInv'
  <2>1. UNCHANGED owner /\ UNCHANGED mic
    BY <1>3 DEF FirstPcm, Stream, StreamCloses, Cancel, Stop, Exit, sound
  <2> QED BY <2>1 DEF owner, OwnerInv
<1> QED BY <1>1, <1>2, <1>3 DEF Next

-----------------------------------------------------------------------------
(* What a step of a task does to the recording                              *)

\* The awaits after which nothing is streamed any more.
Quiet == {"close", "failErase", "failClose", "endClose"}

\* Where it goes: nobody starts again, and preparing goes on while nothing was cancelled.
PlaceOf(t) ==
    /\ pc[t] \notin {"idle", "done"} /\ pc'[t] # "idle"
    /\ t = "complete" /\ pc'[t] \in Busy => pc[t] \in Busy \/ phase = "Processing"
    /\ t = "prepare" /\ pc'[t] \in Early /\ ~cancellation =>
           pc[t] \in Early /\ (service = "running" => service' = "running")

\* Recording begins, or a task that waited for the owner thread ends the recording.
PhaseOf(t) ==
    /\ UNCHANGED <<cancellation, exit>>
    /\ \/ UNCHANGED phase
       \/ /\ t = "prepare" /\ pc[t] = "microphone" /\ ~cancellation
          /\ phase' = "Recording" /\ pc'[t] = "done"
       \/ /\ pc[t] \in {"close", "failClose", "endClose"} /\ service = "closed"
          /\ phase' \in Terminal /\ pc'[t] = "done" /\ UNCHANGED <<realtime, service>>

\* A stream is opened by preparing only, and is over before the owner thread is closed.
SpeechOf(t) ==
    /\ \/ UNCHANGED realtime \/ realtime # "none"
       \/ t = "prepare" /\ ~cancellation /\ pc[t] \in {"destination", "provider"}
       \/ t = "complete" /\ pc[t] \in Busy
    /\ pc'[t] \in Quiet => realtime' = "none" \/ (UNCHANGED realtime /\ pc[t] \in Quiet)
    /\ t = "complete" /\ pc'[t] \in {"endReap", "endClose"} =>
           outcome' # "none" \/ (UNCHANGED outcome /\ pc[t] = "endReap")
    /\ t # "complete" => UNCHANGED outcome

\* An end is reported when there is one, and text goes anywhere before the token is cancelled.
ReportOf(t) ==
    /\ \/ UNCHANGED <<owns, said>>
       \/ /\ \E end : Reports(end)
          /\ pc'[t] = "done"
          /\ cancelled.done \/ phase' \in Terminal \/ (t = "complete" /\ phase # "Processing")
    /\ cancelled'.done => cancelled.done \/ phase' \in Terminal
    /\ UNCHANGED results \/ (t = "complete" /\ pc[t] \in Busy /\ ~cancellation)

EffectOf(t) == PlaceOf(t) /\ PhaseOf(t) /\ SpeechOf(t) /\ ReportOf(t)

LEMMA PrepareEffect ==
    ASSUME LockInv, ValuesOK, PrepareStep
    PROVE  EffectOf("prepare")
<1> "prepare" \in Task /\ pc \in [Task -> Resting \cup Busy]
  BY DEF Task, LockInv, LockType
<1> USE DEF EffectOf, PlaceOf, PhaseOf, SpeechOf, ReportOf, Quiet, Early, Busy, Terminal,
            Awaits, At, Enters, session, speech, sound, owner, results
<1>1. CASE PrepareCancelled
  BY <1>1 DEF PrepareCancelled, CancelLocked, Asks, Answered, Leaves, Ended
<1>2. CASE Prepare
  BY <1>2 DEF Prepare, Asks
<1>3. CASE OpenProvider
  BY <1>3 DEF OpenProvider
<1>4. CASE StartMicrophone
  BY <1>4 DEF StartMicrophone, Asks
<1>5. CASE Started
  BY <1>5 DEF Started, Leaves
<1>6. CASE PrepareFails
  BY <1>6 DEF PrepareFails, Asks
<1>7. CASE FailReaped
  BY <1>7 DEF FailReaped, Asks
<1>8. CASE FailErased
  BY <1>8 DEF FailErased, Asks, Answered
<1>9. CASE FailClosed
  BY <1>9 DEF FailClosed, Leaves
<1> QED BY <1>1, <1>2, <1>3, <1>4, <1>5, <1>6, <1>7, <1>8, <1>9 DEF PrepareStep

LEMMA CompleteEffect ==
    ASSUME LockInv, ValuesOK, CompleteStep
    PROVE  EffectOf("complete")
<1> "complete" \in Task /\ pc \in [Task -> Resting \cup Busy]
  BY DEF Task, LockInv, LockType
<1> USE DEF EffectOf, PlaceOf, PhaseOf, SpeechOf, ReportOf, Quiet, Early, Busy, Terminal,
            Awaits, At, Enters, session, speech, sound, owner, results
<1>1. CASE Complete
  BY <1>1 DEF Complete, Asks
<1>2. CASE CompleteRefused
  BY <1>2 DEF CompleteRefused, Leaves
<1>3. CASE StopFailed
  BY <1>3 DEF StopFailed, Breaks, CompleteKeeps, Ends, Asks, Retains, Ended
<1>4. CASE Stopped
  BY <1>4 DEF Stopped
<1>5. CASE Finished
  BY <1>5
     DEF Finished, Recognized, Breaks, Silence, DeliverOrFail, Deliver, RecordFailure,
         CompleteKeeps, Ends, Asks, Retains, Ended
<1>6. CASE FinishFailed
  BY <1>6 DEF FinishFailed
<1>7. CASE FallsBack
  BY <1>7 DEF FallsBack
<1>8. CASE Transcribed
  BY <1>8
     DEF Transcribed, Recognized, Silence, DeliverOrFail, Deliver, RecordFailure, CompleteKeeps,
         Ends, Asks, Retains, Ended
<1>9. CASE Appended
  BY <1>9
     DEF Appended, DeliverOrFail, Deliver, RecordFailure, CompleteKeeps, Ends, Asks, Retains,
         Ended
<1>10. CASE CompleteClosing
  BY <1>10 DEF CompleteClosing, Breaks, CompleteKeeps, Ends, Asks, Retains, Ended
<1>11. CASE EndReaped
  BY <1>11 DEF EndReaped, Asks
<1>12. CASE EndClosed
  BY <1>12 DEF EndClosed, Leaves
<1> QED BY <1>1, <1>2, <1>3, <1>4, <1>5, <1>6, <1>7, <1>8, <1>9, <1>10, <1>11, <1>12
           DEF CompleteStep

LEMMA TaskEffect ==
    ASSUME LockInv, ValuesOK, NEW t \in Task, TaskStep(t)
    PROVE  EffectOf(t)
<1> pc \in [Task -> Resting \cup Busy]
  BY DEF LockInv, LockType
<1> USE DEF EffectOf, PlaceOf, PhaseOf, SpeechOf, ReportOf, Quiet, Early, Busy, Terminal,
            Awaits, At, Enters, session, speech, sound, owner, results
<1>1. CASE Queue(t)
  BY <1>1 DEF Queue
<1>2. CASE Erased(t)
  BY <1>2 DEF Erased, Asks
<1>3. CASE Reaped(t)
  <2>1. cancelled'.done = cancelled.done
    BY <1>3 DEF Reaped, ValuesOK
  <2> QED BY <1>3, <2>1 DEF Reaped, Asks
<1>4. CASE Closed(t)
  <2>1. /\ pc[t] = "close" /\ service = "closed" /\ phase' = "Cancelled" /\ Leaves(t)
        /\ Reports("cancelled")
        /\ UNCHANGED <<cancellation, exit, outcome, realtime, service, results>>
    BY <1>4 DEF Closed
  <2> QED BY <2>1 DEF Leaves
<1>5. CASE t = "exit" /\ ExitTask
  BY <1>5 DEF ExitTask, CancelLocked, Asks, Leaves, Ended
<1>6. CASE t \in Cancels /\ CancelTask(t)
  <2>1. t \notin {"prepare", "complete"}
    BY <1>6, CaptureSessionAssumption
  <2> QED BY <1>6, <2>1 DEF CancelTask, CancelLocked, Asks, Leaves, Ended
<1>7. CASE t \in Cancels /\ CancelTooLate(t)
  <2>1. t \notin {"prepare", "complete"}
    BY <1>7, CaptureSessionAssumption
  <2> QED BY <1>7, <2>1 DEF CancelTooLate
<1> HIDE DEF EffectOf
<1> QED BY <1>1, <1>2, <1>3, <1>4, <1>5, <1>6, <1>7, PrepareEffect, CompleteEffect DEF TaskStep

\* The other tasks stay where they are, and the holder of the lock has it alone.
LEMMA TaskPlace ==
    ASSUME LockInv, NEW t \in Task, ShapeOf(t)
    PROVE  /\ \A u \in Task : u # t => pc'[u] = pc[u]
           /\ pc'[t] \in Busy \cup {"done", "waiting"}
           /\ pc[t] \in Busy => \A u \in Task : pc[u] \in Busy => u = t
<1>1. pc \in [Task -> Resting \cup Busy]
  BY DEF LockInv, LockType
<1>2. pc[t] \in Busy => \A u \in Task : pc[u] \in Busy => u = t
  BY DEF LockInv, LockHeld
<1> QED BY <1>1, <1>2 DEF ShapeOf, Awaits, Leaves, Queue

-----------------------------------------------------------------------------
(* Steps of tasks keep the invariant                                        *)

LEMMA TaskKeepsOrder ==
    ASSUME IInv, NEW t \in Task, TaskStep(t)
    PROVE  Order'
<1> USE DEF Busy, Early, Terminal
<1>1. PlaceOf(t) /\ PhaseOf(t) /\ ShapeOf(t)
  BY TaskEffect, TaskShape DEF IInv, EffectOf
<1>2. /\ \A u \in Task : u # t => pc'[u] = pc[u]
      /\ pc'[t] \in Busy \cup {"done", "waiting"}
      /\ pc[t] \in Busy => \A u \in Task : pc[u] \in Busy => u = t
  BY <1>1, TaskPlace DEF IInv
<1>3. {"prepare", "complete", "exit"} \subseteq Task /\ Cancels \subseteq Task
      /\ \A c \in Cancels : c \notin {"prepare", "complete", "exit"}
  BY CaptureSessionAssumption DEF Task
<1>4. Order
  BY DEF IInv
<1>5. pc[t] \notin {"idle", "done"} /\ pc'[t] # "idle" /\ UNCHANGED cancellation /\ UNCHANGED exit
  BY <1>1 DEF PlaceOf, PhaseOf
<1>6. phase = "Processing" \/ phase \in Terminal => phase' = "Processing" \/ phase' \in Terminal
  BY <1>1, <1>3, <1>4, <1>5 DEF PhaseOf, Order
<1>7. phase \in Terminal => phase' \in Terminal
  BY <1>1, <1>4 DEF PhaseOf, Order
<1>8. pc'["complete"] # "idle" =>
          pc'["prepare"] = "done" /\ phase' \in {"Processing"} \cup Terminal
  BY <1>2, <1>3, <1>4, <1>5, <1>6 DEF Order
<1>9. phase' \in {"Recording", "Processing"} => pc'["prepare"] = "done"
  BY <1>1, <1>2, <1>3, <1>4, <1>5 DEF PhaseOf, Order
<1>10. pc'["prepare"] \in Early /\ ~cancellation' => phase' = "Preparing" /\ service' = "running"
  <2> SUFFICES ASSUME pc'["prepare"] \in Early, ~cancellation'
               PROVE  phase' = "Preparing" /\ service' = "running"
    OBVIOUS
  <2>1. pc["prepare"] \in Early
    BY <1>1, <1>2, <1>3, <1>5 DEF PlaceOf
  <2>2. phase = "Preparing" /\ service = "running"
    BY <1>4, <1>5, <2>1 DEF Order
  <2>3. t = "prepare"
    BY <1>4, <1>5, <2>1 DEF Order, Task
  <2> QED BY <1>1, <2>2, <2>3 DEF PlaceOf, PhaseOf
<1>11. pc'["complete"] \in Busy => phase' = "Processing"
  BY <1>1, <1>2, <1>3, <1>4, <1>5 DEF PlaceOf, PhaseOf, Order
<1>12. pc'["exit"] # "idle" => exit' /\ cancellation'
  BY <1>2, <1>3, <1>4, <1>5 DEF Order
<1>13. ASSUME NEW c \in Cancels, pc'[c] # "idle"
       PROVE  cancellation' /\ pc'["complete"] = "idle" /\ phase' \in {"Cancelling"} \cup Terminal
  <2>1. pc[c] # "idle"
    BY <1>2, <1>3, <1>5, <1>13
  <2>2. cancellation /\ pc["complete"] = "idle" /\ phase \in {"Cancelling"} \cup Terminal
    BY <1>4, <2>1 DEF Order
  <2> QED BY <1>1, <1>2, <1>3, <1>5, <2>2 DEF PhaseOf
<1> QED BY <1>8, <1>9, <1>10, <1>11, <1>12, <1>13 DEF Order

LEMMA TaskKeepsEnding ==
    ASSUME IInv, NEW t \in Task, TaskStep(t)
    PROVE  Ending'
<1> USE DEF Busy, Quiet, Terminal
<1>1. PhaseOf(t) /\ SpeechOf(t) /\ ReportOf(t) /\ ShapeOf(t)
  BY TaskEffect, TaskShape DEF IInv, EffectOf
<1>2. /\ \A u \in Task : u # t => pc'[u] = pc[u]
      /\ pc'[t] \in Busy \cup {"done", "waiting"}
      /\ pc[t] \in Busy => \A u \in Task : pc[u] \in Busy => u = t
  BY <1>1, TaskPlace DEF IInv
<1>3. "prepare" \in Task /\ "complete" \in Task
  BY DEF Task
<1>4. Order /\ Ending
  BY DEF IInv
<1>5. phase \in Terminal => phase' \in Terminal
  BY <1>1, <1>4 DEF PhaseOf, Order, Early
<1>6. ASSUME NEW u \in Task, pc'[u] \in Quiet
      PROVE  realtime' = "none"
  <2>1. CASE u = t
    BY <1>1, <1>4, <1>6, <2>1 DEF SpeechOf, Ending
  <2>2. CASE u # t
    <3>1. pc[u] \in Quiet /\ realtime = "none"
      BY <1>2, <1>4, <1>6, <2>2 DEF Ending
    <3>2. pc[t] \notin Busy
      BY <1>2, <2>2, <3>1
    <3> QED BY <1>1, <3>1, <3>2 DEF SpeechOf
  <2> QED BY <2>1, <2>2
<1>7. pc'["complete"] \in {"endReap", "endClose"} => outcome' # "none"
  BY <1>1, <1>2, <1>3, <1>4 DEF SpeechOf, Ending
<1>8. ASSUME phase' \in Terminal
      PROVE  service' = "closed" /\ realtime' = "none"
  <2>1. CASE phase \in Terminal
    <3>1. service = "closed" /\ realtime = "none"
      BY <1>4, <2>1 DEF Ending
    <3>2. service' = "closed"
      BY <3>1, TaskShape DEF AsksOf, Asks, owner
    <3>3. ~(t = "prepare" /\ ~cancellation /\ pc[t] \in {"destination", "provider"})
          /\ ~(t = "complete" /\ pc[t] \in Busy)
      BY <1>4, <2>1 DEF Order, Early
    <3> QED BY <1>1, <3>1, <3>2, <3>3 DEF SpeechOf
  <2>2. CASE phase \notin Terminal
    <3>1. pc[t] \in Quiet /\ service = "closed" /\ UNCHANGED <<realtime, service>>
      BY <1>1, <1>8, <2>2 DEF PhaseOf
    <3> QED BY <1>4, <3>1 DEF Ending
  <2> QED BY <2>1, <2>2
<1>9. said' # <<>> \/ cancelled'.done => phase' \in Terminal
  <2>1. CASE UNCHANGED <<owns, said>>
    BY <1>1, <1>4, <1>5, <2>1 DEF ReportOf, Ending
  <2>2. CASE cancelled.done \/ phase' \in Terminal
    BY <1>4, <1>5, <2>2 DEF Ending
  <2>3. CASE t = "complete" /\ phase # "Processing"
    <3>1. pc["complete"] # "idle"
      BY <2>3, TaskEffect DEF IInv, EffectOf, PlaceOf
    <3> QED BY <1>4, <1>5, <2>3, <3>1 DEF Order
  <2> QED BY <1>1, <2>1, <2>2, <2>3 DEF ReportOf
<1> QED BY <1>6, <1>7, <1>8, <1>9 DEF Ending

LEMMA TaskKeepsReporting ==
    ASSUME IInv, NEW t \in Task, TaskStep(t)
    PROVE  Reporting'
<1>1. PlaceOf(t) /\ PhaseOf(t) /\ ReportOf(t) /\ ShapeOf(t)
  BY TaskEffect, TaskShape DEF IInv, EffectOf
<1>2. /\ \A u \in Task : u # t => pc'[u] = pc[u]
      /\ "complete" \in Task
  BY <1>1, TaskPlace DEF IInv, Task
<1>3. Order /\ Ending /\ Reporting
  BY DEF IInv
<1>4. pc[t] \notin {"idle", "done"} /\ UNCHANGED cancellation /\ UNCHANGED exit
  BY <1>1 DEF PlaceOf, PhaseOf
<1>5. pc["complete"] \in {"idle", "done"} => pc'["complete"] \in {"idle", "done"}
  BY <1>2, <1>4
<1>6. CASE UNCHANGED <<owns, said>>
  BY <1>3, <1>4, <1>5, <1>6 DEF Reporting
<1>7. CASE \E end : Reports(end) /\ pc'[t] = "done"
  <2>1. owns' = FALSE /\ Len(said') <= 1
    <3>1. PICK end : Reports(end)
      BY <1>7
    <3>2. CASE owns
      <4>1. said = <<>>
        BY <1>3, <3>2 DEF Reporting
      <4>2. said' = <<end>> /\ owns' = FALSE
        BY <3>1, <3>2, <4>1 DEF Reports
      <4> QED BY <4>2
    <3>3. CASE ~owns
      BY <1>3, <3>1, <3>3 DEF Reports, Reporting
    <3> QED BY <3>2, <3>3
  <2>2. exit \/ pc'["complete"] \in {"idle", "done"}
    <3>1. CASE t = "complete"
      BY <1>7, <3>1
    <3>2. CASE t = "exit"
      BY <1>3, <1>4, <3>2 DEF Order
    <3>3. CASE t \in Cancels \cup {"prepare"}
      BY <1>3, <1>4, <1>5, <3>3 DEF Order
    <3> QED BY <3>1, <3>2, <3>3 DEF Task
  <2>3. exit => cancellation' \/ pc'["complete"] \in {"idle", "done"}
    BY <1>3, <1>4, <1>5 DEF Reporting
  <2> QED BY <1>4, <2>1, <2>2, <2>3 DEF Reporting
<1> QED BY <1>1, <1>6, <1>7 DEF ReportOf

-----------------------------------------------------------------------------
(* Steps of the owner thread, the provider and the controller               *)

OutsideStep == OwnerStep \/ FirstPcm \/ Stream \/ StreamCloses

\* Outside the tasks only `close` ends the service, and only a closing stream changes.
LEMMA OutsideFrame ==
    ASSUME ValuesOK, OwnerInv, OutsideStep
    PROVE  /\ UNCHANGED <<phase, cancellation, cancelled, outcome, owns, pc, said, exit, results>>
           /\ UNCHANGED realtime \/ realtime = "closing"
           /\ UNCHANGED service \/ service = "closing"
<1>1. CASE ServeClose
  <2>1. Head(requests) = "close" /\ requests # <<>> /\ requests \in Seq(RequestKind)
    BY <1>1 DEF ServeClose, Serve, ValuesOK
  <2>2. Len(requests) \in Nat \ {0} /\ requests[1] = "close"
    BY <2>1
  <2>3. service = "closing"
    BY <2>1, <2>2 DEF OwnerInv, ValuesOK
  <2> QED BY <1>1, <2>3 DEF ServeClose, Serve, session, speech, tasks
<1>2. CASE ServeDestination \/ ServeStart \/ ServeStop \/ ServeCancel
  BY <1>2 DEF ServeDestination, ServeStart, ServeStop, ServeCancel, Serve, session, speech, tasks
<1>3. CASE FirstPcm \/ Stream \/ StreamCloses
  BY <1>3 DEF FirstPcm, Stream, StreamCloses, session, speech, owner, tasks
<1> QED BY <1>1, <1>2, <1>3 DEF OutsideStep, OwnerStep

LEMMA OutsideKeeps ==
    ASSUME IInv, OutsideStep
    PROVE  Order' /\ Ending' /\ Reporting'
<1>1. /\ UNCHANGED <<phase, cancellation, cancelled, outcome, owns, pc, said, exit>>
      /\ UNCHANGED realtime \/ realtime = "closing"
      /\ UNCHANGED service \/ service = "closing"
  BY OutsideFrame DEF IInv
<1>2. Order'
  BY <1>1 DEF IInv, Order
<1>3. Ending'
  BY <1>1 DEF IInv, Ending
<1>4. Reporting'
  BY <1>1 DEF IInv, Reporting
<1> QED BY <1>2, <1>3, <1>4

LEMMA ControllerKeeps ==
    ASSUME IInv, (\E c \in Cancels : Cancel(c)) \/ Stop \/ Exit
    PROVE  Order' /\ Ending' /\ Reporting'
<1> USE DEF Terminal, Busy
<1>1. /\ pc \in [Task -> Resting \cup Busy]
      /\ {"prepare", "complete", "exit"} \subseteq Task /\ Cancels \subseteq Task
      /\ \A c \in Cancels : c \notin {"prepare", "complete", "exit"}
  BY CaptureSessionAssumption DEF IInv, LockInv, LockType, Task
<1>2. Order /\ Ending /\ Reporting
  BY DEF IInv
<1>3. ASSUME NEW c \in Cancels, Cancel(c)
      PROVE  Order' /\ Ending' /\ Reporting'
  <2>1. /\ owns /\ phase \in {"Preparing", "Recording", "Cancelling"}
        /\ phase' = "Cancelling" /\ cancellation' = TRUE /\ pc' = [pc EXCEPT ![c] = "spawned"]
        /\ UNCHANGED <<cancelled, outcome, owns, realtime, service, said, exit>>
    BY <1>3 DEF Cancel, Spawned, speech, owner
  <2>2. /\ pc'[c] = "spawned" /\ \A u \in Task : u # c => pc'[u] = pc[u]
        /\ pc["complete"] = "idle"
    BY <1>1, <1>2, <2>1 DEF Order
  <2>3. Order'
    BY <1>1, <1>2, <2>1, <2>2 DEF Order, Early
  <2>4. Ending'
    BY <1>1, <1>2, <2>1, <2>2 DEF Ending
  <2>5. Reporting'
    BY <1>1, <1>2, <2>1, <2>2 DEF Reporting
  <2> QED BY <2>3, <2>4, <2>5
<1>4. CASE Stop
  <2>1. /\ owns /\ phase = "Recording" /\ phase' = "Processing"
        /\ pc' = [pc EXCEPT !["complete"] = "spawned"]
        /\ UNCHANGED <<cancellation, cancelled, outcome, owns, realtime, service, said, exit>>
    BY <1>4 DEF Stop, Spawned, speech, owner
  <2>2. /\ pc'["complete"] = "spawned" /\ \A u \in Task : u # "complete" => pc'[u] = pc[u]
    BY <1>1, <2>1
  <2>3. Order'
    BY <1>1, <1>2, <2>1, <2>2 DEF Order, Early
  <2>4. Ending'
    BY <1>1, <1>2, <2>1, <2>2 DEF Ending
  <2>5. Reporting'
    BY <1>1, <1>2, <2>1, <2>2 DEF Reporting
  <2> QED BY <2>3, <2>4, <2>5
<1>5. CASE Exit
  <2>1. /\ exit' = TRUE /\ owns' = FALSE
        /\ UNCHANGED <<phase, cancelled, outcome, realtime, service, said>>
    BY <1>5 DEF Exit, speech, owner
  <2>2. CASE owns /\ cancellation' = TRUE /\ pc' = [pc EXCEPT !["exit"] = "spawned"]
    <3>1. /\ pc'["exit"] = "spawned" /\ \A u \in Task : u # "exit" => pc'[u] = pc[u]
      BY <1>1, <2>2
    <3>2. Order'
      BY <1>1, <1>2, <2>1, <2>2, <3>1 DEF Order, Early
    <3>3. Ending'
      BY <1>1, <1>2, <2>1, <2>2, <3>1 DEF Ending
    <3>4. Reporting'
      BY <1>1, <1>2, <2>1, <2>2, <3>1 DEF Reporting
    <3> QED BY <3>2, <3>3, <3>4
  <2>3. CASE ~owns /\ UNCHANGED <<cancellation, pc>>
    <3>1. Order'
      BY <1>2, <2>1, <2>3 DEF Order
    <3>2. Ending'
      BY <1>2, <2>1, <2>3 DEF Ending
    <3>3. Reporting'
      BY <1>2, <1>5, <2>1, <2>3 DEF Reporting, Exit
    <3> QED BY <3>1, <3>2, <3>3
  <2> QED BY <1>5, <2>2, <2>3 DEF Exit, Spawned, tasks
<1> QED BY <1>3, <1>4, <1>5

-----------------------------------------------------------------------------
(* Types                                                                    *)

\* ValuesOK without what Asks changes.
HereOK ==
    /\ opts \in Options /\ phase \in CapturePhase /\ cancellation \in BOOLEAN
    /\ requested \in BOOLEAN /\ owns \in BOOLEAN /\ exit \in BOOLEAN
    /\ cancelled \in [done : BOOLEAN, beforeReady : BOOLEAN, streamed : BOOLEAN]
    /\ outcome \in {"none", "completed", "failed"}
    /\ realtime \in {"none", "open", "closing", "closed"}
    /\ heard \in {"none", "text", "empty"}
    /\ mic \in BOOLEAN /\ pcm \in BOOLEAN /\ file \in BOOLEAN
    /\ opened \in BOOLEAN /\ sent \in BOOLEAN /\ delivered \in BOOLEAN
    /\ row \in [outcome : {"none", "text", "silent", "failed"}, audio : BOOLEAN]
    /\ said \in Seq({"completed", "failed", "cancelled"})

RequestsOK ==
    /\ requests \in Seq(RequestKind)
    /\ answers \in [RequestKind -> {"none", "ok", "failed"}]
    /\ service \in {"running", "closing", "closed"}

LEMMA TaskKeepsRequests ==
    ASSUME RequestsOK, AsksOf
    PROVE  RequestsOK'
BY DEF RequestsOK, AsksOf, Asks, owner, RequestKind

LEMMA ReportsTypes ==
    ASSUME HereOK, NEW end \in {"completed", "failed", "cancelled"}, Reports(end)
    PROVE  owns' \in BOOLEAN /\ said' \in Seq({"completed", "failed", "cancelled"})
<1>1. said \in Seq({"completed", "failed", "cancelled"}) /\ owns' = FALSE
  BY DEF HereOK, Reports
<1>2. said' = Append(said, end) \/ said' = said
  BY DEF Reports
<1>3. said' \in Seq({"completed", "failed", "cancelled"})
  BY <1>1, <1>2
<1> QED BY <1>1, <1>3

LEMMA RetainsType ==
    ASSUME NEW success
    PROVE  Retains(success) \in BOOLEAN
BY DEF Retains

\* How a dictation ends leaves every result in its type.
DictatedOK ==
    /\ outcome \in {"none", "completed", "failed"}
    /\ realtime \in {"none", "open", "closing", "closed"}
    /\ file \in BOOLEAN /\ delivered \in BOOLEAN
    /\ row \in [outcome : {"none", "text", "silent", "failed"}, audio : BOOLEAN]

LEMMA EndsTypes ==
    ASSUME DictatedOK, NEW end \in {"completed", "failed"}, Ends(end)
    PROVE  /\ outcome' \in {"none", "completed", "failed"}
           /\ realtime' \in {"none", "open", "closing", "closed"}
BY DEF DictatedOK, Ends, Ended

LEMMA DictationTypes ==
    ASSUME DictatedOK, Breaks \/ RecordFailure \/ Silence \/ Deliver
    PROVE  DictatedOK'
<1> DEFINE R == [outcome : {"none", "text", "silent", "failed"}, audio : BOOLEAN]
<1>1. /\ file \in BOOLEAN /\ delivered \in BOOLEAN /\ row \in R
      /\ \A b \in BOOLEAN : Retains(b) \in BOOLEAN
      /\ \A o \in {"none", "text", "silent", "failed"}, b \in BOOLEAN :
             [outcome |-> o, audio |-> b] \in R
  BY RetainsType DEF DictatedOK
<1>2. /\ outcome' \in {"none", "completed", "failed"}
      /\ realtime' \in {"none", "open", "closing", "closed"}
  BY EndsTypes DEF Breaks, RecordFailure, Silence, Deliver
<1> HIDE DEF R
<1>3. file' \in BOOLEAN
  BY <1>1 DEF Breaks, RecordFailure, Silence, Deliver
<1>4. delivered' \in BOOLEAN
  BY <1>1 DEF Breaks, RecordFailure, Silence, Deliver, results
<1>5. row' \in R
  <2>1. CASE Breaks
    BY <1>1, <2>1 DEF Breaks, results
  <2>2. CASE RecordFailure
    <3>1. row' \in {[outcome |-> "failed", audio |-> file'], row}
      BY <2>2 DEF RecordFailure
    <3> QED BY <1>1, <1>3, <3>1
  <2>3. CASE Silence
    <3>1. \E b \in BOOLEAN : row' \in {[outcome |-> "silent", audio |-> Retains(b)], row}
      BY <2>3 DEF Silence
    <3> QED BY <1>1, <3>1
  <2>4. CASE Deliver
    <3>1. row' \in {[outcome |-> "text", audio |-> Retains(TRUE)], row}
      BY <2>4 DEF Deliver
    <3> QED BY <1>1, <3>1
  <2> QED BY <2>1, <2>2, <2>3, <2>4
<1> QED BY <1>2, <1>3, <1>4, <1>5 DEF R, DictatedOK

\* What a recognition leads to, at once or after an appendix.
LEMMA RecognizedTypes ==
    ASSUME DictatedOK, NEW text \in {"text", "empty"}, Recognized(text)
    PROVE  DictatedOK' /\ heard' \in {"none", "text", "empty"}
<1>1. CASE Silence \/ DeliverOrFail
  BY <1>1, DictationTypes DEF Recognized, DeliverOrFail
<1>2. CASE UNCHANGED <<outcome, realtime, owner, file, results>>
  BY <1>2 DEF Recognized, DictatedOK, results
<1> QED BY <1>1, <1>2 DEF Recognized

LEMMA PrepareTypes ==
    ASSUME HereOK, PrepareStep
    PROVE  HereOK'
<1> USE DEF HereOK, CapturePhase, Terminal, session, speech, sound, results
<1>1. CASE PrepareCancelled
  <2>1. CASE owns' = owns /\ said' = said
    BY <1>1, <2>1 DEF PrepareCancelled, CancelLocked, Ended
  <2>2. CASE \E end \in {"completed", "failed", "cancelled"} : Reports(end)
    <3>1. owns' \in BOOLEAN /\ said' \in Seq({"completed", "failed", "cancelled"})
      BY <2>2, ReportsTypes
    <3> QED BY <1>1, <3>1 DEF PrepareCancelled, CancelLocked, Ended
  <2> QED BY <1>1, <2>1, <2>2 DEF PrepareCancelled, CancelLocked, Ended
<1>2. CASE Prepare
  BY <1>2 DEF Prepare
<1>3. CASE OpenProvider
  BY <1>3 DEF OpenProvider
<1>4. CASE StartMicrophone
  BY <1>4 DEF StartMicrophone
<1>5. CASE Started
  BY <1>5 DEF Started
<1>6. CASE PrepareFails
  BY <1>6 DEF PrepareFails
<1>7. CASE FailReaped
  BY <1>7 DEF FailReaped
<1>8. CASE FailErased
  BY <1>8 DEF FailErased
<1>9. CASE FailClosed
  <2>1. CASE owns' = owns /\ said' = said
    BY <1>9, <2>1 DEF FailClosed
  <2>2. CASE \E end \in {"completed", "failed", "cancelled"} : Reports(end)
    <3>1. owns' \in BOOLEAN /\ said' \in Seq({"completed", "failed", "cancelled"})
      BY <2>2, ReportsTypes
    <3> QED BY <1>9, <3>1 DEF FailClosed
  <2> QED BY <1>9, <2>1, <2>2 DEF FailClosed
<1> QED BY <1>1, <1>2, <1>3, <1>4, <1>5, <1>6, <1>7, <1>8, <1>9 DEF PrepareStep

LEMMA CompleteTypes ==
    ASSUME HereOK, Ending, CompleteStep
    PROVE  HereOK'
<1> USE DEF HereOK, CapturePhase, Terminal, session, speech, sound, results
<1> DictatedOK
  BY DEF DictatedOK
<1>1. CASE Complete
  BY <1>1 DEF Complete
<1>2. CASE CompleteRefused
  <2>1. owns' \in BOOLEAN /\ said' \in Seq({"completed", "failed", "cancelled"})
    BY <1>2, ReportsTypes DEF CompleteRefused
  <2> QED BY <1>2, <2>1 DEF CompleteRefused
<1>3. CASE StopFailed
  <2>1. DictatedOK' /\ heard' \in {"none", "text", "empty"}
    BY <1>3, DictationTypes, RecognizedTypes DEF StopFailed, DeliverOrFail
  <2> QED BY <1>3, <2>1 DEF StopFailed, DictatedOK, CompleteKeeps
<1>4. CASE Stopped
  BY <1>4 DEF Stopped
<1>5. CASE Finished
  <2>1. DictatedOK' /\ heard' \in {"none", "text", "empty"}
    BY <1>5, DictationTypes, RecognizedTypes DEF Finished, DeliverOrFail
  <2> QED BY <1>5, <2>1 DEF Finished, DictatedOK, CompleteKeeps
<1>6. CASE FinishFailed
  BY <1>6 DEF FinishFailed
<1>7. CASE FallsBack
  BY <1>7 DEF FallsBack
<1>8. CASE Transcribed
  <2>1. DictatedOK' /\ heard' \in {"none", "text", "empty"}
    BY <1>8, DictationTypes, RecognizedTypes DEF Transcribed, DeliverOrFail
  <2> QED BY <1>8, <2>1 DEF Transcribed, DictatedOK, CompleteKeeps
<1>9. CASE Appended
  <2>1. DictatedOK' /\ heard' \in {"none", "text", "empty"}
    BY <1>9, DictationTypes, RecognizedTypes DEF Appended, DeliverOrFail
  <2> QED BY <1>9, <2>1 DEF Appended, DictatedOK, CompleteKeeps
<1>10. CASE CompleteClosing
  <2>1. DictatedOK' /\ heard' \in {"none", "text", "empty"}
    BY <1>10, DictationTypes, RecognizedTypes DEF CompleteClosing, DeliverOrFail
  <2> QED BY <1>10, <2>1 DEF CompleteClosing, DictatedOK, CompleteKeeps
<1>11. CASE EndReaped
  BY <1>11 DEF EndReaped
<1>12. CASE EndClosed
  <2>1. "complete" \in Task /\ pc["complete"] = "endClose"
    BY <1>12 DEF EndClosed, At, Task
  <2>2. outcome \in {"completed", "failed"}
    BY <2>1 DEF Ending
  <2>3. owns' \in BOOLEAN /\ said' \in Seq({"completed", "failed", "cancelled"})
    BY <1>12, <2>2, ReportsTypes DEF EndClosed
  <2> QED BY <1>12, <2>3 DEF EndClosed
<1> QED BY <1>1, <1>2, <1>3, <1>4, <1>5, <1>6, <1>7, <1>8, <1>9, <1>10, <1>11, <1>12
           DEF CompleteStep

LEMMA TaskTypes ==
    ASSUME HereOK, Ending, NEW t \in Task, TaskStep(t)
    PROVE  HereOK'
<1> DEFINE Said == {"completed", "failed", "cancelled"}
<1>1. CASE Queue(t) \/ Erased(t) \/ CancelTooLate(t)
  BY <1>1 DEF Queue, Erased, CancelTooLate, HereOK, session, speech, sound, results
<1>2. CASE Reaped(t)
  <2>1. cancelled' \in [done : BOOLEAN, beforeReady : BOOLEAN, streamed : BOOLEAN]
    BY <1>2 DEF Reaped, HereOK, sound
  <2> QED BY <1>2, <2>1 DEF Reaped, HereOK, sound, results
<1>3. CASE Closed(t)
  <2>1. cancelled' \in [done : BOOLEAN, beforeReady : BOOLEAN, streamed : BOOLEAN]
    BY <1>3 DEF Closed, HereOK
  <2>2. owns' \in BOOLEAN /\ said' \in Seq(Said)
    BY <1>3, ReportsTypes DEF Closed
  <2> QED BY <1>3, <2>1, <2>2 DEF Closed, HereOK, CapturePhase, Terminal, speech, sound, results
<1>4. ASSUME ExitTask \/ CancelTask(t)
      PROVE  HereOK'
  <2>1. /\ realtime' \in {"none", "open", "closing", "closed"} /\ UNCHANGED heard
        /\ UNCHANGED <<opts, phase, cancellation, requested, cancelled, outcome, sound, file,
                       results, exit>>
    BY <1>4 DEF ExitTask, CancelTask, CancelLocked, Ended, HereOK, speech
  <2>2. UNCHANGED <<owns, said>> \/ Reports("cancelled")
    BY <1>4 DEF ExitTask, CancelTask, CancelLocked
  <2>3. owns' \in BOOLEAN /\ said' \in Seq(Said)
    BY <2>2, ReportsTypes DEF HereOK
  <2> QED BY <2>1, <2>3 DEF HereOK, sound, results
<1> QED BY <1>1, <1>2, <1>3, <1>4, PrepareTypes, CompleteTypes DEF TaskStep

LEMMA ServeKeepsRequests ==
    ASSUME RequestsOK, OwnerStep
    PROVE  RequestsOK'
<1>1. requests' \in Seq(RequestKind)
  <2>1. requests \in Seq(RequestKind) /\ requests # <<>> /\ requests' = Tail(requests)
    BY DEF OwnerStep, ServeDestination, ServeStart, ServeStop, ServeCancel, ServeClose, Serve,
           RequestsOK
  <2> QED BY <2>1
<1>2. answers' \in [RequestKind -> {"none", "ok", "failed"}]
  <2>1. \E k \in RequestKind, a \in {"ok", "failed"} : answers' = [answers EXCEPT ![k] = a]
    BY DEF OwnerStep, ServeDestination, ServeStart, ServeStop, ServeCancel, ServeClose, Answers,
           RequestKind
  <2> QED BY <2>1 DEF RequestsOK
<1>3. service' \in {"running", "closing", "closed"}
  BY DEF OwnerStep, ServeDestination, ServeStart, ServeStop, ServeCancel, ServeClose, RequestsOK
<1> QED BY <1>1, <1>2, <1>3 DEF RequestsOK

LEMMA OutsideTypes ==
    ASSUME ValuesOK, OutsideStep
    PROVE  ValuesOK'
<1> HereOK /\ RequestsOK
  BY DEF ValuesOK, HereOK, RequestsOK
<1> USE DEF HereOK, session, speech, sound, owner, results
<1>1. CASE ServeDestination
  <2>2. HereOK'
    BY <1>1 DEF ServeDestination, Serve
  <2>3. RequestsOK'
    BY <1>1, ServeKeepsRequests DEF OwnerStep
  <2> QED BY <2>2, <2>3 DEF ValuesOK, RequestsOK
<1>2. CASE ServeStart
  <2>1. mic' \in BOOLEAN /\ file' \in BOOLEAN /\ opened' \in BOOLEAN
    BY <1>2 DEF ServeStart
  <2>2. UNCHANGED <<session, speech, pcm, sent, results, said, exit>>
    BY <1>2 DEF ServeStart, Serve
  <2>4. HereOK'
    BY <2>1, <2>2
  <2>3. RequestsOK'
    BY <1>2, ServeKeepsRequests DEF OwnerStep
  <2> QED BY <2>3, <2>4 DEF ValuesOK, RequestsOK
<1>3. CASE ServeStop
  <2>1. mic' \in BOOLEAN /\ file' \in BOOLEAN /\ opened' \in BOOLEAN
    BY <1>3 DEF ServeStop
  <2>2. UNCHANGED <<session, speech, pcm, sent, results, said, exit>>
    BY <1>3 DEF ServeStop, Serve
  <2>4. HereOK'
    BY <2>1, <2>2
  <2>3. RequestsOK'
    BY <1>3, ServeKeepsRequests DEF OwnerStep
  <2> QED BY <2>3, <2>4 DEF ValuesOK, RequestsOK
<1>4. CASE ServeCancel
  <2>1. mic' \in BOOLEAN /\ file' \in BOOLEAN /\ opened' \in BOOLEAN
    BY <1>4 DEF ServeCancel
  <2>2. UNCHANGED <<session, speech, pcm, sent, results, said, exit>>
    BY <1>4 DEF ServeCancel, Serve
  <2>4. HereOK'
    BY <2>1, <2>2
  <2>3. RequestsOK'
    BY <1>4, ServeKeepsRequests DEF OwnerStep
  <2> QED BY <2>3, <2>4 DEF ValuesOK, RequestsOK
<1>5. CASE ServeClose
  <2>1. mic' \in BOOLEAN /\ file' \in BOOLEAN /\ opened' \in BOOLEAN
    BY <1>5 DEF ServeClose
  <2>2. UNCHANGED <<session, speech, pcm, sent, results, said, exit>>
    BY <1>5 DEF ServeClose, Serve
  <2>4. HereOK'
    BY <2>1, <2>2
  <2>3. RequestsOK'
    BY <1>5, ServeKeepsRequests DEF OwnerStep
  <2> QED BY <2>3, <2>4 DEF ValuesOK, RequestsOK
<1>6. CASE FirstPcm
  BY <1>6 DEF FirstPcm, ValuesOK, RequestsOK
<1>7. CASE Stream
  BY <1>7 DEF Stream, ValuesOK, RequestsOK
<1>8. CASE StreamCloses
  BY <1>8 DEF StreamCloses, ValuesOK, RequestsOK
<1> QED BY <1>1, <1>2, <1>3, <1>4, <1>5, <1>6, <1>7, <1>8 DEF OutsideStep, OwnerStep

LEMMA TypesKept ==
    ASSUME ValuesOK, Ending, Next
    PROVE  ValuesOK'
<1>1. HereOK /\ RequestsOK
  BY DEF ValuesOK, HereOK, RequestsOK
<1>2. ASSUME NEW t \in Task, TaskStep(t)
      PROVE  ValuesOK'
  <2>1. HereOK' /\ RequestsOK'
    BY <1>1, <1>2, TaskTypes, TaskShape, TaskKeepsRequests
  <2> QED BY <2>1 DEF ValuesOK, HereOK, RequestsOK
<1>3. CASE OutsideStep
  BY <1>3, OutsideTypes
<1>4. ASSUME NEW c \in Cancels, Cancel(c)
      PROVE  ValuesOK'
  BY <1>4 DEF Cancel, ValuesOK, CapturePhase, speech, sound, owner, results
<1>5. CASE Stop
  BY <1>5 DEF Stop, ValuesOK, CapturePhase, speech, sound, owner, results
<1>6. CASE Exit
  <2>1. exit' \in BOOLEAN /\ owns' \in BOOLEAN /\ cancellation' \in BOOLEAN
    BY <1>1, <1>6 DEF Exit, HereOK
  <2>2. UNCHANGED <<opts, phase, requested, cancelled, outcome, speech, owner, sound, file,
                    results, said>>
    BY <1>6 DEF Exit
  <2> QED BY <2>1, <2>2 DEF ValuesOK, speech, owner, sound, results
<1> QED BY <1>2, <1>3, <1>4, <1>5, <1>6 DEF Next, OutsideStep

-----------------------------------------------------------------------------
(* The theorems                                                             *)

\* The initial states satisfy it, and every step keeps it.
LEMMA Initially == Init => IInv
<1> SUFFICES ASSUME Init PROVE IInv
  OBVIOUS
<1>1. pc = [t \in Task |-> IF t = "prepare" THEN "spawned" ELSE "idle"]
      /\ {"prepare", "complete", "exit"} \subseteq Task /\ Cancels \subseteq Task
      /\ \A c \in Cancels : c \notin {"prepare", "complete", "exit"}
  BY CaptureSessionAssumption DEF Init, Task
<1>2. ValuesOK
  <2>1. cancelled \in [done : BOOLEAN, beforeReady : BOOLEAN, streamed : BOOLEAN]
    BY DEF Init, NotCancelled
  <2>2. row \in [outcome : {"none", "text", "silent", "failed"}, audio : BOOLEAN]
    BY DEF Init, NoRow
  <2>3. opts \in Options
    BY DEF Init
  <2>4. answers \in [RequestKind -> {"none", "ok", "failed"}]
    BY DEF Init
  <2>5. requests \in Seq(RequestKind) /\ said \in Seq({"completed", "failed", "cancelled"})
    BY DEF Init
  <2>6. /\ cancellation \in BOOLEAN /\ requested \in BOOLEAN /\ owns \in BOOLEAN
        /\ exit \in BOOLEAN /\ mic \in BOOLEAN /\ pcm \in BOOLEAN /\ file \in BOOLEAN
        /\ opened \in BOOLEAN /\ sent \in BOOLEAN /\ delivered \in BOOLEAN
    BY DEF Init
  <2>7. /\ phase \in CapturePhase /\ outcome \in {"none", "completed", "failed"}
        /\ realtime \in {"none", "open", "closing", "closed"}
        /\ heard \in {"none", "text", "empty"} /\ service \in {"running", "closing", "closed"}
    BY DEF Init, CapturePhase
  <2> QED BY <2>1, <2>2, <2>3, <2>4, <2>5, <2>6, <2>7 DEF ValuesOK
<1>3. LockInv
  BY <1>1 DEF Init, LockInv, LockType, LockHeld, Resting, Busy
<1>4. OwnerInv
  BY DEF Init, OwnerInv
<1>5. Order
  BY <1>1 DEF Init, Order, Early, Busy, Terminal
<1>6. Ending
  BY <1>1 DEF Init, Ending, Terminal, NotCancelled
<1>7. Reporting
  BY <1>1 DEF Init, Reporting
<1> QED BY <1>2, <1>3, <1>4, <1>5, <1>6, <1>7 DEF IInv

LEMMA Inductive == IInv /\ [Next]_vars => IInv'
<1> SUFFICES ASSUME IInv, [Next]_vars PROVE IInv'
  OBVIOUS
<1>1. CASE UNCHANGED vars
  BY <1>1 DEF vars, session, tasks, speech, sound, owner, results, IInv, ValuesOK, LockInv,
              LockType, LockHeld, OwnerInv, Order, Ending, Reporting
<1>2. CASE Next
  <2>1. ValuesOK' /\ LockInv' /\ OwnerInv'
    BY <1>2, TypesKept, LockKept, OwnerKept DEF IInv
  <2>2. Order' /\ Ending' /\ Reporting'
    BY <1>2, TaskKeepsOrder, TaskKeepsEnding, TaskKeepsReporting, OutsideKeeps, ControllerKeeps
       DEF Next, OutsideStep
  <2> QED BY <2>1, <2>2 DEF IInv
<1> QED BY <1>1, <1>2

\* The parts of the invariant hold together: none is kept by every step on its own.
THEOREM Invariance == Spec => []IInv
BY Initially, Inductive, PTL DEF Spec

\* Type correctness.
THEOREM TypeCorrect == Spec => []TypeOK
<1>1. IInv => TypeOK
  BY DEF IInv, ValuesOK, LockInv, LockType, Resting, Busy, TypeOK
<1> QED BY <1>1, Invariance, PTL

\* When a recording has ended, or its end was reported, the microphone is off, no request is
\* left that would open it and nothing is streamed (CaptureSession awaits whatever it asked for).
THEOREM QuietEnd == Spec => []EndIsQuiet
<1>1. IInv => EndIsQuiet
  BY DEF IInv, OwnerInv, Ending, EndIsQuiet
<1> QED BY <1>1, Invariance, PTL

\* However many tasks end a recording, the controller hears of one end.
THEOREM ReportedOnce == Spec => []OneReport
<1>1. IInv => OneReport
  BY DEF IInv, Reporting, OneReport
<1> QED BY <1>1, Invariance, PTL

\* After the application was left nothing is delivered, recorded in History or reported.
THEOREM NothingAfterExit == Spec => ExitDeliversNothing
<1>1. IInv /\ [Next]_vars => [exit => UNCHANGED <<delivered, row, said>>]_vars
  <2> SUFFICES ASSUME IInv, Next, exit PROVE UNCHANGED <<delivered, row, said>>
    OBVIOUS
  <2>1. ~owns /\ (cancellation \/ pc["complete"] \in {"idle", "done"})
    BY DEF IInv, Reporting
  <2>2. ASSUME NEW t \in Task, TaskStep(t)
        PROVE  UNCHANGED <<delivered, row, said>>
    <3>1. ReportOf(t)
      BY <2>2, TaskEffect DEF IInv, EffectOf
    <3>2. UNCHANGED said
      BY <2>1, <3>1 DEF ReportOf, Reports
    <3>3. UNCHANGED results
      BY <2>1, <3>1 DEF ReportOf, Busy
    <3> QED BY <3>2, <3>3 DEF results
  <2>3. CASE OutsideStep
    BY <2>3, OutsideFrame DEF IInv, results
  <2>4. CASE (\E c \in Cancels : Cancel(c)) \/ Stop \/ Exit
    BY <2>4 DEF Cancel, Stop, Exit, results
  <2> QED BY <2>2, <2>3, <2>4 DEF Next, OutsideStep
<1> QED BY <1>1, Invariance, PTL DEF Spec, ExitDeliversNothing

-----------------------------------------------------------------------------
(* The sound of a recording: what a cancellation says of it is so, and     *)
(* audio, History and the policy agree however it ends.  This rests on the *)
(* order of the owner thread's queue: `start` is asked for once and never  *)
(* behind a `cancel`, and whatever ends a recording waits for both.        *)

\* A request the owner thread has still to serve.
Pending(kind) == \E i \in 1..Len(requests) : requests[i] = kind

\* Where a task is: before the microphone is asked for, between a cancellation and its report,
\* waiting for the owner thread to end, dictating, and past the result.
Fetching  == {"spawned", "waiting", "destination", "provider"}
Cleaning  == {"erase", "reap", "close"}
Closing   == {"close", "failClose", "endClose"}
Dictating == {"stopping", "finishing", "fallback", "transcribing", "appending"}
Resulted  == {"endReap", "endClose"}

-----------------------------------------------------------------------------
(* The invariant                                                            *)

\* The microphone is asked for once, before anything is erased.
StartAlone ==
    \A i, j \in 1..Len(requests) : i < j /\ requests[j] = "start" =>
        requests[i] \notin {"start", "cancel"}

StartInv ==
    /\ StartAlone
    /\ ~requested => ~Pending("start") /\ ~opened /\ ~file /\ answers["start"] = "none"
    /\ answers["start"] # "none" => ~Pending("start")
    /\ pc["prepare"] \in Fetching => ~requested /\ realtime = "none" /\ ~sent
    /\ pc["complete"] # "idle" \/ phase \in {"Recording", "Processing"} => answers["start"] = "ok"
    /\ Pending("stop") \/ answers["stop"] # "none" => answers["start"] # "none"
    /\ answers["stop"] # "none" => ~mic
    /\ pc["complete"] \in Busy \ {"stopping"} => answers["stop"] # "none"

\* The file is there from the first sound on, until it is erased, closed or judged.
FileInv ==
    answers["start"] = "ok" /\ answers["cancel"] = "none" /\ service # "closed"
        /\ outcome = "none" => file

\* Nothing is erased while something may still be written or kept.
Unerased == answers["cancel"] = "none" /\ ~Pending("cancel")
EraseInv ==
    /\ pc["prepare"] \in Early /\ ~cancellation => Unerased
    /\ answers["cancel"] # "none" /\ phase \notin Terminal => ~file /\ ~Pending("start")
    /\ \A t \in Task : pc[t] \in {"reap", "close", "failClose"} => answers["cancel"] # "none"
    /\ service # "running" => phase \in Terminal \/ \E t \in Task : pc[t] \in Closing
    /\ phase \in {"Recording", "Processing"} =>
           \/ \E t \in Task : pc[t] \in Cleaning
           \/ pc["complete"] \in Resulted
           \/ Unerased /\ service = "running"
    /\ outcome # "none" => pc["complete"] \in Resulted \cup {"done"}
    /\ pc["complete"] \in Busy => ~Pending("cancel")

SoundInv == StartInv /\ FileInv /\ EraseInv

\* What History and the policy have of the file, once the result is known.
AudioInv ==
    /\ opts.incognito => row = NoRow
    /\ row.audio => file /\ (pc["complete"] \in Resulted \/ phase \in Terminal)
    /\ phase \in Terminal \/ pc["complete"] \in Resulted => (~Retains(FALSE) => ~file)
    /\ pc["complete"] \in Resulted /\ file =>
           row.audio \/ outcome = "failed" \/ heard = "empty"
    /\ KeptAudioIsNamed

\* What a cancellation remembers, before and after it is told.
CancelInv ==
    /\ phase \in Terminal => ~owns
    /\ \A t \in Task : pc[t] \in Cleaning => ~cancelled.done
    /\ owns /\ sent /\ realtime = "none" =>
           \/ cancelled.streamed \/ pc["prepare"] \in {"failErase", "failClose"}
           \/ pc["complete"] = "endClose"
    /\ said = <<"cancelled">> => cancelled.done
    /\ CancelIsTruthful

AInv == SoundInv /\ AudioInv /\ CancelInv

-----------------------------------------------------------------------------
(* The queue                                                                *)

\* A request is appended for as long as the owner thread takes any.
LEMMA PendingAsks ==
    ASSUME ValuesOK, NEW kind \in RequestKind, Asks(kind)
    PROVE  /\ \A k \in RequestKind : Pending(k)' =>
                  Pending(k) \/ (k = kind /\ service = "running")
           /\ \A k \in RequestKind : k # kind => answers'[k] = answers[k]
           /\ \A k \in RequestKind : answers[k] # "none" => answers'[k] # "none"
           /\ service = "running" => UNCHANGED answers
           /\ service # "running" => answers'[kind] = "failed" /\ UNCHANGED service
           /\ service' # "running" => service # "running" \/ kind = "close"
<1>1. requests \in Seq(RequestKind) /\ answers \in [RequestKind -> {"none", "ok", "failed"}]
  BY DEF ValuesOK
<1>2. CASE service = "running"
  <2>1. requests' = Append(requests, kind) /\ UNCHANGED answers
        /\ service' = IF kind = "close" THEN "closing" ELSE service
    BY <1>2 DEF Asks
  <2>2. ASSUME NEW k \in RequestKind, Pending(k)'
        PROVE  Pending(k) \/ k = kind
    <3>1. PICK i \in 1..Len(requests') : requests'[i] = k
      BY <2>2 DEF Pending
    <3>2. i = Len(requests) + 1 \/ (i \in 1..Len(requests) /\ requests[i] = k)
      BY <1>1, <2>1, <3>1
    <3>3. i = Len(requests) + 1 => k = kind
      BY <1>1, <2>1, <3>1
    <3> QED BY <3>2, <3>3 DEF Pending
  <2> QED BY <1>2, <2>1, <2>2
<1>3. CASE service # "running"
  <2>1. answers' = [answers EXCEPT ![kind] = "failed"] /\ UNCHANGED <<requests, service>>
    BY <1>3 DEF Asks
  <2>2. \A k \in RequestKind : Pending(k)' => Pending(k)
    BY <2>1 DEF Pending
  <2> QED BY <1>1, <1>3, <2>1, <2>2
<1> QED BY <1>2, <1>3

\* `start` is appended alone, and anything else behind it.
LEMMA AsksKeepsAlone ==
    ASSUME ValuesOK, StartAlone, NEW kind \in RequestKind, Asks(kind),
           kind = "start" => ~Pending("start") /\ ~Pending("cancel")
    PROVE  StartAlone'
<1>1. requests \in Seq(RequestKind)
  BY DEF ValuesOK
<1>2. CASE requests' = Append(requests, kind)
  <2> SUFFICES ASSUME NEW i \in 1..Len(requests'), NEW j \in 1..Len(requests'),
                      i < j, requests'[j] = "start"
               PROVE  requests'[i] \notin {"start", "cancel"}
    BY DEF StartAlone
  <2>1. i \in 1..Len(requests) /\ requests'[i] = requests[i]
    BY <1>1, <1>2
  <2>2. CASE j \in 1..Len(requests)
    <3>1. requests[j] = "start"
      BY <1>1, <1>2, <2>2
    <3> QED BY <2>1, <2>2, <3>1 DEF StartAlone
  <2>3. CASE j = Len(requests) + 1
    <3>1. kind = "start"
      BY <1>1, <1>2, <2>3
    <3> QED BY <2>1, <3>1 DEF Pending
  <2> QED BY <1>1, <1>2, <2>2, <2>3
<1>3. CASE UNCHANGED requests
  BY <1>3 DEF StartAlone
<1> QED BY <1>2, <1>3 DEF Asks

\* What is served was pending, and nothing comes up that was not.
LEMMA PendingServes ==
    ASSUME ValuesOK, StartAlone, NEW kind \in RequestKind, Serve(kind)
    PROVE  /\ Pending(kind)
           /\ \A k \in RequestKind : Pending(k)' => Pending(k)
           /\ kind \in {"start", "cancel"} => ~Pending("start")'
           /\ StartAlone'
<1>1. requests \in Seq(RequestKind) /\ requests # <<>> /\ requests' = Tail(requests)
      /\ requests[1] = kind
  BY DEF ValuesOK, Serve
<1>2. Len(requests') = Len(requests) - 1 /\ Len(requests) \in Nat \ {0}
      /\ \A i \in 1..Len(requests') : i + 1 \in 2..Len(requests) /\ requests'[i] = requests[i + 1]
  BY <1>1
<1>3. Pending(kind)
  BY <1>1, <1>2 DEF Pending
<1>4. \A k \in RequestKind : Pending(k)' => Pending(k)
  BY <1>2 DEF Pending
<1>5. kind \in {"start", "cancel"} => ~Pending("start")'
  <2> SUFFICES ASSUME kind \in {"start", "cancel"}, NEW i \in 1..Len(requests'),
                      requests'[i] = "start"
               PROVE  FALSE
    BY DEF Pending
  <2> QED BY <1>1, <1>2 DEF StartAlone
<1>6. StartAlone'
  <2> SUFFICES ASSUME NEW i \in 1..Len(requests'), NEW j \in 1..Len(requests'),
                      i < j, requests'[j] = "start"
               PROVE  requests'[i] \notin {"start", "cancel"}
    BY DEF StartAlone
  <2>1. i + 1 \in 1..Len(requests) /\ j + 1 \in 1..Len(requests) /\ i + 1 < j + 1
        /\ requests[j + 1] = "start" /\ requests'[i] = requests[i + 1]
    BY <1>2
  <2> QED BY <2>1 DEF StartAlone
<1> QED BY <1>3, <1>4, <1>5, <1>6

-----------------------------------------------------------------------------
(* What a step of a task does to the sound                                  *)

\* What it asks the owner thread, and where it goes to await the answer.
AsksFor(t) ==
    \/ UNCHANGED <<owner, requested>>
    \/ Asks("destination") /\ UNCHANGED requested
    \/ /\ Asks("start") /\ requested'
       /\ t = "prepare" /\ pc[t] \in {"destination", "provider"} /\ ~cancellation
    \/ /\ Asks("stop") /\ UNCHANGED requested
       /\ t = "complete" /\ pc[t] \in {"spawned", "waiting"} /\ phase = "Processing"
    \/ /\ Asks("cancel") /\ UNCHANGED requested
       /\ t # "complete" /\ pc[t] \notin Closing
       /\ pc'[t] = "erase" \/ (t = "prepare" /\ pc'[t] = "failErase")
    \/ /\ Asks("close") /\ UNCHANGED requested
       /\ \/ pc'[t] = "close"
          \/ t = "prepare" /\ pc'[t] = "failClose"
          \/ t = "complete" /\ pc'[t] = "endClose"

\* Where it goes: recording begins with a sound, a dictation ends with an answered `stop`, and
\* nothing leaves a cancellation or a result but the end.
WayOf(t) ==
    /\ t = "prepare" /\ pc'[t] \in Fetching =>
           pc[t] \in Fetching /\ UNCHANGED <<realtime, requested>>
    /\ phase' = "Recording" => \/ phase = "Recording"
                               \/ /\ t = "prepare" /\ pc[t] = "microphone" /\ ~cancellation
                                  /\ answers["start"] = "ok"
    /\ t = "complete" /\ pc'[t] \in Busy \ {"stopping"} =>
           answers["stop"] # "none" \/ pc[t] \in Busy \ {"stopping"}
    /\ pc'[t] \in {"reap", "close", "failClose"} => answers["cancel"] # "none" \/ pc[t] = "reap"
    /\ pc[t] \in Closing => phase' \in Terminal
    /\ pc[t] \in Cleaning => pc'[t] \in Cleaning \/ phase' \in Terminal
    /\ pc[t] \in Resulted => pc'[t] \in Resulted \/ phase' \in Terminal

\* What a decision leaves of the file, and what the row says of it.
Decided ==
    /\ opts.incognito => UNCHANGED row
    /\ file /\ row'.audio => file' \/ row.audio
    /\ file' => Retains(FALSE)
    /\ file' => row'.audio \/ outcome' = "failed" \/ heard' = "empty"

\* What becomes of the file, the row and the words: a dictation that ends decides all three.
ResultOf(t) ==
    /\ UNCHANGED <<opts, mic, pcm, opened, sent>> /\ (file' => file)
    /\ \/ /\ UNCHANGED <<row, file, outcome>>
          /\ t = "complete" /\ pc'[t] \in Resulted => pc[t] \in Resulted
       \/ /\ t = "complete" /\ pc[t] \in Dictating /\ pc'[t] \in Resulted
          /\ outcome' # "none" /\ Decided
    /\ UNCHANGED heard \/ (t = "complete" /\ pc[t] \in Dictating)

\* What it tells, and what a cancellation remembers.
TellsOf(t) ==
    /\ owns' => owns
    /\ phase' \in Terminal => phase \in Terminal \/ ~owns'
    /\ pc'[t] \in Cleaning => ~cancelled.done \/ pc[t] \in Cleaning
    /\ \/ UNCHANGED cancelled
       \/ pc[t] = "reap" /\ cancelled' = [cancelled EXCEPT !.streamed = sent]
       \/ /\ pc[t] = "close" /\ pc'[t] = "done" /\ phase' \in Terminal
          /\ cancelled' = [cancelled EXCEPT !.done = TRUE, !.beforeReady = ~requested]
    /\ realtime' = "none" => \/ realtime = "none"
                             \/ pc[t] = "reap" /\ cancelled' = [cancelled EXCEPT !.streamed = sent]
                             \/ t = "prepare" /\ pc'[t] = "failErase"
                             \/ t = "prepare" /\ pc[t] = "provider"
                             \/ t = "complete" /\ pc'[t] = "endClose"
    /\ t = "prepare" /\ pc[t] \in {"failErase", "failClose"} => pc'[t] = "failClose" \/ ~owns'
    /\ pc[t] = "endClose" => Reports(outcome)
    /\ \/ UNCHANGED said
       \/ Reports("failed")
       \/ Reports(outcome) /\ pc[t] = "endClose"
       \/ Reports("cancelled") /\ (cancelled.done \/ (pc[t] = "close" /\ cancelled'.done))

SoundOf(t) == AsksFor(t) /\ WayOf(t) /\ ResultOf(t) /\ TellsOf(t)

LEMMA PrepareSound ==
    ASSUME LockInv, ValuesOK, PrepareStep
    PROVE  SoundOf("prepare")
<1> "prepare" \in Task /\ pc \in [Task -> Resting \cup Busy]
  BY DEF Task, LockInv, LockType
<1> USE DEF SoundOf, AsksFor, WayOf, ResultOf, TellsOf, Fetching, Cleaning, Closing, Dictating,
            Resulted, Busy, Terminal, Awaits, At, Enters, session, speech, sound, owner, results
<1>1. CASE PrepareCancelled
  BY <1>1 DEF PrepareCancelled, CancelLocked, Answered, Leaves, Ended, Reports
<1>2. CASE Prepare
  BY <1>2 DEF Prepare
<1>3. CASE OpenProvider
  BY <1>3 DEF OpenProvider
<1>4. CASE StartMicrophone
  BY <1>4 DEF StartMicrophone
<1>5. CASE Started
  BY <1>5 DEF Started, Leaves
<1>6. CASE PrepareFails
  BY <1>6 DEF PrepareFails
<1>7. CASE FailReaped
  BY <1>7 DEF FailReaped
<1>8. CASE FailErased
  BY <1>8 DEF FailErased, Answered
<1>9. CASE FailClosed
  BY <1>9 DEF FailClosed, Leaves, Reports
<1> QED BY <1>1, <1>2, <1>3, <1>4, <1>5, <1>6, <1>7, <1>8, <1>9 DEF PrepareStep

\* The four ways a dictation is decided; `keep` is what its policy keeps of the file.
LEMMA DecidedSound ==
    ASSUME ValuesOK, Breaks \/ RecordFailure \/ Deliver \/ (Silence /\ heard' = "empty")
    PROVE  /\ Decided /\ (file' => file)
           /\ \E end \in {"completed", "failed"} : Ends(end)
<1> USE DEF Decided
<1>1. CASE Breaks
  BY <1>1 DEF Breaks, Ends, results
<1>2. CASE RecordFailure
  <2>1. PICK saved \in Saves :
            row' = IF ~opts.incognito /\ saved
                   THEN [outcome |-> "failed", audio |-> file'] ELSE row
    BY <1>2 DEF RecordFailure
  <2>2. file' = (file /\ Retains(FALSE)) /\ Ends("failed") /\ outcome' = "failed"
    BY <1>2 DEF RecordFailure, Ends
  <2>3. row' = row \/ (~opts.incognito /\ row'.audio = file')
    BY <2>1
  <2> QED BY <2>2, <2>3
<1>3. CASE Deliver
  <2>1. PICK saved \in Saves :
            /\ row' = IF ~opts.incognito /\ saved
                      THEN [outcome |-> "text", audio |-> Retains(TRUE)] ELSE row
            /\ file' = (file /\ Retains(TRUE) /\ saved)
    BY <1>3 DEF Deliver
  <2>2. Retains(TRUE) => Retains(FALSE) /\ ~opts.incognito
    BY DEF Retains
  <2>3. CASE ~opts.incognito /\ saved
    BY <1>3, <2>1, <2>2, <2>3 DEF Deliver
  <2>4. CASE opts.incognito \/ ~saved
    BY <1>3, <2>1, <2>2, <2>4 DEF Deliver
  <2> QED BY <2>3, <2>4
<1>4. CASE Silence /\ heard' = "empty"
  <2> DEFINE keepRow == opts.kind = "draft" /\ Retains(FALSE)
             retain  == Retains(opts.kind # "draft")
  <2>1. PICK saved \in Saves :
            /\ row' = IF keepRow /\ saved
                      THEN [outcome |-> "silent", audio |-> retain] ELSE row
            /\ file' = (file /\ retain /\ (keepRow => saved))
    BY <1>4 DEF Silence
  <2>2. (retain => Retains(FALSE)) /\ (keepRow => ~opts.incognito) /\ retain \in BOOLEAN
    BY DEF Retains
  <2> HIDE DEF keepRow, retain
  <2>3. CASE keepRow /\ saved
    BY <1>4, <2>1, <2>2, <2>3 DEF Silence
  <2>4. CASE ~(keepRow /\ saved)
    BY <1>4, <2>1, <2>2, <2>4 DEF Silence
  <2> QED BY <2>3, <2>4
<1> QED BY <1>1, <1>2, <1>3, <1>4

\* A step that decides: everything else stands.
LEMMA DecidingSound ==
    ASSUME LockInv, ValuesOK, pc["complete"] \in Dictating, UNCHANGED CompleteKeeps,
           Breaks \/ RecordFailure \/ Deliver \/ (Silence /\ heard' = "empty"),
           answers["stop"] # "none" \/ pc["complete"] # "stopping"
    PROVE  SoundOf("complete")
<1> "complete" \in Task /\ pc \in [Task -> Resting \cup Busy]
  BY DEF Task, LockInv, LockType
<1>1. Decided /\ (file' => file)
  BY DecidedSound
<1>2. PICK end \in {"completed", "failed"} : Ends(end)
  BY DecidedSound
<1>3. /\ outcome' = end /\ pc'["complete"] \in Resulted
      /\ \/ pc'["complete"] = "endReap" /\ UNCHANGED owner /\ realtime # "none"
            /\ realtime' # "none"
         \/ pc'["complete"] = "endClose" /\ Asks("close") /\ UNCHANGED realtime
  BY <1>2 DEF Ends, Awaits, Resulted, Ended
<1>4. UNCHANGED <<opts, phase, cancellation, requested, cancelled, owns, sound, said, exit>>
  BY DEF CompleteKeeps
<1>5. AsksFor("complete")
  BY <1>3, <1>4 DEF AsksFor
<1>6. WayOf("complete")
  BY <1>3, <1>4 DEF WayOf, Resulted, Dictating, Fetching, Busy, Closing, Cleaning
<1>7. ResultOf("complete")
  BY <1>1, <1>3, <1>4 DEF ResultOf, sound
<1>8. TellsOf("complete")
  BY <1>3, <1>4 DEF TellsOf, Resulted, Dictating, Cleaning
<1> QED BY <1>5, <1>6, <1>7, <1>8 DEF SoundOf

LEMMA CompleteSound ==
    ASSUME LockInv, ValuesOK, CompleteStep
    PROVE  SoundOf("complete")
<1> "complete" \in Task /\ pc \in [Task -> Resting \cup Busy]
  BY DEF Task, LockInv, LockType
<1>a. ASSUME pc["complete"] \in {"transcribing", "appending", "finishing"},
             UNCHANGED CompleteKeeps,
             NEW text \in {"text", "empty"}, Recognized(text)
      PROVE  SoundOf("complete")
  <2>1. CASE (text = "empty" /\ Silence) \/ DeliverOrFail
    BY <1>a, <2>1, DecidingSound DEF Recognized, DeliverOrFail, Dictating
  <2>2. CASE /\ Awaits("complete", "appending")
             /\ UNCHANGED <<outcome, realtime, owner, file, results>>
    <3>1. pc'["complete"] = "appending"
      BY <2>2 DEF Awaits
    <3>2. UNCHANGED <<opts, phase, cancellation, requested, cancelled, owns, sound, said, exit>>
      BY <1>a DEF CompleteKeeps
    <3> QED BY <1>a, <2>2, <3>1, <3>2
            DEF SoundOf, AsksFor, WayOf, ResultOf, TellsOf, Fetching, Cleaning, Closing,
                Dictating, Resulted, Busy, sound, results
  <2> QED BY <1>a, <2>1, <2>2 DEF Recognized
<1> USE DEF At, Enters
<1>1. CASE StopFailed
  BY <1>1, DecidingSound DEF StopFailed, Dictating
<1>2. CASE Finished
  BY <1>2, <1>a, DecidingSound DEF Finished, Dictating
<1>3. CASE Transcribed
  BY <1>3, <1>a, DecidingSound DEF Transcribed, Dictating
<1>4. CASE Appended
  BY <1>4, DecidingSound DEF Appended, Dictating, DeliverOrFail
<1>5. CASE CompleteClosing
  BY <1>5, DecidingSound DEF CompleteClosing, Dictating
<1> USE DEF SoundOf, AsksFor, WayOf, ResultOf, TellsOf, Fetching, Cleaning, Closing, Dictating,
            Resulted, Busy, Terminal, Awaits, session, speech, sound, owner, results
<1>6. CASE Complete
  BY <1>6 DEF Complete
<1>7. CASE CompleteRefused
  BY <1>7 DEF CompleteRefused, Leaves, Reports
<1>8. CASE Stopped
  BY <1>8 DEF Stopped
<1>9. CASE FinishFailed
  BY <1>9 DEF FinishFailed
<1>10. CASE FallsBack
  BY <1>10 DEF FallsBack
<1>11. CASE EndReaped
  BY <1>11 DEF EndReaped
<1>12. CASE EndClosed
  <2>1. pc["complete"] = "endClose" /\ pc'["complete"] = "done" /\ Reports(outcome)
        /\ phase' \in Terminal
        /\ UNCHANGED <<opts, cancellation, requested, cancelled, outcome, speech, owner, sound,
                       file, results, exit>>
    BY <1>12 DEF EndClosed, Leaves
  <2> QED BY <2>1 DEF Reports
<1> QED BY <1>1, <1>2, <1>3, <1>4, <1>5, <1>6, <1>7, <1>8, <1>9, <1>10, <1>11, <1>12
        DEF CompleteStep

LEMMA TaskSound ==
    ASSUME LockInv, ValuesOK, NEW t \in Task, TaskStep(t)
    PROVE  SoundOf(t)
<1> pc \in [Task -> Resting \cup Busy]
  BY DEF LockInv, LockType
<1> USE DEF SoundOf, AsksFor, WayOf, ResultOf, TellsOf, Fetching, Cleaning, Closing, Dictating,
            Resulted, Busy, Terminal, Awaits, At, Enters, session, speech, sound, owner, results
<1>1. CASE Queue(t)
  BY <1>1 DEF Queue
<1>2. CASE Erased(t)
  BY <1>2 DEF Erased, Answered
<1>3. CASE Reaped(t)
  BY <1>3 DEF Reaped
<1>4. CASE Closed(t)
  <2>1. /\ pc[t] = "close" /\ service = "closed" /\ phase' = "Cancelled" /\ pc'[t] = "done"
        /\ cancelled' = [cancelled EXCEPT !.done = TRUE, !.beforeReady = ~requested]
        /\ Reports("cancelled")
        /\ UNCHANGED <<opts, cancellation, requested, outcome, speech, owner, sound, file,
                       results, exit>>
    BY <1>4 DEF Closed, Leaves
  <2>2. cancelled'.done
    BY <2>1 DEF ValuesOK
  <2> QED BY <2>1, <2>2 DEF Reports
<1>5. CASE t = "exit" /\ ExitTask
  BY <1>5 DEF ExitTask, CancelLocked, Leaves, Ended, Reports
<1>6. CASE t \in Cancels /\ CancelTask(t)
  <2>1. t \notin {"prepare", "complete"}
    BY <1>6, CaptureSessionAssumption
  <2>2. Enters(t) /\ CancelLocked(t)
        /\ UNCHANGED <<opts, phase, cancellation, requested, cancelled, outcome, sound, file,
                       results, exit>>
    BY <1>6 DEF CancelTask
  <2>3. CASE cancelled.done
    <3>1. pc'[t] = "done" /\ Reports("cancelled") /\ UNCHANGED <<owner, speech>>
      BY <2>2, <2>3 DEF CancelLocked, Leaves
    <3>2. pc[t] \in {"spawned", "waiting"}
      BY <2>2
    <3> QED BY <2>1, <2>2, <2>3, <3>1, <3>2 DEF Reports
  <2>4. CASE ~cancelled.done
    <3>1. /\ pc'[t] = "erase" /\ Asks("cancel") /\ realtime' = Ended(realtime)
          /\ UNCHANGED <<owns, said, heard>>
      BY <2>2, <2>4 DEF CancelLocked
    <3>2. pc[t] \in {"spawned", "waiting"}
      BY <2>2
    <3> QED BY <2>1, <2>2, <2>4, <3>1, <3>2 DEF Ended
  <2> QED BY <2>3, <2>4
<1>7. CASE t \in Cancels /\ CancelTooLate(t)
  <2>1. t \notin {"prepare", "complete"}
    BY <1>7, CaptureSessionAssumption
  <2> QED BY <1>7, <2>1 DEF CancelTooLate
<1> HIDE DEF SoundOf
<1> QED BY <1>1, <1>2, <1>3, <1>4, <1>5, <1>6, <1>7, PrepareSound, CompleteSound DEF TaskStep

-----------------------------------------------------------------------------
(* Steps of tasks keep the invariant                                        *)

\* Nobody else is at one of the awaits inside the session.
Alone(t) == \A u \in Task : pc[u] \in Busy => u = t

\* Whoever changes anything but the line at the lock is alone.
LEMMA TaskAlone ==
    ASSUME LockInv, NEW t \in Task, TaskStep(t)
    PROVE  Alone(t) \/ UNCHANGED <<session, speech, owner, sound, file, results, said, exit>>
<1>1. CASE Moves(t)
  BY <1>1, Exclusive DEF Alone
<1>2. CASE Queue(t)
  BY <1>2 DEF Queue
<1>3. CASE CancelTooLate(t)
  BY <1>3 DEF CancelTooLate
<1>4. CASE ExitTask /\ t = "exit"
  BY <1>1, <1>4 DEF ExitTask, Moves
<1>5. CASE CancelTask(t)
  BY <1>1, <1>5 DEF CancelTask, Moves
<1>6. CASE Erased(t) \/ Reaped(t) \/ Closed(t)
  BY <1>1, <1>6, AtMoves DEF Erased, Reaped, Closed, Busy
<1>7. CASE PrepareStep /\ t = "prepare"
  BY <1>1, <1>7, AtMoves
     DEF PrepareStep, PrepareCancelled, Prepare, OpenProvider, StartMicrophone, Started,
         PrepareFails, FailReaped, FailErased, FailClosed, Busy, Moves
<1>8. CASE CompleteStep /\ t = "complete"
  BY <1>1, <1>8, AtMoves
     DEF CompleteStep, Complete, CompleteRefused, StopFailed, Stopped, Finished, FinishFailed,
         FallsBack, Transcribed, Appended, CompleteClosing, EndReaped, EndClosed, Busy, Moves
<1> QED BY <1>2, <1>3, <1>4, <1>5, <1>6, <1>7, <1>8 DEF TaskStep

\* What the proofs below need of where the tasks are.
LEMMA TaskMoves ==
    ASSUME IInv, NEW t \in Task, TaskStep(t)
    PROVE  /\ \A u \in Task : u # t => pc'[u] = pc[u]
           /\ pc[t] \notin {"idle", "done"} /\ pc'[t] \in Busy \cup {"done", "waiting"}
           /\ UNCHANGED <<cancellation, exit>>
           /\ phase \in Terminal => phase' \in Terminal
           /\ phase' \in {"Recording", "Processing"} => phase' = phase \/ phase' = "Recording"
           /\ t \notin {"prepare", "complete"} => cancellation
           /\ {"prepare", "complete"} \subseteq Task
<1>1. PlaceOf(t) /\ PhaseOf(t) /\ ShapeOf(t)
  BY TaskEffect, TaskShape DEF IInv, EffectOf
<1>2. Order /\ LockInv
  BY DEF IInv
<1>3. /\ \A u \in Task : u # t => pc'[u] = pc[u]
      /\ pc'[t] \in Busy \cup {"done", "waiting"}
  BY <1>1, <1>2, TaskPlace
<1>4. pc[t] \notin {"idle", "done"} /\ UNCHANGED <<cancellation, exit>>
  BY <1>1 DEF PlaceOf, PhaseOf
<1>5. phase \in Terminal => phase' \in Terminal
  BY <1>1, <1>2 DEF PhaseOf, Order, Early, Terminal
<1>6. phase' \in {"Recording", "Processing"} => phase' = phase \/ phase' = "Recording"
  BY <1>1 DEF PhaseOf, Terminal
<1>7. t \notin {"prepare", "complete"} => cancellation
  BY <1>2, <1>4 DEF Order, Task
<1> QED BY <1>3, <1>4, <1>5, <1>6, <1>7 DEF Task

LEMMA TaskKeepsStart ==
    ASSUME IInv, SoundInv, NEW t \in Task, TaskStep(t)
    PROVE  StartInv'
<1>1. AsksFor(t) /\ WayOf(t) /\ ResultOf(t)
  BY TaskSound DEF IInv, SoundOf
<1>2. /\ \A u \in Task : u # t => pc'[u] = pc[u]
      /\ pc[t] \notin {"idle", "done"} /\ pc'[t] \in Busy \cup {"done", "waiting"}
      /\ UNCHANGED <<cancellation, exit>>
      /\ phase' \in {"Recording", "Processing"} => phase' = phase \/ phase' = "Recording"
      /\ {"prepare", "complete"} \subseteq Task
  BY TaskMoves
<1>3. ValuesOK /\ Order /\ StartInv /\ EraseInv
  BY DEF IInv, SoundInv
<1>4. Alone(t) \/ UNCHANGED <<owner, requested>>
  BY TaskAlone DEF IInv, session, owner
<1>5. ASSUME Asks("start"), t = "prepare", pc[t] \in {"destination", "provider"}, ~cancellation
      PROVE  /\ service = "running" /\ Unerased /\ ~requested /\ answers["start"] = "none"
             /\ ~Pending("start")
  BY <1>2, <1>3, <1>5 DEF Order, StartInv, EraseInv, Early, Fetching
<1>6. ASSUME Asks("stop"), t = "complete", pc[t] \in {"spawned", "waiting"},
             phase = "Processing", Alone(t)
      PROVE  service = "running"
  BY <1>2, <1>3, <1>6 DEF EraseInv, Alone, Cleaning, Resulted, Busy
<1>7. StartAlone'
  <2>1. CASE UNCHANGED owner
    BY <1>3, <2>1 DEF owner, StartInv, StartAlone
  <2>2. ASSUME NEW kind \in RequestKind, Asks(kind), kind # "start"
        PROVE  StartAlone'
    BY <1>3, <2>2, AsksKeepsAlone DEF StartInv
  <2>3. CASE Asks("start") /\ t = "prepare" /\ pc[t] \in {"destination", "provider"}
             /\ ~cancellation
    BY <1>3, <1>5, <2>3, AsksKeepsAlone DEF StartInv, Unerased, RequestKind
  <2> QED BY <1>1, <2>1, <2>2, <2>3 DEF AsksFor, RequestKind
\* The owner's answers that a step may change, and the requests it may add.
<1>8. /\ Pending("start")' => Pending("start") \/ (requested' /\ answers["start"] = "none")
      /\ UNCHANGED <<answers["start"], answers["stop"]>>
      /\ requested => requested'
      /\ Pending("stop")' => Pending("stop") \/ answers["start"] = "ok"
  <2>1. CASE UNCHANGED <<owner, requested>>
    BY <2>1 DEF owner, Pending
  <2>2. ASSUME NEW kind \in {"destination", "cancel", "close"}, Asks(kind), UNCHANGED requested
        PROVE  <1>8!1 /\ <1>8!2 /\ <1>8!3 /\ <1>8!4
    BY <1>3, <2>2, PendingAsks DEF RequestKind
  <2>3. CASE Asks("start") /\ requested' /\ t = "prepare"
             /\ pc[t] \in {"destination", "provider"} /\ ~cancellation
    BY <1>3, <1>5, <2>3, PendingAsks DEF RequestKind
  <2>4. CASE Asks("stop") /\ UNCHANGED requested /\ t = "complete"
             /\ pc[t] \in {"spawned", "waiting"} /\ phase = "Processing"
    <3>1. CASE Alone(t)
      <4>1. answers["start"] = "ok"
        BY <1>3, <2>4 DEF StartInv
      <4> QED BY <1>3, <1>6, <2>4, <3>1, <4>1, PendingAsks DEF RequestKind
    <3>2. CASE UNCHANGED <<owner, requested>>
      BY <2>1, <3>2
    <3> QED BY <1>4, <3>1, <3>2
  <2> QED BY <1>1, <2>1, <2>2, <2>3, <2>4 DEF AsksFor
<1>9. ~requested' => ~Pending("start")' /\ ~opened' /\ ~file' /\ answers'["start"] = "none"
  <2> SUFFICES ASSUME ~requested'
               PROVE  ~Pending("start")' /\ ~opened' /\ ~file' /\ answers'["start"] = "none"
    OBVIOUS
  <2>1. ~requested /\ ~Pending("start")'
    BY <1>3, <1>8 DEF StartInv
  <2>2. ~opened /\ ~file /\ answers["start"] = "none"
    BY <1>3, <2>1 DEF StartInv
  <2>3. UNCHANGED opened
    BY <1>1 DEF ResultOf
  <2>4. file' => file
    BY <1>1 DEF ResultOf
  <2> QED BY <1>8, <2>1, <2>2, <2>3, <2>4
<1>10. answers'["start"] # "none" => ~Pending("start")'
  BY <1>3, <1>8 DEF StartInv
<1>11. pc'["prepare"] \in Fetching => ~requested' /\ realtime' = "none" /\ ~sent'
  <2> SUFFICES ASSUME pc'["prepare"] \in Fetching
               PROVE  ~requested' /\ realtime' = "none" /\ ~sent'
    OBVIOUS
  <2>1. CASE t = "prepare"
    BY <1>1, <1>3, <2>1 DEF WayOf, ResultOf, StartInv
  <2>2. CASE t # "prepare"
    <3>1. ~requested /\ realtime = "none" /\ ~sent /\ pc["complete"] = "idle"
      BY <1>2, <1>3, <2>2 DEF StartInv, Order, Fetching
    <3>2. SpeechOf(t)
      BY TaskEffect DEF IInv, EffectOf
    <3>3. UNCHANGED requested /\ UNCHANGED realtime /\ UNCHANGED sent
      BY <1>1, <1>2, <2>2, <3>1, <3>2 DEF AsksFor, SpeechOf, ResultOf
    <3> QED BY <3>1, <3>3
  <2> QED BY <2>1, <2>2
<1>12. pc'["complete"] # "idle" \/ phase' \in {"Recording", "Processing"} =>
           answers'["start"] = "ok"
  BY <1>1, <1>2, <1>3, <1>8 DEF StartInv, WayOf
<1>13. /\ Pending("stop")' \/ answers'["stop"] # "none" => answers'["start"] # "none"
       /\ answers'["stop"] # "none" => ~mic'
  BY <1>1, <1>3, <1>8 DEF StartInv, ResultOf
<1>14. pc'["complete"] \in Busy \ {"stopping"} => answers'["stop"] # "none"
  BY <1>1, <1>2, <1>3, <1>8 DEF StartInv, WayOf
<1> QED BY <1>7, <1>9, <1>10, <1>11, <1>12, <1>13, <1>14 DEF StartInv

\* What becomes of the requests that write and erase, and of the owner thread.
Stands == (Pending("start")' => Pending("start")) /\ (Pending("cancel")' => Pending("cancel"))
AnswersOf(t) ==
    \/ Stands /\ UNCHANGED <<answers["cancel"], service>>
    \/ /\ t = "prepare" /\ pc[t] \in {"destination", "provider"} /\ ~cancellation
       /\ Pending("cancel")' => Pending("cancel")
       /\ UNCHANGED <<answers["cancel"], service>>
    \/ /\ Alone(t) /\ t # "complete" /\ pc[t] \notin Closing
       /\ pc'[t] = "erase" \/ (t = "prepare" /\ pc'[t] = "failErase")
       /\ Pending("start")' => Pending("start")
       /\ UNCHANGED service
       /\ \/ service = "running" /\ UNCHANGED answers["cancel"]
          \/ service # "running" /\ Stands
       /\ answers["cancel"] # "none" => answers'["cancel"] # "none"
    \/ /\ Alone(t) /\ Stands /\ UNCHANGED answers["cancel"]
       /\ service = "closed" => service' = "closed"
       /\ \/ pc'[t] = "close"
          \/ t = "prepare" /\ pc'[t] = "failClose"
          \/ t = "complete" /\ pc'[t] = "endClose"

LEMMA TaskAnswers ==
    ASSUME IInv, SoundInv, NEW t \in Task, TaskStep(t)
    PROVE  AnswersOf(t)
<1>1. AsksFor(t)
  BY TaskSound DEF IInv, SoundOf
<1>2. ValuesOK /\ Order
  BY DEF IInv
<1>3. Alone(t) \/ UNCHANGED <<owner, requested>>
  BY TaskAlone DEF IInv, session, owner
<1>4. CASE UNCHANGED owner
  BY <1>4 DEF owner, Pending, AnswersOf, Stands
<1>5. ASSUME NEW kind \in {"destination", "stop"}, Asks(kind)
      PROVE  AnswersOf(t)
  BY <1>2, <1>5, PendingAsks DEF RequestKind, AnswersOf, Stands, Asks
<1>6. CASE Asks("start") /\ t = "prepare" /\ pc[t] \in {"destination", "provider"}
           /\ ~cancellation
  BY <1>2, <1>6, PendingAsks DEF RequestKind, AnswersOf, Asks
<1>7. CASE /\ Asks("cancel") /\ t # "complete" /\ pc[t] \notin Closing
           /\ pc'[t] = "erase" \/ (t = "prepare" /\ pc'[t] = "failErase")
  <2>1. UNCHANGED service /\ (Pending("start")' => Pending("start"))
        /\ (answers["cancel"] # "none" => answers'["cancel"] # "none")
    BY <1>2, <1>7, PendingAsks DEF RequestKind, Asks
  <2>2. \/ service = "running" /\ UNCHANGED answers["cancel"]
        \/ service # "running" /\ Stands
    BY <1>2, <1>7, PendingAsks DEF RequestKind, Asks, Stands
  <2> QED BY <1>3, <1>4, <1>7, <2>1, <2>2 DEF AnswersOf
<1>8. CASE /\ Asks("close")
           /\ \/ pc'[t] = "close"
              \/ t = "prepare" /\ pc'[t] = "failClose"
              \/ t = "complete" /\ pc'[t] = "endClose"
  <2>1. Stands /\ UNCHANGED answers["cancel"] /\ (service = "closed" => service' = "closed")
    BY <1>2, <1>8, PendingAsks DEF RequestKind, Stands
  <2> QED BY <1>3, <1>4, <1>8, <2>1 DEF AnswersOf
<1> QED BY <1>1, <1>4, <1>5, <1>6, <1>7, <1>8 DEF AsksFor

LEMMA TaskKeepsFile ==
    ASSUME IInv, SoundInv, NEW t \in Task, TaskStep(t)
    PROVE  FileInv'
<1>1. AsksFor(t) /\ ResultOf(t) /\ AnswersOf(t)
  BY TaskSound, TaskAnswers DEF IInv, SoundOf
<1>2. ValuesOK /\ FileInv /\ StartInv /\ Order
  BY DEF IInv, SoundInv
<1> SUFFICES ASSUME answers'["start"] = "ok", answers'["cancel"] = "none",
                    service' # "closed", outcome' = "none"
             PROVE  file'
  BY DEF FileInv
<1>3. answers["start"] = "ok"
  BY <1>1, <1>2, PendingAsks DEF AsksFor, owner, RequestKind, Asks, ValuesOK
<1>4. answers["cancel"] = "none"
  BY <1>1 DEF AnswersOf
<1>a. service # "closed"
  BY <1>1 DEF AnswersOf
<1>5. UNCHANGED <<file, outcome>>
  BY <1>1 DEF ResultOf
<1> QED BY <1>2, <1>3, <1>4, <1>a, <1>5 DEF FileInv

LEMMA TaskKeepsErase ==
    ASSUME IInv, SoundInv, NEW t \in Task, TaskStep(t)
    PROVE  EraseInv'
<1>1. AnswersOf(t) /\ WayOf(t) /\ ResultOf(t)
  BY TaskSound, TaskAnswers DEF IInv, SoundOf
<1>2. /\ \A u \in Task : u # t => pc'[u] = pc[u]
      /\ pc[t] \notin {"idle", "done"} /\ pc'[t] \in Busy \cup {"done", "waiting"}
      /\ UNCHANGED <<cancellation, exit>>
      /\ phase \in Terminal => phase' \in Terminal
      /\ phase' \in {"Recording", "Processing"} => phase' = phase \/ phase' = "Recording"
      /\ t \notin {"prepare", "complete"} => cancellation
      /\ {"prepare", "complete"} \subseteq Task
  BY TaskMoves
<1>3. ValuesOK /\ Order /\ StartInv /\ EraseInv
  BY DEF IInv, SoundInv
<1>4. Alone(t) \/ UNCHANGED <<phase, outcome, owner>>
  BY TaskAlone DEF IInv, session, owner
<1>5. pc'["prepare"] \in Early /\ ~cancellation' => Unerased'
  <2> SUFFICES ASSUME pc'["prepare"] \in Early, ~cancellation'
               PROVE  Unerased'
    OBVIOUS
  <2>1. t \in {"prepare", "complete"}
    BY <1>2
  <2>2. pc["prepare"] \in Early /\ ~cancellation /\ PlaceOf(t)
    BY <1>2, TaskEffect DEF IInv, EffectOf, PlaceOf
  <2>3. Unerased
    BY <1>3, <2>2 DEF EraseInv
  <2>4. service = "running"
    BY <1>3, <2>2 DEF Order
  <2> QED BY <1>1, <2>1, <2>3, <2>4 DEF AnswersOf, Unerased, Stands, Early
<1>6. answers'["cancel"] # "none" /\ phase' \notin Terminal => ~file' /\ ~Pending("start")'
  <2> SUFFICES ASSUME answers'["cancel"] # "none", phase' \notin Terminal
               PROVE  ~file' /\ ~Pending("start")'
    OBVIOUS
  <2>1. phase \notin Terminal
    BY <1>2
  <2>2. answers["cancel"] # "none"
    <3> SUFFICES ASSUME answers["cancel"] = "none"
                 PROVE  FALSE
      OBVIOUS
    <3>1. Alone(t) /\ service # "running" /\ pc[t] \notin Closing
      BY <1>1 DEF AnswersOf
    <3>2. PICK u \in Task : pc[u] \in Closing
      BY <1>3, <2>1, <3>1 DEF EraseInv
    <3> QED BY <3>1, <3>2 DEF Alone, Closing, Busy
  <2>3. ~file /\ ~Pending("start")
    BY <1>3, <2>1, <2>2 DEF EraseInv
  <2>4. ~file'
    BY <1>1, <2>3 DEF ResultOf
  <2>5. ~(t = "prepare" /\ pc[t] \in {"destination", "provider"} /\ ~cancellation)
    BY <1>3, <2>2 DEF EraseInv, Early, Unerased
  <2>6. ~Pending("start")'
    BY <1>1, <2>3, <2>5 DEF AnswersOf, Stands
  <2> QED BY <2>4, <2>6
<1>7. ASSUME NEW u \in Task, pc'[u] \in {"reap", "close", "failClose"}
      PROVE  answers'["cancel"] # "none"
  <2>1. answers["cancel"] # "none" => answers'["cancel"] # "none"
    BY <1>1 DEF AnswersOf
  <2>2. pc[u] \in {"reap", "close", "failClose"} \/ (u = t /\ answers["cancel"] # "none")
    BY <1>1, <1>2, <1>7 DEF WayOf
  <2> QED BY <1>3, <2>1, <2>2 DEF EraseInv
<1>8. service' # "running" => phase' \in Terminal \/ \E u \in Task : pc'[u] \in Closing
  <2> SUFFICES ASSUME service' # "running", phase' \notin Terminal
               PROVE  \E u \in Task : pc'[u] \in Closing
    OBVIOUS
  <2>1. CASE service # "running"
    <3>1. PICK u \in Task : pc[u] \in Closing
      BY <1>2, <1>3, <2>1 DEF EraseInv
    <3>2. u # t
      BY <1>1, <3>1 DEF WayOf
    <3> QED BY <1>2, <3>1, <3>2
  <2>2. CASE service = "running"
    <3>1. pc'[t] \in Closing
      BY <1>1, <2>2 DEF AnswersOf, Closing
    <3> QED BY <3>1
  <2> QED BY <2>1, <2>2
<1>9. phase' \in {"Recording", "Processing"} =>
          \/ \E u \in Task : pc'[u] \in Cleaning
          \/ pc'["complete"] \in Resulted
          \/ (Unerased /\ service = "running")'
  <2> SUFFICES ASSUME phase' \in {"Recording", "Processing"},
                      \A u \in Task : pc'[u] \notin Cleaning,
                      pc'["complete"] \notin Resulted
               PROVE  Unerased' /\ service' = "running"
    OBVIOUS
  <2>1. phase' \notin Terminal
    BY DEF Terminal
  <2>2. CASE phase' = phase
    <3>1. \A u \in Task : pc[u] \notin Cleaning
      BY <1>1, <1>2, <2>1 DEF WayOf
    <3>2. pc["complete"] \notin Resulted
      BY <1>1, <1>2, <2>1 DEF WayOf
    <3>3. Unerased /\ service = "running"
      BY <1>3, <2>2, <3>1, <3>2 DEF EraseInv
    <3>4. t # "prepare"
      BY <1>2, <1>3, <2>2 DEF Order
    <3>5. pc'[t] \notin {"erase", "close"} /\ (t = "complete" => pc'[t] # "endClose")
      BY DEF Cleaning, Resulted
    <3> QED BY <1>1, <3>3, <3>4, <3>5 DEF AnswersOf, Unerased, Stands
  <2>3. CASE phase' = "Recording" /\ phase # "Recording"
    <3>1. t = "prepare" /\ pc[t] = "microphone" /\ ~cancellation
      BY <1>1, <2>3 DEF WayOf
    <3>2. Unerased /\ service = "running"
      BY <1>3, <3>1 DEF EraseInv, Order, Early
    <3>3. pc'[t] \notin {"erase", "failErase", "close", "failClose"}
      <4>1. pc'[t] = "done"
        BY <2>3, TaskEffect DEF IInv, EffectOf, PhaseOf, Terminal
      <4> QED BY <4>1
    <3> QED BY <1>1, <3>1, <3>2, <3>3 DEF AnswersOf, Unerased, Stands
  <2> QED BY <1>2, <2>2, <2>3
<1>10. outcome' # "none" => pc'["complete"] \in Resulted \cup {"done"}
  <2> SUFFICES ASSUME outcome' # "none"
               PROVE  pc'["complete"] \in Resulted \cup {"done"}
    OBVIOUS
  <2>1. CASE t = "complete" /\ pc[t] \in Dictating /\ pc'[t] \in Resulted
    BY <2>1
  <2>2. CASE UNCHANGED outcome
    <3>1. pc["complete"] \in Resulted \cup {"done"}
      BY <1>3, <2>2 DEF EraseInv
    <3>2. CASE t = "complete"
      <4>1. CompleteStep
        BY <1>1, <1>2, <3>1, <3>2, CaptureSessionAssumption
           DEF TaskStep, Queue, Erased, Reaped, Closed, At, Resulted, Task
      <4>2. pc["complete"] \in Resulted /\ LockInv
        BY <1>2, <3>1, <3>2 DEF IInv
      <4>3. EndReaped \/ EndClosed
        BY <4>1, <4>2
           DEF CompleteStep, Complete, CompleteRefused, StopFailed, Stopped, Finished,
               FinishFailed, FallsBack, Transcribed, Appended, CompleteClosing, Resulted, At,
               Enters
      <4> QED BY <4>2, <4>3
              DEF EndReaped, EndClosed, Awaits, Leaves, LockInv, LockType, Resulted, Task
    <3>3. CASE t # "complete"
      BY <1>2, <3>1, <3>3
    <3> QED BY <3>2, <3>3
  <2> QED BY <1>1, <2>1, <2>2 DEF ResultOf
<1>11. pc'["complete"] \in Busy => ~Pending("cancel")'
  <2> SUFFICES ASSUME pc'["complete"] \in Busy
               PROVE  ~Pending("cancel")'
    OBVIOUS
  <2>1. ~Pending("cancel")
    <3>1. CASE pc["complete"] \in Busy
      BY <1>3, <3>1 DEF EraseInv
    <3>2. CASE pc["complete"] \notin Busy
      <4>1. t = "complete" /\ phase = "Processing" /\ Alone(t)
        <5>1. t = "complete" /\ pc'[t] \in Busy
          BY <1>2, <3>2
        <5>2. phase = "Processing"
          BY <3>2, <5>1, TaskEffect DEF IInv, EffectOf, PlaceOf
        <5>3. Moves(t)
          <6>1. ShapeOf(t) /\ "waiting" \notin Busy /\ "done" \notin Busy
            BY TaskShape DEF Busy
          <6>2. pc \in [Task -> Resting \cup Busy]
            BY DEF IInv, LockInv, LockType
          <6> QED BY <5>1, <6>1, <6>2 DEF ShapeOf, Queue
        <5> QED BY <5>1, <5>2, <5>3, Exclusive DEF IInv, Alone
      <4>2. Unerased
        BY <1>3, <3>2, <4>1 DEF EraseInv, Alone, Cleaning, Resulted, Busy
      <4> QED BY <4>2 DEF Unerased
    <3> QED BY <3>1, <3>2
  <2>2. CASE t = "complete"
    BY <1>1, <2>1, <2>2 DEF AnswersOf, Stands
  <2>3. CASE t # "complete"
    <3>1. ~Alone(t)
      BY <1>2, <2>3 DEF Alone
    <3> QED BY <1>1, <2>1, <3>1 DEF AnswersOf, Stands
  <2> QED BY <2>2, <2>3
<1> QED BY <1>5, <1>6, <1>7, <1>8, <1>9, <1>10, <1>11 DEF EraseInv

LEMMA RowTypes ==
    ASSUME ValuesOK
    PROVE  row.audio \in BOOLEAN /\ cancelled.streamed \in BOOLEAN
               /\ cancelled.done \in BOOLEAN /\ cancelled.beforeReady \in BOOLEAN
BY DEF ValuesOK

LEMMA TaskKeepsAudio ==
    ASSUME IInv, AInv, NEW t \in Task, TaskStep(t)
    PROVE  AudioInv'
<1>1. WayOf(t) /\ ResultOf(t) /\ TellsOf(t)
  BY TaskSound DEF IInv, SoundOf
<1>2. /\ \A u \in Task : u # t => pc'[u] = pc[u]
      /\ pc[t] \notin {"idle", "done"} /\ pc'[t] \in Busy \cup {"done", "waiting"}
      /\ UNCHANGED <<cancellation, exit>>
      /\ phase \in Terminal => phase' \in Terminal
      /\ "complete" \in Task
  BY TaskMoves
<1>3. /\ ValuesOK /\ Order /\ StartInv /\ FileInv /\ EraseInv /\ AudioInv /\ CancelInv
      /\ Reporting
  BY DEF IInv, AInv, SoundInv
<1>4. UNCHANGED opts /\ (file' => file)
  BY <1>1 DEF ResultOf
<1>5. Retains(FALSE)' <=> Retains(FALSE)
  BY <1>4 DEF Retains
\* Who ends a recording found its file erased, or judged by its dictation.
<1>6. phase' \in Terminal /\ phase \notin Terminal =>
          ~file \/ (t = "complete" /\ pc[t] = "endClose")
  <2> SUFFICES ASSUME phase' \in Terminal, phase \notin Terminal
               PROVE  ~file \/ (t = "complete" /\ pc[t] = "endClose")
    OBVIOUS
  <2>1. pc[t] \in {"close", "failClose", "endClose"}
    BY TaskEffect DEF IInv, EffectOf, PhaseOf, Terminal
  <2>2. CASE pc[t] \in {"close", "failClose"}
    BY <1>3, <2>2 DEF EraseInv
  <2>3. CASE pc[t] = "endClose"
    <3>1. t = "complete"
      BY <2>3, CaptureSessionAssumption
         DEF TaskStep, Queue, Erased, Reaped, Closed, ExitTask, CancelTask, CancelTooLate,
             PrepareStep, PrepareCancelled, Prepare, OpenProvider, StartMicrophone, Started,
             PrepareFails, FailReaped, FailErased, FailClosed, At, Enters
    <3> QED BY <2>3, <3>1
  <2> QED BY <2>1, <2>2, <2>3
<1>7. CASE UNCHANGED <<row, file, outcome>>
           /\ (t = "complete" /\ pc'[t] \in Resulted => pc[t] \in Resulted)
  <2>1. UNCHANGED heard \/ ~(pc["complete"] \in Resulted \/ phase \in Terminal)
    BY <1>1, <1>3 DEF ResultOf, Dictating, Resulted, Order, Busy, Terminal
  <2>2. pc'["complete"] \in Resulted => pc["complete"] \in Resulted
    BY <1>2, <1>7
  <2>3. pc["complete"] \in Resulted => pc'["complete"] \in Resulted \/ phase' \in Terminal
    BY <1>1, <1>2 DEF WayOf
  <2>4. opts'.incognito => row' = NoRow
    BY <1>3, <1>4, <1>7 DEF AudioInv
  <2>5. row'.audio => file' /\ (pc'["complete"] \in Resulted \/ phase' \in Terminal)
    BY <1>2, <1>3, <1>7, <2>3 DEF AudioInv
  <2>6. phase' \in Terminal \/ pc'["complete"] \in Resulted =>
            (~Retains(FALSE)' => ~file')
    BY <1>3, <1>5, <1>6, <1>7, <2>2 DEF AudioInv, Resulted
  <2>7. pc'["complete"] \in Resulted /\ file' =>
            row'.audio \/ outcome' = "failed" \/ heard' = "empty"
    BY <1>3, <1>7, <2>1, <2>2 DEF AudioInv
  <2>8. KeptAudioIsNamed'
    <3> SUFFICES ASSUME phase' \in Terminal, file', ~exit'
                 PROVE  row'.audio \/ said' = <<"failed">> \/ heard' = "empty"
      BY DEF KeptAudioIsNamed
    <3>1. file /\ ~exit
      BY <1>2, <1>7
    <3>2. CASE phase \in Terminal
      <4>1. UNCHANGED said
        BY <1>1, <1>3, <3>2 DEF TellsOf, CancelInv, Reports
      <4>2. UNCHANGED heard
        BY <2>1, <3>2
      <4>3. row.audio \/ said = <<"failed">> \/ heard = "empty"
        BY <1>3, <3>1, <3>2 DEF AudioInv, KeptAudioIsNamed
      <4> QED BY <1>7, <4>1, <4>2, <4>3
    <3>3. CASE phase \notin Terminal
      <4>1. t = "complete" /\ pc[t] = "endClose"
        BY <1>6, <3>1, <3>3
      <4>2. Reports(outcome) /\ UNCHANGED heard
        BY <1>1, <2>1, <4>1 DEF TellsOf, Resulted
      <4>3. owns /\ said = <<>>
        BY <1>3, <3>1, <4>1 DEF Reporting
      <4>4. said' = <<outcome>>
        BY <4>2, <4>3 DEF Reports
      <4>5. row.audio \/ outcome = "failed" \/ heard = "empty"
        BY <1>3, <3>1, <4>1 DEF AudioInv, Resulted
      <4> QED BY <1>7, <4>2, <4>4, <4>5
    <3> QED BY <3>2, <3>3
  <2> QED BY <2>4, <2>5, <2>6, <2>7, <2>8 DEF AudioInv
<1>8. CASE /\ t = "complete" /\ pc[t] \in Dictating /\ pc'[t] \in Resulted
           /\ outcome' # "none" /\ Decided
  <2>1. phase = "Processing" /\ phase' \notin Terminal
    <3>1. phase = "Processing"
      BY <1>3, <1>8 DEF Order, Dictating, Busy
    <3>2. UNCHANGED phase
      BY <1>8, <3>1, TaskEffect
         DEF IInv, EffectOf, PhaseOf, Dictating, Resulted
    <3> QED BY <3>1, <3>2 DEF Terminal
  <2>2. file
    <3>1. outcome = "none"
      BY <1>3, <1>8 DEF EraseInv, Dictating, Resulted
    <3>2. Unerased /\ service = "running"
      <4>1. \A u \in Task : pc[u] \in Busy => u = t
        BY <1>2, <1>8, Exclusive DEF IInv, Moves, LockInv, LockHeld, Dictating, Busy
      <4>2. \A u \in Task : pc[u] \notin Cleaning
        BY <1>8, <4>1 DEF Cleaning, Dictating, Busy
      <4> QED BY <1>3, <1>8, <2>1, <4>2 DEF EraseInv, Dictating, Resulted
    <3>3. answers["start"] = "ok"
      BY <1>3, <1>8, <2>1 DEF StartInv
    <3> QED BY <1>3, <3>1, <3>2, <3>3 DEF FileInv, Unerased
  <2>3. ~row.audio
    BY <1>3, <1>8, <2>1 DEF AudioInv, Dictating, Resulted, Terminal
  <2>4. opts'.incognito => row' = NoRow
    BY <1>3, <1>4, <1>8 DEF AudioInv, Decided
  <2>5. row'.audio => file'
    BY <1>8, <2>2, <2>3 DEF Decided
  <2>6. ~Retains(FALSE)' => ~file'
    BY <1>5, <1>8 DEF Decided
  <2>7. file' => row'.audio \/ outcome' = "failed" \/ heard' = "empty"
    BY <1>8 DEF Decided
  <2>8. KeptAudioIsNamed'
    BY <2>1 DEF KeptAudioIsNamed
  <2> QED BY <1>8, <2>4, <2>5, <2>6, <2>7, <2>8 DEF AudioInv
<1> QED BY <1>1, <1>7, <1>8 DEF ResultOf

LEMMA TaskKeepsCancel ==
    ASSUME IInv, AInv, NEW t \in Task, TaskStep(t)
    PROVE  CancelInv'
<1>1. AsksFor(t) /\ WayOf(t) /\ ResultOf(t) /\ TellsOf(t)
  BY TaskSound DEF IInv, SoundOf
<1>2. /\ \A u \in Task : u # t => pc'[u] = pc[u]
      /\ pc[t] \notin {"idle", "done"} /\ pc'[t] \in Busy \cup {"done", "waiting"}
      /\ UNCHANGED <<cancellation, exit>>
      /\ phase \in Terminal => phase' \in Terminal
      /\ {"prepare", "complete"} \subseteq Task
  BY TaskMoves
<1>3. /\ ValuesOK /\ Order /\ Ending /\ StartInv /\ FileInv /\ EraseInv /\ AudioInv /\ CancelInv
      /\ Reporting /\ LockInv
  BY DEF IInv, AInv, SoundInv
<1>4. UNCHANGED opened /\ UNCHANGED sent /\ (file' => file)
  BY <1>1 DEF ResultOf
<1>5. pc[t] \in Busy => Alone(t)
  BY <1>3, Exclusive DEF Moves, LockInv, LockHeld, Alone
<1>6. cancelled.done => cancelled'.done
  BY <1>1, <1>3 DEF TellsOf, ValuesOK
<1>7. cancelled.done => UNCHANGED cancelled
  BY <1>1, <1>3 DEF TellsOf, CancelInv, Cleaning
<1>8. cancelled.done => ~owns
  BY <1>3 DEF Ending, CancelInv
<1>9. phase' \in Terminal => ~owns'
  BY <1>1, <1>3 DEF TellsOf, CancelInv
<1>10. ASSUME NEW u \in Task, pc'[u] \in Cleaning
       PROVE  ~cancelled'.done
  <2>1. ~cancelled.done
    BY <1>1, <1>2, <1>3, <1>10 DEF TellsOf, CancelInv
  <2>2. CASE pc[t] = "close" /\ pc'[t] = "done"
    <3>1. u = t
      BY <1>2, <1>5, <1>10, <2>2 DEF Alone, Cleaning, Busy
    <3> QED BY <1>10, <2>2, <3>1 DEF Cleaning
  <2>3. CASE UNCHANGED cancelled \/ cancelled' = [cancelled EXCEPT !.streamed = sent]
    BY <1>3, <2>1, <2>3 DEF ValuesOK
  <2> QED BY <1>1, <2>2, <2>3 DEF TellsOf
<1>11. owns' /\ sent' /\ realtime' = "none" =>
           \/ cancelled'.streamed \/ pc'["prepare"] \in {"failErase", "failClose"}
           \/ pc'["complete"] = "endClose"
  <2> SUFFICES ASSUME owns', sent', realtime' = "none"
               PROVE  \/ cancelled'.streamed \/ pc'["prepare"] \in {"failErase", "failClose"}
                      \/ pc'["complete"] = "endClose"
    OBVIOUS
  <2>1. owns /\ sent
    BY <1>1, <1>4 DEF TellsOf
  <2>2. CASE realtime = "none"
    <3>1. CASE cancelled.streamed
      <4>1. cancelled'.streamed
        BY <1>1, <1>3, <2>1, <3>1 DEF TellsOf, ValuesOK
      <4> QED BY <4>1
    <3>2. CASE pc["prepare"] \in {"failErase", "failClose"}
      BY <1>1, <1>2, <3>2 DEF TellsOf
    <3>3. CASE pc["complete"] = "endClose"
      <4>1. t # "complete"
        BY <1>1, <3>3 DEF TellsOf, Reports
      <4> QED BY <1>2, <3>3, <4>1
    <3> QED BY <1>3, <2>1, <2>2, <3>1, <3>2, <3>3 DEF CancelInv
  <2>3. CASE realtime # "none"
    <3>1. CASE cancelled' = [cancelled EXCEPT !.streamed = sent]
      BY <1>3, <2>1, <3>1 DEF ValuesOK
    <3>2. ~(t = "prepare" /\ pc[t] = "provider")
      BY <1>3, <2>3 DEF StartInv, Fetching
    <3> QED BY <1>1, <2>3, <3>1, <3>2 DEF TellsOf
  <2> QED BY <2>2, <2>3
\* A cancellation that is told is told by the task that brought it about.
<1>12. said' = <<"cancelled">> =>
           \/ said = <<"cancelled">>
           \/ owns /\ pc[t] = "close" /\ cancelled'.done
  <2> SUFFICES ASSUME said' = <<"cancelled">>, said # <<"cancelled">>
               PROVE  owns /\ pc[t] = "close" /\ cancelled'.done
    OBVIOUS
  <2>1. owns
    BY <1>1 DEF TellsOf, Reports
  <2>2. said = <<>>
    BY <1>3, <2>1 DEF Reporting
  <2>3. ASSUME NEW end, Reports(end)
        PROVE  end = "cancelled"
    BY <2>1, <2>2, <2>3 DEF Reports
  <2>4. outcome # "cancelled"
    BY <1>3 DEF ValuesOK
  <2> QED BY <1>1, <1>8, <2>1, <2>2, <2>3, <2>4 DEF TellsOf
<1>13. said' = <<"cancelled">> => cancelled'.done
  BY <1>3, <1>6, <1>12 DEF CancelInv
<1>14. CancelIsTruthful'
  <2> SUFFICES ASSUME said' = <<"cancelled">>
               PROVE  /\ cancelled'.beforeReady => ~opened'
                      /\ ~cancelled'.streamed => ~sent'
                      /\ ~file'
    BY DEF CancelIsTruthful
  <2>1. CASE said = <<"cancelled">>
    <3>1. UNCHANGED cancelled
      BY <1>3, <1>7, <2>1 DEF CancelInv
    <3> QED BY <1>3, <1>4, <2>1, <3>1 DEF CancelInv, CancelIsTruthful
  <2>2. CASE owns /\ pc[t] = "close" /\ cancelled'.done
    <3>1. ~cancelled.done /\ phase \notin Terminal
      BY <1>3, <1>8, <2>2 DEF CancelInv
    <3>2. cancelled' = [cancelled EXCEPT !.done = TRUE, !.beforeReady = ~requested]
      BY <1>1, <1>3, <2>2, <3>1 DEF TellsOf
    <3>3. cancelled'.beforeReady => ~opened'
      <4>1. cancelled'.beforeReady = ~requested
        BY <1>3, <3>2 DEF ValuesOK
      <4> QED BY <1>3, <1>4, <4>1 DEF StartInv
    <3>4. ~cancelled'.streamed => ~sent'
      <4>1. cancelled'.streamed = cancelled.streamed
        BY <1>3, <3>2 DEF ValuesOK
      <4>2. realtime = "none"
        BY <1>3, <2>2 DEF Ending
      <4>3. pc["prepare"] \notin {"failErase", "failClose"} /\ pc["complete"] # "endClose"
        BY <1>2, <1>5, <2>2 DEF Alone, Busy
      <4> QED BY <1>3, <1>4, <2>2, <4>1, <4>2, <4>3 DEF CancelInv
    <3>5. ~file'
      <4>1. answers["cancel"] # "none"
        BY <1>3, <2>2 DEF EraseInv
      <4> QED BY <1>3, <1>4, <3>1, <4>1 DEF EraseInv
    <3> QED BY <3>3, <3>4, <3>5
  <2> QED BY <1>12, <2>1, <2>2
<1> QED BY <1>9, <1>10, <1>11, <1>13, <1>14 DEF CancelInv

-----------------------------------------------------------------------------
(* Steps of the owner thread, the provider and the controller               *)

\* When a recording has ended there is nothing left to serve.
LEMMA NothingLeft ==
    ASSUME IInv, phase \in Terminal
    PROVE  \A kind \in RequestKind : ~Pending(kind)
BY DEF IInv, Ending, OwnerInv, Pending

\* What a served request leaves of the queue, and where everybody stays.
LEMMA ServeFrame ==
    ASSUME IInv, StartAlone, NEW kind \in RequestKind, Serve(kind)
    PROVE  /\ UNCHANGED <<opts, phase, cancellation, requested, cancelled, outcome, owns, pc,
                          realtime, heard, pcm, sent, row, said, exit>>
           /\ phase \notin Terminal /\ Pending(kind) /\ StartAlone'
           /\ \A k \in RequestKind : Pending(k)' => Pending(k)
           /\ kind \in {"start", "cancel"} => ~Pending("start")'
<1>1. UNCHANGED <<opts, phase, cancellation, requested, cancelled, outcome, owns, pc,
                  realtime, heard, pcm, sent, row, said, exit>>
  BY DEF Serve, session, tasks, speech, results
<1>2. /\ Pending(kind) /\ StartAlone'
      /\ \A k \in RequestKind : Pending(k)' => Pending(k)
      /\ kind \in {"start", "cancel"} => ~Pending("start")'
  BY PendingServes DEF IInv
<1>3. phase \notin Terminal
  BY <1>2, NothingLeft
<1> QED BY <1>1, <1>2, <1>3

\* Nothing that is served while a recording is not over changes what a row or a report says.
LEMMA ServeKeepsRest ==
    ASSUME IInv, AInv, NEW kind \in RequestKind, Serve(kind), file' => file,
           opened' = opened,
           file' = file \/ ~row.audio
    PROVE  AudioInv' /\ CancelInv'
<1>1. /\ UNCHANGED <<opts, phase, cancellation, requested, cancelled, outcome, owns, pc,
                     realtime, heard, pcm, sent, row, said, exit>>
      /\ phase \notin Terminal
  BY ServeFrame DEF AInv, SoundInv, StartInv
<1>2. Retains(FALSE)' <=> Retains(FALSE)
  BY <1>1 DEF Retains
<1>3. AudioInv /\ CancelInv /\ ValuesOK /\ Ending
  BY DEF AInv, IInv
<1>4. said = <<>> \/ said # <<"cancelled">>
  BY <1>1, <1>3 DEF Ending
<1>5. AudioInv'
  BY <1>1, <1>2, <1>3 DEF AudioInv, KeptAudioIsNamed
<1>6. CancelInv'
  BY <1>1, <1>3, <1>4 DEF CancelInv, CancelIsTruthful, Ending
<1> QED BY <1>5, <1>6

LEMMA ServeKeepsSound ==
    ASSUME IInv, AInv, OwnerStep
    PROVE  AInv'
<1> DEFINE Places == /\ UNCHANGED <<phase, cancellation, requested, outcome, pc, realtime, sent>>
                     /\ phase \notin Terminal /\ StartAlone'
                     /\ \A k \in RequestKind : Pending(k)' => Pending(k)
<1>1. /\ ValuesOK /\ Order /\ Ending /\ StartInv /\ FileInv /\ EraseInv /\ AudioInv /\ CancelInv
      /\ OwnerInv
  BY DEF IInv, AInv, SoundInv
<1>a. ASSUME NEW kind \in RequestKind, Serve(kind)
      PROVE  /\ Places /\ Pending(kind) /\ UNCHANGED requested
             /\ kind \in {"start", "cancel"} => ~Pending("start")'
  BY <1>1, <1>a, ServeFrame DEF StartInv
<1>2. CASE ServeDestination
  <2>1. /\ Serve("destination") /\ UNCHANGED <<service, mic, opened, file>>
        /\ \A k \in RequestKind \ {"destination"} : answers'[k] = answers[k]
    BY <1>1, <1>2 DEF ServeDestination, Answers, ValuesOK, RequestKind
  <2>2. Places
    BY <1>a, <2>1 DEF RequestKind
  <2>3. UNCHANGED <<answers["start"], answers["stop"], answers["cancel"]>>
    BY <2>1 DEF RequestKind
  <2>4. StartInv' /\ FileInv'
    BY <1>1, <2>1, <2>2, <2>3 DEF StartInv, FileInv, RequestKind
  <2>5. EraseInv'
    BY <1>1, <2>1, <2>2, <2>3 DEF EraseInv, Unerased, RequestKind
  <2> QED BY <2>1, <2>4, <2>5, ServeKeepsRest DEF AInv, SoundInv, RequestKind
<1>3. CASE ServeStart
  <2>1. Serve("start") /\ UNCHANGED service /\ ~Pending("start")' /\ Pending("start")
    BY <1>3, <1>a DEF ServeStart, RequestKind
  <2>2. Places /\ \A k \in RequestKind \ {"start"} : answers'[k] = answers[k]
    BY <1>1, <1>3, <1>a, <2>1 DEF ServeStart, Answers, ValuesOK, RequestKind
  <2>3. /\ UNCHANGED <<answers["stop"], answers["cancel"]>> /\ answers'["start"] \in {"ok", "failed"}
        /\ answers'["start"] = "ok" => mic' /\ opened' /\ file'
        /\ answers'["start"] # "ok" => UNCHANGED <<mic, opened, file>>
    <3>1. \/ answers' = [answers EXCEPT !["start"] = "ok"] /\ mic' = TRUE /\ opened' = TRUE
             /\ file' = TRUE
          \/ answers' = [answers EXCEPT !["start"] = "failed"] /\ UNCHANGED <<mic, opened, file>>
      BY <1>3 DEF ServeStart, Answers
    <3> QED BY <1>1, <2>2, <3>1 DEF ValuesOK, RequestKind
  <2>4. /\ requested /\ answers["start"] = "none" /\ answers["stop"] = "none"
        /\ pc["complete"] = "idle" /\ phase \notin {"Recording", "Processing"}
        /\ answers["cancel"] = "none"
    BY <1>1, <2>1, <2>2 DEF StartInv, EraseInv
  <2>5. outcome = "none"
    BY <1>1, <2>4 DEF EraseInv, Resulted
  <2>6. StartInv'
    BY <1>1, <2>1, <2>2, <2>3, <2>4 DEF StartInv, RequestKind, Busy
  <2>7. FileInv'
    BY <1>1, <2>3, <2>4 DEF FileInv
  <2>8. EraseInv'
    BY <1>1, <2>1, <2>2, <2>3, <2>4 DEF EraseInv, Unerased, RequestKind
  <2>9. /\ UNCHANGED <<opts, phase, cancellation, requested, cancelled, outcome, owns, pc,
                       realtime, heard, pcm, sent, row, said, exit>>
        /\ phase \notin Terminal
    BY <1>1, <2>1, ServeFrame DEF RequestKind, StartInv
  <2>10. ~row.audio
    BY <1>1, <2>4, <2>9 DEF AudioInv, Resulted
  <2>11. AudioInv'
    BY <1>1, <2>4, <2>9, <2>10 DEF AudioInv, KeptAudioIsNamed, Resulted
  <2>12. CancelInv'
    BY <1>1, <2>9 DEF CancelInv, CancelIsTruthful, Ending
  <2> QED BY <2>6, <2>7, <2>8, <2>11, <2>12 DEF AInv, SoundInv
<1>4. CASE ServeStop
  <2>1. /\ Serve("stop") /\ UNCHANGED <<service, opened, file>> /\ mic' = FALSE
        /\ \A k \in RequestKind \ {"stop"} : answers'[k] = answers[k]
        /\ answers'["stop"] # "none"
    BY <1>1, <1>4 DEF ServeStop, Answers, ValuesOK, RequestKind
  <2>2. Places
    BY <1>a, <2>1 DEF RequestKind
  <2>3. UNCHANGED <<answers["start"], answers["cancel"]>>
    BY <2>1 DEF RequestKind
  <2>4. answers["start"] # "none"
    BY <1>1, <1>a, <2>1 DEF StartInv, RequestKind
  <2>5. StartInv' /\ FileInv'
    BY <1>1, <2>1, <2>2, <2>3, <2>4 DEF StartInv, FileInv, RequestKind
  <2>6. EraseInv'
    BY <1>1, <2>1, <2>2, <2>3 DEF EraseInv, Unerased, RequestKind
  <2> QED BY <2>1, <2>5, <2>6, ServeKeepsRest DEF AInv, SoundInv, RequestKind
<1>5. CASE ServeCancel
  <2>1. /\ Serve("cancel") /\ UNCHANGED <<service, opened>> /\ mic' = FALSE /\ file' = FALSE
        /\ \A k \in RequestKind \ {"cancel"} : answers'[k] = answers[k]
        /\ answers'["cancel"] = "ok"
    BY <1>1, <1>5 DEF ServeCancel, Answers, ValuesOK, RequestKind
  <2>2. Places /\ ~Pending("start")' /\ Pending("cancel")
    BY <1>a, <2>1 DEF RequestKind
  <2>3. UNCHANGED <<answers["start"], answers["stop"]>>
    BY <2>1 DEF RequestKind
  <2>4. StartInv' /\ FileInv'
    BY <1>1, <2>1, <2>2, <2>3 DEF StartInv, FileInv, RequestKind
  <2>5. pc["complete"] \notin Busy /\ ~Unerased
    BY <1>1, <2>2 DEF EraseInv, Unerased
  <2>6. EraseInv'
    BY <1>1, <2>1, <2>2, <2>3, <2>5 DEF EraseInv, RequestKind
  <2>7. ~row.audio
    BY <1>1, <2>2, <2>5 DEF AudioInv, Resulted, Busy
  <2> QED BY <2>1, <2>4, <2>6, <2>7, ServeKeepsRest DEF AInv, SoundInv, RequestKind
<1>6. CASE ServeClose
  <2>1. /\ Serve("close") /\ service' = "closed" /\ UNCHANGED opened /\ mic' = FALSE
        /\ file' = (file /\ ~mic /\ ~opts.incognito)
        /\ \A k \in RequestKind \ {"close"} : answers'[k] = answers[k]
    BY <1>1, <1>6 DEF ServeClose, Answers, ValuesOK, RequestKind
  <2>2. Places
    BY <1>a, <2>1 DEF RequestKind
  <2>3. UNCHANGED <<answers["start"], answers["stop"], answers["cancel"]>>
    BY <2>1 DEF RequestKind
  <2>4. StartInv' /\ FileInv'
    BY <1>1, <2>1, <2>2, <2>3 DEF StartInv, FileInv, RequestKind
  <2>5. service # "running" /\ phase \notin Terminal
    BY <1>1, <1>a, <2>1 DEF OwnerInv, Pending, RequestKind
  <2>6. PICK t \in Task : pc[t] \in Closing
    BY <1>1, <2>5 DEF EraseInv
  <2>7. EraseInv'
    BY <1>1, <2>1, <2>2, <2>3, <2>5, <2>6 DEF EraseInv, Unerased, RequestKind
  <2>8. file' = file \/ ~row.audio
    <3> SUFFICES ASSUME row.audio
                 PROVE  file' = file
      OBVIOUS
    <3>1. pc["complete"] \in Resulted
      BY <1>1, <2>5 DEF AudioInv
    <3>2. ~mic
      BY <1>1, <3>1 DEF StartInv, Resulted, Busy
    <3>3. ~opts.incognito
      BY <1>1 DEF AudioInv, NoRow
    <3> QED BY <1>1, <2>1, <3>2, <3>3 DEF ValuesOK
  <2> QED BY <2>1, <2>4, <2>7, <2>8, ServeKeepsRest DEF AInv, SoundInv, RequestKind
<1> QED BY <1>2, <1>3, <1>4, <1>5, <1>6 DEF OwnerStep

LEMMA ProviderKeepsSound ==
    ASSUME IInv, AInv, FirstPcm \/ Stream \/ StreamCloses
    PROVE  AInv'
<1>1. /\ Ending /\ StartInv /\ FileInv /\ EraseInv /\ AudioInv /\ CancelInv
  BY DEF IInv, AInv, SoundInv
<1>2. /\ UNCHANGED <<opts, phase, cancellation, requested, cancelled, outcome, owns, pc, heard,
                     requests, answers, service, mic, file, opened, row, said, exit>>
      /\ \/ UNCHANGED <<sent, realtime>>
         \/ realtime = "open" /\ UNCHANGED realtime
         \/ realtime = "closing" /\ realtime' = "closed" /\ UNCHANGED sent
  BY DEF FirstPcm, Stream, StreamCloses, session, tasks, speech, sound, owner, results
<1>3. StartInv'
  BY <1>1, <1>2 DEF StartInv, StartAlone, Pending
<1>4. FileInv' /\ EraseInv'
  BY <1>1, <1>2 DEF FileInv, EraseInv, Unerased, Pending
<1>5. AudioInv'
  BY <1>1, <1>2 DEF AudioInv, KeptAudioIsNamed, Retains
<1>6. CancelInv'
  <2>1. said = <<"cancelled">> => UNCHANGED sent
    BY <1>1, <1>2 DEF CancelInv, Ending
  <2> QED BY <1>1, <1>2, <2>1 DEF CancelInv, CancelIsTruthful
<1> QED BY <1>3, <1>4, <1>5, <1>6 DEF AInv, SoundInv

LEMMA ControllerKeepsSound ==
    ASSUME IInv, AInv, (\E c \in Cancels : Cancel(c)) \/ Stop \/ Exit
    PROVE  AInv'
<1>1. /\ Order /\ Ending /\ StartInv /\ FileInv /\ EraseInv /\ AudioInv /\ CancelInv
      /\ Reporting
  BY DEF IInv, AInv, SoundInv
<1>2. /\ pc \in [Task -> Resting \cup Busy]
      /\ {"prepare", "complete", "exit"} \subseteq Task /\ Cancels \subseteq Task
      /\ \A c \in Cancels : c \notin {"prepare", "complete", "exit"}
  BY CaptureSessionAssumption DEF IInv, LockInv, LockType, Task
<1>3. ASSUME NEW c \in Cancels \cup {"exit"}, pc' = [pc EXCEPT ![c] = "spawned"],
             pc[c] = "idle", cancellation', owns' => owns,
             phase' \in {phase, "Cancelling"}, phase \in Terminal => UNCHANGED phase,
             exit => exit',
             UNCHANGED <<opts, requested, cancelled, outcome, realtime, heard, requests, answers,
                         service, mic, file, opened, sent, row, said>>,
             row.audio /\ phase \notin Terminal => pc["complete"] \in Resulted,
             service # "running" /\ phase \notin Terminal => \E t \in Task : pc[t] \in Closing
      PROVE  AInv'
  <2>1. /\ pc'["prepare"] = pc["prepare"] /\ pc'["complete"] = pc["complete"]
        /\ \A t \in Task : t # c => pc'[t] = pc[t]
        /\ \A t \in Task : pc'[t] \in Busy => pc'[t] = pc[t]
        /\ \A t \in Task : pc[t] \in Busy => pc'[t] = pc[t]
    BY <1>2, <1>3 DEF Busy
  <2>2. phase' \in Terminal <=> phase \in Terminal
    BY <1>3 DEF Terminal
  <2>3. phase' \in {"Recording", "Processing"} => phase = phase'
    BY <1>3
  <2>4. StartInv'
    BY <1>1, <1>3, <2>1, <2>3 DEF StartInv, StartAlone, Pending
  <2>5. FileInv'
    BY <1>1, <1>3 DEF FileInv
  <2>6. EraseInv'
    <3>1. \A t \in Task : pc'[t] \in {"reap", "close", "failClose"} => answers'["cancel"] # "none"
      BY <1>1, <1>3, <2>1 DEF EraseInv, Busy
    <3>2. service' # "running" => phase' \in Terminal \/ \E t \in Task : pc'[t] \in Closing
      BY <1>1, <1>3, <2>1, <2>2 DEF Closing, Busy
    <3>3. phase' \in {"Recording", "Processing"} =>
              \/ \E t \in Task : pc'[t] \in Cleaning
              \/ pc'["complete"] \in Resulted
              \/ (Unerased /\ service = "running")'
      BY <1>1, <1>3, <2>1, <2>3 DEF EraseInv, Cleaning, Busy, Unerased, Pending
    <3>4. pc'["prepare"] \in Early /\ ~cancellation' => Unerased'
      BY <1>3
    <3> QED BY <1>1, <1>3, <2>1, <2>2, <3>1, <3>2, <3>3, <3>4 DEF EraseInv, Pending
  <2>7. AudioInv'
    BY <1>1, <1>3, <2>1, <2>2 DEF AudioInv, KeptAudioIsNamed, Retains
  <2>8. CancelInv'
    BY <1>1, <1>3, <2>1, <2>2 DEF CancelInv, CancelIsTruthful, Cleaning, Busy
  <2> QED BY <2>4, <2>5, <2>6, <2>7, <2>8 DEF AInv, SoundInv
<1>4. /\ row.audio /\ phase \notin Terminal => pc["complete"] \in Resulted
      /\ service # "running" /\ phase \notin Terminal => \E t \in Task : pc[t] \in Closing
  BY <1>1 DEF AudioInv, EraseInv
<1>5. ASSUME NEW c \in Cancels, Cancel(c)
      PROVE  AInv'
  <2>1. /\ pc' = [pc EXCEPT ![c] = "spawned"] /\ pc[c] = "idle" /\ cancellation' /\ owns' = owns
        /\ phase' = "Cancelling" /\ phase \notin Terminal /\ exit' = exit
        /\ UNCHANGED <<opts, requested, cancelled, outcome, realtime, heard, requests, answers,
                       service, mic, file, opened, sent, row, said>>
    BY <1>5 DEF Cancel, Spawned, speech, owner, sound, results, Terminal
  <2> QED BY <1>3, <1>4, <2>1
<1>6. CASE Stop
  <2>1. /\ pc' = [pc EXCEPT !["complete"] = "spawned"] /\ phase = "Recording"
        /\ phase' = "Processing"
        /\ UNCHANGED <<opts, cancellation, requested, cancelled, outcome, owns, realtime, heard,
                       requests, answers, service, mic, file, opened, sent, row, said, exit>>
    BY <1>6 DEF Stop, Spawned, speech, owner, sound, results
  <2>2. /\ pc["complete"] = "idle" /\ pc'["complete"] = "spawned"
        /\ \A t \in Task : t # "complete" => pc'[t] = pc[t]
        /\ pc'["prepare"] = pc["prepare"]
    BY <1>1, <1>2, <2>1 DEF Order, Terminal
  <2>3. /\ "spawned" \notin Busy \cup Cleaning \cup Closing \cup Resulted
        /\ phase \notin Terminal /\ phase' \notin Terminal
    BY <2>1 DEF Busy, Cleaning, Closing, Resulted, Terminal
  <2>4. StartInv'
    BY <1>1, <2>1, <2>2, <2>3 DEF StartInv, StartAlone, Pending
  <2>5. FileInv'
    BY <1>1, <2>1 DEF FileInv
  <2>6. EraseInv'
    <3>1. \A t \in Task : pc'[t] \in {"reap", "close", "failClose"} => answers'["cancel"] # "none"
      BY <1>1, <2>1, <2>2 DEF EraseInv
    <3>2. \A t \in Task : pc[t] \in Closing \cup Cleaning => pc'[t] = pc[t]
      BY <2>2 DEF Closing, Cleaning
    <3>3. pc["complete"] \notin Resulted
      BY <2>2 DEF Resulted
    <3> QED BY <1>1, <2>1, <2>2, <2>3, <3>1, <3>2, <3>3 DEF EraseInv, Unerased, Pending
  <2>7. AudioInv'
    BY <1>1, <2>1, <2>2, <2>3 DEF AudioInv, KeptAudioIsNamed, Resulted
  <2>8. CancelInv'
    BY <1>1, <2>1, <2>2, <2>3 DEF CancelInv, CancelIsTruthful, Cleaning
  <2> QED BY <2>4, <2>5, <2>6, <2>7, <2>8 DEF AInv, SoundInv
<1>7. CASE Exit
  <2>1. /\ exit' /\ owns' = FALSE /\ ~exit
        /\ UNCHANGED <<opts, phase, requested, cancelled, outcome, realtime, heard, requests,
                       answers, service, mic, file, opened, sent, row, said>>
    BY <1>7 DEF Exit, speech, owner, sound, results
  <2>2. CASE cancellation' = TRUE /\ pc' = [pc EXCEPT !["exit"] = "spawned"]
    <3>1. pc["exit"] = "idle"
      BY <1>1, <2>1 DEF Order
    <3> QED BY <1>3, <1>4, <2>1, <2>2, <3>1
  <2>3. CASE UNCHANGED <<cancellation, pc>>
    <3>1. StartInv'
      BY <1>1, <2>1, <2>3 DEF StartInv, StartAlone, Pending
    <3>2. FileInv' /\ EraseInv'
      BY <1>1, <2>1, <2>3 DEF FileInv, EraseInv, Unerased, Pending
    <3>3. AudioInv'
      BY <1>1, <2>1, <2>3 DEF AudioInv, KeptAudioIsNamed, Retains
    <3>4. CancelInv'
      BY <1>1, <2>1, <2>3 DEF CancelInv, CancelIsTruthful
    <3> QED BY <3>1, <3>2, <3>3, <3>4 DEF AInv, SoundInv
  <2> QED BY <1>7, <2>2, <2>3 DEF Exit, Spawned, tasks
<1> QED BY <1>5, <1>6, <1>7

-----------------------------------------------------------------------------
(* The theorems                                                             *)

LEMMA SoundInitially == Init => AInv
<1> SUFFICES ASSUME Init PROVE AInv
  OBVIOUS
<1>1. /\ pc = [t \in Task |-> IF t = "prepare" THEN "spawned" ELSE "idle"]
      /\ {"prepare", "complete", "exit"} \subseteq Task
  BY DEF Init, Task
<1>2. /\ pc["prepare"] = "spawned" /\ pc["complete"] = "idle"
      /\ \A t \in Task : pc[t] \in {"spawned", "idle"}
  BY <1>1
<1>3. \A kind \in RequestKind : ~Pending(kind) /\ answers[kind] = "none"
  BY DEF Init, Pending
<1>4. StartInv
  BY <1>2, <1>3 DEF Init, StartInv, StartAlone, RequestKind, Busy
<1>5. FileInv
  BY <1>3 DEF FileInv, RequestKind
<1>6. EraseInv
  BY <1>2, <1>3 DEF Init, EraseInv, Unerased, RequestKind, Busy
<1>7. AudioInv
  BY <1>2 DEF Init, AudioInv, KeptAudioIsNamed, NoRow, Resulted, Terminal
<1>8. CancelInv
  BY <1>2 DEF Init, CancelInv, CancelIsTruthful, Cleaning, Terminal
<1> QED BY <1>4, <1>5, <1>6, <1>7, <1>8 DEF AInv, SoundInv

LEMMA SoundInductive == IInv /\ AInv /\ [Next]_vars => AInv'
<1> SUFFICES ASSUME IInv, AInv, [Next]_vars PROVE AInv'
  OBVIOUS
<1>1. CASE UNCHANGED vars
  <2>1. StartInv' /\ FileInv' /\ EraseInv'
    BY <1>1 DEF vars, session, tasks, speech, sound, owner, results, AInv, SoundInv, StartInv,
                StartAlone, FileInv, EraseInv, Unerased, Pending
  <2>2. AudioInv' /\ CancelInv'
    BY <1>1 DEF vars, session, tasks, speech, sound, owner, results, AInv, AudioInv,
                KeptAudioIsNamed, Retains, CancelInv, CancelIsTruthful
  <2> QED BY <2>1, <2>2 DEF AInv, SoundInv
<1>2. ASSUME NEW t \in Task, TaskStep(t)
      PROVE  AInv'
  BY <1>2, TaskKeepsStart, TaskKeepsFile, TaskKeepsErase, TaskKeepsAudio, TaskKeepsCancel
     DEF AInv, SoundInv
<1>3. CASE Next
  BY <1>2, <1>3, ServeKeepsSound, ProviderKeepsSound, ControllerKeepsSound DEF Next
<1> QED BY <1>1, <1>3

\* The sound, the file and what is told of them keep together, beside the invariant of the tasks.
THEOREM SoundInvariant == Spec => [](IInv /\ AInv)
BY Initially, Inductive, SoundInitially, SoundInductive, PTL DEF Spec

\* A cancellation says so only of a microphone that was not opened, of sound that was not sent
\* and of a file that is gone, whichever step it met (CaptureCancelled::status).
THEOREM ToldCancelIsTrue == Spec => []CancelIsTruthful
<1>1. IInv /\ AInv => CancelIsTruthful
  BY DEF AInv, CancelInv
<1> QED BY <1>1, SoundInvariant, PTL

\* However a recording ends: a private one leaves neither row nor audio, `never` no audio, a row
\* that offers audio has it, and audio that is kept is named (record_failure,
\* complete_with_appendix, ServiceCommand::Close).
THEOREM AudioAccounted == Spec => []AudioIsAccounted
<1>1. IInv /\ AInv => AudioIsAccounted
  BY DEF AInv, AudioInv, AudioIsAccounted, PrivateLeavesNothing, RowKeepsAudio
<1> QED BY <1>1, SoundInvariant, PTL
===============================================================================
