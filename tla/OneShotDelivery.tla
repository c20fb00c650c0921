-------------------------- MODULE OneShotDelivery --------------------------
(***************************************************************************)
(* What agent dictation promises, without captures, transports or clocks:  *)
(* the permission to send one message automatically is given once, is lost *)
(* or used once, and is never given while another message is on its way.   *)
(* `VoiceRoute` in rust/mluva-core/src/agent_voice.rs calls it a one-shot  *)
(* delivery intent; AgentRoute implements this specification.              *)
(***************************************************************************)
CONSTANT Attempt    \* identities of attempts

VARIABLES
    armed,          \* the attempt that may be sent automatically, if any
    kept,           \* attempts whose permission was lost: drafts
    spent,          \* attempts whose permission was used
    moving          \* the attempt being delivered, if any

vars == <<armed, kept, spent, moving>>

Init == armed = {} /\ kept = {} /\ spent = {} /\ moving = {}

Fresh(i) == i \notin armed \cup kept \cup spent
Free == armed = {} /\ moving = {}

Arm(i) == Free /\ Fresh(i) /\ armed' = {i} /\ UNCHANGED <<kept, spent, moving>>

\* An attempt that ends where it begins, as a capture that cannot start.
Refuse(i) == Free /\ Fresh(i) /\ kept' = kept \cup {i} /\ UNCHANGED <<armed, spent, moving>>

Disarm(i) == i \in armed /\ armed' = {} /\ kept' = kept \cup {i} /\ UNCHANGED <<spent, moving>>

Send(i) ==
    /\ i \in armed /\ moving = {}
    /\ armed' = {} /\ spent' = spent \cup {i} /\ moving' = {i}
    /\ UNCHANGED kept

Settle == moving # {} /\ moving' = {} /\ UNCHANGED <<armed, kept, spent>>

Next ==
    \/ \E i \in Attempt : Arm(i) \/ Refuse(i) \/ Disarm(i) \/ Send(i)
    \/ Settle

Spec == Init /\ [][Next]_vars
=============================================================================
