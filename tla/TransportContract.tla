-------------------------- MODULE TransportContract --------------------------
(***************************************************************************)
(* What every transport promises of a submission (the Transport trait of   *)
(* mluva-providers/src/agent_targets.rs): it is written at most once; what *)
(* was rejected or withdrawn never reaches the session; what is said to be *)
(* accepted has reached it, and what is said to be taken was taken.  An    *)
(* unconfirmed one may reach it late, or never.                            *)
(***************************************************************************)
EXTENDS Naturals

CONSTANT Messages

VARIABLES
    told,    \* the outcome of each message
    reached, \* how often each one reached the session
    taken    \* the messages an agent took into a turn

contractVars == <<told, reached, taken>>

Init ==
    /\ told = [m \in Messages |-> "nothing"]
    /\ reached = [m \in Messages |-> 0]
    /\ taken = {}

Reach(m) ==
    /\ reached[m] = 0 /\ told[m] \notin {"rejected", "busy"}
    /\ reached' = [reached EXCEPT ![m] = 1]
    /\ UNCHANGED <<told, taken>>

Take(m) ==
    /\ reached[m] = 1 /\ taken' = taken \cup {m}
    /\ UNCHANGED <<told, reached>>

Tell(m, outcome) ==
    /\ told[m] = "nothing" \/ (told[m] = "accepted" /\ outcome = "taken")
    /\ outcome \in {"rejected", "busy"} => reached[m] = 0
    /\ outcome \in {"accepted", "held", "taken"} => reached[m] = 1
    /\ outcome = "taken" => m \in taken
    /\ told' = [told EXCEPT ![m] = outcome]
    /\ UNCHANGED <<reached, taken>>

Next ==
    \E m \in Messages :
        \/ Reach(m) \/ Take(m)
        \/ \E outcome \in {"rejected", "busy", "accepted", "held", "taken", "unconfirmed"} : Tell(m, outcome)

Promised == [Next]_contractVars

Spec == Init /\ [][Next]_contractVars
=============================================================================
