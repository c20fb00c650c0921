-------------------------- MODULE MCAgentRouteCases --------------------------
(***************************************************************************)
(* AgentRoute where its inputs are rich in one way at a time, for TLC: two *)
(* sessions and choices between them, and every break of a delivery (the   *)
(* clock set back, Incognito, an app's composer, a lost session).          *)
(***************************************************************************)
EXTENDS AgentRoute, TLC

CONSTANTS s1, s2, app

VARIABLE part

\* One dictation to an app's composer, with everything that breaks a delivery.
Breaks == INSTANCE AgentRoute WITH
    Session <- {app}, AppLinks <- {app}, MaxRecording <- 1, Spoken <- {"empty", "short", "medium"},
    Outcomes <- {"Accepted", "Rejected"}, Sightings <- {"prefill"}, MaxAttempts <- 1, MaxChoices <- 0,
    ClockJumps <- TRUE, PrivacyChanges <- TRUE

\* Two dictations, while Incognito is switched.
Private == INSTANCE AgentRoute WITH
    Session <- {app}, AppLinks <- {app}, MaxRecording <- 1, Spoken <- {"short"},
    Outcomes <- {"Accepted"}, Sightings <- {"prefill"}, MaxAttempts <- 2, MaxChoices <- 0,
    ClockJumps <- FALSE, PrivacyChanges <- TRUE

SessionSymmetry == Permutations(Session)

CaseInit ==
    \/ part = "choice" /\ Init /\ ~ incognito
    \/ part = "breaks" /\ Breaks!Init
    \/ part = "private" /\ Private!Init

CaseNext ==
    /\ UNCHANGED part
    /\ \/ part = "choice" /\ Next
       \/ part = "breaks" /\ Breaks!Next
       \/ part = "private" /\ Private!Next

Cases == CaseInit /\ [][CaseNext]_<<part, vars>>

-----------------------------------------------------------------------------

\* What breaks a delivery holds: a text too long for its route is not handed over, nothing is sent by the
\* tick after interrupted timing, and Incognito writes no row.
BreaksHold == []Breaks!HandedTextFits /\ Breaks!NoSendAcrossABreak /\ Breaks!PrivateLeavesRows
=============================================================================
