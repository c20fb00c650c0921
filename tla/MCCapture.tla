------------------------------ MODULE MCCapture ------------------------------
(***************************************************************************)
(* Who holds a microphone, and the end of every agent attempt, for TLC:    *)
(* CaptureOwner with the bounds of the configuration, and a small          *)
(* AgentRoute.  One of the two moves in each behaviour.                    *)
(***************************************************************************)
EXTENDS CaptureOwner

CONSTANTS s1, NoSession

VARIABLES
    part,
    route, reported, rows, selected, enabled, targets, poll, switches, capture, wheel, editor,
    flights, watches, gap, incognito, over, started, chosen, stopped, handed, fate, choices, applied

routeVars == <<route, reported, rows, selected, enabled, targets, poll, switches, capture, wheel, editor,
    flights, watches, gap, incognito, over, started, chosen, stopped, handed, fate, choices, applied>>

Route == INSTANCE AgentRoute WITH
    attempt <- route, cap <- capture, closed <- over, begun <- started, asked <- choices,
    Session <- {s1}, AppLinks <- {}, MaxRecording <- 2, Spoken <- {"empty", "short"},
    Outcomes <- {"Accepted", "Unconfirmed"}, Sightings <- {"queue", "blocked"},
    MaxAttempts <- 1, MaxChoices <- 0, ClockJumps <- FALSE, PrivacyChanges <- FALSE

Parts ==
    /\ part \in {"owner", "route"} /\ Init /\ Route!Init
    /\ part = "owner" => ~enabled /\ ~incognito /\ selected = NoSession

Steps ==
    /\ UNCHANGED part
    /\ \/ part = "owner" /\ Next /\ UNCHANGED routeVars
       \/ part = "route" /\ Route!Next /\ UNCHANGED vars

RouteFairness ==
    /\ WF_routeVars(part = "route" /\ ~over /\ Route!Tick)
    /\ WF_routeVars(part = "route" /\ ~over /\ Route!Elapse)
    /\ WF_routeVars(part = "route" /\ ~over /\ Route!Recorder)
    /\ WF_routeVars(part = "route" /\ Route!Transport)

Behaviours ==
    /\ Parts /\ [][Steps]_<<part, vars, routeVars>>
    /\ WF_vars(Reaping) /\ WF_vars(Wake) /\ WF_vars(Limit) /\ RouteFairness

\* Nothing an agent attempt waits for lasts for ever.
EveryWaitEnds == Route!EveryWaitEnds
=============================================================================
