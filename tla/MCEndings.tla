----------------------------- MODULE MCEndings -----------------------------
(***************************************************************************)
(* What has to happen in the end, for TLC: small instances of the modules  *)
(* that share no state, one of them moving in each behaviour (`part`).     *)
(***************************************************************************)
EXTENDS Naturals, Sequences, TLC

CONSTANTS desk, web

VARIABLES
    part,
    \* LiveText
    live, said, pipe, pending, up, conn, wire, failed, login, aside, selected, taken, asides,
    removed, table, log, settled, running, answers, deaths, inbox, online, shows,
    \* WebDraft
    row, receipt, asked, applied, gone,
    tab, task, mic, before, load, entries, prefs, dialog, disk, last, used, latest, seen, quit, accepted,
    \* PhoneStream
    page, queue, calls, desktop, audio, quiet, reply, job, words, lost, crashes

Live == INSTANCE LiveText WITH signed <- login, private <- aside,
    Native <- TRUE, Sessions <- {1}, Desktops <- {desk}, Browsers <- {web}, Capacity <- 3, Shown <- 2,
    MaxSaid <- 1, MaxShown <- 1, MaxBreaks <- 0, MaxDies <- 1, MaxPrivate <- 0, Removable <- {}, Leaves <- {}

Draft == INSTANCE WebDraft WITH requests <- asked, revoked <- gone, spent <- used,
    Notes <- 1..1, Slots <- {"call", "list"}, Unheard <- {}, Oversize <- {}, MaxText <- 2, MaxOther <- 1,
    MaxMissing <- 1, MaxReloads <- 0, MaxAsides <- 0, MaxTabs <- 0, Records <- FALSE

Phone == INSTANCE PhoneStream WITH desk <- desktop,
    MaxChunks <- 1, QueueLimit <- 1, PcmLimit <- 1, PrepareLimit <- 1, AudioLimit <- 1, MaxTicks <- 2,
    MaxLost <- 1, MaxCrashes <- 1, IncognitoPhone <- TRUE

liveVars == <<live, said, pipe, pending, up, conn, wire, failed, login, aside, selected, taken, asides,
    removed, table, log, settled, running, answers, deaths, inbox, online, shows>>
draftVars == <<row, receipt, asked, applied, gone,
    tab, task, mic, before, load, entries, prefs, dialog, disk, last, used, latest, seen, quit, accepted>>
phoneVars == <<page, queue, calls, desktop, audio, quiet, reply, job, words, lost, crashes>>
vars == <<part, liveVars, draftVars, phoneVars>>

Init ==
    /\ part \in {"live", "draft", "phone"}
    /\ Live!LiveInit /\ Draft!DraftInit /\ Phone!Init

Next ==
    /\ UNCHANGED part
    /\ \/ part = "live" /\ Live!LiveNext /\ UNCHANGED <<draftVars, phoneVars>>
       \/ part = "draft" /\ Draft!DraftNext /\ UNCHANGED <<liveVars, phoneVars>>
       \/ part = "phone" /\ Phone!Next /\ UNCHANGED <<liveVars, draftVars>>

\* The fairness of each module, for the part that moves.
LiveFairness ==
    /\ WF_liveVars(part = "live" /\ Live!Wire) /\ WF_liveVars(part = "live" /\ Live!Route)
    /\ WF_liveVars(part = "live" /\ Live!Receiving)

DraftFairness ==
    /\ WF_draftVars(part = "draft" /\ Draft!Tab) /\ WF_draftVars(part = "draft" /\ Draft!Saves)
    /\ WF_draftVars(part = "draft" /\ Draft!SaveAnswered) /\ WF_draftVars(part = "draft" /\ Draft!Listed)
    /\ WF_draftVars(part = "draft" /\ Draft!Lists)
    /\ \A s \in {"call", "list"} : WF_draftVars(part = "draft" /\ Draft!Server(s))

PhoneFairness ==
    /\ WF_phoneVars(part = "phone" /\ Phone!Start) /\ WF_phoneVars(part = "phone" /\ Phone!SendChunk)
    /\ WF_phoneVars(part = "phone" /\ Phone!ChunkAnswered) /\ WF_phoneVars(part = "phone" /\ Phone!Polls)
    /\ WF_phoneVars(part = "phone" /\ Phone!PollAnswered) /\ WF_phoneVars(part = "phone" /\ Phone!Finish)
    /\ WF_phoneVars(part = "phone" /\ Phone!FinishAnswered) /\ WF_phoneVars(part = "phone" /\ Phone!Asked)
    /\ WF_phoneVars(part = "phone" /\ Phone!Wait) /\ WF_phoneVars(part = "phone" /\ Phone!Waited)
    /\ WF_phoneVars(part = "phone" /\ Phone!Unmoved /\ Phone!DeskReady)
    /\ WF_phoneVars(part = "phone" /\ Phone!Unmoved /\ Phone!Prepared)
    /\ WF_phoneVars(part = "phone" /\ Phone!Unmoved /\ Phone!Completes)
    /\ WF_phoneVars(part = "phone" /\ Phone!Unmoved /\ Phone!Reported)
    /\ WF_phoneVars(part = "phone" /\ Phone!Unmoved /\ Phone!Watch)
    /\ WF_phoneVars(part = "phone" /\ Phone!Unmoved /\ Phone!Tick)
    /\ WF_phoneVars(part = "phone" /\ Phone!Process)
    /\ \A s \in Phone!Slot : WF_phoneVars(part = "phone" /\ Phone!ServesCall(s))

Fairness == LiveFairness /\ DraftFairness /\ PhoneFairness

Spec == Init /\ [][Next]_vars /\ Fairness

-----------------------------------------------------------------------------

\* What is written or said reaches those it is for: live words the receivers that stay, a draft the account.
WordsArrive == Live!EverythingLeaves /\ Live!Arrives /\ Draft!Autosaves

\* A phone's recording ends on both sides once either has ended it.
PhoneEnds == Phone!StopsTogether /\ Phone!Abandoned
=============================================================================
