------------------------------ MODULE MCHosted ------------------------------
(***************************************************************************)
(* Words on their way between devices, for TLC: live words from a desktop  *)
(* and from a browser, the draft of a browser tab (typing, and recording), *)
(* and the phone as a microphone; the modules of the desktop, of typing    *)
(* and of the phone are extended.  They share no state, so each behaviour  *)
(* is one part's: the initial state says which, and the others rest.       *)
(***************************************************************************)
EXTENDS PhoneStream, LiveText, WebDraft

CONSTANTS laptop, web

VARIABLE part

\* Two recordings of a browser; those of a desktop are the module's that is extended.
FromBrowser == INSTANCE LiveText WITH
    Native <- FALSE, Sessions <- {1, 2}, Desktops <- {}, Browsers <- {web}, Capacity <- 3, Shown <- 1,
    MaxSaid <- 2, MaxShown <- 0, MaxBreaks <- 0, MaxDies <- 0, MaxPrivate <- 0,
    Removable <- {}, Leaves <- {}

Dictating == INSTANCE WebDraft WITH
    Notes <- 1..2, Slots <- {"call", "list"}, Unheard <- {}, Oversize <- {},
    MaxText <- 2, MaxOther <- 0, MaxMissing <- 0, MaxReloads <- 1, MaxAsides <- 1, MaxTabs <- 0, Records <- TRUE

Returning == INSTANCE WebDraft WITH
    Notes <- 1..2, Slots <- {"call", "list"}, Unheard <- {}, Oversize <- {},
    MaxText <- 2, MaxOther <- 1, MaxMissing <- 1, MaxReloads <- 1, MaxAsides <- 0, MaxTabs <- 0, Records <- FALSE

partVars == <<part, liveVars, draftVars, vars>>

PartInit ==
    \/ part = "desktop" /\ LiveInit /\ DraftInit /\ Init
    \/ part = "browser" /\ FromBrowser!LiveInit /\ DraftInit /\ Init
    \/ part = "typing" /\ LiveInit /\ DraftInit /\ Init
    \/ part = "dictating" /\ LiveInit /\ Dictating!DraftInit /\ Init
    \/ part = "returning" /\ LiveInit /\ Returning!DraftInit /\ Init
    \/ part = "phone" /\ LiveInit /\ DraftInit /\ Init

PartNext ==
    \/ /\ UNCHANGED <<part, draftVars, vars>>
       /\ \/ part = "desktop" /\ LiveNext
          \/ part = "browser" /\ FromBrowser!LiveNext
    \/ /\ UNCHANGED <<part, liveVars, vars>>
       /\ \/ part = "typing" /\ DraftNext
          \/ part = "dictating" /\ Dictating!DraftNext
          \/ part = "returning" /\ Returning!DraftNext
    \/ /\ UNCHANGED <<part, liveVars, draftVars>>
       /\ part = "phone" /\ Next

PartSpec == PartInit /\ [][PartNext]_partVars

-----------------------------------------------------------------------------

\* Types.
TypesOK ==
    /\ IF part = "browser" THEN FromBrowser!LiveTypeOK ELSE LiveTypeOK
    /\ IF part = "dictating" THEN Dictating!DraftTypeOK
       ELSE IF part = "returning" THEN Returning!DraftTypeOK ELSE DraftTypeOK
    /\ TypeOK
=============================================================================
