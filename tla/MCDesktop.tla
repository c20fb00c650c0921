----------------------------- MODULE MCDesktop -----------------------------
(***************************************************************************)
(* The rest of the desktop, for TLC: annotated recordings, the places an   *)
(* installation owns, the recording key, meetings, the transports to the   *)
(* agents, the sessions that are found, and text that is inserted.  They   *)
(* share no state, so each behaviour is one part's: the initial state says *)
(* which, and the others rest.                                             *)
(***************************************************************************)
EXTENDS AnnotationBindings, Meeting, TLC

CONSTANTS left, right, NoneOf

VARIABLES
    part,
    inkClosed, presses, ink, current, first, origin, marks, lines, pulses, locating, pinning, grabs,
    frames,
    bundleUp, phase, holder, bundleClosed, bundleMarks, pins, bundleGrabs, bundleFrames, files,
    handed, late, task, writer, bundle, row, convs, told, bundleSpent,
    pc, half, installStage, at, root, parent, expected, changes, made, stood, settings, service,
    saved, complete, signal, found, placed, lost, installSpent,
    widgetPhase, plugins, backup, shown, before, uses,
    wanted, keyService, keyCurrent, gen, restarts, keyShown, keys, overlap, budget,
    call, request, reply, server, herdrTold, herdrReached, blind, herdrUsed,
    inboxCall, says, inboxSession, inbox, queue, log, inboxTold, inboxReached, taken, unsure, weak,
    strays, inboxUsed,
    storeCall, held, store, watch, storeTold, storeTaken, faults,
    codexCall, adding, codexQueue, turning, turns, thread, codexServer, codexTold, codexUsed,
    procs, foundFiles, started, foundChanges, foundFaults, pass, entries, known, targets, choice,
    chosen, steady, seen, whole,
    kind, field, focus, events, tracker, snap, textWatch, textPc, textKeys, receipt, textRow,
    remembered, attempts, landed, arrivals, textStrays, textLost, picked, touched, moved, touches,
    moves, textFaults,
    sessions, wheelTargets, selected, menu, poll, cli, wheel, wheelStage, wheelWanted, wheelSpent,
    source, streamQueue, policy, sender, receiver, job, consumer, streamTold, finisher, closer,
    streamService, inbound, streamShown, streamLate, streamSpent,
    state, given, tokens, worker, speechRequest, client, speechFinisher, cleanup, callback,
    speechFaults, speechLate

Screens == {left, right}

\* Bindings of two recordings that may be interrupted.
Interrupted == INSTANCE AnnotationBindings WITH
    Interrupt <- TRUE, MaxToggles <- 1, MaxRestarts <- 1, MaxExits <- 1, MaxFaults <- 1
\* Recordings that last until their bindings are confirmed.
Confirmed == INSTANCE AnnotationBindings WITH
    Interrupt <- FALSE, MaxToggles <- 0, MaxRestarts <- 1, MaxExits <- 0, MaxFaults <- 1

\* Room for the images of both marks, or for one.
Ink == INSTANCE InkOverlay WITH
    closed <- inkClosed,
    MaxPresses <- 2, MaxMarks <- 2, MaxFrames <- 2
Room == INSTANCE InkOverlay WITH
    closed <- inkClosed,
    MaxPresses <- 2, MaxMarks <- 2, MaxFrames <- 1

Bundle == INSTANCE AnnotationBundle WITH
    up <- bundleUp, closed <- bundleClosed, marks <- bundleMarks, grabs <- bundleGrabs,
    frames <- bundleFrames, spent <- bundleSpent,
    MaxMarks <- 2, MaxToggles <- 0, MaxExits <- 2, Kill <- TRUE, MaxFaults <- 1

\* An installation over the former name, and one without it.
Renaming == INSTANCE InstallTransaction WITH
    stage <- installStage, spent <- installSpent,
    Upgrade <- TRUE, MaxForeign <- 1, MaxFaults <- 1, Kill <- TRUE
Plain == INSTANCE InstallTransaction WITH
    stage <- installStage, spent <- installSpent,
    Upgrade <- FALSE, MaxForeign <- 1, MaxFaults <- 1, Kill <- TRUE

Widget == INSTANCE WidgetInstall WITH
    phase <- widgetPhase,
    MaxForeign <- 1, MaxFaults <- 1, Kill <- TRUE

Bound == INSTANCE Shortcuts WITH
    service <- keyService, current <- keyCurrent, shown <- keyShown,
    Keys <- {"one", "two"}, Managed <- TRUE, MaxServices <- 3, MaxChanges <- 2, MaxFaults <- 1

\* A pane that Herdr hosts itself, and a terminal of Herdr Core.
Herdr == INSTANCE HerdrPrompt WITH
    told <- herdrTold, reached <- herdrReached, used <- herdrUsed,
    Messages <- {1, 2}, Core <- FALSE, MaxRestarts <- 1, MaxFaults <- 1
Terminal == INSTANCE HerdrPrompt WITH
    told <- herdrTold, reached <- herdrReached, used <- herdrUsed,
    Messages <- {1, 2}, Core <- TRUE, MaxRestarts <- 1, MaxFaults <- 1

\* Messages of two texts, where one begins with the other; and of one text, which others write too.
Inbox == INSTANCE InboxDelivery WITH
    call <- inboxCall, session <- inboxSession, told <- inboxTold, reached <- inboxReached,
    used <- inboxUsed,
    Messages <- {1, 2}, Texts <- {"a", "ab"}, Begins <- {<<"a", "ab">>},
    MaxTyped <- 0, MaxRewrites <- 1, MaxFaults <- 1
Typed == INSTANCE InboxDelivery WITH
    call <- inboxCall, session <- inboxSession, told <- inboxTold, reached <- inboxReached,
    used <- inboxUsed,
    Messages <- {1, 2}, Texts <- {"a"}, Begins <- {},
    MaxTyped <- 1, MaxRewrites <- 0, MaxFaults <- 0

Store == INSTANCE AntigravityQueue WITH
    call <- storeCall, told <- storeTold, taken <- storeTaken,
    Messages <- {1, 2}, MaxFaults <- 1

Codex == INSTANCE CodexQueue WITH
    call <- codexCall, queue <- codexQueue, server <- codexServer, told <- codexTold,
    used <- codexUsed,
    Messages <- {1, 2}, MaxFaults <- 1, MaxStops <- 1

Restarts == INSTANCE Discovery WITH
    files <- foundFiles, changes <- foundChanges, faults <- foundFaults,
    Kind <- "claude", PIDs <- {1}, Sessions <- Screens, MaxStarts <- 2, MaxChanges <- 0,
    MaxFaults <- 0
\* Sessions of each agent: a process that starts again, or two processes.
Switches == INSTANCE Discovery WITH
    files <- foundFiles, changes <- foundChanges, faults <- foundFaults,
    Kind <- "claude", PIDs <- {1}, Sessions <- Screens, MaxStarts <- 1, MaxChanges <- 1,
    MaxFaults <- 0
Threads == INSTANCE Discovery WITH
    files <- foundFiles, changes <- foundChanges, faults <- foundFaults,
    Kind <- "codex", PIDs <- {1}, Sessions <- Screens, MaxStarts <- 2, MaxChanges <- 0,
    MaxFaults <- 1
Conversations == INSTANCE Discovery WITH
    files <- foundFiles, changes <- foundChanges, faults <- foundFaults,
    Kind <- "agy", PIDs <- {1, 2}, Sessions <- Screens, MaxStarts <- 2, MaxChanges <- 0,
    MaxFaults <- 0
Panes == INSTANCE Discovery WITH
    files <- foundFiles, changes <- foundChanges, faults <- foundFaults,
    Kind <- "opencode", PIDs <- {1}, Sessions <- Screens, MaxStarts <- 1, MaxChanges <- 1,
    MaxFaults <- 1

\* Every kind of field; and Paste again in one that takes edits.
Inserting == INSTANCE TextInsertion WITH
    watch <- textWatch, pc <- textPc, keys <- textKeys, row <- textRow, strays <- textStrays,
    lost <- textLost, faults <- textFaults,
    Kinds <- {"editable", "firefox", "chromium", "terminal"}, MaxTouches <- 1, MaxMoves <- 1,
    MaxRetries <- 0, MaxFaults <- 1
Again == INSTANCE TextInsertion WITH
    watch <- textWatch, pc <- textPc, keys <- textKeys, row <- textRow, strays <- textStrays,
    lost <- textLost, faults <- textFaults,
    Kinds <- {"editable", "terminal"}, MaxTouches <- 0, MaxMoves <- 1, MaxRetries <- 1,
    MaxFaults <- 0

\* The wheel over two pages; and its dial in motion.
Chosen == INSTANCE SessionWheel WITH
    targets <- wheelTargets, stage <- wheelStage, wanted <- wheelWanted, spent <- wheelSpent,
    Sessions <- {"a", "b", "c"}, PerPage <- 2, MaxChanges <- 1, MaxChoices <- 1, MaxHovers <- 0,
    Animated <- FALSE
Dial == INSTANCE SessionWheel WITH
    targets <- wheelTargets, stage <- wheelStage, wanted <- wheelWanted, spent <- wheelSpent,
    Sessions <- {"a", "b"}, PerPage <- 1, MaxChanges <- 0, MaxChoices <- 1, MaxHovers <- 1,
    Animated <- TRUE

\* A recognition that counts its commits, without faults and with one; one of segments, and one of deltas.
Commits == INSTANCE RecognitionStream WITH
    queue <- streamQueue, told <- streamTold, service <- streamService, shown <- streamShown,
    late <- streamLate, spent <- streamSpent,
    Wire <- "commits", Capacity <- 1, Interval <- 2, Expecting <- 1, MaxChunks <- 3,
    MaxPartials <- 0, MaxFaults <- 0
Uncommitted == INSTANCE RecognitionStream WITH
    queue <- streamQueue, told <- streamTold, service <- streamService, shown <- streamShown,
    late <- streamLate, spent <- streamSpent,
    Wire <- "commits", Capacity <- 1, Interval <- 2, Expecting <- 1, MaxChunks <- 2,
    MaxPartials <- 0, MaxFaults <- 1
Segments == INSTANCE RecognitionStream WITH
    queue <- streamQueue, told <- streamTold, service <- streamService, shown <- streamShown,
    late <- streamLate, spent <- streamSpent,
    Wire <- "segments", Capacity <- 1, Interval <- 2, Expecting <- 1, MaxChunks <- 1,
    MaxPartials <- 1, MaxFaults <- 1
Deltas == INSTANCE RecognitionStream WITH
    queue <- streamQueue, told <- streamTold, service <- streamService, shown <- streamShown,
    late <- streamLate, spent <- streamSpent,
    Wire <- "deltas", Capacity <- 1, Interval <- 2, Expecting <- 1, MaxChunks <- 2,
    MaxPartials <- 1, MaxFaults <- 0

\* A model on this computer, with an overflow and a failure; and a remote service.
Resident == INSTANCE LocalSpeech WITH
    request <- speechRequest, finisher <- speechFinisher, faults <- speechFaults, late <- speechLate,
    Local <- TRUE, Limit <- 1, MaxChunks <- 2, MaxFaults <- 1
Batch == INSTANCE LocalSpeech WITH
    request <- speechRequest, finisher <- speechFinisher, faults <- speechFaults, late <- speechLate,
    Local <- FALSE, Limit <- 3, MaxChunks <- 2, MaxFaults <- 0

inkVars == <<inkClosed, presses, ink, current, first, origin, marks, lines, pulses, locating,
             pinning, grabs, frames>>
bundleVars == <<bundleUp, phase, holder, bundleClosed, bundleMarks, pins, bundleGrabs, bundleFrames,
                files, handed, late, task, writer, bundle, row, convs, told, bundleSpent>>
installVars == <<pc, half, installStage, at, root, parent, expected, changes, made, stood, settings,
                 service, saved, complete, signal, found, placed, lost, installSpent>>
widgetVars == <<widgetPhase, plugins, backup, shown, before, uses>>
keysVars == <<wanted, keyService, keyCurrent, gen, restarts, keyShown, keys, overlap, budget>>
herdrVars == <<call, request, reply, server, herdrTold, herdrReached, blind, herdrUsed>>
inboxVars == <<inboxCall, says, inboxSession, inbox, queue, log, inboxTold, inboxReached, taken,
               unsure, weak, strays, inboxUsed>>
storeVars == <<storeCall, held, store, watch, storeTold, storeTaken, faults>>
codexVars == <<codexCall, adding, codexQueue, turning, turns, thread, codexServer, codexTold,
               codexUsed>>
foundVars == <<procs, foundFiles, started, foundChanges, foundFaults, pass, entries, known, targets,
               choice, chosen, steady, seen, whole>>
textVars == <<kind, field, focus, events, tracker, snap, textWatch, textPc, textKeys, receipt,
              textRow, remembered, attempts, landed, arrivals, textStrays, textLost, picked,
              touched, moved, touches, moves, textFaults>>
wheelVars == <<sessions, wheelTargets, selected, menu, poll, cli, wheel, wheelStage, wheelWanted,
               wheelSpent>>
streamVars == <<source, streamQueue, policy, sender, receiver, job, consumer, streamTold, finisher,
                closer, streamService, inbound, streamShown, streamLate, streamSpent>>
speechVars == <<state, given, tokens, worker, speechRequest, client, speechFinisher, cleanup,
                callback, speechFaults, speechLate>>
allVars == <<part, vars, inkVars, bundleVars, installVars, widgetVars, keysVars, meetingVars,
             herdrVars, inboxVars, storeVars, codexVars, foundVars, textVars, wheelVars, streamVars,
             speechVars>>

Parts ==
    /\ part \in {"interrupted", "confirmed", "ink", "room", "bundle", "upgrade", "plain", "widget",
                "keys", "meeting", "herdr", "terminal", "inbox", "typed", "store", "codex", "restarts",
                "switches", "threads", "conversations", "panes", "inserting", "again", "chosen",
                "dial", "commits", "uncommitted", "segments", "deltas", "resident", "batch"}
    /\ Init
    /\ Ink!Init
    /\ Bundle!Init
    /\ IF part = "upgrade" THEN Renaming!Init ELSE Plain!Init
    /\ part \in {"upgrade", "plain"} \/ (at = [p \in Plain!Paths |-> 0] /\ service.unit = "none")
    /\ Widget!Init
    /\ part \in {"widget"} \/ (plugins = [n \in Widget!Names |-> "none"])
    /\ Bound!Init
    /\ part \in {"keys"} \/ (wanted = "one")
    /\ MeetingInit
    /\ Herdr!Init
    /\ IF part = "inbox" THEN Inbox!Init ELSE Typed!Init
    /\ part \in {"inbox", "typed"} \/ (\A m \in DOMAIN says : says[m] = "a")
    /\ Store!Init
    /\ Codex!Init
    /\ part \in {"codex"} \/ (~ codexServer.daemon)
    /\ IF part = "conversations" THEN Conversations!Init ELSE Restarts!Init
    /\ IF part = "inserting" THEN Inserting!Init ELSE Again!Init
    /\ part \in {"inserting", "again"} \/ (kind = "terminal" /\ focus = "field" /\ field.sel = <<>> /\ field.caret = 2)
    /\ IF part = "chosen" THEN Chosen!Init ELSE Dial!Init
    /\ Commits!Init
    /\ Resident!Init

Steps ==
    /\ UNCHANGED part
    /\ \/ /\ UNCHANGED <<inkVars, bundleVars, installVars, widgetVars, keysVars, meetingVars,
                          herdrVars, inboxVars, storeVars, codexVars, foundVars, textVars,
                          wheelVars, streamVars, speechVars>>
          /\ \/ part = "interrupted" /\ Interrupted!Next
             \/ part = "confirmed" /\ Confirmed!Next
       \/ /\ UNCHANGED <<vars, bundleVars, installVars, widgetVars, keysVars, meetingVars,
                          herdrVars, inboxVars, storeVars, codexVars, foundVars, textVars,
                          wheelVars, streamVars, speechVars>>
          /\ \/ part = "ink" /\ Ink!Next
             \/ part = "room" /\ Room!Next
       \/ /\ UNCHANGED <<vars, inkVars, installVars, widgetVars, keysVars, meetingVars, herdrVars,
                          inboxVars, storeVars, codexVars, foundVars, textVars, wheelVars,
                          streamVars, speechVars>>
          /\ part = "bundle" /\ Bundle!Next
       \/ /\ UNCHANGED <<vars, inkVars, bundleVars, widgetVars, keysVars, meetingVars, herdrVars,
                          inboxVars, storeVars, codexVars, foundVars, textVars, wheelVars,
                          streamVars, speechVars>>
          /\ \/ part = "upgrade" /\ Renaming!Next
             \/ part = "plain" /\ Plain!Next
       \/ /\ UNCHANGED <<vars, inkVars, bundleVars, installVars, keysVars, meetingVars, herdrVars,
                          inboxVars, storeVars, codexVars, foundVars, textVars, wheelVars,
                          streamVars, speechVars>>
          /\ part = "widget" /\ Widget!Next
       \/ /\ UNCHANGED <<vars, inkVars, bundleVars, installVars, widgetVars, meetingVars, herdrVars,
                          inboxVars, storeVars, codexVars, foundVars, textVars, wheelVars,
                          streamVars, speechVars>>
          /\ part = "keys" /\ Bound!Next
       \/ /\ UNCHANGED <<vars, inkVars, bundleVars, installVars, widgetVars, keysVars, herdrVars,
                          inboxVars, storeVars, codexVars, foundVars, textVars, wheelVars,
                          streamVars, speechVars>>
          /\ part = "meeting" /\ MeetingNext
       \/ /\ UNCHANGED <<vars, inkVars, bundleVars, installVars, widgetVars, keysVars, meetingVars,
                          inboxVars, storeVars, codexVars, foundVars, textVars, wheelVars,
                          streamVars, speechVars>>
          /\ \/ part = "herdr" /\ Herdr!Next
             \/ part = "terminal" /\ Terminal!Next
       \/ /\ UNCHANGED <<vars, inkVars, bundleVars, installVars, widgetVars, keysVars, meetingVars,
                          herdrVars, storeVars, codexVars, foundVars, textVars, wheelVars,
                          streamVars, speechVars>>
          /\ \/ part = "inbox" /\ Inbox!Next
             \/ part = "typed" /\ Typed!Next
       \/ /\ UNCHANGED <<vars, inkVars, bundleVars, installVars, widgetVars, keysVars, meetingVars,
                          herdrVars, inboxVars, codexVars, foundVars, textVars, wheelVars,
                          streamVars, speechVars>>
          /\ part = "store" /\ Store!Next
       \/ /\ UNCHANGED <<vars, inkVars, bundleVars, installVars, widgetVars, keysVars, meetingVars,
                          herdrVars, inboxVars, storeVars, foundVars, textVars, wheelVars,
                          streamVars, speechVars>>
          /\ part = "codex" /\ Codex!Next
       \/ /\ UNCHANGED <<vars, inkVars, bundleVars, installVars, widgetVars, keysVars, meetingVars,
                          herdrVars, inboxVars, storeVars, codexVars, textVars, wheelVars,
                          streamVars, speechVars>>
          /\ \/ part = "restarts" /\ Restarts!Next
             \/ part = "switches" /\ Switches!Next
             \/ part = "threads" /\ Threads!Next
             \/ part = "conversations" /\ Conversations!Next
             \/ part = "panes" /\ Panes!Next
       \/ /\ UNCHANGED <<vars, inkVars, bundleVars, installVars, widgetVars, keysVars, meetingVars,
                          herdrVars, inboxVars, storeVars, codexVars, foundVars, wheelVars,
                          streamVars, speechVars>>
          /\ \/ part = "inserting" /\ Inserting!Next
             \/ part = "again" /\ Again!Next
       \/ /\ UNCHANGED <<vars, inkVars, bundleVars, installVars, widgetVars, keysVars, meetingVars,
                          herdrVars, inboxVars, storeVars, codexVars, foundVars, textVars,
                          streamVars, speechVars>>
          /\ \/ part = "chosen" /\ Chosen!Next
             \/ part = "dial" /\ Dial!Next
       \/ /\ UNCHANGED <<vars, inkVars, bundleVars, installVars, widgetVars, keysVars, meetingVars,
                          herdrVars, inboxVars, storeVars, codexVars, foundVars, textVars,
                          wheelVars, speechVars>>
          /\ \/ part = "commits" /\ Commits!Next
             \/ part = "uncommitted" /\ Uncommitted!Next
             \/ part = "segments" /\ Segments!Next
             \/ part = "deltas" /\ Deltas!Next
       \/ /\ UNCHANGED <<vars, inkVars, bundleVars, installVars, widgetVars, keysVars, meetingVars,
                          herdrVars, inboxVars, storeVars, codexVars, foundVars, textVars,
                          wheelVars, streamVars>>
          /\ \/ part = "resident" /\ Resident!Next
             \/ part = "batch" /\ Batch!Next

Behaviours == Parts /\ [][Steps]_allVars

-----------------------------------------------------------------------------

\* Types.
TypesOK ==
    /\ part \in {"interrupted", "confirmed"} => Interrupted!TypeOK
    /\ part \in {"ink", "room"} => Ink!TypeOK
    /\ part = "bundle" => Bundle!TypeOK
    /\ part = "upgrade" => Renaming!TypeOK
    /\ part = "plain" => Plain!TypeOK
    /\ part = "keys" => Bound!TypeOK
    /\ part = "meeting" => MeetingTypeOK
    /\ part \in {"herdr", "terminal"} => Herdr!TypeOK
    /\ part \in {"inbox", "typed"} => Inbox!TypeOK
    /\ part = "store" => Store!TypeOK
    /\ part = "codex" => Codex!TypeOK
    /\ part = "restarts" => Restarts!TypeOK
    /\ part = "switches" => Switches!TypeOK
    /\ part = "threads" => Threads!TypeOK
    /\ part = "conversations" => Conversations!TypeOK
    /\ part = "panes" => Panes!TypeOK
    /\ part \in {"inserting", "again"} => Inserting!TypeOK
    /\ part \in {"chosen", "dial"} => Chosen!TypeOK
    /\ part \in {"commits", "uncommitted", "segments", "deltas"} => Commits!TypeOK
    /\ part \in {"resident", "batch"} => Batch!TypeOK

\* Annotations: the bindings of a session exist while it takes ink, unless a start, the setting or another session
\* takes them, which no recording that is left to itself has to fear; and somebody is left to remove them.  The
\* image of a stroke shows neither its own ink nor that of an earlier press, and a late reading of the pointer
\* leads only the first stroke of its own press; what was marked is handed over with its images, and what was
\* delivered stays.
AnnotationsStand ==
    /\ [](part \in {"interrupted", "confirmed"} => BoundIsWatched)
    /\ [](part = "confirmed" => ReadyIsBound)
    /\ [][part = "interrupted" \/ part = "confirmed" => ReadyKeeps]_allVars
    /\ [](part \in {"ink", "room"} => Ink!OwnInkHidden /\ Ink!NoStaleInk /\ Ink!LedByItsPress)
    /\ [](part = "bundle" =>
             /\ Bundle!DeliveredPathsStand /\ Bundle!OwnedIsWhole /\ Bundle!NoOrphanBundle
             /\ Bundle!EveryMarkIsHanded /\ Bundle!FramesStand)

\* Every transport to an agent tells the controller no more than is so: a message said to be rejected never
\* reaches its session, one said to be taken is in a turn, and none reaches it twice.  The inbox claims more
\* only where another message of the same text was queued, or one that begins like it held, since the write,
\* or the transcript was written anew; a Core terminal only where no answer came.  No server of Mluva outlives it.
TransportsKeepTheirPromise ==
    /\ Herdr!Contract!Init /\ Inbox!Contract!Init /\ Store!Contract!Init /\ Codex!Contract!Init
    /\ [][/\ part \in {"herdr", "terminal"} => Herdr!Contract!Promised
          /\ part \in {"inbox", "typed"} => Inbox!Contract!Promised
          /\ part = "store" => Store!Contract!Promised
          /\ part = "codex" => Codex!Contract!Promised]_allVars
    /\ Inbox!InboxTellsTheTruth
    /\ [](part = "codex" => Codex!NoHelperOutlives)

\* Whatever fails, and whatever another program puts in the way, an installation leaves the version before or
\* the new one whole, and what is not its own untouched.
PlacesStand ==
    /\ part = "upgrade" =>
          Renaming!PreviousStays /\ Renaming!TheirsStays /\ Renaming!FailureRestores /\ Renaming!CommitIsWhole
    /\ part = "plain" => Plain!PreviousStays /\ Plain!TheirsStays /\ Plain!FailureRestores /\ Plain!CommitIsWhole
    /\ part = "widget" => Widget!WidgetsStand

\* What is shown of the recording key is bound, a session is shown once with its newest process, and the chosen
\* session is found wherever it runs; the wheel follows the choice, shows the present list, and comes to rest on it.
ShownIsTrue ==
    /\ part = "keys" => Bound!KeysAreBound /\ Bound!ClosedIsClean
    /\ part = "restarts" => Restarts!SessionsAreShown
    /\ part = "switches" => Switches!SessionsAreShown
    /\ part = "threads" => Threads!SessionsAreShown
    /\ part = "conversations" => Conversations!SessionsAreShown
    /\ part = "panes" => Panes!SessionsAreShown
    /\ part = "chosen" => Chosen!WheelStands
    /\ part = "dial" => Dial!WheelStands

\* Recognised words are those of the whole recording, or an error, and nothing of a recognition runs on after its
\* close.  Dictated text arrives once, is called pasted only when it arrived, replaces only what was selected for
\* it, and goes elsewhere only when the focus moved after the last look at it.
TextIsExact ==
    /\ [](part \in {"commits", "uncommitted"} => Commits!StreamStands)
    /\ [](part = "segments" => Segments!StreamStands)
    /\ [](part = "deltas" => Deltas!StreamStands)
    /\ [](part = "resident" => Resident!SpeechStands)
    /\ [](part = "batch" => Batch!SpeechStands)
    /\ [](part \in {"inserting", "again"} => Inserting!InsertionIsExact)
    /\ Inserting!StraysOnlyWhenMoved
=============================================================================
