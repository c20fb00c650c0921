# Mluva: formal models

Mluva records speech, recognizes it and delivers the text: into the focused
window, into a note that an account shares between devices, or, spoken after
choosing a session on a wheel, as a message to a coding agent. This directory
holds TLA+ models of the parts where several actors share state, TLC
configurations that check them on small instances, and proofs that the TLA+
proof system checks for every value of the constants. Every definition is
translated from the source under `src/`; `PROJECT.json` names the lines.

## The system

| Component | State it keeps | Operations and interactions | Hard behaviour | What makes it correct |
| --- | --- | --- | --- | --- |
| Delivery intent, `mluva-core/src/agent_voice.rs` | one attempt: phase, recipient, disarm reason, deadline | begin, release, recognized, disarm, abandon, observe, take_submission, send_now, delivered, taken | a one-shot permission across five threads of events | given once, used or lost once, never to another recipient |
| Agent controller, `mluva-gtk/src/agent_voice_controller.rs`, `cli.rs`, `wheel.rs` | settings, targets, discovery generation, the attempt, steps already reported | GTK signals, D-Bus CLI requests, a 100 ms tick, background discovery and delivery | results that come back after the state they were asked under has changed | the newest choice wins; every outcome reaches its own History row |
| Application capture handlers, `application/lifecycle.rs`, `capture_controller.rs` | the current capture and the attempt it belongs to, waiting for a spoken update | record key, agent key, Cancel, capture callbacks | two state machines (capture, attempt) moved by the same keys | neither is stopped without the other |
| Capture session, `mluva-workflows/src/capture.rs` | phase, audio backend, speech stream | prepare, request_cancel, begin_stop, complete, shutdown on worker threads | cancellation racing a stop, a stream failing while audio queues | audio is kept or removed exactly once |
| Dictation completion, `mluva-workflows/src/dictation.rs`, `mluva-core/src/delivery.rs` | History row, retained audio | complete, record_failure, retry | a failing step after an earlier one took effect | nothing recognized is lost; audio survives until text does |
| Target identity and discovery, `agent_target.rs`, `agent_targets.rs` and siblings | what a sighting says of a session, the last pass | same_instance, route, discover | identity over sightings with missing fields, torn files | no session is shown that is not there, the choice follows its own |
| Transports, `herdr.rs`, `claude_inbox.rs`, `antigravity/queue.rs`, `codex/queue.rs` | one call | deliver, watch for taken | a write whose answer is lost | certain and uncertain outcomes are told apart |
| Session wheel, `agent_session_wheel.rs` | page, dial, entries | open, turn, pick | sessions that change under the pointer | what is picked is what was lit |
| Text insertion, `text_target.rs`, `terminal_target.rs`, `atspi.rs` | the focused target | track, verify, insert, retry | focus changes between check and insert | text goes only where it was aimed |
| Recognition, `realtime.rs`, `stream.rs`, `batch_preview.rs`, `local.rs` | audio queue, words, a model process | open, feed, finish, cancel | stalls, early ends, two owners of one process | words are whole, nothing goes on after the end |
| Account sync, `account.rs`, `account_controller.rs` | notes, a ledger of revisions, reviews | sync, share, keep, sign in and out | two writers of one note, answers after a sign-out | no edit is silently lost, private notes stay |
| Hosted companion, `hosted/server/service.mjs`, `hosted/web/` | receipts, rows, edits; a browser tab's draft | post, put, delete, list, live words | read now, write later; reloads | transactions refuse what changed meanwhile |
| Phone microphone, `phone.rs`, `external.rs`, `mluva-web` | a numbered chunk stream | start, chunk, stop, cancel, retry | duplicates, late chunks, reloads | audio is in order and complete |
| Meetings, `meeting*.rs` | session, audio, index | start, stop, upload, retry, quit | crash and quit at any step | audio is in the archive, named or erased |
| Shortcuts, annotation, installation | portal sessions, bindings, files | rebind, draw, publish and roll back | handover, orphans, partial failure | one key bound; nothing is left behind; what was there comes back |
| History stores, local assets, inference, settings, widgets, macOS | rows, files, forms | | sequential | not modelled, see below |

All GTK handlers run on one thread, each to completion; provider, audio and
delivery work runs on a background runtime and posts its result back. The
models keep exactly that: one action per handler, and a start and a result
action for everything that runs in the background.

## Modules

| Module | What it is |
| --- | --- |
| `VoiceRoute` | the methods of `VoiceRoute` (`agent_voice.rs`) as operators on one attempt |
| `AgentRoute` | the controller and the capture handlers around that attempt; EXTENDS `VoiceRoute` |
| `OneShotDelivery` | the abstract promise: one permission, given once, lost or used once |
| `CaptureOwner` | who may open a microphone while spoken updates end |
| `CaptureSession` | one recording from its preparation to its end, with its owner thread |
| `HostedHistory` | the history routes of the account's service, with their transactions |
| `AccountSync` | devices that sync notes with it; EXTENDS `HostedHistory` |
| `WebDraft` | a browser tab that edits and dictates notes; EXTENDS `HostedHistory` |
| `LiveText` | live words from a desktop or a browser through the service to receivers |
| `PhoneStream` | one recording of the phone: page, companion and desktop |
| `TransportContract` | what a transport may report of a message |
| `HerdrPrompt`, `InboxDelivery`, `AntigravityQueue`, `CodexQueue` | the four transports that write by themselves, shown to keep it |
| `Discovery`, `SessionWheel` | which sessions are found and shown; the wheel that offers them |
| `TextInsertion` | a text inserted into a field while the person moves |
| `RecognitionStream`, `LocalSpeech` | recognition by a realtime provider; by a model on this computer |
| `Meeting` | a Meeting from the press to its archive |
| `Shortcuts` | the recording key over portal sessions |
| `AnnotationBindings`, `InkOverlay`, `AnnotationBundle` | temporary bindings, ink and pictures, and the bundle of an annotated recording |
| `InstallTransaction`, `WidgetInstall` | staged replacement with rollback; the widgets |
| `MC*` | the instances TLC checks |
| `AgentRouteProofs`, `CaptureOwnerProofs`, `CaptureSessionProofs`, `AccountSyncProofs`, `DesktopProofs` (transports, annotation, installation), `StreamProofs` (`LiveText`, `PhoneStream`), `WebDraftProofs`, `MeetingProofs` | what the proof system checks |

An operator whose comment starts with "Mutated:" is not part of a model: it is
the wrong form of the definition after it that `PROJECT.json` swaps in to see
that a property notices.

### VoiceRoute, AgentRoute, OneShotDelivery

`VoiceRoute` has one operator per method: `MayBegin` and `Begun`, `Release`,
`Recognized`, `Disarm`, `AbandonCapture`, `Observe`, `RecordingTimedOut`, `Due`,
`TooLate`, `TakeSubmission`, `Delivered` (with `Settled`), `TakenBy`. An attempt is a record with the fields the Rust struct
keeps; a text is one of a few lengths (what the transports' limits tell apart), a
session is an identity, and what discovery sees of it is one of a few sightings
(each transport level, blocked, missing).

`AgentRoute` is one action per GTK handler, run to completion with the `render`
it ends in; `Render` is where the History row is written, once per attempt and
step (`reported`). State and code:

| Variable | Code |
| --- | --- |
| `attempt`, `reported`, `rows` | `VoiceRoute::attempt`, `reported`, the rows' `delivery_outcome` |
| `selected`, `enabled`, `switches`, `targets`, `poll` | agent settings, running `agents select` requests, discovery and its generation |
| `cap`, `wheel`, `editor` | the capture and its attempt, the session wheel, the document on screen |
| `flights`, `watches` | deliveries and taken-watches on the background runtime |
| `gap` | the wall clock minus the last tick |

`Person` collects keys, window and CLI; `Finder` discovery; `Recorder` the
results of a capture; `Transport` and `Watcher` the results of a delivery. What
the history variables hold (`begun`, `chosen`, `stopped`, `handed`, `fate`, `asked`,
`applied`) is what really happened, against what rows and attempt say.

`OneShot` is refinement: under the mapping `Intent`, every step of `AgentRoute`
gives, loses, uses or settles the one permission of `OneShotDelivery`.

### CaptureOwner

One action is one handler of `lifecycle.rs`, `meeting_controller.rs` or the agent
controller. `jobs` are the spoken updates; each waits for the one before it
(`prior`), fetches and plays, and a cancelled one still has a player to reap.
`waiting` is `capture_audio_waiting`, `deferred` the Meeting's `waiting_playback`,
and `requests` are the tasks that await the end of a spoken update; each looks at
its flag, not at whose it is. The attempt is only its phase here.

### CaptureSession

The tasks of a session (prepare, complete, every cancel, exit) share one thread:
what runs between two awaits is one action, and `pc` says where each task awaits.
They take turns at the session's mutex (`lock`: its holder, then those who wait,
first come first served). `request_cancel`, `begin_stop` and the controller's
handlers run without that lock. The owner thread of the microphone runs beside
them and serves `requests`; a caller that is dropped does not take its request
back. `close` is the last request and what was asked before it is served first.

| Variable | Code |
| --- | --- |
| `phase`, `cancellation` | the phase behind its own lock, the cancellation token |
| `requested`, `cancelled`, `outcome` | `microphone_requested`, the first `CaptureCancelled`, the result of `complete_locked` |
| `realtime`, `heard` | the recognition session, what it returned |
| `requests`, `answers`, `service`, `mic`, `pcm`, `file` | the owner's channel, its replies, its thread, microphone, first sample and audio file |
| `owns`, `said` | the controller's `active`, and the ends it was told of |
| `delivered`, `row` | what the target and History got |

Taken as given: removing a file the session owns succeeds; sound that was sent
counts as sent when the bytes leave (the code counts after the write); whether an
appendix follows a recognition is left open. Exit while recording erases the
audio, exit while recognizing keeps it under the policy and writes no row: both
are what the code does. Left out: appending to a conversation, retry, previews,
diagnostics and how long a recording is.

### HostedHistory, AccountSync, WebDraft, LiveText

A request of `HostedHistory` is taken in up to three steps: the login is checked
and the receipt read (`sent` to `read`), the row is read (`looked`), and the transaction
commits, with the conditions of `aws-store.mjs`. What was read may have changed before
each next step. A call whose answer is lost goes on as a slot that nobody hears
(`Unheard`). A device of `AccountSync` is `local` and `typed` (its notes), `ledger`
(`account_notes`: the base revision, the frozen edit that is being uploaded, and whether
the note came from elsewhere), `held` (the ledger of a sign-out that could not clear it), `conflict` (the reviews on
screen) and `task` (the sync that runs, with what it has still to upload). `consent`, `met` and `overdue` are history: what a
device was allowed to upload, the newest revision it has had, and the reviews that a sync put up after its login was over. A merge of two
texts, paging, preferences, titles and audio are left out.

`WebDraft` is one tab: the save task and what it goes on with, the history list under way, the
recovery copy on disk (`storage.mjs`) and reloads. `LiveText` follows every message of
live words from the settled parts through the wire, with breaks and resends, the
route's two steps and the receivers' reloads.

### PhoneStream

The page numbers half seconds of sound and sends the first of its queue until it
is acknowledged; the companion carries the request to the desktop, which takes
one at a time; `calls` holds each request and its answer, and one stray request whose
answer nobody waits for. Chunks are their numbers, so `audio` shows order and gaps. The
page, the companion and the desktop may each end once.

### The transports

`TransportContract` has one action per outcome: what may be reported of a message given
how often it reached the session and whether an agent took it. `HerdrPrompt` (the
prompt to a pane of Herdr or of Herdr Core, with the server's memory of operations over restarts),
`InboxDelivery` (the frame on a socket, the session's queue and transcript, read as
evidence: a queued text must be equal, a notice that holds a message quotes how it begins, `Begins`), `AntigravityQueue` (a file and its notice in the store) and `CodexQueue`
(a queue behind a daemon or a helper process) each map onto it.
`Discovery` reads processes and registry entries one by one, so a pass may see halves of two moments; `SessionWheel`
shows what it found.

### The rest of the desktop

`TextInsertion` has one action per step of a delivery (retain, look at the target,
paste or insert, confirm) and per thing the person does in between. `RecognitionStream` is
the send task, the reading task, the consumer's call, `finish` and `close_workers` over bounded
channels; `LocalSpeech` the preview worker, two owned requests and the clients that own a
model process. `Meeting` has a start, a finish and a close per session that take
its lock in any order. `Shortcuts` is the service task of each generation.
`AnnotationBindings` follows every `hyprctl` command of a recording and its watchdog,
`InkOverlay` strokes and pictures of one recording, `AnnotationBundle` the files of its marks.
`InstallTransaction` has one action per step of a publication (the first look at the path, the rename of what
is there, the comparison of what was moved, the rename of the new object) with the checks before each, fails or
is killed between any two, and rolls back by its journal.

## What the runs check

A run's module composes instances of modules that share no state: the initial state
says which of them moves (`part`), so one run asks the same question of several parts.

| Run | Instances | Question |
| --- | --- | --- |
| `delivery` | `AgentRoute` | Is a message written at most once, with every transport outcome, stops, resends, silence and edits; does what stopped it hold; is no text lost, and what is shown of it true? Implements `OneShotDelivery`. |
| `cases` | `AgentRoute` twice | Does the newest recipient choice win, and does a message keep its recipient? And what breaks a countdown off (a length limit, a clock set back, a frame held up, Incognito) holds. |
| `owner` | `CaptureOwner`, `AgentRoute` | Can a microphone open over speech or over another one; is every request that waits served, and does every owner and attempt end? |
| `session` | `CaptureSession` | However it is cancelled, stopped, left or broken, does a recording end once, quietly, truthfully, with audio and row where the policy wants them? |
| `account` | `AccountSync` seven times | Edits that cross, a review, a lost call that is repeated while the first is served, a removed device, a second login, a failed sign-out, Incognito: is nothing overwritten, is a deletion final, does private stay private? |
| `hosted` | `LiveText` twice, `WebDraft` three times, `PhoneStream` | Words on their way: whole, in order, somewhere, and written over nothing that was not shown. |
| `desktop` | all modules of the rest of the desktop | see below |
| `endings` | `LiveText`, `WebDraft`, `PhoneStream` | Under fairness: words arrive, drafts are saved, a phone's recording ends on both sides. |
| `settles` | `AccountSync`, the annotation modules | Under fairness: devices agree or ask, an annotated recording leaves nothing behind. |
| `cancel_while_waiting`, `audio_not_in_history`, `rejected_is_unheard` | | the findings below: each checks one sentence of the docs or comments that the code does not keep |

A property of a composed run names its parts:

| Property | Parts |
| --- | --- |
| `BreaksHold` | `AgentRoute`: `HandedTextFits`, `NoSendAcrossABreak`, `PrivateLeavesRows` |
| `LiveWordsAreWhole` | `LiveText`: `ShownWordsAreWhole`, `SequenceIsKept`, `AcknowledgedIsStored` (unless Incognito came in between) |
| `PhoneSoundArrives` | `PhoneStream`: `SoundIsWhole`, `StoppedIsComplete`, `RecognisedOnce`, `CopyOutlivesTheTransfer` |
| `AnnotationsStand` | `AnnotationBindings`: `BoundIsWatched`, `ReadyKeeps`, `ReadyIsBound` (undisturbed); `InkOverlay`: `OwnInkHidden`, `NoStaleInk`, `LedByItsPress`; `AnnotationBundle`: `DeliveredPathsStand`, `OwnedIsWhole`, `NoOrphanBundle`, `EveryMarkIsHanded`, `FramesStand` |
| `PlacesStand` | `InstallTransaction`: `PreviousStays`, `TheirsStays`, `FailureRestores`, `CommitIsWhole`; `WidgetInstall`: `WidgetsStand` |
| `ShownIsTrue` | `Shortcuts`: `KeysAreBound`, `ClosedIsClean`; `Discovery` (each agent's): `SessionsAreShown`; `SessionWheel`: `WheelStands` |
| `MeetingsStand` | `Meeting`: `AudioIsAccounted`, `QuitIsQuiet` |
| `TransportsKeepTheirPromise` | the four transports (Herdr with and without `Core`) implement `TransportContract!Promised`; `InboxTellsTheTruth`, `NoHelperOutlives` |
| `TextIsExact` | `RecognitionStream`: `StreamStands`; `LocalSpeech`: `SpeechStands`; `TextInsertion`: `InsertionIsExact`, `StraysOnlyWhenMoved` |
| `WordsArrive` | `LiveText`: `EverythingLeaves`, `Arrives`; `WebDraft`: `Autosaves` |
| `PhoneEnds` | `PhoneStream`: `StopsTogether`, `Abandoned` |
| `AnnotationEnds` | `AnnotationBindings`: `BindingsGo`, `RestartCleans`, `WatchdogCleans`; `InkOverlay`: `InkAppears`; `AnnotationBundle`: `Delivers` |

Every property of a passing run has a mutant in `PROJECT.json`: a plausible bug of
the code under which the same run fails.

### Bounds

- **Agent route.** Two attempts are the fewest with a resend, a second recording
  beside a delivery, and a queued message seen taken under a newer attempt. Two
  sessions and two choices (`cases`) are the fewest in which an older choice can
  undo a newer one; sessions are symmetric there. Two units of recording limit (`delivery`)
  let a tick pass before it. `Spoken` holds the lengths that differ: nothing, fits
  everywhere, too long for a composer link. `Outcomes` and `Sightings` are the
  whole sets where the run is about delivery and one member where it is not.
  The gap to the last tick is capped at two (`MaxGap`): longer gaps are treated alike.
- **Capture owner.** Three spoken updates: one playing, one queued behind it and one
  asked after it. Three requests: two owners waiting and one asked again.
- **Capture session.** One recording, as the controller has one `active`. Two cancel
  presses are the fewest that meet each other in line behind a preparing task. All
  options, both providers' modes and all nine faults are allowed.
- **Account.** One note and two devices: a conflict is between two. Three edits are the
  fewest in which an edit meets the answer of the one before it while another device writes; one
  lost call with a stray slot is the fewest repeated while it is served. Two logins of the device that made nothing
  (with the three edits), a failed sign-out and a time in Incognito have an instance each, and one together (with one edit); there the
  other device stays connected.
- **Hosted.** Live words: from the desktop two segments over a window of two, with one break of the
  connection and a browser that is removed or left; from a browser three of two
  sessions, without breaks; an invocation that ends is in `endings`. Draft: two notes where another is opened,
  texts of up to two words, at most one lost answer, one reload and one edit from elsewhere. Phone: three chunks over a queue
  of one and a file of two, one lost answer, one crash, two ticks.
- **Desktop.** Two recordings (an old one's commands meet a new one), two messages per
  transport (an old one's evidence meets a new one), two sessions, one fault, one kill.
  `Upgrade`, `Local`, `Wire` and `Kind` select the variants of the code, each in an
  instance of its own.

What the proofs cover holds for every value of these bounds.

### Fairness

- **Agent route:** GTK's 100 ms timeout (`Tick`) and time go on; a capture task
  ends, since the calls it awaits have timeouts; a delivery's outcome is applied.
  Nothing is assumed of the person, of discovery or of a taken-watch.
- **Capture owner:** a player that was asked to stop is reaped (it is killed after its
  grace period), a task whose spoken update ended is polled, and the recording
  limit comes.
- **Capture session:** each task is polled again when what it awaits is there, one
  weak fairness per task, which is what an executor gives; the owner thread serves
  its queue; the first sample or its three-second limit comes; a stream that was
  asked to close does, by its own deadline. The lock needs no fairness: its line is
  in the state.
- **Account and browser:** a call is served or times out, its answer is handled, a sync
  that was spawned goes on, timers fire. People need do nothing.
- **Live words:** wire, route and receivers go on; every call has a deadline in the code.
- **Phone:** page timers, requests, the desktop's timer and its work. A lost answer is an
  error the page sees.
- **Annotation:** a `hyprctl` process ends (it has a timeout), the work of a session goes
  on, images are captured or refused, the thread that writes a bundle ends. Only
  `RestartCleans` assumes that Mluva is started again.

`CHECK_DEADLOCK FALSE` is set everywhere: with the bounds used up, Mluva closed or
the recording over, the models may stop.

## Findings

Checked by a run each:

1. **`CancelStopsRecording`** Cancel while an agent dictation waits for a spoken update
   leaves its attempt recording, without a capture, until the five-minute limit.
2. **`HistoryRecovers`** When the microphone's recording cannot be finished, audio is
   kept but no History row names it, while the status sends the person to History.
3. **`RejectedIsUnheard`** A prompt to a terminal of Herdr Core whose answer is late was typed into
   the pane and is reported as rejected, which offers to send it again.

### Observed disagreements

Met while modelling, each against a sentence of a doc, comment or message, confirmed on a small instance but without a run
that stays. A property in brackets is kept, unused, in the module it is about.

- **Sign-out.** `select!` may poll the operation of a stopped sync once more, and its answer puts up a review row
  after the sign-out (`account_controller.rs:498`), which survives into the next login. Taking the account's version there, when
  the note was deleted here, brings in a note of another device that is not marked as imported, so the next
  sign-out leaves it, against `docs/verification/account-sync/review.md:10`. `SignedOutClean` names this step (`overdue`) and
  allows no other. After a sign-out that could not clear its ledger, Incognito on and off offers to sign in
  again (`:824`), although the status asks to "Retry Sign out before connecting another account"; a restart forgets that ledger.
- **Agent route.** Closing during a countdown writes no outcome (`EveryEndIsRecorded`, `agent_voice_controller.rs:1191`); a
  silent recording that was disarmed loses its `no-speech` (`SilenceStaysNoSpeech`, `agent_voice.rs:275`).
- **Captures.** A recording taken back while it waited consumes the flag of the next one and starts in its place
  (`WantedOpens`, `lifecycle.rs:294`).
- **Account.** A delayed first save writes a note again whose tombstone carries no `historyKey`
  (`LateSaveStaysDeleted`, `service.mjs:482`); a device that is alone with its notes may be asked to review its own
  repeated edit (`NobodyElseChanged`, `account_controller.rs:492`); a review that stayed on screen brings a deleted note
  back (`DeletionReachesEveryone`, `:614`); a recording saved around a sign-in is taken for an old one
  (`NewRecordingIsShared`, `:319`); "Use the account version" while an edit is on its way can bring older words back.
- **Live words.** An error of the route with 401 or 403, for one session, signs the desktop out (`StaysSignedIn`, `:680`); a
  desktop shows words past a gap (`DesktopReportsMissing`, `:859`); what is queued leaves although Incognito is on
  (`IncognitoIsQuiet`, `:670`); after Incognito a desktop's words may be dropped behind an acknowledgement
  (`AcknowledgedIsStored`, `:921`); a late failure silences the next recording of a browser
  (`NewRecordingIsSent`, `app.mjs:579`); when the service fails twice, a receiver may be told nothing.
- **Browser draft.** An edit in conflict stays unsaved after "later" (`NothingStaysUnsaved`, `app.mjs:1384`); the save of a
  recording that is cancelled may be on its way already (`CancelledIsNotSaved`, `:1317`); the answer that a note was deleted
  marks the note opened since (`DeletedIsThisNote`, `:716`); one recovery copy per login, which another note or tab
  overwrites (`RecoveryStays`, `storage.mjs:29`).
- **Phone.** Silence is counted from the request, not from the recording (`WatchWaitsForSound`, `application/phone.rs:196`); some
  recordings can be retried for ever (`RetryTransfers`, `web/app.js:183`).
- **Annotation.** A stop while the bindings are being added can leave them (`StopAlwaysRemoves`, `session.rs:222`); turning the
  setting off removes, late, the bindings of a session begun since (`ReadyIsBound` without the instance `Confirmed`, `annotations.rs:174`; `ReadyKeeps` names what may) and the
  images a summary still reads (`FramesStand` with a switch, `:164`); bindings may be added after the portal session ended
  (`AddedWhenRegistered`, `:226`); an image may show other ink (`FramesAreClean`, `session.rs:505`); an interrupted bundle may be
  recovered as a conversation (`QuitLeavesNothing`, `core/annotations.rs:312`); the late command of an interrupted first
  recording removes the second's bindings; an orphaned `hyprctl` after a crash may land after the watchdog.
- **Discovery.** A choice seen without a start time follows another process (`NeverTakenOver`,
  `agent_target.rs:441` against `herdr.rs:564`); one session in two processes gets the newest entry's process twice.
- **Transports.** A Codex message reported as unconfirmed may stay queued; the inbox tells `queued` by
  text alone, and `held` by any notice that quotes a beginning of the text, so another's message may be taken for it
  (`claude_inbox.rs:389`); Antigravity's lock may be released between the check and the write.
- **Shortcuts.** Two overlapping restarts orphan a service; a key changed away and back shows as not approved although
  bound; a session the desktop closed still shows as ready.
- **Meetings.** Quitting during an upload erases its audio; a kill leaves recorded parts
  without a row; a failed index save during shutdown leaves audio nobody is told of; a retry overwrites a
  title saved meanwhile (`SavedTitleStays`).
- **Text insertion.** In Firefox an insertion is confirmed when the selection was as long as the text; a retry
  deletes at the old selection; a stale tracker takes the focus back.
- **Recognition.** A consumer taken before a cancel may be called after it; `finish` waits its whole deadline after a late
  failure; words ElevenLabs answers to an empty commit are dropped; a local model process may outlive `closed` when the task
  that closes it is dropped; the offset subtraction after an overflow wraps in release builds.
- **Installation.** A launcher replaced between preflight and snapshot is taken for the original and removed at
  commit; preferences changed meanwhile are overwritten; a plain install reports a signal as failure after its
  commit; a kill between two renames leaves the backup only in `.mluva-install-*`.
- **Wheel.** After a clamp the rendered page keeps the page before it until the next turn (cosmetic).

## What is proved

`tlapm` checks every proof to the last leaf, with the named assumptions on the constants
(`...Assumption` in each module) and nothing else; the proofs hold for any number of sessions,
notes, devices, presses, updates and any bounds.

| Theorem | Says |
| --- | --- |
| `AgentRouteProofs!TypeCorrect` | type correctness |
| `AgentRouteProofs!StoppedStaysUnsent`, `RecipientIsFixed` | `StopHolds`, `NeverRetargeted` |
| `AgentRouteProofs!WrittenOnce` | `NeverWrittenAgain`: what may have reached its session is not handed over again |
| `AgentRouteProofs!NothingLost`, `ShownTrue` | `NothingIsLost`, `WhatIsShownIsTrue`, while Incognito is not switched |
| `AgentRouteProofs!SelectionFollowsNewest` | `NewestChoiceWins`, an action property |
| `AgentRouteProofs!HandedOverWhole`, `BrokenTimingSendsNothing`, `IncognitoWritesNothing` | the three parts of `BreaksHold` |
| `AgentRouteProofs!AttemptKeepsItsCapture`, `FlightIsShown` | attempt, capture and delivery stay together |
| `AgentRouteProofs!ImplementsOneShot` | `OneShot`: the refinement, step by step |
| `CaptureOwnerProofs!QuietMicrophone`, `MicrophonesApart`, `VoicesApart`, `NothingOverlaps` | no microphone over speech or another microphone, one voice at a time |
| `CaptureOwnerProofs!NoFlagForgotten`, `CaptureHasItsAttempt`, `NobodyIsForgotten` | a raised flag has its task, an agent recording its attempt |
| `CaptureSessionProofs!QuietEnd`, `ReportedOnce` | `EndIsQuiet`, `OneReport` |
| `CaptureSessionProofs!NothingAfterExit` | `ExitDeliversNothing`, an action property |
| `CaptureSessionProofs!ToldCancelIsTrue`, `AudioAccounted` | `CancelIsTruthful`, `AudioIsAccounted` |
| `AccountSyncProofs!AccountTypes`, `DeletedStaysDeleted` | type correctness, `DeletionIsFinal` |
| `AccountSyncProofs!NothingOverwritten`, `RemovedLoginWritesNothing` | `NothingIsOverwritten`, `RemovedWritesNothing`: action properties over requests in flight |
| `AccountSyncProofs!UploadsAreShared` | only what was shared is uploaded |
| `AccountSyncProofs!SignedOutOwn`, `PrivateHeld` | `SignedOutClean`, `PrivateStays` |
| `DesktopProofs!StoreKeepsItsPromise`, `HerdrKeepsItsPromise`, `CodexKeepsItsPromise`, `InboxKeepsItsPromise` | the refinements of `TransportContract` in `TransportsKeepTheirPromise` |
| `StreamProofs!SoundArrives` | `PhoneSoundArrives` |
| `StreamProofs!PhoneTypeCorrect` | types, the queue's and the file's limits |
| `StreamProofs!WordsWhole` | `LiveWordsAreWhole`: what is shown is the beginning of what was said, and what is stored is in order |
| `StreamProofs!LiveTypeCorrect` | types, the channel's capacity |
| `WebDraftProofs!EditsReplaceTheShown` | `ReplacesWhatWasShown`, an action property over requests in flight |
| `WebDraftProofs!NoWordsAreLost` | `WordsAreSomewhere`, while `Alone` |
| `MeetingProofs!MeetingAudioStands` | `MeetingsStand`: audio is in the archive, named or erased; nothing runs after quitting |
| `MeetingProofs!MeetingTypeCorrect` | types, the archive's limit |
| `DesktopProofs!HelperDiesWithMluva`, `InboxSpeaksTruth` | its parts `NoHelperOutlives`, `InboxTellsTheTruth` |
| `DesktopProofs!BundlesStand`, `ImagesShowNoStaleInk`, `BoundAreWatched`, `ReadyAreKept` | the parts of `AnnotationsStand` but `ReadyIsBound`, each over its module |
| `DesktopProofs!BundleTypeCorrect`, `InkTypeCorrect`, `BindingsTypeCorrect` | their types, the room for images, one session that can be drawn on |
| `DesktopProofs!OwnersKeepTheirs`, `InstallsWholeOrNot`, `WidgetsAreKept` | the five parts of `PlacesStand`, each over its module; `SetupInvariant` adds the types |

**AgentRoute.** A stopped message is unsent only because a disarmed attempt can never
count down again. `Follows(a, b)` is that fact about the methods of `VoiceRoute`:
whatever handler ran, the attempt is the same message to the same session, no
further back in its life, and never re-armed. Each method's lemma says it follows,
and `Halted` says what stopping leaves. `Permission` in the inductive invariant
`IInv` then relates the attempt to `stopped`, `handed` and `chosen`; the types are split
by group so that a handler disturbs few.

What becomes of a message needs more than `IInv`: `MInv` says what a delivery on its way
(`FlightInv`), the capture (`Owned`), the History row (`RowInv`, and `ReportInv` for the word
that a step has written) and a running recipient choice (`ChoiceInv`) may be beside the attempt.
Thirty handlers would disturb each of these in their own way, so a step is first shown to be of one of a
few kinds (it holds or stops the message, leaves it alone, begins another, hands it over,
settles it), and each kind keeps each part. The refinement uses the same kinds: each
is one action of `OneShotDelivery`, or none. Rows and shown words are proved under
`[][incognito' = incognito]_vars`: a switch during a delivery leaves its row behind, by design, and the run
`cases` checks what holds then (`PrivateLeavesRows`, which is proved without the condition).

**CaptureOwner.** `stop_voice` asks only the newest spoken update, which is enough
because of `Queue`: whatever comes after an unfinished one is still queued, so
the newest speaks for all of them (`NewestSpeaksForAll`). `Calm`, `Named` and `Owned`
add what the waiting requests know.

**CaptureSession.** The safety properties are about the ends, which five kinds of task
can bring. `LockInv` gives that the holder of the lock is the only task between two
awaits inside the session, and that whoever waits is in line. With it `EffectOf`
describes every task step in the same few terms (where it goes, what it does to the
phase, the stream and the reports), proved once per action, and the invariant is
shown against those terms: `Order` (which tasks exist in which phase), `Ending` (the
stream is over before the owner is closed, and the owner before the phase ends),
`Reporting` (who owns the recording) and `OwnerInv` (`close` is the last request).
No part is inductive alone: a recording is quiet after its end because no preparing
task is left to open anything, which is `Order`, which rests on the lock.

The file and the row need the owner's queue: `start` is asked for once and never behind
a `cancel` (`StartInv`), a file exists only between them (`FileInv`, `EraseInv`), and `AudioInv` and
`CancelInv` say which task may still name, erase or report it. `SoundInvariant` is their conjunction with
`IInv`.

**AccountSync.** `Inv` has three parts. `Reads` is about the service: the shape of every table, and for each
request on its way (`SlotInv`) that it carries only what its device agreed to and a base
revision its device has had (`met`), and an answer only what was shared. `NoteInv` says the same of what a
device keeps of a note: a frozen edit is over a revision it has had. `TaskInv` says it of the sync that runs.
`NothingOverwritten` follows because a transaction compares the revision that was read with the base of
the edit, and `SlotInv` ties that base to `met`, however often the request was lost and repeated. What a sign-out leaves is a
second invariant, `OwnInv`: whatever came from another device is marked as imported, through failed sign-outs too, or was taken from a
review that was `overdue`. That a review still on screen is of this login, or marked as `overdue`, is a part of it.

**The transports.** Each refinement needs an invariant that says where a message is. In the Antigravity store it is
the file: none before the rename, one ever after. For Codex every message is in one
place (`Placed`: on its way, in the queue, in a turn that begins or in one), and what is said of it agrees. A Herdr
request that was not read has left no trace, and what the server remembers of an operation is what became of its text
(`HerdrInv`). What a Core terminal calls rejected without an answer is in `blind` and counts as unconfirmed: the code breaks the promise
there, and only there (`rejected_is_unheard`). The inbox has no answer, only a
transcript that others write too: `Sure` says that as
long as no record can be of another message (by its text, or as a notice by how it begins), one that may be of this message shows that it
arrived, and `EvidenceIsWritten` that what was read stands there. Messages are numbered from 1 (`Numbered`), as 0 stands for none in those modules.

**PhoneStream.** The sound is whole because the desktop counts it (`SoundIsWhole` is inductive by itself). That a stopped recording is
complete needs both sides: Stop is sent with the count of all chunks and only after the last one (`Counting`, which
rests on `Numbering`: a page that did not fail has numbered every chunk), so a desktop that accepted it has them all
(`StopCounts`). That it is recognised once rests on who may still do it: `Beginning` says that at most one request can yet
begin the recording, the stray one of a lost answer included, and only while nothing was begun; `Recognising` that the desktop's work
and the companion's job exclude each other. `Limits` adds the queue and the file to the types. A step is first shown to be
of a few kinds (the page turns or goes on, a request is answered, the desktop works, something is cut off), and each kind
keeps the invariant.

**LiveText.** A receiver looks at the number of a message only, so what it shows is right because of what is stored.
`LogInv` says that a session is stored as messages numbered from 0, the first of them "started", and which words were settled after each;
`CommitInv` that a transaction under way still fits behind the message it has read. What is on its way to a receiver is stored (`StoredInv`),
so a browser that met no gap shows what was settled after the last message it has (`ViewInv`), which is the beginning of what was
said. An acknowledged message is stored because no other has its session and number (`UniqueInv`): a resend is the message itself.
That part is proved while Incognito was not switched, as is the property: a session goes on under the same numbers after it.

**WebDraft.** A save goes on after each answer although the draft may have been left meanwhile. `PutInv` is what
`EditsReplaceTheShown` needs: an edit on its way is based on a version the tab showed, or its note will never be
in the account (`Never`), and then the service refuses it. It holds because the draft, its copy and the review name
such versions only (`VersionsInv`, `ReviewInv`), and another note's version only while the note is not posted (`ForeignInv`). `SaveInv`
ties the save to its request, `RequestsInv` and `AccountInv` tie answers to the account, and `FreshInv` says that an
identifier not given yet was used nowhere. A step is first shown to be of a few kinds (it changes only what is typed or counted, turns
to another note, ends a save, serves a request), and each kind keeps the conjunction, `ShownInv`. Where words are is a second
invariant over it, `TextInv`: what was last written in a note is accepted or thrown away, or it is on the screen, and
then in the copy on disk once 150 ms have passed. `Alone` is the one condition: another tab may store its empty
draft over the copy (`RecoveryStays`, among the disagreements above), and loading the page again finds that.

**Meeting.** A session has three tasks that take its lock in any order, so `TasksInv` says which of them holds the lock, how far each is,
and what the recorder then is. `AudioInv` ties the audio to it: none before the recorder runs and after it was closed with nothing kept,
and a row only of a recording that is kept. That an upload, a retry or a quit do not meet rests on `OwnerInv`: a session that holds
its lock, or may still take it (`Busy`), is the one the controller shows, or the program closes and waits for it. So no retry saves a row beside
a session (`NoRetryBeside`), a retry under way is of a row that stands (`RetryInv`), and what was called cancelled was not uploaded (`NoticeInv`).
What a killed program left is told apart (`Gone`), as its audio may stay without a row. A step of a task changes one session,
a change of the archive leaves each session, or takes its row and its audio together (`RowGoes`).

**The annotation.** Three modules over different state, so three invariants. *Bindings:* a command that adds or removes may be
carried out long after its session. `BindKnown` says how far a session is whose bindings or commands are still about, and `BindWatch` that,
as long as nothing failed, its watchdog waits until the session is dropped and goes only when the bindings are gone. That gives
`BoundAreWatched`. `ReadyAreKept` needs `BindKept`: a removal under way is of a session that was stopped, or whose addition failed, or
that died, and such a session takes no ink again. So what may still take the bindings of one that does is the cleanup of a start or of the
setting, or another session's addition: the disagreements above. It holds with interrupts, switches, exits and kills; that a recording left alone
keeps them at all (`ReadyIsBound`) is checked on the instance `Confirmed`.
*Ink:* an image is taken of the screen as it is, so it is free of old ink because of what may be on a screen. `PressInv` says that every line is of
the press under way, `ImagesInv` that the mark of an image is hidden until it is taken, and so what an image saw is of its own press or later, and
`FirstInv` which stroke a late pointer reading may lead. `RoomInv` counts images under way with those that are kept; the bound is checked before a capture
begins, so both together stay within it. *Bundle:* `TaskInv` says how the session, the summary and the program go together,
`BundleAt` what stands on the disk at each point of the summary, and `BundleInv` the same after it: a directory holds no more than the thread has
written (`Behind`) and has a row, and a bundle that was told of or is owned is whole. Marks are numbered in turn (`MarksInv`), which makes what is handed over
countable (`HandedInv`). `FramesStand` is proved while the setting is not switched, as the run checks it: switching off removes frames that are being read.

**Installation.** An object that another program puts at a path gets a number of its own, so a snapshot that has not read it cannot hold it
(`TheirsInv`): a comparison with the snapshot finds it, and until then it is at the path or was moved aside a moment ago. That a publication may
move something aside at all needs `PublishInv` (it works at the newest change of its path, which nothing has used) and `JournalInv` (the journal
is numbered in the order of the plan, whose steps `Order` lists for both kinds of installation). The rollback keeps both properties because it removes
only what the journal numbers, and what it cannot put back it leaves in its private directory (`Somewhere`).
`InstallsWholeOrNot` needs more: undisturbed, the changes of a path follow each other from what was found to what is there (`Links`), so the
last is always the installer's own and undoing it uncovers the one before; only the publication at hand is `Halfway`. `NotedInv` says that directory,
state root and service are as found or noted, `ReachedInv` and `DeskInv` how far the plan has come. The widget's invariant lists its directories per phase.

**Only model-checked.** Liveness (`OwnersEnd`, `EveryWaitEnds`, `SessionEnds`, `Converges`, `WordsArrive`, `PhoneEnds`,
`AnnotationEnds`): fairness and ENABLED are out of the prover's reach, as is induction over data. The modules of
the run `desktop` except the transports, `Meeting`, the annotation and the installer (so `ShownIsTrue`, `TextIsExact`),
and the types of composed modules. `AnnotationsStand` and `PlacesStand` themselves, conjunctions over the instances of the run, are checked; their
parts are proved, but for `ReadyIsBound`.
No module uses a RECURSIVE operator.

## Not modelled

`PROJECT.json` lists every component with its reason. Inference, widgets, provider wire
formats and settings forms keep no shared protocol state; SQLite's atomicity is the
engine's. The macOS shell shares `VoiceRoute` but owns captures in Swift. Inside the modelled parts these are left out:

- a failing `mark_delivered`, and the key-repeat window of CLI requests (agent route);
- appended conversations, previews and diagnostics (capture);
- merges of texts, paging, preferences, titles, audio and the browser's sign-out (account);
- a retry on the computer that races an upload, disk faults while appending, and a phone recording that is asked for while a
  spoken update ends (phone);
- composer links, process tables, session titles, helpers' epochs, and more than one followed choice (discovery);
- geometry, drift, the choice of key frames, sharing (annotation); layout and captions (wheel);
- the plain uninstall, package managers, failing restore commands; the ownership check of an object and its
  snapshot are one step, and so are the comparison and the rename of a retirement, and the comparison and the removal of a rollback (installation).

## Plan

The core and its neighbours are modelled; what is left, in this order:

1. A proof of `Shortcuts` and `SessionWheel` (`ShownIsTrue`).
2. A phone recording that waits for a spoken update: `PhoneStream` over `CaptureOwner`.
3. Merges of texts in `AccountSync`, and the native audio upload.
4. An abstract specification of a recording (it ends once, as text, as retained audio
   or as discarded) that `CaptureSession` implements.
5. Local model assets: resumed downloads and their verification.
