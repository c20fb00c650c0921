------------------------------ MODULE WebDraft ------------------------------
(***************************************************************************)
(* The draft of the web workspace (hosted/web/app.mjs, storage.mjs): what  *)
(* is typed or said in one tab, its recovery copy in the browser, and its  *)
(* way into the account.  The tab runs to its next await; in between come  *)
(* the user, the answers, other devices, other tabs and reloads.           *)
(*                                                                         *)
(* Titles, original words, audio, merging and sign-out are left out.       *)
(***************************************************************************)
EXTENDS HostedHistory, Integers

CONSTANTS
    MaxText,        \* texts typed or said
    MaxOther,       \* changes made on other devices
    MaxMissing,     \* answers that do not arrive
    MaxReloads,     \* times the page is loaded again
    MaxAsides,      \* times Incognito is switched on
    MaxTabs,        \* times another tab empties its draft
    Records         \* whether the tab records

\* The values the model is meant for.
DraftAssumption ==
    /\ IsFiniteSet(Notes) /\ 1 \in Notes /\ Notes = 1..Cardinality(Notes)
    /\ {MaxText, MaxOther, MaxMissing, MaxReloads, MaxAsides, MaxTabs} \subseteq Nat /\ Records \in BOOLEAN
    /\ {"call", "list"} \subseteq Slots /\ Slots \subseteq {"call", "list", "stray"} /\ Unheard = Slots \cap {"stray"}
ASSUME DraftAssumed == DraftAssumption

VARIABLES
    tab,        \* recordingId, draft, noteState (`base`, a version of note `of`), pendingSave, saved, deleted,
                \* conflictNote (a version of note `about`), autosaveTimer, storageTimer
    task,       \* saveTask: where it waits, its operation, and what keepCurrentDraft goes on with
    mic,        \* "off", "on", "finishing" (Stop), "cancelling", "cancelled" (Cancel before it clears)
    before,     \* continuation.note: the note as it was before the recording, under its own identifier
    load,       \* loadHistory: "no", "on", "again"
    entries,    \* historyEntries
    prefs,      \* the two boxes, Incognito and History
    dialog,     \* the review of conflicting edits is open
    disk,       \* the recovery copy of this login
    last,       \* recording identifiers so far
    spent,      \* texts, changes, losses, reloads, Incognito, other tabs so far
    latest,     \* per note: the newest words that nobody threw away
    accepted,   \* <<note, text>> that the account took
    seen,       \* <<note, revision>> that the tab showed
    quit        \* notes whose recording was cancelled, as the user was told

draft == <<tab, task, mic, before, load, entries, prefs, dialog, disk, last, spent, latest, seen, quit>>
draftVars == <<hosted, draft, accepted>>

Nothing == [note |-> 0, text |-> 0, base |-> 0, op |-> 0]
Empty == [note |-> 0, text |-> 0, of |-> 0, base |-> NoRow, pend |-> Nothing]
NoNote == [note |-> 0, base |-> NoRow]
\* What a draft is left for: nothing, a new one, a recording, or a note of the history (its identifier).
Stay == 0
New == -1
Dictate == -2
Idle == [at |-> "idle", op |-> Nothing, next |-> Stay]
Me == "web"
RecordingOn == {"on", "finishing", "cancelling"}
Recording == mic \in RecordingOn
Saving == task.at # "idle"
Spend(what) == spent' = [spent EXCEPT ![what] = @ + 1]

Blank(n) == [note |-> n, text |-> 0, of |-> 0, base |-> NoRow, pend |-> Nothing, saved |-> FALSE, deleted |-> FALSE,
             about |-> 0, conflict |-> NoRow, timer |-> FALSE, unstored |-> FALSE]
\* openNote: the tab shows a version of a note.
Opened(n, note, unstored) ==
    [note |-> n, text |-> note.text, of |-> n, base |-> note, pend |-> Nothing, saved |-> TRUE, deleted |-> FALSE,
     about |-> 0, conflict |-> NoRow, timer |-> FALSE, unstored |-> unstored]

DraftInit ==
    /\ HostedInit
    /\ tab = Blank(1) /\ task = Idle /\ mic = "off" /\ before = NoNote /\ load = "no"
    /\ entries = [n \in Notes |-> NoRow]
    /\ prefs = [incognito |-> FALSE, retain |-> TRUE] /\ dialog = FALSE
    /\ disk = Empty /\ last = 1
    /\ spent = [text |-> 0, other |-> 0, lost |-> 0, reload |-> 0, aside |-> 0, tab |-> 0]
    /\ latest = [n \in Notes |-> 0] /\ accepted = {} /\ seen = {} /\ quit = {}

-----------------------------------------------------------------------------
\* Pieces

HasWords(t) == t.text # 0 \/ t.pend # Nothing
\* What flushDraft and scheduleAutosave ask.
MaySave(t, m, p) ==
    /\ m \notin RecordingOn /\ ~ t.deleted /\ t.conflict = NoRow
    /\ ~ p.incognito /\ p.retain /\ ~ t.saved /\ HasWords(t)
\* scheduleAutosave: the timer that was set goes in any case.
Scheduled(t, m, p) == [t EXCEPT !.timer = MaySave(t, m, p)]

\* Mutated: a new draft forgets the recovery copy before it is saved.
SnapshotEmpty(t, p) == Empty
\* persist: the copy of unfinished work, or nothing.
Snapshot(t, p) ==
    IF ~ p.incognito /\ p.retain /\ ~ t.saved /\ HasWords(t)
    THEN [note |-> t.note, text |-> t.text, of |-> t.of, base |-> t.base, pend |-> t.pend] ELSE Empty

FreshOp(n) ==
    LET used == {a.op : a \in {b \in applied : b.note = n}}
                \cup {requests[s].op : s \in {s \in Slots : "op" \in DOMAIN requests[s] /\ requests[s].note = n}}
    IN CHOOSE k \in 1..(Cardinality(used) + 1) : k \notin used /\ \A j \in 1..(k - 1) : j \in used
\* A request whose answer was lost is sent again as it was.
Frozen(t) ==
    IF t.pend # Nothing THEN t.pend
    ELSE [note |-> t.note, text |-> t.text, base |-> t.base.rev, op |-> FreshOp(t.note)]

\* One turn of flushDraft: freeze, store the copy, call.
Turn(t, next) ==
    LET o == Frozen(t)
        u == [t EXCEPT !.pend = o, !.timer = FALSE]
    IN
    /\ tab' = u /\ disk' = Snapshot(u, prefs')
    /\ task' = [at |-> "call", op |-> o, next |-> next]
    /\ requests' = [requests EXCEPT !["call"] =
                       Request(IF t.base # NoRow THEN "put" ELSE "post", o.note, Me, o.text, o.base, o.op)]

\* saveDraft: one task at a time.
SaveDraft(t, next) ==
    IF ~ Saving /\ MaySave(t, mic', prefs') THEN Turn(t, next)
    ELSE tab' = t /\ UNCHANGED <<task, requests>>

\* The three ways to leave a draft.
Moves(t, next, shown) ==
    \/ /\ next \in {New, Dictate} /\ last + 1 \in Notes /\ last' = last + 1
       /\ tab' = [Blank(last + 1) EXCEPT !.about = t.about, !.conflict = t.conflict, !.unstored = t.unstored]
       /\ disk' = IF next = New THEN Empty ELSE disk
       /\ IF next = Dictate THEN mic' = "on" /\ before' = NoNote ELSE UNCHANGED <<mic, before>>
       /\ seen' = seen \cup shown
    \/ /\ next \in Notes /\ entries[next] # NoRow
       /\ tab' = Opened(next, entries[next], t.unstored)
       /\ seen' = seen \cup shown \cup {<<next, entries[next].rev>>}
       /\ UNCHANGED <<disk, mic, before, last>>
\* The save is over: the timer is set again if there is more, and what waited for it goes on if all is saved.
SaveEnds(t, shown) ==
    LET s == IF ~ t.saved /\ ~ t.timer THEN Scheduled(t, mic, prefs) ELSE t IN
    /\ task' = Idle
    /\ IF t.saved /\ task.next # Stay THEN Moves(s, task.next, shown)
       ELSE tab' = s /\ seen' = seen \cup shown /\ UNCHANGED <<disk, mic, before, last>>

-----------------------------------------------------------------------------
\* The user; the review is modal.

\* Typing; the editor is read-only while recording.
Type ==
    /\ ~ dialog /\ ~ Recording /\ spent.text < MaxText /\ Spend("text")
    /\ LET t == [tab EXCEPT !.text = spent.text + 1, !.saved = FALSE, !.unstored = TRUE]
       IN tab' = Scheduled(t, mic, prefs)
    /\ latest' = [latest EXCEPT ![tab.note] = spent.text + 1]
    /\ UNCHANGED <<hosted, accepted, task, mic, before, load, entries, prefs, dialog, disk, last, seen, quit>>

\* 150 ms after typing.
Stores ==
    /\ tab.unstored /\ tab' = [tab EXCEPT !.unstored = FALSE] /\ disk' = Snapshot(tab, prefs)
    /\ UNCHANGED <<hosted, accepted, task, mic, before, load, entries, prefs, dialog, last, spent, latest, seen, quit>>

\* The save begins, if it may.
SavesNow ==
    /\ UNCHANGED <<mic, prefs>>
    /\ SaveDraft([tab EXCEPT !.timer = FALSE], Stay)
    /\ IF task' = task THEN UNCHANGED disk ELSE TRUE
    /\ UNCHANGED <<Tables, accepted, before, load, entries, dialog, last, spent, latest, seen, quit>>

\* The timer fires.
Saves == tab.timer /\ SavesNow
\* The tab is hidden, or Retry.
Retries == MaySave(tab, mic, prefs) /\ SavesNow

\* New, Record, Open: keepCurrentDraft first.
Leave(next) ==
    /\ ~ dialog /\ ~ Recording /\ ~ Saving /\ (next = Dictate => Records /\ mic = "off")
    /\ UNCHANGED <<prefs, load, entries, dialog, spent, latest, quit, Tables, accepted>>
    /\ \/ /\ tab.saved \/ ~ HasWords(tab)
          /\ Moves([tab EXCEPT !.timer = FALSE], next, {}) /\ UNCHANGED <<task, requests>>
       \/ /\ ~ tab.saved /\ MaySave(tab, mic, prefs)
          /\ UNCHANGED <<mic, before, last, seen>> /\ Turn(tab, next)

\* Continue: the note stays, what is said is appended.  It is counted as a text.
Continue ==
    /\ spent.text < MaxText /\ Spend("text")
    /\ ~ dialog /\ Records /\ mic = "off" /\ ~ Saving /\ tab.saved /\ tab.base # NoRow /\ ~ prefs.incognito
    /\ mic' = "on" /\ before' = [note |-> tab.of, base |-> tab.base]
    /\ tab' = [tab EXCEPT !.saved = FALSE, !.deleted = FALSE, !.pend = Nothing]
    /\ UNCHANGED <<hosted, accepted, task, load, entries, prefs, dialog, disk, last, latest, seen, quit>>

\* Clear; it may have been confirmed while a save was on its way.  The conflict is not cleared.
Clear ==
    /\ ~ dialog /\ mic = "off" /\ last + 1 \in Notes /\ last' = last + 1
    /\ tab' = [Blank(last + 1) EXCEPT !.about = tab.about, !.conflict = tab.conflict]
    /\ disk' = Empty /\ latest' = [latest EXCEPT ![tab.note] = 0]
    /\ UNCHANGED <<hosted, accepted, task, mic, before, load, entries, prefs, dialog, spent, seen, quit>>

\* Settled words are on the screen.
Says(t) ==
    /\ mic \in {"on", "finishing"} /\ spent.text < MaxText /\ Spend("text") /\ tab' = t
    /\ latest' = IF tab.saved \/ tab.note \in quit THEN latest ELSE [latest EXCEPT ![tab.note] = spent.text + 1]
    /\ UNCHANGED <<hosted, accepted, task, mic, before, load, entries, prefs, dialog, last, seen, quit>>
\* Settled words of the recording, stored at once.
Segment == Says([tab EXCEPT !.text = spent.text + 1]) /\ disk' = Snapshot(tab', prefs)

StopsSpeaking ==
    /\ mic = "on" /\ mic' = "finishing"
    /\ UNCHANGED <<hosted, accepted, tab, task, before, load, entries, prefs, dialog, disk, last, spent, latest, seen, quit>>

\* The speech service is done, or failed: only finished words are saved at once.
Stopped(whole) ==
    /\ mic = "finishing" /\ mic' = "off" /\ UNCHANGED prefs
    /\ IF whole THEN SaveDraft(tab, Stay) ELSE UNCHANGED <<tab, task, requests>>
    /\ IF task' = task THEN disk' = Snapshot(tab, prefs) ELSE TRUE
    /\ UNCHANGED <<Tables, accepted, before, load, entries, dialog, last, spent, latest, seen, quit>>

\* The recording is thrown away: the note as it was before, or nothing.
Thrown(stopped) ==
    LET back == before # NoNote
        t == IF ~ back THEN [tab EXCEPT !.text = 0]
             ELSE IF stopped /\ ~ Saving THEN Opened(before.note, before.base, tab.unstored)
             ELSE [tab EXCEPT !.saved = TRUE]
    IN
    /\ tab' = t /\ before' = NoNote /\ disk' = Snapshot(t, prefs)
    /\ quit' = IF back THEN quit ELSE quit \cup {tab.note}
    /\ latest' = [latest EXCEPT ![tab.note] = 0]

\* Cancel: the recording stops; during Stop it does not wait for that.
Cancel ==
    /\ \/ mic = "on" /\ mic' = "cancelling" /\ UNCHANGED <<tab, before, disk, quit, latest>>
       \/ mic = "finishing" /\ Thrown(FALSE) /\ UNCHANGED mic
    /\ UNCHANGED <<hosted, accepted, task, load, entries, prefs, dialog, last, spent, seen>>
\* The stop is done; the list of devices is still read before the words go.
CancelStops ==
    /\ mic = "cancelling" /\ mic' = "cancelled" /\ disk' = Snapshot(tab, prefs)
    /\ UNCHANGED <<hosted, accepted, tab, task, before, load, entries, prefs, dialog, last, spent, latest, seen, quit>>
CancelEnds ==
    /\ mic = "cancelled" /\ mic' = "off" /\ Thrown(TRUE)
    /\ UNCHANGED <<hosted, accepted, task, load, entries, prefs, dialog, last, spent, seen>>

\* The review: keep mine, use theirs, or later.
KeepMine ==
    /\ dialog /\ dialog' = FALSE /\ UNCHANGED <<mic, prefs>>
    /\ LET t == [tab EXCEPT !.of = tab.about, !.base = tab.conflict, !.conflict = NoRow, !.pend = Nothing]
       IN SaveDraft(t, Stay)
    /\ IF task' = task THEN UNCHANGED disk ELSE TRUE
    /\ UNCHANGED <<Tables, accepted, before, load, entries, last, spent, latest, seen, quit>>
\* Nothing is opened during a recording or a save; nor if a list has opened a newer version behind the review.
UseTheirs ==
    /\ dialog /\ dialog' = FALSE
    /\ LET mine == [tab EXCEPT !.saved = TRUE]
           t == IF Recording \/ Saving THEN mine
                ELSE IF tab.conflict = NoRow THEN [mine EXCEPT !.base = NoRow, !.timer = FALSE]
                ELSE Opened(tab.about, tab.conflict, tab.unstored)
       IN tab' = t /\ disk' = Snapshot(t, prefs)
    /\ latest' = [latest EXCEPT ![tab.note] = 0]
    /\ UNCHANGED <<hosted, accepted, task, mic, before, load, entries, prefs, last, spent, seen, quit>>
Later ==
    /\ dialog /\ dialog' = FALSE
    /\ UNCHANGED <<hosted, accepted, tab, task, mic, before, load, entries, prefs, disk, last, spent, latest, seen, quit>>

\* Incognito, and keeping history again.
Incognito ==
    /\ ~ dialog /\ ~ Recording /\ ~ Saving
    /\ IF prefs.incognito THEN /\ prefs' = [prefs EXCEPT !.incognito = FALSE] /\ UNCHANGED <<tab, disk, spent, latest>>
       ELSE /\ spent.aside < MaxAsides /\ Spend("aside")
            /\ prefs' = [incognito |-> TRUE, retain |-> FALSE]
            /\ tab' = [tab EXCEPT !.timer = FALSE, !.unstored = FALSE, !.pend = Nothing, !.conflict = NoRow]
            /\ disk' = Empty /\ latest' = [latest EXCEPT ![tab.note] = 0]
    /\ UNCHANGED <<hosted, accepted, task, mic, before, load, entries, dialog, last, seen, quit>>
Retain ==
    /\ ~ dialog /\ ~ prefs.retain /\ ~ prefs.incognito /\ ~ Recording /\ ~ Saving
    /\ prefs' = [prefs EXCEPT !.retain = TRUE]
    /\ disk' = Snapshot(tab, prefs') /\ tab' = Scheduled(tab, mic, prefs')
    /\ UNCHANGED <<hosted, accepted, task, mic, before, load, entries, dialog, last, spent, latest, seen, quit>>

-----------------------------------------------------------------------------
\* Answers

Free1(s) == [requests EXCEPT ![s] = Free]
\* A failed save is tried again after 3 seconds.
SaveFails(t, shown) == SaveEnds(Scheduled(t, mic, prefs), shown)

\* The answer is about the note that is still open.
Mine(o) == ~ tab.deleted /\ tab.note = o.note

Saved1(r) ==
    LET o == task.op
        t == [tab EXCEPT !.saved = (tab.text = o.text), !.of = o.note, !.base = r.reply, !.pend = Nothing]
    IN
    /\ seen' = seen \cup {<<o.note, r.reply.rev>>}
    /\ IF ~ t.saved /\ prefs.retain
       THEN Turn(t, task.next) /\ UNCHANGED <<mic, before, last>>
       ELSE /\ tab' = t /\ disk' = Snapshot(t, prefs)
            /\ task' = [task EXCEPT !.at = "listing"]
            /\ requests' = Free1("call") /\ UNCHANGED <<mic, before, last>>

\* The first save or edit is answered.
SaveAnswered ==
    LET r == requests["call"] IN
    /\ task.at = "call" /\ r.stage = "answered" /\ UNCHANGED <<prefs, dialog>>
    /\ \/ r.status = 200 /\ ~ Mine(task.op) /\ requests' = Free1("call") /\ SaveEnds(tab, {})
       \/ r.status = 200 /\ Mine(task.op) /\ Saved1(r)
       \/ /\ r.status = 409
          /\ requests' = [requests EXCEPT !["call"] = Request("get", tab.note, Me, 0, 0, 0)]
          /\ task' = [task EXCEPT !.at = "reread"] /\ UNCHANGED <<tab, disk, mic, before, last, seen>>
       \/ r.status = 410 /\ requests' = Free1("call") /\ SaveFails([tab EXCEPT !.deleted = TRUE, !.pend = Nothing], {})
       \/ r.status \notin {200, 409, 410} /\ requests' = Free1("call") /\ SaveFails(tab, {})
    /\ UNCHANGED <<Tables, accepted, load, entries, spent, latest, quit>>

\* The account's version of the note, to be reviewed.
Reread ==
    LET r == requests["call"]
        theirs == IF r.status = 200 THEN r.reply ELSE NoRow
    IN
    /\ task.at = "reread" /\ r.stage = "answered" /\ requests' = Free1("call") /\ UNCHANGED prefs
    /\ SaveFails([tab EXCEPT !.about = r.note, !.conflict = theirs], IF theirs # NoRow THEN {<<r.note, theirs.rev>>} ELSE {})
    /\ dialog' = (dialog \/ theirs # NoRow)
    /\ UNCHANGED <<Tables, accepted, load, entries, spent, latest, quit>>

\* An answer does not arrive; the request goes on by itself.
AnswerIsLost ==
    /\ Saving /\ requests["call"].stage # "free" /\ spent.lost < MaxMissing /\ Spend("lost")
    /\ LET goes == /\ "stray" \in Slots /\ requests["stray"] = Free /\ requests["call"].stage # "answered"
                   /\ requests["call"].kind # "get"
       IN requests' = [s \in Slots |-> IF s = "stray" /\ goes THEN requests["call"]
                                       ELSE IF s = "call" THEN Free ELSE requests[s]]
    /\ SaveFails(tab, {}) /\ UNCHANGED <<prefs, dialog>>
    /\ UNCHANGED <<Tables, accepted, load, entries, latest, quit>>

\* loadHistory: one at a time, and once more if it was asked for meanwhile.
Ask(l) == IF l = "no" THEN /\ load' = "on"
                           /\ requests' = [requests EXCEPT !["list"] = Request("list", 1, Me, 0, 0, 0)]
          ELSE load' = "again" /\ UNCHANGED requests
\* The history is read after a save; the save ends when it is there, or at once if it is read already.
Lists ==
    /\ task.at = "listing" /\ Ask(load)
    /\ IF load = "no" THEN task' = [task EXCEPT !.at = "history"] /\ UNCHANGED <<tab, disk, mic, before, last, seen>>
       ELSE SaveEnds(tab, {})
    /\ UNCHANGED <<Tables, accepted, entries, prefs, dialog, spent, latest, quit>>
Visible ==
    /\ load = "no" /\ ~ prefs.incognito /\ task.at = "idle" /\ entries # row /\ Ask(load)
    /\ UNCHANGED <<Tables, accepted, tab, task, mic, before, entries, prefs, dialog, disk, last, spent, latest, seen, quit>>
\* The list is there: a newer revision of a saved note replaces it on the screen.
Listed ==
    LET r == requests["list"]
        new == r.reply[tab.note]
    IN
    /\ r.stage = "answered"
    /\ entries' = IF r.status = 200 THEN r.reply ELSE entries
    /\ IF load = "again" THEN /\ load' = "on"
                              /\ requests' = [requests EXCEPT !["list"] = Request("list", 1, Me, 0, 0, 0)]
       ELSE load' = "no" /\ requests' = Free1("list")
    /\ IF task.at = "history" THEN SaveEnds(tab, {})
       ELSE IF /\ r.status = 200 /\ tab.base # NoRow /\ tab.saved /\ ~ Recording /\ ~ Saving
               /\ new.rev > tab.base.rev
            THEN /\ tab' = Opened(tab.note, new, tab.unstored)
                 /\ seen' = seen \cup {<<tab.note, new.rev>>} /\ UNCHANGED <<task, disk, mic, before, last>>
       ELSE UNCHANGED <<tab, task, disk, mic, before, last, seen>>
    /\ UNCHANGED <<Tables, accepted, prefs, dialog, spent, latest, quit>>

-----------------------------------------------------------------------------
\* The rest of the world

Server(s) == /\ Serves(s) /\ UNCHANGED draft
             /\ accepted' = accepted \cup {<<n, row'[n].text>> : n \in {m \in Notes : row'[m] # NoRow /\ row'[m] # row[m]}}

\* Another device of the account; its texts are negative.
OtherEdits(n) ==
    /\ spent.other < MaxOther /\ Spend("other") /\ row[n] # NoRow
    /\ row' = [row EXCEPT ![n] = [rev |-> @.rev + 1, text |-> - (spent.other + 1)]]
    /\ UNCHANGED <<receipt, applied, revoked, requests, accepted, tab, task, mic, before, load, entries, prefs, dialog,
                   disk, last, latest, seen, quit>>
\* A deletion, here or elsewhere; the tab is told, or it was made here, or it does not hear of it.
Deletes(n, told) ==
    /\ spent.other < MaxOther /\ Spend("other") /\ row[n] # NoRow
    /\ row' = [row EXCEPT ![n] = NoRow] /\ receipt' = [receipt EXCEPT ![n] = "deleted"]
    /\ LET t == [tab EXCEPT !.deleted = TRUE, !.saved = TRUE, !.pend = Nothing] IN
       IF told /\ tab.note = n THEN tab' = t /\ disk' = Snapshot(t, prefs) ELSE UNCHANGED <<tab, disk>>
    /\ latest' = [latest EXCEPT ![n] = 0]
    /\ UNCHANGED <<applied, revoked, requests, accepted, task, mic, before, load, entries, prefs, dialog, last, seen, quit>>

\* Another tab of this browser has an empty draft, and stores that.
OtherTab ==
    /\ spent.tab < MaxTabs /\ Spend("tab") /\ disk' = Empty
    /\ UNCHANGED <<hosted, accepted, tab, task, mic, before, load, entries, prefs, dialog, last, latest, seen, quit>>

\* The page goes away and is loaded again: what was stored is there. Words of the last 150 ms may be lost.
Reload ==
    /\ spent.reload < MaxReloads /\ Spend("reload") /\ (disk # Empty \/ last + 1 \in Notes)
    /\ LET there == disk # Empty
           t == IF there THEN [Blank(disk.note) EXCEPT !.text = disk.text, !.of = disk.of, !.base = disk.base, !.pend = disk.pend]
                ELSE Blank(last + 1)
       IN /\ tab' = Scheduled(t, "off", [incognito |-> FALSE, retain |-> TRUE])
          /\ last' = IF there THEN last ELSE last + 1
    /\ latest' = IF tab.unstored \/ ~ prefs.retain THEN [latest EXCEPT ![tab.note] = 0] ELSE latest
    /\ requests' = [s \in Slots |->
            IF s = "stray" /\ requests[s] = Free /\ requests["call"].stage \in {"sent", "read", "looked"}
               /\ requests["call"].kind # "get" THEN requests["call"]
            ELSE IF s = "stray" THEN requests[s] ELSE Free]
    /\ task' = Idle /\ mic' = "off" /\ before' = NoNote /\ load' = "no" /\ dialog' = FALSE
    /\ prefs' = [incognito |-> FALSE, retain |-> TRUE] /\ entries' = [n \in Notes |-> NoRow]
    /\ UNCHANGED <<Tables, accepted, disk, seen, quit>>

-----------------------------------------------------------------------------
User ==
    \/ Type \/ Clear \/ Continue \/ StopsSpeaking \/ Cancel \/ KeepMine \/ UseTheirs \/ Later \/ Incognito \/ Retain
    \/ \E next \in {New, Dictate} \cup Notes : Leave(next)
    \/ Segment \/ Visible \/ Retries
Tab == Stores \/ Saves \/ SaveAnswered \/ Reread \/ Lists \/ Listed \/ CancelStops \/ CancelEnds \/ \E w \in BOOLEAN : Stopped(w)
World ==
    \/ OtherTab \/ Reload \/ AnswerIsLost
    \/ \E n \in Notes : OtherEdits(n) \/ \E told \in BOOLEAN : Deletes(n, told)

DraftNext == User \/ Tab \/ World \/ \E s \in Slots : Server(s)
DraftSpec == DraftInit /\ [][DraftNext]_draftVars
\* The page's timers and promises run, and the account answers.
DraftFairness ==
    /\ WF_draftVars(Tab) /\ WF_draftVars(Saves) /\ WF_draftVars(SaveAnswered) /\ WF_draftVars(Listed)
    /\ WF_draftVars(Lists) /\ \A s \in Slots : WF_draftVars(Server(s))
FairDraftSpec == DraftSpec /\ DraftFairness

-----------------------------------------------------------------------------
\* Properties

\* Types.
DraftTypeOK ==
    /\ DraftAssumption
    /\ tab.note \in Notes /\ last \in Notes /\ tab.text \in Int
    /\ task.at \in {"idle", "call", "reread", "listing", "history"}
    /\ mic \in {"off", "on", "finishing", "cancelling", "cancelled"} /\ load \in {"no", "on", "again"}
    /\ \A n \in Notes : row[n].rev <= 2 * MaxText + MaxOther + 1

\* Words that were typed or said and that nobody threw away are on the screen, in the account, or in the
\* recovery copy: whatever was opened, started, answered, lost or loaded again meanwhile.
WordsAreSomewhere ==
    \A n \in Notes : latest[n] # 0 =>
        \/ tab.note = n /\ tab.text = latest[n]
        \/ <<n, latest[n]>> \in accepted
        \/ disk.note = n /\ latest[n] \in {disk.text, disk.pend.text}

\* An edit made here replaces only a revision that was shown here: another device's edit is reviewed first.
ReplacesWhatWasShown ==
    [][\A n \in Notes : row[n] # NoRow /\ row'[n] # row[n] /\ row'[n].text > 0 => <<n, row[n].rev>> \in seen]_draftVars

\* What is typed is saved in the end, unless it is a deleted note or somebody else changed it meanwhile.
Autosaves ==
    []<>(tab.saved \/ ~ HasWords(tab) \/ tab.deleted \/ tab.conflict # NoRow \/ ~ prefs.retain \/ Recording)

\* "subsequent text and title edits autosave while history is enabled": and if they cannot, the review is open.
NothingStaysUnsaved ==
    []<>(tab.saved \/ ~ HasWords(tab) \/ tab.deleted \/ dialog \/ ~ prefs.retain \/ Recording)

\* "Recording cancelled. No note was saved."
CancelledIsNotSaved == \A n \in quit : row[n] = NoRow

\* "This note was deleted on another device. It will not be saved again.": this note, not the one before it.
DeletedIsThisNote == tab.deleted => receipt[tab.note] = "deleted"

\* "Unfinished drafts are saved to account-scoped IndexedDB": a stored draft stays until it is saved or cleared.
RecoveryStays ==
    latest[tab.note] # 0 /\ tab.text = latest[tab.note] /\ ~ tab.unstored /\ ~ tab.saved /\ prefs.retain
        => disk.note = tab.note
=============================================================================
