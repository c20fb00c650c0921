---------------------------- MODULE AccountSync ----------------------------
(***************************************************************************)
(* The desktop's account controller (mluva-gtk/src/account_controller.rs)  *)
(* with its revision ledger (mluva-core/src/account.rs) and its client     *)
(* (mluva-providers/src/account.rs), one per device, against the history   *)
(* routes of the account.                                                  *)
(*                                                                         *)
(* Everything on a device runs on its GTK thread: a sync is a future whose *)
(* state changes only where it resumes with an answer, so one action is    *)
(* what runs between two awaits.  An answer may be lost; the request goes  *)
(* on by itself.  Merged conversations and paging are left out.            *)
(***************************************************************************)
EXTENDS HostedHistory

CONSTANTS
    Devices,
    Maker,          \* [Notes -> Devices]: where a note is recorded
    Removable,      \* devices that somebody removes from the account
    Typists,        \* devices on which edits wait before they are saved
    MaxEdits,       \* texts written on any device
    MaxSessions,    \* logins of a device
    MaxLost,        \* answers that do not arrive
    MaxAsides,      \* times Incognito is switched on
    MaxKeeps,       \* times "Keep my saved version" is chosen
    MaxFails        \* sign-outs whose clean-up fails

ASSUME AccountAssumption ==
    /\ Maker \in [Notes -> Devices]
    /\ MaxEdits \in Nat /\ MaxSessions \in Nat /\ MaxLost \in Nat /\ MaxAsides \in Nat /\ MaxKeeps \in Nat
    /\ MaxFails \in Nat
    /\ Devices \X {"call"} \subseteq Slots /\ Slots \subseteq Devices \X {"call", "stray"}
    /\ Unheard = Slots \cap (Devices \X {"stray"})

VARIABLES
    local,      \* the saved text of a note here, 0 when there is none
    typed,      \* notes with edits that are not saved yet
    ledger,     \* account_notes, one row per note
    known,      \* notes that a sync has looked at, or that were here at sign-in
    signed,     \* the client and the ledger are there
    held,       \* the ledger that a sign-out could not clear: "no", "locked" as long as no sign-in is offered, "open"
    session,    \* logins so far; the current one names the device
    private,    \* Incognito
    conflict,   \* the account version shown for review, per note
    overdue,    \* history: a review put up by a sync whose login was over, "shown", or "taken" over a deletion
    task,       \* the sync that runs
    spent,      \* edits, lost answers, Incognito, kept versions, failed sign-outs so far
    consent,    \* notes a device may upload: shared, recorded while connected, or received
    met         \* per device and note: the newest revision it has taken as its baseline

device == <<local, typed, ledger, known, signed, held, session, private, conflict, overdue, task>>
vars == <<hosted, device, spent, consent, met>>

Nothing == [text |-> 0, base |-> 0, op |-> 0]
Untracked == [tracked |-> FALSE, base |-> NoRow, pending |-> Nothing, imported |-> FALSE, deleted |-> FALSE]
Idle == [at |-> "idle"]
Login(d) == <<d, session[d]>>
Call(d) == <<d, "call">>

Init ==
    /\ HostedInit
    /\ local = [d \in Devices |-> [n \in Notes |-> 0]]
    /\ typed = [d \in Devices |-> {}]
    /\ ledger = [d \in Devices |-> [n \in Notes |-> Untracked]]
    /\ known = [d \in Devices |-> {}]
    /\ signed = [d \in Devices |-> FALSE] /\ held = [d \in Devices |-> "no"] /\ session = [d \in Devices |-> 0]
    /\ private = [d \in Devices |-> FALSE]
    /\ conflict = [d \in Devices |-> [n \in Notes |-> NoRow]]
    /\ overdue = [d \in Devices |-> [n \in Notes |-> "no"]]
    /\ task = [d \in Devices |-> Idle]
    /\ spent = [edits |-> 0, lost |-> 0, asides |-> 0, keeps |-> 0, fails |-> 0]
    /\ consent = {}
    /\ met = [d \in Devices |-> [n \in Notes |-> 0]]

-----------------------------------------------------------------------------
\* The ledger of a device: each operator gives the row it leaves.

Here(d) == {n \in Notes : local[d][n] # 0}

Tracked(r) == [r EXCEPT !.tracked = TRUE]
\* Only a row that is there and is no tombstone takes an answer.
Takes(r) == r.tracked /\ ~ r.deleted
Ids(d) == {n \in Notes : Takes(ledger[d][n])}

\* Mutated: the edit stays frozen after its answer.
AcknowledgedStill(r, note) == IF Takes(r) THEN [r EXCEPT !.base = note] ELSE r
Acknowledged(r, note) == IF Takes(r) THEN [r EXCEPT !.base = note, !.pending = Nothing] ELSE r
Applied(r, note, had) ==
    [r EXCEPT !.tracked = TRUE, !.base = note, !.pending = Nothing, !.imported = IF r.tracked THEN @ ELSE ~ had]
Buried(r) == [r EXCEPT !.tracked = TRUE, !.base = NoRow, !.pending = Nothing, !.deleted = TRUE]

Cleared(r) == IF r.imported THEN Untracked ELSE [r EXCEPT !.pending = Nothing]

\* A note is compared as a whole with its baseline.
Changed(d, n) == local[d][n] # ledger[d][n].base.text

\* The edit to send, frozen until it is acknowledged; Nothing when the note is as the account has it.
Pending(d, n, op) ==
    LET r == ledger[d][n] IN
    IF r.pending # Nothing THEN r.pending
    ELSE IF local[d][n] = 0 \/ ~ Changed(d, n) THEN Nothing
    ELSE [text |-> local[d][n], base |-> r.base.rev, op |-> op]

\* Mutated: local changes are not compared before a received note replaces them.
ReceiptTrusting(d, note, n) ==
    LET r == ledger[d][n] IN
    IF r.deleted \/ note.rev <= r.base.rev THEN "ignored"
    ELSE IF r.base # NoRow /\ local[d][n] = 0 THEN "ignored" ELSE "applied"

\* What a listed note does here: "applied", "ignored" or "refused".
ReceiptOf(d, note, n) ==
    LET r == ledger[d][n] IN
    IF r.deleted THEN "ignored"
    ELSE IF r.base # NoRow
         THEN IF note.rev <= r.base.rev \/ local[d][n] = 0 THEN "ignored"
              ELSE IF Changed(d, n) THEN "refused" ELSE "applied"
         ELSE IF local[d][n] # 0 THEN "refused" ELSE "applied"

-----------------------------------------------------------------------------
\* The person and the recorder

Spend(what) == spent' = [spent EXCEPT ![what] = @ + 1]
NextText == spent.edits + 1
UNTOUCHED == <<signed, held, session, private, conflict, overdue, task>>

\* A new recording is saved in History; Incognito saves none.
Record(d, n) ==
    /\ Maker[n] = d /\ ~ private[d] /\ spent.edits < MaxEdits
    /\ local[d][n] = 0 /\ ~ ledger[d][n].tracked /\ n \notin known[d]
    /\ local' = [local EXCEPT ![d][n] = NextText] /\ Spend("edits")
    /\ consent' = IF signed[d] THEN consent \cup {<<d, n>>} ELSE consent
    /\ UNCHANGED <<hosted, typed, ledger, known, UNTOUCHED, met>>

Type(d, n) ==
    /\ d \in Typists /\ local[d][n] # 0 /\ n \notin typed[d] /\ spent.edits < MaxEdits
    /\ typed' = [typed EXCEPT ![d] = @ \cup {n}]
    /\ UNCHANGED <<hosted, local, ledger, known, UNTOUCHED, spent, consent, met>>

\* The edits are saved as the working text; a note deleted meanwhile takes none.
SaveText(d, n) ==
    /\ n \in typed[d] \/ (d \notin Typists /\ local[d][n] # 0 /\ spent.edits < MaxEdits)
    /\ typed' = [typed EXCEPT ![d] = @ \ {n}]
    /\ IF local[d][n] # 0 /\ spent.edits < MaxEdits
       THEN local' = [local EXCEPT ![d][n] = NextText] /\ Spend("edits")
       ELSE UNCHANGED <<local, spent>>
    /\ UNCHANGED <<hosted, ledger, known, UNTOUCHED, consent, met>>

\* A note is deleted in History on this device.
Remove(d, n) ==
    /\ local[d][n] # 0 /\ local' = [local EXCEPT ![d][n] = 0]
    /\ typed' = [typed EXCEPT ![d] = @ \ {n}]
    /\ UNCHANGED <<hosted, ledger, known, UNTOUCHED, spent, consent, met>>

\* The ledger is there while signed in, and as long as a sign-out could not clear it.
HasLedger(d) == signed[d] \/ held[d] # "no"

\* Share text: the note is tracked from now on.
Share(d, n) ==
    /\ HasLedger(d) /\ ~ private[d] /\ local[d][n] # 0 /\ ~ ledger[d][n].tracked
    /\ ledger' = [ledger EXCEPT ![d][n] = Tracked(@)]
    /\ consent' = consent \cup {<<d, n>>}
    /\ UNCHANGED <<hosted, local, typed, known, UNTOUCHED, spent, met>>

\* What a device has had of a note does not get older.
Newest(rev, note) == IF note.rev > rev THEN note.rev ELSE rev

\* A review that a sync of an earlier login put up is over; what was taken over a deletion is not.
Settled(o) == IF o = "taken" THEN o ELSE "no"

UseRemote(d, n) ==
    LET note == conflict[d][n] IN
    /\ note # NoRow /\ HasLedger(d)
    /\ local' = [local EXCEPT ![d][n] = note.text]
    /\ ledger' = [ledger EXCEPT ![d][n] = Applied(@, note, local[d][n] # 0)]
    /\ met' = [met EXCEPT ![d][n] = Newest(@, note)]
    /\ conflict' = [conflict EXCEPT ![d][n] = NoRow]
    /\ overdue' = [overdue EXCEPT ![d][n] = IF @ = "shown" /\ ledger[d][n].deleted /\ ~ ledger[d][n].imported THEN "taken" ELSE Settled(@)]
    /\ UNCHANGED <<hosted, typed, known, signed, held, session, private, task, spent, consent>>

KeepLocal(d, n) ==
    LET note == conflict[d][n] IN
    /\ note # NoRow /\ spent.keeps < MaxKeeps /\ Spend("keeps")
    /\ conflict' = [conflict EXCEPT ![d][n] = NoRow]
    /\ overdue' = [overdue EXCEPT ![d][n] = Settled(@)]
    /\ IF HasLedger(d)
       THEN /\ ledger' = [ledger EXCEPT ![d][n] = Acknowledged(@, note)]
            /\ met' = IF Takes(ledger[d][n]) THEN [met EXCEPT ![d][n] = Newest(@, note)] ELSE met
       ELSE UNCHANGED <<ledger, met>>
    /\ UNCHANGED <<hosted, local, typed, known, signed, held, session, private, task, consent>>

-----------------------------------------------------------------------------
\* Sign-in, sign-out and Incognito

Cancelled(d) == IF task[d].at = "idle" THEN Idle ELSE [task[d] EXCEPT !.cancelled = TRUE]

ActivationKnown(d) == Here(d)

\* begin_login, callback, activate: a new login, and what is here already stays private.
SignIn(d) ==
    /\ ~ signed[d] /\ held[d] # "locked" /\ ~ private[d] /\ session[d] < MaxSessions
    /\ signed' = [signed EXCEPT ![d] = TRUE] /\ held' = [held EXCEPT ![d] = "no"] /\ session' = [session EXCEPT ![d] = @ + 1]
    /\ known' = [known EXCEPT ![d] = ActivationKnown(d)]
    /\ task' = [task EXCEPT ![d] = Cancelled(d)]
    /\ UNCHANGED <<hosted, local, typed, ledger, private, conflict, overdue, spent, consent, met>>

\* disconnect: syncing stops, and the reviews go.
Disconnects(d) ==
    /\ HasLedger(d)
    /\ signed' = [signed EXCEPT ![d] = FALSE]
    /\ task' = [task EXCEPT ![d] = Cancelled(d)]
    /\ conflict' = [conflict EXCEPT ![d] = [n \in Notes |-> NoRow]]
    /\ overdue' = [overdue EXCEPT ![d] = [n \in Notes |-> Settled(@[n])]]
    /\ UNCHANGED <<hosted, known, session, private, consent, met>>

Received(d) == {n \in Notes : ledger[d][n].imported}
Leaves(d, gone) ==
    /\ local' = [local EXCEPT ![d] = [n \in Notes |-> IF n \in gone THEN 0 ELSE @[n]]]
    /\ typed' = [typed EXCEPT ![d] = @ \ gone]

\* Downloaded notes leave this device, originals stay.
SignOut(d) ==
    /\ Disconnects(d) /\ Leaves(d, Received(d))
    /\ ledger' = [ledger EXCEPT ![d] = [n \in Notes |-> Cleared(@[n])]]
    /\ held' = [held EXCEPT ![d] = "no"]
    /\ UNCHANGED spent

\* A statement of the clean-up fails: some or all downloaded notes are gone, perhaps their rows too.  The
\* ledger is put back, and Sign out can be tried again.
SignOutFails(d) ==
    /\ Disconnects(d) /\ spent.fails < MaxFails /\ Spend("fails")
    /\ \/ UNCHANGED ledger /\ \E gone \in SUBSET Received(d) : Leaves(d, gone)
       \/ /\ Leaves(d, Received(d))
          /\ ledger' = [ledger EXCEPT ![d] = [n \in Notes |-> IF n \in Received(d) THEN Untracked ELSE @[n]]]
    /\ held' = [held EXCEPT ![d] = "locked"]

\* The sign-out reaches the account, or another device removes this one.
Removed(d) ==
    /\ d \in Removable /\ session[d] > 0 /\ Login(d) \notin revoked /\ Revoke(Login(d))
    /\ UNCHANGED <<device, spent, consent, met>>

IncognitoOn(d) ==
    /\ ~ private[d] /\ spent.asides < MaxAsides /\ Spend("asides")
    /\ private' = [private EXCEPT ![d] = TRUE]
    /\ task' = [task EXCEPT ![d] = Cancelled(d)]
    /\ UNCHANGED <<hosted, local, typed, ledger, known, signed, held, session, conflict, overdue, consent, met>>

\* The same client is activated again.  Sign-in is offered again, whatever ledger is held.
IncognitoOff(d) ==
    /\ private[d] /\ private' = [private EXCEPT ![d] = FALSE]
    /\ IF signed[d]
       THEN known' = [known EXCEPT ![d] = ActivationKnown(d)] /\ task' = [task EXCEPT ![d] = Cancelled(d)]
       ELSE UNCHANGED <<known, task>>
    /\ held' = [held EXCEPT ![d] = IF @ = "locked" THEN "open" ELSE @]
    /\ UNCHANGED <<hosted, local, typed, ledger, signed, session, conflict, overdue, spent, consent, met>>

-----------------------------------------------------------------------------
\* One sync

\* sync: every 3 seconds, and after whatever may have changed something.
Sync(d) ==
    LET fresh == Here(d) \ known[d] IN
    /\ ~ private[d] /\ task[d].at = "idle" /\ signed[d]
    /\ ledger' = [ledger EXCEPT ![d] = [n \in Notes |-> IF n \in fresh THEN Tracked(@[n]) ELSE @[n]]]
    /\ known' = [known EXCEPT ![d] = @ \cup Here(d)]
    /\ task' = [task EXCEPT ![d] = [at |-> "spawned", cancelled |-> FALSE, who |-> Login(d), step |-> "upload", todo |-> {}]]
    /\ UNCHANGED <<hosted, local, typed, signed, held, session, private, conflict, overdue, spent, consent, met>>

\* The future is polled first: the ids to upload are read.
Begin(d) ==
    /\ task[d].at = "spawned" /\ ~ task[d].cancelled
    /\ task' = [task EXCEPT ![d] = [@ EXCEPT !.at = "next", !.todo = Ids(d)]]
    /\ UNCHANGED <<hosted, local, typed, ledger, known, signed, held, session, private, conflict, overdue, spent, consent, met>>

Ops == UNION {{r.pending.op : r \in {ledger[d][n] : n \in Notes}} : d \in Devices}
          \cup {a.op : a \in applied} \cup {requests[s].op : s \in {t \in Slots : "op" \in DOMAIN requests[t]}}
FreshOp == CHOOSE o \in 1..(Cardinality(Ops) + 1) : o \notin Ops

Ask(d, q) == requests' = [requests EXCEPT ![Call(d)] = q]
Goes(d, at, step) == task' = [task EXCEPT ![d] = [@ EXCEPT !.at = at, !.step = step]]
\* On with note `n`: without a request for it, or with one.
Passes(d, n, at) == task' = [task EXCEPT ![d].at = at, ![d].todo = @ \ {n}]

\* The next request of the uploads: a deletion, a first save or an edit; nothing for an unchanged note.
Upload(d) ==
    /\ task[d].at = "next" /\ task[d].step = "upload"
    /\ \E n \in task[d].todo :
        LET edit == Pending(d, n, FreshOp)
            kind == IF local[d][n] = 0 THEN "delete" ELSE IF edit.base = 0 THEN "post" ELSE "put"
        IN IF local[d][n] # 0 /\ edit = Nothing
           THEN /\ Passes(d, n, "next")
                /\ UNCHANGED <<hosted, ledger>>
           ELSE /\ Passes(d, n, "wait")
                /\ ledger' = IF kind = "delete" \/ ledger[d][n].deleted THEN ledger
                             ELSE [ledger EXCEPT ![d][n].pending = edit]
                /\ Ask(d, Request(kind, n, task[d].who, edit.text, edit.base, edit.op))
                /\ UNCHANGED <<receipt, row, applied, revoked>>
    /\ UNCHANGED <<local, typed, known, signed, held, session, private, conflict, overdue, spent, consent, met>>

\* Everything is uploaded: the notes of the account are listed.
AskList(d) ==
    /\ task[d].at = "next" /\ task[d].step = "upload" /\ task[d].todo = {}
    /\ Goes(d, "wait", "list")
    /\ Ask(d, Request("list", CHOOSE n \in Notes : TRUE, task[d].who, 0, 0, 0))
    /\ UNCHANGED <<receipt, row, applied, revoked>>
    /\ UNCHANGED <<local, typed, ledger, known, signed, held, session, private, conflict, overdue, spent, consent, met>>

\* A tracked note with a baseline that was not listed is asked for by itself.
AskProbe(d) ==
    /\ task[d].at = "next" /\ task[d].step = "probe"
    /\ \E n \in task[d].todo :
        IF ledger[d][n].base # NoRow
        THEN /\ Passes(d, n, "wait")
             /\ Ask(d, Request("get", n, task[d].who, 0, 0, 0))
             /\ UNCHANGED <<receipt, row, applied, revoked>>
        ELSE Passes(d, n, "next") /\ UNCHANGED hosted
    /\ UNCHANGED <<local, typed, ledger, known, signed, held, session, private, conflict, overdue, spent, consent, met>>

\* Nobody waits for the call any more; it goes on by itself unless it was answered.
Abandon(d) ==
    LET stray == <<d, "stray">>
        goes == stray \in Slots /\ requests[stray] = Free /\ requests[Call(d)].stage \in {"sent", "read", "looked"}
    IN requests' = [s \in Slots |-> IF s = stray /\ goes THEN requests[Call(d)]
                                   ELSE IF s = Call(d) THEN Free ELSE requests[s]]

\* The sync is over, or it was cancelled and its answer does not come first: the call is dropped.
End(d) ==
    /\ \/ task[d].at = "next" /\ task[d].step = "probe" /\ task[d].todo = {}
       \/ task[d].at # "idle" /\ task[d].cancelled
    /\ task' = [task EXCEPT ![d] = Idle]
    /\ Abandon(d)
    /\ UNCHANGED <<receipt, row, applied, revoked>>
    /\ UNCHANGED <<local, typed, ledger, known, signed, held, session, private, conflict, overdue, spent, consent, met>>

-----------------------------------------------------------------------------
\* Answers

Bury(d, n) ==
    /\ ledger' = [ledger EXCEPT ![d][n] = Buried(@)]
    /\ local' = IF ledger[d][n].tracked THEN [local EXCEPT ![d][n] = 0] ELSE local
    /\ typed' = IF ledger[d][n].tracked THEN [typed EXCEPT ![d] = @ \ {n}] ELSE typed

\* conflict: one review row per note, with the version that arrived first.
Review(d, shown) == conflict' = [conflict EXCEPT ![d] = [n \in Notes |->
                                    IF @[n] = NoRow /\ n \in DOMAIN shown THEN shown[n] ELSE @[n]]]

\* Where a task goes on: a cancelled one ends at the next await.
Stops(d) == task[d].cancelled
Resume(d, on) == task' = [task EXCEPT ![d] = IF Stops(d) THEN Idle ELSE on]
Took(d) == /\ requests' = [requests EXCEPT ![Call(d)] = Free] /\ UNCHANGED <<receipt, row, applied, revoked>>
\* The next request goes out in the same step.
TookAndAsks(d, q) == /\ requests' = [requests EXCEPT ![Call(d)] = IF Stops(d) THEN Free ELSE q]
                     /\ UNCHANGED <<receipt, row, applied, revoked>>
Answered(d, step, kinds) ==
    /\ task[d].at = "wait" /\ task[d].step = step
    /\ requests[Call(d)].stage = "answered" /\ requests[Call(d)].kind \in kinds

\* A deletion was answered.  Nothing asks here whether the sync was cancelled.
DeleteAnswer(d) ==
    LET q == requests[Call(d)] IN
    /\ Answered(d, "upload", {"delete"}) /\ Took(d)
    /\ IF q.status = 200 THEN Bury(d, q.note) /\ Resume(d, [task[d] EXCEPT !.at = "next"])
       ELSE task' = [task EXCEPT ![d] = Idle] /\ UNCHANGED <<ledger, local, typed>>
    /\ UNCHANGED <<known, signed, held, session, private, conflict, overdue, spent, consent, met>>

\* A first save or an edit was answered.
UploadAnswer(d) ==
    LET q == requests[Call(d)]
        n == q.note
    IN
    /\ Answered(d, "upload", {"post", "put"}) /\ ~ task[d].cancelled
    /\ \/ /\ q.status = 200 /\ Took(d) /\ Goes(d, "next", "upload")
          /\ ledger' = [ledger EXCEPT ![d][n] = Acknowledged(@, q.reply)]
          /\ met' = IF Takes(ledger[d][n]) THEN [met EXCEPT ![d][n] = Newest(@, q.reply)] ELSE met
          /\ UNCHANGED <<local, typed>>
       \/ /\ q.status = 410 /\ Took(d) /\ Goes(d, "next", "upload")
          /\ Bury(d, n) /\ UNCHANGED met
       \/ /\ q.status = 409 /\ Goes(d, "wait", "conflict")
          /\ TookAndAsks(d, Request("get", n, task[d].who, 0, 0, 0))
          /\ UNCHANGED <<ledger, met, local, typed>>
       \/ /\ q.status = 400 /\ Took(d) /\ Goes(d, "next", "upload")
          /\ ledger' = [ledger EXCEPT ![d][n].pending = Nothing]
          /\ UNCHANGED <<met, local, typed>>
       \/ /\ q.status \in {403, 404} /\ Took(d) /\ task' = [task EXCEPT ![d] = Idle]
          /\ UNCHANGED <<ledger, met, local, typed>>
    /\ UNCHANGED <<known, signed, held, session, private, conflict, overdue, spent, consent>>

\* The login of the sync is over.
Over(d) == ~ signed[d] \/ task[d].who # Login(d)

\* The account version of a refused edit.  Nothing asks here whether the sync was cancelled.
ConflictAnswer(d) ==
    LET q == requests[Call(d)] IN
    /\ Answered(d, "conflict", {"get"}) /\ Took(d)
    /\ Review(d, [n \in (IF q.status = 200 THEN {q.note} ELSE {}) |-> q.reply])
    /\ overdue' = [overdue EXCEPT ![d] = [n \in Notes |->
           IF Over(d) /\ conflict[d][n] # conflict'[d][n] /\ @[n] = "no" THEN "shown" ELSE @[n]]]
    /\ Resume(d, [task[d] EXCEPT !.at = "next", !.step = "upload"])
    /\ UNCHANGED <<local, typed, ledger, known, signed, held, session, private, spent, consent, met>>

\* Mutated: the list is taken although the sync was cancelled meanwhile.
ListTakenAnyway(d) == TRUE
ListTaken(d) == ~ task[d].cancelled

\* The notes of the account: each is taken, left, or shown for review; then come the probes.
ListAnswer(d) ==
    LET q == requests[Call(d)]
        listed == {n \in Notes : q.reply[n] # NoRow}
        open == listed \ typed[d]
        takes == {n \in open : ReceiptOf(d, q.reply[n], n) = "applied"}
        shows == {n \in open : ReceiptOf(d, q.reply[n], n) = "refused"}
    IN
    /\ Answered(d, "list", {"list"}) /\ ListTaken(d) /\ Took(d)
    /\ IF q.status = 200
       THEN /\ local' = [local EXCEPT ![d] = [n \in Notes |-> IF n \in takes THEN q.reply[n].text ELSE @[n]]]
            /\ ledger' = [ledger EXCEPT ![d] = [n \in Notes |->
                   IF n \in takes THEN Applied(@[n], q.reply[n], local[d][n] # 0) ELSE @[n]]]
            /\ met' = [met EXCEPT ![d] = [n \in Notes |-> IF n \in takes THEN Newest(@[n], q.reply[n]) ELSE @[n]]]
            /\ known' = [known EXCEPT ![d] = @ \cup takes]
            /\ consent' = consent \cup {<<d, n>> : n \in takes}
            /\ Review(d, [n \in shows |-> q.reply[n]])
            /\ Resume(d, [task[d] EXCEPT !.at = "next", !.step = "probe",
                          !.todo = {n \in Notes : Takes(ledger'[d][n])} \ listed])
       ELSE task' = [task EXCEPT ![d] = Idle] /\ UNCHANGED <<local, ledger, met, known, conflict, consent>>
    /\ UNCHANGED <<typed, signed, held, session, private, overdue, spent>>

ProbeAnswer(d) ==
    LET q == requests[Call(d)] IN
    /\ Answered(d, "probe", {"get"}) /\ ~ task[d].cancelled /\ Took(d)
    /\ IF q.status = 410 THEN Bury(d, q.note) ELSE UNCHANGED <<ledger, local, typed>>
    /\ Goes(d, "next", "probe")
    /\ UNCHANGED <<known, signed, held, session, private, conflict, overdue, spent, consent, met>>

\* No answer arrives.  Only where the account version was asked for does the sync go on.
Lose(d) ==
    /\ task[d].at = "wait" /\ ~ task[d].cancelled /\ spent.lost < MaxLost /\ Spend("lost")
    /\ IF task[d].step \in {"conflict", "probe"}
       THEN Goes(d, "next", IF task[d].step = "probe" THEN "probe" ELSE "upload")
       ELSE task' = [task EXCEPT ![d] = Idle]
    /\ Abandon(d)
    /\ UNCHANGED <<receipt, row, applied, revoked>>
    /\ UNCHANGED <<local, typed, ledger, known, signed, held, session, private, conflict, overdue, consent, met>>

\* event: a device that is connected hears of a deletion and syncs.
DeletionEvent(d, n) ==
    /\ signed[d] /\ ~ private[d] /\ receipt[n] \in {"deleted", "blind"} /\ ~ ledger[d][n].deleted
    /\ Bury(d, n)
    /\ UNCHANGED <<hosted, known, signed, held, session, private, conflict, overdue, task, spent, consent, met>>

-----------------------------------------------------------------------------
Server(s) == Serves(s) /\ UNCHANGED <<device, spent, consent, met>>
Runs(d) == Begin(d) \/ Upload(d) \/ AskList(d) \/ AskProbe(d) \/ End(d)
Answers(d) == \/ DeleteAnswer(d) \/ UploadAnswer(d) \/ ConflictAnswer(d)
              \/ ListAnswer(d) \/ ProbeAnswer(d)
Person(d) ==
    \/ \E n \in Notes : Record(d, n) \/ Type(d, n) \/ SaveText(d, n) \/ Remove(d, n)
                        \/ Share(d, n) \/ UseRemote(d, n) \/ KeepLocal(d, n)
    \/ SignIn(d) \/ SignOut(d) \/ SignOutFails(d) \/ IncognitoOn(d) \/ IncognitoOff(d)

Next ==
    \/ \E d \in Devices : Person(d) \/ Sync(d) \/ Runs(d) \/ Answers(d) \/ Lose(d) \/ Removed(d)
    \/ \E d \in Devices, n \in Notes : DeletionEvent(d, n)
    \/ \E s \in Slots : Server(s)

Spec == Init /\ [][Next]_vars

\* The account answers, and the 3 second timer and the executor keep a device going.
Fairness ==
    /\ \A s \in Slots : WF_vars(Server(s))
    /\ \A d \in Devices : WF_vars(Sync(d)) /\ WF_vars(Runs(d)) /\ WF_vars(Answers(d))

LiveSpec == Spec /\ Fairness

-----------------------------------------------------------------------------
\* Properties

Row == [rev : Nat, text : 0..MaxEdits]

\* Types.
TypeOK ==
    /\ receipt \in [Notes -> Receipt] /\ row \in [Notes -> Row]
    /\ local \in [Devices -> [Notes -> 0..MaxEdits]]
    /\ typed \in [Devices -> SUBSET Notes] /\ known \in [Devices -> SUBSET Notes]
    /\ signed \in [Devices -> BOOLEAN] /\ private \in [Devices -> BOOLEAN]
    /\ held \in [Devices -> {"no", "locked", "open"}] /\ session \in [Devices -> 0..MaxSessions]
    /\ overdue \in [Devices -> [Notes -> {"no", "shown", "taken"}]]
    /\ conflict \in [Devices -> [Notes -> Row]] /\ met \in [Devices -> [Notes -> Nat]]
    /\ \A d \in Devices, n \in Notes :
        /\ ledger[d][n].base \in Row
        /\ {ledger[d][n].tracked, ledger[d][n].imported, ledger[d][n].deleted} \subseteq BOOLEAN
    /\ \A d \in Devices : task[d].at \in {"idle", "spawned", "next", "wait"}

\* Words saved here that the account does not have are replaced only by the next edit, by the version
\* the person chose, or by a deletion: no answer that was on its way overwrites them.
EditsSurvive ==
    [][\A d \in Devices, n \in Notes :
        local[d][n] # 0 /\ local[d][n] # ledger[d][n].base.text /\ local'[d][n] # local[d][n]
            => local'[d][n] \in {0, NextText} \/ conflict'[d][n] # conflict[d][n]]_vars

\* An edit replaces a revision of the account only when the device that wrote it had that very revision:
\* a retried, delayed or repeated request never puts older words over newer ones of another device.
NoLostUpdate ==
    [][\A n \in Notes : row[n] # NoRow /\ row'[n] # NoRow /\ row'[n] # row[n]
        => \E s \in DOMAIN requests : /\ requests'[s] # requests[s] /\ requests[s].note = n
                                      /\ met[s[1]][n] >= row[n].rev]_vars

\* A login that was removed changes nothing in the account any more, not even by a request that had
\* passed its first check.
RemovedWritesNothing ==
    [][\A s \in DOMAIN requests : requests'[s] # requests[s] /\ requests[s].stage # "free" /\ requests[s].who \in revoked
        => UNCHANGED Tables]_vars

\* A note that was saved and deleted has no row, whatever edits were on their way.
DeletionIsFinal == \A n \in Notes : receipt[n] = "deleted" => row[n] = NoRow

\* Only notes that were shared, or recorded while connected, are ever sent: history from before a
\* sign-in stays here until the person shares it.
PrivateHistoryStays ==
    \A d \in Devices, n \in Notes :
        LET s == Call(d) IN
        requests[s].stage # "free" /\ requests[s].kind \in {"post", "put"} /\ requests[s].note = n
            => <<d, n>> \in consent

\* After a sign-out that cleared its ledger only notes made on this device are here, whatever answer was
\* on its way, through any number of logins, failed sign-outs and times in Incognito.  The one exception is
\* a version that a sync of an earlier login put up for review and that the person took over a deletion.
SignedOutClean ==
    \A d \in Devices, n \in Notes :
        ~ HasLedger(d) /\ local[d][n] # 0 => Maker[n] = d \/ overdue[d][n] = "taken"

\* No saved words are overwritten: not in the account by words that were not written over them, and
\* not on a device by an answer that was on its way.
NothingIsOverwritten == NoLostUpdate /\ EditsSurvive

\* What is private stays private: only shared notes are sent, and a sign-out leaves only one's own, but for
\* the late review of an earlier login.
PrivateStays == PrivateHistoryStays /\ SignedOutClean

\* What a device that stays connected shows of a note, once everything settled.
Agrees(d, n) ==
    \/ row[n] = NoRow \/ local[d][n] = row[n].text
    \/ conflict[d][n] # NoRow \/ n \in typed[d]
    \/ local[d][n] \in Oversize \/ ledger[d][n].deleted

\* A connected device comes to show what the account has, or asks the person which version to keep.
Converges ==
    \A d \in Devices, n \in Notes :
        (<>[](signed[d] /\ ~ private[d] /\ Login(d) \notin revoked)) => []<>Agrees(d, n)

\* "Sync new recordings automatically": a recording saved while connected is taken up by a sync.
NewRecordingIsShared ==
    \A d \in Devices, n \in Notes :
        (signed[d] /\ <<d, n>> \in consent /\ local[d][n] # 0)
            ~> (ledger[d][n].tracked \/ local[d][n] = 0 \/ ~ signed[d] \/ private[d])

\* "A delayed first save must not resurrect it": a note that was deleted in the account has no row.
LateSaveStaysDeleted == \A n \in Notes : receipt[n] \in {"deleted", "blind"} => row[n] = NoRow

\* A deletion that reached this device is not undone by an older version of the note.
DeletionReachesEveryone ==
    [][\A d \in Devices, n \in Notes : ledger[d][n].deleted /\ local[d][n] = 0 => local'[d][n] = 0]_vars

\* A device that is alone with its notes never has to review a change of another device.
NobodyElseChanged == \A d \in Devices, n \in Notes : Cardinality(Devices) = 1 => conflict[d][n] = NoRow
=============================================================================
