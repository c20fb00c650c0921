--------------------------- MODULE AccountSyncProofs ---------------------------
(***************************************************************************)
(* What holds of AccountSync for any notes, devices, slots and bounds: a   *)
(* deleted note has no row, a login that was removed writes nothing, no    *)
(* saved words are overwritten, and what is private stays private.         *)
(*                                                                         *)
(* The inductive invariant Inv has three parts.  Reads says of which shape *)
(* every variable is, that a deleted note has no row, and (SlotInv) that a *)
(* request on its way carries only what its device may upload, over a      *)
(* revision that the device has had, and an answer only what was shared.   *)
(* NoteInv says the same of what a device keeps per note, TaskInv of the   *)
(* sync that runs.  OwnInv, beside them, says what a sign-out will find.   *)
(***************************************************************************)
EXTENDS AccountSync, TLAPS

Words == 0..MaxEdits
RowSet == {NoRow} \cup [rev : Nat \ {0}, text : Words]
Kinds == {"post", "put", "delete", "get", "list"}

IsEdit(e) == e \in [text : Words, base : Nat, op : {e.op}]

IsEntry(r) ==
    /\ r \in [tracked : BOOLEAN, base : RowSet, pending : {r.pending}, imported : BOOLEAN, deleted : BOOLEAN]
    /\ IsEdit(r.pending)

Tasks == {Idle} \cup [at : {"spawned", "next", "wait"}, cancelled : BOOLEAN, who : Devices \X Nat,
                      step : {"upload", "conflict", "list", "probe"}, todo : SUBSET Notes]

\* A request before its answer.
Asking(q) == q.stage \in {"sent", "read", "looked"}
IsAsk(q) ==
    /\ Asking(q)
    /\ q \in [stage : {"sent", "read", "looked"}, kind : Kinds, note : {q.note}, who : {q.who}, text : Words,
              base : Nat, op : {q.op}, seen : Receipt, was : RowSet]
    /\ q.kind # "list" => q.note \in Notes
    /\ q.stage = "read" => q.kind \in {"post", "put", "delete"}
    /\ q.stage = "read" /\ q.kind = "put" => q.was # NoRow
    /\ q.stage = "looked" => q.kind = "put" /\ q.was # NoRow /\ q.base = q.was.rev

IsReply(kind, status, reply) ==
    IF kind = "list" /\ status = 200 THEN reply \in [Notes -> RowSet] ELSE reply \in RowSet

IsAnswer(q) ==
    /\ q.stage = "answered"
    /\ q \in [stage : {"answered"}, kind : Kinds, note : {q.note}, who : {q.who}, status : {q.status},
              reply : {q.reply}]
    /\ q.kind # "list" => q.note \in Notes
    /\ IsReply(q.kind, q.status, q.reply)

IsRequest(q) == q = Free \/ IsAsk(q) \/ IsAnswer(q)

SpentInv == spent \in [edits : Words, lost : Nat, asides : Nat, keeps : Nat, fails : Nat]

TypeInv ==
    /\ local \in [Devices -> [Notes -> Words]]
    /\ typed \in [Devices -> SUBSET Notes] /\ known \in [Devices -> SUBSET Notes]
    /\ signed \in [Devices -> BOOLEAN] /\ private \in [Devices -> BOOLEAN]
    /\ session \in [Devices -> 0..MaxSessions] /\ held \in [Devices -> {"no", "locked", "open"}]
    /\ overdue \in [Devices -> [Notes -> {"no", "shown", "taken"}]]
    /\ conflict \in [Devices -> [Notes -> RowSet]] /\ met \in [Devices -> [Notes -> Nat]]
    /\ task \in [Devices -> Tasks]
    /\ consent \subseteq Devices \X Notes
    /\ SpentInv

LedgerInv ==
    /\ ledger = [d \in Devices |-> [n \in Notes |-> ledger[d][n]]]
    /\ \A d \in Devices, n \in Notes : IsEntry(ledger[d][n])

RequestInv ==
    /\ requests = [s \in Slots |-> requests[s]]
    /\ \A s \in Slots : IsRequest(requests[s])

\* A tombstone that leads to its row, and a note never saved, have no row.
TableInv ==
    /\ receipt \in [Notes -> Receipt] /\ row \in [Notes -> RowSet]
    /\ \A n \in Notes : receipt[n] \in {"none", "deleted"} => row[n] = NoRow

Agreed(n) == <<Maker[n], n>> \in consent

\* Whatever the account has, its maker agreed to share.
StoreInv == \A n \in Notes : row[n] # NoRow => Agreed(n)

\* Only what this device may upload is written, over a revision that it has had; and what the account
\* found or answers, it has.
Carries(q, d) ==
    /\ q.stage # "free" /\ q.kind \in {"post", "put"} => <<d, q.note>> \in consent
    /\ Asking(q) /\ q.kind = "put" => met[d][q.note] >= q.base
    /\ Asking(q) /\ q.was # NoRow => Agreed(q.note)
    /\ q.stage = "answered" /\ q.kind # "list" /\ q.reply # NoRow => Agreed(q.note)
    /\ q.stage = "answered" /\ q.kind = "list" /\ q.status = 200
          => \A n \in Notes : q.reply[n] # NoRow => Agreed(n)
SlotInv == \A s \in Slots : Carries(requests[s], s[1])

\* Who may upload a note follows from who made it.
GrantInv == \A d \in Devices, n \in Notes : <<d, n>> \in consent => Agreed(n)

-----------------------------------------------------------------------------
\* What the operators on a row of the ledger do.

LEMMA Bounds == MaxEdits \in Nat /\ MaxSessions \in Nat
BY AccountAssumption

LEMMA NothingIsAnEdit == IsEdit(Nothing)
<1>1. 0 \in Words BY Bounds DEF Words
<1>2. Nothing.text = 0 /\ Nothing.base = 0 /\ Nothing.op = 0 BY DEF Nothing
<1>3. QED BY <1>1, <1>2 DEF IsEdit, Nothing

LEMMA TrackedRow ==
    ASSUME NEW r, IsEntry(r)
    PROVE  LET t == Tracked(r) IN IsEntry(t) /\ t.tracked /\ t.base = r.base /\ t.pending = r.pending
                                  /\ t.imported = r.imported /\ t.deleted = r.deleted
BY DEF IsEntry, Tracked

LEMMA PendingRow ==
    ASSUME NEW r, IsEntry(r), NEW e, IsEdit(e)
    PROVE  LET t == [r EXCEPT !.pending = e] IN
              IsEntry(t) /\ t.tracked = r.tracked /\ t.base = r.base /\ t.pending = e
              /\ t.imported = r.imported /\ t.deleted = r.deleted
BY DEF IsEntry

LEMMA AcknowledgedRow ==
    ASSUME NEW r, IsEntry(r), NEW note \in RowSet
    PROVE  /\ IsEntry(Acknowledged(r, note))
           /\ ~ Takes(r) => Acknowledged(r, note) = r
           /\ Takes(r) => LET t == Acknowledged(r, note) IN
                 t.tracked = r.tracked /\ t.base = note /\ t.pending = Nothing
                 /\ t.imported = r.imported /\ t.deleted = r.deleted
BY NothingIsAnEdit DEF IsEntry, Acknowledged, Takes

LEMMA AppliedRow ==
    ASSUME NEW r, IsEntry(r), NEW note \in RowSet, NEW had \in BOOLEAN
    PROVE  LET t == Applied(r, note, had) IN
              IsEntry(t) /\ t.tracked /\ t.base = note /\ t.pending = Nothing /\ t.deleted = r.deleted
              /\ t.imported = (IF r.tracked THEN r.imported ELSE ~ had)
BY NothingIsAnEdit DEF IsEntry, Applied

LEMMA BuriedRow ==
    ASSUME NEW r, IsEntry(r)
    PROVE  LET t == Buried(r) IN IsEntry(t) /\ t.tracked /\ t.deleted /\ t.imported = r.imported
                                 /\ t.base = NoRow /\ t.pending = Nothing
<1>1. NoRow \in RowSet BY DEF RowSet
<1>2. QED BY <1>1, NothingIsAnEdit DEF IsEntry, Buried

LEMMA ClearedRow ==
    ASSUME NEW r, IsEntry(r)
    PROVE  /\ IsEntry(Cleared(r)) /\ IsEntry(Untracked)
           /\ r.imported => Cleared(r) = Untracked
           /\ ~ r.imported => LET t == Cleared(r) IN
                 t.tracked = r.tracked /\ t.base = r.base /\ t.pending = Nothing
                 /\ t.imported = r.imported /\ t.deleted = r.deleted
<1>1. NoRow \in RowSet BY DEF RowSet
<1>2. IsEntry(Untracked) BY <1>1, NothingIsAnEdit DEF IsEntry, Untracked
<1>3. QED BY <1>2, NothingIsAnEdit DEF IsEntry, Cleared

-----------------------------------------------------------------------------
\* A step of the account touches one request and at most one note.

LEMMA SlotOf == ASSUME NEW s \in Slots PROVE s[1] \in Devices
BY AccountAssumption

LEMMA AnswerKeeps ==
    ASSUME RequestInv, NEW s \in Slots, IsAsk(requests[s]), NEW status, NEW reply,
           IsReply(requests[s].kind, status, reply), Answer(s, status, reply)
    PROVE  /\ requests' = [t \in Slots |-> IF t = s THEN requests'[s] ELSE requests[t]]
           /\ IsRequest(requests'[s])
           /\ \/ requests'[s] = Free
              \/ /\ requests'[s].stage = "answered" /\ requests'[s].kind = requests[s].kind
                 /\ requests'[s].note = requests[s].note
                 /\ requests'[s].status = status /\ requests'[s].reply = reply
<1> DEFINE q == requests[s]
           a == [stage |-> "answered", kind |-> q.kind, note |-> q.note, who |-> q.who,
                 status |-> status, reply |-> reply]
<1>1. requests' = [requests EXCEPT ![s] = IF s \in Unheard THEN Free ELSE a]
  BY DEF Answer
<1>2. requests'[s] = IF s \in Unheard THEN Free ELSE a
  BY <1>1 DEF RequestInv
<1>3. IsAnswer(a)
  BY DEF IsAsk, Asking, IsAnswer
<1>4. requests' = [t \in Slots |-> IF t = s THEN requests'[s] ELSE requests[t]]
  BY <1>1 DEF RequestInv
<1>5. QED BY <1>2, <1>3, <1>4 DEF IsRequest

Same(s) ==
    /\ requests' = [t \in Slots |-> IF t = s THEN requests'[s] ELSE requests[t]]
    /\ IsRequest(requests'[s])
Reads == TypeInv /\ LedgerInv /\ RequestInv /\ TableInv /\ StoreInv /\ SlotInv /\ GrantInv

LEMMA SlotSteps ==
    ASSUME RequestInv, SlotInv, NEW s \in Slots, Same(s), UNCHANGED <<consent, met>>, Carries(requests[s], s[1])'
    PROVE  RequestInv' /\ SlotInv'
<1>1. RequestInv' BY DEF RequestInv, Same
<1>2. ASSUME NEW t \in Slots PROVE Carries(requests[t], t[1])'
  <2>1. CASE t = s BY <2>1
  <2>2. CASE t # s
    <3>1. requests'[t] = requests[t] BY <2>2 DEF Same
    <3>2. Carries(requests[t], t[1]) BY DEF SlotInv
    <3>3. QED BY <3>1, <3>2 DEF Carries, Asking, Agreed
  <2>3. QED BY <2>1, <2>2
<1>3. QED BY <1>1, <1>2 DEF SlotInv

\* What may come of a request that is answered.
LEMMA AnswerCarries ==
    ASSUME Reads, NEW s \in Slots, IsAsk(requests[s]), NEW status, NEW reply,
           IsReply(requests[s].kind, status, reply), Answer(s, status, reply), UNCHANGED <<consent, met>>,
           requests[s].kind # "list" /\ reply # NoRow => Agreed(requests[s].note),
           requests[s].kind = "list" /\ status = 200 => \A n \in Notes : reply[n] # NoRow => Agreed(n)
    PROVE  Same(s) /\ RequestInv' /\ SlotInv'
<1>1. Carries(requests[s], s[1]) BY DEF Reads, SlotInv
<1>2. /\ Same(s)
      /\ \/ requests'[s] = Free
         \/ /\ requests'[s].stage = "answered" /\ requests'[s].kind = requests[s].kind
            /\ requests'[s].note = requests[s].note
            /\ requests'[s].status = status /\ requests'[s].reply = reply
  BY AnswerKeeps DEF Reads, Same
<1>3. Carries(requests[s], s[1])'
  <2>1. CASE requests'[s] = Free
    BY <2>1 DEF Free, Carries, Asking
  <2>2. CASE /\ requests'[s].stage = "answered" /\ requests'[s].kind = requests[s].kind
             /\ requests'[s].note = requests[s].note
             /\ requests'[s].status = status /\ requests'[s].reply = reply
    <3>1. requests[s].stage \in {"sent", "read", "looked"} BY DEF IsAsk, Asking
    <3>2. requests[s].kind \in {"post", "put"} => <<s[1], requests[s].note>> \in consent
      BY <1>1, <3>1 DEF Carries
    <3>3. QED BY <2>2, <3>2 DEF Carries, Asking, Agreed
  <2>3. QED BY <1>2, <2>1, <2>2
<1>4. QED BY <1>2, <1>3, SlotSteps DEF Reads

Tabled == TableInv /\ StoreInv

LEMMA ReadKeeps ==
    ASSUME Reads, NEW s \in Slots, Read(s), UNCHANGED <<consent, met>>
    PROVE  Same(s) /\ RequestInv' /\ SlotInv' /\ Tabled' /\ UNCHANGED Tables
<1> DEFINE q == requests[s]
           w == row[q.note]
           v == Verdict(q, receipt[q.note], w)
<1>1. q.stage = "sent" /\ q.kind # "list" /\ UNCHANGED Tables
  BY DEF Read
<1>2. IsAsk(q) /\ q.note \in Notes /\ Carries(q, s[1])
  BY <1>1 DEF Reads, RequestInv, IsRequest, Free, IsAsk, Asking, IsAnswer, SlotInv
<1>3. Tabled'
  BY <1>1 DEF Tables, Tabled, Reads, TableInv, StoreInv, Agreed
<1>4. w \in RowSet /\ receipt[q.note] \in Receipt /\ NoRow \in RowSet /\ (w # NoRow => Agreed(q.note))
  BY <1>2 DEF Reads, TableInv, StoreInv, RowSet
<1>5. CASE v = 0 /\ requests' = [requests EXCEPT ![s] = [@ EXCEPT !.stage = "read", !.seen = receipt[q.note], !.was = w]]
  <2> DEFINE p == [q EXCEPT !.stage = "read", !.seen = receipt[q.note], !.was = w]
  <2>1. requests'[s] = p /\ requests' = [t \in Slots |-> IF t = s THEN requests'[s] ELSE requests[t]]
    BY <1>5 DEF Reads, RequestInv
  <2>2. p.stage = "read" /\ p.kind = q.kind /\ p.note = q.note /\ p.base = q.base /\ p.was = w
    BY <1>2 DEF IsAsk, Asking
  <2>3. q.kind \in {"post", "put", "delete"} /\ (q.kind = "put" => w # NoRow)
    BY <1>1, <1>2, <1>5, Bounds DEF IsAsk, Asking, Kinds, Verdict, Saved, HasKey
  <2>4. IsAsk(p)
    BY <1>2, <1>4, <2>2, <2>3 DEF IsAsk, Asking
  <2>5. Carries(requests[s], s[1])'
    BY <1>1, <1>2, <1>4, <2>1, <2>2 DEF Carries, Asking, Agreed
  <2>6. QED BY <1>1, <1>3, <2>1, <2>4, <2>5, SlotSteps DEF Same, IsRequest, Reads
<1>6. CASE v = 200 /\ Answer(s, 200, w)
  BY <1>1, <1>2, <1>3, <1>4, <1>6, AnswerCarries DEF IsReply
<1>7. CASE v \notin {0, 200} /\ Refuse(s, v)
  BY <1>1, <1>2, <1>3, <1>4, <1>7, AnswerCarries DEF IsReply, Refuse
<1>8. QED BY <1>5, <1>6, <1>7 DEF Read

LEMMA ListKeeps ==
    ASSUME Reads, NEW s \in Slots, List(s), UNCHANGED <<consent, met>>
    PROVE  Same(s) /\ RequestInv' /\ SlotInv' /\ Tabled' /\ UNCHANGED Tables
<1> DEFINE q == requests[s]
<1>1. q.stage = "sent" /\ q.kind = "list" /\ UNCHANGED Tables
  BY DEF List
<1>2. IsAsk(q) BY <1>1 DEF Reads, RequestInv, IsRequest, Free, IsAsk, Asking, IsAnswer
<1>3. Tabled'
  BY <1>1 DEF Tables, Tabled, Reads, TableInv, StoreInv, Agreed
<1>4. NoRow \in RowSet /\ row \in [Notes -> RowSet] /\ \A n \in Notes : row[n] # NoRow => Agreed(n)
  BY DEF RowSet, Reads, TableInv, StoreInv
<1>5. CASE Answer(s, 403, NoRow)
  BY <1>1, <1>2, <1>3, <1>4, <1>5, AnswerCarries DEF IsReply
<1>6. CASE Answer(s, 200, row)
  BY <1>1, <1>2, <1>3, <1>4, <1>6, AnswerCarries DEF IsReply
<1>7. QED BY <1>5, <1>6 DEF List, Refuse

LEMMA LookKeeps ==
    ASSUME Reads, NEW s \in Slots, Look(s), UNCHANGED <<consent, met>>
    PROVE  Same(s) /\ RequestInv' /\ SlotInv' /\ Tabled' /\ UNCHANGED Tables
<1> DEFINE q == requests[s]
<1>1. q.stage = "read" /\ q.kind = "put" /\ UNCHANGED Tables
  BY DEF Look
<1>2. IsAsk(q) /\ q.note \in Notes /\ Carries(q, s[1])
  BY <1>1 DEF Reads, RequestInv, IsRequest, Free, IsAsk, Asking, IsAnswer, SlotInv
<1>3. Tabled'
  BY <1>1 DEF Tables, Tabled, Reads, TableInv, StoreInv, Agreed
<1>4. NoRow \in RowSet /\ q.was \in RowSet /\ q.was # NoRow /\ Agreed(q.note)
  BY <1>1, <1>2 DEF RowSet, IsAsk, Carries, Asking
<1>5. CASE Answer(s, 200, q.was)
  BY <1>1, <1>2, <1>3, <1>4, <1>5, AnswerCarries DEF IsReply
<1>6. CASE Refuse(s, 409) \/ Refuse(s, 400)
  BY <1>1, <1>2, <1>3, <1>4, <1>6, AnswerCarries DEF IsReply, Refuse
<1>7. CASE q.base = q.was.rev /\ requests' = [requests EXCEPT ![s].stage = "looked"]
  <2> DEFINE p == [q EXCEPT !.stage = "looked"]
  <2>1. requests'[s] = p /\ requests' = [t \in Slots |-> IF t = s THEN requests'[s] ELSE requests[t]]
    BY <1>7 DEF Reads, RequestInv
  <2>2. p.stage = "looked" /\ p.kind = q.kind /\ p.note = q.note /\ p.base = q.base /\ p.was = q.was
    BY <1>2 DEF IsAsk, Asking
  <2>3. IsAsk(p)
    BY <1>1, <1>2, <1>4, <1>7, <2>2 DEF IsAsk, Asking
  <2>4. Carries(requests[s], s[1])'
    BY <1>1, <1>2, <2>1, <2>2 DEF Carries, Asking, Agreed
  <2>5. QED BY <1>1, <1>3, <2>1, <2>3, <2>4, SlotSteps DEF Same, IsRequest, Reads
<1>8. QED BY <1>5, <1>6, <1>7 DEF Look

\* The three transactions: each writes only for a login that is still connected, and only the note it names.
Writes(s) ==
    \/ UNCHANGED <<receipt, row, applied>>
    \/ /\ DeviceChecks(requests[s]) /\ requests[s].note \in Notes
       /\ \A n \in Notes \ {requests[s].note} : receipt'[n] = receipt[n] /\ row'[n] = row[n]

LEMMA PostKeeps ==
    ASSUME Reads, NEW s \in Slots, CommitPost(s), UNCHANGED <<consent, met>>
    PROVE  Same(s) /\ RequestInv' /\ SlotInv' /\ Tabled' /\ UNCHANGED revoked /\ Writes(s)
           /\ \A n \in Notes : row[n] # NoRow => row'[n] = row[n]
<1> DEFINE q == requests[s]
           w == [rev |-> 1, text |-> q.text]
<1>1. q.stage = "read" /\ q.kind = "post" /\ UNCHANGED <<applied, revoked>>
  BY DEF CommitPost
<1>2. IsAsk(q) /\ q.note \in Notes /\ Carries(q, s[1]) /\ s[1] \in Devices
  BY <1>1, SlotOf DEF Reads, RequestInv, IsRequest, Free, IsAsk, Asking, IsAnswer, SlotInv
<1>3. NoRow \in RowSet /\ w \in RowSet /\ Agreed(q.note)
  BY <1>1, <1>2 DEF RowSet, IsAsk, Asking, Carries, Reads, GrantInv
<1>4. CASE Refuse(s, 409) /\ UNCHANGED <<receipt, row>>
  <2>1. Tabled' BY <1>4 DEF Tabled, Reads, TableInv, StoreInv, Agreed
  <2>2. QED BY <1>1, <1>2, <1>3, <1>4, <2>1, AnswerCarries DEF IsReply, Refuse, Writes, Reads, TableInv
<1>5. CASE /\ DeviceChecks(q) /\ receipt[q.note] = "none"
           /\ receipt' = [receipt EXCEPT ![q.note] = "live"] /\ row' = [row EXCEPT ![q.note] = w]
           /\ Answer(s, 200, row'[q.note])
  <2>1. /\ row'[q.note] = w /\ receipt'[q.note] = "live" /\ row[q.note] = NoRow
        /\ \A n \in Notes \ {q.note} : receipt'[n] = receipt[n] /\ row'[n] = row[n]
        /\ receipt' \in [Notes -> Receipt] /\ row' \in [Notes -> RowSet]
    BY <1>2, <1>3, <1>5 DEF Reads, TableInv, Receipt
  <2>2. Tabled'
    BY <1>3, <2>1 DEF Tabled, Reads, TableInv, StoreInv, Agreed
  <2>3. Answer(s, 200, w) BY <1>5, <2>1
  <2>4. Same(s) /\ RequestInv' /\ SlotInv'
    BY <1>1, <1>2, <1>3, <2>3, AnswerCarries DEF IsReply
  <2>5. QED BY <1>1, <1>2, <1>5, <2>1, <2>2, <2>4 DEF Writes
<1>6. QED BY <1>4, <1>5 DEF CommitPost

LEMMA PutKeeps ==
    ASSUME Reads, NEW s \in Slots, CommitPut(s), UNCHANGED <<consent, met>>
    PROVE  Same(s) /\ RequestInv' /\ SlotInv' /\ Tabled' /\ UNCHANGED revoked /\ Writes(s)
           /\ \A n \in Notes : row'[n] # row[n]
                 => n = requests[s].note /\ met[s[1]][n] >= row[n].rev /\ requests'[s] # requests[s]
<1> DEFINE q == requests[s]
           w == [rev |-> q.was.rev + 1, text |-> q.text]
<1>1. q.stage = "looked" /\ UNCHANGED <<receipt, revoked>>
  BY DEF CommitPut
<1>2. IsAsk(q) /\ q.kind = "put" /\ q.note \in Notes /\ Carries(q, s[1]) /\ s[1] \in Devices
  BY <1>1, SlotOf DEF Reads, RequestInv, IsRequest, Free, IsAsk, Asking, IsAnswer, SlotInv
<1>3. NoRow \in RowSet /\ w \in RowSet /\ Agreed(q.note)
  <2>1. q.was \in [rev : Nat \ {0}, text : Words]
    BY <1>1, <1>2 DEF RowSet, IsAsk, Asking
  <2>2. q.text \in Words /\ q.was.rev + 1 \in Nat \ {0}
    BY <1>2, <2>1 DEF IsAsk, Asking
  <2>3. QED BY <1>1, <1>2, <2>2 DEF RowSet, IsAsk, Asking, Carries, Reads, GrantInv
<1>4. CASE Refuse(s, 409) /\ UNCHANGED <<row, applied>>
  <2>1. Tabled' BY <1>1, <1>4 DEF Tabled, Reads, TableInv, StoreInv, Agreed
  <2>2. QED BY <1>1, <1>2, <1>3, <1>4, <2>1, AnswerCarries DEF IsReply, Refuse, Writes, Reads, TableInv
<1>5. CASE /\ DeviceChecks(q) /\ HasKey(receipt[q.note]) /\ row[q.note].rev = q.was.rev
           /\ row' = [row EXCEPT ![q.note] = w] /\ Answer(s, 200, row'[q.note])
  <2>1. /\ row'[q.note] = w
        /\ \A n \in Notes \ {q.note} : receipt'[n] = receipt[n] /\ row'[n] = row[n]
        /\ row' \in [Notes -> RowSet]
    BY <1>1, <1>2, <1>3, <1>5 DEF Reads, TableInv
  <2>2. row[q.note] # NoRow
    <3>1. q.was.rev # 0 BY <1>1, <1>2 DEF IsAsk, Asking, RowSet
    <3>2. QED BY <1>5, <3>1 DEF NoRow
  <2>3. receipt[q.note] \notin {"none", "deleted"}
    BY <1>2, <2>2 DEF Reads, TableInv
  <2>4. Tabled'
    BY <1>1, <1>3, <2>1, <2>3 DEF Tabled, Reads, TableInv, StoreInv, Agreed
  <2>5. Answer(s, 200, w) BY <1>5, <2>1
  <2>6. Same(s) /\ RequestInv' /\ SlotInv' /\ requests'[s] # requests[s]
    <3>1. Same(s) /\ RequestInv' /\ SlotInv'
      BY <1>2, <1>3, <2>5, AnswerCarries DEF IsReply
    <3>2. requests'[s] = Free \/ requests'[s].stage = "answered"
      BY <1>2, <1>3, <2>5, AnswerKeeps DEF IsReply, Reads
    <3>3. QED BY <1>1, <3>1, <3>2 DEF Free
  <2>7. met[s[1]][q.note] >= row[q.note].rev
    BY <1>1, <1>2, <1>5 DEF IsAsk, Carries, Asking
  <2>8. QED BY <1>1, <1>2, <1>5, <2>1, <2>4, <2>6, <2>7 DEF Writes
<1>6. QED BY <1>4, <1>5 DEF CommitPut

LEMMA DeleteKeeps ==
    ASSUME Reads, NEW s \in Slots, CommitDelete(s), UNCHANGED <<consent, met>>
    PROVE  Same(s) /\ RequestInv' /\ SlotInv' /\ Tabled' /\ UNCHANGED revoked /\ Writes(s)
           /\ \A n \in Notes : row'[n] # NoRow => row'[n] = row[n]
<1> DEFINE q == requests[s]
<1>1. q.stage = "read" /\ q.kind = "delete" /\ UNCHANGED <<applied, revoked>>
  BY DEF CommitDelete
<1>2. IsAsk(q) /\ q.note \in Notes /\ Carries(q, s[1])
  BY <1>1 DEF Reads, RequestInv, IsRequest, Free, IsAsk, Asking, IsAnswer, SlotInv
<1>3. NoRow \in RowSet
  BY DEF RowSet
<1>4. CASE Refuse(s, 409) /\ UNCHANGED <<receipt, row>>
  <2>1. Tabled' BY <1>4 DEF Tabled, Reads, TableInv, StoreInv, Agreed
  <2>2. QED BY <1>1, <1>2, <1>3, <1>4, <2>1, AnswerCarries DEF IsReply, Refuse, Writes, Reads, TableInv
<1>5. CASE /\ DeviceChecks(q)
           /\ receipt' = [receipt EXCEPT ![q.note] = IF HasKey(q.seen) THEN "deleted" ELSE "blind"]
           /\ row' = IF HasKey(q.seen) THEN [row EXCEPT ![q.note] = NoRow] ELSE row
           /\ Answer(s, 200, NoRow)
  <2>1. /\ receipt'[q.note] = (IF HasKey(q.seen) THEN "deleted" ELSE "blind")
        /\ row'[q.note] = (IF HasKey(q.seen) THEN NoRow ELSE row[q.note])
        /\ \A n \in Notes \ {q.note} : receipt'[n] = receipt[n] /\ row'[n] = row[n]
        /\ receipt' \in [Notes -> Receipt] /\ row' \in [Notes -> RowSet]
    BY <1>2, <1>3, <1>5 DEF Reads, TableInv, Receipt
  <2>2. Tabled'
    BY <1>2, <2>1 DEF Tabled, Reads, TableInv, StoreInv, Agreed
  <2>3. Same(s) /\ RequestInv' /\ SlotInv'
    BY <1>1, <1>2, <1>3, <1>5, AnswerCarries DEF IsReply
  <2>4. QED BY <1>1, <1>2, <1>5, <2>1, <2>2, <2>3 DEF Writes
<1>6. QED BY <1>4, <1>5 DEF CommitDelete

LEMMA ServerKeeps ==
    ASSUME Reads, NEW s \in Slots, Serves(s), UNCHANGED <<consent, met>>
    PROVE  /\ Same(s) /\ RequestInv' /\ SlotInv' /\ Tabled' /\ UNCHANGED revoked /\ Writes(s)
           /\ \A n \in Notes : row[n] # NoRow /\ row'[n] # NoRow /\ row'[n] # row[n]
                 => n = requests[s].note /\ met[s[1]][n] >= row[n].rev /\ requests'[s] # requests[s]
<1>1. CASE Read(s) BY <1>1, ReadKeeps DEF Tables, Writes
<1>2. CASE List(s) BY <1>2, ListKeeps DEF Tables, Writes
<1>3. CASE Look(s) BY <1>3, LookKeeps DEF Tables, Writes
<1>4. CASE CommitPost(s) BY <1>4, PostKeeps
<1>5. CASE CommitPut(s) BY <1>5, PutKeeps
<1>6. CASE CommitDelete(s) BY <1>6, DeleteKeeps
<1>7. QED BY <1>1, <1>2, <1>3, <1>4, <1>5, <1>6 DEF Serves

-----------------------------------------------------------------------------
\* Devices.

\* What a device tracks, reviews, has from the account, or will track at its next sync, it may upload; and
\* what it compares with, it has had.
NoteOK(d, n) ==
    /\ ledger[d][n].tracked /\ ~ ledger[d][n].deleted => <<d, n>> \in consent
    /\ conflict[d][n] # NoRow => <<d, n>> \in consent
    /\ local[d][n] # 0 /\ d # Maker[n] => <<d, n>> \in consent
    /\ local[d][n] # 0 /\ signed[d] /\ n \notin known[d] => <<d, n>> \in consent
    /\ met[d][n] >= ledger[d][n].base.rev /\ met[d][n] >= ledger[d][n].pending.base
NoteInv == \A d \in Devices, n \in Notes : NoteOK(d, n)

\* A sync uploads only what it may, and asks for a version to review only of that.
TaskOK(d) ==
    /\ task[d] # Idle /\ task[d].step \in {"upload", "conflict"}
          => \A n \in task[d].todo : <<d, n>> \in consent
    /\ task[d] # Idle /\ task[d].step = "conflict" /\ requests[Call(d)] # Free
          => <<d, requests[Call(d)].note>> \in consent
TaskInv == \A d \in Devices : TaskOK(d)

Inv == Reads /\ NoteInv /\ TaskInv

\* What a device had or agreed to is never taken back.
Grows == consent \subseteq consent' /\ \A d \in Devices, n \in Notes : met'[d][n] >= met[d][n]

LEMMA CallOf == ASSUME NEW d \in Devices PROVE Call(d) \in Slots /\ Call(d)[1] = d
BY AccountAssumption DEF Call

\* A request that stays, goes or comes in order keeps every slot in order.
LEMMA SlotsGrow ==
    ASSUME RequestInv, SlotInv, TypeInv, TypeInv', Grows,
           requests' = [s \in Slots |-> requests'[s]],
           \A s \in Slots : \/ requests'[s] = requests[s] \/ requests'[s] = Free
                            \/ IsRequest(requests'[s]) /\ Carries(requests[s], s[1])'
                            \/ \E t \in Slots : t[1] = s[1] /\ requests'[s] = requests[t]
    PROVE  RequestInv' /\ SlotInv'
<1>1. RequestInv'
  BY DEF RequestInv, IsRequest
<1>2. ASSUME NEW s \in Slots, NEW t \in Slots, t[1] = s[1], requests'[s] = requests[t]
      PROVE  Carries(requests[s], s[1])'
  <2>1. Carries(requests[t], s[1]) BY <1>2 DEF SlotInv
  <2>2. s[1] \in Devices BY SlotOf
  <2>3. IsRequest(requests[t]) BY DEF RequestInv
  <2>4. Asking(requests[t]) /\ requests[t].kind = "put" => met'[s[1]][requests[t].note] >= requests[t].base
    <3>1. SUFFICES ASSUME Asking(requests[t]), requests[t].kind = "put"
                   PROVE  met'[s[1]][requests[t].note] >= requests[t].base
      OBVIOUS
    <3>2. requests[t].note \in Notes /\ requests[t].base \in Nat
      BY <2>3, <3>1 DEF IsRequest, Free, IsAsk, IsAnswer, Asking
    <3>3. met[s[1]][requests[t].note] \in Nat /\ met'[s[1]][requests[t].note] \in Nat
      BY <2>2, <3>2 DEF TypeInv
    <3>4. met[s[1]][requests[t].note] >= requests[t].base
      BY <2>1, <3>1 DEF Carries
    <3>5. QED BY <2>2, <3>2, <3>3, <3>4 DEF Grows
  <2>5. QED BY <1>2, <2>1, <2>4 DEF Carries, Asking, Agreed, Grows
<1>3. ASSUME NEW s \in Slots PROVE Carries(requests[s], s[1])'
  <2>1. CASE requests'[s] = requests[s] BY <1>2, <2>1
  <2>2. CASE requests'[s] = Free BY <2>2 DEF Carries, Free, Asking
  <2>3. QED BY <1>2, <2>1, <2>2
<1>4. QED BY <1>1, <1>3 DEF SlotInv

LEMMA RowsOf == ASSUME NEW w \in RowSet PROVE w.rev \in Nat /\ w.text \in Words /\ NoRow \in RowSet
                                              /\ NoRow.rev = 0 /\ NoRow.text = 0 /\ 0 \in Words /\ Words \subseteq Nat
BY Bounds DEF RowSet, NoRow, Words

-----------------------------------------------------------------------------
\* The person.

\* What a step of a device has to keep, whatever it asks of the account.
Kept == TypeInv' /\ LedgerInv' /\ Grows /\ GrantInv' /\ NoteInv' /\ TaskInv'

LEMMA Spends ==
    ASSUME SpentInv
    PROVE  /\ NextText \in Nat \ {0}
           /\ spent.edits < MaxEdits => NextText \in Words
           /\ spent.edits < MaxEdits /\ Spend("edits") => SpentInv'
           /\ Spend("lost") \/ Spend("asides") \/ Spend("keeps") \/ Spend("fails") => SpentInv'
<1>1. NextText \in Nat \ {0} /\ (spent.edits < MaxEdits => NextText \in Words)
  BY Bounds DEF SpentInv, NextText, Words
<1>2. ASSUME spent.edits < MaxEdits, Spend("edits") PROVE SpentInv'
  <2>1. spent' = [spent EXCEPT !.edits = spent.edits + 1] BY <1>2 DEF Spend
  <2>2. spent.edits + 1 \in Words BY <1>1, <1>2 DEF NextText
  <2>3. QED BY <2>1, <2>2 DEF SpentInv
<1>3. ASSUME Spend("lost") PROVE SpentInv'
  <2>1. spent' = [spent EXCEPT !.lost = spent.lost + 1] BY <1>3 DEF Spend
  <2>2. QED BY <2>1 DEF SpentInv
<1>4. ASSUME Spend("asides") PROVE SpentInv'
  <2>1. spent' = [spent EXCEPT !.asides = spent.asides + 1] BY <1>4 DEF Spend
  <2>2. QED BY <2>1 DEF SpentInv
<1>5. ASSUME Spend("keeps") PROVE SpentInv'
  <2>1. spent' = [spent EXCEPT !.keeps = spent.keeps + 1] BY <1>5 DEF Spend
  <2>2. QED BY <2>1 DEF SpentInv
<1>6. ASSUME Spend("fails") PROVE SpentInv'
  <2>1. spent' = [spent EXCEPT !.fails = spent.fails + 1] BY <1>6 DEF Spend
  <2>2. QED BY <2>1 DEF SpentInv
<1>7. QED BY <1>1, <1>2, <1>3, <1>4, <1>5, <1>6

\* One row of a ledger is written.
LEMMA LedgerStep ==
    ASSUME LedgerInv, NEW d \in Devices, NEW n \in Notes, NEW x, IsEntry(x), ledger' = [ledger EXCEPT ![d][n] = x]
    PROVE  /\ LedgerInv' /\ ledger'[d][n] = x
           /\ \A e \in Devices, m \in Notes : ~ (e = d /\ m = n) => ledger'[e][m] = ledger[e][m]
<1>1. ledger' = [e \in Devices |-> [m \in Notes |-> IF e = d /\ m = n THEN x ELSE ledger[e][m]]]
  <2>1. ledger = [e \in Devices |-> [m \in Notes |-> ledger[e][m]]] BY DEF LedgerInv
  <2>2. ledger[d] = [m \in Notes |-> ledger[d][m]] BY <2>1
  <2>3. QED BY <2>1, <2>2
<1>2. \A e \in Devices, m \in Notes : ledger'[e][m] = IF e = d /\ m = n THEN x ELSE ledger[e][m]
  BY <1>1
<1>3. ledger' = [e \in Devices |-> [m \in Notes |-> ledger'[e][m]]]
  BY <1>1
<1>4. \A e \in Devices, m \in Notes : IsEntry(ledger'[e][m])
  BY <1>2 DEF LedgerInv
<1>5. QED BY <1>2, <1>3, <1>4 DEF LedgerInv

\* A note that nothing touched.
LEMMA NoteStays ==
    ASSUME TypeInv, NEW d \in Devices, NEW n \in Notes, NoteOK(d, n), consent \subseteq consent',
           ledger'[d][n] = ledger[d][n], local'[d][n] = local[d][n], conflict'[d][n] = conflict[d][n],
           met'[d][n] = met[d][n], signed'[d] = signed[d], n \in known[d] => n \in known'[d]
    PROVE  NoteOK(d, n)'
BY DEF NoteOK

LEMMA RecordKeeps ==
    ASSUME Inv, NEW d \in Devices, NEW n \in Notes, Record(d, n)
    PROVE  Kept
<1>1. TypeInv'
  BY Spends DEF Inv, Reads, TypeInv, Record, UNTOUCHED
<1>2. LedgerInv' BY DEF Inv, Reads, LedgerInv, Record
<1>3. Grows BY DEF Inv, Reads, TypeInv, Record, Grows
<1>4. GrantInv'
  BY DEF Inv, Reads, GrantInv, Record, Agreed
<1>5. NoteInv'
  BY DEF Inv, Reads, TypeInv, NoteInv, NoteOK, Record, UNTOUCHED
<1>6. TaskInv'
  BY DEF Inv, Reads, TypeInv, TaskInv, TaskOK, Record, UNTOUCHED, hosted, Call
<1>7. QED BY <1>1, <1>2, <1>3, <1>4, <1>5, <1>6 DEF Kept

LEMMA TypeKeeps ==
    ASSUME Inv, NEW d \in Devices, NEW n \in Notes, Type(d, n)
    PROVE  Kept
<1>1. TypeInv'
  BY DEF Inv, Reads, TypeInv, Type, UNTOUCHED, SpentInv
<1>2. LedgerInv' /\ Grows /\ GrantInv'
  BY DEF Inv, Reads, LedgerInv, TypeInv, Type, Grows, GrantInv, Agreed
<1>3. NoteInv' /\ TaskInv'
  BY DEF Inv, Reads, NoteInv, NoteOK, TaskInv, TaskOK, Type, UNTOUCHED, hosted, Call
<1>4. QED BY <1>1, <1>2, <1>3 DEF Kept

LEMMA SaveTextKeeps ==
    ASSUME Inv, NEW d \in Devices, NEW n \in Notes, SaveText(d, n)
    PROVE  Kept
<1>1. /\ SpentInv' /\ local' \in [Devices -> [Notes -> Words]]
      /\ \A e \in Devices, m \in Notes : local'[e][m] # 0 => local[e][m] # 0
  <2>1. CASE local[d][n] # 0 /\ spent.edits < MaxEdits
    <3>1. local' = [local EXCEPT ![d][n] = NextText] /\ Spend("edits") BY <2>1 DEF SaveText
    <3>2. SpentInv' /\ NextText \in Words BY <2>1, <3>1, Spends DEF Inv, Reads, TypeInv
    <3>3. QED BY <2>1, <3>1, <3>2 DEF Inv, Reads, TypeInv
  <2>2. CASE ~ (local[d][n] # 0 /\ spent.edits < MaxEdits)
    BY <2>2 DEF SaveText, Inv, Reads, TypeInv, SpentInv
  <2>3. QED BY <2>1, <2>2
<1>2. TypeInv'
  BY <1>1 DEF Inv, Reads, TypeInv, SaveText, UNTOUCHED
<1>3. LedgerInv' /\ Grows /\ GrantInv'
  BY DEF Inv, Reads, LedgerInv, TypeInv, SaveText, Grows, GrantInv, Agreed
<1>4. NoteInv'
  BY <1>1 DEF Inv, NoteInv, NoteOK, SaveText, UNTOUCHED
<1>5. TaskInv'
  BY DEF Inv, Reads, TaskInv, TaskOK, SaveText, UNTOUCHED, hosted, Call
<1>6. QED BY <1>2, <1>3, <1>4, <1>5 DEF Kept

LEMMA RemoveKeeps ==
    ASSUME Inv, NEW d \in Devices, NEW n \in Notes, Remove(d, n)
    PROVE  Kept
<1>1. TypeInv'
  BY RowsOf DEF Inv, Reads, TypeInv, Remove, UNTOUCHED, SpentInv, RowSet
<1>2. LedgerInv' /\ Grows /\ GrantInv'
  BY DEF Inv, Reads, LedgerInv, TypeInv, Remove, Grows, GrantInv, Agreed
<1>3. NoteInv'
  BY DEF Inv, Reads, TypeInv, NoteInv, NoteOK, Remove, UNTOUCHED
<1>4. TaskInv'
  BY DEF Inv, Reads, TaskInv, TaskOK, Remove, UNTOUCHED, hosted, Call
<1>5. QED BY <1>1, <1>2, <1>3, <1>4 DEF Kept

LEMMA ShareKeeps ==
    ASSUME Inv, NEW d \in Devices, NEW n \in Notes, Share(d, n)
    PROVE  Kept
<1> DEFINE r == ledger[d][n]
<1>1. IsEntry(r) /\ NoRow \in RowSet /\ IsEdit(Nothing) /\ NoteOK(d, n)
  BY NothingIsAnEdit DEF Inv, Reads, LedgerInv, RowSet, NoteInv
<1>2. /\ IsEntry(Tracked(r)) /\ Tracked(r).tracked /\ Tracked(r).base = r.base /\ Tracked(r).pending = r.pending
      /\ Tracked(r).imported = r.imported /\ Tracked(r).deleted = r.deleted
  BY <1>1, TrackedRow
<1>3. /\ LedgerInv' /\ ledger'[d][n] = Tracked(r)
      /\ \A e \in Devices, m \in Notes : ~ (e = d /\ m = n) => ledger'[e][m] = ledger[e][m]
  <2>1. ledger' = [ledger EXCEPT ![d][n] = Tracked(r)] BY DEF Share
  <2>2. QED BY <1>2, <2>1, LedgerStep DEF Inv, Reads
<1>4. TypeInv'
  BY DEF Inv, Reads, TypeInv, Share, UNTOUCHED, SpentInv
<1>5. Grows
  BY DEF Inv, Reads, TypeInv, Share, Grows
<1>6. GrantInv'
  BY DEF Inv, Reads, GrantInv, Agreed, NoteInv, NoteOK, Share
<1>7. NoteInv'
  <2>1. NoteOK(d, n)' BY <1>1, <1>2, <1>3 DEF NoteOK, Share, UNTOUCHED
  <2>2. ASSUME NEW e \in Devices, NEW m \in Notes, ~ (e = d /\ m = n) PROVE NoteOK(e, m)'
    BY <1>3, <1>5, <2>2, NoteStays DEF Inv, Reads, NoteInv, Share, UNTOUCHED, Grows
  <2>3. QED BY <2>1, <2>2 DEF NoteInv
<1>8. TaskInv'
  BY DEF Inv, Reads, TaskInv, TaskOK, Share, UNTOUCHED, hosted, Call
<1>9. QED BY <1>3, <1>4, <1>5, <1>6, <1>7, <1>8 DEF Kept

LEMMA Newer == ASSUME NEW m \in Nat, NEW w \in RowSet
               PROVE  Newest(m, w) \in Nat /\ Newest(m, w) >= m /\ Newest(m, w) >= w.rev
BY RowsOf DEF Newest

LEMMA UseRemoteKeeps ==
    ASSUME Inv, NEW d \in Devices, NEW n \in Notes, UseRemote(d, n)
    PROVE  Kept
<1> DEFINE r == ledger[d][n]
           w == conflict[d][n]
           a == Applied(r, w, local[d][n] # 0)
<1>1. IsEntry(r) /\ NoRow \in RowSet /\ IsEdit(Nothing) /\ w \in RowSet /\ w # NoRow
      /\ (local[d][n] # 0) \in BOOLEAN /\ met[d][n] \in Nat /\ NoteOK(d, n)
  BY NothingIsAnEdit DEF Inv, Reads, LedgerInv, RowSet, TypeInv, UseRemote, NoteInv
<1>2. IsEntry(a) /\ a.tracked /\ a.base = w /\ a.pending = Nothing /\ a.deleted = r.deleted
  <2> DEFINE had == local[d][n] # 0
  <2>1. had \in BOOLEAN BY <1>1
  <2> HIDE DEF had
  <2> DEFINE t == Applied(r, w, had)
  <2>2. IsEntry(t) /\ t.tracked /\ t.base = w /\ t.pending = Nothing /\ t.deleted = r.deleted
    BY <1>1, <2>1, AppliedRow
  <2>3. QED BY <2>2 DEF had
<1> HIDE DEF a
<1>3. /\ LedgerInv' /\ ledger'[d][n] = a
      /\ \A e \in Devices, m \in Notes : ~ (e = d /\ m = n) => ledger'[e][m] = ledger[e][m]
  <2>1. ledger' = [ledger EXCEPT ![d][n] = a] BY DEF UseRemote, a
  <2>2. QED BY <1>2, <2>1, LedgerStep DEF Inv, Reads
<1>4. /\ local'[d][n] = w.text /\ conflict'[d][n] = NoRow /\ met'[d][n] = Newest(met[d][n], w)
      /\ \A e \in Devices, m \in Notes : ~ (e = d /\ m = n) =>
            local'[e][m] = local[e][m] /\ conflict'[e][m] = conflict[e][m] /\ met'[e][m] = met[e][m]
  BY DEF Inv, Reads, TypeInv, UseRemote
<1>5. met'[d][n] \in Nat /\ met'[d][n] >= met[d][n] /\ met'[d][n] >= w.rev
  BY <1>1, <1>4, Newer
<1>6. TypeInv'
  BY <1>1, <1>4, <1>5, RowsOf, Newer DEF Inv, Reads, TypeInv, UseRemote, SpentInv, Settled
<1>7. Grows
  BY <1>4, <1>5 DEF Inv, Reads, TypeInv, UseRemote, Grows
<1>8. GrantInv'
  BY DEF Inv, Reads, GrantInv, Agreed, UseRemote
<1>9. NoteInv'
  <2>1. NoteOK(d, n)'
    BY <1>1, <1>2, <1>3, <1>4, <1>5 DEF NoteOK, UseRemote, Nothing
  <2>2. ASSUME NEW e \in Devices, NEW m \in Notes, ~ (e = d /\ m = n) PROVE NoteOK(e, m)'
    BY <1>3, <1>4, <2>2, NoteStays DEF Inv, Reads, NoteInv, UseRemote
  <2>3. QED BY <2>1, <2>2 DEF NoteInv
<1>10. TaskInv'
  BY DEF Inv, Reads, TaskInv, TaskOK, UseRemote, hosted, Call
<1>11. QED BY <1>3, <1>6, <1>7, <1>8, <1>9, <1>10 DEF Kept

LEMMA KeepLocalKeeps ==
    ASSUME Inv, NEW d \in Devices, NEW n \in Notes, KeepLocal(d, n)
    PROVE  Kept
<1> DEFINE r == ledger[d][n]
           w == conflict[d][n]
           a == Acknowledged(r, w)
           x == IF HasLedger(d) THEN a ELSE r
<1>1. IsEntry(r) /\ NoRow \in RowSet /\ IsEdit(Nothing) /\ w \in RowSet /\ w # NoRow
      /\ met[d][n] \in Nat /\ NoteOK(d, n) /\ Nothing.base = 0 /\ w.rev \in Nat
  BY NothingIsAnEdit, RowsOf DEF Inv, Reads, LedgerInv, RowSet, TypeInv, KeepLocal, NoteInv, Nothing
<1>2. IsEntry(a) /\ (~ Takes(r) => a = r)
      /\ (Takes(r) => a.tracked = r.tracked /\ a.base = w /\ a.pending = Nothing /\ a.deleted = r.deleted)
  BY <1>1, AcknowledgedRow
<1> HIDE DEF a
<1>3. /\ LedgerInv' /\ ledger'[d][n] = x
      /\ \A e \in Devices, m \in Notes : ~ (e = d /\ m = n) => ledger'[e][m] = ledger[e][m]
  <2>1. CASE HasLedger(d)
    <3>1. ledger' = [ledger EXCEPT ![d][n] = a] BY <2>1 DEF KeepLocal, a
    <3>2. /\ LedgerInv' /\ ledger'[d][n] = a
          /\ \A e \in Devices, m \in Notes : ~ (e = d /\ m = n) => ledger'[e][m] = ledger[e][m]
      BY <1>2, <3>1, LedgerStep DEF Inv, Reads
    <3>3. QED BY <2>1, <3>2
  <2>2. CASE ~ HasLedger(d)
    BY <2>2 DEF KeepLocal, Inv, Reads, LedgerInv
  <2>3. QED BY <2>1, <2>2
<1>4. /\ HasLedger(d) /\ Takes(r) => met' = [met EXCEPT ![d][n] = Newest(@, w)]
      /\ ~ (HasLedger(d) /\ Takes(r)) => met' = met
      /\ \A e \in Devices, m \in Notes : ~ (e = d /\ m = n) =>
            conflict'[e][m] = conflict[e][m] /\ met'[e][m] = met[e][m]
      /\ UNCHANGED <<local, typed, known, signed, held, session, private, task, consent, hosted>>
  BY DEF Inv, Reads, TypeInv, KeepLocal
<1>5. met'[d][n] \in Nat /\ met'[d][n] >= met[d][n] /\ (HasLedger(d) /\ Takes(r) => met'[d][n] >= w.rev)
  <2>1. CASE HasLedger(d) /\ Takes(r)
    <3>1. met'[d][n] = Newest(met[d][n], w) BY <1>4, <2>1 DEF Inv, Reads, TypeInv
    <3>2. QED BY <1>1, <3>1, Newer
  <2>2. CASE ~ (HasLedger(d) /\ Takes(r)) BY <1>1, <1>4, <2>2
  <2>3. QED BY <2>1, <2>2
<1>6. TypeInv'
  <2>1. SpentInv' BY Spends DEF Inv, Reads, TypeInv, KeepLocal
  <2>2. met' \in [Devices -> [Notes -> Nat]]
    <3>1. Newest(met[d][n], w) \in Nat BY <1>1, Newer
    <3>2. met' = met \/ met' = [met EXCEPT ![d][n] = Newest(met[d][n], w)] BY <1>4
    <3>3. met \in [Devices -> [Notes -> Nat]] BY DEF Inv, Reads, TypeInv
    <3>4. QED BY <3>1, <3>2, <3>3
  <2>3. conflict' \in [Devices -> [Notes -> RowSet]]
    BY <1>1 DEF Inv, Reads, TypeInv, KeepLocal
  <2>4. overdue' \in [Devices -> [Notes -> {"no", "shown", "taken"}]]
    BY DEF Inv, Reads, TypeInv, KeepLocal, Settled
  <2>5. QED BY <1>4, <2>1, <2>2, <2>3, <2>4 DEF Inv, Reads, TypeInv
<1>7. Grows
  BY <1>4, <1>5 DEF Inv, Reads, TypeInv, Grows
<1>8. GrantInv'
  BY <1>4 DEF Inv, Reads, GrantInv, Agreed
<1>9. NoteInv'
  <2>1. NoteOK(d, n)'
    <3>1. conflict'[d][n] = NoRow BY DEF KeepLocal, Inv, Reads, TypeInv
    <3>2. CASE HasLedger(d) /\ Takes(r) BY <1>1, <1>2, <1>3, <1>4, <1>5, <3>1, <3>2 DEF NoteOK
    <3>3. CASE ~ (HasLedger(d) /\ Takes(r)) BY <1>1, <1>2, <1>3, <1>4, <1>5, <3>1, <3>3 DEF NoteOK
    <3>4. QED BY <3>2, <3>3
  <2>2. ASSUME NEW e \in Devices, NEW m \in Notes, ~ (e = d /\ m = n) PROVE NoteOK(e, m)'
    BY <1>3, <1>4, <2>2, NoteStays DEF Inv, Reads, NoteInv
  <2>3. QED BY <2>1, <2>2 DEF NoteInv
<1>10. TaskInv'
  BY <1>4 DEF Inv, Reads, TaskInv, TaskOK, hosted, Call
<1>11. QED BY <1>3, <1>6, <1>7, <1>8, <1>9, <1>10 DEF Kept

LEMMA DomainsOf ==
    ASSUME Inv
    PROVE  /\ DOMAIN signed = Devices /\ DOMAIN task = Devices /\ DOMAIN local = Devices /\ DOMAIN ledger = Devices
           /\ DOMAIN conflict = Devices
           /\ signed = [d \in Devices |-> signed[d]] /\ task = [d \in Devices |-> task[d]]
           /\ local = [d \in Devices |-> local[d]] /\ ledger = [d \in Devices |-> ledger[d]]
           /\ conflict = [d \in Devices |-> conflict[d]]
           /\ DOMAIN held = Devices /\ DOMAIN session = Devices /\ DOMAIN overdue = Devices
           /\ held = [d \in Devices |-> held[d]] /\ session = [d \in Devices |-> session[d]]
           /\ overdue = [d \in Devices |-> overdue[d]]
<1>1. /\ DOMAIN signed = Devices /\ DOMAIN task = Devices /\ DOMAIN local = Devices /\ DOMAIN conflict = Devices
      /\ signed = [d \in Devices |-> signed[d]] /\ task = [d \in Devices |-> task[d]]
      /\ local = [d \in Devices |-> local[d]] /\ conflict = [d \in Devices |-> conflict[d]]
      /\ DOMAIN held = Devices /\ DOMAIN session = Devices /\ DOMAIN overdue = Devices
      /\ held = [d \in Devices |-> held[d]] /\ session = [d \in Devices |-> session[d]]
      /\ overdue = [d \in Devices |-> overdue[d]]
  BY DEF Inv, Reads, TypeInv
<1>2. ledger = [d \in Devices |-> [n \in Notes |-> ledger[d][n]]] BY DEF Inv, Reads, LedgerInv
<1>3. DOMAIN ledger = Devices /\ ledger = [d \in Devices |-> ledger[d]] BY <1>2
<1>4. QED BY <1>1, <1>3

-----------------------------------------------------------------------------
\* Sign-in, sign-out and Incognito cancel a sync, and leave what it was to do.

LEMMA TaskOf ==
    ASSUME NEW t \in Tasks
    PROVE  /\ t # Idle => /\ t.at \in {"spawned", "next", "wait"} /\ t.cancelled \in BOOLEAN
                          /\ t.step \in {"upload", "conflict", "list", "probe"} /\ t.todo \subseteq Notes
           /\ t = Idle <=> t.at = "idle"
           /\ Idle \in Tasks
BY DEF Tasks, Idle

\* The tasks of devices after a step that only cancels.
CancelledOnly == \A e \in Devices : task'[e] = task[e] \/ task'[e] = Cancelled(e)

LEMMA CancelKeeps ==
    ASSUME TypeInv, TaskInv, UNCHANGED <<requests, consent>>,
           task' = [e \in Devices |-> task'[e]], CancelledOnly
    PROVE  task' \in [Devices -> Tasks] /\ TaskInv'
<1>1. ASSUME NEW e \in Devices PROVE task'[e] \in Tasks /\ TaskOK(e)'
  <2>1. task[e] \in Tasks /\ TaskOK(e) BY DEF TypeInv, TaskInv
  <2>2. CASE task'[e] = task[e] BY <2>1, <2>2 DEF TaskOK, Call
  <2>3. CASE task'[e] = Cancelled(e)
    <3>1. CASE task[e] = Idle BY <2>1, <2>3, <3>1 DEF Cancelled, Idle, TaskOK
    <3>2. CASE task[e] # Idle
      <4>1. task'[e] = [task[e] EXCEPT !.cancelled = TRUE] BY <2>1, <2>3, <3>2, TaskOf DEF Cancelled
      <4>2. task[e] \in [at : {"spawned", "next", "wait"}, cancelled : BOOLEAN, who : Devices \X Nat,
                         step : {"upload", "conflict", "list", "probe"}, todo : SUBSET Notes]
        BY <2>1, <3>2 DEF Tasks
      <4>3. task'[e] \in Tasks /\ task'[e].step = task[e].step /\ task'[e].todo = task[e].todo
        BY <4>1, <4>2 DEF Tasks
      <4>4. QED BY <2>1, <3>2, <4>3 DEF TaskOK, Call
    <3>3. QED BY <3>1, <3>2
  <2>4. QED BY <2>2, <2>3 DEF CancelledOnly
<1>2. QED BY <1>1 DEF TaskInv

LEMMA SignInKeeps ==
    ASSUME Inv, NEW d \in Devices, SignIn(d)
    PROVE  Kept
<1>1. task' \in [Devices -> Tasks] /\ TaskInv'
  BY CancelKeeps DEF Inv, Reads, TypeInv, SignIn, hosted, CancelledOnly
<1>2. TypeInv'
  BY <1>1, Bounds DEF Inv, Reads, TypeInv, SignIn, SpentInv, ActivationKnown, Here
<1>3. LedgerInv' /\ Grows /\ GrantInv'
  BY DEF Inv, Reads, LedgerInv, TypeInv, SignIn, Grows, GrantInv, Agreed
<1>4. NoteInv'
  BY DEF Inv, Reads, TypeInv, NoteInv, NoteOK, SignIn, ActivationKnown, Here
<1>5. QED BY <1>1, <1>2, <1>3, <1>4 DEF Kept

LEMMA IncognitoOnKeeps ==
    ASSUME Inv, NEW d \in Devices, IncognitoOn(d)
    PROVE  Kept
<1>1. task' \in [Devices -> Tasks] /\ TaskInv'
  BY CancelKeeps DEF Inv, Reads, TypeInv, IncognitoOn, hosted, CancelledOnly
<1>2. TypeInv'
  <2>1. SpentInv' BY Spends DEF Inv, Reads, TypeInv, IncognitoOn
  <2>2. QED BY <1>1, <2>1 DEF Inv, Reads, TypeInv, IncognitoOn
<1>3. LedgerInv' /\ Grows /\ GrantInv'
  BY DEF Inv, Reads, LedgerInv, TypeInv, IncognitoOn, Grows, GrantInv, Agreed
<1>4. NoteInv'
  BY DEF Inv, Reads, NoteInv, NoteOK, IncognitoOn
<1>5. QED BY <1>1, <1>2, <1>3, <1>4 DEF Kept

LEMMA IncognitoOffKeeps ==
    ASSUME Inv, NEW d \in Devices, IncognitoOff(d)
    PROVE  Kept
<1>1. task' \in [Devices -> Tasks] /\ TaskInv'
  BY CancelKeeps DEF Inv, Reads, TypeInv, IncognitoOff, hosted, CancelledOnly
<1>2. TypeInv' /\ \A e \in Devices : known'[e] = known[e] \/ known'[e] = Here(e)
  <2>1. CASE signed[d]
    <3>1. held' \in [Devices -> {"no", "locked", "open"}] BY DEF Inv, Reads, TypeInv, IncognitoOff
    <3>2. known' \in [Devices -> SUBSET Notes] /\ \A e \in Devices : known'[e] = known[e] \/ known'[e] = Here(e)
      <4>1. known \in [Devices -> SUBSET Notes] /\ known' = [known EXCEPT ![d] = Here(d)]
        BY <2>1 DEF Inv, Reads, TypeInv, IncognitoOff, ActivationKnown
      <4>2. Here(d) \in SUBSET Notes BY DEF Here
      <4>3. QED BY <4>1, <4>2
    <3>3. QED BY <1>1, <3>1, <3>2 DEF Inv, Reads, TypeInv, IncognitoOff, SpentInv
  <2>2. CASE ~ signed[d]
    BY <1>1, <2>2 DEF Inv, Reads, TypeInv, IncognitoOff, SpentInv
  <2>3. QED BY <2>1, <2>2
<1>3. LedgerInv' /\ Grows /\ GrantInv'
  BY DEF Inv, Reads, LedgerInv, TypeInv, IncognitoOff, Grows, GrantInv, Agreed
<1>4. NoteInv'
  BY <1>2 DEF Inv, Reads, NoteInv, NoteOK, IncognitoOff, Here
<1>5. QED BY <1>1, <1>2, <1>3, <1>4 DEF Kept

\* The rows of one device are written.
LEMMA LedgerRows ==
    ASSUME LedgerInv, NEW d \in Devices, NEW f, \A n \in Notes : IsEntry(f[n]), DOMAIN f = Notes,
           f = [n \in Notes |-> f[n]], ledger' = [ledger EXCEPT ![d] = f]
    PROVE  /\ LedgerInv' /\ \A n \in Notes : ledger'[d][n] = f[n]
           /\ \A e \in Devices \ {d}, n \in Notes : ledger'[e][n] = ledger[e][n]
<1>1. ledger' = [e \in Devices |-> IF e = d THEN f ELSE ledger[e]]
  <2>1. ledger = [e \in Devices |-> [m \in Notes |-> ledger[e][m]]] BY DEF LedgerInv
  <2>2. QED BY <2>1
<1>2. /\ ledger'[d] = f /\ \A e \in Devices \ {d} : ledger'[e] = ledger[e]
      /\ \A e \in Devices : ledger[e] = [m \in Notes |-> ledger[e][m]]
  <2>1. ledger = [e \in Devices |-> [m \in Notes |-> ledger[e][m]]] BY DEF LedgerInv
  <2>2. QED BY <1>1, <2>1
<1>3. \A e \in Devices : ledger'[e] = [m \in Notes |-> ledger'[e][m]]
  BY <1>2
<1>4. ledger' = [e \in Devices |-> [m \in Notes |-> ledger'[e][m]]]
  BY <1>1, <1>3
<1>5. \A e \in Devices, n \in Notes : IsEntry(ledger'[e][n])
  BY <1>2 DEF LedgerInv
<1>6. QED BY <1>2, <1>4, <1>5 DEF LedgerInv

\* Whatever a sign-out leaves of a row.
Leftover(r, t) ==
    /\ IsEntry(t)
    /\ t.tracked /\ ~ t.deleted => r.tracked /\ ~ r.deleted
    /\ t.base.rev \in {0, r.base.rev} /\ t.pending.base \in {0, r.pending.base}

LEMMA LeftoverRow ==
    ASSUME NEW r, IsEntry(r)
    PROVE  Leftover(r, r) /\ Leftover(r, Cleared(r)) /\ Leftover(r, Untracked)
<1>1. /\ IsEntry(Untracked) /\ ~ Untracked.tracked /\ Untracked.base.rev = 0 /\ Untracked.pending.base = 0
      /\ Nothing.base = 0
  BY ClearedRow DEF Untracked, NoRow, Nothing
<1>2. Leftover(r, Untracked) BY <1>1 DEF Leftover
<1>3. Leftover(r, Cleared(r)) BY <1>1, <1>2, ClearedRow DEF Leftover, Cleared
<1>4. QED BY <1>2, <1>3 DEF Leftover

LEMMA DisconnectKeeps ==
    ASSUME Inv, NEW d \in Devices, Disconnects(d), NEW gone, Leaves(d, gone), SpentInv',
           NEW x \in {"no", "locked"}, held' = [held EXCEPT ![d] = x],
           NEW f, f = [n \in Notes |-> f[n]], DOMAIN f = Notes, \A n \in Notes : Leftover(ledger[d][n], f[n]),
           ledger' = [ledger EXCEPT ![d] = f]
    PROVE  Kept
<1>1. task' \in [Devices -> Tasks] /\ TaskInv'
  BY CancelKeeps DEF Inv, Reads, TypeInv, Disconnects, hosted, CancelledOnly
<1>2. TypeInv'
  <2>1. /\ signed' \in [Devices -> BOOLEAN] /\ conflict' \in [Devices -> [Notes -> RowSet]]
        /\ overdue' \in [Devices -> [Notes -> {"no", "shown", "taken"}]]
    BY DEF Inv, Reads, TypeInv, Disconnects, RowSet, Settled
  <2>2. local' \in [Devices -> [Notes -> Words]] /\ typed' \in [Devices -> SUBSET Notes]
    <3>1. local \in [Devices -> [Notes -> Words]] /\ typed \in [Devices -> SUBSET Notes] /\ 0 \in Words
      BY RowsOf DEF Inv, Reads, TypeInv, RowSet
    <3> DEFINE l == [n \in Notes |-> IF n \in gone THEN 0 ELSE local[d][n]]
               t == typed[d] \ gone
    <3>2. l \in [Notes -> Words] /\ t \in SUBSET Notes BY <3>1
    <3>3. local' = [local EXCEPT ![d] = l] /\ typed' = [typed EXCEPT ![d] = t] BY <3>1 DEF Leaves
    <3> HIDE DEF l, t
    <3>4. QED BY <3>1, <3>2, <3>3
  <2>3. held' \in [Devices -> {"no", "locked", "open"}] BY DEF Inv, Reads, TypeInv
  <2>4. UNCHANGED <<known, session, private, consent, met>> BY DEF Disconnects
  <2>5. QED BY <1>1, <2>1, <2>2, <2>3, <2>4 DEF Inv, Reads, TypeInv
<1>3. /\ LedgerInv' /\ \A n \in Notes : ledger'[d][n] = f[n]
      /\ \A e \in Devices \ {d}, n \in Notes : ledger'[e][n] = ledger[e][n]
  <2>1. \A n \in Notes : IsEntry(f[n]) BY DEF Leftover
  <2>2. QED BY <2>1, LedgerRows DEF Inv, Reads
<1>4. Grows /\ GrantInv'
  BY DEF Inv, Reads, TypeInv, Disconnects, Grows, GrantInv, Agreed
<1>5. NoteInv'
  <2>1. ASSUME NEW n \in Notes PROVE NoteOK(d, n)'
    <3> DEFINE r == ledger[d][n]
    <3>1. NoteOK(d, n) /\ Leftover(r, f[n]) /\ ledger'[d][n] = f[n] BY <1>3 DEF Inv, NoteInv
    <3>2. conflict'[d][n] = NoRow /\ signed'[d] = FALSE /\ met'[d][n] = met[d][n] /\ met[d][n] \in Nat
          /\ local'[d][n] \in {0, local[d][n]} /\ consent' = consent
      BY DEF Inv, Reads, TypeInv, Disconnects, Leaves
    <3>3. QED BY <3>1, <3>2 DEF NoteOK, Leftover
  <2>2. ASSUME NEW e \in Devices \ {d}, NEW m \in Notes PROVE NoteOK(e, m)'
    <3>1. TypeInv /\ NoteOK(e, m) /\ ledger'[e][m] = ledger[e][m] BY <1>3 DEF Inv, Reads, NoteInv
    <3>2. consent' = consent /\ local'[e] = local[e] /\ conflict'[e] = conflict[e] /\ signed'[e] = signed[e]
          /\ met' = met /\ known' = known
      BY DEF Disconnects, Leaves, Inv, Reads, TypeInv
    <3>3. QED BY <3>1, <3>2, NoteStays
  <2>3. QED BY <2>1, <2>2 DEF NoteInv
<1>6. QED BY <1>1, <1>2, <1>3, <1>4, <1>5 DEF Kept

LEMMA SignOutKeeps ==
    ASSUME Inv, NEW d \in Devices, SignOut(d) \/ SignOutFails(d)
    PROVE  Kept
<1>1. \A n \in Notes : IsEntry(ledger[d][n]) BY DEF Inv, Reads, LedgerInv
<1>2. CASE SignOut(d)
  <2> DEFINE f == [n \in Notes |-> Cleared(ledger[d][n])]
  <2>1. SpentInv' BY <1>2 DEF SignOut, Inv, Reads, TypeInv, SpentInv
  <2>2. ledger' = [ledger EXCEPT ![d] = f] BY <1>2 DEF SignOut
  <2>3. f = [n \in Notes |-> f[n]] /\ DOMAIN f = Notes /\ \A n \in Notes : Leftover(ledger[d][n], f[n])
    BY <1>1, LeftoverRow
  <2>4. Disconnects(d) /\ Leaves(d, Received(d)) /\ held' = [held EXCEPT ![d] = "no"] BY <1>2 DEF SignOut
  <2> HIDE DEF f
  <2>5. QED BY <2>1, <2>2, <2>3, <2>4, DisconnectKeeps
<1>3. CASE SignOutFails(d)
  <2> PICK f : f = [n \in Notes |-> ledger'[d][n]] OBVIOUS
  <2>1. SpentInv' BY <1>3, Spends DEF SignOutFails, Inv, Reads, TypeInv
  <2>2. /\ Disconnects(d) /\ held' = [held EXCEPT ![d] = "locked"] /\ \E gone : Leaves(d, gone)
        /\ \/ ledger' = ledger
           \/ ledger' = [ledger EXCEPT ![d] = [n \in Notes |-> IF n \in Received(d) THEN Untracked ELSE ledger[d][n]]]
    BY <1>3 DEF SignOutFails
  <2>3. \A n \in Notes : ledger'[d][n] \in {ledger[d][n], Untracked} BY <2>2, DomainsOf
  <2>4. ledger' = [ledger EXCEPT ![d] = f]
    <3>1. ledger = [e \in Devices |-> [n \in Notes |-> ledger[e][n]]] BY DEF Inv, Reads, LedgerInv
    <3>2. CASE ledger' = ledger BY <3>1, <3>2
    <3>3. CASE ledger' = [ledger EXCEPT ![d] = [n \in Notes |-> IF n \in Received(d) THEN Untracked ELSE ledger[d][n]]]
      BY <3>1, <3>3
    <3>4. QED BY <2>2, <3>2, <3>3
  <2>5. f = [n \in Notes |-> f[n]] /\ DOMAIN f = Notes /\ \A n \in Notes : f[n] = ledger'[d][n] OBVIOUS
  <2>6. \A n \in Notes : Leftover(ledger[d][n], f[n]) BY <1>1, <2>3, <2>5, LeftoverRow
  <2>7. QED BY <2>1, <2>2, <2>4, <2>5, <2>6, DisconnectKeeps
<1>4. QED BY <1>2, <1>3

-----------------------------------------------------------------------------
\* A sync begins, and asks.

LEMMA SyncKeeps ==
    ASSUME Inv, NEW d \in Devices, Sync(d)
    PROVE  Kept
<1> DEFINE fresh == Here(d) \ known[d]
           f == [n \in Notes |-> IF n \in fresh THEN Tracked(ledger[d][n]) ELSE ledger[d][n]]
           t == [at |-> "spawned", cancelled |-> FALSE, who |-> Login(d), step |-> "upload", todo |-> {}]
<1>1. /\ LedgerInv' /\ \A n \in Notes : ledger'[d][n] = (IF n \in fresh THEN Tracked(ledger[d][n]) ELSE ledger[d][n])
      /\ \A e \in Devices \ {d}, n \in Notes : ledger'[e][n] = ledger[e][n]
  <2>1. \A n \in Notes : IsEntry(f[n]) BY TrackedRow DEF Inv, Reads, LedgerInv
  <2>2. ledger' = [ledger EXCEPT ![d] = f] BY DEF Sync, Inv, Reads, LedgerInv
  <2>3. DOMAIN f = Notes /\ f = [n \in Notes |-> f[n]]
        /\ \A n \in Notes : f[n] = (IF n \in fresh THEN Tracked(ledger[d][n]) ELSE ledger[d][n])
    OBVIOUS
  <2> HIDE DEF f
  <2>4. /\ LedgerInv' /\ \A n \in Notes : ledger'[d][n] = f[n]
        /\ \A e \in Devices \ {d}, n \in Notes : ledger'[e][n] = ledger[e][n]
    BY <2>1, <2>2, <2>3, LedgerRows DEF Inv, Reads
  <2>5. QED BY <2>3, <2>4
<1>2. t \in Tasks
  BY Bounds DEF Inv, Reads, TypeInv, Tasks, Login
<1>3. TypeInv'
  BY <1>2 DEF Inv, Reads, TypeInv, Sync, SpentInv, Here
<1>4. Grows /\ GrantInv'
  BY DEF Inv, Reads, TypeInv, Sync, Grows, GrantInv, Agreed
<1>5. NoteInv'
  <2>1. ASSUME NEW n \in Notes PROVE NoteOK(d, n)'
    <3>1. IsEntry(ledger[d][n]) /\ NoteOK(d, n) BY DEF Inv, Reads, LedgerInv, NoteInv
    <3>2. known' = [known EXCEPT ![d] = @ \cup Here(d)] /\ UNCHANGED <<local, signed, conflict, consent, met>>
          /\ signed[d]
      BY DEF Sync
    <3>3. n \in fresh => <<d, n>> \in consent
      BY <3>1, <3>2 DEF NoteOK, Here
    <3>4. ledger'[d][n].tracked /\ ~ ledger'[d][n].deleted => <<d, n>> \in consent
      BY <1>1, <3>1, <3>3, TrackedRow DEF NoteOK
    <3>5. ledger'[d][n].base = ledger[d][n].base /\ ledger'[d][n].pending = ledger[d][n].pending
      BY <1>1, <3>1, TrackedRow
    <3>6. n \notin known'[d] => n \notin known[d]
      BY <3>2 DEF Inv, Reads, TypeInv
    <3>7. QED BY <3>1, <3>2, <3>4, <3>5, <3>6 DEF NoteOK
  <2>2. ASSUME NEW e \in Devices \ {d}, NEW m \in Notes PROVE NoteOK(e, m)'
    BY <1>1, NoteStays DEF Inv, Reads, NoteInv, Sync, TypeInv
  <2>3. QED BY <2>1, <2>2 DEF NoteInv
<1>6. TaskInv'
  <2>1. task' = [task EXCEPT ![d] = t] /\ UNCHANGED <<requests, consent>> BY DEF Sync, hosted
  <2>2. QED BY <2>1 DEF Inv, Reads, TypeInv, TaskInv, TaskOK, Call
<1>7. QED BY <1>1, <1>3, <1>4, <1>5, <1>6 DEF Kept

LEMMA BeginKeeps ==
    ASSUME Inv, NEW d \in Devices, Begin(d)
    PROVE  Kept
<1> DEFINE t == [task[d] EXCEPT !.at = "next", !.todo = Ids(d)]
<1>1. task[d] # Idle /\ task[d] \in Tasks /\ TaskOK(d)
  BY TaskOf DEF Inv, Reads, TypeInv, Begin, TaskInv
<1>2. t \in Tasks /\ t.todo = Ids(d) /\ t.step = task[d].step
  BY <1>1 DEF Tasks, Ids, Takes
<1>3. TypeInv'
  BY <1>2 DEF Inv, Reads, TypeInv, Begin, SpentInv
<1>4. LedgerInv' /\ Grows /\ GrantInv'
  BY DEF Inv, Reads, LedgerInv, TypeInv, Begin, Grows, GrantInv, Agreed
<1>5. NoteInv'
  BY DEF Inv, NoteInv, NoteOK, Begin
<1>6. TaskInv'
  <2>1. task' = [task EXCEPT ![d] = t] /\ UNCHANGED <<requests, consent>> BY DEF Begin, hosted
  <2>2. \A n \in Ids(d) : <<d, n>> \in consent BY DEF Ids, Takes, Inv, NoteInv, NoteOK
  <2>3. TaskOK(d)' BY <1>1, <1>2, <2>1, <2>2 DEF Inv, Reads, TypeInv, TaskOK, Call
  <2>4. \A e \in Devices \ {d} : TaskOK(e)' BY <2>1 DEF Inv, Reads, TypeInv, TaskInv, TaskOK, Call
  <2>5. QED BY <2>3, <2>4 DEF TaskInv
<1>7. QED BY <1>3, <1>4, <1>5, <1>6 DEF Kept

\* A call that changed, while the calls and the syncs of other devices stay.
LEMMA AskedSlot ==
    ASSUME Reads, TypeInv', Grows, NEW d \in Devices, Same(Call(d)), Carries(requests[Call(d)], d)'
    PROVE  /\ RequestInv' /\ SlotInv'
           /\ \A e \in Devices \ {d} : requests'[Call(e)] = requests[Call(e)]
<1>1. Call(d) \in Slots /\ Call(d)[1] = d BY CallOf
<1>2. requests' = [s \in Slots |-> requests'[s]] BY DEF Same
<1>3. \A s \in Slots : s # Call(d) => requests'[s] = requests[s] BY DEF Same
<1>4. IsRequest(requests'[Call(d)]) BY DEF Same
<1>5. RequestInv' /\ SlotInv'
  BY <1>1, <1>2, <1>3, <1>4, SlotsGrow DEF Reads
<1>6. \A e \in Devices \ {d} : Call(e) \in Slots /\ Call(e) # Call(d) BY CallOf DEF Call
<1>7. QED BY <1>3, <1>5, <1>6

LEMMA AskCarries ==
    ASSUME Reads, NEW d \in Devices, NEW kind \in Kinds, NEW n, NEW who, NEW text \in Words, NEW base \in Nat, NEW op,
           kind # "list" => n \in Notes
    PROVE  LET q == Request(kind, n, who, text, base, op) IN
              /\ IsRequest(q) /\ q # Free /\ q.note = n /\ q.kind = kind /\ q.base = base /\ q.was = NoRow
              /\ Asking(q) /\ q.stage = "sent"
<1>1. NoRow \in RowSet BY DEF RowSet
<1>2. QED BY <1>1 DEF Request, IsRequest, IsAsk, Receipt, Asking, Free

\* A sync asks for a note it may upload, or only reads.
LEMMA AskKeeps ==
    ASSUME Reads, TypeInv', Grows, NEW d \in Devices, NEW kind \in Kinds, NEW n, NEW who, NEW text \in Words,
           NEW base \in Nat, NEW op, kind # "list" => n \in Notes,
           kind \in {"post", "put"} => <<d, n>> \in consent, kind = "put" => met[d][n] >= base,
           Ask(d, Request(kind, n, who, text, base, op))
    PROVE  /\ RequestInv' /\ SlotInv'
           /\ \A e \in Devices \ {d} : requests'[Call(e)] = requests[Call(e)]
           /\ requests'[Call(d)].note = n
<1> DEFINE q == Request(kind, n, who, text, base, op)
<1>1. /\ IsRequest(q) /\ q # Free /\ q.note = n /\ q.kind = kind /\ q.base = base /\ q.was = NoRow
      /\ Asking(q) /\ q.stage = "sent"
  BY AskCarries
<1>2. Ask(d, q) BY DEF q
<1> HIDE DEF q
<1>3. requests'[Call(d)] = q /\ requests' = [s \in Slots |-> IF s = Call(d) THEN requests'[s] ELSE requests[s]]
  BY <1>2, CallOf DEF Ask, Reads, RequestInv
<1>4. kind = "put" => met'[d][n] >= base
  <2>1. SUFFICES ASSUME kind = "put" PROVE met'[d][n] >= base OBVIOUS
  <2>2. n \in Notes /\ met[d][n] >= base BY <2>1
  <2>3. met[d][n] \in Nat /\ met'[d][n] \in Nat /\ met'[d][n] >= met[d][n]
    BY <2>2 DEF Reads, TypeInv, Grows
  <2>4. QED BY <2>2, <2>3
<1>5. Carries(requests[Call(d)], d)'
  BY <1>1, <1>3, <1>4 DEF Carries, Asking, Grows
<1>6. Same(Call(d)) BY <1>1, <1>3 DEF Same
<1>7. QED BY <1>1, <1>3, <1>5, <1>6, AskedSlot

LEMMA TookKeeps ==
    ASSUME Reads, TypeInv', Grows, NEW d \in Devices, requests' = [requests EXCEPT ![Call(d)] = Free]
    PROVE  /\ RequestInv' /\ SlotInv' /\ requests'[Call(d)] = Free
           /\ \A e \in Devices \ {d} : requests'[Call(e)] = requests[Call(e)]
<1>1. requests'[Call(d)] = Free /\ requests' = [s \in Slots |-> IF s = Call(d) THEN requests'[s] ELSE requests[s]]
  BY CallOf DEF Reads, RequestInv
<1>2. Carries(requests[Call(d)], d)' BY <1>1 DEF Carries, Free, Asking
<1>3. Same(Call(d)) BY <1>1 DEF Same, IsRequest
<1>4. QED BY <1>1, <1>2, <1>3, AskedSlot

\* A call that nobody waits for any more goes on under the device's other slot.
LEMMA AbandonKeeps ==
    ASSUME Reads, TypeInv', Grows, NEW d \in Devices, Abandon(d)
    PROVE  /\ RequestInv' /\ SlotInv' /\ requests'[Call(d)] = Free
           /\ \A e \in Devices \ {d} : requests'[Call(e)] = requests[Call(e)]
<1> DEFINE stray == <<d, "stray">>
<1>1. Call(d) \in Slots /\ Call(d)[1] = d /\ stray # Call(d) /\ stray[1] = d BY CallOf DEF Call
<1>2. /\ requests' = [s \in Slots |-> requests'[s]]
      /\ \A s \in Slots : requests'[s] = requests[s] \/ requests'[s] = Free
                          \/ (s = stray /\ requests'[s] = requests[Call(d)])
      /\ requests'[Call(d)] = Free
      /\ \A s \in Slots : s # stray /\ s # Call(d) => requests'[s] = requests[s]
  BY <1>1 DEF Abandon
<1>3. \A s \in Slots : s = stray => Call(d)[1] = s[1] BY <1>1
<1>4. RequestInv' /\ SlotInv'
  BY <1>1, <1>2, <1>3, SlotsGrow DEF Reads
<1>5. \A e \in Devices \ {d} : Call(e) \in Slots /\ Call(e) # Call(d) /\ Call(e) # stray BY CallOf DEF Call
<1>6. QED BY <1>2, <1>4, <1>5

\* The syncs of other devices stay in order.
LEMMA OtherTasks ==
    ASSUME TaskInv, NEW d \in Devices, Grows, TaskOK(d)',
           \A e \in Devices \ {d} : task'[e] = task[e] /\ requests'[Call(e)] = requests[Call(e)]
    PROVE  TaskInv'
<1>1. ASSUME NEW e \in Devices \ {d} PROVE TaskOK(e)'
  <2>1. TaskOK(e) BY DEF TaskInv
  <2>2. QED BY <2>1 DEF TaskOK, Grows, Call
<1>2. QED BY <1>1 DEF TaskInv

LEMMA IdleTask == ASSUME NEW d \in Devices, task'[d] = Idle PROVE TaskOK(d)'
BY DEF TaskOK

\* What every step of a device keeps.
Moved == Kept /\ RequestInv' /\ SlotInv'

\* A tracked row leaves the list of notes: nothing it holds is lost or added.
LEMMA BuryKeeps ==
    ASSUME Inv, NEW d \in Devices, NEW n \in Notes, Bury(d, n), UNCHANGED <<known, signed, conflict, consent, met>>
    PROVE  /\ LedgerInv' /\ NoteInv' /\ Grows /\ GrantInv'
           /\ local' \in [Devices -> [Notes -> Words]] /\ typed' \in [Devices -> SUBSET Notes]
           /\ \A e \in Devices, m \in Notes : local'[e][m] # 0 => local'[e][m] = local[e][m]
<1> DEFINE r == ledger[d][n]
           b == Buried(r)
<1>1. IsEntry(r) /\ NoteOK(d, n) BY DEF Inv, Reads, LedgerInv, NoteInv
<1>2. IsEntry(b) /\ b.deleted /\ b.base = NoRow /\ b.pending = Nothing BY <1>1, BuriedRow
<1>3. ledger' = [ledger EXCEPT ![d][n] = b] BY DEF Bury
<1> HIDE DEF b
<1>4. /\ LedgerInv' /\ ledger'[d][n] = b
      /\ \A e \in Devices, m \in Notes : ~ (e = d /\ m = n) => ledger'[e][m] = ledger[e][m]
  BY <1>2, <1>3, LedgerStep, ZenonT(30) DEF Inv, Reads
<1>5. /\ local' \in [Devices -> [Notes -> Words]] /\ typed' \in [Devices -> SUBSET Notes]
      /\ \A e \in Devices, m \in Notes : local'[e][m] # 0 => local'[e][m] = local[e][m]
      /\ \A e \in Devices, m \in Notes : ~ (e = d /\ m = n) => local'[e][m] = local[e][m]
  <2>1. CASE r.tracked BY <2>1, RowsOf, <1>1 DEF Bury, Inv, Reads, TypeInv, RowSet
  <2>2. CASE ~ r.tracked BY <2>2 DEF Bury, Inv, Reads, TypeInv
  <2>3. QED BY <2>1, <2>2
<1>6. Grows /\ GrantInv' BY DEF Inv, Reads, TypeInv, Grows, GrantInv, Agreed
<1>7. NoteOK(d, n)'
  <2>1. met[d][n] \in Nat /\ NoRow.rev = 0 /\ Nothing.base = 0 BY DEF Inv, Reads, TypeInv, NoRow, Nothing
  <2>2. local'[d][n] # 0 => local[d][n] # 0 BY <1>5
  <2>3. QED BY <1>1, <1>2, <1>4, <2>1, <2>2 DEF NoteOK
<1>8. ASSUME NEW e \in Devices, NEW m \in Notes, ~ (e = d /\ m = n) PROVE NoteOK(e, m)'
  BY <1>4, <1>5, <1>8, NoteStays DEF Inv, Reads, NoteInv
<1>9. QED BY <1>4, <1>5, <1>6, <1>7, <1>8 DEF NoteInv

\* Where a sync goes on.
LEMMA GoesKeeps ==
    ASSUME TypeInv, NEW d \in Devices, task[d] # Idle, NEW at \in {"next", "wait"},
           NEW step \in {"upload", "conflict", "list", "probe"}, Goes(d, at, step)
    PROVE  /\ task' \in [Devices -> Tasks] /\ task'[d] # Idle /\ task'[d].at = at /\ task'[d].step = step
           /\ task'[d].todo = task[d].todo /\ task'[d].who = task[d].who
           /\ \A e \in Devices \ {d} : task'[e] = task[e]
<1> DEFINE t == [task[d] EXCEPT !.at = at, !.step = step]
<1>1. task[d] \in Tasks BY DEF TypeInv
<1>2. /\ t \in Tasks /\ t # Idle /\ t.at = at /\ t.step = step /\ t.todo = task[d].todo /\ t.who = task[d].who
  BY <1>1 DEF Tasks, Idle
<1>3. task' = [task EXCEPT ![d] = t] BY DEF Goes
<1> HIDE DEF t
<1>4. QED BY <1>2, <1>3 DEF TypeInv

LEMMA PassesKeeps ==
    ASSUME TypeInv, NEW d \in Devices, task[d] # Idle, NEW at \in {"next", "wait"}, NEW n, Passes(d, n, at)
    PROVE  /\ task' \in [Devices -> Tasks] /\ task'[d] # Idle /\ task'[d].at = at /\ task'[d].step = task[d].step
           /\ task'[d].todo \subseteq task[d].todo
           /\ \A e \in Devices \ {d} : task'[e] = task[e]
<1> DEFINE t == [task[d] EXCEPT !.at = at, !.todo = task[d].todo \ {n}]
<1>1. task[d] \in Tasks BY DEF TypeInv
<1>2. /\ t \in Tasks /\ t # Idle /\ t.at = at /\ t.step = task[d].step /\ t.todo = task[d].todo \ {n}
  BY <1>1 DEF Tasks, Idle
<1>3. task' = [task EXCEPT ![d] = t]
  BY DEF Passes, TypeInv
<1> HIDE DEF t
<1>4. QED BY <1>2, <1>3 DEF TypeInv

\* The edit that is sent is in order, and names a revision that the device has had.
LEMMA PendingOK ==
    ASSUME Inv, NEW d \in Devices, NEW n \in Notes, NEW o
    PROVE  LET e == Pending(d, n, o) IN
              IsEdit(e) /\ e.text \in Words /\ e.base \in Nat /\ met[d][n] >= e.base
<1> DEFINE r == ledger[d][n]
<1>1. IsEntry(r) /\ NoteOK(d, n) /\ IsEdit(r.pending) /\ r.base \in RowSet
  BY DEF Inv, Reads, LedgerInv, NoteInv, IsEntry
<1>2. met[d][n] \in Nat /\ local[d][n] \in Words /\ r.base.rev \in Nat /\ met[d][n] >= r.base.rev
  BY <1>1, RowsOf DEF Inv, Reads, TypeInv, NoteOK
<1>3. CASE r.pending # Nothing
  BY <1>1, <1>3 DEF Pending, IsEdit, NoteOK
<1>4. CASE r.pending = Nothing /\ (local[d][n] = 0 \/ ~ Changed(d, n))
  <2>1. Pending(d, n, o) = Nothing BY <1>4 DEF Pending
  <2>2. IsEdit(Nothing) BY NothingIsAnEdit
  <2>3. Nothing.base = 0 /\ Nothing.text = 0 /\ 0 \in Words BY Bounds DEF Nothing, Words
  <2>4. QED BY <1>2, <2>1, <2>2, <2>3
<1>5. CASE r.pending = Nothing /\ ~ (local[d][n] = 0 \/ ~ Changed(d, n))
  <2> DEFINE e == [text |-> local[d][n], base |-> r.base.rev, op |-> o]
  <2>1. Pending(d, n, o) = e BY <1>5 DEF Pending
  <2>2. QED BY <1>2, <2>1 DEF IsEdit
<1>6. QED BY <1>3, <1>4, <1>5

LEMMA UploadKeeps ==
    ASSUME Inv, NEW d \in Devices, Upload(d)
    PROVE  Moved
<1>1. PICK n \in task[d].todo :
        LET edit == Pending(d, n, FreshOp)
            kind == IF local[d][n] = 0 THEN "delete" ELSE IF edit.base = 0 THEN "post" ELSE "put"
        IN IF local[d][n] # 0 /\ edit = Nothing
           THEN /\ Passes(d, n, "next")
                /\ UNCHANGED <<hosted, ledger>>
           ELSE /\ Passes(d, n, "wait")
                /\ ledger' = IF kind = "delete" \/ ledger[d][n].deleted THEN ledger
                             ELSE [ledger EXCEPT ![d][n].pending = edit]
                /\ Ask(d, Request(kind, n, task[d].who, edit.text, edit.base, edit.op))
                /\ UNCHANGED <<receipt, row, applied, revoked>>
  BY DEF Upload
<1> DEFINE edit == Pending(d, n, FreshOp)
           kind == IF local[d][n] = 0 THEN "delete" ELSE IF edit.base = 0 THEN "post" ELSE "put"
           r == ledger[d][n]
           x == [r EXCEPT !.pending = edit]
<1>2. /\ task[d] # Idle /\ task[d].todo \subseteq Notes /\ task[d].step = "upload"
      /\ \A m \in task[d].todo : <<d, m>> \in consent
  BY TaskOf DEF Inv, Reads, TypeInv, Upload, TaskInv, TaskOK
<1>3. n \in Notes /\ <<d, n>> \in consent BY <1>2
<1>4. IsEdit(edit) /\ edit.text \in Words /\ edit.base \in Nat /\ met[d][n] >= edit.base BY <1>3, PendingOK
<1>5. IsEntry(r) /\ NoteOK(d, n) BY <1>3 DEF Inv, Reads, LedgerInv, NoteInv
<1>6. /\ IsEntry(x) /\ x.tracked = r.tracked /\ x.base = r.base /\ x.pending = edit /\ x.deleted = r.deleted
  BY <1>4, <1>5, PendingRow
<1>7. UNCHANGED <<local, typed, known, signed, held, session, private, conflict, overdue, spent, consent, met>> BY DEF Upload
<1>8. kind \in {"post", "put", "delete"}
  OBVIOUS
<1>9. /\ \/ Passes(d, n, "next") /\ UNCHANGED hosted
         \/ Passes(d, n, "wait") /\ Ask(d, Request(kind, n, task[d].who, edit.text, edit.base, edit.op))
      /\ ledger' = ledger \/ ledger' = [ledger EXCEPT ![d][n] = x]
  <2>1. CASE local[d][n] # 0 /\ edit = Nothing BY <1>1, <2>1
  <2>2. CASE ~ (local[d][n] # 0 /\ edit = Nothing)
    <3>1. Passes(d, n, "wait") /\ Ask(d, Request(kind, n, task[d].who, edit.text, edit.base, edit.op))
      BY <1>1, <2>2
    <3>2. ledger' = ledger \/ ledger' = [ledger EXCEPT ![d][n].pending = edit] BY <1>1, <2>2
    <3>3. [ledger EXCEPT ![d][n].pending = edit] = [ledger EXCEPT ![d][n] = x] OBVIOUS
    <3>4. QED BY <3>1, <3>2, <3>3
  <2>3. QED BY <2>1, <2>2
<1> HIDE DEF edit, kind, x
<1>10. /\ task' \in [Devices -> Tasks] /\ task'[d] # Idle /\ task'[d].step = "upload"
       /\ task'[d].todo \subseteq task[d].todo /\ \A e \in Devices \ {d} : task'[e] = task[e]
  <2>1. CASE Passes(d, n, "next") BY <1>2, <2>1, PassesKeeps DEF Inv, Reads
  <2>2. CASE Passes(d, n, "wait") BY <1>2, <2>2, PassesKeeps DEF Inv, Reads
  <2>3. QED BY <1>9, <2>1, <2>2
<1>11. TypeInv' BY <1>7, <1>10 DEF Inv, Reads, TypeInv, SpentInv
<1>12. Grows /\ GrantInv' BY <1>7 DEF Inv, Reads, TypeInv, Grows, GrantInv, Agreed
<1>13. /\ LedgerInv' /\ (ledger'[d][n] = r \/ ledger'[d][n] = x)
       /\ \A e \in Devices, m \in Notes : ~ (e = d /\ m = n) => ledger'[e][m] = ledger[e][m]
  <2>1. CASE ledger' = ledger BY <2>1 DEF Inv, Reads, LedgerInv
  <2>2. CASE ledger' = [ledger EXCEPT ![d][n] = x]
    <3>1. /\ LedgerInv' /\ ledger'[d][n] = x
          /\ \A e \in Devices, m \in Notes : ~ (e = d /\ m = n) => ledger'[e][m] = ledger[e][m]
      BY <1>3, <1>6, <2>2, LedgerStep DEF Inv, Reads
    <3>2. QED BY <3>1
  <2>3. QED BY <1>9, <2>1, <2>2
<1>14. NoteInv'
  <2>1. NoteOK(d, n)' BY <1>3, <1>4, <1>5, <1>6, <1>7, <1>13 DEF NoteOK
  <2>2. ASSUME NEW e \in Devices, NEW m \in Notes, ~ (e = d /\ m = n) PROVE NoteOK(e, m)'
    BY <1>7, <1>13, <2>2, NoteStays DEF Inv, Reads, NoteInv
  <2>3. QED BY <2>1, <2>2 DEF NoteInv
<1>15. RequestInv' /\ SlotInv' /\ \A e \in Devices \ {d} : requests'[Call(e)] = requests[Call(e)]
  <2>1. CASE UNCHANGED hosted
    <3>1. requests' = requests BY <2>1 DEF hosted
    <3>2. RequestInv' BY <3>1 DEF Inv, Reads, RequestInv
    <3>3. requests' = [s \in Slots |-> requests'[s]] BY <3>2 DEF RequestInv
    <3>4. QED BY <1>11, <1>12, <3>1, <3>3, SlotsGrow DEF Inv, Reads
  <2>2. CASE Ask(d, Request(kind, n, task[d].who, edit.text, edit.base, edit.op))
    <3>1. kind \in Kinds BY <1>8 DEF Kinds
    <3>2. QED BY <1>3, <1>4, <1>8, <1>11, <1>12, <2>2, <3>1, AskKeeps DEF Inv
  <2>3. QED BY <1>9, <2>1, <2>2
<1>16. TaskInv'
  <2>1. TaskOK(d)' BY <1>2, <1>7, <1>10 DEF TaskOK
  <2>2. QED BY <1>10, <1>12, <1>15, <2>1, OtherTasks DEF Inv
<1>17. QED BY <1>11, <1>12, <1>13, <1>14, <1>15, <1>16 DEF Moved, Kept

LEMMA AskListKeeps ==
    ASSUME Inv, NEW d \in Devices, AskList(d)
    PROVE  Moved
<1>1. task[d] # Idle /\ task[d].step = "upload" BY TaskOf DEF Inv, Reads, TypeInv, AskList
<1>2. /\ Goes(d, "wait", "list") /\ Ask(d, Request("list", CHOOSE n \in Notes : TRUE, task[d].who, 0, 0, 0))
      /\ UNCHANGED <<local, typed, ledger, known, signed, held, session, private, conflict, overdue, spent, consent, met>>
  BY DEF AskList
<1>3. /\ task' \in [Devices -> Tasks] /\ task'[d].step = "list" /\ \A e \in Devices \ {d} : task'[e] = task[e]
  BY <1>1, <1>2, GoesKeeps DEF Inv, Reads
<1>4. TypeInv' BY <1>2, <1>3 DEF Inv, Reads, TypeInv, SpentInv
<1>5. LedgerInv' /\ Grows /\ GrantInv' BY <1>2 DEF Inv, Reads, LedgerInv, TypeInv, Grows, GrantInv, Agreed
<1>6. NoteInv' BY <1>2 DEF Inv, NoteInv, NoteOK
<1>7. RequestInv' /\ SlotInv' /\ \A e \in Devices \ {d} : requests'[Call(e)] = requests[Call(e)]
  <2>1. "list" \in Kinds /\ 0 \in Words BY Bounds DEF Kinds, Words
  <2>2. QED BY <1>2, <1>4, <1>5, <2>1, AskKeeps DEF Inv
<1>8. TaskInv'
  <2>1. TaskOK(d)' BY <1>3 DEF TaskOK
  <2>2. QED BY <1>3, <1>5, <1>7, <2>1, OtherTasks DEF Inv
<1>9. QED BY <1>4, <1>5, <1>6, <1>7, <1>8 DEF Moved, Kept

\* Nothing is asked or answered.
LEMMA RequestsStay ==
    ASSUME Reads, TypeInv', Grows, UNCHANGED requests
    PROVE  RequestInv' /\ SlotInv'
<1>1. RequestInv' BY DEF Reads, RequestInv
<1>2. requests' = [s \in Slots |-> requests'[s]] BY <1>1 DEF RequestInv
<1>3. QED BY <1>2, SlotsGrow DEF Reads

LEMMA AskProbeKeeps ==
    ASSUME Inv, NEW d \in Devices, AskProbe(d)
    PROVE  Moved
<1>1. task[d] # Idle /\ task[d].step = "probe" /\ task[d].todo \subseteq Notes
  BY TaskOf DEF Inv, Reads, TypeInv, AskProbe
<1>2. PICK n \in task[d].todo :
        IF ledger[d][n].base # NoRow
        THEN /\ Passes(d, n, "wait")
             /\ Ask(d, Request("get", n, task[d].who, 0, 0, 0))
             /\ UNCHANGED <<receipt, row, applied, revoked>>
        ELSE Passes(d, n, "next") /\ UNCHANGED hosted
  BY DEF AskProbe
<1>3. UNCHANGED <<local, typed, ledger, known, signed, held, session, private, conflict, overdue, spent, consent, met>>
  BY DEF AskProbe
<1>4. /\ task' \in [Devices -> Tasks] /\ task'[d].step = "probe" /\ \A e \in Devices \ {d} : task'[e] = task[e]
  <2>1. CASE Passes(d, n, "wait") BY <1>1, <2>1, PassesKeeps DEF Inv, Reads
  <2>2. CASE Passes(d, n, "next") BY <1>1, <2>2, PassesKeeps DEF Inv, Reads
  <2>3. QED BY <1>2, <2>1, <2>2
<1>5. TypeInv' BY <1>3, <1>4 DEF Inv, Reads, TypeInv, SpentInv
<1>6. LedgerInv' /\ Grows /\ GrantInv' BY <1>3 DEF Inv, Reads, LedgerInv, TypeInv, Grows, GrantInv, Agreed
<1>7. NoteInv' BY <1>3 DEF Inv, NoteInv, NoteOK
<1>8. RequestInv' /\ SlotInv' /\ \A e \in Devices \ {d} : requests'[Call(e)] = requests[Call(e)]
  <2>1. CASE Ask(d, Request("get", n, task[d].who, 0, 0, 0))
    <3>1. "get" \in Kinds /\ 0 \in Words /\ n \in Notes BY <1>1, Bounds DEF Kinds, Words
    <3>2. QED BY <1>5, <1>6, <2>1, <3>1, AskKeeps DEF Inv
  <2>2. CASE UNCHANGED hosted
    <3>1. UNCHANGED requests BY <2>2 DEF hosted
    <3>2. QED BY <1>5, <1>6, <3>1, RequestsStay DEF Inv
  <2>3. QED BY <1>2, <2>1, <2>2
<1>9. TaskInv'
  <2>1. TaskOK(d)' BY <1>4 DEF TaskOK
  <2>2. QED BY <1>4, <1>6, <1>8, <2>1, OtherTasks DEF Inv
<1>10. QED BY <1>5, <1>6, <1>7, <1>8, <1>9 DEF Moved, Kept

LEMMA EndKeeps ==
    ASSUME Inv, NEW d \in Devices, End(d)
    PROVE  Moved
<1>1. UNCHANGED <<local, typed, ledger, known, signed, held, session, private, conflict, overdue, spent, consent, met>>
  BY DEF End
<1>2. task' = [task EXCEPT ![d] = Idle] /\ Abandon(d) BY DEF End
<1>3. Idle \in Tasks BY DEF Tasks
<1>4. TypeInv' /\ task'[d] = Idle /\ \A e \in Devices \ {d} : task'[e] = task[e]
  BY <1>1, <1>2, <1>3 DEF Inv, Reads, TypeInv, SpentInv
<1>5. LedgerInv' /\ Grows /\ GrantInv' BY <1>1 DEF Inv, Reads, LedgerInv, TypeInv, Grows, GrantInv, Agreed
<1>6. NoteInv' BY <1>1 DEF Inv, NoteInv, NoteOK
<1>7. RequestInv' /\ SlotInv' /\ \A e \in Devices \ {d} : requests'[Call(e)] = requests[Call(e)]
  BY <1>2, <1>4, <1>5, AbandonKeeps DEF Inv
<1>8. TaskInv' BY <1>4, <1>5, <1>7, IdleTask, OtherTasks DEF Inv
<1>9. QED BY <1>4, <1>5, <1>6, <1>7, <1>8 DEF Moved, Kept

LEMMA LoseKeeps ==
    ASSUME Inv, NEW d \in Devices, Lose(d)
    PROVE  Moved
<1>1. UNCHANGED <<local, typed, ledger, known, signed, held, session, private, conflict, overdue, consent, met>> /\ Abandon(d)
  BY DEF Lose
<1>2. SpentInv' BY Spends DEF Inv, Reads, TypeInv, Lose
<1>3. task[d] # Idle /\ TaskOK(d) BY TaskOf DEF Inv, Reads, TypeInv, Lose, TaskInv
<1>4. /\ task' \in [Devices -> Tasks] /\ \A e \in Devices \ {d} : task'[e] = task[e]
      /\ \/ task'[d] = Idle
         \/ task'[d].step = "probe"
         \/ task[d].step = "conflict" /\ task'[d].step = "upload" /\ task'[d].todo = task[d].todo
  <2>1. CASE task[d].step = "conflict"
    <3>1. Goes(d, "next", "upload") BY <2>1 DEF Lose
    <3>2. QED BY <1>3, <2>1, <3>1, GoesKeeps DEF Inv, Reads
  <2>2. CASE task[d].step = "probe"
    <3>1. Goes(d, "next", "probe") BY <2>2 DEF Lose
    <3>2. QED BY <1>3, <3>1, GoesKeeps DEF Inv, Reads
  <2>3. CASE task[d].step \notin {"conflict", "probe"}
    <3>1. task' = [task EXCEPT ![d] = Idle] BY <2>3 DEF Lose
    <3>2. Idle \in Tasks BY DEF Tasks
    <3>3. QED BY <3>1, <3>2 DEF Inv, Reads, TypeInv
  <2>4. QED BY <2>1, <2>2, <2>3
<1>5. TypeInv' BY <1>1, <1>2, <1>4 DEF Inv, Reads, TypeInv
<1>6. LedgerInv' /\ Grows /\ GrantInv' BY <1>1 DEF Inv, Reads, LedgerInv, TypeInv, Grows, GrantInv, Agreed
<1>7. NoteInv' BY <1>1 DEF Inv, NoteInv, NoteOK
<1>8. RequestInv' /\ SlotInv' /\ \A e \in Devices \ {d} : requests'[Call(e)] = requests[Call(e)]
  BY <1>1, <1>5, <1>6, AbandonKeeps DEF Inv
<1>9. TaskInv'
  <2>1. TaskOK(d)' BY <1>1, <1>3, <1>4 DEF TaskOK
  <2>2. QED BY <1>4, <1>6, <1>8, <2>1, OtherTasks DEF Inv
<1>10. QED BY <1>5, <1>6, <1>7, <1>8, <1>9 DEF Moved, Kept

-----------------------------------------------------------------------------
\* Answers.

\* What an answer that a sync waits for may say.
LEMMA AnswerOf ==
    ASSUME Inv, NEW d \in Devices, NEW step, NEW kinds, Answered(d, step, kinds), step # "list" => "list" \notin kinds
    PROVE  LET q == requests[Call(d)] IN
           /\ IsAnswer(q) /\ Carries(q, d) /\ task[d] # Idle /\ task[d].step = step /\ TaskOK(d) /\ q # Free
           /\ "list" \notin kinds => q.note \in Notes /\ q.reply \in RowSet
           /\ q.kind \in {"post", "put"} => <<d, q.note>> \in consent
<1> DEFINE q == requests[Call(d)]
<1>1. Call(d) \in Slots /\ Call(d)[1] = d BY CallOf
<1>2. q.stage = "answered" /\ q.kind \in kinds /\ task[d].at = "wait" /\ task[d].step = step BY DEF Answered
<1>3. IsAnswer(q) /\ q # Free BY <1>1, <1>2 DEF Inv, Reads, RequestInv, IsRequest, IsAsk, Asking, Free
<1>4. Carries(q, d) /\ TaskOK(d) BY <1>1 DEF Inv, Reads, SlotInv, TaskInv
<1>5. task[d] # Idle BY <1>2, TaskOf DEF Inv, Reads, TypeInv
<1>6. "list" \notin kinds => q.note \in Notes /\ q.reply \in RowSet
  <2>1. SUFFICES ASSUME "list" \notin kinds PROVE q.note \in Notes /\ q.reply \in RowSet OBVIOUS
  <2>2. q.kind # "list" BY <1>2, <2>1
  <2>3. QED BY <1>3, <2>2 DEF IsAnswer, IsReply
<1>7. q.kind \in {"post", "put"} => <<d, q.note>> \in consent BY <1>2, <1>4 DEF Carries
<1>8. QED BY <1>2, <1>3, <1>4, <1>5, <1>6, <1>7

\* Where a sync goes on that may have been cancelled.
LEMMA ResumeKeeps ==
    ASSUME TypeInv, NEW d \in Devices, NEW on \in Tasks, Resume(d, on)
    PROVE  /\ task' \in [Devices -> Tasks] /\ (task'[d] = Idle \/ task'[d] = on)
           /\ \A e \in Devices \ {d} : task'[e] = task[e]
<1>1. Idle \in Tasks BY DEF Tasks
<1>2. CASE Stops(d) BY <1>1, <1>2 DEF Resume, TypeInv
<1>3. CASE ~ Stops(d) BY <1>3 DEF Resume, TypeInv
<1>4. QED BY <1>2, <1>3

LEMMA DeleteAnswerKeeps ==
    ASSUME Inv, NEW d \in Devices, DeleteAnswer(d)
    PROVE  Moved
<1> DEFINE q == requests[Call(d)]
           t == [task[d] EXCEPT !.at = "next"]
<1>1. Answered(d, "upload", {"delete"}) /\ requests' = [requests EXCEPT ![Call(d)] = Free]
      /\ UNCHANGED <<known, signed, held, session, private, conflict, overdue, spent, consent, met>>
  BY DEF DeleteAnswer, Took
<1>2. task[d] # Idle /\ task[d].step = "upload" /\ TaskOK(d) /\ q.note \in Notes
  <2>1. "list" \notin {"delete"} OBVIOUS
  <2>2. QED BY <1>1, <2>1, AnswerOf
<1>3. t \in Tasks /\ t.step = "upload" /\ t.todo = task[d].todo /\ Idle \in Tasks
  BY <1>2 DEF Inv, Reads, TypeInv, Tasks
<1> HIDE DEF t
<1>4. /\ LedgerInv' /\ NoteInv' /\ Grows /\ GrantInv'
      /\ local' \in [Devices -> [Notes -> Words]] /\ typed' \in [Devices -> SUBSET Notes]
      /\ task' \in [Devices -> Tasks] /\ (task'[d] = Idle \/ task'[d] = t)
      /\ \A e \in Devices \ {d} : task'[e] = task[e]
  <2>1. CASE q.status = 200
    <3>1. Bury(d, q.note) /\ Resume(d, t) BY <2>1 DEF DeleteAnswer, t
    <3>2. QED BY <1>1, <1>2, <1>3, <3>1, BuryKeeps, ResumeKeeps DEF Inv, Reads
  <2>2. CASE q.status # 200
    <3>1. task' = [task EXCEPT ![d] = Idle] /\ UNCHANGED <<ledger, local, typed>> BY <2>2 DEF DeleteAnswer
    <3>2. LedgerInv' /\ Grows /\ GrantInv' BY <1>1, <3>1 DEF Inv, Reads, LedgerInv, TypeInv, Grows, GrantInv, Agreed
    <3>3. NoteInv' BY <1>1, <3>1 DEF Inv, NoteInv, NoteOK
    <3>4. QED BY <1>3, <3>1, <3>2, <3>3 DEF Inv, Reads, TypeInv
  <2>3. QED BY <2>1, <2>2
<1>5. TypeInv' BY <1>1, <1>4 DEF Inv, Reads, TypeInv, SpentInv
<1>6. RequestInv' /\ SlotInv' /\ requests'[Call(d)] = Free
      /\ \A e \in Devices \ {d} : requests'[Call(e)] = requests[Call(e)]
  BY <1>1, <1>4, <1>5, TookKeeps DEF Inv
<1>7. TaskInv'
  <2>1. TaskOK(d)' BY <1>1, <1>2, <1>3, <1>4 DEF TaskOK
  <2>2. QED BY <1>4, <1>6, <2>1, OtherTasks DEF Inv
<1>8. QED BY <1>4, <1>5, <1>6, <1>7 DEF Moved, Kept

\* One row takes an answer, or drops its edit.
LEMMA RowKeeps ==
    ASSUME Inv, NEW d \in Devices, NEW n \in Notes, NEW x, IsEntry(x), ledger' = [ledger EXCEPT ![d][n] = x],
           UNCHANGED <<local, known, signed, conflict, consent>>,
           x.tracked /\ ~ x.deleted => <<d, n>> \in consent,
           NEW m \in Nat, met' = [met EXCEPT ![d][n] = m], m >= met[d][n], m >= x.base.rev, m >= x.pending.base
    PROVE  LedgerInv' /\ NoteInv' /\ Grows /\ GrantInv' /\ met' \in [Devices -> [Notes -> Nat]]
<1>1. /\ LedgerInv' /\ ledger'[d][n] = x
      /\ \A e \in Devices, k \in Notes : ~ (e = d /\ k = n) => ledger'[e][k] = ledger[e][k]
  BY LedgerStep, ZenonT(30) DEF Inv, Reads
<1>2. /\ met'[d][n] = m /\ met' \in [Devices -> [Notes -> Nat]]
      /\ \A e \in Devices, k \in Notes : ~ (e = d /\ k = n) => met'[e][k] = met[e][k]
  BY DEF Inv, Reads, TypeInv
<1>3. Grows /\ GrantInv' BY <1>2 DEF Inv, Reads, TypeInv, Grows, GrantInv, Agreed
<1>4. NoteOK(d, n)'
  <2>1. NoteOK(d, n) BY DEF Inv, NoteInv
  <2>2. QED BY <1>1, <1>2, <2>1 DEF NoteOK
<1>5. ASSUME NEW e \in Devices, NEW k \in Notes, ~ (e = d /\ k = n) PROVE NoteOK(e, k)'
  BY <1>1, <1>2, <1>5, NoteStays DEF Inv, Reads, NoteInv
<1>6. QED BY <1>1, <1>2, <1>3, <1>4, <1>5 DEF NoteInv

LEMMA UploadAnswerKeeps ==
    ASSUME Inv, NEW d \in Devices, UploadAnswer(d)
    PROVE  Moved
<1> DEFINE q == requests[Call(d)]
           n == q.note
           r == ledger[d][n]
           Outcome == /\ LedgerInv' /\ NoteInv' /\ Grows /\ GrantInv'
                      /\ local' \in [Devices -> [Notes -> Words]] /\ typed' \in [Devices -> SUBSET Notes]
                      /\ met' \in [Devices -> [Notes -> Nat]]
           Task == /\ task' \in [Devices -> Tasks]
                   /\ \/ task'[d] = Idle
                      \/ task'[d].step = "upload" /\ task'[d].todo = task[d].todo
                   /\ \A e \in Devices \ {d} : task'[e] = task[e]
<1>1. /\ Answered(d, "upload", {"post", "put"}) /\ ~ task[d].cancelled
      /\ UNCHANGED <<known, signed, held, session, private, conflict, overdue, spent, consent>>
  BY DEF UploadAnswer
<1>2. /\ task[d] # Idle /\ task[d].step = "upload" /\ TaskOK(d) /\ n \in Notes /\ q.reply \in RowSet
      /\ q.kind \in {"post", "put"} /\ <<d, n>> \in consent
  <2>1. "list" \notin {"post", "put"} OBVIOUS
  <2>2. q.kind \in {"post", "put"} BY <1>1 DEF Answered
  <2>3. QED BY <1>1, <2>1, <2>2, AnswerOf
<1>3. IsEntry(r) /\ NoteOK(d, n) /\ met[d][n] \in Nat /\ q.reply.rev \in Nat /\ Nothing.base = 0 /\ IsEdit(Nothing)
      /\ r.base.rev \in Nat
  BY <1>2, NothingIsAnEdit, RowsOf DEF Inv, Reads, LedgerInv, NoteInv, TypeInv, Nothing, IsEntry
<1>4. "next" \in {"next", "wait"} /\ "wait" \in {"next", "wait"} /\ "upload" \in {"upload", "conflict", "list", "probe"}
      /\ "conflict" \in {"upload", "conflict", "list", "probe"}
  OBVIOUS
<1>5. Goes(d, "next", "upload") => Task
  BY <1>2, <1>4, GoesKeeps DEF Inv, Reads
<1>6. CASE /\ q.status = 200 /\ Took(d) /\ Goes(d, "next", "upload")
           /\ ledger' = [ledger EXCEPT ![d][n] = Acknowledged(@, q.reply)]
           /\ met' = IF Takes(ledger[d][n]) THEN [met EXCEPT ![d][n] = Newest(@, q.reply)] ELSE met
           /\ UNCHANGED <<local, typed>>
  <2> DEFINE a == Acknowledged(r, q.reply)
             m == IF Takes(r) THEN Newest(met[d][n], q.reply) ELSE met[d][n]
  <2>1. /\ IsEntry(a) /\ (~ Takes(r) => a = r)
        /\ Takes(r) => a.tracked = r.tracked /\ a.base = q.reply /\ a.pending = Nothing /\ a.deleted = r.deleted
    BY <1>2, <1>3, AcknowledgedRow
  <2>2. Newest(met[d][n], q.reply) \in Nat /\ Newest(met[d][n], q.reply) >= met[d][n]
        /\ Newest(met[d][n], q.reply) >= q.reply.rev
    BY <1>2, <1>3, Newer
  <2>3. m \in Nat /\ m >= met[d][n] /\ m >= a.base.rev /\ m >= a.pending.base
    <3>1. CASE Takes(r) BY <1>3, <2>1, <2>2, <3>1
    <3>2. CASE ~ Takes(r) BY <1>3, <2>1, <3>2 DEF NoteOK
    <3>3. QED BY <3>1, <3>2
  <2>4. met' = [met EXCEPT ![d][n] = m]
    <3>1. CASE Takes(r) BY <1>6, <3>1
    <3>2. CASE ~ Takes(r)
      <4>1. met' = met /\ m = met[d][n] BY <1>6, <3>2
      <4>2. QED BY <1>2, <4>1 DEF Inv, Reads, TypeInv
    <3>3. QED BY <3>1, <3>2
  <2>5. ledger' = [ledger EXCEPT ![d][n] = a] BY <1>6
  <2> HIDE DEF a, m
  <2>6. LedgerInv' /\ NoteInv' /\ Grows /\ GrantInv' /\ met' \in [Devices -> [Notes -> Nat]]
    <3>1. UNCHANGED <<local, known, signed, conflict, consent>> BY <1>1, <1>6
    <3>2. a.tracked /\ ~ a.deleted => <<d, n>> \in consent BY <1>2
    <3>3. QED BY <1>2, <2>1, <2>3, <2>4, <2>5, <3>1, <3>2, RowKeeps
  <2>7. Outcome BY <1>6, <2>6 DEF Inv, Reads, TypeInv
  <2>8. requests' = [requests EXCEPT ![Call(d)] = Free] BY <1>6 DEF Took
  <2>9. TypeInv' BY <1>1, <1>5, <1>6, <2>7 DEF Inv, Reads, TypeInv, SpentInv
  <2>10. RequestInv' /\ SlotInv' /\ \A e \in Devices \ {d} : requests'[Call(e)] = requests[Call(e)]
    BY <2>7, <2>8, <2>9, TookKeeps DEF Inv
  <2>11. TaskOK(d)' BY <1>1, <1>2, <1>5, <1>6 DEF TaskOK
  <2>12. TaskInv' BY <1>5, <1>6, <2>7, <2>10, <2>11, OtherTasks DEF Inv
  <2>13. QED BY <2>7, <2>9, <2>10, <2>12 DEF Moved, Kept
<1>7. CASE /\ q.status = 410 /\ Took(d) /\ Goes(d, "next", "upload")
           /\ Bury(d, n) /\ UNCHANGED met
  <2>1. Outcome BY <1>1, <1>2, <1>7, BuryKeeps DEF Inv, Reads, TypeInv
  <2>2. requests' = [requests EXCEPT ![Call(d)] = Free] BY <1>7 DEF Took
  <2>3. TypeInv' BY <1>1, <1>5, <1>7, <2>1 DEF Inv, Reads, TypeInv, SpentInv
  <2>4. RequestInv' /\ SlotInv' /\ \A e \in Devices \ {d} : requests'[Call(e)] = requests[Call(e)]
    BY <2>1, <2>2, <2>3, TookKeeps DEF Inv
  <2>5. TaskOK(d)' BY <1>1, <1>2, <1>5, <1>7 DEF TaskOK
  <2>6. TaskInv' BY <1>5, <1>7, <2>1, <2>4, <2>5, OtherTasks DEF Inv
  <2>7. QED BY <2>1, <2>3, <2>4, <2>6 DEF Moved, Kept
<1>8. CASE /\ q.status = 409 /\ Goes(d, "wait", "conflict")
           /\ TookAndAsks(d, Request("get", n, task[d].who, 0, 0, 0))
           /\ UNCHANGED <<ledger, met, local, typed>>
  <2>1. Outcome
    BY <1>1, <1>8 DEF Inv, Reads, TypeInv, LedgerInv, NoteInv, NoteOK, Grows, GrantInv, Agreed
  <2>2. Ask(d, Request("get", n, task[d].who, 0, 0, 0)) BY <1>1, <1>8 DEF TookAndAsks, Stops, Ask
  <2>3. /\ task' \in [Devices -> Tasks] /\ task'[d].step = "conflict" /\ task'[d].todo = task[d].todo
        /\ \A e \in Devices \ {d} : task'[e] = task[e]
    BY <1>2, <1>4, <1>8, GoesKeeps DEF Inv, Reads
  <2>4. TypeInv' BY <1>1, <1>8, <2>1, <2>3 DEF Inv, Reads, TypeInv, SpentInv
  <2>5. /\ RequestInv' /\ SlotInv' /\ requests'[Call(d)].note = n
        /\ \A e \in Devices \ {d} : requests'[Call(e)] = requests[Call(e)]
    <3>1. "get" \in Kinds /\ 0 \in Words BY Bounds DEF Kinds, Words
    <3>2. QED BY <1>2, <2>1, <2>2, <2>4, <3>1, AskKeeps DEF Inv
  <2>6. TaskOK(d)'
    <3>1. \A k \in task[d].todo : <<d, k>> \in consent BY <1>2 DEF TaskOK
    <3>2. consent' = consent /\ Call(d)' = Call(d) BY <1>1 DEF Call
    <3>3. <<d, requests'[Call(d)].note>> \in consent' BY <1>2, <2>5, <3>2
    <3>4. QED BY <2>3, <3>1, <3>2, <3>3 DEF TaskOK
  <2>7. TaskInv' BY <2>1, <2>3, <2>5, <2>6, OtherTasks DEF Inv
  <2>8. QED BY <2>1, <2>4, <2>5, <2>7 DEF Moved, Kept
<1>9. CASE /\ q.status = 400 /\ Took(d) /\ Goes(d, "next", "upload")
           /\ ledger' = [ledger EXCEPT ![d][n].pending = Nothing]
           /\ UNCHANGED <<met, local, typed>>
  <2> DEFINE x == [r EXCEPT !.pending = Nothing]
             m == met[d][n]
  <2>1. IsEntry(x) /\ x.tracked = r.tracked /\ x.base = r.base /\ x.pending = Nothing /\ x.deleted = r.deleted
    BY <1>3, PendingRow
  <2>2. ledger' = [ledger EXCEPT ![d][n] = x] BY <1>9
  <2>3. m \in Nat /\ met' = [met EXCEPT ![d][n] = m] /\ m >= met[d][n] /\ m >= x.base.rev /\ m >= x.pending.base
    BY <1>2, <1>3, <1>9, <2>1 DEF NoteOK, Inv, Reads, TypeInv
  <2> HIDE DEF x, m
  <2>4. LedgerInv' /\ NoteInv' /\ Grows /\ GrantInv' /\ met' \in [Devices -> [Notes -> Nat]]
    <3>1. UNCHANGED <<local, known, signed, conflict, consent>> BY <1>1, <1>9
    <3>2. x.tracked /\ ~ x.deleted => <<d, n>> \in consent BY <1>2
    <3>3. QED BY <1>2, <2>1, <2>2, <2>3, <3>1, <3>2, RowKeeps
  <2>5. Outcome BY <1>9, <2>4 DEF Inv, Reads, TypeInv
  <2>6. requests' = [requests EXCEPT ![Call(d)] = Free] BY <1>9 DEF Took
  <2>7. TypeInv' BY <1>1, <1>5, <1>9, <2>5 DEF Inv, Reads, TypeInv, SpentInv
  <2>8. RequestInv' /\ SlotInv' /\ \A e \in Devices \ {d} : requests'[Call(e)] = requests[Call(e)]
    BY <2>5, <2>6, <2>7, TookKeeps DEF Inv
  <2>9. TaskOK(d)' BY <1>1, <1>2, <1>5, <1>9 DEF TaskOK
  <2>10. TaskInv' BY <1>5, <1>9, <2>5, <2>8, <2>9, OtherTasks DEF Inv
  <2>11. QED BY <2>5, <2>7, <2>8, <2>10 DEF Moved, Kept
<1>10. CASE /\ q.status \in {403, 404} /\ Took(d) /\ task' = [task EXCEPT ![d] = Idle]
            /\ UNCHANGED <<ledger, met, local, typed>>
  <2>1. Outcome
    BY <1>1, <1>10 DEF Inv, Reads, TypeInv, LedgerInv, NoteInv, NoteOK, Grows, GrantInv, Agreed
  <2>2. requests' = [requests EXCEPT ![Call(d)] = Free] BY <1>10 DEF Took
  <2>3. TypeInv' /\ task'[d] = Idle /\ \A e \in Devices \ {d} : task'[e] = task[e]
    <3>1. Idle \in Tasks BY DEF Tasks
    <3>2. QED BY <1>1, <1>10, <2>1, <3>1 DEF Inv, Reads, TypeInv, SpentInv
  <2>4. RequestInv' /\ SlotInv' /\ \A e \in Devices \ {d} : requests'[Call(e)] = requests[Call(e)]
    BY <2>1, <2>2, <2>3, TookKeeps DEF Inv
  <2>5. TaskInv' BY <2>1, <2>3, <2>4, IdleTask, OtherTasks DEF Inv
  <2>6. QED BY <2>1, <2>3, <2>4, <2>5 DEF Moved, Kept
<1>11. QED BY <1>6, <1>7, <1>8, <1>9, <1>10 DEF UploadAnswer

LEMMA ReviewKeeps ==
    ASSUME TypeInv, NEW d \in Devices, NEW shown, \A n \in Notes : n \in DOMAIN shown => shown[n] \in RowSet,
           Review(d, shown)
    PROVE  /\ conflict' \in [Devices -> [Notes -> RowSet]]
           /\ \A n \in Notes : \/ conflict'[d][n] = conflict[d][n]
                               \/ n \in DOMAIN shown /\ conflict[d][n] = NoRow /\ conflict'[d][n] = shown[n]
           /\ \A e \in Devices \ {d}, n \in Notes : conflict'[e][n] = conflict[e][n]
<1> DEFINE f == [n \in Notes |-> IF conflict[d][n] = NoRow /\ n \in DOMAIN shown THEN shown[n] ELSE conflict[d][n]]
<1>1. conflict' = [conflict EXCEPT ![d] = f] BY DEF Review
<1>2. f \in [Notes -> RowSet] BY DEF TypeInv
<1>3. conflict' \in [Devices -> [Notes -> RowSet]] /\ conflict'[d] = f /\ \A e \in Devices \ {d} : conflict'[e] = conflict[e]
  BY <1>1, <1>2 DEF TypeInv
<1>4. QED BY <1>3

LEMMA ConflictAnswerKeeps ==
    ASSUME Inv, NEW d \in Devices, ConflictAnswer(d)
    PROVE  Moved
<1> DEFINE q == requests[Call(d)]
           t == [task[d] EXCEPT !.at = "next", !.step = "upload"]
           shown == [n \in (IF q.status = 200 THEN {q.note} ELSE {}) |-> q.reply]
<1>1. /\ Answered(d, "conflict", {"get"}) /\ requests' = [requests EXCEPT ![Call(d)] = Free]
      /\ Review(d, shown) /\ Resume(d, t)
      /\ UNCHANGED <<local, typed, ledger, known, signed, held, session, private, spent, consent, met>>
  BY DEF ConflictAnswer, Took
<1>2. /\ task[d] # Idle /\ task[d].step = "conflict" /\ TaskOK(d) /\ q.note \in Notes /\ q.reply \in RowSet /\ q # Free
  <2>1. "list" \notin {"get"} OBVIOUS
  <2>2. QED BY <1>1, <2>1, AnswerOf
<1>3. <<d, q.note>> \in consent /\ \A k \in task[d].todo : <<d, k>> \in consent BY <1>2 DEF TaskOK
<1>4. t \in Tasks /\ t.step = "upload" /\ t.todo = task[d].todo
  BY <1>2 DEF Inv, Reads, TypeInv, Tasks
<1>5. (\A n \in Notes : n \in DOMAIN shown => shown[n] \in RowSet) /\ DOMAIN shown \subseteq {q.note}
  BY <1>2
<1> HIDE DEF t, shown
<1>6. /\ conflict' \in [Devices -> [Notes -> RowSet]]
      /\ \A n \in Notes : conflict'[d][n] = conflict[d][n] \/ n \in DOMAIN shown
      /\ \A e \in Devices \ {d}, n \in Notes : conflict'[e][n] = conflict[e][n]
  BY <1>1, <1>5, ReviewKeeps DEF Inv, Reads
<1>7. /\ task' \in [Devices -> Tasks] /\ (task'[d] = Idle \/ task'[d] = t)
      /\ \A e \in Devices \ {d} : task'[e] = task[e]
  BY <1>1, <1>4, ResumeKeeps DEF Inv, Reads
<1>8. TypeInv'
  <2>1. overdue' \in [Devices -> [Notes -> {"no", "shown", "taken"}]] BY DEF ConflictAnswer, Inv, Reads, TypeInv
  <2>2. QED BY <1>1, <1>6, <1>7, <2>1 DEF Inv, Reads, TypeInv, SpentInv
<1>9. LedgerInv' /\ Grows /\ GrantInv' BY <1>1 DEF Inv, Reads, LedgerInv, TypeInv, Grows, GrantInv, Agreed
<1>10. NoteInv'
  <2>1. ASSUME NEW e \in Devices, NEW n \in Notes PROVE NoteOK(e, n)'
    <3>1. NoteOK(e, n) BY DEF Inv, NoteInv
    <3>2. conflict'[e][n] = conflict[e][n] \/ <<e, n>> \in consent BY <1>3, <1>5, <1>6
    <3>3. QED BY <1>1, <3>1, <3>2 DEF NoteOK
  <2>2. QED BY <2>1 DEF NoteInv
<1>11. /\ RequestInv' /\ SlotInv' /\ requests'[Call(d)] = Free
       /\ \A e \in Devices \ {d} : requests'[Call(e)] = requests[Call(e)]
  BY <1>1, <1>8, <1>9, TookKeeps DEF Inv
<1>12. TaskInv'
  <2>1. TaskOK(d)' BY <1>1, <1>3, <1>4, <1>7 DEF TaskOK
  <2>2. QED BY <1>7, <1>9, <1>11, <2>1, OtherTasks DEF Inv
<1>13. QED BY <1>8, <1>9, <1>10, <1>11, <1>12 DEF Moved, Kept

LEMMA ProbeAnswerKeeps ==
    ASSUME Inv, NEW d \in Devices, ProbeAnswer(d)
    PROVE  Moved
<1> DEFINE q == requests[Call(d)]
<1>1. /\ Answered(d, "probe", {"get"}) /\ requests' = [requests EXCEPT ![Call(d)] = Free] /\ Goes(d, "next", "probe")
      /\ UNCHANGED <<known, signed, held, session, private, conflict, overdue, spent, consent, met>>
  BY DEF ProbeAnswer, Took
<1>2. task[d] # Idle /\ q.note \in Notes
  <2>1. "list" \notin {"get"} OBVIOUS
  <2>2. QED BY <1>1, <2>1, AnswerOf
<1>3. /\ LedgerInv' /\ NoteInv' /\ Grows /\ GrantInv'
      /\ local' \in [Devices -> [Notes -> Words]] /\ typed' \in [Devices -> SUBSET Notes]
  <2>1. CASE q.status = 410
    <3>1. Bury(d, q.note) BY <2>1 DEF ProbeAnswer
    <3>2. QED BY <1>1, <1>2, <3>1, BuryKeeps
  <2>2. CASE q.status # 410
    <3>1. UNCHANGED <<ledger, local, typed>> BY <2>2 DEF ProbeAnswer
    <3>2. LedgerInv' /\ Grows /\ GrantInv' BY <1>1, <3>1 DEF Inv, Reads, LedgerInv, TypeInv, Grows, GrantInv, Agreed
    <3>3. NoteInv' BY <1>1, <3>1 DEF Inv, NoteInv, NoteOK
    <3>4. QED BY <3>1, <3>2, <3>3 DEF Inv, Reads, TypeInv
  <2>3. QED BY <2>1, <2>2
<1>4. /\ task' \in [Devices -> Tasks] /\ task'[d].step = "probe"
      /\ \A e \in Devices \ {d} : task'[e] = task[e]
  BY <1>1, <1>2, GoesKeeps DEF Inv, Reads
<1>5. TypeInv' BY <1>1, <1>3, <1>4 DEF Inv, Reads, TypeInv, SpentInv
<1>6. /\ RequestInv' /\ SlotInv' /\ requests'[Call(d)] = Free
      /\ \A e \in Devices \ {d} : requests'[Call(e)] = requests[Call(e)]
  BY <1>1, <1>3, <1>5, TookKeeps DEF Inv
<1>7. TaskInv'
  <2>1. TaskOK(d)' BY <1>4 DEF TaskOK
  <2>2. QED BY <1>3, <1>4, <1>6, <2>1, OtherTasks DEF Inv
<1>8. QED BY <1>3, <1>5, <1>6, <1>7 DEF Moved, Kept

LEMMA DeletionEventKeeps ==
    ASSUME Inv, NEW d \in Devices, NEW n \in Notes, DeletionEvent(d, n)
    PROVE  Moved
<1>1. Bury(d, n) /\ UNCHANGED <<hosted, known, signed, held, session, private, conflict, overdue, task, spent, consent, met>>
  BY DEF DeletionEvent
<1>2. /\ LedgerInv' /\ NoteInv' /\ Grows /\ GrantInv'
      /\ local' \in [Devices -> [Notes -> Words]] /\ typed' \in [Devices -> SUBSET Notes]
  BY <1>1, BuryKeeps
<1>3. TypeInv' BY <1>1, <1>2 DEF Inv, Reads, TypeInv, SpentInv
<1>4. RequestInv' /\ SlotInv' BY <1>1, <1>2, <1>3, RequestsStay DEF Inv, hosted
<1>5. TaskInv' BY <1>1 DEF Inv, TaskInv, TaskOK, hosted, Call
<1>6. QED BY <1>2, <1>3, <1>4, <1>5 DEF Moved, Kept

LEMMA RemovedKeeps ==
    ASSUME Inv, NEW d \in Devices, Removed(d)
    PROVE  Moved
<1>1. UNCHANGED <<receipt, row, applied, requests, device, spent, consent, met>> BY DEF Removed, Revoke
<1>2. TypeInv' /\ LedgerInv' /\ Grows /\ GrantInv'
  BY <1>1 DEF Inv, Reads, TypeInv, SpentInv, LedgerInv, Grows, GrantInv, Agreed, device
<1>3. NoteInv' BY <1>1 DEF Inv, NoteInv, NoteOK, device
<1>4. RequestInv' /\ SlotInv' BY <1>1, <1>2, RequestsStay DEF Inv
<1>5. TaskInv' BY <1>1 DEF Inv, TaskInv, TaskOK, Call, device
<1>6. QED BY <1>2, <1>3, <1>4, <1>5 DEF Moved, Kept

\* A version of the account stands for review only of a note that is here.
LEMMA RefusedIsHere ==
    ASSUME NEW d \in Devices, NEW note, NEW n \in Notes, ReceiptOf(d, note, n) = "refused"
    PROVE  local[d][n] # 0
BY DEF ReceiptOf

LEMMA ListAnswerKeeps ==
    ASSUME Inv, NEW d \in Devices, ListAnswer(d)
    PROVE  Moved
<1> DEFINE q == requests[Call(d)]
           listed == {n \in Notes : q.reply[n] # NoRow}
           open == listed \ typed[d]
           takes == {n \in open : ReceiptOf(d, q.reply[n], n) = "applied"}
           shows == {n \in open : ReceiptOf(d, q.reply[n], n) = "refused"}
<1>1. /\ Answered(d, "list", {"list"}) /\ requests' = [requests EXCEPT ![Call(d)] = Free]
      /\ UNCHANGED <<typed, signed, held, session, private, overdue, spent>>
  BY DEF ListAnswer, Took
<1>2. IsAnswer(q) /\ Carries(q, d) /\ task[d] # Idle /\ q.stage = "answered" /\ q.kind = "list"
  <2>1. q.stage = "answered" /\ q.kind = "list" BY <1>1 DEF Answered
  <2>2. QED BY <1>1, <2>1, AnswerOf
<1>3. CASE q.status # 200
  <2>1. task' = [task EXCEPT ![d] = Idle] /\ UNCHANGED <<local, ledger, met, known, conflict, consent>>
    BY <1>3 DEF ListAnswer
  <2>2. TypeInv' /\ task'[d] = Idle /\ \A e \in Devices \ {d} : task'[e] = task[e]
    <3>1. Idle \in Tasks BY DEF Tasks
    <3>2. QED BY <1>1, <2>1, <3>1 DEF Inv, Reads, TypeInv, SpentInv
  <2>3. LedgerInv' /\ Grows /\ GrantInv' BY <2>1 DEF Inv, Reads, LedgerInv, TypeInv, Grows, GrantInv, Agreed
  <2>4. NoteInv' BY <1>1, <2>1 DEF Inv, NoteInv, NoteOK
  <2>5. RequestInv' /\ SlotInv' /\ \A e \in Devices \ {d} : requests'[Call(e)] = requests[Call(e)]
    BY <1>1, <2>2, <2>3, TookKeeps DEF Inv
  <2>6. TaskInv' BY <2>2, <2>3, <2>5, IdleTask, OtherTasks DEF Inv
  <2>7. QED BY <2>2, <2>3, <2>4, <2>5, <2>6 DEF Moved, Kept
<1>4. CASE q.status = 200
  <2> DEFINE f == [n \in Notes |-> IF n \in takes THEN Applied(ledger[d][n], q.reply[n], local[d][n] # 0) ELSE ledger[d][n]]
             w == [n \in Notes |-> IF n \in takes THEN q.reply[n].text ELSE local[d][n]]
             m == [n \in Notes |-> IF n \in takes THEN Newest(met[d][n], q.reply[n]) ELSE met[d][n]]
             shown == [n \in shows |-> q.reply[n]]
             on == [task[d] EXCEPT !.at = "next", !.step = "probe", !.todo = {n \in Notes : Takes(ledger'[d][n])} \ listed]
  <2>1. /\ ledger' = [ledger EXCEPT ![d] = f] /\ local' = [local EXCEPT ![d] = w] /\ met' = [met EXCEPT ![d] = m]
        /\ known' = [known EXCEPT ![d] = @ \cup takes] /\ consent' = consent \cup {<<d, n>> : n \in takes}
        /\ Review(d, shown) /\ Resume(d, on)
    <3>1. /\ ledger' = [ledger EXCEPT ![d] = [n \in Notes |->
                   IF n \in takes THEN Applied(@[n], q.reply[n], local[d][n] # 0) ELSE @[n]]]
          /\ local' = [local EXCEPT ![d] = [n \in Notes |-> IF n \in takes THEN q.reply[n].text ELSE @[n]]]
          /\ met' = [met EXCEPT ![d] = [n \in Notes |-> IF n \in takes THEN Newest(@[n], q.reply[n]) ELSE @[n]]]
      BY <1>4 DEF ListAnswer
    <3>2. /\ known' = [known EXCEPT ![d] = @ \cup takes] /\ consent' = consent \cup {<<d, n>> : n \in takes}
          /\ Review(d, shown) /\ Resume(d, on)
      BY <1>4 DEF ListAnswer
    <3>3. QED BY <3>1, <3>2
  <2>2. q.reply \in [Notes -> RowSet] /\ \A n \in listed : Agreed(n)
    BY <1>2, <1>4 DEF IsAnswer, IsReply, Carries
  <2>3. takes \subseteq listed /\ shows \subseteq listed /\ listed \subseteq Notes /\ \A n \in shows : local[d][n] # 0
    BY RefusedIsHere
  <2>4. \A n \in Notes : DOMAIN shown = shows /\ (n \in shows => shown[n] = q.reply[n]) OBVIOUS
  <2>5. /\ DOMAIN f = Notes /\ f = [n \in Notes |-> f[n]]
        /\ \A n \in Notes : f[n] = IF n \in takes THEN Applied(ledger[d][n], q.reply[n], local[d][n] # 0) ELSE ledger[d][n]
    OBVIOUS
  <2>6. \A n \in Notes : m[n] = IF n \in takes THEN Newest(met[d][n], q.reply[n]) ELSE met[d][n] OBVIOUS
  <2>7. w \in [Notes -> Words] BY <2>2, RowsOf DEF Inv, Reads, TypeInv
  <2>8. m \in [Notes -> Nat] BY <2>2, Newer DEF Inv, Reads, TypeInv
  <2>9. on \in Tasks /\ on.step = "probe"
    <3>1. {n \in Notes : Takes(ledger'[d][n])} \ listed \in SUBSET Notes OBVIOUS
    <3>2. PICK T \in SUBSET Notes : on = [task[d] EXCEPT !.at = "next", !.step = "probe", !.todo = T] BY <3>1
    <3>3. task[d] \in Tasks BY DEF Inv, Reads, TypeInv
    <3> HIDE DEF on
    <3>4. QED BY <1>2, <3>2, <3>3 DEF Tasks
  <2>10. \A n \in Notes : w[n] = IF n \in takes THEN q.reply[n].text ELSE local[d][n] OBVIOUS
  <2> HIDE DEF f, w, m, shown, on, takes, shows, listed
  <2>11. ASSUME NEW n \in takes
         PROVE  /\ IsEntry(f[n]) /\ f[n].base = q.reply[n] /\ f[n].pending = Nothing
                /\ m[n] >= q.reply[n].rev /\ m[n] >= met[d][n]
    <3> DEFINE had == local[d][n] # 0
    <3>1. n \in Notes /\ q.reply[n] \in RowSet /\ IsEntry(ledger[d][n]) /\ met[d][n] \in Nat /\ had \in BOOLEAN
      BY <2>2, <2>3 DEF Inv, Reads, TypeInv, LedgerInv
    <3>2. f[n] = Applied(ledger[d][n], q.reply[n], had) /\ m[n] = Newest(met[d][n], q.reply[n])
      BY <2>5, <2>6, <3>1
    <3> HIDE DEF had
    <3> DEFINE a == Applied(ledger[d][n], q.reply[n], had)
    <3>3. IsEntry(a) /\ a.base = q.reply[n] /\ a.pending = Nothing
      BY <3>1, AppliedRow
    <3>4. QED BY <3>1, <3>2, <3>3, Newer
  <2>12. /\ LedgerInv' /\ \A n \in Notes : ledger'[d][n] = f[n]
         /\ \A e \in Devices \ {d}, n \in Notes : ledger'[e][n] = ledger[e][n]
    <3>1. \A n \in Notes : IsEntry(f[n]) BY <2>5, <2>11 DEF Inv, Reads, LedgerInv
    <3>2. QED BY <2>1, <2>5, <3>1, LedgerRows DEF Inv, Reads
  <2>13. /\ local' \in [Devices -> [Notes -> Words]] /\ met' \in [Devices -> [Notes -> Nat]]
         /\ local'[d] = w /\ met'[d] = m
         /\ \A e \in Devices \ {d} : local'[e] = local[e] /\ met'[e] = met[e]
    BY <2>1, <2>7, <2>8 DEF Inv, Reads, TypeInv
  <2>14. known' \in [Devices -> SUBSET Notes] /\ consent' \subseteq Devices \X Notes /\ consent \subseteq consent'
         /\ (\A n \in takes : <<d, n>> \in consent') /\ (\A e \in Devices : known[e] \subseteq known'[e])
         /\ (\A e \in Devices, n \in Notes : <<e, n>> \in consent' => <<e, n>> \in consent \/ n \in takes)
    BY <2>1, <2>3 DEF Inv, Reads, TypeInv
  <2>15. /\ conflict' \in [Devices -> [Notes -> RowSet]]
         /\ \A n \in Notes : conflict'[d][n] = conflict[d][n] \/ n \in shows
         /\ \A e \in Devices \ {d}, n \in Notes : conflict'[e][n] = conflict[e][n]
    <3>1. \A n \in Notes : n \in DOMAIN shown => shown[n] \in RowSet BY <2>2, <2>4
    <3>2. QED BY <2>1, <2>4, <3>1, ReviewKeeps DEF Inv, Reads
  <2>16. /\ task' \in [Devices -> Tasks] /\ (task'[d] = Idle \/ task'[d].step = "probe")
         /\ \A e \in Devices \ {d} : task'[e] = task[e]
    <3>1. PICK u \in Tasks : u.step = "probe" /\ Resume(d, u) BY <2>1, <2>9
    <3>2. QED BY <3>1, ResumeKeeps DEF Inv, Reads
  <2>17. TypeInv' BY <1>1, <2>13, <2>14, <2>15, <2>16 DEF Inv, Reads, TypeInv, SpentInv
  <2>18. Grows
    <3>1. ASSUME NEW e \in Devices, NEW n \in Notes PROVE met'[e][n] >= met[e][n]
      <4>1. met[e][n] \in Nat BY DEF Inv, Reads, TypeInv
      <4>2. CASE e = d /\ n \in takes BY <2>11, <2>13, <4>2
      <4>3. CASE e = d /\ n \notin takes BY <2>6, <2>13, <4>1, <4>3
      <4>4. CASE e # d BY <2>13, <4>1, <4>4
      <4>5. QED BY <4>2, <4>3, <4>4
    <3>2. QED BY <2>14, <3>1 DEF Grows
  <2>19. GrantInv'
    BY <2>2, <2>3, <2>14 DEF Inv, Reads, GrantInv, Agreed
  <2>20. NoteInv'
    <3>1. ASSUME NEW n \in takes PROVE NoteOK(d, n)'
      <4>1. n \in Notes /\ <<d, n>> \in consent' BY <2>3, <2>14
      <4>2. ledger'[d][n].base = q.reply[n] /\ ledger'[d][n].pending = Nothing /\ met'[d][n] >= q.reply[n].rev
        BY <2>11, <2>12, <2>13, <4>1
      <4>3. met'[d][n] \in Nat /\ Nothing.base = 0 BY <2>13, <4>1 DEF Nothing
      <4>4. QED BY <4>1, <4>2, <4>3 DEF NoteOK
    <3>2. ASSUME NEW n \in Notes, n \notin takes PROVE NoteOK(d, n)'
      <4>1. NoteOK(d, n) BY DEF Inv, NoteInv
      <4>2. ledger'[d][n] = ledger[d][n] /\ met'[d][n] = met[d][n] /\ local'[d][n] = local[d][n] /\ signed' = signed
        BY <1>1, <2>5, <2>6, <2>10, <2>12, <2>13, <3>2
      <4>3. n \in shows => <<d, n>> \in consent
        BY <2>2, <2>3, <4>1 DEF NoteOK, Agreed
      <4>4. QED BY <2>14, <2>15, <4>1, <4>2, <4>3 DEF NoteOK
    <3>3. ASSUME NEW e \in Devices \ {d}, NEW n \in Notes PROVE NoteOK(e, n)'
      <4>1. TypeInv /\ NoteOK(e, n) /\ ledger'[e][n] = ledger[e][n] BY <2>12 DEF Inv, Reads, NoteInv
      <4>2. QED BY <1>1, <2>13, <2>14, <2>15, <4>1, NoteStays
    <3>4. QED BY <3>1, <3>2, <3>3 DEF NoteInv
  <2>21. /\ RequestInv' /\ SlotInv' /\ requests'[Call(d)] = Free
         /\ \A e \in Devices \ {d} : requests'[Call(e)] = requests[Call(e)]
    BY <1>1, <2>17, <2>18, TookKeeps DEF Inv
  <2>22. TaskInv'
    <3>1. TaskOK(d)' BY <2>16 DEF TaskOK
    <3>2. QED BY <2>16, <2>18, <2>21, <3>1, OtherTasks DEF Inv
  <2>23. QED BY <2>12, <2>17, <2>18, <2>19, <2>20, <2>21, <2>22 DEF Moved, Kept
<1>5. QED BY <1>3, <1>4

-----------------------------------------------------------------------------
\* The invariant.

LEMMA MovedIsEnough ==
    ASSUME Inv, Moved, UNCHANGED <<receipt, row>>
    PROVE  Inv'
<1>1. TableInv' BY DEF Inv, Reads, TableInv
<1>2. StoreInv' BY DEF Inv, Reads, StoreInv, Moved, Kept, Grows, Agreed
<1>3. QED BY <1>1, <1>2 DEF Inv, Reads, Moved, Kept

LEMMA KeptIsEnough ==
    ASSUME Inv, Kept, UNCHANGED hosted
    PROVE  Moved /\ UNCHANGED <<receipt, row>>
<1>1. UNCHANGED <<receipt, row, requests>> BY DEF hosted
<1>2. RequestInv' /\ SlotInv' BY <1>1, RequestsStay DEF Inv, Kept
<1>3. QED BY <1>1, <1>2 DEF Moved

LEMMA PersonKeeps ==
    ASSUME Inv, NEW d \in Devices, Person(d)
    PROVE  Kept /\ UNCHANGED hosted
<1>1. CASE \E n \in Notes : Record(d, n) BY <1>1, RecordKeeps DEF Record
<1>2. CASE \E n \in Notes : Type(d, n) BY <1>2, TypeKeeps DEF Type
<1>3. CASE \E n \in Notes : SaveText(d, n) BY <1>3, SaveTextKeeps DEF SaveText
<1>4. CASE \E n \in Notes : Remove(d, n) BY <1>4, RemoveKeeps DEF Remove
<1>5. CASE \E n \in Notes : Share(d, n) BY <1>5, ShareKeeps DEF Share
<1>6. CASE \E n \in Notes : UseRemote(d, n) BY <1>6, UseRemoteKeeps DEF UseRemote
<1>7. CASE \E n \in Notes : KeepLocal(d, n) BY <1>7, KeepLocalKeeps DEF KeepLocal
<1>8. CASE SignIn(d) BY <1>8, SignInKeeps DEF SignIn
<1>9. CASE SignOut(d) \/ SignOutFails(d) BY <1>9, SignOutKeeps DEF SignOut, SignOutFails, Disconnects
<1>10. CASE IncognitoOn(d) BY <1>10, IncognitoOnKeeps DEF IncognitoOn
<1>11. CASE IncognitoOff(d) BY <1>11, IncognitoOffKeeps DEF IncognitoOff
<1>12. QED
  BY <1>1, <1>2, <1>3, <1>4, <1>5, <1>6, <1>7, <1>8, <1>9, <1>10, <1>11 DEF Person

LEMMA RunsKeeps ==
    ASSUME Inv, NEW d \in Devices, Runs(d)
    PROVE  Moved /\ UNCHANGED <<receipt, row, applied, revoked>>
<1>1. CASE Begin(d)
  <2>1. UNCHANGED hosted BY <1>1 DEF Begin
  <2>2. QED BY <1>1, <2>1, BeginKeeps, KeptIsEnough DEF hosted
<1>2. CASE Upload(d)
  <2>1. UNCHANGED <<receipt, row, applied, revoked>> BY <1>2 DEF Upload, hosted
  <2>2. QED BY <1>2, <2>1, UploadKeeps
<1>3. CASE AskList(d) BY <1>3, AskListKeeps DEF AskList
<1>4. CASE AskProbe(d)
  <2>1. UNCHANGED <<receipt, row, applied, revoked>> BY <1>4 DEF AskProbe, hosted
  <2>2. QED BY <1>4, <2>1, AskProbeKeeps
<1>5. CASE End(d) BY <1>5, EndKeeps DEF End
<1>6. QED BY <1>1, <1>2, <1>3, <1>4, <1>5 DEF Runs

LEMMA AnswersKeep ==
    ASSUME Inv, NEW d \in Devices, Answers(d)
    PROVE  Moved /\ UNCHANGED <<receipt, row, applied, revoked>>
<1>1. CASE DeleteAnswer(d) BY <1>1, DeleteAnswerKeeps DEF DeleteAnswer, Took
<1>2. CASE UploadAnswer(d)
  <2>1. UNCHANGED <<receipt, row, applied, revoked>> BY <1>2 DEF UploadAnswer, Took, TookAndAsks
  <2>2. QED BY <1>2, <2>1, UploadAnswerKeeps
<1>3. CASE ConflictAnswer(d) BY <1>3, ConflictAnswerKeeps DEF ConflictAnswer, Took
<1>4. CASE ListAnswer(d) BY <1>4, ListAnswerKeeps DEF ListAnswer, Took
<1>5. CASE ProbeAnswer(d) BY <1>5, ProbeAnswerKeeps DEF ProbeAnswer, Took
<1>6. QED BY <1>1, <1>2, <1>3, <1>4, <1>5 DEF Answers

\* A step of a device leaves the notes of the account alone.
DeviceStep(d) ==
    Person(d) \/ Sync(d) \/ Runs(d) \/ Answers(d) \/ Lose(d) \/ Removed(d) \/ \E n \in Notes : DeletionEvent(d, n)

LEMMA DeviceKeeps ==
    ASSUME Inv, NEW d \in Devices, DeviceStep(d)
    PROVE  Moved /\ UNCHANGED <<receipt, row, applied>>
<1>1. CASE Person(d)
  <2>1. Kept /\ UNCHANGED hosted BY <1>1, PersonKeeps
  <2>2. QED BY <2>1, KeptIsEnough DEF hosted
<1>2. CASE Sync(d)
  <2>1. UNCHANGED hosted BY <1>2 DEF Sync
  <2>2. QED BY <1>2, <2>1, SyncKeeps, KeptIsEnough DEF hosted
<1>3. CASE Runs(d) BY <1>3, RunsKeeps
<1>4. CASE Answers(d) BY <1>4, AnswersKeep
<1>5. CASE Lose(d) BY <1>5, LoseKeeps DEF Lose
<1>6. CASE Removed(d) BY <1>6, RemovedKeeps DEF Removed, Revoke
<1>7. CASE \E n \in Notes : DeletionEvent(d, n) BY <1>7, DeletionEventKeeps DEF DeletionEvent, hosted
<1>8. QED BY <1>1, <1>2, <1>3, <1>4, <1>5, <1>6, <1>7 DEF DeviceStep

\* A request that is served still names its note.
LEMMA ServedNote ==
    ASSUME Inv, NEW s \in Slots, Serves(s)
    PROVE  requests'[s] = Free \/ (requests[s] # Free /\ requests'[s].note = requests[s].note)
<1> DEFINE q == requests[s]
<1>1. q.stage \in {"sent", "read", "looked"}
  BY DEF Serves, Read, List, Look, CommitPost, CommitPut, CommitDelete
<1>2. IsAsk(q) /\ q # Free BY <1>1 DEF Inv, Reads, RequestInv, IsRequest, IsAnswer, Free
<1>3. \A status, reply : Answer(s, status, reply) => requests'[s] = Free \/ requests'[s].note = q.note
  BY DEF Answer, Inv, Reads, RequestInv
<1>4. CASE Read(s)
  <2>1. CASE requests' = [requests EXCEPT ![s] = [@ EXCEPT !.stage = "read", !.seen = receipt[q.note], !.was = row[q.note]]]
    <3> DEFINE p == [q EXCEPT !.stage = "read", !.seen = receipt[q.note], !.was = row[q.note]]
    <3>1. requests'[s] = p BY <2>1 DEF Inv, Reads, RequestInv
    <3>2. p.note = q.note BY <1>2 DEF IsAsk, Asking
    <3>3. QED BY <1>2, <3>1, <3>2
  <2>2. CASE Answer(s, 200, row[q.note]) BY <1>2, <1>3, <2>2
  <2>3. CASE \E v : Refuse(s, v) BY <1>2, <1>3, <2>3 DEF Refuse
  <2>4. QED BY <1>4, <2>1, <2>2, <2>3 DEF Read
<1>5. CASE List(s) BY <1>2, <1>3, <1>5 DEF List, Refuse
<1>6. CASE Look(s)
  <2>1. CASE requests' = [requests EXCEPT ![s].stage = "looked"]
    <3> DEFINE p == [q EXCEPT !.stage = "looked"]
    <3>1. requests'[s] = p BY <2>1 DEF Inv, Reads, RequestInv
    <3>2. p.note = q.note BY <1>2 DEF IsAsk, Asking
    <3>3. QED BY <1>2, <3>1, <3>2
  <2>2. CASE Answer(s, 200, q.was) BY <1>2, <1>3, <2>2
  <2>3. CASE \E v : Refuse(s, v) BY <1>2, <1>3, <2>3 DEF Refuse
  <2>4. QED BY <1>6, <2>1, <2>2, <2>3 DEF Look
<1>7. CASE CommitPost(s) \/ CommitPut(s) \/ CommitDelete(s)
  <2>1. (\E v, w : Answer(s, v, w)) BY <1>7 DEF CommitPost, CommitPut, CommitDelete, Refuse
  <2>2. QED BY <1>2, <1>3, <2>1
<1>8. QED BY <1>4, <1>5, <1>6, <1>7 DEF Serves

LEMMA ServerIsEnough ==
    ASSUME Inv, NEW s \in Slots, Server(s)
    PROVE  Inv'
<1>1. UNCHANGED <<device, spent, consent, met>> /\ Serves(s) BY DEF Server
<1>2. RequestInv' /\ SlotInv' /\ Tabled' /\ Same(s) BY <1>1, ServerKeeps DEF Inv
<1>3. TypeInv' /\ LedgerInv' /\ GrantInv'
  BY <1>1 DEF Inv, Reads, TypeInv, SpentInv, LedgerInv, GrantInv, Agreed, device
<1>4. NoteInv' BY <1>1 DEF Inv, NoteInv, NoteOK, device
<1>5. TaskInv'
  <2>1. ASSUME NEW d \in Devices PROVE TaskOK(d)'
    <3>1. TaskOK(d) /\ task'[d] = task[d] /\ consent' = consent BY <1>1 DEF Inv, TaskInv, device
    <3>2. \/ requests'[Call(d)] = Free
          \/ requests[Call(d)] # Free /\ requests'[Call(d)].note = requests[Call(d)].note
          \/ requests'[Call(d)] = requests[Call(d)]
      <4>1. Call(d) \in Slots BY CallOf
      <4>2. CASE Call(d) # s BY <1>2, <4>1, <4>2 DEF Same
      <4>3. CASE Call(d) = s BY <1>1, <4>1, <4>3, ServedNote DEF Inv
      <4>4. QED BY <4>2, <4>3
    <3>3. QED BY <3>1, <3>2 DEF TaskOK, Call
  <2>2. QED BY <2>1 DEF TaskInv
<1>6. QED BY <1>2, <1>3, <1>4, <1>5 DEF Inv, Reads, Tabled

LEMMA InitHolds == Init => Inv
<1> SUFFICES ASSUME Init PROVE Inv OBVIOUS
<1>1. 0 \in Words /\ NoRow \in RowSet /\ Idle \in Tasks /\ 0 \in 0..MaxSessions BY Bounds DEF Words, RowSet, Tasks
<1>2. SpentInv BY <1>1 DEF Init, SpentInv
<1>3. TypeInv BY <1>1, <1>2 DEF Init, TypeInv
<1>4. IsEntry(Untracked) /\ ~ Untracked.tracked /\ Untracked.base = NoRow /\ Untracked.pending = Nothing
  BY <1>1, NothingIsAnEdit DEF IsEntry, Untracked
<1>5. LedgerInv BY <1>4 DEF Init, LedgerInv
<1>6. RequestInv BY DEF Init, HostedInit, RequestInv, IsRequest
<1>7. TableInv /\ StoreInv BY <1>1 DEF Init, HostedInit, TableInv, StoreInv, Receipt
<1>8. SlotInv
  <2>1. \A s \in Slots : requests[s] = Free BY DEF Init, HostedInit
  <2>2. QED BY <2>1 DEF SlotInv, Carries, Free, Asking
<1>9. GrantInv BY DEF Init, GrantInv
<1>10. NoteInv
  <2>1. Untracked.base.rev = 0 /\ Untracked.pending.base = 0 BY <1>4 DEF NoRow, Nothing
  <2>2. QED BY <1>4, <2>1 DEF Init, NoteInv, NoteOK
<1>11. TaskInv BY DEF Init, TaskInv, TaskOK
<1>12. QED BY <1>3, <1>5, <1>6, <1>7, <1>8, <1>9, <1>10, <1>11 DEF Inv, Reads

LEMMA StepHolds == Inv /\ [Next]_vars => Inv'
<1> SUFFICES ASSUME Inv, [Next]_vars PROVE Inv' OBVIOUS
<1>1. CASE \E d \in Devices : DeviceStep(d)
  <2>1. PICK d \in Devices : DeviceStep(d) BY <1>1
  <2>2. Moved /\ UNCHANGED <<receipt, row>> BY <2>1, DeviceKeeps
  <2>3. QED BY <2>2, MovedIsEnough
<1>2. CASE \E s \in Slots : Server(s) BY <1>2, ServerIsEnough
<1>3. CASE UNCHANGED vars
  <2>1. UNCHANGED <<receipt, row, requests, local, typed, ledger, known, signed, held, session, private, conflict, overdue, task,
                    spent, consent, met>>
    BY <1>3 DEF vars, hosted, device
  <2>2. TypeInv' /\ LedgerInv' /\ RequestInv' /\ TableInv' /\ StoreInv' /\ GrantInv'
    BY <2>1 DEF Inv, Reads, TypeInv, SpentInv, LedgerInv, RequestInv, TableInv, StoreInv, GrantInv, Agreed
  <2>3. SlotInv' BY <2>1 DEF Inv, Reads, SlotInv, Carries, Asking, Agreed
  <2>4. NoteInv' BY <2>1 DEF Inv, NoteInv, NoteOK
  <2>5. TaskInv' BY <2>1 DEF Inv, TaskInv, TaskOK, Call
  <2>6. QED BY <2>2, <2>3, <2>4, <2>5 DEF Inv, Reads
<1>4. QED BY <1>1, <1>2, <1>3 DEF Next, DeviceStep

\* Every request, row, ledger and sync is in order in every state that is reached.
THEOREM AccountInvariant == Spec => []Inv
<1>1. Init => Inv BY InitHolds
<1>2. Inv /\ [Next]_vars => Inv' BY StepHolds
<1>3. QED BY <1>1, <1>2, PTL DEF Spec

\* Every variable keeps its type.
THEOREM AccountTypes == Spec => []TypeOK
<1>1. Inv => TypeOK
  <2> SUFFICES ASSUME Inv PROVE TypeOK OBVIOUS
  <2>1. RowSet \subseteq Row /\ Words = 0..MaxEdits BY RowsOf, Bounds DEF RowSet, Row, NoRow, Words
  <2>2. receipt \in [Notes -> Receipt] /\ row \in [Notes -> Row] BY <2>1 DEF Inv, Reads, TableInv
  <2>3. /\ local \in [Devices -> [Notes -> 0..MaxEdits]]
        /\ typed \in [Devices -> SUBSET Notes] /\ known \in [Devices -> SUBSET Notes]
        /\ signed \in [Devices -> BOOLEAN] /\ private \in [Devices -> BOOLEAN]
        /\ session \in [Devices -> 0..MaxSessions] /\ held \in [Devices -> {"no", "locked", "open"}]
        /\ overdue \in [Devices -> [Notes -> {"no", "shown", "taken"}]]
        /\ met \in [Devices -> [Notes -> Nat]]
    BY <2>1 DEF Inv, Reads, TypeInv
  <2>4. conflict \in [Devices -> [Notes -> Row]]
    BY <2>1 DEF Inv, Reads, TypeInv
  <2>5. ASSUME NEW d \in Devices, NEW n \in Notes
        PROVE  /\ ledger[d][n].base \in Row
               /\ {ledger[d][n].tracked, ledger[d][n].imported, ledger[d][n].deleted} \subseteq BOOLEAN
    <3>1. IsEntry(ledger[d][n]) BY DEF Inv, Reads, LedgerInv
    <3>2. QED BY <2>1, <3>1 DEF IsEntry
  <2>6. \A d \in Devices : task[d].at \in {"idle", "spawned", "next", "wait"}
    BY TaskOf DEF Inv, Reads, TypeInv, Idle
  <2>7. QED BY <2>2, <2>3, <2>4, <2>5, <2>6 DEF TypeOK
<1>2. QED BY <1>1, AccountInvariant, PTL

\* A note that was saved and deleted has no row, whatever edits and retries were on their way: the second
\* look at the receipt and the revision a write is made over see to it.
THEOREM DeletedStaysDeleted == Spec => []DeletionIsFinal
<1>1. Inv => DeletionIsFinal BY DEF Inv, Reads, TableInv, DeletionIsFinal
<1>2. QED BY <1>1, AccountInvariant, PTL

\* Only what was shared, recorded while connected, or came from the account is uploaded: history from
\* before a sign-in stays where it is until the person shares it.
THEOREM UploadsAreShared == Spec => []PrivateHistoryStays
<1>1. Inv => PrivateHistoryStays
  BY CallOf DEF Inv, Reads, SlotInv, Carries, PrivateHistoryStays
<1>2. QED BY <1>1, AccountInvariant, PTL

-----------------------------------------------------------------------------
\* What a step may not do.

\* The tables of the account are left alone, but for the list of removed logins.
LEMMA DeviceWritesNothing ==
    ASSUME Inv, NEW d \in Devices, DeviceStep(d)
    PROVE  UNCHANGED Tables \/ UNCHANGED requests
<1>1. CASE Person(d) \/ Sync(d) \/ \E n \in Notes : DeletionEvent(d, n)
  <2>1. UNCHANGED hosted BY <1>1, PersonKeeps DEF Sync, DeletionEvent
  <2>2. QED BY <2>1 DEF hosted
<1>2. CASE Runs(d) \/ Answers(d) BY <1>2, RunsKeeps, AnswersKeep DEF Tables
<1>3. CASE Lose(d) BY <1>3 DEF Lose, Tables
<1>4. CASE Removed(d) BY <1>4 DEF Removed, Revoke
<1>5. QED BY <1>1, <1>2, <1>3, <1>4 DEF DeviceStep

\* A login that was removed changes nothing in the account, not even by a request whose first check it
\* had passed: each transaction asks again.
THEOREM RemovedLoginWritesNothing == Spec => RemovedWritesNothing
<1> DEFINE Quiet == \A s \in DOMAIN requests :
              requests'[s] # requests[s] /\ requests[s].stage # "free" /\ requests[s].who \in revoked
                  => UNCHANGED Tables
<1>1. ASSUME Inv, [Next]_vars PROVE Quiet
  <2>1. CASE UNCHANGED vars BY <2>1 DEF vars, hosted
  <2>2. CASE \E d \in Devices : DeviceStep(d) BY <1>1, <2>2, DeviceWritesNothing
  <2>3. CASE \E s \in Slots : Server(s)
    <3>1. PICK s \in Slots : Server(s) BY <2>3
    <3>2. Serves(s) /\ UNCHANGED <<consent, met>> BY <3>1 DEF Server
    <3>3. Same(s) /\ UNCHANGED revoked /\ Writes(s) BY <1>1, <3>2, ServerKeeps DEF Inv
    <3>4. DOMAIN requests = Slots BY <1>1 DEF Inv, Reads, RequestInv
    <3>5. \A t \in Slots : t # s => requests'[t] = requests[t] BY <3>3 DEF Same
    <3>6. requests[s].who \in revoked => UNCHANGED Tables BY <3>3 DEF Writes, DeviceChecks, Tables
    <3>7. QED BY <3>4, <3>5, <3>6
  <2>4. QED BY <1>1, <2>1, <2>2, <2>3 DEF Next, DeviceStep
<1>2. QED BY <1>1, AccountInvariant, PTL DEF Spec, RemovedWritesNothing

\* Words that the account does not have leave a device only for the next edit, the version a person
\* chose, or a deletion.
Survives(d, n) ==
    local[d][n] # 0 /\ local[d][n] # ledger[d][n].base.text /\ local'[d][n] # local[d][n]
        => local'[d][n] \in {0, NextText} \/ conflict'[d][n] # conflict[d][n]

LEMMA PersonSpares ==
    ASSUME Inv, NEW d \in Devices, Person(d), NEW e \in Devices, NEW m \in Notes
    PROVE  Survives(e, m)
<1>1. ASSUME NEW n \in Notes, Record(d, n) PROVE Survives(e, m)
  BY <1>1 DEF Record, Inv, Reads, TypeInv, Survives
<1>2. ASSUME NEW n \in Notes, SaveText(d, n) PROVE Survives(e, m)
  <2>1. local' = [local EXCEPT ![d][n] = NextText] \/ local' = local BY <1>2 DEF SaveText
  <2>2. local'[e][m] = local[e][m] \/ local'[e][m] = NextText
    <3>1. local \in [Devices -> [Notes -> Words]] BY DEF Inv, Reads, TypeInv
    <3>2. CASE local' = [local EXCEPT ![d][n] = NextText] BY <3>1, <3>2
    <3>3. QED BY <2>1, <3>2
  <2>3. QED BY <2>2 DEF Survives
<1>3. ASSUME NEW n \in Notes, Remove(d, n) PROVE Survives(e, m)
  BY <1>3 DEF Remove, Inv, Reads, TypeInv, Survives
<1>4. ASSUME NEW n \in Notes, UseRemote(d, n) PROVE Survives(e, m)
  BY <1>4 DEF UseRemote, Inv, Reads, TypeInv, Survives
<1>5. CASE SignOut(d) \/ SignOutFails(d)
  <2>1. PICK gone : Leaves(d, gone) BY <1>5 DEF SignOut, SignOutFails
  <2>2. QED BY <2>1 DEF Leaves, Inv, Reads, TypeInv, Survives
<1>6. ASSUME UNCHANGED local PROVE Survives(e, m)
  BY <1>6 DEF Survives
<1>7. QED
  BY <1>1, <1>2, <1>3, <1>4, <1>5, <1>6
     DEF Person, Type, Share, KeepLocal, SignIn, IncognitoOn, IncognitoOff, UNTOUCHED

LEMMA BurySpares ==
    ASSUME Inv, NEW d \in Devices, NEW n \in Notes, Bury(d, n), NEW e \in Devices, NEW m \in Notes
    PROVE  Survives(e, m)
<1>1. local' = [local EXCEPT ![d][n] = 0] \/ local' = local BY DEF Bury
<1>2. local'[e][m] = local[e][m] \/ local'[e][m] = 0
  <2>1. local \in [Devices -> [Notes -> Words]] BY DEF Inv, Reads, TypeInv
  <2>2. CASE local' = [local EXCEPT ![d][n] = 0] BY <2>1, <2>2
  <2>3. QED BY <1>1, <2>2
<1>3. QED BY <1>2 DEF Survives

LEMMA AnswersSpare ==
    ASSUME Inv, NEW d \in Devices, Answers(d), NEW e \in Devices, NEW m \in Notes
    PROVE  Survives(e, m)
<1> DEFINE q == requests[Call(d)]
<1>1. ASSUME UNCHANGED local PROVE Survives(e, m)
  BY <1>1 DEF Survives
<1>2. CASE DeleteAnswer(d)
  <2>1. "list" \notin {"delete"} OBVIOUS
  <2>2. q.note \in Notes BY <1>2, <2>1, AnswerOf DEF DeleteAnswer
  <2>3. QED BY <1>1, <1>2, <2>2, BurySpares DEF DeleteAnswer
<1>3. CASE UploadAnswer(d)
  <2>1. "list" \notin {"post", "put"} OBVIOUS
  <2>2. q.note \in Notes
    <3>1. Answered(d, "upload", {"post", "put"}) BY <1>3 DEF UploadAnswer
    <3>2. QED BY <2>1, <3>1, AnswerOf
  <2>3. Bury(d, q.note) \/ UNCHANGED local BY <1>3 DEF UploadAnswer
  <2>4. QED BY <1>1, <2>2, <2>3, BurySpares
<1>4. CASE ConflictAnswer(d) BY <1>1, <1>4 DEF ConflictAnswer
<1>5. CASE ProbeAnswer(d)
  <2>1. "list" \notin {"get"} OBVIOUS
  <2>2. q.note \in Notes BY <1>5, <2>1, AnswerOf DEF ProbeAnswer
  <2>3. QED BY <1>1, <1>5, <2>2, BurySpares DEF ProbeAnswer
<1>6. CASE ListAnswer(d)
  <2>1. CASE q.status # 200
    <3>1. UNCHANGED local BY <1>6, <2>1 DEF ListAnswer
    <3>2. QED BY <1>1, <3>1
  <2>2. CASE q.status = 200
    <3> DEFINE takes == {n \in {n \in Notes : q.reply[n] # NoRow} \ typed[d] : ReceiptOf(d, q.reply[n], n) = "applied"}
    <3>1. local' = [local EXCEPT ![d] = [n \in Notes |-> IF n \in takes THEN q.reply[n].text ELSE local[d][n]]]
      BY <1>6, <2>2 DEF ListAnswer
    <3>2. m \in takes => ReceiptOf(d, q.reply[m], m) = "applied" OBVIOUS
    <3> HIDE DEF takes
    <3>3. m \notin takes \/ e # d => local'[e][m] = local[e][m] BY <3>1 DEF Inv, Reads, TypeInv
    <3>4. m \in takes => ~ (local[d][m] # 0 /\ Changed(d, m)) BY <3>2 DEF ReceiptOf
    <3>5. QED BY <3>3, <3>4 DEF Survives, Changed
  <2>3. QED BY <2>1, <2>2
<1>7. QED BY <1>2, <1>3, <1>4, <1>5, <1>6 DEF Answers

LEMMA StepSpares ==
    ASSUME Inv, [Next]_vars, NEW e \in Devices, NEW m \in Notes
    PROVE  Survives(e, m)
<1>1. ASSUME UNCHANGED local PROVE Survives(e, m)
  BY <1>1 DEF Survives
<1>2. ASSUME NEW d \in Devices, DeviceStep(d) PROVE Survives(e, m)
  <2>1. CASE Person(d) BY <2>1, PersonSpares
  <2>2. CASE Answers(d) BY <2>2, AnswersSpare
  <2>3. CASE \E n \in Notes : DeletionEvent(d, n) BY <2>3, BurySpares DEF DeletionEvent
  <2>4. CASE Sync(d) \/ Runs(d) \/ Lose(d) \/ Removed(d)
    <3>1. UNCHANGED local
      BY <2>4 DEF Sync, Runs, Begin, Upload, AskList, AskProbe, End, Lose, Removed, device
    <3>2. QED BY <1>1, <3>1
  <2>5. QED BY <1>2, <2>1, <2>2, <2>3, <2>4 DEF DeviceStep
<1>3. CASE \E s \in Slots : Server(s) BY <1>1, <1>3 DEF Server, device
<1>4. CASE UNCHANGED vars BY <1>1, <1>4 DEF vars, device
<1>5. QED BY <1>2, <1>3, <1>4 DEF Next, DeviceStep

LEMMA StepLosesNoUpdate ==
    ASSUME Inv, [Next]_vars, NEW n \in Notes, row[n] # NoRow, row'[n] # NoRow, row'[n] # row[n]
    PROVE  \E s \in DOMAIN requests : /\ requests'[s] # requests[s] /\ requests[s].note = n
                                      /\ met[s[1]][n] >= row[n].rev
<1>1. CASE \E d \in Devices : DeviceStep(d) BY <1>1, DeviceKeeps
<1>2. CASE UNCHANGED vars BY <1>2 DEF vars, hosted
<1>3. CASE \E s \in Slots : Server(s)
  <2>1. PICK s \in Slots : Server(s) BY <1>3
  <2>2. Serves(s) /\ UNCHANGED <<consent, met>> BY <2>1 DEF Server
  <2>3. n = requests[s].note /\ met[s[1]][n] >= row[n].rev /\ requests'[s] # requests[s]
    BY <2>2, ServerKeeps DEF Inv
  <2>4. s \in DOMAIN requests BY DEF Inv, Reads, RequestInv
  <2>5. QED BY <2>3, <2>4
<1>4. QED BY <1>1, <1>2, <1>3 DEF Next, DeviceStep

\* No saved words are overwritten: not in the account by an edit written over another revision, however
\* late or often its request arrives, and not on a device by an answer that was on its way.
THEOREM NothingOverwritten == Spec => NothingIsOverwritten
<1>1. Inv /\ [Next]_vars =>
        \A d \in Devices, n \in Notes :
            local[d][n] # 0 /\ local[d][n] # ledger[d][n].base.text /\ local'[d][n] # local[d][n]
                => local'[d][n] \in {0, NextText} \/ conflict'[d][n] # conflict[d][n]
  BY StepSpares DEF Survives
<1>2. Inv /\ [Next]_vars =>
        \A n \in Notes : row[n] # NoRow /\ row'[n] # NoRow /\ row'[n] # row[n]
            => \E s \in DOMAIN requests : /\ requests'[s] # requests[s] /\ requests[s].note = n
                                          /\ met[s[1]][n] >= row[n].rev
  BY StepLosesNoUpdate
<1>3. Spec => NoLostUpdate BY <1>2, AccountInvariant, PTL DEF Spec, NoLostUpdate
<1>4. Spec => EditsSurvive BY <1>1, AccountInvariant, PTL DEF Spec, EditsSurvive
<1>5. QED BY <1>3, <1>4 DEF NothingIsOverwritten

-----------------------------------------------------------------------------
\* What a sign-out leaves behind.

\* Whatever came from another device is marked as imported, and is here only as long as there is a ledger to
\* clear it by.  A sync whose login is over may still show a version of a note that was cleared; taken over a
\* deletion it stays unmarked, for such a row keeps what it says.
OwnNote(d, n) ==
    /\ ledger[d][n].imported \/ ledger[d][n].deleted => ledger[d][n].tracked
    /\ overdue[d][n] = "taken" => ledger[d][n].deleted /\ ~ ledger[d][n].imported
    /\ d # Maker[n] /\ local[d][n] # 0 => (ledger[d][n].imported /\ HasLedger(d)) \/ overdue[d][n] = "taken"
    /\ d # Maker[n] /\ Takes(ledger[d][n]) => ledger[d][n].imported
    /\ d # Maker[n] /\ conflict[d][n] # NoRow => ledger[d][n].imported \/ overdue[d][n] # "no"

\* A sync that was not stopped is one of the login that is there; one of that login asks only for what is marked.
Imported(d, n) == d # Maker[n] => ledger[d][n].imported
OwnTask(d) ==
    task[d] # Idle =>
        /\ task[d].who[2] <= session[d]
        /\ ~ task[d].cancelled => ~ Over(d)
        /\ ~ Over(d) /\ task[d].step \in {"upload", "conflict"} =>
              /\ \A n \in task[d].todo : Imported(d, n)
              /\ task[d].at = "wait" /\ requests[Call(d)] # Free
                    => requests[Call(d)].note \in Notes /\ Imported(d, requests[Call(d)].note)
OwnInv == \A d \in Devices : OwnTask(d) /\ \A n \in Notes : OwnNote(d, n)

\* The login that is there stays.
SameLogin(d) == signed'[d] = signed[d] /\ session'[d] = session[d]

\* Other devices do not take part in a step of this one.
Apart(d) ==
    \A e \in Devices \ {d} :
        /\ signed'[e] = signed[e] /\ task'[e] = task[e] /\ requests'[Call(e)] = requests[Call(e)]
        /\ local'[e] = local[e] /\ ledger'[e] = ledger[e] /\ conflict'[e] = conflict[e]
        /\ held'[e] = held[e] /\ overdue'[e] = overdue[e] /\ session'[e] = session[e]

LEMMA PersonApart ==
    ASSUME Inv, NEW d \in Devices, Person(d)
    PROVE  Apart(d)
<1>1. UNCHANGED requests BY PersonKeeps DEF hosted
<1>2. ASSUME NEW n \in Notes,
             Record(d, n) \/ Type(d, n) \/ SaveText(d, n) \/ Remove(d, n)
      PROVE  Apart(d)
  <2>1. UNCHANGED <<signed, held, session, overdue, task, ledger, conflict>> BY <1>2 DEF Record, Type, SaveText, Remove, UNTOUCHED
  <2>2. local' = local \/ (\E x : local' = [local EXCEPT ![d][n] = x]) BY <1>2 DEF Record, Type, SaveText, Remove
  <2>3. QED BY <1>1, <2>1, <2>2, DomainsOf DEF Apart, Call
<1>3. ASSUME NEW n \in Notes, Share(d, n) PROVE Apart(d)
  BY <1>1, <1>3, DomainsOf DEF Share, UNTOUCHED, Apart, Call
<1>4. ASSUME NEW n \in Notes, UseRemote(d, n) PROVE Apart(d)
  BY <1>1, <1>4, DomainsOf DEF UseRemote, Apart, Call
<1>5. ASSUME NEW n \in Notes, KeepLocal(d, n) PROVE Apart(d)
  <2>1. UNCHANGED <<signed, held, session, task, local>> /\ conflict' = [conflict EXCEPT ![d][n] = NoRow]
        /\ overdue' = [overdue EXCEPT ![d][n] = Settled(overdue[d][n])]
    BY <1>5 DEF KeepLocal
  <2>2. ledger' = ledger \/ (\E x : ledger' = [ledger EXCEPT ![d][n] = x]) BY <1>5 DEF KeepLocal
  <2>3. QED BY <1>1, <2>1, <2>2, DomainsOf DEF Apart, Call
<1>6. CASE SignIn(d) BY <1>1, <1>6, DomainsOf DEF SignIn, Apart, Call
<1>7. CASE SignOut(d) \/ SignOutFails(d)
  <2>1. Disconnects(d) /\ (\E gone : Leaves(d, gone)) /\ (\E x : held' = [held EXCEPT ![d] = x])
    BY <1>7 DEF SignOut, SignOutFails
  <2>2. ledger' = ledger \/ (\E f : ledger' = [ledger EXCEPT ![d] = f]) BY <1>7 DEF SignOut, SignOutFails
  <2>3. QED BY <1>1, <2>1, <2>2, DomainsOf DEF Disconnects, Leaves, Apart, Call
<1>8. CASE IncognitoOn(d) BY <1>1, <1>8, DomainsOf DEF IncognitoOn, Apart, Call
<1>9. CASE IncognitoOff(d)
  <2>1. UNCHANGED <<signed, session, overdue, local, ledger, conflict>> /\ (\E x : held' = [held EXCEPT ![d] = x])
    BY <1>9 DEF IncognitoOff
  <2>2. task' = task \/ task' = [task EXCEPT ![d] = Cancelled(d)] BY <1>9 DEF IncognitoOff
  <2>3. QED BY <1>1, <2>1, <2>2, DomainsOf DEF Apart, Call
<1>10. QED BY <1>2, <1>3, <1>4, <1>5, <1>6, <1>7, <1>8, <1>9 DEF Person

\* How the call and the sync of a device change at most.
LEMMA CallApart ==
    ASSUME Inv, NEW d \in Devices,
           \/ \E q : requests' = [requests EXCEPT ![Call(d)] = q]
           \/ Abandon(d)
           \/ UNCHANGED requests
    PROVE  \A e \in Devices \ {d} : requests'[Call(e)] = requests[Call(e)]
<1> TAKE e \in Devices \ {d}
<1>1. Call(e) \in Slots /\ Call(e) # Call(d) /\ Call(e) # <<d, "stray">> /\ requests = [s \in Slots |-> requests[s]]
  BY CallOf DEF Call, Inv, Reads, RequestInv
<1>2. CASE \E q : requests' = [requests EXCEPT ![Call(d)] = q] BY <1>1, <1>2
<1>3. CASE Abandon(d) BY <1>1, <1>3 DEF Abandon
<1>4. CASE UNCHANGED requests BY <1>1, <1>4
<1>5. QED BY <1>2, <1>3, <1>4

LEMMA SyncApart ==
    ASSUME Inv, NEW d \in Devices, Sync(d) \/ Runs(d) \/ Lose(d)
    PROVE  Apart(d)
<1>1. UNCHANGED <<signed, held, session, overdue, local, conflict>>
  BY DEF Sync, Runs, Begin, Upload, AskList, AskProbe, End, Lose
<1>2. \/ \E q : requests' = [requests EXCEPT ![Call(d)] = q]
      \/ Abandon(d)
      \/ UNCHANGED requests
  BY DEF Sync, Runs, Begin, Upload, AskList, AskProbe, End, Lose, hosted, Ask
<1>3. \A e \in Devices \ {d} : task'[e] = task[e]
  <2>1. \E t : task' = [task EXCEPT ![d] = t]
    <3>1. CASE Sync(d) \/ Begin(d) \/ End(d) BY <3>1 DEF Sync, Begin, End
    <3>2. ASSUME NEW at, NEW step, Goes(d, at, step) PROVE \E t : task' = [task EXCEPT ![d] = t]
      BY <3>2 DEF Goes
    <3>3. ASSUME NEW n, NEW at, Passes(d, n, at) PROVE \E t : task' = [task EXCEPT ![d] = t]
      <4>1. task' = [task EXCEPT ![d] = [task[d] EXCEPT !.at = at, !.todo = task[d].todo \ {n}]]
        BY <3>3, DomainsOf DEF Passes
      <4>2. QED BY <4>1
    <3>4. CASE Upload(d) BY <3>3, <3>4 DEF Upload
    <3>5. CASE AskList(d) BY <3>2, <3>5 DEF AskList
    <3>6. CASE AskProbe(d) BY <3>3, <3>6 DEF AskProbe
    <3>7. CASE Lose(d)
      <4>1. CASE task[d].step \in {"conflict", "probe"} BY <3>2, <3>7, <4>1 DEF Lose
      <4>2. CASE task[d].step \notin {"conflict", "probe"} BY <3>7, <4>2 DEF Lose
      <4>3. QED BY <4>1, <4>2
    <3>8. QED BY <3>1, <3>4, <3>5, <3>6, <3>7 DEF Runs
  <2>2. QED BY <2>1, DomainsOf
<1>4. \A e \in Devices \ {d} : ledger'[e] = ledger[e]
  <2>1. ledger' = ledger \/ (\E f : ledger' = [ledger EXCEPT ![d] = f])
    <3>1. CASE Sync(d) BY <3>1 DEF Sync
    <3>2. CASE Upload(d)
      <4>1. ledger' = ledger \/ (\E n, x : ledger' = [ledger EXCEPT ![d][n].pending = x]) BY <3>2 DEF Upload
      <4>2. ASSUME NEW n, NEW x, ledger' = [ledger EXCEPT ![d][n].pending = x]
            PROVE  \E f : ledger' = [ledger EXCEPT ![d] = f]
        <5>1. ledger' = [ledger EXCEPT ![d] = [ledger[d] EXCEPT ![n].pending = x]] BY <4>2
        <5>2. QED BY <5>1
      <4>3. QED BY <4>1, <4>2
    <3>3. CASE Begin(d) \/ AskList(d) \/ AskProbe(d) \/ End(d) \/ Lose(d)
      BY <3>3 DEF Begin, AskList, AskProbe, End, Lose
    <3>4. QED BY <3>1, <3>2, <3>3 DEF Runs
  <2>2. QED BY <2>1, DomainsOf
<1>5. QED BY <1>1, <1>2, <1>3, <1>4, CallApart DEF Apart

\* A function that changes at one device only.
Only(d, f, g) == g = f \/ \E x : g = [f EXCEPT ![d] = x]

LEMMA OnlyOf ==
    ASSUME NEW d, NEW f, f = [e \in Devices |-> f[e]], NEW g, Only(d, f, g)
    PROVE  \A e \in Devices \ {d} : g[e] = f[e]
BY DEF Only

LEMMA OnlyEntry ==
    ASSUME NEW d, NEW n, NEW x, NEW f, NEW g, g = [f EXCEPT ![d][n] = x]
    PROVE  Only(d, f, g)
<1>1. g = [f EXCEPT ![d] = [f[d] EXCEPT ![n] = x]] OBVIOUS
<1>2. QED BY <1>1 DEF Only

LEMMA ApartBy ==
    ASSUME Inv, NEW d \in Devices, UNCHANGED <<signed, held, session>>, Only(d, task, task'), Only(d, local, local'),
           Only(d, ledger, ledger'), Only(d, conflict, conflict'), Only(d, overdue, overdue'),
           (\E q : requests' = [requests EXCEPT ![Call(d)] = q]) \/ UNCHANGED requests
    PROVE  Apart(d)
<1>1. \A e \in Devices \ {d} : requests'[Call(e)] = requests[Call(e)] BY CallApart
<1>2. \A e \in Devices \ {d} : task'[e] = task[e] /\ local'[e] = local[e]
  BY DomainsOf, OnlyOf
<1>3. \A e \in Devices \ {d} : ledger'[e] = ledger[e] BY DomainsOf, OnlyOf
<1>4. \A e \in Devices \ {d} : conflict'[e] = conflict[e] BY DomainsOf, OnlyOf
<1>5. \A e \in Devices \ {d} : overdue'[e] = overdue[e] BY DomainsOf, OnlyOf
<1>6. QED BY <1>1, <1>2, <1>3, <1>4, <1>5 DEF Apart

LEMMA BuryOnly ==
    ASSUME NEW d \in Devices, NEW n, Bury(d, n)
    PROVE  Only(d, local, local') /\ Only(d, ledger, ledger')
<1>1. ledger' = [ledger EXCEPT ![d][n] = Buried(ledger[d][n])] BY DEF Bury
<1>2. Only(d, ledger, ledger') BY <1>1, OnlyEntry
<1>3. CASE local' = local BY <1>2, <1>3 DEF Only
<1>4. CASE local' = [local EXCEPT ![d][n] = 0] BY <1>2, <1>4, OnlyEntry
<1>5. QED BY <1>3, <1>4 DEF Bury

LEMMA AnswersApart ==
    ASSUME Inv, NEW d \in Devices, Answers(d)
    PROVE  Apart(d)
<1> DEFINE q == requests[Call(d)]
<1>1. \E r : requests' = [requests EXCEPT ![Call(d)] = r]
  BY DEF Answers, DeleteAnswer, UploadAnswer, ConflictAnswer, ListAnswer, ProbeAnswer, Took, TookAndAsks
<1>2. UNCHANGED <<signed, held, session>> BY DEF Answers, DeleteAnswer, UploadAnswer, ConflictAnswer, ListAnswer, ProbeAnswer
<1>3. Only(d, task, task')
  <2>1. \/ task' = [task EXCEPT ![d] = Idle] \/ \E t : Resume(d, t) \/ \E at, step : Goes(d, at, step)
    BY DEF Answers, DeleteAnswer, UploadAnswer, ConflictAnswer, ListAnswer, ProbeAnswer
  <2>2. QED BY <2>1 DEF Only, Resume, Goes
<1>4. Only(d, conflict, conflict') /\ Only(d, overdue, overdue')
  BY DEF Answers, DeleteAnswer, UploadAnswer, ConflictAnswer, ListAnswer, ProbeAnswer, Review, Only
<1>5. Only(d, local, local') /\ Only(d, ledger, ledger')
  <2>1. CASE DeleteAnswer(d) BY <2>1, BuryOnly DEF DeleteAnswer, Only
  <2>2. CASE UploadAnswer(d)
    <3>1. \/ UNCHANGED <<local, ledger>> \/ Bury(d, q.note)
          \/ UNCHANGED local /\ ledger' = [ledger EXCEPT ![d][q.note] = Acknowledged(ledger[d][q.note], q.reply)]
          \/ UNCHANGED local /\ ledger' = [ledger EXCEPT ![d][q.note].pending = Nothing]
      BY <2>2 DEF UploadAnswer
    <3>2. CASE UNCHANGED local /\ ledger' = [ledger EXCEPT ![d][q.note].pending = Nothing]
      <4>1. ledger' = [ledger EXCEPT ![d] = [ledger[d] EXCEPT ![q.note].pending = Nothing]] BY <3>2
      <4>2. QED BY <3>2, <4>1 DEF Only
    <3>3. CASE UNCHANGED local /\ ledger' = [ledger EXCEPT ![d][q.note] = Acknowledged(ledger[d][q.note], q.reply)]
      BY <3>3, OnlyEntry DEF Only
    <3>4. QED BY <3>1, <3>2, <3>3, BuryOnly DEF Only
  <2>3. CASE ConflictAnswer(d) BY <2>3 DEF ConflictAnswer, Only
  <2>4. CASE ListAnswer(d) BY <2>4 DEF ListAnswer, Only
  <2>5. CASE ProbeAnswer(d) BY <2>5, BuryOnly DEF ProbeAnswer, Only
  <2>6. QED BY <2>1, <2>2, <2>3, <2>4, <2>5 DEF Answers
<1>6. QED BY <1>1, <1>2, <1>3, <1>4, <1>5, ApartBy

LEMMA DeviceApart ==
    ASSUME Inv, NEW d \in Devices, DeviceStep(d)
    PROVE  Apart(d)
<1>1. CASE Person(d) BY <1>1, PersonApart
<1>2. CASE Sync(d) \/ Runs(d) \/ Lose(d) BY <1>2, SyncApart
<1>3. CASE Answers(d) BY <1>3, AnswersApart
<1>4. CASE Removed(d)
  BY <1>4 DEF Removed, Revoke, device, Apart
<1>5. ASSUME NEW n \in Notes, DeletionEvent(d, n) PROVE Apart(d)
  BY <1>5, BuryOnly, ApartBy DEF DeletionEvent, hosted, Only
<1>6. QED BY <1>1, <1>2, <1>3, <1>4, <1>5 DEF DeviceStep

\* What keeps a note as it has to be.
Owned(d, n) ==
    /\ ledger'[d][n].imported = ledger[d][n].imported
    /\ ledger[d][n].tracked => ledger'[d][n].tracked
    /\ ledger[d][n].deleted => ledger'[d][n].deleted
    /\ ledger'[d][n].deleted => ledger[d][n].deleted \/ ledger'[d][n].tracked
    /\ Takes(ledger'[d][n]) => Takes(ledger[d][n]) \/ Imported(d, n)
    /\ local'[d][n] # 0 => local[d][n] # 0 \/ d = Maker[n]
    /\ overdue'[d][n] = "taken" <=> overdue[d][n] = "taken"
    /\ conflict'[d][n] # NoRow
          => Imported(d, n) \/ overdue'[d][n] # "no" \/ (conflict[d][n] # NoRow /\ overdue[d][n] = "no")

LEMMA OwnedKeeps ==
    ASSUME OwnInv, NEW d \in Devices, \A n \in Notes : Owned(d, n), HasLedger(d) => HasLedger(d)'
    PROVE  \A n \in Notes : OwnNote(d, n)' /\ (Imported(d, n) => Imported(d, n)')
<1> TAKE n \in Notes
<1>1. OwnNote(d, n) /\ Owned(d, n) BY DEF OwnInv
<1>2. QED BY <1>1 DEF OwnNote, Owned, Imported, Takes

\* Unless its row says otherwise, a note is as it was.
LEMMA OwnedSame ==
    ASSUME NEW d, NEW n, ledger'[d][n] = ledger[d][n], local'[d][n] \in {0, local[d][n]},
           \/ conflict'[d][n] = conflict[d][n] /\ overdue'[d][n] = overdue[d][n]
           \/ conflict'[d][n] = NoRow /\ (overdue'[d][n] = "taken" <=> overdue[d][n] = "taken")
    PROVE  Owned(d, n)
BY DEF Owned

LEMMA SameHeld == ASSUME NEW d, SameLogin(d), held'[d] = held[d] PROVE HasLedger(d) => HasLedger(d)'
BY DEF SameLogin, HasLedger

LEMMA TaskStays ==
    ASSUME OwnInv, NEW d \in Devices, task'[d] = task[d], requests'[Call(d)] = requests[Call(d)],
           SameLogin(d), \A n \in Notes : Imported(d, n) => Imported(d, n)',
           task[d] # Idle => task[d].todo \subseteq Notes
    PROVE  OwnTask(d)'
<1>1. OwnTask(d) BY DEF OwnInv
<1>2. Call(d)' = Call(d) BY DEF Call
<1>3. Over(d)' <=> Over(d) BY DEF Over, Login, SameLogin
<1>4. QED BY <1>1, <1>2, <1>3 DEF OwnTask, SameLogin

\* A sync is stopped: its login stays, or is over.
LEMMA TaskCancelled ==
    ASSUME Inv, OwnInv, NEW d \in Devices, task'[d] = Cancelled(d), UNCHANGED requests,
           \/ SameLogin(d) /\ \A n \in Notes : Imported(d, n) => Imported(d, n)'
           \/ ~ signed'[d] /\ session'[d] = session[d]
           \/ session'[d] = session[d] + 1
    PROVE  OwnTask(d)'
<1>1. task[d] \in Tasks /\ session[d] \in Nat BY Bounds DEF Inv, Reads, TypeInv
<1>2. CASE task[d].at = "idle" BY <1>2 DEF Cancelled, OwnTask
<1>3. CASE task[d].at # "idle"
  <2>1. task[d] # Idle BY <1>3 DEF Idle
  <2>2. task'[d] = [task[d] EXCEPT !.cancelled = TRUE] BY <1>3 DEF Cancelled
  <2>3. /\ task'[d].cancelled = TRUE /\ task'[d].who = task[d].who /\ task'[d].at = task[d].at
        /\ task'[d].step = task[d].step /\ task'[d].todo = task[d].todo /\ task[d].todo \subseteq Notes
        /\ task[d].who[2] \in Nat
    BY <1>1, <2>1, <2>2 DEF Tasks
  <2>4. OwnTask(d) /\ task[d].who[2] <= session[d] BY <2>1 DEF OwnInv, OwnTask
  <2>5. CASE SameLogin(d) /\ \A n \in Notes : Imported(d, n) => Imported(d, n)'
    <3>1. Over(d)' <=> Over(d) BY <2>3, <2>5 DEF Over, Login, SameLogin
    <3>2. Call(d)' = Call(d) BY DEF Call
    <3>3. QED BY <2>1, <2>3, <2>4, <2>5, <3>1, <3>2 DEF OwnTask, SameLogin
  <2>6. CASE ~ signed'[d] /\ session'[d] = session[d] BY <2>3, <2>4, <2>6 DEF OwnTask, Over
  <2>7. CASE session'[d] = session[d] + 1
    <3>1. task'[d].who[2] # session'[d] /\ task'[d].who[2] <= session'[d] BY <1>1, <2>3, <2>4, <2>7
    <3>2. Over(d)' BY <3>1 DEF Over, Login
    <3>3. QED BY <2>3, <3>1, <3>2 DEF OwnTask
  <2>8. QED BY <2>5, <2>6, <2>7
<1>4. QED BY <1>2, <1>3

OwnHere(d) == OwnTask(d) /\ \A n \in Notes : OwnNote(d, n)

\* A step that leaves the sync and the login of the device alone.
LEMMA QuietOwn ==
    ASSUME Inv, OwnInv, NEW d \in Devices, UNCHANGED <<requests, task, signed, held, session>>, \A n \in Notes : Owned(d, n)
    PROVE  OwnHere(d)'
<1>1. SameLogin(d) BY DEF SameLogin
<1>2. \A n \in Notes : OwnNote(d, n)' /\ (Imported(d, n) => Imported(d, n)') BY <1>1, OwnedKeeps, SameHeld
<1>3. task[d] # Idle => task[d].todo \subseteq Notes BY TaskOf DEF Inv, Reads, TypeInv
<1>4. OwnTask(d)' BY <1>1, <1>2, <1>3, TaskStays
<1>5. QED BY <1>2, <1>4 DEF OwnHere

LEMMA PersonOwn ==
    ASSUME Inv, OwnInv, NEW d \in Devices, NEW n \in Notes,
           Record(d, n) \/ Type(d, n) \/ SaveText(d, n) \/ Remove(d, n) \/ Share(d, n) \/ KeepLocal(d, n)
    PROVE  OwnHere(d)'
<1>1. UNCHANGED <<requests, task, signed, held, session>>
  BY DEF Record, Type, SaveText, Remove, Share, KeepLocal, hosted, UNTOUCHED
<1>2. /\ local \in [Devices -> [Notes -> Words]] /\ conflict \in [Devices -> [Notes -> RowSet]] /\ LedgerInv
      /\ overdue \in [Devices -> [Notes -> {"no", "shown", "taken"}]]
  BY DEF Inv, Reads, TypeInv
<1> SUFFICES ASSUME NEW m \in Notes PROVE Owned(d, m)
  BY <1>1, QuietOwn
<1>3. OwnNote(d, m) /\ IsEntry(ledger[d][m]) /\ IsEntry(ledger[d][n]) BY <1>2 DEF OwnInv, LedgerInv
<1>4. CASE Record(d, n)
  <2>1. UNCHANGED <<ledger, conflict, overdue>> /\ local' = [local EXCEPT ![d][n] = NextText] /\ Maker[n] = d
    BY <1>4 DEF Record, UNTOUCHED
  <2>2. m = n \/ local'[d][m] = local[d][m] BY <1>2, <2>1
  <2>3. QED BY <1>3, <2>1, <2>2 DEF Owned, OwnNote, Imported
<1>5. CASE Type(d, n) BY <1>5, OwnedSame DEF Type, UNTOUCHED
<1>6. CASE SaveText(d, n)
  <2>1. UNCHANGED <<ledger, conflict, overdue>> BY <1>6 DEF SaveText, UNTOUCHED
  <2>2. local' = local \/ (local' = [local EXCEPT ![d][n] = NextText] /\ local[d][n] # 0) BY <1>6 DEF SaveText
  <2>3. local'[d][m] # 0 => local[d][m] # 0
    <3>1. CASE local' = local BY <3>1
    <3>2. CASE local' = [local EXCEPT ![d][n] = NextText] /\ local[d][n] # 0
      <4>1. CASE m = n BY <3>2, <4>1
      <4>2. CASE m # n BY <1>2, <3>2, <4>2
      <4>3. QED BY <4>1, <4>2
    <3>3. QED BY <2>2, <3>1, <3>2
  <2>4. QED BY <1>3, <2>1, <2>3 DEF Owned, OwnNote, Imported
<1>7. CASE Remove(d, n)
  <2>1. UNCHANGED <<ledger, conflict, overdue>> /\ local' = [local EXCEPT ![d][n] = 0] BY <1>7 DEF Remove, UNTOUCHED
  <2>2. local'[d][m] \in {0, local[d][m]} BY <1>2, <2>1
  <2>3. QED BY <2>1, <2>2, OwnedSame
<1>8. CASE Share(d, n)
  <2>1. UNCHANGED <<local, conflict, overdue>> /\ ledger' = [ledger EXCEPT ![d][n] = Tracked(ledger[d][n])] /\ local[d][n] # 0
        /\ ~ ledger[d][n].tracked
    BY <1>8 DEF Share, UNTOUCHED
  <2>2. CASE m # n BY <1>2, <1>3, <2>1, <2>2, TrackedRow, LedgerStep, OwnedSame
  <2>3. CASE m = n
    <3>1. ledger'[d][n] = Tracked(ledger[d][n]) BY <1>2, <2>1 DEF LedgerInv
    <3>2. Imported(d, n) BY <1>3, <2>1, <2>3 DEF OwnNote, Imported
    <3>3. QED BY <1>3, <2>1, <2>3, <3>1, <3>2, TrackedRow DEF Owned, Takes
  <2>4. QED BY <2>2, <2>3
<1>9. CASE KeepLocal(d, n)
  <2> DEFINE note == conflict[d][n]
             x == Acknowledged(ledger[d][n], note)
  <2>1. UNCHANGED local /\ conflict' = [conflict EXCEPT ![d][n] = NoRow]
        /\ overdue' = [overdue EXCEPT ![d][n] = Settled(overdue[d][n])]
        /\ (ledger' = ledger \/ ledger' = [ledger EXCEPT ![d][n] = x])
    BY <1>9 DEF KeepLocal
  <2>2. \/ conflict'[d][m] = conflict[d][m] /\ overdue'[d][m] = overdue[d][m]
        \/ conflict'[d][m] = NoRow /\ (overdue'[d][m] = "taken" <=> overdue[d][m] = "taken")
    <3>1. CASE m = n BY <1>2, <2>1, <3>1 DEF Settled
    <3>2. CASE m # n BY <1>2, <2>1, <3>2
    <3>3. QED BY <3>1, <3>2
  <2>3. note \in RowSet BY <1>2
  <2>4. IsEntry(x) /\ x.tracked = ledger[d][n].tracked /\ x.imported = ledger[d][n].imported /\ x.deleted = ledger[d][n].deleted
    BY <1>3, <2>3, AcknowledgedRow
  <2> HIDE DEF x
  <2>5. CASE ledger' = ledger BY <2>1, <2>2, <2>5, OwnedSame
  <2>6. CASE ledger' = [ledger EXCEPT ![d][n] = x]
    <3>1. CASE m # n
      <4>1. ledger'[d][m] = ledger[d][m] BY <1>2, <2>4, <2>6, <3>1, LedgerStep
      <4>2. QED BY <2>1, <2>2, <4>1, OwnedSame
    <3>2. CASE m = n
      <4>1. ledger'[d][n] = x BY <1>2, <2>6 DEF LedgerInv
      <4>2. QED BY <2>1, <2>2, <2>4, <3>2, <4>1 DEF Owned, Takes
    <3>3. QED BY <3>1, <3>2
  <2>7. QED BY <2>1, <2>5, <2>6
<1>10. QED BY <1>4, <1>5, <1>6, <1>7, <1>8, <1>9

\* A note that is taken is marked as imported unless it was tracked or here before.
Taken(r, note, words) == Applied(r, note, words # 0)

LEMMA TakenRow ==
    ASSUME NEW r, IsEntry(r), NEW note \in RowSet, NEW words
    PROVE  LET t == Taken(r, note, words) IN
              /\ IsEntry(t) /\ t.tracked /\ t.deleted = r.deleted
              /\ (r.tracked => t.imported = r.imported) /\ (~ r.tracked /\ words = 0 => t.imported)
<1> DEFINE had == words # 0
<1>1. had \in BOOLEAN OBVIOUS
<1> HIDE DEF had
<1> DEFINE t == Applied(r, note, had)
<1>2. IsEntry(t) /\ t.tracked /\ t.deleted = r.deleted /\ t.imported = (IF r.tracked THEN r.imported ELSE ~ had)
  BY <1>1, AppliedRow
<1> HIDE DEF t
<1>3. IsEntry(t) /\ t.tracked /\ t.deleted = r.deleted /\ (r.tracked => t.imported = r.imported)
      /\ (~ r.tracked /\ ~ had => t.imported)
  BY <1>2
<1>4. ~ had <=> words = 0 BY DEF had
<1>5. t = Taken(r, note, words) BY DEF t, had, Taken
<1>6. QED BY <1>3, <1>4, <1>5

\* A version that was put up for review belongs to a note that is tracked, and what came stays what came; or
\* it is a late one.  That one brings back what a sign-out cleared, marked as imported, unless it was deleted.
LEMMA UseRemoteOwn ==
    ASSUME Inv, OwnInv, NEW d \in Devices, NEW n \in Notes, UseRemote(d, n)
    PROVE  OwnHere(d)'
<1> DEFINE note == conflict[d][n]
           r == ledger[d][n]
           x == Taken(r, note, local[d][n])
<1>1. /\ UNCHANGED <<requests, task, signed, held, session>> /\ HasLedger(d) /\ note # NoRow
      /\ conflict' = [conflict EXCEPT ![d][n] = NoRow] /\ local' = [local EXCEPT ![d][n] = note.text]
      /\ ledger' = [ledger EXCEPT ![d][n] = x]
      /\ overdue' = [overdue EXCEPT ![d][n] = IF overdue[d][n] = "shown" /\ r.deleted /\ ~ r.imported THEN "taken"
                                             ELSE Settled(overdue[d][n])]
  BY DEF UseRemote, hosted, Taken
<1>2. /\ local \in [Devices -> [Notes -> Words]] /\ conflict \in [Devices -> [Notes -> RowSet]] /\ LedgerInv
      /\ overdue \in [Devices -> [Notes -> {"no", "shown", "taken"}]]
  BY DEF Inv, Reads, TypeInv
<1>3. note \in RowSet /\ IsEntry(r) /\ OwnNote(d, n) BY <1>2 DEF LedgerInv, OwnInv
<1>4. /\ IsEntry(x) /\ x.tracked /\ x.deleted = r.deleted /\ (r.tracked => x.imported = r.imported)
      /\ (~ r.tracked /\ local[d][n] = 0 => x.imported)
  BY <1>3, TakenRow
<1> HIDE DEF x
<1>5. ledger'[d][n] = x BY <1>2, <1>1 DEF LedgerInv
<1>6. /\ conflict'[d][n] = NoRow /\ overdue[d][n] \in {"no", "shown", "taken"}
      /\ overdue'[d][n] = (IF overdue[d][n] = "shown" /\ r.deleted /\ ~ r.imported THEN "taken" ELSE Settled(overdue[d][n]))
  BY <1>1, <1>2
<1>7. SameLogin(d) /\ HasLedger(d)' BY <1>1 DEF SameLogin, HasLedger
<1>8. OwnNote(d, n)' /\ (Imported(d, n) => Imported(d, n)')
  <2>1. overdue'[d][n] = "taken" => overdue[d][n] = "taken" \/ (r.deleted /\ ~ r.imported) BY <1>6 DEF Settled
  <2>2. overdue'[d][n] = "taken" => r.deleted /\ ~ r.imported /\ r.tracked BY <1>3, <2>1 DEF OwnNote
  <2>3. overdue'[d][n] = "taken" => x.deleted /\ ~ x.imported BY <1>4, <2>2
  <2>4. d # Maker[n] => x.imported \/ overdue'[d][n] = "taken"
    <3> SUFFICES ASSUME d # Maker[n] PROVE x.imported \/ overdue'[d][n] = "taken" OBVIOUS
    <3>1. r.imported \/ overdue[d][n] # "no" BY <1>1, <1>3 DEF OwnNote
    <3>2. CASE r.imported BY <1>3, <1>4, <3>2 DEF OwnNote
    <3>3. CASE ~ r.imported /\ r.tracked
      <4>1. r.deleted BY <1>3, <3>3 DEF OwnNote, Takes
      <4>2. QED BY <1>6, <3>1, <3>3, <4>1 DEF Settled
    <3>4. CASE ~ r.tracked
      <4>1. ~ r.imported /\ ~ r.deleted BY <1>3, <3>4 DEF OwnNote
      <4>2. local[d][n] = 0 BY <1>3, <4>1 DEF OwnNote
      <4>3. QED BY <1>4, <3>4, <4>2
    <3>5. QED BY <3>2, <3>3, <3>4
  <2>5. d # Maker[n] /\ Takes(x) => x.imported BY <2>2, <2>4, <1>4 DEF Takes
  <2>6. Imported(d, n) => Imported(d, n)' BY <1>3, <1>4, <1>5 DEF Imported, OwnNote
  <2>7. OwnNote(d, n)' BY <1>4, <1>5, <1>6, <1>7, <2>3, <2>4, <2>5 DEF OwnNote
  <2>8. QED BY <2>6, <2>7
<1>9. ASSUME NEW m \in Notes PROVE OwnNote(d, m)' /\ (Imported(d, m) => Imported(d, m)')
  <2>1. CASE m = n BY <1>8, <2>1
  <2>2. CASE m # n
    <3>1. ledger'[d][m] = ledger[d][m] BY <1>1, <1>2, <1>4, <2>2, LedgerStep
    <3>2. local'[d][m] = local[d][m] /\ conflict'[d][m] = conflict[d][m] /\ overdue'[d][m] = overdue[d][m]
      BY <1>1, <1>2, <2>2
    <3>3. OwnNote(d, m) BY DEF OwnInv
    <3>4. QED BY <1>7, <3>1, <3>2, <3>3 DEF OwnNote, Imported
  <2>3. QED BY <2>1, <2>2
<1>10. task[d] # Idle => task[d].todo \subseteq Notes BY TaskOf DEF Inv, Reads, TypeInv
<1>11. OwnTask(d)' BY <1>1, <1>7, <1>9, <1>10, TaskStays
<1>12. QED BY <1>9, <1>11 DEF OwnHere

\* A sign-out that fails keeps the ledger for what it has not cleared.
LEMMA SignOutOwn ==
    ASSUME Inv, OwnInv, NEW d \in Devices, SignOut(d) \/ SignOutFails(d)
    PROVE  OwnHere(d)'
<1>1. /\ task' = [task EXCEPT ![d] = Cancelled(d)] /\ signed' = [signed EXCEPT ![d] = FALSE] /\ UNCHANGED <<requests, session>>
      /\ conflict' = [conflict EXCEPT ![d] = [n \in Notes |-> NoRow]]
      /\ overdue' = [overdue EXCEPT ![d] = [n \in Notes |-> Settled(overdue[d][n])]]
  BY DEF SignOut, SignOutFails, Disconnects, hosted
<1>2. task'[d] = Cancelled(d) /\ ~ signed'[d] /\ session'[d] = session[d] BY <1>1, DomainsOf
<1>3. OwnTask(d)' BY <1>1, <1>2, TaskCancelled
<1>4. ASSUME NEW n \in Notes PROVE OwnNote(d, n)'
  <2> DEFINE r == ledger[d][n]
  <2>1. conflict'[d][n] = NoRow /\ (overdue'[d][n] = "taken" <=> overdue[d][n] = "taken") BY <1>1, DomainsOf DEF Settled
  <2>2. IsEntry(r) /\ OwnNote(d, n) BY DEF Inv, Reads, LedgerInv, OwnInv
  <2>3. \A gone : Leaves(d, gone) => local'[d][n] = IF n \in gone THEN 0 ELSE local[d][n] BY DomainsOf DEF Leaves
  <2>4. ASSUME r.imported, ledger'[d][n] = Untracked, local'[d][n] = 0 PROVE OwnNote(d, n)'
    <3>1. ~ Untracked.imported /\ ~ Untracked.tracked /\ ~ Untracked.deleted BY DEF Untracked
    <3>2. overdue'[d][n] # "taken" BY <2>1, <2>2, <2>4 DEF OwnNote
    <3>3. QED BY <2>1, <2>4, <3>1, <3>2 DEF OwnNote, Takes
  <2>5. ASSUME ~ r.imported, local'[d][n] \in {0, local[d][n]}, ledger'[d][n].imported = r.imported,
               ledger'[d][n].tracked = r.tracked, ledger'[d][n].deleted = r.deleted
        PROVE  OwnNote(d, n)'
    BY <2>1, <2>2, <2>5 DEF OwnNote, Takes
  <2>6. ASSUME ledger'[d][n] = r, local'[d][n] \in {0, local[d][n]}, HasLedger(d)' PROVE OwnNote(d, n)'
    BY <2>1, <2>2, <2>6 DEF OwnNote
  <2>7. CASE SignOut(d)
    <3>1. Leaves(d, Received(d)) /\ ledger' = [ledger EXCEPT ![d] = [m \in Notes |-> Cleared(ledger[d][m])]]
      BY <2>7 DEF SignOut
    <3>2. ledger'[d][n] = Cleared(r) /\ local'[d][n] = IF r.imported THEN 0 ELSE local[d][n]
      BY <2>3, <3>1, DomainsOf DEF Received
    <3>3. QED BY <2>2, <2>4, <2>5, <3>2, ClearedRow
  <2>8. CASE SignOutFails(d)
    <3>1. /\ held' = [held EXCEPT ![d] = "locked"]
          /\ \/ UNCHANGED ledger /\ \E gone : Leaves(d, gone)
             \/ /\ Leaves(d, Received(d))
                /\ ledger' = [ledger EXCEPT ![d] = [m \in Notes |-> IF m \in Received(d) THEN Untracked ELSE ledger[d][m]]]
      BY <2>8 DEF SignOutFails
    <3>2. HasLedger(d)' BY <3>1, DomainsOf DEF HasLedger
    <3>3. CASE UNCHANGED ledger /\ \E gone : Leaves(d, gone) BY <2>3, <2>6, <3>2, <3>3
    <3>4. CASE /\ Leaves(d, Received(d))
               /\ ledger' = [ledger EXCEPT ![d] = [m \in Notes |-> IF m \in Received(d) THEN Untracked ELSE ledger[d][m]]]
      <4>1. /\ ledger'[d][n] = IF r.imported THEN Untracked ELSE r
            /\ local'[d][n] = IF r.imported THEN 0 ELSE local[d][n]
        BY <2>3, <3>4, DomainsOf DEF Received
      <4>2. QED BY <2>2, <2>4, <2>5, <4>1
    <3>5. QED BY <3>1, <3>3, <3>4
  <2>9. QED BY <2>7, <2>8
<1>5. QED BY <1>3, <1>4 DEF OwnHere

LEMMA SwitchOwn ==
    ASSUME Inv, OwnInv, NEW d \in Devices, SignIn(d) \/ IncognitoOn(d) \/ IncognitoOff(d)
    PROVE  OwnHere(d)'
<1>1. UNCHANGED <<local, ledger, conflict, overdue, requests>> BY DEF SignIn, IncognitoOn, IncognitoOff, hosted
<1>2. HasLedger(d) => HasLedger(d)'
  <2>1. CASE SignIn(d)
    <3>1. signed'[d] BY <2>1, DomainsOf DEF SignIn
    <3>2. QED BY <3>1 DEF HasLedger
  <2>2. CASE IncognitoOn(d) BY <2>2 DEF IncognitoOn, HasLedger
  <2>3. CASE IncognitoOff(d)
    <3>1. signed' = signed /\ held'[d] = IF held[d] = "locked" THEN "open" ELSE held[d] BY <2>3, DomainsOf DEF IncognitoOff
    <3>2. QED BY <3>1 DEF HasLedger
  <2>4. QED BY <2>1, <2>2, <2>3
<1>3. \A n \in Notes : Owned(d, n) BY <1>1, OwnedSame
<1>4. \A n \in Notes : OwnNote(d, n)' /\ (Imported(d, n) => Imported(d, n)') BY <1>2, <1>3, OwnedKeeps
<1>5. OwnTask(d)'
  <2>1. CASE SignIn(d)
    <3>1. task'[d] = Cancelled(d) /\ session'[d] = session[d] + 1 BY <2>1, DomainsOf DEF SignIn
    <3>2. QED BY <1>1, <3>1, TaskCancelled
  <2>2. CASE ~ SignIn(d)
    <3>1. UNCHANGED <<signed, session>> BY <2>2 DEF IncognitoOn, IncognitoOff
    <3>2. task'[d] = task[d] \/ task'[d] = Cancelled(d) BY <2>2, DomainsOf DEF IncognitoOn, IncognitoOff
    <3>3. task[d] # Idle => task[d].todo \subseteq Notes BY TaskOf DEF Inv, Reads, TypeInv
    <3>4. SameLogin(d) /\ UNCHANGED requests BY <1>1, <3>1 DEF SameLogin
    <3>5. CASE task'[d] = task[d] BY <1>4, <3>3, <3>4, <3>5, TaskStays
    <3>6. CASE task'[d] = Cancelled(d) BY <1>4, <3>4, <3>6, TaskCancelled
    <3>7. QED BY <3>2, <3>5, <3>6
  <2>3. QED BY <2>1, <2>2
<1>6. QED BY <1>4, <1>5 DEF OwnHere

LEMMA SyncOwn ==
    ASSUME Inv, OwnInv, NEW d \in Devices, Sync(d)
    PROVE  OwnHere(d)'
<1> DEFINE fresh == Here(d) \ known[d]
           t == [at |-> "spawned", cancelled |-> FALSE, who |-> Login(d), step |-> "upload", todo |-> {}]
<1>1. /\ signed[d] /\ UNCHANGED <<local, conflict, overdue, signed, held, session, requests>> /\ task' = [task EXCEPT ![d] = t]
      /\ ledger' = [ledger EXCEPT ![d] = [n \in Notes |-> IF n \in fresh THEN Tracked(ledger[d][n]) ELSE ledger[d][n]]]
  BY DEF Sync, hosted
<1>2. task'[d] = t BY <1>1, DomainsOf
<1>3. OwnTask(d)'
  <2>1. session[d] \in Nat BY Bounds DEF Inv, Reads, TypeInv
  <2>2. QED BY <1>1, <1>2, <2>1 DEF OwnTask, Over, Login
<1>4. ASSUME NEW n \in Notes PROVE Owned(d, n)
  <2>1. ledger'[d][n] = IF n \in fresh THEN Tracked(ledger[d][n]) ELSE ledger[d][n] BY <1>1, DomainsOf
  <2>2. IsEntry(ledger[d][n]) /\ OwnNote(d, n) BY DEF Inv, Reads, LedgerInv, OwnInv
  <2>3. CASE n \in fresh
    <3>1. Imported(d, n) \/ ledger[d][n].deleted BY <2>2, <2>3 DEF OwnNote, Imported, Here
    <3>2. QED BY <1>1, <2>1, <2>2, <2>3, <3>1, TrackedRow DEF Owned, Takes
  <2>4. CASE n \notin fresh BY <1>1, <2>1, <2>4, OwnedSame
  <2>5. QED BY <2>3, <2>4
<1>5. HasLedger(d) => HasLedger(d)' BY <1>1 DEF HasLedger
<1>6. \A n \in Notes : OwnNote(d, n)' BY <1>4, <1>5, OwnedKeeps
<1>7. QED BY <1>3, <1>6 DEF OwnHere

\* A sync that goes on is as stopped as it was.
LEMMA GoesOn ==
    ASSUME Inv, NEW d \in Devices, task[d] # Idle, NEW at, NEW step, NEW n,
           Goes(d, at, step) \/ Passes(d, n, at)
    PROVE  task'[d].cancelled = task[d].cancelled /\ task'[d].who = task[d].who
<1>1. task[d] \in Tasks \ {Idle} BY DEF Inv, Reads, TypeInv
<1>2. CASE Goes(d, at, step)
  <2>1. task'[d] = [task[d] EXCEPT !.at = at, !.step = step] BY <1>2, DomainsOf DEF Goes
  <2>2. QED BY <1>1, <2>1 DEF Tasks
<1>3. CASE Passes(d, n, at)
  <2>1. task' = [task EXCEPT ![d] = [task[d] EXCEPT !.at = at, !.todo = task[d].todo \ {n}]] BY <1>3, DomainsOf DEF Passes
  <2>2. task'[d] = [task[d] EXCEPT !.at = at, !.todo = task[d].todo \ {n}] BY <2>1, DomainsOf
  <2>3. QED BY <1>1, <2>2 DEF Tasks
<1>4. QED BY <1>2, <1>3

LEMMA BeginOwn ==
    ASSUME Inv, OwnInv, NEW d \in Devices, Begin(d)
    PROVE  OwnHere(d)'
<1>1. /\ task[d].at = "spawned" /\ ~ task[d].cancelled
      /\ UNCHANGED <<local, ledger, conflict, overdue, signed, held, session, requests>>
      /\ task' = [task EXCEPT ![d] = [task[d] EXCEPT !.at = "next", !.todo = Ids(d)]]
  BY DEF Begin, hosted
<1>2. task[d] \in Tasks \ {Idle} BY <1>1 DEF Inv, Reads, TypeInv, Idle
<1>3. /\ task'[d].at = "next" /\ task'[d].todo = Ids(d) /\ task'[d].who = task[d].who
      /\ task'[d].cancelled = task[d].cancelled
  BY <1>1, <1>2, DomainsOf DEF Tasks
<1>4. \A n \in Notes : Owned(d, n) BY <1>1, OwnedSame
<1>5. HasLedger(d) => HasLedger(d)' BY <1>1 DEF HasLedger
<1>6. \A n \in Notes : OwnNote(d, n)' /\ (Imported(d, n) => Imported(d, n)') BY <1>4, <1>5, OwnedKeeps
<1>7. OwnTask(d) BY DEF OwnInv
<1>8. \A n \in Ids(d) : Imported(d, n)'
  BY <1>6 DEF Ids, OwnInv, OwnNote, Imported
<1>9. Over(d)' <=> Over(d) BY <1>1, <1>3 DEF Over, Login
<1>10. OwnTask(d)' BY <1>1, <1>2, <1>3, <1>7, <1>8, <1>9 DEF OwnTask
<1>11. QED BY <1>6, <1>10 DEF OwnHere

LEMMA UploadOwn ==
    ASSUME Inv, OwnInv, NEW d \in Devices, Upload(d)
    PROVE  OwnHere(d)'
<1>1. /\ task[d].at = "next" /\ task[d].step = "upload" /\ UNCHANGED <<local, conflict, overdue, signed, held, session>>
      /\ \E n \in task[d].todo :
            \/ Passes(d, n, "next") /\ UNCHANGED <<requests, ledger>>
            \/ /\ Passes(d, n, "wait")
               /\ \E e : ledger' = ledger \/ ledger' = [ledger EXCEPT ![d][n].pending = e]
               /\ \E kind, text, base, op : Ask(d, Request(kind, n, task[d].who, text, base, op))
  BY DEF Upload, hosted
<1>2. task[d] # Idle /\ task[d] \in Tasks BY <1>1 DEF Inv, Reads, TypeInv, Idle
<1>3. PICK n \in task[d].todo :
            \/ Passes(d, n, "next") /\ UNCHANGED <<requests, ledger>>
            \/ /\ Passes(d, n, "wait")
               /\ \E e : ledger' = ledger \/ ledger' = [ledger EXCEPT ![d][n].pending = e]
               /\ \E kind, text, base, op : Ask(d, Request(kind, n, task[d].who, text, base, op))
  BY <1>1
<1>4. n \in Notes BY <1>2, TaskOf
<1>5. PICK at \in {"next", "wait"} : Passes(d, n, at) BY <1>3
<1>6. /\ task'[d].cancelled = task[d].cancelled /\ task'[d].todo \subseteq task[d].todo /\ task'[d].step = "upload"
      /\ task'[d].at = at /\ task'[d].who = task[d].who
  BY <1>1, <1>2, <1>5, GoesOn, PassesKeeps DEF Inv, Reads
<1>7. ASSUME NEW m \in Notes PROVE Owned(d, m)
  <2>1. /\ ledger'[d][m].tracked = ledger[d][m].tracked /\ ledger'[d][m].imported = ledger[d][m].imported
        /\ ledger'[d][m].deleted = ledger[d][m].deleted
    <3>1. CASE ledger' = ledger BY <3>1
    <3>2. ASSUME NEW e, ledger' = [ledger EXCEPT ![d][n].pending = e]
          PROVE  /\ ledger'[d][m].tracked = ledger[d][m].tracked /\ ledger'[d][m].imported = ledger[d][m].imported
                 /\ ledger'[d][m].deleted = ledger[d][m].deleted
      <4>1. ledger'[d][m] = IF m = n THEN [ledger[d][n] EXCEPT !.pending = e] ELSE ledger[d][m]
        BY <3>2 DEF Inv, Reads, LedgerInv
      <4>2. IsEntry(ledger[d][n]) BY <1>4 DEF Inv, Reads, LedgerInv
      <4>3. QED BY <4>1, <4>2 DEF IsEntry
    <3>3. QED BY <1>3, <3>1, <3>2
  <2>2. QED BY <1>1, <2>1 DEF Owned, Takes
<1>8. \A m \in Notes : OwnNote(d, m)' /\ (Imported(d, m) => Imported(d, m)')
  <2>1. HasLedger(d) => HasLedger(d)' BY <1>1 DEF HasLedger
  <2>2. QED BY <1>7, <2>1, OwnedKeeps
<1>9. OwnTask(d) /\ (Over(d)' <=> Over(d)) BY <1>1, <1>6 DEF OwnInv, Over, Login
<1>10. at = "wait" => requests'[Call(d)].note = n
  <2>1. CASE Passes(d, n, "next")
    <3>1. task'[d].at = "next" BY <1>2, <2>1, PassesKeeps DEF Inv, Reads
    <3>2. QED BY <1>6, <3>1
  <2>2. ASSUME NEW kind, NEW text, NEW base, NEW op, Ask(d, Request(kind, n, task[d].who, text, base, op))
        PROVE  requests'[Call(d)].note = n
    <3>1. requests'[Call(d)] = Request(kind, n, task[d].who, text, base, op)
      BY <2>2, CallOf DEF Ask, Inv, Reads, RequestInv
    <3>2. QED BY <3>1 DEF Request
  <2>3. QED BY <1>3, <2>1, <2>2
<1>11. OwnTask(d)'
  <2>1. CASE Over(d) BY <1>1, <1>2, <1>6, <1>9, <2>1 DEF OwnTask
  <2>2. CASE ~ Over(d)
    <3>1. \A m \in task[d].todo : Imported(d, m) BY <1>1, <1>2, <1>9, <2>2 DEF OwnTask
    <3>2. \A m \in task[d].todo : m \in Notes /\ Imported(d, m)' BY <1>2, <1>8, <3>1, TaskOf
    <3>3. QED BY <1>1, <1>2, <1>3, <1>4, <1>6, <1>9, <1>10, <2>2, <3>2 DEF OwnTask, Call
  <2>3. QED BY <2>1, <2>2
<1>12. QED BY <1>8, <1>11 DEF OwnHere

\* A sync ends, or goes on with the notes it had.
TaskMoves(d) ==
    \/ task'[d] = Idle
    \/ /\ task[d] # Idle /\ task'[d].cancelled = task[d].cancelled /\ task'[d].who = task[d].who
       /\ \/ task'[d].step \in {"list", "probe"}
          \/ task'[d].at = "next" /\ task'[d].todo = task[d].todo /\ task[d].step \in {"upload", "conflict"}

LEMMA MovesOwn ==
    ASSUME Inv, OwnInv, NEW d \in Devices, UNCHANGED <<signed, held, session>>, TaskMoves(d),
           \A n \in Notes : OwnNote(d, n)' /\ (Imported(d, n) => Imported(d, n)')
    PROVE  OwnHere(d)'
<1>1. CASE task'[d] = Idle BY <1>1 DEF OwnHere, OwnTask
<1>2. OwnTask(d) BY DEF OwnInv
<1>3. ASSUME task'[d].who = task[d].who PROVE Over(d)' <=> Over(d) BY <1>3 DEF Over, Login
<1>4. CASE /\ task[d] # Idle /\ task'[d].cancelled = task[d].cancelled /\ task'[d].who = task[d].who
           /\ task'[d].step \in {"list", "probe"}
  BY <1>2, <1>3, <1>4 DEF OwnHere, OwnTask
<1>5. CASE /\ task[d] # Idle /\ task'[d].cancelled = task[d].cancelled /\ task'[d].who = task[d].who
           /\ task'[d].at = "next" /\ task'[d].todo = task[d].todo /\ task[d].step \in {"upload", "conflict"}
  <2>1. task[d].todo \subseteq Notes BY <1>5, TaskOf DEF Inv, Reads, TypeInv
  <2>2. \A n \in task[d].todo : Imported(d, n) => Imported(d, n)' BY <2>1
  <2>3. OwnTask(d)' BY <1>2, <1>3, <1>5, <2>2 DEF OwnTask
  <2>4. QED BY <2>3 DEF OwnHere
<1>6. QED BY <1>1, <1>4, <1>5 DEF TaskMoves

\* What a step keeps of the notes, where the login stays.
LEMMA NotesOwn ==
    ASSUME OwnInv, NEW d \in Devices, UNCHANGED <<signed, held, session>>, \A n \in Notes : Owned(d, n)
    PROVE  \A n \in Notes : OwnNote(d, n)' /\ (Imported(d, n) => Imported(d, n)')
<1>1. HasLedger(d) => HasLedger(d)' BY DEF HasLedger
<1>2. QED BY <1>1, OwnedKeeps

\* Nothing on the device changes but where its sync is.
LEMMA SyncOnlyOwn ==
    ASSUME Inv, OwnInv, NEW d \in Devices, UNCHANGED <<local, ledger, conflict, overdue, signed, held, session>>, TaskMoves(d)
    PROVE  OwnHere(d)'
<1>1. \A n \in Notes : Owned(d, n) BY OwnedSame
<1>2. \A n \in Notes : OwnNote(d, n)' /\ (Imported(d, n) => Imported(d, n)') BY <1>1, NotesOwn
<1>3. QED BY <1>2, MovesOwn

LEMMA RunsOwn ==
    ASSUME Inv, OwnInv, NEW d \in Devices, Runs(d) \/ Lose(d)
    PROVE  OwnHere(d)'
<1>1. CASE Begin(d) BY <1>1, BeginOwn
<1>2. CASE Upload(d) BY <1>2, UploadOwn
<1>3. task[d].at # "idle" => task[d] # Idle BY DEF Idle
<1>4. CASE AskList(d)
  <2>1. task[d] # Idle /\ Goes(d, "wait", "list") /\ UNCHANGED <<local, ledger, conflict, overdue, signed, held, session>>
    BY <1>3, <1>4 DEF AskList
  <2>2. task'[d].step = "list" BY <2>1, GoesKeeps DEF Inv, Reads
  <2>3. task'[d].cancelled = task[d].cancelled /\ task'[d].who = task[d].who BY <2>1, GoesOn
  <2>4. QED BY <2>1, <2>2, <2>3, SyncOnlyOwn DEF TaskMoves
<1>5. CASE AskProbe(d)
  <2>1. task[d] # Idle /\ task[d].step = "probe" /\ UNCHANGED <<local, ledger, conflict, overdue, signed, held, session>>
    BY <1>3, <1>5 DEF AskProbe
  <2>2. PICK at \in {"next", "wait"}, n \in task[d].todo : Passes(d, n, at) BY <1>5 DEF AskProbe
  <2>3. task'[d].step = "probe" BY <2>1, <2>2, PassesKeeps DEF Inv, Reads
  <2>4. task'[d].cancelled = task[d].cancelled /\ task'[d].who = task[d].who BY <2>1, <2>2, GoesOn
  <2>5. QED BY <2>1, <2>3, <2>4, SyncOnlyOwn DEF TaskMoves
<1>6. CASE End(d)
  <2>1. UNCHANGED <<local, ledger, conflict, overdue, signed, held, session>> /\ task'[d] = Idle BY <1>6, DomainsOf DEF End
  <2>2. QED BY <2>1, SyncOnlyOwn DEF TaskMoves
<1>7. CASE Lose(d)
  <2>1. task[d] # Idle /\ UNCHANGED <<local, ledger, conflict, overdue, signed, held, session>> BY <1>3, <1>7 DEF Lose
  <2>2. CASE task[d].step \notin {"conflict", "probe"}
    <3>1. task'[d] = Idle BY <1>7, <2>2, DomainsOf DEF Lose
    <3>2. QED BY <2>1, <3>1, SyncOnlyOwn DEF TaskMoves
  <2>3. CASE task[d].step = "probe"
    <3>1. Goes(d, "next", "probe") BY <1>7, <2>3 DEF Lose
    <3>2. task'[d].step = "probe" BY <2>1, <3>1, GoesKeeps DEF Inv, Reads
    <3>3. task'[d].cancelled = task[d].cancelled /\ task'[d].who = task[d].who BY <2>1, <3>1, GoesOn
    <3>4. QED BY <2>1, <3>2, <3>3, SyncOnlyOwn DEF TaskMoves
  <2>4. CASE task[d].step = "conflict"
    <3>1. Goes(d, "next", "upload") BY <1>7, <2>4 DEF Lose
    <3>2. task'[d].at = "next" /\ task'[d].todo = task[d].todo BY <2>1, <3>1, GoesKeeps DEF Inv, Reads
    <3>3. task'[d].cancelled = task[d].cancelled /\ task'[d].who = task[d].who BY <2>1, <3>1, GoesOn
    <3>4. QED BY <2>1, <2>4, <3>2, <3>3, SyncOnlyOwn DEF TaskMoves
  <2>5. QED BY <2>2, <2>3, <2>4
<1>8. QED BY <1>1, <1>2, <1>4, <1>5, <1>6, <1>7 DEF Runs

LEMMA BuryOwned ==
    ASSUME Inv, NEW d \in Devices, NEW n \in Notes, Bury(d, n), NEW m \in Notes, UNCHANGED <<conflict, overdue>>
    PROVE  Owned(d, m)
<1>1. local \in [Devices -> [Notes -> Words]] /\ LedgerInv /\ IsEntry(ledger[d][n]) BY DEF Inv, Reads, TypeInv, LedgerInv
<1>2. ledger' = [ledger EXCEPT ![d][n] = Buried(ledger[d][n])] /\ (local' = local \/ local' = [local EXCEPT ![d][n] = 0])
  BY DEF Bury
<1>3. local'[d][m] \in {0, local[d][m]} BY <1>1, <1>2
<1>4. ledger'[d][m] = IF m = n THEN Buried(ledger[d][n]) ELSE ledger[d][m] BY <1>1, <1>2 DEF LedgerInv
<1>5. CASE m # n BY <1>3, <1>4, <1>5, OwnedSame
<1>6. CASE m = n
  <2>1. ledger'[d][m].tracked /\ ledger'[d][m].deleted /\ ledger'[d][m].imported = ledger[d][m].imported
    BY <1>1, <1>4, <1>6, BuriedRow
  <2>2. QED BY <1>3, <2>1 DEF Owned, Takes
<1>7. QED BY <1>5, <1>6

\* Where a task that was resumed goes on.
LEMMA ResumeMoves ==
    ASSUME Inv, NEW d \in Devices, task[d] # Idle, NEW step \in {"upload", "probe"},
           step = "upload" => task[d].step \in {"upload", "conflict"},
           NEW todo, step = "upload" => todo = task[d].todo,
           Resume(d, [task[d] EXCEPT !.at = "next", !.step = step, !.todo = todo])
    PROVE  TaskMoves(d)
<1>1. task[d] \in Tasks \ {Idle} BY DEF Inv, Reads, TypeInv
<1>2. CASE Stops(d)
  <2>1. task'[d] = Idle BY <1>2, DomainsOf DEF Resume
  <2>2. QED BY <2>1 DEF TaskMoves
<1>3. CASE ~ Stops(d)
  <2>1. task'[d] = [task[d] EXCEPT !.at = "next", !.step = step, !.todo = todo] BY <1>3, DomainsOf DEF Resume
  <2>2. /\ task'[d].at = "next" /\ task'[d].step = step /\ task'[d].todo = todo
        /\ task'[d].cancelled = task[d].cancelled /\ task'[d].who = task[d].who
    BY <1>1, <2>1 DEF Tasks
  <2>3. QED BY <2>2 DEF TaskMoves
<1>4. QED BY <1>2, <1>3

LEMMA GoesMoves ==
    ASSUME Inv, NEW d \in Devices, task[d] # Idle, NEW step \in {"upload", "probe"},
           step = "upload" => task[d].step \in {"upload", "conflict"}, Goes(d, "next", step)
    PROVE  TaskMoves(d)
<1>1. task'[d].at = "next" /\ task'[d].todo = task[d].todo /\ task'[d].step = step
  BY GoesKeeps DEF Inv, Reads
<1>2. task'[d].cancelled = task[d].cancelled /\ task'[d].who = task[d].who BY GoesOn
<1>3. QED BY <1>1, <1>2 DEF TaskMoves

LEMMA DeleteAnswerOwn ==
    ASSUME Inv, OwnInv, NEW d \in Devices, DeleteAnswer(d)
    PROVE  OwnHere(d)'
<1> DEFINE q == requests[Call(d)]
<1>1. "list" \notin {"delete"} /\ Answered(d, "upload", {"delete"}) BY DEF DeleteAnswer
<1>2. q.note \in Notes /\ task[d] # Idle /\ task[d].step = "upload" BY <1>1, AnswerOf
<1>3. UNCHANGED <<conflict, overdue, signed, held, session>> BY DEF DeleteAnswer
<1>4. CASE q.status = 200
  <2>1. Bury(d, q.note) /\ Resume(d, [task[d] EXCEPT !.at = "next"]) BY <1>4 DEF DeleteAnswer
  <2>2. \A n \in Notes : Owned(d, n) BY <1>2, <1>3, <2>1, BuryOwned
  <2>3. task[d] \in Tasks \ {Idle} BY <1>2 DEF Inv, Reads, TypeInv
  <2>4. [task[d] EXCEPT !.at = "next"] = [task[d] EXCEPT !.at = "next", !.step = "upload", !.todo = task[d].todo]
    BY <1>2, <2>3 DEF Tasks
  <2>5. Resume(d, [task[d] EXCEPT !.at = "next", !.step = "upload", !.todo = task[d].todo]) BY <2>1, <2>4
  <2>6. TaskMoves(d) BY <1>2, <2>5, ResumeMoves
  <2>7. \A n \in Notes : OwnNote(d, n)' /\ (Imported(d, n) => Imported(d, n)') BY <1>3, <2>2, NotesOwn
  <2>8. QED BY <1>3, <2>6, <2>7, MovesOwn
<1>5. CASE q.status # 200
  <2>1. UNCHANGED <<ledger, local>> /\ task'[d] = Idle BY <1>5, DomainsOf DEF DeleteAnswer
  <2>2. QED BY <1>3, <2>1, SyncOnlyOwn DEF TaskMoves
<1>6. QED BY <1>4, <1>5

LEMMA ProbeAnswerOwn ==
    ASSUME Inv, OwnInv, NEW d \in Devices, ProbeAnswer(d)
    PROVE  OwnHere(d)'
<1> DEFINE q == requests[Call(d)]
<1>1. "list" \notin {"get"} /\ Answered(d, "probe", {"get"}) BY DEF ProbeAnswer
<1>2. q.note \in Notes /\ task[d] # Idle BY <1>1, AnswerOf
<1>3. UNCHANGED <<conflict, overdue, signed, held, session>> /\ Goes(d, "next", "probe") BY DEF ProbeAnswer
<1>4. \A n \in Notes : Owned(d, n)
  <2>1. CASE Bury(d, q.note) BY <1>2, <1>3, <2>1, BuryOwned
  <2>2. CASE UNCHANGED <<ledger, local>> BY <1>3, <2>2, OwnedSame
  <2>3. QED BY <2>1, <2>2 DEF ProbeAnswer
<1>5. TaskMoves(d) BY <1>2, <1>3, GoesMoves
<1>6. \A n \in Notes : OwnNote(d, n)' /\ (Imported(d, n) => Imported(d, n)') BY <1>3, <1>4, NotesOwn
<1>7. QED BY <1>3, <1>5, <1>6, MovesOwn

LEMMA UploadAnswerOwn ==
    ASSUME Inv, OwnInv, NEW d \in Devices, UploadAnswer(d)
    PROVE  OwnHere(d)'
<1> DEFINE q == requests[Call(d)]
           n == q.note
           r == ledger[d][n]
<1>1. "list" \notin {"post", "put"} /\ Answered(d, "upload", {"post", "put"}) /\ ~ task[d].cancelled
  BY DEF UploadAnswer
<1>2. n \in Notes /\ q.reply \in RowSet /\ q # Free /\ task[d] # Idle /\ task[d].step = "upload" /\ task[d].at = "wait"
  BY <1>1, AnswerOf DEF Answered
<1>3. UNCHANGED <<conflict, overdue, signed, held, session>> BY DEF UploadAnswer
<1>4. IsEntry(r) /\ LedgerInv /\ OwnTask(d) BY <1>2 DEF Inv, Reads, LedgerInv, OwnInv
<1>5. CASE Bury(d, n) /\ Goes(d, "next", "upload")
  <2>1. \A m \in Notes : Owned(d, m) BY <1>2, <1>3, <1>5, BuryOwned
  <2>2. \A m \in Notes : OwnNote(d, m)' /\ (Imported(d, m) => Imported(d, m)') BY <1>3, <2>1, NotesOwn
  <2>3. TaskMoves(d) BY <1>2, <1>5, GoesMoves
  <2>4. QED BY <1>3, <2>2, <2>3, MovesOwn
<1>6. ASSUME NEW x, IsEntry(x), x.tracked = r.tracked, x.imported = r.imported, x.deleted = r.deleted,
             UNCHANGED local, ledger' = [ledger EXCEPT ![d][n] = x], Goes(d, "next", "upload")
      PROVE  OwnHere(d)'
  <2>1. ASSUME NEW m \in Notes PROVE Owned(d, m)
    <3>1. ledger'[d][m] = IF m = n THEN x ELSE ledger[d][m] BY <1>4, <1>6 DEF LedgerInv
    <3>2. QED BY <1>3, <1>6, <3>1 DEF Owned, Takes
  <2>2. \A m \in Notes : OwnNote(d, m)' /\ (Imported(d, m) => Imported(d, m)') BY <1>3, <2>1, NotesOwn
  <2>3. TaskMoves(d) BY <1>2, <1>6, GoesMoves
  <2>4. QED BY <1>3, <2>2, <2>3, MovesOwn
<1>7. CASE UNCHANGED local /\ ledger' = [ledger EXCEPT ![d][n] = Acknowledged(r, q.reply)] /\ Goes(d, "next", "upload")
  <2> DEFINE x == Acknowledged(r, q.reply)
  <2>1. IsEntry(x) /\ x.tracked = r.tracked /\ x.imported = r.imported /\ x.deleted = r.deleted
    BY <1>2, <1>4, AcknowledgedRow
  <2> HIDE DEF x
  <2>2. ledger' = [ledger EXCEPT ![d][n] = x] BY <1>7 DEF x
  <2>3. QED BY <1>6, <1>7, <2>1, <2>2
<1>8. CASE UNCHANGED local /\ ledger' = [ledger EXCEPT ![d][n].pending = Nothing] /\ Goes(d, "next", "upload")
  <2> DEFINE x == [r EXCEPT !.pending = Nothing]
  <2>1. IsEntry(x) /\ x.tracked = r.tracked /\ x.imported = r.imported /\ x.deleted = r.deleted
    BY <1>4, NothingIsAnEdit, PendingRow
  <2>2. ledger' = [ledger EXCEPT ![d][n] = x] BY <1>8
  <2>3. QED BY <1>6, <1>8, <2>1, <2>2
<1>9. CASE /\ UNCHANGED <<local, ledger>> /\ Goes(d, "wait", "conflict")
           /\ TookAndAsks(d, Request("get", n, task[d].who, 0, 0, 0))
  <2>1. \A m \in Notes : Owned(d, m) BY <1>3, <1>9, OwnedSame
  <2>2. \A m \in Notes : OwnNote(d, m)' /\ (Imported(d, m) => Imported(d, m)') BY <1>3, <2>1, NotesOwn
  <2>3. requests'[Call(d)] = Request("get", n, task[d].who, 0, 0, 0)
    BY <1>1, <1>9, CallOf DEF TookAndAsks, Stops, Inv, Reads, RequestInv
  <2> PICK k \in Notes : k = q.note BY <1>2
  <2>4. requests'[Call(d)].note = k BY <2>3 DEF Request
  <2>5. task'[d].todo = task[d].todo /\ task'[d].who = task[d].who BY <1>2, <1>9, GoesKeeps DEF Inv, Reads
  <2>6. task[d].todo \subseteq Notes BY <1>2, TaskOf DEF Inv, Reads, TypeInv
  <2>7. /\ task[d].who[2] <= session[d] /\ ~ Over(d)
        /\ Imported(d, k) /\ \A m \in task[d].todo : Imported(d, m)
    BY <1>1, <1>2, <1>4 DEF OwnTask
  <2>8. Imported(d, k)' /\ \A m \in task[d].todo : Imported(d, m)' BY <2>2, <2>6, <2>7
  <2>9. OwnTask(d)'
    <3>1. ~ Over(d)' BY <1>3, <2>5, <2>7 DEF Over, Login
    <3>2. task'[d].who[2] <= session'[d] BY <1>3, <2>5, <2>7
    <3>3. QED BY <2>4, <2>8, <2>5, <3>1, <3>2 DEF OwnTask, Call
  <2>10. QED BY <2>2, <2>9 DEF OwnHere
<1>10. CASE UNCHANGED <<local, ledger>> /\ task' = [task EXCEPT ![d] = Idle]
  <2>1. task'[d] = Idle BY <1>10, DomainsOf
  <2>2. QED BY <1>3, <1>10, <2>1, SyncOnlyOwn DEF TaskMoves
<1>11. QED BY <1>5, <1>7, <1>8, <1>9, <1>10 DEF UploadAnswer

\* The review row of a sync: its note is one that this sync uploads, or its login is over and the row is late.
LEMMA ConflictAnswerOwn ==
    ASSUME Inv, OwnInv, NEW d \in Devices, ConflictAnswer(d)
    PROVE  OwnHere(d)'
<1> DEFINE q == requests[Call(d)]
           shown == [n \in (IF q.status = 200 THEN {q.note} ELSE {}) |-> q.reply]
<1>1. "list" \notin {"get"} /\ Answered(d, "conflict", {"get"}) BY DEF ConflictAnswer
<1>2. q.note \in Notes /\ q.reply \in RowSet /\ q # Free /\ task[d] # Idle /\ task[d].step = "conflict" /\ task[d].at = "wait"
  BY <1>1, AnswerOf DEF Answered
<1>3. /\ UNCHANGED <<local, ledger, signed, held, session>>
      /\ overdue' = [overdue EXCEPT ![d] = [n \in Notes |->
            IF Over(d) /\ conflict[d][n] # conflict'[d][n] /\ overdue[d][n] = "no" THEN "shown" ELSE overdue[d][n]]]
  BY DEF ConflictAnswer
<1>4. Review(d, shown) BY DEF ConflictAnswer
<1>5. \A n \in Notes : conflict'[d][n] = conflict[d][n] \/ (n \in DOMAIN shown /\ conflict[d][n] = NoRow)
  <2>1. \A n \in Notes : n \in DOMAIN shown => shown[n] \in RowSet BY <1>2
  <2> HIDE DEF shown
  <2>2. QED BY <1>4, <2>1, ReviewKeeps DEF Inv, Reads
<1>6. OwnTask(d) BY DEF OwnInv
<1>7. ASSUME NEW n \in Notes PROVE Owned(d, n)
  <2>1. overdue'[d][n] = IF Over(d) /\ conflict[d][n] # conflict'[d][n] /\ overdue[d][n] = "no" THEN "shown" ELSE overdue[d][n]
    BY <1>3, DomainsOf
  <2>2. CASE conflict'[d][n] = conflict[d][n] BY <1>3, <2>1, <2>2, OwnedSame
  <2>3. CASE conflict'[d][n] # conflict[d][n]
    <3>1. n = q.note /\ conflict[d][n] = NoRow BY <1>5, <2>3
    <3>2. ~ Over(d) => Imported(d, n) BY <1>2, <1>6, <3>1 DEF OwnTask
    <3>3. Over(d) => overdue'[d][n] # "no" BY <2>1, <2>3
    <3>4. overdue'[d][n] = "taken" <=> overdue[d][n] = "taken" BY <2>1
    <3>5. QED BY <1>3, <3>2, <3>3, <3>4 DEF Owned
  <2>4. QED BY <2>2, <2>3
<1>8. \A n \in Notes : OwnNote(d, n)' /\ (Imported(d, n) => Imported(d, n)') BY <1>3, <1>7, NotesOwn
<1>9. TaskMoves(d)
  <2>1. task[d] \in Tasks \ {Idle} BY <1>2 DEF Inv, Reads, TypeInv
  <2>2. [task[d] EXCEPT !.at = "next", !.step = "upload"]
           = [task[d] EXCEPT !.at = "next", !.step = "upload", !.todo = task[d].todo]
    BY <2>1 DEF Tasks
  <2>3. Resume(d, [task[d] EXCEPT !.at = "next", !.step = "upload"]) BY DEF ConflictAnswer
  <2>4. Resume(d, [task[d] EXCEPT !.at = "next", !.step = "upload", !.todo = task[d].todo]) BY <2>2, <2>3
  <2>5. QED BY <1>2, <2>4, ResumeMoves
<1>10. QED BY <1>3, <1>8, <1>9, MovesOwn

\* What is taken from the list is marked as imported, and a sync that was stopped takes nothing.
LEMMA ListAnswerOwn ==
    ASSUME Inv, OwnInv, NEW d \in Devices, ListAnswer(d)
    PROVE  OwnHere(d)'
<1> DEFINE q == requests[Call(d)]
           listed == {n \in Notes : q.reply[n] # NoRow}
           open == listed \ typed[d]
           takes == {n \in open : ReceiptOf(d, q.reply[n], n) = "applied"}
           shows == {n \in open : ReceiptOf(d, q.reply[n], n) = "refused"}
<1>1. Answered(d, "list", {"list"}) /\ UNCHANGED <<overdue, signed, held, session>> /\ ~ task[d].cancelled
  BY DEF ListAnswer, ListTaken
<1>2. IsAnswer(q) /\ task[d] # Idle /\ q.kind = "list" /\ OwnTask(d) /\ signed[d]
  <2>1. IsAnswer(q) /\ task[d] # Idle BY <1>1, AnswerOf
  <2>2. q.kind = "list" BY <1>1 DEF Answered
  <2>3. QED BY <1>1, <2>1, <2>2 DEF OwnInv, OwnTask, Over
<1>3. CASE q.status # 200
  <2>1. task' = [task EXCEPT ![d] = Idle] /\ UNCHANGED <<local, ledger, conflict>> BY <1>3 DEF ListAnswer
  <2>2. task'[d] = Idle BY <2>1, DomainsOf
  <2>3. QED BY <1>1, <2>1, <2>2, SyncOnlyOwn DEF TaskMoves
<1>4. CASE q.status = 200
  <2> DEFINE shown == [n \in shows |-> q.reply[n]]
             on == [task[d] EXCEPT !.at = "next", !.step = "probe", !.todo = {n \in Notes : Takes(ledger'[d][n])} \ listed]
  <2>1. /\ ledger' = [ledger EXCEPT ![d] = [n \in Notes |->
               IF n \in takes THEN Taken(ledger[d][n], q.reply[n], local[d][n]) ELSE ledger[d][n]]]
        /\ local' = [local EXCEPT ![d] = [n \in Notes |-> IF n \in takes THEN q.reply[n].text ELSE local[d][n]]]
        /\ Review(d, shown) /\ Resume(d, on)
    BY <1>4 DEF ListAnswer, Taken
  <2>2. q.reply \in [Notes -> RowSet] BY <1>2, <1>4 DEF IsAnswer, IsReply
  <2>3. PICK T : on = [task[d] EXCEPT !.at = "next", !.step = "probe", !.todo = T] OBVIOUS
  <2>4. \A n \in Notes : DOMAIN shown = shows /\ (n \in shows => shown[n] = q.reply[n]) OBVIOUS
  <2>5. \A n \in Notes : n \in takes => ReceiptOf(d, q.reply[n], n) = "applied" OBVIOUS
  <2>6. \A n \in Notes : n \in shows => local[d][n] # 0 /\ ~ ledger[d][n].deleted BY RefusedIsHere DEF ReceiptOf
  <2> HIDE DEF on, shown, takes, shows, listed
  <2>7. \A n \in Notes : conflict'[d][n] = conflict[d][n] \/ n \in shows
    <3>1. \A n \in Notes : n \in DOMAIN shown => shown[n] \in RowSet BY <2>2, <2>4
    <3>2. QED BY <2>1, <2>4, <3>1, ReviewKeeps DEF Inv, Reads
  <2>8. ASSUME NEW n \in Notes PROVE OwnNote(d, n)' /\ (Imported(d, n) => Imported(d, n)')
    <3> DEFINE r == ledger[d][n]
    <3>1. IsEntry(r) /\ OwnNote(d, n) /\ q.reply[n] \in RowSet BY <2>2 DEF Inv, Reads, LedgerInv, OwnInv
    <3>2. ledger'[d][n] = (IF n \in takes THEN Taken(r, q.reply[n], local[d][n]) ELSE r)
      BY <2>1, DomainsOf
    <3>3. local'[d][n] = (IF n \in takes THEN q.reply[n].text ELSE local[d][n]) BY <2>1, DomainsOf
    <3>4. HasLedger(d)' /\ overdue'[d][n] = overdue[d][n] BY <1>1, <1>2 DEF HasLedger
    <3>5. CASE n \in takes
      <4> DEFINE t == Taken(r, q.reply[n], local[d][n])
      <4>1. t.tracked /\ (r.tracked => t.imported = r.imported) /\ (~ r.tracked /\ local[d][n] = 0 => t.imported)
        BY <3>1, TakenRow
      <4> HIDE DEF t
      <4>2. ledger'[d][n] = t BY <3>2, <3>5 DEF t
      <4>3. ~ r.deleted /\ (r.base = NoRow => local[d][n] = 0) /\ (r.base # NoRow => local[d][n] # 0)
        BY <2>5, <3>5 DEF ReceiptOf
      <4>4. d # Maker[n] => t.imported
        <5>1. CASE r.tracked BY <3>1, <4>1, <4>3, <5>1 DEF OwnNote, Takes
        <5>2. CASE ~ r.tracked
          <6>1. d # Maker[n] => local[d][n] = 0 BY <3>1, <4>3, <5>2 DEF OwnNote
          <6>2. QED BY <4>1, <5>2, <6>1
        <5>3. QED BY <5>1, <5>2
      <4>5. overdue[d][n] # "taken" BY <3>1, <4>3 DEF OwnNote
      <4>6. Imported(d, n) => Imported(d, n)' BY <4>2, <4>4 DEF Imported
      <4>7. QED BY <3>4, <4>1, <4>2, <4>4, <4>5, <4>6 DEF OwnNote
    <3>6. CASE n \notin takes
      <4>1. ledger'[d][n] = r /\ local'[d][n] = local[d][n] BY <3>2, <3>3, <3>6
      <4>2. n \in shows => Imported(d, n) BY <2>6, <3>1 DEF OwnNote, Imported
      <4>3. QED BY <2>7, <3>1, <3>4, <4>1, <4>2 DEF OwnNote, Imported
    <3>7. QED BY <3>5, <3>6
  <2>9. TaskMoves(d)
    <3>1. Resume(d, [task[d] EXCEPT !.at = "next", !.step = "probe", !.todo = T]) BY <2>1, <2>3
    <3>2. QED BY <1>2, <3>1, ResumeMoves
  <2>10. QED BY <1>1, <2>8, <2>9, MovesOwn
<1>5. QED BY <1>3, <1>4

\* Whatever a device does, what is here and is not its own stays marked.
LEMMA DeviceOwn ==
    ASSUME Inv, OwnInv, NEW d \in Devices, DeviceStep(d)
    PROVE  OwnInv'
<1>1. OwnHere(d)'
  <2>1. CASE Person(d)
    <3>1. ASSUME NEW n \in Notes,
                 Record(d, n) \/ Type(d, n) \/ SaveText(d, n) \/ Remove(d, n) \/ Share(d, n) \/ KeepLocal(d, n)
          PROVE  OwnHere(d)'
      BY <3>1, PersonOwn
    <3>2. ASSUME NEW n \in Notes, UseRemote(d, n) PROVE OwnHere(d)' BY <3>2, UseRemoteOwn
    <3>3. QED BY <2>1, <3>1, <3>2, SignOutOwn, SwitchOwn DEF Person
  <2>2. CASE Sync(d) BY <2>2, SyncOwn
  <2>3. CASE Runs(d) \/ Lose(d) BY <2>3, RunsOwn
  <2>4. CASE Answers(d)
    BY <2>4, DeleteAnswerOwn, UploadAnswerOwn, ConflictAnswerOwn, ListAnswerOwn, ProbeAnswerOwn DEF Answers
  <2>5. CASE Removed(d)
    <3>1. UNCHANGED <<local, ledger, conflict, overdue, requests, task, signed, held, session>> BY <2>5 DEF Removed, Revoke, device
    <3>2. \A n \in Notes : Owned(d, n) BY <3>1, OwnedSame
    <3>3. QED BY <3>1, <3>2, QuietOwn
  <2>6. ASSUME NEW n \in Notes, DeletionEvent(d, n) PROVE OwnHere(d)'
    <3>1. Bury(d, n) /\ UNCHANGED <<conflict, overdue, requests, task, signed, held, session>> BY <2>6 DEF DeletionEvent, hosted
    <3>2. \A m \in Notes : Owned(d, m) BY <3>1, BuryOwned
    <3>3. QED BY <3>1, <3>2, QuietOwn
  <2>7. QED BY <2>1, <2>2, <2>3, <2>4, <2>5, <2>6 DEF DeviceStep
<1>2. Apart(d) BY DeviceApart
<1>3. ASSUME NEW e \in Devices \ {d} PROVE OwnHere(e)'
  <2>1. OwnTask(e) /\ \A n \in Notes : OwnNote(e, n) BY DEF OwnInv
  <2>2. /\ signed'[e] = signed[e] /\ task'[e] = task[e] /\ requests'[Call(e)] = requests[Call(e)]
        /\ local'[e] = local[e] /\ ledger'[e] = ledger[e] /\ conflict'[e] = conflict[e]
        /\ held'[e] = held[e] /\ overdue'[e] = overdue[e] /\ session'[e] = session[e]
    BY <1>2 DEF Apart
  <2>3. OwnTask(e)' BY <2>1, <2>2 DEF OwnTask, Imported, Call, Over, Login
  <2>4. \A n \in Notes : OwnNote(e, n)' BY <2>1, <2>2 DEF OwnNote, HasLedger
  <2>5. QED BY <2>3, <2>4 DEF OwnHere
<1>4. QED BY <1>1, <1>3 DEF OwnInv, OwnHere

LEMMA StepOwn ==
    ASSUME Inv, OwnInv, [Next]_vars
    PROVE  OwnInv'
<1>1. CASE UNCHANGED vars
  <2>1. UNCHANGED <<local, ledger, conflict, overdue, requests, task, signed, held, session>> BY <1>1 DEF vars, hosted, device
  <2>2. \A d \in Devices, n \in Notes : OwnNote(d, n)' BY <2>1 DEF OwnInv, OwnNote, HasLedger
  <2>3. \A d \in Devices : OwnTask(d)' BY <2>1 DEF OwnInv, OwnTask, Imported, Call, Over, Login
  <2>4. QED BY <2>2, <2>3 DEF OwnInv
<1>2. CASE \E d \in Devices : DeviceStep(d) BY <1>2, DeviceOwn
<1>3. CASE \E s \in Slots : Server(s)
  <2>1. PICK s \in Slots : Server(s) BY <1>3
  <2>2. UNCHANGED <<local, ledger, conflict, overdue, task, signed, held, session>> /\ Serves(s) BY <2>1 DEF Server, device
  <2>3. \A d \in Devices, n \in Notes : OwnNote(d, n)' BY <2>2 DEF OwnInv, OwnNote, HasLedger
  <2>4. requests'[s] = Free \/ (requests[s] # Free /\ requests'[s].note = requests[s].note)
    BY <2>2, ServedNote
  <2>5. \A t \in Slots : t # s => requests'[t] = requests[t]
    BY <2>1, <2>2, ServerKeeps DEF Server, Inv, Same
  <2>6. ASSUME NEW d \in Devices PROVE OwnTask(d)'
    <3>1. OwnTask(d) /\ Call(d) \in Slots BY CallOf DEF OwnInv
    <3>2. requests'[Call(d)] # Free => requests[Call(d)] # Free /\ requests'[Call(d)].note = requests[Call(d)].note
      BY <2>4, <2>5, <3>1
    <3>3. QED BY <2>2, <3>1, <3>2 DEF OwnTask, Imported, Call, Over, Login
  <2>7. QED BY <2>3, <2>6 DEF OwnInv
<1>4. QED BY <1>1, <1>2, <1>3 DEF Next, DeviceStep

LEMMA OwnInitially == Init => OwnInv
<1> SUFFICES ASSUME Init PROVE OwnInv OBVIOUS
<1>1. \A d \in Devices : OwnTask(d) BY DEF Init, OwnTask
<1>2. ASSUME NEW d \in Devices, NEW n \in Notes PROVE OwnNote(d, n)
  <2>1. ledger[d][n] = Untracked /\ local[d][n] = 0 /\ conflict[d][n] = NoRow /\ overdue[d][n] = "no" BY DEF Init
  <2>2. ~ Untracked.imported /\ ~ Untracked.tracked /\ ~ Untracked.deleted BY DEF Untracked
  <2>3. QED BY <2>1, <2>2 DEF OwnNote, Takes
<1>3. QED BY <1>1, <1>2 DEF OwnInv

\* A sign-out that cleared its ledger leaves only notes that were made on this device, whatever answers were
\* on their way and whatever was signed in to, failed or hidden before; but for what the person took from a
\* late review over a deletion.
THEOREM SignedOutOwn == Spec => []SignedOutClean
<1>1. Inv /\ OwnInv /\ [Next]_vars => OwnInv' BY StepOwn
<1>2. OwnInv => SignedOutClean BY DEF OwnInv, OwnNote, SignedOutClean
<1>3. QED BY <1>1, <1>2, OwnInitially, AccountInvariant, PTL DEF Spec

\* What is private stays private.
THEOREM PrivateHeld == Spec => []PrivateStays
<1>1. PrivateHistoryStays /\ SignedOutClean => PrivateStays BY DEF PrivateStays
<1>2. QED BY <1>1, UploadsAreShared, SignedOutOwn, PTL
===============================================================================
