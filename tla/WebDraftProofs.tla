--------------------------- MODULE WebDraftProofs ---------------------------
(***************************************************************************)
(* Proofs about the draft of the web workspace (WebDraft), for any number  *)
(* of notes and any bounds.                                                *)
(*                                                                         *)
(* ShownInv relates the draft, its recovery copy, its save and the         *)
(* requests on their way: a put is based on a version the tab showed, or   *)
(* its note is in no account and will not be.  From it follows that an     *)
(* edit replaces only what was shown.  TextInv says where the newest words *)
(* of a note are; it needs ShownInv for what an answer is about.           *)
(***************************************************************************)
EXTENDS WebDraft, FiniteSetTheorems, TLAPS

-----------------------------------------------------------------------------
\* What the draft and its requests are.

Row == [rev : Nat, text : Int]
OpOk(o) ==
    /\ o = [note |-> o.note, text |-> o.text, base |-> o.base, op |-> o.op]
    /\ o.note \in Nat /\ o.text \in Int /\ o.base \in Nat
TabOk(t) ==
    /\ t \in [note : Notes, text : Int, of : Nat, base : Row, pend : {t.pend}, saved : BOOLEAN, deleted : BOOLEAN,
             about : Nat, conflict : Row, timer : BOOLEAN, unstored : BOOLEAN]
    /\ OpOk(t.pend)
DiskOk(d) ==
    /\ d = [note |-> d.note, text |-> d.text, of |-> d.of, base |-> d.base, pend |-> d.pend]
    /\ d.note \in Notes \cup {0} /\ d.text \in Int /\ d.of \in Nat /\ d.base \in Row /\ OpOk(d.pend)
    /\ d.note = 0 => d = Empty

ActiveReq(q) ==
    /\ q.stage \in {"sent", "read", "looked"}
    /\ q = [stage |-> q.stage, kind |-> q.kind, note |-> q.note, who |-> q.who, text |-> q.text, base |-> q.base,
            op |-> q.op, seen |-> q.seen, was |-> q.was]
    /\ q.kind \in {"post", "put", "get", "list"}
    /\ q.note \in Notes /\ q.text \in Int /\ q.base \in Nat /\ q.was \in Row
    /\ q.stage = "read" => q.kind \in {"post", "put"}
    /\ q.stage = "looked" => q.kind = "put" /\ q.base = q.was.rev
AnsweredReq(q) ==
    /\ q.stage = "answered"
    /\ q = [stage |-> q.stage, kind |-> q.kind, note |-> q.note, who |-> q.who, status |-> q.status, reply |-> q.reply]
    /\ q.kind \in {"post", "put", "get", "list"} /\ q.note \in Notes
    /\ q.kind # "list" => q.reply \in Row
    /\ q.kind = "list" /\ q.status = 200 => q.reply \in [Notes -> Row]
Request1(q) == q = Free \/ ActiveReq(q) \/ AnsweredReq(q)

DraftTypes ==
    /\ TabOk(tab) /\ DiskOk(disk)
    /\ task = [at |-> task.at, op |-> task.op, next |-> task.next]
    /\ task.at \in {"idle", "call", "reread", "listing", "history"} /\ OpOk(task.op)
    /\ mic \in {"off", "on", "finishing", "cancelling", "cancelled"}
    /\ before = [note |-> before.note, base |-> before.base] /\ before.note \in Nat /\ before.base \in Row
    /\ entries \in [Notes -> Row] /\ prefs \in [incognito : BOOLEAN, retain : BOOLEAN] /\ dialog \in BOOLEAN
    /\ prefs.incognito => ~ prefs.retain
    /\ last \in Notes /\ tab.note <= last /\ disk.note <= last
    /\ spent \in [{"text", "other", "lost", "reload", "aside", "tab"} -> Nat]
    /\ latest \in [Notes -> Nat]
    /\ receipt \in [Notes -> Receipt] /\ row \in [Notes -> Row] /\ revoked = {}
    /\ requests = [s \in Slots |-> requests[s]] /\ \A s \in Slots : Request1(requests[s])

-----------------------------------------------------------------------------
\* The account: a note has a row only with a receipt, and its words were taken from the tab.
AccountInv ==
    /\ \A n \in Notes : receipt[n] = "none" => row[n] = NoRow
    /\ \A n \in Notes : row[n].text > 0 => <<n, row[n].text>> \in accepted
    /\ \A a \in applied : a.text > 0 => <<a.note, a.text>> \in accepted

\* Requests: what has been read is there, and an answer is about what is there.
Stage(s, S) == requests[s].stage \in S
Active == {"sent", "read", "looked"}
RequestsInv ==
    /\ \A s \in Slots : requests[s].stage \in {"read", "looked"} /\ requests[s].kind = "put" => receipt[requests[s].note] # "none"
    /\ \A s \in Slots : /\ requests[s].stage = "answered" /\ requests[s].kind # "list" /\ requests[s].status \in {200, 409}
                      => receipt[requests[s].note] # "none"
    /\ \A s \in Slots : requests[s].stage = "answered" /\ requests[s].kind = "list" /\ requests[s].status = 200
                      => \A n \in Notes : requests[s].reply[n] # NoRow => receipt[n] # "none"
    /\ \A n \in Notes : entries[n] # NoRow => receipt[n] # "none"
    /\ requests["list"] # Free => requests["list"].kind = "list"

\* The save and its request.
SaveInv ==
    /\ task.at \in {"idle", "listing", "history"} => requests["call"] = Free
    /\ task.at = "call" =>
          /\ requests["call"] # Free /\ requests["call"].kind \in {"post", "put"} /\ requests["call"].note = task.op.note
          /\ requests["call"].stage \in Active => requests["call"].text = task.op.text
          /\ requests["call"].stage = "answered" /\ requests["call"].status = 200 /\ task.op.text > 0
                => <<task.op.note, task.op.text>> \in accepted
    /\ task.at = "reread" => requests["call"] # Free /\ requests["call"].kind = "get"

\* Identifiers that were not given yet.
FreshInv ==
    /\ \A m \in Notes : m > last => receipt[m] = "none" /\ latest[m] = 0
    /\ \A s \in Slots : requests[s] # Free => requests[s].note <= last

-----------------------------------------------------------------------------
\* What a put may replace.
Posts(n) == \E s \in Slots : requests[s].stage \in Active /\ requests[s].kind = "post" /\ requests[s].note = n
Unposted(n) == receipt[n] = "none" /\ ~ Posts(n)
\* A note that will never be in the account: nothing posts it.
Never(n) ==
    /\ n \in Notes /\ n <= last /\ Unposted(n)
    /\ tab.note = n => tab.base # NoRow
    /\ disk.note = n => disk.base # NoRow
\* A version of a note that the tab showed.
Shown(n, note) == note # NoRow => n \in Notes /\ <<n, note.rev>> \in seen /\ receipt[n] # "none"
PendInv(p, n, base) == p # Nothing => p.note = n /\ p.base = base.rev

VersionsInv ==
    /\ Shown(tab.of, tab.base) /\ Shown(disk.of, disk.base) /\ Shown(before.note, before.base)
    /\ Shown(tab.about, tab.conflict)
    /\ PendInv(tab.pend, tab.note, tab.base) /\ PendInv(disk.pend, disk.note, disk.base)
    /\ before # NoNote => before.base # NoRow
\* A draft based on another note's version is not in the account, and will not be.
ForeignInv ==
    /\ tab.base # NoRow /\ tab.of # tab.note => Unposted(tab.note)
    /\ disk.base # NoRow /\ disk.of # disk.note => Never(disk.note)
    /\ tab.conflict # NoRow /\ tab.about # tab.note => tab.base = NoRow /\ Unposted(tab.note)
\* The review, and a save that goes on while another draft was begun.
ReviewInv ==
    /\ tab.conflict # NoRow => task.at = "idle"
    /\ dialog => /\ task.at = "idle" /\ (tab.base # NoRow => tab.of = tab.note)
                 /\ tab.conflict # NoRow \/ (tab.saved /\ tab.pend = Nothing)
    /\ task.at \in {"call", "reread"} /\ requests["call"].note # tab.note => tab.base = NoRow /\ Unposted(tab.note)
    /\ task.at = "reread" /\ tab.base # NoRow => tab.of = tab.note
PutInv ==
    \A s \in Slots : requests[s].stage \in Active /\ requests[s].kind = "put"
        => <<requests[s].note, requests[s].base>> \in seen \/ Never(requests[s].note)

-----------------------------------------------------------------------------
\* Words.
Kept(n) == latest[n] = 0 \/ <<n, latest[n]>> \in accepted
WordsInv ==
    /\ \A n \in Notes : n # tab.note => Kept(n)
    /\ tab.saved => Kept(tab.note)
    /\ ~ Kept(tab.note) => tab.text = latest[tab.note]
    /\ mic \in RecordingOn /\ tab.note \in quit => Kept(tab.note)
\* The recovery copy has what is not in the account, from 150 ms after it was typed; no other tab has written since.
CopyInv ==
    ~ Kept(tab.note) => tab.unstored \/ ~ prefs.retain \/ (disk.note = tab.note /\ disk.text = tab.text)
\* Another tab's empty draft may be what is loaded again.
Alone == spent.tab = 0 \/ spent.reload = 0
TextInv == (Alone => WordsInv) /\ (spent.tab = 0 => CopyInv)

ShownInv == DraftTypes /\ AccountInv /\ RequestsInv /\ SaveInv /\ FreshInv /\ VersionsInv /\ ForeignInv /\ ReviewInv /\ PutInv

-----------------------------------------------------------------------------
(* The pieces.                                                             *)

LEMMA NotesAre ==
    ASSUME DraftAssumption
    PROVE  /\ Notes \subseteq Nat \ {0} /\ 1 \in Notes /\ 0 \notin Notes
           /\ \A n \in Notes, m \in Nat : 0 < m /\ m <= n => m \in Notes
           /\ {"call", "list"} \subseteq Slots /\ Slots \subseteq {"call", "list", "stray"} /\ Unheard = Slots \cap {"stray"}
  <1>1. Cardinality(Notes) \in Nat
    BY FS_CardinalityType DEF DraftAssumption
  <1>2. Notes = 1..Cardinality(Notes) /\ 1 \in Notes
    BY DEF DraftAssumption
  <1>3. Notes \subseteq Nat \ {0}
    BY <1>1, <1>2
  <1>4. \A n \in Notes, m \in Nat : 0 < m /\ m <= n => m \in Notes
    BY <1>1, <1>2
  <1>. QED
    BY <1>2, <1>3, <1>4 DEF DraftAssumption

LEMMA NothingIs == OpOk(Nothing) /\ NoRow \in Row /\ DiskOk(Empty) /\ Nothing.text = 0
  BY DEF OpOk, Nothing, NoRow, Row, DiskOk, Empty

\* A draft that differs in its timer, and in what it was told of the note.
Alike(u, t) ==
    /\ u.note = t.note /\ u.text = t.text /\ u.of = t.of /\ u.base = t.base /\ u.saved = t.saved
    /\ u.about = t.about /\ u.conflict = t.conflict /\ u.unstored = t.unstored

LEMMA ScheduledIs ==
    ASSUME NEW t, TabOk(t), NEW m, NEW p \in [incognito : BOOLEAN, retain : BOOLEAN]
    PROVE  TabOk(Scheduled(t, m, p)) /\ Alike(Scheduled(t, m, p), t) /\ Scheduled(t, m, p).pend = t.pend
  <1>1. MaySave(t, m, p) \in BOOLEAN
    BY DEF MaySave
  <1>. QED
    BY <1>1 DEF TabOk, Alike, Scheduled

LEMMA BlankIs ==
    ASSUME NEW n \in Notes
    PROVE  /\ TabOk(Blank(n)) /\ Blank(n).note = n /\ Blank(n).text = 0 /\ Blank(n).base = NoRow
           /\ Blank(n).pend = Nothing /\ ~ Blank(n).saved /\ Blank(n).conflict = NoRow /\ ~ Blank(n).unstored
  BY NothingIs DEF TabOk, Blank, Row

LEMMA OpenedIs ==
    ASSUME NEW n \in Notes, NEW note \in Row, NEW u \in BOOLEAN, DraftAssumption
    PROVE  /\ TabOk(Opened(n, note, u)) /\ Opened(n, note, u).note = n /\ Opened(n, note, u).text = note.text
           /\ Opened(n, note, u).of = n /\ Opened(n, note, u).base = note /\ Opened(n, note, u).pend = Nothing
           /\ Opened(n, note, u).saved /\ Opened(n, note, u).conflict = NoRow /\ Opened(n, note, u).unstored = u
  <1>1. n \in Nat /\ note.text \in Int
    BY NotesAre DEF Row
  <1>. QED
    BY <1>1, NothingIs DEF TabOk, Opened

LEMMA SnapshotIs ==
    ASSUME NEW t, TabOk(t), NEW p, DraftAssumption
    PROVE  /\ DiskOk(Snapshot(t, p))
           /\ Snapshot(t, p) = Empty \/
              /\ Snapshot(t, p).note = t.note /\ Snapshot(t, p).text = t.text /\ Snapshot(t, p).of = t.of
              /\ Snapshot(t, p).base = t.base /\ Snapshot(t, p).pend = t.pend
           /\ ~ p.incognito /\ p.retain /\ ~ t.saved /\ t.text # 0 => Snapshot(t, p).note = t.note /\ Snapshot(t, p).text = t.text
  BY NothingIs, NotesAre DEF TabOk, DiskOk, Snapshot, HasWords

LEMMA FrozenIs ==
    ASSUME NEW t, TabOk(t), PendInv(t.pend, t.note, t.base), DraftAssumption
    PROVE  OpOk(Frozen(t)) /\ Frozen(t).note = t.note /\ Frozen(t).base = t.base.rev /\ Frozen(t) # Nothing
  BY NothingIs, NotesAre DEF TabOk, OpOk, Frozen, PendInv, Nothing, Row

LEMMA RequestIs ==
    ASSUME NEW kind \in {"post", "put", "get", "list"}, NEW n \in Notes, NEW who, NEW text \in Int, NEW base \in Nat, NEW op
    PROVE  LET q == Request(kind, n, who, text, base, op) IN
           /\ ActiveReq(q) /\ Request1(q) /\ q # Free /\ q.stage = "sent" /\ q.kind = kind /\ q.note = n
           /\ q.text = text /\ q.base = base
  BY NothingIs DEF ActiveReq, Request1, Request, Free

-----------------------------------------------------------------------------
(* Steps that send no words: requests end, move or ask, and notes are      *)
(* edited or deleted elsewhere.                                            *)

Calm ==
    /\ requests' = [s \in Slots |-> requests'[s]]
    /\ \A s \in Slots : \/ requests'[s] = requests[s] \/ requests'[s] = Free
                        \/ s = "stray" /\ requests'[s] = requests["call"]
                        \/ s = "list" /\ requests'[s] = Request("list", 1, Me, 0, 0, 0)
                        \/ s = "call" /\ requests'[s] = Request("get", tab.note, Me, 0, 0, 0)
    /\ receipt' \in [Notes -> Receipt] /\ row' \in [Notes -> Row]
    /\ revoked' = revoked /\ applied' = applied /\ accepted' = accepted
    /\ \A n \in Notes : receipt'[n] = "none" <=> receipt[n] = "none"
    /\ \A n \in Notes : row'[n] = NoRow \/ row'[n] = row[n] \/ (row'[n].text <= 0 /\ row[n] # NoRow)
    /\ entries' \in [Notes -> Row] /\ \A n \in Notes : entries'[n] # NoRow => receipt[n] # "none"
    /\ last' \in Notes /\ last <= last'

LEMMA CalmSlots ==
    ASSUME ShownInv, DraftAssumption, Calm, NEW s \in Slots
    PROVE  /\ \/ requests'[s] = Free
              \/ requests'[s] \in {requests[s], requests["call"]} /\ requests'[s] # Free
                 /\ (requests'[s] # requests[s] => s = "stray")
              \/ /\ requests'[s].stage = "sent" /\ requests'[s].note \in {1, tab.note} /\ requests'[s] # Free
                 /\ (s = "list" /\ requests'[s].kind = "list") \/ (s = "call" /\ requests'[s].kind = "get")
           /\ Request1(requests'[s])
  <1>1. 1 \in Notes /\ "call" \in Slots /\ tab.note \in Notes /\ 0 \in Nat /\ 0 \in Int
    BY NotesAre DEF ShownInv, DraftTypes, TabOk
  <1>2. LET q == Request("list", 1, Me, 0, 0, 0) IN Request1(q) /\ q # Free /\ q.stage = "sent" /\ q.kind = "list" /\ q.note = 1
    BY <1>1, RequestIs
  <1>3. LET q == Request("get", tab.note, Me, 0, 0, 0)
        IN Request1(q) /\ q # Free /\ q.stage = "sent" /\ q.kind = "get" /\ q.note = tab.note
    BY <1>1, RequestIs
  <1>4. Request1(requests[s]) /\ Request1(requests["call"]) /\ Request1(Free)
    BY <1>1 DEF ShownInv, DraftTypes, Request1
  <1>5. CASE requests'[s] = requests[s]
    BY <1>4, <1>5
  <1>6. CASE requests'[s] = Free
    BY <1>4, <1>6
  <1>7. CASE s = "stray" /\ requests'[s] = requests["call"]
    BY <1>4, <1>7
  <1>8. CASE s = "list" /\ requests'[s] = Request("list", 1, Me, 0, 0, 0)
    BY <1>2, <1>8
  <1>9. CASE s = "call" /\ requests'[s] = Request("get", tab.note, Me, 0, 0, 0)
    BY <1>3, <1>9
  <1>. QED
    BY <1>5, <1>6, <1>7, <1>8, <1>9 DEF Calm

LEMMA CalmKeeps ==
    ASSUME ShownInv, DraftAssumption, Calm
    PROVE  /\ requests' = [s \in Slots |-> requests'[s]] /\ \A s \in Slots : Request1(requests'[s])
           /\ AccountInv' /\ RequestsInv'
           /\ \A s \in Slots : requests'[s] # Free => requests'[s].note <= last'
           /\ \A n \in Notes : Unposted(n) => Unposted(n)'
  <1>1. \A s \in Slots : Request1(requests'[s])
    BY CalmSlots
  <1>2. AccountInv'
    BY NothingIs DEF ShownInv, DraftTypes, AccountInv, Calm, NoRow, Row
  <1>3. "call" \in Slots /\ "list" \in Slots /\ "list" # "stray" /\ last \in Nat /\ last' \in Nat /\ 1 <= last /\ last <= last'
        /\ tab.note <= last /\ tab.note \in Nat
    BY NotesAre DEF ShownInv, DraftTypes, Calm, TabOk
  <1>4. RequestsInv'
    <2>1. ASSUME NEW s \in Slots
          PROVE  /\ requests'[s].stage \in {"read", "looked"} /\ requests'[s].kind = "put" => receipt'[requests'[s].note] # "none"
                 /\ requests'[s].stage = "answered" /\ requests'[s].kind # "list" /\ requests'[s].status \in {200, 409}
                      => receipt'[requests'[s].note] # "none"
                 /\ requests'[s].stage = "answered" /\ requests'[s].kind = "list" /\ requests'[s].status = 200
                      => \A n \in Notes : requests'[s].reply[n] # NoRow => receipt'[n] # "none"
      <3>1. CASE requests'[s] = Free
        BY <3>1 DEF Free
      <3>2. CASE requests'[s].stage = "sent"
        BY <3>2
      <3>3. ASSUME NEW r \in Slots, requests'[s] = requests[r], requests[r] # Free
            PROVE  <2>1!2
        <4>1. requests[r].note \in Notes
          BY <3>3 DEF ShownInv, DraftTypes, Request1, ActiveReq, AnsweredReq
        <4>. QED
          BY <3>3, <4>1 DEF ShownInv, RequestsInv, Calm
      <3>. QED
        BY <1>3, <3>1, <3>2, <3>3, CalmSlots
    <2>2. requests'["list"] # Free => requests'["list"].kind = "list"
      BY <1>3, CalmSlots DEF ShownInv, RequestsInv
    <2>3. \A n \in Notes : entries'[n] # NoRow => receipt'[n] # "none"
      BY DEF Calm
    <2>. QED
      BY <2>1, <2>2, <2>3 DEF RequestsInv
  <1>5. ASSUME NEW s \in Slots, requests'[s] # Free PROVE requests'[s].note <= last'
    <2>1. \A r \in Slots : requests[r] # Free => requests[r].note <= last /\ requests[r].note \in Nat
      BY NotesAre DEF ShownInv, FreshInv, DraftTypes, Request1, ActiveReq, AnsweredReq
    <2>. QED
      BY <1>3, <1>5, <2>1, CalmSlots
  <1>6. ASSUME NEW n \in Notes, Unposted(n) PROVE Unposted(n)'
    BY <1>3, <1>6, CalmSlots DEF Unposted, Posts, Calm, Free, Active
  <1>7. requests' = [s \in Slots |-> requests'[s]]
    BY DEF Calm
  <1>. QED
    BY <1>1, <1>2, <1>4, <1>5, <1>6, <1>7

\* A draft and its copy after a step that sends no words.
Sound ==
    /\ PendInv(tab.pend, tab.note, tab.base)' /\ Shown(tab.of, tab.base)'
    /\ tab'.base # NoRow /\ tab'.of # tab'.note => Unposted(tab'.note)
    /\ tab'.base = NoRow => \/ tab'.note = tab.note /\ (tab.base = NoRow \/ receipt[tab.note] # "none")
                            \/ tab'.note > last \/ receipt[tab'.note] # "none"
                            \/ tab'.note = disk.note /\ disk.base = NoRow
CopyOf(d, t) == d.note = t.note /\ d.of = t.of /\ d.base = t.base /\ d.pend = t.pend
Copied == disk' \in {disk, Empty} \/ CopyOf(disk', tab')
Reviewed ==
    tab'.conflict # NoRow => /\ Shown(tab.about, tab.conflict)'
                             /\ tab'.about # tab'.note => tab'.base = NoRow /\ Unposted(tab'.note)
Returns == Shown(before.note, before.base)' /\ (before' # NoNote => before'.base # NoRow)

LEMMA NeverStays ==
    ASSUME ShownInv, DraftAssumption, Calm, Sound, Copied, TabOk(tab'), NEW n, Never(n)
    PROVE  Never(n)'
  <1>1. n \in Notes /\ n <= last' /\ Unposted(n)'
    <2>1. n \in Nat /\ last \in Nat /\ last' \in Nat
      BY NotesAre DEF ShownInv, DraftTypes, Calm, Never
    <2>. QED
      BY <2>1, CalmKeeps DEF Never, Calm
  <1>2. tab'.note = n => tab'.base # NoRow
    <2>1. n \in Nat /\ last \in Nat
      BY NotesAre DEF ShownInv, DraftTypes, Calm, Never
    <2>. QED
      BY <2>1 DEF Sound, Never, Unposted
  <1>3. disk'.note = n => disk'.base # NoRow
    BY <1>1, <1>2, NotesAre DEF Copied, CopyOf, Empty, Never
  <1>. QED
    BY <1>1, <1>2, <1>3 DEF Never

LEMMA TabKeeps ==
    ASSUME ShownInv, DraftAssumption, Calm, Sound, Copied, Reviewed, Returns, TabOk(tab'), tab'.note <= last', seen \subseteq seen'
    PROVE  VersionsInv' /\ ForeignInv' /\ PutInv'
  <1>1. \A n : Never(n) => Never(n)'
    BY NeverStays
  <1>2. tab'.note \in Notes /\ \A n \in Notes : Unposted(n) => Unposted(n)'
    BY CalmKeeps DEF TabOk
  <1>3. Shown(disk.of, disk.base)' /\ PendInv(disk.pend, disk.note, disk.base)'
    BY DEF Copied, CopyOf, Sound, Shown, Empty, PendInv, ShownInv, VersionsInv, Calm
  <1>4. VersionsInv'
    <2>1. tab'.conflict # NoRow => Shown(tab.about, tab.conflict)'
      BY DEF Reviewed
    <2>. QED
      BY <1>3, <2>1 DEF VersionsInv, Sound, Returns, Shown, PendInv
  <1>5. ForeignInv'
    <2>1. disk'.base # NoRow /\ disk'.of # disk'.note => Never(disk.note)'
      <3>1. CASE disk' = disk
        BY <1>1, <3>1 DEF ShownInv, ForeignInv
      <3>2. CASE disk' = Empty
        BY <3>2 DEF Empty
      <3>3. ASSUME CopyOf(disk', tab'), disk'.base # NoRow, disk'.of # disk'.note PROVE Never(disk.note)'
        <4>1. Unposted(tab'.note) /\ tab'.base # NoRow
          BY <3>3 DEF CopyOf, Sound
        <4>. QED
          BY <1>2, <3>3, <4>1 DEF CopyOf, Never
      <3>. QED
        BY <3>1, <3>2, <3>3 DEF Copied
    <2>. QED
      BY <1>2, <2>1 DEF ForeignInv, Sound, Reviewed
  <1>6. PutInv'
    <2>. SUFFICES ASSUME NEW s \in Slots, requests'[s].stage \in Active, requests'[s].kind = "put"
                  PROVE  <<requests'[s].note, requests'[s].base>> \in seen' \/ Never(requests[s].note)'
      BY DEF PutInv
    <2>1. PICK r \in Slots : requests'[s] = requests[r]
      BY NotesAre, CalmSlots DEF Free, Active
    <2>. QED
      BY <1>1, <2>1 DEF ShownInv, PutInv
  <1>. QED
    BY <1>4, <1>5, <1>6

\* What a step may do to the rest.
Spending == [{"text", "other", "lost", "reload", "aside", "tab"} -> Nat]
Minor ==
    /\ mic' \in {"off", "on", "finishing", "cancelling", "cancelled"}
    /\ before' = [note |-> before'.note, base |-> before'.base] /\ before'.note \in Nat /\ before'.base \in Row
    /\ prefs' \in [incognito : BOOLEAN, retain : BOOLEAN] /\ (prefs'.incognito => ~ prefs'.retain)
    /\ dialog' \in BOOLEAN /\ spent' \in Spending
    /\ latest' \in [Notes -> Nat] /\ \A m \in Notes : m > last' => latest'[m] = 0

LEMMA SpendIs == ASSUME spent \in Spending, NEW what \in {"text", "other", "lost", "reload", "aside", "tab"}, Spend(what) PROVE spent' \in Spending /\ spent.text \in Nat
  BY DEF Spending, Spend

LEMMA MinorRests ==
    ASSUME ShownInv, DraftAssumption
    PROVE  /\ UNCHANGED <<mic, before, prefs, dialog, spent, latest>> /\ last' = last => Minor
           /\ spent \in Spending /\ spent.text \in Nat /\ spent.other \in Nat
           /\ before = [note |-> before.note, base |-> before.base] /\ before.note \in Nat /\ before.base \in Row
           /\ prefs \in [incognito : BOOLEAN, retain : BOOLEAN] /\ (prefs.incognito => ~ prefs.retain)
           /\ dialog \in BOOLEAN
           /\ mic \in {"off", "on", "finishing", "cancelling", "cancelled"}
           /\ latest \in [Notes -> Nat] /\ \A m \in Notes : m > last => latest[m] = 0
  BY DEF ShownInv, DraftTypes, FreshInv, Minor, Spending

\* The newest words of a note that was given.
LEMMA LatestIs ==
    ASSUME ShownInv, DraftAssumption, NEW n \in Notes, n <= last, NEW v \in Nat
    PROVE  LET f == [latest EXCEPT ![n] = v] IN f \in [Notes -> Nat] /\ \A m \in Notes : m > last => f[m] = 0
  <1>1. last \in Nat /\ Notes \subseteq Nat
    BY NotesAre DEF ShownInv, DraftTypes
  <1>. QED
    BY <1>1, MinorRests

\* The draft is still about the same note and version.
Kept1(u, t) == u.note = t.note /\ u.of = t.of /\ u.base = t.base /\ u.pend \in {t.pend, Nothing} /\ u.about = t.about

LEMMA KeptIsSound ==
    ASSUME ShownInv, DraftAssumption, Calm, TabOk(tab'), Kept1(tab', tab), seen \subseteq seen'
    PROVE  Sound
  BY DEF ShownInv, VersionsInv, ForeignInv, Sound, Kept1, PendInv, Shown, Calm, Nothing

LEMMA ConflictStays ==
    ASSUME ShownInv, DraftAssumption, Calm, seen \subseteq seen', tab'.conflict = NoRow \/ (tab'.conflict = tab.conflict /\ tab'.about = tab.about),
           tab'.note = tab.note /\ tab'.base = tab.base
    PROVE  Reviewed
  BY DEF ShownInv, VersionsInv, ForeignInv, Reviewed, Shown, Calm

LEMMA CalmRests ==
    ASSUME ShownInv, UNCHANGED <<receipt, row, applied, revoked, requests, accepted, entries>>, last' \in Notes, last <= last'
    PROVE  Calm
  BY DEF ShownInv, DraftTypes, RequestsInv, Calm

\* Somebody else edits or deletes a note.
LEMMA CalmAccount ==
    ASSUME ShownInv, DraftAssumption, UNCHANGED <<applied, revoked, requests, accepted, entries, last>>,
           receipt' \in [Notes -> Receipt], \A n \in Notes : receipt'[n] = "none" <=> receipt[n] = "none",
           row' \in [Notes -> Row], \A n \in Notes : row'[n] = NoRow \/ row'[n] = row[n] \/ (row'[n].text <= 0 /\ row[n] # NoRow)
    PROVE  Calm
  <1>1. requests' = [s \in Slots |-> requests'[s]] /\ entries' \in [Notes -> Row] /\ last' \in Notes /\ last <= last'
    BY NotesAre DEF ShownInv, DraftTypes
  <1>2. \A n \in Notes : entries'[n] # NoRow => receipt[n] # "none"
    BY DEF ShownInv, RequestsInv
  <1>. QED
    BY <1>1, <1>2 DEF Calm

LEMMA BeforeStays ==
    ASSUME ShownInv, Calm, seen \subseteq seen'
    PROVE  /\ before' = before \/ before' = NoNote => Returns
           /\ before' = [note |-> tab.of, base |-> tab.base] /\ tab.base # NoRow => Returns
  BY DEF ShownInv, VersionsInv, Returns, Shown, Calm, NoNote

LEMMA FreshStays ==
    ASSUME ShownInv, DraftAssumption, Calm, Minor
    PROVE  FreshInv'
  <1>1. Notes \subseteq Nat /\ last \in Nat /\ last' \in Nat /\ last <= last'
    BY NotesAre DEF ShownInv, DraftTypes, Calm
  <1>. QED
    BY <1>1, CalmKeeps DEF ShownInv, FreshInv, Calm, Minor

LEMMA TypesKeep ==
    ASSUME ShownInv, DraftAssumption, Calm, Minor, TabOk(tab'), DiskOk(disk'), tab'.note <= last', disk'.note <= last',
           task' = [at |-> task'.at, op |-> task'.op, next |-> task'.next],
           task'.at \in {"idle", "call", "reread", "listing", "history"}, OpOk(task'.op)
    PROVE  DraftTypes'
  BY CalmKeeps DEF ShownInv, DraftTypes, Calm, Minor, Spending

\* Most steps change the words, the copy or the recording, and the requests go on.
LEMMA RestKeeps ==
    ASSUME ShownInv, DraftAssumption, Calm, Minor, requests' = requests, task' = task, last' = last, seen \subseteq seen',
           TabOk(tab'), Kept1(tab', tab), DiskOk(disk'), Copied, Returns,
           tab'.conflict \in {tab.conflict, NoRow},
           dialog' => dialog /\ tab'.conflict = tab.conflict /\ (tab.saved => tab'.saved)
    PROVE  ShownInv'
  <1>1. Sound /\ Reviewed
    BY KeptIsSound, ConflictStays DEF Kept1
  <1>2. tab'.note <= last' /\ disk'.note <= last'
    BY NotesAre DEF ShownInv, DraftTypes, Kept1, Copied, CopyOf, Empty
  <1>3. VersionsInv' /\ ForeignInv' /\ PutInv'
    BY <1>1, <1>2, TabKeeps
  <1>4. AccountInv' /\ RequestsInv' /\ \A n \in Notes : Unposted(n) => Unposted(n)'
    BY CalmKeeps
  <1>5. DraftTypes'
    BY <1>2, TypesKeep DEF ShownInv, DraftTypes
  <1>6. SaveInv'
    BY DEF ShownInv, SaveInv, Calm
  <1>7. ReviewInv'
    BY <1>4 DEF ShownInv, ReviewInv, Kept1, TabOk
  <1>. QED
    BY <1>3, <1>4, <1>5, <1>6, <1>7, FreshStays DEF ShownInv

-----------------------------------------------------------------------------
(* The actions that do not call.                                           *)

\* What every action finds.
LEMMA StateIs ==
    ASSUME ShownInv, DraftAssumption
    PROVE  /\ TabOk(tab) /\ DiskOk(disk) /\ tab.note \in Notes /\ last \in Notes /\ last \in Nat /\ tab.note \in Nat
           /\ tab.note <= last /\ disk.note <= last /\ CopyOf(tab, tab)
           /\ tab.of \in Nat /\ tab.base \in Row /\ disk.note \in Nat
           /\ DiskOk(Empty) /\ Empty.note = 0
  <1>1. TabOk(tab) /\ DiskOk(disk) /\ last \in Notes /\ tab.note <= last /\ disk.note <= last
    BY DEF ShownInv, DraftTypes
  <1>2. tab.note \in Notes /\ tab.of \in Nat /\ tab.base \in Row
    BY <1>1 DEF TabOk
  <1>3. disk.note \in Nat
    BY <1>1, NotesAre DEF DiskOk
  <1>4. Empty.note = 0 /\ CopyOf(tab, tab)
    BY DEF Empty, CopyOf
  <1>. QED
    BY <1>1, <1>2, <1>3, <1>4, NotesAre, NothingIs

\* What is done to a draft before it is stored or sent.
LEMMA TypedIs ==
    ASSUME NEW t, TabOk(t), NEW x \in Int
    PROVE  LET u == [t EXCEPT !.text = x, !.saved = FALSE, !.unstored = TRUE] IN
           TabOk(u) /\ Kept1(u, t) /\ u.conflict = t.conflict /\ u.note = t.note
  BY DEF TabOk, Kept1

LEMMA EmptiedIs ==
    ASSUME NEW t, TabOk(t)
    PROVE  LET u == [t EXCEPT !.text = 0] IN TabOk(u) /\ Kept1(u, t) /\ u.conflict = t.conflict /\ u.saved = t.saved
  BY DEF TabOk, Kept1

LEMMA SavedIs ==
    ASSUME NEW t, TabOk(t)
    PROVE  LET u == [t EXCEPT !.saved = TRUE] IN TabOk(u) /\ Kept1(u, t) /\ u.conflict = t.conflict /\ u.saved
  BY DEF TabOk, Kept1

LEMMA GoneIs ==
    ASSUME NEW t, TabOk(t)
    PROVE  LET u == [t EXCEPT !.deleted = TRUE, !.saved = TRUE, !.pend = Nothing] IN
           TabOk(u) /\ Kept1(u, t) /\ u.conflict = t.conflict /\ u.saved
  BY NothingIs DEF TabOk, Kept1

LEMMA StoredCopy ==
    ASSUME ShownInv, DraftAssumption, NEW t, TabOk(t), NEW p, disk' = Snapshot(t, p), CopyOf(t, tab')
    PROVE  DiskOk(disk') /\ Copied
  BY SnapshotIs, NothingIs DEF CopyOf, Copied

LEMMA TypeKeeps == ASSUME ShownInv, DraftAssumption, Type PROVE ShownInv'
  <1>. DEFINE t == [tab EXCEPT !.text = spent.text + 1, !.saved = FALSE, !.unstored = TRUE]
  <1>1. spent.text \in Nat /\ TabOk(t) /\ Kept1(t, tab) /\ t.conflict = tab.conflict /\ t.note = tab.note
    <2>1. spent.text \in Nat /\ spent.text + 1 \in Int /\ TabOk(tab)
      BY MinorRests, StateIs
    <2>. QED
      BY <2>1, TypedIs
  <1>2. TabOk(tab') /\ Kept1(tab', tab) /\ tab'.conflict = tab.conflict
    <2>. HIDE DEF t
    <2>1. tab' = Scheduled(t, mic, prefs)
      BY DEF Type, t
    <2>. QED
      BY <1>1, <2>1, ScheduledIs, MinorRests DEF Alike, Kept1
  <1>3. Calm /\ Minor
    BY <1>1, CalmRests, MinorRests, StateIs, LatestIs, SpendIs DEF Type, hosted, Minor
  <1>4. Returns /\ Copied /\ DiskOk(disk')
    BY <1>3, BeforeStays, StateIs DEF Type, Copied
  <1>. QED
    BY <1>2, <1>3, <1>4, RestKeeps DEF Type, hosted

LEMMA StoresKeeps == ASSUME ShownInv, DraftAssumption, Stores PROVE ShownInv'
  <1>1. TabOk(tab') /\ Kept1(tab', tab) /\ tab'.conflict = tab.conflict /\ tab'.saved = tab.saved /\ CopyOf(tab, tab')
    BY StateIs DEF Stores, TabOk, Kept1, CopyOf
  <1>2. Calm /\ Minor
    BY CalmRests, MinorRests, StateIs DEF Stores, hosted
  <1>3. Returns /\ Copied /\ DiskOk(disk')
    BY <1>1, <1>2, BeforeStays, StateIs, StoredCopy DEF Stores
  <1>. QED
    BY <1>1, <1>2, <1>3, RestKeeps DEF Stores, hosted

LEMMA SegmentKeeps == ASSUME ShownInv, DraftAssumption, Segment PROVE ShownInv'
  <1>1. TabOk(tab') /\ Kept1(tab', tab) /\ tab'.conflict = tab.conflict /\ tab'.saved = tab.saved /\ CopyOf(tab', tab')
    BY StateIs, MinorRests DEF Segment, Says, TabOk, Kept1, CopyOf
  <1>2. Calm /\ Minor
    BY CalmRests, MinorRests, StateIs, LatestIs, SpendIs DEF Segment, Says, hosted, Minor
  <1>3. Returns /\ Copied /\ DiskOk(disk')
    BY <1>1, <1>2, BeforeStays, StateIs, StoredCopy DEF Segment, Says
  <1>. QED
    BY <1>1, <1>2, <1>3, RestKeeps DEF Segment, Says, hosted

LEMMA StopsSpeakingKeeps == ASSUME ShownInv, DraftAssumption, StopsSpeaking PROVE ShownInv'
  <1>1. TabOk(tab') /\ Kept1(tab', tab)
    BY StateIs DEF StopsSpeaking, Kept1
  <1>2. Calm /\ Minor
    BY CalmRests, MinorRests, StateIs DEF StopsSpeaking, hosted, Minor
  <1>3. Returns /\ Copied /\ DiskOk(disk')
    BY <1>2, BeforeStays, StateIs DEF StopsSpeaking, Copied
  <1>. QED
    BY <1>1, <1>2, <1>3, RestKeeps DEF StopsSpeaking, hosted

LEMMA CancelStopsKeeps == ASSUME ShownInv, DraftAssumption, CancelStops PROVE ShownInv'
  <1>1. TabOk(tab') /\ Kept1(tab', tab) /\ CopyOf(tab, tab')
    BY StateIs DEF CancelStops, Kept1, CopyOf
  <1>2. Calm /\ Minor
    BY CalmRests, MinorRests, StateIs DEF CancelStops, hosted, Minor
  <1>3. Returns /\ Copied /\ DiskOk(disk')
    BY <1>1, <1>2, BeforeStays, StateIs, StoredCopy DEF CancelStops
  <1>. QED
    BY <1>1, <1>2, <1>3, RestKeeps DEF CancelStops, hosted

LEMMA LaterKeeps == ASSUME ShownInv, DraftAssumption, Later PROVE ShownInv'
  <1>1. TabOk(tab') /\ Kept1(tab', tab)
    BY StateIs DEF Later, Kept1
  <1>2. Calm /\ Minor
    <2>1. Calm
      BY CalmRests, StateIs DEF Later, hosted
    <2>2. dialog' \in BOOLEAN
      BY DEF Later
    <2>. QED
      BY <2>1, <2>2, MinorRests DEF Later, Minor
  <1>3. Returns /\ Copied /\ DiskOk(disk')
    BY <1>2, BeforeStays, StateIs DEF Later, Copied
  <1>. QED
    BY <1>1, <1>2, <1>3, RestKeeps DEF Later, hosted

LEMMA OtherTabKeeps == ASSUME ShownInv, DraftAssumption, OtherTab PROVE ShownInv'
  <1>1. TabOk(tab') /\ Kept1(tab', tab)
    BY StateIs DEF OtherTab, Kept1
  <1>2. Calm /\ Minor
    BY CalmRests, MinorRests, StateIs, SpendIs DEF OtherTab, hosted, Minor
  <1>3. Returns /\ Copied /\ DiskOk(disk')
    BY <1>2, BeforeStays, StateIs DEF OtherTab, Copied
  <1>. QED
    BY <1>1, <1>2, <1>3, RestKeeps DEF OtherTab, hosted

LEMMA RetainKeeps == ASSUME ShownInv, DraftAssumption, Retain PROVE ShownInv'
  <1>1. prefs' \in [incognito : BOOLEAN, retain : BOOLEAN] /\ (prefs'.incognito => ~ prefs'.retain)
    BY MinorRests DEF Retain
  <1>2. TabOk(tab') /\ Kept1(tab', tab) /\ tab'.conflict = tab.conflict /\ tab'.saved = tab.saved /\ CopyOf(tab, tab')
    BY <1>1, StateIs, ScheduledIs DEF Retain, Alike, Kept1, CopyOf
  <1>3. Calm /\ Minor
    BY <1>1, CalmRests, MinorRests, StateIs DEF Retain, hosted, Minor
  <1>4. Returns /\ Copied /\ DiskOk(disk')
    BY <1>2, <1>3, BeforeStays, StateIs, StoredCopy DEF Retain
  <1>. QED
    BY <1>2, <1>3, <1>4, RestKeeps DEF Retain, hosted

LEMMA IncognitoKeeps == ASSUME ShownInv, DraftAssumption, Incognito PROVE ShownInv'
  <1>1. prefs' \in [incognito : BOOLEAN, retain : BOOLEAN] /\ (prefs'.incognito => ~ prefs'.retain)
    <2>1. CASE prefs.incognito
      BY <2>1, MinorRests DEF Incognito
    <2>2. CASE ~ prefs.incognito
      <3>1. prefs' = [incognito |-> TRUE, retain |-> FALSE]
        BY <2>2, Zenon DEF Incognito
      <3>. QED
        BY <3>1
    <2>. QED
      BY <2>1, <2>2
  <1>2. TabOk(tab') /\ Kept1(tab', tab) /\ tab'.conflict \in {tab.conflict, NoRow}
    BY StateIs, NothingIs DEF Incognito, Kept1, TabOk
  <1>3. Calm /\ Minor
    BY <1>1, CalmRests, MinorRests, StateIs, LatestIs, SpendIs DEF Incognito, hosted, Minor
  <1>4. Returns /\ Copied /\ DiskOk(disk')
    BY <1>3, BeforeStays, StateIs DEF Incognito, Copied
  <1>. QED
    BY <1>2, <1>3, <1>4, RestKeeps DEF Incognito, hosted

LEMMA ContinueKeeps == ASSUME ShownInv, DraftAssumption, Continue PROVE ShownInv'
  <1>1. TabOk(tab') /\ Kept1(tab', tab) /\ tab'.conflict = tab.conflict
    BY StateIs, NothingIs DEF Continue, Kept1, TabOk
  <1>2. Calm /\ Minor
    BY CalmRests, MinorRests, StateIs, SpendIs DEF Continue, hosted, Minor
  <1>3. Returns /\ Copied /\ DiskOk(disk')
    BY <1>2, BeforeStays, StateIs DEF Continue, Copied
  <1>. QED
    BY <1>1, <1>2, <1>3, RestKeeps DEF Continue, hosted

LEMMA CancelKeeps == ASSUME ShownInv, DraftAssumption, Cancel PROVE ShownInv'
  <1>1. \/ UNCHANGED <<tab, before, disk, latest>>
        \/ \E t : /\ TabOk(t) /\ Kept1(t, tab) /\ t.conflict = tab.conflict /\ (tab.saved => t.saved)
                  /\ tab' = t /\ before' = NoNote /\ disk' = Snapshot(t, prefs) /\ latest' = [latest EXCEPT ![tab.note] = 0]
    <2>. DEFINE t == IF before = NoNote THEN [tab EXCEPT !.text = 0] ELSE [tab EXCEPT !.saved = TRUE]
    <2>1. TabOk(t) /\ Kept1(t, tab) /\ t.conflict = tab.conflict /\ (tab.saved => t.saved)
      BY StateIs, EmptiedIs, SavedIs
    <2>. QED
      BY <2>1 DEF Cancel, Thrown
  <1>2. TabOk(tab') /\ Kept1(tab', tab) /\ tab'.conflict = tab.conflict /\ (tab.saved => tab'.saved)
    BY <1>1, StateIs DEF Kept1
  <1>3. Calm /\ Minor
    <2>1. Calm
      BY CalmRests, StateIs DEF Cancel, hosted
    <2>2. before' = [note |-> before'.note, base |-> before'.base] /\ before'.note \in Nat /\ before'.base \in Row
      BY <1>1, MinorRests, NothingIs DEF NoNote
    <2>3. latest' \in [Notes -> Nat] /\ \A m \in Notes : m > last => latest'[m] = 0
      BY <1>1, MinorRests, StateIs, LatestIs
    <2>. QED
      BY <2>1, <2>2, <2>3, MinorRests DEF Cancel, Minor
  <1>4. Returns /\ Copied /\ DiskOk(disk')
    <2>1. CopyOf(tab', tab')
      BY DEF CopyOf
    <2>. QED
      BY <1>1, <1>3, <2>1, BeforeStays, StateIs, StoredCopy DEF Cancel, Copied
  <1>. QED
    BY <1>2, <1>3, <1>4, RestKeeps DEF Cancel, hosted

LEMMA OtherEditsKeeps == ASSUME ShownInv, DraftAssumption, NEW n \in Notes, OtherEdits(n) PROVE ShownInv'
  <1>1. TabOk(tab') /\ Kept1(tab', tab)
    BY StateIs DEF OtherEdits, Kept1
  <1>2. Calm
    <2>1. row' \in [Notes -> Row] /\ \A m \in Notes : row'[m] = NoRow \/ row'[m] = row[m] \/ (row'[m].text <= 0 /\ row[m] # NoRow)
      <3>1. row[n].rev \in Nat /\ row \in [Notes -> Row]
        BY DEF ShownInv, DraftTypes, Row
      <3>2. LET new == [rev |-> row[n].rev + 1, text |-> - (spent.other + 1)] IN
            row' = [row EXCEPT ![n] = new] /\ new \in Row /\ new.text <= 0 /\ row[n] # NoRow
        <4>1. - (spent.other + 1) \in Int /\ - (spent.other + 1) <= 0
          BY MinorRests
        <4>2. row' = [row EXCEPT ![n] = [rev |-> row[n].rev + 1, text |-> - (spent.other + 1)]] /\ row[n] # NoRow
          BY <3>1 DEF OtherEdits
        <4>. QED
          BY <3>1, <4>1, <4>2 DEF Row
      <3>. QED
        BY <3>1, <3>2
    <2>2. receipt' = receipt /\ requests' = requests /\ applied' = applied /\ revoked' = revoked /\ entries' = entries
          /\ accepted' = accepted /\ last' = last
      BY DEF OtherEdits
    <2>. QED
      BY <2>1, <2>2, CalmAccount DEF ShownInv, DraftTypes
  <1>3. Minor
    BY MinorRests, SpendIs DEF OtherEdits, Minor
  <1>4. Returns /\ Copied /\ DiskOk(disk')
    BY <1>2, BeforeStays, StateIs DEF OtherEdits, Copied
  <1>. QED
    BY <1>1, <1>2, <1>3, <1>4, RestKeeps DEF OtherEdits

LEMMA DeletesKeeps == ASSUME ShownInv, DraftAssumption, NEW n \in Notes, NEW told \in BOOLEAN, Deletes(n, told) PROVE ShownInv'
  <1>. DEFINE t == [tab EXCEPT !.deleted = TRUE, !.saved = TRUE, !.pend = Nothing]
  <1>1. TabOk(t) /\ Kept1(t, tab) /\ t.conflict = tab.conflict /\ t.saved
    BY StateIs, GoneIs
  <1>2. (tab' = t /\ disk' = Snapshot(t, prefs)) \/ UNCHANGED <<tab, disk>>
    BY DEF Deletes
  <1>. HIDE DEF t
  <1>3. TabOk(tab') /\ Kept1(tab', tab) /\ tab'.conflict = tab.conflict /\ (tab.saved => tab'.saved)
    BY <1>1, <1>2, StateIs DEF Kept1
  <1>4. receipt[n] # "none"
    BY DEF Deletes, ShownInv, AccountInv
  <1>5. Calm
    <2>1. receipt' \in [Notes -> Receipt] /\ \A m \in Notes : receipt'[m] = "none" <=> receipt[m] = "none"
      BY <1>4 DEF Deletes, ShownInv, DraftTypes, Receipt
    <2>2. row' \in [Notes -> Row] /\ \A m \in Notes : row'[m] = NoRow \/ row'[m] = row[m]
      BY NothingIs DEF Deletes, ShownInv, DraftTypes
    <2>3. requests' = requests /\ applied' = applied /\ revoked' = revoked /\ entries' = entries
          /\ accepted' = accepted /\ last' = last
      BY DEF Deletes
    <2>. QED
      BY <2>1, <2>2, <2>3, CalmAccount
  <1>6. Minor
    <2>1. latest' \in [Notes -> Nat] /\ \A m \in Notes : m > last' => latest'[m] = 0
      BY MinorRests DEF Deletes
    <2>. QED
      BY <2>1, MinorRests, SpendIs DEF Deletes, Minor
  <1>7. Returns /\ Copied /\ DiskOk(disk')
    <2>1. CopyOf(tab', tab')
      BY DEF CopyOf
    <2>. QED
      BY <1>1, <1>2, <1>5, <2>1, BeforeStays, StateIs, StoredCopy DEF Deletes, Copied
  <1>. QED
    BY <1>3, <1>5, <1>6, <1>7, RestKeeps DEF Deletes

-----------------------------------------------------------------------------
(* Leaving a draft.                                                        *)

\* A step after which no save is on its way, or the save goes on as before.
LEMMA SettleKeeps ==
    ASSUME ShownInv, DraftAssumption, Calm, Minor, Sound, Copied, Reviewed, Returns, seen \subseteq seen',
           TabOk(tab'), DiskOk(disk'), tab'.note <= last',
           task' = [at |-> task'.at, op |-> task'.op, next |-> task'.next],
           task'.at \in {"idle", "call", "reread", "listing", "history"}, OpOk(task'.op), SaveInv', ReviewInv'
    PROVE  ShownInv'
  <1>1. disk'.note <= last'
    <2>1. last \in Nat /\ last' \in Nat /\ last <= last' /\ disk.note <= last /\ disk.note \in Nat /\ Empty.note = 0
      BY StateIs, NotesAre DEF Calm
    <2>. QED
      BY <2>1 DEF Copied, CopyOf
  <1>. QED
    BY <1>1, CalmKeeps, TabKeeps, FreshStays, TypesKeep DEF ShownInv

\* What a draft t becomes when the tab goes on.
Began(t) ==
    /\ tab'.note = last' /\ last' = last + 1 /\ tab'.base = NoRow /\ tab'.pend = Nothing /\ ~ tab'.saved /\ tab'.text = 0
    /\ tab'.about = t.about /\ tab'.conflict = t.conflict
OpenedOne ==
    /\ tab'.of = tab'.note /\ tab'.base # NoRow /\ tab'.pend = Nothing /\ tab'.saved /\ tab'.conflict = NoRow
    /\ receipt[tab'.note] # "none" /\ <<tab'.note, tab'.base.rev>> \in seen'
Goes(t, shown) ==
    /\ TabOk(tab') /\ last' \in Notes /\ last <= last' /\ tab'.note <= last' /\ seen \cup shown \subseteq seen'
    /\ disk' \in {disk, Empty} /\ before' \in {before, NoNote} /\ mic' \in {mic, "on"}
    /\ \/ Alike(tab', t) /\ tab'.pend = t.pend /\ last' = last
       \/ Began(t) \/ OpenedOne

LEMMA BegunIs ==
    ASSUME NEW n \in Notes, NEW t, TabOk(t)
    PROVE  LET u == [Blank(n) EXCEPT !.about = t.about, !.conflict = t.conflict, !.unstored = t.unstored] IN
           /\ TabOk(u) /\ u.note = n /\ u.base = NoRow /\ u.pend = Nothing /\ ~ u.saved /\ u.text = 0 /\ u.about = t.about
           /\ u.conflict = t.conflict
  <1>. DEFINE b == Blank(n)
  <1>1. TabOk(b) /\ b.note = n /\ b.text = 0 /\ b.base = NoRow /\ b.pend = Nothing /\ ~ b.saved
    BY BlankIs
  <1>. HIDE DEF b
  <1>2. LET u == [b EXCEPT !.about = t.about, !.conflict = t.conflict, !.unstored = t.unstored] IN
        /\ TabOk(u) /\ u.note = n /\ u.base = NoRow /\ u.pend = Nothing /\ ~ u.saved /\ u.text = 0 /\ u.about = t.about
        /\ u.conflict = t.conflict
    BY <1>1 DEF TabOk
  <1>. QED
    BY <1>2 DEF b

LEMMA MovesGo ==
    ASSUME ShownInv, DraftAssumption, NEW t, TabOk(t), NEW next, NEW shown, Moves(t, next, shown)
    PROVE  Goes(t, shown)
  <1>1. last \in Nat /\ last \in Notes
    BY StateIs
  <1>2. CASE next \in {New, Dictate} /\ last + 1 \in Notes /\ last' = last + 1
             /\ tab' = [Blank(last + 1) EXCEPT !.about = t.about, !.conflict = t.conflict, !.unstored = t.unstored]
             /\ disk' \in {disk, Empty} /\ before' \in {before, NoNote} /\ mic' \in {mic, "on"} /\ seen' = seen \cup shown
    <2>1. Began(t) /\ TabOk(tab')
      BY <1>2, BegunIs DEF Began
    <2>. QED
      BY <1>1, <1>2, <2>1 DEF Goes, Began
  <1>3. CASE next \in Notes /\ entries[next] # NoRow /\ tab' = Opened(next, entries[next], t.unstored)
             /\ seen' = seen \cup shown \cup {<<next, entries[next].rev>>} /\ UNCHANGED <<disk, mic, before, last>>
    <2>1. entries[next] \in Row /\ t.unstored \in BOOLEAN /\ receipt[next] # "none"
      BY <1>3 DEF ShownInv, DraftTypes, RequestsInv, TabOk
    <2>2. TabOk(tab') /\ OpenedOne /\ tab'.note = next
      BY <1>3, <2>1, OpenedIs DEF OpenedOne
    <2>3. next <= last
      BY <1>1, <1>3, <2>1, NotesAre DEF ShownInv, FreshInv
    <2>. QED
      BY <1>1, <1>3, <2>2, <2>3 DEF Goes
  <1>. QED
    BY <1>2, <1>3 DEF Moves, New, Dictate

LEMMA SaveEndsGoes ==
    ASSUME ShownInv, DraftAssumption, NEW t, TabOk(t), t.note = tab.note, NEW shown, SaveEnds(t, shown)
    PROVE  Goes(t, shown) /\ task' = Idle
  <1>. DEFINE s == IF ~ t.saved /\ ~ t.timer THEN Scheduled(t, mic, prefs) ELSE t
  <1>1. TabOk(s) /\ Alike(s, t) /\ s.pend = t.pend
    BY ScheduledIs, MinorRests DEF Alike
  <1>2. (IF t.saved /\ task.next # Stay THEN Moves(s, task.next, shown)
         ELSE tab' = s /\ seen' = seen \cup shown /\ UNCHANGED <<disk, mic, before, last>>) /\ task' = Idle
    BY DEF SaveEnds
  <1>. HIDE DEF s
  <1>3. CASE Moves(s, task.next, shown)
    <2>1. Goes(s, shown)
      BY <1>1, <1>3, MovesGo
    <2>. QED
      BY <1>1, <1>2, <2>1 DEF Goes, Alike, Began
  <1>4. CASE tab' = s /\ seen' = seen \cup shown /\ UNCHANGED <<disk, mic, before, last>>
    BY <1>1, <1>2, <1>4, StateIs DEF Goes, Alike
  <1>. QED
    BY <1>2, <1>3, <1>4

\* The draft t that is left is the one of the tab, after an answer about it.
AfterAnswer(t) ==
    /\ TabOk(t) /\ t.note = tab.note /\ t.of = tab.of /\ t.base = tab.base /\ t.pend \in {tab.pend, Nothing}
    /\ t.conflict # NoRow => /\ t.about \in Notes /\ <<t.about, t.conflict.rev>> \in seen' /\ receipt[t.about] # "none"
                             /\ t.about # t.note => tab.base = NoRow /\ Unposted(tab.note)

LEMMA NewIsUnposted ==
    ASSUME ShownInv, DraftAssumption, NEW n \in Notes, n > last
    PROVE  Unposted(n)
  <1>1. receipt[n] = "none"
    BY DEF ShownInv, FreshInv
  <1>2. \A s \in Slots : requests[s].stage \in Active => requests[s].note <= last /\ requests[s].note \in Nat
    BY NotesAre DEF ShownInv, FreshInv, DraftTypes, Request1, ActiveReq, AnsweredReq, Free, Active
  <1>3. n \in Nat /\ last \in Nat
    BY StateIs, NotesAre
  <1>. QED
    BY <1>1, <1>2, <1>3 DEF Unposted, Posts

LEMMA GoesKeeps ==
    ASSUME ShownInv, DraftAssumption, Calm, Minor, NEW t, AfterAnswer(t), NEW shown, Goes(t, shown),
           task' = [at |-> task'.at, op |-> task'.op, next |-> task'.next], task'.at = "idle", OpOk(task'.op),
           requests'["call"] = Free,
           dialog' => t.conflict # NoRow /\ (tab.base # NoRow => tab.of = tab.note)
    PROVE  ShownInv'
  <1>1. \A n \in Notes : receipt[n] # "none" => receipt'[n] # "none"
    BY DEF Calm
  <1>2. \A n \in Notes : Unposted(n) => Unposted(n)'
    BY CalmKeeps
  <1>3. seen \subseteq seen' /\ TabOk(tab') /\ tab'.note \in Notes
    BY DEF Goes, TabOk
  <1>4. Returns /\ Copied /\ DiskOk(disk')
    BY <1>3, BeforeStays, StateIs DEF Goes, Copied
  <1>5. SaveInv'
    BY DEF SaveInv
  <1>6. CASE Alike(tab', t) /\ tab'.pend = t.pend /\ last' = last
    <2>1. Sound
      BY <1>1, <1>3, <1>6 DEF Alike, AfterAnswer, Sound, ShownInv, VersionsInv, ForeignInv, PendInv, Shown, Nothing
    <2>2. Reviewed
      BY <1>1, <1>2, <1>6 DEF Alike, AfterAnswer, Reviewed, Shown
    <2>3. ReviewInv'
      BY <1>6 DEF ReviewInv, Alike, AfterAnswer
    <2>. QED
      BY <1>3, <1>4, <1>5, <2>1, <2>2, <2>3, SettleKeeps DEF Goes
  <1>7. CASE Began(t)
    <2>1. tab'.note > last /\ Unposted(tab'.note)
      BY <1>3, <1>7, StateIs, NewIsUnposted DEF Began
    <2>2. Sound
      BY <1>7, <2>1 DEF Began, Sound, Shown, PendInv
    <2>3. Reviewed
      BY <1>1, <1>2, <1>3, <1>7, <2>1 DEF Began, AfterAnswer, Reviewed, Shown
    <2>4. ReviewInv'
      BY <1>7 DEF ReviewInv, Began
    <2>. QED
      BY <1>3, <1>4, <1>5, <2>2, <2>3, <2>4, SettleKeeps DEF Goes
  <1>8. CASE OpenedOne
    <2>1. Sound
      BY <1>1, <1>3, <1>8 DEF OpenedOne, Sound, Shown, PendInv
    <2>2. Reviewed /\ ReviewInv'
      BY <1>8 DEF OpenedOne, Reviewed, ReviewInv
    <2>. QED
      BY <1>3, <1>4, <1>5, <2>1, <2>2, SettleKeeps DEF Goes
  <1>. QED
    BY <1>6, <1>7, <1>8 DEF Goes

LEMMA GoesMinor ==
    ASSUME ShownInv, DraftAssumption, NEW t, NEW shown, Goes(t, shown), UNCHANGED <<prefs, latest>>, spent' \in Spending,
           dialog' \in BOOLEAN
    PROVE  Minor
  <1>1. Notes \subseteq Nat /\ last \in Nat /\ last' \in Nat /\ last <= last'
    BY NotesAre, StateIs DEF Goes
  <1>2. \A m \in Notes : m > last' => latest'[m] = 0
    BY <1>1, MinorRests
  <1>. QED
    BY <1>2, MinorRests, NothingIs DEF Goes, Minor, NoNote

\* What the tab itself does to its requests.
Calls ==
    \/ requests' = requests
    \/ requests' = Free1("call") \/ requests' = Free1("list")
    \/ requests' = [requests EXCEPT !["list"] = Request("list", 1, Me, 0, 0, 0)]
    \/ requests' = [requests EXCEPT !["call"] = Request("get", tab.note, Me, 0, 0, 0)]

LEMMA CalmCalls ==
    ASSUME ShownInv, DraftAssumption, UNCHANGED <<Tables, accepted>>, Calls, last' \in Notes, last <= last',
           entries' \in [Notes -> Row], \A n \in Notes : entries'[n] # NoRow => receipt[n] # "none"
    PROVE  Calm
  <1>1. requests = [s \in Slots |-> requests[s]] /\ "call" \in Slots /\ "list" \in Slots
    BY NotesAre DEF ShownInv, DraftTypes
  <1>2. requests' = [s \in Slots |-> requests'[s]]
    <2>1. CASE requests' = requests
      BY <1>1, <2>1
    <2>2. ASSUME NEW x, NEW y, requests' = [requests EXCEPT ![x] = y] PROVE requests' = [s \in Slots |-> requests'[s]]
      <3>1. requests' = [s \in Slots |-> IF s = x THEN y ELSE requests[s]]
        BY <1>1, <2>2
      <3>. QED
        BY <3>1
    <2>. QED
      BY <2>1, <2>2 DEF Calls, Free1
  <1>3. \A s \in Slots : \/ requests'[s] = requests[s] \/ requests'[s] = Free
                         \/ s = "list" /\ requests'[s] = Request("list", 1, Me, 0, 0, 0)
                         \/ s = "call" /\ requests'[s] = Request("get", tab.note, Me, 0, 0, 0)
    <2>1. ASSUME NEW x, NEW y, requests' = [requests EXCEPT ![x] = y]
          PROVE  \A s \in Slots : requests'[s] = requests[s] \/ (s = x /\ requests'[s] = y)
      BY <1>1, <2>1
    <2>2. CASE requests' = requests
      BY <2>2
    <2>3. CASE requests' = [requests EXCEPT !["call"] = Free] \/ requests' = [requests EXCEPT !["list"] = Free]
      BY <2>1, <2>3
    <2>4. CASE requests' = [requests EXCEPT !["list"] = Request("list", 1, Me, 0, 0, 0)]
      BY <2>1, <2>4
    <2>5. CASE requests' = [requests EXCEPT !["call"] = Request("get", tab.note, Me, 0, 0, 0)]
      BY <2>1, <2>5
    <2>. QED
      BY <2>2, <2>3, <2>4, <2>5 DEF Calls, Free1
  <1>4. receipt \in [Notes -> Receipt] /\ row \in [Notes -> Row]
    BY DEF ShownInv, DraftTypes
  <1>. QED
    BY <1>2, <1>3, <1>4 DEF Calm, Tables

LEMMA EntriesAre == ASSUME ShownInv PROVE entries \in [Notes -> Row] /\ \A n \in Notes : entries[n] # NoRow => receipt[n] # "none"
  BY DEF ShownInv, DraftTypes, RequestsInv

LEMMA TabAnswers ==
    ASSUME ShownInv, seen \subseteq seen', NEW t, TabOk(t), t.note = tab.note, t.of = tab.of, t.base = tab.base, t.pend \in {tab.pend, Nothing},
           t.about = tab.about, t.conflict = tab.conflict
    PROVE  AfterAnswer(t)
  BY DEF AfterAnswer, ShownInv, VersionsInv, ForeignInv, Shown

\* A save ends and its request is free.
LEMMA EndKeeps ==
    ASSUME ShownInv, DraftAssumption, Saving, NEW t, NEW shown, SaveEnds(t, shown),
           TabOk(t), t.note = tab.note, t.of = tab.of, t.base = tab.base, t.pend \in {tab.pend, Nothing},
           t.about = tab.about, t.conflict = tab.conflict,
           UNCHANGED <<prefs, latest, dialog>>, spent' \in Spending,
           last' \in Notes /\ last <= last' => Calm, requests'["call"] = Free
    PROVE  ShownInv'
  <1>1. Goes(t, shown) /\ task' = Idle
    BY SaveEndsGoes
  <1>2. ~ dialog /\ dialog' = dialog
    BY DEF ShownInv, ReviewInv, Saving
  <1>3. Calm
    BY <1>1 DEF Goes
  <1>4. Minor
    BY <1>1, <1>2, GoesMinor, MinorRests
  <1>5. AfterAnswer(t)
    BY <1>1, TabAnswers DEF Goes
  <1>6. task' = [at |-> task'.at, op |-> task'.op, next |-> task'.next] /\ task'.at = "idle" /\ OpOk(task'.op)
    BY <1>1, NothingIs DEF Idle
  <1>. QED
    BY <1>1, <1>2, <1>3, <1>4, <1>5, <1>6, GoesKeeps

LEMMA LeaveMoves ==
    ASSUME ShownInv, DraftAssumption, NEW next, ~ dialog, ~ Saving, Moves([tab EXCEPT !.timer = FALSE], next, {}),
           UNCHANGED <<prefs, load, entries, dialog, spent, latest, Tables, accepted, task, requests>>
    PROVE  ShownInv'
  <1>. DEFINE t == [tab EXCEPT !.timer = FALSE]
  <1>1. TabOk(t) /\ Kept1(t, tab) /\ t.conflict = tab.conflict /\ t.pend = tab.pend
    BY StateIs DEF TabOk, Kept1
  <1>. HIDE DEF t
  <1>2. Goes(t, {})
    <2>1. Moves(t, next, {})
      BY DEF t
    <2>. QED
      BY <1>1, <2>1, MovesGo
  <1>3. Calm
    BY <1>2, CalmCalls, EntriesAre DEF Goes, Calls
  <1>4. Minor
    BY <1>2, GoesMinor, MinorRests
  <1>5. AfterAnswer(t)
    BY <1>1, <1>2, TabAnswers DEF Goes, Kept1
  <1>6. task' = [at |-> task'.at, op |-> task'.op, next |-> task'.next] /\ task'.at = "idle" /\ OpOk(task'.op)
        /\ requests'["call"] = Free /\ dialog' = FALSE
    BY MinorRests DEF ShownInv, DraftTypes, SaveInv, Saving
  <1>. QED
    BY <1>2, <1>3, <1>4, <1>5, <1>6, GoesKeeps

LEMMA ClearedIs ==
    ASSUME NEW n \in Notes, NEW t, TabOk(t)
    PROVE  LET u == [Blank(n) EXCEPT !.about = t.about, !.conflict = t.conflict] IN
           /\ TabOk(u) /\ u.note = n /\ u.base = NoRow /\ u.pend = Nothing /\ ~ u.saved /\ u.text = 0 /\ u.about = t.about
           /\ u.conflict = t.conflict
  <1>. DEFINE b == Blank(n)
  <1>1. TabOk(b) /\ b.note = n /\ b.text = 0 /\ b.base = NoRow /\ b.pend = Nothing /\ ~ b.saved
    BY BlankIs
  <1>. HIDE DEF b
  <1>2. LET u == [b EXCEPT !.about = t.about, !.conflict = t.conflict] IN
        /\ TabOk(u) /\ u.note = n /\ u.base = NoRow /\ u.pend = Nothing /\ ~ u.saved /\ u.text = 0 /\ u.about = t.about
        /\ u.conflict = t.conflict
    BY <1>1 DEF TabOk
  <1>. QED
    BY <1>2 DEF b

LEMMA ClearKeeps == ASSUME ShownInv, DraftAssumption, Clear PROVE ShownInv'
  <1>1. last \in Nat /\ last + 1 \in Notes /\ last' = last + 1 /\ last <= last' /\ last + 1 > last /\ TabOk(tab)
    BY StateIs DEF Clear
  <1>2. TabOk(tab') /\ tab'.note = last + 1 /\ tab'.base = NoRow /\ tab'.pend = Nothing
        /\ tab'.conflict = tab.conflict /\ tab'.about = tab.about
    BY <1>1, ClearedIs DEF Clear
  <1>3. Calm
    BY <1>1, CalmRests DEF Clear, hosted
  <1>4. Unposted(tab'.note) /\ Unposted(tab.note)' /\ tab'.note > last
    <2>1. tab'.note \in Notes /\ tab'.note > last
      BY <1>1, <1>2
    <2>2. Unposted(tab'.note)
      BY <2>1, NewIsUnposted
    <2>. QED
      BY <2>1, <2>2, <1>3, CalmKeeps
  <1>5. Minor
    <2>1. latest' \in [Notes -> Nat] /\ \A m \in Notes : m > last => latest'[m] = 0
      BY StateIs, LatestIs DEF Clear
    <2>2. \A m \in Notes : m > last' => m > last
      BY <1>1, NotesAre
    <2>. QED
      BY <2>1, <2>2, MinorRests DEF Clear, Minor
  <1>6. Sound /\ Copied /\ Reviewed /\ Returns /\ DiskOk(disk') /\ seen \subseteq seen'
    <2>1. Sound
      BY <1>2, <1>4 DEF Sound, Shown, PendInv
    <2>2. Reviewed
      BY <1>2, <1>3, <1>4 DEF Reviewed, ShownInv, VersionsInv, Shown, Calm, Clear
    <2>. QED
      BY <1>3, <2>1, <2>2, BeforeStays, StateIs DEF Clear, Copied
  <1>7. SaveInv' /\ ReviewInv'
    BY <1>2, <1>4 DEF Clear, hosted, ShownInv, SaveInv, ReviewInv
  <1>8. task' = task /\ task' = [at |-> task'.at, op |-> task'.op, next |-> task'.next]
        /\ task'.at \in {"idle", "call", "reread", "listing", "history"} /\ OpOk(task'.op) /\ tab'.note <= last'
    BY <1>1, <1>2 DEF Clear, ShownInv, DraftTypes
  <1>. QED
    BY <1>2, <1>3, <1>5, <1>6, <1>7, <1>8, SettleKeeps

\* A version that was shown is opened, or the draft stays and counts as saved.
LEMMA UseTheirsKeeps == ASSUME ShownInv, DraftAssumption, UseTheirs PROVE ShownInv'
  <1>. DEFINE mine == [tab EXCEPT !.saved = TRUE]
              bare == [mine EXCEPT !.base = NoRow, !.timer = FALSE]
              theirs == Opened(tab.about, tab.conflict, tab.unstored)
  <1>1. TabOk(mine) /\ Kept1(mine, tab) /\ mine.conflict = tab.conflict /\ mine.saved /\ mine.pend = tab.pend
    BY StateIs DEF TabOk, Kept1
  <1>2. TabOk(bare) /\ bare.note = tab.note /\ bare.base = NoRow /\ bare.conflict = tab.conflict /\ bare.saved /\ bare.pend = tab.pend
    <2>. HIDE DEF mine
    <2>. QED
      BY <1>1, NothingIs DEF TabOk, Kept1
  <1>3. Calm /\ Minor
    <2>1. Calm
      BY CalmRests, StateIs DEF UseTheirs, hosted
    <2>2. latest' \in [Notes -> Nat] /\ \A m \in Notes : m > last => latest'[m] = 0
      BY StateIs, LatestIs DEF UseTheirs
    <2>. QED
      BY <2>1, <2>2, MinorRests DEF UseTheirs, Minor
  <1>4. dialog /\ ~ Saving /\ dialog' = FALSE /\ requests' = requests /\ last' = last /\ seen' = seen /\ receipt' = receipt
    BY DEF UseTheirs, ShownInv, ReviewInv, Saving, hosted
  <1>5. CASE tab' = mine /\ disk' = Snapshot(mine, prefs)
    <2>. HIDE DEF mine
    <2>1. CopyOf(mine, tab') /\ TabOk(tab') /\ Kept1(tab', tab) /\ tab'.conflict = tab.conflict
      BY <1>1, <1>5 DEF CopyOf, Kept1
    <2>2. Returns /\ Copied /\ DiskOk(disk')
      BY <1>1, <1>3, <1>5, <2>1, BeforeStays, StoredCopy DEF UseTheirs
    <2>. QED
      BY <1>3, <1>4, <2>1, <2>2, RestKeeps DEF UseTheirs
  <1>6. CASE tab.conflict = NoRow /\ tab' = bare /\ disk' = Snapshot(bare, prefs)
    <2>. HIDE DEF mine, bare
    <2>1. CopyOf(bare, tab') /\ TabOk(tab')
      BY <1>2, <1>6 DEF CopyOf
    <2>2. Returns /\ Copied /\ DiskOk(disk')
      BY <1>2, <1>3, <1>6, <2>1, BeforeStays, StoredCopy DEF UseTheirs
    <2>3. tab.pend = Nothing /\ (tab.base = NoRow \/ receipt[tab.note] # "none")
      BY <1>4, <1>6 DEF ShownInv, ReviewInv, VersionsInv, Shown
    <2>4. Sound /\ Reviewed
      BY <1>2, <1>6, <2>3 DEF Sound, Reviewed, Shown, PendInv
    <2>5. ReviewInv'
      BY <1>2, <1>4, <1>6 DEF ReviewInv, Saving, UseTheirs
    <2>. QED
      BY <1>2, <1>3, <1>4, <1>6, <2>1, <2>2, <2>4, <2>5, SettleKeeps, StateIs DEF UseTheirs, hosted, ShownInv, DraftTypes, SaveInv
  <1>7. CASE tab.conflict # NoRow /\ tab' = theirs /\ disk' = Snapshot(theirs, prefs)
    <2>1. tab.about \in Notes /\ tab.conflict \in Row /\ tab.unstored \in BOOLEAN /\ <<tab.about, tab.conflict.rev>> \in seen
          /\ receipt[tab.about] # "none"
      BY <1>7, StateIs DEF TabOk, ShownInv, VersionsInv, Shown
    <2>2. TabOk(theirs) /\ theirs.note = tab.about /\ theirs.of = tab.about /\ theirs.base = tab.conflict /\ theirs.pend = Nothing
          /\ theirs.conflict = NoRow
      BY <2>1, OpenedIs
    <2>. HIDE DEF theirs
    <2>3. CopyOf(theirs, tab') /\ TabOk(tab')
      BY <1>7, <2>2 DEF CopyOf
    <2>4. Returns /\ Copied /\ DiskOk(disk')
      BY <1>3, <1>7, <2>2, <2>3, BeforeStays, StoredCopy DEF UseTheirs
    <2>5. Sound /\ Reviewed
      BY <1>4, <1>7, <2>1, <2>2 DEF Sound, Reviewed, Shown, PendInv
    <2>6. ReviewInv'
      BY <1>4, <1>7, <2>2 DEF ReviewInv, Saving, UseTheirs
    <2>7. tab.about <= last
      BY <2>1, StateIs, NotesAre DEF ShownInv, FreshInv
    <2>. QED
      BY <1>3, <1>4, <1>7, <2>2, <2>3, <2>4, <2>5, <2>6, <2>7, SettleKeeps DEF UseTheirs, hosted, ShownInv, DraftTypes, SaveInv
  <1>. QED
    BY <1>5, <1>6, <1>7 DEF UseTheirs

LEMMA CancelEndsKeeps == ASSUME ShownInv, DraftAssumption, CancelEnds PROVE ShownInv'
  <1>. DEFINE empty == [tab EXCEPT !.text = 0]
              mine == [tab EXCEPT !.saved = TRUE]
              back == Opened(before.note, before.base, tab.unstored)
  <1>1. /\ TabOk(empty) /\ Kept1(empty, tab) /\ empty.conflict = tab.conflict /\ empty.saved = tab.saved
        /\ TabOk(mine) /\ Kept1(mine, tab) /\ mine.conflict = tab.conflict /\ mine.saved
    BY StateIs, EmptiedIs, SavedIs
  <1>2. Calm /\ Minor
    <2>1. Calm
      BY CalmRests, StateIs DEF CancelEnds, hosted
    <2>2. before' = NoNote /\ NoNote = [note |-> 0, base |-> NoRow] /\ NoNote.note = 0 /\ NoNote.base = NoRow
      BY DEF CancelEnds, Thrown, NoNote
    <2>3. latest' \in [Notes -> Nat] /\ \A m \in Notes : m > last => latest'[m] = 0
      BY StateIs, LatestIs DEF CancelEnds, Thrown
    <2>. QED
      BY <2>1, <2>2, <2>3, MinorRests, NothingIs DEF CancelEnds, Minor
  <1>3. Returns /\ task' = task /\ requests' = requests /\ last' = last /\ seen' = seen /\ receipt' = receipt /\ dialog' = dialog
    BY <1>2, BeforeStays DEF CancelEnds, Thrown, hosted
  <1>4. \/ (tab' = empty /\ disk' = Snapshot(empty, prefs)) \/ (tab' = mine /\ disk' = Snapshot(mine, prefs))
        \/ (before # NoNote /\ ~ Saving /\ tab' = back /\ disk' = Snapshot(back, prefs))
    BY DEF CancelEnds, Thrown
  <1>5. CASE tab' = empty /\ disk' = Snapshot(empty, prefs)
    <2>. HIDE DEF empty
    <2>1. CopyOf(empty, tab')
      BY <1>5 DEF CopyOf
    <2>2. Copied /\ DiskOk(disk')
      BY <1>1, <1>5, <2>1, StoredCopy
    <2>. QED
      BY <1>1, <1>2, <1>3, <1>5, <2>2, RestKeeps
  <1>6. CASE tab' = mine /\ disk' = Snapshot(mine, prefs)
    <2>. HIDE DEF mine
    <2>1. CopyOf(mine, tab')
      BY <1>6 DEF CopyOf
    <2>2. Copied /\ DiskOk(disk')
      BY <1>1, <1>6, <2>1, StoredCopy
    <2>. QED
      BY <1>1, <1>2, <1>3, <1>6, <2>2, RestKeeps
  <1>7. CASE before # NoNote /\ ~ Saving /\ tab' = back /\ disk' = Snapshot(back, prefs)
    <2>1. before.note \in Notes /\ before.base \in Row /\ before.base # NoRow /\ tab.unstored \in BOOLEAN
          /\ <<before.note, before.base.rev>> \in seen /\ receipt[before.note] # "none"
      BY <1>7, StateIs DEF TabOk, ShownInv, DraftTypes, VersionsInv, Shown
    <2>2. TabOk(back) /\ back.note = before.note /\ back.of = before.note /\ back.base = before.base /\ back.pend = Nothing
          /\ back.conflict = NoRow /\ back.saved
      BY <2>1, OpenedIs
    <2>. HIDE DEF back
    <2>3. CopyOf(back, tab') /\ TabOk(tab')
      BY <1>7, <2>2 DEF CopyOf
    <2>4. Copied /\ DiskOk(disk')
      BY <1>7, <2>2, <2>3, StoredCopy
    <2>5. Sound /\ Reviewed
      BY <1>3, <1>7, <2>1, <2>2 DEF Sound, Reviewed, Shown, PendInv
    <2>6. ReviewInv'
      BY <1>3, <1>7, <2>2 DEF ReviewInv, Saving
    <2>7. before.note <= last
      BY <2>1, StateIs, NotesAre DEF ShownInv, FreshInv
    <2>8. SaveInv'
      BY <1>2, <1>3 DEF ShownInv, SaveInv, Calm
    <2>. QED
      BY <1>2, <1>3, <1>7, <2>2, <2>3, <2>4, <2>5, <2>6, <2>7, <2>8, SettleKeeps DEF ShownInv, DraftTypes
  <1>. QED
    BY <1>4, <1>5, <1>6, <1>7

-----------------------------------------------------------------------------
(* Answers that send no words.                                             *)

\* The draft goes on after its save, or is scheduled again.
LEMMA FailKeeps ==
    ASSUME ShownInv, DraftAssumption, Saving, NEW t, SaveFails(t, {}),
           TabOk(t), t.note = tab.note, t.of = tab.of, t.base = tab.base, t.pend \in {tab.pend, Nothing},
           t.about = tab.about, t.conflict = tab.conflict,
           UNCHANGED <<prefs, latest, dialog>>, spent' \in Spending,
           last' \in Notes /\ last <= last' => Calm, requests'["call"] = Free
    PROVE  ShownInv'
  <1>. DEFINE u == Scheduled(t, mic, prefs)
  <1>1. TabOk(u) /\ Alike(u, t) /\ u.pend = t.pend
    BY ScheduledIs, MinorRests
  <1>. HIDE DEF u
  <1>2. SaveEnds(u, {})
    BY DEF SaveFails, u
  <1>. QED
    BY <1>1, <1>2, EndKeeps DEF Alike

\* The request of the save is over.
LEMMA CallFreed ==
    ASSUME ShownInv, DraftAssumption, requests' = Free1("call"), UNCHANGED <<Tables, accepted, entries>>
    PROVE  requests'["call"] = Free /\ (last' \in Notes /\ last <= last' => Calm)
  <1>1. requests'["call"] = Free
    BY NotesAre DEF Free1, ShownInv, DraftTypes
  <1>. QED
    BY <1>1, CalmCalls, EntriesAre DEF Calls

LEMMA AnsweredElsewhere ==
    ASSUME ShownInv, DraftAssumption, SaveAnswered, requests' = Free1("call"),
           SaveEnds(tab, {}) \/ SaveFails([tab EXCEPT !.deleted = TRUE, !.pend = Nothing], {}) \/ SaveFails(tab, {})
    PROVE  ShownInv'
  <1>1. UNCHANGED <<Tables, accepted, entries, prefs, latest, dialog, spent>> /\ Saving /\ spent' \in Spending
    BY MinorRests DEF SaveAnswered, Saving
  <1>2. requests'["call"] = Free /\ (last' \in Notes /\ last <= last' => Calm)
    BY <1>1, CallFreed
  <1>3. TabOk(tab)
    BY StateIs
  <1>4. CASE SaveEnds(tab, {})
    BY <1>1, <1>2, <1>3, <1>4, EndKeeps
  <1>5. CASE SaveFails(tab, {})
    BY <1>1, <1>2, <1>3, <1>5, FailKeeps
  <1>6. CASE SaveFails([tab EXCEPT !.deleted = TRUE, !.pend = Nothing], {})
    <2>. DEFINE t == [tab EXCEPT !.deleted = TRUE, !.pend = Nothing]
    <2>1. TabOk(t) /\ Kept1(t, tab) /\ t.conflict = tab.conflict
      BY <1>3, NothingIs DEF TabOk, Kept1
    <2>2. SaveFails(t, {})
      BY <1>6
    <2>. HIDE DEF t
    <2>. QED
      BY <1>1, <1>2, <2>1, <2>2, FailKeeps DEF Kept1
  <1>. QED
    BY <1>4, <1>5, <1>6

\* The account refuses because it has another version, which is asked for.
LEMMA RefusedKeeps ==
    ASSUME ShownInv, DraftAssumption, SaveAnswered, requests["call"].status = 409,
           requests' = [requests EXCEPT !["call"] = Request("get", tab.note, Me, 0, 0, 0)],
           task' = [task EXCEPT !.at = "reread"], UNCHANGED <<tab, disk, mic, before, last, seen>>
    PROVE  ShownInv'
  <1>1. UNCHANGED <<Tables, accepted, entries, prefs, latest, dialog, spent>> /\ Saving /\ task.at = "call"
        /\ requests["call"].stage = "answered"
    BY DEF SaveAnswered, Saving
  <1>2. Calm /\ Minor
    BY <1>1, CalmCalls, EntriesAre, StateIs, MinorRests DEF Calls
  <1>3. Sound /\ Reviewed /\ Returns /\ Copied
    BY <1>2, KeptIsSound, ConflictStays, BeforeStays, StateIs DEF Kept1, Copied
  <1>4. requests'["call"].kind = "get" /\ requests'["call"].note = tab.note /\ requests'["call"] # Free
    <2>1. requests'["call"] = Request("get", tab.note, Me, 0, 0, 0)
      BY NotesAre DEF ShownInv, DraftTypes
    <2>. QED
      BY <2>1, StateIs, RequestIs
  <1>5. task' = [at |-> "reread", op |-> task.op, next |-> task.next] /\ OpOk(task.op)
    BY DEF ShownInv, DraftTypes
  <1>6. SaveInv'
    BY <1>4, <1>5 DEF SaveInv
  <1>7. ReviewInv'
    <2>1. ~ dialog /\ tab.conflict = NoRow
      BY <1>1 DEF ShownInv, ReviewInv, Saving
    <2>2. receipt[requests["call"].note] # "none"
      BY <1>1, NotesAre DEF ShownInv, RequestsInv, SaveInv
    <2>3. tab.base # NoRow => tab.of = tab.note
      BY <1>1, <2>2 DEF ShownInv, ReviewInv, ForeignInv, Unposted
    <2>. QED
      BY <1>1, <1>4, <1>5, <2>1, <2>3 DEF ReviewInv
  <1>. QED
    <2>0. task'.at = "reread" /\ task'.op = task.op
      BY <1>5
    <2>1. task' = [at |-> task'.at, op |-> task'.op, next |-> task'.next] /\ task'.at = "reread" /\ OpOk(task'.op)
      BY <1>5, <2>0
    <2>2. TabOk(tab') /\ DiskOk(disk') /\ tab'.note <= last' /\ seen \subseteq seen'
      BY StateIs
    <2>. QED
      BY <1>2, <1>3, <1>6, <1>7, <2>1, <2>2, SettleKeeps

LEMMA RereadKeeps == ASSUME ShownInv, DraftAssumption, Reread PROVE ShownInv'
  <1>. DEFINE r == requests["call"]
              theirs == IF r.status = 200 THEN r.reply ELSE NoRow
              shown == IF theirs # NoRow THEN {<<r.note, theirs.rev>>} ELSE {}
              t == [tab EXCEPT !.about = r.note, !.conflict = theirs]
              u == Scheduled(t, mic, prefs)
  <1>1. Saving /\ task.at = "reread" /\ r.stage = "answered" /\ requests' = Free1("call")
        /\ UNCHANGED <<Tables, accepted, entries, prefs, latest, spent>> /\ dialog' = (dialog \/ theirs # NoRow)
        /\ SaveEnds(u, shown)
    BY DEF Reread, SaveFails, Saving
  <1>2. r.note \in Notes /\ r.note \in Nat /\ theirs \in Row /\ (theirs # NoRow => receipt[r.note] # "none")
        /\ (r.note # tab.note => tab.base = NoRow /\ Unposted(tab.note)) /\ (tab.base # NoRow => tab.of = tab.note)
    <2>1. r.kind = "get" /\ Request1(r) /\ "call" \in Slots
      BY <1>1, NotesAre DEF ShownInv, SaveInv, DraftTypes
    <2>2. r.note \in Notes /\ r.reply \in Row
      BY <1>1, <2>1 DEF Request1, Free, ActiveReq, AnsweredReq
    <2>3. theirs # NoRow => receipt[r.note] # "none"
      BY <1>1, <2>1 DEF ShownInv, RequestsInv
    <2>4. (r.note # tab.note => tab.base = NoRow /\ Unposted(tab.note)) /\ (tab.base # NoRow => tab.of = tab.note)
      BY <1>1 DEF ShownInv, ReviewInv
    <2>. QED
      BY <2>2, <2>3, <2>4, NotesAre, NothingIs
  <1>3. TabOk(t) /\ t.note = tab.note /\ t.of = tab.of /\ t.base = tab.base /\ t.pend = tab.pend /\ t.about = r.note /\ t.conflict = theirs
    <2>. HIDE DEF theirs, r
    <2>. QED
      BY <1>2, StateIs DEF TabOk
  <1>. HIDE DEF t
  <1>4. TabOk(u) /\ Alike(u, t) /\ u.pend = t.pend
    BY <1>3, ScheduledIs, MinorRests
  <1>. HIDE DEF u
  <1>5. Goes(u, shown) /\ task' = Idle
    BY <1>1, <1>3, <1>4, SaveEndsGoes DEF Alike
  <1>6. requests'["call"] = Free /\ Calm
    BY <1>1, <1>5, CallFreed DEF Goes
  <1>7. Minor
    <2>1. dialog' \in BOOLEAN /\ spent' \in Spending
      BY <1>1, MinorRests
    <2>. QED
      BY <1>1, <1>5, <2>1, GoesMinor
  <1>8. AfterAnswer(u)
    <2>1. theirs # NoRow => <<r.note, theirs.rev>> \in seen'
      BY <1>5 DEF Goes
    <2>. HIDE DEF theirs, r, shown
    <2>. QED
      BY <1>2, <1>3, <1>4, <2>1 DEF AfterAnswer, Alike
  <1>9. dialog' => u.conflict # NoRow /\ (tab.base # NoRow => tab.of = tab.note)
    <2>1. ~ dialog
      BY <1>1 DEF ShownInv, ReviewInv
    <2>. HIDE DEF theirs
    <2>. QED
      BY <1>1, <1>2, <1>3, <1>4, <2>1 DEF Alike
  <1>10. task' = [at |-> task'.at, op |-> task'.op, next |-> task'.next] /\ task'.at = "idle" /\ OpOk(task'.op)
    BY <1>5, NothingIs DEF Idle
  <1>. QED
    BY <1>5, <1>6, <1>7, <1>8, <1>9, <1>10, GoesKeeps

LEMMA AnswerIsLostKeeps == ASSUME ShownInv, DraftAssumption, AnswerIsLost PROVE ShownInv'
  <1>1. Saving /\ UNCHANGED <<Tables, accepted, entries, prefs, latest, dialog>> /\ spent' \in Spending /\ SaveFails(tab, {})
    BY SpendIs, MinorRests DEF AnswerIsLost
  <1>2. \E goes : requests' = [s \in Slots |-> IF s = "stray" /\ goes THEN requests["call"]
                                       ELSE IF s = "call" THEN Free ELSE requests[s]]
    BY DEF AnswerIsLost
  <1>3. requests'["call"] = Free /\ (last' \in Notes /\ last <= last' => Calm)
    <2>1. requests'["call"] = Free
      BY <1>2, NotesAre
    <2>2. requests' = [s \in Slots |-> requests'[s]]
          /\ \A s \in Slots : requests'[s] = requests[s] \/ requests'[s] = Free \/ (s = "stray" /\ requests'[s] = requests["call"])
      BY <1>2
    <2>3. receipt \in [Notes -> Receipt] /\ row \in [Notes -> Row]
      BY DEF ShownInv, DraftTypes
    <2>. QED
      BY <1>1, <2>1, <2>2, <2>3, EntriesAre DEF Calm, Tables
  <1>. QED
    BY <1>1, <1>3, FailKeeps, StateIs

\* The list of the history is asked for.
LEMMA Asked ==
    ASSUME ShownInv, DraftAssumption, NEW l, Ask(l), UNCHANGED <<Tables, accepted, entries>>
    PROVE  /\ last' \in Notes /\ last <= last' => Calm
           /\ requests'["call"] = requests["call"] /\ \A s \in Slots : requests'[s].kind # "list" => requests'[s] = requests[s]
           /\ Calls
  <1>1. Calls
    BY DEF Ask, Calls
  <1>2. requests' = requests \/ requests' = [requests EXCEPT !["list"] = Request("list", 1, Me, 0, 0, 0)]
    BY DEF Ask
  <1>3. requests'["call"] = requests["call"] /\ \A s \in Slots : requests'[s].kind # "list" => requests'[s] = requests[s]
    <2>1. Request("list", 1, Me, 0, 0, 0).kind = "list"
      BY DEF Request
    <2>. QED
      BY <1>2, <2>1, NotesAre DEF ShownInv, DraftTypes
  <1>. QED
    BY <1>1, <1>3, CalmCalls, EntriesAre

LEMMA ListsKeeps == ASSUME ShownInv, DraftAssumption, Lists PROVE ShownInv'
  <1>1. task.at = "listing" /\ Saving /\ Ask(load) /\ UNCHANGED <<Tables, accepted, entries, prefs, dialog, spent, latest>>
    BY DEF Lists, Saving
  <1>2. /\ last' \in Notes /\ last <= last' => Calm
        /\ requests'["call"] = Free /\ spent' \in Spending
    BY <1>1, Asked, MinorRests DEF ShownInv, SaveInv
  <1>3. CASE SaveEnds(tab, {})
    BY <1>1, <1>2, <1>3, EndKeeps, StateIs
  <1>4. CASE task' = [task EXCEPT !.at = "history"] /\ UNCHANGED <<tab, disk, mic, before, last, seen>>
    <2>1. Calm /\ Minor
      BY <1>1, <1>2, <1>4, StateIs, MinorRests
    <2>2. Sound /\ Reviewed /\ Returns /\ Copied
      BY <1>4, <2>1, KeptIsSound, ConflictStays, BeforeStays, StateIs DEF Kept1, Copied
    <2>3. task' = [at |-> "history", op |-> task.op, next |-> task.next] /\ OpOk(task.op)
      BY <1>4 DEF ShownInv, DraftTypes
    <2>4. SaveInv' /\ ReviewInv'
      BY <1>1, <1>2, <1>4, <2>3 DEF SaveInv, ReviewInv, ShownInv
    <2>5. task' = [at |-> task'.at, op |-> task'.op, next |-> task'.next] /\ task'.at = "history" /\ OpOk(task'.op)
      BY <2>3
    <2>6. TabOk(tab') /\ DiskOk(disk') /\ tab'.note <= last' /\ seen \subseteq seen'
      BY <1>4, StateIs
    <2>. QED
      BY <2>1, <2>2, <2>4, <2>5, <2>6, SettleKeeps
  <1>. QED
    BY <1>3, <1>4 DEF Lists

LEMMA VisibleKeeps == ASSUME ShownInv, DraftAssumption, Visible PROVE ShownInv'
  <1>1. task.at = "idle" /\ task' = task /\ Ask(load) /\ UNCHANGED <<Tables, accepted, entries>>
        /\ UNCHANGED <<tab, disk, mic, before, last, seen, prefs, dialog, spent, latest>>
    BY DEF Visible
  <1>2. Calm /\ Minor /\ requests'["call"] = Free
    BY <1>1, Asked, StateIs, MinorRests DEF ShownInv, SaveInv
  <1>3. Sound /\ Reviewed /\ Returns /\ Copied
    BY <1>1, <1>2, KeptIsSound, ConflictStays, BeforeStays, StateIs DEF Kept1, Copied
  <1>4. SaveInv' /\ ReviewInv'
    BY <1>1, <1>2 DEF SaveInv, ReviewInv, ShownInv
  <1>5. task' = [at |-> task'.at, op |-> task'.op, next |-> task'.next] /\ task'.at = "idle" /\ OpOk(task'.op)
    BY <1>1 DEF ShownInv, DraftTypes
  <1>6. TabOk(tab') /\ DiskOk(disk') /\ tab'.note <= last' /\ seen \subseteq seen'
    BY <1>1, StateIs
  <1>. QED
    BY <1>2, <1>3, <1>4, <1>5, <1>6, SettleKeeps

\* The list is there.
LEMMA ListedKeeps == ASSUME ShownInv, DraftAssumption, Listed PROVE ShownInv'
  <1>. DEFINE r == requests["list"]
              new == r.reply[tab.note]
  <1>1. "list" \in Slots /\ "call" \in Slots /\ r.stage = "answered" /\ r # Free /\ r.kind = "list" /\ Request1(r)
    BY NotesAre DEF Listed, ShownInv, RequestsInv, DraftTypes, Free
  <1>2. r.status = 200 => r.reply \in [Notes -> Row] /\ \A n \in Notes : r.reply[n] # NoRow => receipt[n] # "none"
    BY <1>1 DEF Request1, Free, ActiveReq, AnsweredReq, ShownInv, RequestsInv
  <1>3. UNCHANGED <<Tables, accepted, prefs, dialog, spent, latest>> /\ Calls
        /\ entries' = (IF r.status = 200 THEN r.reply ELSE entries) /\ spent' \in Spending
    BY MinorRests DEF Listed, Calls
  <1>4. (last' \in Notes /\ last <= last' => Calm) /\ requests'["call"] = requests["call"]
        /\ \A s \in Slots : requests'[s] = requests[s] \/ s = "list"
    <2>1. entries' \in [Notes -> Row] /\ \A n \in Notes : entries'[n] # NoRow => receipt[n] # "none"
      BY <1>2, <1>3, EntriesAre
    <2>2. last' \in Notes /\ last <= last' => Calm
      BY <1>3, <2>1, CalmCalls
    <2>3. \A s \in Slots : requests'[s] = requests[s] \/ s = "list"
      BY <1>1 DEF Listed, Free1, ShownInv, DraftTypes
    <2>. QED
      BY <1>1, <2>2, <2>3
  <1>5. CASE task.at = "history" /\ SaveEnds(tab, {})
    BY <1>3, <1>4, <1>5, EndKeeps, StateIs DEF Saving, ShownInv, SaveInv
  <1>6. CASE /\ r.status = 200 /\ tab.base # NoRow /\ ~ Saving /\ new.rev > tab.base.rev
             /\ tab' = Opened(tab.note, new, tab.unstored)
             /\ seen' = seen \cup {<<tab.note, new.rev>>} /\ UNCHANGED <<task, disk, mic, before, last>>
    <2>1. tab.unstored \in BOOLEAN /\ new \in Row /\ new # NoRow /\ receipt[tab.note] # "none"
      <3>1. tab.unstored \in BOOLEAN /\ new \in Row /\ tab.base.rev \in Nat
        BY <1>2, <1>6, StateIs DEF TabOk, Row
      <3>2. new # NoRow
        BY <1>6, <3>1 DEF NoRow, Row
      <3>. QED
        BY <1>2, <1>6, <3>1, <3>2, StateIs
    <2>2. TabOk(tab') /\ tab'.note = tab.note /\ tab'.of = tab.note /\ tab'.base = new /\ tab'.pend = Nothing
          /\ tab'.conflict = NoRow /\ tab'.saved
      BY <1>6, <2>1, StateIs, OpenedIs
    <2>3. Calm /\ Minor
      BY <1>3, <1>4, <1>6, StateIs, MinorRests
    <2>. HIDE DEF r, new
    <2>4. Sound /\ Reviewed
      BY <1>6, <2>1, <2>2, <2>3, StateIs DEF Sound, Reviewed, Shown, PendInv, Calm
    <2>5. Returns /\ Copied /\ seen \subseteq seen'
      BY <1>6, <2>3, BeforeStays DEF Copied
    <2>6. SaveInv' /\ ReviewInv'
      BY <1>3, <1>4, <1>6, <2>2 DEF SaveInv, ReviewInv, ShownInv, Saving
    <2>7. task' = [at |-> task'.at, op |-> task'.op, next |-> task'.next]
          /\ task'.at \in {"idle", "call", "reread", "listing", "history"} /\ OpOk(task'.op)
      BY <1>6 DEF ShownInv, DraftTypes
    <2>8. DiskOk(disk') /\ tab'.note <= last'
      BY <1>6, <2>2, StateIs
    <2>. QED
      BY <2>2, <2>3, <2>4, <2>5, <2>6, <2>7, <2>8, SettleKeeps
  <1>7. CASE UNCHANGED <<tab, task, disk, mic, before, last, seen>>
    <2>1. Calm /\ Minor
      BY <1>3, <1>4, <1>7, StateIs, MinorRests
    <2>2. Sound /\ Reviewed /\ Returns /\ Copied
      BY <1>7, <2>1, KeptIsSound, ConflictStays, BeforeStays, StateIs DEF Kept1, Copied
    <2>3. SaveInv'
      BY <1>3, <1>4, <1>7 DEF SaveInv, ShownInv
    <2>4. ReviewInv'
      BY <1>3, <1>4, <1>7, <2>1, CalmKeeps, StateIs DEF ReviewInv, ShownInv
    <2>5. task' = [at |-> task'.at, op |-> task'.op, next |-> task'.next]
          /\ task'.at \in {"idle", "call", "reread", "listing", "history"} /\ OpOk(task'.op)
      BY <1>7 DEF ShownInv, DraftTypes
    <2>6. TabOk(tab') /\ DiskOk(disk') /\ tab'.note <= last' /\ seen \subseteq seen'
      BY <1>7, StateIs
    <2>. QED
      BY <2>1, <2>2, <2>3, <2>4, <2>5, <2>6, SettleKeeps
  <1>. QED
    BY <1>5, <1>6, <1>7 DEF Listed

\* The page is loaded again: the draft is the copy, or a new one.
LEMMA ReloadKeeps == ASSUME ShownInv, DraftAssumption, Reload PROVE ShownInv'
  <1>. DEFINE there == disk # Empty
              copy == [Blank(disk.note) EXCEPT !.text = disk.text, !.of = disk.of, !.base = disk.base, !.pend = disk.pend]
              t == IF there THEN copy ELSE Blank(last + 1)
              p == [incognito |-> FALSE, retain |-> TRUE]
  <1>1. TabOk(t) /\ t.conflict = NoRow /\ IF there THEN CopyOf(disk, t) ELSE t.base = NoRow /\ t.pend = Nothing /\ t.note = last + 1
    <2>1. CASE there
      <3>1. disk.note \in Notes /\ disk.text \in Int /\ disk.of \in Nat /\ disk.base \in Row /\ OpOk(disk.pend)
        BY <2>1, StateIs DEF DiskOk
      <3>. DEFINE b == Blank(disk.note)
      <3>2. TabOk(b) /\ b.note = disk.note /\ b.conflict = NoRow
        BY <3>1, BlankIs
      <3>. HIDE DEF b
      <3>3. LET u == [b EXCEPT !.text = disk.text, !.of = disk.of, !.base = disk.base, !.pend = disk.pend]
            IN TabOk(u) /\ u.conflict = NoRow /\ CopyOf(disk, u)
        BY <3>1, <3>2 DEF TabOk, CopyOf
      <3>. QED
        BY <2>1, <3>3 DEF b
    <2>2. CASE ~ there
      <3>1. last + 1 \in Notes
        BY <2>2 DEF Reload
      <3>. QED
        BY <2>2, <3>1, BlankIs
    <2>. QED
      BY <2>1, <2>2
  <1>2. /\ tab' = Scheduled(t, "off", p) /\ last' = (IF there THEN last ELSE last + 1) /\ (there \/ last + 1 \in Notes)
        /\ requests' = [s \in Slots |->
               IF s = "stray" /\ requests[s] = Free /\ requests["call"].stage \in {"sent", "read", "looked"}
                  /\ requests["call"].kind # "get" THEN requests["call"]
               ELSE IF s = "stray" THEN requests[s] ELSE Free]
        /\ task' = Idle /\ mic' = "off" /\ before' = NoNote /\ dialog' = FALSE /\ prefs' = p
        /\ entries' = [n \in Notes |-> NoRow] /\ UNCHANGED <<Tables, accepted, disk, seen>>
    BY DEF Reload
  <1>. HIDE DEF t
  <1>3. TabOk(tab') /\ Alike(tab', t) /\ tab'.pend = t.pend
    BY <1>1, <1>2, ScheduledIs
  <1>. HIDE DEF there
  <1>4. last' \in Notes /\ last' \in Nat /\ last <= last' /\ last \in Nat /\ last \in Notes
    BY <1>2, StateIs
  <1>5. requests'["call"] = Free /\ Calm
    <2>1. requests'["call"] = Free
      BY <1>2, NotesAre
    <2>2. requests' = [s \in Slots |-> requests'[s]]
          /\ \A s \in Slots : requests'[s] = requests[s] \/ requests'[s] = Free \/ (s = "stray" /\ requests'[s] = requests["call"])
      BY <1>2
    <2>3. receipt \in [Notes -> Receipt] /\ row \in [Notes -> Row]
      BY DEF ShownInv, DraftTypes
    <2>4. entries' \in [Notes -> Row] /\ \A n \in Notes : entries'[n] = NoRow
      BY <1>2, NothingIs
    <2>. QED
      BY <1>2, <1>4, <2>1, <2>2, <2>3, <2>4 DEF Calm, Tables
  <1>6. Minor
    <2>1. latest' \in [Notes -> Nat] /\ \A m \in Notes : m > last => latest'[m] = 0
      <3>1. latest' = latest \/ latest' = [latest EXCEPT ![tab.note] = 0]
        BY DEF Reload
      <3>. QED
        BY <3>1, MinorRests, StateIs, LatestIs
    <2>2. \A m \in Notes : m > last' => m > last
      BY <1>4, NotesAre
    <2>3. spent' \in Spending
      BY MinorRests, SpendIs DEF Reload
    <2>. QED
      BY <1>2, <2>1, <2>2, <2>3, NothingIs DEF Minor, NoNote
  <1>7. tab'.note <= last' /\ (there => CopyOf(disk, tab')) /\ tab'.conflict = NoRow
        /\ (~ there => tab'.base = NoRow /\ tab'.pend = Nothing /\ tab'.note > last)
    BY <1>1, <1>2, <1>3, <1>4, StateIs DEF Alike, CopyOf
  <1>8. Sound
    <2>1. CASE there
      <3>1. disk.base # NoRow /\ disk.of # disk.note => Unposted(disk.note)
        BY DEF ShownInv, ForeignInv, Never
      <3>. QED
        BY <1>2, <1>5, <1>7, <2>1, <3>1 DEF Sound, CopyOf, ShownInv, VersionsInv, Shown, PendInv, Calm
    <2>2. CASE ~ there
      BY <1>7, <2>2 DEF Sound, Shown, PendInv
    <2>. QED
      BY <2>1, <2>2
  <1>9. Reviewed /\ Returns /\ Copied /\ DiskOk(disk') /\ seen \subseteq seen'
    BY <1>2, <1>5, <1>7, BeforeStays, StateIs DEF Reviewed, Copied
  <1>10. SaveInv' /\ ReviewInv' /\ task' = [at |-> task'.at, op |-> task'.op, next |-> task'.next] /\ task'.at = "idle" /\ OpOk(task'.op)
    BY <1>2, <1>5, <1>7, NothingIs DEF SaveInv, ReviewInv, Idle
  <1>. QED
    BY <1>3, <1>5, <1>6, <1>7, <1>8, <1>9, <1>10, SettleKeeps

-----------------------------------------------------------------------------
(* A save sends the words of the draft.                                    *)

BeforeTurn(t) ==
    /\ TabOk(t) /\ t.note = tab.note /\ t.conflict = NoRow /\ PendInv(t.pend, t.note, t.base)
    /\ t.base # NoRow => t.of \in Notes /\ <<t.of, t.base.rev>> \in seen' /\ receipt[t.of] # "none"
    /\ t.base # NoRow /\ t.of # t.note => Unposted(t.note)
    /\ t.base = NoRow => tab.base = NoRow \/ receipt[tab.note] # "none"

\* What a turn does to the draft, its copy, the save and the request.
LEMMA TurnIs ==
    ASSUME ShownInv, DraftAssumption, NEW t, BeforeTurn(t), NEW next, Turn(t, next)
    PROVE  /\ TabOk(tab') /\ tab'.note = t.note /\ tab'.of = t.of /\ tab'.base = t.base /\ tab'.conflict = NoRow
           /\ tab'.text = t.text /\ tab'.saved = t.saved /\ tab'.unstored = t.unstored /\ tab'.about = t.about
           /\ PendInv(tab'.pend, tab'.note, tab'.base) /\ tab'.pend # Nothing
           /\ DiskOk(disk') /\ (disk' = Empty \/ CopyOf(disk', tab'))
           /\ task' = [at |-> "call", op |-> tab'.pend, next |-> next]
           /\ LET q == requests'["call"] IN
              /\ ActiveReq(q) /\ q # Free /\ q.stage = "sent" /\ q.note = t.note /\ q.text = tab'.pend.text /\ q.base = t.base.rev
              /\ q.kind = (IF t.base # NoRow THEN "put" ELSE "post")
           /\ requests' = [s \in Slots |-> requests'[s]]
           /\ \A s \in Slots : s # "call" => requests'[s] = requests[s]
  <1>. DEFINE o == Frozen(t)
              u == [t EXCEPT !.pend = o, !.timer = FALSE]
              q == Request(IF t.base # NoRow THEN "put" ELSE "post", o.note, Me, o.text, o.base, o.op)
  <1>1. OpOk(o) /\ o.note = t.note /\ o.base = t.base.rev /\ o # Nothing
    BY FrozenIs DEF BeforeTurn
  <1>2. tab' = u /\ disk' = Snapshot(u, prefs') /\ task' = [at |-> "call", op |-> o, next |-> next]
        /\ requests' = [requests EXCEPT !["call"] = q]
    BY DEF Turn
  <1>. HIDE DEF o
  <1>3. TabOk(u) /\ u.note = t.note /\ u.of = t.of /\ u.base = t.base /\ u.conflict = t.conflict /\ u.text = t.text
        /\ u.saved = t.saved /\ u.unstored = t.unstored /\ u.about = t.about /\ u.pend = o
    BY <1>1 DEF BeforeTurn, TabOk
  <1>4. ActiveReq(q) /\ q # Free /\ q.stage = "sent" /\ q.note = o.note /\ q.text = o.text /\ q.base = o.base
        /\ q.kind = (IF t.base # NoRow THEN "put" ELSE "post")
    <2>1. o.note \in Notes /\ o.text \in Int /\ o.base \in Nat
      BY <1>1 DEF BeforeTurn, TabOk, OpOk
    <2>2. CASE t.base # NoRow
      <3>1. q = Request("put", o.note, Me, o.text, o.base, o.op)
        BY <2>2
      <3>. HIDE DEF q
      <3>. QED
        BY <2>1, <2>2, <3>1, RequestIs
    <2>3. CASE t.base = NoRow
      <3>1. q = Request("post", o.note, Me, o.text, o.base, o.op)
        BY <2>3
      <3>. HIDE DEF q
      <3>. QED
        BY <2>1, <2>3, <3>1, RequestIs
    <2>. QED
      BY <2>2, <2>3
  <1>. HIDE DEF u, q
  <1>5. DiskOk(disk') /\ (disk' = Empty \/ CopyOf(disk', tab'))
    BY <1>2, <1>3, SnapshotIs DEF CopyOf
  <1>6. requests' = [s \in Slots |-> requests'[s]] /\ requests'["call"] = q /\ \A s \in Slots : s # "call" => requests'[s] = requests[s]
    <2>1. requests = [s \in Slots |-> requests[s]] /\ "call" \in Slots
      BY NotesAre DEF ShownInv, DraftTypes
    <2>2. requests' = [s \in Slots |-> IF s = "call" THEN q ELSE requests[s]]
      BY <1>2, <2>1
    <2>. QED
      BY <2>1, <2>2
  <1>7. PendInv(tab'.pend, tab'.note, tab'.base) /\ tab'.pend # Nothing
    BY <1>1, <1>2, <1>3 DEF PendInv
  <1>. QED
    BY <1>1, <1>2, <1>3, <1>4, <1>5, <1>6, <1>7 DEF BeforeTurn

LEMMA TurnKeeps ==
    ASSUME ShownInv, DraftAssumption, Minor, NEW t, BeforeTurn(t), NEW next, Turn(t, next), last' = last, seen \subseteq seen',
           UNCHANGED <<Tables, accepted, entries>>, Shown(before.note, before.base)', before' # NoNote => before'.base # NoRow, ~ dialog'
    PROVE  ShownInv'
  <1>1. /\ TabOk(tab') /\ tab'.note = t.note /\ tab'.of = t.of /\ tab'.base = t.base /\ tab'.conflict = NoRow
        /\ PendInv(tab.pend, tab.note, tab.base)' /\ DiskOk(disk') /\ (disk' = Empty \/ CopyOf(disk', tab'))
        /\ task'.at = "call" /\ task'.op = tab'.pend /\ task' = [at |-> task'.at, op |-> task'.op, next |-> task'.next]
    BY TurnIs DEF PendInv
  <1>. DEFINE q == requests'["call"]
  <1>2. /\ ActiveReq(q) /\ q # Free /\ q.stage = "sent" /\ q.note = t.note /\ q.text = tab'.pend.text /\ q.base = t.base.rev
        /\ q.kind = (IF t.base # NoRow THEN "put" ELSE "post")
        /\ requests' = [s \in Slots |-> requests'[s]] /\ \A s \in Slots : s # "call" => requests'[s] = requests[s]
    BY TurnIs
  <1>. HIDE DEF q
  <1>3. "call" \in Slots /\ t.note = tab.note /\ t.note \in Notes /\ t.note <= last /\ last \in Nat /\ "call" # "list" /\ "list" \in Slots
    BY StateIs, NotesAre DEF BeforeTurn
  <1>4. /\ receipt' = receipt /\ row' = row /\ applied' = applied /\ revoked' = revoked /\ entries' = entries /\ accepted' = accepted
        /\ receipt \in [Notes -> Receipt] /\ row \in [Notes -> Row] /\ revoked = {} /\ entries \in [Notes -> Row] /\ last \in Notes
    BY DEF Tables, ShownInv, DraftTypes
  <1>5. AccountInv'
    BY <1>4 DEF ShownInv, AccountInv
  <1>6. \A s \in Slots : s = "call" \/ requests'[s] = requests[s]
    BY <1>2
  <1>7. RequestsInv'
    BY <1>2, <1>3, <1>4, <1>6 DEF ShownInv, RequestsInv, q
  <1>8. DraftTypes'
    <2>1. \A s \in Slots : Request1(requests'[s])
      BY <1>2, <1>6 DEF ShownInv, DraftTypes, Request1, q
    <2>2. disk'.note <= last
      BY <1>1, <1>3, NotesAre DEF CopyOf, Empty
    <2>3. OpOk(task'.op)
      BY <1>1 DEF TabOk
    <2>4. requests' = [s \in Slots |-> requests'[s]] /\ tab'.note <= last' /\ disk'.note <= last'
      BY <1>1, <1>2, <1>3, <2>2
    <2>5. /\ TabOk(tab') /\ DiskOk(disk') /\ task' = [at |-> task'.at, op |-> task'.op, next |-> task'.next]
          /\ task'.at \in {"idle", "call", "reread", "listing", "history"} /\ OpOk(task'.op)
      BY <1>1, <2>3
    <2>. HIDE DEF q
    <2>. QED
      BY <1>4, <2>1, <2>4, <2>5 DEF DraftTypes, Minor, Spending
  <1>9. SaveInv'
    <2>1. task'.op.note = t.note
      BY <1>1, TurnIs DEF PendInv
    <2>. QED
      BY <1>1, <1>2, <2>1 DEF SaveInv, q, Active
  <1>10. FreshInv'
    BY <1>2, <1>3, <1>4, <1>6 DEF FreshInv, q, ShownInv, Minor
  <1>11. \A n \in Notes : Unposted(n) /\ (n = t.note => t.base # NoRow) => Unposted(n)'
    BY <1>2, <1>4, <1>6 DEF Unposted, Posts, q
  <1>12. ASSUME NEW n, Never(n) PROVE Never(n)'
    <2>1. n \in Notes /\ n <= last' /\ (n = t.note => t.base # NoRow)
      BY <1>3, <1>12 DEF Never, BeforeTurn, Unposted
    <2>2. Unposted(n)'
      BY <1>11, <1>12, <2>1 DEF Never
    <2>3. (tab'.note = n => tab'.base # NoRow) /\ (disk'.note = n => disk'.base # NoRow)
      BY <1>1, <2>1, NotesAre DEF CopyOf, Empty
    <2>. QED
      BY <2>1, <2>2, <2>3 DEF Never
  <1>13. VersionsInv'
    BY <1>1, <1>4, TurnIs DEF VersionsInv, BeforeTurn, Shown, CopyOf, Empty, PendInv
  <1>14. t.base # NoRow /\ t.of # t.note => Never(t.note)'
    <2>. HAVE t.base # NoRow /\ t.of # t.note
    <2>1. Unposted(t.note)'
      BY <1>3, <1>11 DEF BeforeTurn
    <2>2. Unposted(tab.note)'
      BY <1>1, <2>1 DEF Unposted, Posts
    <2>3. (disk'.note = t.note => disk'.base # NoRow) /\ t.note <= last'
      BY <1>1, <1>3, NotesAre DEF CopyOf, Empty
    <2>4. Never(tab.note)'
      BY <1>1, <1>3, <2>2, <2>3 DEF Never
    <2>. QED
      BY <1>1, <2>4 DEF Never, Unposted, Posts
  <1>15. ForeignInv'
    BY <1>1, <1>14 DEF ForeignInv, CopyOf, Never, Empty, Unposted, Posts
  <1>16. ReviewInv'
    BY <1>1, <1>2 DEF ReviewInv, q
  <1>17. PutInv'
    <2>. SUFFICES ASSUME NEW s \in Slots, requests'[s].stage \in Active, requests'[s].kind = "put"
                  PROVE  <<requests'[s].note, requests'[s].base>> \in seen' \/ Never(requests[s].note)'
      BY DEF PutInv
    <2>1. CASE s # "call"
      BY <1>6, <1>12, <2>1 DEF ShownInv, PutInv
    <2>2. CASE s = "call"
      <3>1. t.base # NoRow /\ requests'[s].note = t.note /\ requests'[s].base = t.base.rev
        BY <1>2, <2>2 DEF q
      <3>2. t.of = t.note => <<t.note, t.base.rev>> \in seen'
        BY <3>1 DEF BeforeTurn, Shown
      <3>. QED
        BY <1>14, <3>1, <3>2
    <2>. QED
      BY <2>1, <2>2
  <1>. QED
    BY <1>5, <1>7, <1>8, <1>9, <1>10, <1>13, <1>15, <1>16, <1>17 DEF ShownInv

\* The words are sent, or nothing is.
LEMMA SaveDraftKeeps ==
    ASSUME ShownInv, DraftAssumption, Minor, NEW t, TabOk(t), Kept1(t, tab), t.pend = tab.pend, t.conflict = tab.conflict,
           t.saved = tab.saved, SaveDraft(t, Stay), last' = last, seen' = seen, UNCHANGED <<Tables, accepted, entries, before, dialog>>,
           task' = task => Copied /\ DiskOk(disk')
    PROVE  ShownInv'
  <1>1. CASE ~ Saving /\ MaySave(t, mic', prefs') /\ Turn(t, Stay)
    <2>1. BeforeTurn(t)
      BY <1>1 DEF BeforeTurn, MaySave, Kept1, ShownInv, VersionsInv, ForeignInv, Shown
    <2>2. ~ dialog'
      BY <1>1 DEF MaySave, ShownInv, ReviewInv
    <2>3. Shown(before.note, before.base)' /\ (before' # NoNote => before'.base # NoRow)
      BY DEF ShownInv, VersionsInv, Shown, Tables
    <2>. QED
      BY <1>1, <2>1, <2>2, <2>3, TurnKeeps
  <1>2. CASE tab' = t /\ UNCHANGED <<task, requests>>
    <2>1. Calm
      BY <1>2, CalmCalls, EntriesAre, StateIs DEF Calls
    <2>2. Returns
      BY <2>1, BeforeStays
    <2>. QED
      BY <1>2, <2>1, <2>2, RestKeeps
  <1>. QED
    BY <1>1, <1>2 DEF SaveDraft

LEMMA SavesNowKeeps == ASSUME ShownInv, DraftAssumption, SavesNow PROVE ShownInv'
  <1>. DEFINE t == [tab EXCEPT !.timer = FALSE]
  <1>1. TabOk(t) /\ Kept1(t, tab) /\ t.pend = tab.pend /\ t.conflict = tab.conflict /\ t.saved = tab.saved
    BY StateIs DEF TabOk, Kept1
  <1>2. SaveDraft(t, Stay)
    BY DEF SavesNow
  <1>. HIDE DEF t
  <1>3. Minor
    BY MinorRests DEF SavesNow
  <1>4. task' = task => Copied /\ DiskOk(disk')
    BY StateIs DEF SavesNow, Copied
  <1>. QED
    BY <1>1, <1>2, <1>3, <1>4, SaveDraftKeeps DEF SavesNow

LEMMA StoppedKeeps == ASSUME ShownInv, DraftAssumption, NEW whole, Stopped(whole) PROVE ShownInv'
  <1>1. TabOk(tab) /\ Kept1(tab, tab) /\ CopyOf(tab, tab)
    BY StateIs DEF Kept1
  <1>2. Minor
    BY MinorRests DEF Stopped, Minor
  <1>3. task' = task => UNCHANGED tab
    <2>1. CASE ~ Saving /\ Turn(tab, Stay)
      BY <2>1 DEF Turn, Saving
    <2>2. CASE tab' = tab
      BY <2>2
    <2>. QED
      BY <2>1, <2>2 DEF Stopped, SaveDraft
  <1>4. task' = task => Copied /\ DiskOk(disk')
    BY <1>1, <1>3, StoredCopy DEF Stopped
  <1>5. CASE SaveDraft(tab, Stay)
    BY <1>1, <1>2, <1>4, <1>5, SaveDraftKeeps DEF Stopped
  <1>6. CASE UNCHANGED <<tab, task, requests>>
    <2>1. Calm
      BY <1>6, CalmCalls, EntriesAre, StateIs DEF Calls, Stopped
    <2>2. Returns
      BY <2>1, BeforeStays DEF Stopped
    <2>. QED
      BY <1>1, <1>2, <1>4, <1>6, <2>1, <2>2, RestKeeps DEF Stopped
  <1>. QED
    BY <1>5, <1>6 DEF Stopped

LEMMA LeaveKeeps == ASSUME ShownInv, DraftAssumption, NEW next, Leave(next) PROVE ShownInv'
  <1>1. CASE Moves([tab EXCEPT !.timer = FALSE], next, {}) /\ UNCHANGED <<task, requests>>
    BY <1>1, LeaveMoves DEF Leave
  <1>2. CASE MaySave(tab, mic, prefs) /\ UNCHANGED <<mic, before, last, seen>> /\ Turn(tab, next)
    <2>1. BeforeTurn(tab)
      BY <1>2, StateIs DEF BeforeTurn, MaySave, ShownInv, VersionsInv, ForeignInv, Shown
    <2>2. Shown(before.note, before.base)' /\ (before' # NoNote => before'.base # NoRow)
      BY <1>2 DEF ShownInv, VersionsInv, Shown, Leave, Tables
    <2>3. Minor
      BY <1>2, MinorRests DEF Leave
    <2>4. ~ dialog'
      BY DEF Leave
    <2>. QED
      BY <1>2, <2>1, <2>2, <2>3, <2>4, TurnKeeps DEF Leave
  <1>. QED
    BY <1>1, <1>2 DEF Leave

LEMMA KeepMineKeeps == ASSUME ShownInv, DraftAssumption, KeepMine PROVE ShownInv'
  <1>. DEFINE t == [tab EXCEPT !.of = tab.about, !.base = tab.conflict, !.conflict = NoRow, !.pend = Nothing]
  <1>1. TabOk(t) /\ t.note = tab.note /\ t.of = tab.about /\ t.base = tab.conflict /\ t.conflict = NoRow /\ t.pend = Nothing
        /\ t.saved = tab.saved
    BY StateIs, NothingIs DEF TabOk
  <1>2. SaveDraft(t, Stay) /\ dialog /\ ~ dialog' /\ dialog' \in BOOLEAN
    BY DEF KeepMine
  <1>. HIDE DEF t
  <1>3. Minor
    BY <1>2, MinorRests DEF KeepMine, Minor
  <1>4. tab.base = NoRow \/ receipt[tab.note] # "none"
    BY <1>2 DEF ShownInv, ReviewInv, VersionsInv, Shown
  <1>5. CASE Turn(t, Stay)
    <2>1. BeforeTurn(t)
      BY <1>1, <1>4 DEF BeforeTurn, PendInv, ShownInv, VersionsInv, ForeignInv, Shown, KeepMine
    <2>2. Shown(before.note, before.base)' /\ (before' # NoNote => before'.base # NoRow)
      BY DEF ShownInv, VersionsInv, Shown, KeepMine, Tables
    <2>. QED
      BY <1>2, <1>3, <1>5, <2>1, <2>2, TurnKeeps DEF KeepMine
  <1>6. CASE tab' = t /\ UNCHANGED <<task, requests>>
    <2>1. Calm
      BY <1>6, CalmCalls, EntriesAre, StateIs DEF Calls, KeepMine
    <2>2. disk' = disk /\ seen' = seen /\ last' = last /\ before' = before /\ receipt' = receipt
      BY <1>6 DEF KeepMine, Tables
    <2>3. Sound
      BY <1>1, <1>4, <1>6, <2>2 DEF Sound, PendInv, ShownInv, VersionsInv, ForeignInv, Shown
    <2>4. Reviewed /\ Returns /\ Copied
      BY <1>1, <1>6, <2>1, <2>2, BeforeStays DEF Reviewed, Copied
    <2>5. task' = [at |-> task'.at, op |-> task'.op, next |-> task'.next] /\ task'.at = "idle" /\ OpOk(task'.op)
      BY <1>2, <1>6 DEF ShownInv, DraftTypes, ReviewInv
    <2>6. SaveInv' /\ ReviewInv'
      BY <1>1, <1>2, <1>6, <2>5 DEF SaveInv, ReviewInv, ShownInv
    <2>7. TabOk(tab') /\ DiskOk(disk') /\ tab'.note <= last' /\ seen \subseteq seen'
      BY <1>1, <1>6, <2>2, StateIs
    <2>. QED
      BY <1>3, <2>1, <2>3, <2>4, <2>5, <2>6, <2>7, SettleKeeps
  <1>. QED
    BY <1>2, <1>5, <1>6 DEF SaveDraft

\* The account took the words.
LEMMA SavedKeeps ==
    ASSUME ShownInv, DraftAssumption, SaveAnswered, requests["call"].status = 200, Mine(task.op), Saved1(requests["call"])
    PROVE  ShownInv'
  <1>. DEFINE r == requests["call"]
              o == task.op
              t == [tab EXCEPT !.saved = (tab.text = o.text), !.of = o.note, !.base = r.reply, !.pend = Nothing]
  <1>1. task.at = "call" /\ r.stage = "answered" /\ UNCHANGED <<Tables, accepted, entries, prefs, dialog, spent, latest>>
        /\ Saving /\ o.note = tab.note
    BY DEF SaveAnswered, Saving, Mine
  <1>2. r.kind # "list" /\ r.note = o.note /\ r.reply \in Row /\ receipt[tab.note] # "none" /\ tab.conflict = NoRow /\ ~ dialog
    <2>1. r.kind \in {"post", "put"} /\ r.note = o.note /\ "call" \in Slots
      BY <1>1, NotesAre DEF ShownInv, SaveInv
    <2>2. r.reply \in Row
      BY <1>1, <2>1 DEF ShownInv, DraftTypes, Request1, Free, ActiveReq, AnsweredReq
    <2>3. receipt[tab.note] # "none"
      BY <1>1, <2>1 DEF ShownInv, RequestsInv
    <2>4. tab.conflict = NoRow /\ ~ dialog
      BY <1>1 DEF ShownInv, ReviewInv
    <2>. QED
      BY <2>1, <2>2, <2>3, <2>4
  <1>3. seen' = seen \cup {<<o.note, r.reply.rev>>}
        /\ \/ Turn(t, task.next) /\ UNCHANGED <<mic, before, last>>
           \/ /\ tab' = t /\ disk' = Snapshot(t, prefs) /\ task' = [task EXCEPT !.at = "listing"]
              /\ requests' = Free1("call") /\ UNCHANGED <<mic, before, last>>
    BY DEF Saved1
  <1>4. TabOk(t) /\ t.note = tab.note /\ t.of = tab.note /\ t.base = r.reply /\ t.pend = Nothing /\ t.conflict = NoRow
    <2>1. o.note \in Nat /\ (tab.text = o.text) \in BOOLEAN
      BY <1>1, StateIs
    <2>. HIDE DEF r, o
    <2>. QED
      BY <1>1, <1>2, <2>1, StateIs, NothingIs DEF TabOk
  <1>. HIDE DEF t, r, o
  <1>5. Minor
    BY <1>1, <1>3, MinorRests
  <1>6. CASE Turn(t, task.next) /\ UNCHANGED <<mic, before, last>>
    <2>1. BeforeTurn(t)
      BY <1>1, <1>2, <1>3, <1>4, StateIs DEF BeforeTurn, PendInv
    <2>2. Shown(before.note, before.base)' /\ (before' # NoNote => before'.base # NoRow)
      BY <1>1, <1>3, <1>6 DEF ShownInv, VersionsInv, Shown, Tables
    <2>. QED
      BY <1>1, <1>2, <1>3, <1>5, <1>6, <2>1, <2>2, TurnKeeps
  <1>7. CASE /\ tab' = t /\ disk' = Snapshot(t, prefs) /\ task' = [task EXCEPT !.at = "listing"]
             /\ requests' = Free1("call") /\ UNCHANGED <<mic, before, last>>
    <2>1. requests'["call"] = Free /\ Calm
      BY <1>1, <1>7, CallFreed, StateIs
    <2>2. CopyOf(t, tab')
      BY <1>7 DEF CopyOf
    <2>3. Copied /\ DiskOk(disk')
      BY <1>4, <1>7, <2>2, StoredCopy
    <2>4. Sound /\ Reviewed
      BY <1>1, <1>2, <1>3, <1>4, <1>7, <2>1, StateIs DEF Sound, Reviewed, PendInv, Shown, Calm
    <2>5. task' = [at |-> "listing", op |-> task.op, next |-> task.next] /\ OpOk(task.op)
      BY <1>7 DEF ShownInv, DraftTypes
    <2>6. task' = [at |-> task'.at, op |-> task'.op, next |-> task'.next] /\ task'.at = "listing" /\ task'.op = task.op
      BY <2>5
    <2>7. SaveInv' /\ ReviewInv'
      BY <1>1, <1>2, <1>4, <1>7, <2>1, <2>6 DEF SaveInv, ReviewInv
    <2>8. TabOk(tab') /\ tab'.note <= last' /\ seen \subseteq seen' /\ OpOk(task'.op)
      BY <1>3, <1>4, <1>7, <2>5, <2>6, StateIs
    <2>9. Returns
      BY <1>7, <2>1, <2>8, BeforeStays
    <2>. QED
      BY <1>5, <2>1, <2>3, <2>4, <2>6, <2>7, <2>8, <2>9, SettleKeeps
  <1>. QED
    BY <1>3, <1>6, <1>7

LEMMA SaveAnsweredKeeps == ASSUME ShownInv, DraftAssumption, SaveAnswered PROVE ShownInv'
  BY AnsweredElsewhere, RefusedKeeps, SavedKeeps DEF SaveAnswered

-----------------------------------------------------------------------------
(* The account serves a request.                                           *)

Served(s) ==
    /\ requests' = [r \in Slots |-> requests'[r]] /\ \A r \in Slots : r # s => requests'[r] = requests[r]
    /\ receipt' \in [Notes -> Receipt] /\ row' \in [Notes -> Row] /\ revoked' = revoked /\ accepted \subseteq accepted'
    /\ \A n \in Notes : receipt[n] # "none" => receipt'[n] # "none"
    /\ \A n \in Notes : receipt'[n] # "none" => receipt[n] # "none" \/ Posts(n)
Advanced(p, q) == p.kind = q.kind /\ p.note = q.note /\ p.text = q.text /\ p.base = q.base
\* The request goes on, or is answered, or nobody hears the answer.
Progress(s) ==
    LET p == requests'[s]
        q == requests[s]
    IN
    /\ ActiveReq(q)
    /\ \/ p = Free /\ s \in Unheard
       \/ /\ ActiveReq(p) /\ Advanced(p, q) /\ p.stage \in {"read", "looked"}
          /\ p.kind = "put" => receipt'[p.note] # "none"
       \/ /\ AnsweredReq(p) /\ p.kind = q.kind /\ p.note = q.note
          /\ p.kind # "list" /\ p.status \in {200, 409} => receipt'[p.note] # "none"
          /\ p.kind = "list" /\ p.status = 200 => \A n \in Notes : p.reply[n] # NoRow => receipt'[n] # "none"
          /\ p.kind \in {"post", "put"} /\ p.status = 200 /\ q.text > 0 => <<q.note, q.text>> \in accepted'

LEMMA ServedKeeps ==
    ASSUME ShownInv, DraftAssumption, NEW s \in Slots, Served(s), Progress(s), AccountInv', UNCHANGED draft
    PROVE  ShownInv'
  <1>. DEFINE p == requests'[s]
              q == requests[s]
  <1>1. /\ tab' = tab /\ task' = task /\ mic' = mic /\ before' = before /\ entries' = entries /\ prefs' = prefs
        /\ dialog' = dialog /\ disk' = disk /\ last' = last /\ spent' = spent /\ latest' = latest /\ seen' = seen
    BY DEF draft
  <1>2. s # "stray" => s \notin Unheard
    BY NotesAre
  <1>3. Request1(p) /\ q # Free /\ q.stage \in Active /\ q.note \in Notes
        /\ (p # Free => p.kind = q.kind /\ p.note = q.note /\ p # Free)
        /\ (p.stage \in Active => p # Free /\ p.text = q.text /\ p.base = q.base)
        /\ (s # "stray" => p # Free)
    BY <1>2 DEF Progress, Request1, Free, ActiveReq, AnsweredReq, Active, Advanced
  <1>4. \A r \in Slots : r # s => requests'[r] = requests[r]
    BY DEF Served
  <1>5. DraftTypes'
    <2>1. \A r \in Slots : Request1(requests'[r])
      BY <1>3, <1>4 DEF ShownInv, DraftTypes
    <2>. QED
      BY <1>1, <2>1 DEF ShownInv, DraftTypes, Served
  <1>6. RequestsInv'
    <2>1. ASSUME NEW r \in Slots
          PROVE  /\ requests'[r].stage \in {"read", "looked"} /\ requests'[r].kind = "put" => receipt'[requests'[r].note] # "none"
                 /\ requests'[r].stage = "answered" /\ requests'[r].kind # "list" /\ requests'[r].status \in {200, 409}
                      => receipt'[requests'[r].note] # "none"
                 /\ requests'[r].stage = "answered" /\ requests'[r].kind = "list" /\ requests'[r].status = 200
                      => \A n \in Notes : requests'[r].reply[n] # NoRow => receipt'[n] # "none"
      <3>1. CASE r = s
        BY <3>1 DEF Progress, Free, ActiveReq, AnsweredReq
      <3>2. CASE r # s
        <4>1. requests[r].stage \in {"read", "looked", "answered"} => requests[r].note \in Notes
          BY DEF ShownInv, DraftTypes, Request1, Free, ActiveReq, AnsweredReq
        <4>. QED
          BY <1>4, <3>2, <4>1 DEF Served, ShownInv, RequestsInv
      <3>. QED
        BY <3>1, <3>2
    <2>2. requests'["list"] # Free => requests'["list"].kind = "list"
      BY <1>3, <1>4, NotesAre DEF ShownInv, RequestsInv
    <2>3. \A n \in Notes : entries'[n] # NoRow => receipt'[n] # "none"
      BY <1>1 DEF ShownInv, RequestsInv, Served
    <2>. QED
      BY <2>1, <2>2, <2>3 DEF RequestsInv
  <1>7. SaveInv'
    <2>1. requests["call"] = Free => requests'["call"] = Free
      BY <1>3, <1>4, NotesAre
    <2>2. requests["call"] # Free => requests'["call"] # Free /\ requests'["call"].kind = requests["call"].kind
                                     /\ requests'["call"].note = requests["call"].note
      BY <1>3, <1>4, NotesAre
    <2>3. requests'["call"].stage \in Active => requests["call"].stage \in Active /\ requests'["call"].text = requests["call"].text
      BY <1>3, <1>4, NotesAre
    <2>4. ASSUME task.at = "call", requests'["call"].stage = "answered", requests'["call"].status = 200, task.op.text > 0
          PROVE  <<task.op.note, task.op.text>> \in accepted'
      <3>1. CASE s = "call"
        <4>1. q.text = task.op.text /\ q.note = task.op.note /\ q.kind \in {"post", "put"}
          BY <1>3, <2>4, <3>1 DEF ShownInv, SaveInv
        <4>. QED
          BY <2>4, <3>1, <4>1 DEF Progress, Free, ActiveReq
      <3>2. CASE s # "call"
        BY <1>4, <2>4, <3>2, NotesAre DEF ShownInv, SaveInv, Served
      <3>. QED
        BY <3>1, <3>2
    <2>. QED
      BY <1>1, <2>1, <2>2, <2>3, <2>4 DEF ShownInv, SaveInv
  <1>8. \A n \in Notes : Unposted(n) => Unposted(n)'
    <2>1. \A n \in Notes : Posts(n)' => Posts(n)
      BY <1>3, <1>4 DEF Posts, Free, Active
    <2>. QED
      BY <2>1 DEF Unposted, Served
  <1>9. FreshInv'
    <2>1. \A m \in Notes : m > last => Unposted(m)
      BY NewIsUnposted
    <2>. QED
      BY <1>1, <1>3, <1>4, <1>8, <2>1 DEF FreshInv, ShownInv, Unposted
  <1>10. \A n : Never(n) => Never(n)'
    BY <1>1, <1>8 DEF Never
  <1>11. VersionsInv'
    BY <1>1 DEF ShownInv, VersionsInv, Shown, PendInv, Served
  <1>12. ForeignInv'
    BY <1>1, <1>8, <1>10, StateIs DEF ShownInv, ForeignInv
  <1>13. ReviewInv'
    BY <1>1, <1>3, <1>4, <1>8, StateIs, NotesAre DEF ShownInv, ReviewInv, SaveInv
  <1>14. PutInv'
    BY <1>1, <1>3, <1>4, <1>10 DEF ShownInv, PutInv, Free, Active
  <1>. QED
    BY <1>5, <1>6, <1>7, <1>9, <1>11, <1>12, <1>13, <1>14 DEF ShownInv

\* An answer to a request.
Answers(s, status, note) ==
    /\ requests[s].kind # "list" => note \in Row
    /\ requests[s].kind # "list" /\ status \in {200, 409} => receipt'[requests[s].note] # "none"
    /\ requests[s].kind = "list" /\ status = 200 => note \in [Notes -> Row] /\ \A n \in Notes : note[n] # NoRow => receipt'[n] # "none"
    /\ requests[s].kind \in {"post", "put"} /\ status = 200 /\ requests[s].text > 0
            => <<requests[s].note, requests[s].text>> \in accepted'
Moved(s) == requests' = [r \in Slots |-> requests'[r]] /\ \A r \in Slots : r # s => requests'[r] = requests[r]

LEMMA AnswerProgresses ==
    ASSUME ShownInv, NEW s \in Slots, ActiveReq(requests[s]), NEW status, NEW note, Answer(s, status, note), Answers(s, status, note)
    PROVE  Progress(s) /\ Moved(s)
  <1>. DEFINE q == requests[s]
              a == [stage |-> "answered", kind |-> q.kind, note |-> q.note, who |-> q.who, status |-> status, reply |-> note]
  <1>1. requests' = [requests EXCEPT ![s] = IF s \in Unheard THEN Free ELSE a]
    BY DEF Answer
  <1>2. requests = [r \in Slots |-> requests[r]]
    BY DEF ShownInv, DraftTypes
  <1>3. Moved(s) /\ requests'[s] = (IF s \in Unheard THEN Free ELSE a)
    BY <1>1, <1>2 DEF Moved
  <1>4. CASE s \in Unheard
    BY <1>3, <1>4 DEF Progress
  <1>5. CASE s \notin Unheard
    <2>1. requests'[s] = a
      BY <1>3, <1>5
    <2>2. AnsweredReq(requests'[s])
      BY <2>1 DEF AnsweredReq, ActiveReq, Answers
    <2>. QED
      BY <1>3, <2>1, <2>2 DEF Progress, Answers, ActiveReq
  <1>. QED
    BY <1>4, <1>5

\* A request that goes on.
LEMMA StageProgresses ==
    ASSUME ShownInv, NEW s \in Slots, ActiveReq(requests[s]), NEW p, requests' = [requests EXCEPT ![s] = p],
           ActiveReq(p), Advanced(p, requests[s]), p.stage \in {"read", "looked"}, p.kind = "put" => receipt'[p.note] # "none"
    PROVE  Progress(s) /\ Moved(s)
  <1>1. requests = [r \in Slots |-> requests[r]]
    BY DEF ShownInv, DraftTypes
  <1>2. requests'[s] = p /\ Moved(s)
    BY <1>1 DEF Moved
  <1>. QED
    BY <1>2 DEF Progress

\* The request that is served.
LEMMA ServesIt ==
    ASSUME ShownInv, DraftAssumption, NEW s \in Slots, requests[s].stage \in Active
    PROVE  ActiveReq(requests[s]) /\ requests[s].note \in Notes
  BY DEF ShownInv, DraftTypes, Request1, Free, ActiveReq, AnsweredReq, Active

\* The tables are as they were.
LEMMA TablesStay ==
    ASSUME ShownInv, UNCHANGED Tables, accepted \subseteq accepted', NEW s \in Slots, Moved(s)
    PROVE  AccountInv' /\ Served(s)
  BY DEF Tables, ShownInv, DraftTypes, AccountInv, Served, Moved

\* What the first reads make of a request.
ReadAs(p, q, r, w) == p = [q EXCEPT !.stage = "read", !.seen = r, !.was = w]
LEMMA ReadIs ==
    ASSUME NEW q, ActiveReq(q), q.kind \in {"post", "put"}, NEW r, NEW w \in Row, NEW p, ReadAs(p, q, r, w)
    PROVE  ActiveReq(p) /\ Advanced(p, q) /\ p.stage = "read"
  <1>1. q \in [stage : {q.stage}, kind : {q.kind}, note : {q.note}, who : {q.who}, text : {q.text}, base : {q.base},
               op : {q.op}, seen : {q.seen}, was : {q.was}]
    BY DEF ActiveReq
  <1>2. p \in [stage : {"read"}, kind : {q.kind}, note : {q.note}, who : {q.who}, text : {q.text}, base : {q.base},
               op : {q.op}, seen : {r}, was : {w}]
    BY <1>1 DEF ReadAs
  <1>3. /\ p.stage = "read" /\ p.kind = q.kind /\ p.note = q.note /\ p.who = q.who /\ p.text = q.text /\ p.base = q.base
        /\ p.op = q.op /\ p.seen = r /\ p.was = w
    BY <1>2
  <1>4. p = [stage |-> p.stage, kind |-> p.kind, note |-> p.note, who |-> p.who, text |-> p.text, base |-> p.base,
             op |-> p.op, seen |-> p.seen, was |-> p.was]
    BY <1>2, <1>3
  <1>5. ActiveReq(p) /\ Advanced(p, q)
    BY <1>3, <1>4 DEF ActiveReq, Advanced
  <1>. QED
    BY <1>3, <1>5

LEMMA ReadKeeps == ASSUME ShownInv, DraftAssumption, NEW s \in Slots, Read(s), accepted \subseteq accepted', UNCHANGED draft PROVE ShownInv'
  <1>. DEFINE q == requests[s]
              w == row[q.note]
              verdict == Verdict(q, receipt[q.note], w)
  <1>1. q.stage = "sent" /\ q.kind # "list" /\ UNCHANGED Tables /\ receipt' = receipt /\ accepted \subseteq accepted'
    BY DEF Read, Tables
  <1>2. ActiveReq(q) /\ q.note \in Notes /\ w \in Row /\ q.kind \in {"post", "put", "get"} /\ q.who \notin revoked
    BY <1>1, ServesIt DEF Active, ShownInv, DraftTypes, ActiveReq
  <1>3. CASE verdict = 0
    <2>. DEFINE p == [q EXCEPT !.stage = "read", !.seen = receipt[q.note], !.was = w]
    <2>1. requests' = [requests EXCEPT ![s] = p]
      BY <1>3 DEF Read
    <2>2. q.kind \in {"post", "put"} /\ (q.kind = "put" => receipt[q.note] # "none")
      BY <1>2, <1>3 DEF Verdict
    <2>3. ActiveReq(p) /\ Advanced(p, q) /\ p.stage = "read"
      <3>1. ReadAs(p, q, receipt[q.note], w)
        BY DEF ReadAs
      <3>. HIDE DEF p, q, w
      <3>. QED
        BY <1>2, <2>2, <3>1, ReadIs
    <2>. HIDE DEF p
    <2>4. Progress(s) /\ Moved(s)
      BY <1>1, <1>2, <2>1, <2>2, <2>3, StageProgresses DEF Advanced
    <2>. QED
      BY <1>1, <2>4, TablesStay, ServedKeeps
  <1>4. CASE verdict = 200
    <2>1. Answer(s, 200, w)
      BY <1>4 DEF Read
    <2>2. receipt[q.note] # "none" /\ q.kind # "put" /\ (q.kind = "post" => w.text = q.text)
      BY <1>2, <1>4 DEF Verdict
    <2>3. Answers(s, 200, w)
      BY <1>1, <1>2, <2>2 DEF Answers, ShownInv, AccountInv
    <2>. HIDE DEF w
    <2>4. Progress(s) /\ Moved(s)
      BY <1>2, <2>1, <2>3, AnswerProgresses
    <2>. QED
      BY <1>1, <2>4, TablesStay, ServedKeeps
  <1>5. CASE verdict \notin {0, 200}
    <2>1. Answer(s, verdict, NoRow)
      BY <1>3, <1>4, <1>5 DEF Read, Refuse
    <2>2. verdict = 409 => receipt[q.note] # "none"
      BY <1>2 DEF Verdict
    <2>. HIDE DEF verdict
    <2>3. Answers(s, verdict, NoRow)
      BY <1>1, <1>2, <1>5, <2>2, NothingIs DEF Answers
    <2>4. Progress(s) /\ Moved(s)
      BY <1>2, <2>1, <2>3, AnswerProgresses
    <2>. QED
      BY <1>1, <2>4, TablesStay, ServedKeeps
  <1>. QED
    BY <1>3, <1>4, <1>5

LEMMA ListKeeps == ASSUME ShownInv, DraftAssumption, NEW s \in Slots, List(s), accepted \subseteq accepted', UNCHANGED draft PROVE ShownInv'
  <1>1. requests[s].stage = "sent" /\ requests[s].kind = "list" /\ UNCHANGED Tables /\ receipt' = receipt /\ Answer(s, 200, row)
    BY DEF List, Tables, ShownInv, DraftTypes
  <1>2. ActiveReq(requests[s])
    BY <1>1, ServesIt DEF Active
  <1>3. Answers(s, 200, row)
    BY <1>1 DEF Answers, ShownInv, DraftTypes, AccountInv
  <1>4. Progress(s) /\ Moved(s)
    BY <1>1, <1>2, <1>3, AnswerProgresses
  <1>. QED
    BY <1>1, <1>4, TablesStay, ServedKeeps

LEMMA LookKeeps == ASSUME ShownInv, DraftAssumption, NEW s \in Slots, Look(s), accepted \subseteq accepted', UNCHANGED draft PROVE ShownInv'
  <1>. DEFINE q == requests[s]
              done == {a \in applied : a.note = q.note /\ a.op = q.op}
  <1>1. q.stage = "read" /\ q.kind = "put" /\ UNCHANGED Tables /\ receipt' = receipt
    BY DEF Look, Tables
  <1>2. ActiveReq(q) /\ q.note \in Notes /\ q.was \in Row /\ receipt[q.note] # "none"
    <2>1. ActiveReq(q) /\ q.note \in Notes
      BY <1>1, ServesIt DEF Active
    <2>. QED
      BY <1>1, <2>1 DEF ShownInv, RequestsInv, ActiveReq
  <1>3. ASSUME NEW status \in {400, 409}, Answer(s, status, NoRow) PROVE ShownInv'
    <2>1. Answers(s, status, NoRow)
      BY <1>1, <1>2, NothingIs DEF Answers
    <2>2. Progress(s) /\ Moved(s)
      BY <1>2, <1>3, <2>1, AnswerProgresses
    <2>. QED
      BY <1>1, <2>2, TablesStay, ServedKeeps
  <1>4. CASE done # {} /\ (\E a \in done : a.rev = q.was.rev /\ a.text = q.text /\ a.base = q.base) /\ Answer(s, 200, q.was)
    <2>1. Answers(s, 200, q.was)
      BY <1>1, <1>2, <1>4 DEF Answers, ShownInv, AccountInv
    <2>2. Progress(s) /\ Moved(s)
      BY <1>2, <1>4, <2>1, AnswerProgresses
    <2>. QED
      BY <1>1, <2>2, TablesStay, ServedKeeps
  <1>5. CASE q.base = q.was.rev /\ requests' = [requests EXCEPT ![s].stage = "looked"]
    <2>. DEFINE p == [q EXCEPT !.stage = "looked"]
    <2>1. requests' = [requests EXCEPT ![s] = p]
      BY <1>5
    <2>2. ActiveReq(p) /\ Advanced(p, q) /\ p.stage = "looked"
      BY <1>1, <1>2, <1>5 DEF ActiveReq, Advanced
    <2>. HIDE DEF p
    <2>3. Progress(s) /\ Moved(s)
      BY <1>1, <1>2, <2>1, <2>2, StageProgresses DEF Advanced
    <2>. QED
      BY <1>1, <2>3, TablesStay, ServedKeeps
  <1>. QED
    BY <1>3, <1>4, <1>5 DEF Look, Refuse

\* A note as a save or an edit leaves it.
LEMMA WrittenIs ==
    ASSUME NEW n \in Notes, NEW rev \in Nat, NEW text \in Int, row \in [Notes -> Row], rev # row[n].rev,
           row' = [row EXCEPT ![n] = [rev |-> rev, text |-> text]], rev # 0,
           accepted' = accepted \cup {<<m, row'[m].text>> : m \in {k \in Notes : row'[k] # NoRow /\ row'[k] # row[k]}}
    PROVE  /\ row' \in [Notes -> Row] /\ row'[n] \in Row /\ row'[n].text = text /\ row'[n] # NoRow
           /\ \A m \in Notes : m # n => row'[m] = row[m]
           /\ <<n, text>> \in accepted'
  <1>1. [rev |-> rev, text |-> text] \in Row
    BY DEF Row
  <1>2. row' \in [Notes -> Row] /\ row'[n] = [rev |-> rev, text |-> text] /\ \A m \in Notes : m # n => row'[m] = row[m]
    BY <1>1
  <1>3. row'[n].rev = rev /\ row'[n].text = text /\ NoRow.rev = 0
    BY <1>2 DEF NoRow
  <1>4. row'[n] # NoRow /\ row'[n] # row[n]
    BY <1>3
  <1>5. <<n, text>> \in accepted'
    BY <1>3, <1>4
  <1>. QED
    BY <1>1, <1>2, <1>3, <1>4, <1>5

LEMMA CommitPostKeeps == ASSUME ShownInv, DraftAssumption, NEW s \in Slots, CommitPost(s), Server(s) PROVE ShownInv'
  <1>. DEFINE q == requests[s]
              n == q.note
  <1>1. q.stage = "read" /\ q.kind = "post" /\ applied' = applied /\ revoked' = revoked /\ accepted \subseteq accepted' /\ UNCHANGED draft
    BY DEF CommitPost, Server
  <1>2. ActiveReq(q) /\ n \in Notes /\ q.text \in Int
    BY <1>1, ServesIt DEF Active, ActiveReq
  <1>3. CASE receipt[n] = "none" /\ DeviceChecks(q)
    <2>1. receipt' = [receipt EXCEPT ![n] = "live"] /\ row' = [row EXCEPT ![n] = [rev |-> 1, text |-> q.text]] /\ Answer(s, 200, row'[n])
      BY <1>3 DEF CommitPost
    <2>2. row[n] = NoRow /\ row[n].rev = 0 /\ row \in [Notes -> Row]
      BY <1>2, <1>3 DEF ShownInv, AccountInv, NoRow, DraftTypes
    <2>3. /\ row' \in [Notes -> Row] /\ row'[n] \in Row /\ row'[n].text = q.text /\ \A m \in Notes : m # n => row'[m] = row[m]
          /\ <<n, q.text>> \in accepted'
      <3>1. 1 \in Nat /\ 1 # 0 /\ 1 # row[n].rev
        BY <2>2
      <3>2. accepted' = accepted \cup {<<m, row'[m].text>> : m \in {k \in Notes : row'[k] # NoRow /\ row'[k] # row[k]}}
        BY DEF Server
      <3>. HIDE DEF q
      <3>. QED
        BY <1>2, <2>1, <2>2, <3>1, <3>2, WrittenIs
    <2>4. receipt' \in [Notes -> Receipt] /\ receipt'[n] = "live" /\ \A m \in Notes : m # n => receipt'[m] = receipt[m]
      BY <1>2, <2>1 DEF ShownInv, DraftTypes, Receipt
    <2>5. AccountInv'
      BY <1>1, <1>2, <2>3, <2>4 DEF ShownInv, AccountInv
    <2>6. Answers(s, 200, row'[n])
      BY <1>1, <2>3, <2>4 DEF Answers
    <2>7. Progress(s) /\ Moved(s)
      BY <1>2, <2>1, <2>6, AnswerProgresses
    <2>8. Posts(n)
      BY <1>1 DEF Posts, Active
    <2>9. Served(s)
      BY <1>1, <2>3, <2>4, <2>7, <2>8 DEF Served, Moved
    <2>. QED
      BY <1>1, <2>5, <2>7, <2>9, ServedKeeps
  <1>4. CASE ~ (receipt[n] = "none" /\ DeviceChecks(q))
    <2>1. Answer(s, 409, NoRow) /\ UNCHANGED Tables /\ receipt' = receipt
      BY <1>1, <1>4 DEF CommitPost, Refuse, Tables
    <2>2. receipt[n] # "none"
      BY <1>4 DEF DeviceChecks, ShownInv, DraftTypes
    <2>3. Answers(s, 409, NoRow)
      BY <1>1, <2>1, <2>2, NothingIs DEF Answers
    <2>4. Progress(s) /\ Moved(s)
      BY <1>2, <2>1, <2>3, AnswerProgresses
    <2>. QED
      BY <1>1, <2>1, <2>4, TablesStay, ServedKeeps
  <1>. QED
    BY <1>3, <1>4

LEMMA CommitPutKeeps == ASSUME ShownInv, DraftAssumption, NEW s \in Slots, CommitPut(s), Server(s) PROVE ShownInv'
  <1>. DEFINE q == requests[s]
              n == q.note
              writes == /\ DeviceChecks(q) /\ HasKey(receipt[n]) /\ row[n].rev = q.was.rev
                        /\ \A a \in applied : a.note # n \/ a.op # q.op
  <1>1. q.stage = "looked" /\ receipt' = receipt /\ revoked' = revoked /\ accepted \subseteq accepted' /\ UNCHANGED draft
    BY DEF CommitPut, Server
  <1>2. ActiveReq(q) /\ n \in Notes /\ q.text \in Int /\ q.was \in Row /\ q.kind = "put"
    BY <1>1, ServesIt DEF Active, ActiveReq
  <1>3. receipt[n] # "none"
    BY <1>1, <1>2 DEF ShownInv, RequestsInv
  <1>4. CASE writes
    <2>. DEFINE rev == q.was.rev + 1
                entry == [note |-> n, op |-> q.op, rev |-> rev, text |-> q.text, base |-> q.base]
    <2>1. row' = [row EXCEPT ![n] = [rev |-> rev, text |-> q.text]] /\ applied' = applied \cup {entry} /\ Answer(s, 200, row'[n])
      BY <1>4 DEF CommitPut
    <2>2. rev \in Nat /\ rev # 0 /\ rev # row[n].rev /\ row \in [Notes -> Row]
      BY <1>2, <1>4 DEF Row, ShownInv, DraftTypes
    <2>3. entry.note = n /\ entry.text = q.text
      OBVIOUS
    <2>. HIDE DEF rev, entry
    <2>4. /\ row' \in [Notes -> Row] /\ row'[n] \in Row /\ row'[n].text = q.text /\ \A m \in Notes : m # n => row'[m] = row[m]
          /\ <<n, q.text>> \in accepted'
      BY <1>2, <2>1, <2>2, WrittenIs DEF Server
    <2>5. AccountInv'
      BY <1>1, <1>2, <1>3, <2>1, <2>3, <2>4 DEF ShownInv, AccountInv
    <2>6. Answers(s, 200, row'[n])
      BY <1>1, <1>2, <1>3, <2>4 DEF Answers
    <2>7. Progress(s) /\ Moved(s)
      BY <1>2, <2>1, <2>6, AnswerProgresses
    <2>8. Served(s)
      BY <1>1, <2>4, <2>7 DEF Served, Moved, ShownInv, DraftTypes
    <2>. QED
      BY <1>1, <2>5, <2>7, <2>8, ServedKeeps
  <1>5. CASE ~ writes
    <2>1. Answer(s, 409, NoRow) /\ UNCHANGED Tables
      BY <1>1, <1>5 DEF CommitPut, Refuse, Tables
    <2>2. Answers(s, 409, NoRow)
      BY <1>1, <1>2, <1>3, NothingIs DEF Answers
    <2>3. Progress(s) /\ Moved(s)
      BY <1>2, <2>1, <2>2, AnswerProgresses
    <2>. QED
      BY <1>1, <2>1, <2>3, TablesStay, ServedKeeps
  <1>. QED
    BY <1>4, <1>5

LEMMA ServerKeeps == ASSUME ShownInv, DraftAssumption, NEW s \in Slots, Server(s) PROVE ShownInv'
  <1>1. accepted \subseteq accepted' /\ UNCHANGED draft /\ Serves(s)
    BY DEF Server
  <1>2. ~ CommitDelete(s)
    BY ServesIt DEF CommitDelete, Active, ActiveReq
  <1>. QED
    BY <1>1, <1>2, ReadKeeps, ListKeeps, LookKeeps, CommitPostKeeps, CommitPutKeeps DEF Serves

-----------------------------------------------------------------------------
LEMMA DraftBegins == ASSUME DraftAssumption, DraftInit PROVE ShownInv
  <1>1. 1 \in Notes /\ Notes \subseteq Nat /\ 0 \in Nat /\ "call" \in Slots /\ "list" \in Slots
    BY NotesAre
  <1>2. TabOk(tab) /\ tab.note = 1 /\ tab.base = NoRow /\ tab.conflict = NoRow /\ tab.pend = Nothing
    BY <1>1, BlankIs DEF DraftInit
  <1>3. DiskOk(disk) /\ disk.note = 0 /\ disk.base = NoRow /\ disk.pend = Nothing
    BY NothingIs DEF DraftInit, Empty
  <1>4. task.at = "idle" /\ task = [at |-> task.at, op |-> task.op, next |-> task.next] /\ OpOk(task.op)
    BY NothingIs DEF DraftInit, Idle
  <1>5. before.base = NoRow /\ before.note = 0 /\ before = [note |-> before.note, base |-> before.base]
    BY DEF DraftInit, NoNote
  <1>6. /\ receipt = [n \in Notes |-> "none"] /\ row = [n \in Notes |-> NoRow] /\ applied = {} /\ revoked = {}
        /\ requests = [s \in Slots |-> Free] /\ entries = [n \in Notes |-> NoRow] /\ latest = [n \in Notes |-> 0]
        /\ last = 1 /\ mic = "off" /\ before = NoNote /\ dialog = FALSE
    BY DEF DraftInit, HostedInit
  <1>7. Free.stage = "free"
    BY DEF Free
  <1>8. DraftTypes
    <2>1. /\ prefs \in [incognito : BOOLEAN, retain : BOOLEAN] /\ (prefs.incognito => ~ prefs.retain)
          /\ spent \in [{"text", "other", "lost", "reload", "aside", "tab"} -> Nat]
      BY DEF DraftInit
    <2>2. /\ entries \in [Notes -> Row] /\ row \in [Notes -> Row] /\ latest \in [Notes -> Nat] /\ receipt \in [Notes -> Receipt]
          /\ requests = [s \in Slots |-> requests[s]] /\ \A s \in Slots : Request1(requests[s])
      BY <1>6, NothingIs DEF Receipt, Request1
    <2>3. last \in Notes /\ tab.note <= last /\ disk.note <= last /\ before.note \in Nat /\ before.base \in Row
      BY <1>1, <1>2, <1>3, <1>5, <1>6, NothingIs
    <2>4. task.at \in {"idle", "call", "reread", "listing", "history"} /\ dialog \in BOOLEAN
          /\ mic \in {"off", "on", "finishing", "cancelling", "cancelled"} /\ revoked = {}
      BY <1>4, <1>6
    <2>. QED
      BY <1>2, <1>3, <1>4, <1>5, <2>1, <2>2, <2>3, <2>4 DEF DraftTypes
  <1>9. AccountInv /\ RequestsInv /\ SaveInv /\ FreshInv
    <2>1. AccountInv
      BY <1>6 DEF AccountInv, NoRow
    <2>2. RequestsInv
      BY <1>1, <1>6, <1>7 DEF RequestsInv
    <2>3. SaveInv /\ FreshInv
      BY <1>1, <1>4, <1>6, <1>7 DEF SaveInv, FreshInv
    <2>. QED
      BY <2>1, <2>2, <2>3
  <1>10. VersionsInv /\ ForeignInv /\ ReviewInv /\ PutInv
    BY <1>1, <1>2, <1>3, <1>4, <1>5, <1>6, <1>7 DEF VersionsInv, ForeignInv, ReviewInv, PutInv, Shown, PendInv, Active
  <1>. QED
    BY <1>8, <1>9, <1>10 DEF ShownInv

LEMMA DraftSteps == ASSUME ShownInv, DraftAssumption, [DraftNext]_draftVars PROVE ShownInv'
  <1>1. CASE User
    <2>1. ASSUME NEW next, Leave(next) PROVE ShownInv'
      BY <2>1, LeaveKeeps
    <2>. QED
      BY <1>1, <2>1, TypeKeeps, ClearKeeps, ContinueKeeps, StopsSpeakingKeeps, CancelKeeps, KeepMineKeeps, UseTheirsKeeps,
         LaterKeeps, IncognitoKeeps, RetainKeeps, SegmentKeeps, VisibleKeeps, SavesNowKeeps DEF User, Retries
  <1>2. CASE Tab
    BY <1>2, StoresKeeps, SavesNowKeeps, SaveAnsweredKeeps, RereadKeeps, ListsKeeps, ListedKeeps, CancelStopsKeeps,
       CancelEndsKeeps, StoppedKeeps DEF Tab, Saves
  <1>3. CASE World
    BY <1>3, OtherTabKeeps, ReloadKeeps, AnswerIsLostKeeps, OtherEditsKeeps, DeletesKeeps DEF World
  <1>4. CASE \E s \in Slots : Server(s)
    BY <1>4, ServerKeeps
  <1>5. CASE UNCHANGED draftVars
    BY <1>5 DEF draftVars, draft, hosted, ShownInv, DraftTypes, AccountInv, RequestsInv, SaveInv, FreshInv, VersionsInv, ForeignInv,
                ReviewInv, PutInv, Shown, PendInv, Unposted, Posts, Never
  <1>. QED
    BY <1>1, <1>2, <1>3, <1>4, <1>5 DEF DraftNext

\* What the draft, its recovery copy, its save and the requests on their way are to each other.
THEOREM DraftInvariant == DraftSpec => []ShownInv
  <1>1. DraftInit => ShownInv
    BY DraftAssumed, DraftBegins
  <1>2. ShownInv /\ [DraftNext]_draftVars => ShownInv'
    BY DraftAssumed, DraftSteps
  <1>. QED
    BY <1>1, <1>2, PTL DEF DraftSpec

-----------------------------------------------------------------------------
(* What an edit replaces.                                                  *)

\* The page writes nothing in the account: the account does, and other devices.
LEMMA PageLeavesAccount ==
    ASSUME User \/ Tab \/ OtherTab \/ Reload \/ AnswerIsLost
    PROVE  row' = row /\ receipt' = receipt /\ accepted' = accepted
  <1>1. CASE User
    <2>1. ASSUME NEW next, Leave(next) PROVE row' = row /\ receipt' = receipt /\ accepted' = accepted
      BY <2>1 DEF Leave, Tables
    <2>. QED
      BY <1>1, <2>1 DEF User, Type, Clear, Continue, StopsSpeaking, Cancel, KeepMine, UseTheirs, Later, Incognito, Retain, Segment,
                        Says, Visible, Retries, SavesNow, Tables, hosted
  <1>2. CASE Tab
    BY <1>2 DEF Tab, Stores, Saves, SavesNow, SaveAnswered, Reread, Lists, Listed, CancelStops, CancelEnds, Stopped, Tables, hosted
  <1>3. CASE OtherTab \/ Reload \/ AnswerIsLost
    BY <1>3 DEF OtherTab, Reload, AnswerIsLost, Tables, hosted
  <1>. QED
    BY <1>1, <1>2, <1>3

LEMMA EditsWereShown ==
    ASSUME ShownInv, DraftAssumption, [DraftNext]_draftVars, NEW n \in Notes, row[n] # NoRow, row'[n] # row[n], row'[n].text > 0
    PROVE  <<n, row[n].rev>> \in seen
  <1>1. row' # row
    OBVIOUS
  <1>2. row \in [Notes -> Row] /\ receipt[n] # "none" /\ spent.other \in Nat
    BY MinorRests DEF ShownInv, DraftTypes, AccountInv
  <1>3. ASSUME NEW m \in Notes, OtherEdits(m) PROVE FALSE
    <2>1. row' = [row EXCEPT ![m] = [rev |-> @.rev + 1, text |-> - (spent.other + 1)]]
      BY <1>3 DEF OtherEdits
    <2>2. m = n /\ row'[n].text = - (spent.other + 1)
      BY <1>2, <2>1
    <2>. QED
      BY <1>2, <2>2
  <1>4. ASSUME NEW m \in Notes, NEW told \in BOOLEAN, Deletes(m, told) PROVE FALSE
    BY <1>2, <1>4 DEF Deletes, NoRow
  <1>5. ASSUME NEW s \in Slots, Server(s) PROVE <<n, row[n].rev>> \in seen
    <2>. DEFINE q == requests[s]
    <2>1. ~ CommitDelete(s)
      BY ServesIt DEF CommitDelete, Active, ActiveReq
    <2>2. CommitPost(s) \/ CommitPut(s)
      BY <1>1, <1>5, <2>1 DEF Server, Serves, Read, List, Look, Tables
    <2>3. CASE CommitPost(s)
      <3>1. row' = [row EXCEPT ![q.note] = [rev |-> 1, text |-> q.text]] /\ receipt[q.note] = "none"
        BY <1>1, <2>3 DEF CommitPost
      <3>. QED
        BY <1>2, <3>1
    <2>4. CASE CommitPut(s)
      <3>1. /\ q.stage = "looked" /\ row[q.note].rev = q.was.rev
            /\ row' = [row EXCEPT ![q.note] = [rev |-> q.was.rev + 1, text |-> q.text]]
        BY <1>1, <2>4 DEF CommitPut
      <3>2. q.note = n
        BY <1>2, <3>1
      <3>3. q.kind = "put" /\ q.base = q.was.rev
        BY <3>1, ServesIt DEF Active, ActiveReq
      <3>4. <<n, q.base>> \in seen \/ Never(n)
        BY <3>1, <3>2, <3>3 DEF ShownInv, PutInv, Active
      <3>. QED
        BY <1>2, <3>1, <3>2, <3>3, <3>4 DEF Never, Unposted
    <2>. QED
      BY <2>2, <2>3, <2>4
  <1>6. CASE UNCHANGED draftVars
    BY <1>1, <1>6 DEF draftVars, hosted
  <1>. QED
    BY <1>1, <1>3, <1>4, <1>5, <1>6, PageLeavesAccount DEF DraftNext, World

\* An edit made in the tab replaces only a version of the note that the tab showed.
THEOREM EditsReplaceTheShown == DraftSpec => ReplacesWhatWasShown
  <1>1. ShownInv /\ [DraftNext]_draftVars
            => [\A n \in Notes : row[n] # NoRow /\ row'[n] # row[n] /\ row'[n].text > 0 => <<n, row[n].rev>> \in seen]_draftVars
    BY DraftAssumed, EditsWereShown
  <1>. QED
    BY <1>1, DraftInvariant, PTL DEF DraftSpec, ReplacesWhatWasShown

-----------------------------------------------------------------------------
(* Words.                                                                  *)

WordsKept == WordsInv' /\ (CopyInv => CopyInv')
\* What a step leaves of the words on the screen, and of their copy.
SameWords ==
    /\ tab'.note = tab.note /\ tab'.text = tab.text /\ (tab'.saved => tab.saved \/ Kept(tab.note))
    /\ latest'[tab.note] = latest[tab.note]
    /\ mic' \in RecordingOn /\ tab.note \in quit' => Kept(tab.note) \/ (mic \in RecordingOn /\ tab.note \in quit)
Copies == ~ prefs'.incognito /\ prefs'.retain /\ ~ tab'.saved /\ tab'.text # 0 => disk'.note = tab'.note /\ disk'.text = tab'.text
CopyStays == disk' = disk /\ (tab.unstored => tab'.unstored) /\ (prefs'.retain => prefs.retain)
LatestStays == accepted \subseteq accepted' /\ \A m \in Notes : latest'[m] = latest[m] \/ latest'[m] = 0

LEMMA KeptStays ==
    ASSUME LatestStays, NEW n \in Notes, Kept(n)
    PROVE  Kept(n)'
  BY DEF LatestStays, Kept

\* Nothing is only here.
LEMMA AllAreKept ==
    ASSUME ShownInv', \A n \in Notes : Kept(n)'
    PROVE  WordsKept
  <1>1. tab'.note \in Notes
    BY DEF ShownInv, DraftTypes, TabOk
  <1>. QED
    BY <1>1 DEF WordsKept, WordsInv, CopyInv

\* The words of the draft are thrown away, or are kept elsewhere.
LEMMA ThrownAreKept ==
    ASSUME ShownInv', WordsInv, LatestStays, Kept(tab.note) \/ latest'[tab.note] = 0
    PROVE  WordsKept
  <1>1. ASSUME NEW n \in Notes PROVE Kept(n)'
    <2>1. CASE Kept(n)
      BY <2>1, KeptStays
    <2>2. CASE ~ Kept(n)
      BY <2>2 DEF WordsInv, Kept
    <2>. QED
      BY <2>1, <2>2
  <1>. QED
    BY <1>1, AllAreKept

LEMMA CopiesKeep ==
    ASSUME ShownInv', WordsInv', Copies
    PROVE  CopyInv'
  <1>1. prefs'.retain \in BOOLEAN /\ (prefs'.incognito => ~ prefs'.retain)
    BY DEF ShownInv, DraftTypes
  <1>. QED
    BY <1>1 DEF Copies, CopyInv, WordsInv, Kept

LEMMA SameAreKept ==
    ASSUME ShownInv, ShownInv', WordsInv, LatestStays, SameWords, Copies \/ CopyStays
    PROVE  WordsKept
  <1>1. tab.note \in Notes
    BY DEF ShownInv, DraftTypes, TabOk
  <1>2. CASE Kept(tab.note)
    BY <1>2, ThrownAreKept
  <1>3. CASE ~ Kept(tab.note)
    <2>1. WordsInv'
      <3>1. \A n \in Notes : n # tab'.note => Kept(n)'
        BY KeptStays DEF WordsInv, SameWords
      <3>2. ~ tab'.saved /\ ~ (mic' \in RecordingOn /\ tab'.note \in quit') /\ tab'.text = latest'[tab'.note]
        BY <1>3 DEF SameWords, WordsInv
      <3>. QED
        BY <3>1, <3>2 DEF WordsInv
    <2>2. CASE Copies
      BY <2>1, <2>2, CopiesKeep DEF WordsKept
    <2>3. CASE CopyStays
      BY <1>3, <2>1, <2>3 DEF WordsKept, CopyInv, CopyStays, SameWords
    <2>. QED
      BY <2>2, <2>3
  <1>. QED
    BY <1>2, <1>3

\* The copy of a draft with these words.
LEMMA SnapshotCopies ==
    ASSUME DraftAssumption, NEW t, TabOk(t), disk' = Snapshot(t, prefs'), tab'.note = t.note, tab'.text = t.text,
           tab'.saved = t.saved
    PROVE  Copies
  BY SnapshotIs DEF Copies

\* What is still in the tab, with nothing thrown away.
Carries(t) == t.note = tab.note /\ t.text = tab.text /\ (t.saved => tab.saved \/ Kept(tab.note)) /\ (tab.unstored => t.unstored)
Calls1 == UNCHANGED <<accepted, latest, prefs, quit>>

LEMMA TurnKeepsWords ==
    ASSUME ShownInv, ShownInv', DraftAssumption, WordsInv, NEW t, TabOk(t), PendInv(t.pend, t.note, t.base), Carries(t), NEW next,
           Turn(t, next), Calls1, mic' \in {mic, "off"}
    PROVE  WordsKept
  <1>. DEFINE u == [t EXCEPT !.pend = Frozen(t), !.timer = FALSE]
  <1>1. TabOk(u) /\ u.note = t.note /\ u.text = t.text /\ u.saved = t.saved
    <2>1. OpOk(Frozen(t))
      BY FrozenIs
    <2>. QED
      BY <2>1 DEF TabOk
  <1>2. tab' = u /\ disk' = Snapshot(u, prefs')
    BY DEF Turn
  <1>. HIDE DEF u
  <1>3. Copies
    BY <1>1, <1>2, SnapshotCopies
  <1>4. SameWords
    BY <1>1, <1>2 DEF SameWords, Carries, Calls1, RecordingOn
  <1>5. LatestStays
    BY DEF LatestStays, Calls1
  <1>. QED
    BY <1>3, <1>4, <1>5, SameAreKept

LEMMA EndsOrGoes ==
    ASSUME ShownInv, NEW t, TabOk(t), NEW shown, SaveEnds(t, shown)
    PROVE  (Alike(tab', t) /\ disk' = disk /\ mic' = mic) \/ t.saved
  <1>1. Alike(Scheduled(t, mic, prefs), t) /\ Alike(t, t)
    BY ScheduledIs, MinorRests DEF Alike, ShownInv, DraftTypes
  <1>. QED
    BY <1>1 DEF SaveEnds

LEMMA EndKeepsWords ==
    ASSUME ShownInv, ShownInv', DraftAssumption, WordsInv, NEW t, TabOk(t), Carries(t), NEW shown, SaveEnds(t, shown), Calls1
    PROVE  WordsKept
  <1>1. LatestStays
    BY DEF LatestStays, Calls1
  <1>2. CASE Alike(tab', t) /\ disk' = disk /\ mic' = mic
    <2>1. SameWords /\ CopyStays
      BY <1>2 DEF SameWords, CopyStays, Alike, Carries, Calls1
    <2>. QED
      BY <1>1, <2>1, SameAreKept
  <1>3. CASE t.saved
    <2>1. Kept(tab.note)
      BY <1>3 DEF Carries, WordsInv
    <2>. QED
      BY <1>1, <2>1, ThrownAreKept
  <1>. QED
    BY <1>2, <1>3, EndsOrGoes

LEMMA FailKeepsWords ==
    ASSUME ShownInv, ShownInv', DraftAssumption, WordsInv, NEW t, TabOk(t), Carries(t), NEW shown, SaveFails(t, shown), Calls1
    PROVE  WordsKept
  <1>. DEFINE u == Scheduled(t, mic, prefs)
  <1>1. TabOk(u) /\ Alike(u, t)
    BY ScheduledIs DEF ShownInv, DraftTypes
  <1>2. SaveEnds(u, shown)
    BY DEF SaveFails
  <1>. HIDE DEF u
  <1>3. Carries(u)
    BY <1>1 DEF Carries, Alike
  <1>. QED
    BY <1>1, <1>2, <1>3, EndKeepsWords

\* New words on the screen.
LEMMA NewWords ==
    ASSUME ShownInv, ShownInv', WordsInv, tab'.note = tab.note, ~ tab'.saved, tab'.text = latest'[tab.note],
           accepted' = accepted, \A m \in Notes : m # tab.note => latest'[m] = latest[m],
           ~ (mic' \in RecordingOn /\ tab.note \in quit'), tab'.unstored \/ Copies
    PROVE  WordsKept
  <1>1. \A n \in Notes : n # tab'.note => Kept(n)'
    BY DEF WordsInv, Kept
  <1>2. WordsInv'
    BY <1>1 DEF WordsInv
  <1>. QED
    BY <1>2, CopiesKeep DEF WordsKept, CopyInv

LEMMA TypeKeepsWords == ASSUME ShownInv, DraftAssumption, Type, WordsInv PROVE WordsKept
  <1>. DEFINE t == [tab EXCEPT !.text = spent.text + 1, !.saved = FALSE, !.unstored = TRUE]
  <1>1. TabOk(tab) /\ spent.text + 1 \in Int /\ tab.note \in Notes
    BY MinorRests, StateIs
  <1>2. TabOk(t) /\ t.note = tab.note /\ t.text = spent.text + 1 /\ ~ t.saved /\ t.unstored
    BY <1>1 DEF TabOk
  <1>3. tab' = Scheduled(t, mic, prefs)
    BY DEF Type
  <1>. HIDE DEF t
  <1>4. tab'.note = tab.note /\ tab'.text = spent.text + 1 /\ ~ tab'.saved /\ tab'.unstored
    BY <1>2, <1>3, ScheduledIs, MinorRests DEF Alike
  <1>5. latest'[tab.note] = spent.text + 1 /\ \A m \in Notes : m # tab.note => latest'[m] = latest[m]
    BY <1>1, MinorRests DEF Type
  <1>6. accepted' = accepted /\ ~ (mic' \in RecordingOn)
    BY DEF Type, Recording
  <1>. QED
    BY <1>4, <1>5, <1>6, TypeKeeps, NewWords

LEMMA SegmentKeepsWords == ASSUME ShownInv, DraftAssumption, Segment, WordsInv PROVE WordsKept
  <1>1. TabOk(tab) /\ spent.text + 1 \in Int /\ tab.note \in Notes
    BY MinorRests, StateIs
  <1>2. tab' = [tab EXCEPT !.text = spent.text + 1] /\ disk' = Snapshot(tab', prefs) /\ UNCHANGED <<accepted, prefs, mic, quit>>
        /\ mic \in RecordingOn
    BY DEF Segment, Says, RecordingOn
  <1>3. tab'.note = tab.note /\ tab'.text = spent.text + 1 /\ tab'.saved = tab.saved /\ TabOk(tab')
    BY <1>1, <1>2 DEF TabOk
  <1>4. Copies
    BY <1>2, <1>3, SnapshotCopies
  <1>5. CASE tab.saved \/ tab.note \in quit
    <2>1. latest' = latest
      BY <1>5 DEF Segment, Says
    <2>2. Kept(tab.note)
      BY <1>2, <1>5 DEF WordsInv
    <2>3. LatestStays
      BY <1>2, <2>1 DEF LatestStays
    <2>. QED
      BY <2>2, <2>3, SegmentKeeps, ThrownAreKept
  <1>6. CASE ~ (tab.saved \/ tab.note \in quit)
    <2>1. latest'[tab.note] = spent.text + 1 /\ \A m \in Notes : m # tab.note => latest'[m] = latest[m]
      BY <1>1, <1>6, MinorRests DEF Segment, Says
    <2>. QED
      BY <1>2, <1>3, <1>4, <1>6, <2>1, SegmentKeeps, NewWords
  <1>. QED
    BY <1>5, <1>6

\* The steps that leave the words as they are.
LEMMA StayingKeepsWords ==
    ASSUME ShownInv, ShownInv', DraftAssumption, WordsInv, tab' = tab, disk' = disk, Calls1,
           mic' \in RecordingOn => mic \in RecordingOn
    PROVE  WordsKept
  <1>1. SameWords /\ CopyStays /\ LatestStays
    BY DEF SameWords, CopyStays, LatestStays, Calls1
  <1>. QED
    BY <1>1, SameAreKept

LEMMA ThrowingKeepsWords ==
    ASSUME ShownInv, ShownInv', DraftAssumption, WordsInv, accepted' = accepted, NEW n \in Notes, latest' = [latest EXCEPT ![n] = 0]
    PROVE  LatestStays /\ latest'[n] = 0 /\ (n = tab.note => WordsKept)
  <1>1. LatestStays /\ latest'[n] = 0
    BY MinorRests DEF LatestStays
  <1>. QED
    BY <1>1, ThrownAreKept

LEMMA StoresKeepsWords == ASSUME ShownInv, DraftAssumption, Stores, WordsInv PROVE WordsKept
  <1>1. tab' = [tab EXCEPT !.unstored = FALSE] /\ disk' = Snapshot(tab, prefs) /\ UNCHANGED <<accepted, latest, prefs, quit, mic>>
    BY DEF Stores
  <1>2. TabOk(tab) /\ tab'.note = tab.note /\ tab'.text = tab.text /\ tab'.saved = tab.saved
    BY <1>1, StateIs DEF TabOk
  <1>3. Copies /\ SameWords /\ LatestStays
    BY <1>1, <1>2, SnapshotCopies DEF SameWords, LatestStays
  <1>. QED
    BY <1>3, StoresKeeps, SameAreKept

LEMMA CancelStopsKeepsWords == ASSUME ShownInv, DraftAssumption, CancelStops, WordsInv PROVE WordsKept
  <1>1. tab' = tab /\ disk' = Snapshot(tab, prefs) /\ UNCHANGED <<accepted, latest, prefs, quit>> /\ mic' \notin RecordingOn
    BY DEF CancelStops, RecordingOn
  <1>2. Copies /\ SameWords /\ LatestStays
    BY <1>1, StateIs, SnapshotCopies DEF SameWords, LatestStays
  <1>. QED
    BY <1>2, CancelStopsKeeps, SameAreKept

\* A save that begins, or does not.
LEMMA TimedIs ==
    ASSUME ShownInv, DraftAssumption
    PROVE  LET t == [tab EXCEPT !.timer = FALSE] IN TabOk(t) /\ Carries(t) /\ t.pend = tab.pend /\ t.base = tab.base /\ t.note = tab.note
  BY StateIs DEF TabOk, Carries

LEMMA SavesNowKeepsWords == ASSUME ShownInv, DraftAssumption, SavesNow, WordsInv PROVE WordsKept
  <1>. DEFINE t == [tab EXCEPT !.timer = FALSE]
  <1>1. TabOk(t) /\ Carries(t) /\ PendInv(t.pend, t.note, t.base)
    BY TimedIs DEF ShownInv, VersionsInv
  <1>2. Calls1 /\ mic' = mic /\ (Turn(t, Stay) \/ (tab' = t /\ disk' = disk))
    BY DEF SavesNow, SaveDraft, Calls1
  <1>. HIDE DEF t
  <1>3. CASE Turn(t, Stay)
    BY <1>1, <1>2, <1>3, SavesNowKeeps, TurnKeepsWords
  <1>4. CASE tab' = t /\ disk' = disk
    <2>1. SameWords /\ CopyStays /\ LatestStays
      BY <1>1, <1>2, <1>4 DEF SameWords, CopyStays, LatestStays, Carries, Calls1
    <2>. QED
      BY <2>1, SavesNowKeeps, SameAreKept
  <1>. QED
    BY <1>2, <1>3, <1>4

LEMMA StoppedKeepsWords == ASSUME ShownInv, DraftAssumption, NEW whole, Stopped(whole), WordsInv PROVE WordsKept
  <1>1. TabOk(tab) /\ Carries(tab) /\ PendInv(tab.pend, tab.note, tab.base)
    BY StateIs DEF ShownInv, VersionsInv, Carries
  <1>2. Calls1 /\ mic' = "off" /\ (Turn(tab, Stay) \/ (tab' = tab /\ disk' = Snapshot(tab, prefs)))
    BY DEF Stopped, SaveDraft, Calls1
  <1>3. CASE Turn(tab, Stay)
    BY <1>1, <1>2, <1>3, StoppedKeeps, TurnKeepsWords
  <1>4. CASE tab' = tab /\ disk' = Snapshot(tab, prefs)
    <2>1. Copies /\ SameWords /\ LatestStays
      BY <1>1, <1>2, <1>4, SnapshotCopies DEF SameWords, LatestStays, Calls1, RecordingOn
    <2>. QED
      BY <2>1, StoppedKeeps, SameAreKept
  <1>. QED
    BY <1>2, <1>3, <1>4

LEMMA LeaveKeepsWords == ASSUME ShownInv, DraftAssumption, NEW next, Leave(next), WordsInv PROVE WordsKept
  <1>1. Calls1 /\ LatestStays
    BY DEF Leave, Calls1, LatestStays
  <1>2. CASE tab.saved \/ ~ HasWords(tab)
    <2>1. Kept(tab.note)
      BY <1>2 DEF WordsInv, HasWords, Kept
    <2>. QED
      BY <1>1, <2>1, LeaveKeeps, ThrownAreKept
  <1>3. CASE Turn(tab, next) /\ mic' = mic
    <2>1. TabOk(tab) /\ Carries(tab) /\ PendInv(tab.pend, tab.note, tab.base)
      BY StateIs DEF ShownInv, VersionsInv, Carries
    <2>. QED
      BY <1>1, <1>3, <2>1, LeaveKeeps, TurnKeepsWords
  <1>. QED
    BY <1>2, <1>3 DEF Leave

LEMMA ContinueKeepsWords == ASSUME ShownInv, DraftAssumption, Continue, WordsInv PROVE WordsKept
  <1>1. Kept(tab.note) /\ LatestStays
    BY DEF Continue, WordsInv, LatestStays
  <1>. QED
    BY <1>1, ContinueKeeps, ThrownAreKept

LEMMA ThrownWords == ASSUME ShownInv, ShownInv', DraftAssumption, NEW stopped, Thrown(stopped), accepted' = accepted, WordsInv PROVE WordsKept
  BY StateIs, ThrowingKeepsWords DEF Thrown

LEMMA CancelKeepsWords == ASSUME ShownInv, DraftAssumption, Cancel, WordsInv PROVE WordsKept
  <1>1. CASE mic = "on" /\ UNCHANGED <<tab, disk, quit, latest>>
    BY <1>1, CancelKeeps, StayingKeepsWords DEF Cancel, Calls1, RecordingOn
  <1>2. CASE Thrown(FALSE)
    BY <1>2, CancelKeeps, ThrownWords DEF Cancel
  <1>. QED
    BY <1>1, <1>2 DEF Cancel

LEMMA CancelEndsKeepsWords == ASSUME ShownInv, DraftAssumption, CancelEnds, WordsInv PROVE WordsKept
  BY CancelEndsKeeps, ThrownWords DEF CancelEnds

LEMMA ClearKeepsWords == ASSUME ShownInv, DraftAssumption, Clear, WordsInv PROVE WordsKept
  BY ClearKeeps, StateIs, ThrowingKeepsWords DEF Clear

LEMMA UseTheirsKeepsWords == ASSUME ShownInv, DraftAssumption, UseTheirs, WordsInv PROVE WordsKept
  BY UseTheirsKeeps, StateIs, ThrowingKeepsWords DEF UseTheirs

LEMMA KeepMineKeepsWords == ASSUME ShownInv, DraftAssumption, KeepMine, WordsInv PROVE WordsKept
  <1>. DEFINE t == [tab EXCEPT !.of = tab.about, !.base = tab.conflict, !.conflict = NoRow, !.pend = Nothing]
  <1>1. TabOk(t) /\ Carries(t) /\ t.pend = Nothing
    BY StateIs, NothingIs DEF TabOk, Carries
  <1>2. Calls1 /\ mic' = mic /\ (Turn(t, Stay) \/ (tab' = t /\ disk' = disk))
    BY DEF KeepMine, SaveDraft, Calls1
  <1>. HIDE DEF t
  <1>3. CASE Turn(t, Stay)
    BY <1>1, <1>2, <1>3, KeepMineKeeps, TurnKeepsWords DEF PendInv
  <1>4. CASE tab' = t /\ disk' = disk
    <2>1. SameWords /\ CopyStays /\ LatestStays
      BY <1>1, <1>2, <1>4 DEF SameWords, CopyStays, LatestStays, Carries, Calls1
    <2>. QED
      BY <2>1, KeepMineKeeps, SameAreKept
  <1>. QED
    BY <1>2, <1>3, <1>4

LEMMA IncognitoKeepsWords == ASSUME ShownInv, DraftAssumption, Incognito, WordsInv PROVE WordsKept
  <1>1. CASE prefs' = [prefs EXCEPT !.incognito = FALSE] /\ UNCHANGED <<tab, disk, latest>>
    <2>1. prefs'.retain = prefs.retain
      BY <1>1, MinorRests
    <2>2. SameWords /\ CopyStays /\ LatestStays
      BY <1>1, <2>1 DEF Incognito, SameWords, CopyStays, LatestStays
    <2>. QED
      BY <2>2, IncognitoKeeps, SameAreKept
  <1>2. CASE latest' = [latest EXCEPT ![tab.note] = 0]
    BY <1>2, IncognitoKeeps, StateIs, ThrowingKeepsWords DEF Incognito
  <1>. QED
    BY <1>1, <1>2 DEF Incognito

LEMMA RetainKeepsWords == ASSUME ShownInv, DraftAssumption, Retain, WordsInv PROVE WordsKept
  <1>1. disk' = Snapshot(tab, prefs') /\ tab' = Scheduled(tab, mic, prefs') /\ UNCHANGED <<accepted, latest, mic, quit>>
    BY DEF Retain
  <1>2. prefs' \in [incognito : BOOLEAN, retain : BOOLEAN]
    BY RetainKeeps DEF ShownInv, DraftTypes
  <1>3. Alike(tab', tab) /\ TabOk(tab)
    BY <1>1, <1>2, StateIs, ScheduledIs
  <1>4. Copies
    BY <1>1, <1>3, SnapshotCopies DEF Alike
  <1>5. SameWords /\ LatestStays
    BY <1>1, <1>3 DEF SameWords, LatestStays, Alike
  <1>. QED
    BY <1>4, <1>5, RetainKeeps, SameAreKept

LEMMA OthersKeepWords ==
    ASSUME ShownInv, DraftAssumption, WordsInv, StopsSpeaking \/ Later \/ Visible
    PROVE  WordsKept
  <1>1. tab' = tab /\ disk' = disk /\ Calls1 /\ (mic' \in RecordingOn => mic \in RecordingOn)
    BY DEF StopsSpeaking, Later, Visible, Calls1, RecordingOn
  <1>. QED
    BY <1>1, StopsSpeakingKeeps, LaterKeeps, VisibleKeeps, StayingKeepsWords

\* Answers.
LEMMA SavedKeepsWords ==
    ASSUME ShownInv, DraftAssumption, WordsInv, SaveAnswered, requests["call"].status = 200, Mine(task.op), Saved1(requests["call"])
    PROVE  WordsKept
  <1>. DEFINE r == requests["call"]
              o == task.op
              t == [tab EXCEPT !.saved = (tab.text = o.text), !.of = o.note, !.base = r.reply, !.pend = Nothing]
  <1>1. task.at = "call" /\ r.stage = "answered" /\ Calls1 /\ o.note = tab.note /\ OpOk(o)
    BY DEF SaveAnswered, Mine, Calls1, ShownInv, DraftTypes
  <1>2. r.reply \in Row /\ tab.conflict = NoRow
    <2>1. r.kind \in {"post", "put"} /\ "call" \in Slots
      BY <1>1, NotesAre DEF ShownInv, SaveInv
    <2>. QED
      BY <1>1, <2>1 DEF ShownInv, ReviewInv, DraftTypes, Request1, Free, ActiveReq, AnsweredReq
  <1>3. TabOk(t) /\ t.note = tab.note /\ t.text = tab.text /\ t.unstored = tab.unstored /\ t.pend = Nothing
        /\ (t.saved => tab.text = o.text)
    <2>1. o.note \in Nat /\ (tab.text = o.text) \in BOOLEAN
      BY <1>1 DEF OpOk
    <2>. HIDE DEF r, o
    <2>. QED
      BY <1>2, <2>1, StateIs, NothingIs DEF TabOk
  <1>4. (Turn(t, task.next) /\ UNCHANGED mic) \/ (tab' = t /\ disk' = Snapshot(t, prefs) /\ UNCHANGED mic)
    BY DEF Saved1
  <1>5. tab.text = o.text => Kept(tab.note)
    <2>1. CASE o.text > 0
      BY <1>1, <2>1 DEF ShownInv, SaveInv, WordsInv, Kept
    <2>2. CASE ~ (o.text > 0) /\ tab.text = o.text
      BY <2>2, MinorRests, StateIs DEF WordsInv, Kept
    <2>. QED
      BY <2>1, <2>2
  <1>6. Carries(t)
    BY <1>3, <1>5 DEF Carries
  <1>. HIDE DEF t, r, o
  <1>7. CASE Turn(t, task.next) /\ UNCHANGED mic
    BY <1>1, <1>3, <1>6, <1>7, SavedKeeps, TurnKeepsWords DEF PendInv
  <1>8. CASE tab' = t /\ disk' = Snapshot(t, prefs) /\ UNCHANGED mic
    <2>1. Copies
      BY <1>1, <1>3, <1>8, SnapshotCopies DEF Calls1
    <2>2. SameWords /\ LatestStays
      BY <1>1, <1>6, <1>8 DEF SameWords, LatestStays, Carries, Calls1
    <2>. QED
      BY <2>1, <2>2, SavedKeeps, SameAreKept
  <1>. QED
    BY <1>4, <1>7, <1>8

LEMMA SaveAnsweredKeepsWords == ASSUME ShownInv, DraftAssumption, SaveAnswered, WordsInv PROVE WordsKept
  <1>1. ShownInv' /\ Calls1 /\ TabOk(tab) /\ Carries(tab)
    BY SaveAnsweredKeeps, StateIs DEF SaveAnswered, Calls1, Carries
  <1>2. CASE SaveEnds(tab, {})
    BY <1>1, <1>2, EndKeepsWords
  <1>3. CASE UNCHANGED <<tab, disk, mic>>
    BY <1>1, <1>3, StayingKeepsWords
  <1>4. CASE SaveFails([tab EXCEPT !.deleted = TRUE, !.pend = Nothing], {})
    <2>. DEFINE t == [tab EXCEPT !.deleted = TRUE, !.pend = Nothing]
    <2>1. TabOk(t) /\ Carries(t)
      BY <1>1, NothingIs DEF TabOk, Carries
    <2>. HIDE DEF t
    <2>. QED
      BY <1>1, <1>4, <2>1, FailKeepsWords DEF t
  <1>5. CASE SaveFails(tab, {})
    BY <1>1, <1>5, FailKeepsWords
  <1>. QED
    BY <1>2, <1>3, <1>4, <1>5, SavedKeepsWords DEF SaveAnswered

LEMMA RereadKeepsWords == ASSUME ShownInv, DraftAssumption, Reread, WordsInv PROVE WordsKept
  <1>. DEFINE r == requests["call"]
              theirs == IF r.status = 200 THEN r.reply ELSE NoRow
              t == [tab EXCEPT !.about = r.note, !.conflict = theirs]
              shown == IF theirs # NoRow THEN {<<r.note, theirs.rev>>} ELSE {}
  <1>1. ShownInv' /\ Calls1 /\ task.at = "reread" /\ r.stage = "answered"
    BY RereadKeeps DEF Reread, Calls1
  <1>2. SaveFails(t, shown)
    BY DEF Reread
  <1>3. r.note \in Nat /\ theirs \in Row
    <2>1. r.kind = "get" /\ "call" \in Slots
      BY <1>1, NotesAre DEF ShownInv, SaveInv
    <2>. QED
      BY <1>1, <2>1, NotesAre, NothingIs DEF ShownInv, DraftTypes, Request1, Free, ActiveReq, AnsweredReq
  <1>. HIDE DEF r, theirs, shown
  <1>4. TabOk(t) /\ Carries(t)
    BY <1>3, StateIs DEF TabOk, Carries
  <1>. HIDE DEF t
  <1>. QED
    BY <1>1, <1>2, <1>4, FailKeepsWords

LEMMA EndingsKeepWords ==
    ASSUME ShownInv, DraftAssumption, WordsInv, AnswerIsLost \/ Lists
    PROVE  WordsKept
  <1>1. ShownInv' /\ Calls1 /\ TabOk(tab) /\ Carries(tab)
    BY AnswerIsLostKeeps, ListsKeeps, StateIs DEF AnswerIsLost, Lists, Calls1, Carries
  <1>2. SaveFails(tab, {}) \/ SaveEnds(tab, {}) \/ UNCHANGED <<tab, disk, mic>>
    BY DEF AnswerIsLost, Lists
  <1>. QED
    BY <1>1, <1>2, EndKeepsWords, FailKeepsWords, StayingKeepsWords

LEMMA ListedKeepsWords == ASSUME ShownInv, DraftAssumption, Listed, WordsInv PROVE WordsKept
  <1>1. ShownInv' /\ Calls1 /\ TabOk(tab) /\ Carries(tab)
    BY ListedKeeps, StateIs DEF Listed, Calls1, Carries
  <1>2. SaveEnds(tab, {}) \/ tab.saved \/ UNCHANGED <<tab, disk, mic>>
    BY DEF Listed
  <1>3. CASE tab.saved
    BY <1>1, <1>3, ThrownAreKept DEF WordsInv, LatestStays, Calls1
  <1>. QED
    BY <1>1, <1>2, <1>3, EndKeepsWords, StayingKeepsWords

LEMMA OtherEditsKeepsWords == ASSUME ShownInv, DraftAssumption, NEW n \in Notes, OtherEdits(n), WordsInv PROVE WordsKept
  BY OtherEditsKeeps, StayingKeepsWords DEF OtherEdits, Calls1

LEMMA DeletesKeepsWords ==
    ASSUME ShownInv, DraftAssumption, NEW n \in Notes, NEW told \in BOOLEAN, Deletes(n, told), WordsInv
    PROVE  WordsKept
  <1>1. ShownInv' /\ latest' = [latest EXCEPT ![n] = 0] /\ UNCHANGED <<accepted, prefs, mic, quit>>
    BY DeletesKeeps DEF Deletes
  <1>2. CASE n = tab.note
    BY <1>1, <1>2, ThrowingKeepsWords
  <1>3. CASE n # tab.note
    <2>1. tab' = tab /\ disk' = disk /\ latest'[tab.note] = latest[tab.note]
      BY <1>1, <1>3, MinorRests, StateIs DEF Deletes
    <2>2. LatestStays
      BY <1>1, ThrowingKeepsWords
    <2>3. SameWords /\ CopyStays
      BY <1>1, <2>1 DEF SameWords, CopyStays
    <2>. QED
      BY <1>1, <2>2, <2>3, SameAreKept
  <1>. QED
    BY <1>2, <1>3

LEMMA ServerKeepsWords == ASSUME ShownInv, DraftAssumption, NEW s \in Slots, Server(s), WordsInv PROVE WordsKept
  <1>1. UNCHANGED <<tab, disk, mic, latest, prefs, quit>> /\ accepted \subseteq accepted'
    BY DEF Server, draft
  <1>2. SameWords /\ CopyStays /\ LatestStays
    BY <1>1 DEF SameWords, CopyStays, LatestStays
  <1>. QED
    BY <1>2, ServerKeeps, SameAreKept

LEMMA OtherTabKeepsWords == ASSUME ShownInv, DraftAssumption, OtherTab, WordsInv PROVE WordsInv'
  <1>1. UNCHANGED <<tab, mic, latest, accepted, quit>>
    BY DEF OtherTab
  <1>. QED
    BY <1>1 DEF WordsInv, Kept

\* The page is loaded again: the copy has what is nowhere else.
LEMMA ReloadKeepsWords == ASSUME ShownInv, DraftAssumption, Reload, WordsInv, CopyInv PROVE WordsKept
  <1>1. ShownInv' /\ disk' = disk /\ accepted' = accepted /\ mic' = "off" /\ tab.note \in Notes
        /\ latest' = (IF tab.unstored \/ ~ prefs.retain THEN [latest EXCEPT ![tab.note] = 0] ELSE latest)
    BY ReloadKeeps, StateIs DEF Reload
  <1>2. LatestStays
    BY <1>1, MinorRests DEF LatestStays
  <1>3. CASE Kept(tab.note) \/ tab.unstored \/ ~ prefs.retain
    <2>1. Kept(tab.note) \/ latest'[tab.note] = 0
      BY <1>1, <1>3, MinorRests
    <2>. QED
      BY <1>1, <1>2, <2>1, ThrownAreKept
  <1>4. CASE ~ (Kept(tab.note) \/ tab.unstored \/ ~ prefs.retain)
    <2>1. disk.note = tab.note /\ disk.text = tab.text /\ latest' = latest /\ tab.text = latest[tab.note]
      BY <1>1, <1>4 DEF CopyInv, WordsInv
    <2>2. disk # Empty
      BY <1>1, <2>1, NotesAre DEF Empty
    <2>. DEFINE t == [Blank(disk.note) EXCEPT !.text = disk.text, !.of = disk.of, !.base = disk.base, !.pend = disk.pend]
                p == [incognito |-> FALSE, retain |-> TRUE]
    <2>3. tab' = Scheduled(t, "off", p)
      BY <2>2 DEF Reload
    <2>4. TabOk(t) /\ t.note = disk.note /\ t.text = disk.text /\ ~ t.saved
      <3>. DEFINE b == Blank(disk.note)
      <3>1. TabOk(b) /\ b.note = disk.note /\ ~ b.saved
        BY <1>1, <2>1, BlankIs
      <3>2. disk.text \in Int /\ disk.of \in Nat /\ disk.base \in Row /\ OpOk(disk.pend)
        BY StateIs DEF DiskOk
      <3>. HIDE DEF b
      <3>3. LET u == [b EXCEPT !.text = disk.text, !.of = disk.of, !.base = disk.base, !.pend = disk.pend] IN
            TabOk(u) /\ u.note = disk.note /\ u.text = disk.text /\ ~ u.saved
        BY <3>1, <3>2 DEF TabOk
      <3>. QED
        BY <3>3 DEF b
    <2>5. p \in [incognito : BOOLEAN, retain : BOOLEAN]
      OBVIOUS
    <2>. HIDE DEF t, p
    <2>6. tab'.note = tab.note /\ tab'.text = tab.text /\ ~ tab'.saved
      BY <2>1, <2>3, <2>4, <2>5, ScheduledIs DEF Alike
    <2>7. SameWords
      BY <1>1, <2>1, <2>6 DEF SameWords, RecordingOn
    <2>8. Copies
      BY <1>1, <2>1, <2>6 DEF Copies
    <2>. QED
      BY <1>1, <1>2, <2>7, <2>8, SameAreKept
  <1>. QED
    BY <1>3, <1>4

-----------------------------------------------------------------------------
\* What is counted only grows.
LEMMA SpentGrows ==
    ASSUME [DraftNext]_draftVars
    PROVE  spent' = spent \/ \E what \in {"text", "other", "lost", "reload", "aside", "tab"} : Spend(what)
  <1>1. ASSUME NEW next, Leave(next) PROVE spent' = spent
    BY <1>1 DEF Leave
  <1>2. CASE User
    BY <1>1, <1>2 DEF User, Type, Clear, Continue, StopsSpeaking, Cancel, KeepMine, UseTheirs, Later, Incognito, Retain, Segment,
                      Says, Visible, Retries, SavesNow
  <1>3. CASE Tab
    BY <1>3 DEF Tab, Stores, Saves, SavesNow, SaveAnswered, Reread, Lists, Listed, CancelStops, CancelEnds, Stopped
  <1>4. CASE World
    BY <1>4 DEF World, OtherTab, Reload, AnswerIsLost, OtherEdits, Deletes
  <1>5. CASE \E s \in Slots : Server(s)
    BY <1>5 DEF Server, draft
  <1>6. CASE UNCHANGED draftVars
    BY <1>6 DEF draftVars, draft
  <1>. QED
    BY <1>2, <1>3, <1>4, <1>5, <1>6 DEF DraftNext

LEMMA WasAlone ==
    ASSUME ShownInv, [DraftNext]_draftVars
    PROVE  (Alone' => Alone) /\ (spent'.tab = 0 => spent.tab = 0 /\ Alone)
  <1>1. spent \in [{"text", "other", "lost", "reload", "aside", "tab"} -> Nat]
    BY DEF ShownInv, DraftTypes
  <1>2. spent'.tab = 0 => spent.tab = 0
    BY <1>1, SpentGrows DEF Spend
  <1>3. spent'.reload = 0 => spent.reload = 0
    BY <1>1, SpentGrows DEF Spend
  <1>. QED
    BY <1>2, <1>3 DEF Alone

LEMMA StepsKeepWords ==
    ASSUME ShownInv, DraftAssumption, [DraftNext]_draftVars, WordsInv
    PROVE  WordsKept \/ OtherTab \/ Reload
  <1>1. CASE User
    <2>1. ASSUME NEW next, Leave(next) PROVE WordsKept
      BY <2>1, LeaveKeepsWords
    <2>. QED
      BY <1>1, <2>1, TypeKeepsWords, ClearKeepsWords, ContinueKeepsWords, CancelKeepsWords, KeepMineKeepsWords, UseTheirsKeepsWords,
         IncognitoKeepsWords, RetainKeepsWords, SegmentKeepsWords, SavesNowKeepsWords, OthersKeepWords DEF User, Retries
  <1>2. CASE Tab
    BY <1>2, StoresKeepsWords, SavesNowKeepsWords, SaveAnsweredKeepsWords, RereadKeepsWords, EndingsKeepWords, ListedKeepsWords,
       CancelStopsKeepsWords, CancelEndsKeepsWords, StoppedKeepsWords DEF Tab, Saves
  <1>3. CASE World
    BY <1>3, EndingsKeepWords, OtherEditsKeepsWords, DeletesKeepsWords DEF World
  <1>4. CASE \E s \in Slots : Server(s)
    BY <1>4, ServerKeepsWords
  <1>5. CASE UNCHANGED draftVars
    BY <1>5 DEF draftVars, draft, WordsKept, WordsInv, CopyInv, Kept
  <1>. QED
    BY <1>1, <1>2, <1>3, <1>4, <1>5 DEF DraftNext

LEMMA TextSteps ==
    ASSUME ShownInv, DraftAssumption, [DraftNext]_draftVars, TextInv
    PROVE  TextInv'
  <1>1. CASE WordsInv => WordsKept
    BY <1>1, WasAlone DEF TextInv, WordsKept
  <1>2. CASE OtherTab
    <2>1. spent'.tab # 0
      <3>1. spent' = [spent EXCEPT !["tab"] = @ + 1] /\ spent \in [{"text", "other", "lost", "reload", "aside", "tab"} -> Nat]
        BY <1>2 DEF OtherTab, Spend, ShownInv, DraftTypes
      <3>. QED
        BY <3>1
    <2>. QED
      BY <1>2, <2>1, WasAlone, OtherTabKeepsWords DEF TextInv
  <1>3. CASE Reload
    <2>1. spent'.reload # 0
      <3>1. spent' = [spent EXCEPT !["reload"] = @ + 1] /\ spent \in [{"text", "other", "lost", "reload", "aside", "tab"} -> Nat]
        BY <1>3 DEF Reload, Spend, ShownInv, DraftTypes
      <3>. QED
        BY <3>1
    <2>2. Alone' => spent'.tab = 0
      BY <2>1 DEF Alone
    <2>. QED
      BY <1>3, <2>2, WasAlone, ReloadKeepsWords DEF TextInv, WordsKept
  <1>. QED
    BY <1>1, <1>2, <1>3, StepsKeepWords

LEMMA TextBegins == ASSUME DraftAssumption, DraftInit PROVE TextInv
  <1>1. latest = [n \in Notes |-> 0] /\ tab.note = 1 /\ 1 \in Notes
    BY NotesAre DEF DraftInit, Blank
  <1>. QED
    BY <1>1 DEF TextInv, WordsInv, CopyInv, Kept

\* Words that nobody threw away are on the screen, in the account, or in the recovery copy, whatever is opened,
\* started, answered, lost or loaded again; but not if the page is loaded again after, or before, another tab
\* stored its empty draft.
THEOREM NoWordsAreLost == DraftSpec => [](Alone => WordsAreSomewhere)
  <1>1. DraftInit => TextInv
    BY DraftAssumed, TextBegins
  <1>2. ShownInv /\ TextInv /\ [DraftNext]_draftVars => TextInv'
    BY DraftAssumed, TextSteps
  <1>3. TextInv => (Alone => WordsAreSomewhere)
    BY DEF TextInv, WordsInv, Kept, WordsAreSomewhere
  <1>. QED
    BY <1>1, <1>2, <1>3, DraftInvariant, PTL DEF DraftSpec
=============================================================================
