---------------------------- MODULE MeetingProofs ----------------------------
(***************************************************************************)
(* What meetings keep, for any number of them, of retries, of failures and *)
(* of rows in the archive.                                                 *)
(***************************************************************************)
EXTENDS Meeting, SequenceTheorems, TLAPS

-----------------------------------------------------------------------------
(* The inductive invariant.                                                *)

Session == [phase : {"preparing", "recording", "processing", "cancelled", "failed", "completed", "closed"},
            private : BOOLEAN, cut : BOOLEAN, lock : {"free", "start", "finish"},
            start : {"no", "queued", "opening", "opened", "ready", "failed", "seen"},
            finish : {"no", "queued", "stopping", "stopped", "sending", "saved", "kept", "erased", "seen"},
            close : {"no", "queued", "closed", "seen"},
            recorder : {"new", "recording", "stopped", "closed"}, kept : BOOLEAN]
Row == [id : Meetings, done : BOOLEAN, title : Nat]
Control == [active : {0} \cup Meetings, processing : BOOLEAN, cancelling : BOOLEAN, closed : BOOLEAN,
            waiting : BOOLEAN, retry : {0} \cup Meetings, quit : BOOLEAN]
\* No two rows are of one meeting.
Apart(rows) == \A i, j \in DOMAIN rows : rows[i].id = rows[j].id => i = j
MeetingTypes ==
    /\ ctl \in Control /\ ses \in [Meetings -> Session] /\ disk \in [Meetings -> {"none", "parts", "audio"}]
    /\ index \in Seq(Row) /\ Len(index) <= MaxMeetings /\ Apart(index)
    /\ retry \in [at : {"no", "queued", "sending", "over"}, row : [id : Nat, done : BOOLEAN, title : Nat], cut : BOOLEAN]
    /\ retry.at # "no" => retry.row \in Row
    /\ sent \subseteq Meetings
    /\ notice \in [Meetings -> {"nothing", "not started", "saved", "kept", "erased", "cancelled", "deleted"}]
    /\ title \in [Meetings -> Nat] /\ used \in [{"faults", "retries", "titles", "kills"} -> Nat]

Indexed(m) == Kept(index, m)
\* A session that a killed program has left.
Gone(m) ==
    /\ ctl.quit /\ used.kills > 0 /\ ses[m].start = "seen" /\ ses[m].phase = "preparing" /\ ses[m].recorder = "new"
    /\ ses[m].lock = "free" /\ ses[m].finish = "no" /\ ses[m].close = "no" /\ ~ ses[m].kept /\ ~ ses[m].cut
\* The session is in its lock, or may still take it to record or to upload.
Busy(m) ==
    \/ ses[m].lock # "free" \/ ses[m].phase = "recording"
    \/ ses[m].start = "queued" /\ ~ ses[m].cut

\* How the tasks of a session fit: who has the lock, and how far its recorder and its audio are.
TasksInv(m) ==
    LET s == ses[m] IN
    /\ s.start = "no" => s = NoSession
    /\ s.lock = "start" <=> s.start \in {"opening", "opened"}
    /\ s.lock = "finish" <=> s.finish \in {"stopping", "stopped", "sending"}
    /\ s.finish # "no" => s.start \in {"ready", "seen"}
    /\ s.phase = "preparing" => s.recorder = IF s.start = "opened" THEN "recording" ELSE "new"
    /\ s.start = "queued" => s.phase \in {"preparing", "closed"}
    /\ s.start = "opening" => s.phase = "preparing"
    /\ s.start = "opened" => s.phase = "preparing"
    /\ s.phase = "recording" => s.start \in {"ready", "seen"} /\ s.recorder = "recording" /\ s.finish \in {"no", "queued"}
    /\ s.finish = "queued" => s.phase \in {"recording", "closed"}
    /\ s.finish \in {"stopping", "stopped", "sending"} => s.phase = "processing"
    /\ s.finish = "stopping" => s.recorder = "recording"
    /\ s.finish \in {"stopped", "sending"} => s.recorder = "stopped"
    /\ s.phase = "processing" => s.lock = "finish"
    /\ s.phase \in {"cancelled", "failed", "completed", "closed"} => s.recorder = "closed" /\ s.lock = "free"
    /\ s.close # "no" => s.cut
    /\ s.close \in {"closed", "seen"} <=> s.phase = "closed"
AudioInv(m) ==
    LET s == ses[m] IN
    /\ s.recorder = "new" => disk[m] = "none" \/ Gone(m)
    /\ s.recorder = "closed" /\ ~ s.kept => disk[m] = "none"
    /\ s.recorder = "stopped" => disk[m] = "audio"
    /\ s.kept => ~ s.private /\ s.recorder = "closed" /\ s.finish \in {"saved", "kept", "seen"} /\ m \in sent
    /\ s.finish \in {"saved", "kept"} => s.kept
    /\ Indexed(m) => (s.kept \/ Gone(m)) /\ ~ s.private /\ disk[m] = "audio"
    /\ m \in sent => s.finish \in {"sending", "saved", "kept", "erased", "seen"} \/ Gone(m)
    /\ s.kept /\ ~ Indexed(m) => disk[m] = "none" \/ s.finish = "kept" \/ (s.finish = "seen" /\ notice[m] = "kept") \/ ctl.closed
    /\ s.private /\ Gone(m) => disk[m] = "none"
    /\ s.finish = "sending" => m \in sent
\* What the person was told, and may be told.
NoticeInv(m) ==
    LET s == ses[m] IN
    /\ notice[m] = "cancelled" => (s.close = "seen" \/ Gone(m)) /\ m \notin sent /\ disk[m] = "none" /\ ~ Indexed(m)
    /\ s.close # "no" /\ ~ ctl.closed => m \notin sent
\* The controller shows the session that is not over, until it closes.
OwnerInv(m) ==
    LET s == ses[m] IN
    /\ Busy(m) => IF ctl.closed THEN ~ ctl.quit /\ s.close = "queued" ELSE ctl.active = m
    /\ s.finish \in {"saved", "kept"} /\ ~ ctl.closed => ctl.active = m
    /\ ctl.active = m => s.start # "no" /\ (s.finish # "no" => ctl.processing)
ControlInv ==
    /\ ctl.quit => ctl.closed
    /\ ctl.closed => ctl.active = 0 /\ ctl.retry = 0
    /\ ctl.active # 0 => ctl.retry = 0
    /\ used.kills > 0 => ctl.quit
\* A retry under way is of a row that stands, or it saves nothing.
RetryInv ==
    /\ ~ ctl.closed => ctl.retry = IF retry.at = "no" THEN 0 ELSE retry.row.id
    /\ ctl.closed => retry.at \in {"no", "over"} \/ retry.cut
    /\ retry.at = "sending" /\ ~ retry.cut => Indexed(retry.row.id)

SessionInv(m) == TasksInv(m) /\ AudioInv(m) /\ NoticeInv(m) /\ OwnerInv(m)
MeetingInv == MeetingTypes /\ ControlInv /\ RetryInv /\ \A m \in Meetings : SessionInv(m)

-----------------------------------------------------------------------------
(* The archive.                                                            *)

\* The index, item by item.
LEMMA IndexIs ==
    ASSUME MeetingTypes
    PROVE  /\ index \in Seq(Row) /\ Len(index) \in Nat /\ Len(index) <= MaxMeetings
           /\ DOMAIN index = 1..Len(index) /\ Apart(index) /\ \A i \in 1..Len(index) : index[i] \in Row
<1>1. index \in Seq(Row) /\ Len(index) <= MaxMeetings /\ Apart(index) BY DEF MeetingTypes
<1>2. QED BY <1>1, LenProperties, ElementOfSeq

\* A row is there when its meeting is kept.
LEMMA RowThere ==
    ASSUME MeetingTypes, NEW m
    PROVE  /\ RowOf(m) # {} <=> Indexed(m)
           /\ \A r \in RowOf(m) : r \in Row /\ r.id = m /\ r \in Rows
           /\ \A r \in Rows : r \in Row /\ Indexed(r.id) /\ r.id \in Meetings
           /\ Indexed(m) => m \in Meetings
<1>1. \A i \in DOMAIN index : index[i] \in Row BY IndexIs
<1>2. QED BY <1>1 DEF RowOf, Rows, Indexed, Kept, Row

\* What `save` leaves: the row is there, no row is new but it, and none goes for a row that was there.
LEMMA SavedRows ==
    ASSUME MeetingTypes, MeetingAssumption, NEW row \in Row
    PROVE  /\ Saved(row) \in Seq(Row) /\ Len(Saved(row)) <= MaxMeetings /\ Apart(Saved(row))
           /\ Kept(Saved(row), row.id)
           /\ \A m : Kept(Saved(row), m) => m = row.id \/ Indexed(m)
           /\ Indexed(row.id) => \A m : Indexed(m) => Kept(Saved(row), m)
<1> DEFINE changed == [i \in DOMAIN index |-> IF index[i].id = row.id THEN row ELSE index[i]]
           front == <<row>> \o index
           all == IF RowOf(row.id) # {} THEN changed ELSE front
           n == IF Len(all) < MaxMeetings THEN Len(all) ELSE MaxMeetings
<1>1. /\ index \in Seq(Row) /\ Len(index) \in Nat /\ Len(index) <= MaxMeetings /\ DOMAIN index = 1..Len(index)
      /\ Apart(index) /\ \A i \in 1..Len(index) : index[i] \in Row
    BY IndexIs
<1>2. Saved(row) = SubSeq(all, 1, n) BY DEF Saved
<1>3. MaxMeetings \in Nat \ {0} BY DEF MeetingAssumption
<1>4. CASE Indexed(row.id)
  <2>1. all = changed BY <1>4, RowThere
  <2>2. changed \in Seq(Row) /\ Len(changed) = Len(index)
    <3>1. \A i \in 1..Len(index) : changed[i] \in Row BY <1>1
    <3>2. changed \in [1..Len(index) -> Row] BY <1>1, <3>1
    <3>3. QED BY <1>1, <3>2
  <2>3. n = Len(index) /\ Len(all) = Len(index)
    <3>1. Len(all) = Len(index) BY <2>1, <2>2
    <3> HIDE DEF all
    <3>2. QED BY <3>1, <1>1, <1>3
  <2>4. Saved(row) \in Seq(Row) /\ Len(Saved(row)) = Len(index) /\ \A i \in 1..Len(index) : Saved(row)[i] = changed[i]
    <3>1. \A i \in 1..Len(index) : changed[i] \in Row BY <2>2, ElementOfSeq
    <3> HIDE DEF changed, n
    <3>2. QED BY <1>2, <2>1, <2>3, <3>1, <1>1, SubSeqProperties
  <2>5. \A i \in 1..Len(index) : Saved(row)[i].id = index[i].id BY <2>4, <1>1
  <2>6. DOMAIN Saved(row) = 1..Len(index) BY <2>4, LenProperties
  <2>7. Apart(Saved(row)) BY <1>1, <2>5, <2>6 DEF Apart
  <2>8. \A m : Kept(Saved(row), m) <=> Indexed(m) BY <1>1, <2>5, <2>6 DEF Kept, Indexed
  <2>9. QED BY <1>1, <1>4, <2>4, <2>7, <2>8
<1>5. CASE ~ Indexed(row.id)
  <2>1. all = front BY <1>5, RowThere
  <2>2. front \in Seq(Row) /\ Len(front) = Len(index) + 1 /\ front[1] = row /\ \A i \in 2..(Len(index) + 1) : front[i] = index[i - 1]
    <3>1. <<row>> \in Seq(Row) /\ Len(<<row>>) = 1 /\ <<row>>[1] = row OBVIOUS
    <3>2. QED BY <3>1, <1>1, ConcatProperties
  <2>3. n \in 1..(Len(index) + 1) /\ n <= MaxMeetings BY <2>1, <2>2, <1>1, <1>3
  <2>4. Saved(row) \in Seq(Row) /\ Len(Saved(row)) = n /\ \A i \in 1..n : Saved(row)[i] = front[i]
    <3>1. \A i \in 1..(Len(index) + 1) : front[i] \in Row BY <2>2, ElementOfSeq
    <3> HIDE DEF front, n
    <3>2. QED BY <1>2, <2>1, <2>3, <3>1, <1>1, SubSeqProperties
  <2>5. Saved(row)[1] = row /\ \A i \in 2..n : i - 1 \in DOMAIN index /\ Saved(row)[i] = index[i - 1]
    BY <1>1, <2>2, <2>3, <2>4
  <2>6. DOMAIN Saved(row) = 1..n BY <2>4, LenProperties
  <2>7. \A i \in 2..n : Saved(row)[i].id # row.id BY <2>5, <1>5 DEF Indexed, Kept
  <2>8. Apart(Saved(row))
    <3> SUFFICES ASSUME NEW i \in 1..n, NEW j \in 1..n, Saved(row)[i].id = Saved(row)[j].id PROVE i = j BY <2>6 DEF Apart
    <3>1. CASE i = 1 \/ j = 1 BY <3>1, <2>5, <2>7, <2>3
    <3>2. CASE i # 1 /\ j # 1
      <4>1. i \in 2..n /\ j \in 2..n BY <3>2, <2>3
      <4>2. i - 1 \in DOMAIN index /\ j - 1 \in DOMAIN index /\ index[i - 1].id = index[j - 1].id BY <4>1, <2>5
      <4>3. i - 1 = j - 1 BY <4>2, <1>1 DEF Apart
      <4>4. QED BY <4>1, <4>3
    <3>3. QED BY <3>1, <3>2
  <2>9. \A m : Kept(Saved(row), m) => m = row.id \/ Indexed(m)
    <3> SUFFICES ASSUME NEW m, NEW i \in 1..n, Saved(row)[i].id = m PROVE m = row.id \/ Indexed(m) BY <2>6 DEF Kept
    <3>1. CASE i = 1 BY <3>1, <2>5
    <3>2. CASE i # 1
      <4>1. i \in 2..n BY <3>2, <2>3
      <4>2. QED BY <4>1, <2>5 DEF Indexed, Kept
    <3>3. QED BY <3>1, <3>2
  <2>10. Kept(Saved(row), row.id)
    <3>1. 1 \in DOMAIN Saved(row) BY <2>3, <2>6, <1>1
    <3>2. Saved(row)[1].id = row.id BY <2>5
    <3> HIDE DEF changed, front, all, n
    <3>3. QED BY <3>1, <3>2 DEF Kept
  <2>11. QED BY <2>3, <2>4, <2>8, <2>9, <2>10, <1>5
<1>6. QED BY <1>4, <1>5

\* What `delete` leaves: every other row.
LEMMA WithoutRow ==
    ASSUME MeetingTypes, MeetingAssumption, NEW m, Indexed(m)
    PROVE  /\ Without(m) \in Seq(Row) /\ Len(Without(m)) <= MaxMeetings /\ Apart(Without(m))
           /\ \A k : Kept(Without(m), k) => Indexed(k) /\ k # m
           /\ \A k : Indexed(k) /\ k # m => Kept(Without(m), k)
<1> DEFINE spot == CHOOSE k \in DOMAIN index : index[k].id = m
           a == SubSeq(index, 1, spot - 1)
           b == SubSeq(index, spot + 1, Len(index))
           At(j) == IF j < spot THEN j ELSE j + 1
<1>1. /\ index \in Seq(Row) /\ Len(index) \in Nat /\ Len(index) <= MaxMeetings /\ DOMAIN index = 1..Len(index)
      /\ Apart(index) /\ \A n \in 1..Len(index) : index[n] \in Row
    BY IndexIs
<1>2. spot \in 1..Len(index) /\ index[spot].id = m BY <1>1 DEF Indexed, Kept
<1> HIDE DEF spot
<1>3. a \in Seq(Row) /\ Len(a) = spot - 1 /\ \A j \in 1..(spot - 1) : a[j] = index[j]
  <2>1. \A j \in 1..(spot - 1) : index[j] \in Row BY <1>1, <1>2
  <2>2. QED BY <2>1, <1>1, <1>2, SubSeqProperties DEF a
<1>4. b \in Seq(Row) /\ Len(b) = Len(index) - spot /\ \A j \in 1..(Len(index) - spot) : b[j] = index[spot + j]
  <2>1. \A j \in (spot + 1)..Len(index) : index[j] \in Row BY <1>1, <1>2
  <2>2. spot + 1 \in Int /\ Len(index) \in Int BY <1>1, <1>2
  <2>3. /\ b \in Seq(Row) /\ Len(b) = IF spot + 1 <= Len(index) THEN Len(index) - (spot + 1) + 1 ELSE 0
        /\ \A j \in 1..(Len(index) - (spot + 1) + 1) : b[j] = index[spot + 1 + j - 1]
    BY <2>1, <2>2, SubSeqProperties DEF b
  <2> HIDE DEF b
  <2>4. Len(b) = Len(index) - spot
    <3>1. spot \in Int /\ spot <= Len(index) /\ Len(index) \in Int BY <1>1, <1>2
    <3>2. CASE spot + 1 <= Len(index) BY <2>3, <3>1, <3>2
    <3>3. CASE spot = Len(index) BY <2>3, <3>1, <3>3
    <3>4. QED BY <3>1, <3>2, <3>3
  <2>5. \A j \in 1..(Len(index) - spot) : b[j] = index[spot + j]
    <3> SUFFICES ASSUME NEW j \in 1..(Len(index) - spot) PROVE b[j] = index[spot + j] OBVIOUS
    <3>1. j \in 1..(Len(index) - (spot + 1) + 1) /\ spot + 1 + j - 1 = spot + j BY <1>1, <1>2
    <3>2. QED BY <2>3, <3>1
  <2>6. QED BY <2>3, <2>4, <2>5
<1>5. Without(m) = a \o b BY DEF Without, spot
<1> HIDE DEF a, b
<1>6. Without(m) \in Seq(Row) /\ Len(Without(m)) = Len(index) - 1 /\ DOMAIN Without(m) = 1..(Len(index) - 1)
  <2>1. Without(m) \in Seq(Row) /\ Len(Without(m)) = Len(a) + Len(b) BY <1>3, <1>4, <1>5, ConcatProperties
  <2>2. QED BY <2>1, <1>1, <1>2, <1>3, <1>4, LenProperties
<1>7. \A j \in 1..(Len(index) - 1) : At(j) \in DOMAIN index /\ At(j) # spot /\ Without(m)[j] = index[At(j)]
  <2> SUFFICES ASSUME NEW j \in 1..(Len(index) - 1) PROVE At(j) \in DOMAIN index /\ At(j) # spot /\ Without(m)[j] = index[At(j)]
      OBVIOUS
  <2>1. CASE j < spot BY <2>1, <1>1, <1>2, <1>3, <1>4, <1>5, ConcatProperties
  <2>2. CASE ~ (j < spot)
    <3>1. j - (spot - 1) \in 1..(Len(index) - spot) /\ spot + (j - (spot - 1)) = j + 1 BY <2>2, <1>1, <1>2
    <3>2. Without(m)[j] = b[j - (spot - 1)] BY <2>2, <1>1, <1>2, <1>3, <1>4, <1>5, ConcatProperties, SMTT(30)
    <3>3. QED BY <2>2, <3>1, <3>2, <1>1, <1>2, <1>4
  <2>3. QED BY <2>1, <2>2
<1>8. Apart(Without(m))
  <2> SUFFICES ASSUME NEW j \in 1..(Len(index) - 1), NEW k \in 1..(Len(index) - 1), Without(m)[j].id = Without(m)[k].id PROVE j = k
      BY <1>6 DEF Apart
  <2>1. At(j) = At(k) BY <1>7, <1>1 DEF Apart
  <2>2. QED BY <2>1, <1>1, <1>2
<1>9. \A k : Kept(Without(m), k) => Indexed(k) /\ k # m
  <2> SUFFICES ASSUME NEW j \in 1..(Len(index) - 1) PROVE Indexed(Without(m)[j].id) /\ Without(m)[j].id # m BY <1>6 DEF Kept
  <2>1. QED BY <1>7, <1>1, <1>2 DEF Apart, Indexed, Kept
<1>10. \A k : Indexed(k) /\ k # m => Kept(Without(m), k)
  <2> SUFFICES ASSUME NEW j \in 1..Len(index), j # spot PROVE Kept(Without(m), index[j].id) BY <1>1, <1>2 DEF Indexed, Kept
  <2> DEFINE p == IF j < spot THEN j ELSE j - 1
  <2>1. p \in 1..(Len(index) - 1) /\ At(p) = j BY <1>1, <1>2
  <2>2. QED BY <2>1, <1>6, <1>7 DEF Kept
<1>11. Len(Without(m)) <= MaxMeetings BY <1>1, <1>6 DEF MeetingAssumption
<1>12. QED BY <1>6, <1>8, <1>9, <1>10, <1>11

-----------------------------------------------------------------------------
(* What a step leaves alone.                                               *)

LEMMA SessionRests ==
    ASSUME NEW m \in Meetings, SessionInv(m), ses'[m] = ses[m], disk'[m] = disk[m], Indexed(m)' <=> Indexed(m),
           m \in sent' <=> m \in sent, notice'[m] = notice[m], used'.kills = used.kills, ctl'.closed = ctl.closed,
           ctl'.quit = ctl.quit, ctl'.active = ctl.active, ctl'.processing = ctl.processing
    PROVE  SessionInv(m)'
<1>1. TasksInv(m)' BY DEF SessionInv, TasksInv
<1>2. AudioInv(m)' BY DEF SessionInv, AudioInv, Gone
<1>3. NoticeInv(m)' BY DEF SessionInv, NoticeInv, Gone
<1>4. OwnerInv(m)' BY DEF SessionInv, OwnerInv, Busy
<1>5. QED BY <1>1, <1>2, <1>3, <1>4 DEF SessionInv

Audio == {"none", "parts", "audio"}
Used == [{"faults", "retries", "titles", "kills"} -> Nat]

\* A task of one session: everything else rests.
LEMMA TaskStep ==
    ASSUME MeetingInv, NEW m \in Meetings, NEW s \in Session, NEW d \in Audio,
           ses' = [ses EXCEPT ![m] = s], disk' = [disk EXCEPT ![m] = d], sent' \in {sent, sent \cup {m}},
           UNCHANGED <<ctl, index, retry, notice, title>>, used' \in Used, used'.kills = used.kills, SessionInv(m)'
    PROVE  MeetingInv'
<1>1. MeetingTypes' BY DEF MeetingInv, MeetingTypes, Used, Audio
<1>2. ControlInv' BY DEF MeetingInv, ControlInv
<1>3. RetryInv' BY DEF MeetingInv, RetryInv, Indexed
<1>4. ASSUME NEW k \in Meetings, k # m PROVE SessionInv(k)'
  <2>1. ses'[k] = ses[k] /\ disk'[k] = disk[k] BY <1>4 DEF MeetingInv, MeetingTypes
  <2>2. QED BY <2>1, <1>4, SessionRests DEF MeetingInv, Indexed
<1>5. QED BY <1>1, <1>2, <1>3, <1>4 DEF MeetingInv

LEMMA UsedStays ==
    ASSUME MeetingInv
    PROVE  /\ used \in Used
           /\ \A what \in {"faults", "retries", "titles"} :
                 Use(what) => used' \in Used /\ used'.kills = used.kills
<1>1. used \in Used BY DEF MeetingInv, MeetingTypes, Used
<1>2. ASSUME NEW what \in {"faults", "retries", "titles"}, Use(what) PROVE used' \in Used /\ used'.kills = used.kills
  BY <1>1, <1>2 DEF Used, Use
<1>3. QED BY <1>1, <1>2

-----------------------------------------------------------------------------
(* The tasks of a session.                                                 *)

\* A start takes the lock, or finds itself cancelled.
LEMMA StartTakesLock ==
    ASSUME MeetingInv, NEW m \in Meetings, StartLocks(m)
    PROVE  MeetingInv'
<1>0. /\ ses[m] \in Session /\ disk[m] \in Audio /\ SessionInv(m) /\ used \in Used /\ ControlInv
      /\ ses \in [Meetings -> Session] /\ disk \in [Meetings -> Audio] /\ sent \subseteq Meetings
  BY UsedStays DEF MeetingInv, MeetingTypes, Audio
<1>1. CASE ses[m].cut
  <2> DEFINE s == [ses[m] EXCEPT !.start = "failed"]
  <2>1. /\ ses' = [ses EXCEPT ![m] = s] /\ disk' = [disk EXCEPT ![m] = disk[m]] /\ sent' = sent /\ ses[m].start = "queued" /\ ses[m].lock = "free" /\ ses[m].cut
        /\ UNCHANGED <<ctl, index, retry, notice, title>> /\ used' \in Used /\ used'.kills = used.kills
    BY <1>0, <1>1, UsedStays DEF StartLocks, Step, archive, person, Release, Closed, Erased, MayFail
  <2>2. s \in Session /\ disk'[m] = disk[m] /\ disk[m] \in Audio
    BY <1>0, <1>1, <2>1 DEF Session, Audio, Release, Closed
  <2>3. ses'[m].phase = ses[m].phase /\ ses'[m].private = ses[m].private /\ ses'[m].cut = ses[m].cut /\ ses'[m].lock = ses[m].lock /\ ses'[m].start = "failed"
    BY <1>0, <2>1, <2>2 DEF Session, Release, Closed
  <2>4. ses'[m].finish = ses[m].finish /\ ses'[m].close = ses[m].close /\ ses'[m].recorder = ses[m].recorder /\ ses'[m].kept = ses[m].kept
    BY <1>0, <2>1, <2>2 DEF Session, Release, Closed
  <2>5. TasksInv(m)'
    BY <1>0, <2>1, <2>3, <2>4 DEF SessionInv, TasksInv, NoSession
  <2>6. AudioInv(m)'
    BY <1>0, <2>1, <2>2, <2>3, <2>4 DEF SessionInv, AudioInv, TasksInv, NoticeInv, OwnerInv, Busy, Gone, NoSession, Indexed
  <2>7. NoticeInv(m)' /\ OwnerInv(m)'
    BY <1>0, <2>1, <2>2, <2>3, <2>4 DEF SessionInv, NoticeInv, OwnerInv, AudioInv, Busy, TasksInv, Gone, NoSession, Indexed
  <2> HIDE DEF s
  <2>8. QED BY <1>0, <2>1, <2>2, <2>5, <2>6, <2>7, TaskStep DEF SessionInv
<1>2. CASE ~ ses[m].cut
  <2> DEFINE s == [ses[m] EXCEPT !.start = "opening", !.lock = "start"]
  <2>1. /\ ses' = [ses EXCEPT ![m] = s] /\ disk' = [disk EXCEPT ![m] = disk[m]] /\ sent' = sent /\ ses[m].start = "queued" /\ ses[m].lock = "free" /\ ~ ses[m].cut
        /\ UNCHANGED <<ctl, index, retry, notice, title>> /\ used' \in Used /\ used'.kills = used.kills
    BY <1>0, <1>2, UsedStays DEF StartLocks, Step, archive, person, Release, Closed, Erased, MayFail
  <2>2. s \in Session /\ disk'[m] = disk[m] /\ disk[m] \in Audio
    BY <1>0, <1>2, <2>1 DEF Session, Audio, Release, Closed
  <2>3. ses'[m].phase = ses[m].phase /\ ses'[m].private = ses[m].private /\ ses'[m].cut = ses[m].cut /\ ses'[m].lock = "start" /\ ses'[m].start = "opening"
    BY <1>0, <2>1, <2>2 DEF Session, Release, Closed
  <2>4. ses'[m].finish = ses[m].finish /\ ses'[m].close = ses[m].close /\ ses'[m].recorder = ses[m].recorder /\ ses'[m].kept = ses[m].kept
    BY <1>0, <2>1, <2>2 DEF Session, Release, Closed
  <2>5. TasksInv(m)'
    BY <1>0, <2>1, <2>3, <2>4 DEF SessionInv, TasksInv, NoSession
  <2>6. AudioInv(m)'
    BY <1>0, <2>1, <2>2, <2>3, <2>4 DEF SessionInv, AudioInv, TasksInv, NoticeInv, OwnerInv, Busy, Gone, NoSession, Indexed
  <2>7. NoticeInv(m)' /\ OwnerInv(m)'
    BY <1>0, <2>1, <2>2, <2>3, <2>4 DEF SessionInv, NoticeInv, OwnerInv, AudioInv, Busy, TasksInv, Gone, NoSession, Indexed
  <2> HIDE DEF s
  <2>8. QED BY <1>0, <2>1, <2>2, <2>5, <2>6, <2>7, TaskStep DEF SessionInv
<1>3. QED BY <1>1, <1>2 DEF Session

\* The recorder opens, is cancelled, or fails.
LEMMA StartOpensRecorder ==
    ASSUME MeetingInv, NEW m \in Meetings, StartOpens(m)
    PROVE  MeetingInv'
<1>0. /\ ses[m] \in Session /\ disk[m] \in Audio /\ SessionInv(m) /\ used \in Used /\ ControlInv
      /\ ses \in [Meetings -> Session] /\ disk \in [Meetings -> Audio] /\ sent \subseteq Meetings
  BY UsedStays DEF MeetingInv, MeetingTypes, Audio
<1>1. CASE ses[m].cut /\ Step(m, Release(Closed([ses[m] EXCEPT !.start = "failed", !.phase = "cancelled"]))) /\ UNCHANGED <<disk, used>>
  <2> DEFINE s == Release(Closed([ses[m] EXCEPT !.start = "failed", !.phase = "cancelled"]))
  <2>1. /\ ses' = [ses EXCEPT ![m] = s] /\ disk' = [disk EXCEPT ![m] = disk[m]] /\ sent' = sent /\ ses[m].start = "opening" /\ ses[m].cut
        /\ UNCHANGED <<ctl, index, retry, notice, title>> /\ used' \in Used /\ used'.kills = used.kills
    BY <1>0, <1>1, UsedStays DEF StartOpens, Step, archive, person, Release, Closed, Erased, MayFail
  <2>2. s \in Session /\ disk'[m] = disk[m] /\ disk[m] \in Audio
    BY <1>0, <1>1, <2>1 DEF Session, Audio, Release, Closed
  <2>3. ses'[m].phase = "cancelled" /\ ses'[m].private = ses[m].private /\ ses'[m].cut = ses[m].cut /\ ses'[m].lock = "free" /\ ses'[m].start = "failed"
    BY <1>0, <2>1, <2>2 DEF Session, Release, Closed
  <2>4. ses'[m].finish = ses[m].finish /\ ses'[m].close = ses[m].close /\ ses'[m].recorder = "closed" /\ ses'[m].kept = ses[m].kept
    BY <1>0, <2>1, <2>2 DEF Session, Release, Closed
  <2>5. TasksInv(m)'
    BY <1>0, <2>1, <2>3, <2>4 DEF SessionInv, TasksInv, NoSession
  <2>6. AudioInv(m)'
    BY <1>0, <2>1, <2>2, <2>3, <2>4 DEF SessionInv, AudioInv, TasksInv, NoticeInv, OwnerInv, Busy, Gone, NoSession, Indexed
  <2>7. NoticeInv(m)' /\ OwnerInv(m)'
    BY <1>0, <2>1, <2>2, <2>3, <2>4 DEF SessionInv, NoticeInv, OwnerInv, AudioInv, Busy, TasksInv, Gone, NoSession, Indexed
  <2> HIDE DEF s
  <2>8. QED BY <1>0, <2>1, <2>2, <2>5, <2>6, <2>7, TaskStep DEF SessionInv
<1>2. CASE ~ ses[m].cut /\ Step(m, [ses[m] EXCEPT !.start = "opened", !.recorder = "recording"]) /\ disk' = [disk EXCEPT ![m] = "parts"] /\ UNCHANGED used
  <2> DEFINE s == [ses[m] EXCEPT !.start = "opened", !.recorder = "recording"]
  <2>1. /\ ses' = [ses EXCEPT ![m] = s] /\ disk' = [disk EXCEPT ![m] = "parts"] /\ sent' = sent /\ ses[m].start = "opening" /\ ~ ses[m].cut
        /\ UNCHANGED <<ctl, index, retry, notice, title>> /\ used' \in Used /\ used'.kills = used.kills
    BY <1>0, <1>2, UsedStays DEF StartOpens, Step, archive, person, Release, Closed, Erased, MayFail
  <2>2. s \in Session /\ disk'[m] = "parts" /\ "parts" \in Audio
    BY <1>0, <1>2, <2>1 DEF Session, Audio, Release, Closed
  <2>3. ses'[m].phase = ses[m].phase /\ ses'[m].private = ses[m].private /\ ses'[m].cut = ses[m].cut /\ ses'[m].lock = ses[m].lock /\ ses'[m].start = "opened"
    BY <1>0, <2>1, <2>2 DEF Session, Release, Closed
  <2>4. ses'[m].finish = ses[m].finish /\ ses'[m].close = ses[m].close /\ ses'[m].recorder = "recording" /\ ses'[m].kept = ses[m].kept
    BY <1>0, <2>1, <2>2 DEF Session, Release, Closed
  <2>5. TasksInv(m)'
    BY <1>0, <2>1, <2>3, <2>4 DEF SessionInv, TasksInv, NoSession
  <2>6. AudioInv(m)'
    BY <1>0, <2>1, <2>2, <2>3, <2>4 DEF SessionInv, AudioInv, TasksInv, NoticeInv, OwnerInv, Busy, Gone, NoSession, Indexed
  <2>7. NoticeInv(m)' /\ OwnerInv(m)'
    BY <1>0, <2>1, <2>2, <2>3, <2>4 DEF SessionInv, NoticeInv, OwnerInv, AudioInv, Busy, TasksInv, Gone, NoSession, Indexed
  <2> HIDE DEF s
  <2>8. QED BY <1>0, <2>1, <2>2, <2>5, <2>6, <2>7, TaskStep DEF SessionInv
<1>3. CASE Use("faults") /\ Step(m, Release(Closed([ses[m] EXCEPT !.start = "failed", !.phase = "failed"]))) /\ UNCHANGED disk
  <2> DEFINE s == Release(Closed([ses[m] EXCEPT !.start = "failed", !.phase = "failed"]))
  <2>1. /\ ses' = [ses EXCEPT ![m] = s] /\ disk' = [disk EXCEPT ![m] = disk[m]] /\ sent' = sent /\ ses[m].start = "opening"
        /\ UNCHANGED <<ctl, index, retry, notice, title>> /\ used' \in Used /\ used'.kills = used.kills
    BY <1>0, <1>3, UsedStays DEF StartOpens, Step, archive, person, Release, Closed, Erased, MayFail
  <2>2. s \in Session /\ disk'[m] = disk[m] /\ disk[m] \in Audio
    BY <1>0, <1>3, <2>1 DEF Session, Audio, Release, Closed
  <2>3. ses'[m].phase = "failed" /\ ses'[m].private = ses[m].private /\ ses'[m].cut = ses[m].cut /\ ses'[m].lock = "free" /\ ses'[m].start = "failed"
    BY <1>0, <2>1, <2>2 DEF Session, Release, Closed
  <2>4. ses'[m].finish = ses[m].finish /\ ses'[m].close = ses[m].close /\ ses'[m].recorder = "closed" /\ ses'[m].kept = ses[m].kept
    BY <1>0, <2>1, <2>2 DEF Session, Release, Closed
  <2>5. TasksInv(m)'
    BY <1>0, <2>1, <2>3, <2>4 DEF SessionInv, TasksInv, NoSession
  <2>6. AudioInv(m)'
    BY <1>0, <2>1, <2>2, <2>3, <2>4 DEF SessionInv, AudioInv, TasksInv, NoticeInv, OwnerInv, Busy, Gone, NoSession, Indexed
  <2>7. NoticeInv(m)' /\ OwnerInv(m)'
    BY <1>0, <2>1, <2>2, <2>3, <2>4 DEF SessionInv, NoticeInv, OwnerInv, AudioInv, Busy, TasksInv, Gone, NoSession, Indexed
  <2> HIDE DEF s
  <2>8. QED BY <1>0, <2>1, <2>2, <2>5, <2>6, <2>7, TaskStep DEF SessionInv
<1>4. QED BY <1>1, <1>2, <1>3 DEF StartOpens

\* The start is over: the recording goes on, or was cancelled meanwhile.
LEMMA StartIsOver ==
    ASSUME MeetingInv, NEW m \in Meetings, StartEnds(m)
    PROVE  MeetingInv'
<1>0. /\ ses[m] \in Session /\ disk[m] \in Audio /\ SessionInv(m) /\ used \in Used /\ ControlInv
      /\ ses \in [Meetings -> Session] /\ disk \in [Meetings -> Audio] /\ sent \subseteq Meetings
  BY UsedStays DEF MeetingInv, MeetingTypes, Audio
<1>1. CASE ses[m].cut
  <2> DEFINE s == Release(Closed([ses[m] EXCEPT !.start = "failed", !.phase = "cancelled"]))
  <2>1. /\ ses' = [ses EXCEPT ![m] = s] /\ disk' = [disk EXCEPT ![m] = (IF ses[m].kept THEN disk[m] ELSE "none")] /\ sent' = sent /\ ses[m].start = "opened" /\ ses[m].cut
        /\ UNCHANGED <<ctl, index, retry, notice, title>> /\ used' \in Used /\ used'.kills = used.kills
    BY <1>0, <1>1, UsedStays DEF StartEnds, Step, archive, person, Release, Closed, Erased, MayFail
  <2>2. s \in Session /\ disk'[m] = (IF ses[m].kept THEN disk[m] ELSE "none") /\ (IF ses[m].kept THEN disk[m] ELSE "none") \in Audio
    BY <1>0, <1>1, <2>1 DEF Session, Audio, Release, Closed
  <2>3. ses'[m].phase = "cancelled" /\ ses'[m].private = ses[m].private /\ ses'[m].cut = ses[m].cut /\ ses'[m].lock = "free" /\ ses'[m].start = "failed"
    BY <1>0, <2>1, <2>2 DEF Session, Release, Closed
  <2>4. ses'[m].finish = ses[m].finish /\ ses'[m].close = ses[m].close /\ ses'[m].recorder = "closed" /\ ses'[m].kept = ses[m].kept
    BY <1>0, <2>1, <2>2 DEF Session, Release, Closed
  <2>5. TasksInv(m)'
    BY <1>0, <2>1, <2>3, <2>4 DEF SessionInv, TasksInv, NoSession
  <2>6. AudioInv(m)'
    BY <1>0, <2>1, <2>2, <2>3, <2>4 DEF SessionInv, AudioInv, TasksInv, NoticeInv, OwnerInv, Busy, Gone, NoSession, Indexed
  <2>7. NoticeInv(m)' /\ OwnerInv(m)'
    BY <1>0, <2>1, <2>2, <2>3, <2>4 DEF SessionInv, NoticeInv, OwnerInv, AudioInv, Busy, TasksInv, Gone, NoSession, Indexed
  <2> HIDE DEF s
  <2>8. QED BY <1>0, <2>1, <2>2, <2>5, <2>6, <2>7, TaskStep DEF SessionInv
<1>2. CASE ~ ses[m].cut
  <2> DEFINE s == Release([ses[m] EXCEPT !.start = "ready", !.phase = "recording"])
  <2>1. /\ ses' = [ses EXCEPT ![m] = s] /\ disk' = [disk EXCEPT ![m] = disk[m]] /\ sent' = sent /\ ses[m].start = "opened" /\ ~ ses[m].cut
        /\ UNCHANGED <<ctl, index, retry, notice, title>> /\ used' \in Used /\ used'.kills = used.kills
    BY <1>0, <1>2, UsedStays DEF StartEnds, Step, archive, person, Release, Closed, Erased, MayFail
  <2>2. s \in Session /\ disk'[m] = disk[m] /\ disk[m] \in Audio
    BY <1>0, <1>2, <2>1 DEF Session, Audio, Release, Closed
  <2>3. ses'[m].phase = "recording" /\ ses'[m].private = ses[m].private /\ ses'[m].cut = ses[m].cut /\ ses'[m].lock = "free" /\ ses'[m].start = "ready"
    BY <1>0, <2>1, <2>2 DEF Session, Release, Closed
  <2>4. ses'[m].finish = ses[m].finish /\ ses'[m].close = ses[m].close /\ ses'[m].recorder = ses[m].recorder /\ ses'[m].kept = ses[m].kept
    BY <1>0, <2>1, <2>2 DEF Session, Release, Closed
  <2>5. TasksInv(m)'
    BY <1>0, <2>1, <2>3, <2>4 DEF SessionInv, TasksInv, NoSession
  <2>6. AudioInv(m)'
    BY <1>0, <2>1, <2>2, <2>3, <2>4 DEF SessionInv, AudioInv, TasksInv, NoticeInv, OwnerInv, Busy, Gone, NoSession, Indexed
  <2>7. NoticeInv(m)' /\ OwnerInv(m)'
    BY <1>0, <2>1, <2>2, <2>3, <2>4 DEF SessionInv, NoticeInv, OwnerInv, AudioInv, Busy, TasksInv, Gone, NoSession, Indexed
  <2> HIDE DEF s
  <2>8. QED BY <1>0, <2>1, <2>2, <2>5, <2>6, <2>7, TaskStep DEF SessionInv
<1>3. QED BY <1>1, <1>2 DEF StartEnds

\* A finish takes the lock of a recording that is not over.
LEMMA FinishTakesLock ==
    ASSUME MeetingInv, NEW m \in Meetings, FinishLocks(m)
    PROVE  MeetingInv'
<1>0. /\ ses[m] \in Session /\ disk[m] \in Audio /\ SessionInv(m) /\ used \in Used /\ ControlInv
      /\ ses \in [Meetings -> Session] /\ disk \in [Meetings -> Audio] /\ sent \subseteq Meetings
  BY UsedStays DEF MeetingInv, MeetingTypes, Audio
<1>1. CASE ses[m].phase = "recording"
  <2> DEFINE s == [ses[m] EXCEPT !.finish = "stopping", !.phase = "processing", !.lock = "finish"]
  <2>1. /\ ses' = [ses EXCEPT ![m] = s] /\ disk' = [disk EXCEPT ![m] = disk[m]] /\ sent' = sent /\ ses[m].finish = "queued" /\ ses[m].lock = "free" /\ ses[m].phase = "recording"
        /\ UNCHANGED <<ctl, index, retry, notice, title>> /\ used' \in Used /\ used'.kills = used.kills
    BY <1>0, <1>1, UsedStays DEF FinishLocks, Step, archive, person, Release, Closed, Erased, MayFail
  <2>2. s \in Session /\ disk'[m] = disk[m] /\ disk[m] \in Audio
    BY <1>0, <1>1, <2>1 DEF Session, Audio, Release, Closed
  <2>3. ses'[m].phase = "processing" /\ ses'[m].private = ses[m].private /\ ses'[m].cut = ses[m].cut /\ ses'[m].lock = "finish" /\ ses'[m].start = ses[m].start
    BY <1>0, <2>1, <2>2 DEF Session, Release, Closed
  <2>4. ses'[m].finish = "stopping" /\ ses'[m].close = ses[m].close /\ ses'[m].recorder = ses[m].recorder /\ ses'[m].kept = ses[m].kept
    BY <1>0, <2>1, <2>2 DEF Session, Release, Closed
  <2>5. TasksInv(m)'
    BY <1>0, <2>1, <2>3, <2>4 DEF SessionInv, TasksInv, NoSession
  <2>6. AudioInv(m)'
    BY <1>0, <2>1, <2>2, <2>3, <2>4 DEF SessionInv, AudioInv, TasksInv, NoticeInv, OwnerInv, Busy, Gone, NoSession, Indexed
  <2>7. NoticeInv(m)' /\ OwnerInv(m)'
    BY <1>0, <2>1, <2>2, <2>3, <2>4 DEF SessionInv, NoticeInv, OwnerInv, AudioInv, Busy, TasksInv, Gone, NoSession, Indexed
  <2> HIDE DEF s
  <2>8. QED BY <1>0, <2>1, <2>2, <2>5, <2>6, <2>7, TaskStep DEF SessionInv
<1>2. CASE ses[m].phase # "recording"
  <2> DEFINE s == [ses[m] EXCEPT !.finish = "erased"]
  <2>1. /\ ses' = [ses EXCEPT ![m] = s] /\ disk' = [disk EXCEPT ![m] = disk[m]] /\ sent' = sent /\ ses[m].finish = "queued" /\ ses[m].lock = "free" /\ ses[m].phase # "recording"
        /\ UNCHANGED <<ctl, index, retry, notice, title>> /\ used' \in Used /\ used'.kills = used.kills
    BY <1>0, <1>2, UsedStays DEF FinishLocks, Step, archive, person, Release, Closed, Erased, MayFail
  <2>2. s \in Session /\ disk'[m] = disk[m] /\ disk[m] \in Audio
    BY <1>0, <1>2, <2>1 DEF Session, Audio, Release, Closed
  <2>3. ses'[m].phase = ses[m].phase /\ ses'[m].private = ses[m].private /\ ses'[m].cut = ses[m].cut /\ ses'[m].lock = ses[m].lock /\ ses'[m].start = ses[m].start
    BY <1>0, <2>1, <2>2 DEF Session, Release, Closed
  <2>4. ses'[m].finish = "erased" /\ ses'[m].close = ses[m].close /\ ses'[m].recorder = ses[m].recorder /\ ses'[m].kept = ses[m].kept
    BY <1>0, <2>1, <2>2 DEF Session, Release, Closed
  <2>5. TasksInv(m)'
    BY <1>0, <2>1, <2>3, <2>4 DEF SessionInv, TasksInv, NoSession
  <2>6. AudioInv(m)'
    BY <1>0, <2>1, <2>2, <2>3, <2>4 DEF SessionInv, AudioInv, TasksInv, NoticeInv, OwnerInv, Busy, Gone, NoSession, Indexed
  <2>7. NoticeInv(m)' /\ OwnerInv(m)'
    BY <1>0, <2>1, <2>2, <2>3, <2>4 DEF SessionInv, NoticeInv, OwnerInv, AudioInv, Busy, TasksInv, Gone, NoSession, Indexed
  <2> HIDE DEF s
  <2>8. QED BY <1>0, <2>1, <2>2, <2>5, <2>6, <2>7, TaskStep DEF SessionInv
<1>3. QED BY <1>1, <1>2 DEF FinishLocks

\* The recorder stops, with audio or without.
LEMMA FinishStopsRecorder ==
    ASSUME MeetingInv, NEW m \in Meetings, FinishStops(m)
    PROVE  MeetingInv'
<1>0. /\ ses[m] \in Session /\ disk[m] \in Audio /\ SessionInv(m) /\ used \in Used /\ ControlInv
      /\ ses \in [Meetings -> Session] /\ disk \in [Meetings -> Audio] /\ sent \subseteq Meetings
  BY UsedStays DEF MeetingInv, MeetingTypes, Audio
<1>1. CASE Step(m, [ses[m] EXCEPT !.finish = "stopped", !.recorder = "stopped"]) /\ disk' = [disk EXCEPT ![m] = "audio"] /\ UNCHANGED used
  <2> DEFINE s == [ses[m] EXCEPT !.finish = "stopped", !.recorder = "stopped"]
  <2>1. /\ ses' = [ses EXCEPT ![m] = s] /\ disk' = [disk EXCEPT ![m] = "audio"] /\ sent' = sent /\ ses[m].finish = "stopping"
        /\ UNCHANGED <<ctl, index, retry, notice, title>> /\ used' \in Used /\ used'.kills = used.kills
    BY <1>0, <1>1, UsedStays DEF FinishStops, Step, archive, person, Release, Closed, Erased, MayFail
  <2>2. s \in Session /\ disk'[m] = "audio" /\ "audio" \in Audio
    BY <1>0, <1>1, <2>1 DEF Session, Audio, Release, Closed
  <2>3. ses'[m].phase = ses[m].phase /\ ses'[m].private = ses[m].private /\ ses'[m].cut = ses[m].cut /\ ses'[m].lock = ses[m].lock /\ ses'[m].start = ses[m].start
    BY <1>0, <2>1, <2>2 DEF Session, Release, Closed
  <2>4. ses'[m].finish = "stopped" /\ ses'[m].close = ses[m].close /\ ses'[m].recorder = "stopped" /\ ses'[m].kept = ses[m].kept
    BY <1>0, <2>1, <2>2 DEF Session, Release, Closed
  <2>5. TasksInv(m)'
    BY <1>0, <2>1, <2>3, <2>4 DEF SessionInv, TasksInv, NoSession
  <2>6. AudioInv(m)'
    BY <1>0, <2>1, <2>2, <2>3, <2>4 DEF SessionInv, AudioInv, TasksInv, NoticeInv, OwnerInv, Busy, Gone, NoSession, Indexed
  <2>7. NoticeInv(m)' /\ OwnerInv(m)'
    BY <1>0, <2>1, <2>2, <2>3, <2>4 DEF SessionInv, NoticeInv, OwnerInv, AudioInv, Busy, TasksInv, Gone, NoSession, Indexed
  <2> HIDE DEF s
  <2>8. QED BY <1>0, <2>1, <2>2, <2>5, <2>6, <2>7, TaskStep DEF SessionInv
<1>2. CASE Use("faults") /\ Step(m, Release(Closed([ses[m] EXCEPT !.finish = "erased", !.phase = "failed"]))) /\ disk' = Erased(m)
  <2> DEFINE s == Release(Closed([ses[m] EXCEPT !.finish = "erased", !.phase = "failed"]))
  <2>1. /\ ses' = [ses EXCEPT ![m] = s] /\ disk' = [disk EXCEPT ![m] = (IF ses[m].kept THEN disk[m] ELSE "none")] /\ sent' = sent /\ ses[m].finish = "stopping"
        /\ UNCHANGED <<ctl, index, retry, notice, title>> /\ used' \in Used /\ used'.kills = used.kills
    BY <1>0, <1>2, UsedStays DEF FinishStops, Step, archive, person, Release, Closed, Erased, MayFail
  <2>2. s \in Session /\ disk'[m] = (IF ses[m].kept THEN disk[m] ELSE "none") /\ (IF ses[m].kept THEN disk[m] ELSE "none") \in Audio
    BY <1>0, <1>2, <2>1 DEF Session, Audio, Release, Closed
  <2>3. ses'[m].phase = "failed" /\ ses'[m].private = ses[m].private /\ ses'[m].cut = ses[m].cut /\ ses'[m].lock = "free" /\ ses'[m].start = ses[m].start
    BY <1>0, <2>1, <2>2 DEF Session, Release, Closed
  <2>4. ses'[m].finish = "erased" /\ ses'[m].close = ses[m].close /\ ses'[m].recorder = "closed" /\ ses'[m].kept = ses[m].kept
    BY <1>0, <2>1, <2>2 DEF Session, Release, Closed
  <2>5. TasksInv(m)'
    BY <1>0, <2>1, <2>3, <2>4 DEF SessionInv, TasksInv, NoSession
  <2>6. AudioInv(m)'
    BY <1>0, <2>1, <2>2, <2>3, <2>4 DEF SessionInv, AudioInv, TasksInv, NoticeInv, OwnerInv, Busy, Gone, NoSession, Indexed
  <2>7. NoticeInv(m)' /\ OwnerInv(m)'
    BY <1>0, <2>1, <2>2, <2>3, <2>4 DEF SessionInv, NoticeInv, OwnerInv, AudioInv, Busy, TasksInv, Gone, NoSession, Indexed
  <2> HIDE DEF s
  <2>8. QED BY <1>0, <2>1, <2>2, <2>5, <2>6, <2>7, TaskStep DEF SessionInv
<1>3. QED BY <1>1, <1>2 DEF FinishStops

\* The audio is uploaded, unless the cancellation came first.
LEMMA FinishUploads ==
    ASSUME MeetingInv, NEW m \in Meetings, FinishSends(m)
    PROVE  MeetingInv'
<1>0. /\ ses[m] \in Session /\ disk[m] \in Audio /\ SessionInv(m) /\ used \in Used /\ ControlInv
      /\ ses \in [Meetings -> Session] /\ disk \in [Meetings -> Audio] /\ sent \subseteq Meetings
  BY UsedStays DEF MeetingInv, MeetingTypes, Audio
<1>1. CASE ses[m].cut
  <2> DEFINE s == Release(Closed([ses[m] EXCEPT !.finish = "erased", !.phase = "cancelled"]))
  <2>1. /\ ses' = [ses EXCEPT ![m] = s] /\ disk' = [disk EXCEPT ![m] = (IF ses[m].kept THEN disk[m] ELSE "none")] /\ sent' = sent /\ ses[m].finish = "stopped" /\ ses[m].cut
        /\ UNCHANGED <<ctl, index, retry, notice, title>> /\ used' \in Used /\ used'.kills = used.kills
    BY <1>0, <1>1, UsedStays DEF FinishSends, CutFirst, Step, archive, person, Release, Closed, Erased, MayFail
  <2>2. s \in Session /\ disk'[m] = (IF ses[m].kept THEN disk[m] ELSE "none") /\ (IF ses[m].kept THEN disk[m] ELSE "none") \in Audio
    BY <1>0, <1>1, <2>1 DEF Session, Audio, Release, Closed
  <2>3. ses'[m].phase = "cancelled" /\ ses'[m].private = ses[m].private /\ ses'[m].cut = ses[m].cut /\ ses'[m].lock = "free" /\ ses'[m].start = ses[m].start
    BY <1>0, <2>1, <2>2 DEF Session, Release, Closed
  <2>4. ses'[m].finish = "erased" /\ ses'[m].close = ses[m].close /\ ses'[m].recorder = "closed" /\ ses'[m].kept = ses[m].kept
    BY <1>0, <2>1, <2>2 DEF Session, Release, Closed
  <2>5. TasksInv(m)'
    BY <1>0, <2>1, <2>3, <2>4 DEF SessionInv, TasksInv, NoSession
  <2>6. AudioInv(m)'
    BY <1>0, <2>1, <2>2, <2>3, <2>4 DEF SessionInv, AudioInv, TasksInv, NoticeInv, OwnerInv, Busy, Gone, NoSession, Indexed
  <2>7. NoticeInv(m)' /\ OwnerInv(m)'
    BY <1>0, <2>1, <2>2, <2>3, <2>4 DEF SessionInv, NoticeInv, OwnerInv, AudioInv, Busy, TasksInv, Gone, NoSession, Indexed
  <2> HIDE DEF s
  <2>8. QED BY <1>0, <2>1, <2>2, <2>5, <2>6, <2>7, TaskStep DEF SessionInv
<1>2. CASE ~ ses[m].cut
  <2> DEFINE s == [ses[m] EXCEPT !.finish = "sending"]
  <2>1. /\ ses' = [ses EXCEPT ![m] = s] /\ disk' = [disk EXCEPT ![m] = disk[m]] /\ sent' = sent \cup {m} /\ ses[m].finish = "stopped" /\ ~ ses[m].cut
        /\ UNCHANGED <<ctl, index, retry, notice, title>> /\ used' \in Used /\ used'.kills = used.kills
    BY <1>0, <1>2, UsedStays DEF FinishSends, CutFirst, Step, archive, person, Release, Closed, Erased, MayFail
  <2>2. s \in Session /\ disk'[m] = disk[m] /\ disk[m] \in Audio
    BY <1>0, <1>2, <2>1 DEF Session, Audio, Release, Closed
  <2>3. ses'[m].phase = ses[m].phase /\ ses'[m].private = ses[m].private /\ ses'[m].cut = ses[m].cut /\ ses'[m].lock = ses[m].lock /\ ses'[m].start = ses[m].start
    BY <1>0, <2>1, <2>2 DEF Session, Release, Closed
  <2>4. ses'[m].finish = "sending" /\ ses'[m].close = ses[m].close /\ ses'[m].recorder = ses[m].recorder /\ ses'[m].kept = ses[m].kept
    BY <1>0, <2>1, <2>2 DEF Session, Release, Closed
  <2>5. TasksInv(m)'
    BY <1>0, <2>1, <2>3, <2>4 DEF SessionInv, TasksInv, NoSession
  <2>6. AudioInv(m)'
    BY <1>0, <2>1, <2>2, <2>3, <2>4 DEF SessionInv, AudioInv, TasksInv, NoticeInv, OwnerInv, Busy, Gone, NoSession, Indexed
  <2>7. NoticeInv(m)' /\ OwnerInv(m)'
    BY <1>0, <2>1, <2>2, <2>3, <2>4 DEF SessionInv, NoticeInv, OwnerInv, AudioInv, Busy, TasksInv, Gone, NoSession, Indexed
  <2> HIDE DEF s
  <2>8. QED BY <1>0, <2>1, <2>2, <2>5, <2>6, <2>7, TaskStep DEF SessionInv
<1>3. QED BY <1>1, <1>2 DEF FinishSends

\* A cancelled upload leaves nothing.
LEMMA FinishIsCut ==
    ASSUME MeetingInv, NEW m \in Meetings, FinishCut(m)
    PROVE  MeetingInv'
<1>0. /\ ses[m] \in Session /\ disk[m] \in Audio /\ SessionInv(m) /\ used \in Used /\ ControlInv
      /\ ses \in [Meetings -> Session] /\ disk \in [Meetings -> Audio] /\ sent \subseteq Meetings
  BY UsedStays DEF MeetingInv, MeetingTypes, Audio
<1>1. CASE FinishCut(m)
  <2> DEFINE s == Release(Closed([ses[m] EXCEPT !.finish = "erased", !.phase = "cancelled"]))
  <2>1. /\ ses' = [ses EXCEPT ![m] = s] /\ disk' = [disk EXCEPT ![m] = (IF ses[m].kept THEN disk[m] ELSE "none")] /\ sent' = sent /\ ses[m].finish = "sending" /\ ses[m].cut
        /\ UNCHANGED <<ctl, index, retry, notice, title>> /\ used' \in Used /\ used'.kills = used.kills
    BY <1>0, <1>1, UsedStays DEF FinishCut, Step, archive, person, Release, Closed, Erased, MayFail
  <2>2. s \in Session /\ disk'[m] = (IF ses[m].kept THEN disk[m] ELSE "none") /\ (IF ses[m].kept THEN disk[m] ELSE "none") \in Audio
    BY <1>0, <1>1, <2>1 DEF Session, Audio, Release, Closed
  <2>3. ses'[m].phase = "cancelled" /\ ses'[m].private = ses[m].private /\ ses'[m].cut = ses[m].cut /\ ses'[m].lock = "free" /\ ses'[m].start = ses[m].start
    BY <1>0, <2>1, <2>2 DEF Session, Release, Closed
  <2>4. ses'[m].finish = "erased" /\ ses'[m].close = ses[m].close /\ ses'[m].recorder = "closed" /\ ses'[m].kept = ses[m].kept
    BY <1>0, <2>1, <2>2 DEF Session, Release, Closed
  <2>5. TasksInv(m)'
    BY <1>0, <2>1, <2>3, <2>4 DEF SessionInv, TasksInv, NoSession
  <2>6. AudioInv(m)'
    BY <1>0, <2>1, <2>2, <2>3, <2>4 DEF SessionInv, AudioInv, TasksInv, NoticeInv, OwnerInv, Busy, Gone, NoSession, Indexed
  <2>7. NoticeInv(m)' /\ OwnerInv(m)'
    BY <1>0, <2>1, <2>2, <2>3, <2>4 DEF SessionInv, NoticeInv, OwnerInv, AudioInv, Busy, TasksInv, Gone, NoSession, Indexed
  <2> HIDE DEF s
  <2>8. QED BY <1>0, <2>1, <2>2, <2>5, <2>6, <2>7, TaskStep DEF SessionInv
<1>2. QED BY <1>1 DEF FinishCut

\* The close waits for the lock, and erases what nobody kept.
LEMMA CloseEnds ==
    ASSUME MeetingInv, NEW m \in Meetings, CloseRuns(m)
    PROVE  MeetingInv'
<1>0. /\ ses[m] \in Session /\ disk[m] \in Audio /\ SessionInv(m) /\ used \in Used /\ ControlInv
      /\ ses \in [Meetings -> Session] /\ disk \in [Meetings -> Audio] /\ sent \subseteq Meetings
  BY UsedStays DEF MeetingInv, MeetingTypes, Audio
<1>1. CASE CloseRuns(m)
  <2> DEFINE s == Closed([ses[m] EXCEPT !.close = "closed", !.phase = "closed"])
  <2>1. /\ ses' = [ses EXCEPT ![m] = s] /\ disk' = [disk EXCEPT ![m] = (IF ses[m].recorder \in {"recording", "stopped"} /\ ~ ses[m].kept THEN "none" ELSE disk[m])] /\ sent' = sent /\ ses[m].close = "queued" /\ ses[m].lock = "free"
        /\ UNCHANGED <<ctl, index, retry, notice, title>> /\ used' \in Used /\ used'.kills = used.kills
    BY <1>0, <1>1, UsedStays DEF CloseRuns, Step, archive, person, Release, Closed, Erased, MayFail
  <2>2. s \in Session /\ disk'[m] = (IF ses[m].recorder \in {"recording", "stopped"} /\ ~ ses[m].kept THEN "none" ELSE disk[m]) /\ (IF ses[m].recorder \in {"recording", "stopped"} /\ ~ ses[m].kept THEN "none" ELSE disk[m]) \in Audio
    BY <1>0, <1>1, <2>1 DEF Session, Audio, Release, Closed
  <2>3. ses'[m].phase = "closed" /\ ses'[m].private = ses[m].private /\ ses'[m].cut = ses[m].cut /\ ses'[m].lock = ses[m].lock /\ ses'[m].start = ses[m].start
    BY <1>0, <2>1, <2>2 DEF Session, Release, Closed
  <2>4. ses'[m].finish = ses[m].finish /\ ses'[m].close = "closed" /\ ses'[m].recorder = "closed" /\ ses'[m].kept = ses[m].kept
    BY <1>0, <2>1, <2>2 DEF Session, Release, Closed
  <2>5. TasksInv(m)'
    BY <1>0, <2>1, <2>3, <2>4 DEF SessionInv, TasksInv, NoSession
  <2>9. disk'[m] = IF ses[m].kept THEN disk[m] ELSE "none"
    BY <1>0, <2>1, <2>2 DEF SessionInv, AudioInv, Gone, Session
  <2>6. AudioInv(m)'
    BY <1>0, <2>9, <2>1, <2>2, <2>3, <2>4 DEF SessionInv, AudioInv, TasksInv, NoticeInv, OwnerInv, Busy, Gone, NoSession, Indexed
  <2>7. NoticeInv(m)' /\ OwnerInv(m)'
    BY <1>0, <2>1, <2>2, <2>3, <2>4 DEF SessionInv, NoticeInv, OwnerInv, AudioInv, Busy, TasksInv, Gone, NoSession, Indexed
  <2> HIDE DEF s
  <2>8. QED BY <1>0, <2>1, <2>2, <2>5, <2>6, <2>7, TaskStep DEF SessionInv
<1>2. QED BY <1>1 DEF CloseRuns

-----------------------------------------------------------------------------
(* The archive, and what changes it.                                       *)

\* A session whose row goes, goes with its audio; every other one rests.
LEMMA RowGoes ==
    ASSUME NEW m \in Meetings, SessionInv(m), ses'[m] = ses[m], Indexed(m)' => Indexed(m),
           disk'[m] = IF Indexed(m) /\ ~ Indexed(m)' THEN "none" ELSE disk[m],
           notice'[m] = notice[m] \/ (Indexed(m) /\ ~ Indexed(m)' /\ notice'[m] = "deleted"),
           m \in sent' <=> m \in sent, used'.kills = used.kills, ctl' = ctl
    PROVE  SessionInv(m)'
<1>1. TasksInv(m)' BY DEF SessionInv, TasksInv
<1>2. AudioInv(m)' BY DEF SessionInv, AudioInv, Gone
<1>3. NoticeInv(m)' BY DEF SessionInv, NoticeInv, Gone
<1>4. OwnerInv(m)' BY DEF SessionInv, OwnerInv, Busy
<1>5. QED BY <1>1, <1>2, <1>3, <1>4 DEF SessionInv

\* While a session runs, no retry can save a row.
LEMMA NoRetryBeside ==
    ASSUME MeetingInv, NEW m \in Meetings, Busy(m)
    PROVE  retry.at # "sending" \/ retry.cut
<1>1. CASE ctl.closed BY <1>1 DEF MeetingInv, RetryInv
<1>2. CASE ~ ctl.closed
  <2>1. ctl.active = m BY <1>2 DEF MeetingInv, SessionInv, OwnerInv
  <2>2. ctl.retry = 0 BY <2>1, MeetingAssumption DEF MeetingInv, ControlInv, MeetingAssumption
  <2>3. QED BY <1>2, <2>2, MeetingAssumption DEF MeetingInv, RetryInv, MeetingTypes, Row, MeetingAssumption
<1>3. QED BY <1>1, <1>2

\* The recognition answers, and the row is written, or not.
LEMMA FinishSaves ==
    ASSUME MeetingInv, NEW m \in Meetings, FinishReturns(m)
    PROVE  MeetingInv'
<1>0. /\ ses[m] \in Session /\ disk[m] \in Audio /\ SessionInv(m) /\ used \in Used /\ ControlInv
      /\ ses \in [Meetings -> Session] /\ disk \in [Meetings -> Audio] /\ sent \subseteq Meetings /\ MeetingTypes
  BY UsedStays DEF MeetingInv, MeetingTypes, Audio
<1>1. PICK done \in BOOLEAN, written \in BOOLEAN :
        /\ ses[m].private => written
        /\ IF done /\ written THEN UNCHANGED used ELSE MayFail /\ Use("faults")
        /\ Step(m, Release(Closed([ses[m] EXCEPT !.finish = IF ses[m].private THEN "erased" ELSE IF written THEN "saved" ELSE "kept",
                                   !.phase = IF done /\ written THEN "completed" ELSE "failed", !.kept = ~ ses[m].private])))
        /\ index' = IF written /\ ~ ses[m].private THEN Saved([id |-> m, done |-> done, title |-> 0]) ELSE index
        /\ disk' = IF ses[m].private THEN [disk EXCEPT ![m] = "none"]
                   ELSE IF written THEN DeletedBeyond(Saved([id |-> m, done |-> done, title |-> 0]), disk) ELSE disk
  BY DEF FinishReturns
<1> DEFINE row == [id |-> m, done |-> done, title |-> 0]
           saves == written /\ ~ ses[m].private
           s == Release(Closed([ses[m] EXCEPT !.finish = IF ses[m].private THEN "erased" ELSE IF written THEN "saved" ELSE "kept",
                                   !.phase = IF done /\ written THEN "completed" ELSE "failed", !.kept = ~ ses[m].private]))
<1>2. /\ ses[m].finish = "sending" /\ ~ ses[m].cut /\ UNCHANGED <<ctl, sent, retry, notice, title>>
      /\ ses' = [ses EXCEPT ![m] = s] /\ used' \in Used /\ used'.kills = used.kills
  BY <1>0, <1>1, UsedStays DEF FinishReturns, Step, person
<1>3. s \in Session BY <1>0, <1>1, ZenonT(30) DEF Session, Release, Closed
<1>4. /\ ses'[m].phase = (IF done /\ written THEN "completed" ELSE "failed") /\ ses'[m].private = ses[m].private
      /\ ses'[m].cut = ses[m].cut /\ ses'[m].lock = "free" /\ ses'[m].start = ses[m].start
  BY <1>0, <1>2, <1>3 DEF Session, Release, Closed
<1>5. /\ ses'[m].finish = (IF ses[m].private THEN "erased" ELSE IF written THEN "saved" ELSE "kept")
      /\ ses'[m].close = ses[m].close /\ ses'[m].recorder = "closed" /\ ses'[m].kept = ~ ses[m].private
  BY <1>0, <1>2, <1>3 DEF Session, Release, Closed
<1> HIDE DEF s
<1>6. row \in Row BY DEF Row
<1>7. /\ index' \in Seq(Row) /\ Len(index') <= MaxMeetings /\ Apart(index')
      /\ saves => Indexed(m)' /\ \A k : Indexed(k)' => k = m \/ Indexed(k)
      /\ ~ saves => index' = index
  <2>1. CASE saves
    <3>1. index' = Saved(row) /\ row.id = m BY <1>1, <2>1
    <3> HIDE DEF row
    <3>2. QED BY <2>1, <3>1, <1>0, <1>6, SavedRows, MeetingAssumption DEF Indexed
  <2>2. CASE ~ saves BY <2>2, <1>0, <1>1 DEF MeetingTypes, Indexed
  <2>3. QED BY <2>1, <2>2
<1>8. disk' \in [Meetings -> Audio]
  <2>1. CASE ses[m].private BY <2>1, <1>0, <1>1 DEF Audio
  <2>2. CASE ~ saves /\ ~ ses[m].private BY <2>2, <1>0, <1>1
  <2>3. CASE saves BY <2>3, <1>0, <1>1 DEF DeletedBeyond, Audio
  <2>4. QED BY <2>1, <2>2, <2>3
<1>9. ~ Indexed(m) /\ disk[m] = "audio" /\ Busy(m) /\ m \in sent /\ ~ Gone(m) /\ ses[m].recorder = "stopped"
  BY <1>0, <1>2 DEF SessionInv, AudioInv, TasksInv, Busy, Gone
<1>10. disk'[m] = IF ses[m].private THEN "none" ELSE "audio"
  <2>1. CASE ses[m].private BY <2>1, <1>0, <1>1
  <2>2. CASE ~ saves /\ ~ ses[m].private BY <2>2, <1>1, <1>9
  <2>3. CASE saves
    <3>1. RowOf(m) = {} BY <1>0, <1>9, RowThere
    <3>2. QED BY <2>3, <3>1, <1>1, <1>9 DEF DeletedBeyond
  <2>4. QED BY <2>1, <2>2, <2>3
<1>11. Indexed(m)' <=> saves
  BY <1>7, <1>9 DEF Indexed
<1>12. SessionInv(m)'
  <2>1. TasksInv(m)' BY <1>0, <1>2, <1>4, <1>5 DEF SessionInv, TasksInv, NoSession
  <2>2. AudioInv(m)' BY <1>0, <1>2, <1>4, <1>5, <1>9, <1>10, <1>11 DEF SessionInv, AudioInv, TasksInv, Gone
  <2>3. NoticeInv(m)' BY <1>0, <1>2, <1>4, <1>5, <1>9, <1>10, <1>11 DEF SessionInv, NoticeInv, TasksInv, Gone
  <2>4. OwnerInv(m)' BY <1>0, <1>2, <1>4, <1>5, <1>9 DEF SessionInv, OwnerInv, TasksInv, Busy
  <2>5. QED BY <2>1, <2>2, <2>3, <2>4 DEF SessionInv
<1>13. ASSUME NEW k \in Meetings, k # m PROVE SessionInv(k)'
  <2>1. ses'[k] = ses[k] /\ (Indexed(k)' => Indexed(k)) /\ SessionInv(k) BY <1>0, <1>2, <1>7, <1>13 DEF MeetingInv, Indexed
  <2>2. disk'[k] = IF Indexed(k) /\ ~ Indexed(k)' THEN "none" ELSE disk[k]
    <3>1. CASE ~ saves BY <3>1, <1>0, <1>1, <1>7, <1>13 DEF Indexed
    <3>2. CASE saves
      <4>1. index' = Saved(row) BY <1>1, <3>2
      <4>2. RowOf(k) # {} <=> Indexed(k) BY <1>0, RowThere
      <4>3. Indexed(k)' <=> Kept(Saved(row), k) BY <4>1 DEF Indexed
      <4>4. disk'[k] = IF RowOf(k) # {} /\ ~ Kept(Saved(row), k) THEN "none" ELSE disk[k] BY <1>1, <3>2 DEF DeletedBeyond
      <4>5. QED BY <4>2, <4>3, <4>4
    <3>3. QED BY <3>1, <3>2
  <2>3. QED BY <2>1, <2>2, <1>2, RowGoes
<1>14. MeetingTypes' BY <1>0, <1>2, <1>3, <1>7, <1>8 DEF MeetingTypes, Used, Audio
<1>15. ControlInv' BY <1>0, <1>2 DEF ControlInv
<1>16. RetryInv' BY <1>2, <1>9, NoRetryBeside DEF MeetingInv, RetryInv
<1>17. QED BY <1>12, <1>13, <1>14, <1>15, <1>16 DEF MeetingInv

\* A row that stands is written again: every row stays.
LEMMA RowChanges ==
    ASSUME MeetingInv, NEW row \in Row, Indexed(row.id), index' = Saved(row), disk' = disk, used'.kills = used.kills,
           used' \in Used, title' \in [Meetings -> Nat], UNCHANGED <<ctl, ses, sent, notice>>,
           retry' = retry \/ (retry.at = "sending" /\ retry' = [retry EXCEPT !.at = "over"])
    PROVE  MeetingInv'
<1>1. /\ index' \in Seq(Row) /\ Len(index') <= MaxMeetings /\ Apart(index')
      /\ \A k : Indexed(k)' <=> Indexed(k)
  BY SavedRows, MeetingAssumption DEF MeetingInv, Indexed
<1>2. MeetingTypes' BY <1>1 DEF MeetingInv, MeetingTypes, Used
<1>3. ControlInv' BY DEF MeetingInv, ControlInv
<1>4. RetryInv'
  <2>1. CASE retry' = retry BY <2>1, <1>1 DEF MeetingInv, RetryInv
  <2>2. CASE retry' = [retry EXCEPT !.at = "over"] /\ retry.at = "sending" BY <2>2 DEF MeetingInv, RetryInv, MeetingTypes
  <2>3. QED BY <2>1, <2>2
<1>5. \A k \in Meetings : SessionInv(k)' BY <1>1, SessionRests DEF MeetingInv
<1>6. QED BY <1>2, <1>3, <1>4, <1>5 DEF MeetingInv

\* The archive's own actions.
LEMMA ArchiveSteps ==
    ASSUME MeetingInv, RetryReturns \/ (\E m \in Meetings : Rename(m) \/ Delete(m))
    PROVE  MeetingInv'
<1>0. MeetingTypes /\ used \in Used BY UsedStays DEF MeetingInv
<1>1. ASSUME RetryReturns PROVE MeetingInv'
  <2>1. retry.at = "sending" /\ retry' = [retry EXCEPT !.at = "over"] /\ UNCHANGED <<ctl, ses, sent, notice, title>> /\ retry.row \in Row
    BY <1>0, <1>1 DEF RetryReturns, person, MeetingTypes
  <2>2. CASE ~ retry.cut /\ index' = Saved([retry.row EXCEPT !.done = TRUE]) /\ disk' = DeletedBeyond(index', disk) /\ UNCHANGED used
    <3> DEFINE row == [retry.row EXCEPT !.done = TRUE]
    <3>1. row \in Row /\ row.id = retry.row.id BY <2>1 DEF Row
    <3>2. Indexed(row.id) BY <2>1, <2>2, <3>1 DEF MeetingInv, RetryInv
    <3> HIDE DEF row
    <3>3. \A k : Indexed(k) => Kept(index', k) BY <2>2, <3>1, <3>2, <1>0, SavedRows, MeetingAssumption DEF row
    <3>4. disk' = disk
      <4>1. \A k \in Meetings : disk'[k] = disk[k] BY <2>2, <3>3, <1>0, RowThere DEF DeletedBeyond
      <4>2. disk' \in [Meetings -> Audio] /\ disk \in [Meetings -> Audio]
        BY <2>2, <1>0 DEF DeletedBeyond, MeetingTypes, Audio
      <4>3. QED BY <4>1, <4>2
    <3>5. title' \in [Meetings -> Nat] BY <2>1, <1>0 DEF MeetingTypes
    <3>6. QED BY <2>1, <2>2, <3>1, <3>2, <3>4, <3>5, <1>0, RowChanges DEF row
  <2>3. CASE UNCHANGED <<index, disk>> /\ used' \in Used /\ used'.kills = used.kills
    <3>1. MeetingTypes' BY <1>0, <2>1, <2>3 DEF MeetingTypes, Used
    <3>2. ControlInv' BY <2>1, <2>3 DEF MeetingInv, ControlInv
    <3>3. RetryInv' BY <2>1, <2>3, <1>0 DEF MeetingInv, RetryInv, MeetingTypes
    <3>4. \A k \in Meetings : SessionInv(k)' BY <2>1, <2>3, SessionRests DEF MeetingInv, Indexed
    <3>5. QED BY <3>1, <3>2, <3>3, <3>4 DEF MeetingInv
  <2>4. QED BY <1>0, <1>1, <2>2, <2>3, UsedStays DEF RetryReturns
<1>2. ASSUME NEW m \in Meetings, Rename(m) PROVE MeetingInv'
  <2> DEFINE old == CHOOSE r \in RowOf(m) : TRUE
             row == [old EXCEPT !.title = used.titles + 1]
  <2>1. old \in Row /\ old.id = m /\ Indexed(m) BY <1>0, <1>2, RowThere DEF Rename
  <2> HIDE DEF old
  <2>2. used.titles \in Nat BY <1>0 DEF Used
  <2>3. row \in Row /\ row.id = m BY <2>1, <2>2 DEF Row
  <2>4. index' = Saved(row) /\ title' = [title EXCEPT ![m] = used.titles + 1] /\ UNCHANGED <<ctl, ses, disk, sent, retry, notice>>
    BY <1>2 DEF Rename, old
  <2>5. used' \in Used /\ used'.kills = used.kills BY <1>2, UsedStays DEF Rename
  <2>6. title' \in [Meetings -> Nat]
    <3>1. title \in [Meetings -> Nat] BY <1>0 DEF MeetingTypes
    <3>2. used.titles + 1 \in Nat BY <2>2
    <3>3. QED BY <2>4, <3>1, <3>2
  <2> HIDE DEF row
  <2>7. QED BY <2>1, <2>3, <2>4, <2>5, <2>6, RowChanges
<1>3. ASSUME NEW m \in Meetings, Delete(m) PROVE MeetingInv'
  <2>1. /\ ~ ctl.closed /\ Indexed(m) /\ ctl.retry # m /\ index' = Without(m) /\ disk' = [disk EXCEPT ![m] = "none"]
        /\ notice' = [notice EXCEPT ![m] = "deleted"] /\ UNCHANGED <<ctl, ses, sent, retry, title, used>>
    BY <1>0, <1>3, RowThere DEF Delete, Deletable, Tell
  <2>2. /\ index' \in Seq(Row) /\ Len(index') <= MaxMeetings /\ Apart(index')
        /\ \A k : Indexed(k)' <=> Indexed(k) /\ k # m
    BY <1>0, <2>1, WithoutRow, MeetingAssumption DEF Indexed
  <2>3. MeetingTypes' BY <1>0, <2>1, <2>2 DEF MeetingTypes
  <2>4. ControlInv' BY <2>1 DEF MeetingInv, ControlInv
  <2>5. RetryInv' BY <1>0, <2>1, <2>2 DEF MeetingInv, RetryInv, MeetingTypes
  <2>6. ASSUME NEW k \in Meetings PROVE SessionInv(k)'
    <3>1. SessionInv(k) /\ (Indexed(k)' => Indexed(k)) BY <2>2 DEF MeetingInv
    <3>2. disk'[k] = IF Indexed(k) /\ ~ Indexed(k)' THEN "none" ELSE disk[k]
      BY <1>0, <2>1, <2>2 DEF MeetingTypes
    <3>3. notice'[k] = notice[k] \/ (Indexed(k) /\ ~ Indexed(k)' /\ notice'[k] = "deleted") BY <1>0, <2>1, <2>2 DEF MeetingTypes
    <3>4. QED BY <2>1, <3>1, <3>2, <3>3, RowGoes
  <2>7. QED BY <2>3, <2>4, <2>5, <2>6 DEF MeetingInv
<1>4. QED BY <1>1, <1>2, <1>3

-----------------------------------------------------------------------------
(* The controller.                                                         *)

\* A step of the controller that changes no session: it waits for a spoken update, or a retry goes on.
LEMMA ControllerRests ==
    ASSUME MeetingInv, UNCHANGED <<ses, disk, index, sent, notice, title>>, used' \in Used, used'.kills = used.kills,
           ctl' \in Control, ctl'.closed = ctl.closed, ctl'.active = ctl.active, ControlInv', RetryInv',
           ctl'.processing = ctl.processing \/ ctl.active = 0,
           ctl'.quit = ctl.quit \/ (\A m \in Meetings : ~ Busy(m)), ctl.quit => ctl'.quit,
           retry' \in [at : {"no", "queued", "sending", "over"}, row : [id : Nat, done : BOOLEAN, title : Nat], cut : BOOLEAN],
           retry'.at # "no" => retry'.row \in Row
    PROVE  MeetingInv'
<1>1. MeetingTypes' BY DEF MeetingInv, MeetingTypes, Used
<1>2. ASSUME NEW m \in Meetings PROVE SessionInv(m)'
  <2>1. SessionInv(m) /\ ses[m] \in Session /\ m # 0 BY MeetingAssumption DEF MeetingInv, MeetingTypes, MeetingAssumption
  <2>2. TasksInv(m)' BY <2>1 DEF SessionInv, TasksInv
  <2>3. AudioInv(m)' BY <2>1 DEF SessionInv, AudioInv, Gone, Indexed
  <2>4. NoticeInv(m)' BY <2>1 DEF SessionInv, NoticeInv, Gone, Indexed
  <2>5. OwnerInv(m)' BY <2>1 DEF SessionInv, OwnerInv, Busy
  <2>6. QED BY <2>2, <2>3, <2>4, <2>5 DEF SessionInv
<1>3. QED BY <1>1, <1>2 DEF MeetingInv

LEMMA Waits ==
    ASSUME MeetingInv, NEW w \in BOOLEAN, ctl' = [ctl EXCEPT !.waiting = w], UNCHANGED <<ses, archive, retry, person, used>>
    PROVE  MeetingInv'
<1>1. ctl \in Control /\ used \in Used /\ MeetingTypes BY UsedStays DEF MeetingInv, MeetingTypes
<1>2. /\ ctl' \in Control /\ ctl'.closed = ctl.closed /\ ctl'.active = ctl.active /\ ctl'.processing = ctl.processing
      /\ ctl'.quit = ctl.quit /\ ctl'.retry = ctl.retry
  BY <1>1 DEF Control
<1>3. ControlInv' /\ RetryInv' BY <1>2 DEF MeetingInv, ControlInv, RetryInv, archive, Indexed
<1>4. QED BY <1>1, <1>2, <1>3, ControllerRests DEF archive, person, MeetingTypes

\* A retry: asked for, read, and seen to be over.
LEMMA RetrySteps ==
    ASSUME MeetingInv, (\E r \in Rows : Retry(r)) \/ RetryReads \/ RetrySeen
    PROVE  MeetingInv'
<1>0. ctl \in Control /\ used \in Used /\ MeetingTypes /\ ControlInv /\ RetryInv /\ 0 \notin Meetings
  BY UsedStays, MeetingAssumption DEF MeetingInv, MeetingTypes, MeetingAssumption
<1>1. ASSUME NEW r \in Rows, Retry(r) PROVE MeetingInv'
  <2>1. r \in Row /\ r.id \in Meetings BY <1>0, RowThere
  <2>2. ctl' = [ctl EXCEPT !.retry = r.id] /\ ctl.active = 0 /\ ~ ctl.closed BY <1>1 DEF Retry
  <2>3. /\ ctl' \in Control /\ ctl'.closed = ctl.closed /\ ctl'.active = ctl.active /\ ctl'.processing = ctl.processing
        /\ ctl'.quit = ctl.quit /\ ctl'.retry = r.id
    BY <1>0, <2>1, <2>2 DEF Control
  <2>4. retry' = [at |-> "queued", row |-> r, cut |-> FALSE] BY <1>1 DEF Retry, NoRetry
  <2>5. used' \in Used /\ used'.kills = used.kills BY <1>1, UsedStays DEF Retry
  <2>6. ControlInv' BY <1>0, <2>2, <2>3, <2>5 DEF ControlInv
  <2>7. RetryInv' BY <1>0, <2>2, <2>3, <2>4 DEF RetryInv
  <2>8. r \in [id : Nat, done : BOOLEAN, title : Nat] BY <2>1, MeetingAssumption DEF Row, MeetingAssumption
  <2>9. /\ retry' \in [at : {"no", "queued", "sending", "over"}, row : [id : Nat, done : BOOLEAN, title : Nat], cut : BOOLEAN]
        /\ retry'.row \in Row /\ UNCHANGED <<ses, disk, index, sent, notice, title>>
    <3>1. UNCHANGED <<ses, disk, index, sent, notice, title>> BY <1>1 DEF Retry, archive, person
    <3>2. QED BY <2>1, <2>4, <2>8, <3>1
  <2>10. QED BY <2>3, <2>5, <2>6, <2>7, <2>9, ControllerRests
<1>2. ASSUME RetryReads PROVE MeetingInv'
  <2>1. retry.at = "queued" /\ UNCHANGED <<ctl, ses, archive, person, used>> BY <1>2 DEF RetryReads
  <2>2. /\ retry' \in [at : {"no", "queued", "sending", "over"}, row : [id : Nat, done : BOOLEAN, title : Nat], cut : BOOLEAN]
        /\ retry'.at \in {"sending", "over"} /\ retry'.row \in Row /\ retry'.row.id = retry.row.id /\ retry'.cut = retry.cut
        /\ retry'.at = "sending" => Indexed(retry'.row.id)
    <3>1. retry.row \in Row BY <1>0, <2>1 DEF MeetingTypes
    <3>2. CASE retry' = [retry EXCEPT !.at = "over"] BY <1>0, <3>1, <3>2 DEF MeetingTypes
    <3>3. CASE RowOf(retry.row.id) # {} /\ retry' = [retry EXCEPT !.at = "sending", !.row = CHOOSE r \in RowOf(retry.row.id) : TRUE]
      <4> DEFINE r == CHOOSE r \in RowOf(retry.row.id) : TRUE
      <4>1. r \in Row /\ r.id = retry.row.id /\ Indexed(r.id) BY <1>0, <3>3, RowThere
      <4>2. r \in [id : Nat, done : BOOLEAN, title : Nat] BY <4>1, MeetingAssumption DEF Row, MeetingAssumption
      <4> HIDE DEF r
      <4>3. retry' = [retry EXCEPT !.at = "sending", !.row = r] BY <3>3 DEF r
      <4>4. QED BY <1>0, <4>1, <4>2, <4>3 DEF MeetingTypes
    <3>4. QED BY <1>2, <3>2, <3>3 DEF RetryReads
  <2>3. RetryInv' BY <1>0, <2>1, <2>2 DEF RetryInv, archive, Indexed
  <2>4. ControlInv' BY <1>0, <2>1 DEF ControlInv
  <2>5. QED BY <1>0, <2>1, <2>2, <2>3, <2>4, ControllerRests DEF archive, person
<1>3. ASSUME RetrySeen PROVE MeetingInv'
  <2>1. retry.at = "over" /\ retry' = NoRetry /\ ctl' = (IF ~ ctl.closed THEN Reset ELSE ctl) /\ UNCHANGED <<ses, archive, person, used>>
    BY <1>3 DEF RetrySeen
  <2>2. NoRetry \in [at : {"no", "queued", "sending", "over"}, row : [id : Nat, done : BOOLEAN, title : Nat], cut : BOOLEAN] /\ NoRetry.at = "no"
    BY DEF NoRetry
  <2>3. ~ ctl.closed => ctl.active = 0 /\ ~ ctl.quit BY <1>0, <2>1 DEF RetryInv, ControlInv, MeetingTypes, Row
  <2>4. /\ ctl' \in Control /\ ctl'.closed = ctl.closed /\ ctl'.active = ctl.active /\ ctl'.quit = ctl.quit
        /\ (ctl'.processing = ctl.processing \/ ctl.active = 0) /\ ctl'.retry = 0
    BY <1>0, <2>1, <2>3 DEF Reset, Idle, Control, ControlInv
  <2>5. ControlInv' BY <1>0, <2>1, <2>4 DEF ControlInv
  <2>6. RetryInv' BY <1>0, <2>1, <2>2, <2>4 DEF RetryInv
  <2>7. QED BY <1>0, <2>1, <2>2, <2>4, <2>5, <2>6, ControllerRests DEF archive, person
<1>4. QED BY <1>1, <1>2, <1>3

\* The session that the controller lets go of is over, and no other one goes on.
LEMMA OthersAreOver ==
    ASSUME MeetingInv, ~ ctl.closed, NEW m \in {0} \cup Meetings, ctl.active = m, NEW k \in Meetings, k # m
    PROVE  ~ Busy(k) /\ ses[k].finish \notin {"saved", "kept"}
<1>1. QED BY DEF MeetingInv, SessionInv, OwnerInv

LEMMA OthersRest ==
    ASSUME MeetingInv, ~ ctl.closed, NEW k \in Meetings, ctl.active # k, ses'[k] = ses[k], disk'[k] = disk[k], index' = index,
           sent' = sent, notice'[k] = notice[k], used'.kills = used.kills, ctl'.active # k, ctl'.quit = FALSE
    PROVE  SessionInv(k)'
<1>1. SessionInv(k) /\ ~ ctl.quit /\ ~ Busy(k) /\ ses[k].finish \notin {"saved", "kept"}
  <2>1. SessionInv(k) /\ ~ ctl.quit BY DEF MeetingInv, ControlInv
  <2>2. QED BY <2>1 DEF SessionInv, OwnerInv
<1>2. TasksInv(k)' BY <1>1 DEF SessionInv, TasksInv
<1>3. AudioInv(k)' BY <1>1 DEF SessionInv, AudioInv, Gone, Indexed
<1>4. NoticeInv(k)' BY <1>1 DEF SessionInv, NoticeInv, Gone, Indexed
<1>5. OwnerInv(k)' BY <1>1 DEF SessionInv, OwnerInv, Busy
<1>6. QED BY <1>2, <1>3, <1>4, <1>5 DEF SessionInv

\* A session of the controller changes: what is shown is its own.
LEMMA ShownStep ==
    ASSUME MeetingInv, NEW m \in Meetings, NEW s \in Session, ses' = [ses EXCEPT ![m] = s], ctl' \in Control,
           NEW n, notice' = [notice EXCEPT ![m] = n], n \in {"nothing", "not started", "saved", "kept", "erased", "cancelled", "deleted"},
           UNCHANGED <<disk, index, sent, retry, title, used>>, SessionInv(m)',
           \/ ctl' = ctl
           \/ /\ ~ ctl.closed /\ ctl.active \in {0, m} /\ ctl'.active \in {0, m} /\ ctl'.quit = FALSE /\ ctl'.closed = FALSE
              /\ ctl.retry = 0 /\ ctl'.retry = 0
    PROVE  MeetingInv'
<1>0. MeetingTypes /\ ControlInv /\ RetryInv /\ 0 \notin Meetings
  BY MeetingAssumption DEF MeetingInv, MeetingAssumption
<1>1. MeetingTypes' BY <1>0 DEF MeetingTypes
<1>2. ControlInv' BY <1>0 DEF ControlInv
<1>3. RetryInv' BY <1>0 DEF RetryInv, Indexed
<1>4. ASSUME NEW k \in Meetings, k # m PROVE SessionInv(k)'
  <2>1. ses'[k] = ses[k] /\ disk'[k] = disk[k] /\ notice'[k] = notice[k] BY <1>0, <1>4 DEF MeetingTypes
  <2>2. CASE ctl' = ctl BY <2>1, <2>2, SessionRests DEF MeetingInv, Indexed
  <2>3. CASE ctl' # ctl BY <1>0, <1>4, <2>1, <2>3, OthersRest
  <2>4. QED BY <2>2, <2>3
<1>5. QED BY <1>1, <1>2, <1>3, <1>4 DEF MeetingInv

LEMMA ResetIs ==
    ASSUME ctl \in Control
    PROVE  /\ Reset \in Control /\ Reset.active = 0 /\ Reset.closed = ctl.closed /\ Reset.quit = FALSE /\ Reset.retry = 0
           /\ Reset.processing = FALSE
<1>1. QED BY DEF Reset, Idle, Control

LEMMA StartIsSeen ==
    ASSUME MeetingInv, NEW m \in Meetings, StartSeen(m)
    PROVE  MeetingInv'
<1> DEFINE s == [ses[m] EXCEPT !.start = "seen"]
           resets == Owns(m) /\ ~ ctl.cancelling /\ ses[m].start = "failed"
           n == IF resets THEN "not started" ELSE notice[m]
<1>0. MeetingTypes /\ ctl \in Control /\ ControlInv /\ SessionInv(m) /\ ses[m] \in Session /\ ses \in [Meetings -> Session]
  BY DEF MeetingInv, MeetingTypes
<1>1. /\ ses' = [ses EXCEPT ![m] = s] /\ ses[m].start \in {"ready", "failed"} /\ notice' = [notice EXCEPT ![m] = n]
      /\ UNCHANGED <<disk, index, sent, retry, title, used>> /\ ctl' = IF resets THEN Reset ELSE ctl
  BY <1>0 DEF StartSeen, Tell, archive, person, MeetingTypes
<1>s. s \in Session /\ ses'[m] = s BY <1>0, <1>1 DEF Session
<1>2. n \in {"nothing", "not started", "saved", "kept", "erased", "cancelled", "deleted"} /\ notice'[m] = n
  BY <1>0, <1>1 DEF MeetingTypes
<1>3. /\ ses'[m].phase = ses[m].phase /\ ses'[m].private = ses[m].private /\ ses'[m].cut = ses[m].cut /\ ses'[m].lock = ses[m].lock
      /\ ses'[m].start = "seen"
  BY <1>0, <1>s DEF Session
<1>4. /\ ses'[m].finish = ses[m].finish /\ ses'[m].close = ses[m].close /\ ses'[m].recorder = ses[m].recorder
      /\ ses'[m].kept = ses[m].kept
  BY <1>0, <1>s DEF Session
<1>5. /\ ctl' \in Control /\ ctl'.closed = ctl.closed /\ ctl'.quit = ctl.quit
      /\ resets => ctl.active = m /\ ~ ctl.closed /\ ctl.retry = 0 /\ ctl'.active = 0 /\ ctl'.retry = 0 /\ ctl'.quit = FALSE /\ ctl'.closed = FALSE
      /\ ~ resets => ctl' = ctl
  <2>1. m # 0 BY MeetingAssumption DEF MeetingAssumption
  <2>2. CASE resets
    <3>1. ctl.active = m /\ ~ ctl.closed BY <2>2 DEF Owns
    <3>2. ctl.quit = FALSE /\ ctl.closed = FALSE BY <1>0, <3>1 DEF Control, ControlInv
    <3>3. QED BY <2>1, <2>2, <3>1, <3>2, <1>0, <1>1, ResetIs DEF ControlInv
  <2>3. CASE ~ resets BY <2>3, <1>0, <1>1 DEF Owns
  <2>4. QED BY <2>2, <2>3
<1>6. SessionInv(m)'
  <2>1. TasksInv(m)' BY <1>0, <1>1, <1>3, <1>4 DEF SessionInv, TasksInv, NoSession
  <2>2. AudioInv(m)' BY <1>0, <1>1, <1>2, <1>3, <1>4, <1>5 DEF SessionInv, AudioInv, TasksInv, Gone, Indexed
  <2>3. NoticeInv(m)' BY <1>0, <1>1, <1>2, <1>3, <1>4, <1>5 DEF SessionInv, NoticeInv, TasksInv, Gone, Indexed
  <2>4. OwnerInv(m)'
    <3>1. m # 0 BY MeetingAssumption DEF MeetingAssumption
    <3>2. ~ Busy(m)' \/ ctl' = ctl
      <4>1. ses[m].lock \in {"free", "start", "finish"} BY <1>0 DEF Session
      <4>2. QED BY <4>1, <1>0, <1>1, <1>3, <1>4, <1>5 DEF SessionInv, OwnerInv, TasksInv, AudioInv, Busy
    <3>3. QED BY <3>1, <3>2, <1>0, <1>1, <1>3, <1>4, <1>5 DEF SessionInv, OwnerInv, TasksInv, AudioInv, Busy
  <2>5. QED BY <2>1, <2>2, <2>3, <2>4 DEF SessionInv
<1> HIDE DEF s, n, resets
<1>7. QED BY <1>s, <1>1, <1>2, <1>5, <1>6, <1>0, ShownStep DEF ControlInv

LEMMA FinishIsSeen ==
    ASSUME MeetingInv, NEW m \in Meetings, FinishSeen(m)
    PROVE  MeetingInv'
<1> DEFINE s == [ses[m] EXCEPT !.finish = "seen"]
           n == IF Owns(m) THEN ses[m].finish ELSE notice[m]
<1>0. MeetingTypes /\ ctl \in Control /\ ControlInv /\ SessionInv(m) /\ ses[m] \in Session /\ ses \in [Meetings -> Session]
  BY DEF MeetingInv, MeetingTypes
<1>1. /\ ses' = [ses EXCEPT ![m] = s] /\ ses[m].finish \in {"saved", "kept", "erased"} /\ notice' = [notice EXCEPT ![m] = n]
      /\ UNCHANGED <<disk, index, sent, retry, title, used>> /\ ctl' = IF Owns(m) THEN Reset ELSE ctl
  BY <1>0 DEF FinishSeen, Tell, archive, person, MeetingTypes
<1>s. s \in Session /\ ses'[m] = s BY <1>0, <1>1 DEF Session
<1>2. n \in {"nothing", "not started", "saved", "kept", "erased", "cancelled", "deleted"} /\ notice'[m] = n
  BY <1>0, <1>1 DEF MeetingTypes
<1>3. /\ ses'[m].phase = ses[m].phase /\ ses'[m].private = ses[m].private /\ ses'[m].cut = ses[m].cut /\ ses'[m].lock = ses[m].lock
      /\ ses'[m].start = ses[m].start
  BY <1>0, <1>s DEF Session
<1>4. /\ ses'[m].finish = "seen" /\ ses'[m].close = ses[m].close /\ ses'[m].recorder = ses[m].recorder
      /\ ses'[m].kept = ses[m].kept
  BY <1>0, <1>s DEF Session
<1>5. /\ ctl' \in Control /\ ctl'.closed = ctl.closed /\ ctl'.quit = ctl.quit
      /\ Owns(m) => ctl.active = m /\ ~ ctl.closed /\ ctl.retry = 0 /\ ctl'.active = 0 /\ ctl'.retry = 0 /\ ctl'.quit = FALSE /\ ctl'.closed = FALSE
      /\ ~ Owns(m) => ctl' = ctl /\ (ctl.closed \/ ctl.active # m)
  <2>1. m # 0 BY MeetingAssumption DEF MeetingAssumption
  <2>2. CASE Owns(m)
    <3>1. ctl.active = m /\ ~ ctl.closed BY <2>2 DEF Owns
    <3>2. ctl.quit = FALSE /\ ctl.closed = FALSE BY <1>0, <3>1 DEF Control, ControlInv
    <3>3. QED BY <2>1, <2>2, <3>1, <3>2, <1>0, <1>1, ResetIs DEF ControlInv
  <2>3. CASE ~ Owns(m) BY <2>3, <1>0, <1>1 DEF Owns
  <2>4. QED BY <2>2, <2>3
<1>6. SessionInv(m)'
  <2>1. TasksInv(m)' BY <1>0, <1>1, <1>3, <1>4 DEF SessionInv, TasksInv, NoSession
  <2>2. AudioInv(m)' BY <1>0, <1>1, <1>2, <1>3, <1>4, <1>5 DEF SessionInv, AudioInv, TasksInv, OwnerInv, Gone, Indexed
  <2>3. NoticeInv(m)' BY <1>0, <1>1, <1>2, <1>3, <1>4, <1>5 DEF SessionInv, NoticeInv, TasksInv, Gone, Indexed
  <2>4. OwnerInv(m)'
    <3>1. m # 0 BY MeetingAssumption DEF MeetingAssumption
    <3>2. ~ Busy(m)' \/ ctl' = ctl
      <4>1. ses[m].lock \in {"free", "start", "finish"} BY <1>0 DEF Session
      <4>2. QED BY <4>1, <1>0, <1>1, <1>3, <1>4, <1>5 DEF SessionInv, OwnerInv, TasksInv, AudioInv, Busy
    <3>3. QED BY <3>1, <3>2, <1>0, <1>1, <1>3, <1>4, <1>5 DEF SessionInv, OwnerInv, TasksInv, AudioInv, Busy
  <2>5. QED BY <2>1, <2>2, <2>3, <2>4 DEF SessionInv
<1> HIDE DEF s, n
<1>7. QED BY <1>s, <1>1, <1>2, <1>5, <1>6, <1>0, ShownStep DEF ControlInv

LEMMA CloseIsSeen ==
    ASSUME MeetingInv, NEW m \in Meetings, CloseSeen(m)
    PROVE  MeetingInv'
<1> DEFINE s == [ses[m] EXCEPT !.close = "seen"]
           n == IF Owns(m) THEN "cancelled" ELSE notice[m]
<1>0. MeetingTypes /\ ctl \in Control /\ ControlInv /\ SessionInv(m) /\ ses[m] \in Session /\ ses \in [Meetings -> Session]
  BY DEF MeetingInv, MeetingTypes
<1>1. /\ ses' = [ses EXCEPT ![m] = s] /\ ses[m].close = "closed" /\ notice' = [notice EXCEPT ![m] = n]
      /\ UNCHANGED <<disk, index, sent, retry, title, used>> /\ ctl' = IF Owns(m) THEN Reset ELSE ctl
  BY <1>0 DEF CloseSeen, Tell, archive, person, MeetingTypes
<1>s. s \in Session /\ ses'[m] = s BY <1>0, <1>1 DEF Session
<1>2. n \in {"nothing", "not started", "saved", "kept", "erased", "cancelled", "deleted"} /\ notice'[m] = n
  BY <1>0, <1>1 DEF MeetingTypes
<1>3. /\ ses'[m].phase = ses[m].phase /\ ses'[m].private = ses[m].private /\ ses'[m].cut = ses[m].cut /\ ses'[m].lock = ses[m].lock
      /\ ses'[m].start = ses[m].start
  BY <1>0, <1>s DEF Session
<1>4. /\ ses'[m].finish = ses[m].finish /\ ses'[m].close = "seen" /\ ses'[m].recorder = ses[m].recorder
      /\ ses'[m].kept = ses[m].kept
  BY <1>0, <1>s DEF Session
<1>5. /\ ctl' \in Control /\ ctl'.closed = ctl.closed /\ ctl'.quit = ctl.quit
      /\ Owns(m) => ctl.active = m /\ ~ ctl.closed /\ ctl.retry = 0 /\ ctl'.active = 0 /\ ctl'.retry = 0 /\ ctl'.quit = FALSE /\ ctl'.closed = FALSE
      /\ ~ Owns(m) => ctl' = ctl /\ (ctl.closed \/ ctl.active # m)
  <2>1. m # 0 BY MeetingAssumption DEF MeetingAssumption
  <2>2. CASE Owns(m)
    <3>1. ctl.active = m /\ ~ ctl.closed BY <2>2 DEF Owns
    <3>2. ctl.quit = FALSE /\ ctl.closed = FALSE BY <1>0, <3>1 DEF Control, ControlInv
    <3>3. QED BY <2>1, <2>2, <3>1, <3>2, <1>0, <1>1, ResetIs DEF ControlInv
  <2>3. CASE ~ Owns(m) BY <2>3, <1>0, <1>1 DEF Owns
  <2>4. QED BY <2>2, <2>3
<1>6. /\ ses[m].phase = "closed" /\ ses[m].recorder = "closed" /\ ses[m].lock = "free" /\ ses[m].cut /\ ~ Gone(m)
      /\ ~ ctl.closed => m \notin sent /\ ~ ses[m].kept /\ disk[m] = "none" /\ ~ Indexed(m)
  BY <1>0, <1>1 DEF SessionInv, TasksInv, AudioInv, NoticeInv, Gone
<1>7. SessionInv(m)'
  <2>1. TasksInv(m)' BY <1>0, <1>1, <1>3, <1>4 DEF SessionInv, TasksInv, NoSession
  <2>2. AudioInv(m)' BY <1>0, <1>1, <1>2, <1>3, <1>4, <1>5, <1>6 DEF SessionInv, AudioInv, Gone, Indexed
  <2>3. NoticeInv(m)' BY <1>0, <1>1, <1>2, <1>3, <1>4, <1>5, <1>6 DEF SessionInv, NoticeInv, Gone, Indexed
  <2>4. OwnerInv(m)' BY <1>0, <1>1, <1>3, <1>4, <1>5, <1>6, MeetingAssumption DEF SessionInv, OwnerInv, AudioInv, Busy, MeetingAssumption
  <2>5. QED BY <2>1, <2>2, <2>3, <2>4 DEF SessionInv
<1> HIDE DEF s, n
<1>8. QED BY <1>s, <1>1, <1>2, <1>5, <1>7, <1>0, ShownStep DEF ControlInv

\* A session begins, with the privacy of that moment.
LEMMA SessionStarts ==
    ASSUME MeetingInv, NEW m \in New, NEW private \in BOOLEAN, Starts(m, private), ~ ctl.closed, ctl.active = 0, ctl.retry = 0
    PROVE  MeetingInv'
<1> DEFINE s == [ses[m] EXCEPT !.start = "queued", !.private = private]
<1>0. /\ m \in Meetings /\ MeetingTypes /\ ctl \in Control /\ ControlInv /\ SessionInv(m) /\ ses[m] \in Session
      /\ ses \in [Meetings -> Session] /\ ses[m] = NoSession /\ m # 0
  <2>1. m \in Meetings /\ m # 0 /\ ses[m].start = "no" BY MeetingAssumption DEF New, MeetingAssumption
  <2>2. QED BY <2>1 DEF MeetingInv, MeetingTypes, SessionInv, TasksInv
<1>1. /\ ses' = [ses EXCEPT ![m] = s] /\ notice' = [notice EXCEPT ![m] = notice[m]]
      /\ UNCHANGED <<disk, index, sent, retry, title, used>> /\ ctl' = [ctl EXCEPT !.active = m, !.waiting = FALSE]
  BY <1>0 DEF Starts, archive, person, MeetingTypes
<1>2. s \in Session /\ ses'[m] = s /\ disk'[m] = disk[m] BY <1>0, <1>1 DEF Session
<1>3. /\ ses'[m].phase = "preparing" /\ ses'[m].private = private /\ ses'[m].cut = FALSE /\ ses'[m].lock = "free"
      /\ ses'[m].start = "queued"
  BY <1>0, <1>2 DEF Session, NoSession
<1>4. ses'[m].finish = "no" /\ ses'[m].close = "no" /\ ses'[m].recorder = "new" /\ ses'[m].kept = FALSE
  BY <1>0, <1>2 DEF Session, NoSession
<1>5. /\ ctl' \in Control /\ ctl'.closed = ctl.closed /\ ctl'.quit = ctl.quit /\ ctl'.active = m /\ ctl'.retry = 0
      /\ ctl'.processing = ctl.processing /\ ctl'.closed = FALSE /\ ctl'.quit = FALSE
  BY <1>0, <1>1 DEF Control, ControlInv
<1>6. ses[m].start = "no" /\ ~ Gone(m) /\ ses[m].kept = FALSE /\ ses[m].recorder = "new" /\ ses[m].close = "no" /\ ses[m].finish = "no"
  BY <1>0 DEF NoSession, Gone
<1>7. SessionInv(m)'
  <2>1. TasksInv(m)' BY <1>3, <1>4 DEF TasksInv
  <2>2. AudioInv(m)' BY <1>0, <1>1, <1>2, <1>3, <1>4, <1>6 DEF SessionInv, AudioInv, Indexed
  <2>3. NoticeInv(m)' BY <1>0, <1>1, <1>2, <1>4, <1>6 DEF SessionInv, NoticeInv, MeetingTypes
  <2>4. OwnerInv(m)' BY <1>3, <1>4, <1>5 DEF OwnerInv
  <2>5. QED BY <2>1, <2>2, <2>3, <2>4 DEF SessionInv
<1>8. notice[m] \in {"nothing", "not started", "saved", "kept", "erased", "cancelled", "deleted"} BY <1>0 DEF MeetingTypes
<1> HIDE DEF s
<1>9. QED BY <1>0, <1>1, <1>2, <1>5, <1>7, <1>8, ShownStep

\* Stop and Cancel, of the session that is shown.
LEMMA StopBegins ==
    ASSUME MeetingInv, StopMeeting
    PROVE  MeetingInv'
<1>a. PICK m \in Meetings : m = ctl.active
  BY DEF StopMeeting, Phase, MeetingInv, MeetingTypes, Control
<1> DEFINE s == [ses[m] EXCEPT !.finish = "queued"]
<1>0. MeetingTypes /\ ctl \in Control /\ ControlInv /\ ~ ctl.closed /\ ctl.active # 0 /\ m \in Meetings /\ ses[m].phase = "recording" /\ ctl.retry = 0
  BY <1>a DEF StopMeeting, Phase, MeetingInv, MeetingTypes
<1>1. m \in Meetings /\ SessionInv(m) /\ ses[m] \in Session /\ ses \in [Meetings -> Session]
  BY <1>0 DEF MeetingInv, MeetingTypes, Control
<1>2. /\ ses' = [ses EXCEPT ![m] = s] /\ notice' = [notice EXCEPT ![m] = notice[m]]
      /\ UNCHANGED <<disk, index, sent, retry, title, used>> /\ ctl' = [ctl EXCEPT !.processing = TRUE]
  BY <1>0, <1>a, <1>1 DEF StopMeeting, archive, person, MeetingTypes, Session
<1>3. s \in Session /\ ses'[m] = s /\ disk'[m] = disk[m] BY <1>1, <1>2 DEF Session
<1>4. /\ ses'[m].phase = ses[m].phase /\ ses'[m].private = ses[m].private /\ ses'[m].cut = ses[m].cut /\ ses'[m].lock = ses[m].lock
      /\ ses'[m].start = ses[m].start
  BY <1>1, <1>3 DEF Session
<1>5. /\ ses'[m].finish = "queued" /\ ses'[m].close = ses[m].close /\ ses'[m].recorder = ses[m].recorder
      /\ ses'[m].kept = ses[m].kept
  BY <1>1, <1>3 DEF Session
<1>6. /\ ctl' \in Control /\ ctl'.closed = FALSE /\ ctl'.quit = FALSE /\ ctl'.active = m /\ ctl'.retry = 0 /\ ctl'.processing
      /\ ctl.closed = FALSE /\ ctl.quit = FALSE /\ ctl.active = m
  BY <1>0, <1>a, <1>2 DEF Control, ControlInv
<1>7. SessionInv(m)'
  <2>1. TasksInv(m)' BY <1>0, <1>1, <1>4, <1>5 DEF SessionInv, TasksInv, NoSession
  <2>2. AudioInv(m)' BY <1>0, <1>1, <1>2, <1>3, <1>4, <1>5, <1>6 DEF SessionInv, AudioInv, TasksInv, Gone, Indexed
  <2>3. NoticeInv(m)' BY <1>0, <1>1, <1>2, <1>3, <1>4, <1>5, <1>6 DEF SessionInv, NoticeInv, Gone, Indexed, MeetingTypes
  <2>4. OwnerInv(m)' BY <1>0, <1>1, <1>4, <1>5, <1>6 DEF SessionInv, OwnerInv, Busy
  <2>5. QED BY <2>1, <2>2, <2>3, <2>4 DEF SessionInv
<1>8. notice[m] \in {"nothing", "not started", "saved", "kept", "erased", "cancelled", "deleted"} BY <1>0, <1>1 DEF MeetingTypes
<1> HIDE DEF s
<1>9. QED BY <1>0, <1>1, <1>2, <1>3, <1>6, <1>7, <1>8, ShownStep

LEMMA CancelBegins ==
    ASSUME MeetingInv, Cancel
    PROVE  MeetingInv'
<1>a. PICK m \in Meetings : m = ctl.active
  BY DEF Cancel, Cancellable, Phase, MeetingInv, MeetingTypes, Control
<1> DEFINE s == [ses[m] EXCEPT !.cut = TRUE, !.close = "queued"]
<1>0. MeetingTypes /\ ctl \in Control /\ ControlInv /\ ~ ctl.closed /\ ctl.active # 0 /\ m \in Meetings /\ ses[m].phase \in {"preparing", "recording"}
      /\ ~ ctl.processing
  BY <1>a DEF Cancel, Cancellable, Phase, MeetingInv, MeetingTypes
<1>1. m \in Meetings /\ SessionInv(m) /\ ses[m] \in Session /\ ses \in [Meetings -> Session] /\ ctl.retry = 0
  BY <1>0 DEF MeetingInv, MeetingTypes, Control, ControlInv
<1>2. /\ ses' = [ses EXCEPT ![m] = s] /\ notice' = [notice EXCEPT ![m] = notice[m]]
      /\ UNCHANGED <<disk, index, sent, retry, title, used>> /\ ctl' = [ctl EXCEPT !.cancelling = TRUE]
  <2>1. ses' = [ses EXCEPT ![m].cut = TRUE, ![m].close = "queued"] BY <1>a DEF Cancel
  <2>2. ses' = [ses EXCEPT ![m] = s] BY <2>1, <1>1 DEF Session
  <2>3. QED BY <2>2, <1>0 DEF Cancel, archive, person, MeetingTypes
<1>3. s \in Session /\ ses'[m] = s /\ disk'[m] = disk[m] BY <1>1, <1>2 DEF Session
<1>4. /\ ses'[m].phase = ses[m].phase /\ ses'[m].private = ses[m].private /\ ses'[m].cut = TRUE /\ ses'[m].lock = ses[m].lock
      /\ ses'[m].start = ses[m].start
  BY <1>1, <1>3 DEF Session
<1>5. /\ ses'[m].finish = ses[m].finish /\ ses'[m].close = "queued" /\ ses'[m].recorder = ses[m].recorder
      /\ ses'[m].kept = ses[m].kept
  BY <1>1, <1>3 DEF Session
<1>6. /\ ctl' \in Control /\ ctl'.closed = FALSE /\ ctl'.quit = FALSE /\ ctl'.active = m /\ ctl'.retry = 0
      /\ ctl'.processing = ctl.processing /\ ctl.closed = FALSE /\ ctl.quit = FALSE /\ ctl.active = m
  BY <1>0, <1>a, <1>1, <1>2 DEF Control, ControlInv
<1>7. /\ ses[m].finish = "no" /\ ses[m].start # "no" /\ ~ Gone(m) /\ m \notin sent /\ ~ ses[m].kept /\ ~ Indexed(m)
      /\ ses[m].close \notin {"closed", "seen"} /\ notice[m] # "cancelled"
  BY <1>0, <1>a, <1>1, <1>6 DEF SessionInv, OwnerInv, AudioInv, TasksInv, NoticeInv, Gone
<1>8. SessionInv(m)'
  <2>1. TasksInv(m)' BY <1>0, <1>1, <1>4, <1>5, <1>7 DEF SessionInv, TasksInv
  <2>2. AudioInv(m)' BY <1>0, <1>1, <1>2, <1>3, <1>4, <1>5, <1>6, <1>7 DEF SessionInv, AudioInv, Indexed, Gone
  <2>3. NoticeInv(m)' BY <1>0, <1>1, <1>2, <1>3, <1>5, <1>6, <1>7 DEF SessionInv, NoticeInv, MeetingTypes
  <2>4. OwnerInv(m)' BY <1>0, <1>1, <1>4, <1>5, <1>6, <1>7 DEF SessionInv, OwnerInv, Busy
  <2>5. QED BY <2>1, <2>2, <2>3, <2>4 DEF SessionInv
<1>9. notice[m] \in {"nothing", "not started", "saved", "kept", "erased", "cancelled", "deleted"} BY <1>0, <1>1 DEF MeetingTypes
<1> HIDE DEF s
<1>10. QED BY <1>0, <1>1, <1>2, <1>3, <1>6, <1>8, <1>9, ShownStep

\* The program closes: what it shows is cut and will be closed, and so is a retry.
LEMMA ShutdownBegins ==
    ASSUME MeetingInv, Shutdown
    PROVE  MeetingInv'
<1>0. /\ MeetingTypes /\ ctl \in Control /\ ControlInv /\ RetryInv /\ ctl.closed = FALSE /\ ctl.quit = FALSE /\ 0 \notin Meetings
      /\ ses \in [Meetings -> Session]
  BY MeetingAssumption DEF Shutdown, MeetingInv, MeetingTypes, Control, ControlInv, MeetingAssumption
<1>1. /\ ctl' \in Control /\ ctl'.closed /\ ~ ctl'.quit /\ ctl'.active = 0 /\ ctl'.retry = 0 /\ ctl'.processing = ctl.processing
      /\ UNCHANGED <<disk, index, sent, notice, title, used>>
  BY <1>0 DEF Shutdown, Control, archive, person
<1>2. ASSUME NEW m \in Meetings
      PROVE  /\ ses'[m] \in Session
             /\ ses'[m] = IF m = ctl.active THEN [ses[m] EXCEPT !.cut = TRUE, !.close = IF @ = "no" THEN "queued" ELSE @] ELSE ses[m]
  BY <1>0, ZenonT(30) DEF Shutdown, Session
<1>3. ses' \in [Meetings -> Session]
  <2>1. ses' = [m \in Meetings |-> ses'[m]] BY DEF Shutdown
  <2>2. QED BY <1>2, <2>1
<1>4. /\ retry' \in [at : {"no", "queued", "sending", "over"}, row : [id : Nat, done : BOOLEAN, title : Nat], cut : BOOLEAN]
      /\ retry'.at = retry.at /\ retry'.row = retry.row /\ (ctl.retry # 0 => retry'.cut) /\ (ctl.retry = 0 => retry' = retry)
  BY <1>0 DEF Shutdown, MeetingTypes
<1>5. MeetingTypes' BY <1>0, <1>1, <1>3, <1>4 DEF MeetingTypes
<1>6. ControlInv' BY <1>0, <1>1 DEF ControlInv
<1>7. RetryInv'
  <2>1. ctl.retry = 0 => retry.at = "no" BY <1>0 DEF RetryInv, MeetingTypes, Row
  <2>2. retry.cut \in BOOLEAN /\ retry'.cut \in BOOLEAN BY <1>0, <1>4 DEF MeetingTypes
  <2>3. QED BY <1>1, <1>4, <2>1, <2>2 DEF RetryInv
<1>8. ASSUME NEW m \in Meetings PROVE SessionInv(m)'
  <2>0. SessionInv(m) /\ ses[m] \in Session /\ ~ Gone(m) BY <1>0 DEF MeetingInv, Gone
  <2>1. CASE m # ctl.active
    <3>1. ses'[m] = ses[m] /\ ~ Busy(m) BY <1>0, <1>2, <2>0, <2>1 DEF SessionInv, OwnerInv
    <3>2. TasksInv(m)' BY <2>0, <3>1 DEF SessionInv, TasksInv
    <3>3. AudioInv(m)' BY <1>0, <2>0, <3>1, <1>1 DEF SessionInv, AudioInv, Indexed, Gone
    <3>4. NoticeInv(m)' BY <2>0, <3>1, <1>1 DEF SessionInv, NoticeInv, Indexed
    <3>5. OwnerInv(m)' BY <2>0, <3>1, <1>0, <1>1 DEF SessionInv, OwnerInv, Busy
    <3>6. QED BY <3>2, <3>3, <3>4, <3>5 DEF SessionInv
  <2>2. CASE m = ctl.active
    <3>1. ses'[m] = [ses[m] EXCEPT !.cut = TRUE, !.close = IF @ = "no" THEN "queued" ELSE @] BY <1>2, <2>2
    <3>2. /\ ses'[m].phase = ses[m].phase /\ ses'[m].private = ses[m].private /\ ses'[m].cut = TRUE /\ ses'[m].lock = ses[m].lock
          /\ ses'[m].start = ses[m].start
      BY <2>0, <3>1 DEF Session
    <3>3. /\ ses'[m].finish = ses[m].finish /\ ses'[m].close = (IF ses[m].close = "no" THEN "queued" ELSE ses[m].close)
          /\ ses'[m].recorder = ses[m].recorder /\ ses'[m].kept = ses[m].kept /\ ses[m].close \in {"no", "queued", "closed", "seen"}
      BY <2>0, <3>1 DEF Session
    <3>4. TasksInv(m)' BY <2>0, <2>2, <3>2, <3>3, <1>0 DEF SessionInv, TasksInv, OwnerInv
    <3>5. AudioInv(m)' BY <1>0, <2>0, <3>2, <3>3, <1>1 DEF SessionInv, AudioInv, Indexed, Gone
    <3>6. NoticeInv(m)' BY <2>0, <3>2, <3>3, <1>1 DEF SessionInv, NoticeInv, Indexed
    <3>7. OwnerInv(m)' BY <2>0, <3>2, <3>3, <1>0, <1>1 DEF SessionInv, OwnerInv, TasksInv, Busy
    <3>8. QED BY <3>4, <3>5, <3>6, <3>7 DEF SessionInv
  <2>3. QED BY <2>1, <2>2
<1>9. QED BY <1>5, <1>6, <1>7, <1>8 DEF MeetingInv

LEMMA QuitEnds ==
    ASSUME MeetingInv, Quits
    PROVE  MeetingInv'
<1>0. MeetingTypes /\ ctl \in Control /\ ControlInv /\ RetryInv /\ ctl.closed /\ used \in Used
  BY UsedStays DEF Quits, MeetingInv, MeetingTypes
<1>1. /\ ctl' \in Control /\ ctl'.closed = ctl.closed /\ ctl'.active = ctl.active /\ ctl'.processing = ctl.processing
      /\ ctl'.retry = ctl.retry /\ ctl'.quit /\ UNCHANGED <<ses, disk, index, sent, retry, notice, title, used>>
  BY <1>0 DEF Quits, Control, archive, person
<1>2. \A m \in Meetings : ~ Busy(m) BY <1>0 DEF Quits, MeetingInv, SessionInv, OwnerInv
<1>3. ControlInv' BY <1>0, <1>1 DEF ControlInv
<1>4. RetryInv' BY <1>0, <1>1 DEF RetryInv, Indexed
<1>5. QED BY <1>0, <1>1, <1>2, <1>3, <1>4, ControllerRests DEF MeetingTypes

LEMMA ProgramIsKilled ==
    ASSUME MeetingInv, Killed
    PROVE  MeetingInv'
<1>0. MeetingTypes /\ ControlInv /\ used \in Used BY UsedStays DEF MeetingInv
<1>1. /\ ctl' \in Control /\ ctl'.closed /\ ctl'.quit /\ ctl'.active = 0 /\ ctl'.retry = 0
      /\ UNCHANGED <<index, sent, notice, title>>
  BY DEF Killed, Control, Idle, person
<1>2. used' \in Used /\ used'.kills > 0
  <2>1. used.kills \in Nat BY <1>0 DEF Used
  <2>2. used' = [used EXCEPT !.kills = used.kills + 1] BY DEF Killed, Use
  <2>3. QED BY <1>0, <2>1, <2>2 DEF Used
<1>3. /\ retry' \in [at : {"no", "queued", "sending", "over"}, row : [id : Nat, done : BOOLEAN, title : Nat], cut : BOOLEAN]
      /\ retry'.at = "no"
  BY DEF Killed, NoRetry
<1>4. ASSUME NEW m \in Meetings
      PROVE  /\ ses'[m] \in Session /\ ses'[m].private = ses[m].private /\ ses'[m].kept = FALSE /\ ses'[m].cut = FALSE
             /\ ses'[m].start = "seen" /\ ses'[m].phase = "preparing" /\ ses'[m].recorder = "new" /\ ses'[m].lock = "free"
             /\ ses'[m].finish = "no" /\ ses'[m].close = "no" /\ disk'[m] = (IF ses[m].private THEN "none" ELSE disk[m])
  <2>1. ses[m].private \in BOOLEAN BY <1>0 DEF MeetingTypes, Session
  <2>2. ses'[m] = [NoSession EXCEPT !.start = "seen", !.private = ses[m].private] BY DEF Killed
  <2>3. QED BY <2>1, <2>2 DEF Killed, NoSession, Session
<1>5. ses' \in [Meetings -> Session] /\ disk' \in [Meetings -> Audio]
  <2>1. ses' = [m \in Meetings |-> ses'[m]] /\ disk' = [m \in Meetings |-> disk'[m]] BY DEF Killed
  <2>2. \A m \in Meetings : disk'[m] \in Audio BY <1>0, <1>4 DEF MeetingTypes, Audio
  <2>3. QED BY <1>4, <2>1, <2>2
<1>6. MeetingTypes' BY <1>0, <1>1, <1>2, <1>3, <1>5 DEF MeetingTypes, Used, Audio
<1>7. ControlInv' BY <1>1 DEF ControlInv
<1>8. RetryInv' BY <1>1, <1>3 DEF RetryInv
<1>9. ASSUME NEW m \in Meetings PROVE SessionInv(m)'
  <2>0. SessionInv(m) /\ m # 0 BY MeetingAssumption DEF MeetingInv, MeetingAssumption
  <2>1. Gone(m)' BY <1>1, <1>2, <1>4 DEF Gone
  <2>2. TasksInv(m)' BY <1>4 DEF TasksInv
  <2>3. AudioInv(m)' BY <2>0, <2>1, <1>1, <1>4 DEF SessionInv, AudioInv, Indexed
  <2>4. NoticeInv(m)' BY <2>0, <2>1, <1>1, <1>4 DEF SessionInv, NoticeInv, Indexed
  <2>5. OwnerInv(m)' BY <2>0, <1>1, <1>4 DEF OwnerInv, Busy
  <2>6. QED BY <2>2, <2>3, <2>4, <2>5 DEF SessionInv
<1>10. QED BY <1>6, <1>7, <1>8, <1>9 DEF MeetingInv

-----------------------------------------------------------------------------
(* The theorems.                                                           *)

LEMMA MeetingBegins == MeetingInit => MeetingInv
<1> SUFFICES ASSUME MeetingInit PROVE MeetingInv OBVIOUS
<1>1. ctl \in Control /\ ctl.closed = FALSE /\ ctl.quit = FALSE /\ ctl.active = 0 /\ ctl.retry = 0 BY DEF MeetingInit, Idle, Control
<1>2. /\ retry \in [at : {"no", "queued", "sending", "over"}, row : [id : Nat, done : BOOLEAN, title : Nat], cut : BOOLEAN]
      /\ retry.at = "no"
  BY DEF MeetingInit, NoRetry
<1>3. index = <<>> /\ index \in Seq(Row) /\ Len(index) = 0 /\ DOMAIN index = {} BY DEF MeetingInit
<1>4. used \in Used /\ used.kills = 0 BY DEF MeetingInit, Used
<1>5. NoSession \in Session BY DEF NoSession, Session
<1>6. MeetingTypes
  <2>1. Len(index) <= MaxMeetings /\ Apart(index) BY <1>3, MeetingAssumption DEF MeetingAssumption, Apart
  <2>2. QED BY <1>1, <1>2, <1>3, <1>4, <1>5, <2>1 DEF MeetingInit, MeetingTypes, Used
<1>7. ControlInv /\ RetryInv BY <1>1, <1>2, <1>4 DEF ControlInv, RetryInv
<1>8. ASSUME NEW m \in Meetings PROVE SessionInv(m)
  <2>1. ses[m] = NoSession /\ disk[m] = "none" /\ notice[m] = "nothing" /\ sent = {} /\ ~ Indexed(m) /\ m # 0
    BY <1>3, MeetingAssumption DEF MeetingInit, Indexed, Kept, MeetingAssumption
  <2>2. TasksInv(m) BY <2>1 DEF TasksInv, NoSession
  <2>3. AudioInv(m) BY <2>1 DEF AudioInv, NoSession
  <2>4. NoticeInv(m) BY <2>1 DEF NoticeInv, NoSession
  <2>5. OwnerInv(m) BY <1>1, <2>1 DEF OwnerInv, Busy, NoSession
  <2>6. QED BY <2>2, <2>3, <2>4, <2>5 DEF SessionInv
<1>9. QED BY <1>6, <1>7, <1>8 DEF MeetingInv

LEMMA MeetingSteps == MeetingInv /\ [MeetingNext]_meetingVars => MeetingInv'
<1> SUFFICES ASSUME MeetingInv, [MeetingNext]_meetingVars PROVE MeetingInv' OBVIOUS
<1>1. CASE TogglesOn \/ PlaybackEnds \/ TogglesWaiting
  <2>1. ASSUME NEW m \in New, NEW private \in BOOLEAN, Starts(m, private), TogglesOn \/ PlaybackEnds,
               ~ ctl.closed, ctl.active = 0, ctl.retry = 0
        PROVE  MeetingInv'
    BY <2>1, SessionStarts
  <2>2. ASSUME NEW w \in BOOLEAN, ctl' = [ctl EXCEPT !.waiting = w], UNCHANGED <<ses, archive, retry, person, used>> PROVE MeetingInv'
    BY <2>2, Waits
  <2>3. CASE TogglesOn BY <2>1, <2>2, <2>3 DEF TogglesOn, Free
  <2>4. CASE PlaybackEnds BY <2>1, <2>2, <2>4 DEF PlaybackEnds
  <2>5. CASE TogglesWaiting BY <2>2, <2>5 DEF TogglesWaiting
  <2>6. QED BY <1>1, <2>3, <2>4, <2>5
<1>2. CASE StopMeeting \/ Cancel \/ Shutdown \/ Quits \/ Killed
  BY <1>2, StopBegins, CancelBegins, ShutdownBegins, QuitEnds, ProgramIsKilled
<1>3. CASE RetryReads \/ RetrySeen \/ \E r \in Rows : Retry(r)
  BY <1>3, RetrySteps
<1>4. CASE RetryReturns \/ \E m \in Meetings : Rename(m) \/ Delete(m)
  BY <1>4, ArchiveSteps
<1>5. ASSUME NEW m \in Meetings, StartSeen(m) \/ FinishSeen(m) \/ CloseSeen(m) PROVE MeetingInv'
  BY <1>5, StartIsSeen, FinishIsSeen, CloseIsSeen
<1>6. ASSUME NEW m \in Meetings, StartLocks(m) \/ StartOpens(m) \/ StartEnds(m) \/ CloseRuns(m) PROVE MeetingInv'
  BY <1>6, StartTakesLock, StartOpensRecorder, StartIsOver, CloseEnds
<1>7. ASSUME NEW m \in Meetings, FinishLocks(m) \/ FinishStops(m) \/ FinishSends(m) \/ FinishReturns(m) \/ FinishCut(m)
      PROVE  MeetingInv'
  BY <1>7, FinishTakesLock, FinishStopsRecorder, FinishUploads, FinishSaves, FinishIsCut
<1>8. CASE UNCHANGED meetingVars
  <2>1. UNCHANGED <<ses, disk, index, sent, notice, title, used, ctl, retry>> BY <1>8 DEF meetingVars
  <2>2. MeetingTypes' /\ ControlInv' /\ RetryInv'
    BY <2>1 DEF MeetingInv, MeetingTypes, ControlInv, RetryInv, Indexed
  <2>3. \A m \in Meetings : SessionInv(m)' BY <2>1, SessionRests DEF MeetingInv, Indexed
  <2>4. QED BY <2>2, <2>3 DEF MeetingInv
<1>9. QED BY <1>1, <1>2, <1>3, <1>4, <1>5, <1>6, <1>7, <1>8 DEF MeetingNext

\* What every reachable state of the meetings keeps: how the tasks of each session, its audio, its row and
\* what was told of it fit, however they took the lock and whatever failed, was retried, cut or killed.
THEOREM MeetingInvariant == MeetingSpec => []MeetingInv
<1>1. QED BY MeetingBegins, MeetingSteps, PTL DEF MeetingSpec

\* Types, and the archive that never holds more than its limit (mluva-core/src/meeting.rs).
THEOREM MeetingTypeCorrect == MeetingSpec => []MeetingTypeOK
<1>1. MeetingInv => MeetingTypeOK
  BY DEF MeetingInv, MeetingTypes, MeetingTypeOK, Control, Row
<1>2. QED BY <1>1, MeetingInvariant, PTL

\* The audio of a meeting is kept or accounted for: a row has its recording, what was called cancelled was neither
\* uploaded nor kept, Incognito leaves nothing, audio that stays is in the archive or was named; and when the
\* program has quit, no session runs (mluva-workflows/src/meeting_session.rs, mluva-core/src/meeting.rs).
THEOREM MeetingAudioStands == MeetingSpec => []MeetingsStand
<1>1. MeetingInv => MeetingsStand
  <2> SUFFICES ASSUME MeetingInv PROVE MeetingsStand OBVIOUS
  <2>0. MeetingTypes /\ \A m \in Meetings : RowOf(m) # {} <=> Indexed(m) BY RowThere DEF MeetingInv
  <2>1. \A r \in Rows : disk[r.id] = "audio" BY <2>0, RowThere DEF MeetingInv, SessionInv, AudioInv
  <2>2. \A m \in Meetings : notice[m] = "cancelled" => m \notin sent /\ disk[m] = "none" /\ RowOf(m) = {}
    BY <2>0 DEF MeetingInv, SessionInv, NoticeInv
  <2>3. ASSUME NEW m \in Meetings, AtRest(m), ses[m].phase # "recording"
        PROVE  ses[m].recorder \in {"new", "closed"}
    <3>1. ses[m] \in Session /\ SessionInv(m) BY <2>0 DEF MeetingInv, MeetingTypes
    <3>2. ses[m].lock = "free" BY <2>3 DEF AtRest
    <3>3. QED BY <3>1, <3>2, <2>3 DEF SessionInv, TasksInv, Session
  <2>4. ASSUME NEW m \in Meetings, AtRest(m), ses[m].private, ses[m].phase \notin {"preparing", "recording"}
        PROVE  disk[m] = "none" /\ RowOf(m) = {}
    <3>1. SessionInv(m) /\ ~ Gone(m) BY <2>4 DEF MeetingInv, Gone
    <3>2. ses[m].recorder \in {"new", "closed"} BY <2>3, <2>4
    <3>3. QED BY <2>0, <2>4, <3>1, <3>2 DEF SessionInv, AudioInv
  <2>5. ASSUME NEW m \in Meetings, used.kills = 0, AtRest(m), ses[m].phase # "recording", disk[m] # "none", RowOf(m) = {}
        PROVE  ses[m].finish = "kept" \/ notice[m] = "kept" \/ ctl.closed
    <3>1. SessionInv(m) /\ ~ Gone(m) BY <2>5 DEF MeetingInv, Gone
    <3>2. ses[m].recorder \in {"new", "closed"} BY <2>3, <2>5
    <3>3. QED BY <2>0, <2>5, <3>1, <3>2 DEF SessionInv, AudioInv
  <2>6. AudioIsAccounted BY <2>1, <2>2, <2>4, <2>5 DEF AudioIsAccounted
  <2>7. QuitIsQuiet
    <3> SUFFICES ASSUME ctl.quit, NEW m \in Meetings PROVE ses[m].lock = "free" /\ ses[m].recorder # "recording"
      BY DEF QuitIsQuiet
    <3>1. ~ Busy(m) /\ SessionInv(m) /\ ses[m] \in Session
      BY DEF MeetingInv, MeetingTypes, SessionInv, OwnerInv, ControlInv
    <3>2. ses[m].lock = "free" /\ ses[m].phase # "recording" BY <3>1 DEF Busy
    <3>3. QED BY <3>1, <3>2 DEF SessionInv, TasksInv, Session
  <2>8. QED BY <2>6, <2>7 DEF MeetingsStand
<1>2. QED BY <1>1, MeetingInvariant, PTL
=============================================================================
