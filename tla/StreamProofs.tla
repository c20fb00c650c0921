---------------------------- MODULE StreamProofs ----------------------------
(***************************************************************************)
(* What holds of what is streamed: of live words, for any recordings and   *)
(* receivers, broken connections and dead invocations; and of the sound of *)
(* a phone, for any chunks, lost answers and crashes, and any bounds of    *)
(* its queue, its file and its watches.                                    *)
(***************************************************************************)
EXTENDS LiveText, PhoneStream, TLAPS, SequenceTheorems

-----------------------------------------------------------------------------
(* Live words: a session is stored in order, what a browser shows without  *)
(* a warning is the beginning of what was said, and an acknowledged        *)
(* message is a stored one.                                                *)

MsgPhases == {"started", "partial", "segment", "stopped"}
Msg == [id : Sessions, seq : Nat, phase : MsgPhases, text : Nat, targets : SUBSET Receivers]
Step == [m : Msg, conn : Nat, stage : {"arrived", "notify"}]
Commits == [m : Msg, conn : Nat, stage : {"commit"}, prev : Msg \cup {None}]
View == [seq : Nat, text : Seq(Nat), partial : Nat, missing : BOOLEAN, known : BOOLEAN]

SenderTypes ==
    /\ live \in [id : Sessions, seq : Nat] \cup {None}
    /\ said \in [Sessions -> 0..(MaxSaid + 1)]
    /\ pipe \in [Chains -> Seq(Msg)] /\ pending \in [Chains -> Msg \cup {None}]
    /\ up \in BOOLEAN /\ conn \in Nat /\ wire \in {"on", "closing", "off"}
    /\ failed \in Sessions \cup {0} /\ signed \in BOOLEAN /\ private \in BOOLEAN
    /\ selected \subseteq Receivers /\ taken \subseteq Msg /\ asides \in Nat
    /\ Native => Len(pipe[0]) <= Capacity
RouteTypes ==
    /\ removed \subseteq Receivers
    /\ table \in [Sessions -> Msg \cup {None}] /\ log \in [Sessions -> Seq(Msg)]
    /\ settled \in [Sessions -> Seq(Seq(Nat))]
    /\ running \subseteq Step \cup Commits
    /\ answers \subseteq [kind : {"ack", "forbidden", "refused"}, m : Msg]
ReceiverTypes ==
    /\ inbox \in [Receivers -> SUBSET Msg] /\ online \in [Receivers -> BOOLEAN]
    /\ shows \in [Receivers -> [Sessions -> View]]

\* What is stored of a session: numbered from 0, "started" first, and what was settled after each message.
LogInv(s) ==
    /\ Len(settled[s]) = Len(log[s])
    /\ table[s] = IF log[s] = <<>> THEN None ELSE log[s][Len(log[s])]
    /\ \A i \in 1..Len(log[s]) :
          log[s][i].id = s /\ log[s][i].seq = i - 1 /\ (log[s][i].phase = "started" <=> i = 1)
    /\ log[s] # <<>> => settled[s][1] = <<>>
    /\ \A i \in 1..Len(log[s]) : i > 1 =>
          settled[s][i] = IF log[s][i].phase = "segment" THEN Append(settled[s][i - 1], log[s][i].text)
                          ELSE settled[s][i - 1]
    /\ \A i \in 1..Len(log[s]) : IsPrefix(settled[s][i], WordsNow(s))

Stored(m) == m.seq + 1 \in 1..Len(log[m.id]) /\ log[m.id][m.seq + 1] = m

\* What invocations tell the receivers, and what is on its way to them, is stored.
StoredInv ==
    /\ \A v \in running : v.stage = "notify" => Stored(v.m)
    /\ \A r \in Receivers : \A m \in inbox[r] : Stored(m)
CommitInv ==
    \A v \in running : v.stage = "commit" => Follows(v.m, v.prev) /\ (v.prev # None => v.prev.id = v.m.id)

ViewInv(r, s) ==
    LET w == shows[r][s] IN
    /\ w.known => /\ w.seq + 1 \in 1..Len(log[s])
                  /\ r \in Browsers /\ ~ w.missing => w.text = settled[s][w.seq + 1]
    /\ ~ w.known => w.text = <<>>

\* The messages that were sent: each is the only one of its session and number, unless Incognito came between.
SentBefore(m) ==
    \/ \E c \in Chains : \E i \in 1..Len(pipe[c]) : pipe[c][i] = m
    \/ \E c \in Chains : pending[c] = m
    \/ \E v \in running : v.m = m
    \/ \E s \in Sessions : \E i \in 1..Len(log[s]) : log[s][i] = m
KnownMsg == {m \in Msg : SentBefore(m)}
Numbered(m) == IF Current(m.id) THEN m.seq < live.seq ELSE Ended(m.id) \/ ~ signed
UniqueInv ==
    /\ \A m \in KnownMsg : Numbered(m)
    /\ \A m, n \in KnownMsg : m.id = n.id /\ m.seq = n.seq => m = n
    /\ \A a \in answers : a.kind = "ack" => Stored(a.m)
    /\ \A m \in taken : Stored(m)

LiveInv ==
    /\ SenderTypes /\ RouteTypes /\ ReceiverTypes
    /\ \A s \in Sessions : LogInv(s)
    /\ StoredInv /\ CommitInv
    /\ \A r \in Receivers, s \in Sessions : ViewInv(r, s)
    /\ asides = 0 => UniqueInv

-----------------------------------------------------------------------------
(* Sequences.                                                               *)

\* A beginning, item by item.
LEMMA PrefixByItems ==
    ASSUME NEW a \in Seq(Nat), NEW b \in Seq(Nat)
    PROVE  IsPrefix(a, b) <=> Len(a) <= Len(b) /\ \A i \in 1..Len(a) : a[i] = b[i]
<1>1. CASE Len(a) <= Len(b)
  <2>1. /\ SubSeq(a, 1, Len(a)) \in Seq(Nat) /\ Len(SubSeq(a, 1, Len(a))) = Len(a)
        /\ \A i \in 1..Len(a) : SubSeq(a, 1, Len(a))[i] = a[i]
    BY SubSeqFull
  <2>2. /\ SubSeq(b, 1, Len(a)) \in Seq(Nat) /\ Len(SubSeq(b, 1, Len(a))) = Len(a)
        /\ \A i \in 1..Len(a) : SubSeq(b, 1, Len(a))[i] = b[i]
    <3>1. Len(a) \in Int /\ 1 \in Int /\ \A i \in 1..Len(a) : b[i] \in Nat BY <1>1
    <3>2. QED BY <3>1, SubSeqProperties
  <2>3. (\A i \in 1..Len(a) : a[i] = b[i]) <=> SubSeq(a, 1, Len(a)) = SubSeq(b, 1, Len(a))
    <3>1. ASSUME \A i \in 1..Len(a) : a[i] = b[i] PROVE SubSeq(a, 1, Len(a)) = SubSeq(b, 1, Len(a))
      <4> HIDE DEF IsPrefix
      <4>1. \A i \in 1..Len(SubSeq(a, 1, Len(a))) : SubSeq(a, 1, Len(a))[i] = SubSeq(b, 1, Len(a))[i]
        BY <2>1, <2>2, <3>1
      <4>2. QED BY <2>1, <2>2, <4>1, SeqEqual
    <3>2. QED BY <2>1, <2>2, <3>1
  <2>4. QED BY <1>1, <2>3 DEF IsPrefix
<1>2. QED BY <1>1 DEF IsPrefix

\* The beginning of a session's words stays one when words are appended.
LEMMA PrefixGrows ==
    ASSUME NEW a \in Seq(Nat), NEW b \in Seq(Nat), NEW t \in Nat, IsPrefix(a, b)
    PROVE  IsPrefix(a, Append(b, t))
<1>1. Len(a) <= Len(b) /\ \A i \in 1..Len(a) : a[i] = b[i] BY PrefixByItems
<1>2. Append(b, t) \in Seq(Nat) /\ Len(Append(b, t)) = Len(b) + 1 /\ \A i \in 1..Len(b) : Append(b, t)[i] = b[i]
  BY AppendProperties
<1> DEFINE c == Append(b, t)
<1> HIDE DEF c
<1>3. Len(a) \in Nat /\ Len(b) \in Nat /\ c \in Seq(Nat) BY <1>2 DEF c
<1>4. Len(a) <= Len(c) /\ \A i \in 1..Len(a) : a[i] = c[i] BY <1>1, <1>2, <1>3 DEF c
<1>5. IsPrefix(a, c) BY <1>3, <1>4, PrefixByItems
<1>6. QED BY <1>5 DEF c

LEMMA PrefixOfItself == ASSUME NEW a \in Seq(Nat) PROVE IsPrefix(a, a) /\ IsPrefix(<<>>, a)
<1>1. <<>> \in Seq(Nat) /\ Len(<<>>) = 0 /\ Len(a) \in Nat BY EmptySeq
<1> DEFINE e == <<>>
<1> HIDE DEF e
<1>2. e \in Seq(Nat) /\ Len(e) = 0 BY <1>1 DEF e
<1>3. IsPrefix(a, a) BY <1>1, PrefixByItems
<1>4. IsPrefix(e, a)
  <2>1. Len(e) <= Len(a) /\ \A i \in 1..Len(e) : e[i] = a[i] BY <1>1, <1>2
  <2>2. QED BY <1>1, <1>2, <2>1, PrefixByItems
<1>5. QED BY <1>3, <1>4 DEF e

-----------------------------------------------------------------------------
(* What is sent.                                                            *)

\* Consecutive messages of one session.
Run(id, from, msgs) ==
    /\ msgs \in Seq(Msg)
    /\ \A k \in 1..Len(msgs) : msgs[k].id = id /\ msgs[k].seq = from + k - 1

LEMMA MessageIs ==
    ASSUME NEW id \in Sessions, NEW seq \in Nat, NEW phase \in MsgPhases, NEW text \in Nat, selected \subseteq Receivers
    PROVE  /\ Message(id, seq, phase, text) \in Msg /\ Message(id, seq, phase, text).id = id
           /\ Message(id, seq, phase, text).seq = seq
BY DEF Message, Msg

LEMMA WithStartIs ==
    ASSUME NEW id \in Sessions, NEW seq \in Nat, selected \subseteq Receivers, NEW phases \in Seq(MsgPhases \X Nat)
    PROVE  Run(id, seq, WithStart(id, seq, phases)) /\ Len(WithStart(id, seq, phases)) >= Len(phases)
<1> DEFINE lead == IF seq = 0 THEN <<Message(id, 0, "started", 0)>> ELSE <<>>
           M(i) == Message(id, seq + Len(lead) + i - 1, phases[i][1], phases[i][2])
           rest == [i \in 1..Len(phases) |-> M(i)]
<1>1. lead \in Seq(Msg) /\ Len(lead) \in {0, 1} /\ (seq # 0 => Len(lead) = 0) /\ (seq = 0 => lead[1].seq = 0 /\ lead[1].id = id)
  <2>1. Message(id, 0, "started", 0) \in Msg /\ Message(id, 0, "started", 0).id = id
        /\ Message(id, 0, "started", 0).seq = 0 BY MessageIs DEF MsgPhases
  <2>2. QED BY <2>1
<1>2. Len(phases) \in Nat /\ \A i \in 1..Len(phases) : phases[i][1] \in MsgPhases /\ phases[i][2] \in Nat
  <2>1. \A i \in 1..Len(phases) : phases[i] \in MsgPhases \X Nat BY ElementOfSeq
  <2>2. QED BY <2>1
<1>3. \A i \in 1..Len(phases) : M(i) \in Msg /\ M(i).id = id /\ M(i).seq = seq + Len(lead) + i - 1
  <2> TAKE i \in 1..Len(phases)
  <2> HIDE DEF lead
  <2>1. seq + Len(lead) + i - 1 \in Nat BY <1>1, <1>2
  <2>2. QED BY <2>1, <1>2, MessageIs
<1>4. rest \in Seq(Msg) /\ Len(rest) = Len(phases) /\ \A i \in 1..Len(phases) : rest[i] = M(i)
  <2> HIDE DEF M
  <2>1. QED BY <1>2, <1>3, IsASeq
<1> DEFINE all == lead \o rest
<1>5. all \in Seq(Msg) /\ Len(all) = Len(lead) + Len(rest)
      /\ \A i \in 1..(Len(lead) + Len(rest)) : all[i] = IF i <= Len(lead) THEN lead[i] ELSE rest[i - Len(lead)]
  <2> HIDE DEF lead, rest
  <2>1. lead \in Seq(Msg) /\ rest \in Seq(Msg) BY <1>1, <1>4
  <2>2. QED BY <2>1, ConcatProperties
<1>6. \A k \in 1..Len(all) : all[k].id = id /\ all[k].seq = seq + k - 1
  <2> HIDE DEF lead, rest, M, all
  <2> TAKE k \in 1..Len(all)
  <2>1. CASE k <= Len(lead) BY <2>1, <1>1, <1>5
  <2>2. CASE k > Len(lead)
    <3> DEFINE l == Len(lead)
               n == Len(phases)
               j == k - l
    <3> HIDE DEF l, n, j
    <3>1. l \in Nat /\ n \in Nat /\ k \in 1..(l + n) /\ k > l BY <2>2, <1>1, <1>2, <1>4, <1>5 DEF l, n
    <3>2. j \in 1..n /\ j = k - l /\ ~ (k <= l) BY <3>1 DEF j
    <3>3. all[k] = rest[j] BY <3>1, <3>2, <1>4, <1>5 DEF l, n
    <3>4. all[k] = M(j) BY <3>2, <3>3, <1>4 DEF n
    <3>5. M(j).id = id /\ M(j).seq = seq + l + j - 1 BY <3>2, <1>3 DEF l, n
    <3>6. QED BY <3>1, <3>2, <3>4, <3>5
  <2>3. QED BY <2>1, <2>2, <1>1, <1>5
<1>7. WithStart(id, seq, phases) = all BY DEF WithStart
<1> HIDE DEF lead, rest, all
<1>8. QED BY <1>1, <1>2, <1>4, <1>5, <1>6, <1>7 DEF Run

\* The channel takes the first messages, and never more than it has room for.
LEMMA FitsIs ==
    ASSUME SenderTypes, LiveAssumption, NEW id, NEW from \in Nat, NEW msgs, Run(id, from, msgs)
    PROVE  /\ Run(id, from, Fits(msgs)) /\ Len(Fits(msgs)) <= Len(msgs)
           /\ Native => Len(pipe[0]) + Len(Fits(msgs)) <= Capacity
<1>1. CASE ~ Native BY <1>1 DEF Fits
<1>2. CASE Native
  <2> DEFINE n == IF Capacity - Len(pipe[0]) < Len(msgs) THEN Capacity - Len(pipe[0]) ELSE Len(msgs)
  <2>1. msgs \in Seq(Msg) /\ Len(msgs) \in Nat /\ Capacity \in Nat /\ Len(pipe[0]) \in Nat /\ Len(pipe[0]) <= Capacity
    BY <1>2 DEF SenderTypes, Run, LiveAssumption, Chains
  <2>2. n \in Nat /\ n <= Len(msgs) /\ Len(pipe[0]) + n <= Capacity
    <3> DEFINE p == Len(pipe[0])
               l == Len(msgs)
    <3> HIDE DEF n, p, l
    <3>1. p \in Nat /\ l \in Nat /\ Capacity \in Nat /\ p <= Capacity BY <2>1 DEF p, l
    <3>2. n = IF Capacity - p < l THEN Capacity - p ELSE l BY DEF n, p, l
    <3>3. n \in Nat /\ n <= l /\ p + n <= Capacity BY <3>1, <3>2
    <3>4. QED BY <3>3 DEF p, l
  <2> HIDE DEF n
  <2>3. \A i \in 1..n : msgs[i] \in Msg BY <2>1, <2>2, ElementOfSeq
  <2>4. /\ SubSeq(msgs, 1, n) \in Seq(Msg) /\ Len(SubSeq(msgs, 1, n)) = n
        /\ \A i \in 1..n : SubSeq(msgs, 1, n)[i] = msgs[i]
    <3>1. 1 \in Int /\ n \in Int BY <2>2
    <3>2. QED BY <2>2, <2>3, <3>1, SubSeqProperties
  <2>5. Fits(msgs) = SubSeq(msgs, 1, n) BY <1>2 DEF Fits, n
  <2>6. \A k \in 1..n : k \in 1..Len(msgs) BY <2>1, <2>2
  <2>7. Run(id, from, SubSeq(msgs, 1, n)) BY <2>1, <2>2, <2>4, <2>6 DEF Run
  <2>8. QED BY <2>2, <2>4, <2>5, <2>7
<1>3. QED BY <1>1, <1>2

-----------------------------------------------------------------------------
(* What a step leaves alone.                                                *)

Arrived == {w \in Step : w.stage = "arrived"}

\* The sender and the wire store nothing and tell nobody: they only start invocations.
LEMMA StoreRests ==
    ASSUME LiveInv, UNCHANGED <<table, log, settled, inbox, shows>>, running' \subseteq running \cup Arrived
    PROVE  /\ \A s \in Sessions : LogInv(s)'
           /\ StoredInv' /\ CommitInv'
           /\ \A r \in Receivers, s \in Sessions : ViewInv(r, s)'
<1>1. \A s \in Sessions : LogInv(s)' BY DEF LiveInv, LogInv, WordsNow
<1>2. \A m : Stored(m)' <=> Stored(m) BY DEF Stored
<1>3. StoredInv' BY <1>2 DEF LiveInv, StoredInv, Arrived, Step
<1>4. CommitInv' BY DEF LiveInv, CommitInv, Arrived, Step, Follows
<1>5. \A r \in Receivers, s \in Sessions : ViewInv(r, s)' BY DEF LiveInv, ViewInv
<1>6. QED BY <1>1, <1>3, <1>4, <1>5

\* Nothing new is sent, and what was acknowledged is stored.
LEMMA NothingSent ==
    ASSUME UniqueInv, log' = log, KnownMsg' \subseteq KnownMsg,
           \A m \in KnownMsg : Numbered(m) => Numbered(m)',
           \A a \in answers' : a.kind = "ack" => a \in answers \/ Stored(a.m),
           \A m \in taken' : m \in taken \/ Stored(m)
    PROVE  UniqueInv'
<1>1. \A m : Stored(m)' <=> Stored(m) BY DEF Stored
<1>2. QED BY <1>1 DEF UniqueInv

\* New messages of one session, with numbers nobody had.
LEMMA NewSent ==
    ASSUME UniqueInv, log' = log, answers' = answers, taken' = taken,
           NEW id, NEW from \in Nat, NEW msgs, Run(id, from, msgs),
           \A m \in KnownMsg' : m \in KnownMsg \/ \E k \in 1..Len(msgs) : m = msgs[k],
           \A m \in KnownMsg : m.id = id => m.seq < from,
           \A m \in KnownMsg : Numbered(m)',
           \A k \in 1..Len(msgs) : Numbered(msgs[k])'
    PROVE  UniqueInv'
<1>1. \A m : Stored(m)' <=> Stored(m) BY DEF Stored
<1>2. \A m \in KnownMsg : m.seq \in Nat BY DEF KnownMsg, Msg
<1>3. \A k \in 1..Len(msgs) : msgs[k].id = id /\ msgs[k].seq = from + k - 1 BY DEF Run
<1>4. \A m, n \in KnownMsg' : m.id = n.id /\ m.seq = n.seq => m = n
  <2> TAKE m, n \in KnownMsg'
  <2> HAVE m.id = n.id /\ m.seq = n.seq
  <2>1. CASE m \in KnownMsg /\ n \in KnownMsg BY <2>1 DEF UniqueInv
  <2>2. ASSUME m \in KnownMsg, n \notin KnownMsg PROVE FALSE BY <2>2, <1>2, <1>3
  <2>3. ASSUME m \notin KnownMsg, n \in KnownMsg PROVE FALSE BY <2>3, <1>2, <1>3
  <2>4. CASE m \notin KnownMsg /\ n \notin KnownMsg
    <3>1. PICK j \in 1..Len(msgs) : m = msgs[j] BY <2>4
    <3>2. PICK k \in 1..Len(msgs) : n = msgs[k] BY <2>4
    <3>3. from + j - 1 = from + k - 1 BY <3>1, <3>2, <1>3
    <3>4. j = k BY <3>3
    <3>5. QED BY <3>1, <3>2, <3>4
  <2>5. QED BY <2>1, <2>2, <2>3, <2>4
<1>5. \A m \in KnownMsg' : Numbered(m)' BY DEF UniqueInv
<1>6. QED BY <1>1, <1>4, <1>5 DEF UniqueInv

\* What a queue gets is all that is new in it.
LEMMA QueuedIs ==
    ASSUME SenderTypes, NEW id \in Sessions, NEW msgs \in Seq(Msg), Queued(id, msgs),
           Native => Len(pipe[0]) + Len(msgs) <= Capacity, LiveAssumption
    PROVE  /\ pipe' \in [Chains -> Seq(Msg)] /\ (Native => Len(pipe'[0]) <= Capacity)
           /\ \A c \in Chains : \A i \in 1..Len(pipe'[c]) :
                 (\E j \in 1..Len(pipe[c]) : pipe'[c][i] = pipe[c][j]) \/ \E k \in 1..Len(msgs) : pipe'[c][i] = msgs[k]
<1>1. Chain(id) \in Chains /\ pipe[Chain(id)] \in Seq(Msg) /\ (Native => Chain(id) = 0)
  BY DEF SenderTypes, Chain, Chains
<1> DEFINE old == pipe[Chain(id)]
           new == old \o msgs
<1>2. new \in Seq(Msg) /\ Len(new) = Len(old) + Len(msgs)
      /\ \A i \in 1..(Len(old) + Len(msgs)) : new[i] = IF i <= Len(old) THEN old[i] ELSE msgs[i - Len(old)]
  BY <1>1, ConcatProperties
<1>3. pipe' = [pipe EXCEPT ![Chain(id)] = new] BY DEF Queued
<1>4. \A i \in 1..Len(new) : (\E j \in 1..Len(old) : new[i] = old[j]) \/ \E k \in 1..Len(msgs) : new[i] = msgs[k]
  <2> HIDE DEF old, new
  <2> TAKE i \in 1..Len(new)
  <2>1. Len(old) \in Nat /\ Len(msgs) \in Nat BY <1>1 DEF old
  <2>2. CASE i <= Len(old) BY <1>2, <2>1, <2>2
  <2>3. CASE i > Len(old)
    <3> DEFINE l == Len(old)
               n == Len(msgs)
               k == i - l
    <3> HIDE DEF l, n, k
    <3>1. l \in Nat /\ n \in Nat /\ i \in 1..(l + n) /\ i > l BY <2>1, <2>3, <1>2 DEF l, n
    <3>2. k \in 1..n /\ k = i - l /\ ~ (i <= l) BY <3>1 DEF k
    <3>3. new[i] = msgs[k] BY <1>2, <3>1, <3>2 DEF l, n
    <3>4. QED BY <3>2, <3>3 DEF n
  <2>4. QED BY <2>1, <2>2, <2>3, <1>2
<1> HIDE DEF old, new
<1>5. pipe' \in [Chains -> Seq(Msg)] /\ pipe'[Chain(id)] = new /\ \A c \in Chains : c # Chain(id) => pipe'[c] = pipe[c]
  BY <1>1, <1>2, <1>3 DEF SenderTypes
<1>6. Native => Len(pipe'[0]) <= Capacity BY <1>1, <1>2, <1>5 DEF old
<1>7. \A c \in Chains : \A i \in 1..Len(pipe'[c]) :
         (\E j \in 1..Len(pipe[c]) : pipe'[c][i] = pipe[c][j]) \/ \E k \in 1..Len(msgs) : pipe'[c][i] = msgs[k]
  <2> TAKE c \in Chains
  <2>1. CASE c = Chain(id) BY <2>1, <1>4, <1>5 DEF old
  <2>2. CASE c # Chain(id) BY <2>2, <1>5
  <2>3. QED BY <2>1, <2>2
<1>8. QED BY <1>5, <1>6, <1>7

\* A session that may go on has no message yet at its position or beyond.
LEMMA PositionIs ==
    ASSUME LiveInv, LiveAssumption, NEW id \in Sessions, Sendable(id), signed
    PROVE  /\ Position(id) \in Nat
           /\ asides = 0 => \A m \in KnownMsg : m.id = id => m.seq < Position(id)
<1>1. id # 0 /\ 0 \notin Sessions BY DEF LiveAssumption
<1>2. Position(id) \in Nat BY <1>1 DEF Position, Current, LiveInv, SenderTypes, None
<1>3. ASSUME asides = 0, NEW m \in KnownMsg, m.id = id PROVE m.seq < Position(id)
  <2>1. Numbered(m) BY <1>3 DEF LiveInv, UniqueInv
  <2>2. QED BY <1>3, <2>1 DEF Numbered, Sendable, Position
<1>4. QED BY <1>2, <1>3

\* The sender says something of a session: new messages, and the position behind them.
LEMMA Speaks ==
    ASSUME LiveInv, LiveAssumption, NEW id \in Sessions, Sendable(id), signed,
           NEW msgs, Run(id, Position(id), msgs), Queued(id, msgs), Native => Len(pipe[0]) + Len(msgs) <= Capacity,
           UNCHANGED <<pending, running, log, answers, taken, signed, asides>>,
           \A s \in Sessions : Ended(s) => Ended(s)',
           \/ live' = [id |-> id, seq |-> Position(id) + Len(msgs)]
           \/ live' = None /\ Ended(id)'
    PROVE  /\ pipe' \in [Chains -> Seq(Msg)] /\ (Native => Len(pipe'[0]) <= Capacity)
           /\ live' \in [id : Sessions, seq : Nat] \cup {None}
           /\ asides' = 0 => UniqueInv'
<1>1. msgs \in Seq(Msg) /\ Len(msgs) \in Nat /\ Position(id) \in Nat /\ SenderTypes /\ 0 \notin Sessions
  BY PositionIs DEF Run, LiveInv, LiveAssumption
<1>2. /\ pipe' \in [Chains -> Seq(Msg)] /\ (Native => Len(pipe'[0]) <= Capacity)
      /\ \A c \in Chains : \A i \in 1..Len(pipe'[c]) :
            (\E j \in 1..Len(pipe[c]) : pipe'[c][i] = pipe[c][j]) \/ \E k \in 1..Len(msgs) : pipe'[c][i] = msgs[k]
  BY <1>1, QueuedIs
<1>3. ASSUME asides = 0 PROVE UniqueInv'
  <2>1. UniqueInv /\ \A m \in KnownMsg : m.id = id => m.seq < Position(id) BY <1>3, PositionIs DEF LiveInv
  <2>2. \A m \in KnownMsg' : m \in KnownMsg \/ \E k \in 1..Len(msgs) : m = msgs[k]
    <3> TAKE m \in KnownMsg'
    <3>1. m \in Msg /\ SentBefore(m)' BY DEF KnownMsg
    <3>2. CASE \E c \in Chains : \E i \in 1..Len(pipe'[c]) : pipe'[c][i] = m
      <4>1. PICK c \in Chains : \E i \in 1..Len(pipe'[c]) : pipe'[c][i] = m BY <3>2
      <4>2. PICK i \in 1..Len(pipe'[c]) : pipe'[c][i] = m BY <4>1
      <4>3. CASE \E j \in 1..Len(pipe[c]) : pipe'[c][i] = pipe[c][j]
        <5>1. SentBefore(m) BY <4>2, <4>3 DEF SentBefore
        <5>2. QED BY <3>1, <5>1 DEF KnownMsg
      <4>4. CASE \E k \in 1..Len(msgs) : pipe'[c][i] = msgs[k] BY <4>2, <4>4
      <4>5. QED BY <4>3, <4>4, <1>2
    <3>3. CASE ~ \E c \in Chains : \E i \in 1..Len(pipe'[c]) : pipe'[c][i] = m
      BY <3>1, <3>3 DEF KnownMsg, SentBefore, Chains
    <3>4. QED BY <3>2, <3>3
  <2>3. \A m \in KnownMsg : m.id \in Sessions /\ m.seq \in Nat BY DEF KnownMsg, Msg
  <2>4. \A m \in KnownMsg : Numbered(m)'
    <3> TAKE m \in KnownMsg
    <3>1. Numbered(m) BY <2>1 DEF UniqueInv
    <3>2. CASE m.id = id
      <4>1. m.seq < Position(id) + Len(msgs) BY <3>2, <2>1, <2>3, <1>1
      <4>2. QED BY <4>1, <3>2, <1>1 DEF Numbered, Current, None
    <3>3. CASE m.id # id
      <4>1. Ended(m.id) BY <1>1, <3>1, <3>3, <2>3 DEF Numbered, Current, Sendable, None
      <4>2. Ended(m.id)' BY <4>1, <2>3
      <4>3. ~ Current(m.id)' BY <3>3, <2>3, <1>1 DEF Current, None
      <4>4. QED BY <4>2, <4>3 DEF Numbered
    <3>4. QED BY <3>2, <3>3
  <2>5. \A k \in 1..Len(msgs) : Numbered(msgs[k])'
    <3> TAKE k \in 1..Len(msgs)
    <3>1. msgs[k].id = id /\ msgs[k].seq = Position(id) + k - 1 BY DEF Run
    <3>2. msgs[k].seq < Position(id) + Len(msgs) BY <3>1, <1>1
    <3>3. QED BY <3>1, <3>2, <1>1 DEF Numbered, Current, None
  <2>6. QED BY <1>1, <2>1, <2>2, <2>4, <2>5, NewSent
<1>4. live' \in [id : Sessions, seq : Nat] \cup {None} BY <1>1
<1>5. QED BY <1>2, <1>3, <1>4

-----------------------------------------------------------------------------
(* The sender.                                                              *)

LEMMA PreviewKeeps ==
    ASSUME LiveInv, LiveAssumption, NEW id \in Sessions, Preview(id)
    PROVE  LiveInv'
<1> DEFINE phases == << <<"partial", said[id] + 1>> >>
           msgs == WithStart(id, Position(id), phases)
           sent == Fits(msgs)
<1>0. /\ SenderTypes /\ RouteTypes /\ ReceiverTypes /\ selected \subseteq Receivers /\ said[id] \in Nat /\ signed
      /\ Sendable(id)
  BY DEF LiveInv, SenderTypes, LiveAssumption, Preview, Sends
<1>1. Position(id) \in Nat BY <1>0, PositionIs
<1>2. phases \in Seq(MsgPhases \X Nat)
  <2>1. <<"partial", said[id] + 1>> \in MsgPhases \X Nat BY <1>0 DEF MsgPhases
  <2>2. QED BY <2>1
<1> HIDE DEF phases
<1>3. Run(id, Position(id), msgs) BY <1>0, <1>1, <1>2, WithStartIs
<1> HIDE DEF msgs
<1>4. Run(id, Position(id), sent) /\ (Native => Len(pipe[0]) + Len(sent) <= Capacity) BY <1>0, <1>1, <1>3, FitsIs
<1>5. /\ Queued(id, sent) /\ live' = [id |-> id, seq |-> Position(id) + Len(sent)]
      /\ UNCHANGED <<said, pending, up, conn, wire, failed, signed, private, selected, taken, asides, route, receiver>>
  BY DEF Preview, msgs, phases
<1> HIDE DEF sent
<1>6. UNCHANGED <<removed, table, log, settled, running, answers, deaths, inbox, online, shows>> BY <1>5 DEF route, receiver
<1>7. \A s \in Sessions : Ended(s) => Ended(s)' BY <1>5 DEF Ended
<1>8. /\ pipe' \in [Chains -> Seq(Msg)] /\ (Native => Len(pipe'[0]) <= Capacity)
      /\ live' \in [id : Sessions, seq : Nat] \cup {None} /\ (asides' = 0 => UniqueInv')
  BY <1>0, <1>1, <1>4, <1>5, <1>6, <1>7, Speaks
<1>9. said' \in [Sessions -> 0..(MaxSaid + 1)] BY <1>0, <1>5 DEF SenderTypes
<1>10. SenderTypes' /\ RouteTypes' /\ ReceiverTypes' BY <1>0, <1>5, <1>6, <1>8, <1>9 DEF SenderTypes, RouteTypes, ReceiverTypes
<1>11. QED BY <1>6, <1>8, <1>10, StoreRests DEF LiveInv

LEMMA FinishKeeps ==
    ASSUME LiveInv, LiveAssumption, NEW id \in Sessions, NEW parts \in 0..MaxSaid, FinishLive(id, parts)
    PROVE  LiveInv'
<1> DEFINE phases == [i \in 1..(parts + 1) |-> IF i <= parts THEN <<"segment", said[id] + i>> ELSE <<"stopped", 0>>]
           msgs == WithStart(id, Position(id), phases)
           sent == Fits(msgs)
<1>0. /\ SenderTypes /\ RouteTypes /\ ReceiverTypes /\ selected \subseteq Receivers /\ said[id] \in Nat /\ signed
      /\ Sendable(id) /\ MaxSaid \in Nat /\ parts \in Nat
  BY DEF LiveInv, SenderTypes, LiveAssumption, FinishLive, Sends
<1>1. Position(id) \in Nat BY <1>0, PositionIs
<1>2. phases \in Seq(MsgPhases \X Nat)
  <2>1. \A i \in 1..(parts + 1) : (IF i <= parts THEN <<"segment", said[id] + i>> ELSE <<"stopped", 0>>) \in MsgPhases \X Nat
    BY <1>0 DEF MsgPhases
  <2>2. QED BY <1>0, <2>1
<1> HIDE DEF phases
<1>3. Run(id, Position(id), msgs) BY <1>0, <1>1, <1>2, WithStartIs
<1> HIDE DEF msgs
<1>4. Run(id, Position(id), sent) /\ (Native => Len(pipe[0]) + Len(sent) <= Capacity) BY <1>0, <1>1, <1>3, FitsIs
<1>5. /\ Queued(id, sent) /\ said' = [said EXCEPT ![id] = MaxSaid + 1]
      /\ live' = IF sent = msgs THEN [id |-> 0] ELSE [id |-> id, seq |-> Position(id) + Len(sent)]
      /\ UNCHANGED <<pending, up, conn, wire, failed, signed, private, selected, taken, asides, route, receiver>>
  BY DEF FinishLive, msgs, phases
<1> HIDE DEF sent
<1>6. UNCHANGED <<removed, table, log, settled, running, answers, deaths, inbox, online, shows>> BY <1>5 DEF route, receiver
<1>7. Ended(id)' /\ \A s \in Sessions : Ended(s) => Ended(s)' BY <1>0, <1>5 DEF Ended, SenderTypes
<1>8. /\ pipe' \in [Chains -> Seq(Msg)] /\ (Native => Len(pipe'[0]) <= Capacity)
      /\ live' \in [id : Sessions, seq : Nat] \cup {None} /\ (asides' = 0 => UniqueInv')
  BY <1>0, <1>1, <1>4, <1>5, <1>6, <1>7, Speaks DEF None
<1>9. said' \in [Sessions -> 0..(MaxSaid + 1)] BY <1>0, <1>5 DEF SenderTypes
<1>10. SenderTypes' /\ RouteTypes' /\ ReceiverTypes' BY <1>0, <1>5, <1>6, <1>8, <1>9 DEF SenderTypes, RouteTypes, ReceiverTypes
<1>11. QED BY <1>6, <1>8, <1>10, StoreRests DEF LiveInv

LEMMA SettleKeeps ==
    ASSUME LiveInv, LiveAssumption, NEW id \in Sessions, Settle(id)
    PROVE  LiveInv'
<1> DEFINE phases == << <<"segment", said[id] + 1>> >>
           msgs == WithStart(id, Position(id), phases)
<1>0. /\ SenderTypes /\ RouteTypes /\ ReceiverTypes /\ selected \subseteq Receivers /\ said[id] \in Nat /\ signed
      /\ Sendable(id) /\ ~ Native /\ MaxSaid \in Nat /\ said[id] < MaxSaid
  <2>1. said[id] < MaxSaid /\ ~ Native /\ Sendable(id) /\ signed BY DEF Settle, Sends
  <2>2. MaxSaid \in Nat BY DEF LiveAssumption
  <2>3. QED BY <2>1, <2>2 DEF LiveInv, SenderTypes
<1>1. Position(id) \in Nat BY <1>0, PositionIs
<1>2. phases \in Seq(MsgPhases \X Nat)
  <2>1. <<"segment", said[id] + 1>> \in MsgPhases \X Nat BY <1>0 DEF MsgPhases
  <2>2. QED BY <2>1
<1> HIDE DEF phases
<1>3. Run(id, Position(id), msgs) BY <1>0, <1>1, <1>2, WithStartIs
<1>5. /\ Queued(id, msgs) /\ live' = [id |-> id, seq |-> Position(id) + Len(msgs)]
      /\ said' = [said EXCEPT ![id] = said[id] + 1]
      /\ UNCHANGED <<pending, up, conn, wire, failed, signed, private, selected, taken, asides, route, receiver>>
  BY DEF Settle, phases
<1> HIDE DEF msgs
<1>6. UNCHANGED <<removed, table, log, settled, running, answers, deaths, inbox, online, shows>> BY <1>5 DEF route, receiver
<1>7. \A s \in Sessions : Ended(s) => Ended(s)' BY <1>0, <1>5 DEF Ended, SenderTypes
<1>8. /\ pipe' \in [Chains -> Seq(Msg)] /\ (Native => Len(pipe'[0]) <= Capacity)
      /\ live' \in [id : Sessions, seq : Nat] \cup {None} /\ (asides' = 0 => UniqueInv')
  BY <1>0, <1>1, <1>3, <1>5, <1>6, <1>7, Speaks
<1>9. said' \in [Sessions -> 0..(MaxSaid + 1)] BY <1>0, <1>5 DEF SenderTypes
<1>10. SenderTypes' /\ RouteTypes' /\ ReceiverTypes' BY <1>0, <1>5, <1>6, <1>8, <1>9 DEF SenderTypes, RouteTypes, ReceiverTypes
<1>11. QED BY <1>6, <1>8, <1>10, StoreRests DEF LiveInv

\* Nothing that waited is lost or changed when the rest of the sender's state changes.
LEMMA SameMessages ==
    ASSUME UNCHANGED <<pipe, pending, running, log>>
    PROVE  KnownMsg' = KnownMsg
BY DEF KnownMsg, SentBefore, Chains, Msg, Receivers

LEMMA CancelKeeps ==
    ASSUME LiveInv, LiveAssumption, CancelLive
    PROVE  LiveInv'
<1>0. live.id \in Sessions BY DEF LiveInv, SenderTypes, CancelLive
<1> SUFFICES ASSUME NEW id \in Sessions, id = live.id PROVE LiveInv' BY <1>0
<1> DEFINE msgs == <<Message(id, live.seq, "stopped", 0)>>
           sent == Fits(msgs)
<1>1. /\ SenderTypes /\ RouteTypes /\ ReceiverTypes /\ selected \subseteq Receivers /\ MaxSaid \in Nat
      /\ id \in Sessions /\ live.seq \in Nat /\ Native /\ ~ Ended(id) /\ Position(id) = live.seq /\ Sendable(id)
      /\ 0 \notin Sessions
  BY DEF LiveInv, SenderTypes, LiveAssumption, CancelLive, Sendable, Current, Position
<1>2. Run(id, Position(id), msgs)
  <2>1. Message(id, live.seq, "stopped", 0) \in Msg /\ Message(id, live.seq, "stopped", 0).id = id
        /\ Message(id, live.seq, "stopped", 0).seq = live.seq BY <1>1, MessageIs DEF MsgPhases
  <2> DEFINE m == Message(id, live.seq, "stopped", 0)
  <2> HIDE DEF m
  <2>2. msgs = <<m>> BY DEF m
  <2>3. m \in Msg /\ m.id = id /\ m.seq = Position(id) BY <2>1, <1>1 DEF m
  <2>4. <<m>> \in Seq(Msg) /\ Len(<<m>>) = 1 /\ <<m>>[1] = m BY <2>3
  <2>5. QED BY <2>2, <2>3, <2>4, <1>1 DEF Run
<1>3. /\ pipe' = IF signed /\ ~ private THEN [pipe EXCEPT ![Chain(id)] = @ \o sent] ELSE pipe
      /\ said' = [said EXCEPT ![id] = MaxSaid + 1] /\ live' = None
      /\ UNCHANGED <<pending, up, conn, wire, failed, signed, private, selected, taken, asides, route, receiver>>
  BY DEF CancelLive
<1> HIDE DEF msgs
<1>4. Run(id, Position(id), sent) /\ (Native => Len(pipe[0]) + Len(sent) <= Capacity)
  <2>1. Position(id) \in Nat BY <1>1
  <2>2. QED BY <2>1, <1>1, <1>2, FitsIs
<1> HIDE DEF sent
<1>5. UNCHANGED <<removed, table, log, settled, running, answers, deaths, inbox, online, shows>> BY <1>3 DEF route, receiver
<1>6. Ended(id)' /\ \A s \in Sessions : Ended(s) => Ended(s)'
  <2>1. said \in [Sessions -> 0..(MaxSaid + 1)] BY <1>1 DEF SenderTypes
  <2>2. said'[id] = MaxSaid + 1 /\ \A s \in Sessions : s # id => said'[s] = said[s] BY <2>1, <1>1, <1>3
  <2>3. QED BY <2>2, <1>1 DEF Ended
<1>7. /\ pipe' \in [Chains -> Seq(Msg)] /\ (Native => Len(pipe'[0]) <= Capacity) /\ (asides' = 0 => UniqueInv')
  <2>1. CASE signed /\ ~ private
    <3>1. Queued(id, sent) BY <2>1, <1>3 DEF Queued
    <3>2. UNCHANGED <<pending, running, log, answers, taken, signed, asides>> BY <1>3, <1>5
    <3>3. QED BY <3>1, <3>2, <2>1, <1>1, <1>3, <1>4, <1>6, Speaks
  <2>2. CASE ~ (signed /\ ~ private)
    <3>1. pipe' = pipe /\ pending' = pending /\ running' = running /\ log' = log BY <2>2, <1>3, <1>5
    <3>2. KnownMsg' = KnownMsg BY <3>1, SameMessages
    <3>3. \A m \in KnownMsg : Numbered(m) => Numbered(m)'
      <4> TAKE m \in KnownMsg
      <4>1. m.id \in Sessions BY DEF KnownMsg, Msg
      <4>2. live'.id = 0 BY <1>3 DEF None
      <4>3. m.id = id => Ended(m.id)' BY <1>6
      <4>4. m.id # id /\ Numbered(m) => Ended(m.id)' \/ ~ signed' BY <4>1, <1>3, <1>6 DEF Numbered, Current
      <4>5. ~ Current(m.id)' BY <4>1, <4>2, <1>1 DEF Current
      <4>6. QED BY <4>3, <4>4, <4>5 DEF Numbered
    <3>4. answers' = answers /\ taken' = taken /\ asides' = asides BY <1>3, <1>5
    <3>5. asides = 0 => UniqueInv' BY <3>1, <3>2, <3>3, <3>4, NothingSent DEF LiveInv
    <3>6. QED BY <3>1, <3>4, <3>5, <1>1 DEF SenderTypes
  <2>3. QED BY <2>1, <2>2
<1>8. said' \in [Sessions -> 0..(MaxSaid + 1)] BY <1>1, <1>3 DEF SenderTypes
<1>9. SenderTypes' /\ RouteTypes' /\ ReceiverTypes'
  BY <1>1, <1>3, <1>5, <1>7, <1>8 DEF SenderTypes, RouteTypes, ReceiverTypes
<1>10. QED BY <1>5, <1>7, <1>9, StoreRests DEF LiveInv

LEMMA BeginKeeps ==
    ASSUME LiveInv, LiveAssumption, NEW id \in Sessions, BeginLive(id)
    PROVE  LiveInv'
<1> SUFFICES ASSUME NEW m0, NEW msgs, m0 = Message(id, 0, "started", 0), msgs = <<m0>> PROVE LiveInv'
  OBVIOUS
<1>1. SenderTypes /\ RouteTypes /\ ReceiverTypes BY DEF LiveInv
<1>2. ~ Native /\ signed /\ said[id] = 0 /\ ~ Current(id) /\ Chains = Sessions BY DEF BeginLive, Sends, Chains
<1>3. MaxSaid \in Nat /\ 0 \notin Sessions BY DEF LiveAssumption
<1>4. m0 \in Msg /\ m0.id = id /\ m0.seq = 0
  <2>1. selected \subseteq Receivers BY <1>1 DEF SenderTypes
  <2>2. QED BY <2>1, MessageIs DEF MsgPhases
<1>5. /\ said' = [s \in Sessions |-> IF s = live.id THEN MaxSaid + 1 ELSE said[s]]
      /\ live' = [id |-> id, seq |-> 1] /\ failed' = 0 /\ pipe' = [pipe EXCEPT ![id] = msgs]
      /\ UNCHANGED <<pending, up, conn, wire, signed, private, selected, taken, asides, route, receiver>>
  BY DEF BeginLive
<1>6. Run(id, 0, msgs)
  <2>1. <<m0>> \in Seq(Msg) /\ Len(<<m0>>) = 1 /\ <<m0>>[1] = m0 BY <1>4
  <2>2. QED BY <2>1, <1>4 DEF Run
<1>7. msgs \in Seq(Msg) BY <1>6 DEF Run
<1>8. UNCHANGED <<removed, table, log, settled, running, answers, deaths, inbox, online, shows>> BY <1>5 DEF route, receiver
<1>9. pipe' \in [Chains -> Seq(Msg)] /\ pipe'[id] = msgs /\ \A c \in Chains : c # id => pipe'[c] = pipe[c]
  BY <1>1, <1>2, <1>5, <1>7 DEF SenderTypes
<1>10. said' \in [Sessions -> 0..(MaxSaid + 1)] /\ \A s \in Sessions : Ended(s) \/ s = live.id => Ended(s)'
  <2>1. said' \in [Sessions -> 0..(MaxSaid + 1)] BY <1>1, <1>3, <1>5 DEF SenderTypes
  <2>2. \A s \in Sessions : said'[s] = IF s = live.id THEN MaxSaid + 1 ELSE said[s] BY <1>5
  <2>3. QED BY <2>1, <2>2, <1>3 DEF Ended
<1>11. ASSUME asides = 0 PROVE UniqueInv'
  <2>1. UniqueInv BY <1>11 DEF LiveInv
  <2>2. \A m \in KnownMsg : m.id \in Sessions /\ m.id # id
    <3> TAKE m \in KnownMsg
    <3>1. Numbered(m) /\ m.id \in Sessions BY <2>1 DEF UniqueInv, KnownMsg, Msg
    <3>2. ~ Ended(id) BY <1>2, <1>3 DEF Ended
    <3>3. QED BY <3>1, <3>2, <1>2 DEF Numbered
  <2>3. \A m \in KnownMsg : Numbered(m)'
    <3> TAKE m \in KnownMsg
    <3>1. Numbered(m) /\ m.id \in Sessions /\ m.id # id BY <2>1, <2>2 DEF UniqueInv
    <3>2. Ended(m.id)' BY <3>1, <1>2, <1>10 DEF Numbered, Current
    <3>3. ~ Current(m.id)' BY <3>1, <1>5 DEF Current
    <3>4. QED BY <3>2, <3>3 DEF Numbered
  <2>4. \A k \in 1..Len(msgs) : Numbered(msgs[k])'
    <3>1. \A k \in 1..Len(msgs) : msgs[k].id = id /\ msgs[k].seq = 0 + k - 1 /\ Len(msgs) = 1 BY <1>6 DEF Run
    <3>2. \A k \in 1..Len(msgs) : msgs[k].id = id /\ msgs[k].seq < 1 BY <3>1
    <3>3. live'.id = id /\ live'.seq = 1 BY <1>5
    <3>4. QED
      <4> TAKE k \in 1..Len(msgs)
      <4>1. Current(msgs[k].id)' BY <3>2, <3>3 DEF Current
      <4>2. QED BY <3>2, <3>3, <4>1 DEF Numbered
  <2>5. \A m \in KnownMsg' : m \in KnownMsg \/ \E k \in 1..Len(msgs) : m = msgs[k]
    <3> TAKE m \in KnownMsg'
    <3>1. m \in Msg /\ SentBefore(m)' BY DEF KnownMsg
    <3>2. CASE \E i \in 1..Len(pipe'[id]) : pipe'[id][i] = m BY <3>2, <1>9
    <3>3. CASE ~ \E i \in 1..Len(pipe'[id]) : pipe'[id][i] = m
      <4>1. SentBefore(m) BY <3>1, <3>3, <1>5, <1>8, <1>9 DEF SentBefore, Chains
      <4>2. QED BY <3>1, <4>1 DEF KnownMsg
    <3>4. QED BY <3>2, <3>3
  <2>6. answers' = answers /\ taken' = taken /\ log' = log BY <1>5, <1>8
  <2>7. 0 \in Nat /\ \A m \in KnownMsg : m.id = id => m.seq < 0 BY <2>2
  <2>8. QED BY <2>1, <2>3, <2>4, <2>5, <2>6, <2>7, <1>6, NewSent
<1>12. Native => Len(pipe'[0]) <= Capacity BY <1>2
<1>13. live' \in [id : Sessions, seq : Nat] \cup {None} BY <1>5
<1>14. SenderTypes' /\ RouteTypes' /\ ReceiverTypes'
  BY <1>1, <1>5, <1>8, <1>9, <1>10, <1>12, <1>13 DEF SenderTypes, RouteTypes, ReceiverTypes
<1>15. asides' = asides BY <1>5
<1>16. QED BY <1>8, <1>11, <1>14, <1>15, StoreRests DEF LiveInv

-----------------------------------------------------------------------------
(* The wire.                                                                *)

\* A step of the sender or its wire that sends nothing new.
LEMMA WireRests ==
    ASSUME LiveInv, UNCHANGED <<removed, table, log, settled, inbox, online, shows, asides>>,
           SenderTypes', running' \subseteq running \cup Arrived,
           answers' \subseteq answers, KnownMsg' \subseteq KnownMsg,
           \A m \in KnownMsg : Numbered(m) => Numbered(m)',
           \A m \in taken' : m \in taken \/ \E a \in answers : a.kind = "ack" /\ m.id = a.m.id /\ m.seq = a.m.seq /\ m \in KnownMsg
    PROVE  LiveInv'
<1>1. RouteTypes' /\ ReceiverTypes' BY DEF LiveInv, RouteTypes, ReceiverTypes, Arrived
<1>2. ASSUME asides = 0 PROVE UniqueInv'
  <2>1. UniqueInv BY <1>2 DEF LiveInv
  <2>2. \A m \in taken' : m \in taken \/ Stored(m)
    <3> TAKE m \in taken'
    <3>1. CASE m \in taken BY <3>1
    <3>2. CASE \E a \in answers : a.kind = "ack" /\ m.id = a.m.id /\ m.seq = a.m.seq /\ m \in KnownMsg
      <4>1. PICK a \in answers : a.kind = "ack" /\ m.id = a.m.id /\ m.seq = a.m.seq /\ m \in KnownMsg BY <3>2
      <4>2. Stored(a.m) /\ a.m \in Msg BY <4>1, <2>1 DEF UniqueInv, LiveInv, RouteTypes
      <4>3. a.m.id \in Sessions BY <4>2 DEF Msg
      <4>4. SentBefore(a.m) BY <4>2, <4>3 DEF Stored, SentBefore
      <4>5. a.m \in KnownMsg BY <4>2, <4>4 DEF KnownMsg
      <4>6. m = a.m BY <4>1, <4>5, <2>1 DEF UniqueInv
      <4>7. QED BY <4>2, <4>6
    <3>3. QED BY <3>1, <3>2
  <2>3. \A a \in answers' : a.kind = "ack" => a \in answers \/ Stored(a.m) OBVIOUS
  <2>4. log' = log OBVIOUS
  <2>5. QED BY <2>1, <2>2, <2>3, <2>4, NothingSent
<1>3. QED BY <1>1, <1>2, StoreRests DEF LiveInv

\* Messages that wait are sent: invocations of what is already there.
LEMMA Posted ==
    ASSUME LiveInv, NEW ms \in SUBSET Msg, Post(ms), conn' \in Nat
    PROVE  running' \subseteq running \cup Arrived /\ \A v \in running' : v \in running \/ v.m \in ms
BY DEF Post, Arrived, Step

LEMMA ConnectKeeps == ASSUME LiveInv, LiveAssumption, Connect PROVE LiveInv'
<1>1. SenderTypes BY DEF LiveInv
<1>2. {pending[c] : c \in Waiting} \subseteq Msg BY <1>1 DEF SenderTypes, Waiting
<1>3. SenderTypes' BY <1>1 DEF Connect, SenderTypes, Chains
<1>4. running' \subseteq running \cup Arrived /\ \A v \in running' : v \in running \/ v.m \in {pending[c] : c \in Waiting}
  BY <1>2, <1>3, Posted DEF Connect, SenderTypes
<1>5. KnownMsg' \subseteq KnownMsg BY <1>4 DEF Connect, KnownMsg, SentBefore, Waiting, Chains, Msg, Receivers
<1>6. \A m \in KnownMsg : Numbered(m) => Numbered(m)' BY DEF Connect, Numbered, Current, Ended
<1>7. QED BY <1>3, <1>4, <1>5, <1>6, WireRests DEF Connect, receiver

\* The connection is gone, with what was on its way to the sender.
LEMMA BreakKeeps == ASSUME LiveInv, LiveAssumption, Break \/ Timeout PROVE LiveInv'
<1>1. SenderTypes' BY DEF LiveInv, SenderTypes, Break, Timeout, Chains
<1>2. KnownMsg' = KnownMsg BY SameMessages DEF Break, Timeout
<1>3. \A m \in KnownMsg : Numbered(m) => Numbered(m)' BY DEF Break, Timeout, Numbered, Current, Ended
<1>4. QED BY <1>1, <1>2, <1>3, WireRests DEF Break, Timeout, receiver

LEMMA TakeKeeps == ASSUME LiveInv, LiveAssumption, Take PROVE LiveInv'
<1>1. SenderTypes BY DEF LiveInv
<1>2. PICK c \in Chains \ Waiting :
        /\ pipe[c] # <<>>
        /\ pending' = [pending EXCEPT ![c] = Head(pipe[c])] /\ pipe' = [pipe EXCEPT ![c] = Tail(pipe[c])]
        /\ Post(IF up THEN {Head(pipe[c])} ELSE {})
  BY DEF Take
<1>3. /\ pipe[c] \in Seq(Msg) /\ Head(pipe[c]) \in Msg /\ Tail(pipe[c]) \in Seq(Msg)
      /\ Len(Tail(pipe[c])) = Len(pipe[c]) - 1 /\ Len(pipe[c]) \in Nat
      /\ \A i \in 1..Len(Tail(pipe[c])) : Tail(pipe[c])[i] = pipe[c][i + 1]
      /\ Head(pipe[c]) = pipe[c][1] /\ 1 \in 1..Len(pipe[c])
  <2>1. pipe[c] \in Seq(Msg) /\ pipe[c] # <<>> BY <1>1, <1>2 DEF SenderTypes
  <2>2. Len(pipe[c]) \in Nat \ {0} BY <2>1, EmptySeq
  <2>3. QED BY <2>1, <2>2, HeadTailProperties
<1>4. UNCHANGED <<live, said, up, conn, wire, failed, signed, private, selected, taken, asides,
                  removed, table, log, settled, answers, deaths, inbox, online, shows>> BY DEF Take, receiver
<1>5. /\ pipe' \in [Chains -> Seq(Msg)] /\ pending' \in [Chains -> Msg \cup {None}]
      /\ pipe'[c] = Tail(pipe[c]) /\ pending'[c] = Head(pipe[c])
      /\ \A d \in Chains : d # c => pipe'[d] = pipe[d] /\ pending'[d] = pending[d]
  BY <1>1, <1>2, <1>3 DEF SenderTypes
<1>6. Native => Len(pipe'[0]) <= Capacity
  <2>1. CASE c = 0 /\ Native
    <3>1. Len(pipe[c]) <= Capacity /\ Capacity \in Nat BY <2>1, <1>1 DEF SenderTypes, LiveAssumption
    <3>2. QED BY <3>1, <2>1, <1>3, <1>5
  <2>2. CASE c # 0 BY <2>2, <1>1, <1>5 DEF SenderTypes, Chains
  <2>3. QED BY <2>1, <2>2
<1>7. SenderTypes' BY <1>1, <1>4, <1>5, <1>6 DEF SenderTypes, Chains
<1>8. running' \subseteq running \cup Arrived /\ \A v \in running' : v \in running \/ v.m = Head(pipe[c])
  <2>1. (IF up THEN {Head(pipe[c])} ELSE {}) \in SUBSET Msg BY <1>3
  <2>2. conn' \in Nat BY <1>7 DEF SenderTypes
  <2>3. running' \subseteq running \cup Arrived /\ \A v \in running' : v \in running \/ v.m \in (IF up THEN {Head(pipe[c])} ELSE {})
    BY <2>1, <2>2, <1>2, Posted
  <2>4. QED BY <2>3
<1>9. KnownMsg' \subseteq KnownMsg
  <2> SUFFICES ASSUME NEW m \in KnownMsg' PROVE m \in KnownMsg OBVIOUS
  <2>1. m \in Msg /\ SentBefore(m)' BY DEF KnownMsg
  <2>2. CASE m = Head(pipe[c])
    <3>1. SentBefore(m) BY <2>2, <1>3 DEF SentBefore
    <3>2. QED BY <2>1, <3>1 DEF KnownMsg
  <2>3. CASE \E d \in Chains : \E i \in 1..Len(pipe'[d]) : pipe'[d][i] = m
    <3>1. PICK d \in Chains : \E i \in 1..Len(pipe'[d]) : pipe'[d][i] = m BY <2>3
    <3>2. PICK i \in 1..Len(pipe'[d]) : pipe'[d][i] = m BY <3>1
    <3>3. CASE d = c
      <4>1. i + 1 \in 1..Len(pipe[c]) /\ pipe[c][i + 1] = m BY <3>2, <3>3, <1>3, <1>5
      <4>2. SentBefore(m) BY <4>1 DEF SentBefore
      <4>3. QED BY <2>1, <4>2 DEF KnownMsg
    <3>4. CASE d # c
      <4>1. pipe[d][i] = m /\ i \in 1..Len(pipe[d]) BY <3>2, <3>4, <1>5
      <4>2. SentBefore(m) BY <4>1 DEF SentBefore
      <4>3. QED BY <2>1, <4>2 DEF KnownMsg
    <3>5. QED BY <3>3, <3>4
  <2>4. CASE m # Head(pipe[c]) /\ ~ \E d \in Chains : \E i \in 1..Len(pipe'[d]) : pipe'[d][i] = m
    <3>1. SentBefore(m) BY <2>1, <2>4, <1>4, <1>5, <1>8 DEF SentBefore, Chains
    <3>2. QED BY <2>1, <3>1 DEF KnownMsg
  <2>5. QED BY <2>2, <2>3, <2>4
<1>10. \A m \in KnownMsg : Numbered(m) => Numbered(m)' BY <1>4 DEF Numbered, Current, Ended
<1>11. QED BY <1>4, <1>7, <1>8, <1>9, <1>10, WireRests

LEMMA WireAnswersKeeps ==
    ASSUME LiveInv, LiveAssumption, NEW a \in answers, WireAnswers(a)
    PROVE  LiveInv'
<1>1. /\ SenderTypes /\ a.kind \in {"ack", "forbidden", "refused"} /\ a.m \in Msg /\ 0 \notin Sessions
      /\ Native \in BOOLEAN /\ Capacity \in Nat
  BY DEF LiveInv, RouteTypes, LiveAssumption
<1>2. Chain(a.m.id) \in Chains BY <1>1 DEF Chain, Chains, Msg
<1>3. /\ answers' = answers \ {a}
      /\ UNCHANGED <<said, conn, private, selected, asides, removed, table, log, settled, running, deaths, inbox, online, shows>>
  BY DEF WireAnswers, receiver
<1> DEFINE Took == \A m \in taken' : m \in taken \/
                      \E b \in answers : b.kind = "ack" /\ m.id = b.m.id /\ m.seq = b.m.seq /\ m \in KnownMsg
<1>4. ASSUME \A c \in Chains : pending'[c] \in {pending[c], None}, pending' \in [Chains -> Msg \cup {None}],
             \/ pipe' = pipe
             \/ pipe' = [c \in Chains |-> <<>>]
      PROVE  KnownMsg' \subseteq KnownMsg
  <2> SUFFICES ASSUME NEW m \in KnownMsg' PROVE m \in KnownMsg OBVIOUS
  <2>1. m \in Msg /\ SentBefore(m)' /\ m # None BY <1>1 DEF KnownMsg, Msg, None
  <2>2. CASE \E c \in Chains : \E i \in 1..Len(pipe'[c]) : pipe'[c][i] = m
    <3>1. PICK c \in Chains : \E i \in 1..Len(pipe'[c]) : pipe'[c][i] = m BY <2>2
    <3>2. PICK i \in 1..Len(pipe'[c]) : pipe'[c][i] = m BY <3>1
    <3>3. pipe' = pipe
      <4>1. ASSUME pipe' = [d \in Chains |-> <<>>] PROVE FALSE
        <5>1. pipe'[c] = <<>> /\ Len(<<>>) = 0 BY <4>1
        <5>2. QED BY <5>1, <3>2
      <4>2. QED BY <4>1, <1>4
    <3>4. SentBefore(m) BY <3>2, <3>3 DEF SentBefore
    <3>5. QED BY <2>1, <3>4 DEF KnownMsg
  <2>3. CASE ~ \E c \in Chains : \E i \in 1..Len(pipe'[c]) : pipe'[c][i] = m
    <3>1. CASE \E c \in Chains : pending'[c] = m
      <4>1. PICK c \in Chains : pending'[c] = m BY <3>1
      <4>2. pending[c] = m BY <4>1, <2>1, <1>4
      <4>3. QED BY <4>2, <2>1 DEF SentBefore, KnownMsg
    <3>2. CASE ~ \E c \in Chains : pending'[c] = m
      <4>1. \/ \E v \in running' : v.m = m
            \/ \E s \in Sessions : \E i \in 1..Len(log'[s]) : log'[s][i] = m
        BY <3>2, <2>3, <2>1 DEF SentBefore
      <4>2. running' = running /\ log' = log BY <1>3
      <4>3. QED BY <4>1, <4>2, <2>1 DEF SentBefore, KnownMsg
    <3>3. QED BY <3>1, <3>2
  <2>4. QED BY <2>2, <2>3
<1>5. CASE /\ a.kind = "ack"
           /\ pending' = IF Acknowledges(a) THEN [pending EXCEPT ![Chain(a.m.id)] = None] ELSE pending
           /\ taken' = IF Acknowledges(a) THEN taken \cup {pending[Chain(a.m.id)]} ELSE taken
           /\ UNCHANGED <<live, pipe, up, wire, failed, signed>>
  <2>1. (\A c \in Chains : pending'[c] \in {pending[c], None}) /\ pending' \in [Chains -> Msg \cup {None}]
    BY <1>1, <1>2, <1>5 DEF SenderTypes
  <2>2. KnownMsg' \subseteq KnownMsg BY <2>1, <1>4, <1>5
  <2>3. Took /\ taken' \subseteq Msg
    <3>1. CASE ~ Acknowledges(a) BY <3>1, <1>1, <1>5 DEF SenderTypes
    <3>2. CASE Acknowledges(a)
      <4> DEFINE p == pending[Chain(a.m.id)]
      <4>1. p # None /\ p.id = a.m.id /\ p.seq = a.m.seq BY <3>2 DEF Acknowledges
      <4>2. p \in Msg BY <4>1, <1>1, <1>2 DEF SenderTypes
      <4>3. SentBefore(p) BY <1>2 DEF SentBefore
      <4>4. p \in KnownMsg BY <4>2, <4>3 DEF KnownMsg
      <4>5. QED BY <3>2, <4>1, <4>2, <4>4, <1>1, <1>5 DEF SenderTypes
    <3>3. QED BY <3>1, <3>2
  <2>4. SenderTypes' BY <1>1, <1>3, <1>5, <2>1, <2>3 DEF SenderTypes, Chains
  <2>5. \A m \in KnownMsg : Numbered(m) => Numbered(m)' BY <1>3, <1>5 DEF Numbered, Current, Ended
  <2>6. QED BY <1>3, <2>2, <2>3, <2>4, <2>5, WireRests
<1>6. CASE /\ a.kind = "forbidden" /\ Native
           /\ SignsOut /\ pending' = [pending EXCEPT ![0] = None] /\ UNCHANGED <<taken, failed>>
  <2>1. (\A c \in Chains : pending'[c] \in {pending[c], None}) /\ pending' \in [Chains -> Msg \cup {None}]
    BY <1>1, <1>6 DEF SenderTypes, Chains
  <2>2. pipe' = [c \in Chains |-> <<>>] /\ signed' = FALSE /\ live' = None /\ wire' = "off" /\ up' = FALSE
    BY <1>6 DEF SignsOut
  <2>3. KnownMsg' \subseteq KnownMsg BY <2>1, <2>2, <1>4
  <2>4. pipe' \in [Chains -> Seq(Msg)] /\ (Native => Len(pipe'[0]) <= Capacity)
    <3>1. <<>> \in Seq(Msg) /\ Len(<<>>) = 0 BY EmptySeq
    <3>2. Native => pipe'[0] = <<>> BY <2>2 DEF Chains
    <3>3. QED BY <3>1, <3>2, <2>2, <1>1
  <2>5. SenderTypes' BY <1>1, <1>3, <1>6, <2>1, <2>2, <2>4 DEF SenderTypes, Chains
  <2>6. \A m \in KnownMsg : Numbered(m) => Numbered(m)'
    <3> TAKE m \in KnownMsg
    <3>1. m.id # 0 BY <1>1 DEF KnownMsg, Msg
    <3>2. ~ Current(m.id)' /\ ~ signed' BY <3>1, <2>2 DEF Current, None
    <3>3. QED BY <3>2 DEF Numbered
  <2>7. QED BY <1>3, <1>6, <2>3, <2>5, <2>6, WireRests
<1>7. CASE /\ Rejected /\ (up' = FALSE \/ up' = up) /\ UNCHANGED <<live, pipe, wire, signed, taken>>
  <2>1. (\A c \in Chains : pending'[c] \in {pending[c], None}) /\ pending' \in [Chains -> Msg \cup {None}]
    BY <1>1, <1>7 DEF Rejected, Chains
  <2>2. KnownMsg' \subseteq KnownMsg BY <2>1, <1>4, <1>7
  <2>3. failed' \in Sessions \cup {0} BY <1>1, <1>7 DEF Rejected, Waiting, Chains, SenderTypes
  <2>4. SenderTypes' BY <1>1, <1>3, <1>7, <2>1, <2>3 DEF SenderTypes, Chains
  <2>5. \A m \in KnownMsg : Numbered(m) => Numbered(m)' BY <1>3, <1>7 DEF Numbered, Current, Ended
  <2>6. QED BY <1>3, <1>7, <2>2, <2>4, <2>5, WireRests
<1>8. QED BY <1>1, <1>5, <1>6, <1>7 DEF WireAnswers

LEMMA GiveUpKeeps == ASSUME LiveInv, LiveAssumption, GiveUp PROVE LiveInv'
<1>1. SenderTypes BY DEF LiveInv
<1>2. PICK c \in Waiting : pending' = [pending EXCEPT ![c] = None] /\ failed' = c BY DEF GiveUp
<1>3. /\ ~ Native
      /\ UNCHANGED <<live, said, pipe, up, conn, wire, signed, private, selected, taken, asides,
                     removed, table, log, settled, running, answers, deaths, inbox, online, shows>>
  BY DEF GiveUp, route, receiver
<1>4. pending' \in [Chains -> Msg \cup {None}] /\ failed' \in Sessions /\ \A d \in Chains : pending'[d] \in {pending[d], None}
  BY <1>1, <1>2, <1>3 DEF SenderTypes, Waiting, Chains
<1>5. SenderTypes' BY <1>1, <1>3, <1>4 DEF SenderTypes, Chains
<1>6. KnownMsg' \subseteq KnownMsg
  <2> SUFFICES ASSUME NEW m \in KnownMsg' PROVE m \in KnownMsg OBVIOUS
  <2>1. m \in Msg /\ SentBefore(m)' /\ m # None BY DEF KnownMsg, Msg, None, LiveAssumption
  <2>2. SentBefore(m) BY <2>1, <1>3, <1>4 DEF SentBefore, Chains
  <2>3. QED BY <2>1, <2>2 DEF KnownMsg
<1>7. \A m \in KnownMsg : Numbered(m) => Numbered(m)' BY <1>3 DEF Numbered, Current, Ended
<1>8. QED BY <1>3, <1>5, <1>6, <1>7, WireRests

LEMMA IncognitoKeeps == ASSUME LiveInv, LiveAssumption, IncognitoOn PROVE LiveInv'
<1>1. SenderTypes /\ RouteTypes /\ ReceiverTypes BY DEF LiveInv
<1>2. UNCHANGED <<removed, table, log, settled, running, answers, deaths, inbox, online, shows>>
  BY DEF IncognitoOn, route, receiver
<1>3. asides' # 0 /\ asides' \in Nat BY <1>1 DEF IncognitoOn, SenderTypes
<1>4. SenderTypes' BY <1>1, <1>3 DEF IncognitoOn, SenderTypes, Chains
<1>5. RouteTypes' /\ ReceiverTypes' BY <1>1, <1>2 DEF RouteTypes, ReceiverTypes
<1>6. QED BY <1>2, <1>3, <1>4, <1>5, StoreRests DEF LiveInv

LEMMA WireEndsKeeps == ASSUME LiveInv, LiveAssumption, WireEnds PROVE LiveInv'
<1>1. SenderTypes /\ Capacity \in Nat /\ 0 \notin Sessions BY DEF LiveInv, LiveAssumption
<1>2. /\ pipe' = [c \in Chains |-> <<>>] /\ pending' = [c \in Chains |-> None]
      /\ wire' = "off" /\ up' = FALSE /\ answers' = {}
      /\ UNCHANGED <<live, said, conn, failed, signed, private, selected, taken, asides,
                     removed, table, log, settled, running, deaths, inbox, online, shows>>
  BY DEF WireEnds, receiver
<1>3. pipe' \in [Chains -> Seq(Msg)] /\ (Native => Len(pipe'[0]) <= Capacity)
  <2>1. <<>> \in Seq(Msg) /\ Len(<<>>) = 0 BY EmptySeq
  <2>2. Native => pipe'[0] = <<>> BY <1>2 DEF Chains
  <2>3. QED BY <2>1, <2>2, <1>1, <1>2
<1>4. SenderTypes' BY <1>1, <1>2, <1>3 DEF SenderTypes, Chains
<1>5. KnownMsg' \subseteq KnownMsg
  <2> SUFFICES ASSUME NEW m \in KnownMsg' PROVE m \in KnownMsg OBVIOUS
  <2>1. m \in Msg /\ SentBefore(m)' /\ m # None BY <1>1 DEF KnownMsg, Msg, None
  <2>2. \A c \in Chains : pipe'[c] = <<>> /\ Len(<<>>) = 0 /\ pending'[c] = None BY <1>2
  <2>3. SentBefore(m) BY <2>1, <2>2, <1>2 DEF SentBefore, Chains
  <2>4. QED BY <2>1, <2>3 DEF KnownMsg
<1>6. \A m \in KnownMsg : Numbered(m) => Numbered(m)' BY <1>2 DEF Numbered, Current, Ended
<1>7. QED BY <1>2, <1>4, <1>5, <1>6, WireRests

LEMMA ReturnKeeps == ASSUME LiveInv, LiveAssumption, IncognitoOff \/ LoadDevices PROVE LiveInv'
<1>1. /\ UNCHANGED <<live, said, pipe, pending, up, conn, failed, signed, taken, asides,
                     removed, table, log, settled, running, answers, deaths, inbox, online, shows>>
      /\ wire' \in {wire, "on"} /\ private' \in {private, FALSE} /\ selected' \subseteq selected
  BY DEF IncognitoOff, LoadDevices, route, receiver
<1>2. SenderTypes' BY <1>1 DEF LiveInv, SenderTypes, Chains
<1>3. KnownMsg' = KnownMsg BY <1>1, SameMessages
<1>4. \A m \in KnownMsg : Numbered(m) => Numbered(m)' BY <1>1 DEF Numbered, Current, Ended
<1>5. QED BY <1>1, <1>2, <1>3, <1>4, WireRests

-----------------------------------------------------------------------------
(* The account.                                                             *)

\* An invocation ends, or goes on with its message, and perhaps answers.
LEMMA InvocationRests ==
    ASSUME LiveInv, UNCHANGED <<sender, removed, table, log, settled, receiver>>,
           NEW v \in running, NEW w \in Step \cup Commits, w.m = v.m, running' \subseteq running \cup {w},
           w.stage = "notify" => Stored(w.m),
           w.stage = "commit" => Follows(w.m, w.prev) /\ (w.prev # None => w.prev.id = w.m.id),
           NEW kind \in {"ack", "forbidden", "refused"}, answers' \subseteq answers \cup {[kind |-> kind, m |-> v.m]},
           kind = "ack" /\ asides = 0 => Stored(v.m)
    PROVE  LiveInv'
<1>1. UNCHANGED <<live, said, pipe, pending, up, conn, wire, failed, signed, private, selected, taken, asides,
                  inbox, online, shows, removed, table, log, settled>> BY DEF sender, receiver
<1>2. SenderTypes' BY <1>1 DEF LiveInv, SenderTypes, Chains
<1>3. v.m \in Msg BY DEF LiveInv, RouteTypes, Step, Commits
<1>4. RouteTypes' /\ ReceiverTypes' BY <1>1, <1>3 DEF LiveInv, RouteTypes, ReceiverTypes
<1>5. \A m : Stored(m)' <=> Stored(m) BY <1>1 DEF Stored
<1>6. \A s \in Sessions : LogInv(s)' BY <1>1 DEF LiveInv, LogInv, WordsNow
<1>7. StoredInv' BY <1>1, <1>5 DEF LiveInv, StoredInv
<1>8. CommitInv' BY DEF LiveInv, CommitInv, Follows
<1>9. \A r \in Receivers, s \in Sessions : ViewInv(r, s)' BY <1>1 DEF LiveInv, ViewInv
<1>10. ASSUME asides = 0 PROVE UniqueInv'
  <2>1. UniqueInv BY <1>10 DEF LiveInv
  <2>2. KnownMsg' \subseteq KnownMsg
    <3> SUFFICES ASSUME NEW m \in KnownMsg' PROVE m \in KnownMsg OBVIOUS
    <3>1. m \in Msg /\ SentBefore(m)' BY DEF KnownMsg
    <3>2. SentBefore(m) BY <3>1, <1>1 DEF SentBefore, Chains
    <3>3. QED BY <3>1, <3>2 DEF KnownMsg
  <2>3. \A m \in KnownMsg : Numbered(m) => Numbered(m)' BY <1>1 DEF Numbered, Current, Ended
  <2>4. \A a \in answers' : a.kind = "ack" => a \in answers \/ Stored(a.m) BY <1>10
  <2>5. \A m \in taken' : m \in taken \/ Stored(m) BY <1>1
  <2>6. QED BY <2>1, <2>2, <2>3, <2>4, <2>5, <1>1, NothingSent
<1>11. QED BY <1>1, <1>2, <1>4, <1>6, <1>7, <1>8, <1>9, <1>10 DEF LiveInv

LEMMA SentBack ==
    ASSUME NEW v, NEW kind, SendBack(v, kind)
    PROVE  answers' \subseteq answers \cup {[kind |-> kind, m |-> v.m]}
BY DEF SendBack

\* One message of the log.
LEMMA EntryIs ==
    ASSUME NEW s, LogInv(s), NEW i \in 1..Len(log[s])
    PROVE  /\ log[s][i].id = s /\ log[s][i].seq = i - 1 /\ (log[s][i].phase = "started" <=> i = 1)
           /\ i > 1 => settled[s][i] = IF log[s][i].phase = "segment" THEN Append(settled[s][i - 1], log[s][i].text)
                                      ELSE settled[s][i - 1]
           /\ IsPrefix(settled[s][i], WordsNow(s))
BY DEF LogInv

\* What was accepted last has the highest number.
LEMMA LastStored ==
    ASSUME LiveInv, NEW s \in Sessions, table[s] # None
    PROVE  /\ table[s] \in Msg /\ table[s].id = s /\ Len(log[s]) \in Nat \ {0}
           /\ table[s].seq = Len(log[s]) - 1 /\ log[s][Len(log[s])] = table[s] /\ Stored(table[s])
<1>1. log[s] # <<>> /\ log[s] \in Seq(Msg) /\ table[s] = log[s][Len(log[s])] BY DEF LiveInv, LogInv, RouteTypes
<1>2. Len(log[s]) \in Nat \ {0} BY <1>1, EmptySeq
<1>3. Len(log[s]) \in 1..Len(log[s]) BY <1>2
<1>4. table[s] \in Msg /\ table[s].id = s /\ table[s].seq = Len(log[s]) - 1
  <2>1. LogInv(s) BY DEF LiveInv
  <2>2. log[s][Len(log[s])] \in Msg BY <1>1, <1>3, ElementOfSeq
  <2>3. log[s][Len(log[s])].id = s /\ log[s][Len(log[s])].seq = Len(log[s]) - 1 BY <2>1, <1>3, EntryIs
  <2>4. QED BY <1>1, <2>2, <2>3
<1>5. QED BY <1>1, <1>2, <1>3, <1>4 DEF Stored

LEMMA CheckKeeps ==
    ASSUME LiveInv, LiveAssumption, NEW v \in running, Check(v)
    PROVE  LiveInv'
<1> DEFINE m == v.m
           previous == table[m.id]
<1>1. v \in Step /\ v.stage = "arrived" /\ m \in Msg /\ m.id \in Sessions BY DEF LiveInv, RouteTypes, Check, Step, Commits, Msg
<1>2. UNCHANGED <<sender, removed, table, log, settled, receiver>> BY DEF Check
<1>3. previous # None => /\ previous \in Msg /\ previous.id = m.id /\ Stored(previous)
                         /\ previous.seq = Len(log[m.id]) - 1 /\ Len(log[m.id]) \in Nat
  BY <1>1, LastStored
<1>4. ASSUME NEW kind \in {"forbidden", "refused"}, SendBack(v, kind), Ends(v) PROVE LiveInv'
  <2>1. running' \subseteq running \cup {v} BY <1>4 DEF Ends
  <2>2. QED BY <1>1, <1>2, <1>4, <2>1, SentBack, InvocationRests
<1>5. ASSUME previous # None, m.seq < previous.seq, SendBack(v, "ack"), Ends(v) PROVE LiveInv'
  <2>1. running' \subseteq running \cup {v} BY <1>5 DEF Ends
  <2>2. ASSUME asides = 0 PROVE Stored(m)
    <3> DEFINE i == m.seq + 1
               n == log[m.id][i]
    <3>1. i \in 1..Len(log[m.id]) BY <1>1, <1>3, <1>5 DEF Msg
    <3>2. log[m.id] \in Seq(Msg) BY <1>1 DEF LiveInv, RouteTypes
    <3>3. n \in Msg /\ n.id = m.id /\ n.seq = i - 1
      <4>1. LogInv(m.id) BY <1>1 DEF LiveInv
      <4>2. n \in Msg BY <3>1, <3>2, ElementOfSeq
      <4>3. QED BY <4>1, <4>2, <3>1, EntryIs
    <3>4. n.seq = m.seq BY <3>3, <1>1 DEF Msg
    <3>5. SentBefore(n) /\ SentBefore(m) BY <3>1, <1>1 DEF SentBefore
    <3>6. n = m BY <3>3, <3>4, <3>5, <1>1, <2>2 DEF LiveInv, UniqueInv, KnownMsg
    <3>7. QED BY <3>1, <3>6 DEF Stored
  <2>3. QED BY <1>1, <1>2, <1>5, <2>1, <2>2, SentBack, InvocationRests
<1>6. ASSUME previous # None, [previous EXCEPT !.id = m.id] = m, Repeats(v) PROVE LiveInv'
  <2> DEFINE w == [v EXCEPT !.stage = "notify"]
  <2>1. previous = m BY <1>3, <1>6 DEF Msg
  <2>2. w \in Step /\ w.m = v.m /\ w.stage = "notify" BY <1>1 DEF Step
  <2>3. running' \subseteq running \cup {w} /\ answers' = answers BY <1>6 DEF Repeats, Becomes
  <2>4. Stored(w.m) BY <2>1, <2>2, <1>3, <1>6
  <2> HIDE DEF w
  <2>5. answers' \subseteq answers \cup {[kind |-> "refused", m |-> v.m]} BY <2>3
  <2>6. QED BY <1>1, <1>2, <2>2, <2>3, <2>4, <2>5, InvocationRests
<1>7. ASSUME Follows(m, previous), Becomes(v, [m |-> m, conn |-> v.conn, stage |-> "commit", prev |-> previous]),
             answers' = answers
      PROVE  LiveInv'
  <2> DEFINE w == [m |-> m, conn |-> v.conn, stage |-> "commit", prev |-> previous]
  <2>1. previous \in Msg \cup {None} BY <1>1 DEF LiveInv, RouteTypes
  <2>2. w \in Commits /\ w.m = v.m /\ w.stage = "commit" /\ w.prev = previous BY <1>1, <2>1 DEF Step, Commits
  <2>3. running' \subseteq running \cup {w} BY <1>7 DEF Becomes
  <2>4. Follows(w.m, w.prev) /\ (w.prev # None => w.prev.id = w.m.id) BY <1>3, <1>7, <2>2
  <2> HIDE DEF w
  <2>5. answers' \subseteq answers \cup {[kind |-> "refused", m |-> v.m]} BY <1>7
  <2>6. QED BY <1>2, <2>2, <2>3, <2>4, <2>5, InvocationRests
<1>8. QED BY <1>4, <1>5, <1>6, <1>7 DEF Check

LEMMA DiesKeeps == ASSUME LiveInv, LiveAssumption, NEW v \in running, Dies(v) PROVE LiveInv'
<1>1. UNCHANGED <<sender, removed, table, log, settled, receiver>> /\ answers' = answers /\ running' \subseteq running \cup {v}
  BY DEF Dies, Ends
<1>2. v \in Step \cup Commits /\ (v.stage = "notify" => Stored(v.m))
      /\ (v.stage = "commit" => Follows(v.m, v.prev) /\ (v.prev # None => v.prev.id = v.m.id))
  BY DEF LiveInv, RouteTypes, StoredInv, CommitInv
<1>3. answers' \subseteq answers \cup {[kind |-> "refused", m |-> v.m]} BY <1>1
<1>4. QED BY <1>1, <1>2, <1>3, InvocationRests

LEMMA NotifyKeeps == ASSUME LiveInv, LiveAssumption, NEW v \in running, Notify(v) PROVE LiveInv'
<1>1. /\ UNCHANGED <<sender, removed, table, log, settled, deaths, online, shows>> /\ running' = running \ {v}
      /\ inbox' = [r \in Receivers |-> IF r \in v.m.targets /\ online[r] THEN inbox[r] \cup {v.m} ELSE inbox[r]]
      /\ answers' \subseteq answers \cup {[kind |-> "ack", m |-> v.m]}
  BY SentBack DEF Notify, Ends
<1>2. UNCHANGED <<live, said, pipe, pending, up, conn, wire, failed, signed, private, selected, taken, asides>>
  BY <1>1 DEF sender
<1>3. v.m \in Msg /\ Stored(v.m) BY DEF LiveInv, RouteTypes, StoredInv, Notify, Step, Commits
<1>4. SenderTypes' BY <1>2 DEF LiveInv, SenderTypes, Chains
<1>5. RouteTypes' BY <1>1, <1>3 DEF LiveInv, RouteTypes
<1>6. ReceiverTypes' BY <1>1, <1>3 DEF LiveInv, ReceiverTypes
<1>7. \A m : Stored(m)' <=> Stored(m) BY <1>1 DEF Stored
<1>8. \A s \in Sessions : LogInv(s)' BY <1>1 DEF LiveInv, LogInv, WordsNow
<1>9. StoredInv' BY <1>1, <1>3, <1>7 DEF LiveInv, StoredInv
<1>10. CommitInv' BY <1>1 DEF LiveInv, CommitInv, Follows
<1>11. \A r \in Receivers, s \in Sessions : ViewInv(r, s)' BY <1>1 DEF LiveInv, ViewInv
<1>12. ASSUME asides = 0 PROVE UniqueInv'
  <2>1. UniqueInv BY <1>12 DEF LiveInv
  <2>2. KnownMsg' \subseteq KnownMsg BY <1>1, <1>2 DEF KnownMsg, SentBefore, Chains, Msg, Receivers
  <2>3. \A m \in KnownMsg : Numbered(m) => Numbered(m)' BY <1>2 DEF Numbered, Current, Ended
  <2>4. \A a \in answers' : a.kind = "ack" => a \in answers \/ Stored(a.m) BY <1>1, <1>3
  <2>5. \A m \in taken' : m \in taken \/ Stored(m) BY <1>2
  <2>6. QED BY <2>1, <2>2, <2>3, <2>4, <2>5, <1>1, NothingSent
<1>13. QED BY <1>2, <1>4, <1>5, <1>6, <1>8, <1>9, <1>10, <1>11, <1>12 DEF LiveInv

\* A message is stored behind all of its session: what was stored stays, and its words grow.
LEMMA Stores ==
    ASSUME LiveInv, NEW v \in running, v.stage = "commit", Still(v),
           log' = [log EXCEPT ![v.m.id] = Append(@, v.m)],
           table' = [table EXCEPT ![v.m.id] = v.m],
           settled' = [settled EXCEPT ![v.m.id] =
                          Append(@, IF v.m.phase = "segment" THEN Append(WordsNow(v.m.id), v.m.text) ELSE WordsNow(v.m.id))]
    PROVE  /\ table' \in [Sessions -> Msg \cup {None}] /\ log' \in [Sessions -> Seq(Msg)]
           /\ settled' \in [Sessions -> Seq(Seq(Nat))]
           /\ \A s \in Sessions : LogInv(s)'
           /\ \A s \in Sessions : Len(log[s]) \in Nat /\ Len(log[s]) <= Len(log'[s]) /\ Len(log'[s]) \in Nat
           /\ \A s \in Sessions : \A i \in 1..Len(log[s]) : log'[s][i] = log[s][i] /\ settled'[s][i] = settled[s][i]
           /\ Stored(v.m)'
           /\ \A s \in Sessions : \A i \in 1..Len(log'[s]) :
                 log'[s][i] = v.m \/ \E j \in 1..Len(log[s]) : log'[s][i] = log[s][j]
<1> DEFINE m == v.m
           s == m.id
           L == Len(log[s])
           old == WordsNow(s)
           new == IF m.phase = "segment" THEN Append(old, m.text) ELSE old
<1>1. m \in Msg /\ s \in Sessions /\ m.seq \in Nat /\ m.text \in Nat BY DEF LiveInv, RouteTypes, Step, Commits, Msg
<1>2. /\ log \in [Sessions -> Seq(Msg)] /\ settled \in [Sessions -> Seq(Seq(Nat))] /\ table \in [Sessions -> Msg \cup {None}]
      /\ LogInv(s) /\ Follows(m, table[s])
  BY <1>1 DEF LiveInv, RouteTypes, CommitInv, Still
<1>3. L \in Nat /\ log[s] \in Seq(Msg) /\ settled[s] \in Seq(Seq(Nat)) /\ Len(settled[s]) = L BY <1>1, <1>2 DEF LogInv
<1>4. m.seq = L /\ (m.phase = "started" <=> L = 0)
  <2>1. CASE table[s] = None
    <3>1. log[s] = <<>>
      <4>1. ASSUME log[s] # <<>> PROVE FALSE
        <5>1. L \in 1..L BY <4>1, <1>3, EmptySeq
        <5>2. table[s] = log[s][L] BY <4>1, <1>2 DEF LogInv
        <5>3. log[s][L] \in Msg BY <5>1, <1>3, ElementOfSeq
        <5>4. None \notin Msg BY DEF Msg, None
        <5>5. QED BY <2>1, <5>2, <5>3, <5>4
      <4>2. QED BY <4>1
    <3>2. L = 0 BY <3>1, EmptySeq
    <3>3. QED BY <2>1, <3>2, <1>2 DEF Follows
  <2>2. CASE table[s] # None
    <3>1. L \in Nat \ {0} /\ table[s].seq = L - 1 BY <2>2, <1>1, LastStored
    <3>2. QED BY <2>2, <3>1, <1>2 DEF Follows
  <2>3. QED BY <2>1, <2>2
<1>5. old \in Seq(Nat) /\ (L = 0 => old = <<>>) /\ (L # 0 => old = settled[s][L])
  <2>1. CASE L = 0
    <3>1. settled[s] = <<>> BY <2>1, <1>3, EmptySeq
    <3>2. QED BY <2>1, <3>1, EmptySeq DEF WordsNow
  <2>2. CASE L # 0
    <3>1. settled[s] # <<>> BY <2>2, <1>3, EmptySeq
    <3>2. L \in 1..Len(settled[s]) BY <2>2, <1>3
    <3>3. settled[s][L] \in Seq(Nat) BY <3>2, <1>3, ElementOfSeq
    <3>4. QED BY <2>2, <3>1, <3>3, <1>3 DEF WordsNow
  <2>3. QED BY <2>1, <2>2
<1>6. new \in Seq(Nat) /\ (L = 0 => new = <<>>)
  <2>1. Append(old, m.text) \in Seq(Nat) BY <1>1, <1>5, AppendProperties
  <2>2. new \in Seq(Nat) BY <2>1, <1>5
  <2>3. L = 0 => m.phase # "segment" BY <1>4
  <2>4. QED BY <2>2, <2>3, <1>5
<1> HIDE DEF old
<1>7. /\ log' = [log EXCEPT ![s] = Append(log[s], m)] /\ table' = [table EXCEPT ![s] = m]
      /\ settled' = [settled EXCEPT ![s] = Append(settled[s], new)]
  BY DEF old
<1> HIDE DEF new
<1>8. /\ Append(log[s], m) \in Seq(Msg) /\ Len(Append(log[s], m)) = L + 1
      /\ \A i \in 1..L : Append(log[s], m)[i] = log[s][i]
      /\ Append(log[s], m)[L + 1] = m
  BY <1>1, <1>3, AppendProperties
<1>9. /\ Append(settled[s], new) \in Seq(Seq(Nat)) /\ Len(Append(settled[s], new)) = L + 1
      /\ \A i \in 1..L : Append(settled[s], new)[i] = settled[s][i]
      /\ Append(settled[s], new)[L + 1] = new /\ Append(settled[s], new) # <<>>
  <2> DEFINE S == Seq(Nat)
  <2> HIDE DEF S
  <2>1. new \in S /\ settled[s] \in Seq(S) BY <1>3, <1>6 DEF S
  <2>2. Append(settled[s], new) \in Seq(S) /\ Append(settled[s], new) # <<>>
        /\ Len(Append(settled[s], new)) = Len(settled[s]) + 1
        /\ (\A i \in 1..Len(settled[s]) : Append(settled[s], new)[i] = settled[s][i])
        /\ Append(settled[s], new)[Len(settled[s]) + 1] = new
    BY <2>1, AppendProperties
  <2>3. QED BY <2>2, <1>3 DEF S
<1>10. /\ log' \in [Sessions -> Seq(Msg)] /\ log'[s] = Append(log[s], m)
       /\ \A t \in Sessions : t # s => log'[t] = log[t]
  BY <1>1, <1>2, <1>7, <1>8
<1>11. /\ settled' \in [Sessions -> Seq(Seq(Nat))] /\ settled'[s] = Append(settled[s], new)
       /\ \A t \in Sessions : t # s => settled'[t] = settled[t]
  <2> DEFINE S == Seq(Seq(Nat))
             e == Append(settled[s], new)
  <2> HIDE DEF S, e
  <2>1. settled \in [Sessions -> S] /\ e \in S /\ settled' = [settled EXCEPT ![s] = e] BY <1>2, <1>7, <1>9 DEF S, e
  <2>2. settled' \in [Sessions -> S] /\ settled'[s] = e /\ \A t \in Sessions : t # s => settled'[t] = settled[t]
    BY <2>1, <1>1
  <2>3. QED BY <2>2 DEF S, e
<1>12. /\ table' \in [Sessions -> Msg \cup {None}] /\ table'[s] = m
       /\ \A t \in Sessions : t # s => table'[t] = table[t]
  BY <1>1, <1>2, <1>7
<1> DEFINE lg == log'[s]
           st == settled'[s]
<1>13. /\ Len(lg) = L + 1 /\ Len(st) = L + 1 /\ st # <<>> /\ lg # <<>>
       /\ \A i \in 1..L : lg[i] = log[s][i] /\ st[i] = settled[s][i]
       /\ lg[L + 1] = m /\ st[L + 1] = new
  <2>1. lg # <<>>
    <3>1. ASSUME lg = <<>> PROVE FALSE
      <4>1. L + 1 = 0 BY <3>1, <1>8, <1>10, EmptySeq
      <4>2. QED BY <4>1, <1>3
    <3>2. QED BY <3>1
  <2>2. QED BY <2>1, <1>8, <1>9, <1>10, <1>11
<1>14. LogInv(s)'
  <2>1. Len(st) = Len(lg) BY <1>13
  <2>2. table'[s] = IF lg = <<>> THEN None ELSE lg[Len(lg)] BY <1>12, <1>13
  <2>3. \A i \in 1..Len(lg) : lg[i].id = s /\ lg[i].seq = i - 1 /\ (lg[i].phase = "started" <=> i = 1)
    <3>0. \A j \in 1..Len(log[s]) :
             log[s][j].id = s /\ log[s][j].seq = j - 1 /\ (log[s][j].phase = "started" <=> j = 1)
      BY <1>2 DEF LogInv
    <3> TAKE i \in 1..Len(lg)
    <3>1. CASE i \in 1..L
      <4>1. log[s][i].id = s /\ log[s][i].seq = i - 1 /\ (log[s][i].phase = "started" <=> i = 1) BY <3>0, <3>1
      <4>2. QED BY <4>1, <3>1, <1>13
    <3>2. CASE i = L + 1 BY <3>2, <1>3, <1>4, <1>13
    <3>3. QED BY <3>1, <3>2, <1>3, <1>13
  <2>4. st[1] = <<>>
    <3>1. CASE L = 0 BY <3>1, <1>6, <1>13
    <3>2. CASE L # 0
      <4>1. log[s] # <<>> BY <3>2, EmptySeq
      <4>2. 1 \in 1..L BY <3>2, <1>3
      <4>3. QED BY <4>1, <4>2, <1>2, <1>13 DEF LogInv
    <3>3. QED BY <3>1, <3>2
  <2>5. \A i \in 1..Len(lg) : i > 1 =>
          st[i] = IF lg[i].phase = "segment" THEN Append(st[i - 1], lg[i].text) ELSE st[i - 1]
    <3> TAKE i \in 1..Len(lg)
    <3> HAVE i > 1
    <3>1. CASE i \in 1..L
      <4>1. i - 1 \in 1..L BY <3>1
      <4>2. settled[s][i] = IF log[s][i].phase = "segment" THEN Append(settled[s][i - 1], log[s][i].text)
                            ELSE settled[s][i - 1]
        BY <3>1, <1>2, EntryIs, SMTT(30)
      <4>3. QED BY <4>1, <4>2, <3>1, <1>13
    <3>2. CASE i = L + 1
      <4>1. i - 1 \in 1..L /\ i - 1 = L /\ L # 0 BY <3>2, <1>3
      <4>2. st[i - 1] = old BY <4>1, <1>5, <1>13
      <4>3. st[i] = new /\ lg[i] = m BY <3>2, <1>13
      <4> HIDE DEF st, lg
      <4>4. QED BY <4>2, <4>3 DEF new
    <3>3. QED BY <3>1, <3>2, <1>3, <1>13
  <2>6. WordsNow(s)' = new BY <1>13 DEF WordsNow
  <2>7. \A i \in 1..Len(lg) : IsPrefix(st[i], new)
    <3> TAKE i \in 1..Len(lg)
    <3>1. CASE i \in 1..L
      <4>1. settled[s][i] \in Seq(Nat) BY <3>1, <1>3, ElementOfSeq
      <4>2. IsPrefix(settled[s][i], old) BY <3>1, <1>2, EntryIs DEF old
      <4>3. IsPrefix(settled[s][i], new) BY <4>1, <4>2, <1>1, <1>5, PrefixGrows DEF new
      <4>4. QED BY <4>3, <3>1, <1>13
    <3>2. CASE i = L + 1 BY <3>2, <1>6, <1>13, PrefixOfItself
    <3>3. QED BY <3>1, <3>2, <1>3, <1>13
  <2>8. QED BY <2>1, <2>2, <2>3, <2>4, <2>5, <2>6, <2>7 DEF LogInv
<1>15. ASSUME NEW t \in Sessions PROVE LogInv(t)'
  <2>1. CASE t = s BY <2>1, <1>14
  <2>2. CASE t # s
    <3>1. log'[t] = log[t] /\ settled'[t] = settled[t] /\ table'[t] = table[t] BY <2>2, <1>10, <1>11, <1>12
    <3>2. LogInv(t) BY DEF LiveInv
    <3>3. QED BY <3>1, <3>2 DEF LogInv, WordsNow
  <2>3. QED BY <2>1, <2>2
<1>16. ASSUME NEW t \in Sessions
       PROVE  /\ Len(log[t]) \in Nat /\ Len(log[t]) <= Len(log'[t]) /\ Len(log'[t]) \in Nat
              /\ \A i \in 1..Len(log[t]) : log'[t][i] = log[t][i] /\ settled'[t][i] = settled[t][i]
              /\ \A i \in 1..Len(log'[t]) : log'[t][i] = m \/ \E j \in 1..Len(log[t]) : log'[t][i] = log[t][j]
  <2>1. CASE t = s
    <3>1. \A i \in 1..(L + 1) : i \in 1..L \/ i = L + 1 BY <1>3
    <3>2. QED BY <2>1, <3>1, <1>3, <1>13
  <2>2. CASE t # s
    <3>1. log'[t] = log[t] /\ settled'[t] = settled[t] BY <2>2, <1>10, <1>11
    <3>2. Len(log[t]) \in Nat /\ Len(log[t]) <= Len(log[t])
      <4>1. log[t] \in Seq(Msg) BY <1>2
      <4>2. QED BY <4>1
    <3>3. \A i \in 1..Len(log[t]) : \E j \in 1..Len(log[t]) : log[t][i] = log[t][j] OBVIOUS
    <3>4. QED BY <3>1, <3>2, <3>3, Zenon
  <2>3. QED BY <2>1, <2>2
<1>17. Stored(m)'
  <2>1. m.seq + 1 \in 1..Len(lg) /\ lg[m.seq + 1] = m BY <1>3, <1>4, <1>13
  <2>2. QED BY <2>1 DEF Stored
<1>18. QED BY <1>10, <1>11, <1>12, <1>15, <1>16, <1>17

LEMMA CommitKeeps == ASSUME LiveInv, LiveAssumption, NEW v \in running, Commit(v) PROVE LiveInv'
<1> DEFINE m == v.m
<1>1. v \in Commits /\ v.stage = "commit" /\ m \in Msg /\ m.id \in Sessions
  BY DEF LiveInv, RouteTypes, Commit, Step, Commits, Msg
<1>2. UNCHANGED <<sender, removed, deaths, receiver>> BY DEF Commit
<1>3. CASE ~ Still(v)
  <2>1. SendBack(v, "refused") /\ Ends(v) /\ UNCHANGED <<table, log, settled>> BY <1>3 DEF Commit
  <2>2. running' \subseteq running \cup {v} /\ UNCHANGED <<sender, removed, table, log, settled, receiver>>
    BY <2>1, <1>2 DEF Ends
  <2>3. Follows(v.m, v.prev) /\ (v.prev # None => v.prev.id = v.m.id) BY <1>1 DEF LiveInv, CommitInv
  <2>4. QED BY <1>1, <2>1, <2>2, <2>3, SentBack, InvocationRests
<1>4. CASE Still(v)
  <2> DEFINE w == [m |-> m, conn |-> v.conn, stage |-> "notify"]
  <2>1. /\ log' = [log EXCEPT ![v.m.id] = Append(@, v.m)] /\ table' = [table EXCEPT ![v.m.id] = v.m]
        /\ settled' = [settled EXCEPT ![v.m.id] =
              Append(@, IF v.m.phase = "segment" THEN Append(WordsNow(v.m.id), v.m.text) ELSE WordsNow(v.m.id))]
        /\ running' = (running \ {v}) \cup {w} /\ answers' = answers
    BY <1>4 DEF Commit, Becomes
  <2>2. /\ table' \in [Sessions -> Msg \cup {None}] /\ log' \in [Sessions -> Seq(Msg)]
        /\ settled' \in [Sessions -> Seq(Seq(Nat))]
        /\ \A s \in Sessions : LogInv(s)'
        /\ \A s \in Sessions : Len(log[s]) \in Nat /\ Len(log[s]) <= Len(log'[s]) /\ Len(log'[s]) \in Nat
        /\ \A s \in Sessions : \A i \in 1..Len(log[s]) : log'[s][i] = log[s][i] /\ settled'[s][i] = settled[s][i]
        /\ Stored(m)'
        /\ \A s \in Sessions : \A i \in 1..Len(log'[s]) :
              log'[s][i] = m \/ \E j \in 1..Len(log[s]) : log'[s][i] = log[s][j]
    BY <1>1, <1>4, <2>1, Stores
  <2>3. UNCHANGED <<live, said, pipe, pending, up, conn, wire, failed, signed, private, selected, taken, asides,
                    inbox, online, shows, removed>> BY <1>2 DEF sender, receiver
  <2>4. w \in Step /\ w.m = m /\ w.stage = "notify" BY <1>1 DEF Step, Commits
  <2>5. SenderTypes' /\ ReceiverTypes' BY <2>3 DEF LiveInv, SenderTypes, ReceiverTypes, Chains
  <2>6. RouteTypes' BY <2>1, <2>2, <2>3, <2>4 DEF LiveInv, RouteTypes
  <2>7. \A s \in Sessions : 1..Len(log[s]) \subseteq 1..Len(log'[s]) BY <2>2
  <2>8. \A x \in Msg : Stored(x) => Stored(x)'
    <3> TAKE x \in Msg
    <3> HAVE Stored(x)
    <3>1. x.id \in Sessions /\ x.seq + 1 \in 1..Len(log[x.id]) /\ log[x.id][x.seq + 1] = x BY DEF Msg, Stored
    <3>2. x.seq + 1 \in 1..Len(log'[x.id]) /\ log'[x.id][x.seq + 1] = x BY <3>1, <2>2, <2>7
    <3>3. QED BY <3>2 DEF Stored
  <2>9. StoredInv'
    <3>1. \A u \in running' : u.stage = "notify" => Stored(u.m)'
      <4> TAKE u \in running'
      <4> HAVE u.stage = "notify"
      <4>1. CASE u = w BY <4>1, <2>2, <2>4
      <4>2. CASE u # w
        <5>1. u \in running /\ Stored(u.m) /\ u.m \in Msg BY <4>2, <2>1 DEF LiveInv, StoredInv, RouteTypes, Step, Commits
        <5>2. QED BY <5>1, <2>8
      <4>3. QED BY <4>1, <4>2
    <3>2. \A r \in Receivers : \A x \in inbox'[r] : Stored(x)'
      <4> TAKE r \in Receivers
      <4> TAKE x \in inbox'[r]
      <4>1. Stored(x) /\ x \in Msg BY <2>3 DEF LiveInv, StoredInv, ReceiverTypes
      <4>2. QED BY <4>1, <2>8
    <3>3. QED BY <3>1, <3>2 DEF StoredInv, Receivers
  <2>10. CommitInv' BY <2>1, <2>4 DEF LiveInv, CommitInv, Follows
  <2>11. ASSUME NEW r \in Receivers, NEW s \in Sessions PROVE ViewInv(r, s)'
    <3>1. ViewInv(r, s) /\ shows' = shows BY <2>3 DEF LiveInv
    <3>2. \A i \in 1..Len(log[s]) : i \in 1..Len(log'[s]) /\ settled'[s][i] = settled[s][i] BY <2>2, <2>7
    <3>3. QED BY <3>1, <3>2 DEF ViewInv
  <2>12. ASSUME asides = 0 PROVE UniqueInv'
    <3>1. UniqueInv BY <2>12 DEF LiveInv
    <3>2. KnownMsg' \subseteq KnownMsg
      <4> SUFFICES ASSUME NEW x \in KnownMsg' PROVE x \in KnownMsg OBVIOUS
      <4>1. x \in Msg /\ SentBefore(x)' BY DEF KnownMsg
      <4>2. SentBefore(m) BY DEF SentBefore
      <4>3. CASE \E s \in Sessions : \E i \in 1..Len(log'[s]) : log'[s][i] = x
        <5>1. PICK s \in Sessions : \E i \in 1..Len(log'[s]) : log'[s][i] = x BY <4>3
        <5>2. x = m \/ \E j \in 1..Len(log[s]) : log[s][j] = x BY <5>1, <2>2
        <5>3. SentBefore(x) BY <5>2, <4>2 DEF SentBefore
        <5>4. QED BY <4>1, <5>3 DEF KnownMsg
      <4>4. CASE ~ \E s \in Sessions : \E i \in 1..Len(log'[s]) : log'[s][i] = x
        <5>1. \A u \in running' : u.m = x => x = m \/ \E z \in running : z.m = x BY <2>1, <2>4
        <5>2. SentBefore(x) BY <4>1, <4>2, <4>4, <5>1, <2>3 DEF SentBefore, Chains
        <5>3. QED BY <4>1, <5>2 DEF KnownMsg
      <4>5. QED BY <4>3, <4>4
    <3>3. \A x \in KnownMsg : Numbered(x) => Numbered(x)' BY <2>3 DEF Numbered, Current, Ended
    <3>4. \A a \in answers' : a.kind = "ack" => Stored(a.m)'
      <4> TAKE a \in answers'
      <4> HAVE a.kind = "ack"
      <4>1. Stored(a.m) /\ a.m \in Msg BY <2>1, <3>1 DEF UniqueInv, LiveInv, RouteTypes
      <4>2. QED BY <4>1, <2>8
    <3>5. \A x \in taken' : Stored(x)'
      <4> TAKE x \in taken'
      <4>1. Stored(x) /\ x \in Msg BY <2>3, <3>1 DEF UniqueInv, LiveInv, SenderTypes
      <4>2. QED BY <4>1, <2>8
    <3>6. QED BY <3>1, <3>2, <3>3, <3>4, <3>5 DEF UniqueInv
  <2>13. QED BY <2>2, <2>3, <2>5, <2>6, <2>9, <2>10, <2>11, <2>12 DEF LiveInv
<1>5. QED BY <1>3, <1>4

-----------------------------------------------------------------------------
(* The receivers.                                                           *)

\* Receivers come and go, and read what is on its way to them.
LEMMA ReceiverRests ==
    ASSUME LiveInv, UNCHANGED <<sender, table, log, settled, running, answers>>,
           removed' \subseteq Receivers, ReceiverTypes',
           \A r \in Receivers : inbox'[r] \subseteq inbox[r],
           \A r \in Receivers, s \in Sessions : ViewInv(r, s)'
    PROVE  LiveInv'
<1>1. UNCHANGED <<live, said, pipe, pending, up, conn, wire, failed, signed, private, selected, taken, asides,
                  table, log, settled, running, answers>> BY DEF sender
<1>2. SenderTypes' BY <1>1 DEF LiveInv, SenderTypes, Chains
<1>3. RouteTypes' BY <1>1 DEF LiveInv, RouteTypes
<1>4. \A m : Stored(m)' <=> Stored(m) BY <1>1 DEF Stored
<1>5. \A s \in Sessions : LogInv(s)' BY <1>1 DEF LiveInv, LogInv, WordsNow
<1>6. StoredInv' BY <1>1, <1>4 DEF LiveInv, StoredInv
<1>7. CommitInv' BY <1>1 DEF LiveInv, CommitInv, Follows
<1>8. ASSUME asides = 0 PROVE UniqueInv'
  <2>1. UniqueInv BY <1>8 DEF LiveInv
  <2>2. KnownMsg' \subseteq KnownMsg BY <1>1 DEF KnownMsg, SentBefore, Chains, Msg, Receivers
  <2>3. \A m \in KnownMsg : Numbered(m) => Numbered(m)' BY <1>1 DEF Numbered, Current, Ended
  <2>4. \A a \in answers' : a.kind = "ack" => a \in answers \/ Stored(a.m) BY <1>1
  <2>5. \A m \in taken' : m \in taken \/ Stored(m) BY <1>1
  <2>6. QED BY <2>1, <2>2, <2>3, <2>4, <2>5, <1>1, NothingSent
<1>9. QED BY <1>1, <1>2, <1>3, <1>5, <1>6, <1>7, <1>8 DEF LiveInv

\* A receiver that is removed, leaves or comes back shows what it showed.
LEMMA ComesAndGoesKeeps ==
    ASSUME LiveInv, LiveAssumption, NEW r \in Receivers, RemoveDevice(r) \/ GoesOffline(r) \/ ComesBack(r)
    PROVE  LiveInv'
<1>1. UNCHANGED <<sender, table, log, settled, running, answers, shows>> /\ removed' \subseteq removed \cup {r}
      /\ inbox' \in {inbox, [inbox EXCEPT ![r] = {}]}
      /\ \E b \in BOOLEAN : online' = [online EXCEPT ![r] = b]
  BY DEF RemoveDevice, GoesOffline, ComesBack, route
<1>2. removed' \subseteq Receivers BY <1>1 DEF LiveInv, RouteTypes
<1>3. ReceiverTypes' /\ \A q \in Receivers : inbox'[q] \subseteq inbox[q] BY <1>1 DEF LiveInv, ReceiverTypes
<1>4. \A q \in Receivers, s \in Sessions : ViewInv(q, s)' BY <1>1 DEF LiveInv, ViewInv
<1>5. QED BY <1>1, <1>2, <1>3, <1>4, ReceiverRests

LEMMA UnseenIs == Unseen \in View /\ Unseen.text = <<>> /\ ~ Unseen.known
BY DEF Unseen, View

\* A message that is on its way to a receiver keeps the view of its session whole.
LEMMA ShowsWhole ==
    ASSUME LiveInv, NEW r \in Receivers, NEW m \in inbox[r], NEW w, w = Shows(r, m)
    PROVE  /\ w \in View /\ w.known /\ w.seq + 1 \in 1..Len(log[m.id])
           /\ r \in Browsers /\ ~ w.missing => w.text = settled[m.id][w.seq + 1]
<1> DEFINE s == m.id
           v == shows[r][s]
           n == m.seq + 1
<1>1. m \in Msg /\ s \in Sessions /\ m.seq \in Nat /\ m.text \in Nat /\ Stored(m)
  BY DEF LiveInv, ReceiverTypes, StoredInv, Msg
<1>2. v \in View /\ v.text \in Seq(Nat) /\ v.seq \in Nat BY <1>1 DEF LiveInv, ReceiverTypes, View
<1>3. n \in 1..Len(log[s]) /\ log[s][n] = m BY <1>1 DEF Stored
<1>4. LogInv(s) BY <1>1 DEF LiveInv
<1>5. ViewInv(r, s) BY <1>1 DEF LiveInv
<1>6. Append(v.text, m.text) \in Seq(Nat) BY <1>1, <1>2, AppendProperties
<1>7. /\ w.seq = m.seq /\ w.known
      /\ w.text = IF m.phase = "segment" THEN Append(v.text, m.text) ELSE v.text
      /\ w.missing = (r \in Browsers /\ (v.missing \/ IF v.known THEN m.seq # v.seq + 1 ELSE m.phase # "started"))
  BY DEF Shows
<1>8. w \in View
  <2> DEFINE text == IF m.phase = "segment" THEN Append(v.text, m.text) ELSE v.text
             partial == IF m.phase = "partial" THEN m.text ELSE IF m.phase = "started" THEN v.partial ELSE 0
             missing == r \in Browsers /\ (v.missing \/ IF v.known THEN m.seq # v.seq + 1 ELSE m.phase # "started")
  <2>1. text \in Seq(Nat) BY <1>2, <1>6
  <2>2. partial \in Nat BY <1>1, <1>2 DEF View
  <2>3. missing \in BOOLEAN BY <1>2 DEF View
  <2>4. w = [seq |-> m.seq, known |-> TRUE, missing |-> missing, text |-> text, partial |-> partial] BY DEF Shows
  <2> HIDE DEF text, partial, missing
  <2>5. QED BY <1>1, <2>1, <2>2, <2>3, <2>4 DEF View
<1>9. ASSUME r \in Browsers, ~ w.missing PROVE w.text = settled[s][n]
  <2>1. ~ v.missing /\ (IF v.known THEN m.seq = v.seq + 1 ELSE m.phase = "started") BY <1>7, <1>9
  <2>2. CASE v.known
    <3>1. m.seq = v.seq + 1 /\ n > 1 /\ n - 1 = v.seq + 1 BY <1>1, <1>2, <2>1, <2>2
    <3>2. v.text = settled[s][n - 1] BY <3>1, <2>1, <2>2, <1>5, <1>9 DEF ViewInv
    <3>3. settled[s][n] = IF m.phase = "segment" THEN Append(settled[s][n - 1], m.text) ELSE settled[s][n - 1]
      <4>1. \A i \in 1..Len(log[s]) : i > 1 =>
               settled[s][i] = IF log[s][i].phase = "segment" THEN Append(settled[s][i - 1], log[s][i].text)
                               ELSE settled[s][i - 1]
        BY <1>4 DEF LogInv
      <4>2. settled[s][n] = IF log[s][n].phase = "segment" THEN Append(settled[s][n - 1], log[s][n].text)
                            ELSE settled[s][n - 1]
        BY <4>1, <3>1, <1>3
      <4>3. QED BY <4>2, <1>3
    <3>4. QED BY <3>2, <3>3, <1>7
  <2>3. CASE ~ v.known
    <3>1. n = 1 /\ m.phase = "started" BY <2>1, <2>3, <1>3, <1>4, EntryIs
    <3>2. log[s] # <<>> BY <1>3
    <3>3. settled[s][n] = <<>> BY <3>1, <3>2, <1>4 DEF LogInv
    <3>4. v.text = <<>> BY <2>3, <1>5 DEF ViewInv
    <3>5. QED BY <3>1, <3>3, <3>4, <1>7
  <2>4. QED BY <2>2, <2>3
<1>10. QED BY <1>3, <1>7, <1>8, <1>9

LEMMA ReceiveKeeps ==
    ASSUME LiveInv, LiveAssumption, NEW r \in Receivers, NEW m \in inbox[r], Receive(r, m)
    PROVE  LiveInv'
<1>1. UNCHANGED <<sender, removed, table, log, settled, running, answers, deaths, online>>
      /\ inbox' = [inbox EXCEPT ![r] = @ \ {m}]
  BY DEF Receive, route
<1>2. removed' \subseteq Receivers BY <1>1 DEF LiveInv, RouteTypes
<1>3. PICK w : w = Shows(r, m) OBVIOUS
<1>4. /\ w \in View /\ w.known /\ w.seq + 1 \in 1..Len(log[m.id])
      /\ r \in Browsers /\ ~ w.missing => w.text = settled[m.id][w.seq + 1]
  BY <1>3, ShowsWhole
<1> DEFINE mine == [s \in Sessions |-> IF s \in Forgotten(r, m) THEN Unseen ELSE IF s = m.id THEN Shows(r, m) ELSE shows[r][s]]
<1>5. shows' = shows \/ shows' = [shows EXCEPT ![r] = mine] BY DEF Receive
<1>6. mine \in [Sessions -> View]
      /\ \A s \in Sessions : mine[s] = Unseen \/ (s = m.id /\ mine[s] = w) \/ mine[s] = shows[r][s]
  BY <1>3, <1>4, UnseenIs DEF LiveInv, ReceiverTypes
<1> HIDE DEF mine
<1>7. ReceiverTypes' /\ \A q \in Receivers : inbox'[q] \subseteq inbox[q]
  BY <1>1, <1>5, <1>6 DEF LiveInv, ReceiverTypes
<1>8. ASSUME NEW q \in Receivers, NEW s \in Sessions PROVE ViewInv(q, s)'
  <2>1. ViewInv(q, s) /\ log' = log /\ settled' = settled BY <1>1 DEF LiveInv
  <2>2. CASE shows'[q][s] = shows[q][s] BY <2>1, <2>2 DEF ViewInv
  <2>3. CASE shows'[q][s] = Unseen BY <2>1, <2>3, UnseenIs DEF ViewInv
  <2>4. CASE q = r /\ s = m.id /\ shows'[q][s] = w BY <2>1, <2>4, <1>4 DEF ViewInv
  <2>5. QED BY <2>2, <2>3, <2>4, <1>5, <1>6 DEF LiveInv, ReceiverTypes
<1>9. QED BY <1>1, <1>2, <1>7, <1>8, ReceiverRests

-----------------------------------------------------------------------------
(* Every step.                                                              *)

LEMMA LiveBegins == LiveAssumption /\ LiveInit => LiveInv
<1>1. SUFFICES ASSUME LiveAssumption, LiveInit PROVE LiveInv OBVIOUS
<1>2. \A n \in Nat : 0 \in 0..(n + 1) OBVIOUS
<1>3. <<>> \in Seq(Msg) /\ <<>> \in Seq(Seq(Nat)) /\ Len(<<>>) = 0 BY EmptySeq
<1>4. SenderTypes
  <2>1. MaxSaid \in Nat /\ Capacity \in Nat BY <1>1 DEF LiveAssumption
  <2>2. said \in [Sessions -> 0..(MaxSaid + 1)] BY <1>1, <1>2, <2>1 DEF LiveInit
  <2>3. pipe \in [Chains -> Seq(Msg)] /\ pending \in [Chains -> Msg \cup {None}] BY <1>1, <1>3 DEF LiveInit
  <2>4. Native => Len(pipe[0]) <= Capacity
    <3>1. Native => pipe[0] = <<>> BY <1>1 DEF LiveInit, Chains
    <3>2. QED BY <3>1, <2>1, <1>3
  <2>5. QED BY <1>1, <2>2, <2>3, <2>4 DEF LiveInit, SenderTypes
<1>5. RouteTypes BY <1>1, <1>3 DEF LiveInit, RouteTypes
<1>6. ReceiverTypes BY <1>1, UnseenIs DEF LiveInit, ReceiverTypes
<1>7. \A s \in Sessions : log[s] = <<>> /\ Len(log[s]) = 0 /\ settled[s] = <<>> /\ table[s] = None
  BY <1>1, <1>3 DEF LiveInit
<1>8. ASSUME NEW s \in Sessions PROVE LogInv(s)
  <2>1. 1..Len(log[s]) = {} BY <1>7
  <2>2. Len(settled[s]) = Len(log[s]) BY <1>7
  <2>3. QED BY <2>1, <2>2, <1>7 DEF LogInv
<1>9. StoredInv /\ CommitInv BY <1>1 DEF LiveInit, StoredInv, CommitInv
<1>10. \A r \in Receivers, s \in Sessions : ViewInv(r, s) BY <1>1, UnseenIs DEF LiveInit, ViewInv
<1>11. UniqueInv
  <2>1. ASSUME NEW m \in KnownMsg PROVE FALSE
    <3>1. m \in Msg /\ SentBefore(m) BY DEF KnownMsg
    <3>2. m # None BY <3>1, <1>1 DEF Msg, None, LiveAssumption
    <3>3. \A c \in Chains : 1..Len(pipe[c]) = {} /\ pending[c] = None BY <1>1, <1>3 DEF LiveInit
    <3>4. \A s \in Sessions : 1..Len(log[s]) = {} BY <1>7
    <3>5. running = {} BY <1>1 DEF LiveInit
    <3>6. QED BY <3>1, <3>2, <3>3, <3>4, <3>5 DEF SentBefore
  <2>2. QED BY <2>1, <1>1 DEF UniqueInv, LiveInit
<1>12. QED BY <1>4, <1>5, <1>6, <1>8, <1>9, <1>10, <1>11 DEF LiveInv

LEMMA LiveSteps == LiveAssumption /\ LiveInv /\ [LiveNext]_liveVars => LiveInv'
<1> SUFFICES ASSUME LiveAssumption, LiveInv, [LiveNext]_liveVars PROVE LiveInv' OBVIOUS
<1>1. CASE Speaker BY <1>1, PreviewKeeps, SettleKeeps, BeginKeeps, FinishKeeps, CancelKeeps, IncognitoKeeps, ReturnKeeps DEF Speaker
<1>2. CASE Wire BY <1>2, ConnectKeeps, TakeKeeps, BreakKeeps, GiveUpKeeps, WireEndsKeeps, WireAnswersKeeps DEF Wire
<1>3. CASE Route BY <1>3, CheckKeeps, CommitKeeps, NotifyKeeps DEF Route
<1>4. CASE Receiving BY <1>4, ReceiveKeeps DEF Receiving
<1>5. CASE Around BY <1>5, BreakKeeps, DiesKeeps, ComesAndGoesKeeps DEF Around
<1>6. CASE UNCHANGED liveVars
  <2>1. UNCHANGED <<sender, table, log, settled, running, answers, removed, inbox, online, shows>>
    BY <1>6 DEF liveVars, route, receiver
  <2>2. removed' \subseteq Receivers BY <2>1 DEF LiveInv, RouteTypes
  <2>3. ReceiverTypes' BY <2>1 DEF LiveInv, ReceiverTypes
  <2>4. \A r \in Receivers, s \in Sessions : ViewInv(r, s)' BY <2>1 DEF LiveInv, ViewInv
  <2>5. QED BY <2>1, <2>2, <2>3, <2>4, ReceiverRests
<1>7. QED BY <1>1, <1>2, <1>3, <1>4, <1>5, <1>6 DEF LiveNext

\* What every reachable state of live words keeps, however often connections break, invocations end without an
\* answer and Incognito comes in between: every other theorem follows from it.
THEOREM LiveInvariant == LiveTextSpec => []LiveInv
<1>1. LiveInit => LiveInv BY LiveBegins, LiveAssumed
<1>2. LiveInv /\ [LiveNext]_liveVars => LiveInv' BY LiveSteps, LiveAssumed
<1>3. QED BY <1>1, <1>2, PTL DEF LiveTextSpec

\* Types, and the channel of the desktop, which never holds more than its capacity (account_controller.rs).
THEOREM LiveTypeCorrect == LiveTextSpec => []LiveTypeOK
<1>1. LiveInv => LiveTypeOK
  <2>1. SUFFICES ASSUME LiveInv PROVE LiveTypeOK OBVIOUS
  <2>2. \A r \in Receivers, s \in Sessions : shows[r][s].missing \in BOOLEAN BY <2>1 DEF LiveInv, ReceiverTypes, View
  <2>3. QED BY <2>1, <2>2, LiveAssumed DEF LiveInv, SenderTypes, RouteTypes, LiveTypeOK
<1>2. QED BY <1>1, LiveInvariant, PTL

\* Live words: nothing is shown twice, out of order or with a gap, nothing is stored so, and, unless Incognito
\* came in between, nothing is dropped behind an acknowledgement (account_controller.rs, wire.mjs, service.mjs).
THEOREM WordsWhole == LiveTextSpec => []LiveWordsAreWhole
<1>1. LiveInv => LiveWordsAreWhole
  <2>1. SUFFICES ASSUME LiveInv PROVE LiveWordsAreWhole OBVIOUS
  <2>2. DOMAIN log = Sessions BY <2>1 DEF LiveInv, RouteTypes
  <2>3. ASSUME NEW r \in Browsers, NEW s \in Sessions, ~ shows[r][s].missing
        PROVE  IsPrefix(shows[r][s].text, WordsNow(s))
    <3>1. LogInv(s) /\ ViewInv(r, s) /\ r \in Receivers BY <2>1 DEF LiveInv, Receivers
    <3>2. CASE shows[r][s].known
      <4>1. shows[r][s].seq + 1 \in 1..Len(log[s]) /\ shows[r][s].text = settled[s][shows[r][s].seq + 1]
        BY <3>1, <3>2, <2>3 DEF ViewInv
      <4>2. QED BY <3>1, <4>1, EntryIs
    <3>3. CASE ~ shows[r][s].known
      <4>1. shows[r][s].text = <<>> BY <3>1, <3>3 DEF ViewInv
      <4>2. settled[s] \in Seq(Seq(Nat)) BY <2>1 DEF LiveInv, RouteTypes
      <4>3. WordsNow(s) \in Seq(Nat)
        <5>1. CASE settled[s] = <<>> BY <5>1, EmptySeq DEF WordsNow
        <5>2. CASE settled[s] # <<>>
          <6>1. Len(settled[s]) \in 1..Len(settled[s]) BY <5>2, <4>2, EmptySeq
          <6>2. settled[s][Len(settled[s])] \in Seq(Nat) BY <6>1, <4>2, ElementOfSeq
          <6>3. QED BY <5>2, <6>2 DEF WordsNow
        <5>3. QED BY <5>1, <5>2
      <4>4. QED BY <4>1, <4>3, PrefixOfItself
    <3>4. QED BY <3>2, <3>3
  <2>4. ShownWordsAreWhole BY <2>2, <2>3 DEF ShownWordsAreWhole
  <2>5. SequenceIsKept
    <3>1. \A s \in Sessions : LogInv(s) BY <2>1 DEF LiveInv
    <3>2. QED BY <2>2, <3>1, EntryIs DEF SequenceIsKept
  <2>6. asides = 0 => AcknowledgedIsStored BY <2>1 DEF LiveInv, UniqueInv, Stored, AcknowledgedIsStored
  <2>7. QED BY <2>4, <2>5, <2>6 DEF LiveWordsAreWhole
<1>2. QED BY <1>1, LiveInvariant, PTL

-----------------------------------------------------------------------------
(* A phone recording: the file holds the chunks in order, a stopped        *)
(* recording is complete, it is recognised once, and the phone keeps its   *)
(* copy until then.                                                        *)

Kinds == {"free", "start", "status", "audio", "stop", "cancel", "job", "upload"}
Phases == {"", "error", "starting", "none", "processing", "preparing", "recording", "completed", "failed", "cancelled"}
Places == {"idle", "starting", "recording", "finishing", "stopping", "cancelling", "leaving", "kept", "asking",
           "uploading", "waiting", "done", "gone"}
Calling == [kind : Kinds, seq : Nat, phase : Phases, next : Nat]

Pages == [at : Places, made : Nat, sequence : Nat, tries : Nat, failed : BOOLEAN, stopped : BOOLEAN,
          live : BOOLEAN, stored : BOOLEAN]
Desks == [up : {"off", "starting", "ready"}, phase : {"preparing", "recording", "completed", "failed", "cancelled",
          "none", "processing"}, sequence : Nat, by : {"none", "phone", "desk", "watch", "limit"}]
PhoneTypes ==
    /\ page \in Pages /\ queue \in Seq(Nat) /\ calls \in [Slot -> Calling] /\ desk \in Desks
    /\ quiet \in [sound : Nat, on : Nat]
    /\ reply \in {"none", "completed"} /\ job \in {"none", "processing", "completed", "failed"}
    /\ words \in Seq({"live", "inbox"})
    /\ queue = <<>> => calls["chunk"] = NoCall

PageEnded == page.at \notin {"idle", "starting", "recording"}

\* A page that records has numbered every chunk, and so has one that did not fail; what it stored is left of
\* a recording that was begun.
Numbering ==
    /\ ~ PageEnded => ~ page.failed /\ ~ page.stopped
    /\ page.at \in {"idle", "starting"} => queue = <<>> /\ calls["poll"] = NoCall
    /\ ~ page.failed => page.sequence = page.made
    /\ page.at \in {"idle", "starting", "leaving", "recording", "gone"} => ~ page.stored
    /\ IncognitoPhone => page.live

\* Stop carries the count of all chunks, and comes after the last one.
Counting == \A s \in Slot : calls[s].kind = "stop" => calls[s].seq = page.made /\ PageEnded
StoppedByPhone == desk.by = "phone" /\ desk.phase \in {"processing", "completed"}
StopCounts == StoppedByPhone => desk.sequence = page.made /\ PageEnded

\* A recording that is over for the desktop, for a request or for the job has its words.
Worded ==
    /\ desk.phase = "completed" \/ reply = "completed" \/ job = "completed" \/ page.at = "done" => words # <<>>
    /\ \A s \in Slot : calls[s].phase = "completed" => words # <<>>

\* A request to start may yet begin a recording.
Begins(s) == calls[s].kind = "start" /\ calls[s].phase \in {"", "starting"}
\* Nothing was begun yet, and one request at most may begin it.
Fresh == desk.phase = "none" /\ words = <<>> /\ job # "processing" /\ \A t \in Slot : calls[t].kind # "upload"
Beginning ==
    /\ page.at = "idle" => Fresh /\ \A s \in Slot : ~ Begins(s)
    /\ \A s \in Slot : Begins(s) => Fresh /\ s \in {"main", "stray"} /\ \A t \in Slot : Begins(t) => t = s
    /\ \A s \in Slot : calls[s].phase = "starting" => calls[s].kind = "start"
    /\ Begins("main") => page.at = "starting"
    /\ Begins("stray") => page.at \in {"starting", "leaving", "gone"}
                          /\ (page.at = "starting" => calls["main"].phase = "error")

\* Words come from the desktop while it works, or from the job, never from both.
Recognising ==
    /\ desk.phase # "none" => desk.up = "ready"
    /\ desk.phase \in Live \cup {"processing"} => words = <<>>
    /\ job = "processing" => words = <<>> /\ desk.phase \in {"none", "failed", "cancelled"}
    /\ \A s \in Slot : calls[s].kind = "upload" => ~ IncognitoPhone
    /\ RecognisedOnce

PhoneInv == PhoneTypes /\ Numbering /\ SoundIsWhole /\ Counting /\ StopCounts /\ Worded /\ Beginning /\ Recognising

-----------------------------------------------------------------------------
(* What the helpers do to a page: a recording may end, and nothing begins.  *)

Turned(p, q) ==
    /\ q \in Pages /\ q.made = p.made /\ q.sequence = p.sequence /\ q.live = p.live
    /\ q.at = p.at \/ (p.at = "recording" /\ q.at = "finishing")
    /\ q.at = "recording" => q.failed = p.failed /\ q.stopped = p.stopped
    /\ p.failed => q.failed
    /\ p.at # "recording" \/ q.at = "recording" => q.stored = p.stored

LEMMA FailsTurns == ASSUME NEW p \in Pages PROVE Turned(p, Fails(p)) /\ Fails(p).failed
BY DEF Pages, Places, Turned, Fails

LEMMA StopsTurns == ASSUME NEW p \in Pages PROVE Turned(p, Stops(p)) /\ Stops(p).failed = p.failed
BY DEF Pages, Places, Turned, Stops

LEMMA ObservesTurns == ASSUME NEW p \in Pages, NEW phase PROVE Turned(p, Observes(p, phase))
<1>1. CASE phase \in {"processing", "completed"}
  BY <1>1 DEF Pages, Places, Turned, Observes, Stops
<1>2. CASE phase \notin {"processing", "completed"} BY <1>2, FailsTurns DEF Pages, Places, Turned, Observes
<1>3. QED BY <1>1, <1>2

\* Turning a page twice, and counting its tries, turns it.
LEMMA TurnsAgain ==
    ASSUME NEW p \in Pages, NEW q, NEW r, Turned(p, q), Turned(q, r) PROVE Turned(p, r)
BY DEF Turned, Pages

LEMMA TriesTurn == ASSUME NEW p \in Pages, NEW n \in Nat PROVE Turned(p, [p EXCEPT !.tries = n])
BY DEF Turned, Pages

-----------------------------------------------------------------------------
(* What a step does to the page and to the calls.                           *)

\* Answers arrive or are given up; nothing is asked.
Answers(phase) ==
    /\ calls' \in [Slot -> Calling]
    /\ \A t \in Slot :
        \/ calls'[t] = calls[t] \/ calls'[t] = NoCall
        \/ /\ t # "stray" /\ calls'[t].kind = calls[t].kind /\ calls'[t].seq = calls[t].seq
           /\ calls'[t].phase = phase /\ (Sent(t) \/ phase = "error")

LEMMA RepliesAnswer ==
    ASSUME PhoneTypes, NEW s \in Slot, Sent(s), NEW phase \in Phases \ {""}, NEW n \in Nat, Replies(s, phase, n)
    PROVE  /\ Answers(phase) /\ \A t \in Slot \ {s} : calls'[t] = calls[t]
           /\ calls'[s] = NoCall \/ (calls'[s].phase = phase /\ calls'[s].kind = calls[s].kind)
<1>1. calls \in [Slot -> Calling] /\ calls[s] \in Calling BY DEF PhoneTypes
<1>2. NoCall \in Calling BY DEF NoCall, Calling, Kinds, Phases
<1>3. CASE s = "stray" BY <1>1, <1>2, <1>3 DEF Replies, Answers
<1>4. CASE s # "stray"
  <2>1. PICK c \in Calling : c = calls[s] BY <1>1
  <2>2. PICK d \in Calling : d = [c EXCEPT !.phase = phase] BY DEF Calling
  <2>3. d.kind = c.kind /\ d.seq = c.seq /\ d.phase = phase BY <2>2 DEF Calling
  <2>4. PICK e \in Calling : e = [d EXCEPT !.next = n] BY DEF Calling
  <2>5. e.kind = d.kind /\ e.seq = d.seq /\ e.phase = d.phase BY <2>4 DEF Calling
  <2>6. calls' = [calls EXCEPT ![s] = e] BY <1>4, <2>1, <2>2, <2>4 DEF Replies
  <2>7. QED BY <1>1, <1>4, <2>1, <2>3, <2>5, <2>6 DEF Answers
<1>5. QED BY <1>3, <1>4

\* One request takes the place of an answered one.
LEMMA AskingCalls ==
    ASSUME PhoneTypes, NEW s \in Slot, NEW kind \in Kinds, NEW seq \in Nat, Asks(s, Call(kind, seq))
    PROVE  /\ calls' \in [Slot -> Calling] /\ \A t \in Slot : t # s => calls'[t] = calls[t]
           /\ calls'[s] = [kind |-> kind, seq |-> seq, phase |-> "", next |-> 0]
BY DEF PhoneTypes, Asks, Call, Calling, Phases
LEMMA FreesCalls ==
    ASSUME PhoneTypes, NEW s \in Slot, Asks(s, NoCall)
    PROVE  Answers("error") /\ calls'[s] = NoCall
BY DEF PhoneTypes, Asks, NoCall, Calling, Phases, Kinds, Answers

LEMMA LostCalls ==
    ASSUME PhoneTypes, NEW s \in Slot, Lost(s)
    PROVE  /\ s # "stray" /\ calls' \in [Slot -> Calling]
           /\ \A t \in Slot \ {s, "stray"} : calls'[t] = calls[t]
           /\ calls'[s].kind = calls[s].kind /\ calls'[s].seq = calls[s].seq /\ calls'[s].phase = "error"
           /\ \/ calls'["stray"] = calls["stray"]
              \/ Sent(s) /\ calls["stray"] = NoCall /\ calls'["stray"] = calls[s]
<1>1. PICK on \in BOOLEAN :
         /\ s # "stray" /\ (on => Sent(s) /\ calls["stray"] = NoCall)
         /\ calls' = [calls EXCEPT ![s].phase = "error", !["stray"] = IF on THEN calls[s] ELSE @]
  BY DEF Lost
<1>2. calls[s] \in Calling /\ "stray" \in Slot BY DEF PhoneTypes, Slot
<1>3. [calls[s] EXCEPT !.phase = "error"]
        = [kind |-> calls[s].kind, seq |-> calls[s].seq, phase |-> "error", next |-> calls[s].next]
  BY <1>2 DEF Calling
<1>4. [calls[s] EXCEPT !.phase = "error"] \in Calling BY <1>2, <1>3 DEF Calling, Phases
<1>5. CASE on BY <1>1, <1>2, <1>3, <1>4, <1>5 DEF PhoneTypes
<1>6. CASE ~ on BY <1>1, <1>2, <1>3, <1>4, <1>6 DEF PhoneTypes
<1>7. QED BY <1>5, <1>6

-----------------------------------------------------------------------------
(* Types.                                                                   *)

LEMMA PhonePageTypes ==
    ASSUME PhoneTypes, Record \/ Chunk \/ Stop \/ Retry \/ Phone
    PROVE  PhoneTypes'
<1> USE DEF desktop, companion
<1>1. SUFFICES /\ page' \in Pages /\ queue' \in Seq(Nat) /\ calls' \in [Slot -> Calling]
               /\ queue' = <<>> => calls'["chunk"] = NoCall
  BY DEF PhoneTypes, Record, Chunk, Stop, Retry, Phone, Start, SendChunk, ChunkAnswered, Polls, PollAnswered, Finish,
         FinishAnswered, Asked, Wait, Waited
<1>2. page \in Pages /\ queue \in Seq(Nat) /\ calls \in [Slot -> Calling]
      /\ (queue = <<>> => calls["chunk"] = NoCall)
  BY DEF PhoneTypes
<1>3. ASSUME NEW s \in Slot, NEW kind \in Kinds, NEW seq \in Nat, Asks(s, Call(kind, seq))
      PROVE  calls' \in [Slot -> Calling] /\ (s # "chunk" => calls'["chunk"] = calls["chunk"])
  BY <1>3, AskingCalls DEF Slot
<1>4. ASSUME NEW s \in Slot, Asks(s, NoCall)
      PROVE  /\ calls' \in [Slot -> Calling] /\ (s # "chunk" => calls'["chunk"] = calls["chunk"])
             /\ s = "chunk" => calls'["chunk"] = NoCall
  BY <1>4, FreesCalls DEF Answers, Asks, Slot, PhoneTypes
<1>5. ASSUME NEW at \in Places, At(at) PROVE page' \in Pages BY <1>2, <1>5 DEF At, Pages
<1>6. "main" \in Slot /\ "chunk" \in Slot /\ "poll" \in Slot BY DEF Slot
<1> USE DEF Kinds, Places
<1>7. CASE Record BY <1>2, <1>3, <1>5, <1>6, <1>7 DEF Record
<1>8. CASE Start BY <1>2, <1>3, <1>4, <1>5, <1>6, <1>8 DEF Start
<1>9. CASE Chunk
  <2>1. [page EXCEPT !.made = @ + 1] \in Pages BY <1>2 DEF Pages
  <2>2. Fails([page EXCEPT !.made = @ + 1]) \in Pages BY <2>1, FailsTurns DEF Turned
  <2>3. [[page EXCEPT !.made = @ + 1] EXCEPT !.sequence = @ + 1] \in Pages
    <3>1. ASSUME NEW p \in Pages PROVE [p EXCEPT !.sequence = @ + 1] \in Pages BY DEF Pages
    <3>2. QED BY <2>1, <3>1
  <2>4. page.sequence \in Nat BY <1>2 DEF Pages
  <2>5. Append(queue, page.sequence) \in Seq(Nat) /\ Append(queue, page.sequence) # <<>> BY <1>2, <2>4
  <2>6. QED BY <1>2, <1>9, <2>1, <2>2, <2>3, <2>5 DEF Chunk, Overflows
<1>10. CASE Stop BY <1>2, <1>10, StopsTurns DEF Stop, Turned
<1>11. CASE SendChunk
  <2>1. Head(queue) \in Nat /\ Tail(queue) \in Seq(Nat) BY <1>2, <1>11 DEF SendChunk
  <2>2. QED BY <1>2, <1>3, <1>6, <1>11, <2>1 DEF SendChunk
<1>12. CASE ChunkAnswered
  <2> USE <1>12 DEF ChunkAnswered
  <2>1. queue # <<>>
    <3>1. calls["chunk"].phase # "" BY Zenon DEF Answered
    <3>2. NoCall.phase = "" BY DEF NoCall
    <3>3. queue = <<>> => calls["chunk"] = NoCall BY <1>2
    <3>4. QED BY ONLY <3>1, <3>2, <3>3
  <2>2. Head(queue) \in Nat /\ Tail(queue) \in Seq(Nat) BY <1>2, <2>1
  <2>3. CASE calls["chunk"].phase = "error"
    <3>1. ChunkFails BY <2>3
    <3>2. CASE page.tries = 0
      <4>1. page' \in Pages BY <1>2, <3>1, <3>2 DEF ChunkFails, Pages
      <4>2. QED BY <1>2, <1>3, <1>6, <2>1, <2>2, <3>1, <3>2, <4>1 DEF ChunkFails
    <3>3. CASE page.tries # 0
      <4>1. (IF page.failed THEN page ELSE Fails(page)) \in Pages BY <1>2, FailsTurns DEF Turned
      <4>2. \A p \in Pages : [p EXCEPT !.tries = 0] \in Pages BY TriesTurn DEF Turned
      <4>3. page' = [(IF page.failed THEN page ELSE Fails(page)) EXCEPT !.tries = 0] BY <3>1, <3>3 DEF ChunkFails
      <4>4. page' \in Pages BY <4>1, <4>2, <4>3
      <4>5. QED BY <1>2, <1>4, <1>6, <2>2, <3>1, <3>3, <4>4 DEF ChunkFails
    <3>4. QED BY <3>2, <3>3
  <2>4. CASE calls["chunk"].phase # "error"
    <3>1. Observes(page, calls["chunk"].phase) \in Pages BY <1>2, ObservesTurns DEF Turned
    <3>2. Fails(Observes(page, calls["chunk"].phase)) \in Pages BY <3>1, FailsTurns DEF Turned
    <3>3. page' \in Pages
      <4>1. \A p \in Pages : [p EXCEPT !.tries = 0] \in Pages BY TriesTurn DEF Turned
      <4>2. PICK p \in Pages : page' = [p EXCEPT !.tries = 0] BY <2>4, <3>1, <3>2
      <4>3. QED BY <4>1, <4>2
    <3>4. QED BY <1>2, <1>4, <1>6, <2>2, <2>4, <3>3
  <2>5. QED BY <2>3, <2>4
<1>13. CASE Polls BY <1>2, <1>3, <1>6, <1>13 DEF Polls
<1>14. CASE PollAnswered
  <2>1. page' \in Pages BY <1>2, <1>14, FailsTurns, ObservesTurns DEF PollAnswered, Polled, Turned
  <2>2. QED BY <1>2, <1>4, <1>6, <1>14, <2>1 DEF PollAnswered
<1>15. ASSUME NEW phase \in Phases, Waits(phase) PROVE page' \in Pages BY <1>2, <1>15 DEF Waits, Pages
<1>16. calls["main"].phase \in Phases BY <1>2, <1>6 DEF Calling
<1>17. CASE Finish
  <2>1. page.sequence \in Nat BY <1>2 DEF Pages
  <2>2. QED BY <1>2, <1>3, <1>5, <1>6, <1>17, <2>1 DEF Finish
<1>18. CASE FinishAnswered BY <1>2, <1>3, <1>4, <1>5, <1>6, <1>15, <1>16, <1>18 DEF FinishAnswered
<1>19. CASE Retry BY <1>2, <1>3, <1>5, <1>6, <1>19 DEF Retry
<1>20. CASE Asked
  <2>1. [page EXCEPT !.at = "uploading", !.live = FALSE] \in Pages BY <1>2 DEF Pages
  <2>2. QED BY <1>2, <1>3, <1>4, <1>5, <1>6, <1>15, <1>16, <1>20, <2>1 DEF Asked
<1>21. CASE Wait BY <1>2, <1>3, <1>6, <1>21 DEF Wait
<1>22. CASE Waited BY <1>2, <1>4, <1>6, <1>15, <1>16, <1>22 DEF Waited
<1>23. QED
  BY <1>7, <1>8, <1>9, <1>10, <1>11, <1>12, <1>13, <1>14, <1>17, <1>18, <1>19, <1>20, <1>21, <1>22 DEF Phone

\* A request that waits for its answer is not free.
LEMMA SentIsTaken == ASSUME PhoneTypes, NEW s \in Slot, Sent(s) PROVE s = "chunk" => queue # <<>>
<1>1. NoCall.kind = "free" BY DEF NoCall
<1>2. calls[s].kind # "free" BY DEF Sent
<1>3. queue = <<>> => calls["chunk"] = NoCall BY DEF PhoneTypes
<1>4. QED BY <1>1, <1>2, <1>3

\* What a request does: something on the desktop or to the job, and one answer.
Served(s) == \E phase \in Phases \ {""}, n \in Nat : Replies(s, phase, n)
LEMMA TellsPhase ==
    ASSUME PhoneTypes PROVE Tells \in Phases \ {""} /\ desk.sequence \in Nat
BY DEF PhoneTypes, Desks, Tells, Phase, Phases

LEMMA StartTypes ==
    ASSUME PhoneTypes, NEW s \in Slot, HandleStart(s)
    PROVE  /\ calls' = calls \/ Served(s)
           /\ desk' \in Desks /\ quiet' \in [sound : Nat, on : Nat]
<1>1. {"error", "starting", "preparing"} \subseteq Phases \ {""} BY DEF Phases
<1>2. calls' = calls \/ Served(s) BY <1>1, TellsPhase DEF HandleStart, Served
<1>3. desk' \in Desks /\ quiet' \in [sound : Nat, on : Nat] BY DEF HandleStart, PhoneTypes, Desks
<1>4. QED BY <1>2, <1>3

LEMMA AudioTypes ==
    ASSUME PhoneTypes, NEW s \in Slot, HandleAudio(s)
    PROVE  Served(s) /\ desk' \in Desks /\ quiet' \in [sound : Nat, on : Nat]
<1>1. {"error", "recording", "processing"} \subseteq Phases \ {""} BY DEF Phases
<1>2. desk \in Desks /\ quiet \in [sound : Nat, on : Nat] BY DEF PhoneTypes
<1>3. CASE ~ (Known /\ desk.phase = "recording" /\ calls[s].seq <= desk.sequence)
  BY <1>1, <1>2, <1>3, TellsPhase DEF HandleAudio, Served
<1>4. CASE Known /\ desk.phase = "recording" /\ calls[s].seq <= desk.sequence
  <2>0. calls[s].seq \in Nat BY DEF PhoneTypes, Calling
  <2>1. PICK new \in BOOLEAN, full \in BOOLEAN :
          /\ quiet' = IF new THEN [quiet EXCEPT !.sound = 0] ELSE quiet
          /\ LET d == IF new THEN [desk EXCEPT !.sequence = @ + 1] ELSE desk
             IN  /\ desk' = IF full THEN [d EXCEPT !.phase = "processing", !.by = "limit"] ELSE d
                 /\ Replies(s, IF full THEN "processing" ELSE "recording", d.sequence)
    <3> NewChunk(calls[s].seq) \in BOOLEAN /\ (NewChunk(calls[s].seq) /\ Full) \in BOOLEAN BY DEF NewChunk, Full
    <3>2. WITNESS NewChunk(calls[s].seq) \in BOOLEAN, (NewChunk(calls[s].seq) /\ Full) \in BOOLEAN
    <3>3. desk.phase = "recording" /\ ~ (calls[s].seq > desk.sequence) /\ Known
      BY <1>2, <1>4, <2>0 DEF Desks
    <3>4. QED BY <3>3 DEF HandleAudio
  <2>2. quiet' \in [sound : Nat, on : Nat] BY <1>2, <2>1
  <2>3. PICK d \in Desks : /\ desk' = IF full THEN [d EXCEPT !.phase = "processing", !.by = "limit"] ELSE d
                           /\ Replies(s, IF full THEN "processing" ELSE "recording", d.sequence)
    <3>1. [desk EXCEPT !.sequence = @ + 1] \in Desks BY <1>2 DEF Desks
    <3>2. QED BY <1>2, <2>1, <3>1
  <2>4. d.sequence \in Nat /\ [d EXCEPT !.phase = "processing", !.by = "limit"] \in Desks BY DEF Desks
  <2>5. QED BY <1>1, <2>2, <2>3, <2>4 DEF Served
<1>5. QED BY <1>3, <1>4

LEMMA EndTypes ==
    ASSUME PhoneTypes, NEW s \in Slot, HandleStop(s) \/ HandleCancel(s)
    PROVE  Served(s) /\ desk' \in Desks
<1>1. {"error", "processing", "cancelled"} \subseteq Phases \ {""} BY DEF Phases
<1>2. Served(s) BY <1>1, TellsPhase DEF HandleStop, HandleCancel, Served
<1>3. desk' \in Desks BY DEF HandleStop, HandleCancel, PhoneTypes, Desks
<1>4. QED BY <1>2, <1>3

LEMMA ServesAnswer ==
    ASSUME PhoneTypes, NEW s \in Slot, ServesCall(s)
    PROVE  Sent(s) /\ (calls' = calls \/ Served(s))
<1> USE DEF desktop, companion
<1>1. {"error", "starting", "completed", "processing", "failed"} \subseteq Phases \ {""} BY DEF Phases
<1>2. job \in {"none", "processing", "completed", "failed"} BY DEF PhoneTypes
<1>3. CASE Upload(s) BY <1>1, <1>2, <1>3 DEF Upload, Served, HistoryReceipt
<1>4. CASE Serve(s)
  <2>1. CASE calls[s].kind = "audio" BY <1>4, <2>1, AudioTypes DEF Serve
  <2>2. CASE calls[s].kind \in {"stop", "cancel"} BY <1>4, <2>2, EndTypes DEF Serve
  <2>3. CASE calls[s].kind = "job" BY <1>1, <1>2, <1>4, <2>3 DEF Serve, Served
  <2>4. CASE calls[s].kind = "start" BY <1>1, <1>4, <2>4, StartTypes DEF Serve, Served
  <2>5. CASE calls[s].kind = "status" BY <1>1, <1>4, <2>5, TellsPhase DEF Serve, Served
  <2>6. QED BY <1>4, <2>1, <2>2, <2>3, <2>4, <2>5 DEF Serve
<1>5. QED BY <1>3, <1>4 DEF ServesCall

LEMMA ServesTypes ==
    ASSUME PhoneTypes, NEW s \in Slot, ServesCall(s)
    PROVE  PhoneTypes'
<1> USE DEF desktop, companion
<1>1. page' = page /\ queue' = queue /\ words' = words /\ reply' = reply
  BY DEF ServesCall, Serve, Upload, HandleStart, HandleAudio, HandleStop, HandleCancel
<1>2. Sent(s) /\ (calls' = calls \/ Served(s)) BY ServesAnswer
<1>3. calls' \in [Slot -> Calling] /\ (queue' = <<>> => calls'["chunk"] = NoCall)
  <2>1. CASE calls' = calls BY <1>1, <2>1 DEF PhoneTypes
  <2>2. CASE Served(s)
    <3>1. calls' \in [Slot -> Calling] /\ \A t \in Slot \ {s} : calls'[t] = calls[t]
      BY <1>2, <2>2, RepliesAnswer DEF Served, Answers
    <3>2. "chunk" \in Slot BY DEF Slot
    <3>3. QED BY <1>1, <1>2, <3>1, <3>2, SentIsTaken DEF PhoneTypes
  <2>3. QED BY <1>2, <2>1, <2>2
<1>4. job' \in {"none", "processing", "completed", "failed"}
  BY DEF PhoneTypes, ServesCall, Serve, Upload, HandleStart, HandleAudio, HandleStop, HandleCancel
<1>5. desk' \in Desks /\ quiet' \in [sound : Nat, on : Nat]
  BY StartTypes, AudioTypes, EndTypes DEF PhoneTypes, ServesCall, Serve, Upload, HandleStop, HandleCancel
<1>6. QED BY <1>1, <1>3, <1>4, <1>5 DEF PhoneTypes

LEMMA PhoneRestTypes ==
    ASSUME PhoneTypes, Desk \/ Process \/ Crash \/ DesktopBegins \/ \E s \in Slot : Lost(s)
    PROVE  PhoneTypes'
<1> USE DEF desktop, companion
<1>1. CASE Desk
  <2>1. UNCHANGED <<page, queue, calls, job>> BY <1>1 DEF Desk
  <2>2. desk \in Desks /\ quiet \in [sound : Nat, on : Nat] /\ reply \in {"none", "completed"}
        /\ words \in Seq({"live", "inbox"})
    BY DEF PhoneTypes
  <2>3. SUFFICES /\ desk' \in Desks /\ quiet' \in [sound : Nat, on : Nat] /\ reply' \in {"none", "completed"}
                 /\ words' \in Seq({"live", "inbox"})
    BY <2>1 DEF PhoneTypes
  <2>4. CASE DeskReady BY <2>2, <2>4 DEF DeskReady, Desks
  <2>5. CASE Prepared BY <2>2, <2>5 DEF Prepared, Desks
  <2>6. CASE AtTheDesk BY <2>2, <2>6 DEF AtTheDesk, Desks
  <2>7. CASE Completes
    <3>1. Append(words, "live") \in Seq({"live", "inbox"}) BY <2>2
    <3>2. QED BY <2>2, <2>7, <3>1 DEF Completes, Desks
  <2>8. CASE Reported BY <2>2, <2>8 DEF Reported
  <2>9. CASE Watch BY <2>2, <2>9 DEF Watch, Desks
  <2>10. CASE Tick BY <2>2, <2>10 DEF Tick
  <2>11. QED BY <1>1, <2>4, <2>5, <2>6, <2>7, <2>8, <2>9, <2>10 DEF Desk
<1>2. CASE Process
  <2>1. words \in Seq({"live", "inbox"}) => Append(words, "inbox") \in Seq({"live", "inbox"}) OBVIOUS
  <2>2. QED BY <1>2, <2>1 DEF Process, PhoneTypes
<1>3. CASE DesktopBegins BY <1>3 DEF DesktopBegins, PhoneTypes, Desks
<1>4. ASSUME NEW s \in Slot, Lost(s) PROVE PhoneTypes'
  <2>1. calls[s].kind # "free" /\ UNCHANGED <<page, queue, desk, audio, quiet, reply, job, words>> BY <1>4 DEF Lost
  <2>2. calls' \in [Slot -> Calling] /\ s # "stray" /\ \A t \in Slot \ {s, "stray"} : calls'[t] = calls[t]
    BY <1>4, LostCalls
  <2>3. s = "chunk" => queue # <<>>
    <3>1. NoCall.kind = "free" BY DEF NoCall
    <3>2. queue = <<>> => calls["chunk"] = NoCall BY DEF PhoneTypes
    <3>3. QED BY <2>1, <3>1, <3>2
  <2>4. "chunk" \in Slot /\ "chunk" # "stray" BY DEF Slot
  <2>5. QED BY <2>1, <2>2, <2>3, <2>4 DEF PhoneTypes
<1>5. CASE Crash
  <2>1. CASE DesktopEnds BY <2>1 DEF DesktopEnds, PhoneTypes, NoSession, Desks
  <2>2. CASE CompanionEnds
    <3>1. \A t \in Slot : [calls[t] EXCEPT !.phase = "error"] \in Calling
      BY DEF PhoneTypes, Calling, Phases
    <3>2. NoCall \in Calling BY DEF NoCall, Calling, Kinds, Phases
    <3>3. calls' \in [Slot -> Calling] BY <2>2, <3>1, <3>2 DEF CompanionEnds, PhoneTypes
    <3>4. queue = <<>> => calls'["chunk"] = NoCall
      <4>1. SUFFICES ASSUME queue = <<>> PROVE calls'["chunk"] = NoCall OBVIOUS
      <4>2. calls["chunk"] = NoCall /\ "chunk" \in Slot /\ "chunk" # "stray" BY <4>1 DEF PhoneTypes, Slot
      <4>3. ~ Sent("chunk") BY <4>1, <4>2, SentIsTaken
      <4>4. QED BY <2>2, <4>2, <4>3 DEF CompanionEnds
    <3>5. QED BY <2>2, <3>3, <3>4 DEF CompanionEnds, PhoneTypes
  <2>3. CASE PageEnds
    <3>1. NoCall \in Calling BY DEF NoCall, Calling, Kinds, Phases
    <3>2. calls' \in [Slot -> Calling] BY <2>3, <3>1 DEF PageEnds, PhoneTypes
    <3>3. calls'["chunk"] = NoCall BY <2>3 DEF PageEnds, Slot
    <3>4. page' \in Pages BY <2>3 DEF PageEnds, PhoneTypes, Pages, Places
    <3>5. queue' \in Seq(Nat) BY <2>3 DEF PageEnds
    <3>6. QED BY <2>3, <3>2, <3>3, <3>4, <3>5 DEF PageEnds, PhoneTypes
  <2>4. QED BY <1>5, <2>1, <2>2, <2>3 DEF Crash
<1>6. QED BY <1>1, <1>2, <1>3, <1>4, <1>5

LEMMA PhoneStepTypes == ASSUME PhoneTypes, Next PROVE PhoneTypes'
BY PhonePageTypes, ServesTypes, PhoneRestTypes DEF Next

-----------------------------------------------------------------------------
(* The page's own steps.                                                    *)

\* A step that may end the recording of the page and sends or takes something of it.
LEMMA TurnKeeps ==
    ASSUME PhoneInv, PhoneTypes', UNCHANGED <<desk, audio, reply, job, words>>, Turned(page, page'),
           page.at \notin {"idle", "starting"},
           NEW s \in Slot, \A t \in Slot \ {s} : calls'[t] = calls[t],
           calls'[s] = calls[s] \/ (calls'[s].kind \in {"free", "audio", "status", "job"} /\ calls'[s].phase = ""),
           s = "main" => page.at \notin {"leaving", "gone"}
    PROVE  PhoneInv'
<1> PhoneTypes /\ Numbering /\ SoundIsWhole /\ Counting /\ StopCounts /\ Worded /\ Beginning /\ Recognising
  BY DEF PhoneInv
<1>0. page \in Pages /\ page' \in Pages BY DEF PhoneTypes
<1>1. Numbering' BY <1>0 DEF Numbering, Turned, PageEnded
<1>2. SoundIsWhole' BY DEF SoundIsWhole
<1>3. Counting' BY DEF Counting, Turned, PageEnded
<1>4. StopCounts' BY DEF StopCounts, StoppedByPhone, Turned, PageEnded
<1>5. Worded' BY DEF Worded, Turned
<1>6. Beginning'
  <2>1. \A t \in Slot : Begins(t)' => Begins(t) /\ calls'[t] = calls[t] BY DEF Begins
  <2>2. Fresh => Fresh' BY DEF Fresh
  <2>3. page'.at = page.at \/ page'.at = "finishing" BY DEF Turned
  <2>4. ASSUME NEW t \in Slot, Begins(t)'
        PROVE Fresh' /\ t \in {"main", "stray"} /\ \A u \in Slot : Begins(u)' => u = t
    BY <2>1, <2>2, <2>4 DEF Beginning
  <2>5. "main" \in Slot /\ "stray" \in Slot BY DEF Slot
  <2>6. \A t \in Slot : Begins(t) => page.at \in {"leaving", "gone"} /\ t = "stray" BY DEF Beginning
  <2>7. Begins("stray") => page.at # "recording" BY <2>5, <2>6
  <2>8. ASSUME NEW t \in Slot, calls'[t].phase = "starting" PROVE calls'[t].kind = "start"
    <3>1. \A u \in Slot : calls[u].phase = "starting" => calls[u].kind = "start" BY DEF Beginning
    <3>2. calls'[t] = calls[t] BY <2>8
    <3>3. QED BY <2>8, <3>1, <3>2
  <2>9. page'.at # "idle" BY <2>3
  <2>10. ~ Begins("main")' BY <2>1, <2>5, <2>6
  <2>11. Begins("stray")' => page'.at \in {"leaving", "gone"} BY <2>1, <2>3, <2>5, <2>6 DEF Turned
  <2>12. QED BY <2>4, <2>8, <2>9, <2>10, <2>11 DEF Beginning
<1>7. Recognising' BY DEF Recognising, RecognisedOnce
<1>8. QED BY <1>1, <1>2, <1>3, <1>4, <1>5, <1>6, <1>7 DEF PhoneInv

\* A page that has ended goes on with its stop, its transfer or its leave.
LEMMA GoesOnKeeps ==
    ASSUME PhoneInv, PhoneTypes', UNCHANGED <<queue, desk, audio, reply, job, words>>, PageEnded, PageEnded',
           page'.made = page.made, page'.sequence = page.sequence, page'.failed = page.failed,
           page'.stopped = page.stopped, IncognitoPhone => page'.live, page'.stored => page.stored,
           page'.at \in {"leaving", "gone"} => page.at = "leaving",
           page.at \in {"leaving", "gone"} => page.at = "leaving" /\ page'.at = "gone" /\ calls'["main"].kind # "upload",
           page'.at = "done" => words # <<>>,
           \A t \in Slot \ {"main"} : calls'[t] = calls[t],
           calls'["main"].phase = "", calls'["main"].kind # "start",
           calls'["main"].kind = "stop" => calls'["main"].seq = page.made,
           calls'["main"].kind = "upload" => ~ IncognitoPhone
    PROVE  PhoneInv'
<1> PhoneTypes /\ Numbering /\ SoundIsWhole /\ Counting /\ StopCounts /\ Worded /\ Beginning /\ Recognising
  BY DEF PhoneInv
<1>1. Numbering' BY DEF Numbering, PageEnded
<1>2. SoundIsWhole' BY DEF SoundIsWhole
<1>3. Counting' BY DEF Counting
<1>4. StopCounts' BY DEF StopCounts, StoppedByPhone
<1>5. Worded' BY DEF Worded
<1>6. Beginning'
  <2>1. \A t \in Slot : Begins(t)' => Begins(t) /\ calls'[t] = calls[t] BY DEF Begins
  <2>2. page.at \in {"leaving", "gone"} => (Fresh => Fresh') BY DEF Fresh
  <2>3. "main" \in Slot /\ "stray" \in Slot BY DEF Slot
  <2>4. \A t \in Slot : Begins(t) => page.at = "leaving" /\ t = "stray" BY <2>3 DEF Beginning, PageEnded
  <2>5. \A t \in Slot : Begins(t)' => Fresh' /\ t = "stray" /\ page'.at = "gone" BY <2>1, <2>2, <2>4 DEF Beginning
  <2>6. ASSUME NEW t \in Slot, calls'[t].phase = "starting" PROVE calls'[t].kind = "start"
    <3>1. \A u \in Slot : calls[u].phase = "starting" => calls[u].kind = "start" BY DEF Beginning
    <3>2. calls'[t] = calls[t] BY <2>6
    <3>3. QED BY <2>6, <3>1, <3>2
  <2>7. QED BY <2>3, <2>5, <2>6 DEF Beginning, PageEnded
<1>7. Recognising' BY DEF Recognising, RecognisedOnce
<1>8. QED BY <1>1, <1>2, <1>3, <1>4, <1>5, <1>6, <1>7 DEF PhoneInv

\* What is asked, or given up, is a request of its own.
LEMMA AskedIs ==
    ASSUME PhoneTypes, NEW s \in Slot, NEW kind \in Kinds, NEW seq \in Nat, Asks(s, Call(kind, seq))
    PROVE  /\ \A t \in Slot \ {s} : calls'[t] = calls[t]
           /\ calls'[s].kind = kind /\ calls'[s].seq = seq /\ calls'[s].phase = ""
<1>1. calls'[s] = [kind |-> kind, seq |-> seq, phase |-> "", next |-> 0] /\ \A t \in Slot : t # s => calls'[t] = calls[t]
  BY AskingCalls
<1> DEFINE r == [kind |-> kind, seq |-> seq, phase |-> "", next |-> 0]
<1>2. r.kind = kind /\ r.seq = seq /\ r.phase = "" OBVIOUS
<1> HIDE DEF r
<1>4. calls'[s] = r BY <1>1 DEF r
<1>3. QED BY <1>1, <1>2, <1>4
LEMMA FreedIs ==
    ASSUME PhoneTypes, NEW s \in Slot, Asks(s, NoCall)
    PROVE  /\ \A t \in Slot \ {s} : calls'[t] = calls[t]
           /\ calls'[s].kind = "free" /\ calls'[s].phase = ""
<1>1. calls'[s] = NoCall BY FreesCalls
<1>2. NoCall.kind = "free" /\ NoCall.phase = "" BY DEF NoCall
<1>3. QED BY <1>1, <1>2 DEF Asks, PhoneTypes
LEMMA AtIs ==
    ASSUME PhoneTypes, NEW at, At(at)
    PROVE  /\ page'.at = at /\ page'.made = page.made /\ page'.sequence = page.sequence /\ page'.failed = page.failed
           /\ page'.stopped = page.stopped /\ page'.live = page.live /\ page'.stored = page.stored
BY DEF PhoneTypes, Pages, At
LEMMA WaitsIs ==
    ASSUME PhoneTypes, NEW phase, Waits(phase)
    PROVE  /\ page'.at \in {"waiting", "done", "kept"} /\ (page'.at = "done" => phase = "completed")
           /\ page'.made = page.made /\ page'.sequence = page.sequence /\ page'.failed = page.failed
           /\ page'.stopped = page.stopped /\ page'.live = page.live /\ (page'.stored => page.stored)
BY DEF PhoneTypes, Pages, Waits

LEMMA RecordKeeps == ASSUME PhoneInv, PhoneTypes', Record PROVE PhoneInv'
<1> PhoneTypes /\ Numbering /\ SoundIsWhole /\ Counting /\ StopCounts /\ Worded /\ Beginning /\ Recognising
  BY DEF PhoneInv
<1> "main" \in Slot /\ "poll" \in Slot /\ "stray" \in Slot /\ "poll" # "main" BY DEF Slot
<1>1. page.at = "idle" /\ page'.at = "starting" /\ page'.made = page.made /\ page'.sequence = page.sequence
      /\ page'.failed = page.failed /\ page'.stopped = page.stopped
      /\ page'.live = page.live /\ page'.stored = page.stored
  BY AtIs DEF Record
<1>2. (\A t \in Slot \ {"main"} : calls'[t] = calls[t]) /\ calls'["main"].kind = "start" /\ calls'["main"].phase = ""
  BY AskedIs DEF Record, Kinds
<1>3. UNCHANGED <<queue, desk, audio, reply, job, words>> BY DEF Record, desktop, companion
<1>4. Numbering' BY <1>1, <1>2, <1>3 DEF Numbering, PageEnded
<1>5. SoundIsWhole' BY <1>3 DEF SoundIsWhole
<1>6. Counting' BY <1>1, <1>2 DEF Counting, PageEnded
<1>7. StopCounts' BY <1>1, <1>3 DEF StopCounts, StoppedByPhone, PageEnded
<1>8. Worded' BY <1>1, <1>2, <1>3 DEF Worded
<1>9. Fresh' /\ \A t \in Slot \ {"main"} : ~ Begins(t)' BY <1>1, <1>2, <1>3 DEF Beginning, Fresh, Begins
<1>10. Begins("main")' /\ ~ Begins("stray")' BY <1>2, <1>9 DEF Begins
<1>11. \A t \in Slot : calls'[t].phase = "starting" => calls'[t].kind = "start" BY <1>2 DEF Beginning
<1>12. Beginning' BY <1>1, <1>9, <1>10, <1>11 DEF Beginning
<1>13. Recognising' BY <1>2, <1>3 DEF Recognising, RecognisedOnce
<1>14. QED BY <1>4, <1>5, <1>6, <1>7, <1>8, <1>12, <1>13 DEF PhoneInv

LEMMA StartKeeps == ASSUME PhoneInv, PhoneTypes', Start PROVE PhoneInv'
<1> PhoneTypes /\ Numbering /\ SoundIsWhole /\ Counting /\ StopCounts /\ Worded /\ Beginning /\ Recognising
  BY DEF PhoneInv
<1> "main" \in Slot /\ "poll" \in Slot /\ "stray" \in Slot /\ "poll" # "main" BY DEF Slot
<1> DEFINE p == calls["main"].phase
<1>1. page.at = "starting" /\ p # "" /\ UNCHANGED <<queue, desk, audio, reply, job, words>>
  BY DEF Start, Answered, desktop, companion
<1>2. page'.made = page.made /\ page'.sequence = page.sequence /\ page'.failed = page.failed
      /\ page'.stopped = page.stopped /\ page'.live = page.live /\ page'.stored = page.stored
      /\ page'.at \in {"starting", "recording", "leaving"}
  <2>1. CASE page' = page BY <1>1, <2>1
  <2>2. CASE At("recording") BY <2>2, AtIs
  <2>3. CASE At("leaving") BY <2>3, AtIs
  <2>4. QED BY <2>1, <2>2, <2>3 DEF Start
<1>3. /\ \A t \in Slot \ {"main"} : calls'[t] = calls[t]
      /\ calls'["main"].kind \in {"start", "status", "cancel", "free"} /\ calls'["main"].phase = ""
      /\ calls'["main"].kind = "start" => p = "starting" /\ page'.at = "starting"
      /\ page'.at # "leaving" => p # "error"
  BY <1>1, AskedIs, FreedIs, AtIs DEF Start, Kinds
<1> HIDE DEF p
<1>4. Numbering' BY <1>1, <1>2, <1>3 DEF Numbering, PageEnded
<1>5. SoundIsWhole' BY <1>1 DEF SoundIsWhole
<1>6. Counting' BY <1>1, <1>2, <1>3 DEF Counting, PageEnded
<1>7. StopCounts' BY <1>1, <1>2 DEF StopCounts, StoppedByPhone, PageEnded
<1>8. Worded' BY <1>1, <1>2, <1>3 DEF Worded
<1>9. Fresh => Fresh' BY <1>1, <1>3 DEF Fresh
<1>10. ASSUME NEW t \in Slot, Begins(t)' PROVE Begins(t)
  <2>1. CASE t = "main"
    <3>1. calls["main"].phase = "starting" BY <1>3, <1>10, <2>1 DEF Begins, p
    <3>2. calls["main"].kind = "start" BY <3>1 DEF Beginning
    <3>3. QED BY <2>1, <3>1, <3>2 DEF Begins
  <2>2. CASE t # "main" BY <1>3, <1>10, <2>2 DEF Begins
  <2>3. QED BY <2>1, <2>2
<1>11. \A t \in Slot : Begins(t)' => Fresh' /\ t \in {"main", "stray"} /\ \A u \in Slot : Begins(u)' => u = t
  BY <1>9, <1>10 DEF Beginning
<1>12. Begins("main")' => page'.at = "starting" BY <1>3 DEF Begins
<1>13. Begins("stray")' => page'.at = "leaving"
  <2>1. SUFFICES ASSUME Begins("stray")' PROVE page'.at = "leaving" OBVIOUS
  <2>2. Begins("stray") BY <1>10, <2>1
  <2>3. calls["main"].phase = "error" BY <1>1, <2>2 DEF Beginning
  <2>4. QED BY <1>2, <1>3, <2>3 DEF p
<1>14. ASSUME NEW t \in Slot, calls'[t].phase = "starting" PROVE calls'[t].kind = "start"
  BY <1>3, <1>14 DEF Beginning
<1>15. Beginning' BY <1>2, <1>11, <1>12, <1>13, <1>14 DEF Beginning
<1>16. Recognising' BY <1>1, <1>3 DEF Recognising, RecognisedOnce
<1>17. QED BY <1>4, <1>5, <1>6, <1>7, <1>8, <1>15, <1>16 DEF PhoneInv

LEMMA ChunkKeeps == ASSUME PhoneInv, PhoneTypes', Chunk PROVE PhoneInv'
<1> PhoneTypes /\ Numbering /\ SoundIsWhole /\ Counting /\ StopCounts /\ Worded /\ Beginning /\ Recognising
  BY DEF PhoneInv
<1>1. page.at = "recording" /\ ~ page.failed /\ ~ page.stopped /\ ~ PageEnded /\ ~ page.stored /\ page.sequence = page.made
      /\ UNCHANGED <<calls, desk, audio, reply, job, words>>
  BY DEF Chunk, Recorder, Numbering, PageEnded, desktop, companion
<1>2. page'.at \in {"recording", "finishing"} /\ (IncognitoPhone => page'.live)
      /\ (page'.at = "recording" => ~ page'.failed /\ ~ page'.stopped /\ ~ page'.stored)
      /\ (~ page'.failed => page'.sequence = page'.made)
  <2>1. PICK p \in Pages : p = [page EXCEPT !.made = @ + 1]
    <3>1. page \in Pages BY DEF PhoneTypes
    <3>2. [page EXCEPT !.made = @ + 1] \in Pages BY <3>1 DEF Pages
    <3>3. QED BY <3>2
  <2>2. p.at = "recording" /\ p.made = page.made + 1 /\ ~ p.failed /\ ~ p.stopped /\ ~ p.stored
        /\ (IncognitoPhone => p.live)
        /\ p.sequence = page.sequence
    BY <1>1, <2>1 DEF PhoneTypes, Pages, Numbering
  <2>3. page' = Fails(p) \/ page' = [p EXCEPT !.sequence = @ + 1] BY <1>1, <2>1 DEF Chunk, Overflows
  <2>4. CASE page' = Fails(p)
    <3>1. Turned(p, page') /\ page'.failed BY <2>4, FailsTurns
    <3>2. page'.at = "finishing" BY <2>2, <2>4 DEF Fails, Pages
    <3>3. QED BY <2>2, <3>1, <3>2 DEF Turned
  <2>5. CASE page' = [p EXCEPT !.sequence = @ + 1] BY <1>1, <2>2, <2>5 DEF Pages
  <2>6. QED BY <2>3, <2>4, <2>5
<1>3. ~ StoppedByPhone /\ \A t \in Slot : calls[t].kind # "stop" BY <1>1 DEF StopCounts, Counting
<1>4. \A t \in Slot : ~ Begins(t) BY <1>1 DEF Beginning, Slot
<1>5. Numbering' BY <1>2 DEF Numbering, PageEnded
<1>6. SoundIsWhole' BY <1>1 DEF SoundIsWhole
<1>7. Counting' BY <1>1, <1>3 DEF Counting
<1>8. StopCounts' BY <1>1, <1>3 DEF StopCounts, StoppedByPhone
<1>9. Worded' BY <1>1, <1>2 DEF Worded
<1>10. Beginning' BY <1>1, <1>2, <1>4 DEF Beginning, Begins, Slot
<1>11. Recognising' BY <1>1 DEF Recognising, RecognisedOnce
<1>12. QED BY <1>5, <1>6, <1>7, <1>8, <1>9, <1>10, <1>11 DEF PhoneInv

LEMMA TurningKeeps ==
    ASSUME PhoneInv, PhoneTypes', Stop \/ SendChunk \/ ChunkAnswered \/ Polls \/ PollAnswered
    PROVE  PhoneInv' /\ Turned(page, page')
<1> PhoneTypes /\ Numbering BY DEF PhoneInv
<1> "chunk" \in Slot /\ "poll" \in Slot /\ "chunk" # "main" /\ "poll" # "main" BY DEF Slot
<1> USE DEF desktop, companion
<1>1. page \in Pages /\ Turned(page, page) BY DEF PhoneTypes, Turned
<1>2. \A p \in Pages : Turned(p, Fails(p)) /\ Turned(p, Stops(p)) BY FailsTurns, StopsTurns
<1>3. \A phase : Turned(page, Observes(page, phase)) BY <1>1, ObservesTurns
<1>4. UNCHANGED <<desk, audio, reply, job, words>>
  BY DEF Stop, SendChunk, ChunkAnswered, Polls, PollAnswered
<1>5. CASE Stop
  <2>1. page.at = "recording" /\ Turned(page, page') /\ calls' = calls BY <1>1, <1>2, <1>5 DEF Stop, Recorder
  <2>2. QED BY <1>4, <2>1, TurnKeeps
<1>6. CASE SendChunk
  <2>1. page.at \notin {"idle", "starting"} /\ page' = page BY <1>6 DEF SendChunk, Numbering
  <2>2. Turned(page, page') BY <1>1, <2>1
  <2>3. Head(queue) \in Nat BY <1>6 DEF SendChunk, PhoneTypes
  <2>4. CASE calls' = calls BY <1>4, <2>1, <2>2, <2>4, TurnKeeps
  <2>5. CASE Asks("chunk", Call("audio", Head(queue)))
    <3>1. (\A t \in Slot \ {"chunk"} : calls'[t] = calls[t])
       /\ calls'["chunk"].kind = "audio" /\ calls'["chunk"].phase = ""
      BY <2>3, <2>5, AskedIs DEF Kinds
    <3>2. QED BY <1>4, <2>1, <2>2, <3>1, TurnKeeps
  <2>6. QED BY <1>6, <2>4, <2>5 DEF SendChunk
<1>7. CASE ChunkAnswered
  <2> DEFINE c == calls["chunk"]
  <2>1. queue # <<>>
    <3>1. c.phase # "" BY <1>7, Zenon DEF ChunkAnswered, Answered
    <3>2. NoCall.phase = "" BY DEF NoCall
    <3>3. queue = <<>> => c = NoCall BY DEF PhoneTypes
    <3>4. QED BY ONLY <3>1, <3>2, <3>3
  <2>2. page.at \notin {"idle", "starting"} /\ Head(queue) \in Nat BY <2>1 DEF Numbering, PhoneTypes
  <2>3. \A p \in Pages : Turned(p, [p EXCEPT !.tries = 0]) /\ Turned(p, [p EXCEPT !.tries = 1]) BY TriesTurn
  <2>4. Turned(page, page')
    <3>1. ASSUME NEW p \in Pages, Turned(page, p) PROVE Turned(page, [p EXCEPT !.tries = 0]) /\ Turned(page, Fails(p))
                                                       /\ Fails(p) \in Pages
      <4>1. Turned(p, [p EXCEPT !.tries = 0]) /\ Turned(p, Fails(p)) BY <1>2, <2>3
      <4>2. QED BY <1>1, <3>1, <4>1, TurnsAgain DEF Turned
    <3>2. PICK p \in Pages : Turned(page, p) /\ (page' = [p EXCEPT !.tries = 0] \/ page' = [page EXCEPT !.tries = 1])
      <4>1. Observes(page, c.phase) \in Pages BY <1>3 DEF Turned
      <4>2. CASE c.phase = "error" BY <1>1, <1>7, <3>1, <4>2 DEF ChunkAnswered, ChunkFails
      <4>3. CASE c.phase # "error" BY <1>3, <1>7, <3>1, <4>1, <4>3 DEF ChunkAnswered
      <4>4. QED BY <4>2, <4>3
    <3>3. QED BY <1>1, <2>3, <3>1, <3>2
  <2>5. Asks("chunk", Call("audio", Head(queue))) \/ Asks("chunk", NoCall) BY <1>7 DEF ChunkAnswered, ChunkFails
  <2>6. /\ \A t \in Slot \ {"chunk"} : calls'[t] = calls[t]
        /\ calls'["chunk"].kind \in {"audio", "free"} /\ calls'["chunk"].phase = ""
    BY <2>2, <2>5, AskedIs, FreedIs DEF Kinds
  <2>7. QED BY <1>4, <2>2, <2>4, <2>6, TurnKeeps
<1>8. CASE Polls
  <2>1. page.at = "recording" /\ page' = page /\ Asks("poll", Call("status", 0)) BY <1>8 DEF Polls, Recorder
  <2>2. /\ \A t \in Slot \ {"poll"} : calls'[t] = calls[t]
        /\ calls'["poll"].kind = "status" /\ calls'["poll"].phase = ""
    BY <2>1, AskedIs DEF Kinds
  <2>3. Turned(page, page') BY <1>1, <2>1
  <2>4. QED BY <1>4, <2>1, <2>2, <2>3, TurnKeeps
<1>9. CASE PollAnswered
  <2>1. page.at \notin {"idle", "starting"}
    <3>1. calls["poll"].phase # "" BY <1>9, Zenon DEF PollAnswered, Answered
    <3>2. NoCall.phase = "" BY DEF NoCall
    <3>3. QED BY <3>1, <3>2 DEF Numbering
  <2>2. Turned(page, page') BY <1>1, <1>2, <1>3, <1>9 DEF PollAnswered, Polled
  <2>3. (\A t \in Slot \ {"poll"} : calls'[t] = calls[t]) /\ calls'["poll"].kind = "free" /\ calls'["poll"].phase = ""
    BY <1>9, FreedIs DEF PollAnswered
  <2>4. QED BY <1>4, <2>1, <2>2, <2>3, TurnKeeps
<1>10. QED BY <1>5, <1>6, <1>7, <1>8, <1>9

LEMMA GoingOnKeeps ==
    ASSUME PhoneInv, PhoneTypes', Finish \/ FinishAnswered \/ Retry \/ Asked \/ Wait \/ Waited
    PROVE  PhoneInv' /\ page'.made = page.made /\ page'.sequence = page.sequence
<1> PhoneTypes /\ Numbering /\ Worded BY DEF PhoneInv
<1> "main" \in Slot BY DEF Slot
<1>1. UNCHANGED <<queue, desk, audio, reply, job, words>>
  BY DEF Finish, FinishAnswered, Retry, Asked, Wait, Waited, desktop, companion
<1>2. page.sequence \in Nat BY DEF PhoneTypes, Pages
<1> DEFINE Same == /\ page'.made = page.made /\ page'.sequence = page.sequence /\ page'.failed = page.failed
                   /\ page'.stopped = page.stopped /\ (IncognitoPhone => page'.live) /\ (page'.stored => page.stored)
           Main == \A t \in Slot \ {"main"} : calls'[t] = calls[t]
<1>3. ASSUME NEW at, At(at) PROVE Same /\ page'.at = at BY <1>3, AtIs DEF Numbering
<1>4. ASSUME NEW kind \in Kinds, NEW n \in Nat, Asks("main", Call(kind, n))
      PROVE  Main /\ calls'["main"].kind = kind /\ calls'["main"].seq = n /\ calls'["main"].phase = ""
  BY <1>4, AskedIs
<1>5. ASSUME Asks("main", NoCall) PROVE Main /\ calls'["main"].kind = "free" /\ calls'["main"].phase = ""
  BY <1>5, FreedIs
<1>6. ASSUME Waits(calls["main"].phase)
      PROVE Same /\ page'.at \in {"waiting", "done", "kept"} /\ (page'.at = "done" => words # <<>>)
  <2>1. calls["main"].phase = "completed" => words # <<>> BY DEF Worded
  <2>2. QED BY <1>6, <2>1, WaitsIs DEF Numbering
<1>7. ASSUME Same, Main, page.at \notin {"idle", "starting", "recording", "leaving", "gone"},
             page'.at \notin {"idle", "starting", "recording", "leaving", "gone"}, page'.at = "done" => words # <<>>,
             calls'["main"].phase = "", calls'["main"].kind # "start",
             calls'["main"].kind = "stop" => calls'["main"].seq = page.made,
             calls'["main"].kind = "upload" => ~ IncognitoPhone
      PROVE  PhoneInv' /\ page'.made = page.made /\ page'.sequence = page.sequence
  BY <1>1, <1>7, GoesOnKeeps DEF PageEnded
<1> HIDE DEF Same, Main
<1> USE DEF Kinds
<1>8. CASE Finish
  <2>1. page.at = "finishing" BY <1>8 DEF Finish
  <2>2. CASE page.failed
    <3>1. At("cancelling") /\ Asks("main", Call("cancel", 0)) BY <1>8, <2>2 DEF Finish
    <3>2. Same /\ page'.at = "cancelling" BY <1>3, <3>1
    <3>3. Main /\ calls'["main"].kind = "cancel" /\ calls'["main"].phase = "" BY <1>4, <3>1
    <3>4. QED BY <1>7, <2>1, <3>2, <3>3
  <2>3. CASE ~ page.failed
    <3>1. At("stopping") /\ Asks("main", Call("stop", page.sequence)) /\ page.sequence = page.made
      BY <1>8, <2>3 DEF Finish, Numbering
    <3>2. Same /\ page'.at = "stopping" BY <1>3, <3>1
    <3>3. Main /\ calls'["main"].seq = page.made /\ calls'["main"].kind = "stop" /\ calls'["main"].phase = ""
      BY <1>2, <1>4, <3>1
    <3>4. QED BY <1>7, <2>1, <3>2, <3>3
  <2>4. QED BY <2>2, <2>3
<1>9. CASE FinishAnswered
  <2>1. CASE page.at = "stopping" /\ At("cancelling") /\ Asks("main", Call("cancel", 0))
    <3>2. Same /\ page'.at = "cancelling" BY <1>3, <2>1
    <3>3. Main /\ calls'["main"].kind = "cancel" /\ calls'["main"].phase = "" BY <1>4, <2>1
    <3>4. QED BY <1>7, <2>1, <3>2, <3>3
  <2>2. CASE page.at = "stopping" /\ Waits(calls["main"].phase) /\ Asks("main", NoCall)
    BY <1>5, <1>6, <1>7, <2>2
  <2>3. CASE page.at = "cancelling" /\ At("kept") /\ Asks("main", NoCall)
    <3>1. Same /\ page'.at = "kept" BY <1>3, <2>3
    <3>2. QED BY <1>5, <1>7, <2>3, <3>1
  <2>4. CASE page.at = "leaving" /\ At("gone") /\ Asks("main", NoCall)
    <3>1. Same /\ page'.at = "gone" BY <1>3, <2>4
    <3>2. Main /\ calls'["main"].kind = "free" /\ calls'["main"].phase = "" BY <1>5, <2>4
    <3>3. QED BY <1>1, <2>4, <3>1, <3>2, GoesOnKeeps DEF Same, Main, PageEnded
  <2>5. QED BY <1>9, <2>1, <2>2, <2>3, <2>4 DEF FinishAnswered
<1>10. CASE Retry
  <2>0. page.at = "kept" BY <1>10 DEF Retry
  <2>1. CASE page.live
    <3>1. At("asking") /\ Asks("main", Call("status", 0)) BY <1>10, <2>1 DEF Retry
    <3>2. Same /\ page'.at = "asking" BY <1>3, <3>1
    <3>3. Main /\ calls'["main"].kind = "status" /\ calls'["main"].phase = "" BY <1>4, <3>1
    <3>4. QED BY <1>7, <2>0, <3>2, <3>3
  <2>2. CASE ~ page.live
    <3>1. ~ IncognitoPhone BY <2>2 DEF Numbering
    <3>2. At("uploading") /\ Asks("main", Call("upload", 0)) BY <1>10, <2>2 DEF Retry
    <3>3. Same /\ page'.at = "uploading" BY <1>3, <3>2
    <3>4. Main /\ calls'["main"].kind = "upload" /\ calls'["main"].phase = "" BY <1>4, <3>2
    <3>5. QED BY <1>7, <2>0, <3>1, <3>3, <3>4
  <2>3. QED BY <2>1, <2>2
<1>11. CASE Asked
  <2>0. page.at = "asking" BY <1>11 DEF Asked
  <2>1. CASE Uploads(calls["main"].phase)
    <3>1. ~ IncognitoPhone /\ page' = [page EXCEPT !.at = "uploading", !.live = FALSE] /\ Asks("main", Call("upload", 0))
      BY <1>11, <2>1 DEF Asked, Uploads
    <3>2. Same /\ page'.at = "uploading" BY <3>1 DEF Same, PhoneTypes, Pages
    <3>3. Main /\ calls'["main"].kind = "upload" /\ calls'["main"].phase = "" BY <1>4, <3>1
    <3>4. QED BY <1>7, <2>0, <3>1, <3>2, <3>3
  <2>2. CASE At("cancelling") /\ Asks("main", Call("cancel", 0))
    <3>1. Same /\ page'.at = "cancelling" BY <1>3, <2>2
    <3>2. Main /\ calls'["main"].kind = "cancel" /\ calls'["main"].phase = "" BY <1>4, <2>2
    <3>3. QED BY <1>7, <2>0, <3>1, <3>2
  <2>3. CASE Waits(calls["main"].phase) /\ Asks("main", NoCall) BY <1>5, <1>6, <1>7, <2>0, <2>3
  <2>4. QED BY <1>11, <2>1, <2>2, <2>3 DEF Asked
<1>12. CASE Wait
  <2>1. page' = page /\ page.at = "waiting" BY <1>12 DEF Wait
  <2>2. PICK k \in {"status", "job"} : Asks("main", Call(k, 0)) BY <1>12 DEF Wait
  <2>3. Main /\ calls'["main"].kind = k /\ calls'["main"].phase = "" BY <1>4, <2>2
  <2>4. Same BY <2>1 DEF Same, Numbering
  <2>5. QED BY <1>7, <2>1, <2>3, <2>4
<1>13. CASE Waited BY <1>5, <1>6, <1>7, <1>13 DEF Waited
<1>14. QED BY <1>8, <1>9, <1>10, <1>11, <1>12, <1>13

LEMMA PageKeeps == ASSUME PhoneInv, Record \/ Chunk \/ Stop \/ Retry \/ Phone PROVE PhoneInv'
<1>1. PhoneTypes' BY PhonePageTypes DEF PhoneInv
<1>2. QED BY <1>1, RecordKeeps, StartKeeps, ChunkKeeps, TurningKeeps, GoingOnKeeps DEF Phone

-----------------------------------------------------------------------------
(* A request is served.                                                     *)

LEMMA AnsweredKeeps ==
    ASSUME PhoneInv, PhoneTypes', NEW s \in Slot, Sent(s), UNCHANGED <<page, queue>>,
           NEW phase \in Phases \ {""}, NEW n \in Nat, calls' = calls \/ Replies(s, phase, n),
           phase = "starting" => calls[s].kind = "start"
    PROVE  /\ Numbering' /\ Counting'
           /\ \A t \in Slot : calls'[t].kind \in {calls[t].kind, "free"}
                              /\ calls'[t].phase \in {calls[t].phase, phase, ""}
           /\ \A t \in Slot : Begins(t)' => Begins(t)
           /\ Replies(s, phase, n) /\ phase # "starting" => ~ Begins(s)'
           /\ Begins("stray")' => (page.at = "starting" => calls'["main"].phase = "error")
           /\ \A t \in Slot : calls'[t].phase = "starting" => calls'[t].kind = "start"
<1> PhoneTypes /\ Numbering /\ Counting /\ Beginning BY DEF PhoneInv
<1> "main" \in Slot /\ "stray" \in Slot /\ "poll" \in Slot BY DEF Slot
<1>1. NoCall.kind = "free" /\ NoCall.phase = "" BY DEF NoCall
<1>2. calls[s].kind # "free" /\ calls[s].phase = "" BY DEF Sent
<1>3. \A t \in Slot : calls[t].phase = "starting" => calls[t].kind = "start" BY DEF Beginning
<1>4. Begins("stray") /\ page.at = "starting" => calls["main"].phase = "error" BY DEF Beginning
<1>5. CASE calls' = calls
  <2>1. Numbering' /\ Counting' BY <1>5 DEF Numbering, Counting, PageEnded
  <2>2. \A t \in Slot : Begins(t)' = Begins(t) BY <1>5 DEF Begins
  <2>3. Replies(s, phase, n) /\ phase # "starting" => ~ Begins(s)'
    <3>1. SUFFICES ASSUME Replies(s, phase, n) PROVE FALSE OBVIOUS
    <3>2. calls'[s] = NoCall \/ calls'[s].phase = phase BY <3>1, RepliesAnswer
    <3>3. QED BY <1>1, <1>2, <1>5, <3>2
  <2>4. QED BY <1>3, <1>4, <1>5, <2>1, <2>2, <2>3
<1>6. CASE Replies(s, phase, n)
  <2>1. /\ Answers(phase) /\ \A t \in Slot \ {s} : calls'[t] = calls[t]
        /\ calls'[s] = NoCall \/ (calls'[s].phase = phase /\ calls'[s].kind = calls[s].kind)
    BY <1>6, RepliesAnswer
  <2>2. calls'[s].kind = "free" \/ (calls'[s].kind = calls[s].kind /\ calls'[s].seq = calls[s].seq)
    BY <1>1, <2>1 DEF Answers
  <2>3. \/ calls'[s].phase = "" /\ calls'[s].kind = "free"
        \/ calls'[s].phase = phase /\ calls'[s].kind = calls[s].kind
    <3>1. CASE calls'[s] = NoCall BY <1>1, <3>1
    <3>2. CASE calls'[s] # NoCall BY <2>1, <3>2
    <3>3. QED BY <3>1, <3>2
  <2>4. page.at \in {"idle", "starting"} => s # "poll" BY <1>1, <1>2 DEF Numbering
  <2>5. Numbering' BY <2>1, <2>4 DEF Numbering, PageEnded
  <2>6. ASSUME NEW t \in Slot, (calls[t].kind = "stop")' PROVE (calls[t].seq = page.made /\ PageEnded)'
    <3>1. calls[t].kind = "stop" /\ calls'[t].seq = calls[t].seq BY <2>1, <2>2, <2>6
    <3>2. QED BY <3>1 DEF Counting, PageEnded
  <2>7. Counting' BY <2>6 DEF Counting
  <2>8. \A t \in Slot : calls'[t].kind \in {calls[t].kind, "free"} /\ calls'[t].phase \in {calls[t].phase, phase, ""}
    BY <2>1, <2>3
  <2>9. \A t \in Slot \ {s} : Begins(t)' = Begins(t) BY <2>1 DEF Begins
  <2>10. Begins(s)' => Begins(s) /\ phase = "starting" BY <1>2, <2>3 DEF Begins
  <2>11. Begins("stray")' => (page.at = "starting" => calls'["main"].phase = "error")
    <3>1. SUFFICES ASSUME Begins("stray")', page.at = "starting" PROVE calls'["main"].phase = "error" OBVIOUS
    <3>2. calls["main"].phase = "error" BY <1>4, <2>9, <2>10, <3>1
    <3>3. s # "main" BY <1>2, <3>2
    <3>4. QED BY <2>1, <3>2, <3>3
  <2>12. \A t \in Slot : calls'[t].phase = "starting" => calls'[t].kind = "start" BY <1>3, <2>1, <2>3
  <2>13. QED BY <2>5, <2>7, <2>8, <2>9, <2>10, <2>11, <2>12
<1>7. QED BY <1>5, <1>6

\* A request may begin the recording with its answer, and leaves the invariant as it is otherwise.
LEMMA ServeKeeps ==
    ASSUME PhoneInv, PhoneTypes', NEW s \in Slot, Sent(s), UNCHANGED <<page, queue, reply, words>>,
           NEW phase \in Phases \ {""}, NEW n \in Nat, calls' = calls \/ Replies(s, phase, n),
           phase = "starting" => calls[s].kind = "start", phase = "completed" => words # <<>>,
           SoundIsWhole', StopCounts',
           desk'.phase = "completed" => desk.phase = "completed", job' = "completed" => words # <<>>,
           desk'.phase # "none" => desk'.up = "ready",
           desk'.phase \in Live \cup {"processing"} => words = <<>>,
           job' = "processing" => words = <<>> /\ desk'.phase \in {"none", "failed", "cancelled"},
           Fresh => (desk'.phase = "none" /\ job' # "processing")
                    \/ (Begins(s) /\ Replies(s, phase, n) /\ phase # "starting")
    PROVE  PhoneInv'
<1> PhoneTypes /\ Worded /\ Beginning /\ Recognising BY DEF PhoneInv
<1> "main" \in Slot /\ "stray" \in Slot BY DEF Slot
<1>1. /\ Numbering' /\ Counting'
      /\ \A t \in Slot : calls'[t].kind \in {calls[t].kind, "free"} /\ calls'[t].phase \in {calls[t].phase, phase, ""}
      /\ \A t \in Slot : Begins(t)' => Begins(t)
      /\ Replies(s, phase, n) /\ phase # "starting" => ~ Begins(s)'
      /\ Begins("stray")' => (page.at = "starting" => calls'["main"].phase = "error")
      /\ \A t \in Slot : calls'[t].phase = "starting" => calls'[t].kind = "start"
  BY AnsweredKeeps
<1>2. Worded' BY <1>1 DEF Worded
<1>3. Beginning'
  <2>1. Fresh => Fresh' \/ (Begins(s) /\ ~ Begins(s)') BY <1>1 DEF Fresh
  <2>2. ASSUME page.at = "idle" PROVE Fresh' /\ \A t \in Slot : ~ Begins(t)' BY <1>1, <2>1, <2>2 DEF Beginning
  <2>3. ASSUME NEW t \in Slot, Begins(t)'
        PROVE  Fresh' /\ t \in {"main", "stray"} /\ \A u \in Slot : Begins(u)' => u = t
    <3>1. Begins(t) /\ Fresh /\ t \in {"main", "stray"} /\ \A u \in Slot : Begins(u) => u = t
      BY <1>1, <2>3 DEF Beginning
    <3>2. QED BY <1>1, <2>1, <2>3, <3>1
  <2>4. Begins("main")' => page.at = "starting" BY <1>1 DEF Beginning
  <2>5. Begins("stray")' => page.at \in {"starting", "leaving", "gone"} BY <1>1 DEF Beginning
  <2>6. QED BY <1>1, <2>2, <2>3, <2>4, <2>5 DEF Beginning
<1>4. Recognising' BY <1>1 DEF Recognising, RecognisedOnce
<1>5. QED BY <1>1, <1>2, <1>3, <1>4 DEF PhoneInv

\* What the desktop tells is so.
LEMMA TellsSo ==
    ASSUME PhoneInv
    PROVE  /\ Tells \in Phases \ {"", "starting"} /\ (Tells = "completed" => words # <<>>) /\ desk.sequence \in Nat
           /\ Tells \notin Live \cup {"processing", "completed"} => desk.phase \in {"none", "failed", "cancelled"}
<1> PhoneTypes /\ Worded BY DEF PhoneInv
<1>1. desk \in Desks BY DEF PhoneTypes
<1>2. QED BY <1>1 DEF Tells, Phase, Worded, Phases, Desks, Live

LEMMA StartingKeeps ==
    ASSUME PhoneInv, PhoneTypes', NEW s \in Slot, Sent(s), calls[s].kind = "start", UNCHANGED <<page, queue, job, words>>,
           HandleStart(s)
    PROVE  PhoneInv'
<1> PhoneTypes /\ Worded /\ SoundIsWhole /\ StopCounts /\ Recognising BY DEF PhoneInv
<1> UNCHANGED <<audio, reply>> BY DEF HandleStart
<1>1. Tells \in Phases \ {"", "starting"} /\ (Tells = "completed" => words # <<>>) /\ desk.sequence \in Nat BY TellsSo
<1>2. desk \in Desks BY DEF PhoneTypes
<1>3. Begins(s) BY DEF Begins, Sent
<1>4. Fresh BY <1>3 DEF PhoneInv, Beginning
<1>5. words = <<>> /\ job # "processing" /\ desk.phase = "none" BY <1>4 DEF Fresh
<1>6. "error" \in Phases \ {""} /\ "starting" \in Phases \ {""} /\ "preparing" \in Phases \ {""} BY DEF Phases
<1>7. CASE desk.up = "off" /\ desk' = [desk EXCEPT !.up = "starting"] /\ calls' = calls
  <2>1. desk'.phase = "none" /\ desk'.sequence = desk.sequence /\ desk'.by = desk.by BY <1>2, <1>5, <1>7 DEF Desks
  <2>2. SoundIsWhole' /\ StopCounts' BY <1>5, <2>1 DEF SoundIsWhole, StopCounts, StoppedByPhone
  <2>3. QED BY <1>5, <1>6, <1>7, <2>1, <2>2, ServeKeeps DEF Worded, Recognising, Live
<1>8. ASSUME NEW phase \in Phases \ {"", "completed"}, NEW n \in Nat, Replies(s, phase, n), desk' = desk
      PROVE  PhoneInv'
  <2>1. SoundIsWhole' /\ StopCounts' BY <1>8 DEF SoundIsWhole, StopCounts, StoppedByPhone, PageEnded
  <2>2. QED BY <1>5, <1>8, <2>1, ServeKeeps DEF Worded, Recognising, Live
<1>9. CASE desk' = [desk EXCEPT !.phase = "preparing"] /\ desk.up = "ready" /\ Replies(s, "preparing", 0)
  <2>1. desk'.phase = "preparing" /\ desk'.up = "ready" /\ desk'.sequence = desk.sequence /\ desk'.by = desk.by
    BY <1>2, <1>9 DEF Desks
  <2>2. SoundIsWhole' /\ StopCounts' BY <2>1 DEF SoundIsWhole, StopCounts, StoppedByPhone
  <2>3. QED BY <1>3, <1>5, <1>6, <1>9, <2>1, <2>2, ServeKeeps DEF Worded, Recognising, Live
<1>10. QED BY <1>1, <1>5, <1>6, <1>7, <1>8, <1>9 DEF HandleStart, Known

\* A request that is not to start, and finds a recording or none.
LEMMA OtherKeeps ==
    ASSUME PhoneInv, PhoneTypes', NEW s \in Slot, Sent(s), UNCHANGED <<page, queue, reply, words>>,
           NEW phase \in Phases \ {"", "starting"}, NEW n \in Nat, Replies(s, phase, n),
           phase = "completed" => words # <<>>, SoundIsWhole', StopCounts',
           desk' = desk \/ (/\ desk.phase \in Live \cup {"processing"} /\ desk'.up = desk.up
                           /\ desk'.phase \in {"cancelled", "processing", desk.phase}),
           job' = job \/ (job' = "completed" /\ words # <<>>)
    PROVE  PhoneInv'
<1> PhoneTypes /\ Worded /\ Recognising BY DEF PhoneInv
<1>1. desk \in Desks BY DEF PhoneTypes
<1>2. Fresh => desk' = desk /\ job' # "processing" BY DEF Fresh, Live
<1>3. desk'.phase # "none" => desk'.up = "ready" BY DEF Recognising, Live
<1>4. desk'.phase \in Live \cup {"processing"} => words = <<>> BY DEF Recognising, Live
<1>5. job' = "processing" => words = <<>> /\ desk'.phase \in {"none", "failed", "cancelled"} BY DEF Recognising, Live
<1>6. desk'.phase = "completed" => desk.phase = "completed" BY DEF Live
<1>7. job' = "completed" => words # <<>> BY DEF Worded
<1>8. Fresh => desk'.phase = "none" /\ job' # "processing" BY <1>2 DEF Fresh
<1>9. QED BY <1>3, <1>4, <1>5, <1>6, <1>7, <1>8, ServeKeeps

LEMMA HearingKeeps ==
    ASSUME PhoneInv, PhoneTypes', NEW s \in Slot, Sent(s), UNCHANGED <<page, queue, job, words>>, HandleAudio(s)
    PROVE  PhoneInv'
<1> PhoneTypes /\ SoundIsWhole /\ StopCounts BY DEF PhoneInv
<1> UNCHANGED reply BY DEF HandleAudio
<1>1. desk \in Desks /\ desk.sequence \in Nat /\ calls[s].seq \in Nat BY DEF PhoneTypes, Desks, Calling
<1>2. Tells \in Phases \ {"", "starting"} /\ (Tells = "completed" => words # <<>>) BY TellsSo
<1>3. ASSUME UNCHANGED <<desk, audio>> PROVE SoundIsWhole' /\ StopCounts'
  BY <1>3 DEF SoundIsWhole, StopCounts, StoppedByPhone, PageEnded
<1>4. "error" \in Phases \ {"", "starting"} /\ "recording" \in Phases \ {"", "starting"}
      /\ "processing" \in Phases \ {"", "starting"}
  BY DEF Phases
<1>5. CASE Replies(s, "error", 0) /\ UNCHANGED <<desk, audio>> BY <1>3, <1>4, <1>5, OtherKeeps
<1>6. CASE Replies(s, Tells, desk.sequence) /\ UNCHANGED <<desk, audio>> BY <1>1, <1>2, <1>3, <1>6, OtherKeeps
<1>7. CASE Known /\ desk.phase = "recording" /\ calls[s].seq <= desk.sequence /\ ~ NewChunk(calls[s].seq)
  <2>1. UNCHANGED <<desk, audio>> /\ Replies(s, "recording", desk.sequence) BY <1>1, <1>7 DEF HandleAudio
  <2>2. QED BY <1>1, <1>3, <1>4, <2>1, OtherKeeps
<1>8. CASE Known /\ desk.phase = "recording" /\ calls[s].seq <= desk.sequence /\ NewChunk(calls[s].seq)
  <2>1. PICK d \in Desks : d = [desk EXCEPT !.sequence = @ + 1]
    <3>1. [desk EXCEPT !.sequence = @ + 1] \in Desks BY <1>1 DEF Desks
    <3>2. QED BY <3>1
  <2>2. d.sequence = desk.sequence + 1 /\ d.phase = "recording" /\ d.up = desk.up BY <1>1, <1>8, <2>1 DEF Desks
  <2>3. PICK full \in BOOLEAN :
          /\ audio' = Append(audio, calls[s].seq)
          /\ desk' = IF full THEN [d EXCEPT !.phase = "processing", !.by = "limit"] ELSE d
          /\ Replies(s, IF full THEN "processing" ELSE "recording", d.sequence)
    <3>1. Full \in BOOLEAN BY DEF Full
    <3>2. QED BY <1>1, <1>8, <2>1, <3>1 DEF HandleAudio
  <2>4. desk'.sequence = desk.sequence + 1 /\ desk'.up = desk.up
        /\ ((desk'.phase = "processing" /\ desk'.by = "limit") \/ desk'.phase = "recording")
    BY <2>2, <2>3 DEF Desks
  <2>5. SoundIsWhole'
    <3>1. audio = [i \in 1..desk.sequence |-> i - 1] BY DEF SoundIsWhole
    <3>2. audio' = Append(audio, desk.sequence) BY <1>8, <2>3 DEF NewChunk
    <3>3. audio' = [i \in 1..(desk.sequence + 1) |-> i - 1] BY <1>1, <3>1, <3>2
    <3>4. QED BY <2>4, <3>3 DEF SoundIsWhole
  <2>6. StopCounts' BY <2>4 DEF StopCounts, StoppedByPhone
  <2>7. d.sequence \in Nat BY DEF Desks
  <2>8. QED BY <1>4, <1>8, <2>3, <2>4, <2>5, <2>6, <2>7, OtherKeeps DEF Live
<1>9. QED BY <1>1, <1>5, <1>6, <1>7, <1>8 DEF HandleAudio

LEMMA StoppingKeeps ==
    ASSUME PhoneInv, PhoneTypes', NEW s \in Slot, Sent(s), UNCHANGED <<page, queue, job, words>>,
           HandleStop(s) /\ calls[s].kind = "stop"
    PROVE  PhoneInv'
<1> PhoneTypes /\ SoundIsWhole /\ StopCounts /\ Counting BY DEF PhoneInv
<1> UNCHANGED <<audio, reply>> BY DEF HandleStop
<1>1. desk \in Desks /\ desk.sequence \in Nat BY DEF PhoneTypes, Desks
<1>2. Tells \in Phases \ {"", "starting"} /\ (Tells = "completed" => words # <<>>) BY TellsSo
<1>3. "error" \in Phases \ {"", "starting"} /\ "processing" \in Phases \ {"", "starting"} BY DEF Phases
<1>4. CASE Known /\ desk.phase = "recording" /\ Counted(calls[s].seq)
  <2>1. desk' = [desk EXCEPT !.phase = "processing", !.by = "phone"] /\ Replies(s, "processing", desk.sequence)
    BY <1>4 DEF HandleStop
  <2>2. desk'.phase = "processing" /\ desk'.up = desk.up /\ desk'.sequence = desk.sequence BY <1>1, <2>1 DEF Desks
  <2>3. SoundIsWhole' BY <2>2 DEF SoundIsWhole
  <2>4. desk.sequence = page.made /\ PageEnded BY <1>4 DEF Counting, Counted
  <2>5. StopCounts' BY <2>2, <2>4 DEF StopCounts, PageEnded
  <2>6. QED BY <1>1, <1>3, <1>4, <2>1, <2>2, <2>3, <2>5, OtherKeeps DEF Live
<1>5. CASE ~ (Known /\ desk.phase = "recording" /\ Counted(calls[s].seq))
  <2>1. desk' = desk BY <1>5 DEF HandleStop
  <2>2. SoundIsWhole' /\ StopCounts' BY <2>1 DEF SoundIsWhole, StopCounts, StoppedByPhone, PageEnded
  <2>3. Replies(s, Tells, desk.sequence) \/ Replies(s, "error", desk.sequence) BY <1>5 DEF HandleStop
  <2>4. QED BY <1>1, <1>2, <1>3, <2>1, <2>2, <2>3, OtherKeeps
<1>6. QED BY <1>4, <1>5

LEMMA CancellingKeeps ==
    ASSUME PhoneInv, PhoneTypes', NEW s \in Slot, Sent(s), UNCHANGED <<page, queue, job, words>>, HandleCancel(s)
    PROVE  PhoneInv'
<1> PhoneTypes /\ SoundIsWhole /\ StopCounts BY DEF PhoneInv
<1> UNCHANGED <<audio, reply>> BY DEF HandleCancel
<1>1. desk \in Desks /\ desk.sequence \in Nat BY DEF PhoneTypes, Desks
<1>2. Tells \in Phases \ {"", "starting"} /\ (Tells = "completed" => words # <<>>) BY TellsSo
<1>3. "error" \in Phases \ {"", "starting"} /\ "cancelled" \in Phases \ {"", "starting"} BY DEF Phases
<1>4. CASE Known /\ desk.phase \in Live
  <2>1. desk' = [desk EXCEPT !.phase = "cancelled", !.by = "phone"] /\ Replies(s, "cancelled", desk.sequence)
    BY <1>4 DEF HandleCancel
  <2>2. desk'.phase = "cancelled" /\ desk'.up = desk.up /\ desk'.sequence = desk.sequence BY <1>1, <2>1 DEF Desks
  <2>3. SoundIsWhole' /\ StopCounts' BY <2>2 DEF SoundIsWhole, StopCounts, StoppedByPhone
  <2>4. QED BY <1>1, <1>3, <1>4, <2>1, <2>2, <2>3, OtherKeeps
<1>5. CASE ~ (Known /\ desk.phase \in Live)
  <2>1. desk' = desk /\ (Replies(s, Tells, desk.sequence) \/ Replies(s, "error", desk.sequence))
    BY <1>5 DEF HandleCancel
  <2>2. SoundIsWhole' /\ StopCounts' BY <2>1 DEF SoundIsWhole, StopCounts, StoppedByPhone, PageEnded
  <2>3. QED BY <1>1, <1>2, <1>3, <2>1, <2>2, OtherKeeps
<1>6. QED BY <1>4, <1>5

LEMMA ServesKeep == ASSUME PhoneInv, NEW s \in Slot, ServesCall(s) PROVE PhoneInv'
<1> PhoneTypes /\ SoundIsWhole /\ StopCounts /\ Worded /\ Recognising BY DEF PhoneInv
<1> USE DEF desktop, companion
<1>1. PhoneTypes' /\ Sent(s) BY ServesTypes, ServesAnswer
<1>2. UNCHANGED <<page, queue, words>>
  BY DEF ServesCall, Serve, Upload, HandleStart, HandleAudio, HandleStop, HandleCancel
<1>3. Tells \in Phases \ {"", "starting"} /\ (Tells = "completed" => words # <<>>) /\ desk.sequence \in Nat
      /\ (Tells \notin Live \cup {"processing", "completed"} => desk.phase \in {"none", "failed", "cancelled"})
  BY TellsSo
<1>4. {"error", "completed", "processing", "failed"} \subseteq Phases \ {"", "starting"} BY DEF Phases
<1>5. ASSUME UNCHANGED <<desk, audio>> PROVE SoundIsWhole' /\ StopCounts'
  BY <1>2, <1>5 DEF SoundIsWhole, StopCounts, StoppedByPhone, PageEnded
<1>6. ASSUME NEW phase \in Phases \ {"", "starting"}, NEW n \in Nat, Replies(s, phase, n), UNCHANGED desktop,
             phase = "completed" => words # <<>>, job' = job \/ (job' = "completed" /\ words # <<>>)
      PROVE  PhoneInv'
  BY <1>1, <1>2, <1>5, <1>6, OtherKeeps
<1>7. InHistory => words # <<>> BY DEF InHistory
<1>8. job \in {"none", "processing", "completed", "failed"} /\ (job = "completed" => words # <<>>)
  BY DEF PhoneTypes, Worded
<1>9. CASE Serve(s)
  <2> DEFINE k == calls[s].kind
  <2>1. CASE InHistory /\ Replies(s, "completed", 0) /\ UNCHANGED <<desktop, companion>>
    BY <1>4, <1>6, <1>7, <2>1
  <2>2. CASE k = "start" /\ HandleStart(s) /\ UNCHANGED companion BY <1>1, <1>2, <2>2, StartingKeeps
  <2>3. CASE k = "status" /\ ~ InHistory
    <3>1. /\ Replies(s, IF Known THEN Tells ELSE "error", desk.sequence) /\ UNCHANGED desktop
          /\ job' = IF Known /\ Tells = "completed" THEN "completed" ELSE job
      BY <1>9, <2>3 DEF Serve
    <3>2. job' = job \/ (job' = "completed" /\ words # <<>>) BY <1>3, <3>1
    <3>3. CASE Known BY <1>3, <1>6, <3>1, <3>2, <3>3
    <3>4. CASE ~ Known BY <1>3, <1>4, <1>6, <3>1, <3>2, <3>4
    <3>5. QED BY <3>3, <3>4
  <2>4. CASE k = "audio" /\ HandleAudio(s) /\ UNCHANGED companion BY <1>1, <1>2, <2>4, HearingKeeps
  <2>5. CASE k = "stop" /\ HandleStop(s) /\ UNCHANGED companion BY <1>1, <1>2, <2>5, StoppingKeeps
  <2>6. CASE k = "cancel" /\ HandleCancel(s) /\ UNCHANGED companion BY <1>1, <1>2, <2>6, CancellingKeeps
  <2>7. CASE /\ UNCHANGED <<desktop, companion>>
             /\ Replies(s, IF job # "none" THEN job ELSE IF InHistory THEN "completed" ELSE "error", 0)
    <3>1. PICK phase \in Phases \ {"", "starting"} : Replies(s, phase, 0) /\ (phase = "completed" => words # <<>>)
      BY <1>4, <1>7, <1>8, <2>7
    <3>2. QED BY <1>6, <2>7, <3>1
  <2>8. QED BY <1>9, <2>1, <2>2, <2>3, <2>4, <2>5, <2>6, <2>7 DEF Serve
<1>10. CASE Upload(s)
  <2>0. UNCHANGED desktop /\ calls[s].kind = "upload" BY <1>10 DEF Upload
  <2>1. CASE HistoryReceipt # "none" /\ Replies(s, HistoryReceipt, 0) /\ job' = job
    <3>1. PICK phase \in Phases \ {"", "starting"} : phase = HistoryReceipt /\ (phase = "completed" => words # <<>>)
      BY <1>4, <1>7, <1>8, <2>1 DEF HistoryReceipt
    <3>2. QED BY <1>6, <2>0, <2>1, <3>1
  <2>2. CASE Replies(s, "error", 0) /\ job' = job BY <1>4, <1>6, <2>0, <2>2
  <2>3. CASE Tells = "completed" /\ Replies(s, "completed", 0) /\ job' = job BY <1>3, <1>4, <1>6, <2>0, <2>3
  <2>4. CASE /\ HistoryReceipt = "none" /\ ~ (Known /\ Tells \in Live \cup {"processing", "completed"})
             /\ Replies(s, "processing", 0) /\ job' = "processing"
    <3>1. ~ IncognitoPhone /\ ~ InHistory BY <2>0, <2>4 DEF Recognising, HistoryReceipt
    <3>2. words = <<>> BY <3>1 DEF InHistory
    <3>3. desk.phase \in {"none", "failed", "cancelled"} BY <1>3, <2>4 DEF Known, Recognising
    <3>4. ~ Fresh BY <2>0 DEF Fresh
    <3>5. SoundIsWhole' /\ StopCounts' BY <1>5, <2>0
    <3>6. QED BY <1>1, <1>2, <1>4, <2>0, <2>4, <3>2, <3>3, <3>4, <3>5, ServeKeeps DEF Recognising, Live, Worded
  <2>5. QED BY <1>10, <2>1, <2>2, <2>3, <2>4 DEF Upload
<1>11. QED BY <1>9, <1>10 DEF ServesCall

-----------------------------------------------------------------------------
(* An answer is lost, the desktop works, something ends.                    *)

LEMMA LostKeeps == ASSUME PhoneInv, NEW s \in Slot, Lost(s) PROVE PhoneInv'
<1> PhoneTypes /\ Numbering /\ SoundIsWhole /\ Counting /\ StopCounts /\ Worded /\ Beginning /\ Recognising
  BY DEF PhoneInv
<1> "main" \in Slot /\ "stray" \in Slot /\ "poll" \in Slot /\ "poll" # "stray" BY DEF Slot
<1>1. PhoneTypes' BY PhoneRestTypes
<1>2. UNCHANGED <<page, queue, desk, audio, reply, job, words>> /\ calls[s].kind # "free" BY DEF Lost, desktop, companion
<1>3. /\ s # "stray" /\ \A t \in Slot \ {s, "stray"} : calls'[t] = calls[t]
      /\ calls'[s].kind = calls[s].kind /\ calls'[s].seq = calls[s].seq /\ calls'[s].phase = "error"
      /\ \/ calls'["stray"] = calls["stray"]
         \/ Sent(s) /\ calls["stray"] = NoCall /\ calls'["stray"] = calls[s]
  BY LostCalls
<1>4. NoCall.kind = "free" BY DEF NoCall
<1>5. \A t \in Slot : \E u \in Slot : calls'[t].kind = calls[u].kind /\ calls'[t].seq = calls[u].seq
  <2>1. ASSUME NEW t \in Slot PROVE \E u \in Slot : calls'[t].kind = calls[u].kind /\ calls'[t].seq = calls[u].seq
    <3>1. CASE t = s BY <1>3, <3>1
    <3>2. CASE t = "stray" BY <1>3, <3>2
    <3>3. CASE t # s /\ t # "stray" BY <1>3, <3>3
    <3>4. QED BY <3>1, <3>2, <3>3
  <2>2. QED BY <2>1
<1>6. \A t \in Slot : calls'[t].phase \in {calls[t].phase, "error", ""} BY <1>3 DEF Sent
<1>7. Numbering'
  <2>1. page.at \in {"idle", "starting"} => s # "poll" BY <1>2, <1>4 DEF Numbering
  <2>2. QED BY <1>2, <1>3, <2>1 DEF Numbering, PageEnded
<1>8. Counting' BY <1>2, <1>5 DEF Counting, PageEnded
<1>9. SoundIsWhole' /\ StopCounts' BY <1>2 DEF SoundIsWhole, StopCounts, StoppedByPhone, PageEnded
<1>10. Worded' BY <1>2, <1>6 DEF Worded
<1>11. Fresh => Fresh' BY <1>2, <1>5 DEF Fresh
<1>12. ~ Begins(s)' /\ \A t \in Slot \ {s, "stray"} : Begins(t)' = Begins(t) BY <1>3 DEF Begins
<1>13. Begins("stray")' => Begins("stray") \/ Begins(s) BY <1>3 DEF Begins
<1>14. Begins(s) => s = "main" /\ page.at = "starting" /\ \A t \in Slot \ {s} : ~ Begins(t) BY <1>3 DEF Beginning
<1>15. ASSUME NEW t \in Slot, Begins(t)' PROVE Begins(t) \/ (t = "stray" /\ Begins(s)) BY <1>12, <1>13, <1>15
<1>16. ASSUME NEW t \in Slot, Begins(t)'
      PROVE  Fresh' /\ t \in {"main", "stray"} /\ \A u \in Slot : Begins(u)' => u = t
  <2>1. CASE Begins(s) BY <1>11, <1>12, <1>14, <1>15, <1>16, <2>1 DEF Beginning
  <2>2. CASE ~ Begins(s)
    <3>1. Begins(t) /\ \A u \in Slot : Begins(u)' => Begins(u) BY <1>15, <1>16, <2>2
    <3>2. QED BY <1>11, <3>1 DEF Beginning
  <2>3. QED BY <2>1, <2>2
<1>17. page.at = "idle" => Fresh' /\ \A t \in Slot : ~ Begins(t)' BY <1>11, <1>15 DEF Beginning
<1>18. \A t \in Slot : calls'[t].phase = "starting" => calls'[t].kind = "start"
  <2>1. ASSUME NEW t \in Slot, calls'[t].phase = "starting" PROVE calls'[t].kind = "start"
    <3>1. t # s BY <1>3, <2>1
    <3>2. CASE calls'[t] = calls[t] BY <2>1, <3>2 DEF Beginning
    <3>3. CASE calls'[t] = calls[s] /\ Sent(s) BY <2>1, <3>3 DEF Sent
    <3>4. QED BY <1>3, <3>1, <3>2, <3>3
  <2>2. QED BY <2>1
<1>19. Begins("main")' => page.at = "starting" BY <1>15 DEF Beginning
<1>20. ASSUME Begins("stray")'
       PROVE  page.at \in {"starting", "leaving", "gone"} /\ (page.at = "starting" => calls'["main"].phase = "error")
  <2>1. CASE Begins(s) BY <1>3, <1>14, <2>1
  <2>2. CASE ~ Begins(s)
    <3>1. Begins("stray") BY <1>15, <1>20, <2>2
    <3>2. page.at = "starting" => calls["main"].phase = "error" BY <3>1 DEF Beginning
    <3>3. calls'["main"].phase \in {calls["main"].phase, "error"} BY <1>3
    <3>4. QED BY <3>1, <3>2, <3>3 DEF Beginning
  <2>3. QED BY <2>1, <2>2
<1>21. Beginning' BY <1>2, <1>16, <1>17, <1>18, <1>19, <1>20 DEF Beginning
<1>22. Recognising' BY <1>2, <1>5 DEF Recognising, RecognisedOnce
<1>23. QED BY <1>1, <1>7, <1>8, <1>9, <1>10, <1>21, <1>22 DEF PhoneInv

\* Nothing happens to the page and its requests.
LEMMA WorkKeeps ==
    ASSUME PhoneInv, PhoneTypes', UNCHANGED <<page, queue, calls>>,
           SoundIsWhole', StopCounts', Worded', Recognising', Fresh => Fresh'
    PROVE  PhoneInv'
<1> PhoneTypes /\ Numbering /\ Counting /\ Beginning BY DEF PhoneInv
<1>1. Numbering' BY DEF Numbering, PageEnded
<1>2. Counting' BY DEF Counting, PageEnded
<1>3. \A t \in Slot : Begins(t)' = Begins(t) BY DEF Begins
<1>4. "main" \in Slot /\ "stray" \in Slot BY DEF Slot
<1>5. Beginning' BY <1>3, <1>4 DEF Beginning
<1>6. QED BY <1>1, <1>2, <1>5 DEF PhoneInv

LEMMA DeskKeeps == ASSUME PhoneInv, Desk PROVE PhoneInv'
<1> PhoneTypes /\ SoundIsWhole /\ StopCounts /\ Worded /\ Recognising BY DEF PhoneInv
<1>1. PhoneTypes' BY PhoneRestTypes
<1>2. UNCHANGED <<page, queue, calls, job>> BY DEF Desk
<1>3. desk \in Desks /\ words \in Seq({"live", "inbox"}) BY DEF PhoneTypes
<1>4. ASSUME UNCHANGED <<audio, reply, words>>, desk'.sequence = desk.sequence, desk'.up = desk.up,
             desk.phase \in Live \cup {"processing"}, desk'.phase \in {"recording", "failed", "processing", "cancelled"},
             desk'.phase = "recording" => desk.phase \in Live,
             desk'.phase = "processing" => desk'.by # "phone"
      PROVE  PhoneInv'
  <2>1. SoundIsWhole' BY <1>4 DEF SoundIsWhole
  <2>2. StopCounts' BY <1>4 DEF StopCounts, StoppedByPhone
  <2>3. Worded' BY <1>2, <1>4 DEF Worded
  <2>4. Recognising' BY <1>2, <1>4 DEF Recognising, RecognisedOnce, Live
  <2>5. Fresh => Fresh' BY <1>4 DEF Fresh, Live
  <2>6. QED BY <1>1, <1>2, <2>1, <2>2, <2>3, <2>4, <2>5, WorkKeeps
<1>5. CASE DeskReady
  <2>1. desk'.phase = desk.phase /\ desk'.up = "ready" /\ desk'.sequence = desk.sequence /\ desk'.by = desk.by
        /\ UNCHANGED <<audio, reply, words>>
    BY <1>3, <1>5 DEF DeskReady, Desks
  <2>2. SoundIsWhole' /\ StopCounts' BY <1>2, <2>1 DEF SoundIsWhole, StopCounts, StoppedByPhone, PageEnded
  <2>3. Worded' /\ Recognising' /\ (Fresh => Fresh') BY <1>2, <2>1 DEF Worded, Recognising, RecognisedOnce, Fresh
  <2>4. QED BY <1>1, <1>2, <2>2, <2>3, WorkKeeps
<1>6. CASE Prepared
  <2>1. PICK p \in {"recording", "failed"} : desk' = [desk EXCEPT !.phase = p] BY <1>6 DEF Prepared
  <2>2. desk'.sequence = desk.sequence /\ desk'.up = desk.up /\ desk'.phase = p BY <1>3, <2>1 DEF Desks
  <2>3. QED BY <1>4, <1>6, <2>2 DEF Prepared, Live
<1>7. CASE AtTheDesk
  <2>1. PICK p \in {"processing", "cancelled"} : desk' = [desk EXCEPT !.phase = p, !.by = "desk"] BY <1>7 DEF AtTheDesk
  <2>2. desk'.sequence = desk.sequence /\ desk'.up = desk.up /\ desk'.phase = p /\ desk'.by = "desk"
    BY <1>3, <2>1 DEF Desks
  <2>3. QED BY <1>4, <1>7, <2>2 DEF AtTheDesk, Live
<1>8. CASE Watch
  <2>1. desk.phase \in Live BY <1>8 DEF Watch, Expired, Live
  <2>2. desk'.sequence = desk.sequence /\ desk'.up = desk.up /\ desk'.phase = "cancelled" BY <1>3, <1>8 DEF Watch, Desks
  <2>3. QED BY <1>4, <1>8, <2>1, <2>2 DEF Watch
<1>9. CASE Completes
  <2>0. desk.phase = "processing" /\ words = <<>> /\ job # "processing" /\ UNCHANGED <<audio, reply>>
    BY <1>9 DEF Completes, Recognising
  <2>1. PICK p \in {"completed", "failed"} : /\ desk' = [desk EXCEPT !.phase = p]
                                             /\ words' = IF p = "completed" THEN Append(words, "live") ELSE words
    BY <1>9 DEF Completes
  <2>2. desk'.sequence = desk.sequence /\ desk'.up = desk.up /\ desk'.phase = p /\ desk'.by = desk.by
    BY <1>3, <2>1 DEF Desks
  <2>3. words' = (IF p = "completed" THEN <<"live">> ELSE <<>>) BY <2>0, <2>1
  <2>4. Len(words') <= 1 /\ (p = "completed" => words' # <<>>) BY <2>3
  <2>5. SoundIsWhole' BY <2>0, <2>2 DEF SoundIsWhole
  <2>6. StopCounts' BY <1>2, <2>0, <2>2 DEF StopCounts, StoppedByPhone, PageEnded
  <2>7. Worded' BY <1>2, <2>0, <2>2, <2>4 DEF Worded
  <2>8. Recognising' BY <1>2, <2>0, <2>2, <2>4 DEF Recognising, RecognisedOnce, Live
  <2>9. ~ Fresh BY <2>0 DEF Fresh
  <2>10. QED BY <1>1, <1>2, <2>5, <2>6, <2>7, <2>8, <2>9, WorkKeeps
<1>10. CASE Reported
  <2>1. desk.phase = "completed" /\ UNCHANGED <<desk, audio, words>> BY <1>10 DEF Reported
  <2>2. SoundIsWhole' /\ StopCounts' BY <1>2, <2>1 DEF SoundIsWhole, StopCounts, StoppedByPhone, PageEnded
  <2>3. Worded' /\ Recognising' /\ ~ Fresh BY <1>2, <2>1 DEF Worded, Recognising, RecognisedOnce, Fresh
  <2>4. QED BY <1>1, <1>2, <2>2, <2>3, WorkKeeps
<1>11. CASE Tick
  <2>1. UNCHANGED <<desk, audio, reply, words>> BY <1>11 DEF Tick
  <2>2. SoundIsWhole' /\ StopCounts' BY <1>2, <2>1 DEF SoundIsWhole, StopCounts, StoppedByPhone, PageEnded
  <2>3. Worded' /\ Recognising' /\ (Fresh => Fresh') BY <1>2, <2>1 DEF Worded, Recognising, RecognisedOnce, Fresh
  <2>4. QED BY <1>1, <1>2, <2>2, <2>3, WorkKeeps
<1>12. QED BY <1>5, <1>6, <1>7, <1>8, <1>9, <1>10, <1>11 DEF Desk

LEMMA ProcessKeeps == ASSUME PhoneInv, Process PROVE PhoneInv'
<1> PhoneTypes /\ SoundIsWhole /\ StopCounts /\ Worded /\ Recognising BY DEF PhoneInv
<1>1. PhoneTypes' BY PhoneRestTypes
<1>2. UNCHANGED <<page, queue, calls, desk, audio, reply>> /\ job = "processing" BY DEF Process, desktop
<1>3. words = <<>> /\ desk.phase \in {"none", "failed", "cancelled"} BY <1>2 DEF Recognising
<1>4. /\ job' \in {"failed", "completed"} /\ Len(words') <= 1 /\ (job' = "completed" => words' # <<>>)
  <2>1. CASE job' = "failed" /\ words' = words BY <1>3, <2>1
  <2>2. CASE job' = "completed" /\ words' = Append(words, "inbox")
    <3>1. words' = <<"inbox">> BY <1>3, <2>2
    <3>2. QED BY <2>2, <3>1
  <2>3. QED BY <2>1, <2>2 DEF Process
<1>5. SoundIsWhole' /\ StopCounts' BY <1>2 DEF SoundIsWhole, StopCounts, StoppedByPhone, PageEnded
<1>6. ~ (desk.phase = "completed" \/ reply = "completed" \/ page.at = "done")
      /\ \A t \in Slot : calls[t].phase # "completed"
  BY <1>3 DEF Worded
<1>7. Worded' BY <1>2, <1>4, <1>6 DEF Worded
<1>8. Recognising' BY <1>2, <1>3, <1>4 DEF Recognising, RecognisedOnce, Live
<1>9. ~ Fresh BY <1>2 DEF Fresh
<1>10. QED BY <1>1, <1>2, <1>5, <1>7, <1>8, <1>9, WorkKeeps

LEMMA BeginsKeeps == ASSUME PhoneInv, DesktopBegins \/ (DesktopEnds /\ UNCHANGED lost) PROVE PhoneInv'
<1> PhoneTypes /\ SoundIsWhole /\ StopCounts /\ Worded /\ Recognising BY DEF PhoneInv
<1>1. PhoneTypes'
  <2>1. CASE DesktopBegins BY <2>1, PhoneRestTypes
  <2>2. CASE DesktopEnds BY <2>2 DEF DesktopEnds, PhoneTypes, NoSession, Desks, companion
  <2>3. QED BY <2>1, <2>2
<1>2. UNCHANGED <<page, queue, calls, job, words>> BY DEF DesktopBegins, DesktopEnds, companion
<1>3. CASE DesktopBegins
  <2>1. desk'.phase = desk.phase /\ desk'.sequence = desk.sequence /\ desk'.by = desk.by /\ UNCHANGED <<audio, reply>>
        /\ desk.phase = "none"
    BY <1>3 DEF DesktopBegins, PhoneTypes, Desks, Recognising
  <2>2. SoundIsWhole' /\ StopCounts' BY <1>2, <2>1 DEF SoundIsWhole, StopCounts, StoppedByPhone, PageEnded
  <2>3. Worded' /\ Recognising' /\ (Fresh => Fresh') BY <1>2, <2>1 DEF Worded, Recognising, RecognisedOnce, Fresh, Live
  <2>4. QED BY <1>1, <1>2, <2>2, <2>3, WorkKeeps
<1>4. CASE DesktopEnds
  <2>1. desk'.phase = "none" /\ desk'.sequence = 0 /\ audio' = <<>> /\ reply' = "none"
    BY <1>4 DEF DesktopEnds, NoSession
  <2>2. SoundIsWhole'
    <3>1. <<>> = [i \in 1..0 |-> i - 1] OBVIOUS
    <3>2. QED BY <2>1, <3>1 DEF SoundIsWhole
  <2>3. StopCounts' BY <2>1 DEF StopCounts, StoppedByPhone
  <2>4. Worded' /\ Recognising' /\ (Fresh => Fresh') BY <1>2, <2>1 DEF Worded, Recognising, RecognisedOnce, Fresh, Live
  <2>5. QED BY <1>1, <1>2, <2>2, <2>3, <2>4, WorkKeeps
<1>5. QED BY <1>3, <1>4

\* Requests end unanswered with the companion or with the page.
LEMMA CutKeeps ==
    ASSUME PhoneInv, PhoneTypes', UNCHANGED <<desk, audio, reply, words>>, job' \in {"none", job},
           Numbering', page'.made = page.made, PageEnded => PageEnded', page'.at = "done" => page.at = "done",
           page'.at = "idle" => page.at = "idle",
           \A t \in Slot : calls'[t].kind = "free"
                           \/ \E u \in Slot : calls'[t].kind = calls[u].kind /\ calls'[t].seq = calls[u].seq,
           \A t \in Slot : calls'[t].phase \in {calls[t].phase, "error", ""},
           \A t \in Slot : calls'[t].phase = "starting" => calls'[t].kind = "start",
           \A t \in Slot : Begins(t)' => /\ t \in {"main", "stray"} /\ \E u \in Slot : Begins(u)
                                        /\ \A v \in Slot : Begins(v)' => v = t,
           Begins("main")' => page'.at = "starting",
           Begins("stray")' => page'.at = "gone"
    PROVE  PhoneInv'
<1> PhoneTypes /\ SoundIsWhole /\ Counting /\ StopCounts /\ Worded /\ Beginning /\ Recognising BY DEF PhoneInv
<1>1. SoundIsWhole' /\ StopCounts' BY DEF SoundIsWhole, StopCounts, StoppedByPhone
<1>2. Counting'
  <2>1. ASSUME NEW t \in Slot, calls'[t].kind = "stop" PROVE calls'[t].seq = page.made /\ PageEnded'
    <3>1. PICK u \in Slot : calls'[t].kind = calls[u].kind /\ calls'[t].seq = calls[u].seq BY <2>1
    <3>2. QED BY <2>1, <3>1, ZenonT(30) DEF Counting
  <2>2. QED BY <2>1 DEF Counting
<1>3. \A t \in Slot : calls'[t].kind = "upload" => \E u \in Slot : calls[u].kind = "upload"
  <2>1. ASSUME NEW t \in Slot, calls'[t].kind = "upload" PROVE \E u \in Slot : calls[u].kind = "upload"
    <3>1. PICK u \in Slot : calls'[t].kind = calls[u].kind BY <2>1
    <3>2. QED BY <2>1, <3>1
  <2>2. QED BY <2>1
<1>4. Worded' BY DEF Worded
<1>5. Fresh => Fresh' BY <1>3 DEF Fresh
<1>6. \A t \in Slot : Begins(t)' => Fresh' BY <1>5 DEF Beginning
<1>7. Beginning' BY <1>5, <1>6 DEF Beginning
<1>8. Recognising' BY <1>3 DEF Recognising, RecognisedOnce
<1>9. QED BY <1>1, <1>2, <1>4, <1>7, <1>8 DEF PhoneInv

LEMMA CrashKeeps == ASSUME PhoneInv, Crash PROVE PhoneInv'
<1> PhoneTypes /\ Numbering /\ Beginning BY DEF PhoneInv
<1> "main" \in Slot /\ "stray" \in Slot /\ "poll" \in Slot /\ "poll" # "stray" BY DEF Slot
<1>1. PhoneTypes' BY PhoneRestTypes
<1>2. NoCall.kind = "free" /\ NoCall.phase = "" BY DEF NoCall
<1>3. \A t \in Slot : calls[t].phase = "starting" => calls[t].kind = "start" BY DEF Beginning
<1>4. CASE DesktopEnds BY <1>4, BeginsKeeps DEF Crash
<1>5. CASE CompanionEnds
  <2>1. UNCHANGED <<page, queue, desk, audio, reply, words>> /\ job' = "none" BY <1>5 DEF CompanionEnds, desktop
  <2>2. calls'["stray"] = NoCall BY <1>5 DEF CompanionEnds
  <2>3. ASSUME NEW t \in Slot \ {"stray"}
        PROVE  \/ calls'[t] = calls[t]
               \/ /\ Sent(t) /\ calls'[t].phase = "error" /\ calls'[t].kind = calls[t].kind
                  /\ calls'[t].seq = calls[t].seq
    <3>1. CASE Sent(t)
      <4>1. calls'[t] = [calls[t] EXCEPT !.phase = "error"] BY <1>5, <3>1 DEF CompanionEnds
      <4>2. calls[t] \in Calling BY DEF PhoneTypes
      <4>3. QED BY <3>1, <4>1, <4>2 DEF Calling
    <3>2. CASE ~ Sent(t) BY <1>5, <3>2 DEF CompanionEnds
    <3>3. QED BY <3>1, <3>2
  <2>4. ASSUME NEW t \in Slot, Begins(t)' PROVE Begins(t) /\ t # "stray"
    <3>1. t # "stray" BY <1>2, <2>2, <2>4 DEF Begins
    <3>2. calls'[t].phase # "error" BY <2>4 DEF Begins
    <3>3. QED BY <2>3, <2>4, <3>1, <3>2 DEF Begins
  <2>5. calls["poll"] = NoCall => calls'["poll"] = NoCall
    <3>1. calls["poll"] = NoCall => ~ Sent("poll") BY <1>2 DEF Sent
    <3>2. QED BY <1>5, <3>1 DEF CompanionEnds
  <2>6. Numbering' BY <2>1, <2>5 DEF Numbering, PageEnded
  <2>7. \A t \in Slot : calls'[t].kind = "free"
                        \/ \E u \in Slot : calls'[t].kind = calls[u].kind /\ calls'[t].seq = calls[u].seq
    BY <1>2, <2>2, <2>3
  <2>8. \A t \in Slot : calls'[t].phase \in {calls[t].phase, "error", ""} BY <1>2, <2>2, <2>3
  <2>9. \A t \in Slot : calls'[t].phase = "starting" => calls'[t].kind = "start"
    <3>1. ASSUME NEW t \in Slot, calls'[t].phase = "starting" PROVE calls'[t].kind = "start"
      <4>1. t # "stray" BY <1>2, <2>2, <3>1
      <4>2. calls'[t] = calls[t] BY <2>3, <3>1, <4>1
      <4>3. QED BY <1>3, <3>1, <4>2
    <3>2. QED BY <3>1
  <2>10. Begins("main")' => page'.at = "starting" BY <2>1, <2>4 DEF Beginning
  <2>11. \A t \in Slot : Begins(t)' => /\ t \in {"main", "stray"} /\ (\E u \in Slot : Begins(u))
                                        /\ \A v \in Slot : Begins(v)' => v = t
    BY <2>4 DEF Beginning
  <2>12. ~ Begins("stray")' BY <2>4
  <2>13. (PageEnded => PageEnded') /\ page'.made = page.made BY <2>1 DEF PageEnded
  <2>14. QED BY <1>1, <2>1, <2>6, <2>7, <2>8, <2>9, <2>10, <2>11, <2>12, <2>13, CutKeeps
<1>6. CASE PageEnds
  <2>1. UNCHANGED <<desk, audio, reply, words, job>> /\ queue' = <<>>
    BY <1>6 DEF PageEnds, desktop, companion
  <2>2. page'.at = (IF page.stored THEN "kept" ELSE "gone") /\ page'.live /\ page'.made = page.made
        /\ page'.sequence = page.sequence /\ page'.failed = page.failed /\ page'.stopped = page.stopped
        /\ page'.stored = page.stored
    BY <1>6 DEF PageEnds, PhoneTypes, Pages
  <2>3. PICK s \in Slot : calls' = [t \in Slot |-> IF t # "stray" THEN NoCall ELSE IF Sent(s) THEN calls[s] ELSE calls[t]]
    BY <1>6 DEF PageEnds
  <2>4. \A t \in Slot \ {"stray"} : calls'[t] = NoCall BY <2>3
  <2>5. PICK u \in Slot : calls'["stray"] = calls[u] /\ (Sent(u) \/ u = "stray") BY <2>3
  <2>6. Numbering' BY <2>1, <2>2 DEF Numbering, PageEnded
  <2>7. \A t \in Slot : Begins(t)' => t = "stray" /\ Begins(u) BY <1>2, <2>4, <2>5 DEF Begins
  <2>8. Begins("stray")' => page'.at = "gone"
    <3>1. SUFFICES ASSUME Begins(u) PROVE page'.at = "gone" BY <2>7
    <3>2. u \in {"main", "stray"} BY <3>1 DEF Beginning
    <3>3. page.at \in {"starting", "leaving", "gone"} BY <3>1, <3>2 DEF Beginning
    <3>4. QED BY <2>2, <3>3 DEF Numbering
  <2>9. \A t \in Slot : calls'[t].kind = "free"
                        \/ \E v \in Slot : calls'[t].kind = calls[v].kind /\ calls'[t].seq = calls[v].seq
    BY <1>2, <2>4, <2>5
  <2>10. \A t \in Slot : calls'[t].phase \in {calls[t].phase, "error", ""} BY <1>2, <2>4, <2>5 DEF Sent
  <2>11. \A t \in Slot : calls'[t].phase = "starting" => calls'[t].kind = "start" BY <1>2, <1>3, <2>4, <2>5
  <2>12. \A t \in Slot : Begins(t)' => /\ t \in {"main", "stray"} /\ (\E v \in Slot : Begins(v))
                                        /\ \A v \in Slot : Begins(v)' => v = t
    BY <2>7
  <2>13. ~ Begins("main")' BY <2>7
  <2>14. (PageEnded => PageEnded') /\ page'.at \notin {"idle", "done"} BY <2>2 DEF PageEnded
  <2>15. QED BY <1>1, <2>1, <2>2, <2>6, <2>8, <2>9, <2>10, <2>11, <2>12, <2>13, <2>14, CutKeeps
<1>7. QED BY <1>4, <1>5, <1>6 DEF Crash

LEMMA PhoneBegins == ASSUME Init PROVE PhoneInv
<1>1. page = [at |-> "idle", made |-> 0, sequence |-> 0, tries |-> 0, failed |-> FALSE, stopped |-> FALSE,
              live |-> TRUE, stored |-> FALSE] /\ queue = <<>> /\ calls = [s \in Slot |-> NoCall]
      /\ audio = <<>> /\ quiet = [sound |-> 0, on |-> 0] /\ reply = "none" /\ job = "none" /\ words = <<>>
  BY DEF Init
<1>2. desk \in Desks /\ desk.phase = "none" /\ desk.sequence = 0 BY DEF Init, NoSession, Desks
<1>3. NoCall \in Calling /\ NoCall.kind = "free" /\ NoCall.phase = "" BY DEF NoCall, Calling, Kinds, Phases
<1>4. \A s \in Slot : calls[s] = NoCall BY <1>1
<1>5. "chunk" \in Slot /\ "poll" \in Slot BY DEF Slot
<1>6. PhoneTypes
  <2>1. page \in Pages BY <1>1 DEF Pages, Places
  <2>2. calls \in [Slot -> Calling] BY <1>1, <1>3
  <2>3. QED BY <1>1, <1>2, <1>4, <1>5, <2>1, <2>2 DEF PhoneTypes
<1>7. Numbering BY <1>1, <1>4, <1>5 DEF Numbering, PageEnded
<1>8. SoundIsWhole
  <2>1. <<>> = [i \in 1..0 |-> i - 1] OBVIOUS
  <2>2. QED BY <1>1, <1>2, <2>1 DEF SoundIsWhole
<1>9. Counting BY <1>3, <1>4 DEF Counting
<1>10. StopCounts BY <1>2 DEF StopCounts, StoppedByPhone
<1>11. Worded BY <1>1, <1>2, <1>3, <1>4 DEF Worded
<1>12. \A s \in Slot : ~ Begins(s) BY <1>3, <1>4 DEF Begins
<1>13. Fresh BY <1>1, <1>2, <1>3, <1>4 DEF Fresh
<1>14. Beginning BY <1>3, <1>4, <1>12, <1>13 DEF Beginning, Slot
<1>15. Recognising
  <2>1. \A s \in Slot : calls[s].kind # "upload" BY <1>3, <1>4
  <2>2. Len(words) <= 1 BY <1>1
  <2>3. QED BY <1>1, <1>2, <2>1, <2>2 DEF Recognising, RecognisedOnce, Live
<1>16. QED BY <1>6, <1>7, <1>8, <1>9, <1>10, <1>11, <1>14, <1>15 DEF PhoneInv

LEMMA PhoneSteps == PhoneInv /\ [Next]_vars => PhoneInv'
<1>1. ASSUME PhoneInv, Next PROVE PhoneInv'
  BY <1>1, PageKeeps, ServesKeep, LostKeeps, DeskKeeps, ProcessKeeps, BeginsKeeps, CrashKeeps DEF Next
<1>2. ASSUME PhoneInv, UNCHANGED vars PROVE PhoneInv'
  <2>1. UNCHANGED <<page, queue, calls, desk, audio, quiet, reply, job, words>> BY <1>2 DEF vars
  <2>2. PhoneTypes' /\ SoundIsWhole' /\ StopCounts' /\ Worded' /\ Recognising' /\ (Fresh => Fresh')
    BY <1>2, <2>1 DEF PhoneInv, PhoneTypes, SoundIsWhole, StopCounts, StoppedByPhone, PageEnded, Worded, Recognising,
       RecognisedOnce, Fresh
  <2>3. QED BY <1>2, <2>1, <2>2, WorkKeeps
<1>3. QED BY <1>1, <1>2

\* What every reachable state of a phone recording keeps, however many chunks, answers, restarts and retries
\* there are (core/phone.rs, mluva-web/src/phone.rs, web/live.js): every other theorem follows from it.
THEOREM PhoneInvariant == Spec => []PhoneInv
<1>1. Init => PhoneInv BY PhoneBegins
<1>2. QED BY <1>1, PhoneSteps, PTL DEF Spec

-----------------------------------------------------------------------------
(* Limits: the queue of the phone, and the file of the desktop.             *)

\* A recording that still takes sound has room for a chunk.
Limits ==
    /\ page.sequence <= page.made /\ page.made <= MaxChunks /\ Len(queue) <= QueueLimit
    /\ desk.sequence <= PcmLimit /\ (desk.phase = "recording" => desk.sequence < PcmLimit)
    /\ desk.phase \in {"none", "preparing"} => desk.sequence = 0

\* Bounds are numbers, and there is room for one chunk.
LEMMA LimitsAre == {MaxChunks, QueueLimit, PcmLimit} \subseteq Nat /\ PcmLimit > 0
BY PhoneAssumption DEF PhoneAssumption

LEMMA PageLimits == ASSUME PhoneInv, Limits, Record \/ Chunk \/ Stop \/ Retry \/ Phone PROVE Limits'
<1> PhoneTypes BY DEF PhoneInv
<1> USE LimitsAre
<1>1. desk' = desk
  BY DEF Record, Chunk, Stop, Retry, Phone, Start, SendChunk, ChunkAnswered, Polls, PollAnswered, Finish, FinishAnswered,
         Asked, Wait, Waited, desktop
<1>2. PhoneTypes' BY PhonePageTypes
<1>3. page \in Pages /\ page' \in Pages /\ queue \in Seq(Nat) /\ queue' \in Seq(Nat) BY <1>2 DEF PhoneTypes
<1>4. Len(queue) \in Nat /\ (queue # <<>> => Len(Tail(queue)) \in Nat /\ Len(Tail(queue)) <= Len(queue)) BY <1>3
<1>5. ASSUME page'.made = page.made, page'.sequence = page.sequence,
             queue' = queue \/ (queue # <<>> /\ queue' = Tail(queue))
      PROVE  Limits'
  <2>1. Len(queue') <= QueueLimit
    <3>1. CASE queue' = queue BY <3>1 DEF Limits
    <3>2. CASE queue # <<>> /\ queue' = Tail(queue) BY <1>4, <3>2 DEF Limits
    <3>3. QED BY <1>5, <3>1, <3>2
  <2>2. QED BY <1>1, <1>5, <2>1 DEF Limits
<1>6. CASE Record BY <1>5, <1>6, AtIs DEF Record
<1>7. CASE Start
  <2>1. queue' = queue BY <1>7 DEF Start
  <2>2. CASE page' = page BY <1>5, <2>1, <2>2
  <2>3. CASE At("recording") BY <1>5, <2>1, <2>3, AtIs
  <2>4. CASE At("leaving") BY <1>5, <2>1, <2>4, AtIs
  <2>5. QED BY <1>7, <2>2, <2>3, <2>4 DEF Start
<1>8. CASE Chunk
  <2>1. PICK p \in Pages : p = [page EXCEPT !.made = @ + 1]
    <3>1. page \in Pages BY <1>3
    <3>2. [page EXCEPT !.made = @ + 1] \in Pages BY ONLY <3>1 DEF Pages
    <3>3. QED BY <3>2
  <2>2. p.made = page.made + 1 /\ p.sequence = page.sequence /\ p.made <= MaxChunks
    BY <1>3, <1>8, <2>1 DEF Chunk, Pages
  <2>3. page.made \in Nat /\ page.sequence \in Nat BY <1>3 DEF Pages
  <2>4. CASE page' = p /\ queue' = queue BY <1>1, <2>2, <2>3, <2>4 DEF Limits
  <2>5. CASE page' = Fails(p) /\ queue' = queue
    <3>1. page'.made = p.made /\ page'.sequence = p.sequence BY <2>5, FailsTurns DEF Turned
    <3>2. QED BY <1>1, <2>2, <2>3, <2>5, <3>1 DEF Limits
  <2>6. CASE Len(queue) # QueueLimit /\ page' = [p EXCEPT !.sequence = @ + 1] /\ queue' = Append(queue, page.sequence)
    <3>1. page'.made = page.made + 1 /\ page'.sequence = page.sequence + 1 BY <2>2, <2>6 DEF Pages
    <3>2. Len(queue') = Len(queue) + 1 BY <1>3, <2>3, <2>6
    <3>3. Len(queue) <= QueueLimit BY DEF Limits
    <3>4. Len(queue') <= QueueLimit BY <1>4, <2>6, <3>2, <3>3
    <3>5. page.sequence <= page.made /\ page.made + 1 <= MaxChunks BY <2>2 DEF Limits
    <3>6. QED BY <1>1, <2>3, <3>1, <3>4, <3>5 DEF Limits
  <2>7. QED BY <1>8, <2>1, <2>4, <2>5, <2>6 DEF Chunk, Overflows
<1>9. CASE Stop \/ SendChunk \/ ChunkAnswered \/ Polls \/ PollAnswered
  <2>1. page'.made = page.made /\ page'.sequence = page.sequence BY <1>2, <1>9, TurningKeeps DEF Turned
  <2>2. queue' = queue \/ (queue # <<>> /\ queue' = Tail(queue))
    <3>1. CASE ChunkAnswered
      <4>1. calls["chunk"].phase # "" BY <3>1, Zenon DEF ChunkAnswered, Answered
      <4>2. NoCall.phase = "" BY DEF NoCall
      <4>3. queue # <<>> BY <4>1, <4>2 DEF PhoneTypes
      <4>4. QED BY <3>1, <4>3 DEF ChunkAnswered, ChunkFails
    <3>2. QED BY <1>9, <3>1 DEF Stop, SendChunk, Polls, PollAnswered
  <2>3. QED BY <1>5, <2>1, <2>2
<1>10. CASE Finish \/ FinishAnswered \/ Retry \/ Asked \/ Wait \/ Waited
  <2>1. page'.made = page.made /\ page'.sequence = page.sequence BY <1>2, <1>10, GoingOnKeeps
  <2>2. queue' = queue BY <1>10 DEF Finish, FinishAnswered, Retry, Asked, Wait, Waited
  <2>3. QED BY <1>5, <2>1, <2>2
<1>11. QED BY <1>6, <1>7, <1>8, <1>9, <1>10 DEF Phone

LEMMA DeskLimits ==
    ASSUME PhoneInv, Limits,
           Desk \/ Process \/ Crash \/ DesktopBegins \/ \E s \in Slot : ServesCall(s) \/ Lost(s)
    PROVE  Limits'
<1> PhoneTypes /\ SoundIsWhole BY DEF PhoneInv
<1> USE LimitsAre DEF desktop, companion
<1>1. desk \in Desks /\ page \in Pages BY DEF PhoneTypes
<1>2. desk.sequence \in Nat /\ audio = [i \in 1..desk.sequence |-> i - 1] BY <1>1 DEF Desks, SoundIsWhole
<1>3. Len(audio) = desk.sequence BY <1>2
<1> DEFINE Room == /\ desk'.sequence <= PcmLimit /\ (desk'.phase = "recording" => desk'.sequence < PcmLimit)
                   /\ desk'.phase \in {"none", "preparing"} => desk'.sequence = 0
<1>4. ASSUME UNCHANGED <<page, queue>>, Room PROVE Limits'
  <2>1. page'.sequence <= page'.made /\ page'.made <= MaxChunks /\ Len(queue') <= QueueLimit BY <1>4 DEF Limits
  <2>2. QED BY <1>4, <2>1 DEF Limits
<1>5. ASSUME desk'.sequence = desk.sequence, desk'.phase = "recording" => desk.phase \in {"preparing", "recording"},
             desk'.phase \in {"none", "preparing"} => desk.phase \in {"none", "preparing"}
      PROVE  Room
  BY <1>1, <1>2, <1>5 DEF Limits
<1>6. desk' = desk => Room BY <1>5
<1> HIDE DEF Room
<1>7. CASE Desk
  <2>1. desk'.sequence = desk.sequence /\ (desk'.phase = "recording" => desk.phase \in {"preparing", "recording"})
        /\ (desk'.phase \in {"none", "preparing"} => desk.phase \in {"none", "preparing"})
    <3>1. CASE DeskReady BY <1>1, <3>1 DEF DeskReady, Desks
    <3>2. CASE Prepared BY <1>1, <3>2 DEF Prepared, Desks
    <3>3. CASE AtTheDesk BY <1>1, <3>3 DEF AtTheDesk, Desks
    <3>4. CASE Completes BY <1>1, <3>4 DEF Completes, Desks
    <3>5. CASE Watch BY <1>1, <3>5 DEF Watch, Desks
    <3>6. CASE Reported \/ Tick BY <3>6 DEF Reported, Tick
    <3>7. QED BY <1>7, <3>1, <3>2, <3>3, <3>4, <3>5, <3>6 DEF Desk
  <2>2. QED BY <1>4, <1>5, <1>7, <2>1 DEF Desk
<1>8. CASE Process BY <1>4, <1>6, <1>8 DEF Process
<1>9. CASE DesktopBegins
  <2>1. desk'.sequence = desk.sequence /\ desk'.phase = desk.phase BY <1>1, <1>9 DEF DesktopBegins, Desks
  <2>2. QED BY <1>4, <1>5, <1>9, <2>1 DEF DesktopBegins
<1>10. CASE Crash
  <2>1. CASE DesktopEnds
    <3>1. desk'.sequence = 0 /\ desk'.phase = "none" BY <2>1 DEF DesktopEnds, NoSession
    <3>2. Room BY <3>1 DEF Room
    <3>3. QED BY <1>4, <2>1, <3>2 DEF DesktopEnds
  <2>2. CASE CompanionEnds BY <1>4, <1>6, <2>2 DEF CompanionEnds
  <2>3. CASE PageEnds
    <3>1. page'.made = page.made /\ page'.sequence = page.sequence BY <1>1, <2>3 DEF PageEnds, Pages
    <3>2. queue' = <<>> /\ desk' = desk /\ Len(queue') = 0 BY <2>3 DEF PageEnds
    <3>3. QED BY <3>1, <3>2 DEF Limits
  <2>4. QED BY <1>10, <2>1, <2>2, <2>3 DEF Crash
<1>11. ASSUME NEW s \in Slot, Lost(s) PROVE Limits' BY <1>4, <1>6, <1>11 DEF Lost
<1>12. ASSUME NEW s \in Slot, ServesCall(s) PROVE Limits'
  <2>1. UNCHANGED <<page, queue>> BY <1>12 DEF ServesCall, Serve, Upload
  <2>2. CASE desk' = desk BY <1>4, <1>6, <2>1, <2>2
  <2>3. CASE HandleStart(s)
    <3>1. CASE desk' = [desk EXCEPT !.up = "starting"]
      <4>1. desk'.sequence = desk.sequence /\ desk'.phase = desk.phase BY <1>1, <3>1 DEF Desks
      <4>2. QED BY <1>4, <1>5, <2>1, <4>1
    <3>2. CASE desk.phase = "none" /\ desk' = [desk EXCEPT !.phase = "preparing"]
      <4>1. desk'.sequence = desk.sequence /\ desk'.phase = "preparing" BY <1>1, <3>2 DEF Desks
      <4>2. QED BY <1>4, <1>5, <2>1, <3>2, <4>1
    <3>3. QED BY <2>2, <2>3, <3>1, <3>2 DEF HandleStart
  <2>4. CASE HandleAudio(s) /\ desk' # desk
    <3>1. desk.phase = "recording" /\ desk.sequence < PcmLimit BY <2>4 DEF HandleAudio, Limits
    <3>2. PICK d \in Desks : d = [desk EXCEPT !.sequence = @ + 1]
      <4>1. [desk EXCEPT !.sequence = @ + 1] \in Desks BY <1>1 DEF Desks
      <4>2. QED BY <4>1
    <3>3. d.sequence = desk.sequence + 1 /\ d.phase = "recording" BY <1>1, <3>1, <3>2 DEF Desks
    <3>4. \/ Full /\ desk' = [d EXCEPT !.phase = "processing", !.by = "limit"]
          \/ ~ Full /\ desk' = d
      BY <2>4, <3>2 DEF HandleAudio
    <3>5. CASE Full /\ desk' = [d EXCEPT !.phase = "processing", !.by = "limit"]
      <4>1. desk'.phase = "processing" /\ desk'.sequence = desk.sequence + 1 BY <3>3, <3>5 DEF Desks
      <4>2. Room BY <1>2, <3>1, <4>1 DEF Room
      <4>3. QED BY <1>4, <2>1, <4>2
    <3>6. CASE ~ Full /\ desk' = d
      <4>1. desk.sequence + 1 # PcmLimit BY <1>3, <3>6 DEF Full
      <4>2. desk'.sequence = desk.sequence + 1 /\ desk'.phase = "recording" BY <3>3, <3>6
      <4>3. PcmLimit \in Nat OBVIOUS
      <4>4. desk.sequence + 1 < PcmLimit BY <1>2, <3>1, <4>1, <4>3
      <4>5. desk'.sequence <= PcmLimit /\ desk'.sequence < PcmLimit BY <1>2, <4>2, <4>3, <4>4
      <4>6. Room BY <4>2, <4>5 DEF Room
      <4>7. QED BY <1>4, <2>1, <4>6
    <3>7. QED BY <3>4, <3>5, <3>6
  <2>5. CASE (HandleStop(s) \/ HandleCancel(s)) /\ desk' # desk
    <3>1. desk'.sequence = desk.sequence /\ desk'.phase \in {"processing", "cancelled"}
      BY <1>1, <2>5 DEF HandleStop, HandleCancel, Desks
    <3>2. QED BY <1>4, <1>5, <2>1, <3>1
  <2>6. QED BY <1>12, <2>2, <2>3, <2>4, <2>5 DEF ServesCall, Serve, Upload
<1>13. QED BY <1>7, <1>8, <1>9, <1>10, <1>11, <1>12

LEMMA LimitSteps == PhoneInv /\ Limits /\ [Next]_vars => Limits'
<1>1. ASSUME PhoneInv, Limits, Next PROVE Limits' BY <1>1, PageLimits, DeskLimits DEF Next
<1>2. ASSUME Limits, UNCHANGED vars PROVE Limits'
  <2>1. page' = page /\ queue' = queue /\ desk' = desk BY <1>2 DEF vars
  <2>2. QED BY <1>2, <2>1 DEF Limits
<1>3. QED BY <1>1, <1>2

\* Types, and the limits: at most QUEUE_LIMIT chunks wait on the phone, and no file grows past MAX_PCM_BYTES
\* (web/live.js, core/phone.rs).
THEOREM PhoneTypeCorrect == Spec => []TypeOK
<1>1. Init => Limits
  <2>1. SUFFICES ASSUME Init PROVE Limits OBVIOUS
  <2>2. page.sequence = 0 /\ page.made = 0 /\ queue = <<>> /\ desk.sequence = 0 /\ desk.phase = "none"
    BY <2>1 DEF Init, NoSession
  <2>3. Len(queue) = 0 BY <2>2
  <2>4. QED BY <2>2, <2>3, LimitsAre DEF Limits
<1>2. PhoneInv /\ Limits => TypeOK
  <2>1. SUFFICES ASSUME PhoneInv, Limits PROVE TypeOK OBVIOUS
  <2>2. page \in Pages /\ desk \in Desks /\ audio = [i \in 1..desk.sequence |-> i - 1]
    BY <2>1 DEF PhoneInv, PhoneTypes, SoundIsWhole
  <2>3. desk.sequence \in Nat BY <2>2 DEF Desks
  <2>4. Len(audio) = desk.sequence BY <2>2, <2>3
  <2>5. page.at \in Places BY <2>2 DEF Pages
  <2>6. desk.phase \in Live \cup Over \cup {"none", "processing"} /\ desk.up \in {"off", "starting", "ready"}
    BY <2>2 DEF Desks, Live, Over
  <2>7. QED BY <2>1, <2>4, <2>5, <2>6 DEF TypeOK, Limits, Places
<1>3. QED BY <1>1, <1>2, PhoneInvariant, LimitSteps, PTL DEF Spec

\* The file holds the phone's chunks in order, each once; a recording that the phone stopped holds all of them;
\* it is recognised once, by the desktop or by the companion; and the phone deletes its copy only after that.
THEOREM SoundArrives == Spec => []PhoneSoundArrives
<1>1. PhoneInv => PhoneSoundArrives
  <2>1. SUFFICES ASSUME PhoneInv PROVE PhoneSoundArrives OBVIOUS
  <2>2. desk.sequence \in Nat /\ audio = [i \in 1..desk.sequence |-> i - 1]
    BY <2>1 DEF PhoneInv, PhoneTypes, Desks, SoundIsWhole
  <2>3. Len(audio) = desk.sequence BY <2>2
  <2>4. StoppedIsComplete BY <2>1, <2>3 DEF PhoneInv, StopCounts, StoppedByPhone, StoppedIsComplete
  <2>5. CopyOutlivesTheTransfer BY <2>1 DEF PhoneInv, Worded, CopyOutlivesTheTransfer
  <2>6. QED BY <2>1, <2>4, <2>5 DEF PhoneInv, Recognising, PhoneSoundArrives
<1>2. QED BY <1>1, PhoneInvariant, PTL
=============================================================================
