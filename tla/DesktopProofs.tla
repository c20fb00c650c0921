----------------------------- MODULE DesktopProofs -----------------------------
(***************************************************************************)
(* Parts of the desktop, for any recordings, screens, messages and bounds. *)
(* The transports implement TransportContract: every step of one is a step *)
(* of the contract, or none.  The screen annotation keeps its promises:    *)
(* what is drawn, what Hyprland holds for it, and the bundle that is       *)
(* stored.  An installation loses nothing that was there, or that is       *)
(* somebody else's.  The parts share no state; each theorem is about one   *)
(* of them, over the variables it takes from those declared here.          *)
(***************************************************************************)
EXTENDS Naturals, Sequences, FiniteSets, FiniteSetTheorems, TLAPS

CONSTANTS
    Messages, MaxFaults, Core, MaxRestarts, MaxStops, Texts, Begins, MaxTyped, MaxRewrites,
    Screens, MaxPresses, MaxMarks, MaxFrames,
    N, Interrupt, MaxToggles, MaxExits, Kill, NoneOf,
    Upgrade, MaxForeign

VARIABLES
    call, told, reached, taken, held, store, watch, faults, request, reply, server, blind, used,
    adding, queue, turning, turns, thread,
    says, session, inbox, log, unsure, weak, strays,
    closed, presses, ink, current, first, origin, marks, lines, pulses, locating, pinning, grabs, frames,
    up, enabled, portal, rec, going, slot, kept, stage, binding, bound, cmds, dog, dirs, spent,
    phase, holder, pins, files, handed, late, task, writer, bundle, row, convs,
    pc, half, at, root, parent, expected, changes, made, stood, settings, service, saved, complete, signal,
    found, placed, lost, plugins, backup, shown, before, uses

Store == INSTANCE AntigravityQueue
Herdr == INSTANCE HerdrPrompt
Codex == INSTANCE CodexQueue
Inbox == INSTANCE InboxDelivery
Ink == INSTANCE InkOverlay
Bindings == INSTANCE AnnotationBindings
Bundle == INSTANCE AnnotationBundle
Setup == INSTANCE InstallTransaction
Widget == INSTANCE WidgetInstall

\* Messages are numbered from 1: 0 stands for none.
Numbered == 0 \notin Messages

-----------------------------------------------------------------------------
(* Antigravity: a file with its notice.                                     *)

\* Before the rename there is no file, and there is one from then on; only an accepted message is watched,
\* and its notice goes only when the agent takes it.
StoreInv ==
    /\ call \in [m : Messages \cup {0}, at : {"idle", "checked", "written", "renamed"}]
    /\ call.at # "idle" => call.m \in Messages /\ told[call.m] = "nothing"
    /\ call.at = "idle" => call = Store!Idle
    /\ told \in [Messages -> {"nothing", "rejected", "unconfirmed", "accepted", "taken"}]
    /\ store \in [Messages -> SUBSET {"temporary", "file", "notice"}]
    /\ \A m \in Messages :
        /\ told[m] = "nothing" /\ (m # call.m \/ call.at \in {"checked", "written"}) => "file" \notin store[m]
        /\ m = call.m /\ call.at = "renamed" => "file" \in store[m]
        /\ told[m] = "rejected" => "file" \notin store[m]
        /\ told[m] \in {"accepted", "taken"} => "file" \in store[m]
    /\ watch \subseteq Messages /\ taken \subseteq Messages
    /\ \A m \in watch : told[m] = "accepted" /\ ("notice" \in store[m] \/ m \in taken)

StoreFiles == [m \in Messages |-> IF "file" \in store[m] THEN 1 ELSE 0]

LEMMA StoreBegins == ASSUME Numbered, Store!Init PROVE StoreInv
BY DEF Store!Init, Store!Idle, StoreInv, Numbered

\* A function that differs at one place is that function with one value replaced.
LEMMA OneChanges ==
    ASSUME NEW S, NEW f, f = [x \in S |-> f[x]], NEW g, g = [x \in S |-> g[x]], NEW c \in S, NEW v,
           \A x \in S : g[x] = IF x = c THEN v ELSE f[x]
    PROVE  g = [f EXCEPT ![c] = v]
OBVIOUS

\* Mapped: what the agent can find is what reached it.
LEMMA StoreSteps ==
    ASSUME Numbered, StoreInv, Store!Next
    PROVE  StoreInv' /\ [Store!Contract!Next]_(Store!Contract!contractVars)
<1> USE DEF Numbered, StoreInv, Store!Idle, Store!Fails, Store!Over, Store!To, Store!Puts
<1> DEFINE Promised == [Store!Contract!Next]_(Store!Contract!contractVars)
           Rests == /\ told' = told /\ taken' = taken
                    /\ \A m \in Messages : "file" \in store'[m] <=> "file" \in store[m]
<1>1. ASSUME Rests PROVE Promised
  <2>1. StoreFiles' = StoreFiles BY <1>1 DEF StoreFiles
  <2>2. QED BY <1>1, <2>1 DEF Store!Contract!contractVars, StoreFiles
<1>2. ASSUME NEW m \in Messages, NEW o \in {"rejected", "unconfirmed", "accepted", "taken"},
             told[m] = "nothing" \/ (told[m] = "accepted" /\ o = "taken"),
             told' = [told EXCEPT ![m] = o], taken' = taken,
             \A k \in Messages : "file" \in store'[k] <=> "file" \in store[k],
             o = "rejected" => "file" \notin store[m],
             o \in {"accepted", "taken"} => "file" \in store[m],
             o = "taken" => m \in taken
      PROVE Promised
  <2>1. StoreFiles' = StoreFiles BY <1>2 DEF StoreFiles
  <2>2. Store!Contract!Tell(m, o) BY <1>2, <2>1 DEF Store!Contract!Tell, StoreFiles
  <2>3. QED BY <1>2, <2>2 DEF Store!Contract!Next
<1>0. ASSUME NEW m \in Messages, Store!Contract!Reach(m) PROVE Promised
  BY <1>0 DEF Store!Contract!Next
<1> HIDE DEF Promised
<1>3. CASE Store!WritesTemporary
  <2> USE <1>3 DEF Store!WritesTemporary
  <2>1. call.m \in Messages /\ told[call.m] = "nothing" /\ "file" \notin store[call.m] OBVIOUS
  <2>2. StoreInv' OBVIOUS
  <2>3. \A m \in Messages : "file" \in store'[m] <=> "file" \in store[m] OBVIOUS
  <2>4. Promised BY <1>1, <1>2, <2>1, <2>3
  <2>5. QED BY <2>2, <2>4 DEF Promised
<1>4. CASE Store!Renames
  <2> USE <1>4 DEF Store!Renames
  <2>1. call.m \in Messages /\ told[call.m] = "nothing" /\ "file" \notin store[call.m] OBVIOUS
  <2>2. StoreInv' OBVIOUS
  <2>3. CASE store' = [store EXCEPT ![call.m] = @ \ {"temporary"}] /\ told' = [told EXCEPT ![call.m] = "rejected"]
    <3>1. \A m \in Messages : "file" \in store'[m] <=> "file" \in store[m] BY <2>3
    <3>2. Promised BY <1>2, <2>1, <2>3, <3>1
    <3>3. QED BY <2>2, <3>2 DEF Promised
  <2>4. CASE store' = [store EXCEPT ![call.m] = (@ \ {"temporary"}) \cup {"file"}] /\ UNCHANGED told
    <3>1. StoreFiles' = [StoreFiles EXCEPT ![call.m] = 1] /\ StoreFiles[call.m] = 0
      <4>1. \A m \in Messages : "file" \in store'[m] <=> m = call.m \/ "file" \in store[m] BY <2>1, <2>4
      <4>2. StoreFiles[call.m] = 0 /\ \A m \in Messages : StoreFiles'[m] = IF m = call.m THEN 1 ELSE StoreFiles[m]
        BY <2>1, <4>1, SMTT(30) DEF StoreFiles
      <4>3. StoreFiles = [m \in Messages |-> StoreFiles[m]] /\ StoreFiles' = [m \in Messages |-> StoreFiles'[m]]
        BY Zenon DEF StoreFiles
      <4>4. QED BY <2>1, <4>2, <4>3, OneChanges
    <3>2. PICK m \in Messages : m = call.m BY <2>1
    <3>3. Store!Contract!Reach(m) BY <2>1, <2>4, <3>1, <3>2 DEF Store!Contract!Reach, StoreFiles
    <3>4. Promised BY <1>0, <3>3
    <3>5. QED BY <2>2, <3>4 DEF Promised
  <2>5. QED BY <2>3, <2>4
<1>5. CASE Store!Notices
  <2> USE <1>5 DEF Store!Notices, Store!NoticeFailed
  <2>1. call.m \in Messages /\ told[call.m] = "nothing" /\ "file" \in store[call.m] OBVIOUS
  <2>2. StoreInv' OBVIOUS
  <2>3. \A m \in Messages : "file" \in store'[m] <=> "file" \in store[m] OBVIOUS
  <2>4. Promised BY <1>2, <2>1, <2>3
  <2>5. QED BY <2>2, <2>4 DEF Promised
<1>6. CASE Store!Holds
  BY <1>1, <1>6 DEF Store!Holds, Promised
<1>7. ASSUME NEW m \in Messages, Store!Submit(m) PROVE StoreInv' /\ Promised
  <2> USE <1>7 DEF Store!Submit
  <2>1. StoreInv' OBVIOUS
  <2>2. "file" \notin store[m] OBVIOUS
  <2>3. Promised BY <1>1, <1>2, <2>2
  <2>4. QED BY <2>1, <2>3
<1>8. ASSUME NEW m \in Messages, Store!WatchSees(m) PROVE StoreInv' /\ Promised
  <2> USE <1>8 DEF Store!WatchSees
  <2>1. StoreInv' OBVIOUS
  <2>2. Promised BY <1>2
  <2>3. QED BY <2>1, <2>2
<1>9. ASSUME NEW m \in Messages, Store!WatchEnds(m) PROVE StoreInv' /\ Promised
  BY <1>1, <1>9 DEF Store!WatchEnds
<1>10. ASSUME NEW m \in Messages, Store!Takes(m) PROVE StoreInv' /\ Promised
  <2> USE <1>10 DEF Store!Takes
  <2>1. StoreInv' OBVIOUS
  <2>2. StoreFiles' = StoreFiles /\ StoreFiles[m] = 1 BY DEF StoreFiles
  <2>3. Store!Contract!Take(m) BY <2>2 DEF Store!Contract!Take, StoreFiles
  <2>4. Promised BY <2>3 DEF Promised, Store!Contract!Next
  <2>5. QED BY <2>1, <2>4
<1>11. QED BY <1>3, <1>4, <1>5, <1>6, <1>7, <1>8, <1>9, <1>10 DEF Store!Next, Promised

\* What is said of a message in an Antigravity store is so: a rejected one never gets a file, an accepted one
\* stands there, a taken one was taken (antigravity/queue.rs implements the Transport trait).
THEOREM StoreKeepsItsPromise == Numbered /\ Store!Spec => Store!KeepsPromise
<1>1. Numbered /\ Store!Init => StoreInv /\ Store!Contract!Init
  <2>1. ASSUME Numbered, Store!Init PROVE Store!Contract!Init
    BY <2>1 DEF Numbered, Store!Init, Store!Contract!Init
  <2>2. QED BY <2>1, StoreBegins
<1>2. Numbered /\ StoreInv /\ [Store!Next]_(Store!storeVars)
        => StoreInv' /\ [Store!Contract!Next]_(Store!Contract!contractVars)
  <2>1. ASSUME StoreInv, UNCHANGED Store!storeVars
        PROVE  StoreInv' /\ UNCHANGED Store!Contract!contractVars
    BY <2>1 DEF StoreInv, Store!storeVars, Store!Idle, Store!Contract!contractVars
  <2>2. QED BY <2>1, StoreSteps
<1>3. Numbered => Numbered' BY DEF Numbered
<1>4. QED BY <1>1, <1>2, <1>3, PTL DEF Store!Spec, Store!KeepsPromise, Store!Contract!Spec

-----------------------------------------------------------------------------
(* Herdr: a guarded prompt and its receipt.                                 *)

\* A request that was not read has left no trace; the server remembers of an operation what became of its
\* text; and an answer is about the call that waits for it.
Outcomes == {"nothing", "accepted", "rejected", "unconfirmed"}
Answer == {"none", "accepted", "rejected", "unconfirmed", "refused", "unknown"}
HerdrInv ==
    /\ call \in [m : Messages \cup {0}, at : {"idle", "asked", "looking"}, epoch : Nat]
    /\ request \in [m : Messages \cup {0}, epoch : Nat]
    /\ reply \in [m : Messages \cup {0}, what : Answer]
    /\ server \in [epoch : Nat, ops : [Messages -> {"none", "accepted", "rejected", "unconfirmed"}],
                    agent : {"chosen", "another"}]
    /\ told \in [Messages -> Outcomes] /\ reached \in [Messages -> {0, 1}]
    /\ call.at = "idle" => call = Herdr!Idle
    /\ call.at # "idle" => call.m \in Messages /\ told[call.m] = "nothing"
    /\ blind \subseteq Messages /\ \A m \in blind : told[m] = "rejected"
    /\ reply # Herdr!NoReply => call.at = "asked" /\ reply.m = call.m /\ request.m # call.m
    /\ reply.m \in Messages => reply.what # "none" /\ (reply.what = "unknown" => ~ Core)
    /\ reply.m \in Messages /\ reply.what = "accepted" => reached[reply.m] = 1
    /\ reply.m \in Messages /\ reply.what \in {"rejected", "refused"} => reached[reply.m] = 0
    /\ \A m \in Messages :
        /\ m = request.m => /\ server.ops[m] = "none" /\ reached[m] = 0
                            /\ told[m] \in {"nothing", "unconfirmed"} \/ m \in blind
        /\ server.ops[m] = "accepted" => reached[m] = 1
        /\ server.ops[m] = "rejected" => reached[m] = 0
        /\ told[m] = "accepted" => reached[m] = 1
        /\ told[m] = "rejected" /\ m \notin blind => reached[m] = 0
        /\ told[m] = "nothing" /\ m # call.m => reached[m] = 0 /\ m # request.m /\ server.ops[m] = "none"

LEMMA HerdrSteps ==
    ASSUME Numbered, HerdrInv, Herdr!Next
    PROVE  HerdrInv' /\ [Herdr!Contract!Next]_(Herdr!Contract!contractVars)
<1> USE DEF Numbered, HerdrInv, Outcomes, Answer, Herdr!Idle, Herdr!NoRequest, Herdr!NoReply, Herdr!MayFail, Herdr!Fail
<1> DEFINE Promised == [Herdr!Contract!Next]_(Herdr!Contract!contractVars)
           said == [m \in Messages |-> Herdr!Claim(m)]
<1>1. ASSUME told' = told, reached' = reached, blind' = blind PROVE Promised
  BY <1>1 DEF Herdr!Contract!contractVars, Herdr!Claim
\* What is told of a message; a rejection without an answer counts as unconfirmed.
<1>2. ASSUME NEW m \in Messages, NEW o \in {"rejected", "unconfirmed", "accepted"}, told[m] = "nothing",
             told' = [told EXCEPT ![m] = o], reached' = reached,
             blind' = blind \/ (blind' = blind \cup {m} /\ o = "rejected"),
             o = "rejected" /\ m \notin blind' => reached[m] = 0, o = "accepted" => reached[m] = 1
      PROVE Promised
  <2>1. m \notin blind /\ \A k \in Messages \ {m} : k \in blind' <=> k \in blind BY <1>2
  <2>2. PICK claim \in {"rejected", "unconfirmed", "accepted"} : claim = IF m \in blind' THEN "unconfirmed" ELSE o
    OBVIOUS
  <2>3. said' = [said EXCEPT ![m] = claim]
    <3>1. ASSUME NEW k \in Messages PROVE said'[k] = [said EXCEPT ![m] = claim][k]
      <4>1. CASE k = m BY <1>2, <2>2, <4>1 DEF Herdr!Claim
      <4>2. CASE k # m BY <1>2, <2>1, <4>2 DEF Herdr!Claim
      <4>3. QED BY <4>1, <4>2
    <3>2. QED BY <3>1
  <2>4. said[m] = "nothing" BY <1>2, <2>1 DEF Herdr!Claim
  <2>5. claim = "rejected" => reached[m] = 0 BY <1>2, <2>2
  <2>6. claim = "accepted" => reached[m] = 1 BY <1>2, <2>2
  <2>7. Herdr!Contract!Tell(m, claim) BY <1>2, <2>2, <2>3, <2>4, <2>5, <2>6 DEF Herdr!Contract!Tell
  <2>8. QED BY <2>2, <2>7 DEF Herdr!Contract!Next
<1>3. ASSUME NEW m \in Messages, told[m] \in {"nothing", "unconfirmed"} \/ m \in blind, reached[m] = 0,
             reached' = [reached EXCEPT ![m] = reached[m] + 1], told' = told, blind' = blind
      PROVE Promised
  <2>1. said[m] \notin {"rejected", "busy"} /\ said' = said BY <1>3 DEF Herdr!Claim
  <2>2. Herdr!Contract!Reach(m) BY <1>3, <2>1 DEF Herdr!Contract!Reach
  <2>3. QED BY <2>2 DEF Herdr!Contract!Next
<1> SUFFICES HerdrInv' /\ Promised OBVIOUS
<1> HIDE DEF Promised
<1>4. ASSUME NEW m \in Messages, Herdr!Submit(m) PROVE HerdrInv' /\ Promised
  <2> USE <1>4 DEF Herdr!Submit
  <2>1. HerdrInv' OBVIOUS
  <2>2. reached[m] = 0 OBVIOUS
  <2>3. Promised BY <1>1, <1>2, <2>2
  <2>4. QED BY <2>1, <2>3
\* What a call ends with.
<1>5. ASSUME NEW o \in {"rejected", "unconfirmed", "accepted"}, call.at # "idle", Herdr!Tell(o),
             blind' = blind \/ (blind' = blind \cup {call.m} /\ o = "rejected"),
             o = "rejected" /\ call.m \notin blind' => reached[call.m] = 0 /\ request.m # call.m,
             o = "accepted" => reached[call.m] = 1,
             reply' = Herdr!NoReply, server' = server, reached' = reached,
             request' = Herdr!NoRequest \/ request' = request
      PROVE HerdrInv' /\ Promised
  <2> USE <1>5 DEF Herdr!Tell
  <2>1. PICK m \in Messages : m = call.m OBVIOUS
  <2>2. HerdrInv' BY <2>1
  <2>3. Promised BY <1>2, <2>1
  <2>4. QED BY <2>2, <2>3
<1>6. ASSUME call.at = "asked", Herdr!Look, reply' = Herdr!NoReply, server' = server, reached' = reached, blind' = blind,
             request' = Herdr!NoRequest \/ request' = request
      PROVE HerdrInv' /\ Promised
  <2>1. HerdrInv' BY <1>6 DEF Herdr!Look
  <2>2. QED BY <1>1, <1>6, <2>1 DEF Herdr!Look
<1>7. CASE Herdr!Answered
  <2> USE <1>7 DEF Herdr!Answered
  <2>1. reply # Herdr!NoReply /\ reply.m \in Messages OBVIOUS
  <2>2. CASE reply.what \in {"accepted", "rejected", "unconfirmed"}
    <3>1. Herdr!Tell(reply.what) BY <2>2
    <3>2. QED BY <1>5, <2>1, <2>2, <3>1
  <2>3. CASE reply.what = "refused"
    <3>1. Herdr!Tell("rejected") BY <2>3
    <3>2. QED BY <1>5, <2>1, <2>3, <3>1
  <2>4. CASE reply.what = "unknown"
    <3>1. ~ Core /\ Herdr!Look BY <2>1, <2>4
    <3>2. QED BY <1>6, <3>1
  <2>5. reply.what # "none"
    BY <2>1
  <2>6. QED BY <2>2, <2>3, <2>4, <2>5
<1>8. CASE Herdr!Unanswered
  <2>1. CASE Core
    <3>1. Herdr!Tell("rejected") /\ call.m \in blind' BY <1>8, <2>1 DEF Herdr!Unanswered, Herdr!FailedSend
    <3>2. QED BY <1>5, <1>8, <2>1, <3>1 DEF Herdr!Unanswered
  <2>2. CASE ~ Core BY <1>6, <1>8, <2>2 DEF Herdr!Unanswered
  <2>3. QED BY <2>1, <2>2
<1>9. CASE Herdr!Looks
  <2> USE <1>9 DEF Herdr!Looks
  <2>1. PICK o \in {"rejected", "unconfirmed", "accepted"} :
           /\ Herdr!Tell(o)
           /\ o = "unconfirmed" \/ server.ops[call.m] = o
    BY DEF Herdr!Receipt
  <2>2. reply = Herdr!NoReply OBVIOUS
  <2>3. QED BY <1>5, <2>1, <2>2
<1>10. CASE Herdr!LooksInVain
  BY <1>5, <1>10 DEF Herdr!LooksInVain
<1>11. CASE Herdr!Cancelled
  BY <1>5, <1>11 DEF Herdr!Cancelled
<1>12. CASE Herdr!ReadsGuarded
  <2> USE <1>12 DEF Herdr!ReadsGuarded, Herdr!Replies, Herdr!Remembers, Herdr!Typed, Herdr!Waiting
  <2>1. PICK m \in Messages : m = request.m OBVIOUS
  <2>2. CASE UNCHANGED reached
    <3>1. HerdrInv' BY <2>1, <2>2
    <3>2. QED BY <1>1, <2>2, <3>1
  <2>3. CASE Herdr!Typed /\ Herdr!Remembers("accepted") /\ Herdr!Replies("accepted")
    <3>1. HerdrInv' BY <2>1, <2>3
    <3>2. Promised BY <1>3, <2>1, <2>3
    <3>3. QED BY <3>1, <3>2
  <2>4. CASE Herdr!Typed /\ Herdr!Remembers("unconfirmed") /\ Herdr!Replies("unconfirmed")
    <3>1. HerdrInv' BY <2>1, <2>4
    <3>2. Promised BY <1>3, <2>1, <2>4
    <3>3. QED BY <3>1, <3>2
  <2>5. QED BY <2>2, <2>3, <2>4
<1>13. CASE Herdr!ReadsCore
  <2> USE <1>13 DEF Herdr!ReadsCore, Herdr!Replies, Herdr!Typed, Herdr!Waiting
  <2>1. PICK m \in Messages : m = request.m OBVIOUS
  <2>2. CASE UNCHANGED reached
    <3>1. HerdrInv' BY <2>1, <2>2
    <3>2. QED BY <1>1, <2>2, <3>1
  <2>3. CASE Herdr!Typed /\ Herdr!Replies("accepted")
    <3>1. HerdrInv' BY <2>1, <2>3
    <3>2. Promised BY <1>3, <2>1, <2>3
    <3>3. QED BY <3>1, <3>2
  <2>4. QED BY <2>2, <2>3
<1>14. CASE Herdr!Restarts
  <2>1. HerdrInv' BY <1>14 DEF Herdr!Restarts
  <2>2. QED BY <1>1, <1>14, <2>1 DEF Herdr!Restarts
<1>15. CASE Herdr!Replaced
  <2>1. HerdrInv' BY <1>15 DEF Herdr!Replaced
  <2>2. QED BY <1>1, <1>15, <2>1 DEF Herdr!Replaced
<1>16. QED
  BY <1>4, <1>7, <1>8, <1>9, <1>10, <1>11, <1>12, <1>13, <1>14, <1>15 DEF Herdr!Next

\* A prompt to a pane: what is said to be rejected was typed into no pane, unless a Core terminal's call got no
\* answer (`RejectedIsUnheard`), and no text is typed twice (herdr.rs).
THEOREM HerdrKeepsItsPromise == Numbered /\ Herdr!Spec => Herdr!KeepsPromise
<1>1. Numbered /\ Herdr!Init => HerdrInv /\ Herdr!Contract!Init
  <2>1. ASSUME Numbered, Herdr!Init PROVE HerdrInv
    BY <2>1 DEF Numbered, Herdr!Init, HerdrInv, Outcomes, Answer, Herdr!Idle, Herdr!NoRequest, Herdr!NoReply
  <2>2. ASSUME Herdr!Init PROVE Herdr!Contract!Init BY <2>2 DEF Herdr!Init, Herdr!Claim, Herdr!Contract!Init
  <2>3. QED BY <2>1, <2>2
<1>2. Numbered /\ HerdrInv /\ [Herdr!Next]_(Herdr!herdrVars)
        => HerdrInv' /\ [Herdr!Contract!Next]_(Herdr!Contract!contractVars)
  <2>1. ASSUME HerdrInv, UNCHANGED Herdr!herdrVars
        PROVE  HerdrInv' /\ UNCHANGED Herdr!Contract!contractVars
    BY <2>1 DEF HerdrInv, Herdr!herdrVars, Herdr!Idle, Herdr!NoReply, Herdr!Claim, Herdr!Contract!contractVars
  <2>2. QED BY <2>1, HerdrSteps
<1>3. Numbered => Numbered' BY DEF Numbered
<1>4. QED BY <1>1, <1>2, <1>3, PTL DEF Herdr!Spec, Herdr!KeepsPromise, Herdr!Contract!Spec

-----------------------------------------------------------------------------
(* Codex: the shared queue of a thread.                                     *)

\* Where a message can be follows from what is said of it: on its way to the queue, in it, or in a turn,
\* and in one place only.  A call that knows its place in the queue has no request left on its way.
Reached == turning \cup turns
Somewhere == Reached \cup queue \cup {adding}
Early == {"connecting", "locking", "starting", "checking", "adding"}
Known == {"watching", "turns", "confirming", "withdrawing"}
CodexTypes ==
    /\ call \in [m : Messages \cup {0}, at : {"idle", "finding", "found turns"} \cup Early \cup Known,
                  item : BOOLEAN, again : BOOLEAN]
    /\ told \in [Messages -> {"nothing", "rejected", "busy", "unconfirmed", "accepted"}]
    /\ adding \in Messages \cup {0} /\ queue \subseteq Messages /\ Reached \subseteq Messages
    /\ call.at = "idle" => call = Codex!Idle
    /\ call.at # "idle" => call.m \in Messages /\ told[call.m] = "nothing"
Placed(m) ==
    /\ m \in Reached => m \notin queue
    /\ m = adding => m \notin queue \cup Reached
    /\ m \in turning => m \notin turns
    /\ m = call.m /\ call.at \in Known => m # adding
    /\ m = call.m /\ call.at \in Early => m \notin Somewhere
    /\ m # call.m /\ told[m] = "nothing" => m \notin Somewhere
    /\ told[m] \in {"rejected", "busy"} => m \notin Somewhere
    /\ told[m] = "accepted" => m \in turns
CodexInv == CodexTypes /\ \A m \in Messages : Placed(m)

\* Nothing starts the helper once Mluva stopped it.
HelperInv ==
    /\ server \in [daemon : BOOLEAN, helper : {"none", "starting", "running", "dead"}, lock : {"free", "taken"},
                    closing : BOOLEAN, shut : BOOLEAN]
    /\ server.shut => server.closing /\ server.helper = "none"

LEMMA CodexBegins == ASSUME Numbered, Codex!Init PROVE CodexInv /\ HelperInv /\ Codex!Contract!Init
<1>1. CodexTypes BY DEF Codex!Init, Codex!Idle, CodexTypes, Numbered, Reached
<1>2. ASSUME NEW m \in Messages PROVE Placed(m)
  BY DEF Codex!Init, Codex!Idle, Placed, Numbered, Reached, Somewhere, Early, Known
<1>3. HelperInv BY DEF Codex!Init, HelperInv
<1>4. Codex!Contract!Init BY DEF Codex!Init, Codex!Contract!Init
<1>5. QED BY <1>1, <1>2, <1>3, <1>4 DEF CodexInv

Answering == Codex!Checks \/ Codex!Listed \/ Codex!InATurn \/ Codex!NotConfirmed \/ Codex!Breaks \/ Codex!Fails
             \/ Codex!Withdraws \/ Codex!Deleted \/ Codex!DeletedUnheard
Serving == Codex!ConnectsDaemon \/ Codex!WantsHelper \/ Codex!LocksHelper \/ Codex!HelperStarts
           \/ Codex!Watchdog \/ Codex!Exits \/ Codex!Closes \/ Codex!StopsHelper \/ Codex!Reconnects \/ Codex!Works

\* What a step of a call does to the call: it ends with an outcome, goes on, or stands.
Ends == \E o \in {"rejected", "busy", "unconfirmed", "accepted"} :
    /\ call.at # "idle" /\ told' = [told EXCEPT ![call.m] = o] /\ call' = Codex!Idle
    /\ o = "rejected" => call.at \in Early /\ queue' = queue
    /\ o = "busy" => call.at = "withdrawing" /\ call.m \in queue /\ queue' = queue \ {call.m}
    /\ o = "accepted" => call.m \in turns
GoesOn ==
    /\ call.at # "idle" /\ told' = told
    /\ call' \in [m : {call.m}, at : {"finding", "found turns"} \cup Early \cup Known, item : BOOLEAN, again : BOOLEAN]
    /\ call'.at \in Early => call.at \in Early
    /\ call'.at \in Known => call.at \in Known \/ call.m \in queue
Quiet == UNCHANGED <<adding, turning, turns>> /\ (queue' = queue \/ queue' = queue \ {call.m})
Stands == UNCHANGED <<told, call, adding, queue, turning, turns>>

Passing == {"finding", "found turns"} \cup Early \cup Known
LEMMA MovesOn ==
    ASSUME CodexTypes, call.at # "idle", told' = told,
           NEW to \in Passing, NEW item \in BOOLEAN, NEW again \in BOOLEAN,
           call' = [call EXCEPT !.at = to, !.item = item, !.again = again],
           to \in Early => call.at \in Early, to \in Known => call.at \in Known \/ call.m \in queue
    PROVE  GoesOn
<1>1. call.m \in Messages BY DEF CodexTypes
<1>2. call' = [m |-> call.m, at |-> to, item |-> item, again |-> again] BY DEF CodexTypes
<1>3. QED BY <1>1, <1>2 DEF GoesOn, Passing

LEMMA AnsweringSteps ==
    ASSUME CodexTypes, Answering PROVE Quiet /\ (Ends \/ GoesOn)
<1> USE DEF Codex!codex
<1>1. ASSUME NEW to \in Passing, Codex!To(to), call.at # "idle",
             to \in Early => call.at \in Early, to \in Known => call.at \in Known \/ call.m \in queue
      PROVE GoesOn
  <2>1. call.item \in BOOLEAN /\ call' = [call EXCEPT !.at = to, !.item = call.item, !.again = FALSE]
    BY <1>1 DEF CodexTypes, Codex!To
  <2>2. QED BY <1>1, <2>1, MovesOn DEF Codex!To
<1>2. ASSUME call' = [call EXCEPT !.again = TRUE], told' = told, call.at \in Passing PROVE GoesOn
  <2>1. call.item \in BOOLEAN /\ call' = [call EXCEPT !.at = call.at, !.item = call.item, !.again = TRUE]
    BY <1>2 DEF CodexTypes
  <2>2. call.at # "idle" BY <1>2 DEF Passing, Early, Known
  <2>3. QED BY <1>2, <2>1, <2>2, MovesOn
<1>3. ASSUME NEW o \in {"rejected", "busy", "unconfirmed", "accepted"}, Codex!Over(o), call.at # "idle",
             o = "rejected" => call.at \in Early /\ queue' = queue,
             o = "busy" => call.at = "withdrawing" /\ call.m \in queue /\ queue' = queue \ {call.m},
             o = "accepted" => call.m \in turns
      PROVE Ends
  BY <1>3 DEF Ends, Codex!Over
<1>4. CASE Codex!Checks BY <1>1, <1>3, <1>4 DEF Codex!Checks, Quiet, Passing, Early, Known
<1>5. CASE Codex!Listed
  <2> USE <1>5 DEF Codex!Listed, Codex!Asks
  <2>1. Quiet BY DEF Quiet
  <2>2. CASE call.at = "finding"
    <3>1. CASE call.m \in queue
      <4>1. GoesOn BY <2>2, <3>1, MovesOn DEF Passing, Early, Known
      <4>2. QED BY <2>1, <4>1
    <3>2. CASE call.m \notin queue BY <1>1, <2>1, <2>2, <3>2 DEF Passing, Early, Known
    <3>3. QED BY <3>1, <3>2
  <2>3. CASE call.at = "watching"
    <3>1. Codex!To("watching") \/ Codex!To("turns") BY <2>3
    <3>2. QED BY <1>1, <2>1, <2>3, <3>1 DEF Passing, Early, Known
  <2>4. QED BY <2>2, <2>3
<1>6. CASE Codex!InATurn BY <1>1, <1>3, <1>6 DEF Codex!InATurn, Codex!Asks, Quiet, Passing, Early, Known
<1>7. CASE Codex!NotConfirmed BY <1>3, <1>7 DEF Codex!NotConfirmed, Quiet
<1>8. CASE Codex!Breaks BY <1>2, <1>8 DEF Codex!Breaks, Codex!Broken, Quiet, Passing, Known
<1>9. CASE Codex!Fails BY <1>1, <1>3, <1>9 DEF Codex!Fails, Codex!Unasked, Quiet, Passing, Early, Known
<1>10. CASE Codex!Withdraws BY <1>1, <1>10 DEF Codex!Withdraws, Quiet, Passing, Early, Known
<1>11. CASE Codex!Deleted
  BY <1>1, <1>3, <1>11 DEF Codex!Deleted, Codex!Asks, Codex!Gone, Quiet, Passing, Early, Known
<1>12. CASE Codex!DeletedUnheard
  BY <1>2, <1>3, <1>12 DEF Codex!DeletedUnheard, Quiet, Passing, Known
<1>13. QED BY <1>4, <1>5, <1>6, <1>7, <1>8, <1>9, <1>10, <1>11, <1>12 DEF Answering

LEMMA ServingSteps ==
    ASSUME CodexTypes, Serving PROVE Stands \/ (Quiet /\ (Ends \/ GoesOn))
<1> USE DEF Codex!codex
<1>1. ASSUME NEW to \in Early, Codex!To(to), call.at \in Early PROVE GoesOn
  <2>1. call.item \in BOOLEAN /\ call' = [call EXCEPT !.at = to, !.item = call.item, !.again = FALSE]
    BY <1>1 DEF CodexTypes, Codex!To
  <2>2. QED BY <1>1, <2>1, MovesOn DEF Codex!To, Passing, Early, Known
<1>2. ASSUME Codex!Over("rejected"), call.at \in Early, queue' = queue PROVE Ends
  BY <1>2 DEF Ends, Codex!Over, Early
<1>3. CASE Codex!ConnectsDaemon BY <1>1, <1>3 DEF Codex!ConnectsDaemon, Quiet, Early
<1>4. CASE Codex!WantsHelper BY <1>1, <1>2, <1>4 DEF Codex!WantsHelper, Quiet, Early
<1>5. CASE Codex!LocksHelper
  <2> USE <1>5 DEF Codex!LocksHelper
  <2>1. Codex!To("checking") \/ Codex!To("starting") \/ Codex!Over("rejected") OBVIOUS
  <2>2. QED BY <1>1, <1>2, <2>1 DEF Quiet, Early
<1>6. CASE Codex!HelperStarts BY <1>1, <1>2, <1>6 DEF Codex!HelperStarts, Quiet, Early
<1>7. CASE Codex!Watchdog \/ Codex!Exits \/ Codex!Closes
  BY <1>7 DEF Codex!Watchdog, Codex!Exits, Codex!Closes, Stands
<1>8. CASE Codex!StopsHelper \/ Codex!Reconnects \/ Codex!Works
  BY <1>8 DEF Codex!StopsHelper, Codex!Reconnects, Codex!Works, Stands
<1>9. QED BY <1>3, <1>4, <1>5, <1>6, <1>7, <1>8 DEF Serving

LEMMA CodexSteps ==
    ASSUME Numbered, CodexInv, Codex!Next
    PROVE  CodexInv' /\ [Codex!Contract!Next]_(Codex!Contract!contractVars)
<1> USE DEF Numbered
<1> DEFINE Promised == [Codex!Contract!Next]_(Codex!Contract!contractVars)
<1> CodexTypes /\ \A m \in Messages : Placed(m) BY DEF CodexInv
<1>1. ASSUME told' = told, turns' = turns, turning' = turning PROVE Promised
  BY <1>1 DEF Codex!Contract!contractVars
<1>2. ASSUME NEW m \in Messages, NEW o \in {"rejected", "busy", "unconfirmed", "accepted"}, told[m] = "nothing",
             told' = [told EXCEPT ![m] = o], turning' = turning, turns' = turns,
             o \in {"rejected", "busy"} => m \notin turning \cup turns, o = "accepted" => m \in turns
      PROVE Promised
  <2>1. Codex!Contract!Tell(m, o) BY <1>2 DEF Codex!Contract!Tell
  <2>2. QED BY <1>2, <2>1 DEF Codex!Contract!Next
<1> SUFFICES CodexInv' /\ Promised OBVIOUS
<1>3. ASSUME NEW m \in Messages, Codex!Dispatches(m) PROVE CodexInv' /\ Promised
  <2> USE <1>3 DEF Codex!Dispatches, CodexTypes, Placed, Reached, Somewhere, Early, Known
  <2>1. CodexTypes' OBVIOUS
  <2>2. ASSUME NEW k \in Messages PROVE Placed(k)' OBVIOUS
  <2>3. m \notin turning \cup turns /\ told[m] \notin {"rejected", "busy"} OBVIOUS
  <2>4. Codex!Contract!Reach(m) BY <2>3 DEF Codex!Contract!Reach
  <2>5. QED BY <2>1, <2>2, <2>4 DEF Codex!Contract!Next, CodexInv
<1>4. ASSUME NEW m \in Messages, Codex!Turns(m) PROVE CodexInv' /\ Promised
  <2> USE <1>4 DEF Codex!Turns, CodexTypes, Placed, Reached, Somewhere, Early, Known
  <2>1. CodexTypes' OBVIOUS
  <2>2. ASSUME NEW k \in Messages PROVE Placed(k)'
    <3>1. CASE k = m BY <3>1
    <3>2. CASE k # m BY <3>2
    <3>3. QED BY <3>1, <3>2
  <2>3. \A k \in Messages : k \in (turning \cup turns)' <=> k \in turning \cup turns OBVIOUS
  <2>4. Codex!Contract!Take(m) BY ONLY <2>3, Codex!Turns(m) DEF Codex!Turns, Codex!Contract!Take
  <2>5. QED BY <2>1, <2>2, <2>4 DEF Codex!Contract!Next, CodexInv
<1> HIDE DEF Promised
<1>5. ASSUME Quiet, Ends PROVE CodexInv' /\ Promised
  <2> USE <1>5 DEF Quiet, Codex!Idle
  <2>1. PICK m \in Messages : m = call.m /\ told[m] = "nothing" BY DEF Ends, CodexTypes
  <2>2. PICK o \in {"rejected", "busy", "unconfirmed", "accepted"} :
          /\ told' = [told EXCEPT ![m] = o] /\ call' = Codex!Idle
          /\ o = "rejected" => call.at \in Early /\ queue' = queue
          /\ o = "busy" => call.at = "withdrawing" /\ m \in queue /\ queue' = queue \ {m}
          /\ o = "accepted" => m \in turns
    BY <2>1 DEF Ends
  <2>3. call'.m = 0 /\ call'.at = "idle" BY <2>2
  <2>4. CodexTypes'
    <3>1. told' \in [Messages -> {"nothing", "rejected", "busy", "unconfirmed", "accepted"}] BY <2>2 DEF CodexTypes
    <3>2. call' \in [m : Messages \cup {0}, at : {"idle", "finding", "found turns"} \cup Early \cup Known,
                      item : BOOLEAN, again : BOOLEAN] BY <2>2
    <3>3. QED BY <2>2, <2>3, <3>1, <3>2 DEF CodexTypes, Reached
  <2>5. o \in {"rejected", "busy"} => m \notin Reached \cup {adding} /\ m \notin queue'
    BY <2>1, <2>2 DEF Placed, Somewhere, Known
  <2>6. told[m] = "nothing" /\ told \in [Messages -> {"nothing", "rejected", "busy", "unconfirmed", "accepted"}]
    BY <2>1 DEF CodexTypes
  <2>7. ASSUME NEW k \in Messages PROVE Placed(k)'
    <3>1. CASE k = m BY <2>1, <2>2, <2>3, <2>5, <2>6, <3>1 DEF Placed, Reached, Somewhere
    <3>2. CASE k # m BY <2>1, <2>2, <2>3, <2>6, <3>2 DEF Placed, Reached, Somewhere
    <3>3. QED BY <3>1, <3>2
  <2>8. Promised BY <1>2, <2>1, <2>2, <2>5 DEF Reached
  <2>9. QED BY <2>4, <2>7, <2>8 DEF CodexInv
<1>6. ASSUME Quiet, GoesOn PROVE CodexInv' /\ Promised
  <2> USE <1>6 DEF Quiet, GoesOn, CodexTypes
  <2>1. CodexTypes' BY DEF Reached, Early, Known
  <2>2. ASSUME NEW k \in Messages PROVE Placed(k)'
    BY DEF Placed, Reached, Somewhere, Early, Known
  <2>3. QED BY <1>1, <2>1, <2>2 DEF CodexInv
<1>7. ASSUME Stands PROVE CodexInv' /\ Promised
  <2>1. CodexTypes' /\ \A k \in Messages : Placed(k)'
    BY <1>7 DEF Stands, CodexTypes, Placed, Reached, Somewhere
  <2>2. QED BY <1>1, <1>7, <2>1 DEF Stands, CodexInv
<1>8. CASE Answering BY <1>5, <1>6, <1>8, AnsweringSteps
<1>9. CASE Serving BY <1>5, <1>6, <1>7, <1>9, ServingSteps
<1>10. CASE Codex!Adds
  <2> USE <1>10 DEF Codex!Adds
  <2>1. PICK m \in Messages : m = call.m BY DEF CodexTypes
  <2>2. m \notin Somewhere BY <2>1 DEF Placed, Early
  <2> DEFINE Asked ==
        /\ UNCHANGED <<told, turning, turns>>
        /\ call' \in [m : {m}, at : {"watching", "finding"}, item : BOOLEAN, again : BOOLEAN]
        /\ \/ queue' = queue \cup {m} /\ adding' = adding
           \/ queue' = queue /\ adding' = m /\ call'.at = "finding"
  <2>3. (Ends /\ Quiet) \/ (GoesOn /\ Quiet) \/ Asked
    <3> USE <2>1 DEF CodexTypes, Quiet, Codex!To, Codex!Over
    <3>1. CASE Codex!Over("rejected") /\ UNCHANGED <<queue, adding>> BY <3>1 DEF Ends, Early
    <3>2. CASE Codex!To("finding") /\ UNCHANGED <<queue, adding>> BY <3>2 DEF GoesOn, Early, Known
    <3>3. CASE /\ queue' = queue \cup {m} /\ UNCHANGED <<adding, told>>
               /\ call' = [call EXCEPT !.at = "watching", !.item = TRUE]
      BY <3>3
    <3>4. CASE Codex!To("finding") /\ queue' = queue \cup {m} /\ UNCHANGED adding BY <3>4
    <3>5. CASE Codex!To("finding") /\ adding' = m /\ UNCHANGED queue BY <3>5
    <3>6. QED BY <3>1, <3>2, <3>3, <3>4, <3>5
  <2>4. ASSUME Asked PROVE CodexInv' /\ Promised
    <3>1. CodexTypes' BY <2>1, <2>4 DEF CodexTypes, Reached, Early, Known
    <3>2. ASSUME NEW k \in Messages PROVE Placed(k)'
      <4>1. CASE k = m BY <2>1, <2>2, <2>4, <4>1 DEF CodexTypes, Placed, Reached, Somewhere, Early, Known
      <4>2. CASE k # m BY <2>1, <2>4, <4>2 DEF CodexTypes, Placed, Reached, Somewhere, Early, Known
      <4>3. QED BY <4>1, <4>2
    <3>3. QED BY <1>1, <2>4, <3>1, <3>2 DEF CodexInv
  <2> HIDE DEF Asked
  <2>5. QED BY <1>5, <1>6, <2>3, <2>4
<1>11. CASE Codex!AddsLate
  <2> USE <1>11 DEF Codex!AddsLate
  <2>1. CodexTypes' BY DEF CodexTypes, Reached
  <2>2. ASSUME NEW k \in Messages PROVE Placed(k)' BY DEF CodexTypes, Placed, Reached, Somewhere, Early, Known
  <2>3. QED BY <1>1, <2>1, <2>2 DEF CodexInv
<1>12. ASSUME NEW m \in Messages, Codex!Submit(m) PROVE CodexInv' /\ Promised
  <2> USE <1>12 DEF Codex!Submit, Codex!codex, Codex!Idle
  <2>1. call.m = 0 /\ told[m] = "nothing" /\ m \notin Somewhere BY DEF Placed
  <2>2. CASE /\ call' \in [m : {m}, at : {"connecting"}, item : BOOLEAN, again : BOOLEAN] /\ told' = told
    <3>1. CodexTypes' BY <2>1, <2>2 DEF CodexTypes, Reached, Early
    <3>2. ASSUME NEW k \in Messages PROVE Placed(k)'
      BY <2>1, <2>2 DEF Placed, Reached, Somewhere, Early, Known
    <3>3. QED BY <1>1, <2>2, <3>1, <3>2 DEF CodexInv
  <2>3. CASE call' = call /\ told' = [told EXCEPT ![m] = "rejected"]
    <3>1. CodexTypes' BY <2>1, <2>3 DEF CodexTypes, Reached
    <3>2. ASSUME NEW k \in Messages PROVE Placed(k)'
      BY <2>1, <2>3 DEF CodexTypes, Placed, Reached, Somewhere, Early, Known
    <3>3. Promised BY <1>2, <2>1, <2>3 DEF Reached, Somewhere
    <3>4. QED BY <3>1, <3>2, <3>3 DEF CodexInv
  <2>4. QED BY <2>2, <2>3
<1>13. QED
  BY <1>3, <1>4, <1>8, <1>9, <1>10, <1>11, <1>12 DEF Codex!Next, Answering, Serving

LEMMA HelperSteps == ASSUME HelperInv, Codex!Next PROVE HelperInv'
<1> USE DEF HelperInv, Codex!codex
<1>1. CASE Answering
  BY <1>1 DEF Answering, Codex!Checks, Codex!Listed, Codex!InATurn, Codex!NotConfirmed, Codex!Breaks, Codex!Fails,
              Codex!Withdraws, Codex!Deleted, Codex!DeletedUnheard
<1>2. CASE Codex!ConnectsDaemon \/ Codex!WantsHelper BY <1>2 DEF Codex!ConnectsDaemon, Codex!WantsHelper
<1>3. CASE Codex!LocksHelper BY <1>3 DEF Codex!LocksHelper, Codex!ClosedNow
<1>4. CASE Codex!HelperStarts BY <1>4 DEF Codex!HelperStarts
<1>5. CASE Codex!Watchdog \/ Codex!Exits BY <1>5 DEF Codex!Watchdog, Codex!Exits
<1>6. CASE Codex!Closes \/ Codex!StopsHelper BY <1>6 DEF Codex!Closes, Codex!StopsHelper
<1>7. CASE Codex!Reconnects BY <1>7 DEF Codex!Reconnects, Codex!ClosedNow
<1>8. CASE Codex!Works \/ Codex!Adds \/ Codex!AddsLate BY <1>8 DEF Codex!Works, Codex!Adds, Codex!AddsLate
<1>9. CASE \E m \in Messages : Codex!Submit(m) \/ Codex!Dispatches(m) \/ Codex!Turns(m)
  BY <1>9 DEF Codex!Submit, Codex!Dispatches, Codex!Turns
<1>10. QED BY <1>1, <1>2, <1>3, <1>4, <1>5, <1>6, <1>7, <1>8, <1>9 DEF Codex!Next, Answering

\* A message sent through Codex's queue: what is said to be sent is in a turn of the thread, and what is said
\* to be kept as a draft never gets there, whichever answers are lost (codex/queue.rs).
THEOREM CodexKeepsItsPromise == Numbered /\ Codex!Spec => Codex!KeepsPromise
<1>1. Numbered /\ Codex!Init => CodexInv /\ Codex!Contract!Init BY CodexBegins
<1>2. Numbered /\ CodexInv /\ [Codex!Next]_(Codex!codexVars)
        => CodexInv' /\ [Codex!Contract!Next]_(Codex!Contract!contractVars)
  <2>1. ASSUME CodexInv, UNCHANGED Codex!codexVars
        PROVE  CodexInv' /\ UNCHANGED Codex!Contract!contractVars
    BY <2>1 DEF CodexInv, CodexTypes, Placed, Reached, Somewhere, Codex!codexVars, Codex!Idle, Codex!Contract!contractVars
  <2>2. QED BY <2>1, CodexSteps
<1>3. Numbered => Numbered' BY DEF Numbered
<1>4. QED BY <1>1, <1>2, <1>3, PTL DEF Codex!Spec, Codex!KeepsPromise, Codex!Contract!Spec

\* The app server Mluva starts for itself does not outlive it: no call in flight starts it again after
\* `shutdown` stopped it (codex/server.rs).
THEOREM HelperDiesWithMluva == Codex!Spec => []Codex!NoHelperOutlives
<1>1. Codex!Init => HelperInv BY DEF Codex!Init, HelperInv
<1>2. HelperInv /\ [Codex!Next]_(Codex!codexVars) => HelperInv'
  BY HelperSteps DEF HelperInv, Codex!codexVars
<1>3. HelperInv => Codex!NoHelperOutlives BY DEF HelperInv, Codex!NoHelperOutlives
<1>4. QED BY <1>1, <1>2, <1>3, PTL DEF Codex!Spec

-----------------------------------------------------------------------------
(* Claude Code: the inbox and the transcript.                               *)

Before == {"checked", "opened", "connected"}
Writings == [kind : {"held", "enqueue", "turn"}, id : Messages \cup {0}, text : Texts]
Entries == [id : Messages \cup {0}, text : Texts]
InboxTypes ==
    /\ call \in [m : Messages \cup {0}, at : {"idle", "receipt", "watching"} \cup Before, offset : Nat,
                  peer : {"nobody", "session"}]
    /\ says \in [Messages -> Texts] /\ inbox \in Messages \cup {0}
    /\ queue \in Seq(Entries) /\ log \in Seq(Writings)
    /\ told \in [Messages -> {"nothing", "rejected", "unconfirmed", "accepted", "held", "taken"}]
    /\ reached \in [Messages -> {0, 1}] /\ taken \subseteq Messages
    /\ unsure \in BOOLEAN /\ weak \subseteq Messages /\ strays = {}
    /\ call.at = "idle" => call = Inbox!Idle
    /\ call.at # "idle" => call.m \in Messages
    /\ call.at \in {"receipt"} \cup Before => told[call.m] = "nothing"
    /\ call.at = "watching" => told[call.m] = "accepted"

\* A frame on the socket has reached nobody yet and its message is not rejected; nothing is claimed of a
\* message before it is written.
Framed(m) ==
    /\ m \in taken => reached[m] = 1
    /\ inbox = m => reached[m] = 0 /\ told[m] # "rejected"
    /\ told[m] = "rejected" => reached[m] = 0
    /\ told[m] = "nothing" /\ (m = call.m => call.at \in Before) => reached[m] = 0 /\ inbox # m
    /\ m \in weak => told[m] \in {"accepted", "held", "taken"}

\* What the session queues or turns to under a message's ID is that message.
Queued == \A i \in 1..Len(queue) : queue[i].id \in Messages => reached[queue[i].id] = 1
Turned == \A i \in 1..Len(log) : log[i].kind = "turn" /\ log[i].id \in Messages => log[i].id \in taken

\* As long as no record can be of another message, one that may be of the message shows that it arrived.
Sure ==
    call.at \in {"opened", "connected", "receipt"} /\ ~ unsure
        => /\ call.offset <= Len(log)
           /\ \A i \in (call.offset + 1)..Len(log) :
                log[i].kind # "turn" /\ Inbox!MayBe(log[i].kind, log[i].text, call.m) => reached[call.m] = 1

InboxInv == InboxTypes /\ (\A m \in Messages : Framed(m)) /\ Queued /\ Turned /\ Sure

\* The best evidence in a transcript is among it.
LEMMA TheBestIsThere ==
    ASSUME NEW S \in SUBSET {"none", "queued", "held", "taken"}, "none" \in S
    PROVE  (CHOOSE e \in S : \A other \in S : Inbox!Rank[other] <= Inbox!Rank[e]) \in S
<1>1. \E e \in S : \A other \in S : Inbox!Rank[other] <= Inbox!Rank[e]
  <2> USE DEF Inbox!Rank
  <2>1. CASE "taken" \in S BY <2>1
  <2>2. CASE "taken" \notin S /\ "held" \in S BY <2>2
  <2>3. CASE "taken" \notin S /\ "held" \notin S /\ "queued" \in S BY <2>3
  <2>4. CASE S = {"none"} BY <2>4
  <2>5. QED BY <2>1, <2>2, <2>3, <2>4
<1>2. QED BY <1>1

LEMMA EvidenceIsWritten ==
    ASSUME InboxTypes, NEW upto \in Inbox!Start..Len(log), Inbox!Best(upto) # "none"
    PROVE  \E i \in (Inbox!Start + 1)..upto :
             i \in 1..Len(log) /\ Inbox!Evidence(log[i], call.m) = Inbox!Best(upto)
<1> DEFINE seen == {Inbox!Evidence(log[i], call.m) : i \in (Inbox!Start + 1)..upto} \cup {"none"}
<1>1. seen \in SUBSET {"none", "queued", "held", "taken"} /\ "none" \in seen BY DEF Inbox!Evidence
<1>2. Inbox!Start \in Nat /\ Len(log) \in Nat BY DEF Inbox!Start, InboxTypes
<1> HIDE DEF seen
<1>3. (CHOOSE e \in seen : \A other \in seen : Inbox!Rank[other] <= Inbox!Rank[e]) \in seen BY <1>1, TheBestIsThere
<1>4. Inbox!Best(upto) = (CHOOSE e \in seen : \A other \in seen : Inbox!Rank[other] <= Inbox!Rank[e])
  BY DEF Inbox!Best, seen
<1>5. PICK i \in (Inbox!Start + 1)..upto : Inbox!Evidence(log[i], call.m) = Inbox!Best(upto)
  BY <1>3, <1>4 DEF seen
<1>6. i \in 1..Len(log) BY <1>2
<1>7. QED BY <1>5, <1>6

\* A message that is not there is claimed only by a record that may be another's.
LEMMA ClaimsHaveCause == ASSUME InboxInv, Inbox!Next PROVE Inbox!ClaimHasCause
<1> USE DEF InboxInv
<1>1. ASSUME NEW upto \in 0..Len(log), Inbox!ReadsReceipt(upto), ~ unsure PROVE weak' \subseteq weak
  <2> USE <1>1 DEF Inbox!ReadsReceipt
  <2>1. PICK m \in Messages : m = call.m /\ reached[m] \in {0, 1} BY DEF InboxTypes, Before
  <2>2. CASE Inbox!Best(upto) \in {"held", "queued"}
    <3>1. call.offset \in Nat /\ call.offset <= Len(log) /\ Len(log) \in Nat BY DEF Sure, InboxTypes
    <3>2. Inbox!Start = call.offset BY <3>1 DEF Inbox!Start
    <3>3. PICK i \in (call.offset + 1)..upto :
            i \in 1..Len(log) /\ Inbox!Evidence(log[i], m) \in {"held", "queued"}
      BY <2>1, <2>2, <3>2, EvidenceIsWritten
    <3>4. log[i].kind # "turn" /\ Inbox!MayBe(log[i].kind, log[i].text, m)
      BY <3>3 DEF Inbox!Evidence, Inbox!MayBe
    <3>5. i \in (call.offset + 1)..Len(log) BY <3>1, <3>3
    <3>6. reached[m] = 1 BY <2>1, <3>4, <3>5 DEF Sure
    <3>7. QED BY <2>1, <3>6
  <2>3. QED BY <2>2
<1>2. weak' = weak \/ \E upto \in 0..Len(log) : Inbox!ReadsReceipt(upto)
  BY DEF Inbox!Next, Inbox!Opens, Inbox!Connects, Inbox!ConnectFails, Inbox!WritesWhole, Inbox!WriteFails,
         Inbox!WindowEnds, Inbox!WatchEnds, Inbox!Receives, Inbox!Turns, Inbox!Clears, Inbox!Exits, Inbox!Rebinds,
         Inbox!Submit, Inbox!Watches, Inbox!Rewrites, Inbox!Types, Inbox!HoldsAnother
<1>3. QED BY <1>1, <1>2 DEF Inbox!ClaimHasCause

\* One record more leaves it sure, when it makes a doubt or the message is there.
LEMMA SureOfMore ==
    ASSUME InboxInv, NEW r \in Writings, log' = Append(log, r), UNCHANGED <<call, says>>, unsure => unsure',
           call.m \in Messages /\ reached[call.m] = 1 => reached'[call.m] = 1,
           call.m \in Messages /\ ~ unsure' /\ r.kind # "turn" /\ Inbox!MayBe(r.kind, r.text, call.m)
               => reached'[call.m] = 1
    PROVE  Sure'
<1>1. SUFFICES ASSUME call.at \in {"opened", "connected", "receipt"}, ~ unsure'
               PROVE  /\ call.offset <= Len(log')
                      /\ \A i \in (call.offset + 1)..Len(log') :
                           log'[i].kind # "turn" /\ Inbox!MayBe(log'[i].kind, log'[i].text, call.m)
                             => reached'[call.m] = 1
  BY DEF Sure, Inbox!MayBe
<1>2. call.m \in Messages /\ ~ unsure BY <1>1 DEF InboxInv, InboxTypes
<1>3. /\ call.offset \in Nat /\ call.offset <= Len(log) /\ Len(log') = Len(log) + 1 /\ Len(log) \in Nat
      /\ \A i \in 1..Len(log') : (i \in 1..Len(log) /\ log'[i] = log[i]) \/ log'[i] = r
  BY <1>1, <1>2 DEF Sure, InboxInv, InboxTypes
<1>4. ASSUME NEW i \in (call.offset + 1)..Len(log'), log'[i].kind # "turn",
             Inbox!MayBe(log'[i].kind, log'[i].text, call.m)
      PROVE  reached'[call.m] = 1
  <2>1. i \in 1..Len(log') BY <1>3
  <2>2. CASE i \in 1..Len(log) /\ log'[i] = log[i]
    <3>1. i \in (call.offset + 1)..Len(log) BY <1>3, <2>2
    <3>2. reached[call.m] = 1 BY <1>1, <1>2, <1>4, <2>2, <3>1 DEF Sure, InboxInv
    <3>3. QED BY <1>2, <3>2
  <2>3. CASE log'[i] = r BY <1>1, <1>2, <1>4, <2>3
  <2>4. QED BY <1>3, <2>1, <2>2, <2>3
<1>5. QED BY <1>3, <1>4

LEMMA InboxBegins == ASSUME Numbered, Inbox!Init PROVE InboxInv /\ Inbox!Contract!Init
<1>1. InboxTypes
  <2>1. /\ call.at = "idle" /\ call = Inbox!Idle
        /\ call \in [m : Messages \cup {0}, at : {"idle", "receipt", "watching"} \cup Before, offset : Nat,
                      peer : {"nobody", "session"}]
    BY DEF Inbox!Init, Inbox!Idle
  <2>2. queue \in Seq(Entries) /\ log \in Seq(Writings) BY DEF Inbox!Init
  <2>3. QED BY <2>1, <2>2 DEF Inbox!Init, InboxTypes, Before
<1>2. (\A m \in Messages : Framed(m)) /\ Queued /\ Turned /\ Sure
  BY DEF Inbox!Init, Inbox!Idle, Framed, Queued, Turned, Sure, Before, Numbered
<1>3. Inbox!Contract!Init BY DEF Inbox!Init, Inbox!Contract!Init, Inbox!Claim
<1>4. QED BY <1>1, <1>2, <1>3 DEF InboxInv

Promised == [Inbox!Contract!Next]_(Inbox!Contract!contractVars)

LEMMA InboxSaysNothing ==
    ASSUME UNCHANGED <<told, weak, reached, taken>> PROVE Promised
BY DEF Promised, Inbox!Contract!contractVars, Inbox!Claim

LEMMA InboxTells ==
    ASSUME NEW m \in Messages, NEW o \in {"rejected", "unconfirmed", "accepted", "held", "taken"},
           told' = [told EXCEPT ![m] = o], UNCHANGED <<weak, reached, taken>>,
           told \in [Messages -> {"nothing", "rejected", "unconfirmed", "accepted", "held", "taken"}],
           \/ told[m] = "nothing" /\ m \notin weak
           \/ told[m] \in {"nothing", "accepted"} /\ o = "taken",
           o = "rejected" => reached[m] = 0,
           o \in {"accepted", "held", "taken"} => reached[m] = 1,
           o = "taken" => m \in taken
    PROVE  Promised
<1> DEFINE said == [k \in Messages |-> Inbox!Claim(k)]
<1>1. said' = [said EXCEPT ![m] = o]
  <2>1. ASSUME NEW k \in Messages PROVE said'[k] = [said EXCEPT ![m] = o][k]
    <3>1. CASE k = m BY <3>1 DEF Inbox!Claim
    <3>2. CASE k # m BY <3>2 DEF Inbox!Claim
    <3>3. QED BY <3>1, <3>2
  <2>2. QED BY <2>1
<1>2. said[m] = "nothing" \/ (said[m] = "accepted" /\ o = "taken") BY DEF Inbox!Claim
<1>3. Inbox!Contract!Tell(m, o) BY <1>1, <1>2 DEF Inbox!Contract!Tell
<1>4. QED BY <1>3 DEF Promised, Inbox!Contract!Next

\* A call that ends without a claim.
LEMMA InboxGivesUp ==
    ASSUME Numbered, InboxInv, NEW o \in {"rejected", "unconfirmed"}, call.at \in {"opened", "connected", "receipt"},
           o = "rejected" => call.at # "receipt",
           told' = [told EXCEPT ![call.m] = o], call' = Inbox!Idle,
           UNCHANGED <<says, inbox, queue, log, reached, taken, unsure, weak, strays>>
    PROVE  InboxInv' /\ Promised
<1> USE DEF InboxInv
<1>1. PICK m \in Messages : m = call.m /\ told[m] = "nothing" BY DEF InboxTypes, Before
<1>2. call'.m = 0 /\ call'.at = "idle" BY DEF Inbox!Idle
<1>3. reached[m] = 0 \/ o # "rejected" BY <1>1 DEF Framed, Before
<1>4. InboxTypes'
  <2>1. told' \in [Messages -> {"nothing", "rejected", "unconfirmed", "accepted", "held", "taken"}]
    BY <1>1 DEF InboxTypes
  <2>2. QED BY <1>2, <2>1 DEF InboxTypes, Inbox!Idle, Before
<1>5. ASSUME NEW k \in Messages PROVE Framed(k)'
  <2>1. CASE k = m BY <1>1, <1>2, <1>3, <2>1 DEF Framed, InboxTypes, Before
  <2>2. CASE k # m BY <1>1, <1>2, <2>2 DEF Framed, InboxTypes
  <2>3. QED BY <2>1, <2>2
<1>6. Queued' /\ Turned' BY DEF Queued, Turned
<1>7. Sure' BY <1>2 DEF Sure
<1>8. Promised BY <1>1, <1>3, InboxTells DEF InboxTypes, Framed
<1>9. QED BY <1>4, <1>5, <1>6, <1>7, <1>8

LEMMA InboxSteps == ASSUME Numbered, InboxInv, Inbox!Next PROVE InboxInv' /\ Promised
<1> USE DEF Numbered
<1>0. InboxTypes /\ (\A m \in Messages : Framed(m)) /\ Queued /\ Turned /\ Sure BY DEF InboxInv
<1> USE <1>0
<1>1. ASSUME UNCHANGED <<queue, reached>> PROVE Queued' BY <1>1 DEF Queued
<1>2. ASSUME UNCHANGED <<log, taken>> PROVE Turned' BY <1>2 DEF Turned
<1>3. ASSUME InboxTypes', \A k \in Messages : Framed(k)', Queued', Turned', Sure' PROVE InboxInv'
  BY <1>3 DEF InboxInv
<1>4. ASSUME NEW m \in Messages, Inbox!Submit(m) PROVE InboxInv' /\ Promised
  <2> USE <1>4 DEF Inbox!Submit, Inbox!agent
  <2>1. call.m = 0 /\ call.at = "idle" /\ told[m] = "nothing" BY DEF Inbox!Idle
  <2>2. CASE Inbox!Tell(m, "rejected") /\ call' = call
    <3> USE <2>2 DEF Inbox!Tell
    <3>1. InboxTypes' BY <2>1 DEF InboxTypes, Before
    <3>2. ASSUME NEW k \in Messages PROVE Framed(k)' BY <2>1 DEF InboxTypes, Framed, Before
    <3>3. Sure' BY <2>1 DEF Sure, InboxTypes
    <3>4. Promised BY <2>1, InboxTells DEF InboxTypes, Framed
    <3>5. QED BY <1>1, <1>2, <1>3, <3>1, <3>2, <3>3, <3>4
  <2>3. CASE call' = [m |-> m, at |-> "checked", offset |-> 0, peer |-> "nobody"] /\ told' = told
    <3>1. call'.m = m /\ call'.at = "checked" BY <2>3
    <3>2. InboxTypes' BY <2>1, <2>3 DEF InboxTypes, Before
    <3>3. ASSUME NEW k \in Messages PROVE Framed(k)' BY <2>1, <2>3 DEF InboxTypes, Framed, Before
    <3>4. Sure' BY <2>1, <3>1 DEF Sure, InboxTypes, Framed
    <3>5. Promised BY <2>3, InboxSaysNothing
    <3>6. QED BY <1>1, <1>2, <1>3, <3>2, <3>3, <3>4, <3>5
  <2>4. QED BY <2>2, <2>3 DEF Inbox!Idle
<1>5. CASE Inbox!Opens
  <2> USE <1>5 DEF Inbox!Opens, Inbox!agent, Inbox!History
  <2>1. PICK m \in Messages : m = call.m /\ told[m] = "nothing" BY DEF InboxTypes, Before
  <2>2. call' = [m |-> m, at |-> "opened", offset |-> Len(log), peer |-> call.peer] BY <2>1 DEF InboxTypes
  <2>3. Len(log) \in Nat BY DEF InboxTypes
  <2>4. InboxTypes' BY <2>1, <2>2, <2>3 DEF InboxTypes, Before
  <2>5. ASSUME NEW k \in Messages PROVE Framed(k)' BY <2>1, <2>2 DEF Framed, Before
  <2>6. Sure' BY <2>1, <2>2, <2>3 DEF Sure, Framed
  <2>7. Promised BY InboxSaysNothing
  <2>8. QED BY <1>1, <1>2, <1>3, <2>4, <2>5, <2>6, <2>7
<1>6. CASE Inbox!Connects
  <2> USE <1>6 DEF Inbox!Connects, Inbox!agent, Inbox!PeerIsOwn
  <2>1. CASE session.owner # "nobody" /\ session.owner = "session"
    <3>1. PICK m \in Messages : m = call.m /\ told[m] = "nothing" BY DEF InboxTypes, Before
    <3>2. call' = [m |-> m, at |-> "connected", offset |-> call.offset, peer |-> "session"]
      BY <2>1, <3>1 DEF InboxTypes
    <3>3. InboxTypes' BY <2>1, <3>1, <3>2 DEF InboxTypes, Before
    <3>4. ASSUME NEW k \in Messages PROVE Framed(k)' BY <2>1, <3>1, <3>2 DEF Framed, Before
    <3>5. Sure' BY <2>1, <3>1, <3>2 DEF Sure, Inbox!MayBe
    <3>6. Promised BY <2>1, InboxSaysNothing
    <3>7. QED BY <1>1, <1>2, <1>3, <3>3, <3>4, <3>5, <3>6
  <2>2. CASE ~ (session.owner # "nobody" /\ session.owner = "session")
    BY <2>2, InboxGivesUp DEF Inbox!Tell
  <2>3. QED BY <2>1, <2>2
<1>7. CASE Inbox!ConnectFails BY <1>7, InboxGivesUp DEF Inbox!ConnectFails, Inbox!Tell, Inbox!agent
<1>8. CASE Inbox!WriteFails BY <1>8, InboxGivesUp DEF Inbox!WriteFails, Inbox!Tell, Inbox!agent
<1>9. CASE Inbox!WindowEnds BY <1>9, InboxGivesUp DEF Inbox!WindowEnds, Inbox!Tell, Inbox!agent
<1>10. CASE Inbox!WatchEnds
  <2> USE <1>10 DEF Inbox!WatchEnds, Inbox!agent, Inbox!Idle
  <2>1. InboxTypes' BY DEF InboxTypes, Before
  <2>2. ASSUME NEW k \in Messages PROVE Framed(k)' BY DEF InboxTypes, Framed, Before
  <2>3. Sure' BY DEF InboxTypes, Sure
  <2>4. Promised BY InboxSaysNothing
  <2>5. QED BY <1>1, <1>2, <1>3, <2>1, <2>2, <2>3, <2>4
<1>11. CASE Inbox!WritesWhole
  <2> USE <1>11 DEF Inbox!WritesWhole, Inbox!agent
  <2>1. PICK m \in Messages : m = call.m /\ told[m] = "nothing" /\ reached[m] = 0
    BY DEF InboxTypes, Framed, Before
  <2>2. call' = [m |-> m, at |-> "receipt", offset |-> call.offset, peer |-> call.peer] BY <2>1 DEF InboxTypes
  <2>3. InboxTypes' BY <2>1, <2>2 DEF InboxTypes, Before
  <2>4. ASSUME NEW k \in Messages PROVE Framed(k)'
    <3>1. CASE k = m BY <2>1, <2>2, <3>1 DEF Framed, Before
    <3>2. CASE k # m BY <2>1, <2>2, <3>2 DEF Framed, Before
    <3>3. QED BY <3>1, <3>2
  <2>5. Sure' BY <2>1, <2>2 DEF Sure, Inbox!MayBe
  <2>6. Promised BY InboxSaysNothing
  <2>7. QED BY <1>1, <1>2, <1>3, <2>3, <2>4, <2>5, <2>6
<1>12. ASSUME NEW upto \in 0..Len(log), Inbox!ReadsReceipt(upto) PROVE InboxInv' /\ Promised
  <2> USE <1>12 DEF Inbox!ReadsReceipt, Inbox!agent, Inbox!Tell
  <2>1. PICK m \in Messages : m = call.m /\ told[m] = "nothing" /\ m \notin weak
    BY DEF InboxTypes, Framed, Before
  <2>2. CASE Inbox!Best(upto) = "taken" /\ told' = [told EXCEPT ![m] = "taken"] /\ call' = Inbox!Idle
    <3>1. m \in taken /\ reached[m] = 1
      <4>1. PICK i \in 1..Len(log) : Inbox!Evidence(log[i], m) = "taken" BY <2>1, <2>2, EvidenceIsWritten
      <4>2. log[i].kind = "turn" /\ log[i].id = m BY <4>1 DEF Inbox!Evidence
      <4>3. QED BY <4>2 DEF Turned, Framed
    <3>2. InboxTypes' BY <2>1, <2>2 DEF InboxTypes, Inbox!Idle, Before
    <3>3. weak' = weak BY <2>2
    <3>4. ASSUME NEW k \in Messages PROVE Framed(k)'
      BY <2>1, <2>2, <3>1, <3>3 DEF InboxTypes, Framed, Inbox!Idle, Before
    <3>5. Sure' BY <2>2, <3>3 DEF InboxTypes, Sure, Inbox!Idle
    <3>6. Promised BY <2>1, <2>2, <3>1, <3>3, InboxTells DEF InboxTypes
    <3>7. QED BY <1>1, <1>2, <1>3, <3>2, <3>4, <3>5, <3>6
  <2>3. CASE Inbox!Best(upto) \in {"held", "queued"}
    <3>1. PICK o \in {"held", "accepted"} : /\ told' = [told EXCEPT ![m] = o]
                                            /\ o = "held" => call' = Inbox!Idle
                                            /\ o = "accepted" => call' = [call EXCEPT !.at = "watching", !.offset = upto]
      BY <2>1, <2>3
    <3>2. o = "accepted" => call' = [m |-> m, at |-> "watching", offset |-> upto, peer |-> call.peer]
      BY <2>1, <3>1 DEF InboxTypes
    <3>3. InboxTypes' BY <2>1, <3>1, <3>2 DEF InboxTypes, Inbox!Idle, Before
    <3>4. ASSUME NEW k \in Messages PROVE Framed(k)'
      <4>1. CASE k = m BY <2>1, <3>1, <3>2, <4>1 DEF InboxTypes, Framed, Inbox!Idle, Before
      <4>2. CASE k # m BY <2>1, <3>1, <3>2, <4>2 DEF InboxTypes, Framed, Inbox!Idle, Before
      <4>3. QED BY <4>1, <4>2
    <3>6. Sure' BY <3>1, <3>2 DEF Sure, Inbox!Idle
    <3>7. Promised
      <4>1. CASE reached[m] = 1
        <5>1. weak' = weak BY <2>1, <4>1
        <5>2. QED BY <2>1, <3>1, <4>1, <5>1, InboxTells DEF InboxTypes
      <4>2. CASE reached[m] = 0
        <5>1. weak' = weak \cup {m} BY <2>1, <2>3, <4>2
        <5>2. ASSUME NEW k \in Messages PROVE Inbox!Claim(k)' = Inbox!Claim(k)
          <6>1. CASE k = m BY <2>1, <3>1, <5>1, <6>1 DEF Inbox!Claim, InboxTypes
          <6>2. CASE k # m BY <3>1, <5>1, <6>2 DEF Inbox!Claim, InboxTypes
          <6>3. QED BY <6>1, <6>2
        <5>3. QED BY <5>2 DEF Promised, Inbox!Contract!contractVars
      <4>3. QED BY <4>1, <4>2 DEF InboxTypes
    <3>8. QED BY <1>1, <1>2, <1>3, <3>3, <3>4, <3>6, <3>7
  <2>4. CASE Inbox!Best(upto) \notin {"taken", "held", "queued"}
    <3>1. told' = told /\ weak' = weak /\ call' = [m |-> m, at |-> "receipt", offset |-> upto, peer |-> call.peer]
      BY <2>1, <2>4 DEF InboxTypes
    <3>2. InboxTypes' BY <2>1, <3>1 DEF InboxTypes, Before
    <3>3. ASSUME NEW k \in Messages PROVE Framed(k)' BY <2>1, <3>1 DEF Framed, Before
    <3>4. ~ unsure => upto >= call.offset BY DEF Sure, Inbox!Start, InboxTypes
    <3>5. Sure' BY <2>1, <3>1, <3>4 DEF Sure, Inbox!MayBe, InboxTypes
    <3>6. Promised BY <3>1, InboxSaysNothing
    <3>7. QED BY <1>1, <1>2, <1>3, <3>2, <3>3, <3>5, <3>6
  <2>5. QED BY <2>1, <2>2, <2>3, <2>4
<1>13. ASSUME NEW upto \in 0..Len(log), Inbox!Watches(upto) PROVE InboxInv' /\ Promised
  <2> USE <1>13 DEF Inbox!Watches, Inbox!agent, Inbox!Tell
  <2>1. PICK m \in Messages : m = call.m /\ told[m] = "accepted" BY DEF InboxTypes
  <2>2. CASE Inbox!Best(upto) = "taken"
    <3>1. m \in taken /\ reached[m] = 1
      <4>1. PICK i \in 1..Len(log) : Inbox!Evidence(log[i], m) = "taken" BY <2>1, <2>2, EvidenceIsWritten
      <4>2. log[i].kind = "turn" /\ log[i].id = m BY <4>1 DEF Inbox!Evidence
      <4>3. QED BY <4>2 DEF Turned, Framed
    <3>2. told' = [told EXCEPT ![m] = "taken"] /\ call' = Inbox!Idle BY <2>1, <2>2
    <3>3. InboxTypes' BY <2>1, <3>2 DEF InboxTypes, Inbox!Idle, Before
    <3>4. ASSUME NEW k \in Messages PROVE Framed(k)'
      BY <2>1, <3>1, <3>2 DEF InboxTypes, Framed, Inbox!Idle, Before
    <3>5. Sure' BY <3>2 DEF InboxTypes, Sure, Inbox!Idle
    <3>6. Promised BY <2>1, <3>1, <3>2, InboxTells DEF InboxTypes
    <3>7. QED BY <1>1, <1>2, <1>3, <3>3, <3>4, <3>5, <3>6
  <2>3. CASE Inbox!Best(upto) # "taken"
    <3>1. told' = told /\ call' = [m |-> m, at |-> "watching", offset |-> upto, peer |-> call.peer]
      BY <2>1, <2>3 DEF InboxTypes
    <3>2. InboxTypes' BY <2>1, <3>1 DEF InboxTypes, Before
    <3>3. ASSUME NEW k \in Messages PROVE Framed(k)' BY <2>1, <3>1 DEF Framed, Before
    <3>4. Sure' BY <2>1, <3>1 DEF Sure
    <3>5. Promised BY <3>1, InboxSaysNothing
    <3>6. QED BY <1>1, <1>2, <1>3, <3>2, <3>3, <3>4, <3>5
  <2>4. QED BY <2>2, <2>3
<1>14. CASE Inbox!Receives
  <2> USE <1>14 DEF Inbox!Receives
  <2>1. PICK m \in Messages : m = inbox /\ reached[m] = 0 /\ told[m] # "rejected" BY DEF InboxTypes, Framed
  <2>2. CASE UNCHANGED <<queue, log, reached, unsure>>
    <3>1. InboxTypes' BY <2>2 DEF InboxTypes
    <3>2. ASSUME NEW k \in Messages PROVE Framed(k)' BY <2>2 DEF Framed
    <3>3. Sure' BY <2>2 DEF Sure, Inbox!MayBe
    <3>4. Promised BY <2>2, InboxSaysNothing
    <3>5. QED BY <1>1, <1>2, <1>3, <2>2, <3>1, <3>2, <3>3, <3>4
  <2>3. CASE ~ UNCHANGED <<queue, log, reached, unsure>>
    <3>1. reached' = [reached EXCEPT ![m] = 1] BY <2>1, <2>3 DEF InboxTypes
    <3>3. says[m] \in Texts BY DEF InboxTypes
    <3>2. PICK kind \in {"held", "enqueue"}, text \in Texts :
            /\ log' = Append(log, Inbox!Record(kind, m, text))
            /\ unsure' = IF m = call.m THEN unsure ELSE Inbox!Ambiguous(kind, text)
            /\ queue' = queue \/ queue' = Append(queue, [id |-> m, text |-> says[m]])
      BY <2>1, <2>3, <3>3
    <3>4. Inbox!Record(kind, m, text) \in Writings BY DEF Inbox!Record, Writings
    <3>5. InboxTypes'
      <4>1. log' \in Seq(Writings)
        <5>1. log \in Seq(Writings) BY DEF InboxTypes
        <5>2. Append(log, Inbox!Record(kind, m, text)) \in Seq(Writings) BY ONLY <3>4, <5>1
        <5>3. QED BY <3>2, <5>2
      <4>2. queue' \in Seq(Entries)
        <5>1. queue \in Seq(Entries) BY DEF InboxTypes
        <5>2. [id |-> m, text |-> says[m]] \in Entries BY <3>3 DEF Entries
        <5>3. QED BY ONLY <3>2, <5>1, <5>2
      <4>3. unsure' \in BOOLEAN BY <3>2 DEF InboxTypes, Inbox!Ambiguous
      <4>4. QED BY <3>1, <4>1, <4>2, <4>3 DEF InboxTypes
    <3>6. ASSUME NEW k \in Messages PROVE Framed(k)'
      <4>1. CASE k = m BY <2>1, <3>1, <4>1 DEF Framed, InboxTypes
      <4>2. CASE k # m BY <2>1, <3>1, <4>2 DEF Framed, InboxTypes
      <4>3. QED BY <4>1, <4>2
    <3>7. Queued'
      <4>1. ASSUME NEW i \in 1..Len(queue'), queue'[i].id \in Messages PROVE reached'[queue'[i].id] = 1
        <5>1. (i \in 1..Len(queue) /\ queue'[i] = queue[i]) \/ queue'[i] = [id |-> m, text |-> says[m]]
          BY <3>2 DEF InboxTypes
        <5>2. QED BY <3>1, <4>1, <5>1 DEF Queued, InboxTypes
      <4>2. QED BY <4>1 DEF Queued
    <3>8. \A i \in 1..Len(log') : (i \in 1..Len(log) /\ log'[i] = log[i])
                                  \/ (i = Len(log) + 1 /\ log'[i] = Inbox!Record(kind, m, text))
      BY <3>2, <3>4 DEF InboxTypes
    <3>9. Turned' BY <3>8 DEF Turned, Inbox!Record
    <3>10. Sure'
      <4>1. CASE m = call.m BY <1>0, <2>1, <3>1, <3>2, <3>4, <4>1, SureOfMore DEF InboxInv, InboxTypes
      <4>2. CASE m # call.m
        BY <2>1, <3>1, <3>2, <3>4, <4>2, SureOfMore DEF InboxInv, InboxTypes, Inbox!Ambiguous, Inbox!Record
      <4>3. QED BY <4>1, <4>2
    <3>11. Promised
      <4>1. Inbox!Claim(m) \notin {"rejected", "busy"} BY <2>1 DEF Inbox!Claim, InboxTypes
      <4>2. Inbox!Contract!Reach(m) BY <2>1, <3>1, <4>1 DEF Inbox!Contract!Reach, Inbox!Claim
      <4>3. QED BY <4>2 DEF Promised, Inbox!Contract!Next
    <3>12. QED BY <1>3, <3>5, <3>6, <3>7, <3>9, <3>10, <3>11
  <2>4. QED BY <2>2, <2>3
<1>15. ASSUME NEW text \in Texts, Inbox!Types(text) PROVE InboxInv' /\ Promised
  <2> USE <1>15 DEF Inbox!Types
  <2>1. Inbox!Record("enqueue", 0, text) \in Writings BY DEF Inbox!Record, Writings
  <2>2. InboxTypes'
    <3>1. log' \in Seq(Writings) BY <2>1 DEF InboxTypes
    <3>2. [id |-> 0, text |-> text] \in Entries BY DEF Entries
    <3>3. queue' \in Seq(Entries) BY <3>2 DEF InboxTypes
    <3>4. unsure' \in BOOLEAN BY DEF InboxTypes, Inbox!Ambiguous
    <3>5. QED BY <3>1, <3>3, <3>4 DEF InboxTypes
  <2>3. ASSUME NEW k \in Messages PROVE Framed(k)' BY DEF Framed
  <2>4. Queued'
    <3>1. ASSUME NEW i \in 1..Len(queue'), queue'[i].id \in Messages PROVE reached'[queue'[i].id] = 1
      <4>1. (i \in 1..Len(queue) /\ queue'[i] = queue[i]) \/ queue'[i] = [id |-> 0, text |-> text]
        BY DEF InboxTypes
      <4>2. QED BY <3>1, <4>1 DEF Queued
    <3>2. QED BY <3>1 DEF Queued
  <2>5. \A i \in 1..Len(log') : (i \in 1..Len(log) /\ log'[i] = log[i])
                                \/ (i = Len(log) + 1 /\ log'[i] = Inbox!Record("enqueue", 0, text))
    BY <2>1 DEF InboxTypes
  <2>6. Turned' BY <2>5 DEF Turned, Inbox!Record
  <2>7. Sure' BY <2>1, SureOfMore DEF InboxInv, InboxTypes, Inbox!Ambiguous, Inbox!Record
  <2>8. Promised BY InboxSaysNothing
  <2>9. QED BY <1>3, <2>2, <2>3, <2>4, <2>6, <2>7, <2>8
<1>16. CASE Inbox!Turns
  <2> USE <1>16 DEF Inbox!Turns
  <2>1. /\ queue \in Seq(Entries)
        /\ Len(queue) \in Nat /\ Len(queue) > 0 /\ Head(queue) = queue[1]
        /\ Head(queue) \in Entries
    <3>1. queue \in Seq(Entries) BY DEF InboxTypes
    <3>2. queue # <<>> OBVIOUS
    <3>3. Len(queue) \in Nat /\ Len(queue) > 0 BY ONLY <3>1, <3>2
    <3>4. Head(queue) = queue[1] BY ONLY <3>1, <3>2, <3>3
    <3>5. queue[1] \in Entries BY ONLY <3>1, <3>3
    <3>6. QED BY <3>1, <3>3, <3>4, <3>5
  <2>2. PICK id \in Messages \cup {0}, text \in Texts : Head(queue).id = id /\ Head(queue).text = text
    BY <2>1 DEF Entries
  <2>3. id \in Messages => reached[id] = 1 BY <2>1, <2>2 DEF Queued
  <2>4. log' = Append(log, Inbox!Record("turn", id, text)) /\ taken' = taken \cup ({id} \ {0}) BY <2>2
  <2>5. Inbox!Record("turn", id, text) \in Writings BY DEF Inbox!Record, Writings
  <2>6. \A i \in 1..Len(log') : (i \in 1..Len(log) /\ log'[i] = log[i])
                                \/ (i = Len(log) + 1 /\ log'[i] = Inbox!Record("turn", id, text))
    BY <2>4, <2>5 DEF InboxTypes
  <2>7. InboxTypes'
    <3>1. log' \in Seq(Writings) BY <2>4, <2>5 DEF InboxTypes
    <3>2. queue' \in Seq(Entries) BY <2>1
    <3>3. taken' \subseteq Messages BY <2>4 DEF InboxTypes
    <3>4. QED BY <3>1, <3>2, <3>3 DEF InboxTypes
  <2>8. ASSUME NEW k \in Messages PROVE Framed(k)' BY <2>3, <2>4 DEF Framed
  <2>9. Queued'
    <3>1. ASSUME NEW i \in 1..Len(queue') PROVE i + 1 \in 1..Len(queue) /\ queue'[i] = queue[i + 1] BY <2>1
    <3>2. QED BY <3>1 DEF Queued
  <2>10. Turned' BY <2>4, <2>6 DEF Turned, Inbox!Record
  <2>11. Sure' BY <2>4, <2>5, SureOfMore DEF InboxInv, Inbox!Record
  <2>12. Promised
    <3>1. CASE id = 0 BY <2>4, <3>1, InboxSaysNothing
    <3>2. CASE id # 0
      <4>1. id \in Messages /\ taken' = taken \cup {id} BY <2>4, <3>2
      <4>2. Inbox!Contract!Take(id) BY <2>3, <4>1 DEF Inbox!Contract!Take, Inbox!Claim
      <4>3. QED BY <4>1, <4>2 DEF Promised, Inbox!Contract!Next
    <3>3. QED BY <3>1, <3>2
  <2>13. QED BY <1>3, <2>7, <2>8, <2>9, <2>10, <2>11, <2>12
<1>17. ASSUME NEW from \in 0..Len(log), Inbox!Rewrites(from) PROVE InboxInv' /\ Promised
  <2> USE <1>17 DEF Inbox!Rewrites
  <2>1. log \in Seq(Writings) /\ Len(log) \in Nat /\ from \in 2..Len(log) BY DEF InboxTypes
  <2>2. log' \in Seq(Writings) /\ Len(log') = Len(log) - from + 1
        /\ \A i \in 1..Len(log') : log'[i] = log[from + i - 1]
    BY <2>1
  <2>3. InboxTypes' BY <2>2 DEF InboxTypes
  <2>4. ASSUME NEW k \in Messages PROVE Framed(k)' BY DEF Framed
  <2>5. Turned'
    <3>1. ASSUME NEW i \in 1..Len(log') PROVE from + i - 1 \in 1..Len(log) /\ log'[i] = log[from + i - 1]
      BY <2>1, <2>2
    <3>2. QED BY <3>1 DEF Turned
  <2>6. Sure' BY DEF Sure
  <2>7. Promised BY InboxSaysNothing
  <2>8. QED BY <1>1, <1>3, <2>3, <2>4, <2>5, <2>6, <2>7
<1>18. CASE Inbox!Clears \/ Inbox!Exits \/ Inbox!Rebinds
  <2>1. /\ UNCHANGED <<call, says, log, told, reached, taken, unsure, weak, strays>>
        /\ queue' = queue \/ queue' = <<>>
        /\ inbox' = inbox \/ inbox' = 0
    BY <1>18 DEF Inbox!Clears, Inbox!Exits, Inbox!Rebinds
  <2>2. InboxTypes'
    <3>1. <<>> \in Seq(Entries) OBVIOUS
    <3>2. queue' \in Seq(Entries)
      <4>1. queue \in Seq(Entries) BY DEF InboxTypes
      <4>2. QED BY ONLY <2>1, <3>1, <4>1
    <3>3. QED BY <2>1, <3>2 DEF InboxTypes
  <2>3. ASSUME NEW k \in Messages PROVE Framed(k)' BY <2>1 DEF Framed
  <2>4. Queued' BY <2>1 DEF Queued
  <2>5. Sure' BY <2>1 DEF Sure, Inbox!MayBe
  <2>6. Promised BY <2>1, InboxSaysNothing
  <2>7. QED BY <1>2, <1>3, <2>1, <2>2, <2>3, <2>4, <2>5, <2>6
<1>19. ASSUME NEW text \in Texts, Inbox!HoldsAnother(text) PROVE InboxInv' /\ Promised
  <2> USE <1>19 DEF Inbox!HoldsAnother
  <2>1. Inbox!Record("held", 0, text) \in Writings BY DEF Inbox!Record, Writings
  <2>2. InboxTypes' BY <2>1 DEF InboxTypes, Inbox!Ambiguous
  <2>3. ASSUME NEW k \in Messages PROVE Framed(k)' BY DEF Framed
  <2>4. \A i \in 1..Len(log') : (i \in 1..Len(log) /\ log'[i] = log[i])
                                \/ (i = Len(log) + 1 /\ log'[i] = Inbox!Record("held", 0, text))
    BY <2>1 DEF InboxTypes
  <2>5. Turned' BY <2>4 DEF Turned, Inbox!Record
  <2>6. Sure' BY <2>1, SureOfMore DEF InboxInv, InboxTypes, Inbox!Ambiguous, Inbox!Record
  <2>7. Promised BY InboxSaysNothing
  <2>8. QED BY <1>1, <1>3, <2>2, <2>3, <2>5, <2>6, <2>7
<1>20. QED
  BY <1>4, <1>5, <1>6, <1>7, <1>8, <1>9, <1>10, <1>11, <1>12, <1>13, <1>14, <1>15, <1>16, <1>17, <1>18, <1>19
  DEF Inbox!Next

\* A message to a Claude Code inbox keeps the promise of every transport, whatever else the session writes into
\* its transcript; a claim that rests on a text alone counts as none (claude_inbox.rs).
THEOREM InboxKeepsItsPromise == Numbered /\ Inbox!Spec => Inbox!KeepsPromise
<1>1. Numbered /\ Inbox!Init => InboxInv /\ Inbox!Contract!Init BY InboxBegins
<1>2. Numbered /\ InboxInv /\ [Inbox!Next]_(Inbox!inboxVars) => InboxInv' /\ Promised
  <2>1. ASSUME InboxInv, UNCHANGED Inbox!inboxVars PROVE InboxInv' /\ Promised
    <3>1. UNCHANGED <<told, weak, reached, taken>> BY <2>1 DEF Inbox!inboxVars
    <3>2. InboxInv' BY <2>1 DEF InboxInv, InboxTypes, Framed, Queued, Turned, Sure, Inbox!MayBe, Inbox!inboxVars
    <3>3. QED BY <3>1, <3>2, InboxSaysNothing
  <2>2. QED BY <2>1, InboxSteps
<1>3. Numbered => Numbered' BY DEF Numbered
<1>4. QED BY <1>1, <1>2, <1>3, PTL DEF Promised, Inbox!Spec, Inbox!KeepsPromise, Inbox!Contract!Spec

\* A message is said to be queued or held without being there only when, since it was written, the session queued
\* this very text for another one or held one that begins like it, or the transcript was written anew; and no
\* other process is ever written to (claude_inbox.rs).
THEOREM InboxSpeaksTruth == Numbered /\ Inbox!Spec => Inbox!InboxTellsTheTruth
<1>1. Numbered /\ Inbox!Init => InboxInv BY InboxBegins
<1>2. Numbered /\ InboxInv /\ [Inbox!Next]_(Inbox!inboxVars)
        => InboxInv' /\ [Inbox!ClaimHasCause]_(Inbox!inboxVars)
  <2>1. ASSUME InboxInv, UNCHANGED Inbox!inboxVars PROVE InboxInv'
    BY <2>1 DEF InboxInv, InboxTypes, Framed, Queued, Turned, Sure, Inbox!MayBe, Inbox!inboxVars
  <2>2. QED BY <2>1, InboxSteps, ClaimsHaveCause
<1>3. InboxInv => strays = {} BY DEF InboxInv, InboxTypes
<1>4. Numbered => Numbered' BY DEF Numbered
<1>5. QED BY <1>1, <1>2, <1>3, <1>4, PTL DEF Inbox!Spec, Inbox!InboxTellsTheTruth

-----------------------------------------------------------------------------
(* Screen annotation: what is drawn, and what its images show.               *)

\* A mark, a line of the overlays, an image under way and one that was kept, when there are n marks.
Stroke == [screen : Screens, press : 0 .. MaxPresses, pin : BOOLEAN, led : 0 .. MaxPresses]
Overlay(n) == [of : 1 .. n, held : BOOLEAN, released : BOOLEAN]
Shots(n) == [of : 1 .. n, shot : BOOLEAN, sees : SUBSET (1 .. n)]
Kept(n) == [of : 1 .. n, sees : SUBSET (1 .. n)]

\* More marks leave the images and lines of the earlier ones as they are.
LEMMA LaterImages == ASSUME NEW n \in Nat PROVE Overlay(n) \subseteq Overlay(n + 1) /\ Shots(n) \subseteq Shots(n + 1) /\ Kept(n) \subseteq Kept(n + 1)
<1>1. 1 .. n \subseteq 1 .. (n + 1) OBVIOUS
<1>2. QED BY <1>1 DEF Overlay, Shots, Kept

\* What each variable holds; the images are counted, so there are finitely many.
InkTypes ==
    /\ closed \in BOOLEAN /\ presses \in 0 .. MaxPresses /\ ink \in {"none", "pressed", "drawing"}
    /\ origin \in Screens \cup {"none"} /\ marks \in Seq(Stroke) /\ current \in 0 .. Len(marks) /\ first \in 0 .. Len(marks)
    /\ lines \subseteq Overlay(Len(marks)) /\ pulses \subseteq 1 .. Len(marks)
    /\ locating \subseteq 1 .. presses /\ pinning \in Nat /\ Len(marks) + pinning <= MaxMarks
    /\ grabs \subseteq Shots(Len(marks)) /\ frames \subseteq Kept(Len(marks))
    /\ (current # 0) = (ink = "drawing")
\* The key that is up left no line it will not hide when it goes down; the lines are of the last press.
PressInv ==
    /\ \A l \in lines : ~ marks[l.of].pin /\ marks[l.of].press = presses /\ (ink = "none" => l.released)
    /\ \A p \in pulses : marks[p].pin
    /\ \A m \in 1 .. Len(marks) : marks[m].press <= presses
\* An image under way is the only one of its mark, whose ink is not shown; what it saw is of its press, or later.
ImagesInv ==
    /\ \A g, h \in grabs : g.of = h.of => g = h
    /\ \A g \in grabs : (\A l \in lines : l.of = g.of => l.held) /\ g.of \notin pulses /\ g.of \notin g.sees
    /\ \A g \in grabs \cup frames : ~ marks[g.of].pin =>
            \A m \in g.sees : marks[m].pin \/ marks[m].press >= marks[g.of].press
\* The first stroke of the press under way.
FirstInv ==
    /\ first # 0 => /\ ~ marks[first].pin /\ marks[first].press = presses
                    /\ \A k \in 1 .. first - 1 : marks[k].pin \/ marks[k].press # presses
    /\ first = 0 => \A k \in 1 .. Len(marks) : marks[k].pin \/ marks[k].press # presses
    /\ current # 0 => ~ marks[current].pin
    /\ current # 0 => first # 0

\* No more images are kept or under way than there is room for.
RoomInv ==
    /\ IsFiniteSet(grabs) /\ IsFiniteSet(frames) /\ Cardinality(grabs) + Cardinality(frames) <= MaxFrames

InkInv == InkTypes /\ PressInv /\ ImagesInv /\ FirstInv /\ RoomInv /\ Ink!OwnInkHidden /\ Ink!NoStaleInk /\ Ink!LedByItsPress

\* A mark knows its press.
LEMMA PressNumbers ==
    ASSUME InkTypes, MaxPresses \in Nat
    PROVE  \A m \in 1 .. Len(marks) : marks[m] \in Stroke /\ marks[m].press \in Nat
<1>1. \A m \in 1 .. Len(marks) : marks[m] \in Stroke BY DEF InkTypes
<1>2. \A x \in Stroke : x.press \in Nat BY DEF Stroke
<1>3. QED BY <1>1, <1>2

\* Nothing is drawn at first.
LEMMA InkBegins == ASSUME Ink!ConstantsAssumption, Ink!Init PROVE InkInv
<1>a. {MaxPresses, MaxMarks, MaxFrames} \subseteq Nat BY DEF Ink!ConstantsAssumption
<1>b. MaxPresses \in Nat /\ MaxMarks \in Nat /\ 0 \in 0 .. MaxPresses /\ <<>> \in Seq(Stroke) /\ Len(<<>>) = 0 BY <1>a
<1>1. InkTypes /\ PressInv /\ ImagesInv /\ FirstInv
  <2>1. InkTypes
    <3>1. /\ closed = FALSE /\ presses = 0 /\ ink = "none" /\ current = 0 /\ first = 0 /\ origin = "none" /\ marks = <<>>
          /\ lines = {} /\ pulses = {} /\ locating = {} /\ pinning = 0 /\ grabs = {} /\ frames = {}
      BY DEF Ink!Init, Ink!None
    <3>2. (current # 0) = (ink = "drawing") /\ origin \in Screens \cup {"none"} /\ ink \in {"none", "pressed", "drawing"}
      BY <3>1
    <3>3. /\ current \in 0 .. Len(marks) /\ first \in 0 .. Len(marks) /\ presses \in 0 .. MaxPresses
          /\ pinning \in Nat /\ Len(marks) + pinning <= MaxMarks /\ marks \in Seq(Stroke)
      BY <1>b, <3>1
    <3>4. QED BY <3>1, <3>2, <3>3 DEF InkTypes
  <2>2. PressInv /\ ImagesInv /\ FirstInv BY <1>b DEF Ink!Init, PressInv, ImagesInv, FirstInv
  <2>3. QED BY <2>1, <2>2
<1>2. RoomInv
  <2>1. IsFiniteSet({}) /\ Cardinality({}) = 0 BY FS_EmptySet
  <2>2. QED BY <2>1 DEF Ink!Init, Ink!ConstantsAssumption, RoomInv
<1>3. Ink!OwnInkHidden /\ Ink!NoStaleInk /\ Ink!LedByItsPress
  BY DEF Ink!Init, Ink!OwnInkHidden, Ink!NoStaleInk, Ink!LedByItsPress
<1>4. QED BY <1>1, <1>2, <1>3 DEF InkInv

\* The images are counted: one that begins takes a place that was free,
LEMMA AddImage ==
    ASSUME RoomInv, Ink!Room, MaxFrames \in Nat, NEW g, g \notin grabs, grabs' = grabs \cup {g}, frames' = frames
    PROVE  RoomInv'
<1>1. Cardinality(frames) + Cardinality(grabs) < MaxFrames
  BY DEF Ink!Room, Ink!Cardinality, Cardinality
<1>2. IsFiniteSet(grabs \cup {g}) /\ Cardinality(grabs \cup {g}) = Cardinality(grabs) + 1 BY FS_AddElement DEF RoomInv
<1>3. Cardinality(grabs) \in Nat /\ Cardinality(frames) \in Nat BY FS_CardinalityType DEF RoomInv
<1>4. QED BY <1>1, <1>2, <1>3 DEF RoomInv

\* one that was shot keeps it,
LEMMA ReplaceImage ==
    ASSUME RoomInv, MaxFrames \in Nat, NEW g \in grabs, NEW h, grabs' = (grabs \ {g}) \cup {h}, frames' = frames
    PROVE  RoomInv'
<1>1. IsFiniteSet(grabs \ {g}) /\ Cardinality(grabs \ {g}) = Cardinality(grabs) - 1 BY FS_RemoveElement DEF RoomInv
<1>2. IsFiniteSet((grabs \ {g}) \cup {h}) /\ Cardinality((grabs \ {g}) \cup {h}) \in {Cardinality(grabs) - 1, Cardinality(grabs) - 1 + 1}
  BY <1>1, FS_AddElement
<1>3. Cardinality(grabs) \in Nat /\ Cardinality(frames) \in Nat BY FS_CardinalityType DEF RoomInv
<1>4. QED BY <1>2, <1>3 DEF RoomInv

\* and one that ended gives it to the image that is kept.
LEMMA KeepImage ==
    ASSUME RoomInv, MaxFrames \in Nat, NEW g \in grabs, NEW f, grabs' = grabs \ {g}, frames' = frames \/ frames' = frames \cup {f}
    PROVE  RoomInv'
<1>1. IsFiniteSet(grabs \ {g}) /\ Cardinality(grabs \ {g}) = Cardinality(grabs) - 1 BY FS_RemoveElement DEF RoomInv
<1>2. IsFiniteSet(frames \cup {f}) /\ Cardinality(frames \cup {f}) \in {Cardinality(frames), Cardinality(frames) + 1}
  BY FS_AddElement DEF RoomInv
<1>3. Cardinality(grabs) \in Nat /\ Cardinality(frames) \in Nat BY FS_CardinalityType DEF RoomInv
<1>4. CASE frames' = frames BY <1>1, <1>3, <1>4 DEF RoomInv
<1>5. CASE frames' = frames \cup {f} BY <1>1, <1>2, <1>3, <1>5 DEF RoomInv
<1>6. QED BY <1>4, <1>5

\* A press hides what is left of the one before.
LEMMA OverlayInkDownKeeps ==
    ASSUME InkInv, Ink!ConstantsAssumption, Ink!InkDown
    PROVE  InkInv'
<1>0. /\ InkTypes /\ PressInv /\ ImagesInv /\ FirstInv /\ RoomInv
      /\ Ink!OwnInkHidden /\ Ink!NoStaleInk /\ Ink!LedByItsPress
      /\ MaxPresses \in Nat /\ MaxMarks \in Nat /\ MaxFrames \in Nat
  BY DEF InkInv, Ink!ConstantsAssumption
<1> USE DEF Ink!InkDown, Ink!press, Ink!drawing, Ink!images, Ink!None, Ink!HideInk
<1>11. InkTypes' BY <1>0 DEF InkTypes, Overlay, Shots, Kept, Stroke
<1>12. PressInv'
  <2>1. lines' = {} BY <1>0 DEF PressInv, Ink!InkDown, Ink!HideInk, Ink!None
  <2>2. \A m \in 1 .. Len(marks) : marks[m].press \in Nat BY <1>0, PressNumbers
  <2>3. presses \in Nat /\ presses' = presses + 1 /\ marks' = marks /\ pulses' = pulses BY <1>0 DEF InkTypes,
         Ink!InkDown
  <2>4. QED BY <1>0, <2>1, <2>2, <2>3 DEF PressInv
<1>13. ImagesInv' BY <1>0 DEF InkTypes, Overlay, Shots, Kept, Stroke, PressInv, ImagesInv
<1>14. FirstInv' BY <1>0 DEF InkTypes, Overlay, Shots, Kept, Stroke, PressInv, FirstInv
<1>15. RoomInv'
  BY <1>0 DEF RoomInv
<1>16. Ink!OwnInkHidden' BY <1>0 DEF InkTypes, Overlay, Shots, Kept, ImagesInv, Ink!OwnInkHidden
<1>17. Ink!NoStaleInk' BY <1>0 DEF InkTypes, Overlay, Shots, Kept, Stroke, ImagesInv, Ink!NoStaleInk
<1>18. Ink!LedByItsPress' BY <1>0 DEF InkTypes, Overlay, Shots, Kept, Stroke, FirstInv, PressInv,
       Ink!LedByItsPress
<1>19. QED BY <1>11, <1>12, <1>13, <1>14, <1>15, <1>16, <1>17, <1>18 DEF InkInv

\* Letting go leaves ink that fades.
LEMMA OverlayInkUpKeeps ==
    ASSUME InkInv, Ink!ConstantsAssumption, Ink!InkUp
    PROVE  InkInv'
<1>0. /\ InkTypes /\ PressInv /\ ImagesInv /\ FirstInv /\ RoomInv
      /\ Ink!OwnInkHidden /\ Ink!NoStaleInk /\ Ink!LedByItsPress
      /\ MaxPresses \in Nat /\ MaxMarks \in Nat /\ MaxFrames \in Nat
  BY DEF InkInv, Ink!ConstantsAssumption
<1>11. InkTypes'
  <2>1. \A l \in lines : [l EXCEPT !.released = TRUE] \in Overlay(Len(marks)) BY <1>0 DEF InkTypes, Overlay
  <2>2. lines' \subseteq Overlay(Len(marks)) BY <2>1 DEF Ink!InkUp
  <2>3. QED BY <1>0, <2>2 DEF InkTypes, Ink!InkUp, Ink!images, Ink!None
<1> USE DEF Ink!InkUp, Ink!press, Ink!drawing, Ink!images, Ink!None
<1>12. PressInv' BY <1>0, SMTT(30) DEF InkTypes, Overlay, Shots, Kept, Stroke, PressInv, FirstInv
<1>13. ImagesInv' BY <1>0, SMTT(30) DEF InkTypes, Overlay, Shots, Kept, Stroke, PressInv, ImagesInv
<1>14. FirstInv' BY <1>0 DEF InkTypes, Overlay, Shots, Kept, Stroke, PressInv, FirstInv
<1>15. RoomInv'
  BY <1>0 DEF RoomInv
<1>16. Ink!OwnInkHidden' BY <1>0 DEF InkTypes, Overlay, Shots, Kept, ImagesInv, Ink!OwnInkHidden
<1>17. Ink!NoStaleInk' BY <1>0 DEF InkTypes, Overlay, Shots, Kept, Stroke, ImagesInv, Ink!NoStaleInk
<1>18. Ink!LedByItsPress' BY <1>0 DEF InkTypes, Overlay, Shots, Kept, Stroke, FirstInv, PressInv,
       Ink!LedByItsPress
<1>19. QED BY <1>11, <1>12, <1>13, <1>14, <1>15, <1>16, <1>17, <1>18 DEF InkInv

\* A click asks for the pointer.
LEMMA OverlayPinKeeps ==
    ASSUME InkInv, Ink!ConstantsAssumption, Ink!Pin
    PROVE  InkInv'
<1>0. /\ InkTypes /\ PressInv /\ ImagesInv /\ FirstInv /\ RoomInv
      /\ Ink!OwnInkHidden /\ Ink!NoStaleInk /\ Ink!LedByItsPress
      /\ MaxPresses \in Nat /\ MaxMarks \in Nat /\ MaxFrames \in Nat
  BY DEF InkInv, Ink!ConstantsAssumption
<1> USE DEF Ink!Pin, Ink!press, Ink!drawing, Ink!images, Ink!None
<1>11. InkTypes' BY <1>0 DEF InkTypes, Overlay, Shots, Kept, Stroke
<1>12. PressInv' BY <1>0 DEF InkTypes, Overlay, Shots, Kept, Stroke, PressInv, FirstInv
<1>13. ImagesInv' BY <1>0 DEF InkTypes, Overlay, Shots, Kept, Stroke, PressInv, ImagesInv
<1>14. FirstInv' BY <1>0 DEF InkTypes, Overlay, Shots, Kept, Stroke, PressInv, FirstInv
<1>15. RoomInv'
  BY <1>0 DEF RoomInv
<1>16. Ink!OwnInkHidden' BY <1>0 DEF InkTypes, Overlay, Shots, Kept, ImagesInv, Ink!OwnInkHidden
<1>17. Ink!NoStaleInk' BY <1>0 DEF InkTypes, Overlay, Shots, Kept, Stroke, ImagesInv, Ink!NoStaleInk
<1>18. Ink!LedByItsPress' BY <1>0 DEF InkTypes, Overlay, Shots, Kept, Stroke, FirstInv, PressInv,
       Ink!LedByItsPress
<1>19. QED BY <1>11, <1>12, <1>13, <1>14, <1>15, <1>16, <1>17, <1>18 DEF InkInv

\* Ink and rings go.
LEMMA OverlayFadeKeeps ==
    ASSUME InkInv, Ink!ConstantsAssumption, Ink!Fade
    PROVE  InkInv'
<1>0. /\ InkTypes /\ PressInv /\ ImagesInv /\ FirstInv /\ RoomInv
      /\ Ink!OwnInkHidden /\ Ink!NoStaleInk /\ Ink!LedByItsPress
      /\ MaxPresses \in Nat /\ MaxMarks \in Nat /\ MaxFrames \in Nat
  BY DEF InkInv, Ink!ConstantsAssumption
<1> USE DEF Ink!Fade, Ink!press, Ink!drawing, Ink!images, Ink!None
<1>11. InkTypes' BY <1>0 DEF InkTypes, Overlay, Shots, Kept, Stroke
<1>12. PressInv' BY <1>0 DEF InkTypes, Overlay, Shots, Kept, Stroke, PressInv, FirstInv
<1>13. ImagesInv' BY <1>0 DEF InkTypes, Overlay, Shots, Kept, Stroke, PressInv, ImagesInv
<1>14. FirstInv' BY <1>0 DEF InkTypes, Overlay, Shots, Kept, Stroke, PressInv, FirstInv
<1>15. RoomInv'
  BY <1>0 DEF RoomInv
<1>16. Ink!OwnInkHidden' BY <1>0 DEF InkTypes, Overlay, Shots, Kept, ImagesInv, Ink!OwnInkHidden
<1>17. Ink!NoStaleInk' BY <1>0 DEF InkTypes, Overlay, Shots, Kept, Stroke, ImagesInv, Ink!NoStaleInk
<1>18. Ink!LedByItsPress' BY <1>0 DEF InkTypes, Overlay, Shots, Kept, Stroke, FirstInv, PressInv,
       Ink!LedByItsPress
<1>19. QED BY <1>11, <1>12, <1>13, <1>14, <1>15, <1>16, <1>17, <1>18 DEF InkInv

\* The windows close; images under way go on.
LEMMA OverlayStopKeeps ==
    ASSUME InkInv, Ink!ConstantsAssumption, Ink!Stop
    PROVE  InkInv'
<1>0. /\ InkTypes /\ PressInv /\ ImagesInv /\ FirstInv /\ RoomInv
      /\ Ink!OwnInkHidden /\ Ink!NoStaleInk /\ Ink!LedByItsPress
      /\ MaxPresses \in Nat /\ MaxMarks \in Nat /\ MaxFrames \in Nat
  BY DEF InkInv, Ink!ConstantsAssumption
<1> USE DEF Ink!Stop, Ink!press, Ink!drawing, Ink!images, Ink!None
<1>11. InkTypes' BY <1>0 DEF InkTypes, Overlay, Shots, Kept, Stroke
<1>12. PressInv' BY <1>0 DEF InkTypes, Overlay, Shots, Kept, Stroke, PressInv, FirstInv
<1>13. ImagesInv' BY <1>0 DEF InkTypes, Overlay, Shots, Kept, Stroke, PressInv, ImagesInv
<1>14. FirstInv' BY <1>0 DEF InkTypes, Overlay, Shots, Kept, Stroke, PressInv, FirstInv
<1>15. RoomInv'
  BY <1>0 DEF RoomInv
<1>16. Ink!OwnInkHidden' BY <1>0 DEF InkTypes, Overlay, Shots, Kept, ImagesInv, Ink!OwnInkHidden
<1>17. Ink!NoStaleInk' BY <1>0 DEF InkTypes, Overlay, Shots, Kept, Stroke, ImagesInv, Ink!NoStaleInk
<1>18. Ink!LedByItsPress' BY <1>0 DEF InkTypes, Overlay, Shots, Kept, Stroke, FirstInv, PressInv,
       Ink!LedByItsPress
<1>19. QED BY <1>11, <1>12, <1>13, <1>14, <1>15, <1>16, <1>17, <1>18 DEF InkInv

\* A stroke begins hidden if its image is taken.
LEMMA OverlayMotionKeeps ==
    ASSUME InkInv, Ink!ConstantsAssumption, NEW s \in Screens, Ink!Motion(s)
    PROVE  InkInv'
<1>0. /\ InkTypes /\ PressInv /\ ImagesInv /\ FirstInv /\ RoomInv
      /\ Ink!OwnInkHidden /\ Ink!NoStaleInk /\ Ink!LedByItsPress
      /\ MaxPresses \in Nat /\ MaxMarks \in Nat /\ MaxFrames \in Nat
  BY DEF InkInv, Ink!ConstantsAssumption
<1> DEFINE led == IF first = 0 /\ origin = s THEN presses ELSE 0
           new == [screen |-> s, press |-> presses, pin |-> FALSE, led |-> led]
           line == [Ink!Line(Len(marks) + 1) EXCEPT !.held = Ink!Room]
<1>1. /\ ink # "none" /\ Len(marks) + pinning < MaxMarks /\ Len(marks) \in Nat /\ new \in Stroke
      /\ UNCHANGED <<closed, presses, locating, pulses, pinning, frames>>
  BY <1>0 DEF Ink!Motion, Ink!None, InkTypes, Stroke
<1>2. marks' = Append(marks, new) BY DEF Ink!Motion, Ink!Leads
<1> HIDE DEF new, line
<1>3. /\ marks' \in Seq(Stroke) /\ Len(marks') = Len(marks) + 1 /\ marks'[Len(marks) + 1] = new
      /\ \A i \in 1 .. Len(marks) : marks'[i] = marks[i]
  BY <1>0, <1>1, <1>2 DEF InkTypes, Overlay, Shots, Kept
<1>4. /\ ink' = "drawing" /\ current' = Len(marks) + 1 /\ first' = (IF first = 0 THEN Len(marks) + 1 ELSE first)
      /\ origin' = (IF first = 0 THEN "none" ELSE origin)
      /\ grabs' = (IF Ink!Room THEN grabs \cup {Ink!Grab(Len(marks) + 1)} ELSE grabs)
      /\ lines' = lines \cup {line} /\ line \in Overlay(Len(marks) + 1)
      /\ line.of = Len(marks) + 1 /\ line.held = Ink!Room /\ ~ line.released
      /\ frames' = frames
      /\ Ink!Grab(Len(marks) + 1) = [of |-> Len(marks) + 1, shot |-> FALSE, sees |-> {}] /\ Ink!Room \in BOOLEAN
      /\ new.screen = s /\ new.press = presses /\ ~ new.pin /\ new.led \in {0, presses} /\ (new.led # 0 => first = 0)
  <2>1. Ink!Room \in BOOLEAN BY DEF Ink!Room
  <2>2. new.screen = s /\ new.press = presses /\ ~ new.pin /\ new.led \in {0, presses} /\ (new.led # 0 => first = 0)
    BY DEF new
  <2>3. line \in Overlay(Len(marks) + 1) /\ line.of = Len(marks) + 1 /\ line.held = Ink!Room /\ ~ line.released
    <3>1. Len(marks) + 1 \in 1 .. (Len(marks) + 1) BY <1>1
    <3>2. \A l \in Overlay(Len(marks) + 1), b \in BOOLEAN :
             /\ [l EXCEPT !.held = b] \in Overlay(Len(marks) + 1) /\ [l EXCEPT !.held = b].of = l.of
             /\ [l EXCEPT !.held = b].held = b /\ [l EXCEPT !.held = b].released = l.released
      BY DEF Overlay
    <3>3. Ink!Line(Len(marks) + 1) \in Overlay(Len(marks) + 1) /\ Ink!Line(Len(marks) + 1).of = Len(marks) + 1
          /\ ~ Ink!Line(Len(marks) + 1).released
      BY <3>1 DEF Overlay, Ink!Line
    <3>4. QED BY <2>1, <3>2, <3>3 DEF line
  <2>4. Ink!Grab(Len(marks) + 1) = [of |-> Len(marks) + 1, shot |-> FALSE, sees |-> {}] BY DEF Ink!Grab
  <2>5. Ink!Capture(Len(marks) + 1) BY DEF Ink!Motion
  <2>6. QED BY <1>1, <2>1, <2>2, <2>3, <2>4, <2>5 DEF line, Ink!Motion, Ink!Capture, Ink!None
<1>11. InkTypes'
  <2>1. Len(marks') = Len(marks) + 1 /\ Len(marks) + 1 \in 1 .. Len(marks') /\ Len(marks) \in Nat BY <1>1, <1>3
  <2>2. /\ Overlay(Len(marks)) \subseteq Overlay(Len(marks')) /\ Shots(Len(marks)) \subseteq Shots(Len(marks'))
        /\ Kept(Len(marks)) \subseteq Kept(Len(marks'))
    BY <2>1, LaterImages
  <2>3. Ink!Grab(Len(marks) + 1) \in Shots(Len(marks'))
    <3>1. {} \in SUBSET (1 .. Len(marks')) OBVIOUS
    <3>2. [of |-> Len(marks) + 1, shot |-> FALSE, sees |-> {}] \in Shots(Len(marks')) BY <2>1, <3>1 DEF Shots
    <3>3. QED BY <1>4, <3>2
  <2>4. grabs' \subseteq Shots(Len(marks')) /\ frames' \subseteq Kept(Len(marks')) BY <1>0, <1>1, <1>4, <2>2, <2>3
    DEF InkTypes
  <2>5. lines' \subseteq Overlay(Len(marks'))
    BY <1>0, <1>4, <2>1, <2>2 DEF InkTypes
  <2>6. /\ current' \in 0 .. Len(marks') /\ first' \in 0 .. Len(marks') /\ pulses' \subseteq 1 .. Len(marks')
        /\ pinning' \in Nat /\ Len(marks') + pinning' <= MaxMarks /\ origin' \in Screens \cup {"none"}
        /\ (current' # 0) = (ink' = "drawing")
    BY <1>0, <1>1, <1>4, <2>1 DEF InkTypes
  <2>7. QED BY <1>0, <1>1, <1>3, <1>4, <2>4, <2>5, <2>6 DEF InkTypes
<1>12. PressInv' BY <1>0, <1>1, <1>2, <1>3, <1>4, SMTT(30) DEF InkTypes, Overlay, Shots, Kept, Stroke, PressInv, FirstInv
<1>13. ImagesInv' BY <1>0, <1>1, <1>2, <1>3, <1>4 DEF InkTypes, Overlay, Shots, Kept, Stroke, PressInv,
       ImagesInv
<1>14. FirstInv' BY <1>0, <1>1, <1>2, <1>3, <1>4 DEF InkTypes, Overlay, Shots, Kept, Stroke, PressInv, FirstInv
<1>15. RoomInv'
  <2>1. CASE Ink!Room
    <3>1. Ink!Grab(Len(marks) + 1) \notin grabs BY <1>0 DEF InkTypes, Overlay, Shots, Kept, Ink!Grab
    <3>2. QED BY <1>0, <1>4, <2>1, <3>1, AddImage DEF RoomInv
  <2>2. QED BY <1>0, <1>4, <2>1 DEF RoomInv
<1>16. Ink!OwnInkHidden' BY <1>0, <1>1, <1>2, <1>3, <1>4 DEF InkTypes, Overlay, Shots, Kept, ImagesInv,
       Ink!OwnInkHidden, Stroke
<1>17. Ink!NoStaleInk' BY <1>0, <1>1, <1>2, <1>3, <1>4 DEF InkTypes, Overlay, Shots, Kept, Stroke, ImagesInv,
       Ink!NoStaleInk
<1>18. Ink!LedByItsPress' BY <1>0, <1>1, <1>2, <1>3, <1>4 DEF InkTypes, Overlay, Shots, Kept, Stroke, FirstInv,
       PressInv, Ink!LedByItsPress
<1>19. QED BY <1>11, <1>12, <1>13, <1>14, <1>15, <1>16, <1>17, <1>18 DEF InkInv

\* A pin rings when its image is there or none is taken.
LEMMA OverlayPinnedKeeps ==
    ASSUME InkInv, Ink!ConstantsAssumption, NEW s \in Screens \cup {"none"}, Ink!Pinned(s)
    PROVE  InkInv'
<1>0. /\ InkTypes /\ PressInv /\ ImagesInv /\ FirstInv /\ RoomInv
      /\ Ink!OwnInkHidden /\ Ink!NoStaleInk /\ Ink!LedByItsPress
      /\ MaxPresses \in Nat /\ MaxMarks \in Nat /\ MaxFrames \in Nat
  BY DEF InkInv, Ink!ConstantsAssumption
<1> USE DEF Ink!Pinned, Ink!press, Ink!None
<1>a. CASE s = "none"
  <2>1. InkTypes'
    <3>1. pinning' = pinning - 1 /\ pinning > 0 BY DEF Ink!Pinned
    <3>2. UNCHANGED <<closed, presses, ink, current, first, origin, marks, lines, pulses, locating, grabs, frames>>
      BY <1>a
    <3>3. pinning' \in Nat /\ Len(marks') + pinning' <= MaxMarks BY <1>0, <3>1, <3>2 DEF InkTypes
    <3>4. QED BY <1>0, <3>2, <3>3 DEF InkTypes
  <2>2. UNCHANGED <<closed, presses, ink, current, first, origin, marks, lines, pulses, locating, grabs, frames>>
    BY <1>a
  <2>3. QED BY <1>0, <2>1, <2>2 DEF InkInv, PressInv, ImagesInv, FirstInv, RoomInv, Ink!OwnInkHidden,
         Ink!NoStaleInk, Ink!LedByItsPress
<1>b. SUFFICES ASSUME s # "none" PROVE InkInv' BY <1>a
<1> DEFINE new == [screen |-> s, press |-> presses, pin |-> TRUE, led |-> 0]
<1>1. /\ pinning > 0 /\ pinning' = pinning - 1 /\ Len(marks) \in Nat /\ new \in Stroke
      /\ UNCHANGED <<closed, presses, ink, current, first, origin, locating, lines, frames>>
  BY <1>0, <1>b DEF Ink!Pinned, Ink!None, Ink!press, InkTypes, Stroke
<1>2. marks' = Append(marks, new) BY <1>b DEF Ink!Pinned, Ink!None
<1> HIDE DEF new
<1>3. /\ marks' \in Seq(Stroke) /\ Len(marks') = Len(marks) + 1 /\ marks'[Len(marks) + 1] = new
      /\ \A i \in 1 .. Len(marks) : marks'[i] = marks[i]
  BY <1>0, <1>1, <1>2 DEF InkTypes, Overlay, Shots, Kept
<1>4. /\ grabs' = (IF Ink!Room THEN grabs \cup {Ink!Grab(Len(marks) + 1)} ELSE grabs)
      /\ pulses' = (IF Ink!Room \/ closed THEN pulses ELSE pulses \cup {Len(marks) + 1})
      /\ frames' = frames
      /\ Ink!Grab(Len(marks) + 1) = [of |-> Len(marks) + 1, shot |-> FALSE, sees |-> {}] /\ Ink!Room \in BOOLEAN
      /\ new.screen = s /\ new.press = presses /\ new.pin /\ new.led = 0
  BY <1>1, <1>b DEF Ink!Pinned, Ink!Grab, Ink!Room, Ink!None, new
<1>11. InkTypes'
  <2>1. Len(marks') = Len(marks) + 1 /\ Len(marks) + 1 \in 1 .. Len(marks') /\ Len(marks) \in Nat BY <1>1, <1>3
  <2>2. /\ Overlay(Len(marks)) \subseteq Overlay(Len(marks')) /\ Shots(Len(marks)) \subseteq Shots(Len(marks'))
        /\ Kept(Len(marks)) \subseteq Kept(Len(marks'))
    BY <2>1, LaterImages
  <2>3. Ink!Grab(Len(marks) + 1) \in Shots(Len(marks'))
    <3>1. {} \in SUBSET (1 .. Len(marks')) OBVIOUS
    <3>2. [of |-> Len(marks) + 1, shot |-> FALSE, sees |-> {}] \in Shots(Len(marks')) BY <2>1, <3>1 DEF Shots
    <3>3. QED BY <1>4, <3>2
  <2>4. grabs' \subseteq Shots(Len(marks')) /\ frames' \subseteq Kept(Len(marks')) BY <1>0, <1>1, <1>4, <2>2, <2>3
    DEF InkTypes
  <2>5. lines' \subseteq Overlay(Len(marks'))
    BY <1>0, <1>1, <2>2 DEF InkTypes
  <2>6. /\ current' \in 0 .. Len(marks') /\ first' \in 0 .. Len(marks') /\ pulses' \subseteq 1 .. Len(marks')
        /\ pinning' \in Nat /\ Len(marks') + pinning' <= MaxMarks
    <3>1. pulses' \subseteq pulses \cup {Len(marks) + 1} BY <1>4
    <3>2. pinning \in Nat /\ pinning' \in Nat /\ Len(marks') + pinning' <= MaxMarks BY <1>0, <1>1, <2>1
      DEF InkTypes
    <3>3. QED BY <1>0, <1>1, <2>1, <3>1, <3>2 DEF InkTypes
  <2>7. QED BY <1>0, <1>1, <1>3, <2>4, <2>5, <2>6 DEF InkTypes
<1>12. PressInv' BY <1>0, <1>1, <1>2, <1>3, <1>4, SMTT(30) DEF InkTypes, Overlay, Shots, Kept, Stroke, PressInv, FirstInv
<1>13. ImagesInv' BY <1>0, <1>1, <1>2, <1>3, <1>4 DEF InkTypes, Overlay, Shots, Kept, Stroke, PressInv,
       ImagesInv
<1>14. FirstInv' BY <1>0, <1>1, <1>2, <1>3, <1>4 DEF InkTypes, Overlay, Shots, Kept, Stroke, PressInv, FirstInv
<1>15. RoomInv'
  <2>1. CASE Ink!Room
    <3>1. Ink!Grab(Len(marks) + 1) \notin grabs BY <1>0 DEF InkTypes, Overlay, Shots, Kept, Ink!Grab
    <3>2. QED BY <1>0, <1>4, <2>1, <3>1, AddImage DEF RoomInv
  <2>2. QED BY <1>0, <1>4, <2>1 DEF RoomInv
<1>16. Ink!OwnInkHidden' BY <1>0, <1>1, <1>2, <1>3, <1>4 DEF InkTypes, Overlay, Shots, Kept, ImagesInv,
       Ink!OwnInkHidden, Stroke
<1>17. Ink!NoStaleInk' BY <1>0, <1>1, <1>2, <1>3, <1>4 DEF InkTypes, Overlay, Shots, Kept, Stroke, ImagesInv,
       Ink!NoStaleInk
<1>18. Ink!LedByItsPress'
  <2>1. SUFFICES ASSUME NEW m \in 1 .. Len(marks'), marks'[m].led # 0
                 PROVE  /\ marks'[m].led = marks'[m].press
                        /\ \A k \in 1 .. m - 1 : marks'[k].pin \/ marks'[k].press # marks'[m].press
    BY DEF Ink!LedByItsPress
  <2>2. Len(marks) \in Nat /\ m # Len(marks) + 1 BY <1>1, <1>3, <1>4, <2>1
  <2>3. m \in 1 .. Len(marks) /\ \A k \in 1 .. m - 1 : k \in 1 .. Len(marks) BY <1>3, <2>2
  <2>4. marks'[m] = marks[m] /\ \A k \in 1 .. m - 1 : marks'[k] = marks[k] BY <1>3, <2>3
  <2>5. QED BY <1>0, <2>1, <2>3, <2>4 DEF Ink!LedByItsPress
<1>19. QED BY <1>11, <1>12, <1>13, <1>14, <1>15, <1>16, <1>17, <1>18 DEF InkInv

\* A reading leads the first stroke of its own press only.
LEMMA OverlayLocatedKeeps ==
    ASSUME InkInv, Ink!ConstantsAssumption, NEW p \in 1 .. MaxPresses, NEW s \in Screens \cup {"none"}, Ink!Located(p, s)
    PROVE  InkInv'
<1>0. /\ InkTypes /\ PressInv /\ ImagesInv /\ FirstInv /\ RoomInv
      /\ Ink!OwnInkHidden /\ Ink!NoStaleInk /\ Ink!LedByItsPress
      /\ MaxPresses \in Nat /\ MaxMarks \in Nat /\ MaxFrames \in Nat
  BY DEF InkInv, Ink!ConstantsAssumption
<1>1. /\ p \in locating /\ locating' = locating \ {p} /\ UNCHANGED <<closed, presses, ink, current, first, lines, pulses, pinning, grabs, frames>>
  BY DEF Ink!Located, Ink!images
<1>2. origin' \in Screens \cup {"none"}
  BY <1>0 DEF Ink!Located, Ink!None, InkTypes
<1>3. \/ marks' = marks
      \/ first # 0 /\ p = presses /\ marks' = [marks EXCEPT ![first].led = p]
  BY DEF Ink!Located, Ink!Leads, Ink!OwnPress
<1>4. /\ marks' \in Seq(Stroke) /\ Len(marks') = Len(marks)
      /\ \A i \in 1 .. Len(marks) :
            /\ marks'[i].screen = marks[i].screen /\ marks'[i].press = marks[i].press /\ marks'[i].pin = marks[i].pin
            /\ marks'[i].led = marks[i].led \/ (i = first /\ first # 0 /\ p = presses /\ marks'[i].led = p)
  <2>1. CASE marks' = marks BY <1>0, <2>1 DEF InkTypes, Overlay, Shots, Kept
  <2>2. CASE first # 0 /\ p = presses /\ marks' = [marks EXCEPT ![first].led = p]
    <3>1. first \in 1 .. Len(marks) /\ Len(marks) \in Nat /\ \A i \in 1 .. Len(marks) : marks[i] \in Stroke
      BY <1>0, <2>2 DEF InkTypes, Overlay, Shots, Kept
    <3>2. marks' = [marks EXCEPT ![first] = [marks[first] EXCEPT !.led = p]] BY <2>2
    <3>3. [marks[first] EXCEPT !.led = p] \in Stroke BY <3>1 DEF Stroke
    <3>4. marks' \in Seq(Stroke) /\ Len(marks') = Len(marks) BY <1>0, <3>1, <3>2, <3>3 DEF InkTypes, Overlay,
           Shots, Kept
    <3>5. \A i \in 1 .. Len(marks) : marks'[i] = IF i = first THEN [marks[first] EXCEPT !.led = p] ELSE marks[i]
      BY <1>0, <3>1, <3>2 DEF InkTypes, Overlay, Shots, Kept
    <3>6. QED BY <2>2, <3>1, <3>4, <3>5 DEF Stroke
  <2>3. QED BY <1>3, <2>1, <2>2
<1>11. InkTypes' BY <1>0, <1>1, <1>2, <1>3, <1>4 DEF InkTypes, Overlay, Shots, Kept, Stroke
<1>12. PressInv' BY <1>0, <1>1, <1>2, <1>3, <1>4 DEF InkTypes, Overlay, Shots, Kept, Stroke, PressInv, FirstInv
<1>a. /\ lines' = lines /\ grabs' = grabs /\ frames' = frames /\ pulses' = pulses /\ Len(marks') = Len(marks)
      /\ \A i \in 1 .. Len(marks) : marks'[i].press = marks[i].press /\ marks'[i].pin = marks[i].pin
  BY <1>1, <1>4
<1>b. \A g \in grabs \cup frames : g.of \in 1 .. Len(marks) /\ g.sees \subseteq 1 .. Len(marks)
  BY <1>0 DEF InkTypes, Shots, Kept
<1>13. ImagesInv'
  <2>1. \A g \in grabs \cup frames : ~ marks'[g.of].pin =>
            \A m \in g.sees : marks'[m].pin \/ marks'[m].press >= marks'[g.of].press
    BY <1>0, <1>a, <1>b DEF ImagesInv
  <2>2. QED BY <1>0, <1>a, <2>1 DEF ImagesInv
<1>14. FirstInv'
  <2>1. first' = first /\ current' = current /\ presses' = presses BY <1>1
  <2>2. first \in 0 .. Len(marks) /\ current \in 0 .. Len(marks) /\ Len(marks) \in Nat BY <1>0 DEF InkTypes
  <2>3. QED BY <1>0, <1>a, <2>1, <2>2 DEF FirstInv
<1>15. RoomInv'
  BY <1>0, <1>1 DEF RoomInv, Stroke
<1>16. Ink!OwnInkHidden' BY <1>0, <1>1, <1>2, <1>3, <1>4 DEF InkTypes, Overlay, Shots, Kept, ImagesInv,
       Ink!OwnInkHidden, Stroke
<1>17. Ink!NoStaleInk' BY <1>0, <1>1, <1>2, <1>3, <1>4 DEF InkTypes, Overlay, Shots, Kept, Stroke, ImagesInv,
       Ink!NoStaleInk
<1>18. Ink!LedByItsPress'
  <2>1. SUFFICES ASSUME NEW m \in 1 .. Len(marks), marks'[m].led # 0
                 PROVE  /\ marks'[m].led = marks'[m].press
                        /\ \A k \in 1 .. m - 1 : marks'[k].pin \/ marks'[k].press # marks'[m].press
    BY <1>a DEF Ink!LedByItsPress
  <2>2. Len(marks) \in Nat /\ \A k \in 1 .. m - 1 : k \in 1 .. Len(marks) BY <1>0 DEF InkTypes
  <2>3. CASE marks'[m].led = marks[m].led BY <1>0, <1>a, <2>1, <2>2, <2>3 DEF Ink!LedByItsPress
  <2>4. CASE m = first /\ first # 0 /\ p = presses /\ marks'[m].led = p
    BY <1>0, <1>a, <2>1, <2>2, <2>4 DEF FirstInv
  <2>5. QED BY <1>4, <2>1, <2>3, <2>4
<1>19. QED BY <1>11, <1>12, <1>13, <1>14, <1>15, <1>16, <1>17, <1>18 DEF InkInv

\* An image sees what is shown at that moment.
LEMMA OverlayShootKeeps ==
    ASSUME InkInv, Ink!ConstantsAssumption, NEW g \in grabs, Ink!Shoot(g)
    PROVE  InkInv'
<1>0. /\ InkTypes /\ PressInv /\ ImagesInv /\ FirstInv /\ RoomInv
      /\ Ink!OwnInkHidden /\ Ink!NoStaleInk /\ Ink!LedByItsPress
      /\ MaxPresses \in Nat /\ MaxMarks \in Nat /\ MaxFrames \in Nat
  BY DEF InkInv, Ink!ConstantsAssumption
<1> DEFINE seen == Ink!Visible(marks[g.of].screen)
           h == [g EXCEPT !.shot = TRUE, !.sees = seen]
<1>1. /\ grabs' = (grabs \ {g}) \cup {h} /\ ~ g.shot
      /\ UNCHANGED <<closed, presses, ink, current, first, origin, locating, marks, lines, pulses, pinning, frames>>
  BY DEF Ink!Shoot, Ink!press, Ink!drawing
<1>2. /\ g.of \in 1 .. Len(marks) /\ g \in Shots(Len(marks)) BY <1>0 DEF InkTypes, Shots
<1>3. /\ seen \subseteq 1 .. Len(marks) /\ g.of \notin seen
      /\ \A m \in seen : marks[m].pin \/ marks[m].press = presses
  <2>1. \A l \in lines : l.of \in 1 .. Len(marks) BY <1>0 DEF InkTypes, Overlay
  <2>2. \A m \in seen : m \in pulses \/ \E l \in lines : ~ l.held /\ m = l.of BY DEF Ink!Visible
  <2>3. g.of \notin pulses /\ \A l \in lines : l.of = g.of => l.held BY <1>0 DEF ImagesInv
  <2>4. pulses \subseteq 1 .. Len(marks) /\ \A m \in pulses : marks[m].pin BY <1>0 DEF InkTypes, PressInv
  <2>5. \A l \in lines : marks[l.of].press = presses BY <1>0 DEF PressInv
  <2>6. QED BY <2>1, <2>2, <2>3, <2>4, <2>5, ZenonT(30)
<1> HIDE DEF seen
<1>4. h \in Shots(Len(marks)) /\ h.of = g.of /\ h.sees = seen
  <2>1. \A b \in SUBSET (1 .. Len(marks)) :
           /\ [g EXCEPT !.shot = TRUE, !.sees = b] \in Shots(Len(marks))
           /\ [g EXCEPT !.shot = TRUE, !.sees = b].of = g.of /\ [g EXCEPT !.shot = TRUE, !.sees = b].sees = b
    BY <1>2 DEF Shots
  <2>2. QED BY <1>3, <2>1
<1> HIDE DEF h
<1>11. InkTypes' BY <1>0, <1>1, <1>4 DEF InkTypes
<1> USE DEF Ink!Shoot, Ink!press, Ink!drawing, Ink!images, Ink!None, Ink!Visible
<1>12. PressInv' BY <1>0 DEF InkTypes, Overlay, Shots, Kept, Stroke, PressInv, FirstInv
<1>13. ImagesInv'
  <2>1. \A a, b \in grabs' : a.of = b.of => a = b BY <1>0, <1>1, <1>4 DEF ImagesInv
  <2>2. \A a \in grabs' : (\A l \in lines : l.of = a.of => l.held) /\ a.of \notin pulses /\ a.of \notin a.sees
    BY <1>0, <1>1, <1>3, <1>4 DEF ImagesInv
  <2>3. ~ marks[g.of].pin => \A m \in seen : marks[m].pin \/ marks[m].press >= marks[g.of].press
    <3>1. marks[g.of].press \in Nat /\ presses \in Nat /\ marks[g.of].press <= presses
      <4>1. marks[g.of].press \in Nat BY <1>0, <1>2, PressNumbers
      <4>2. presses \in Nat
        <5>1. presses \in 0 .. MaxPresses BY <1>0 DEF InkTypes
        <5>2. MaxPresses \in Nat BY <1>0
        <5>3. QED BY ONLY <5>1, <5>2
      <4>3. marks[g.of].press <= presses BY <1>0, <1>2 DEF PressInv
      <4>4. QED BY <4>1, <4>2, <4>3
    <3>2. QED BY <1>3, <3>1
  <2>4. \A a \in grabs' \cup frames : ~ marks[a.of].pin =>
            \A m \in a.sees : marks[m].pin \/ marks[m].press >= marks[a.of].press
    BY <1>0, <1>1, <1>4, <2>3 DEF ImagesInv
  <2>5. QED BY <1>1, <2>1, <2>2, <2>4 DEF ImagesInv
<1>14. FirstInv' BY <1>0 DEF InkTypes, Overlay, Shots, Kept, Stroke, PressInv, FirstInv
<1>15. RoomInv' BY <1>0, <1>1, ReplaceImage DEF RoomInv
<1>16. Ink!OwnInkHidden' BY <1>0 DEF InkTypes, Overlay, Shots, Kept, ImagesInv, Ink!OwnInkHidden
<1>17. Ink!NoStaleInk' BY <1>0 DEF InkTypes, Overlay, Shots, Kept, Stroke, ImagesInv, Ink!NoStaleInk
<1>18. Ink!LedByItsPress' BY <1>0 DEF InkTypes, Overlay, Shots, Kept, Stroke, FirstInv, PressInv,
       Ink!LedByItsPress
<1>19. QED BY <1>11, <1>12, <1>13, <1>14, <1>15, <1>16, <1>17, <1>18 DEF InkInv

\* An image that ends shows its own stroke.
LEMMA OverlayCapturedKeeps ==
    ASSUME InkInv, Ink!ConstantsAssumption, NEW g \in grabs, Ink!Captured(g)
    PROVE  InkInv'
<1>0. /\ InkTypes /\ PressInv /\ ImagesInv /\ FirstInv /\ RoomInv
      /\ Ink!OwnInkHidden /\ Ink!NoStaleInk /\ Ink!LedByItsPress
      /\ MaxPresses \in Nat /\ MaxMarks \in Nat /\ MaxFrames \in Nat
  BY DEF InkInv, Ink!ConstantsAssumption
<1> DEFINE f == [of |-> g.of, sees |-> g.sees]
<1>1. /\ grabs' = grabs \ {g} /\ (frames' = frames \/ frames' = frames \cup {f})
      /\ UNCHANGED <<closed, presses, ink, current, first, origin, locating, marks, pinning>>
  BY DEF Ink!Captured, Ink!press
<1>2. g \in Shots(Len(marks)) /\ g.of \in 1 .. Len(marks) /\ f \in Kept(Len(marks)) BY <1>0 DEF InkTypes,
       Shots, Kept
<1>3. f.of = g.of /\ f.sees = g.sees OBVIOUS
<1> HIDE DEF f
<1>4. pulses' \subseteq pulses \cup {g.of} /\ (marks[g.of].pin \/ pulses' = pulses) BY DEF Ink!Captured
<1>5. \A l \in lines' : l \in Overlay(Len(marks)) /\ \E k \in lines : l.of = k.of /\ l.released = k.released /\ (l.held = k.held \/ k.of = g.of)
  <2>1. CASE marks[g.of].pin BY <1>0, <2>1 DEF Ink!Captured, InkTypes
  <2>2. CASE ~ marks[g.of].pin
    <3>1. lines' = {IF l.of = g.of THEN [l EXCEPT !.held = FALSE] ELSE l : l \in lines}
      BY <2>2 DEF Ink!Captured, Ink!Reveal
    <3>2. SUFFICES ASSUME NEW k \in lines, NEW l, l = IF k.of = g.of THEN [k EXCEPT !.held = FALSE] ELSE k
                   PROVE  l \in Overlay(Len(marks)) /\ l.of = k.of /\ l.released = k.released /\ (l.held = k.held \/ k.of = g.of)
      BY <3>1
    <3>3. k \in Overlay(Len(marks)) BY <1>0 DEF InkTypes
    <3>4. QED BY <3>2, <3>3 DEF Overlay
  <2>3. QED BY <2>1, <2>2
<1>11. InkTypes' BY <1>0, <1>1, <1>2, <1>4, <1>5 DEF InkTypes
<1>12. PressInv'
  <2>1. \A l \in lines' : ~ marks[l.of].pin /\ marks[l.of].press = presses /\ (ink = "none" => l.released)
    BY <1>0, <1>5 DEF PressInv
  <2>2. QED BY <1>0, <1>1, <1>4, <2>1 DEF PressInv
<1>13. ImagesInv'
  <2>1. \A a \in grabs' : a.of # g.of BY <1>0, <1>1 DEF ImagesInv
  <2>2. \A a \in grabs' : (\A l \in lines' : l.of = a.of => l.held) /\ a.of \notin pulses' /\ a.of \notin a.sees
    <3>1. SUFFICES ASSUME NEW a \in grabs' PROVE (\A l \in lines' : l.of = a.of => l.held) /\ a.of \notin pulses' /\ a.of \notin a.sees
      OBVIOUS
    <3>2. a \in grabs /\ a.of # g.of BY <1>1, <2>1
    <3>3. \A l \in lines' : l.of = a.of => l.held
      <4>1. SUFFICES ASSUME NEW l \in lines', l.of = a.of PROVE l.held OBVIOUS
      <4>2. PICK k \in lines : l.of = k.of /\ (l.held = k.held \/ k.of = g.of) BY <1>5
      <4>3. k.held BY <1>0, <3>2, <4>1, <4>2 DEF ImagesInv
      <4>4. QED BY <3>2, <4>1, <4>2, <4>3
    <3>4. QED BY <1>0, <1>4, <3>2, <3>3 DEF ImagesInv
  <2>3. \A a \in grabs' \cup frames' : ~ marks[a.of].pin =>
            \A m \in a.sees : marks[m].pin \/ marks[m].press >= marks[a.of].press
    BY <1>0, <1>1, <1>3 DEF ImagesInv
  <2>4. QED BY <1>0, <1>1, <2>2, <2>3 DEF ImagesInv
<1> USE DEF Ink!Captured, Ink!press, Ink!drawing, Ink!images, Ink!None, Ink!Reveal
<1>14. FirstInv' BY <1>0 DEF InkTypes, Overlay, Shots, Kept, Stroke, PressInv, FirstInv
<1>15. RoomInv' BY <1>0, <1>1, KeepImage DEF RoomInv
<1>16. Ink!OwnInkHidden' BY <1>0 DEF InkTypes, Overlay, Shots, Kept, ImagesInv, Ink!OwnInkHidden
<1>17. Ink!NoStaleInk' BY <1>13, <1>1 DEF ImagesInv, Ink!NoStaleInk
<1>18. Ink!LedByItsPress' BY <1>0 DEF InkTypes, Overlay, Shots, Kept, Stroke, FirstInv, PressInv,
       Ink!LedByItsPress
<1>19. QED BY <1>11, <1>12, <1>13, <1>14, <1>15, <1>16, <1>17, <1>18 DEF InkInv

\* Every step keeps the invariant.
LEMMA OverlayStep == ASSUME InkInv, Ink!ConstantsAssumption, [Ink!Next]_(Ink!vars) PROVE InkInv'
<1>1. CASE UNCHANGED Ink!vars
  BY <1>1 DEF InkInv, InkTypes, PressInv, ImagesInv, FirstInv, RoomInv, Ink!OwnInkHidden, Ink!NoStaleInk,
         Ink!LedByItsPress,
              Ink!vars, Ink!press, Ink!drawing, Ink!images
<1>2. ASSUME NEW s \in Screens, Ink!Motion(s) PROVE InkInv' BY <1>2, OverlayMotionKeeps
<1>3. ASSUME NEW s \in Screens \cup {Ink!None}, Ink!Pinned(s) PROVE InkInv' BY <1>3, OverlayPinnedKeeps
  DEF Ink!None
<1>4. ASSUME NEW p \in 1 .. MaxPresses, NEW s \in Screens \cup {Ink!None}, Ink!Located(p, s) PROVE InkInv'
  BY <1>4, OverlayLocatedKeeps DEF Ink!None
<1>5. ASSUME NEW g \in grabs, Ink!Shoot(g) \/ Ink!Captured(g) PROVE InkInv' BY <1>5, OverlayShootKeeps, OverlayCapturedKeeps
<1>6. QED
  BY <1>1, <1>2, <1>3, <1>4, <1>5, OverlayInkDownKeeps, OverlayInkUpKeeps, OverlayPinKeeps, OverlayFadeKeeps, OverlayStopKeeps
  DEF Ink!Next

\* The invariant of the overlays and their images holds of every behaviour (screen_annotation/overlay.rs, session.rs).
THEOREM InkInvariant == Ink!ConstantsAssumption /\ Ink!Spec => []InkInv
<1>1. Ink!ConstantsAssumption /\ Ink!Init => InkInv BY InkBegins
<1>2. Ink!ConstantsAssumption /\ InkInv /\ [Ink!Next]_(Ink!vars) => InkInv' BY OverlayStep
<1>3. Ink!ConstantsAssumption => Ink!ConstantsAssumption' BY DEF Ink!ConstantsAssumption
<1>4. QED BY <1>1, <1>2, <1>3, PTL DEF Ink!Spec

\* The state of the overlays is well formed, and no more images are kept or under way than there is room for
\* (InkOverlay's TypeOK).
THEOREM InkTypeCorrect == Ink!ConstantsAssumption /\ Ink!Spec => []Ink!TypeOK
<1>1. ASSUME Ink!ConstantsAssumption, InkInv PROVE Ink!TypeOK
  <2>1. InkTypes /\ RoomInv BY <1>1 DEF InkInv
  <2>2. Ink!Cardinality(grabs) + Ink!Cardinality(frames) <= MaxFrames BY <2>1 DEF RoomInv, Ink!Cardinality,
         Cardinality
  <2>3. /\ \A l \in lines : l.of \in 1 .. Len(marks) /\ {l.held, l.released} \subseteq BOOLEAN
        /\ {current, first} \subseteq 0 .. Len(marks)
    BY <2>1 DEF InkTypes, Overlay
  <2>4. QED BY <1>1, <2>1, <2>2, <2>3 DEF InkTypes, Stroke, Ink!TypeOK, Ink!None
<1>2. Ink!ConstantsAssumption => Ink!ConstantsAssumption' BY DEF Ink!ConstantsAssumption
<1>3. QED BY <1>1, <1>2, InkInvariant, PTL

\* No image shows the ink of its own stroke, none of a stroke shows ink of an earlier press however late that
\* ink's image was finished, and a late pointer reading leads only the first stroke of its own press
\* (screen_annotation/overlay.rs, session.rs).
THEOREM ImagesShowNoStaleInk ==
    Ink!ConstantsAssumption /\ Ink!Spec => [](Ink!OwnInkHidden /\ Ink!NoStaleInk /\ Ink!LedByItsPress)
<1>1. InkInv => Ink!OwnInkHidden /\ Ink!NoStaleInk /\ Ink!LedByItsPress BY DEF InkInv
<1>2. QED BY <1>1, InkInvariant, PTL

-----------------------------------------------------------------------------
(* What Hyprland holds for a recording.                                     *)

\* The bounds are numbers (AnnotationBindings' ConstantsAssumption).
BindingBounds == /\ N \in Nat \ {0} /\ Interrupt \in BOOLEAN
                 /\ MaxToggles \in Nat /\ MaxRestarts \in Nat /\ MaxExits \in Nat /\ MaxFaults \in Nat

\* A session that nobody has let go of since its watchdog reported itself ready.
Watched == {"outputs", "asking", "adding", "checking", "undoing", "ready", "over"}

\* Only recordings that began have sessions; a binding, an addition or a cleanup is of a session that got there,
\* and a session that is being activated and was not stopped is the application's.
BindKnown ==
    /\ \A s \in 1 .. N : stage[s] # "none" => s <= rec
    /\ \A s \in bound : stage[s] \notin {"none", "dog"}
    /\ \A s \in 1 .. N : <<"add", s>> \in cmds => stage[s] \in {"adding", "dead"}
    /\ \A s \in 1 .. N : <<"clean", s>> \in cmds => stage[s] \in {"dropped", "dead"}
    /\ \A s \in 1 .. N : Bindings!Activating(s) /\ s \notin closed => slot = s

\* While nothing failed, a session has its watchdog until that has removed its bindings.
BindWatch ==
    spent.faults = 0 => \A s \in 1 .. N :
        /\ stage[s] \in Watched => dog[s] = "waiting"
        /\ stage[s] = "dropped" => \/ dog[s] = "waiting"
                                   \/ dog[s] = "cleaning" /\ <<"clean", s>> \in cmds
                                   \/ dog[s] = "gone" /\ s \notin bound

BindInv == Bindings!TypeOK /\ BindKnown /\ BindWatch

\* A removal of the bindings of one session is under way only once that was stopped, or as its addition failed.
BindKept == \A s \in 1 .. N : <<"remove", s>> \in cmds => s \in closed \/ stage[s] \in {"undoing", "dead"}

\* Nothing is bound at first.
LEMMA BindBegins == ASSUME BindingBounds, Bindings!Init PROVE BindInv /\ BindKept
<1>1. Bindings!TypeOK
  <2>1. spent \in [toggles : 0 .. MaxToggles, restarts : 0 .. MaxRestarts, exits : 0 .. MaxExits, faults : 0 .. MaxFaults]
    BY DEF Bindings!Init, BindingBounds
  <2>2. /\ up = "up" /\ enabled = TRUE /\ portal = FALSE /\ rec = 0 /\ going = 0 /\ slot = 0 /\ kept = {}
        /\ closed = {} /\ binding = {} /\ bound = {} /\ cmds = {} /\ dirs = {} /\ N \in Nat
        /\ stage = [s \in 1 .. N |-> "none"] /\ dog = [s \in 1 .. N |-> "none"]
    BY DEF Bindings!Init, Bindings!Recordings, BindingBounds
  <2>3. stage \in [1 .. N -> Bindings!Stages] /\ dog \in [1 .. N -> {"none", "waiting", "cleaning", "gone"}]
    BY <2>2 DEF Bindings!Stages
  <2>4. \A s \in 1 .. N : stage[s] # "ready" BY <2>2
  <2>5. rec \in 0 .. N /\ going \in 0 .. rec /\ slot \in 0 .. rec BY <2>2
  <2>6. QED BY <2>1, <2>2, <2>3, <2>4, <2>5 DEF Bindings!TypeOK, Bindings!Recordings
<1>2. BindKnown /\ BindWatch /\ BindKept
  BY DEF Bindings!Init, Bindings!Recordings, Bindings!Activating, BindKnown, BindWatch, BindKept, Watched
<1>3. QED BY <1>1, <1>2 DEF BindInv

\* Once a call has failed, nothing is promised of the watchdogs.
LEMMA FaultsEnd == ASSUME Bindings!TypeOK, MaxFaults \in Nat, Bindings!Fault PROVE spent'.faults # 0
BY DEF Bindings!TypeOK, Bindings!Fault, Bindings!Spend

\* Stopping sessions closes them and sends removals only.
LEMMA StopSends ==
    ASSUME Bindings!TypeOK, NEW S, NEW more, S \subseteq 1 .. rec, Bindings!Stop(S, more)
    PROVE  /\ closed' = closed \cup S /\ binding' \subseteq binding /\ cmds \subseteq cmds'
           /\ cmds' \subseteq cmds \cup ({"remove"} \X S) \cup more /\ more \subseteq cmds'
<1>1. \A t \in S : Bindings!Removal(t) \subseteq {"remove"} \X S BY DEF Bindings!Removal
<1>2. closed' = closed \cup S /\ binding' \subseteq binding /\ cmds \subseteq cmds' /\ more \subseteq cmds'
  BY DEF Bindings!Stop
<1>3. \A c \in cmds' : c \in cmds \/ c \in more \/ \E t \in S : c \in Bindings!Removal(t) BY DEF Bindings!Stop
<1>4. QED BY <1>1, <1>2, <1>3

\* What is left of the sessions when the program is gone.
LEMMA GoneSessions ==
    ASSUME Bindings!TypeOK, Bindings!Gone
    PROVE  /\ stage' \in [Bindings!Recordings -> Bindings!Stages]
           /\ \A s \in Bindings!Recordings : stage'[s] = IF stage[s] = "none" \/ (stage[s] = "dropped" /\ dog[s] = "gone")
                                                         THEN stage[s] ELSE "dead"
BY DEF Bindings!TypeOK, Bindings!Gone, Bindings!Stages

\* The processes that are started are hyprctl's.
LEMMA HyprctlOnly ==
    ASSUME N \in Nat \ {0}
    PROVE  /\ <<"all", 0>> \in Bindings!Commands
           /\ \A s \in 1 .. N : <<"add", s>> \in Bindings!Commands /\ <<"remove", s>> \in Bindings!Commands /\ <<"clean", s>> \in Bindings!Commands
           /\ \A S \in SUBSET (1 .. N) : {"remove"} \X S \subseteq Bindings!Commands
BY DEF Bindings!Commands, Bindings!Recordings

\* Nothing was sent before the watchdog is ready.
LEMMA BindingsWatchdogReadyKeeps ==
    ASSUME BindingBounds, BindInv, NEW s \in 1 .. N, Bindings!WatchdogReady(s)
    PROVE  BindInv'
<1>0. /\ Bindings!TypeOK /\ BindKnown /\ BindWatch
      /\ N \in Nat \ {0} /\ MaxToggles \in Nat /\ MaxRestarts \in Nat /\ MaxExits \in Nat /\ MaxFaults \in Nat
      /\ Bindings!Recordings = 1 .. N
  BY DEF BindInv, BindingBounds, Bindings!Recordings
<1> USE DEF Bindings!WatchdogReady, Bindings!process, Bindings!recording, Bindings!session, Bindings!desktop
<1>1. spent' \in [toggles : 0 .. MaxToggles, restarts : 0 .. MaxRestarts, exits : 0 .. MaxExits, faults : 0 .. MaxFaults]
  BY <1>0, SMTT(30) DEF Bindings!TypeOK
<1>2. Bindings!TypeOK'
  BY <1>0, <1>1 DEF Bindings!TypeOK, BindKnown, Bindings!Stages, Bindings!Commands, Bindings!Activating
<1>3. BindKnown'
  BY <1>0 DEF Bindings!TypeOK, BindKnown, Bindings!Stages, Bindings!Commands, Bindings!Activating
<1>4. BindWatch'
  BY <1>0 DEF Bindings!TypeOK, BindKnown, BindWatch, Watched, Bindings!Commands
<1>5. QED BY <1>2, <1>3, <1>4 DEF BindInv

\* Without a watchdog nothing is sent.
LEMMA BindingsWatchdogFailsKeeps ==
    ASSUME BindingBounds, BindInv, NEW s \in 1 .. N, Bindings!WatchdogFails(s)
    PROVE  BindInv'
<1>0. /\ Bindings!TypeOK /\ BindKnown /\ BindWatch
      /\ N \in Nat \ {0} /\ MaxToggles \in Nat /\ MaxRestarts \in Nat /\ MaxExits \in Nat /\ MaxFaults \in Nat
      /\ Bindings!Recordings = 1 .. N
  BY DEF BindInv, BindingBounds, Bindings!Recordings
<1>s. s \in 1 .. rec /\ {s} \subseteq 1 .. rec BY <1>0 DEF Bindings!TypeOK, BindKnown, Bindings!WatchdogFails
<1>t. Bindings!Stop({s}, {}) => /\ closed' = closed \cup {s} /\ binding' \subseteq binding /\ cmds \subseteq cmds'
                               /\ cmds' \subseteq cmds \cup ({"remove"} \X {s})
  BY <1>0, <1>s, StopSends
<1>f. Bindings!Fault => spent'.faults # 0 BY <1>0, FaultsEnd
<1> USE DEF Bindings!WatchdogFails, Bindings!Fault, Bindings!Spend, Bindings!Fail, Bindings!process,
       Bindings!recording, Bindings!session, Bindings!desktop
<1>1. spent' \in [toggles : 0 .. MaxToggles, restarts : 0 .. MaxRestarts, exits : 0 .. MaxExits, faults : 0 .. MaxFaults]
  BY <1>0, SMTT(30) DEF Bindings!TypeOK
<1>2. Bindings!TypeOK'
  BY <1>0, <1>s, <1>t, <1>f, <1>1 DEF Bindings!TypeOK, BindKnown, Bindings!Stages, Bindings!Commands,
         Bindings!Activating
<1>3. BindKnown'
  BY <1>0, <1>s, <1>t, <1>f, SMTT(30) DEF Bindings!TypeOK, BindKnown, Bindings!Stages, Bindings!Commands,
         Bindings!Activating
<1>4. BindWatch'
  BY <1>f DEF BindWatch, Bindings!WatchdogFails
<1>5. QED BY <1>2, <1>3, <1>4 DEF BindInv

\* From here on Stop removes the bindings.
LEMMA BindingsInstallKeeps ==
    ASSUME BindingBounds, BindInv, NEW s \in 1 .. N, Bindings!Install(s)
    PROVE  BindInv'
<1>0. /\ Bindings!TypeOK /\ BindKnown /\ BindWatch
      /\ N \in Nat \ {0} /\ MaxToggles \in Nat /\ MaxRestarts \in Nat /\ MaxExits \in Nat /\ MaxFaults \in Nat
      /\ Bindings!Recordings = 1 .. N
  BY DEF BindInv, BindingBounds, Bindings!Recordings
<1>s. s \in 1 .. rec /\ {s} \subseteq 1 .. rec BY <1>0 DEF Bindings!TypeOK, BindKnown, Bindings!Install
<1>t. Bindings!Stop({s}, {}) => /\ closed' = closed \cup {s} /\ binding' \subseteq binding /\ cmds \subseteq cmds'
                               /\ cmds' \subseteq cmds \cup ({"remove"} \X {s})
  BY <1>0, <1>s, StopSends
<1> USE DEF Bindings!Install, Bindings!Fail, Bindings!process, Bindings!recording, Bindings!session,
       Bindings!desktop
<1>1. spent' \in [toggles : 0 .. MaxToggles, restarts : 0 .. MaxRestarts, exits : 0 .. MaxExits, faults : 0 .. MaxFaults]
  BY <1>0, SMTT(30) DEF Bindings!TypeOK
<1>2. Bindings!TypeOK'
  <2>0. {s} \in SUBSET (1 .. N) OBVIOUS
  <2>1. cmds' \subseteq Bindings!Commands
    BY <1>0, <1>s, <1>t, <2>0, HyprctlOnly DEF Bindings!TypeOK, Bindings!Install, Bindings!Fail
  <2>2. stage' \in [1 .. N -> Bindings!Stages] /\ dog' \in [1 .. N -> {"none", "waiting", "cleaning", "gone"}]
    BY <1>0, <1>s, <1>t DEF Bindings!TypeOK, Bindings!Stages
  <2>3. /\ up' \in {"up", "closing", "down"} /\ enabled' \in BOOLEAN /\ portal' \in BOOLEAN
        /\ rec' \in 0 .. N /\ rec <= rec' /\ going' \in 0 .. rec' /\ slot' \in 0 .. rec'
    <3>1. rec \in Nat /\ rec \in 0 .. N /\ 0 \in 0 .. rec BY <1>0 DEF Bindings!TypeOK
    <3>2. up' \in {"up", "closing", "down"} /\ enabled' \in BOOLEAN /\ portal' \in BOOLEAN
      BY <1>0, <1>s, <1>t DEF Bindings!TypeOK
    <3>3. rec' \in 0 .. N /\ rec <= rec' BY <3>1, <1>0, <1>s, <1>t DEF Bindings!TypeOK
    <3>4. going' \in 0 .. rec' /\ slot' \in 0 .. rec' BY <3>1, <1>0, <1>s, <1>t DEF Bindings!TypeOK
    <3>5. QED BY <3>2, <3>3, <3>4
  <2>a. 1 .. rec \subseteq 1 .. rec' /\ rec \in Nat BY <1>0, <2>3 DEF Bindings!TypeOK
  <2>b. closed' \subseteq 1 .. rec' /\ binding' \subseteq 1 .. rec'
    BY <2>a, <1>0, <1>s, <1>t DEF Bindings!TypeOK
  <2>c. bound' \subseteq 1 .. rec' /\ dirs' \subseteq 1 .. rec' /\ kept' \subseteq 1 .. rec'
    BY <2>a, <1>0, <1>s, <1>t DEF Bindings!TypeOK, BindKnown, Bindings!Commands
  <2>4. /\ slot' # 0 => slot' = going'
        /\ \A t \in 1 .. N : stage'[t] = "ready" /\ t \notin closed' => slot' = t
    BY <1>0, <1>s, <1>t DEF Bindings!TypeOK, BindKnown, Bindings!Activating
  <2>5. QED BY <1>0, <1>1, <2>1, <2>2, <2>3, <2>4, <2>b, <2>c DEF Bindings!TypeOK, Bindings!Recordings
<1>3. BindKnown'
  BY <1>0, <1>s, <1>t, SMTT(30) DEF Bindings!TypeOK, BindKnown, Bindings!Stages, Bindings!Commands, Bindings!Activating
<1>4. BindWatch'
  BY <1>0, <1>s, <1>t DEF Bindings!TypeOK, BindKnown, BindWatch, Watched, Bindings!Commands
<1>5. QED BY <1>2, <1>3, <1>4 DEF BindInv

\* Only one addition of a session is ever sent.
LEMMA BindingsAskedKeeps ==
    ASSUME BindingBounds, BindInv, NEW s \in 1 .. N, Bindings!Asked(s)
    PROVE  BindInv'
<1>0. /\ Bindings!TypeOK /\ BindKnown /\ BindWatch
      /\ N \in Nat \ {0} /\ MaxToggles \in Nat /\ MaxRestarts \in Nat /\ MaxExits \in Nat /\ MaxFaults \in Nat
      /\ Bindings!Recordings = 1 .. N
  BY DEF BindInv, BindingBounds, Bindings!Recordings
<1>s. s \in 1 .. rec /\ {s} \subseteq 1 .. rec BY <1>0 DEF Bindings!TypeOK, BindKnown, Bindings!Asked
<1>t. Bindings!Stop({s}, {}) => /\ closed' = closed \cup {s} /\ binding' \subseteq binding /\ cmds \subseteq cmds'
                               /\ cmds' \subseteq cmds \cup ({"remove"} \X {s})
  BY <1>0, <1>s, StopSends
<1> USE DEF Bindings!Asked, Bindings!Fail, Bindings!process, Bindings!recording, Bindings!session,
       Bindings!desktop
<1>1. spent' \in [toggles : 0 .. MaxToggles, restarts : 0 .. MaxRestarts, exits : 0 .. MaxExits, faults : 0 .. MaxFaults]
  BY <1>0, SMTT(30) DEF Bindings!TypeOK
<1>2. Bindings!TypeOK'
  <2>1. cmds' \subseteq Bindings!Commands
    <3>1. {s} \in SUBSET (1 .. N) OBVIOUS
    <3>2. {<<"add", s>>} \cup ({"remove"} \X {s}) \subseteq Bindings!Commands BY <1>0, <3>1, HyprctlOnly, ZenonT(30)
    <3>3. cmds' \subseteq cmds \cup {<<"add", s>>} \cup ({"remove"} \X {s}) BY <1>t DEF Bindings!Asked,
           Bindings!Fail
    <3>4. QED BY <1>0, <3>2, <3>3 DEF Bindings!TypeOK
  <2>2. stage' \in [1 .. N -> Bindings!Stages] /\ dog' \in [1 .. N -> {"none", "waiting", "cleaning", "gone"}]
    BY <1>0, <1>s, <1>t DEF Bindings!TypeOK, Bindings!Stages
  <2>3. /\ up' \in {"up", "closing", "down"} /\ enabled' \in BOOLEAN /\ portal' \in BOOLEAN
        /\ rec' \in 0 .. N /\ rec <= rec' /\ going' \in 0 .. rec' /\ slot' \in 0 .. rec'
    <3>1. rec \in Nat /\ rec \in 0 .. N /\ 0 \in 0 .. rec BY <1>0 DEF Bindings!TypeOK
    <3>2. up' \in {"up", "closing", "down"} /\ enabled' \in BOOLEAN /\ portal' \in BOOLEAN
      BY <1>0, <1>s, <1>t DEF Bindings!TypeOK
    <3>3. rec' \in 0 .. N /\ rec <= rec' BY <3>1, <1>0, <1>s, <1>t DEF Bindings!TypeOK
    <3>4. going' \in 0 .. rec' /\ slot' \in 0 .. rec' BY <3>1, <1>0, <1>s, <1>t DEF Bindings!TypeOK
    <3>5. QED BY <3>2, <3>3, <3>4
  <2>a. 1 .. rec \subseteq 1 .. rec' /\ rec \in Nat BY <1>0, <2>3 DEF Bindings!TypeOK
  <2>b. closed' \subseteq 1 .. rec' /\ binding' \subseteq 1 .. rec'
    BY <2>a, <1>0, <1>s, <1>t DEF Bindings!TypeOK
  <2>c. bound' \subseteq 1 .. rec' /\ dirs' \subseteq 1 .. rec' /\ kept' \subseteq 1 .. rec'
    BY <2>a, <1>0, <1>s, <1>t DEF Bindings!TypeOK, BindKnown, Bindings!Commands
  <2>4. /\ slot' # 0 => slot' = going'
        /\ \A t \in 1 .. N : stage'[t] = "ready" /\ t \notin closed' => slot' = t
    BY <1>0, <1>s, <1>t DEF Bindings!TypeOK, BindKnown, Bindings!Activating
  <2>5. QED BY <1>0, <1>1, <2>1, <2>2, <2>3, <2>4, <2>b, <2>c DEF Bindings!TypeOK, Bindings!Recordings
<1>3. BindKnown'
  <2>1. \A t \in 1 .. N : stage'[t] # "none" => t <= rec'
    BY <1>0, <1>s, <1>t DEF Bindings!TypeOK, BindKnown, Bindings!Stages
  <2>2. \A t \in bound' : stage'[t] \notin {"none", "dog"}
    BY <1>0, <1>s, <1>t DEF Bindings!TypeOK, BindKnown, Bindings!Stages
  <2>3. \A t \in 1 .. N : <<"add", t>> \in cmds' => stage'[t] \in {"adding", "dead"}
    BY <1>0, <1>s, <1>t DEF Bindings!TypeOK, BindKnown, Bindings!Stages
  <2>4. \A t \in 1 .. N : <<"clean", t>> \in cmds' => stage'[t] \in {"dropped", "dead"}
    BY <1>0, <1>s, <1>t DEF Bindings!TypeOK, BindKnown, Bindings!Stages
  <2>5. \A t \in 1 .. N : Bindings!Activating(t)' /\ t \notin closed' => slot' = t
    BY <1>0, <1>s, <1>t DEF Bindings!TypeOK, BindKnown, Bindings!Stages, Bindings!Activating
  <2>6. QED BY <2>1, <2>2, <2>3, <2>4, <2>5 DEF BindKnown, Bindings!Activating
<1>4. BindWatch'
  BY <1>0, <1>s, <1>t DEF Bindings!TypeOK, BindKnown, BindWatch, Watched, Bindings!Commands
<1>5. QED BY <1>2, <1>3, <1>4 DEF BindInv

\* A session that is ready has been found bound.
LEMMA BindingsCheckedKeeps ==
    ASSUME BindingBounds, BindInv, NEW s \in 1 .. N, Bindings!Checked(s)
    PROVE  BindInv'
<1>0. /\ Bindings!TypeOK /\ BindKnown /\ BindWatch
      /\ N \in Nat \ {0} /\ MaxToggles \in Nat /\ MaxRestarts \in Nat /\ MaxExits \in Nat /\ MaxFaults \in Nat
      /\ Bindings!Recordings = 1 .. N
  BY DEF BindInv, BindingBounds, Bindings!Recordings
<1>f. Bindings!Fault => spent'.faults # 0 BY <1>0, FaultsEnd
<1> USE DEF Bindings!Checked, Bindings!Fault, Bindings!Spend, Bindings!Undo, Bindings!process,
       Bindings!recording, Bindings!session, Bindings!desktop
<1>1. spent' \in [toggles : 0 .. MaxToggles, restarts : 0 .. MaxRestarts, exits : 0 .. MaxExits, faults : 0 .. MaxFaults]
  BY <1>0, SMTT(30) DEF Bindings!TypeOK
<1>2. Bindings!TypeOK'
  <2>1. cmds' \subseteq Bindings!Commands
    <3>1. cmds \subseteq Bindings!Commands /\ <<"remove", s>> \in Bindings!Commands BY <1>0, HyprctlOnly
      DEF Bindings!TypeOK
    <3>2. cmds' = cmds \/ cmds' = cmds \cup {<<"remove", s>>} BY DEF Bindings!Checked, Bindings!Undo
    <3>3. QED BY <3>1, <3>2
  <2>2. stage' \in [1 .. N -> Bindings!Stages] /\ dog' \in [1 .. N -> {"none", "waiting", "cleaning", "gone"}]
    BY <1>0, <1>f DEF Bindings!TypeOK, Bindings!Stages
  <2>3. /\ up' \in {"up", "closing", "down"} /\ enabled' \in BOOLEAN /\ portal' \in BOOLEAN
        /\ rec' \in 0 .. N /\ rec <= rec' /\ going' \in 0 .. rec' /\ slot' \in 0 .. rec'
    <3>1. rec \in Nat /\ rec \in 0 .. N /\ 0 \in 0 .. rec BY <1>0 DEF Bindings!TypeOK
    <3>2. up' \in {"up", "closing", "down"} /\ enabled' \in BOOLEAN /\ portal' \in BOOLEAN
      BY <1>0, <1>f DEF Bindings!TypeOK
    <3>3. rec' \in 0 .. N /\ rec <= rec' BY <3>1, <1>0, <1>f DEF Bindings!TypeOK
    <3>4. going' \in 0 .. rec' /\ slot' \in 0 .. rec' BY <3>1, <1>0, <1>f DEF Bindings!TypeOK
    <3>5. QED BY <3>2, <3>3, <3>4
  <2>a. 1 .. rec \subseteq 1 .. rec' /\ rec \in Nat BY <1>0, <2>3 DEF Bindings!TypeOK
  <2>b. closed' \subseteq 1 .. rec' /\ binding' \subseteq 1 .. rec'
    BY <2>a, <1>0, <1>f DEF Bindings!TypeOK
  <2>c. bound' \subseteq 1 .. rec' /\ dirs' \subseteq 1 .. rec' /\ kept' \subseteq 1 .. rec'
    BY <2>a, <1>0, <1>f DEF Bindings!TypeOK, BindKnown, Bindings!Commands
  <2>4. /\ slot' # 0 => slot' = going'
        /\ \A t \in 1 .. N : stage'[t] = "ready" /\ t \notin closed' => slot' = t
    BY <1>0, <1>f DEF Bindings!TypeOK, BindKnown, Bindings!Activating
  <2>5. QED BY <1>0, <1>1, <2>1, <2>2, <2>3, <2>4, <2>b, <2>c DEF Bindings!TypeOK, Bindings!Recordings
<1>3. BindKnown'
  <2>1. \A t \in 1 .. N : stage'[t] # "none" => t <= rec'
    BY <1>0, <1>f DEF Bindings!TypeOK, BindKnown, Bindings!Stages
  <2>2. \A t \in bound' : stage'[t] \notin {"none", "dog"}
    BY <1>0, <1>f DEF Bindings!TypeOK, BindKnown, Bindings!Stages
  <2>3. \A t \in 1 .. N : <<"add", t>> \in cmds' => stage'[t] \in {"adding", "dead"}
    BY <1>0, <1>f DEF Bindings!TypeOK, BindKnown, Bindings!Stages
  <2>4. \A t \in 1 .. N : <<"clean", t>> \in cmds' => stage'[t] \in {"dropped", "dead"}
    BY <1>0, <1>f DEF Bindings!TypeOK, BindKnown, Bindings!Stages
  <2>5. \A t \in 1 .. N : Bindings!Activating(t)' /\ t \notin closed' => slot' = t
    BY <1>0, <1>f DEF Bindings!TypeOK, BindKnown, Bindings!Stages, Bindings!Activating
  <2>6. QED BY <2>1, <2>2, <2>3, <2>4, <2>5 DEF BindKnown, Bindings!Activating
<1>4. BindWatch'
  BY <1>0, <1>f DEF Bindings!TypeOK, BindKnown, BindWatch, Watched, Bindings!Commands
<1>5. QED BY <1>2, <1>3, <1>4 DEF BindInv

\* An activation that failed ends its session.
LEMMA BindingsUndoneKeeps ==
    ASSUME BindingBounds, BindInv, NEW s \in 1 .. N, Bindings!Undone(s)
    PROVE  BindInv'
<1>0. /\ Bindings!TypeOK /\ BindKnown /\ BindWatch
      /\ N \in Nat \ {0} /\ MaxToggles \in Nat /\ MaxRestarts \in Nat /\ MaxExits \in Nat /\ MaxFaults \in Nat
      /\ Bindings!Recordings = 1 .. N
  BY DEF BindInv, BindingBounds, Bindings!Recordings
<1>s. s \in 1 .. rec /\ {s} \subseteq 1 .. rec BY <1>0 DEF Bindings!TypeOK, BindKnown, Bindings!Undone
<1>t. Bindings!Stop({s}, {}) => /\ closed' = closed \cup {s} /\ binding' \subseteq binding /\ cmds \subseteq cmds'
                               /\ cmds' \subseteq cmds \cup ({"remove"} \X {s})
  BY <1>0, <1>s, StopSends
<1> USE DEF Bindings!Undone, Bindings!Fail, Bindings!process, Bindings!recording, Bindings!session,
       Bindings!desktop
<1>1. spent' \in [toggles : 0 .. MaxToggles, restarts : 0 .. MaxRestarts, exits : 0 .. MaxExits, faults : 0 .. MaxFaults]
  BY <1>0, SMTT(30) DEF Bindings!TypeOK
<1>2. Bindings!TypeOK'
  BY <1>0, <1>s, <1>t, <1>1 DEF Bindings!TypeOK, BindKnown, Bindings!Stages, Bindings!Commands,
         Bindings!Activating
<1>3. BindKnown'
  BY <1>0, <1>s, <1>t DEF Bindings!TypeOK, BindKnown, Bindings!Stages, Bindings!Commands, Bindings!Activating
<1>4. BindWatch'
  BY <1>0, <1>s, <1>t DEF Bindings!TypeOK, BindKnown, BindWatch, Watched, Bindings!Commands
<1>5. QED BY <1>2, <1>3, <1>4 DEF BindInv

\* The watchdog outlives the session.
LEMMA BindingsDropKeeps ==
    ASSUME BindingBounds, BindInv, NEW s \in 1 .. N, Bindings!Drop(s)
    PROVE  BindInv'
<1>0. /\ Bindings!TypeOK /\ BindKnown /\ BindWatch
      /\ N \in Nat \ {0} /\ MaxToggles \in Nat /\ MaxRestarts \in Nat /\ MaxExits \in Nat /\ MaxFaults \in Nat
      /\ Bindings!Recordings = 1 .. N
  BY DEF BindInv, BindingBounds, Bindings!Recordings
<1>s. s \in 1 .. rec /\ {s} \subseteq 1 .. rec BY <1>0 DEF Bindings!TypeOK, BindKnown, Bindings!Drop
<1>t. Bindings!Stop({s}, {}) => /\ closed' = closed \cup {s} /\ binding' \subseteq binding /\ cmds \subseteq cmds'
                               /\ cmds' \subseteq cmds \cup ({"remove"} \X {s})
  BY <1>0, <1>s, StopSends
<1> USE DEF Bindings!Drop, Bindings!process, Bindings!recording, Bindings!session, Bindings!desktop
<1>1. spent' \in [toggles : 0 .. MaxToggles, restarts : 0 .. MaxRestarts, exits : 0 .. MaxExits, faults : 0 .. MaxFaults]
  BY <1>0, SMTT(30) DEF Bindings!TypeOK
<1>2. Bindings!TypeOK'
  BY <1>0, <1>s, <1>t, <1>1 DEF Bindings!TypeOK, BindKnown, Bindings!Stages, Bindings!Commands,
         Bindings!Activating
<1>3. BindKnown'
  BY <1>0, <1>s, <1>t DEF Bindings!TypeOK, BindKnown, Bindings!Stages, Bindings!Commands, Bindings!Activating
<1>4. BindWatch'
  BY <1>0, <1>s, <1>t DEF Bindings!TypeOK, BindKnown, BindWatch, Watched, Bindings!Commands
<1>5. QED BY <1>2, <1>3, <1>4 DEF BindInv

\* The summary lets go of the session.
LEMMA BindingsSummarisedKeeps ==
    ASSUME BindingBounds, BindInv, NEW s \in 1 .. N, Bindings!Summarised(s)
    PROVE  BindInv'
<1>0. /\ Bindings!TypeOK /\ BindKnown /\ BindWatch
      /\ N \in Nat \ {0} /\ MaxToggles \in Nat /\ MaxRestarts \in Nat /\ MaxExits \in Nat /\ MaxFaults \in Nat
      /\ Bindings!Recordings = 1 .. N
  BY DEF BindInv, BindingBounds, Bindings!Recordings
<1> USE DEF Bindings!Summarised, Bindings!process, Bindings!recording, Bindings!session, Bindings!desktop
<1>1. spent' \in [toggles : 0 .. MaxToggles, restarts : 0 .. MaxRestarts, exits : 0 .. MaxExits, faults : 0 .. MaxFaults]
  BY <1>0, SMTT(30) DEF Bindings!TypeOK
<1>2. Bindings!TypeOK'
  BY <1>0, <1>1 DEF Bindings!TypeOK, BindKnown, Bindings!Stages, Bindings!Commands, Bindings!Activating
<1>3. BindKnown'
  BY <1>0 DEF Bindings!TypeOK, BindKnown, Bindings!Stages, Bindings!Commands, Bindings!Activating
<1>4. BindWatch'
  BY <1>0 DEF Bindings!TypeOK, BindKnown, BindWatch, Watched, Bindings!Commands
<1>5. QED BY <1>2, <1>3, <1>4 DEF BindInv

\* The watchdog cleans up after its session only.
LEMMA BindingsDogHearsKeeps ==
    ASSUME BindingBounds, BindInv, NEW s \in 1 .. N, Bindings!DogHears(s)
    PROVE  BindInv'
<1>0. /\ Bindings!TypeOK /\ BindKnown /\ BindWatch
      /\ N \in Nat \ {0} /\ MaxToggles \in Nat /\ MaxRestarts \in Nat /\ MaxExits \in Nat /\ MaxFaults \in Nat
      /\ Bindings!Recordings = 1 .. N
  BY DEF BindInv, BindingBounds, Bindings!Recordings
<1> USE DEF Bindings!DogHears, Bindings!process, Bindings!recording, Bindings!session, Bindings!desktop
<1>1. spent' \in [toggles : 0 .. MaxToggles, restarts : 0 .. MaxRestarts, exits : 0 .. MaxExits, faults : 0 .. MaxFaults]
  BY <1>0, SMTT(30) DEF Bindings!TypeOK
<1>2. Bindings!TypeOK'
  BY <1>0, <1>1 DEF Bindings!TypeOK, BindKnown, Bindings!Stages, Bindings!Commands, Bindings!Activating
<1>3. BindKnown'
  BY <1>0 DEF Bindings!TypeOK, BindKnown, Bindings!Stages, Bindings!Commands, Bindings!Activating
<1>4. BindWatch'
  BY <1>0 DEF Bindings!TypeOK, BindKnown, BindWatch, Watched, Bindings!Commands
<1>5. QED BY <1>2, <1>3, <1>4 DEF BindInv

\* Hyprland applies a script and the one who waits for it goes on.
LEMMA BindingsLandsKeeps ==
    ASSUME BindingBounds, BindInv, NEW c \in Bindings!Commands, Bindings!Lands(c)
    PROVE  BindInv'
<1>0. /\ Bindings!TypeOK /\ BindKnown /\ BindWatch
      /\ N \in Nat \ {0} /\ MaxToggles \in Nat /\ MaxRestarts \in Nat /\ MaxExits \in Nat /\ MaxFaults \in Nat
      /\ Bindings!Recordings = 1 .. N
  BY DEF BindInv, BindingBounds, Bindings!Recordings
<1> USE DEF Bindings!Lands, Bindings!Answer, Bindings!Effect, Bindings!AddScript, Bindings!RemoveScript,
       Bindings!process, Bindings!recording, Bindings!session, Bindings!desktop
<1>1. spent' \in [toggles : 0 .. MaxToggles, restarts : 0 .. MaxRestarts, exits : 0 .. MaxExits, faults : 0 .. MaxFaults]
  BY <1>0, SMTT(30) DEF Bindings!TypeOK
<1>2. Bindings!TypeOK'
  BY <1>0, <1>1, SMTT(30) DEF Bindings!TypeOK, BindKnown, Bindings!Stages, Bindings!Commands, Bindings!Activating
<1>3. BindKnown'
  BY <1>0 DEF Bindings!TypeOK, BindKnown, Bindings!Stages, Bindings!Commands, Bindings!Activating
<1>4. BindWatch'
  <2>1. SUFFICES ASSUME spent.faults = 0, NEW s \in 1 .. N
                 PROVE  /\ stage'[s] \in Watched => dog'[s] = "waiting"
                        /\ stage'[s] = "dropped" => \/ dog'[s] = "waiting"
                                                    \/ dog'[s] = "cleaning" /\ <<"clean", s>> \in cmds'
                                                    \/ dog'[s] = "gone" /\ s \notin bound'
    BY DEF BindWatch, Bindings!Lands
  <2>2. c \in cmds /\ bound' = Bindings!Effect(c) /\ Bindings!Answer(c, TRUE) BY DEF Bindings!Lands
  <2>3. /\ stage'[s] = stage[s] \/ (stage[s] = "adding" /\ stage'[s] = "checking")
        /\ c # <<"clean", s>> => dog'[s] = dog[s]
        /\ c = <<"clean", s>> => dog'[s] = "gone"
        /\ cmds' = cmds \ {c}
    BY <1>0, <2>2 DEF Bindings!TypeOK, Bindings!Answer, Bindings!Commands
  <2>4. s \notin bound /\ stage[s] = "dropped" => s \notin bound'
    BY <1>0, <2>2 DEF BindKnown, Bindings!Effect, Bindings!AddScript, Bindings!RemoveScript, Bindings!Commands
  <2>5. c = <<"clean", s>> => s \notin bound' /\ stage[s] \in {"dropped", "dead"}
    BY <1>0, <2>2 DEF BindKnown, Bindings!Effect, Bindings!RemoveScript
  <2>6. /\ stage[s] \in Watched => dog[s] = "waiting"
        /\ stage[s] = "dropped" => \/ dog[s] = "waiting"
                                   \/ dog[s] = "cleaning" /\ <<"clean", s>> \in cmds
                                   \/ dog[s] = "gone" /\ s \notin bound
    BY <1>0, <2>1 DEF BindWatch
  <2>7. stage'[s] = "dropped" => stage[s] = "dropped" BY <2>3
  <2>8. CASE c = <<"clean", s>> BY <2>3, <2>5, <2>7, <2>8 DEF Watched
  <2>9. CASE c # <<"clean", s>> BY <2>3, <2>4, <2>6, <2>7, <2>9 DEF Watched
  <2>10. QED BY <2>8, <2>9
<1>5. QED BY <1>2, <1>3, <1>4 DEF BindInv

\* A call without an answer is a fault.
LEMMA BindingsTimesOutKeeps ==
    ASSUME BindingBounds, BindInv, NEW c \in Bindings!Commands, Bindings!TimesOut(c)
    PROVE  BindInv'
<1>0. /\ Bindings!TypeOK /\ BindKnown /\ BindWatch
      /\ N \in Nat \ {0} /\ MaxToggles \in Nat /\ MaxRestarts \in Nat /\ MaxExits \in Nat /\ MaxFaults \in Nat
      /\ Bindings!Recordings = 1 .. N
  BY DEF BindInv, BindingBounds, Bindings!Recordings
<1>f. Bindings!Fault => spent'.faults # 0 BY <1>0, FaultsEnd
<1> USE DEF Bindings!TimesOut, Bindings!Fault, Bindings!Spend, Bindings!Answer, Bindings!Effect,
       Bindings!AddScript, Bindings!RemoveScript, Bindings!process, Bindings!recording, Bindings!session,
       Bindings!desktop
<1>1. spent' \in [toggles : 0 .. MaxToggles, restarts : 0 .. MaxRestarts, exits : 0 .. MaxExits, faults : 0 .. MaxFaults]
  BY <1>0, SMTT(30) DEF Bindings!TypeOK
<1>2. Bindings!TypeOK'
  <2>1. cmds' \subseteq Bindings!Commands
    BY <1>0, HyprctlOnly DEF Bindings!TypeOK, Bindings!TimesOut, Bindings!Answer, Bindings!Commands
  <2>2. stage' \in [1 .. N -> Bindings!Stages] /\ dog' \in [1 .. N -> {"none", "waiting", "cleaning", "gone"}]
    BY <1>0, <1>f DEF Bindings!TypeOK, Bindings!Stages
  <2>3. /\ up' \in {"up", "closing", "down"} /\ enabled' \in BOOLEAN /\ portal' \in BOOLEAN
        /\ rec' \in 0 .. N /\ rec <= rec' /\ going' \in 0 .. rec' /\ slot' \in 0 .. rec'
    <3>1. rec \in Nat /\ rec \in 0 .. N /\ 0 \in 0 .. rec BY <1>0 DEF Bindings!TypeOK
    <3>2. up' \in {"up", "closing", "down"} /\ enabled' \in BOOLEAN /\ portal' \in BOOLEAN
      BY <1>0, <1>f DEF Bindings!TypeOK
    <3>3. rec' \in 0 .. N /\ rec <= rec' BY <3>1, <1>0, <1>f DEF Bindings!TypeOK
    <3>4. going' \in 0 .. rec' /\ slot' \in 0 .. rec' BY <3>1, <1>0, <1>f DEF Bindings!TypeOK
    <3>5. QED BY <3>2, <3>3, <3>4
  <2>a. 1 .. rec \subseteq 1 .. rec' /\ rec \in Nat BY <1>0, <2>3 DEF Bindings!TypeOK
  <2>b. closed' \subseteq 1 .. rec' /\ binding' \subseteq 1 .. rec'
    BY <2>a, <1>0, <1>f DEF Bindings!TypeOK
  <2>c. bound' \subseteq 1 .. rec' /\ dirs' \subseteq 1 .. rec' /\ kept' \subseteq 1 .. rec'
    BY <2>a, <1>0, <1>f, SMTT(30) DEF Bindings!TypeOK, BindKnown, Bindings!Commands
  <2>4. /\ slot' # 0 => slot' = going'
        /\ \A t \in 1 .. N : stage'[t] = "ready" /\ t \notin closed' => slot' = t
    BY <1>0, <1>f DEF Bindings!TypeOK, BindKnown, Bindings!Activating
  <2>5. QED BY <1>0, <1>1, <2>1, <2>2, <2>3, <2>4, <2>b, <2>c DEF Bindings!TypeOK, Bindings!Recordings
<1>3. BindKnown'
  BY <1>0, <1>f, SMTT(30) DEF Bindings!TypeOK, BindKnown, Bindings!Stages, Bindings!Commands, Bindings!Activating
<1>4. BindWatch'
  BY <1>f DEF BindWatch, Bindings!TimesOut
<1>5. QED BY <1>2, <1>3, <1>4 DEF BindInv

\* A new recording finds no session of the application.
LEMMA BindingsBeginKeeps ==
    ASSUME BindingBounds, BindInv, Bindings!Begin
    PROVE  BindInv'
<1>0. /\ Bindings!TypeOK /\ BindKnown /\ BindWatch
      /\ N \in Nat \ {0} /\ MaxToggles \in Nat /\ MaxRestarts \in Nat /\ MaxExits \in Nat /\ MaxFaults \in Nat
      /\ Bindings!Recordings = 1 .. N
  BY DEF BindInv, BindingBounds, Bindings!Recordings
<1> USE DEF Bindings!Begin, Bindings!process, Bindings!recording, Bindings!session, Bindings!desktop
<1>1. spent' \in [toggles : 0 .. MaxToggles, restarts : 0 .. MaxRestarts, exits : 0 .. MaxExits, faults : 0 .. MaxFaults]
  BY <1>0, SMTT(30) DEF Bindings!TypeOK
<1>2. Bindings!TypeOK'
  <2>1. cmds' \subseteq Bindings!Commands
    BY <1>0 DEF Bindings!TypeOK, Bindings!Begin, Bindings!desktop
  <2>2. stage' \in [1 .. N -> Bindings!Stages] /\ dog' \in [1 .. N -> {"none", "waiting", "cleaning", "gone"}]
    BY <1>0 DEF Bindings!TypeOK, Bindings!Stages
  <2>3. /\ up' \in {"up", "closing", "down"} /\ enabled' \in BOOLEAN /\ portal' \in BOOLEAN
        /\ rec' \in 0 .. N /\ rec <= rec' /\ going' \in 0 .. rec' /\ slot' \in 0 .. rec'
    <3>1. rec \in Nat /\ rec \in 0 .. N /\ 0 \in 0 .. rec BY <1>0 DEF Bindings!TypeOK
    <3>2. up' \in {"up", "closing", "down"} /\ enabled' \in BOOLEAN /\ portal' \in BOOLEAN
      BY <1>0 DEF Bindings!TypeOK
    <3>3. rec' \in 0 .. N /\ rec <= rec' BY <3>1, <1>0 DEF Bindings!TypeOK
    <3>4. going' \in 0 .. rec' /\ slot' \in 0 .. rec' BY <3>1, <1>0 DEF Bindings!TypeOK
    <3>5. QED BY <3>2, <3>3, <3>4
  <2>a. 1 .. rec \subseteq 1 .. rec' /\ rec \in Nat BY <1>0, <2>3 DEF Bindings!TypeOK
  <2>b. closed' \subseteq 1 .. rec' /\ binding' \subseteq 1 .. rec'
    BY <2>a, <1>0 DEF Bindings!TypeOK
  <2>c. bound' \subseteq 1 .. rec' /\ dirs' \subseteq 1 .. rec' /\ kept' \subseteq 1 .. rec'
    <3>1. rec' = rec + 1 /\ bound' = bound /\ kept' = kept /\ dirs' \subseteq dirs \cup {rec + 1}
      BY DEF Bindings!Begin, Bindings!desktop
    <3>2. bound \subseteq 1 .. rec /\ kept \subseteq 1 .. rec /\ dirs \subseteq 1 .. rec BY <1>0 DEF Bindings!TypeOK
    <3>3. rec + 1 \in 1 .. rec' BY <2>a, <3>1
    <3>4. QED BY <2>a, <3>1, <3>2, <3>3
  <2>4. /\ slot' # 0 => slot' = going'
        /\ \A t \in 1 .. N : stage'[t] = "ready" /\ t \notin closed' => slot' = t
    BY <1>0 DEF Bindings!TypeOK, BindKnown, Bindings!Activating
  <2>5. QED BY <1>0, <1>1, <2>1, <2>2, <2>3, <2>4, <2>b, <2>c DEF Bindings!TypeOK, Bindings!Recordings
<1>3. BindKnown'
  BY <1>0, SMTT(30) DEF Bindings!TypeOK, BindKnown, Bindings!Stages, Bindings!Commands, Bindings!Activating
<1>4. BindWatch'
  BY <1>0 DEF Bindings!TypeOK, BindKnown, BindWatch, Watched, Bindings!Commands
<1>5. QED BY <1>2, <1>3, <1>4 DEF BindInv

\* The recording stops its session.
LEMMA BindingsEndKeeps ==
    ASSUME BindingBounds, BindInv, Bindings!End
    PROVE  BindInv'
<1>0. /\ Bindings!TypeOK /\ BindKnown /\ BindWatch
      /\ N \in Nat \ {0} /\ MaxToggles \in Nat /\ MaxRestarts \in Nat /\ MaxExits \in Nat /\ MaxFaults \in Nat
      /\ Bindings!Recordings = 1 .. N
  BY DEF BindInv, BindingBounds, Bindings!Recordings
<1>s. {slot} \ {0} \subseteq 1 .. rec /\ {slot} \ {0} \in SUBSET (1 .. N) BY <1>0 DEF Bindings!TypeOK
<1>t. /\ closed' = closed \cup ({slot} \ {0}) /\ binding' \subseteq binding /\ cmds \subseteq cmds'
      /\ cmds' \subseteq cmds \cup ({"remove"} \X ({slot} \ {0})) \cup {}
  BY <1>0, <1>s, StopSends DEF Bindings!End
<1> USE DEF Bindings!End, Bindings!process, Bindings!recording, Bindings!session, Bindings!desktop
<1>1. spent' \in [toggles : 0 .. MaxToggles, restarts : 0 .. MaxRestarts, exits : 0 .. MaxExits, faults : 0 .. MaxFaults]
  BY <1>0, SMTT(30) DEF Bindings!TypeOK
<1>2. Bindings!TypeOK'
  <2>1. cmds' \subseteq Bindings!Commands
    BY <1>0, <1>s, <1>t, HyprctlOnly DEF Bindings!TypeOK
  <2>2. stage' \in [1 .. N -> Bindings!Stages] /\ dog' \in [1 .. N -> {"none", "waiting", "cleaning", "gone"}]
    BY <1>0, <1>s, <1>t DEF Bindings!TypeOK, Bindings!Stages
  <2>3. /\ up' \in {"up", "closing", "down"} /\ enabled' \in BOOLEAN /\ portal' \in BOOLEAN
        /\ rec' \in 0 .. N /\ rec <= rec' /\ going' \in 0 .. rec' /\ slot' \in 0 .. rec'
    <3>1. rec \in Nat /\ rec \in 0 .. N /\ 0 \in 0 .. rec BY <1>0 DEF Bindings!TypeOK
    <3>2. up' \in {"up", "closing", "down"} /\ enabled' \in BOOLEAN /\ portal' \in BOOLEAN
      BY <1>0, <1>s, <1>t DEF Bindings!TypeOK
    <3>3. rec' \in 0 .. N /\ rec <= rec' BY <3>1, <1>0, <1>s, <1>t DEF Bindings!TypeOK
    <3>4. going' \in 0 .. rec' /\ slot' \in 0 .. rec' BY <3>1, <1>0, <1>s, <1>t DEF Bindings!TypeOK
    <3>5. QED BY <3>2, <3>3, <3>4
  <2>a. 1 .. rec \subseteq 1 .. rec' /\ rec \in Nat BY <1>0, <2>3 DEF Bindings!TypeOK
  <2>b. closed' \subseteq 1 .. rec' /\ binding' \subseteq 1 .. rec'
    BY <2>a, <1>0, <1>s, <1>t DEF Bindings!TypeOK
  <2>c. bound' \subseteq 1 .. rec' /\ dirs' \subseteq 1 .. rec' /\ kept' \subseteq 1 .. rec'
    BY <2>a, <1>0, <1>s, <1>t DEF Bindings!TypeOK, BindKnown, Bindings!Commands
  <2>4. /\ slot' # 0 => slot' = going'
        /\ \A t \in 1 .. N : stage'[t] = "ready" /\ t \notin closed' => slot' = t
    BY <1>0, <1>s, <1>t DEF Bindings!TypeOK, BindKnown, Bindings!Activating
  <2>5. QED BY <1>0, <1>1, <2>1, <2>2, <2>3, <2>4, <2>b, <2>c DEF Bindings!TypeOK, Bindings!Recordings
<1>3. BindKnown'
  BY <1>0, <1>s, <1>t DEF Bindings!TypeOK, BindKnown, Bindings!Stages, Bindings!Commands, Bindings!Activating
<1>4. BindWatch'
  BY <1>0, <1>s, <1>t DEF Bindings!TypeOK, BindKnown, BindWatch, Watched, Bindings!Commands
<1>5. QED BY <1>2, <1>3, <1>4 DEF BindInv

\* Switching off stops the session.
LEMMA BindingsDisableKeeps ==
    ASSUME BindingBounds, BindInv, Bindings!Disable
    PROVE  BindInv'
<1>0. /\ Bindings!TypeOK /\ BindKnown /\ BindWatch
      /\ N \in Nat \ {0} /\ MaxToggles \in Nat /\ MaxRestarts \in Nat /\ MaxExits \in Nat /\ MaxFaults \in Nat
      /\ Bindings!Recordings = 1 .. N
  BY DEF BindInv, BindingBounds, Bindings!Recordings
<1>s. {slot} \ {0} \subseteq 1 .. rec /\ {slot} \ {0} \in SUBSET (1 .. N) BY <1>0 DEF Bindings!TypeOK
<1>t. /\ closed' = closed \cup ({slot} \ {0}) /\ binding' \subseteq binding /\ cmds \subseteq cmds'
      /\ cmds' \subseteq cmds \cup ({"remove"} \X ({slot} \ {0})) \cup {<<"all", 0>>}
  BY <1>0, <1>s, StopSends DEF Bindings!Disable
<1> USE DEF Bindings!Disable, Bindings!Spend, Bindings!process, Bindings!recording, Bindings!session,
       Bindings!desktop
<1>1. spent' \in [toggles : 0 .. MaxToggles, restarts : 0 .. MaxRestarts, exits : 0 .. MaxExits, faults : 0 .. MaxFaults]
  BY <1>0, SMTT(30) DEF Bindings!TypeOK
<1>2. Bindings!TypeOK'
  <2>1. cmds' \subseteq Bindings!Commands
    BY <1>0, <1>s, <1>t, HyprctlOnly DEF Bindings!TypeOK
  <2>2. stage' \in [1 .. N -> Bindings!Stages] /\ dog' \in [1 .. N -> {"none", "waiting", "cleaning", "gone"}]
    BY <1>0, <1>s, <1>t DEF Bindings!TypeOK, Bindings!Stages
  <2>3. /\ up' \in {"up", "closing", "down"} /\ enabled' \in BOOLEAN /\ portal' \in BOOLEAN
        /\ rec' \in 0 .. N /\ rec <= rec' /\ going' \in 0 .. rec' /\ slot' \in 0 .. rec'
    <3>1. rec \in Nat /\ rec \in 0 .. N /\ 0 \in 0 .. rec BY <1>0 DEF Bindings!TypeOK
    <3>2. up' \in {"up", "closing", "down"} /\ enabled' \in BOOLEAN /\ portal' \in BOOLEAN
      BY <1>0, <1>s, <1>t DEF Bindings!TypeOK
    <3>3. rec' \in 0 .. N /\ rec <= rec' BY <3>1, <1>0, <1>s, <1>t DEF Bindings!TypeOK
    <3>4. going' \in 0 .. rec' /\ slot' \in 0 .. rec' BY <3>1, <1>0, <1>s, <1>t DEF Bindings!TypeOK
    <3>5. QED BY <3>2, <3>3, <3>4
  <2>a. 1 .. rec \subseteq 1 .. rec' /\ rec \in Nat BY <1>0, <2>3 DEF Bindings!TypeOK
  <2>b. closed' \subseteq 1 .. rec' /\ binding' \subseteq 1 .. rec'
    BY <2>a, <1>0, <1>s, <1>t DEF Bindings!TypeOK
  <2>c. bound' \subseteq 1 .. rec' /\ dirs' \subseteq 1 .. rec' /\ kept' \subseteq 1 .. rec'
    BY <2>a, <1>0, <1>s, <1>t DEF Bindings!TypeOK, BindKnown, Bindings!Commands
  <2>4. /\ slot' # 0 => slot' = going'
        /\ \A t \in 1 .. N : stage'[t] = "ready" /\ t \notin closed' => slot' = t
    BY <1>0, <1>s, <1>t DEF Bindings!TypeOK, BindKnown, Bindings!Activating
  <2>5. QED BY <1>0, <1>1, <2>1, <2>2, <2>3, <2>4, <2>b, <2>c DEF Bindings!TypeOK, Bindings!Recordings
<1>3. BindKnown'
  BY <1>0, <1>s, <1>t DEF Bindings!TypeOK, BindKnown, Bindings!Stages, Bindings!Commands, Bindings!Activating
<1>4. BindWatch'
  BY <1>0, <1>s, <1>t DEF Bindings!TypeOK, BindKnown, BindWatch, Watched, Bindings!Commands
<1>5. QED BY <1>2, <1>3, <1>4 DEF BindInv

\* Switching on changes no session.
LEMMA BindingsEnableKeeps ==
    ASSUME BindingBounds, BindInv, Bindings!Enable
    PROVE  BindInv'
<1>0. /\ Bindings!TypeOK /\ BindKnown /\ BindWatch
      /\ N \in Nat \ {0} /\ MaxToggles \in Nat /\ MaxRestarts \in Nat /\ MaxExits \in Nat /\ MaxFaults \in Nat
      /\ Bindings!Recordings = 1 .. N
  BY DEF BindInv, BindingBounds, Bindings!Recordings
<1> USE DEF Bindings!Enable, Bindings!Spend, Bindings!process, Bindings!recording, Bindings!session,
       Bindings!desktop
<1>1. spent' \in [toggles : 0 .. MaxToggles, restarts : 0 .. MaxRestarts, exits : 0 .. MaxExits, faults : 0 .. MaxFaults]
  BY <1>0, SMTT(30) DEF Bindings!TypeOK
<1>2. Bindings!TypeOK'
  BY <1>0, <1>1 DEF Bindings!TypeOK, BindKnown, Bindings!Stages, Bindings!Commands, Bindings!Activating
<1>3. BindKnown'
  BY <1>0 DEF Bindings!TypeOK, BindKnown, Bindings!Stages, Bindings!Commands, Bindings!Activating
<1>4. BindWatch'
  BY <1>0 DEF Bindings!TypeOK, BindKnown, BindWatch, Watched, Bindings!Commands
<1>5. QED BY <1>2, <1>3, <1>4 DEF BindInv

\* Neither does a restart of the portal session,
LEMMA BindingsRestartShortcutsKeeps ==
    ASSUME BindingBounds, BindInv, Bindings!RestartShortcuts
    PROVE  BindInv'
<1>0. /\ Bindings!TypeOK /\ BindKnown /\ BindWatch
      /\ N \in Nat \ {0} /\ MaxToggles \in Nat /\ MaxRestarts \in Nat /\ MaxExits \in Nat /\ MaxFaults \in Nat
      /\ Bindings!Recordings = 1 .. N
  BY DEF BindInv, BindingBounds, Bindings!Recordings
<1> USE DEF Bindings!RestartShortcuts, Bindings!Spend, Bindings!process, Bindings!recording, Bindings!session,
       Bindings!desktop
<1>1. spent' \in [toggles : 0 .. MaxToggles, restarts : 0 .. MaxRestarts, exits : 0 .. MaxExits, faults : 0 .. MaxFaults]
  BY <1>0, SMTT(30) DEF Bindings!TypeOK
<1>2. Bindings!TypeOK'
  BY <1>0, <1>1 DEF Bindings!TypeOK, BindKnown, Bindings!Stages, Bindings!Commands, Bindings!Activating
<1>3. BindKnown'
  BY <1>0 DEF Bindings!TypeOK, BindKnown, Bindings!Stages, Bindings!Commands, Bindings!Activating
<1>4. BindWatch'
  BY <1>0 DEF Bindings!TypeOK, BindKnown, BindWatch, Watched, Bindings!Commands
<1>5. QED BY <1>2, <1>3, <1>4 DEF BindInv

\* nor its registration.
LEMMA BindingsRegisteredKeeps ==
    ASSUME BindingBounds, BindInv, Bindings!Registered
    PROVE  BindInv'
<1>0. /\ Bindings!TypeOK /\ BindKnown /\ BindWatch
      /\ N \in Nat \ {0} /\ MaxToggles \in Nat /\ MaxRestarts \in Nat /\ MaxExits \in Nat /\ MaxFaults \in Nat
      /\ Bindings!Recordings = 1 .. N
  BY DEF BindInv, BindingBounds, Bindings!Recordings
<1> USE DEF Bindings!Registered, Bindings!process, Bindings!recording, Bindings!session, Bindings!desktop
<1>1. spent' \in [toggles : 0 .. MaxToggles, restarts : 0 .. MaxRestarts, exits : 0 .. MaxExits, faults : 0 .. MaxFaults]
  BY <1>0, SMTT(30) DEF Bindings!TypeOK
<1>2. Bindings!TypeOK'
  BY <1>0, <1>1 DEF Bindings!TypeOK, BindKnown, Bindings!Stages, Bindings!Commands, Bindings!Activating
<1>3. BindKnown'
  BY <1>0 DEF Bindings!TypeOK, BindKnown, Bindings!Stages, Bindings!Commands, Bindings!Activating
<1>4. BindWatch'
  BY <1>0 DEF Bindings!TypeOK, BindKnown, BindWatch, Watched, Bindings!Commands
<1>5. QED BY <1>2, <1>3, <1>4 DEF BindInv

\* Quitting stops the session.
LEMMA BindingsQuitKeeps ==
    ASSUME BindingBounds, BindInv, Bindings!Quit
    PROVE  BindInv'
<1>0. /\ Bindings!TypeOK /\ BindKnown /\ BindWatch
      /\ N \in Nat \ {0} /\ MaxToggles \in Nat /\ MaxRestarts \in Nat /\ MaxExits \in Nat /\ MaxFaults \in Nat
      /\ Bindings!Recordings = 1 .. N
  BY DEF BindInv, BindingBounds, Bindings!Recordings
<1>s. {slot} \ {0} \subseteq 1 .. rec /\ {slot} \ {0} \in SUBSET (1 .. N) BY <1>0 DEF Bindings!TypeOK
<1>t. /\ closed' = closed \cup ({slot} \ {0}) /\ binding' \subseteq binding /\ cmds \subseteq cmds'
      /\ cmds' \subseteq cmds \cup ({"remove"} \X ({slot} \ {0})) \cup {}
  BY <1>0, <1>s, StopSends DEF Bindings!Quit
<1> USE DEF Bindings!Quit, Bindings!Spend, Bindings!process, Bindings!recording, Bindings!session,
       Bindings!desktop
<1>1. spent' \in [toggles : 0 .. MaxToggles, restarts : 0 .. MaxRestarts, exits : 0 .. MaxExits, faults : 0 .. MaxFaults]
  BY <1>0, SMTT(30) DEF Bindings!TypeOK
<1>2. Bindings!TypeOK'
  <2>1. cmds' \subseteq Bindings!Commands
    BY <1>0, <1>s, <1>t, HyprctlOnly DEF Bindings!TypeOK
  <2>2. stage' \in [1 .. N -> Bindings!Stages] /\ dog' \in [1 .. N -> {"none", "waiting", "cleaning", "gone"}]
    BY <1>0, <1>s, <1>t DEF Bindings!TypeOK, Bindings!Stages
  <2>3. /\ up' \in {"up", "closing", "down"} /\ enabled' \in BOOLEAN /\ portal' \in BOOLEAN
        /\ rec' \in 0 .. N /\ rec <= rec' /\ going' \in 0 .. rec' /\ slot' \in 0 .. rec'
    <3>1. rec \in Nat /\ rec \in 0 .. N /\ 0 \in 0 .. rec BY <1>0 DEF Bindings!TypeOK
    <3>2. up' \in {"up", "closing", "down"} /\ enabled' \in BOOLEAN /\ portal' \in BOOLEAN
      BY <1>0, <1>s, <1>t DEF Bindings!TypeOK
    <3>3. rec' \in 0 .. N /\ rec <= rec' BY <3>1, <1>0, <1>s, <1>t DEF Bindings!TypeOK
    <3>4. going' \in 0 .. rec' /\ slot' \in 0 .. rec' BY <3>1, <1>0, <1>s, <1>t DEF Bindings!TypeOK
    <3>5. QED BY <3>2, <3>3, <3>4
  <2>a. 1 .. rec \subseteq 1 .. rec' /\ rec \in Nat BY <1>0, <2>3 DEF Bindings!TypeOK
  <2>b. closed' \subseteq 1 .. rec' /\ binding' \subseteq 1 .. rec'
    BY <2>a, <1>0, <1>s, <1>t DEF Bindings!TypeOK
  <2>c. bound' \subseteq 1 .. rec' /\ dirs' \subseteq 1 .. rec' /\ kept' \subseteq 1 .. rec'
    BY <2>a, <1>0, <1>s, <1>t DEF Bindings!TypeOK, BindKnown, Bindings!Commands
  <2>4. /\ slot' # 0 => slot' = going'
        /\ \A t \in 1 .. N : stage'[t] = "ready" /\ t \notin closed' => slot' = t
    BY <1>0, <1>s, <1>t DEF Bindings!TypeOK, BindKnown, Bindings!Activating
  <2>5. QED BY <1>0, <1>1, <2>1, <2>2, <2>3, <2>4, <2>b, <2>c DEF Bindings!TypeOK, Bindings!Recordings
<1>3. BindKnown'
  BY <1>0, <1>s, <1>t DEF Bindings!TypeOK, BindKnown, Bindings!Stages, Bindings!Commands, Bindings!Activating
<1>4. BindWatch'
  BY <1>0, <1>s, <1>t DEF Bindings!TypeOK, BindKnown, BindWatch, Watched, Bindings!Commands
<1>5. QED BY <1>2, <1>3, <1>4 DEF BindInv

\* The end of the program leaves the sessions to the watchdogs.
LEMMA BindingsExitKeeps ==
    ASSUME BindingBounds, BindInv, Bindings!Exit
    PROVE  BindInv'
<1>0. /\ Bindings!TypeOK /\ BindKnown /\ BindWatch
      /\ N \in Nat \ {0} /\ MaxToggles \in Nat /\ MaxRestarts \in Nat /\ MaxExits \in Nat /\ MaxFaults \in Nat
      /\ Bindings!Recordings = 1 .. N
  BY DEF BindInv, BindingBounds, Bindings!Recordings
<1>g. /\ stage' \in [1 .. N -> Bindings!Stages]
      /\ \A s \in 1 .. N : stage'[s] = IF stage[s] = "none" \/ (stage[s] = "dropped" /\ dog[s] = "gone")
                                       THEN stage[s] ELSE "dead"
  BY <1>0, GoneSessions DEF Bindings!Exit
<1> USE DEF Bindings!Exit, Bindings!Gone, Bindings!process, Bindings!recording, Bindings!session,
       Bindings!desktop
<1>1. spent' \in [toggles : 0 .. MaxToggles, restarts : 0 .. MaxRestarts, exits : 0 .. MaxExits, faults : 0 .. MaxFaults]
  BY <1>0, SMTT(30) DEF Bindings!TypeOK
<1>2. Bindings!TypeOK'
  <2>1. cmds' \subseteq Bindings!Commands
    BY <1>0 DEF Bindings!TypeOK, Bindings!Exit, Bindings!Gone
  <2>2. stage' \in [1 .. N -> Bindings!Stages] /\ dog' \in [1 .. N -> {"none", "waiting", "cleaning", "gone"}]
    BY <1>0, <1>g DEF Bindings!TypeOK, Bindings!Stages
  <2>3. /\ up' \in {"up", "closing", "down"} /\ enabled' \in BOOLEAN /\ portal' \in BOOLEAN
        /\ rec' \in 0 .. N /\ rec <= rec' /\ going' \in 0 .. rec' /\ slot' \in 0 .. rec'
    <3>1. rec \in Nat /\ rec \in 0 .. N /\ 0 \in 0 .. rec BY <1>0 DEF Bindings!TypeOK
    <3>2. up' \in {"up", "closing", "down"} /\ enabled' \in BOOLEAN /\ portal' \in BOOLEAN
      BY <1>0, <1>g DEF Bindings!TypeOK
    <3>3. rec' \in 0 .. N /\ rec <= rec' BY <3>1, <1>0, <1>g DEF Bindings!TypeOK
    <3>4. going' \in 0 .. rec' /\ slot' \in 0 .. rec' BY <3>1, <1>0, <1>g DEF Bindings!TypeOK
    <3>5. QED BY <3>2, <3>3, <3>4
  <2>a. 1 .. rec \subseteq 1 .. rec' /\ rec \in Nat BY <1>0, <2>3 DEF Bindings!TypeOK
  <2>b. closed' \subseteq 1 .. rec' /\ binding' \subseteq 1 .. rec'
    BY <2>a, <1>0, <1>g DEF Bindings!TypeOK
  <2>c. bound' \subseteq 1 .. rec' /\ dirs' \subseteq 1 .. rec' /\ kept' \subseteq 1 .. rec'
    BY <2>a, <1>0, <1>g DEF Bindings!TypeOK, BindKnown, Bindings!Commands
  <2>4. /\ slot' # 0 => slot' = going'
        /\ \A t \in 1 .. N : stage'[t] = "ready" /\ t \notin closed' => slot' = t
    BY <1>0, <1>g DEF Bindings!TypeOK, BindKnown, Bindings!Activating
  <2>5. QED BY <1>0, <1>1, <2>1, <2>2, <2>3, <2>4, <2>b, <2>c DEF Bindings!TypeOK, Bindings!Recordings
<1>3. BindKnown'
  BY <1>0, <1>g DEF Bindings!TypeOK, BindKnown, Bindings!Stages, Bindings!Commands, Bindings!Activating
<1>4. BindWatch'
  BY <1>0, <1>g DEF Bindings!TypeOK, BindKnown, BindWatch, Watched, Bindings!Commands
<1>5. QED BY <1>2, <1>3, <1>4 DEF BindInv

\* So does a crash.
LEMMA BindingsCrashKeeps ==
    ASSUME BindingBounds, BindInv, Bindings!Crash
    PROVE  BindInv'
<1>0. /\ Bindings!TypeOK /\ BindKnown /\ BindWatch
      /\ N \in Nat \ {0} /\ MaxToggles \in Nat /\ MaxRestarts \in Nat /\ MaxExits \in Nat /\ MaxFaults \in Nat
      /\ Bindings!Recordings = 1 .. N
  BY DEF BindInv, BindingBounds, Bindings!Recordings
<1>g. /\ stage' \in [1 .. N -> Bindings!Stages]
      /\ \A s \in 1 .. N : stage'[s] = IF stage[s] = "none" \/ (stage[s] = "dropped" /\ dog[s] = "gone")
                                       THEN stage[s] ELSE "dead"
  BY <1>0, GoneSessions DEF Bindings!Crash
<1> USE DEF Bindings!Crash, Bindings!Spend, Bindings!Gone, Bindings!process, Bindings!recording,
       Bindings!session, Bindings!desktop
<1>1. spent' \in [toggles : 0 .. MaxToggles, restarts : 0 .. MaxRestarts, exits : 0 .. MaxExits, faults : 0 .. MaxFaults]
  BY <1>0, SMTT(30) DEF Bindings!TypeOK
<1>2. Bindings!TypeOK'
  <2>1. cmds' \subseteq Bindings!Commands
    BY <1>0 DEF Bindings!TypeOK, Bindings!Crash, Bindings!Gone
  <2>2. stage' \in [1 .. N -> Bindings!Stages] /\ dog' \in [1 .. N -> {"none", "waiting", "cleaning", "gone"}]
    BY <1>0, <1>g DEF Bindings!TypeOK, Bindings!Stages
  <2>3. /\ up' \in {"up", "closing", "down"} /\ enabled' \in BOOLEAN /\ portal' \in BOOLEAN
        /\ rec' \in 0 .. N /\ rec <= rec' /\ going' \in 0 .. rec' /\ slot' \in 0 .. rec'
    <3>1. rec \in Nat /\ rec \in 0 .. N /\ 0 \in 0 .. rec BY <1>0 DEF Bindings!TypeOK
    <3>2. up' \in {"up", "closing", "down"} /\ enabled' \in BOOLEAN /\ portal' \in BOOLEAN
      BY <1>0, <1>g DEF Bindings!TypeOK
    <3>3. rec' \in 0 .. N /\ rec <= rec' BY <3>1, <1>0, <1>g DEF Bindings!TypeOK
    <3>4. going' \in 0 .. rec' /\ slot' \in 0 .. rec' BY <3>1, <1>0, <1>g DEF Bindings!TypeOK
    <3>5. QED BY <3>2, <3>3, <3>4
  <2>a. 1 .. rec \subseteq 1 .. rec' /\ rec \in Nat BY <1>0, <2>3 DEF Bindings!TypeOK
  <2>b. closed' \subseteq 1 .. rec' /\ binding' \subseteq 1 .. rec'
    BY <2>a, <1>0, <1>g DEF Bindings!TypeOK
  <2>c. bound' \subseteq 1 .. rec' /\ dirs' \subseteq 1 .. rec' /\ kept' \subseteq 1 .. rec'
    BY <2>a, <1>0, <1>g DEF Bindings!TypeOK, BindKnown, Bindings!Commands
  <2>4. /\ slot' # 0 => slot' = going'
        /\ \A t \in 1 .. N : stage'[t] = "ready" /\ t \notin closed' => slot' = t
    BY <1>0, <1>g DEF Bindings!TypeOK, BindKnown, Bindings!Activating
  <2>5. QED BY <1>0, <1>1, <2>1, <2>2, <2>3, <2>4, <2>b, <2>c DEF Bindings!TypeOK, Bindings!Recordings
<1>3. BindKnown'
  BY <1>0, <1>g DEF Bindings!TypeOK, BindKnown, Bindings!Stages, Bindings!Commands, Bindings!Activating
<1>4. BindWatch'
  BY <1>0, <1>g DEF Bindings!TypeOK, BindKnown, BindWatch, Watched, Bindings!Commands
<1>5. QED BY <1>2, <1>3, <1>4 DEF BindInv

\* A kill of the group takes the watchdogs along; no session of a running program is left.
LEMMA BindingsGroupKillKeeps ==
    ASSUME BindingBounds, BindInv, Bindings!GroupKill
    PROVE  BindInv'
<1>0. /\ Bindings!TypeOK /\ BindKnown /\ BindWatch
      /\ N \in Nat \ {0} /\ MaxToggles \in Nat /\ MaxRestarts \in Nat /\ MaxExits \in Nat /\ MaxFaults \in Nat
      /\ Bindings!Recordings = 1 .. N
  BY DEF BindInv, BindingBounds, Bindings!Recordings
<1>g. /\ stage' \in [1 .. N -> Bindings!Stages]
      /\ \A s \in 1 .. N : stage'[s] = IF stage[s] = "none" \/ (stage[s] = "dropped" /\ dog[s] = "gone")
                                       THEN stage[s] ELSE "dead"
  BY <1>0, GoneSessions DEF Bindings!GroupKill
<1>1. spent' \in [toggles : 0 .. MaxToggles, restarts : 0 .. MaxRestarts, exits : 0 .. MaxExits, faults : 0 .. MaxFaults]
  <2>1. spent.exits < MaxExits /\ spent' = [spent EXCEPT !.exits = @ + 1] BY DEF Bindings!GroupKill,
         Bindings!Spend
  <2>2. QED BY <1>0, <2>1, SMTT(30) DEF Bindings!TypeOK
<1> USE DEF Bindings!GroupKill, Bindings!Spend, Bindings!Gone, Bindings!process, Bindings!recording,
       Bindings!session, Bindings!desktop
<1>2. Bindings!TypeOK'
  <2>1. cmds' \subseteq Bindings!Commands
    BY <1>0 DEF Bindings!TypeOK, Bindings!GroupKill, Bindings!Gone
  <2>2. stage' \in [1 .. N -> Bindings!Stages] /\ dog' \in [1 .. N -> {"none", "waiting", "cleaning", "gone"}]
    BY <1>0, <1>g DEF Bindings!TypeOK, Bindings!Stages
  <2>3. /\ up' \in {"up", "closing", "down"} /\ enabled' \in BOOLEAN /\ portal' \in BOOLEAN
        /\ rec' \in 0 .. N /\ rec <= rec' /\ going' \in 0 .. rec' /\ slot' \in 0 .. rec'
    <3>1. rec \in Nat /\ rec \in 0 .. N /\ 0 \in 0 .. rec BY <1>0 DEF Bindings!TypeOK
    <3>2. up' \in {"up", "closing", "down"} /\ enabled' \in BOOLEAN /\ portal' \in BOOLEAN
      BY <1>0, <1>g DEF Bindings!TypeOK
    <3>3. rec' \in 0 .. N /\ rec <= rec' BY <3>1, <1>0, <1>g DEF Bindings!TypeOK
    <3>4. going' \in 0 .. rec' /\ slot' \in 0 .. rec' BY <3>1, <1>0, <1>g DEF Bindings!TypeOK
    <3>5. QED BY <3>2, <3>3, <3>4
  <2>a. 1 .. rec \subseteq 1 .. rec' /\ rec \in Nat BY <1>0, <2>3 DEF Bindings!TypeOK
  <2>b. closed' \subseteq 1 .. rec' /\ binding' \subseteq 1 .. rec'
    BY <2>a, <1>0, <1>g DEF Bindings!TypeOK
  <2>c. bound' \subseteq 1 .. rec' /\ dirs' \subseteq 1 .. rec' /\ kept' \subseteq 1 .. rec'
    BY <2>a, <1>0, <1>g DEF Bindings!TypeOK, BindKnown, Bindings!Commands
  <2>4. /\ slot' # 0 => slot' = going'
        /\ \A t \in 1 .. N : stage'[t] = "ready" /\ t \notin closed' => slot' = t
    BY <1>0, <1>g DEF Bindings!TypeOK, BindKnown, Bindings!Activating
  <2>5. QED BY <1>0, <1>1, <2>1, <2>2, <2>3, <2>4, <2>b, <2>c DEF Bindings!TypeOK, Bindings!Recordings
<1>3. BindKnown'
  BY <1>0, <1>g DEF Bindings!TypeOK, BindKnown, Bindings!Stages, Bindings!Commands, Bindings!Activating
<1>4. BindWatch'
  BY <1>0, <1>g DEF Bindings!TypeOK, BindKnown, BindWatch, Watched, Bindings!Commands
<1>5. QED BY <1>2, <1>3, <1>4 DEF BindInv

\* The next start removes what is left.
LEMMA BindingsRestartKeeps ==
    ASSUME BindingBounds, BindInv, Bindings!Restart
    PROVE  BindInv'
<1>0. /\ Bindings!TypeOK /\ BindKnown /\ BindWatch
      /\ N \in Nat \ {0} /\ MaxToggles \in Nat /\ MaxRestarts \in Nat /\ MaxExits \in Nat /\ MaxFaults \in Nat
      /\ Bindings!Recordings = 1 .. N
  BY DEF BindInv, BindingBounds, Bindings!Recordings
<1> USE DEF Bindings!Restart, Bindings!LeftoversWanted, Bindings!process, Bindings!recording, Bindings!session,
       Bindings!desktop
<1>1. spent' \in [toggles : 0 .. MaxToggles, restarts : 0 .. MaxRestarts, exits : 0 .. MaxExits, faults : 0 .. MaxFaults]
  BY <1>0, SMTT(30) DEF Bindings!TypeOK
<1>2. Bindings!TypeOK'
  BY <1>0, <1>1 DEF Bindings!TypeOK, BindKnown, Bindings!Stages, Bindings!Commands, Bindings!Activating
<1>3. BindKnown'
  BY <1>0 DEF Bindings!TypeOK, BindKnown, Bindings!Stages, Bindings!Commands, Bindings!Activating
<1>4. BindWatch'
  BY <1>0 DEF Bindings!TypeOK, BindKnown, BindWatch, Watched, Bindings!Commands
<1>5. QED BY <1>2, <1>3, <1>4 DEF BindInv

\* Every step keeps the invariant.
LEMMA BindingsStep == ASSUME BindingBounds, BindInv, [Bindings!Next]_(Bindings!vars) PROVE BindInv'
<1>1. CASE UNCHANGED Bindings!vars
  <2>1. UNCHANGED <<up, enabled, portal, rec, going, slot, kept, stage, closed, binding, bound, cmds, dog, dirs, spent>>
    BY <1>1 DEF Bindings!vars, Bindings!process, Bindings!recording, Bindings!session, Bindings!desktop
  <2>2. Bindings!TypeOK' BY <2>1 DEF BindInv, Bindings!TypeOK
  <2>3. BindKnown' /\ BindWatch' BY <2>1 DEF BindInv, BindKnown, BindWatch, Bindings!Activating
  <2>4. QED BY <2>2, <2>3 DEF BindInv
<1>2. ASSUME NEW s \in 1 .. N, Bindings!Work(s) PROVE BindInv'
  BY <1>2, BindingsWatchdogReadyKeeps, BindingsWatchdogFailsKeeps, BindingsInstallKeeps, BindingsAskedKeeps, BindingsCheckedKeeps, BindingsUndoneKeeps, BindingsDropKeeps, BindingsSummarisedKeeps, BindingsDogHearsKeeps
    DEF Bindings!Work
<1>3. ASSUME NEW c \in Bindings!Commands, Bindings!Lands(c) \/ Bindings!TimesOut(c) PROVE BindInv'
  BY <1>3, BindingsLandsKeeps, BindingsTimesOutKeeps
<1>4. QED
  BY <1>1, <1>2, <1>3, BindingsBeginKeeps, BindingsEndKeeps, BindingsDisableKeeps, BindingsEnableKeeps, BindingsRestartShortcutsKeeps, BindingsRegisteredKeeps, BindingsQuitKeeps, BindingsExitKeeps, BindingsCrashKeeps, BindingsGroupKillKeeps, BindingsRestartKeeps
    DEF Bindings!Next, Bindings!Recordings

\* New removals are of sessions that are stopped or whose addition failed, and a session that was, stays so.
LEMMA KeptIf ==
    ASSUME BindKept, closed \subseteq closed',
           \A t \in 1 .. N : <<"remove", t>> \in cmds' =>
               <<"remove", t>> \in cmds \/ t \in closed' \/ stage'[t] = "undoing",
           \A t \in 1 .. N : stage[t] \in {"undoing", "dead"} => t \in closed' \/ stage'[t] \in {"undoing", "dead"}
    PROVE  BindKept'
BY DEF BindKept

LEMMA WorkKept == ASSUME BindingBounds, BindInv, BindKept, NEW s \in 1 .. N, Bindings!Work(s) PROVE BindKept'
<1>0. /\ Bindings!TypeOK /\ BindKnown /\ stage \in [1 .. N -> Bindings!Stages] /\ Bindings!Recordings = 1 .. N
  BY DEF BindInv, Bindings!TypeOK, Bindings!Recordings
<1>1. ASSUME UNCHANGED <<stage, closed>>, cmds' = cmds \/ cmds' = cmds \cup {<<"clean", s>>} PROVE BindKept'
  BY <1>1, KeptIf
<1>2. ASSUME Bindings!Stop({s}, {}), stage[s] # "none", NEW next, stage' = [stage EXCEPT ![s] = next] PROVE BindKept'
  <2>1. s \in 1 .. rec BY <1>0, <1>2 DEF Bindings!TypeOK, BindKnown
  <2>2. closed' = closed \cup {s} /\ cmds' \subseteq cmds \cup ({"remove"} \X {s}) BY <1>0, <1>2, <2>1, StopSends
  <2>3. \A t \in 1 .. N : t = s \/ stage'[t] = stage[t] BY <1>0, <1>2
  <2>4. \A t \in 1 .. N : <<"remove", t>> \in cmds' => <<"remove", t>> \in cmds \/ t \in closed' BY <2>2
  <2>5. QED BY <2>2, <2>3, <2>4, KeptIf
<1>3. CASE Bindings!WatchdogReady(s)
  <2>1. stage[s] = "dog" /\ stage' = [stage EXCEPT ![s] = "outputs"] /\ UNCHANGED <<closed, cmds>>
    BY <1>3 DEF Bindings!WatchdogReady
  <2>2. \A t \in 1 .. N : stage[t] \in {"undoing", "dead"} => stage'[t] = stage[t] BY <1>0, <2>1
  <2>3. QED BY <2>1, <2>2, KeptIf
<1>4. CASE Bindings!WatchdogFails(s) BY <1>2, <1>4 DEF Bindings!WatchdogFails, Bindings!Fail
<1>5. CASE Bindings!Install(s)
  <2>1. CASE Bindings!Fail(s) BY <1>2, <1>5, <2>1 DEF Bindings!Install, Bindings!Fail
  <2>2. CASE ~ Bindings!Fail(s)
    <3>1. stage[s] = "outputs" /\ stage' = [stage EXCEPT ![s] = "asking"] /\ UNCHANGED <<closed, cmds>>
      BY <1>5, <2>2 DEF Bindings!Install
    <3>2. \A t \in 1 .. N : stage[t] \in {"undoing", "dead"} => stage'[t] = stage[t] BY <1>0, <3>1
    <3>3. QED BY <3>1, <3>2, KeptIf
  <2>3. QED BY <2>1, <2>2
<1>6. CASE Bindings!Asked(s)
  <2>1. CASE Bindings!Fail(s) BY <1>2, <1>6, <2>1 DEF Bindings!Asked, Bindings!Fail
  <2>2. CASE ~ Bindings!Fail(s)
    <3>1. /\ stage[s] = "asking" /\ stage' = [stage EXCEPT ![s] = "adding"] /\ UNCHANGED closed
          /\ cmds' = cmds \cup {<<"add", s>>}
      BY <1>6, <2>2 DEF Bindings!Asked
    <3>2. \A t \in 1 .. N : stage[t] \in {"undoing", "dead"} => stage'[t] = stage[t] BY <1>0, <3>1
    <3>3. QED BY <3>1, <3>2, KeptIf
  <2>3. QED BY <2>1, <2>2
<1>7. CASE Bindings!Checked(s)
  <2>1. /\ stage[s] = "checking" /\ UNCHANGED closed
        /\ \/ cmds' = cmds /\ stage' = [stage EXCEPT ![s] = IF s \in closed THEN "over" ELSE "ready"]
           \/ cmds' = cmds \cup {<<"remove", s>>} /\ stage' = [stage EXCEPT ![s] = "undoing"]
    BY <1>7 DEF Bindings!Checked, Bindings!Undo
  <2>2. \A t \in 1 .. N : stage[t] \in {"undoing", "dead"} => stage'[t] = stage[t] BY <1>0, <2>1
  <2>3. \A t \in 1 .. N : <<"remove", t>> \in cmds' => <<"remove", t>> \in cmds \/ stage'[t] = "undoing"
    <3>1. CASE cmds' = cmds BY <3>1
    <3>2. CASE cmds' = cmds \cup {<<"remove", s>>} /\ stage' = [stage EXCEPT ![s] = "undoing"]
      <4>1. ASSUME NEW t \in 1 .. N, <<"remove", t>> = <<"remove", s>> PROVE t = s BY <4>1
      <4>2. stage'[s] = "undoing" BY <1>0, <3>2
      <4>3. QED BY <3>2, <4>1, <4>2
    <3>3. QED BY <2>1, <3>1, <3>2
  <2>4. QED BY <2>1, <2>2, <2>3, KeptIf
<1>8. CASE Bindings!Undone(s) BY <1>2, <1>8 DEF Bindings!Undone, Bindings!Fail
<1>9. CASE Bindings!Drop(s) BY <1>2, <1>9 DEF Bindings!Drop
<1>10. CASE Bindings!Summarised(s) BY <1>1, <1>10 DEF Bindings!Summarised, Bindings!session, Bindings!desktop
<1>11. CASE Bindings!DogHears(s) BY <1>1, <1>11 DEF Bindings!DogHears, Bindings!session
<1>12. QED BY <1>3, <1>4, <1>5, <1>6, <1>7, <1>8, <1>9, <1>10, <1>11 DEF Bindings!Work

LEMMA AnswerKept ==
    ASSUME BindingBounds, BindInv, BindKept, NEW c \in Bindings!Commands, NEW well \in BOOLEAN,
           Bindings!Answer(c, well), closed' = closed
    PROVE  BindKept'
<1>1. stage \in [1 .. N -> Bindings!Stages] BY DEF BindInv, Bindings!TypeOK, Bindings!Recordings
<1>2. CASE c[1] = "add" /\ stage[c[2]] = "adding"
  <2>1. PICK s \in 1 .. N : c[2] = s BY <1>2 DEF Bindings!Commands, Bindings!Recordings
  <2>2. /\ stage' = [stage EXCEPT ![s] = IF well THEN "checking" ELSE "undoing"]
        /\ cmds' = (cmds \ {c}) \cup (IF well THEN {} ELSE {<<"remove", s>>})
    BY <1>2, <2>1 DEF Bindings!Answer
  <2>3. \A t \in 1 .. N : stage[t] \in {"undoing", "dead"} => stage'[t] = stage[t] BY <1>1, <1>2, <2>1, <2>2
  <2>4. \A t \in 1 .. N : <<"remove", t>> \in cmds' => <<"remove", t>> \in cmds \/ stage'[t] = "undoing"
    BY <1>1, <2>2
  <2>5. QED BY <2>3, <2>4, KeptIf
<1>3. CASE ~ (c[1] = "add" /\ stage[c[2]] = "adding")
  <2>1. stage' = stage /\ cmds' \subseteq cmds BY <1>3 DEF Bindings!Answer
  <2>2. QED BY <2>1, KeptIf
<1>4. QED BY <1>2, <1>3

\* The program's own steps stop the session it holds, or end every session.
LEMMA ProgramKept ==
    ASSUME BindingBounds, BindInv, BindKept,
           \/ Bindings!Begin \/ Bindings!End \/ Bindings!Disable \/ Bindings!Enable \/ Bindings!RestartShortcuts
           \/ Bindings!Registered \/ Bindings!Quit \/ Bindings!Exit \/ Bindings!Crash \/ Bindings!GroupKill
           \/ Bindings!Restart
    PROVE  BindKept'
<1>0. /\ Bindings!TypeOK /\ BindKnown /\ stage \in [1 .. N -> Bindings!Stages] /\ rec \in 0 .. N /\ N \in Nat
      /\ Bindings!Recordings = 1 .. N
  BY DEF BindInv, BindingBounds, Bindings!TypeOK, Bindings!Recordings
<1>1. CASE Bindings!Begin
  <2>1. UNCHANGED <<closed, cmds>> BY <1>1 DEF Bindings!Begin
  <2>2. stage' = stage \/ stage' = [stage EXCEPT ![rec + 1] = "dog"] BY <1>1 DEF Bindings!Begin
  <2>3. \A t \in 1 .. N : stage[t] # "none" => t # rec + 1 BY <1>0 DEF BindKnown
  <2>4. \A t \in 1 .. N : stage[t] \in {"undoing", "dead"} => stage'[t] = stage[t] BY <1>0, <2>2, <2>3
  <2>5. QED BY <2>1, <2>4, KeptIf
<1>2. CASE Bindings!End \/ Bindings!Disable \/ Bindings!Quit
  <2>1. PICK more \in {{}, {<<"all", 0>>}} : Bindings!Stop({slot} \ {0}, more) /\ stage' = stage
    BY <1>2 DEF Bindings!End, Bindings!Disable, Bindings!Quit
  <2>2. {slot} \ {0} \subseteq 1 .. rec BY <1>0 DEF Bindings!TypeOK
  <2>3. closed' = closed \cup ({slot} \ {0}) /\ cmds' \subseteq cmds \cup ({"remove"} \X ({slot} \ {0})) \cup more
    BY <1>0, <2>1, <2>2, StopSends
  <2>4. \A t \in 1 .. N : <<"remove", t>> \in cmds' => <<"remove", t>> \in cmds \/ t \in closed'
    BY <2>1, <2>3
  <2>5. QED BY <2>1, <2>3, <2>4, KeptIf
<1>3. CASE Bindings!Enable \/ Bindings!RestartShortcuts \/ Bindings!Registered
  <2>1. UNCHANGED <<stage, closed, cmds>>
    BY <1>3 DEF Bindings!Enable, Bindings!RestartShortcuts, Bindings!Registered, Bindings!session, Bindings!desktop
  <2>2. QED BY <2>1, KeptIf
<1>4. CASE Bindings!Exit \/ Bindings!Crash \/ Bindings!GroupKill
  <2>1. Bindings!Gone BY <1>4 DEF Bindings!Exit, Bindings!Crash, Bindings!GroupKill
  <2>2. UNCHANGED <<closed, cmds>> BY <2>1 DEF Bindings!Gone
  <2>3. \A t \in 1 .. N : stage[t] \in {"undoing", "dead"} => stage'[t] = "dead" BY <1>0, <2>1, GoneSessions
  <2>4. QED BY <2>2, <2>3, KeptIf
<1>5. CASE Bindings!Restart
  <2>1. UNCHANGED <<stage, closed>> /\ cmds' \subseteq cmds \cup {<<"all", 0>>} BY <1>5 DEF Bindings!Restart, Bindings!session
  <2>2. QED BY <2>1, KeptIf
<1>6. QED BY <1>1, <1>2, <1>3, <1>4, <1>5

LEMMA KeptStep == ASSUME BindingBounds, BindInv, BindKept, [Bindings!Next]_(Bindings!vars) PROVE BindKept'
<1>1. CASE UNCHANGED Bindings!vars
  BY <1>1, KeptIf DEF Bindings!vars, Bindings!session, Bindings!desktop
<1>2. ASSUME NEW c \in Bindings!Commands, Bindings!Lands(c) \/ Bindings!TimesOut(c) PROVE BindKept'
  BY <1>2, AnswerKept DEF Bindings!Lands, Bindings!TimesOut
<1>3. QED BY <1>1, <1>2, WorkKept, ProgramKept DEF Bindings!Next, Bindings!Recordings

\* What Hyprland holds changes only as one of its processes ends.
LEMMA ReadyStep == ASSUME BindingBounds, BindInv, BindKept, [Bindings!Next]_(Bindings!vars) PROVE Bindings!ReadyKeeps
<1>1. ASSUME bound' = bound PROVE Bindings!ReadyKeeps BY <1>1 DEF Bindings!ReadyKeeps
<1>2. ASSUME NEW c \in cmds, NEW well \in BOOLEAN, bound' \in {bound, Bindings!Effect(c)}, Bindings!Answer(c, well)
      PROVE  Bindings!ReadyKeeps
  <2> SUFFICES ASSUME NEW s \in 1 .. N, stage[s] = "ready", s \notin closed, s \in bound, s \notin bound'
               PROVE  \E d \in cmds \ cmds' : d = <<"all", 0>> \/ (d[1] = "add" /\ d[2] # s)
    BY DEF Bindings!ReadyKeeps, Bindings!Recordings
  <2>1. c \in Bindings!Commands /\ bound' = Bindings!Effect(c) BY <1>2 DEF BindInv, Bindings!TypeOK
  <2>2. CASE c = <<"all", 0>>
    <3>1. cmds' = cmds \ {c} BY <1>2, <2>2 DEF Bindings!Answer
    <3>2. QED BY <2>2, <3>1
  <2>3. CASE c[1] = "add"
    <3>1. bound' = {c[2]} BY <2>1, <2>3 DEF Bindings!Effect, Bindings!AddScript
    <3>2. cmds' \subseteq (cmds \ {c}) \cup {<<"remove", c[2]>>} BY <1>2 DEF Bindings!Answer
    <3>3. c # <<"remove", c[2]>> BY <2>3
    <3>4. QED BY <2>3, <3>1, <3>2, <3>3
  <2>4. CASE c # <<"all", 0>> /\ c[1] # "add"
    <3>1. PICK t \in 1 .. N : c = <<"remove", t>> \/ c = <<"clean", t>>
      BY <2>1, <2>4 DEF Bindings!Commands, Bindings!Recordings
    <3>2. bound' = bound \ {t} BY <2>1, <3>1 DEF Bindings!Effect, Bindings!RemoveScript
    <3>3. t = s BY <3>2
    <3>4. QED BY <3>1, <3>3 DEF BindKept, BindInv, BindKnown
  <2>5. QED BY <2>2, <2>3, <2>4
<1>3. ASSUME NEW c \in Bindings!Commands, Bindings!Lands(c) \/ Bindings!TimesOut(c) PROVE Bindings!ReadyKeeps
  BY <1>2, <1>3 DEF Bindings!Lands, Bindings!TimesOut
<1>4. ASSUME NEW s \in 1 .. N, Bindings!Work(s) PROVE bound' = bound
  BY <1>4 DEF Bindings!Work, Bindings!WatchdogReady, Bindings!WatchdogFails, Bindings!Install, Bindings!Asked,
              Bindings!Checked, Bindings!Undone, Bindings!Drop, Bindings!Summarised, Bindings!DogHears, Bindings!desktop
<1>5. ASSUME Bindings!Gone PROVE bound' = bound BY <1>5 DEF Bindings!Gone
<1>6. UNCHANGED Bindings!vars => bound' = bound BY DEF Bindings!vars, Bindings!desktop
<1>7. QED
  BY <1>1, <1>3, <1>4, <1>5, <1>6
  DEF Bindings!Next, Bindings!Recordings, Bindings!Begin, Bindings!End, Bindings!Disable, Bindings!Enable,
      Bindings!RestartShortcuts, Bindings!Registered, Bindings!Quit, Bindings!Exit, Bindings!Crash,
      Bindings!GroupKill, Bindings!Restart, Bindings!desktop

\* The invariant of the bindings holds of every behaviour (screen_annotation/session.rs, hyprland.rs, watchdog.rs).
THEOREM BindingsInvariant == BindingBounds /\ Bindings!Spec => []BindInv
<1>1. BindingBounds /\ Bindings!Init => BindInv BY BindBegins
<1>2. BindingBounds /\ BindInv /\ [Bindings!Next]_(Bindings!vars) => BindInv' BY BindingsStep
<1>3. BindingBounds => BindingBounds' BY DEF BindingBounds
<1>4. QED BY <1>1, <1>2, <1>3, PTL DEF Bindings!Spec

\* The state of the bindings is well formed: one session at most can be drawn on, and it belongs to the recording
\* under way (AnnotationBindings' TypeOK).
THEOREM BindingsTypeCorrect == BindingBounds /\ Bindings!Spec => []Bindings!TypeOK
<1>1. BindInv => Bindings!TypeOK BY DEF BindInv
<1>2. QED BY <1>1, BindingsInvariant, PTL

\* Bindings Hyprland holds for a session of the running program have a watchdog that will still remove them,
\* whatever order Stop, the setting, a crash and the addition met in, as long as hyprctl does not fail
\* (screen_annotation/session.rs, watchdog.rs).
THEOREM BoundAreWatched == BindingBounds /\ Bindings!Spec => []Bindings!BoundIsWatched
<1>1. BindingBounds /\ BindInv => Bindings!BoundIsWatched
  <2>1. SUFFICES ASSUME BindingBounds, BindInv, spent.faults = 0, NEW s \in bound, stage[s] # "dead"
                 PROVE  dog[s] = "waiting" \/ <<"clean", s>> \in cmds
    BY DEF Bindings!BoundIsWatched
  <2>2. s \in 1 .. N /\ stage[s] \in Bindings!Stages
    BY <2>1 DEF BindingBounds, BindInv, Bindings!TypeOK, Bindings!Recordings
  <2>3. stage[s] \in Watched \cup {"dropped"} BY <2>1, <2>2 DEF BindInv, BindKnown, Bindings!Stages, Watched
  <2>4. QED BY <2>1, <2>2, <2>3 DEF BindInv, BindWatch
<1>2. BindingBounds => BindingBounds' BY DEF BindingBounds
<1>3. QED BY <1>1, <1>2, BindingsInvariant, PTL

\* The bindings of a session that takes ink are lost only to the cleanup of a start or of the setting, or to the
\* addition of another session: whatever was interrupted, whatever failed, and however the program ended, no
\* removal of a stop and no watchdog takes them (screen_annotation/session.rs, hyprland.rs).
THEOREM ReadyAreKept == BindingBounds /\ Bindings!Spec => Bindings!ReadyKeepsBound
<1>1. BindingBounds /\ Bindings!Init => BindInv /\ BindKept BY BindBegins
<1>2. BindingBounds /\ BindInv /\ BindKept /\ [Bindings!Next]_(Bindings!vars)
        => BindInv' /\ BindKept' /\ [Bindings!ReadyKeeps]_(Bindings!vars)
  BY BindingsStep, KeptStep, ReadyStep
<1>3. BindingBounds => BindingBounds' BY DEF BindingBounds
<1>4. QED BY <1>1, <1>2, <1>3, PTL DEF Bindings!Spec, Bindings!ReadyKeepsBound

-----------------------------------------------------------------------------
(* The bundle of a recording.                                                *)

\* The marks are numbered in turn, and there is room for every click that is being read.
MarksInv == \E k \in Nat : marks = 1..k /\ k + pins <= MaxMarks

\* The files that are written before the one the thread is at.
Behind(w) ==
    CASE w = "sheet" -> {"image"} [] w = "data" -> {"image", "sheet"} [] w = "summary" -> {"image", "sheet", "data"}
      [] w = "written" -> Bundle!Parts [] OTHER -> {}

\* How the session, the summary and the program go together.
TaskInv ==
    /\ task \in {"deleting", "removing"} => up = "closing"
    /\ task \in {"collecting", "reserving", "writing"} => up = "up" /\ phase = "processing" /\ holder = "summary"
    /\ up = "up" /\ phase = "recording" => task = "none"
    /\ up = "down" => task = "dropped" /\ writer = "none" /\ holder = "none"
    /\ up = "up" /\ task = "dropped" => row # "capture" /\ phase \in {"done", "cancelled"} /\ writer = "none"
    /\ phase = "delivered" => task \in {"without", "dropped"}
    /\ holder = "application" => phase = "recording" /\ task = "none" /\ handed = NoneOf
\* What there is of the bundle, for each point of the summary.
BundleAt ==
    /\ task \in {"none", "collecting", "reserving"} => writer = "none" /\ bundle = {} /\ row = "none" /\ ~ told
    /\ task \in {"writing", "deleting"} =>
        /\ writer # "none" /\ row = "capture" /\ ~ told /\ "dir" \in bundle
        /\ writer # "failed" => bundle = {"dir"} \cup Behind(writer)
    /\ task = "removing" => writer # "none" /\ row = "capture" /\ ~ told /\ "dir" \in bundle
    /\ task = "without" => (row = "capture" => told) /\ writer \in {"none", "written", "failed"}
\* A directory holds no more than the thread has written; an image in it was not removed, and then nothing after it was.
BundleInv ==
    /\ told => bundle = Bundle!Parts /\ row # "none" /\ writer \in {"written", "none"} /\ task \in {"without", "dropped"}
    /\ row \in Bundle!Conversations => bundle = Bundle!Parts /\ row \in convs /\ task \in {"without", "dropped"}
    /\ bundle # {} => row # "none" /\ "dir" \in bundle
    /\ {"image", "summary"} \subseteq bundle => bundle = Bundle!Parts
    /\ writer \in {"load", "images", "sheet", "data", "summary"} => bundle \subseteq {"dir"} \cup Behind(writer)
    /\ writer \in {"load", "images", "sheet", "data", "summary", "written"} /\ "image" \in bundle =>
        {"dir"} \cup Behind(writer) \subseteq bundle
\* What was handed over.
HandedInv ==
    /\ Bundle!Sealed /\ ~ late => handed.unread = 0 /\ handed.marks = marks
    /\ spent.toggles = 0 => Bundle!FramesStand

BundleSound == Bundle!TypeOK /\ MarksInv /\ TaskInv /\ BundleAt /\ BundleInv /\ HandedInv

\* The next mark has the next number.
LEMMA NextMark ==
    ASSUME NEW k \in Nat, marks = 1..k
    PROVE  Bundle!NewMark = k + 1
<1>1. Cardinality(1..k) = k BY FS_Interval
<1>2. Bundle!Cardinality(1..k) = Cardinality(1..k) BY DEF Bundle!Cardinality, Cardinality
<1>3. QED BY <1>1, <1>2 DEF Bundle!NewMark

\* Marks numbered in turn are counted by the last number.
LEMMA MarksCount ==
    ASSUME NEW k \in Nat, marks = 1..k
    PROVE  Bundle!Cardinality(marks) = k
<1>1. Cardinality(1..k) = k BY FS_Interval
<1>2. QED BY <1>1 DEF Bundle!Cardinality, Cardinality

\* Nothing is marked and nothing stored before the recording.
LEMMA BundleBegins == ASSUME Bundle!ConstantsAssumption, Bundle!Init PROVE BundleSound
<1>1. MarksInv
  <2>1. marks = 1..0 /\ 0 + pins <= MaxMarks /\ 0 \in Nat BY DEF Bundle!Init, Bundle!ConstantsAssumption
  <2>2. QED BY <2>1 DEF MarksInv
<1>2. Bundle!TypeOK
  <2>1. spent \in [toggles : 0 .. MaxToggles, exits : 0 .. MaxExits, faults : 0 .. MaxFaults] /\ pins \in 0..MaxMarks
    BY DEF Bundle!Init, Bundle!ConstantsAssumption
  <2>2. QED BY <2>1 DEF Bundle!Init, Bundle!TypeOK, Bundle!Conversations
<1>3. TaskInv /\ BundleAt BY DEF Bundle!Init, TaskInv, BundleAt
<1>4. BundleInv BY DEF Bundle!Init, BundleInv, Bundle!Conversations
<1>5. HandedInv BY DEF Bundle!Init, HandedInv, Bundle!Sealed, Bundle!FramesStand
<1>6. QED BY <1>1, <1>2, <1>3, <1>4, <1>5 DEF BundleSound

\* A stroke begins: it is numbered next.
LEMMA BundleDrawKeeps ==
    ASSUME BundleSound, Bundle!Draw
    PROVE  BundleSound'
<1>0. /\ Bundle!ConstantsAssumption /\ Bundle!TypeOK /\ MarksInv /\ TaskInv /\ BundleAt /\ BundleInv /\ HandedInv
  BY DEF BundleSound, Bundle!TypeOK
<1>1. PICK k \in Nat : marks = 1..k /\ k + pins <= MaxMarks BY <1>0 DEF MarksInv
<1>2. Bundle!TypeOK' /\ MarksInv'
  <2>1. Bundle!NewMark = k + 1 BY <1>1, NextMark
  <2>2. pins \in 0..MaxMarks /\ MaxMarks \in Nat BY <1>0 DEF Bundle!TypeOK, Bundle!ConstantsAssumption
  <2>3. \/ marks' = marks /\ pins' \in 0..pins /\ grabs' = grabs
        \/ marks' = 1..(k + 1) /\ k + 1 + pins' <= MaxMarks /\ pins' \in 0..pins /\ grabs' = grabs \cup {k + 1}
    <3>1. Bundle!Cardinality(marks) = k
      <4>1. Cardinality(1..k) = k BY FS_Interval
      <4>2. QED BY <4>1, <1>1 DEF Bundle!Cardinality, Cardinality
    <3>2. marks \cup {k + 1} = 1..(k + 1) BY <1>1
    <3>3. pins' = pins BY DEF Bundle!Draw
    <3>4. pins' \in 0..pins /\ (k + pins < MaxMarks => k + 1 + pins' <= MaxMarks) BY <1>1, <2>2, <3>3
    <3>5. QED BY <1>1, <2>1, <3>1, <3>2, <3>4 DEF Bundle!Draw
  <2>4. marks \subseteq marks' /\ marks' \subseteq 1..MaxMarks /\ grabs' \subseteq marks'
    BY <1>0, <1>1, <2>2, <2>3 DEF Bundle!TypeOK
  <2>5. MarksInv'
    <3>1. k + 1 \in Nat OBVIOUS
    <3>2. QED BY <1>1, <2>2, <2>3, <3>1 DEF MarksInv
  <2>6. Bundle!TypeOK' BY <1>0, <2>2, <2>3, <2>4 DEF Bundle!TypeOK, Bundle!Draw, Bundle!capture,
         Bundle!writing, Bundle!stored
  <2>7. QED BY <2>5, <2>6
<1> USE DEF Bundle!Draw, Bundle!NewMark, Bundle!capture, Bundle!writing, Bundle!stored
<1>3. TaskInv'
  BY <1>0 DEF TaskInv, Bundle!TypeOK, Bundle!Conversations, BundleAt
<1>4. BundleAt'
  BY <1>0 DEF TaskInv, BundleAt, BundleInv, Bundle!TypeOK, Behind, Bundle!Conversations, Bundle!Parts
<1>5. BundleInv'
  BY <1>0 DEF TaskInv, BundleAt, BundleInv, Bundle!TypeOK, Behind, Bundle!Conversations, Bundle!Parts
<1>6. HandedInv'
  BY <1>0 DEF TaskInv, BundleAt, HandedInv, Bundle!TypeOK, Bundle!Sealed, Bundle!FramesStand
<1>7. QED BY <1>2, <1>3, <1>4, <1>5, <1>6 DEF BundleSound

\* A click takes its place among the marks before its pointer is read.
LEMMA BundleClickKeeps ==
    ASSUME BundleSound, Bundle!Click
    PROVE  BundleSound'
<1>0. /\ Bundle!ConstantsAssumption /\ Bundle!TypeOK /\ MarksInv /\ TaskInv /\ BundleAt /\ BundleInv /\ HandedInv
  BY DEF BundleSound, Bundle!TypeOK
<1>1. PICK k \in Nat : marks = 1..k /\ k + pins <= MaxMarks BY <1>0 DEF MarksInv
<1> USE DEF Bundle!Click, Bundle!capture, Bundle!writing, Bundle!stored
<1>2. Bundle!TypeOK' /\ MarksInv'
  <2>1. MarksInv'
    <3>1. marks' = marks /\ k + pins' <= MaxMarks
      BY <1>0, <1>1, MarksCount DEF Bundle!TypeOK, Bundle!ConstantsAssumption
    <3>2. QED BY <1>1, <3>1 DEF MarksInv
  <2>2. Bundle!TypeOK'
    <3>1. pins' \in 0..MaxMarks BY <1>0, <1>1, MarksCount DEF Bundle!TypeOK, Bundle!ConstantsAssumption
    <3>2. QED BY <1>0, <3>1 DEF Bundle!TypeOK, Bundle!Conversations
  <2>3. QED BY <2>1, <2>2
<1>3. TaskInv'
  BY <1>0 DEF TaskInv, Bundle!TypeOK, Bundle!Conversations, BundleAt
<1>4. BundleAt'
  BY <1>0 DEF TaskInv, BundleAt, BundleInv, Bundle!TypeOK, Behind, Bundle!Conversations, Bundle!Parts
<1>5. BundleInv'
  BY <1>0 DEF TaskInv, BundleAt, BundleInv, Bundle!TypeOK, Behind, Bundle!Conversations, Bundle!Parts
<1>6. HandedInv'
  BY <1>0 DEF TaskInv, BundleAt, HandedInv, Bundle!TypeOK, Bundle!Sealed, Bundle!FramesStand
<1>7. QED BY <1>2, <1>3, <1>4, <1>5, <1>6 DEF BundleSound

\* A pin takes the place its click held.
LEMMA BundlePinnedKeeps ==
    ASSUME BundleSound, Bundle!Pinned
    PROVE  BundleSound'
<1>0. /\ Bundle!ConstantsAssumption /\ Bundle!TypeOK /\ MarksInv /\ TaskInv /\ BundleAt /\ BundleInv /\ HandedInv
  BY DEF BundleSound, Bundle!TypeOK
<1>1. PICK k \in Nat : marks = 1..k /\ k + pins <= MaxMarks BY <1>0 DEF MarksInv
<1>2. Bundle!TypeOK' /\ MarksInv'
  <2>1. Bundle!NewMark = k + 1 BY <1>1, NextMark
  <2>2. pins \in 0..MaxMarks /\ MaxMarks \in Nat BY <1>0 DEF Bundle!TypeOK, Bundle!ConstantsAssumption
  <2>3. \/ marks' = marks /\ pins' \in 0..pins /\ grabs' = grabs
        \/ marks' = 1..(k + 1) /\ k + 1 + pins' <= MaxMarks /\ pins' \in 0..pins /\ grabs' = grabs \cup {k + 1}
    <3>1. Bundle!Cardinality(marks) = k
      <4>1. Cardinality(1..k) = k BY FS_Interval
      <4>2. QED BY <4>1, <1>1 DEF Bundle!Cardinality, Cardinality
    <3>2. marks \cup {k + 1} = 1..(k + 1) BY <1>1
    <3>3. pins > 0 /\ pins' = pins - 1 BY DEF Bundle!Pinned
    <3>4. pins' \in 0..pins /\ k + 1 + pins' <= MaxMarks BY <1>1, <2>2, <3>3
    <3>5. QED BY <1>1, <2>1, <3>1, <3>2, <3>4 DEF Bundle!Pinned
  <2>4. marks \subseteq marks' /\ marks' \subseteq 1..MaxMarks /\ grabs' \subseteq marks'
    BY <1>0, <1>1, <2>2, <2>3 DEF Bundle!TypeOK
  <2>5. MarksInv'
    <3>1. k + 1 \in Nat OBVIOUS
    <3>2. QED BY <1>1, <2>2, <2>3, <3>1 DEF MarksInv
  <2>6. Bundle!TypeOK' BY <1>0, <2>2, <2>3, <2>4 DEF Bundle!TypeOK, Bundle!Pinned, Bundle!Sealed,
         Bundle!capture, Bundle!writing, Bundle!stored
  <2>7. QED BY <2>5, <2>6
<1> USE DEF Bundle!Pinned, Bundle!NewMark, Bundle!Sealed, Bundle!capture, Bundle!writing, Bundle!stored
<1>3. TaskInv'
  BY <1>0 DEF TaskInv, Bundle!TypeOK, Bundle!Conversations, BundleAt
<1>4. BundleAt'
  BY <1>0 DEF TaskInv, BundleAt, BundleInv, Bundle!TypeOK, Behind, Bundle!Conversations, Bundle!Parts
<1>5. BundleInv'
  BY <1>0 DEF TaskInv, BundleAt, BundleInv, Bundle!TypeOK, Behind, Bundle!Conversations, Bundle!Parts
<1>6. HandedInv'
  BY <1>0 DEF TaskInv, BundleAt, HandedInv, Bundle!TypeOK, Bundle!Sealed, Bundle!FramesStand
<1>7. QED BY <1>2, <1>3, <1>4, <1>5, <1>6 DEF BundleSound

\* A late image adds nothing to what was handed over.
LEMMA BundleCapturedKeeps ==
    ASSUME BundleSound, NEW m \in grabs, Bundle!Captured(m)
    PROVE  BundleSound'
<1>0. /\ Bundle!ConstantsAssumption /\ Bundle!TypeOK /\ MarksInv /\ TaskInv /\ BundleAt /\ BundleInv /\ HandedInv
  BY DEF BundleSound, Bundle!TypeOK
<1>1. PICK k \in Nat : marks = 1..k /\ k + pins <= MaxMarks BY <1>0 DEF MarksInv
<1> USE DEF Bundle!Captured, Bundle!Sealed, Bundle!capture, Bundle!writing, Bundle!stored
<1>2. Bundle!TypeOK' /\ MarksInv'
  <2>1. MarksInv'
    <3>1. marks' = marks /\ pins' = pins
      BY <1>0, <1>1 DEF Bundle!TypeOK
    <3>2. QED BY <1>1, <3>1 DEF MarksInv
  <2>2. Bundle!TypeOK' BY <1>0 DEF Bundle!TypeOK, Bundle!ConstantsAssumption, Bundle!Parts,
         Bundle!Conversations, TaskInv, BundleAt
  <2>3. QED BY <2>1, <2>2
<1>3. TaskInv'
  BY <1>0 DEF TaskInv, Bundle!TypeOK, Bundle!Conversations, BundleAt
<1>4. BundleAt'
  BY <1>0 DEF TaskInv, BundleAt, BundleInv, Bundle!TypeOK, Behind, Bundle!Conversations, Bundle!Parts
<1>5. BundleInv'
  BY <1>0 DEF TaskInv, BundleAt, BundleInv, Bundle!TypeOK, Behind, Bundle!Conversations, Bundle!Parts
<1>6. HandedInv'
  BY <1>0 DEF TaskInv, BundleAt, HandedInv, Bundle!TypeOK, Bundle!Sealed, Bundle!FramesStand
<1>7. QED BY <1>2, <1>3, <1>4, <1>5, <1>6 DEF BundleSound

\* The summary takes the session over, or nobody does.
LEMMA BundleStopKeeps ==
    ASSUME BundleSound, Bundle!Stop
    PROVE  BundleSound'
<1>0. /\ Bundle!ConstantsAssumption /\ Bundle!TypeOK /\ MarksInv /\ TaskInv /\ BundleAt /\ BundleInv /\ HandedInv
  BY DEF BundleSound, Bundle!TypeOK
<1>1. PICK k \in Nat : marks = 1..k /\ k + pins <= MaxMarks BY <1>0 DEF MarksInv
<1> USE DEF Bundle!Stop, Bundle!HasMarks, Bundle!capture, Bundle!writing, Bundle!stored
<1>2. Bundle!TypeOK' /\ MarksInv'
  <2>1. MarksInv'
    <3>1. marks' = marks /\ pins' = pins
      BY <1>0, <1>1 DEF Bundle!TypeOK
    <3>2. QED BY <1>1, <3>1 DEF MarksInv
  <2>2. Bundle!TypeOK' BY <1>0 DEF Bundle!TypeOK, Bundle!ConstantsAssumption, Bundle!Parts,
         Bundle!Conversations, TaskInv, BundleAt
  <2>3. QED BY <2>1, <2>2
<1>3. TaskInv'
  BY <1>0 DEF TaskInv, Bundle!TypeOK, Bundle!Conversations, BundleAt
<1>4. BundleAt'
  BY <1>0 DEF TaskInv, BundleAt, BundleInv, Bundle!TypeOK, Behind, Bundle!Conversations, Bundle!Parts
<1>5. BundleInv'
  BY <1>0 DEF TaskInv, BundleAt, BundleInv, Bundle!TypeOK, Behind, Bundle!Conversations, Bundle!Parts
<1>6. HandedInv'
  BY <1>0 DEF TaskInv, BundleAt, HandedInv, Bundle!TypeOK, Bundle!Sealed, Bundle!FramesStand
<1>7. QED BY <1>2, <1>3, <1>4, <1>5, <1>6 DEF BundleSound

\* A cancelled recording keeps no image.
LEMMA BundleCancelKeeps ==
    ASSUME BundleSound, Bundle!Cancel
    PROVE  BundleSound'
<1>0. /\ Bundle!ConstantsAssumption /\ Bundle!TypeOK /\ MarksInv /\ TaskInv /\ BundleAt /\ BundleInv /\ HandedInv
  BY DEF BundleSound, Bundle!TypeOK
<1>1. PICK k \in Nat : marks = 1..k /\ k + pins <= MaxMarks BY <1>0 DEF MarksInv
<1> USE DEF Bundle!Cancel, Bundle!capture, Bundle!writing, Bundle!stored
<1>2. Bundle!TypeOK' /\ MarksInv'
  <2>1. MarksInv'
    <3>1. marks' = marks /\ pins' = pins
      BY <1>0, <1>1 DEF Bundle!TypeOK
    <3>2. QED BY <1>1, <3>1 DEF MarksInv
  <2>2. Bundle!TypeOK' BY <1>0 DEF Bundle!TypeOK, Bundle!ConstantsAssumption, Bundle!Parts,
         Bundle!Conversations, TaskInv, BundleAt
  <2>3. QED BY <2>1, <2>2
<1>3. TaskInv'
  BY <1>0 DEF TaskInv, Bundle!TypeOK, Bundle!Conversations, BundleAt
<1>4. BundleAt'
  BY <1>0 DEF TaskInv, BundleAt, BundleInv, Bundle!TypeOK, Behind, Bundle!Conversations, Bundle!Parts
<1>5. BundleInv'
  BY <1>0 DEF TaskInv, BundleAt, BundleInv, Bundle!TypeOK, Behind, Bundle!Conversations, Bundle!Parts
<1>6. HandedInv'
  BY <1>0 DEF TaskInv, BundleAt, HandedInv, Bundle!TypeOK, Bundle!Sealed, Bundle!FramesStand
<1>7. QED BY <1>2, <1>3, <1>4, <1>5, <1>6 DEF BundleSound

\* The setting takes the images of every session but the application's.
LEMMA BundleSwitchOffKeeps ==
    ASSUME BundleSound, Bundle!SwitchOff
    PROVE  BundleSound'
<1>0. /\ Bundle!ConstantsAssumption /\ Bundle!TypeOK /\ MarksInv /\ TaskInv /\ BundleAt /\ BundleInv /\ HandedInv
  BY DEF BundleSound, Bundle!TypeOK
<1>1. PICK k \in Nat : marks = 1..k /\ k + pins <= MaxMarks BY <1>0 DEF MarksInv
<1> USE DEF Bundle!SwitchOff, Bundle!Spend, Bundle!capture, Bundle!writing, Bundle!stored
<1>2. Bundle!TypeOK' /\ MarksInv'
  <2>1. MarksInv'
    <3>1. marks' = marks /\ pins' = pins
      BY <1>0, <1>1 DEF Bundle!TypeOK
    <3>2. QED BY <1>1, <3>1 DEF MarksInv
  <2>2. Bundle!TypeOK' BY <1>0 DEF Bundle!TypeOK, Bundle!ConstantsAssumption, Bundle!Parts,
         Bundle!Conversations, TaskInv, BundleAt
  <2>3. QED BY <2>1, <2>2
<1>3. TaskInv'
  BY <1>0 DEF TaskInv, Bundle!TypeOK, Bundle!Conversations, BundleAt
<1>4. BundleAt'
  BY <1>0 DEF TaskInv, BundleAt, BundleInv, Bundle!TypeOK, Behind, Bundle!Conversations, Bundle!Parts
<1>5. BundleInv'
  BY <1>0 DEF TaskInv, BundleAt, BundleInv, Bundle!TypeOK, Behind, Bundle!Conversations, Bundle!Parts
<1>6. HandedInv'
  BY <1>0 DEF TaskInv, BundleAt, HandedInv, Bundle!TypeOK, Bundle!Sealed, Bundle!FramesStand
<1>7. QED BY <1>2, <1>3, <1>4, <1>5, <1>6 DEF BundleSound

\* The summary begins only while the session is held for it.
LEMMA BundleRecognisedKeeps ==
    ASSUME BundleSound, Bundle!Recognised
    PROVE  BundleSound'
<1>0. /\ Bundle!ConstantsAssumption /\ Bundle!TypeOK /\ MarksInv /\ TaskInv /\ BundleAt /\ BundleInv /\ HandedInv
  BY DEF BundleSound, Bundle!TypeOK
<1>1. PICK k \in Nat : marks = 1..k /\ k + pins <= MaxMarks BY <1>0 DEF MarksInv
<1> USE DEF Bundle!Recognised, Bundle!capture, Bundle!writing, Bundle!stored
<1>2. Bundle!TypeOK' /\ MarksInv'
  <2>1. MarksInv'
    <3>1. marks' = marks /\ pins' = pins
      BY <1>0, <1>1 DEF Bundle!TypeOK
    <3>2. QED BY <1>1, <3>1 DEF MarksInv
  <2>2. Bundle!TypeOK' BY <1>0 DEF Bundle!TypeOK, Bundle!ConstantsAssumption, Bundle!Parts,
         Bundle!Conversations, TaskInv, BundleAt
  <2>3. QED BY <2>1, <2>2
<1>3. TaskInv'
  BY <1>0 DEF TaskInv, Bundle!TypeOK, Bundle!Conversations, BundleAt
<1>4. BundleAt'
  BY <1>0 DEF TaskInv, BundleAt, BundleInv, Bundle!TypeOK, Behind, Bundle!Conversations, Bundle!Parts
<1>5. BundleInv'
  BY <1>0 DEF TaskInv, BundleAt, BundleInv, Bundle!TypeOK, Behind, Bundle!Conversations, Bundle!Parts
<1>6. HandedInv'
  BY <1>0 DEF TaskInv, BundleAt, HandedInv, Bundle!TypeOK, Bundle!Sealed, Bundle!FramesStand
<1>7. QED BY <1>2, <1>3, <1>4, <1>5, <1>6 DEF BundleSound

\* What is handed over is whole unless the wait ran out.
LEMMA BundleCollectKeeps ==
    ASSUME BundleSound, NEW t \in BOOLEAN, Bundle!Collect(t)
    PROVE  BundleSound'
<1>0. /\ Bundle!ConstantsAssumption /\ Bundle!TypeOK /\ MarksInv /\ TaskInv /\ BundleAt /\ BundleInv /\ HandedInv
  BY DEF BundleSound, Bundle!TypeOK
<1>1. PICK k \in Nat : marks = 1..k /\ k + pins <= MaxMarks BY <1>0 DEF MarksInv
<1> USE DEF Bundle!Collect, Bundle!TimesOut, Bundle!Idle, Bundle!capture, Bundle!writing, Bundle!stored
<1>2. Bundle!TypeOK' /\ MarksInv'
  <2>1. MarksInv'
    <3>1. marks' = marks /\ pins' = pins
      BY <1>0, <1>1 DEF Bundle!TypeOK
    <3>2. QED BY <1>1, <3>1 DEF MarksInv
  <2>2. Bundle!TypeOK' BY <1>0 DEF Bundle!TypeOK, Bundle!ConstantsAssumption, Bundle!Parts,
         Bundle!Conversations, TaskInv, BundleAt
  <2>3. QED BY <2>1, <2>2
<1>3. TaskInv'
  BY <1>0 DEF TaskInv, Bundle!TypeOK, Bundle!Conversations, BundleAt
<1>4. BundleAt'
  BY <1>0 DEF TaskInv, BundleAt, BundleInv, Bundle!TypeOK, Behind, Bundle!Conversations, Bundle!Parts
<1>5. BundleInv'
  BY <1>0 DEF TaskInv, BundleAt, BundleInv, Bundle!TypeOK, Behind, Bundle!Conversations, Bundle!Parts
<1>6. HandedInv'
  BY <1>0 DEF TaskInv, BundleAt, HandedInv, Bundle!TypeOK, Bundle!Sealed, Bundle!FramesStand
<1>7. QED BY <1>2, <1>3, <1>4, <1>5, <1>6 DEF BundleSound

\* A directory begins empty, with a row.
LEMMA BundleReserveKeeps ==
    ASSUME BundleSound, Bundle!Reserve
    PROVE  BundleSound'
<1>0. /\ Bundle!ConstantsAssumption /\ Bundle!TypeOK /\ MarksInv /\ TaskInv /\ BundleAt /\ BundleInv /\ HandedInv
  BY DEF BundleSound, Bundle!TypeOK
<1>1. PICK k \in Nat : marks = 1..k /\ k + pins <= MaxMarks BY <1>0 DEF MarksInv
<1> USE DEF Bundle!Reserve, Bundle!Fault, Bundle!Spend, Bundle!capture, Bundle!writing, Bundle!stored
<1>2. Bundle!TypeOK' /\ MarksInv'
  <2>1. MarksInv'
    <3>1. marks' = marks /\ pins' = pins
      BY <1>0, <1>1 DEF Bundle!TypeOK
    <3>2. QED BY <1>1, <3>1 DEF MarksInv
  <2>2. Bundle!TypeOK'
    <3>1. spent' \in [toggles : 0 .. MaxToggles, exits : 0 .. MaxExits, faults : 0 .. MaxFaults]
      BY <1>0 DEF Bundle!TypeOK, Bundle!ConstantsAssumption
    <3>2. bundle' \subseteq Bundle!Parts BY <1>0 DEF Bundle!TypeOK, Bundle!Parts
    <3>3. QED BY <1>0, <3>1, <3>2 DEF Bundle!TypeOK, Bundle!Conversations
  <2>3. QED BY <2>1, <2>2
<1>3. TaskInv'
  BY <1>0 DEF TaskInv, Bundle!TypeOK, Bundle!Conversations, BundleAt
<1>4. BundleAt'
  BY <1>0 DEF TaskInv, BundleAt, BundleInv, Bundle!TypeOK, Behind, Bundle!Conversations, Bundle!Parts
<1>5. BundleInv'
  BY <1>0 DEF TaskInv, BundleAt, BundleInv, Bundle!TypeOK, Behind, Bundle!Conversations, Bundle!Parts
<1>6. HandedInv'
  BY <1>0 DEF TaskInv, BundleAt, HandedInv, Bundle!TypeOK, Bundle!Sealed, Bundle!FramesStand
<1>7. QED BY <1>2, <1>3, <1>4, <1>5, <1>6 DEF BundleSound

\* The thread reads the images before it writes.
LEMMA BundleLoadKeeps ==
    ASSUME BundleSound, Bundle!Load
    PROVE  BundleSound'
<1>0. /\ Bundle!ConstantsAssumption /\ Bundle!TypeOK /\ MarksInv /\ TaskInv /\ BundleAt /\ BundleInv /\ HandedInv
  BY DEF BundleSound, Bundle!TypeOK
<1>1. PICK k \in Nat : marks = 1..k /\ k + pins <= MaxMarks BY <1>0 DEF MarksInv
<1> USE DEF Bundle!Load, Bundle!capture, Bundle!writing, Bundle!stored
<1>2. Bundle!TypeOK' /\ MarksInv'
  <2>1. MarksInv'
    <3>1. marks' = marks /\ pins' = pins
      BY <1>0, <1>1 DEF Bundle!TypeOK
    <3>2. QED BY <1>1, <3>1 DEF MarksInv
  <2>2. Bundle!TypeOK' BY <1>0 DEF Bundle!TypeOK, Bundle!ConstantsAssumption, Bundle!Parts,
         Bundle!Conversations, TaskInv, BundleAt
  <2>3. QED BY <2>1, <2>2
<1>3. TaskInv'
  BY <1>0 DEF TaskInv, Bundle!TypeOK, Bundle!Conversations, BundleAt
<1>4. BundleAt'
  BY <1>0 DEF TaskInv, BundleAt, BundleInv, Bundle!TypeOK, Behind, Bundle!Conversations, Bundle!Parts
<1>5. BundleInv'
  BY <1>0 DEF TaskInv, BundleAt, BundleInv, Bundle!TypeOK, Behind, Bundle!Conversations, Bundle!Parts
<1>6. HandedInv'
  BY <1>0 DEF TaskInv, BundleAt, HandedInv, Bundle!TypeOK, Bundle!Sealed, Bundle!FramesStand
<1>7. QED BY <1>2, <1>3, <1>4, <1>5, <1>6 DEF BundleSound

\* Each file follows those before it.
LEMMA BundleWriteKeeps ==
    ASSUME BundleSound, Bundle!Write
    PROVE  BundleSound'
<1>0. /\ Bundle!ConstantsAssumption /\ Bundle!TypeOK /\ MarksInv /\ TaskInv /\ BundleAt /\ BundleInv /\ HandedInv
  BY DEF BundleSound, Bundle!TypeOK
<1>1. PICK k \in Nat : marks = 1..k /\ k + pins <= MaxMarks BY <1>0 DEF MarksInv
<1> USE DEF Bundle!Write, Bundle!Fault, Bundle!Spend, Bundle!After, Bundle!File, Bundle!capture,
       Bundle!writing, Bundle!stored
<1>2. Bundle!TypeOK' /\ MarksInv'
  <2>1. MarksInv'
    <3>1. marks' = marks /\ pins' = pins
      BY <1>0, <1>1 DEF Bundle!TypeOK
    <3>2. QED BY <1>1, <3>1 DEF MarksInv
  <2>2. Bundle!TypeOK' BY <1>0 DEF Bundle!TypeOK, Bundle!ConstantsAssumption, Bundle!Parts,
         Bundle!Conversations, TaskInv, BundleAt
  <2>3. QED BY <2>1, <2>2
<1>3. TaskInv'
  BY <1>0 DEF TaskInv, Bundle!TypeOK, Bundle!Conversations, BundleAt
<1>4. BundleAt'
  BY <1>0 DEF TaskInv, BundleAt, BundleInv, Bundle!TypeOK, Behind, Bundle!Conversations, Bundle!Parts
<1>5. BundleInv'
  BY <1>0 DEF TaskInv, BundleAt, BundleInv, Bundle!TypeOK, Behind, Bundle!Conversations, Bundle!Parts
<1>6. HandedInv'
  BY <1>0 DEF TaskInv, BundleAt, HandedInv, Bundle!TypeOK, Bundle!Sealed, Bundle!FramesStand
<1>7. QED BY <1>2, <1>3, <1>4, <1>5, <1>6 DEF BundleSound

\* The summary is told only after the last file; a failure removes all of it.
LEMMA BundleWrittenKeeps ==
    ASSUME BundleSound, Bundle!Written
    PROVE  BundleSound'
<1>0. /\ Bundle!ConstantsAssumption /\ Bundle!TypeOK /\ MarksInv /\ TaskInv /\ BundleAt /\ BundleInv /\ HandedInv
  BY DEF BundleSound, Bundle!TypeOK
<1>1. PICK k \in Nat : marks = 1..k /\ k + pins <= MaxMarks BY <1>0 DEF MarksInv
<1> USE DEF Bundle!Written, Bundle!capture, Bundle!writing, Bundle!stored
<1>2. Bundle!TypeOK' /\ MarksInv'
  <2>1. MarksInv'
    <3>1. marks' = marks /\ pins' = pins
      BY <1>0, <1>1 DEF Bundle!TypeOK
    <3>2. QED BY <1>1, <3>1 DEF MarksInv
  <2>2. Bundle!TypeOK' BY <1>0 DEF Bundle!TypeOK, Bundle!ConstantsAssumption, Bundle!Parts,
         Bundle!Conversations, TaskInv, BundleAt
  <2>3. QED BY <2>1, <2>2
<1>3. TaskInv'
  BY <1>0 DEF TaskInv, Bundle!TypeOK, Bundle!Conversations, BundleAt
<1>4. BundleAt'
  BY <1>0 DEF TaskInv, BundleAt, BundleInv, Bundle!TypeOK, Behind, Bundle!Conversations, Bundle!Parts
<1>5. BundleInv'
  BY <1>0 DEF TaskInv, BundleAt, BundleInv, Bundle!TypeOK, Behind, Bundle!Conversations, Bundle!Parts
<1>6. HandedInv'
  BY <1>0 DEF TaskInv, BundleAt, HandedInv, Bundle!TypeOK, Bundle!Sealed, Bundle!FramesStand
<1>7. QED BY <1>2, <1>3, <1>4, <1>5, <1>6 DEF BundleSound

\* The conversation exists before the bundle is given to it.
LEMMA BundleDeliverKeeps ==
    ASSUME BundleSound, Bundle!Deliver
    PROVE  BundleSound'
<1>0. /\ Bundle!ConstantsAssumption /\ Bundle!TypeOK /\ MarksInv /\ TaskInv /\ BundleAt /\ BundleInv /\ HandedInv
  BY DEF BundleSound, Bundle!TypeOK
<1>1. PICK k \in Nat : marks = 1..k /\ k + pins <= MaxMarks BY <1>0 DEF MarksInv
<1> USE DEF Bundle!Deliver, Bundle!Fault, Bundle!Spend, Bundle!capture, Bundle!writing, Bundle!stored
<1>2. Bundle!TypeOK' /\ MarksInv'
  <2>1. MarksInv'
    <3>1. marks' = marks /\ pins' = pins
      BY <1>0, <1>1 DEF Bundle!TypeOK
    <3>2. QED BY <1>1, <3>1 DEF MarksInv
  <2>2. Bundle!TypeOK'
    <3>1. spent' \in [toggles : 0 .. MaxToggles, exits : 0 .. MaxExits, faults : 0 .. MaxFaults]
      BY <1>0 DEF Bundle!TypeOK, Bundle!ConstantsAssumption
    <3>2. bundle' \subseteq Bundle!Parts BY <1>0 DEF Bundle!TypeOK, Bundle!Parts
    <3>3. QED BY <1>0, <3>1, <3>2 DEF Bundle!TypeOK, Bundle!Conversations
  <2>3. QED BY <2>1, <2>2
<1>3. TaskInv'
  BY <1>0 DEF TaskInv, Bundle!TypeOK, Bundle!Conversations, BundleAt
<1>4. BundleAt'
  BY <1>0 DEF TaskInv, BundleAt, BundleInv, Bundle!TypeOK, Behind, Bundle!Conversations, Bundle!Parts
<1>5. BundleInv'
  BY <1>0 DEF TaskInv, BundleAt, BundleInv, Bundle!TypeOK, Behind, Bundle!Conversations, Bundle!Parts
<1>6. HandedInv'
  BY <1>0 DEF TaskInv, BundleAt, HandedInv, Bundle!TypeOK, Bundle!Sealed, Bundle!FramesStand
<1>7. QED BY <1>2, <1>3, <1>4, <1>5, <1>6 DEF BundleSound

\* The bundle goes to its own conversation or stays with the recording.
LEMMA BundleFinishKeeps ==
    ASSUME BundleSound, Bundle!Finish
    PROVE  BundleSound'
<1>0. /\ Bundle!ConstantsAssumption /\ Bundle!TypeOK /\ MarksInv /\ TaskInv /\ BundleAt /\ BundleInv /\ HandedInv
  BY DEF BundleSound, Bundle!TypeOK
<1>1. PICK k \in Nat : marks = 1..k /\ k + pins <= MaxMarks BY <1>0 DEF MarksInv
<1> USE DEF Bundle!Finish, Bundle!Fault, Bundle!Spend, Bundle!capture, Bundle!writing, Bundle!stored
<1>2. Bundle!TypeOK' /\ MarksInv'
  <2>1. MarksInv'
    <3>1. marks' = marks /\ pins' = pins
      BY <1>0, <1>1 DEF Bundle!TypeOK
    <3>2. QED BY <1>1, <3>1 DEF MarksInv
  <2>2. Bundle!TypeOK' BY <1>0 DEF Bundle!TypeOK, Bundle!ConstantsAssumption, Bundle!Parts,
         Bundle!Conversations, TaskInv, BundleAt
  <2>3. QED BY <2>1, <2>2
<1>3. TaskInv'
  BY <1>0 DEF TaskInv, Bundle!TypeOK, Bundle!Conversations, BundleAt
<1>4. BundleAt'
  BY <1>0 DEF TaskInv, BundleAt, BundleInv, Bundle!TypeOK, Behind, Bundle!Conversations, Bundle!Parts
<1>5. BundleInv'
  BY <1>0 DEF TaskInv, BundleAt, BundleInv, Bundle!TypeOK, Behind, Bundle!Conversations, Bundle!Parts
<1>6. HandedInv'
  BY <1>0 DEF TaskInv, BundleAt, HandedInv, Bundle!TypeOK, Bundle!Sealed, Bundle!FramesStand
<1>7. QED BY <1>2, <1>3, <1>4, <1>5, <1>6 DEF BundleSound

\* A task that is dropped while it writes removes its bundle first.
LEMMA BundleQuitKeeps ==
    ASSUME BundleSound, Bundle!Quit
    PROVE  BundleSound'
<1>0. /\ Bundle!ConstantsAssumption /\ Bundle!TypeOK /\ MarksInv /\ TaskInv /\ BundleAt /\ BundleInv /\ HandedInv
  BY DEF BundleSound, Bundle!TypeOK
<1>1. PICK k \in Nat : marks = 1..k /\ k + pins <= MaxMarks BY <1>0 DEF MarksInv
<1> USE DEF Bundle!Quit, Bundle!Spend, Bundle!capture, Bundle!writing, Bundle!stored
<1>2. Bundle!TypeOK' /\ MarksInv'
  <2>1. MarksInv'
    <3>1. marks' = marks /\ pins' = pins
      BY <1>0, <1>1 DEF Bundle!TypeOK
    <3>2. QED BY <1>1, <3>1 DEF MarksInv
  <2>2. Bundle!TypeOK' BY <1>0 DEF Bundle!TypeOK, Bundle!ConstantsAssumption, Bundle!Parts,
         Bundle!Conversations, TaskInv, BundleAt
  <2>3. QED BY <2>1, <2>2
<1>3. TaskInv'
  BY <1>0 DEF TaskInv, Bundle!TypeOK, Bundle!Conversations, BundleAt
<1>4. BundleAt'
  BY <1>0 DEF TaskInv, BundleAt, BundleInv, Bundle!TypeOK, Behind, Bundle!Conversations, Bundle!Parts
<1>5. BundleInv'
  BY <1>0 DEF TaskInv, BundleAt, BundleInv, Bundle!TypeOK, Behind, Bundle!Conversations, Bundle!Parts
<1>6. HandedInv'
  BY <1>0 DEF TaskInv, BundleAt, HandedInv, Bundle!TypeOK, Bundle!Sealed, Bundle!FramesStand
<1>7. QED BY <1>2, <1>3, <1>4, <1>5, <1>6 DEF BundleSound

\* The files go before the directory, while the thread may still write.
LEMMA BundleEmptiesKeeps ==
    ASSUME BundleSound, Bundle!Empties
    PROVE  BundleSound'
<1>0. /\ Bundle!ConstantsAssumption /\ Bundle!TypeOK /\ MarksInv /\ TaskInv /\ BundleAt /\ BundleInv /\ HandedInv
  BY DEF BundleSound, Bundle!TypeOK
<1>1. PICK k \in Nat : marks = 1..k /\ k + pins <= MaxMarks BY <1>0 DEF MarksInv
<1> USE DEF Bundle!Empties, Bundle!capture, Bundle!writing, Bundle!stored
<1>2. Bundle!TypeOK' /\ MarksInv'
  <2>1. MarksInv'
    <3>1. marks' = marks /\ pins' = pins
      BY <1>0, <1>1 DEF Bundle!TypeOK
    <3>2. QED BY <1>1, <3>1 DEF MarksInv
  <2>2. Bundle!TypeOK' BY <1>0 DEF Bundle!TypeOK, Bundle!ConstantsAssumption, Bundle!Parts,
         Bundle!Conversations, TaskInv, BundleAt
  <2>3. QED BY <2>1, <2>2
<1>3. TaskInv'
  BY <1>0 DEF TaskInv, Bundle!TypeOK, Bundle!Conversations, BundleAt
<1>4. BundleAt'
  BY <1>0 DEF TaskInv, BundleAt, BundleInv, Bundle!TypeOK, Behind, Bundle!Conversations, Bundle!Parts
<1>5. BundleInv'
  BY <1>0 DEF TaskInv, BundleAt, BundleInv, Bundle!TypeOK, Behind, Bundle!Conversations, Bundle!Parts
<1>6. HandedInv'
  BY <1>0 DEF TaskInv, BundleAt, HandedInv, Bundle!TypeOK, Bundle!Sealed, Bundle!FramesStand
<1>7. QED BY <1>2, <1>3, <1>4, <1>5, <1>6 DEF BundleSound

\* The row goes only with the directory.
LEMMA BundleRemovesKeeps ==
    ASSUME BundleSound, Bundle!Removes
    PROVE  BundleSound'
<1>0. /\ Bundle!ConstantsAssumption /\ Bundle!TypeOK /\ MarksInv /\ TaskInv /\ BundleAt /\ BundleInv /\ HandedInv
  BY DEF BundleSound, Bundle!TypeOK
<1>1. PICK k \in Nat : marks = 1..k /\ k + pins <= MaxMarks BY <1>0 DEF MarksInv
<1> USE DEF Bundle!Removes, Bundle!RowAfter, Bundle!capture, Bundle!writing, Bundle!stored
<1>2. Bundle!TypeOK' /\ MarksInv'
  <2>1. MarksInv'
    <3>1. marks' = marks /\ pins' = pins
      BY <1>0, <1>1 DEF Bundle!TypeOK
    <3>2. QED BY <1>1, <3>1 DEF MarksInv
  <2>2. Bundle!TypeOK' BY <1>0 DEF Bundle!TypeOK, Bundle!ConstantsAssumption, Bundle!Parts,
         Bundle!Conversations, TaskInv, BundleAt
  <2>3. QED BY <2>1, <2>2
<1>3. TaskInv'
  BY <1>0 DEF TaskInv, Bundle!TypeOK, Bundle!Conversations, BundleAt
<1>4. BundleAt'
  BY <1>0 DEF TaskInv, BundleAt, BundleInv, Bundle!TypeOK, Behind, Bundle!Conversations, Bundle!Parts
<1>5. BundleInv'
  BY <1>0 DEF TaskInv, BundleAt, BundleInv, Bundle!TypeOK, Behind, Bundle!Conversations, Bundle!Parts
<1>6. HandedInv'
  BY <1>0 DEF TaskInv, BundleAt, HandedInv, Bundle!TypeOK, Bundle!Sealed, Bundle!FramesStand
<1>7. QED BY <1>2, <1>3, <1>4, <1>5, <1>6 DEF BundleSound

\* The program ends when nothing is left to remove.
LEMMA BundleExitKeeps ==
    ASSUME BundleSound, Bundle!Exit
    PROVE  BundleSound'
<1>0. /\ Bundle!ConstantsAssumption /\ Bundle!TypeOK /\ MarksInv /\ TaskInv /\ BundleAt /\ BundleInv /\ HandedInv
  BY DEF BundleSound, Bundle!TypeOK
<1>1. PICK k \in Nat : marks = 1..k /\ k + pins <= MaxMarks BY <1>0 DEF MarksInv
<1> USE DEF Bundle!Exit, Bundle!Gone, Bundle!capture, Bundle!writing, Bundle!stored
<1>2. Bundle!TypeOK' /\ MarksInv'
  <2>1. MarksInv'
    <3>1. marks' = marks /\ k + pins' <= MaxMarks
      BY <1>0, <1>1, MarksCount DEF Bundle!TypeOK, Bundle!ConstantsAssumption
    <3>2. QED BY <1>1, <3>1 DEF MarksInv
  <2>2. Bundle!TypeOK' BY <1>0 DEF Bundle!TypeOK, Bundle!ConstantsAssumption, Bundle!Parts,
         Bundle!Conversations, TaskInv, BundleAt
  <2>3. QED BY <2>1, <2>2
<1>3. TaskInv'
  BY <1>0 DEF TaskInv, Bundle!TypeOK, Bundle!Conversations, BundleAt
<1>4. BundleAt'
  BY <1>0 DEF TaskInv, BundleAt, BundleInv, Bundle!TypeOK, Behind, Bundle!Conversations, Bundle!Parts
<1>5. BundleInv'
  BY <1>0 DEF TaskInv, BundleAt, BundleInv, Bundle!TypeOK, Behind, Bundle!Conversations, Bundle!Parts
<1>6. HandedInv'
  BY <1>0 DEF TaskInv, BundleAt, HandedInv, Bundle!TypeOK, Bundle!Sealed, Bundle!FramesStand
<1>7. QED BY <1>2, <1>3, <1>4, <1>5, <1>6 DEF BundleSound

\* A crash leaves the files as they are.
LEMMA BundleCrashKeeps ==
    ASSUME BundleSound, Bundle!Crash
    PROVE  BundleSound'
<1>0. /\ Bundle!ConstantsAssumption /\ Bundle!TypeOK /\ MarksInv /\ TaskInv /\ BundleAt /\ BundleInv /\ HandedInv
  BY DEF BundleSound, Bundle!TypeOK
<1>1. PICK k \in Nat : marks = 1..k /\ k + pins <= MaxMarks BY <1>0 DEF MarksInv
<1> USE DEF Bundle!Crash, Bundle!Gone, Bundle!Spend, Bundle!capture, Bundle!writing, Bundle!stored
<1>2. Bundle!TypeOK' /\ MarksInv'
  <2>1. MarksInv'
    <3>1. marks' = marks /\ k + pins' <= MaxMarks
      BY <1>0, <1>1, MarksCount DEF Bundle!TypeOK, Bundle!ConstantsAssumption
    <3>2. QED BY <1>1, <3>1 DEF MarksInv
  <2>2. Bundle!TypeOK' BY <1>0 DEF Bundle!TypeOK, Bundle!ConstantsAssumption, Bundle!Parts,
         Bundle!Conversations, TaskInv, BundleAt
  <2>3. QED BY <2>1, <2>2
<1>3. TaskInv'
  BY <1>0 DEF TaskInv, Bundle!TypeOK, Bundle!Conversations, BundleAt
<1>4. BundleAt'
  BY <1>0 DEF TaskInv, BundleAt, BundleInv, Bundle!TypeOK, Behind, Bundle!Conversations, Bundle!Parts
<1>5. BundleInv'
  BY <1>0 DEF TaskInv, BundleAt, BundleInv, Bundle!TypeOK, Behind, Bundle!Conversations, Bundle!Parts
<1>6. HandedInv'
  BY <1>0 DEF TaskInv, BundleAt, HandedInv, Bundle!TypeOK, Bundle!Sealed, Bundle!FramesStand
<1>7. QED BY <1>2, <1>3, <1>4, <1>5, <1>6 DEF BundleSound

\* A start gives a complete bundle to a conversation and removes any other.
LEMMA BundleRestartKeeps ==
    ASSUME BundleSound, Bundle!Restart
    PROVE  BundleSound'
<1>0. /\ Bundle!ConstantsAssumption /\ Bundle!TypeOK /\ MarksInv /\ TaskInv /\ BundleAt /\ BundleInv /\ HandedInv
  BY DEF BundleSound, Bundle!TypeOK
<1>1. PICK k \in Nat : marks = 1..k /\ k + pins <= MaxMarks BY <1>0 DEF MarksInv
<1> USE DEF Bundle!Restart, Bundle!Complete, Bundle!capture, Bundle!writing, Bundle!stored
<1>2. Bundle!TypeOK' /\ MarksInv'
  <2>1. MarksInv'
    <3>1. marks' = marks /\ pins' = pins
      BY <1>0, <1>1 DEF Bundle!TypeOK
    <3>2. QED BY <1>1, <3>1 DEF MarksInv
  <2>2. Bundle!TypeOK' BY <1>0 DEF Bundle!TypeOK, Bundle!ConstantsAssumption, Bundle!Parts,
         Bundle!Conversations, TaskInv, BundleAt
  <2>3. QED BY <2>1, <2>2
<1>3. TaskInv'
  BY <1>0 DEF TaskInv, Bundle!TypeOK, Bundle!Conversations, BundleAt
<1>4. BundleAt'
  BY <1>0 DEF TaskInv, BundleAt, BundleInv, Bundle!TypeOK, Behind, Bundle!Conversations, Bundle!Parts
<1>5. BundleInv'
  BY <1>0 DEF TaskInv, BundleAt, BundleInv, Bundle!TypeOK, Behind, Bundle!Conversations, Bundle!Parts
<1>6. HandedInv'
  BY <1>0 DEF TaskInv, BundleAt, HandedInv, Bundle!TypeOK, Bundle!Sealed, Bundle!FramesStand
<1>7. QED BY <1>2, <1>3, <1>4, <1>5, <1>6 DEF BundleSound

\* A merge takes the bundle along.
LEMMA BundleMergeKeeps ==
    ASSUME BundleSound, Bundle!Merge
    PROVE  BundleSound'
<1>0. /\ Bundle!ConstantsAssumption /\ Bundle!TypeOK /\ MarksInv /\ TaskInv /\ BundleAt /\ BundleInv /\ HandedInv
  BY DEF BundleSound, Bundle!TypeOK
<1>1. PICK k \in Nat : marks = 1..k /\ k + pins <= MaxMarks BY <1>0 DEF MarksInv
<1> USE DEF Bundle!Merge, Bundle!capture, Bundle!writing, Bundle!stored
<1>2. Bundle!TypeOK' /\ MarksInv'
  <2>1. MarksInv'
    <3>1. marks' = marks /\ pins' = pins
      BY <1>0, <1>1 DEF Bundle!TypeOK
    <3>2. QED BY <1>1, <3>1 DEF MarksInv
  <2>2. Bundle!TypeOK' BY <1>0 DEF Bundle!TypeOK, Bundle!ConstantsAssumption, Bundle!Parts,
         Bundle!Conversations, TaskInv, BundleAt
  <2>3. QED BY <2>1, <2>2
<1>3. TaskInv'
  BY <1>0 DEF TaskInv, Bundle!TypeOK, Bundle!Conversations, BundleAt
<1>4. BundleAt'
  BY <1>0 DEF TaskInv, BundleAt, BundleInv, Bundle!TypeOK, Behind, Bundle!Conversations, Bundle!Parts
<1>5. BundleInv'
  BY <1>0 DEF TaskInv, BundleAt, BundleInv, Bundle!TypeOK, Behind, Bundle!Conversations, Bundle!Parts
<1>6. HandedInv'
  BY <1>0 DEF TaskInv, BundleAt, HandedInv, Bundle!TypeOK, Bundle!Sealed, Bundle!FramesStand
<1>7. QED BY <1>2, <1>3, <1>4, <1>5, <1>6 DEF BundleSound

\* A deletion removes the bundle with its conversation.
LEMMA BundleDeleteKeeps ==
    ASSUME BundleSound, NEW c \in Bundle!Conversations, Bundle!Delete(c)
    PROVE  BundleSound'
<1>0. /\ Bundle!ConstantsAssumption /\ Bundle!TypeOK /\ MarksInv /\ TaskInv /\ BundleAt /\ BundleInv /\ HandedInv
  BY DEF BundleSound, Bundle!TypeOK
<1>1. PICK k \in Nat : marks = 1..k /\ k + pins <= MaxMarks BY <1>0 DEF MarksInv
<1> USE DEF Bundle!Delete, Bundle!capture, Bundle!writing, Bundle!stored
<1>2. Bundle!TypeOK' /\ MarksInv'
  <2>1. MarksInv'
    <3>1. marks' = marks /\ pins' = pins
      BY <1>0, <1>1 DEF Bundle!TypeOK
    <3>2. QED BY <1>1, <3>1 DEF MarksInv
  <2>2. Bundle!TypeOK' BY <1>0 DEF Bundle!TypeOK, Bundle!ConstantsAssumption, Bundle!Parts,
         Bundle!Conversations, TaskInv, BundleAt
  <2>3. QED BY <2>1, <2>2
<1>3. TaskInv'
  BY <1>0 DEF TaskInv, Bundle!TypeOK, Bundle!Conversations, BundleAt
<1>4. BundleAt'
  BY <1>0 DEF TaskInv, BundleAt, BundleInv, Bundle!TypeOK, Behind, Bundle!Conversations, Bundle!Parts
<1>5. BundleInv'
  BY <1>0 DEF TaskInv, BundleAt, BundleInv, Bundle!TypeOK, Behind, Bundle!Conversations, Bundle!Parts
<1>6. HandedInv'
  BY <1>0 DEF TaskInv, BundleAt, HandedInv, Bundle!TypeOK, Bundle!Sealed, Bundle!FramesStand
<1>7. QED BY <1>2, <1>3, <1>4, <1>5, <1>6 DEF BundleSound

\* Every step keeps the invariant.
LEMMA BundleStep == ASSUME BundleSound, [Bundle!Next]_(Bundle!vars) PROVE BundleSound'
<1>1. CASE UNCHANGED Bundle!vars
  <2> USE <1>1 DEF Bundle!vars, Bundle!capture, Bundle!writing, Bundle!stored
  <2>1. Bundle!TypeOK' BY DEF BundleSound, Bundle!TypeOK
  <2>2. MarksInv' /\ TaskInv' /\ BundleAt' /\ BundleInv' /\ HandedInv'
    BY DEF BundleSound, MarksInv, TaskInv, BundleAt, BundleInv, HandedInv, Bundle!Sealed, Bundle!FramesStand
  <2>3. QED BY <2>1, <2>2 DEF BundleSound
<1>2. ASSUME NEW m \in grabs, Bundle!Captured(m) PROVE BundleSound' BY <1>2, BundleCapturedKeeps
<1>3. ASSUME NEW t \in BOOLEAN, Bundle!Collect(t) PROVE BundleSound' BY <1>3, BundleCollectKeeps
<1>4. ASSUME NEW c \in Bundle!Conversations, Bundle!Delete(c) PROVE BundleSound' BY <1>4, BundleDeleteKeeps
<1>5. QED
  BY <1>1, <1>2, <1>3, <1>4, BundleDrawKeeps, BundleClickKeeps, BundlePinnedKeeps, BundleStopKeeps, BundleCancelKeeps,
     BundleSwitchOffKeeps, BundleRecognisedKeeps, BundleReserveKeeps, BundleLoadKeeps, BundleWriteKeeps, BundleWrittenKeeps,
     BundleDeliverKeeps, BundleFinishKeeps, BundleQuitKeeps, BundleEmptiesKeeps, BundleRemovesKeeps, BundleExitKeeps,
     BundleCrashKeeps, BundleRestartKeeps, BundleMergeKeeps DEF Bundle!Next

\* The invariant of a bundle holds of every behaviour (annotations.rs, services.rs).
THEOREM BundleInvariant == Bundle!ConstantsAssumption /\ Bundle!Spec => []BundleSound
<1>1. Bundle!ConstantsAssumption /\ Bundle!Init => BundleSound BY BundleBegins
<1>2. BundleSound /\ [Bundle!Next]_(Bundle!vars) => BundleSound' BY BundleStep
<1>3. QED BY <1>1, <1>2, PTL DEF Bundle!Spec

\* The state of an annotated recording and its bundle is well formed (AnnotationBundle's TypeOK).
THEOREM BundleTypeCorrect == Bundle!ConstantsAssumption /\ Bundle!Spec => []Bundle!TypeOK
<1>1. BundleSound => Bundle!TypeOK BY DEF BundleSound
<1>2. QED BY <1>1, BundleInvariant, PTL

\* Paths that were delivered stay valid until their conversation is deleted, a bundle a conversation owns is
\* whole, no directory is left without a row, whatever was marked before Stop is handed over unless the wait ran
\* out, and the raw images stay until they were read unless the setting was switched off meanwhile; through a
\* crash between any two steps (screen_annotation/session.rs, mluva-core/src/annotations.rs, services.rs).
THEOREM BundlesStand ==
    Bundle!ConstantsAssumption /\ Bundle!Spec =>
        [](/\ Bundle!DeliveredPathsStand /\ Bundle!OwnedIsWhole /\ Bundle!NoOrphanBundle /\ Bundle!EveryMarkIsHanded
           /\ spent.toggles = 0 => Bundle!FramesStand)
<1>1. BundleSound => /\ Bundle!DeliveredPathsStand /\ Bundle!OwnedIsWhole /\ Bundle!NoOrphanBundle
                     /\ Bundle!EveryMarkIsHanded /\ (spent.toggles = 0 => Bundle!FramesStand)
  BY DEF BundleSound, BundleInv, HandedInv, Bundle!DeliveredPathsStand, Bundle!OwnedIsWhole,
         Bundle!NoOrphanBundle,
         Bundle!EveryMarkIsHanded
<1>2. QED BY <1>1, BundleInvariant, PTL

-----------------------------------------------------------------------------
(* Installation: nothing of what was there, or of somebody else, is lost.    *)

Operations == {"expect", "prepare", "publish", "retire", "relocate", "directory", "run", "running", "checkpoint", "apply",
               "probe", "disable", "move", "reload", "enable", "start", "mark", "commit"}

\* How many objects are prepared before step n, and where an object of p waits to be published.
Slots(n) ==
    IF Upgrade
    THEN IF n <= 3 THEN 0 ELSE IF n <= 5 THEN 1 ELSE IF n <= 7 THEN 2 ELSE IF n <= 12 THEN 3 ELSE IF n <= 14 THEN 4 ELSE 5
    ELSE IF n <= 4 THEN 0 ELSE IF n <= 6 THEN 1 ELSE 2
Due(p, n) ==
    \/ Upgrade /\ p = "history" /\ n = 4
    \/ Upgrade /\ p = "link" /\ n \in {8, 15, 16, 17}
    \/ Upgrade /\ p = "app" /\ n \in 13 .. 16
    \/ ~ Upgrade /\ p = "app" /\ n \in 5 .. 8
    \/ ~ Upgrade /\ p = "link" /\ n \in 7 .. 9

\* The newest change of p is the i-th.
IsNewest(p, i) ==
    i \in DOMAIN changes /\ changes[i].on = p /\ \A j \in DOMAIN changes : changes[j].on = p => j <= i

\* The journal is numbered, and all of it is still private while the plan is carried out.
JournalInv ==
    /\ Len(changes) <= 5
    /\ \A i \in DOMAIN changes : changes[i].new = i + 1
    /\ stage = "working" => Len(changes) <= Slots(pc) /\ \A i \in DOMAIN changes : changes[i].temp

\* A publication works at the newest change of its path, which nothing has used.
PublishInv ==
    stage = "working" =>
        /\ half # "no" => Setup!Op.do = "publish"
        /\ \A p \in Setup!Paths : Due(p, pc) => \E i \in DOMAIN changes :
            /\ IsNewest(p, i) /\ ~ changes[i].public
            /\ changes[i].moved => half \in {"aside", "checked"} /\ Setup!Op.on = p

\* An object of another program is newer than every snapshot that did not read it.  While the plan is carried out it
\* is at its path, or was moved aside a moment ago and is about to be compared.
TheirsInv ==
    /\ \A p \in Setup!Paths : at[p] < Setup!Theirs + spent.foreign /\ expected[p] < Setup!Theirs + spent.foreign
    /\ \A i \in DOMAIN changes : changes[i].prev < Setup!Theirs + spent.foreign
    /\ \A x \in placed : Setup!Theirs <= x[2] /\ x[2] < Setup!Theirs + spent.foreign
    /\ stage = "working" => \A x \in placed :
        /\ x[2] # expected[x[1]]
        /\ \/ at[x[1]] = x[2]
           \/ /\ half = "aside" /\ Setup!Op.on = x[1]
              /\ \E i \in DOMAIN changes : IsNewest(x[1], i) /\ changes[i].moved /\ changes[i].prev = x[2]

SetupInv == Setup!TypeOK /\ JournalInv /\ PublishInv /\ TheirsInv /\ Setup!PreviousStays /\ Setup!TheirsStays

\* What was found.
FoundInv ==
    /\ found.at \in [Setup!Paths -> {0, Setup!Original}] /\ found.root = (IF Upgrade THEN "old" ELSE "new")
    /\ found.parent = (IF found.at["app"] = 0 THEN "none" ELSE "loose")
    /\ found.service \in [unit : {"none", "old"}, enabled : {"none", "old"}, active : {"none", "old"}]
    /\ found.service.unit = "none" => found.service.enabled = "none" /\ found.service.active = "none"
    /\ ~ Upgrade => found.service.unit = "none"

\* The changes of p that were carried out and not undone, what each of them took away and what it put in its place.
Mine(p) == {i \in DOMAIN changes : changes[i].on = p /\ changes[i].temp /\ (changes[i].moved \/ changes[i].public)}
Took(i) == IF changes[i].moved THEN changes[i].prev ELSE 0
Put(i) == IF changes[i].public THEN changes[i].new ELSE 0

\* They follow each other, from what was found to what is there.
Links(p) ==
    /\ Mine(p) = {} => at[p] = found.at[p]
    /\ \A i \in Mine(p) :
        /\ (\A j \in Mine(p) : j <= i) => at[p] = Put(i)
        /\ (\A j \in Mine(p) : i <= j) => Took(i) = found.at[p]
        /\ \A j \in Mine(p) : i < j /\ (\A k \in Mine(p) : k <= i \/ j <= k) =>
               changes[i].public /\ Took(j) = changes[i].new

\* Only the publication at hand has moved something aside and put nothing in its place; a retirement puts nothing.
Halfway(p) ==
    \A i \in Mine(p) : \/ changes[i].public
                       \/ p = "oldlink"
                       \/ half \in {"aside", "checked"} /\ Setup!Op.on = p /\ IsNewest(p, i)

ChainInv ==
    spent.foreign = 0 /\ stage \in {"working", "failing"} =>
        /\ \A p \in Setup!Paths : Links(p) /\ (stage = "working" => Halfway(p))
        /\ \A i \in DOMAIN changes : ~ changes[i].temp => ~ changes[i].moved

\* Directory, state root and service are as they were found, or it is noted how they were.
NotedInv ==
    stage \in {"working", "failing"} =>
        /\ made = "no" => parent = found.parent
        /\ made # "no" => parent = "tight" /\ found.parent = (IF made = "made" THEN "none" ELSE "loose")
        /\ stood = <<>> => root = found.root
        /\ stood # <<>> => /\ found.root = "old"
                           /\ spent.foreign = 0 => stood = <<found.at["app"], found.at["history"]>>
        /\ ~ saved.touched => service = found.service
        /\ saved.touched => /\ found.service.unit = "old"
                            /\ saved.enabled = (found.service.enabled = "old") /\ saved.active = (found.service.active = "old")

\* How far the plan is: with the paths, and with the desktop.
Goal(p) == (IF Upgrade THEN 16 ELSE 8) + (IF p = "app" THEN 0 ELSE 1)
ReachedInv ==
    stage = "working" =>
        /\ \A p \in {"app", "link"} : pc > Goal(p) =>
              \E i \in DOMAIN changes : IsNewest(p, i) /\ (at[p] = changes[i].new \/ at[p] >= Setup!Theirs)
        /\ Upgrade /\ pc > 5 => at["oldlink"] = 0 \/ at["oldlink"] >= Setup!Theirs
        /\ ~ Upgrade => at["oldlink"] = 0
        /\ (Upgrade => pc > 1) => root = "new"
DeskInv ==
    stage = "working" =>
        /\ pc > 20 => settings = "new"
        /\ pc > 28 => complete
        /\ pc <= 21 => ~ saved.touched
        /\ pc > 21 => saved.touched = (found.service.unit = "old")
        /\ saved.touched /\ pc = 22 => service = found.service
        /\ saved.touched /\ pc > 22 =>
            /\ service.unit = (IF pc = 23 THEN "old" ELSE "new")
            /\ service.enabled = (IF pc > 25 /\ saved.enabled THEN "new" ELSE "none")
            /\ service.active = (IF pc > 26 /\ saved.active THEN "new" ELSE "none")

RestInv == FoundInv /\ ChainInv /\ NotedInv /\ ReachedInv /\ DeskInv /\ Setup!FailureRestores /\ Setup!CommitIsWhole

\* The steps of an installation over the former name, and of one without it.
LEMMA UpgradePlan ==
    ASSUME Upgrade
    PROVE  /\ Len(Setup!Plan) = 29
           /\ Setup!Plan[1] = Setup!Step("relocate") /\ Setup!Plan[2] = Setup!Do("expect", "history")
           /\ Setup!Plan[3] = Setup!Do("prepare", "history") /\ Setup!Plan[4] = Setup!Do("publish", "history")
           /\ Setup!Plan[5] = Setup!Do("retire", "oldlink") /\ Setup!Plan[6] = Setup!Do("expect", "link")
           /\ Setup!Plan[7] = Setup!Do("prepare", "link") /\ Setup!Plan[8] = Setup!Do("publish", "link")
           /\ Setup!Plan[9] = Setup!Do("expect", "app") /\ Setup!Plan[10] = Setup!Do("expect", "link")
           /\ Setup!Plan[11] = Setup!Step("directory") /\ Setup!Plan[12] = Setup!Do("prepare", "app")
           /\ Setup!Plan[13] = Setup!Step("run") /\ Setup!Plan[14] = Setup!Do("prepare", "link")
           /\ Setup!Plan[15] = Setup!Step("running") /\ Setup!Plan[16] = Setup!Do("publish", "app")
           /\ Setup!Plan[17] = Setup!Do("publish", "link") /\ Setup!Plan[18] = Setup!Step("run")
           /\ Setup!Plan[19] = Setup!Step("checkpoint") /\ Setup!Plan[20] = Setup!Step("apply")
           /\ Setup!Plan[21] = Setup!Step("probe") /\ Setup!Plan[22] = Setup!Step("disable")
           /\ Setup!Plan[23] = Setup!Step("move") /\ Setup!Plan[24] = Setup!Step("reload")
           /\ Setup!Plan[25] = Setup!Step("enable") /\ Setup!Plan[26] = Setup!Step("start")
           /\ Setup!Plan[27] = Setup!Step("checkpoint") /\ Setup!Plan[28] = Setup!Step("mark")
           /\ Setup!Plan[29] = Setup!Step("commit")
<1> USE DEF Setup!Plan, Setup!Migration, Setup!Replace, Setup!Payload, Setup!Integration
<1>1. Len(Setup!Plan) = 29 OBVIOUS
<1>2. /\ Setup!Plan[1] = Setup!Step("relocate") /\ Setup!Plan[2] = Setup!Do("expect", "history")
      /\ Setup!Plan[3] = Setup!Do("prepare", "history") /\ Setup!Plan[4] = Setup!Do("publish", "history")
      /\ Setup!Plan[5] = Setup!Do("retire", "oldlink") /\ Setup!Plan[6] = Setup!Do("expect", "link")
  OBVIOUS
<1>3. /\ Setup!Plan[7] = Setup!Do("prepare", "link") /\ Setup!Plan[8] = Setup!Do("publish", "link")
      /\ Setup!Plan[9] = Setup!Do("expect", "app") /\ Setup!Plan[10] = Setup!Do("expect", "link")
      /\ Setup!Plan[11] = Setup!Step("directory") /\ Setup!Plan[12] = Setup!Do("prepare", "app")
  OBVIOUS
<1>4. /\ Setup!Plan[13] = Setup!Step("run") /\ Setup!Plan[14] = Setup!Do("prepare", "link")
      /\ Setup!Plan[15] = Setup!Step("running") /\ Setup!Plan[16] = Setup!Do("publish", "app")
      /\ Setup!Plan[17] = Setup!Do("publish", "link") /\ Setup!Plan[18] = Setup!Step("run")
  OBVIOUS
<1>5. /\ Setup!Plan[19] = Setup!Step("checkpoint") /\ Setup!Plan[20] = Setup!Step("apply")
      /\ Setup!Plan[21] = Setup!Step("probe") /\ Setup!Plan[22] = Setup!Step("disable")
      /\ Setup!Plan[23] = Setup!Step("move") /\ Setup!Plan[24] = Setup!Step("reload")
  OBVIOUS
<1>6. /\ Setup!Plan[25] = Setup!Step("enable") /\ Setup!Plan[26] = Setup!Step("start")
      /\ Setup!Plan[27] = Setup!Step("checkpoint") /\ Setup!Plan[28] = Setup!Step("mark")
      /\ Setup!Plan[29] = Setup!Step("commit")
  OBVIOUS
<1> HIDE DEF Setup!Plan, Setup!Migration, Setup!Replace, Setup!Payload, Setup!Integration
<1>7. QED BY <1>1, <1>2, <1>3, <1>4, <1>5, <1>6

LEMMA FirstPlan ==
    ASSUME ~ Upgrade
    PROVE  /\ Len(Setup!Plan) = 11
           /\ Setup!Plan[1] = Setup!Do("expect", "app") /\ Setup!Plan[2] = Setup!Do("expect", "link")
           /\ Setup!Plan[3] = Setup!Step("directory") /\ Setup!Plan[4] = Setup!Do("prepare", "app")
           /\ Setup!Plan[5] = Setup!Step("run") /\ Setup!Plan[6] = Setup!Do("prepare", "link")
           /\ Setup!Plan[7] = Setup!Step("running") /\ Setup!Plan[8] = Setup!Do("publish", "app")
           /\ Setup!Plan[9] = Setup!Do("publish", "link") /\ Setup!Plan[10] = Setup!Step("run")
           /\ Setup!Plan[11] = Setup!Step("commit")
BY DEF Setup!Plan, Setup!Payload, Setup!Do, Setup!Step

\* Where each operation stands.
LEMMA Places ==
    ASSUME Upgrade \in BOOLEAN, NEW n \in 1 .. Len(Setup!Plan), NEW o, o = Setup!Plan[n]
    PROVE  /\ o.on \in Setup!Paths /\ o.do \in Operations
           /\ o.do = "expect" => \/ Upgrade /\ <<n, o.on>> \in {<<2, "history">>, <<6, "link">>, <<9, "app">>, <<10, "link">>}
                                 \/ ~ Upgrade /\ <<n, o.on>> \in {<<1, "app">>, <<2, "link">>}
           /\ o.do = "prepare" => \/ Upgrade /\ <<n, o.on>> \in {<<3, "history">>, <<7, "link">>, <<12, "app">>, <<14, "link">>}
                                  \/ ~ Upgrade /\ <<n, o.on>> \in {<<4, "app">>, <<6, "link">>}
           /\ o.do = "publish" => \/ Upgrade /\ <<n, o.on>> \in {<<4, "history">>, <<8, "link">>, <<16, "app">>, <<17, "link">>}
                                  \/ ~ Upgrade /\ <<n, o.on>> \in {<<8, "app">>, <<9, "link">>}
           /\ o.do = "retire" <=> Upgrade /\ n = 5
           /\ o.do = "retire" => o.on = "oldlink"
           /\ o.do = "relocate" <=> Upgrade /\ n = 1
           /\ o.do = "apply" <=> n = 20
           /\ o.do = "probe" <=> n = 21
           /\ o.do = "disable" <=> n = 22
           /\ o.do = "move" <=> n = 23
           /\ o.do = "reload" <=> n = 24
           /\ o.do = "enable" <=> n = 25
           /\ o.do = "start" <=> n = 26
           /\ o.do = "mark" <=> n = 28
           /\ o.do = "commit" <=> n = Len(Setup!Plan)
<1>1. CASE Upgrade
  <2>1. n \in 1 .. 29 /\ Len(Setup!Plan) = 29 BY <1>1, UpgradePlan
  <2>2. CASE n \in 1 .. 6 BY <1>1, <2>1, <2>2, UpgradePlan DEF Setup!Do, Setup!Step, Setup!Paths, Operations
  <2>3. CASE n \in 7 .. 12 BY <1>1, <2>1, <2>3, UpgradePlan DEF Setup!Do, Setup!Step, Setup!Paths, Operations
  <2>4. CASE n \in 13 .. 18 BY <1>1, <2>1, <2>4, UpgradePlan DEF Setup!Do, Setup!Step, Setup!Paths, Operations
  <2>5. CASE n \in 19 .. 24 BY <1>1, <2>1, <2>5, UpgradePlan DEF Setup!Do, Setup!Step, Setup!Paths, Operations
  <2>6. CASE n \in 25 .. 29 BY <1>1, <2>1, <2>6, UpgradePlan DEF Setup!Do, Setup!Step, Setup!Paths, Operations
  <2>7. QED BY <2>1, <2>2, <2>3, <2>4, <2>5, <2>6
<1>2. CASE ~ Upgrade
  <2>1. n \in 1 .. 11 /\ Len(Setup!Plan) = 11 BY <1>2, FirstPlan
  <2>2. CASE n \in 1 .. 5 BY <1>2, <2>1, <2>2, FirstPlan DEF Setup!Do, Setup!Step, Setup!Paths, Operations
  <2>3. CASE n \in 6 .. 11 BY <1>2, <2>1, <2>3, FirstPlan DEF Setup!Do, Setup!Step, Setup!Paths, Operations
  <2>4. QED BY <2>1, <2>2, <2>3
<1>3. QED BY <1>1, <1>2

\* Each object is due for its path from the step that prepares it up to the one that publishes it.
LEMMA Order ==
    ASSUME Upgrade \in BOOLEAN, NEW n \in 1 .. Len(Setup!Plan), NEW o, o = Setup!Plan[n]
    PROVE  /\ n \in Nat /\ Slots(n) \in 0 .. 5 /\ Slots(n + 1) \in 0 .. 5 /\ Slots(n) <= Slots(n + 1)
           /\ o.do \in {"prepare", "retire"} => Slots(n) < Slots(n + 1)
           /\ \A p \in Setup!Paths : ~ Due(p, 1)
           /\ \A p \in Setup!Paths : Due(p, n + 1) => Due(p, n) \/ (o.do = "prepare" /\ o.on = p)
           /\ o.do = "publish" => Due(o.on, n) /\ ~ Due(o.on, n + 1)
<1>1. n \in Nat /\ n >= 1 BY UpgradePlan, FirstPlan
<1>2. Slots(n) \in 0 .. 5 /\ Slots(n + 1) \in 0 .. 5 /\ Slots(n) <= Slots(n + 1) BY <1>1 DEF Slots
<1>3. o.do = "prepare" => Slots(n) < Slots(n + 1) BY <1>1, Places DEF Slots
<1>4. o.do = "retire" => Slots(n) < Slots(n + 1) BY <1>1, Places DEF Slots
<1>5. ASSUME NEW p \in Setup!Paths, Due(p, n + 1), ~ Due(p, n) PROVE o.do = "prepare" /\ o.on = p
  <2>1. \/ Upgrade /\ p = "history" /\ n = 3
        \/ Upgrade /\ p = "link" /\ n \in {7, 14}
        \/ Upgrade /\ p = "app" /\ n = 12
        \/ ~ Upgrade /\ p = "app" /\ n = 4
        \/ ~ Upgrade /\ p = "link" /\ n = 6
    BY <1>1, <1>5 DEF Due
  <2>2. Setup!Plan[n] = Setup!Do("prepare", p) BY <2>1, UpgradePlan, FirstPlan
  <2>3. QED BY <2>2 DEF Setup!Do
<1>6. o.do = "publish" => Due(o.on, n) /\ ~ Due(o.on, n + 1) BY <1>1, Places DEF Due
<1>7. \A p \in Setup!Paths : ~ Due(p, 1) BY DEF Due
<1>8. QED BY <1>1, <1>2, <1>3, <1>4, <1>5, <1>6, <1>7

Entry == [on : Setup!Paths, new : 2..8, prev : Setup!Objects, moved : BOOLEAN, public : BOOLEAN, temp : BOOLEAN]

\* A change that is added is the last, and the newest of its path.
LEMMA EntryAdded ==
    ASSUME NEW s \in Seq(Entry), NEW c \in Entry
    PROVE  /\ Append(s, c) \in Seq(Entry) /\ Len(Append(s, c)) = Len(s) + 1
           /\ DOMAIN Append(s, c) = DOMAIN s \cup {Len(s) + 1} /\ DOMAIN s = 1 .. Len(s)
           /\ \A i \in DOMAIN s : Append(s, c)[i] = s[i]
           /\ Append(s, c)[Len(s) + 1] = c
OBVIOUS

\* One change of the journal becomes another.
LEMMA EntryChanged ==
    ASSUME NEW s \in Seq(Entry), NEW i \in DOMAIN s, NEW c \in Entry
    PROVE  LET t == [s EXCEPT ![i] = c] IN
           /\ t \in Seq(Entry) /\ Len(t) = Len(s) /\ DOMAIN t = DOMAIN s
           /\ t[i] = c /\ \A j \in DOMAIN s : j # i => t[j] = s[j]
<1> DEFINE t == [s EXCEPT ![i] = c]
<1>1. DOMAIN s = 1 .. Len(s) /\ Len(s) \in Nat OBVIOUS
<1>2. t \in [1 .. Len(s) -> Entry] BY <1>1
<1>3. t \in Seq(Entry) /\ Len(t) = Len(s) BY <1>1, <1>2
<1>4. t[i] = c /\ \A j \in DOMAIN s : j # i => t[j] = s[j] OBVIOUS
<1>5. QED BY <1>1, <1>2, <1>3, <1>4

\* The newest change is the one `publish` finds.
LEMMA NewestIs ==
    ASSUME Setup!TypeOK, NEW p, NEW i, IsNewest(p, i)
    PROVE  Setup!Newest(p) = i
<1>1. DOMAIN changes \subseteq Nat BY DEF Setup!TypeOK
<1>2. \A j \in DOMAIN changes :
         changes[j].on = p /\ (\A k \in DOMAIN changes : changes[k].on = p => k <= j) => j = i
  BY <1>1 DEF IsNewest
<1>3. QED BY <1>2 DEF IsNewest, Setup!Newest

\* The step at hand.
LEMMA Here ==
    ASSUME Setup!ConstantsAssumption, Setup!TypeOK
    PROVE  /\ Setup!Op.on \in Setup!Paths /\ Setup!Op.do \in Operations
           /\ Setup!Op.do = "commit" <=> pc = Len(Setup!Plan)
           /\ Len(Setup!Plan) \in Nat /\ (Upgrade => Len(Setup!Plan) = 29) /\ (~ Upgrade => Len(Setup!Plan) = 11)
           /\ pc \in Nat /\ (pc # Len(Setup!Plan) => pc + 1 \in 1 .. Len(Setup!Plan))
<1>1. Upgrade \in BOOLEAN /\ pc \in 1 .. Len(Setup!Plan) BY DEF Setup!ConstantsAssumption, Setup!TypeOK
<1>2. (Upgrade => Len(Setup!Plan) = 29) /\ (~ Upgrade => Len(Setup!Plan) = 11) BY UpgradePlan, FirstPlan
<1>3. /\ Setup!Op.on \in Setup!Paths /\ Setup!Op.do \in Operations
      /\ Setup!Op.do = "commit" <=> pc = Len(Setup!Plan)
  BY <1>1, Places DEF Setup!Op
<1>4. Len(Setup!Plan) \in Nat BY <1>1, <1>2
<1>5. QED BY <1>1, <1>2, <1>3, <1>4

SafeInv == JournalInv /\ PublishInv /\ TheirsInv /\ Setup!PreviousStays /\ Setup!TheirsStays

\* A step of the plan that touches neither the paths nor the journal.
LEMMA PlanGoesOn ==
    ASSUME Setup!ConstantsAssumption, SetupInv, stage = "working", Setup!Advance,
           Setup!Op.do \notin {"prepare", "publish", "retire", "commit", "expect"},
           UNCHANGED <<at, expected, changes, placed, lost, found, spent>>
    PROVE  SafeInv' /\ pc' \in 1 .. Len(Setup!Plan) /\ half' = "no" /\ stage' = "working"
<1>0. Setup!TypeOK /\ SafeInv BY DEF SetupInv, SafeInv
<1>1. half' = "no" /\ stage' = "working" /\ pc' = pc + 1 BY DEF Setup!Advance
<1>2. pc' \in 1 .. Len(Setup!Plan) /\ pc \in 1 .. Len(Setup!Plan) /\ Upgrade \in BOOLEAN
  BY <1>0, <1>1, Here DEF Setup!TypeOK, Setup!ConstantsAssumption
<1>3. half = "no" BY <1>0 DEF SafeInv, PublishInv, Setup!TypeOK
<1>4. Len(changes) \in Nat /\ Slots(pc) \in 0 .. 5 /\ Slots(pc') \in 0 .. 5 /\ Slots(pc) <= Slots(pc')
  BY <1>0, <1>1, <1>2, Order DEF Setup!TypeOK
<1>5. JournalInv' BY <1>0, <1>1, <1>4 DEF SafeInv, JournalInv
<1>6. PublishInv'
  <2>1. \A p \in Setup!Paths : Due(p, pc') => Due(p, pc) BY <1>1, <1>2, Order DEF Setup!Op
  <2>2. QED BY <1>0, <1>1, <1>3, <2>1 DEF SafeInv, PublishInv, IsNewest
<1>7. TheirsInv' BY <1>0, <1>1, <1>3 DEF SafeInv, TheirsInv
<1>8. Setup!PreviousStays' /\ Setup!TheirsStays'
  BY <1>0, <1>1 DEF SafeInv, Setup!PreviousStays, Setup!TheirsStays, Setup!Somewhere
<1>9. QED BY <1>1, <1>2, <1>5, <1>6, <1>7, <1>8 DEF SafeInv

\* A step that changes neither the paths nor the journal, and may end the plan without committing it.
LEMMA StandsStill ==
    ASSUME SetupInv, stage \in {"working", "failing"},
           UNCHANGED <<at, expected, changes, placed, lost, found, pc, half>>, spent'.foreign = spent.foreign,
           stage' = stage \/ stage' \in {"failing", "failed", "killed"}
    PROVE  SafeInv'
<1>0. SafeInv BY DEF SetupInv, SafeInv
<1>1. JournalInv' BY <1>0 DEF SafeInv, JournalInv
<1>2. PublishInv' BY <1>0 DEF SafeInv, PublishInv, IsNewest, Setup!Op
<1>3. TheirsInv' BY <1>0 DEF SafeInv, TheirsInv, IsNewest, Setup!Op
<1>4. Setup!PreviousStays' /\ Setup!TheirsStays'
  BY <1>0 DEF SafeInv, Setup!PreviousStays, Setup!TheirsStays, Setup!Somewhere
<1>5. QED BY <1>1, <1>2, <1>3, <1>4 DEF SafeInv

\* What holds before a step of the plan.
LEMMA Working ==
    ASSUME Setup!ConstantsAssumption, SetupInv, stage = "working"
    PROVE  /\ Setup!TypeOK /\ SafeInv /\ changes \in Seq(Entry) /\ DOMAIN changes = 1 .. Len(changes) /\ Len(changes) \in 0 .. 5
           /\ Setup!Op.on \in Setup!Paths /\ pc \in 1 .. Len(Setup!Plan) /\ Upgrade \in BOOLEAN
           /\ at \in [Setup!Paths -> Setup!Objects] /\ expected \in [Setup!Paths -> Setup!Objects]
           /\ \A p \in Setup!Paths : at[p] < Setup!Theirs + spent.foreign /\ at[p] \in Nat
           /\ \A x \in placed : x[1] \in Setup!Paths /\ x = <<x[1], x[2]>>
           /\ spent.foreign \in Nat /\ 0 \in Setup!Objects /\ Setup!Objects \subseteq Nat
           /\ \A i \in DOMAIN changes : changes[i].temp
           /\ Setup!Op.do = "publish" => \E i \in DOMAIN changes : /\ IsNewest(Setup!Op.on, i) /\ ~ changes[i].public
                                                                   /\ changes[i].moved => half \in {"aside", "checked"}
<1>1. Setup!TypeOK /\ SafeInv BY DEF SetupInv, SafeInv
<1>2. /\ changes \in Seq(Entry) /\ at \in [Setup!Paths -> Setup!Objects] /\ expected \in [Setup!Paths -> Setup!Objects]
      /\ pc \in 1 .. Len(Setup!Plan) /\ Upgrade \in BOOLEAN /\ placed \subseteq Setup!Paths \X Setup!Objects
      /\ spent \in [foreign : 0 .. MaxForeign, faults : 0 .. MaxFaults] /\ MaxForeign \in Nat
  BY <1>1 DEF Setup!TypeOK, Entry, Setup!ConstantsAssumption
<1>3. spent.foreign \in Nat /\ 0 \in Setup!Objects /\ Setup!Objects \subseteq Nat BY <1>2 DEF Setup!Objects, Setup!Theirs
<1>4. Setup!Op.on \in Setup!Paths BY <1>1, Here
<1>5. DOMAIN changes = 1 .. Len(changes) /\ Len(changes) \in 0 .. 5
  <2>1. DOMAIN changes = 1 .. Len(changes) /\ Len(changes) \in Nat BY <1>2
  <2>2. Len(changes) <= 5 BY <1>1 DEF SafeInv, JournalInv
  <2>3. QED BY <2>1, <2>2
<1>6. \A x \in placed : x[1] \in Setup!Paths /\ x = <<x[1], x[2]>>
  <2>1. \A x \in Setup!Paths \X Setup!Objects : x[1] \in Setup!Paths /\ x = <<x[1], x[2]>> OBVIOUS
  <2>2. QED BY <1>2, <2>1
<1>7. \A p \in Setup!Paths : at[p] < Setup!Theirs + spent.foreign /\ at[p] \in Nat
  BY <1>1, <1>2, <1>3 DEF SafeInv, TheirsInv
<1>8. \A i \in DOMAIN changes : changes[i].temp BY <1>1 DEF SafeInv, JournalInv
<1>9. Setup!Op.do = "publish" => \E i \in DOMAIN changes : /\ IsNewest(Setup!Op.on, i) /\ ~ changes[i].public
                                                           /\ changes[i].moved => half \in {"aside", "checked"}
  <2>1. Setup!Op.do = "publish" => Due(Setup!Op.on, pc) BY <1>2, Order DEF Setup!Op
  <2>2. QED BY <1>1, <1>4, <2>1 DEF SafeInv, PublishInv
<1>10. QED BY <1>1, <1>2, <1>3, <1>4, <1>5, <1>6, <1>7, <1>8, <1>9

\* Snapshot::read: what another program had put there is taken for the original.
LEMMA SetupExpectKeeps == ASSUME Setup!ConstantsAssumption, SetupInv, Setup!Expect PROVE SetupInv'
<1> DEFINE o == Setup!Op.on
<1>0. /\ stage = "working" /\ Setup!Op.do = "expect" /\ half' = "no" /\ stage' = "working" /\ pc' = pc + 1
      /\ expected' = [expected EXCEPT ![o] = at[o]] /\ placed' = placed \ {<<o, at[o]>>}
      /\ UNCHANGED <<at, root, parent, changes, made, stood, settings, service, saved, complete, signal, found, lost, spent>>
  BY DEF Setup!Expect, Setup!Working, Setup!Advance, Setup!Adopts, Setup!deskVars
<1>1. /\ Setup!TypeOK /\ SafeInv /\ o \in Setup!Paths /\ pc \in 1 .. Len(Setup!Plan) /\ Upgrade \in BOOLEAN
      /\ at \in [Setup!Paths -> Setup!Objects] /\ expected \in [Setup!Paths -> Setup!Objects]
      /\ \A x \in placed : x[1] \in Setup!Paths /\ x = <<x[1], x[2]>>
  BY <1>0, Working
<1>2. half = "no" /\ pc' \in 1 .. Len(Setup!Plan) BY <1>0, <1>1, Here DEF SafeInv, PublishInv, Setup!TypeOK
<1>3. Setup!TypeOK' BY <1>0, <1>1, <1>2 DEF Setup!TypeOK
<1>4. Len(changes) \in Nat /\ Slots(pc) \in 0 .. 5 /\ Slots(pc') \in 0 .. 5 /\ Slots(pc) <= Slots(pc')
  <2>1. pc' = pc + 1 /\ Len(changes) \in Nat BY <1>0, Working
  <2>2. QED BY <1>1, <2>1, Order
<1>5. JournalInv' BY <1>0, <1>1, <1>4 DEF SafeInv, JournalInv
<1>6. PublishInv'
  <2>1. \A p \in Setup!Paths : Due(p, pc') => Due(p, pc) BY <1>0, <1>1, Order DEF Setup!Op
  <2>2. QED BY <1>0, <1>1, <1>2, <2>1 DEF SafeInv, PublishInv, IsNewest
<1>7. \A x \in placed : x[2] # expected[x[1]] /\ at[x[1]] = x[2] BY <1>0, <1>1, <1>2 DEF SafeInv, TheirsInv
<1>8. \A x \in placed' : x \in placed /\ x[1] # o BY <1>0, <1>1, <1>7
<1>9. \A p \in Setup!Paths : expected'[p] = IF p = o THEN at[o] ELSE expected[p] BY <1>0, <1>1
<1> HIDE DEF o
<1>10. TheirsInv'
  <2>1. \A x \in placed' : x[2] # expected'[x[1]] /\ at'[x[1]] = x[2] BY <1>0, <1>1, <1>7, <1>8, <1>9
  <2>2. QED BY <1>0, <1>1, <1>8, <1>9, <2>1 DEF SafeInv, TheirsInv
<1>11. Setup!PreviousStays' /\ Setup!TheirsStays'
  BY <1>0, <1>1, <1>8 DEF SafeInv, Setup!PreviousStays, Setup!TheirsStays, Setup!Somewhere
<1>12. QED BY <1>3, <1>5, <1>6, <1>10, <1>11 DEF SetupInv

\* A change is added, and what is at each path, or aside, stays there.
LEMMA AppendKeeps ==
    ASSUME NEW c \in Entry, changes \in Seq(Entry), changes' = Append(changes, c), stage' = stage,
           NEW v, NEW p, Setup!Somewhere(v, p), at'[p] = at[p]
    PROVE  Setup!Somewhere(v, p)'
BY EntryAdded DEF Setup!Somewhere

LEMMA SetupPrepareKeeps == ASSUME Setup!ConstantsAssumption, SetupInv, Setup!Prepare PROVE SetupInv'
<1> DEFINE o == Setup!Op.on
           c == [on |-> o, new |-> Len(changes) + 2, prev |-> 0, moved |-> FALSE, public |-> FALSE, temp |-> TRUE]
<1>0. /\ stage = "working" /\ Setup!Op.do = "prepare" /\ half' = "no" /\ stage' = "working" /\ pc' = pc + 1
      /\ changes' = Append(changes, c)
      /\ UNCHANGED <<at, root, parent, expected, made, stood, settings, service, saved, complete, signal, found, placed, lost, spent>>
  BY DEF Setup!Prepare, Setup!Prepared, Setup!Working, Setup!Advance, Setup!deskVars, Setup!restVars
<1>1. /\ Setup!TypeOK /\ SafeInv /\ changes \in Seq(Entry) /\ o \in Setup!Paths /\ pc \in 1 .. Len(Setup!Plan)
      /\ Upgrade \in BOOLEAN /\ Len(changes) \in 0 .. 5 /\ spent.foreign \in Nat /\ 0 \in Setup!Objects
      /\ \A x \in placed : x[1] \in Setup!Paths
  BY <1>0, Working
<1>2. half = "no" /\ pc' \in 1 .. Len(Setup!Plan) BY <1>0, <1>1, Here DEF SafeInv, PublishInv, Setup!TypeOK
<1>3. Slots(pc) \in 0 .. 5 /\ Slots(pc') \in 0 .. 5 /\ Slots(pc) < Slots(pc') /\ Len(changes) <= Slots(pc)
  BY <1>0, <1>1, Order DEF SafeInv, JournalInv, Setup!Op
<1>4. c \in Entry /\ c.on = o /\ c.new = Len(changes) + 2 /\ c.prev = 0 /\ ~ c.moved /\ ~ c.public /\ c.temp
  BY <1>1, <1>3 DEF Entry
<1> HIDE DEF c, o
<1>5. /\ changes' \in Seq(Entry) /\ Len(changes') = Len(changes) + 1 /\ DOMAIN changes' = DOMAIN changes \cup {Len(changes) + 1}
      /\ DOMAIN changes = 1 .. Len(changes) /\ changes'[Len(changes) + 1] = c
      /\ \A i \in DOMAIN changes : changes'[i] = changes[i]
  BY <1>0, <1>1, <1>4, EntryAdded
<1>6. Setup!TypeOK' BY <1>0, <1>1, <1>2, <1>5 DEF Setup!TypeOK, Entry
<1>7. JournalInv' BY <1>0, <1>1, <1>3, <1>4, <1>5 DEF SafeInv, JournalInv
<1>8. PublishInv'
  <2>1. ASSUME NEW p \in Setup!Paths, Due(p, pc')
        PROVE  \E j \in DOMAIN changes' : IsNewest(p, j)' /\ ~ changes'[j].public /\ ~ changes'[j].moved
    <3>1. CASE p = o BY <1>1, <1>4, <1>5, <3>1 DEF IsNewest
    <3>2. CASE p # o
      <4>1. Due(p, pc) BY <1>0, <1>1, <2>1, <3>2, Order DEF Setup!Op, o
      <4>2. PICK j \in DOMAIN changes : IsNewest(p, j) /\ ~ changes[j].public /\ ~ changes[j].moved
        BY <1>0, <1>1, <1>2, <4>1 DEF SafeInv, PublishInv
      <4>3. IsNewest(p, j)' BY <1>4, <1>5, <3>2, <4>2 DEF IsNewest
      <4>4. QED BY <1>5, <4>2, <4>3
    <3>3. QED BY <3>1, <3>2
  <2>2. QED BY <1>0, <2>1 DEF PublishInv
<1>9. TheirsInv'
  <2>1. 0 < Setup!Theirs + spent.foreign BY <1>1 DEF Setup!Theirs
  <2>2. \A j \in DOMAIN changes' : changes'[j].prev < Setup!Theirs + spent.foreign
    BY <1>1, <1>4, <1>5, <2>1 DEF SafeInv, TheirsInv
  <2>3. QED BY <1>0, <1>1, <1>2, <2>2 DEF SafeInv, TheirsInv
<1>10. Setup!PreviousStays'
  BY <1>0, <1>1, <1>4, AppendKeeps DEF SafeInv, Setup!PreviousStays
<1>11. Setup!TheirsStays' BY <1>0, <1>1, <1>4, AppendKeeps DEF SafeInv, Setup!TheirsStays
<1>12. QED BY <1>6, <1>7, <1>8, <1>9, <1>10, <1>11 DEF SetupInv

\* The comparison before the renames of Transaction::publish.
LEMMA SetupLooksKeeps == ASSUME Setup!ConstantsAssumption, SetupInv, Setup!Looks PROVE SetupInv'
<1>0. /\ stage = "working" /\ Setup!Op.do = "publish" /\ half = "no" /\ pc' = pc
      /\ (stage' = "failing" /\ half' = half) \/ (stage' = stage /\ half' \in {"same", "checked"})
      /\ UNCHANGED <<at, root, parent, expected, changes, made, stood, settings, service, saved, complete, signal, found,
                     placed, lost, spent>>
  BY DEF Setup!Looks, Setup!Working, Setup!Fails, Setup!fileVars, Setup!deskVars, Setup!restVars
<1>1. Setup!TypeOK /\ SafeInv BY DEF SetupInv, SafeInv
<1>2. Setup!TypeOK' BY <1>0, <1>1 DEF Setup!TypeOK
<1>3. CASE stage' = "failing"
  <2>1. SafeInv' BY <1>0, <1>3, StandsStill
  <2>2. QED BY <1>2, <2>1 DEF SafeInv, SetupInv
<1>4. CASE stage' = stage /\ half' \in {"same", "checked"}
  <2>1. JournalInv' BY <1>0, <1>1, <1>4 DEF SafeInv, JournalInv
  <2>2. PublishInv' BY <1>0, <1>1, <1>4 DEF SafeInv, PublishInv, IsNewest, Setup!Op
  <2>3. TheirsInv' BY <1>0, <1>1, <1>4 DEF SafeInv, TheirsInv
  <2>4. Setup!PreviousStays' /\ Setup!TheirsStays'
    BY <1>0, <1>1, <1>4 DEF SafeInv, Setup!PreviousStays, Setup!TheirsStays, Setup!Somewhere
  <2>5. QED BY <1>2, <2>1, <2>2, <2>3, <2>4 DEF SetupInv
<1>5. QED BY <1>0, <1>3, <1>4

\* The comparison between them: what another program put there ends the plan.
LEMMA SetupComparesKeeps == ASSUME Setup!ConstantsAssumption, SetupInv, Setup!Compares PROVE SetupInv'
<1> DEFINE o == Setup!Op.on
<1>0. /\ stage = "working" /\ Setup!Op.do = "publish" /\ half = "aside" /\ pc' = pc
      /\ \/ stage' = "failing" /\ half' = half
         \/ stage' = stage /\ half' = "checked" /\ changes[Setup!Newest(o)].prev = expected[o]
      /\ UNCHANGED <<at, root, parent, expected, changes, made, stood, settings, service, saved, complete, signal, found,
                     placed, lost, spent>>
  BY DEF Setup!Compares, Setup!Working, Setup!Fails, Setup!fileVars, Setup!deskVars, Setup!restVars
<1>1. Setup!TypeOK /\ SafeInv BY DEF SetupInv, SafeInv
<1>2. Setup!TypeOK' BY <1>0, <1>1 DEF Setup!TypeOK
<1>3. CASE stage' = "failing"
  <2>1. SafeInv' BY <1>0, <1>3, StandsStill
  <2>2. QED BY <1>2, <2>1 DEF SafeInv, SetupInv
<1>4. CASE stage' = stage /\ half' = "checked" /\ changes[Setup!Newest(o)].prev = expected[o]
  <2>1. JournalInv' BY <1>0, <1>1, <1>4 DEF SafeInv, JournalInv
  <2>2. PublishInv' BY <1>0, <1>1, <1>4 DEF SafeInv, PublishInv, IsNewest, Setup!Op
  <2>3. ASSUME NEW x \in placed PROVE x[2] # expected[x[1]] /\ at[x[1]] = x[2]
    <3>1. x[2] # expected[x[1]] BY <1>0, <1>1 DEF SafeInv, TheirsInv
    <3>2. ASSUME at[x[1]] # x[2] PROVE FALSE
      <4>1. PICK i \in DOMAIN changes : x[1] = o /\ IsNewest(o, i) /\ changes[i].prev = x[2]
        BY <1>0, <1>1, <3>2 DEF SafeInv, TheirsInv
      <4>2. Setup!Newest(o) = i BY <1>1, <4>1, NewestIs
      <4>3. QED BY <1>4, <3>1, <4>1, <4>2
    <3>3. QED BY <3>1, <3>2
  <2>4. TheirsInv' BY <1>0, <1>1, <1>4, <2>3 DEF SafeInv, TheirsInv
  <2>5. Setup!PreviousStays' /\ Setup!TheirsStays'
    BY <1>0, <1>1, <1>4 DEF SafeInv, Setup!PreviousStays, Setup!TheirsStays, Setup!Somewhere
  <2>6. QED BY <1>2, <2>1, <2>2, <2>4, <2>5 DEF SetupInv
<1>5. QED BY <1>0, <1>3, <1>4

\* The first rename: whatever is at the path by now is aside.
LEMMA SetupMovesAsideKeeps == ASSUME Setup!ConstantsAssumption, SetupInv, Setup!MovesAside PROVE SetupInv'
<1> DEFINE o == Setup!Op.on
<1>0. /\ stage = "working" /\ Setup!Op.do = "publish" /\ half = "same" /\ half' = "aside" /\ pc' = pc /\ stage' = "working"
      /\ UNCHANGED <<root, parent, expected, made, stood, settings, service, saved, complete, signal, found, placed, lost, spent>>
  BY DEF Setup!MovesAside, Setup!Working, Setup!deskVars, Setup!restVars
<1>1. /\ Setup!TypeOK /\ SafeInv /\ changes \in Seq(Entry) /\ o \in Setup!Paths /\ DOMAIN changes = 1 .. Len(changes)
      /\ at \in [Setup!Paths -> Setup!Objects] /\ \A p \in Setup!Paths : at[p] < Setup!Theirs + spent.foreign /\ at[p] \in Nat
      /\ spent.foreign \in Nat /\ 0 \in Setup!Objects /\ \A x \in placed : x[1] \in Setup!Paths
  BY <1>0, Working
<1>2. PICK i \in DOMAIN changes : IsNewest(o, i) /\ ~ changes[i].public /\ ~ changes[i].moved BY <1>0, Working
<1>3. /\ at' = [at EXCEPT ![o] = 0]
      /\ changes' = [changes EXCEPT ![i] = [changes[i] EXCEPT !.prev = at[o], !.moved = TRUE]]
  <2>1. Setup!Newest(o) = i BY <1>1, <1>2, NewestIs
  <2>2. QED BY <2>1 DEF Setup!MovesAside
<1> DEFINE c == [changes[i] EXCEPT !.prev = at[o], !.moved = TRUE]
<1>4. /\ c \in Entry /\ c.on = o /\ c.prev = at[o] /\ c.moved /\ ~ c.public
      /\ c.temp = changes[i].temp /\ c.new = changes[i].new
  <2>1. changes[i] \in Entry /\ changes[i].on = o /\ at[o] \in Setup!Objects BY <1>1, <1>2 DEF IsNewest
  <2>2. QED BY <1>2, <2>1 DEF Entry
<1>5. /\ changes' \in Seq(Entry) /\ Len(changes') = Len(changes) /\ DOMAIN changes' = DOMAIN changes
      /\ changes'[i] = c /\ \A j \in DOMAIN changes : j # i => changes'[j] = changes[j]
  <2>1. changes' = [changes EXCEPT ![i] = c] BY <1>3
  <2> HIDE DEF c
  <2>2. QED BY <1>1, <1>4, <2>1, EntryChanged
<1> HIDE DEF c
<1>6. \A p \in Setup!Paths : at'[p] = IF p = o THEN 0 ELSE at[p] BY <1>1, <1>3
<1>7. changes[i].on = o /\ \A p, j : IsNewest(p, j) <=> IsNewest(p, j)' BY <1>2, <1>4, <1>5 DEF IsNewest
<1>8. Setup!Op' = Setup!Op BY <1>0 DEF Setup!Op
<1>9. Setup!TypeOK'
  <2>1. at' \in [Setup!Paths -> Setup!Objects] BY <1>1, <1>3
  <2>2. QED BY <1>0, <1>1, <1>5, <2>1 DEF Setup!TypeOK, Entry
<1>10. JournalInv' BY <1>0, <1>1, <1>4, <1>5 DEF SafeInv, JournalInv
<1> HIDE DEF o
<1>11. PublishInv'
  <2>1. ASSUME NEW p \in Setup!Paths, Due(p, pc)
        PROVE  \E j \in DOMAIN changes' : IsNewest(p, j)' /\ ~ changes'[j].public /\ (changes'[j].moved => o = p)
    <3>1. PICK j \in DOMAIN changes : IsNewest(p, j) /\ ~ changes[j].public /\ ~ changes[j].moved
      BY <1>0, <1>1, <2>1 DEF SafeInv, PublishInv
    <3>2. CASE j = i BY <1>4, <1>5, <1>7, <3>1, <3>2 DEF IsNewest
    <3>3. CASE j # i BY <1>5, <1>7, <3>1, <3>3
    <3>4. QED BY <3>2, <3>3
  <2>2. QED BY <1>0, <1>8, <2>1 DEF PublishInv, o
<1>12. \A x \in placed : x[1] \in Setup!Paths /\ x[2] # expected[x[1]] /\ at[x[1]] = x[2]
  BY <1>0, <1>1 DEF SafeInv, TheirsInv
<1>13. TheirsInv'
  <2>1. \A x \in placed : \/ at'[x[1]] = x[2]
                          \/ o = x[1] /\ IsNewest(x[1], i)' /\ changes'[i].moved /\ changes'[i].prev = x[2]
    BY <1>2, <1>4, <1>5, <1>6, <1>7, <1>12
  <2>2. \A p \in Setup!Paths : at'[p] < Setup!Theirs + spent.foreign
    <3>1. 0 < Setup!Theirs + spent.foreign BY <1>1 DEF Setup!Theirs
    <3>2. QED BY <1>1, <1>6, <3>1
  <2>3. \A j \in DOMAIN changes' : changes'[j].prev < Setup!Theirs + spent.foreign
    BY <1>1, <1>4, <1>5 DEF SafeInv, TheirsInv
  <2>4. QED BY <1>0, <1>1, <1>5, <1>8, <1>12, <2>1, <2>2, <2>3 DEF SafeInv, TheirsInv, o
<1>14. ASSUME NEW v, NEW p \in Setup!Paths, Setup!Somewhere(v, p) PROVE Setup!Somewhere(v, p)'
  <2>1. \A j \in DOMAIN changes : changes[j].temp BY <1>0, <1>1 DEF SafeInv, JournalInv
  <2>2. CASE at[p] = v
    <3>1. CASE p = o BY <1>4, <1>5, <2>1, <2>2, <3>1 DEF Setup!Somewhere
    <3>2. CASE p # o BY <1>6, <2>2, <3>2 DEF Setup!Somewhere
    <3>3. QED BY <3>1, <3>2
  <2>3. CASE at[p] # v
    <3>1. PICK j \in DOMAIN changes : changes[j].on = p /\ changes[j].moved /\ changes[j].prev = v
      BY <1>14, <2>3 DEF Setup!Somewhere
    <3>2. j # i BY <1>2, <3>1
    <3>3. QED BY <1>5, <2>1, <3>1, <3>2 DEF Setup!Somewhere
  <2>4. QED BY <2>2, <2>3
<1>15. Setup!PreviousStays' /\ Setup!TheirsStays'
  BY <1>0, <1>1, <1>12, <1>14 DEF SafeInv, Setup!PreviousStays, Setup!TheirsStays
<1>16. QED BY <1>9, <1>10, <1>11, <1>13, <1>15 DEF SetupInv

\* The second rename: nothing is at the path, so nothing is replaced.
LEMMA SetupMovesInKeeps == ASSUME Setup!ConstantsAssumption, SetupInv, Setup!MovesIn PROVE SetupInv'
<1> DEFINE o == Setup!Op.on
<1>0. /\ stage = "working" /\ Setup!Op.do = "publish" /\ half = "checked"
      /\ UNCHANGED <<root, parent, expected, made, stood, settings, service, saved, complete, signal, found, placed, lost, spent>>
  BY DEF Setup!MovesIn, Setup!Working, Setup!deskVars, Setup!restVars
<1>1. /\ Setup!TypeOK /\ SafeInv /\ changes \in Seq(Entry) /\ o \in Setup!Paths /\ DOMAIN changes = 1 .. Len(changes)
      /\ Len(changes) \in 0 .. 5 /\ pc \in 1 .. Len(Setup!Plan) /\ Upgrade \in BOOLEAN
      /\ at \in [Setup!Paths -> Setup!Objects] /\ \A p \in Setup!Paths : at[p] < Setup!Theirs + spent.foreign /\ at[p] \in Nat
      /\ spent.foreign \in Nat /\ \A x \in placed : x[1] \in Setup!Paths
      /\ spent \in [foreign : 0 .. MaxForeign, faults : 0 .. MaxFaults] /\ MaxForeign \in Nat
  BY <1>0, Working DEF Setup!TypeOK, Setup!ConstantsAssumption
<1>2. PICK i \in DOMAIN changes : IsNewest(o, i) /\ ~ changes[i].public BY <1>0, Working
<1>3. CASE Setup!Fails /\ UNCHANGED <<at, changes>>
  <2>1. stage' = "failing" /\ UNCHANGED <<pc, half, at, changes>> BY <1>3 DEF Setup!Fails
  <2>2. SafeInv' BY <1>0, <2>1, StandsStill
  <2>3. Setup!TypeOK' BY <1>0, <1>1, <2>1 DEF Setup!TypeOK
  <2>4. QED BY <2>2, <2>3 DEF SafeInv, SetupInv
<1>4. CASE ~ (Setup!Fails /\ UNCHANGED <<at, changes>>)
  <2> DEFINE c == [changes[i] EXCEPT !.public = TRUE]
             n == changes[i].new
  <2>1. /\ at[o] = 0 /\ pc' = pc + 1 /\ half' = "no" /\ stage' = "working"
        /\ at' = [at EXCEPT ![o] = n] /\ changes' = [changes EXCEPT ![i] = c]
    <3>1. Setup!Newest(o) = i BY <1>1, <1>2, NewestIs
    <3>2. QED BY <1>0, <1>4, <3>1 DEF Setup!MovesIn, Setup!Advance
  <2>2. changes[i] \in Entry /\ changes[i].on = o /\ n = i + 1 /\ i \in 1 .. 5
    BY <1>1, <1>2 DEF IsNewest, SafeInv, JournalInv
  <2>3. /\ c \in Entry /\ c.on = o /\ c.prev = changes[i].prev /\ c.moved = changes[i].moved
        /\ c.temp = changes[i].temp /\ c.new = changes[i].new
    BY <2>2 DEF Entry
  <2> HIDE DEF c
  <2>4. /\ changes' \in Seq(Entry) /\ Len(changes') = Len(changes) /\ DOMAIN changes' = DOMAIN changes
        /\ changes'[i] = c /\ \A j \in DOMAIN changes : j # i => changes'[j] = changes[j]
    BY <1>1, <2>1, <2>3, EntryChanged
  <2>5. n \in Setup!Objects /\ n < Setup!Theirs /\ n < Setup!Theirs + spent.foreign /\ n # 0
    BY <1>1, <2>2, SMTT(30) DEF Setup!Objects, Setup!Theirs
  <2> HIDE DEF n
  <2>6. \A p \in Setup!Paths : at'[p] = IF p = o THEN n ELSE at[p] BY <1>1, <2>1
  <2>7. pc' \in 1 .. Len(Setup!Plan) /\ Slots(pc) \in 0 .. 5 /\ Slots(pc') \in 0 .. 5 /\ Slots(pc) <= Slots(pc')
    BY <1>0, <1>1, <2>1, Here, Order
  <2>8. Setup!TypeOK'
    <3>1. at' \in [Setup!Paths -> Setup!Objects] BY <1>1, <2>1, <2>5
    <3>2. QED BY <1>0, <1>1, <2>1, <2>4, <2>7, <3>1 DEF Setup!TypeOK, Entry
  <2>9. JournalInv' BY <1>0, <1>1, <2>1, <2>3, <2>4, <2>7 DEF SafeInv, JournalInv
  <2>10. PublishInv'
    <3>1. ASSUME NEW p \in Setup!Paths, Due(p, pc')
          PROVE  \E j \in DOMAIN changes' : IsNewest(p, j)' /\ ~ changes'[j].public /\ ~ changes'[j].moved
      <4>1. Due(p, pc) /\ p # o BY <1>0, <1>1, <2>1, <3>1, Order DEF Setup!Op
      <4> HIDE DEF o
      <4>2. PICK j \in DOMAIN changes : IsNewest(p, j) /\ ~ changes[j].public /\ ~ changes[j].moved
        BY <1>0, <1>1, <4>1 DEF SafeInv, PublishInv, o
      <4>3. j # i BY <2>2, <4>1, <4>2 DEF IsNewest
      <4>4. QED BY <2>2, <2>3, <2>4, <4>2, <4>3 DEF IsNewest
    <3>2. QED BY <2>1, <3>1 DEF PublishInv
  <2>11. \A x \in placed : /\ x[1] \in Setup!Paths /\ x[2] # expected[x[1]] /\ at[x[1]] = x[2] /\ x[1] # o
    BY <1>0, <1>1, <2>1 DEF SafeInv, TheirsInv, Setup!Theirs
  <2> HIDE DEF o
  <2>12. TheirsInv' BY <1>0, <1>1, <2>1, <2>3, <2>4, <2>5, <2>6, <2>11 DEF SafeInv, TheirsInv
  <2>13. ASSUME NEW v, v # 0, NEW p \in Setup!Paths, Setup!Somewhere(v, p) PROVE Setup!Somewhere(v, p)'
    BY <2>1, <2>2, <2>3, <2>4, <2>6, <2>13, <1>0 DEF Setup!Somewhere
  <2>14. Setup!PreviousStays' BY <1>0, <1>1, <2>13 DEF SafeInv, Setup!PreviousStays, Setup!Original
  <2>15. Setup!TheirsStays' BY <1>0, <2>11, <2>6 DEF Setup!TheirsStays, Setup!Somewhere
  <2>16. QED BY <2>8, <2>9, <2>10, <2>12, <2>14, <2>15 DEF SetupInv
<1>5. QED BY <1>3, <1>4

\* Transaction::retire.
LEMMA SetupRetireKeeps == ASSUME Setup!ConstantsAssumption, SetupInv, Setup!Retire PROVE SetupInv'
<1> DEFINE o == Setup!Op.on
           c == [on |-> o, new |-> Len(changes) + 2, prev |-> at[o], moved |-> TRUE, public |-> FALSE, temp |-> TRUE]
<1>0. /\ stage = "working" /\ Setup!Op.do = "retire" /\ half' = "no" /\ stage' = "working" /\ pc' = pc + 1
      /\ expected' = [expected EXCEPT ![o] = at[o]] /\ placed' = placed \ {<<o, at[o]>>}
      /\ \/ at[o] = 0 /\ UNCHANGED <<at, changes>>
         \/ at[o] # 0 /\ at' = [at EXCEPT ![o] = 0] /\ changes' = Append(changes, c)
      /\ UNCHANGED <<root, parent, made, stood, settings, service, saved, complete, signal, found, lost, spent>>
  BY DEF Setup!Retire, Setup!Working, Setup!Advance, Setup!Adopts, Setup!deskVars
<1>1. /\ Setup!TypeOK /\ SafeInv /\ changes \in Seq(Entry) /\ o \in Setup!Paths /\ pc \in 1 .. Len(Setup!Plan) /\ Upgrade \in BOOLEAN
      /\ at \in [Setup!Paths -> Setup!Objects] /\ expected \in [Setup!Paths -> Setup!Objects]
      /\ \A p \in Setup!Paths : at[p] < Setup!Theirs + spent.foreign /\ at[p] \in Nat
      /\ Len(changes) \in 0 .. 5 /\ DOMAIN changes = 1 .. Len(changes) /\ spent.foreign \in Nat /\ 0 \in Setup!Objects
  BY <1>0, Working
<1>2. /\ half = "no" /\ pc' \in 1 .. Len(Setup!Plan) /\ Slots(pc) \in 0 .. 5 /\ Slots(pc') \in 0 .. 5 /\ Slots(pc) < Slots(pc')
      /\ Len(changes) <= Slots(pc)
  BY <1>0, <1>1, Here, Order DEF SafeInv, PublishInv, JournalInv, Setup!TypeOK, Setup!Op
<1>3. c \in Entry /\ c.on = o /\ c.new = Len(changes) + 2 /\ c.prev = at[o] /\ c.moved /\ c.temp
  <2>1. Len(changes) + 2 \in 2 .. 8 BY <1>1, SMTT(30)
  <2>2. at[o] \in Setup!Objects BY <1>1
  <2>3. QED BY <1>1, <2>1, <2>2 DEF Entry
<1>4. \A p \in Setup!Paths : Due(p, pc') => Due(p, pc) /\ p # o
  <2>1. \A p \in Setup!Paths : Due(p, pc') => Due(p, pc) BY <1>0, <1>1, Order DEF Setup!Op
  <2>2. o = "oldlink" BY <1>0, <1>1, Places DEF Setup!Op
  <2>3. QED BY <2>1, <2>2 DEF Due
<1> HIDE DEF c
<1>5. \/ at[o] = 0 /\ UNCHANGED <<at, changes>>
      \/ /\ at[o] # 0 /\ at' = [at EXCEPT ![o] = 0]
         /\ changes' \in Seq(Entry) /\ Len(changes') = Len(changes) + 1 /\ DOMAIN changes' = DOMAIN changes \cup {Len(changes) + 1}
         /\ changes'[Len(changes) + 1] = c /\ \A i \in DOMAIN changes : changes'[i] = changes[i]
  <2>1. ASSUME changes' = Append(changes, c)
        PROVE  /\ changes' \in Seq(Entry) /\ Len(changes') = Len(changes) + 1 /\ DOMAIN changes' = DOMAIN changes \cup {Len(changes) + 1}
               /\ changes'[Len(changes) + 1] = c /\ \A i \in DOMAIN changes : changes'[i] = changes[i]
    BY <1>1, <1>3, <2>1, EntryAdded
  <2>2. QED BY <1>0, <2>1
<1> HIDE DEF o
<1>6. \A p \in Setup!Paths : at'[p] = IF p = o THEN 0 ELSE at[p] BY <1>1, <1>5
<1>7. Setup!TypeOK'
  <2>1. at' \in [Setup!Paths -> Setup!Objects] /\ expected' \in [Setup!Paths -> Setup!Objects] BY <1>0, <1>1, <1>5
  <2>2. QED BY <1>0, <1>1, <1>2, <1>5, <2>1 DEF Setup!TypeOK, Entry
<1>8. JournalInv'
  <2>1. Len(changes) <= Slots(pc') /\ Len(changes) + 1 <= Slots(pc') /\ Len(changes) + 1 <= 5 BY <1>1, <1>2
  <2>2. (\A i \in DOMAIN changes : changes[i].new = i + 1 /\ changes[i].temp) BY <1>0, <1>1 DEF SafeInv, JournalInv
  <2>3. CASE changes' = changes
    <3>1. Len(changes') <= 5 /\ Len(changes') <= Slots(pc') BY <1>1, <2>1, <2>3
    <3>2. QED BY <2>2, <2>3, <3>1 DEF JournalInv
  <2>4. CASE changes' # changes BY <1>0, <1>1, <1>3, <1>5, <2>1, <2>2, <2>4, SMTT(30) DEF JournalInv
  <2>5. QED BY <2>3, <2>4
<1>9. PublishInv'
  <2>1. ASSUME NEW p \in Setup!Paths, Due(p, pc')
        PROVE  \E j \in DOMAIN changes' : IsNewest(p, j)' /\ ~ changes'[j].public /\ ~ changes'[j].moved
    <3>1. PICK j \in DOMAIN changes : IsNewest(p, j) /\ ~ changes[j].public /\ ~ changes[j].moved
      BY <1>0, <1>1, <1>2, <1>4, <2>1 DEF SafeInv, PublishInv
    <3>2. QED BY <1>3, <1>4, <1>5, <2>1, <3>1 DEF IsNewest
  <2>2. QED BY <1>0, <2>1 DEF PublishInv
<1>10. \A x \in placed : x[2] # expected[x[1]] /\ at[x[1]] = x[2] BY <1>0, <1>1, <1>2 DEF SafeInv, TheirsInv
<1>11. \A x \in placed' : x \in placed /\ x[1] # o /\ x[1] \in Setup!Paths
  <2>1. \A x \in placed : x[1] \in Setup!Paths /\ x = <<x[1], x[2]>> BY <1>0, Working
  <2>2. QED BY <1>0, <1>10, <2>1
<1>12. \A p \in Setup!Paths : expected'[p] = IF p = o THEN at[o] ELSE expected[p] BY <1>0, <1>1
<1>13. TheirsInv'
  <2>1. \A x \in placed' : x[2] # expected'[x[1]] /\ at'[x[1]] = x[2] BY <1>1, <1>6, <1>10, <1>11, <1>12
  <2>2. \A p \in Setup!Paths : at'[p] < Setup!Theirs + spent.foreign
    <3>1. 0 < Setup!Theirs + spent.foreign BY <1>1 DEF Setup!Theirs
    <3>2. QED BY <1>1, <1>6, <3>1
  <2>3. \A j \in DOMAIN changes' : changes'[j].prev < Setup!Theirs + spent.foreign
    <3>1. \A j \in DOMAIN changes : changes[j].prev < Setup!Theirs + spent.foreign BY <1>1 DEF SafeInv, TheirsInv
    <3>2. c.prev < Setup!Theirs + spent.foreign BY <1>1, <1>3
    <3>3. QED BY <1>5, <3>1, <3>2
  <2>4. QED BY <1>0, <1>1, <1>11, <1>12, <2>1, <2>2, <2>3 DEF SafeInv, TheirsInv
<1>14. Setup!TheirsStays' BY <1>1, <1>6, <1>10, <1>11 DEF Setup!TheirsStays, Setup!Somewhere
<1>15. ASSUME NEW v, v # 0, NEW p \in Setup!Paths, Setup!Somewhere(v, p) PROVE Setup!Somewhere(v, p)'
  <2>1. CASE p = o /\ at[o] = v
    <3>1. QED BY <1>3, <1>5, <1>15, <2>1 DEF Setup!Somewhere
  <2>2. CASE p # o /\ at[p] = v BY <1>6, <2>2 DEF Setup!Somewhere
  <2>3. CASE at[p] # v BY <1>0, <1>5, <1>15, <2>3 DEF Setup!Somewhere
  <2>4. QED BY <2>1, <2>2, <2>3
<1>16. Setup!PreviousStays' BY <1>0, <1>1, <1>15 DEF SafeInv, Setup!PreviousStays, Setup!Original
<1>17. QED BY <1>7, <1>8, <1>9, <1>13, <1>14, <1>16 DEF SetupInv

\* Transaction::commit: every object of another program is at its path, so the private directories may go.
LEMMA SetupCommitKeeps == ASSUME Setup!ConstantsAssumption, SetupInv, Setup!Commit PROVE SetupInv'
<1> DEFINE t == [i \in DOMAIN changes |-> [changes[i] EXCEPT !.temp = FALSE]]
<1>0. /\ stage = "working" /\ Setup!Op.do = "commit" /\ stage' = "committed" /\ changes' = t
      /\ UNCHANGED <<pc, half, at, root, parent, expected, made, stood, settings, service, saved, complete, signal, found,
                     placed, lost, spent>>
  BY DEF Setup!Commit, Setup!Working, Setup!deskVars, Setup!restVars
<1>1. /\ Setup!TypeOK /\ SafeInv /\ changes \in Seq(Entry) /\ DOMAIN changes = 1 .. Len(changes) /\ Len(changes) \in Nat
      /\ half = "no"
  BY <1>0, Working DEF SafeInv, PublishInv
<1>2. \A i \in DOMAIN changes : /\ changes[i] \in Entry /\ t[i] \in Entry
                                /\ t[i].new = changes[i].new /\ t[i].prev = changes[i].prev
  <2>1. \A e \in Entry : LET f == [e EXCEPT !.temp = FALSE] IN f \in Entry /\ f.new = e.new /\ f.prev = e.prev BY DEF Entry
  <2>2. \A i \in DOMAIN changes : changes[i] \in Entry BY <1>1
  <2>3. QED BY <2>1, <2>2
<1>3. t \in Seq(Entry) /\ Len(t) = Len(changes) /\ DOMAIN t = DOMAIN changes
  <2> HIDE DEF t
  <2>1. t \in [1 .. Len(changes) -> Entry] BY <1>1, <1>2 DEF t
  <2>2. QED BY <1>1, <2>1
<1> HIDE DEF t
<1>4. Setup!TypeOK' BY <1>0, <1>1, <1>3 DEF Setup!TypeOK, Entry
<1>5. JournalInv' /\ PublishInv' BY <1>0, <1>1, <1>2, <1>3 DEF SafeInv, JournalInv, PublishInv
<1>6. TheirsInv' BY <1>0, <1>1, <1>2, <1>3 DEF SafeInv, TheirsInv
<1>7. Setup!PreviousStays' /\ Setup!TheirsStays'
  BY <1>0, <1>1 DEF SafeInv, TheirsInv, Setup!PreviousStays, Setup!TheirsStays, Setup!Somewhere
<1>8. QED BY <1>4, <1>5, <1>6, <1>7 DEF SetupInv

\* Of a few numbers one is the largest.
LEMMA LastOfFive == ASSUME NEW S \in SUBSET (1 .. 5), S # {} PROVE \E i \in S : \A j \in S : j <= i
<1>1. CASE 5 \in S BY <1>1
<1>2. CASE 5 \notin S /\ 4 \in S BY <1>2
<1>3. CASE 5 \notin S /\ 4 \notin S /\ 3 \in S BY <1>3
<1>4. CASE 5 \notin S /\ 4 \notin S /\ 3 \notin S /\ 2 \in S BY <1>4
<1>5. CASE 5 \notin S /\ 4 \notin S /\ 3 \notin S /\ 2 \notin S
  <2>1. \A j \in S : j = 1 BY <1>5
  <2>2. PICK k \in S : TRUE OBVIOUS
  <2>3. \A j \in S : j <= k BY <2>1
  <2>4. QED BY <2>3
<1>6. QED BY <1>1, <1>2, <1>3, <1>4, <1>5

\* The change that is undone next.
LEMMA Undoing ==
    ASSUME SetupInv, Setup!Undo # {}
    PROVE  LET i == Setup!Latest(Setup!Undo) IN
           /\ changes \in Seq(Entry) /\ i \in DOMAIN changes /\ i \in 1 .. 5 /\ changes[i].temp /\ changes[i] \in Entry
           /\ \A j \in DOMAIN changes : changes[j].temp => j <= i
<1>1. changes \in Seq(Entry) /\ Len(changes) <= 5 BY DEF SetupInv, Setup!TypeOK, JournalInv, Entry
<1>2. Setup!Undo \in SUBSET (1 .. 5) BY <1>1 DEF Setup!Undo
<1>3. \E i \in Setup!Undo : \A j \in Setup!Undo : j <= i BY <1>2, LastOfFive
<1>4. Setup!Latest(Setup!Undo) \in Setup!Undo /\ \A j \in Setup!Undo : j <= Setup!Latest(Setup!Undo)
  BY <1>3 DEF Setup!Latest
<1>5. QED BY <1>1, <1>2, <1>4 DEF Setup!Undo

\* Drop for Transaction, one change: an object that is not the installer's own stays where it is.
LEMMA SetupRestoreChangeKeeps == ASSUME Setup!ConstantsAssumption, SetupInv, Setup!RestoreChange PROVE SetupInv'
<1> DEFINE i == Setup!Latest(Setup!Undo)
           e == changes[i]
           o == e.on
           stays == [e EXCEPT !.temp = FALSE]
           undone == [e EXCEPT !.temp = FALSE, !.moved = FALSE]
           back == IF e.moved THEN e.prev ELSE IF e.public THEN 0 ELSE at[o]
<1>0. /\ stage = "failing" /\ Setup!Undo # {}
      /\ UNCHANGED <<pc, half, stage, root, parent, expected, made, stood, settings, service, saved, complete, signal,
                     found, placed, lost, spent>>
  BY DEF Setup!RestoreChange, Setup!deskVars, Setup!restVars
<1>1. \/ /\ (e.public => at[o] = e.new) /\ (e.moved => e.public \/ at[o] = 0)
         /\ at' = [at EXCEPT ![o] = back] /\ changes' = [changes EXCEPT ![i] = undone]
      \/ changes' = [changes EXCEPT ![i] = stays] /\ at' = at
  BY DEF Setup!RestoreChange, Setup!Own, Setup!Free
<1>2. Setup!TypeOK /\ SafeInv /\ changes \in Seq(Entry) /\ i \in DOMAIN changes /\ e \in Entry /\ e.new = i + 1 /\ i \in 1 .. 5
  BY <1>0, Undoing DEF SetupInv, SafeInv, JournalInv
<1>3. /\ stays \in Entry /\ stays.on = o /\ stays.new = e.new /\ stays.prev = e.prev /\ stays.moved = e.moved
      /\ undone \in Entry /\ undone.on = o /\ undone.new = e.new /\ undone.prev = e.prev /\ ~ undone.moved
  BY <1>2 DEF Entry
<1>4. /\ at \in [Setup!Paths -> Setup!Objects] /\ o \in Setup!Paths /\ back \in Setup!Objects
      /\ back < Setup!Theirs + spent.foreign /\ e.new < Setup!Theirs
  <2>1. at \in [Setup!Paths -> Setup!Objects] /\ o \in Setup!Paths /\ e.prev \in Setup!Objects /\ spent.foreign \in Nat /\ 0 \in Setup!Objects
    BY <1>2 DEF Entry, Setup!TypeOK, Setup!Objects, Setup!Theirs, Setup!ConstantsAssumption
  <2>2. at[o] < Setup!Theirs + spent.foreign /\ e.prev < Setup!Theirs + spent.foreign /\ 0 < Setup!Theirs + spent.foreign
    BY <1>2, <2>1 DEF SafeInv, TheirsInv, Setup!Theirs
  <2>3. QED BY <1>2, <2>1, <2>2 DEF Setup!Theirs
<1> HIDE DEF stays, undone, back
<1>5. /\ changes' \in Seq(Entry) /\ Len(changes') = Len(changes) /\ DOMAIN changes' = DOMAIN changes
      /\ \A j \in DOMAIN changes : j # i => changes'[j] = changes[j]
      /\ \/ /\ changes'[i] = undone /\ \A p \in Setup!Paths : at'[p] = IF p = o THEN back ELSE at[p]
            /\ at' \in [Setup!Paths -> Setup!Objects]
            /\ (e.public => at[o] = e.new) /\ (e.moved => e.public \/ at[o] = 0)
         \/ changes'[i] = stays /\ at' = at
  <2>1. PICK c \in {stays, undone} : changes' = [changes EXCEPT ![i] = c] BY <1>1
  <2> HIDE DEF i, e, o
  <2>2. changes' \in Seq(Entry) /\ Len(changes') = Len(changes) /\ DOMAIN changes' = DOMAIN changes
        /\ changes'[i] = c /\ \A j \in DOMAIN changes : j # i => changes'[j] = changes[j]
    BY <1>2, <1>3, <2>1, EntryChanged
  <2>3. (changes' = [changes EXCEPT ![i] = undone] => changes'[i] = undone) /\ (changes' = [changes EXCEPT ![i] = stays] => changes'[i] = stays)
    BY <1>2
  <2>4. QED BY <1>1, <1>2, <1>4, <2>2, <2>3
<1>6. \A j \in DOMAIN changes : changes'[j].on = changes[j].on /\ changes'[j].new = changes[j].new /\ changes'[j].prev = changes[j].prev
  BY <1>3, <1>5
<1> HIDE DEF i, e
<1>7. Setup!TypeOK' BY <1>0, <1>2, <1>4, <1>5 DEF Setup!TypeOK, Entry
<1>8. JournalInv' /\ PublishInv' BY <1>0, <1>2, <1>5, <1>6 DEF SafeInv, JournalInv, PublishInv
<1>9. TheirsInv'
  <2>1. \A p \in Setup!Paths : at'[p] < Setup!Theirs + spent.foreign BY <1>2, <1>4, <1>5 DEF SafeInv, TheirsInv
  <2>2. QED BY <1>0, <1>2, <1>5, <1>6, <2>1 DEF SafeInv, TheirsInv
<1>10. ASSUME NEW v \in Nat, v = Setup!Original \/ v >= Setup!Theirs, NEW p \in Setup!Paths, Setup!Somewhere(v, p)
       PROVE  Setup!Somewhere(v, p)'
  <2>1. CASE changes'[i] = stays /\ at' = at
    BY <1>0, <1>2, <1>3, <1>5, <1>10, <2>1 DEF Setup!Somewhere, e
  <2>2. CASE /\ changes'[i] = undone /\ \A q \in Setup!Paths : at'[q] = IF q = o THEN back ELSE at[q]
             /\ (e.public => at[o] = e.new) /\ (e.moved => e.public \/ at[o] = 0)
    <3>1. at[o] = v => at'[o] = v
      BY <1>2, <1>4, <1>10, <2>2 DEF back, Setup!Original, Setup!Theirs
    <3>2. e.moved => at'[o] = e.prev BY <1>4, <2>2 DEF back
    <3>3. CASE at[p] = v BY <2>2, <3>1, <3>3 DEF Setup!Somewhere
    <3>4. CASE at[p] # v
      <4>1. PICK j \in DOMAIN changes : changes[j].on = p /\ changes[j].moved /\ changes[j].prev = v
        BY <1>10, <3>4 DEF Setup!Somewhere
      <4>2. CASE j = i BY <3>2, <4>1, <4>2 DEF Setup!Somewhere, e
      <4>3. CASE j # i BY <1>0, <1>5, <4>1, <4>3 DEF Setup!Somewhere
      <4>4. QED BY <4>2, <4>3
    <3>5. QED BY <3>3, <3>4
  <2>3. QED BY <1>5, <2>1, <2>2
<1>11. Setup!PreviousStays' BY <1>0, <1>2, <1>10 DEF SafeInv, Setup!PreviousStays, Setup!Original
<1>12. Setup!TheirsStays'
  <2>1. \A x \in placed : x[1] \in Setup!Paths /\ x[2] \in Nat
    <3>1. \A x \in Setup!Paths \X Setup!Objects : x[2] \in Nat /\ x[1] \in Setup!Paths BY DEF Setup!Objects, Setup!Theirs, Setup!ConstantsAssumption
    <3>2. placed \subseteq Setup!Paths \X Setup!Objects BY <1>2 DEF Setup!TypeOK
    <3>3. QED BY <3>1, <3>2
  <2>2. QED BY <1>0, <1>2, <1>10, <2>1 DEF SafeInv, TheirsInv, Setup!TheirsStays
<1>13. QED BY <1>7, <1>8, <1>9, <1>11, <1>12 DEF SetupInv

\* Another program's object is newer than all that was seen.
LEMMA SetupForeignKeeps ==
    ASSUME Setup!ConstantsAssumption, SetupInv, NEW o \in Setup!Paths, Setup!Foreign(o) PROVE SetupInv'
<1> DEFINE v == Setup!Theirs + spent.foreign
<1>0. /\ stage \in {"working", "failing"} /\ spent.foreign < MaxForeign
      /\ at' = [at EXCEPT ![o] = v] /\ placed' = (placed \ {<<o, at[o]>>}) \cup {<<o, v>>}
      /\ lost' = (IF at[o] = Setup!Original THEN lost \cup {o} ELSE lost)
      /\ spent' = [spent EXCEPT !.foreign = @ + 1]
      /\ UNCHANGED <<pc, half, stage, root, parent, expected, changes, made, stood, settings, service, saved, complete, signal, found>>
  BY DEF Setup!Foreign, Setup!deskVars
<1>1. /\ Setup!TypeOK /\ SafeInv /\ changes \in Seq(Entry) /\ at \in [Setup!Paths -> Setup!Objects]
      /\ expected \in [Setup!Paths -> Setup!Objects] /\ placed \subseteq Setup!Paths \X Setup!Objects
      /\ spent \in [foreign : 0 .. MaxForeign, faults : 0 .. MaxFaults] /\ MaxForeign \in Nat
  BY DEF SetupInv, SafeInv, Setup!TypeOK, Entry, Setup!ConstantsAssumption
<1>2. /\ spent.foreign \in Nat /\ v \in Setup!Objects /\ v >= Setup!Theirs /\ v \in Nat
      /\ spent' \in [foreign : 0 .. MaxForeign, faults : 0 .. MaxFaults] /\ spent'.foreign = spent.foreign + 1
      /\ Setup!Objects \subseteq Nat
  <2>1. spent.foreign \in Nat /\ spent.foreign + 1 \in 0 .. MaxForeign BY <1>0, <1>1
  <2>2. spent' \in [foreign : 0 .. MaxForeign, faults : 0 .. MaxFaults] /\ spent'.foreign = spent.foreign + 1 BY <1>0, <1>1, <2>1
  <2>3. v \in Setup!Objects /\ v >= Setup!Theirs /\ v \in Nat /\ Setup!Objects \subseteq Nat
    BY <1>0, <1>1, <2>1 DEF Setup!Objects, Setup!Theirs
  <2>4. QED BY <2>1, <2>2, <2>3
<1>3. \A p \in Setup!Paths : at'[p] = IF p = o THEN v ELSE at[p] BY <1>0, <1>1
<1>4. Setup!TypeOK'
  <2>1. at' \in [Setup!Paths -> Setup!Objects] /\ placed' \subseteq Setup!Paths \X Setup!Objects /\ lost' \subseteq Setup!Paths
    <3> HIDE DEF v
    <3>1. lost \subseteq Setup!Paths BY <1>1 DEF Setup!TypeOK
    <3>2. QED BY <1>0, <1>1, <1>2, <3>1
  <2>2. QED BY <1>0, <1>1, <1>2, <2>1 DEF Setup!TypeOK
<1>5. JournalInv' BY <1>0, <1>1 DEF SafeInv, JournalInv
<1>6. PublishInv' BY <1>0, <1>1 DEF SafeInv, PublishInv, IsNewest, Setup!Op
<1> HIDE DEF v
<1>7. /\ \A p \in Setup!Paths : at[p] < v /\ expected[p] < v
      /\ \A i \in DOMAIN changes : changes[i].prev < v
      /\ \A x \in placed : Setup!Theirs <= x[2] /\ x[2] < v /\ x[2] \in Nat /\ x[1] \in Setup!Paths
  <2>1. /\ \A p \in Setup!Paths : at[p] < v /\ expected[p] < v
        /\ \A i \in DOMAIN changes : changes[i].prev < v
        /\ \A x \in placed : Setup!Theirs <= x[2] /\ x[2] < v
    BY <1>1 DEF SafeInv, TheirsInv, v
  <2>2. \A x \in placed : x[2] \in Nat /\ x[1] \in Setup!Paths
    <3>1. \A x \in Setup!Paths \X Setup!Objects : x[2] \in Setup!Objects /\ x[1] \in Setup!Paths OBVIOUS
    <3>2. placed \subseteq Setup!Paths \X Setup!Objects BY <1>1 DEF Setup!TypeOK
    <3>3. QED BY <1>2, <3>1, <3>2
  <2>3. QED BY <2>1, <2>2
<1>8. \A x \in placed' : x = <<o, v>> \/ (x \in placed /\ ~ (x[1] = o /\ at[o] = x[2]))
  <2>1. \A x \in Setup!Paths \X Setup!Objects : x = <<x[1], x[2]>> OBVIOUS
  <2>2. \A x \in placed : x = <<x[1], x[2]>> BY <1>1, <2>1
  <2>3. QED BY <1>0, <2>2
<1>9. TheirsInv'
  <2>1. Setup!Theirs + spent'.foreign = v + 1 BY <1>2 DEF v, Setup!Theirs
  <2>2. \A p \in Setup!Paths : at'[p] < v + 1 /\ expected'[p] < v + 1
    <3>1. \A p \in Setup!Paths : at[p] \in Nat /\ expected[p] \in Nat BY <1>1, <1>2
    <3>2. QED BY <1>0, <1>2, <1>3, <1>7, <3>1
  <2>3. \A i \in DOMAIN changes' : changes'[i].prev < v + 1
    <3>1. \A i \in DOMAIN changes : changes[i].prev \in Nat
      <4>1. \A i \in DOMAIN changes : changes[i] \in Entry BY <1>1
      <4>2. \A e \in Entry : e.prev \in Nat BY <1>2 DEF Entry
      <4>3. QED BY <4>1, <4>2
    <3>2. QED BY <1>0, <1>2, <1>7, <3>1
  <2>4. \A x \in placed' : Setup!Theirs <= x[2] /\ x[2] < v + 1
    <3>1. \A x \in placed : Setup!Theirs <= x[2] /\ x[2] < v + 1 BY <1>2, <1>7
    <3>2. QED BY <1>2, <1>8, <3>1
  <2>5. ASSUME stage = "working", NEW x \in placed'
        PROVE  /\ x[2] # expected[x[1]]
               /\ \/ at'[x[1]] = x[2]
                  \/ /\ half = "aside" /\ Setup!Op.on = x[1]
                     /\ \E i \in DOMAIN changes : IsNewest(x[1], i) /\ changes[i].moved /\ changes[i].prev = x[2]
    <3>1. CASE x = <<o, v>> BY <1>1, <1>2, <1>3, <1>7, <3>1
    <3>2. CASE x \in placed /\ ~ (x[1] = o /\ at[o] = x[2])
      BY <1>1, <1>3, <1>7, <2>5, <3>2 DEF SafeInv, TheirsInv
    <3>3. QED BY <1>8, <2>5, <3>1, <3>2
  <2>6. Setup!Op' = Setup!Op /\ \A p, i : IsNewest(p, i)' <=> IsNewest(p, i) BY <1>0 DEF Setup!Op, IsNewest
  <2>7. QED BY <1>0, <2>1, <2>2, <2>3, <2>4, <2>5, <2>6 DEF TheirsInv
<1>10. \A u : \A p \in Setup!Paths : Setup!Somewhere(u, p) => (p = o /\ at[o] = u) \/ Setup!Somewhere(u, p)'
  BY <1>0, <1>3 DEF Setup!Somewhere
<1>11. Setup!PreviousStays'
  BY <1>0, <1>1, <1>10 DEF SafeInv, Setup!PreviousStays
<1>12. Setup!TheirsStays'
  <2>1. at'[o] = v BY <1>3
  <2>2. ASSUME NEW x \in placed' PROVE at'[x[1]] = x[2] \/ Setup!Somewhere(x[2], x[1])'
    <3>1. CASE x = <<o, v>> BY <2>1, <3>1
    <3>2. CASE x \in placed /\ ~ (x[1] = o /\ at[o] = x[2]) BY <1>1, <1>7, <1>10, <3>2 DEF SafeInv, Setup!TheirsStays
    <3>3. QED BY <1>8, <2>2, <3>1, <3>2
  <2>3. QED BY <2>2 DEF Setup!TheirsStays, Setup!Somewhere
<1>13. QED BY <1>4, <1>5, <1>6, <1>9, <1>11, <1>12 DEF SetupInv

\* The other steps of the plan leave the paths and the journal alone.
LEMMA SetupGoesOn ==
    ASSUME Setup!ConstantsAssumption, SetupInv,
           \/ Setup!Relocate \/ Setup!Directory \/ Setup!Runs \/ Setup!Apply \/ Setup!Probe \/ Setup!Mark
    PROVE  SetupInv'
<1>1. /\ stage = "working" /\ Setup!Advance
      /\ Setup!Op.do \notin {"prepare", "publish", "retire", "commit", "expect"}
      /\ UNCHANGED <<at, expected, changes, placed, lost, found, spent>>
  BY DEF Setup!Relocate, Setup!Directory, Setup!Runs, Setup!Apply, Setup!Probe, Setup!Mark, Setup!Working,
         Setup!fileVars, Setup!deskVars, Setup!restVars
<1>2. SafeInv' /\ pc' \in 1 .. Len(Setup!Plan) /\ half' = "no" /\ stage' = "working" BY <1>1, PlanGoesOn
<1>3. Setup!TypeOK BY DEF SetupInv
<1>4. /\ root' \in {"old", "new"} /\ parent' \in {"none", "loose", "tight"} /\ made' \in {"no", "made", "moded"}
      /\ settings' \in {"old", "new"} /\ service' = service /\ complete' \in BOOLEAN /\ signal' = signal
      /\ saved' \in [touched : BOOLEAN, enabled : BOOLEAN, active : BOOLEAN]
  <2>1. CASE Setup!Relocate \/ Setup!Directory \/ Setup!Runs
    BY <1>3, <2>1 DEF Setup!TypeOK, Setup!Relocate, Setup!Directory, Setup!Runs, Setup!fileVars, Setup!deskVars, Setup!restVars
  <2>2. CASE Setup!Apply \/ Setup!Mark
    BY <1>3, <2>2 DEF Setup!TypeOK, Setup!Apply, Setup!Mark, Setup!fileVars, Setup!restVars
  <2>3. CASE Setup!Probe
    <3>1. (service.enabled = "old") \in BOOLEAN /\ (service.active = "old") \in BOOLEAN OBVIOUS
    <3>2. \A a, b \in BOOLEAN : [touched |-> TRUE, enabled |-> a, active |-> b]
                                 \in [touched : BOOLEAN, enabled : BOOLEAN, active : BOOLEAN]
      OBVIOUS
    <3>3. saved' = saved \/ saved' = [touched |-> TRUE, enabled |-> service.enabled = "old", active |-> service.active = "old"]
      BY <2>3, Zenon DEF Setup!Probe
    <3>4. saved' \in [touched : BOOLEAN, enabled : BOOLEAN, active : BOOLEAN]
      BY <1>3, <3>1, <3>2, <3>3, Zenon DEF Setup!TypeOK
    <3>5. QED BY <1>3, <2>3, <3>4 DEF Setup!TypeOK, Setup!Probe, Setup!fileVars, Setup!restVars
  <2>4. QED BY <2>1, <2>2, <2>3
<1>5. stood' \in Seq(Setup!Objects)
  <2>1. at["app"] \in Setup!Objects /\ at["history"] \in Setup!Objects BY <1>3 DEF Setup!TypeOK, Setup!Paths
  <2>2. stood' = stood \/ stood' = <<at["app"], at["history"]>>
    BY DEF Setup!Relocate, Setup!Directory, Setup!Runs, Setup!Apply, Setup!Probe, Setup!Mark, Setup!fileVars
  <2>3. stood \in Seq(Setup!Objects) BY <1>3 DEF Setup!TypeOK
  <2>4. ASSUME NEW S, NEW a \in S, NEW b \in S PROVE <<a, b>> \in Seq(S) OBVIOUS
  <2>5. <<at["app"], at["history"]>> \in Seq(Setup!Objects) BY <2>1, <2>4
  <2>6. QED BY <2>2, <2>3, <2>5
<1>6. Setup!TypeOK' BY <1>1, <1>2, <1>3, <1>4, <1>5 DEF Setup!TypeOK
<1>7. QED BY <1>2, <1>6 DEF SafeInv, SetupInv

\* Desktop::migrate_service.
LEMMA SetupServeKeeps == ASSUME Setup!ConstantsAssumption, SetupInv, Setup!Serve PROVE SetupInv'
<1>1. /\ stage = "working" /\ Setup!Op.do \in Setup!Commands
      /\ UNCHANGED <<at, root, parent, expected, changes, made, stood, settings, saved, complete, signal, found, placed, lost, spent>>
  BY DEF Setup!Serve, Setup!fileVars, Setup!restVars
<1>2. Setup!Op.do \notin {"prepare", "publish", "retire", "commit", "expect"} BY <1>1 DEF Setup!Commands
<1>3. Setup!TypeOK BY DEF SetupInv
<1>4. SafeInv' /\ pc' \in 1 .. Len(Setup!Plan) /\ half' \in {"no", "same", "aside", "checked"} /\ stage' \in {"working", "failing"}
  <2>1. CASE Setup!Advance BY <1>1, <1>2, <2>1, PlanGoesOn
  <2>2. CASE Setup!Fails
    <3>1. stage' = "failing" /\ UNCHANGED <<pc, half>> BY <2>2 DEF Setup!Fails
    <3>2. QED BY <1>1, <1>3, <3>1, StandsStill DEF Setup!TypeOK
  <2>3. QED BY <2>1, <2>2 DEF Setup!Serve
<1>5. service' \in [unit : Setup!Unit, enabled : Setup!Unit, active : Setup!Unit]
  <2>1. service \in [unit : Setup!Unit, enabled : Setup!Unit, active : Setup!Unit] BY <1>3 DEF Setup!TypeOK
  <2>2. Setup!Effect(Setup!Op.do) \in [unit : Setup!Unit, enabled : Setup!Unit, active : Setup!Unit]
    BY <2>1 DEF Setup!Effect, Setup!Unit
  <2>3. service' \in {service, Setup!Effect(Setup!Op.do)} BY DEF Setup!Serve
  <2>4. QED BY <2>1, <2>2, <2>3
<1>6. Setup!TypeOK' BY <1>1, <1>3, <1>4, <1>5 DEF Setup!TypeOK
<1>7. QED BY <1>4, <1>6 DEF SafeInv, SetupInv

\* Whatever ends the plan, or goes on after its end, without touching a path.
LEMMA SetupEnds ==
    ASSUME Setup!ConstantsAssumption, SetupInv,
           \/ Setup!Stopped \/ Setup!Faulty \/ Setup!RestoreService \/ Setup!RestoreRest \/ Setup!Signal \/ Setup!Killed
    PROVE  SetupInv'
<1>1. Setup!TypeOK BY DEF SetupInv
<1>2. /\ UNCHANGED <<at, expected, changes, stood, placed, lost, found, pc, half>> /\ stage \in {"working", "failing"}
      /\ (stage' = stage \/ stage' \in {"failing", "failed", "killed"}) /\ spent'.foreign = spent.foreign
      /\ spent' \in [foreign : 0 .. MaxForeign, faults : 0 .. MaxFaults]
  <2>1. CASE Setup!Faulty BY <1>1, <2>1 DEF Setup!Faulty, Setup!Fails, Setup!TypeOK, Setup!fileVars, Setup!ConstantsAssumption
  <2>2. CASE Setup!Stopped BY <1>1, <2>2 DEF Setup!Stopped, Setup!Fails, Setup!TypeOK, Setup!fileVars, Setup!restVars
  <2>3. CASE Setup!RestoreService \/ Setup!RestoreRest \/ Setup!Signal \/ Setup!Killed
    BY <1>1, <2>3 DEF Setup!RestoreService, Setup!RestoreRest, Setup!Signal, Setup!Killed, Setup!TypeOK, Setup!fileVars,
                      Setup!restVars
  <2>4. QED BY <2>1, <2>2, <2>3
<1>3. SafeInv' BY <1>2, StandsStill
<1>4. /\ root' \in {"old", "new"} /\ parent' \in {"none", "loose", "tight"} /\ made' \in {"no", "made", "moded"}
      /\ settings' \in {"old", "new"} /\ complete' \in BOOLEAN /\ signal' \in BOOLEAN
      /\ saved' \in [touched : BOOLEAN, enabled : BOOLEAN, active : BOOLEAN]
      /\ service' \in [unit : Setup!Unit, enabled : Setup!Unit, active : Setup!Unit]
  <2>1. CASE Setup!Faulty \/ Setup!Stopped \/ Setup!Signal \/ Setup!Killed
    BY <1>1, <2>1 DEF Setup!Faulty, Setup!Stopped, Setup!Signal, Setup!Killed, Setup!TypeOK, Setup!fileVars, Setup!deskVars,
                      Setup!restVars
  <2>2. CASE Setup!RestoreService
    BY <1>1, <2>2 DEF Setup!RestoreService, Setup!Restored, Setup!Unit, Setup!TypeOK, Setup!fileVars, Setup!restVars
  <2>3. CASE Setup!RestoreRest
    BY <1>1, <2>3 DEF Setup!RestoreRest, Setup!DirectoryBack, Setup!TypeOK, Setup!restVars
  <2>4. QED BY <2>1, <2>2, <2>3
<1>5. Setup!TypeOK' BY <1>1, <1>2, <1>4 DEF Setup!TypeOK
<1>6. QED BY <1>3, <1>5 DEF SafeInv, SetupInv

\* At first nothing was moved.
LEMMA SetupBegins == ASSUME Setup!ConstantsAssumption, Setup!Init PROVE SetupInv
<1>0. /\ pc = 1 /\ half = "no" /\ stage = "working" /\ at \in [Setup!Paths -> {0, Setup!Original}]
      /\ root \in {"old", "new"} /\ parent \in {"none", "loose"} /\ expected = [p \in Setup!Paths |-> 0]
      /\ changes = <<>> /\ made = "no" /\ stood = <<>> /\ settings = "old" /\ complete = FALSE /\ signal = FALSE
      /\ service \in [unit : {"none", "old"}, enabled : {"none", "old"}, active : {"none", "old"}]
      /\ saved = [touched |-> FALSE, enabled |-> FALSE, active |-> FALSE] /\ placed = {} /\ lost = {}
      /\ found.at = at /\ spent = [foreign |-> 0, faults |-> 0] /\ Upgrade \in BOOLEAN /\ MaxForeign \in Nat /\ MaxFaults \in Nat
  BY DEF Setup!Init, Setup!ConstantsAssumption
<1>1. {0, Setup!Original} \subseteq Setup!Objects BY <1>0 DEF Setup!Objects, Setup!Theirs, Setup!Original
<1>2. 1 \in 1 .. Len(Setup!Plan) BY <1>0, UpgradePlan, FirstPlan, SMTT(30)
<1>3. Setup!TypeOK
  <2>1. at \in [Setup!Paths -> Setup!Objects] /\ expected \in [Setup!Paths -> Setup!Objects] BY <1>0, <1>1
  <2>2. service \in [unit : Setup!Unit, enabled : Setup!Unit, active : Setup!Unit] BY <1>0 DEF Setup!Unit
  <2>3. /\ saved \in [touched : BOOLEAN, enabled : BOOLEAN, active : BOOLEAN]
        /\ spent \in [foreign : 0 .. MaxForeign, faults : 0 .. MaxFaults]
    BY <1>0
  <2>4. pc \in 1 .. Len(Setup!Plan) BY <1>0, <1>2
  <2>5. changes = <<>> /\ stood = <<>> /\ \A S : <<>> \in Seq(S) BY <1>0
  <2>6. /\ stood \in Seq(Setup!Objects)
        /\ changes \in Seq([on : Setup!Paths, new : 2 .. 8, prev : Setup!Objects, moved : BOOLEAN, public : BOOLEAN, temp : BOOLEAN])
    <3> DEFINE E == [on : Setup!Paths, new : 2 .. 8, prev : Setup!Objects, moved : BOOLEAN, public : BOOLEAN, temp : BOOLEAN]
    <3>1. <<>> \in Seq(Setup!Objects) /\ <<>> \in Seq(E) BY <2>5
    <3>2. QED BY <2>5, <3>1
  <2>7. root \in {"old", "new"} /\ parent \in {"none", "loose", "tight"} /\ lost \subseteq Setup!Paths
        /\ placed \subseteq Setup!Paths \X Setup!Objects
    BY <1>0
  <2>8. QED BY <1>0, <2>1, <2>2, <2>3, <2>4, <2>6, <2>7 DEF Setup!TypeOK
<1>4. JournalInv BY <1>0 DEF JournalInv, Slots
<1>5. PublishInv BY <1>0, <1>2, Order DEF PublishInv
<1>6. TheirsInv
  <2>1. \A p \in Setup!Paths : at[p] \in {0, 1} /\ expected[p] = 0 BY <1>0 DEF Setup!Original
  <2>2. QED BY <1>0, <2>1 DEF TheirsInv, Setup!Theirs
<1>7. Setup!PreviousStays /\ Setup!TheirsStays BY <1>0 DEF Setup!PreviousStays, Setup!TheirsStays, Setup!Somewhere
<1>8. QED BY <1>3, <1>4, <1>5, <1>6, <1>7 DEF SetupInv

LEMMA SetupStep ==
    ASSUME Setup!ConstantsAssumption, SetupInv, [Setup!Next]_(Setup!vars)
    PROVE  SetupInv'
<1>1. CASE UNCHANGED Setup!vars
  <2>1. UNCHANGED <<pc, half, stage, at, root, parent, expected, changes, made, stood, settings, service, saved,
                    complete, signal, found, placed, lost, spent>>
    BY <1>1 DEF Setup!vars
  <2>2. JournalInv' /\ PublishInv' BY <2>1 DEF SetupInv, JournalInv, PublishInv, IsNewest, Setup!Op
  <2>3. TheirsInv' BY <2>1 DEF SetupInv, TheirsInv, IsNewest, Setup!Op
  <2>4. Setup!PreviousStays' /\ Setup!TheirsStays'
    BY <2>1 DEF SetupInv, Setup!PreviousStays, Setup!TheirsStays, Setup!Somewhere
  <2>5. Setup!TypeOK' BY <2>1 DEF SetupInv, Setup!TypeOK
  <2>6. QED BY <2>2, <2>3, <2>4, <2>5 DEF SetupInv
<1>2. CASE Setup!Works
  BY <1>2, SetupGoesOn, SetupExpectKeeps, SetupPrepareKeeps, SetupLooksKeeps, SetupMovesAsideKeeps, SetupComparesKeeps,
     SetupMovesInKeeps, SetupRetireKeeps, SetupServeKeeps, SetupCommitKeeps
  DEF Setup!Works
<1>3. CASE Setup!Rolls BY <1>3, SetupEnds, SetupRestoreChangeKeeps DEF Setup!Rolls
<1>4. CASE Setup!Stopped \/ Setup!Faulty \/ Setup!Signal \/ Setup!Killed BY <1>4, SetupEnds
<1>5. ASSUME NEW p \in Setup!Paths, Setup!Foreign(p) PROVE SetupInv' BY <1>5, SetupForeignKeeps
<1>6. QED BY <1>1, <1>2, <1>3, <1>4, <1>5 DEF Setup!Next, Setup!Paths

\* The invariant of an installation holds of every behaviour (install_transaction.rs, legacy.rs).
THEOREM SetupInvariant == Setup!ConstantsAssumption /\ Setup!Spec => []SetupInv
<1>1. Setup!ConstantsAssumption /\ Setup!Init => SetupInv BY SetupBegins
<1>2. Setup!ConstantsAssumption /\ SetupInv /\ [Setup!Next]_(Setup!vars) => SetupInv' BY SetupStep
<1>3. Setup!ConstantsAssumption => Setup!ConstantsAssumption' BY DEF Setup!ConstantsAssumption
<1>4. QED BY <1>1, <1>2, <1>3, PTL DEF Setup!Spec

\* What was there before is at its path or aside until the commit, wherever the installer fails or is killed, and
\* an object another program puts at a path after its snapshot was read is never thrown away
\* (install_transaction.rs).
THEOREM OwnersKeepTheirs ==
    Setup!ConstantsAssumption /\ Setup!Spec => [](Setup!PreviousStays /\ Setup!TheirsStays)
<1>1. SetupInv => Setup!PreviousStays /\ Setup!TheirsStays BY DEF SetupInv
<1>2. QED BY <1>1, SetupInvariant, PTL

-----------------------------------------------------------------------------
(* Undisturbed, a failure leaves everything as it was, and a commit is whole. *)

\* A path whose changes and object are left alone.
LEMMA LinksStay ==
    ASSUME NEW p, Links(p), Mine(p)' = Mine(p), \A i \in Mine(p) : changes'[i] = changes[i],
           at'[p] = at[p], found' = found
    PROVE  Links(p)'
<1>1. \A i \in Mine(p) : Put(i)' = Put(i) /\ Took(i)' = Took(i) BY DEF Put, Took
<1>2. QED BY <1>1 DEF Links

\* A change is carried out over all others, which have put there what it takes away.
LEMMA LinkAdded ==
    ASSUME NEW p, Links(p), NEW i \in Nat, Mine(p) \subseteq Nat, Mine(p)' = Mine(p) \cup {i}, \A j \in Mine(p) : j < i,
           \A j \in Mine(p) : changes'[j] = changes[j] /\ ((\A k \in Mine(p) : k <= j) => changes[j].public),
           Took(i)' = at[p], at'[p] = Put(i)', found' = found
    PROVE  Links(p)'
<1>1. \A j \in Mine(p) : Put(j)' = Put(j) /\ Took(j)' = Took(j) BY DEF Put, Took
<1>2. \A j \in Mine(p)' : (\A k \in Mine(p)' : k <= j) => at'[p] = Put(j)'
  <2>1. \A j \in Mine(p)' : (\A k \in Mine(p)' : k <= j) => j = i OBVIOUS
  <2>2. QED BY <2>1
<1>3. \A j \in Mine(p)' : (\A k \in Mine(p)' : j <= k) => Took(j)' = found'.at[p]
  <2>1. CASE Mine(p) = {} BY <2>1 DEF Links
  <2>2. CASE Mine(p) # {}
    <3>1. PICK k \in Mine(p) : TRUE BY <2>2
    <3>2. \A j \in Mine(p)' : (\A l \in Mine(p)' : j <= l) => j \in Mine(p) BY <3>1
    <3>3. QED BY <1>1, <3>2 DEF Links
  <2>3. QED BY <2>1, <2>2
<1>4. ASSUME NEW j \in Mine(p)', NEW k \in Mine(p)', j < k, \A l \in Mine(p)' : l <= j \/ k <= l
      PROVE  changes'[j].public /\ Took(k)' = changes'[j].new
  <2>1. j \in Mine(p) BY <1>4
  <2>2. CASE k = i
    <3>1. \A l \in Mine(p) : l <= j BY <1>4, <2>2
    <3>2. at[p] = Put(j) /\ changes[j].public BY <2>1, <3>1 DEF Links
    <3>3. QED BY <2>1, <2>2, <3>2 DEF Put
  <2>3. CASE k # i
    <3>1. k \in Mine(p) /\ \A l \in Mine(p) : l <= j \/ k <= l BY <1>4, <2>3
    <3>2. changes[j].public /\ Took(k) = changes[j].new BY <1>4, <2>1, <3>1 DEF Links
    <3>3. QED BY <1>1, <2>1, <3>1, <3>2
  <2>4. QED BY <2>2, <2>3
<1>5. Mine(p)' # {} OBVIOUS
<1>6. QED BY <1>2, <1>3, <1>4, <1>5 DEF Links

\* The last change goes on: something takes the path after what was there was moved aside.
LEMMA LinkGoesOn ==
    ASSUME NEW p, Links(p), NEW i \in Mine(p), Mine(p) \subseteq Nat, Mine(p)' = Mine(p), \A j \in Mine(p) : j <= i,
           \A j \in Mine(p) : j # i => changes'[j] = changes[j],
           Took(i)' = Took(i), at'[p] = Put(i)', found' = found
    PROVE  Links(p)'
<1>1. \A j \in Mine(p) : Took(j)' = Took(j) /\ (j # i => Put(j)' = Put(j) /\ changes'[j] = changes[j]) BY DEF Put, Took
<1>2. \A j \in Mine(p)' : (\A k \in Mine(p)' : k <= j) => at'[p] = Put(j)'
  <2>1. \A j \in Mine(p)' : (\A k \in Mine(p)' : k <= j) => j = i OBVIOUS
  <2>2. QED BY <2>1
<1>3. \A j \in Mine(p)' : (\A k \in Mine(p)' : j <= k) => Took(j)' = found'.at[p] BY <1>1 DEF Links
<1>4. ASSUME NEW j \in Mine(p)', NEW k \in Mine(p)', j < k, \A l \in Mine(p)' : l <= j \/ k <= l
      PROVE  changes'[j].public /\ Took(k)' = changes'[j].new
  <2>1. j # i /\ j \in Mine(p) /\ k \in Mine(p) BY <1>4
  <2>2. changes[j].public /\ Took(k) = changes[j].new BY <1>4, <2>1 DEF Links
  <2>3. QED BY <1>1, <2>1, <2>2
<1>5. Mine(p)' # {} OBVIOUS
<1>6. QED BY <1>2, <1>3, <1>4, <1>5 DEF Links

\* The last change is undone.
LEMMA LinkUndone ==
    ASSUME NEW p, Links(p), NEW i \in Mine(p), Mine(p) \in SUBSET (1 .. 5), Mine(p)' = Mine(p) \ {i}, \A j \in Mine(p) : j <= i,
           \A j \in Mine(p) : j # i => changes'[j] = changes[j],
           at'[p] = Took(i), found' = found
    PROVE  Links(p)'
<1>1. \A j \in Mine(p)' : Took(j)' = Took(j) /\ Put(j)' = Put(j) /\ changes'[j] = changes[j] /\ j \in Mine(p) /\ j < i
  BY DEF Put, Took
<1>2. Mine(p)' = {} => at'[p] = found'.at[p]
  <2>1. Mine(p)' = {} => \A j \in Mine(p) : i <= j OBVIOUS
  <2>2. QED BY <2>1 DEF Links
<1>3. \A j \in Mine(p)' : (\A k \in Mine(p)' : k <= j) => at'[p] = Put(j)'
  <2>1. ASSUME NEW j \in Mine(p)', \A k \in Mine(p)' : k <= j PROVE at'[p] = Put(j)'
    <3>1. j < i /\ j \in Mine(p) /\ \A k \in Mine(p) : k <= j \/ i <= k BY <1>1, <2>1
    <3>2. changes[j].public /\ Took(i) = changes[j].new BY <3>1 DEF Links
    <3>3. QED BY <1>1, <2>1, <3>2 DEF Put
  <2>2. QED BY <2>1
<1>4. \A j \in Mine(p)' : (\A k \in Mine(p)' : j <= k) => Took(j)' = found'.at[p]
  <2>1. ASSUME NEW j \in Mine(p)', \A k \in Mine(p)' : j <= k PROVE Took(j)' = found'.at[p]
    <3>1. j \in Mine(p) /\ \A k \in Mine(p) : j <= k BY <1>1, <2>1
    <3>2. QED BY <1>1, <2>1, <3>1 DEF Links
  <2>2. QED BY <2>1
<1>5. ASSUME NEW j \in Mine(p)', NEW k \in Mine(p)', j < k, \A l \in Mine(p)' : l <= j \/ k <= l
      PROVE  changes'[j].public /\ Took(k)' = changes'[j].new
  <2>1. j \in Mine(p) /\ k \in Mine(p) /\ \A l \in Mine(p) : l <= j \/ k <= l BY <1>1, <1>5
  <2>2. changes[j].public /\ Took(k) = changes[j].new BY <1>5, <2>1 DEF Links
  <2>3. QED BY <1>1, <1>5, <2>2
<1>6. QED BY <1>2, <1>3, <1>4, <1>5 DEF Links

\* A step that changes neither the paths nor the journal, and does not leave a publication half done.
LEMMA ChainStays ==
    ASSUME ChainInv, UNCHANGED <<at, changes, found>>, spent'.foreign = spent.foreign,
           stage' \in {"working", "failing"} => stage \in {"working", "failing"},
           stage' = "working" => stage = "working" /\ (half \notin {"aside", "checked"} \/ (half' \in {"aside", "checked"} /\ pc' = pc))
    PROVE  ChainInv'
<1>1. SUFFICES ASSUME spent.foreign = 0, stage \in {"working", "failing"}, stage' \in {"working", "failing"} PROVE ChainInv'
  BY DEF ChainInv
<1>2. \A p \in Setup!Paths : Links(p)' BY <1>1 DEF ChainInv, Links, Mine, Took, Put
<1>3. ASSUME stage' = "working", NEW p \in Setup!Paths PROVE Halfway(p)'
  <2>1. Halfway(p) BY <1>1, <1>3 DEF ChainInv
  <2>2. CASE half \notin {"aside", "checked"} BY <2>1, <2>2 DEF Halfway, Mine
  <2>3. CASE half' \in {"aside", "checked"} /\ pc' = pc BY <2>1, <2>3 DEF Halfway, Mine, Setup!Op, IsNewest
  <2>4. QED BY <1>3, <2>2, <2>3
<1>4. QED BY <1>1, <1>2, <1>3 DEF ChainInv

\* What is carried out is in the journal, which is short.
LEMMA MineInside ==
    ASSUME SetupInv, NEW p
    PROVE  Mine(p) \in SUBSET (1 .. 5) /\ Mine(p) \subseteq Nat /\ Mine(p) \subseteq DOMAIN changes
<1>1. changes \in Seq(Entry) /\ Len(changes) <= 5 BY DEF SetupInv, Setup!TypeOK, JournalInv, Entry
<1>2. QED BY <1>1 DEF Mine

\* A change that was not carried out yet, of a path where something was published or nothing was done.
LEMMA ChainPrepare == ASSUME Setup!ConstantsAssumption, SetupInv, ChainInv, Setup!Prepare PROVE ChainInv'
<1> DEFINE o == Setup!Op.on
           c == [on |-> o, new |-> Len(changes) + 2, prev |-> 0, moved |-> FALSE, public |-> FALSE, temp |-> TRUE]
<1>0. /\ stage = "working" /\ Setup!Op.do = "prepare" /\ changes' = Append(changes, c)
      /\ UNCHANGED <<at, found, spent>>
  BY DEF Setup!Prepare, Setup!Prepared, Setup!Working, Setup!restVars
<1>1. changes \in Seq(Entry) /\ DOMAIN changes = 1 .. Len(changes) /\ half = "no"
  BY <1>0, Working DEF SafeInv, PublishInv
<1>2. c.on = o /\ ~ c.moved /\ ~ c.public /\ c.temp OBVIOUS
<1> HIDE DEF c
<1>3. /\ DOMAIN changes' = DOMAIN changes \cup {Len(changes) + 1} /\ changes'[Len(changes) + 1] = c
      /\ \A i \in DOMAIN changes : changes'[i] = changes[i]
  BY <1>0, <1>1
<1>4. \A p : Mine(p)' = Mine(p) /\ \A i \in Mine(p) : changes'[i] = changes[i] BY <1>2, <1>3 DEF Mine
<1>5. SUFFICES ASSUME spent.foreign = 0 PROVE ChainInv' BY <1>0 DEF ChainInv
<1>6. \A p \in Setup!Paths : Links(p)' BY <1>0, <1>4, <1>5, LinksStay DEF ChainInv
<1>7. ASSUME NEW p \in Setup!Paths PROVE Halfway(p)' BY <1>0, <1>1, <1>4, <1>5 DEF ChainInv, Halfway
<1>8. \A i \in DOMAIN changes' : ~ changes'[i].temp => ~ changes'[i].moved BY <1>0, <1>2, <1>3, <1>5 DEF ChainInv
<1>9. QED BY <1>6, <1>7, <1>8 DEF ChainInv

\* The first rename takes away what the newest change of the path had put there.
LEMMA ChainMovesAside == ASSUME Setup!ConstantsAssumption, SetupInv, ChainInv, Setup!MovesAside PROVE ChainInv'
<1>0. /\ stage = "working" /\ Setup!Op.do = "publish" /\ half = "same" /\ half' = "aside" /\ pc' = pc
      /\ UNCHANGED <<found, spent>>
  BY DEF Setup!MovesAside, Setup!Working, Setup!restVars
<1>o. PICK o \in Setup!Paths : o = Setup!Op.on BY <1>0, Working
<1>1. /\ Setup!TypeOK /\ at \in [Setup!Paths -> Setup!Objects] /\ Setup!Op' = Setup!Op /\ changes \in Seq(Entry)
      /\ \A i \in DOMAIN changes : changes[i].temp
  BY <1>0, Working DEF Setup!Op
<1>2. PICK i \in DOMAIN changes : IsNewest(o, i) /\ ~ changes[i].public /\ ~ changes[i].moved BY <1>0, <1>o, Working
<1>3. /\ at' = [at EXCEPT ![o] = 0]
      /\ changes' = [changes EXCEPT ![i] = [changes[i] EXCEPT !.prev = at[o], !.moved = TRUE]]
  <2>1. Setup!Newest(o) = i BY <1>1, <1>2, NewestIs
  <2>2. QED BY <1>o, <2>1 DEF Setup!MovesAside
<1> DEFINE c == [changes[i] EXCEPT !.prev = at[o], !.moved = TRUE]
<1>4. c.on = o /\ c.prev = at[o] /\ c.moved /\ ~ c.public /\ c.temp
  <2>1. changes[i] \in Entry /\ changes[i].on = o /\ changes[i].temp BY <1>1, <1>2 DEF IsNewest
  <2>2. QED BY <1>2, <2>1 DEF Entry
<1>5. DOMAIN changes' = DOMAIN changes /\ changes'[i] = c /\ \A j \in DOMAIN changes : j # i => changes'[j] = changes[j]
  BY <1>3
<1> HIDE DEF c
<1>6. at'[o] = 0 /\ \A p \in Setup!Paths : p # o => at'[p] = at[p] BY <1>1, <1>3
<1>7. o # "oldlink" /\ Upgrade \in BOOLEAN BY <1>0, <1>1, <1>o, Working, Places DEF Setup!Op
<1>8. SUFFICES ASSUME spent.foreign = 0 PROVE ChainInv' BY <1>0 DEF ChainInv
<1>9. changes[i].on = o /\ i \notin Mine(o) /\ Mine(o)' = Mine(o) \cup {i} BY <1>2, <1>4, <1>5 DEF Mine, IsNewest
<1>10. \A j \in Mine(o) : j < i /\ j # i /\ changes'[j] = changes[j] /\ changes[j].public
  <2>1. \A j \in Mine(o) : j \in DOMAIN changes /\ j \in Nat /\ j # i /\ j <= i BY <1>2, <1>9, MineInside DEF IsNewest, Mine
  <2>2. \A j \in Mine(o) : changes[j].public BY <1>0, <1>1, <1>7, <1>8 DEF ChainInv, Halfway
  <2>3. i \in Nat BY <1>1
  <2>4. QED BY <1>5, <2>1, <2>2, <2>3
<1>11. ASSUME NEW p \in Setup!Paths, p # o PROVE Mine(p)' = Mine(p) /\ \A j \in Mine(p) : changes'[j] = changes[j]
  BY <1>4, <1>5, <1>9, <1>11 DEF Mine
<1>12. ASSUME NEW p \in Setup!Paths PROVE Links(p)'
  <2>1. Links(p) BY <1>0, <1>8 DEF ChainInv
  <2>2. CASE p # o BY <1>0, <1>6, <1>11, <2>1, <2>2, LinksStay
  <2>3. CASE p = o
    <3>1. Took(i)' = at[o] /\ at'[o] = Put(i)' BY <1>4, <1>5, <1>6 DEF Took, Put
    <3>2. i \in Nat /\ Mine(o) \subseteq Nat BY <1>1, MineInside
    <3>3. QED BY <1>0, <1>9, <1>10, <2>1, <2>3, <3>1, <3>2, LinkAdded
  <2>4. QED BY <2>2, <2>3
<1>13. ASSUME NEW p \in Setup!Paths PROVE Halfway(p)'
  <2>1. \A j \in Mine(p) : changes[j].public \/ p = "oldlink" BY <1>0, <1>8 DEF ChainInv, Halfway
  <2>2. CASE p # o BY <1>11, <2>1, <2>2 DEF Halfway
  <2>3. CASE p = o
    <3>1. IsNewest(o, i)' BY <1>2, <1>4, <1>5 DEF IsNewest
    <3>2. Setup!Op'.on = o BY <1>1, <1>o
    <3>3. QED BY <1>0, <1>9, <1>10, <2>3, <3>1, <3>2 DEF Halfway
  <2>4. QED BY <2>2, <2>3
<1>14. \A j \in DOMAIN changes' : changes'[j].temp BY <1>1, <1>4, <1>5
<1>15. QED BY <1>12, <1>13, <1>14 DEF ChainInv

\* The second rename: the newest change now holds the path.
LEMMA ChainMovesIn == ASSUME Setup!ConstantsAssumption, SetupInv, ChainInv, Setup!MovesIn PROVE ChainInv'
<1>0. stage = "working" /\ Setup!Op.do = "publish" /\ half = "checked" /\ UNCHANGED <<found, spent>>
  BY DEF Setup!MovesIn, Setup!Working, Setup!restVars
<1>o. PICK o \in Setup!Paths : o = Setup!Op.on BY <1>0, Working
<1>1. /\ Setup!TypeOK /\ at \in [Setup!Paths -> Setup!Objects] /\ changes \in Seq(Entry)
      /\ \A i \in DOMAIN changes : changes[i].temp
  BY <1>0, Working
<1>2. PICK i \in DOMAIN changes : IsNewest(o, i) /\ ~ changes[i].public BY <1>0, <1>o, Working
<1>3. CASE Setup!Fails /\ UNCHANGED <<at, changes>> BY <1>0, <1>3, ChainStays DEF Setup!Fails
<1>4. CASE ~ (Setup!Fails /\ UNCHANGED <<at, changes>>)
  <2> DEFINE c == [changes[i] EXCEPT !.public = TRUE]
  <2>1. at[o] = 0 /\ stage' = "working" /\ at' = [at EXCEPT ![o] = changes[i].new] /\ changes' = [changes EXCEPT ![i] = c]
    <3>1. Setup!Newest(o) = i BY <1>1, <1>2, NewestIs
    <3>2. QED BY <1>0, <1>4, <1>o, <3>1 DEF Setup!MovesIn, Setup!Advance
  <2>2. c.on = o /\ c.prev = changes[i].prev /\ c.moved = changes[i].moved /\ c.public /\ c.temp /\ c.new = changes[i].new
    <3>1. changes[i] \in Entry /\ changes[i].on = o /\ changes[i].temp BY <1>1, <1>2 DEF IsNewest
    <3>2. QED BY <3>1 DEF Entry
  <2>3. DOMAIN changes' = DOMAIN changes /\ changes'[i] = c /\ \A j \in DOMAIN changes : j # i => changes'[j] = changes[j]
    BY <2>1
  <2> HIDE DEF c
  <2>4. at'[o] = changes[i].new /\ \A p \in Setup!Paths : p # o => at'[p] = at[p] BY <1>1, <2>1
  <2>5. o # "oldlink" /\ Upgrade \in BOOLEAN BY <1>0, <1>1, <1>o, Working, Places DEF Setup!Op
  <2>6. SUFFICES ASSUME spent.foreign = 0 PROVE ChainInv' BY <1>0 DEF ChainInv
  <2>7. changes[i].on = o /\ Mine(o)' = Mine(o) \cup {i} /\ (changes[i].moved <=> i \in Mine(o)) /\ i \in Nat
    BY <1>1, <1>2, <2>2, <2>3 DEF Mine, IsNewest
  <2>8. \A j \in Mine(o) : j <= i /\ (j # i => j < i /\ changes'[j] = changes[j] /\ changes[j].public)
    <3>1. \A j \in Mine(o) : j \in DOMAIN changes /\ j \in Nat /\ j <= i BY <1>2, MineInside DEF IsNewest, Mine
    <3>2. \A j \in Mine(o) : changes[j].public \/ IsNewest(o, j) BY <1>0, <2>5, <2>6 DEF ChainInv, Halfway
    <3>3. \A j \in Mine(o) : IsNewest(o, j) => j = i BY <1>2, <2>7, <3>1 DEF IsNewest
    <3>4. QED BY <2>3, <2>7, <3>1, <3>2, <3>3
  <2>9. ASSUME NEW p \in Setup!Paths, p # o PROVE Mine(p)' = Mine(p) /\ \A j \in Mine(p) : j # i /\ changes'[j] = changes[j]
    BY <2>2, <2>3, <2>7, <2>9 DEF Mine
  <2>10. ASSUME NEW p \in Setup!Paths PROVE Links(p)'
    <3>1. Links(p) BY <1>0, <2>6 DEF ChainInv
    <3>2. CASE p # o BY <1>0, <2>4, <2>9, <3>1, <3>2, LinksStay
    <3>3. CASE p = o
      <4>1. at'[o] = Put(i)' /\ Mine(o) \subseteq Nat BY <2>2, <2>3, <2>4, MineInside DEF Put
      <4>2. CASE i \in Mine(o)
        <5>1. Took(i)' = Took(i) /\ Mine(o)' = Mine(o) BY <2>2, <2>3, <2>7, <4>2 DEF Took
        <5>2. QED BY <1>0, <2>8, <3>1, <3>3, <4>1, <4>2, <5>1, LinkGoesOn
      <4>3. CASE i \notin Mine(o)
        <5>1. Took(i)' = at[o] BY <2>1, <2>2, <2>3, <2>7, <4>3 DEF Took
        <5>2. \A j \in Mine(o) : j < i /\ changes'[j] = changes[j] /\ changes[j].public BY <2>8, <4>3
        <5>3. QED BY <1>0, <2>7, <3>1, <3>3, <4>1, <5>1, <5>2, LinkAdded
      <4>4. QED BY <4>2, <4>3
    <3>4. QED BY <3>2, <3>3
  <2>11. ASSUME NEW p \in Setup!Paths PROVE Halfway(p)'
    <3>1. Halfway(p) BY <1>0, <2>6 DEF ChainInv
    <3>2. CASE p # o
      <4>1. \A j \in Mine(p) : changes[j].public \/ p = "oldlink" BY <1>o, <3>1, <3>2 DEF Halfway
      <4>2. QED BY <2>9, <3>2, <4>1 DEF Halfway
    <3>3. CASE p = o
      <4>1. \A j \in Mine(o)' : changes'[j].public BY <2>2, <2>3, <2>7, <2>8
      <4>2. QED BY <3>3, <4>1 DEF Halfway
    <3>4. QED BY <3>2, <3>3
  <2>12. \A j \in DOMAIN changes' : changes'[j].temp BY <1>1, <2>2, <2>3
  <2>13. QED BY <2>10, <2>11, <2>12 DEF ChainInv
<1>5. QED BY <1>3, <1>4

\* A retirement takes away what is there and puts nothing in its place.
LEMMA ChainRetire == ASSUME Setup!ConstantsAssumption, SetupInv, ChainInv, Setup!Retire PROVE ChainInv'
<1>0. stage = "working" /\ Setup!Op.do = "retire" /\ stage' = "working" /\ UNCHANGED <<found, spent>>
  BY DEF Setup!Retire, Setup!Working, Setup!Advance, Setup!Adopts
<1>o. PICK o \in Setup!Paths : o = Setup!Op.on BY <1>0, Working
<1>1. /\ at \in [Setup!Paths -> Setup!Objects] /\ changes \in Seq(Entry) /\ DOMAIN changes = 1 .. Len(changes) /\ Len(changes) \in Nat
      /\ (\A i \in DOMAIN changes : changes[i].temp) /\ half = "no"
  BY <1>0, Working DEF SafeInv, PublishInv
<1>2. o = "oldlink" BY <1>0, <1>o, Working, Places DEF Setup!Op
<1> DEFINE c == [on |-> o, new |-> Len(changes) + 2, prev |-> at[o], moved |-> TRUE, public |-> FALSE, temp |-> TRUE]
<1>3. \/ UNCHANGED <<at, changes>>
      \/ at[o] # 0 /\ at' = [at EXCEPT ![o] = 0] /\ changes' = Append(changes, c)
  BY <1>o DEF Setup!Retire
<1>4. CASE UNCHANGED <<at, changes>> BY <1>0, <1>1, <1>4, ChainStays
<1>5. CASE at[o] # 0 /\ at' = [at EXCEPT ![o] = 0] /\ changes' = Append(changes, c)
  <2>1. c.on = o /\ c.moved /\ ~ c.public /\ c.temp /\ c.prev = at[o] OBVIOUS
  <2> HIDE DEF c
  <2>i. PICK i \in Nat : i = Len(changes) + 1 BY <1>1
  <2>2. /\ DOMAIN changes' = DOMAIN changes \cup {i} /\ changes'[i] = c
        /\ \A j \in DOMAIN changes : j < i /\ changes'[j] = changes[j]
    BY <1>1, <1>5, <2>i
  <2>3. Mine(o)' = Mine(o) \cup {i} /\ i \notin DOMAIN changes BY <2>1, <2>2 DEF Mine
  <2>4. ASSUME NEW p \in Setup!Paths PROVE (p # o => Mine(p)' = Mine(p)) /\ \A j \in Mine(p) : changes'[j] = changes[j] /\ j < i
    BY <2>1, <2>2, <2>3 DEF Mine
  <2>5. at'[o] = 0 /\ \A p \in Setup!Paths : p # o => at'[p] = at[p] BY <1>1, <1>5
  <2>6. SUFFICES ASSUME spent.foreign = 0 PROVE ChainInv' BY <1>0 DEF ChainInv
  <2>7. ASSUME NEW p \in Setup!Paths PROVE Links(p)'
    <3>1. Links(p) BY <1>0, <2>6 DEF ChainInv
    <3>2. CASE p # o BY <1>0, <2>4, <2>5, <3>1, <3>2, LinksStay
    <3>3. CASE p = o
      <4>1. at'[o] = Put(i)' /\ Took(i)' = at[o] /\ Mine(o) \subseteq Nat BY <2>1, <2>2, <2>5, MineInside DEF Put, Took
      <4>2. \A j \in Mine(o) : (\A k \in Mine(o) : k <= j) => changes[j].public BY <1>5, <3>1, <3>3 DEF Links, Put
      <4>3. QED BY <1>0, <2>3, <2>4, <3>1, <3>3, <4>1, <4>2, LinkAdded
    <3>4. QED BY <3>2, <3>3
  <2>8. ASSUME NEW p \in Setup!Paths PROVE Halfway(p)'
    <3>1. \A j \in Mine(p) : changes[j].public \/ p = "oldlink" BY <1>0, <1>1, <2>6 DEF ChainInv, Halfway
    <3>2. QED BY <1>2, <2>4, <3>1 DEF Halfway
  <2>9. \A j \in DOMAIN changes' : changes'[j].temp BY <1>1, <2>1, <2>2
  <2>10. QED BY <2>7, <2>8, <2>9 DEF ChainInv
<1>6. QED BY <1>3, <1>4, <1>5

\* Undisturbed, the change that is undone next is the installer's own and what was aside can return.
LEMMA ChainRestore == ASSUME Setup!ConstantsAssumption, SetupInv, ChainInv, Setup!RestoreChange PROVE ChainInv'
<1>0. stage = "failing" /\ stage' = "failing" /\ Setup!Undo # {} /\ UNCHANGED <<found, spent>>
  BY DEF Setup!RestoreChange, Setup!restVars
<1>i. PICK i : i = Setup!Latest(Setup!Undo) OBVIOUS
<1>1. /\ changes \in Seq(Entry) /\ i \in DOMAIN changes /\ i \in Nat /\ changes[i].temp /\ changes[i] \in Entry
      /\ \A j \in DOMAIN changes : changes[j].temp => j <= i
  BY <1>0, <1>i, Undoing
<1>o. PICK o \in Setup!Paths : o = changes[i].on BY <1>1 DEF Entry
<1>2. at \in [Setup!Paths -> Setup!Objects] BY DEF SetupInv, Setup!TypeOK
<1>3. SUFFICES ASSUME spent.foreign = 0 PROVE ChainInv' BY <1>0 DEF ChainInv
<1>4. Links(o) BY <1>0, <1>3 DEF ChainInv
<1>5. i \in Mine(o) <=> changes[i].moved \/ changes[i].public BY <1>1, <1>o DEF Mine
<1>6. \A p : \A j \in Mine(p) : j \in DOMAIN changes /\ j <= i BY <1>1 DEF Mine
<1>7. i \in Mine(o) => at[o] = Put(i) BY <1>4, <1>6 DEF Links
<1>8. (changes[i].public => at[o] = changes[i].new) /\ (changes[i].moved => changes[i].public \/ at[o] = 0)
  BY <1>5, <1>7 DEF Put
<1> DEFINE c == [changes[i] EXCEPT !.temp = FALSE, !.moved = FALSE]
<1>9. /\ at' = [at EXCEPT ![o] = IF changes[i].moved THEN changes[i].prev ELSE IF changes[i].public THEN 0 ELSE at[o]]
      /\ changes' = [changes EXCEPT ![i] = c]
  BY <1>8, <1>i, <1>o DEF Setup!RestoreChange, Setup!Own, Setup!Free
<1>10. ~ c.temp /\ ~ c.moved BY <1>1 DEF Entry
<1> HIDE DEF c
<1>11. DOMAIN changes' = DOMAIN changes /\ changes'[i] = c /\ \A j \in DOMAIN changes : j # i => changes'[j] = changes[j]
  BY <1>1, <1>9
<1>12. at'[o] = (IF i \in Mine(o) THEN Took(i) ELSE at[o]) /\ \A p \in Setup!Paths : p # o => at'[p] = at[p]
  BY <1>2, <1>5, <1>9 DEF Took
<1>13. \A p \in Setup!Paths : Mine(p)' = Mine(p) \ {i} /\ (p # o => i \notin Mine(p)) BY <1>10, <1>11, <1>o DEF Mine
<1>14. ASSUME NEW p \in Setup!Paths PROVE Links(p)'
  <2>1. Links(p) /\ Mine(p) \in SUBSET (1 .. 5) BY <1>0, <1>3, MineInside DEF ChainInv
  <2>2. CASE i \notin Mine(p)
    <3>1. Mine(p)' = Mine(p) /\ at'[p] = at[p] /\ \A j \in Mine(p) : changes'[j] = changes[j]
      BY <1>6, <1>11, <1>12, <1>13, <2>2
    <3>2. QED BY <1>0, <2>1, <3>1, LinksStay
  <2>3. CASE i \in Mine(p)
    <3>1. p = o BY <1>13, <2>3
    <3>2. QED BY <1>0, <1>6, <1>11, <1>12, <1>13, <2>1, <2>3, <3>1, LinkUndone
  <2>4. QED BY <2>2, <2>3
<1>15. \A j \in DOMAIN changes' : ~ changes'[j].temp => ~ changes'[j].moved BY <1>0, <1>3, <1>10, <1>11 DEF ChainInv
<1>16. QED BY <1>0, <1>14, <1>15 DEF ChainInv

\* The other steps leave the changes as they are, or end both plan and rollback.
LEMMA ChainStep == ASSUME Setup!ConstantsAssumption, SetupInv, ChainInv, Setup!Next PROVE ChainInv'
<1>1. CASE Setup!Prepare \/ Setup!MovesAside \/ Setup!MovesIn \/ Setup!Retire \/ Setup!RestoreChange
  BY <1>1, ChainPrepare, ChainMovesAside, ChainMovesIn, ChainRetire, ChainRestore
<1>2. CASE \/ Setup!Relocate \/ Setup!Expect \/ Setup!Directory \/ Setup!Runs \/ Setup!Apply \/ Setup!Probe \/ Setup!Serve \/ Setup!Mark
  <2>1. stage = "working" /\ Setup!Op.do # "publish" /\ UNCHANGED <<at, changes, found, spent>>
    BY <1>2 DEF Setup!Relocate, Setup!Expect, Setup!Adopts, Setup!Directory, Setup!Runs, Setup!Apply, Setup!Probe, Setup!Serve,
                Setup!Mark, Setup!Working, Setup!Commands, Setup!fileVars, Setup!restVars
  <2>2. half = "no" BY <2>1 DEF SetupInv, PublishInv
  <2>3. QED BY <2>1, <2>2, ChainStays
<1>3. CASE Setup!Looks \/ Setup!Compares
  BY <1>3, ChainStays DEF Setup!Looks, Setup!Compares, Setup!Working, Setup!Fails, Setup!fileVars, Setup!restVars
<1>4. CASE Setup!Stopped \/ Setup!Faulty
  <2>1. spent'.foreign = spent.foreign BY <1>4 DEF Setup!Stopped, Setup!Faulty, Setup!restVars, SetupInv, Setup!TypeOK
  <2>2. QED BY <1>4, <2>1, ChainStays DEF Setup!Stopped, Setup!Faulty, Setup!Fails, Setup!fileVars, Setup!restVars
<1>5. CASE Setup!Signal \/ Setup!RestoreService
  BY <1>5, ChainStays DEF Setup!Signal, Setup!RestoreService, Setup!fileVars, Setup!restVars
<1>6. CASE Setup!Commit \/ Setup!Killed \/ Setup!RestoreRest
  BY <1>6 DEF Setup!Commit, Setup!Killed, Setup!RestoreRest, ChainInv
<1>7. ASSUME NEW p, Setup!Foreign(p) PROVE ChainInv'
  <2>1. spent'.foreign # 0 BY <1>7 DEF Setup!Foreign, SetupInv, Setup!TypeOK, Setup!ConstantsAssumption
  <2>2. QED BY <2>1 DEF ChainInv
<1>8. QED BY <1>1, <1>2, <1>3, <1>4, <1>5, <1>6, <1>7 DEF Setup!Next, Setup!Works, Setup!Rolls

\* Most steps are none of what the transaction notes.
LEMMA NotedStays ==
    ASSUME NotedInv, UNCHANGED <<root, parent, made, stood, service, saved, found>>,
           stage' \in {"working", "failing"} => stage \in {"working", "failing"}, spent'.foreign = 0 => spent.foreign = 0
    PROVE  NotedInv'
BY DEF NotedInv

\* Before anything was prepared everything is as it was found.
LEMMA NotedRelocate == ASSUME Setup!ConstantsAssumption, SetupInv, FoundInv, ChainInv, NotedInv, Setup!Relocate PROVE NotedInv'
<1>0. /\ stage = "working" /\ Setup!Op.do = "relocate" /\ stood' = <<at["app"], at["history"]>>
      /\ UNCHANGED <<parent, made, service, saved, found, spent>>
  BY DEF Setup!Relocate, Setup!Working, Setup!deskVars, Setup!restVars
<1>1. Upgrade /\ pc = 1
  <2>1. Setup!Op = Setup!Plan[pc] /\ pc \in 1 .. Len(Setup!Plan) /\ Upgrade \in BOOLEAN BY <1>0, Working DEF Setup!Op
  <2>2. QED BY <1>0, <2>1, Places
<1>2. Len(changes) <= 0 BY <1>0, <1>1 DEF SetupInv, JournalInv, Slots
<1>3. \A p : Mine(p) = {} BY <1>0, <1>2, Working DEF Mine
<1>4. spent.foreign = 0 => at["app"] = found.at["app"] /\ at["history"] = found.at["history"]
  BY <1>0, <1>3 DEF ChainInv, Links, Setup!Paths
<1>5. stood' # <<>> BY <1>0
<1>6. spent.foreign = 0 => stood' = <<found.at["app"], found.at["history"]>> BY <1>0, <1>4
<1>7. found.root = "old" BY <1>1 DEF FoundInv
<1>8. QED BY <1>0, <1>5, <1>6, <1>7 DEF NotedInv

LEMMA NotedDirectory == ASSUME FoundInv, NotedInv, SetupInv, Setup!Directory PROVE NotedInv'
<1>0. /\ stage = "working" /\ parent' = "tight"
      /\ made' = IF parent = "none" THEN "made" ELSE IF parent = "loose" THEN "moded" ELSE made
      /\ UNCHANGED <<root, stood, service, saved, found, spent>>
  BY DEF Setup!Directory, Setup!Working, Setup!deskVars, Setup!restVars
<1>1. found.parent \in {"none", "loose"} BY DEF FoundInv
<1>2. QED BY <1>0, <1>1 DEF NotedInv

LEMMA NotedProbe == ASSUME Setup!ConstantsAssumption, FoundInv, NotedInv, DeskInv, SetupInv, Setup!Probe PROVE NotedInv'
<1>0. /\ stage = "working" /\ Setup!Op.do = "probe"
      /\ UNCHANGED <<root, parent, made, stood, service, found, spent>>
  BY DEF Setup!Probe, Setup!Working, Setup!fileVars, Setup!restVars
<1>1. pc = 21
  <2>1. Setup!Op = Setup!Plan[pc] /\ pc \in 1 .. Len(Setup!Plan) /\ Upgrade \in BOOLEAN BY <1>0, Working DEF Setup!Op
  <2>2. QED BY <1>0, <2>1, Places
<1>2. ~ saved.touched /\ service = found.service BY <1>0, <1>1 DEF DeskInv, NotedInv
<1>3. CASE service.unit = "none"
  <2>1. saved' = saved BY <1>3 DEF Setup!Probe
  <2>2. QED BY <1>0, <2>1, NotedStays DEF Setup!Probe, Setup!Advance
<1>4. CASE service.unit # "none"
  <2>1. found.service.unit = "old" BY <1>2, <1>4 DEF FoundInv
  <2>2. saved' = [touched |-> TRUE, enabled |-> found.service.enabled = "old", active |-> found.service.active = "old"]
    BY <1>2, <1>4, Zenon DEF Setup!Probe
  <2>3. saved'.touched /\ saved'.enabled = (found.service.enabled = "old") /\ saved'.active = (found.service.active = "old")
    BY <2>2, Zenon
  <2>4. QED BY <1>0, <2>1, <2>3 DEF NotedInv
<1>5. QED BY <1>3, <1>4

\* The rollback of an upgrade restores the service as it was noted.
LEMMA NotedService == ASSUME FoundInv, NotedInv, SetupInv, Setup!RestoreService PROVE NotedInv'
<1>0. /\ stage = "failing" /\ stage' = "failing" /\ service' = (IF saved.touched THEN Setup!Restored ELSE service)
      /\ saved' = [saved EXCEPT !.touched = FALSE] /\ UNCHANGED <<root, parent, made, stood, found, spent>>
  BY DEF Setup!RestoreService, Setup!fileVars, Setup!restVars
<1>1. ~ saved'.touched BY <1>0 DEF SetupInv, Setup!TypeOK
<1>2. service' = found.service
  <2>1. CASE saved.touched
    <3>1. found.service \in [unit : {"none", "old"}, enabled : {"none", "old"}, active : {"none", "old"}] /\ found.service.unit = "old"
          /\ saved.enabled = (found.service.enabled = "old") /\ saved.active = (found.service.active = "old")
      BY <1>0, <2>1 DEF FoundInv, NotedInv
    <3>2. found.service = [unit |-> "old", enabled |-> IF saved.enabled THEN "old" ELSE "none",
                           active |-> IF saved.active THEN "old" ELSE "none"]
      BY <3>1
    <3>3. QED BY <1>0, <2>1, <3>2 DEF Setup!Restored
  <2>2. CASE ~ saved.touched BY <1>0, <2>2 DEF NotedInv
  <2>3. QED BY <2>1, <2>2
<1>3. QED BY <1>0, <1>1, <1>2 DEF NotedInv

LEMMA NotedStep ==
    ASSUME Setup!ConstantsAssumption, SetupInv, FoundInv, ChainInv, NotedInv, DeskInv, Setup!Next
    PROVE  NotedInv'
<1>1. CASE Setup!Relocate \/ Setup!Directory \/ Setup!Probe \/ Setup!RestoreService
  BY <1>1, NotedRelocate, NotedDirectory, NotedProbe, NotedService
<1>2. CASE Setup!Serve
  <2>1. stage = "working" /\ (saved.touched \/ service' = service) /\ UNCHANGED <<root, parent, made, stood, saved, found, spent>>
    BY <1>2 DEF Setup!Serve, Setup!fileVars, Setup!restVars
  <2>2. QED BY <2>1 DEF NotedInv
<1>3. CASE Setup!Expect \/ Setup!Prepare \/ Setup!Looks \/ Setup!MovesAside \/ Setup!Compares \/ Setup!MovesIn
  BY <1>3, NotedStays DEF Setup!Expect, Setup!Prepare, Setup!Prepared, Setup!Looks, Setup!MovesAside, Setup!Compares,
     Setup!MovesIn, Setup!Working, Setup!Adopts, Setup!fileVars, Setup!deskVars, Setup!restVars
<1>4. CASE Setup!Retire \/ Setup!Runs \/ Setup!Apply \/ Setup!Mark \/ Setup!Stopped \/ Setup!RestoreChange \/ Setup!Signal
  BY <1>4, NotedStays DEF Setup!Retire, Setup!Runs, Setup!Apply, Setup!Mark, Setup!Stopped, Setup!RestoreChange, Setup!Signal,
     Setup!Working, Setup!Adopts, Setup!fileVars, Setup!deskVars, Setup!restVars
<1>5. CASE Setup!Faulty
  <2>1. spent'.foreign = spent.foreign BY <1>5 DEF Setup!Faulty, SetupInv, Setup!TypeOK
  <2>2. QED BY <1>5, <2>1, NotedStays DEF Setup!Faulty, Setup!fileVars, Setup!deskVars
<1>6. CASE Setup!Commit \/ Setup!Killed \/ Setup!RestoreRest
  BY <1>6 DEF Setup!Commit, Setup!Killed, Setup!RestoreRest, NotedInv
<1>7. ASSUME NEW p, Setup!Foreign(p) PROVE NotedInv'
  <2>1. spent'.foreign # 0 BY <1>7 DEF Setup!Foreign, SetupInv, Setup!TypeOK, Setup!ConstantsAssumption
  <2>2. QED BY <1>7, <2>1, NotedStays DEF Setup!Foreign, Setup!deskVars
<1>8. QED BY <1>1, <1>2, <1>3, <1>4, <1>5, <1>6, <1>7 DEF Setup!Next, Setup!Works, Setup!Rolls

\* Where the step at hand stands.
LEMMA HereIs ==
    ASSUME Setup!ConstantsAssumption, SetupInv, stage = "working"
    PROVE  /\ Setup!Op = Setup!Plan[pc] /\ pc \in 1 .. Len(Setup!Plan) /\ pc \in Nat /\ Upgrade \in BOOLEAN
           /\ \A p \in {"app", "link"} : pc = Goal(p) => Setup!Op.do = "publish" /\ Setup!Op.on = p
<1>1. Setup!Op = Setup!Plan[pc] /\ pc \in 1 .. Len(Setup!Plan) /\ pc \in Nat /\ Upgrade \in BOOLEAN
  BY Working, Here DEF Setup!Op
<1>2. ASSUME NEW p \in {"app", "link"}, pc = Goal(p) PROVE Setup!Op = Setup!Do("publish", p)
  <2>1. CASE Upgrade BY <1>1, <1>2, <2>1, UpgradePlan, SMTT(30) DEF Goal
  <2>2. CASE ~ Upgrade BY <1>1, <1>2, <2>2, FirstPlan, SMTT(30) DEF Goal
  <2>3. QED BY <1>1, <2>1, <2>2
<1>3. QED BY <1>1, <1>2 DEF Setup!Do

\* A step of the plan that is none of the desktop's.
LEMMA DeskStays ==
    ASSUME DeskInv, UNCHANGED <<settings, service, saved, complete, found>>, pc \in Nat,
           stage' = "working" => /\ stage = "working"
                                 /\ pc' = pc \/ (pc' = pc + 1 /\ pc \notin 20 .. 26 /\ pc # 28)
    PROVE  DeskInv'
<1>1. SUFFICES ASSUME stage' = "working" PROVE DeskInv' BY DEF DeskInv
<1>2. CASE pc' = pc BY <1>1, <1>2 DEF DeskInv
<1>3. CASE pc' = pc + 1 /\ pc \notin 20 .. 26 /\ pc # 28 BY <1>1, <1>3 DEF DeskInv
<1>4. QED BY <1>1, <1>2, <1>3

\* Desktop::migrate_service takes the unit, what is enabled and what runs to the new name, one command after another.
LEMMA DeskServe == ASSUME Setup!ConstantsAssumption, SetupInv, FoundInv, DeskInv, Setup!Serve PROVE DeskInv'
<1>0. /\ stage = "working" /\ Setup!Op.do \in Setup!Commands /\ UNCHANGED <<settings, saved, complete, found>>
      /\ \/ stage' = "failing"
         \/ pc' = pc + 1 /\ service' = (IF saved.touched THEN Setup!Effect(Setup!Op.do) ELSE service)
  BY DEF Setup!Serve, Setup!Fails, Setup!Advance, Setup!fileVars, Setup!restVars
<1>1. SUFFICES ASSUME stage' # "failing" PROVE DeskInv' BY <1>0 DEF DeskInv
<1>2. /\ Setup!Op.do = "disable" <=> pc = 22
      /\ Setup!Op.do = "move" <=> pc = 23
      /\ Setup!Op.do = "reload" <=> pc = 24
      /\ Setup!Op.do = "enable" <=> pc = 25
      /\ Setup!Op.do = "start" <=> pc = 26
  BY <1>0, HereIs, Places
<1>3. pc \in 22 .. 26 BY <1>0, <1>2 DEF Setup!Commands
<1>4. CASE ~ saved.touched BY <1>0, <1>1, <1>3, <1>4 DEF DeskInv
<1>5. CASE saved.touched
  <2>1. service \in [unit : Setup!Unit, enabled : Setup!Unit, active : Setup!Unit] BY DEF SetupInv, Setup!TypeOK
  <2>2. service' = Setup!Effect(Setup!Op.do) BY <1>0, <1>1, <1>5
  <2>3. CASE pc = 22
    <3>0. pc > 21 /\ saved.touched = TRUE BY <1>5, <2>3 DEF SetupInv, Setup!TypeOK
    <3>1. found.service.unit = "old" /\ service = found.service BY <1>0, <2>3, <3>0 DEF DeskInv
    <3>2. service' = [service EXCEPT !.enabled = "none", !.active = "none"] BY <1>2, <2>2, <2>3 DEF Setup!Effect
    <3>3. QED BY <1>0, <1>1, <2>1, <2>3, <3>1, <3>2 DEF DeskInv
  <2>4. CASE pc = 23
    <3>1. service' = [service EXCEPT !.unit = "new"] BY <1>2, <2>2, <2>4 DEF Setup!Effect
    <3>2. QED BY <1>0, <1>1, <2>1, <2>4, <3>1 DEF DeskInv
  <2>5. CASE pc = 24
    <3>1. service' = service BY <1>2, <2>2, <2>5 DEF Setup!Effect
    <3>2. QED BY <1>0, <1>1, <2>1, <2>5, <3>1 DEF DeskInv
  <2>6. CASE pc = 25
    <3>1. service' = (IF saved.enabled THEN [service EXCEPT !.enabled = "new"] ELSE service)
      BY <1>2, <2>2, <2>6 DEF Setup!Effect
    <3>2. QED BY <1>0, <1>1, <2>1, <2>6, <3>1 DEF DeskInv
  <2>7. CASE pc = 26
    <3>1. service' = (IF saved.active THEN [service EXCEPT !.active = "new"] ELSE service)
      BY <1>2, <2>2, <2>7 DEF Setup!Effect
    <3>2. QED BY <1>0, <1>1, <2>1, <2>7, <3>1 DEF DeskInv
  <2>8. QED BY <1>3, <2>3, <2>4, <2>5, <2>6, <2>7
<1>6. QED BY <1>4, <1>5

LEMMA DeskProbe == ASSUME Setup!ConstantsAssumption, SetupInv, FoundInv, NotedInv, DeskInv, Setup!Probe PROVE DeskInv'
<1>0. /\ stage = "working" /\ Setup!Op.do = "probe" /\ pc' = pc + 1 /\ UNCHANGED <<settings, service, complete, found>>
  BY DEF Setup!Probe, Setup!Working, Setup!Advance, Setup!restVars
<1>1. pc = 21 BY <1>0, HereIs, Places
<1>2. ~ saved.touched /\ service = found.service /\ settings = "new" BY <1>0, <1>1 DEF DeskInv, NotedInv
<1>3. saved'.touched = (found.service.unit = "old")
  <2>1. CASE service.unit = "none"
    <3>1. saved' = saved BY <2>1 DEF Setup!Probe
    <3>2. saved.touched = FALSE /\ found.service.unit # "old" BY <1>2, <2>1 DEF SetupInv, Setup!TypeOK
    <3>3. QED BY <3>1, <3>2
  <2>2. CASE service.unit # "none"
    <3>1. saved'.touched = TRUE BY <2>2 DEF Setup!Probe
    <3>2. found.service.unit = "old" BY <1>2, <2>2 DEF FoundInv
    <3>3. QED BY <3>1, <3>2
  <2>3. QED BY <2>1, <2>2
<1>4. QED BY <1>0, <1>1, <1>2, <1>3 DEF DeskInv

LEMMA DeskStep ==
    ASSUME Setup!ConstantsAssumption, SetupInv, FoundInv, NotedInv, DeskInv, Setup!Next
    PROVE  DeskInv'
<1>0. stage = "working" => /\ pc \in Nat /\ (Setup!Op.do = "apply" <=> pc = 20) /\ (Setup!Op.do = "probe" <=> pc = 21)
                           /\ Setup!Op.do = "mark" <=> pc = 28
                           /\ Setup!Op.do \in Setup!Commands <=> pc \in 22 .. 26
  BY HereIs, Places DEF Setup!Commands
<1>1. pc \in Nat BY Here DEF SetupInv
<1>2. CASE Setup!Probe \/ Setup!Serve BY <1>2, DeskProbe, DeskServe
<1>3. CASE Setup!Apply \/ Setup!Mark
  <2>1. stage = "working" /\ pc' = pc + 1 /\ UNCHANGED <<service, saved, found>>
    BY <1>3 DEF Setup!Apply, Setup!Mark, Setup!Working, Setup!Advance, Setup!restVars
  <2>2. \/ pc = 20 /\ settings' = "new" /\ complete' = complete
        \/ pc = 28 /\ complete' = TRUE /\ settings' = settings
    BY <1>0, <1>3 DEF Setup!Apply, Setup!Mark, Setup!Working
  <2>3. QED BY <2>1, <2>2 DEF DeskInv
<1>4. CASE Setup!Relocate \/ Setup!Expect \/ Setup!Directory \/ Setup!Prepare \/ Setup!MovesIn \/ Setup!Retire \/ Setup!Runs
  <2>1. /\ stage = "working" /\ UNCHANGED <<settings, service, saved, complete, found>>
        /\ stage' = "working" => pc' = pc \/ pc' = pc + 1
        /\ Setup!Op.do \notin {"apply", "probe", "mark"} \cup Setup!Commands
    BY <1>4 DEF Setup!Relocate, Setup!Expect, Setup!Directory, Setup!Prepare, Setup!Prepared, Setup!MovesIn, Setup!Retire, Setup!Runs,
       Setup!Working, Setup!Advance, Setup!Fails, Setup!Commands, Setup!Adopts, Setup!deskVars, Setup!restVars
  <2>2. pc \notin 20 .. 26 /\ pc # 28 BY <1>0, <2>1
  <2>3. QED BY <1>1, <2>1, <2>2, DeskStays
<1>5. CASE Setup!Looks \/ Setup!MovesAside \/ Setup!Compares \/ Setup!Commit \/ Setup!Signal
  BY <1>1, <1>5, DeskStays DEF Setup!Looks, Setup!MovesAside, Setup!Compares, Setup!Commit, Setup!Signal, Setup!Working,
     Setup!Fails, Setup!deskVars, Setup!restVars
<1>6. CASE Setup!Stopped \/ Setup!Faulty \/ Setup!Rolls \/ Setup!Killed
  BY <1>6 DEF Setup!Stopped, Setup!Faulty, Setup!Rolls, Setup!RestoreService, Setup!RestoreChange, Setup!RestoreRest, Setup!Killed,
     Setup!Fails, DeskInv
<1>7. ASSUME NEW p, Setup!Foreign(p) PROVE DeskInv' BY <1>1, <1>7, DeskStays DEF Setup!Foreign, Setup!deskVars
<1>8. QED BY <1>2, <1>3, <1>4, <1>5, <1>6, <1>7 DEF Setup!Next, Setup!Works

\* A step that touches at most one path, which is not yet reached or is reached by it.
LEMMA ReachedStays ==
    ASSUME Setup!ConstantsAssumption, SetupInv, ReachedInv, NEW o, root' = root \/ root' = "new",
           stage' = "working" =>
               /\ stage = "working" /\ \A p \in Setup!Paths : p # o => at'[p] = at[p]
               /\ \A p \in Setup!Paths, i \in DOMAIN changes :
                      p # o /\ IsNewest(p, i) => i \in DOMAIN changes' /\ IsNewest(p, i)' /\ changes'[i].new = changes[i].new
               /\ o \notin {"app", "link", "oldlink"} \/ (Setup!Op.do = "publish" /\ o = Setup!Op.on)
               /\ \/ pc' = pc
                  \/ /\ pc' = pc + 1 /\ Setup!Op.do # "retire" /\ (Setup!Op.do = "relocate" => root' = "new")
                     /\ Setup!Op.do = "publish" /\ o \in {"app", "link"} =>
                            \E i \in DOMAIN changes' : IsNewest(o, i)' /\ at'[o] = changes'[i].new
                     /\ Setup!Op.do = "publish" => o = Setup!Op.on
    PROVE  ReachedInv'
<1>1. SUFFICES ASSUME stage' = "working" PROVE ReachedInv' BY DEF ReachedInv
<1>2. /\ Setup!Op = Setup!Plan[pc] /\ pc \in 1 .. Len(Setup!Plan) /\ pc \in Nat /\ Upgrade \in BOOLEAN /\ stage = "working"
      /\ \A p \in {"app", "link"} : pc = Goal(p) => Setup!Op.do = "publish" /\ Setup!Op.on = p
  BY <1>1, HereIs
<1>3. Setup!Op.do = "publish" => \/ Upgrade /\ <<pc, Setup!Op.on>> \in {<<4, "history">>, <<8, "link">>, <<16, "app">>, <<17, "link">>}
                                 \/ ~ Upgrade /\ <<pc, Setup!Op.on>> \in {<<8, "app">>, <<9, "link">>}
  BY <1>2, Places
<1>4. (Setup!Op.do = "retire" <=> Upgrade /\ pc = 5) /\ (Setup!Op.do = "relocate" <=> Upgrade /\ pc = 1) BY <1>2, Places
<1>5. o # "oldlink" BY <1>1, <1>3
<1>6. at'["oldlink"] = at["oldlink"] BY <1>1, <1>5 DEF Setup!Paths
<1>7. ASSUME NEW p \in {"app", "link"}, pc' > Goal(p)'
      PROVE  \E i \in DOMAIN changes' : IsNewest(p, i)' /\ (at'[p] = changes'[i].new \/ at'[p] >= Setup!Theirs)
  <2>1. Goal(p)' = Goal(p) /\ Goal(p) \in Nat BY <1>2 DEF Goal
  <2>2. CASE p = o
    <3>1. Setup!Op.do = "publish" /\ p = Setup!Op.on BY <1>1, <2>2
    <3>2. pc <= Goal(p) BY <1>3, <3>1 DEF Goal
    <3>3. pc' # pc BY <1>2, <1>7, <2>1, <3>2
    <3>4. QED BY <1>1, <2>2, <3>1, <3>3
  <2>3. CASE p # o
    <3>1. pc > Goal(p)
      <4>1. CASE pc' = pc BY <1>7, <2>1, <4>1
      <4>2. CASE pc' = pc + 1
        <5>1. pc # Goal(p) BY <1>1, <1>2, <2>3, <4>2
        <5>2. QED BY <1>2, <1>7, <2>1, <4>2, <5>1
      <4>3. QED BY <1>1, <4>1, <4>2
    <3>2. PICK i \in DOMAIN changes : IsNewest(p, i) /\ (at[p] = changes[i].new \/ at[p] >= Setup!Theirs)
      BY <1>2, <3>1 DEF ReachedInv
    <3>3. QED BY <1>1, <2>3, <3>2 DEF Setup!Paths
  <2>4. QED BY <2>2, <2>3
<1>8. (Upgrade /\ pc' > 5 => at["oldlink"] = 0 \/ at["oldlink"] >= Setup!Theirs) /\ (~ Upgrade => at["oldlink"] = 0)
  BY <1>1, <1>2, <1>4 DEF ReachedInv
<1>9. (Upgrade => pc' > 1) => root' = "new" BY <1>1, <1>2, <1>4 DEF ReachedInv
<1>10. QED BY <1>6, <1>7, <1>8, <1>9 DEF ReachedInv

LEMMA ReachedMoves == ASSUME Setup!ConstantsAssumption, SetupInv, ReachedInv, Setup!MovesAside \/ Setup!MovesIn PROVE ReachedInv'
<1>0. stage = "working" /\ Setup!Op.do = "publish" /\ root' = root
  BY DEF Setup!MovesAside, Setup!MovesIn, Setup!Working
<1>o. PICK o \in Setup!Paths : o = Setup!Op.on BY <1>0, Working
<1>1. Setup!TypeOK /\ at \in [Setup!Paths -> Setup!Objects] /\ changes \in Seq(Entry) BY <1>0, Working
<1>2. PICK i \in DOMAIN changes : IsNewest(o, i) BY <1>0, <1>o, Working
<1>3. Setup!Newest(o) = i /\ changes[i].on = o BY <1>1, <1>2, NewestIs DEF IsNewest
<1>4. PICK c, v : /\ \/ stage' = "failing"
                     \/ /\ stage' = "working" /\ at' = [at EXCEPT ![o] = v] /\ changes' = [changes EXCEPT ![i] = c]
                        /\ c.on = o /\ (pc' = pc \/ (pc' = pc + 1 /\ v = c.new))
  <2>1. CASE Setup!MovesAside
    <3> DEFINE c == [changes[i] EXCEPT !.prev = at[o], !.moved = TRUE]
    <3>1. stage' = "working" /\ pc' = pc /\ at' = [at EXCEPT ![o] = 0] /\ changes' = [changes EXCEPT ![i] = c]
      BY <1>0, <1>3, <1>o, <2>1 DEF Setup!MovesAside
    <3>2. c.on = o BY <1>1, <1>3 DEF Entry
    <3>3. QED BY <3>1, <3>2
  <2>2. CASE Setup!MovesIn
    <3> DEFINE c == [changes[i] EXCEPT !.public = TRUE]
    <3>1. \/ stage' = "failing"
          \/ /\ stage' = "working" /\ pc' = pc + 1 /\ at' = [at EXCEPT ![o] = changes[i].new]
             /\ changes' = [changes EXCEPT ![i] = c]
      BY <1>0, <1>3, <1>o, <2>2 DEF Setup!MovesIn, Setup!Advance, Setup!Fails
    <3>2. c.on = o /\ c.new = changes[i].new BY <1>1, <1>3 DEF Entry
    <3>3. QED BY <3>1, <3>2
  <2>3. QED BY <2>1, <2>2
<1>5. CASE stage' = "failing" BY <1>5 DEF ReachedInv
<1>6. CASE stage' # "failing"
  <2>1. /\ stage' = "working" /\ (pc' = pc \/ (pc' = pc + 1 /\ v = c.new)) /\ c.on = o
        /\ at' = [at EXCEPT ![o] = v] /\ changes' = [changes EXCEPT ![i] = c]
    BY <1>4, <1>6
  <2>2. DOMAIN changes' = DOMAIN changes /\ changes'[i] = c /\ \A j \in DOMAIN changes : j # i => changes'[j] = changes[j]
    BY <2>1
  <2>3. at'[o] = v /\ \A p \in Setup!Paths : p # o => at'[p] = at[p] BY <1>1, <2>1
  <2>4. IsNewest(o, i)' BY <1>2, <1>3, <2>1, <2>2 DEF IsNewest
  <2>5. ASSUME NEW p \in Setup!Paths, NEW j \in DOMAIN changes, p # o, IsNewest(p, j)
        PROVE  j \in DOMAIN changes' /\ IsNewest(p, j)' /\ changes'[j].new = changes[j].new
    BY <1>3, <2>1, <2>2, <2>5 DEF IsNewest
  <2>6. pc' = pc + 1 => at'[o] = changes'[i].new
    <3>1. pc \in Nat BY <1>1, Here
    <3>2. QED BY <2>1, <2>2, <2>3, <3>1
  <2>7. QED BY <1>0, <1>2, <1>o, <2>1, <2>2, <2>3, <2>4, <2>5, <2>6, ReachedStays
<1>7. QED BY <1>5, <1>6

LEMMA ReachedStep == ASSUME Setup!ConstantsAssumption, SetupInv, ReachedInv, Setup!Next PROVE ReachedInv'
<1>1. CASE Setup!MovesAside \/ Setup!MovesIn BY <1>1, ReachedMoves
<1>2. CASE \/ Setup!Relocate \/ Setup!Expect \/ Setup!Directory \/ Setup!Looks \/ Setup!Compares
           \/ Setup!Runs \/ Setup!Apply \/ Setup!Probe \/ Setup!Serve \/ Setup!Mark \/ Setup!Commit \/ Setup!Signal
  <2>1. /\ UNCHANGED <<at, changes>> \/ stage' = "committed"
        /\ (root' = root \/ root' = "new") /\ (Setup!Op.do = "relocate" /\ stage' = "working" /\ pc' # pc => root' = "new")
        /\ stage' = "working" => stage = "working" /\ (pc' = pc \/ (pc' = pc + 1 /\ Setup!Op.do \notin {"publish", "retire"}))
    BY <1>2 DEF Setup!Relocate, Setup!Expect, Setup!Directory, Setup!Looks, Setup!Compares, Setup!Runs, Setup!Apply, Setup!Probe,
       Setup!Serve, Setup!Mark, Setup!Commit, Setup!Signal, Setup!Working, Setup!Advance, Setup!Fails, Setup!Commands,
       Setup!Adopts, Setup!fileVars, Setup!deskVars, Setup!restVars
  <2>2. QED BY <2>1, ReachedStays DEF IsNewest
<1>3. CASE Setup!Prepare
  <2> DEFINE c == [on |-> Setup!Op.on, new |-> Len(changes) + 2, prev |-> 0, moved |-> FALSE, public |-> FALSE, temp |-> TRUE]
  <2>1. stage = "working" /\ Setup!Op.do = "prepare" /\ pc' = pc + 1 /\ UNCHANGED <<at, root>>
    BY <1>3 DEF Setup!Prepare, Setup!Working, Setup!Advance
  <2>2. /\ pc \in Nat /\ Upgrade \in BOOLEAN
        /\ \/ Upgrade /\ pc \in {3, 7, 12, 14}
           \/ ~ Upgrade /\ pc \in {4, 6}
    BY <2>1, HereIs, Places
  <2>3. \A p \in {"app", "link"} : ~ (pc' > Goal(p)) BY <2>1, <2>2 DEF Goal
  <2>4. QED BY <2>1, <2>2, <2>3 DEF ReachedInv
<1>4. CASE Setup!Retire
  <2>1. /\ stage = "working" /\ Setup!Op.do = "retire" /\ pc' = pc + 1 /\ root' = root
        /\ (at[Setup!Op.on] = 0 /\ at' = at) \/ at' = [at EXCEPT ![Setup!Op.on] = 0]
    BY <1>4 DEF Setup!Retire, Setup!Working, Setup!Advance
  <2>2. Upgrade /\ pc = 5 /\ Setup!Op.on = "oldlink" BY <2>1, HereIs, Places
  <2>3. at'["oldlink"] = 0 BY <2>1, <2>2, Working DEF Setup!Paths
  <2>4. \A p \in {"app", "link"} : ~ (pc' > Goal(p)) BY <2>1, <2>2 DEF Goal
  <2>5. QED BY <2>1, <2>2, <2>3, <2>4 DEF ReachedInv
<1>5. CASE Setup!Stopped \/ Setup!Faulty \/ Setup!Rolls \/ Setup!Killed
  BY <1>5 DEF Setup!Stopped, Setup!Faulty, Setup!Rolls, Setup!RestoreService, Setup!RestoreChange, Setup!RestoreRest, Setup!Killed,
     Setup!Fails, ReachedInv
<1>6. ASSUME NEW p \in IF Upgrade THEN Setup!Paths ELSE {"app", "link"}, Setup!Foreign(p) PROVE ReachedInv'
  <2>1. /\ UNCHANGED <<pc, half, stage, root, changes>> /\ at' = [at EXCEPT ![p] = Setup!Theirs + spent.foreign]
        /\ at \in [Setup!Paths -> Setup!Objects] /\ spent.foreign \in Nat /\ Upgrade \in BOOLEAN
    BY <1>6 DEF Setup!Foreign, SetupInv, Setup!TypeOK, Setup!ConstantsAssumption
  <2>2. p \in Setup!Paths /\ (~ Upgrade => p # "oldlink") BY <2>1 DEF Setup!Paths
  <2>3. \A q \in Setup!Paths : at'[q] = at[q] \/ at'[q] >= Setup!Theirs BY <2>1 DEF Setup!Theirs
  <2>4. ~ Upgrade => at'["oldlink"] = at["oldlink"] BY <2>1, <2>2 DEF Setup!Paths
  <2>5. \A q, i : IsNewest(q, i) => IsNewest(q, i)' BY <2>1 DEF IsNewest
  <2>6. \A q \in {"app", "link", "oldlink"} : q \in Setup!Paths BY DEF Setup!Paths
  <2>7. QED BY <2>1, <2>3, <2>4, <2>5, <2>6 DEF ReachedInv, Goal
<1>7. QED BY <1>1, <1>2, <1>3, <1>4, <1>5, <1>6 DEF Setup!Next, Setup!Works

\* What was to be shown of a failure and of a commit; every other step reaches neither.
LEMMA SetupFailed ==
    ASSUME SetupInv, FoundInv, ChainInv, NotedInv, Setup!RestoreRest
    PROVE  Setup!FailureRestores'
<1>0. /\ stage = "failing" /\ Setup!Undo = {} /\ ~ complete /\ ~ saved.touched /\ parent' = Setup!DirectoryBack
      /\ root' = (IF stood # <<>> /\ Setup!RootAsMoved THEN "old" ELSE root) /\ settings' = "old"
      /\ UNCHANGED <<at, service, complete, found, spent>>
  BY DEF Setup!RestoreRest, Setup!restVars
<1>1. SUFFICES ASSUME spent.foreign = 0 PROVE Setup!FailureRestores' BY <1>0 DEF Setup!FailureRestores
<1>2. \A p \in Setup!Paths : Mine(p) = {} /\ at[p] = found.at[p] BY <1>0, <1>1 DEF ChainInv, Links, Mine, Setup!Undo
<1>3. \A i \in DOMAIN changes : ~ Setup!Kept(i) BY <1>0, <1>1 DEF ChainInv, Setup!Kept, Setup!Undo
<1>4. at = found.at
  <2>1. at \in [Setup!Paths -> Setup!Objects] /\ found.at \in [Setup!Paths -> {0, Setup!Original}]
    BY DEF SetupInv, Setup!TypeOK, FoundInv
  <2>2. QED BY <1>2, <2>1
<1>5. parent' = found.parent
  <2>1. found.at["app"] = 0 => at["app"] = 0 BY <1>4
  <2>2. found.parent = "none" => at["app"] = 0 BY <2>1 DEF FoundInv
  <2>3. QED BY <1>0, <1>3, <2>2 DEF Setup!DirectoryBack, NotedInv, SetupInv, Setup!TypeOK
<1>6. root' = found.root
  <2>1. CASE stood = <<>> BY <1>0, <2>1 DEF NotedInv
  <2>2. CASE stood # <<>>
    <3>1. found.root = "old" /\ stood = <<at["app"], at["history"]>> BY <1>0, <1>1, <1>4, <2>2 DEF NotedInv
    <3>2. Setup!RootAsMoved BY <1>3, <3>1 DEF Setup!RootAsMoved
    <3>3. QED BY <1>0, <2>2, <3>1, <3>2
  <2>3. QED BY <2>1, <2>2
<1>7. service' = found.service BY <1>0 DEF NotedInv
<1>8. QED BY <1>0, <1>4, <1>5, <1>6, <1>7 DEF Setup!FailureRestores

LEMMA SetupCommitted ==
    ASSUME Setup!ConstantsAssumption, SetupInv, SetupInv', FoundInv, NotedInv, ReachedInv, DeskInv, Setup!Commit
    PROVE  Setup!CommitIsWhole'
<1>0. /\ stage = "working" /\ Setup!Op.do = "commit" /\ UNCHANGED <<at, root, settings, service, complete, found>>
      /\ changes' = [i \in DOMAIN changes |-> [changes[i] EXCEPT !.temp = FALSE]]
  BY DEF Setup!Commit, Setup!Working, Setup!deskVars, Setup!restVars
<1>1. /\ pc = Len(Setup!Plan) /\ Upgrade \in BOOLEAN /\ (Upgrade => pc = 29) /\ (~ Upgrade => pc = 11) /\ changes \in Seq(Entry)
  BY <1>0, Working, Here
<1>p. (Upgrade /\ pc = 29) \/ (~ Upgrade /\ pc = 11)
  <2>1. (Upgrade => pc = 29) /\ (~ Upgrade => pc = 11) BY <1>1
  <2>2. QED BY <2>1
<1>2. DOMAIN changes' = DOMAIN changes /\ \A i \in DOMAIN changes : changes'[i].on = changes[i].on /\ changes'[i].new = changes[i].new
  <2>1. \A i \in DOMAIN changes : changes[i] \in Entry /\ changes'[i] = [changes[i] EXCEPT !.temp = FALSE] BY <1>0, <1>1
  <2>2. \A e \in Entry : LET f == [e EXCEPT !.temp = FALSE] IN f.on = e.on /\ f.new = e.new BY DEF Entry
  <2>3. QED BY <1>0, <2>1, <2>2
<1>3. ASSUME NEW p \in {"app", "link"} PROVE at'[p] = changes'[Setup!Newest(p)'].new \/ at'[p] >= Setup!Theirs
  <2>1. pc > Goal(p) BY <1>p DEF Goal
  <2>2. PICK i \in DOMAIN changes : IsNewest(p, i) /\ (at[p] = changes[i].new \/ at[p] >= Setup!Theirs)
    BY <1>0, <2>1 DEF ReachedInv
  <2>3. Setup!Newest(p)' = i
    <3>1. i \in DOMAIN changes' /\ changes'[i].on = p /\ \A j \in DOMAIN changes' : changes'[j].on = p => j <= i
      BY <1>2, <2>2 DEF IsNewest
    <3>2. DOMAIN changes' \subseteq Nat BY <1>1, <1>2
    <3>3. \A j \in DOMAIN changes' :
             changes'[j].on = p /\ (\A k \in DOMAIN changes' : changes'[k].on = p => k <= j) => j = i
      BY <3>1, <3>2
    <3>4. QED BY <3>1, <3>3 DEF Setup!Newest
  <2>4. QED BY <1>0, <1>2, <2>2, <2>3
<1>4. root' = "new" /\ (at'["oldlink"] = 0 \/ at'["oldlink"] >= Setup!Theirs) /\ (Upgrade => settings' = "new" /\ complete')
  BY <1>0, <1>p DEF ReachedInv, DeskInv
<1>5. service' = [u \in {"unit", "enabled", "active"} |-> IF found'.service[u] = "old" THEN "new" ELSE found'.service[u]]
  <2>1. /\ service \in [unit : Setup!Unit, enabled : Setup!Unit, active : Setup!Unit]
        /\ found.service \in [unit : {"none", "old"}, enabled : {"none", "old"}, active : {"none", "old"}]
        /\ saved.touched \in BOOLEAN
    BY DEF SetupInv, Setup!TypeOK, FoundInv
  <2>2. CASE saved.touched
    <3>1. Upgrade /\ pc = 29 BY <1>0, <1>p, <2>2 DEF DeskInv
    <3>2. found.service.unit = "old" /\ saved.enabled = (found.service.enabled = "old") /\ saved.active = (found.service.active = "old")
      BY <1>0, <2>2 DEF NotedInv
    <3>3. /\ service.unit = "new" /\ service.enabled = (IF saved.enabled THEN "new" ELSE "none")
          /\ service.active = (IF saved.active THEN "new" ELSE "none")
      BY <1>0, <2>2, <3>1 DEF DeskInv
    <3>4. /\ service.unit = (IF found.service.unit = "old" THEN "new" ELSE found.service.unit)
          /\ service.enabled = (IF found.service.enabled = "old" THEN "new" ELSE found.service.enabled)
          /\ service.active = (IF found.service.active = "old" THEN "new" ELSE found.service.active)
      BY <2>1, <3>2, <3>3
    <3>5. QED BY <1>0, <2>1, <3>4
  <2>3. CASE ~ saved.touched
    <3>1. service = found.service BY <1>0, <2>3 DEF NotedInv
    <3>2. found.service.unit # "old"
      <4>1. CASE ~ Upgrade BY <4>1 DEF FoundInv
      <4>2. CASE Upgrade
        <5>1. pc > 21 /\ saved.touched = FALSE BY <1>p, <2>1, <2>3, <4>2
        <5>2. QED BY <1>0, <5>1 DEF DeskInv
      <4>3. QED BY <4>1, <4>2
    <3>3. found.service.unit = "none" /\ found.service.enabled = "none" /\ found.service.active = "none"
      BY <2>1, <3>2 DEF FoundInv
    <3>4. QED BY <1>0, <2>1, <3>1, <3>3
  <2>4. QED BY <2>2, <2>3
<1>6. QED BY <1>3, <1>4, <1>5 DEF Setup!CommitIsWhole

LEMMA RestBegins == ASSUME Setup!ConstantsAssumption, Setup!Init PROVE RestInv
<1>0. /\ pc = 1 /\ stage = "working" /\ at \in [Setup!Paths -> {0, Setup!Original}] /\ (~ Upgrade => at["oldlink"] = 0)
      /\ root = (IF Upgrade THEN "old" ELSE "new") /\ parent = (IF at["app"] = 0 THEN "none" ELSE "loose")
      /\ changes = <<>> /\ made = "no" /\ stood = <<>>
      /\ service \in [unit : {"none", "old"}, enabled : {"none", "old"}, active : {"none", "old"}]
      /\ (service.enabled # "none" => service.unit = "old") /\ (service.active # "none" => service.enabled = "old")
      /\ (~ Upgrade => service.unit = "none") /\ ~ saved.touched
      /\ found = [at |-> at, root |-> root, parent |-> parent, service |-> service] /\ Upgrade \in BOOLEAN
  BY DEF Setup!Init, Setup!ConstantsAssumption
<1>1. found.at = at /\ found.root = root /\ found.parent = parent /\ found.service = service BY <1>0
<1>2. FoundInv BY <1>0, <1>1 DEF FoundInv
<1>3. ChainInv
  <2>1. \A p : Mine(p) = {} BY <1>0 DEF Mine
  <2>2. QED BY <1>0, <1>1, <2>1 DEF ChainInv, Links, Halfway
<1>4. NotedInv BY <1>0, <1>1 DEF NotedInv
<1>5. ReachedInv /\ DeskInv BY <1>0 DEF ReachedInv, DeskInv, Goal
<1>6. Setup!FailureRestores /\ Setup!CommitIsWhole BY <1>0 DEF Setup!FailureRestores, Setup!CommitIsWhole
<1>7. QED BY <1>2, <1>3, <1>4, <1>5, <1>6 DEF RestInv

LEMMA RestStep ==
    ASSUME Setup!ConstantsAssumption, SetupInv, SetupInv', RestInv, [Setup!Next]_(Setup!vars)
    PROVE  RestInv'
<1>1. CASE UNCHANGED Setup!vars
  <2>1. UNCHANGED <<pc, half, stage, at, root, parent, expected, changes, made, stood, settings, service, saved,
                    complete, signal, found, placed, lost, spent>>
    BY <1>1 DEF Setup!vars
  <2>2. FoundInv' /\ NotedInv' /\ DeskInv' BY <2>1 DEF RestInv, FoundInv, NotedInv, DeskInv
  <2>3. ChainInv' BY <2>1, ChainStays DEF RestInv
  <2>4. ReachedInv' BY <2>1 DEF RestInv, ReachedInv, Goal, IsNewest
  <2>5. Setup!FailureRestores' BY <2>1 DEF RestInv, Setup!FailureRestores
  <2>6. Setup!CommitIsWhole' BY <2>1 DEF RestInv, Setup!CommitIsWhole, Setup!Newest
  <2>7. QED BY <2>2, <2>3, <2>4, <2>5, <2>6 DEF RestInv
<1>2. CASE Setup!Next
  <2>1. ChainInv' /\ NotedInv' /\ DeskInv' /\ ReachedInv'
    BY <1>2, ChainStep, NotedStep, DeskStep, ReachedStep DEF RestInv
  <2>2. found' = found
    BY <1>2 DEF Setup!Next, Setup!Works, Setup!Rolls, Setup!Relocate, Setup!Expect, Setup!Directory, Setup!Prepare, Setup!Looks,
       Setup!MovesAside, Setup!Compares, Setup!MovesIn, Setup!Retire, Setup!Runs, Setup!Apply, Setup!Probe, Setup!Serve, Setup!Mark,
       Setup!Commit, Setup!Stopped, Setup!Faulty, Setup!RestoreService, Setup!RestoreChange, Setup!RestoreRest, Setup!Signal,
       Setup!Killed, Setup!Foreign, Setup!Adopts, Setup!restVars
  <2>3. FoundInv' BY <2>2 DEF RestInv, FoundInv
  <2>4. CASE Setup!RestoreRest
    <3>1. stage' = "failed" BY <2>4 DEF Setup!RestoreRest
    <3>2. QED BY <2>1, <2>3, <2>4, <3>1, SetupFailed DEF RestInv, Setup!CommitIsWhole
  <2>5. CASE Setup!Commit
    <3>1. stage' = "committed" BY <2>5 DEF Setup!Commit
    <3>2. QED BY <2>1, <2>3, <2>5, <3>1, SetupCommitted DEF RestInv, Setup!FailureRestores
  <2>6. CASE ~ Setup!RestoreRest /\ ~ Setup!Commit
    <3>1. stage' \in {"working", "failing", "killed"}
      BY <1>2, <2>6 DEF Setup!Next, Setup!Works, Setup!Rolls, Setup!Relocate, Setup!Expect, Setup!Directory, Setup!Prepare,
         Setup!Looks, Setup!MovesAside, Setup!Compares, Setup!MovesIn, Setup!Retire, Setup!Runs, Setup!Apply, Setup!Probe, Setup!Serve,
         Setup!Mark, Setup!Stopped, Setup!Faulty, Setup!RestoreService, Setup!RestoreChange, Setup!Signal, Setup!Killed,
         Setup!Foreign, Setup!Working, Setup!Advance, Setup!Fails
    <3>2. QED BY <2>1, <2>3, <3>1 DEF RestInv, Setup!FailureRestores, Setup!CommitIsWhole
  <2>7. QED BY <2>4, <2>5, <2>6
<1>3. QED BY <1>1, <1>2

\* Unless another program interferes, a failed installation leaves paths, state root, directory, service and
\* preferences as they were found; a committed one has published all of the new and nothing of the former name
\* (install_transaction.rs, legacy.rs).
THEOREM InstallsWholeOrNot ==
    Setup!ConstantsAssumption /\ Setup!Spec => [](Setup!FailureRestores /\ Setup!CommitIsWhole)
<1>1. Setup!ConstantsAssumption /\ Setup!Init => RestInv BY RestBegins
<1>2. Setup!ConstantsAssumption /\ SetupInv /\ SetupInv' /\ RestInv /\ [Setup!Next]_(Setup!vars) => RestInv' BY RestStep
<1>3. Setup!ConstantsAssumption => Setup!ConstantsAssumption' BY DEF Setup!ConstantsAssumption
<1>4. RestInv => Setup!FailureRestores /\ Setup!CommitIsWhole BY DEF RestInv
<1>5. QED BY <1>1, <1>2, <1>3, <1>4, SetupInvariant, PTL DEF Setup!Spec

-----------------------------------------------------------------------------
(* The widget: an earlier one is in its directory or its backup.             *)

\* What stands in the directories in each phase, where one widget at most was found, without local changes.
WidgetInv ==
    /\ Widget!TypeOK /\ uses \in [foreign : Nat, faults : Nat] /\ before \in [Widget!Names -> {"none", "old", "edited"}]
    /\ phase \in {"checking", "staged"} => backup = "none" /\ (shown = "old" <=> \E n \in Widget!Names : before[n] = "old")
    /\ phase = "checking" => plugins = before /\ uses.foreign = 0
    /\ phase \notin {"checking", "failed", "killed"} =>
           (\A n \in Widget!Names : before[n] # "edited") /\ ~ (before["id"] = "old" /\ before["legacy"] = "old")
    /\ phase = "staged" => /\ plugins["legacy"] = before["legacy"]
                           /\ IF uses.foreign > 0 THEN before["id"] = "none" ELSE plugins["id"] = before["id"]
    /\ phase \in {"aside", "failing", "promoted", "discovered", "undoing", "installed"} =>
           /\ plugins["legacy"] = "none" /\ (backup = "old" <=> \E n \in Widget!Names : before[n] = "old")
           /\ uses.foreign = 0 => plugins["id"] = (IF phase \in {"aside", "failing"} THEN "none" ELSE "ours")
    /\ Widget!WidgetsStand

LEMMA WidgetUndone == ASSUME WidgetInv, Widget!Undo PROVE WidgetInv'
<1> USE DEF Widget!Names
<1>1. \A n \in Widget!Names : before[n] = "old" => Widget!Earlier = n BY DEF WidgetInv, Widget!Undo, Widget!Earlier
<1>2. before \in [Widget!Names -> {"none", "old", "edited"}] /\ plugins \in [Widget!Names -> {"none", "old", "ours", "theirs", "edited"}]
  BY DEF WidgetInv, Widget!TypeOK
<1>3. CASE \A n \in Widget!Names : before[n] # "old"
  BY <1>2, <1>3 DEF WidgetInv, Widget!TypeOK, Widget!WidgetsStand, Widget!Undo, Widget!Returned, Widget!OursThere
<1>4. CASE before["id"] = "old"
  BY <1>1, <1>2, <1>4 DEF WidgetInv, Widget!TypeOK, Widget!WidgetsStand, Widget!Undo, Widget!Returned, Widget!OursThere
<1>5. CASE before["legacy"] = "old"
  BY <1>1, <1>2, <1>5 DEF WidgetInv, Widget!TypeOK, Widget!WidgetsStand, Widget!Undo, Widget!Returned, Widget!OursThere
<1>6. QED BY <1>3, <1>4, <1>5

LEMMA WidgetStep == ASSUME WidgetInv, [Widget!Next]_(Widget!vars) PROVE WidgetInv'
<1> USE DEF WidgetInv, Widget!TypeOK, Widget!WidgetsStand, Widget!Names
<1>1. CASE UNCHANGED Widget!vars BY <1>1 DEF Widget!vars
<1>2. CASE Widget!Checks BY <1>2 DEF Widget!Checks, Widget!Widgets, Widget!Unmanaged
<1>3. CASE Widget!Aside BY <1>3 DEF Widget!Aside
<1>4. CASE Widget!Promote BY <1>4 DEF Widget!Promote
<1>5. CASE Widget!Discover \/ Widget!Enable \/ Widget!Killed BY <1>5 DEF Widget!Discover, Widget!Enable, Widget!Killed
<1>6. CASE Widget!Faulty BY <1>6 DEF Widget!Faulty
<1>7. CASE Widget!Undo BY <1>7, WidgetUndone
<1>8. CASE Widget!Foreign BY <1>8 DEF Widget!Foreign
<1>9. QED BY <1>1, <1>2, <1>3, <1>4, <1>5, <1>6, <1>7, <1>8 DEF Widget!Next

\* An earlier widget, another program's directory and local changes stay, wherever the setup of the widget fails or
\* is killed, and an undisturbed failure leaves what was there (widget.rs).
THEOREM WidgetsAreKept == Widget!Spec => []Widget!WidgetsStand
<1>1. Widget!Init => WidgetInv BY DEF Widget!Init, WidgetInv, Widget!TypeOK, Widget!WidgetsStand, Widget!Names
<1>2. WidgetInv /\ [Widget!Next]_(Widget!vars) => WidgetInv' BY WidgetStep
<1>3. WidgetInv => Widget!WidgetsStand BY DEF WidgetInv
<1>4. QED BY <1>1, <1>2, <1>3, PTL DEF Widget!Spec
=============================================================================
