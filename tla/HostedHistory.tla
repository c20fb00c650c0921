--------------------------- MODULE HostedHistory ---------------------------
(***************************************************************************)
(* The history routes of the hosted account (hosted/server/service.mjs):   *)
(* first save, edit, deletion, one note and the list of notes, for one     *)
(* account.  A request reads the table, may read it again, and writes in   *)
(* one transaction whose conditions the table checks; between those steps  *)
(* other requests run.  A caller may go away; its request goes on.         *)
(*                                                                         *)
(* A note's text is a number, its original words never change, and a       *)
(* revision counts from 1.  Merging two notes is left out.                 *)
(***************************************************************************)
EXTENDS Naturals, FiniteSets

CONSTANTS
    Notes,      \* recording identifiers
    Slots,      \* places for a request on its way
    Unheard,    \* those whose caller has gone
    Oversize    \* texts that do not fit an account document

VARIABLES
    receipt,    \* RECORDING#id: absent, live, or a tombstone with or without its historyKey
    row,        \* HISTORY#..#id: the note as saved
    applied,    \* EDIT#id#operation: which revision an operation made
    revoked,    \* logins whose device was removed
    requests

hosted == <<receipt, row, applied, revoked, requests>>

Receipt == {"none", "live", "deleted", "blind"}
NoRow == [rev |-> 0, text |-> 0]
Free == [stage |-> "free"]

\* What a client sends; `who` is the login it was sent under.  What the first reads find comes later.
Request(kind, n, who, text, base, op) ==
    [stage |-> "sent", kind |-> kind, note |-> n, who |-> who,
     text |-> text, base |-> base, op |-> op, seen |-> "none", was |-> NoRow]

HostedInit ==
    /\ receipt = [n \in Notes |-> "none"] /\ row = [n \in Notes |-> NoRow]
    /\ applied = {} /\ revoked = {}
    /\ requests = [s \in Slots |-> Free]

-----------------------------------------------------------------------------
HasKey(r) == r \in {"live", "deleted"}
\* A receipt leads to a row only by its historyKey.
Saved(r, w) == HasKey(r) /\ w # NoRow

Answer(s, status, note) ==
    requests' = [requests EXCEPT ![s] = IF s \in Unheard THEN Free ELSE
                    [stage |-> "answered", kind |-> @.kind, note |-> @.note,
                     who |-> @.who, status |-> status, reply |-> note]]
Refuse(s, status) == Answer(s, status, NoRow)
Tables == <<receipt, row, applied, revoked>>

\* The writes run only while the login that sent them is still connected.
DeviceChecks(q) == q.who \notin revoked

\* What the first reads of a request decide: an error status, the stored note, or to go on.
Verdict(q, r, w) ==
    LET gone == ~ (Saved(r, w) /\ r = "live") IN
    IF q.who \in revoked THEN 403
    ELSE IF q.kind = "delete" THEN 0
    ELSE IF q.kind = "post" THEN
        IF q.text \in Oversize THEN 400
        ELSE IF r = "none" THEN 0
        ELSE IF gone THEN 410
        ELSE IF w.rev # 1 \/ w.text # q.text THEN 409 ELSE 200
    ELSE IF r = "none" THEN 404
    ELSE IF gone THEN 410
    ELSE IF q.kind = "get" THEN 200 ELSE 0

\* The first reads: the device, the receipt and the row it names.
Read(s) ==
    LET q == requests[s]
        w == row[q.note]
        verdict == Verdict(q, receipt[q.note], w)
    IN
    /\ q.stage = "sent" /\ q.kind # "list"
    /\ \/ verdict = 0 /\ requests' = [requests EXCEPT ![s] = [@ EXCEPT !.stage = "read", !.seen = receipt[q.note], !.was = w]]
       \/ verdict = 200 /\ Answer(s, 200, w)
       \/ verdict \notin {0, 200} /\ Refuse(s, verdict)
    /\ UNCHANGED Tables

\* GET /history.
List(s) ==
    LET q == requests[s] IN
    /\ q.stage = "sent" /\ q.kind = "list"
    /\ IF q.who \in revoked THEN Refuse(s, 403) ELSE Answer(s, 200, row)
    /\ UNCHANGED Tables

\* PUT: an operation applied before is answered as it was, if nothing came after it.
Look(s) ==
    LET q == requests[s]
        done == {a \in applied : a.note = q.note /\ a.op = q.op}
    IN
    /\ q.stage = "read" /\ q.kind = "put"
    /\ IF done # {}
       THEN IF \E a \in done : a.rev = q.was.rev /\ a.text = q.text /\ a.base = q.base
            THEN Answer(s, 200, q.was) ELSE Refuse(s, 409)
       ELSE IF q.base # q.was.rev THEN Refuse(s, 409)
       ELSE IF q.text \in Oversize THEN Refuse(s, 400)
       ELSE requests' = [requests EXCEPT ![s].stage = "looked"]
    /\ UNCHANGED Tables

\* Mutated: the transaction does not ask whether the device is still connected.
CommitPostUnchecked(s) ==
    LET q == requests[s] IN
    /\ q.stage = "read" /\ q.kind = "post"
    /\ IF receipt[q.note] = "none"
       THEN /\ receipt' = [receipt EXCEPT ![q.note] = "live"]
            /\ row' = [row EXCEPT ![q.note] = [rev |-> 1, text |-> q.text]]
            /\ Answer(s, 200, row'[q.note])
       ELSE Refuse(s, 409) /\ UNCHANGED <<receipt, row>>
    /\ UNCHANGED <<applied, revoked>>

CommitPost(s) ==
    LET q == requests[s] IN
    /\ q.stage = "read" /\ q.kind = "post"
    /\ IF DeviceChecks(q) /\ receipt[q.note] = "none"
       THEN /\ receipt' = [receipt EXCEPT ![q.note] = "live"]
            /\ row' = [row EXCEPT ![q.note] = [rev |-> 1, text |-> q.text]]
            /\ Answer(s, 200, row'[q.note])
       ELSE Refuse(s, 409) /\ UNCHANGED <<receipt, row>>
    /\ UNCHANGED <<applied, revoked>>

\* Mutated: the row is written without asking for the revision it was read at.
CommitPutBlindly(s) ==
    LET q == requests[s] IN
    /\ q.stage = "looked"
    /\ IF DeviceChecks(q) /\ HasKey(receipt[q.note])
       THEN /\ row' = [row EXCEPT ![q.note] = [rev |-> q.was.rev + 1, text |-> q.text]]
            /\ applied' = applied \cup {[note |-> q.note, op |-> q.op, rev |-> q.was.rev + 1,
                                         text |-> q.text, base |-> q.base]}
            /\ Answer(s, 200, row'[q.note])
       ELSE Refuse(s, 409) /\ UNCHANGED <<row, applied>>
    /\ UNCHANGED <<receipt, revoked>>

CommitPut(s) ==
    LET q == requests[s] IN
    /\ q.stage = "looked"
    /\ IF /\ DeviceChecks(q) /\ HasKey(receipt[q.note]) /\ row[q.note].rev = q.was.rev
          /\ \A a \in applied : a.note # q.note \/ a.op # q.op
       THEN /\ row' = [row EXCEPT ![q.note] = [rev |-> q.was.rev + 1, text |-> q.text]]
            /\ applied' = applied \cup {[note |-> q.note, op |-> q.op, rev |-> q.was.rev + 1,
                                         text |-> q.text, base |-> q.base]}
            /\ Answer(s, 200, row'[q.note])
       ELSE Refuse(s, 409) /\ UNCHANGED <<row, applied>>
    /\ UNCHANGED <<receipt, revoked>>

\* DELETE: a tombstone in any case, and the row that the receipt named when it was read.
CommitDelete(s) ==
    LET q == requests[s] IN
    /\ q.stage = "read" /\ q.kind = "delete"
    /\ IF DeviceChecks(q)
       THEN /\ receipt' = [receipt EXCEPT ![q.note] = IF HasKey(q.seen) THEN "deleted" ELSE "blind"]
            /\ row' = IF HasKey(q.seen) THEN [row EXCEPT ![q.note] = NoRow] ELSE row
            /\ Answer(s, 200, NoRow)
       ELSE Refuse(s, 409) /\ UNCHANGED <<receipt, row>>
    /\ UNCHANGED <<applied, revoked>>

\* DELETE /devices/id: the login of that device is over.
Revoke(who) == revoked' = revoked \cup {who} /\ UNCHANGED <<receipt, row, applied, requests>>

Serves(s) == Read(s) \/ List(s) \/ Look(s) \/ CommitPost(s) \/ CommitPut(s) \/ CommitDelete(s)
=============================================================================
