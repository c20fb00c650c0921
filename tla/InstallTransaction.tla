-------------------------- MODULE InstallTransaction --------------------------
(***************************************************************************)
(* The installer of the native bundle (mluva-install), and the one-time    *)
(* upgrade of an installation under the former name.  Each object that is  *)
(* replaced moves aside into a private directory next to it; a failure or  *)
(* a signal puts everything back, also what another program wrote          *)
(* meanwhile.                                                              *)
(*                                                                         *)
(* Two published paths stand for all of them, the application directory    *)
(* and a launcher; an upgrade also moves the state root with its history,  *)
(* retires a launcher of the former name, and changes desktop preferences  *)
(* and the input service.  What is in a file is its identity: 0 nothing,   *)
(* 1 what was there, i + 1 the i-th new object, Theirs and on those that   *)
(* another program puts there.                                             *)
(* The ownership checks and the snapshot that follows them are one step,   *)
(* and so are the comparison and the rename of a retirement, and the       *)
(* comparison and the removal of a rollback.                               *)
(***************************************************************************)
EXTENDS Naturals, Sequences

CONSTANTS
    Upgrade,    \* an installation under the former name exists
    MaxForeign, \* bound: objects another program puts in place of one
    MaxFaults,  \* bound: steps that fail
    Kill        \* the installer may be killed

VARIABLES
    pc,       \* the step of the plan
    half,     \* how far a publication is: "no", "same", "aside", "checked"
    stage,    \* "working", "failing", "committed", "failed", "killed"
    at,       \* what is at each public path
    root,     \* under which name the state is: "old" or "new"
    parent,   \* the directory of the application: "none", "loose", "tight" (mode 0700)
    expected, \* the snapshot of each path
    changes,  \* the journal of moved and published objects
    made,     \* what the transaction did to the directory: "no", "made", "moded"
    stood,    \* the state root as it was moved: <<>> or what was in it
    settings, \* the desktop preferences: "old", "new"
    service,  \* the input service: its unit, and the unit that is enabled and active
    saved,    \* what the migration noted of the service
    complete, \* the marker in the backup
    signal,   \* a signal asked the installer to stop
    found,    \* what was there before
    placed,   \* <<path, object>>: what another program put there, and no snapshot took for the original
    lost,     \* where that replaced the original
    spent

vars == <<pc, half, stage, at, root, parent, expected, changes, made, stood, settings, service, saved,
          complete, signal, found, placed, lost, spent>>

ConstantsAssumption == Upgrade \in BOOLEAN /\ MaxForeign \in Nat /\ MaxFaults \in Nat

Theirs == 9
Original == 1
Objects == 0..(Theirs + MaxForeign)
Paths == {"app", "link", "history", "oldlink"}
InRoot == {"app", "history"}
Unit == {"none", "old", "new"}

Do(what, path) == [do |-> what, on |-> path]
Step(what) == Do(what, "app")

\* replace and link of the migration: each reads its snapshot, prepares and publishes.
Replace(path) == <<Do("expect", path), Do("prepare", path), Do("publish", path)>>

\* prepare_payload: everything is staged and tried before the first path is published.
Payload ==
    <<Do("expect", "app"), Do("expect", "link"), Step("directory"), Do("prepare", "app"), Step("run"),
      Do("prepare", "link"), Step("running"), Do("publish", "app"), Do("publish", "link"), Step("run")>>

Migration == <<Step("relocate")>> \o Replace("history") \o <<Do("retire", "oldlink")>> \o Replace("link")

Integration ==
    <<Step("apply"), Step("probe"), Step("disable"), Step("move"), Step("reload"), Step("enable"),
      Step("start"), Step("checkpoint"), Step("mark"), Step("commit")>>

\* install and upgrade: the announcement is part of an upgrade, and follows an installation.
Plan == IF Upgrade THEN Migration \o Payload \o <<Step("checkpoint")>> \o Integration
                   ELSE Payload \o <<Step("commit")>>

Op == Plan[pc]
Working(op) == stage = "working" /\ Op.do = op
Advance == pc' = pc + 1 /\ half' = "no" /\ stage' = stage
Fails == stage' = "failing" /\ UNCHANGED <<pc, half>>

fileVars == <<at, root, parent, expected, changes, made, stood>>
deskVars == <<settings, service, saved, complete>>
restVars == <<signal, found, placed, lost, spent>>
Adopts(p) == placed' = placed \ {<<p, at[p]>>} /\ UNCHANGED <<signal, found, lost, spent>>

Init ==
    /\ pc = 1 /\ half = "no" /\ stage = "working"
    /\ at \in [Paths -> {0, Original}]
    /\ at["link"] = at["app"]
    /\ Upgrade => at["app"] = Original
    /\ at["history"] = IF Upgrade THEN Original ELSE 0
    /\ ~ Upgrade => at["oldlink"] = 0
    /\ root = IF Upgrade THEN "old" ELSE "new"
    /\ parent = IF at["app"] = 0 THEN "none" ELSE "loose"
    /\ expected = [p \in Paths |-> 0] /\ changes = <<>> /\ made = "no" /\ stood = <<>>
    /\ settings = "old"
    /\ service \in [unit : {"none", "old"}, enabled : {"none", "old"}, active : {"none", "old"}]
    /\ service.enabled # "none" => service.unit = "old"
    /\ service.active # "none" => service.enabled = "old"
    /\ ~ Upgrade => service.unit = "none"
    /\ saved = [touched |-> FALSE, enabled |-> FALSE, active |-> FALSE]
    /\ complete = FALSE /\ signal = FALSE /\ placed = {} /\ lost = {}
    /\ found = [at |-> at, root |-> root, parent |-> parent, service |-> service]
    /\ spent = [foreign |-> 0, faults |-> 0]

-----------------------------------------------------------------------------

\* Transaction::relocate: the whole state root takes its new name.
Relocate ==
    /\ Working("relocate") /\ ~ signal /\ Advance
    /\ root' = "new" /\ stood' = <<at["app"], at["history"]>>
    /\ UNCHANGED <<at, parent, expected, changes, made, deskVars, restVars>>

\* Snapshot::read, after the checks of ownership.
Expect ==
    /\ Working("expect") /\ Advance
    /\ expected' = [expected EXCEPT ![Op.on] = at[Op.on]] /\ Adopts(Op.on)
    /\ UNCHANGED <<at, root, parent, changes, made, stood, deskVars>>

\* Transaction::directory: a missing parent is created, a loose one tightened, and either is noted.
Directory ==
    /\ Working("directory") /\ Advance
    /\ parent' = "tight"
    /\ made' = IF parent = "none" THEN "made" ELSE IF parent = "loose" THEN "moded" ELSE made
    /\ UNCHANGED <<at, root, expected, changes, stood, deskVars, restVars>>

\* Transaction::prepare, with what is written into the private directory.
Prepared(path) ==
    changes' = Append(changes, [on |-> path, new |-> Len(changes) + 2, prev |-> 0, moved |-> FALSE,
                                public |-> FALSE, temp |-> TRUE])
Prepare ==
    /\ Working("prepare") /\ Advance /\ Prepared(Op.on)
    /\ UNCHANGED <<at, root, parent, expected, made, stood, deskVars, restVars>>

\* The newest change of a path; publish looks for it from the end of the journal.
Newest(path) == CHOOSE i \in DOMAIN changes :
    changes[i].on = path /\ \A j \in DOMAIN changes : changes[j].on = path => j <= i

\* Transaction::publish compares what is at the path with its snapshot.
Looks ==
    LET p == Op.on IN
    /\ Working("publish") /\ half = "no" /\ ~ signal
    /\ \/ at[p] # expected[p] /\ Fails
       \/ /\ at[p] = expected[p] /\ UNCHANGED <<pc, stage>>
          /\ half' = IF expected[p] = 0 THEN "checked" ELSE "same"
    /\ UNCHANGED <<fileVars, deskVars, restVars>>

\* Its first rename: what is at the path by now moves aside.
MovesAside ==
    LET p == Op.on  i == Newest(p) IN
    /\ Working("publish") /\ half = "same"
    /\ half' = "aside" /\ UNCHANGED <<pc, stage>>
    /\ at' = [at EXCEPT ![p] = 0]
    /\ changes' = [changes EXCEPT ![i].prev = at[p], ![i].moved = TRUE]
    /\ UNCHANGED <<root, parent, expected, made, stood, deskVars, restVars>>

\* The object that was moved aside is compared once more.
Compares ==
    LET i == Newest(Op.on) IN
    /\ Working("publish") /\ half = "aside"
    /\ IF changes[i].prev = expected[Op.on] THEN half' = "checked" /\ UNCHANGED <<pc, stage>> ELSE Fails
    /\ UNCHANGED <<fileVars, deskVars, restVars>>

\* The new object takes the path, unless another program put one there.
MovesIn ==
    LET p == Op.on  i == Newest(p) IN
    /\ Working("publish") /\ half = "checked"
    /\ \/ /\ at[p] # 0 /\ Fails /\ UNCHANGED <<at, changes>>
       \/ /\ at[p] = 0 /\ Advance
          /\ at' = [at EXCEPT ![p] = changes[i].new]
          /\ changes' = [changes EXCEPT ![i].public = TRUE]
    /\ UNCHANGED <<root, parent, expected, made, stood, deskVars, restVars>>

\* Transaction::retire: snapshot, private directory and rename at once.
Retire ==
    LET p == Op.on IN
    /\ Working("retire") /\ ~ signal /\ Advance
    /\ expected' = [expected EXCEPT ![p] = at[p]] /\ Adopts(p)
    /\ \/ at[p] = 0 /\ UNCHANGED <<at, changes>>
       \/ /\ at[p] # 0
          /\ at' = [at EXCEPT ![p] = 0]
          /\ changes' = Append(changes, [on |-> p, new |-> Len(changes) + 2, prev |-> at[p], moved |-> TRUE,
                                         public |-> FALSE, temp |-> TRUE])
    /\ UNCHANGED <<root, parent, made, stood, deskVars>>

\* `mluva --help` of the staged bundle, update-desktop-database, the check for a running Mluva, checkpoint.
Runs ==
    /\ stage = "working" /\ Op.do \in {"run", "running", "checkpoint"} /\ ~ signal /\ Advance
    /\ UNCHANGED <<fileVars, deskVars, restVars>>

\* Desktop::apply.
Apply ==
    /\ Working("apply") /\ ~ signal /\ Advance
    /\ settings' = "new"
    /\ UNCHANGED <<fileVars, service, saved, complete, restVars>>

\* Desktop::migrate_service: what the command of a step does to the service.
Effect(op) ==
    CASE op = "disable" -> [service EXCEPT !.enabled = "none", !.active = "none"]
      [] op = "move" -> [service EXCEPT !.unit = "new"]
      [] op = "enable" /\ saved.enabled -> [service EXCEPT !.enabled = "new"]
      [] op = "start" /\ saved.active -> [service EXCEPT !.active = "new"]
      [] OTHER -> service

Commands == {"disable", "move", "reload", "enable", "start"}

Probe ==
    /\ Working("probe") /\ ~ signal /\ Advance
    /\ saved' = IF service.unit = "none" THEN saved
                ELSE [touched |-> TRUE, enabled |-> service.enabled = "old", active |-> service.active = "old"]
    /\ UNCHANGED <<fileVars, settings, service, complete, restVars>>

\* A signal that meets a command kills it, before or after it did its work.
Serve ==
    /\ stage = "working" /\ Op.do \in Commands
    /\ \/ ~ signal /\ Advance
       \/ Fails /\ signal
    /\ service' \in IF saved.touched THEN {Effect(Op.do)} \cup (IF signal THEN {service} ELSE {}) ELSE {service}
    /\ UNCHANGED <<fileVars, settings, saved, complete, restVars>>

\* The marker "complete" of the backup.
Mark ==
    /\ Working("mark") /\ Advance
    /\ complete' = TRUE
    /\ UNCHANGED <<fileVars, settings, service, saved, restVars>>

\* Transaction::commit: from here on nothing is put back; the private directories go.
Commit ==
    /\ Working("commit") /\ ~ signal
    /\ stage' = "committed" /\ UNCHANGED <<pc, half>>
    /\ changes' = [i \in DOMAIN changes |-> [changes[i] EXCEPT !.temp = FALSE]]
    /\ UNCHANGED <<at, root, parent, expected, made, stood, deskVars, restVars>>

\* A checkpoint finds the signal.
Stopped ==
    /\ stage = "working" /\ signal /\ half = "no" /\ Fails
    /\ Op.do \in {"relocate", "retire", "publish", "run", "running", "checkpoint", "apply", "probe", "commit"}
    /\ UNCHANGED <<fileVars, deskVars, restVars>>

\* A step fails: a full disk, a failing command, Mluva started meanwhile.
Faulty ==
    /\ stage = "working" /\ spent.faults < MaxFaults /\ Op.do \notin {"expect", "commit", "checkpoint"} /\ Fails
    /\ spent' = [spent EXCEPT !.faults = @ + 1]
    /\ UNCHANGED <<fileVars, deskVars, signal, found, placed, lost>>

-----------------------------------------------------------------------------
\* After a failure.  Signals are ignored from here on (Rollback::begin).

\* The rollback of an upgrade: the marker goes and the service comes back.
Restored == [unit |-> "old", enabled |-> IF saved.enabled THEN "old" ELSE "none",
             active |-> IF saved.active THEN "old" ELSE "none"]
RestoreService ==
    /\ stage = "failing" /\ (complete \/ saved.touched)
    /\ complete' = FALSE
    /\ service' = IF saved.touched THEN Restored ELSE service
    /\ saved' = [saved EXCEPT !.touched = FALSE]
    /\ UNCHANGED <<pc, half, stage, fileVars, settings, restVars>>

\* Drop for Transaction, one change at a time and from the last to the first: a published object is
\* removed unless it changed, and what was aside returns unless something is in its place.
Undo == {i \in DOMAIN changes : changes[i].temp}
Latest(S) == CHOOSE i \in S : \A j \in S : j <= i
OwnAnyway(i) == TRUE
Own(i) == changes[i].public => at[changes[i].on] = changes[i].new
Free(i) == changes[i].public \/ at[changes[i].on] = 0
RestoreChange ==
    /\ stage = "failing" /\ ~ complete /\ ~ saved.touched
    /\ Undo # {}
    /\ LET i == Latest(Undo)  c == changes[i] IN
       \/ /\ Own(i) /\ (c.moved => Free(i))
          /\ at' = [at EXCEPT ![c.on] = IF c.moved THEN c.prev ELSE IF c.public THEN 0 ELSE @]
          /\ changes' = [changes EXCEPT ![i].temp = FALSE, ![i].moved = FALSE]
       \/ /\ ~ Own(i) \/ (c.moved /\ ~ Free(i))
          /\ changes' = [changes EXCEPT ![i].temp = FALSE] \* kept: "Recovery files remain"
          /\ at' = at
    /\ UNCHANGED <<pc, half, stage, root, parent, expected, made, stood, deskVars, restVars>>

\* A private directory that stayed because its change could not be undone.
Kept(i) == ~ changes[i].temp /\ changes[i].moved

\* Then the directories, the state root if all in it is as it was, and the preferences.
DirectoryBack ==
    IF made = "moded" THEN "loose"
    ELSE IF made = "made" /\ at["app"] = 0 /\ ~ (\E i \in DOMAIN changes : changes[i].on = "app" /\ Kept(i))
    THEN "none" ELSE parent
RootAsMoved ==
    /\ stood = <<at["app"], at["history"]>>
    /\ \A i \in DOMAIN changes : Kept(i) => changes[i].on \notin InRoot
RestoreRest ==
    /\ stage = "failing" /\ ~ complete /\ ~ saved.touched /\ Undo = {}
    /\ stage' = "failed" /\ UNCHANGED <<pc, half>>
    /\ parent' = DirectoryBack /\ made' = "no"
    /\ root' = IF stood # <<>> /\ RootAsMoved THEN "old" ELSE root
    /\ settings' = "old"
    /\ UNCHANGED <<at, expected, changes, stood, service, saved, complete, restVars>>

-----------------------------------------------------------------------------

Signal ==
    /\ stage = "working" /\ ~ signal /\ signal' = TRUE
    /\ UNCHANGED <<pc, half, stage, fileVars, deskVars, found, placed, lost, spent>>

\* Another program, or the person, puts an object of their own at a path.
Foreign(p) ==
    /\ stage \in {"working", "failing"} /\ spent.foreign < MaxForeign
    /\ at' = [at EXCEPT ![p] = Theirs + spent.foreign]
    /\ placed' = (placed \ {<<p, at[p]>>}) \cup {<<p, Theirs + spent.foreign>>}
    /\ lost' = IF at[p] = Original THEN lost \cup {p} ELSE lost
    /\ spent' = [spent EXCEPT !.foreign = @ + 1]
    /\ UNCHANGED <<pc, half, stage, root, parent, expected, changes, made, stood, deskVars, signal, found>>

Killed ==
    /\ Kill /\ stage \in {"working", "failing"} /\ stage' = "killed"
    /\ UNCHANGED <<pc, half, fileVars, deskVars, restVars>>

Works ==
    \/ Relocate \/ Expect \/ Directory \/ Prepare \/ Looks \/ MovesAside \/ Compares \/ MovesIn \/ Retire \/ Runs
    \/ Apply \/ Probe \/ Serve \/ Mark \/ Commit
Rolls == RestoreService \/ RestoreChange \/ RestoreRest
Next ==
    \/ Works \/ Stopped \/ Faulty \/ Rolls \/ Signal \/ Killed
    \/ \E p \in IF Upgrade THEN Paths ELSE {"app", "link"} : Foreign(p)

Spec == Init /\ [][Next]_vars
FairSpec == Spec /\ WF_vars(Works \/ Stopped) /\ WF_vars(Rolls)

-----------------------------------------------------------------------------

TypeOK ==
    /\ pc \in 1..Len(Plan) /\ half \in {"no", "same", "aside", "checked"}
    /\ stage \in {"working", "failing", "committed", "failed", "killed"}
    /\ at \in [Paths -> Objects] /\ expected \in [Paths -> Objects]
    /\ root \in {"old", "new"} /\ parent \in {"none", "loose", "tight"} /\ made \in {"no", "made", "moded"}
    /\ changes \in Seq([on : Paths, new : 2..8, prev : Objects, moved : BOOLEAN, public : BOOLEAN, temp : BOOLEAN])
    /\ stood \in Seq(Objects) /\ settings \in {"old", "new"}
    /\ service \in [unit : Unit, enabled : Unit, active : Unit]
    /\ saved \in [touched : BOOLEAN, enabled : BOOLEAN, active : BOOLEAN]
    /\ complete \in BOOLEAN /\ signal \in BOOLEAN /\ lost \subseteq Paths /\ placed \subseteq Paths \X Objects
    /\ spent \in [foreign : 0..MaxForeign, faults : 0..MaxFaults]

\* An object is at its path, or aside in a private directory.
Somewhere(object, p) ==
    \/ at[p] = object
    \/ \E i \in DOMAIN changes : changes[i].on = p /\ changes[i].moved /\ changes[i].prev = object
                                 /\ (changes[i].temp \/ stage \in {"failing", "failed", "killed"})

\* "preserves the previous app until its installation succeeds" (docs/product-contract.md): up to the
\* commit, and wherever the installer is killed, what was there is at its path or aside.
PreviousStays ==
    stage # "committed" => \A p \in Paths \ lost : found.at[p] = Original => Somewhere(Original, p)

\* "without deleting a concurrent owner's work" (install_transaction.rs): an object another program puts
\* at a path after its snapshot was read stays at the path or aside.
TheirsStays == \A x \in placed : Somewhere(x[2], x[1])

\* "A dependency, package, state, or integration failure restores the backed-up installation"
\* (docs/identity-migration.md): undisturbed, a failure leaves everything as it was.
FailureRestores ==
    stage = "failed" /\ spent.foreign = 0 =>
        /\ at = found.at /\ root = found.root /\ parent = found.parent /\ service = found.service
        /\ settings = "old" /\ ~ complete

\* What was installed is whole: every path is the newest object or another program's, and nothing is
\* left of the former name.
CommitIsWhole ==
    stage = "committed" =>
        /\ \A p \in {"app", "link"} : at[p] = changes[Newest(p)].new \/ at[p] >= Theirs
        /\ root = "new" /\ (at["oldlink"] = 0 \/ at["oldlink"] >= Theirs) /\ (Upgrade => settings = "new" /\ complete)
        /\ service = [u \in {"unit", "enabled", "active"} |->
                        IF found.service[u] = "old" THEN "new" ELSE found.service[u]]
=============================================================================
