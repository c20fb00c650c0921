------------------------------ MODULE Shortcuts ------------------------------
(***************************************************************************)
(* The global shortcuts (mluva-gtk/src/global_shortcuts*, application/     *)
(* shortcuts.rs): a service owns one portal session with one recording     *)
(* key.  Replacements queue up behind a lock, an approval may take as long *)
(* as the person does, a closed service still has to end what it started,  *)
(* and on Hyprland the keys are bound in the compositor as well.           *)
(*                                                                         *)
(* Left out: a portal that answers with another request handle (the early  *)
(* responses), the presses themselves, and the status texts.               *)
(***************************************************************************)
EXTENDS Naturals, Sequences, FiniteSets

CONSTANTS
    Keys,        \* the recording keys of the settings
    Managed,     \* a managed Hyprland file exists
    MaxServices, \* bound: services that are started
    MaxChanges,  \* bound: changes of the recording key
    MaxFaults    \* bound: refused approvals, failing commands, sessions the desktop closes

NoKey == "none"
Services == 1..MaxServices

VARIABLES
    wanted,   \* the recording key of the settings
    service,  \* the services: [gen, key, bound, closing, queue, step, session, portal]
    current,  \* the service of the application, or 0
    gen,      \* shortcut_generation
    restarts, \* restarts under way: the service each waits for, or 0
    shown,    \* approved_recording
    keys,     \* the recording key bound in the compositor
    overlap,  \* a restart began while another was under way
    budget

vars == <<wanted, service, current, gen, restarts, shown, keys, overlap, budget>>

\* A service no start has made.  `step` is the step of the task at the head of the queue, `session` the
\* key of its portal session, `portal` what the desktop holds open for it.
Unmade == [gen |-> 0, key |-> NoKey, bound |-> NoKey, closing |-> FALSE, queue |-> <<>>, step |-> "idle",
           session |-> NoKey, cancelled |-> FALSE, portal |-> {}, down |-> "no"]
Made(s) == service[s] # Unmade

Started(g) == [Unmade EXCEPT !.gen = g, !.key = wanted, !.queue = <<wanted>>]

Init ==
    /\ wanted \in Keys
    /\ service = [s \in Services |-> IF s = 1 THEN Started(1) ELSE Unmade]
    /\ current = 1 /\ gen = 1 /\ restarts = {} /\ shown = NoKey /\ keys = NoKey /\ overlap = FALSE
    /\ budget = [changes |-> 0, faults |-> 0, restarts |-> 0]

Fresh == CHOOSE s \in Services : ~ Made(s) /\ \A t \in Services : ~ Made(t) => s <= t
Set(s, r) == service' = [service EXCEPT ![s] = r]
\* A callback counts for the application while its generation does.
Heard(s, value) == shown' = IF service[s].gen = gen THEN value ELSE shown
Spend(what) == budget' = [budget EXCEPT ![what] = @ + 1]
appVars == <<current, gen, restarts, overlap>>

-----------------------------------------------------------------------------
\* The application.

\* rebind_shortcut and set_recording_key: the status is empty until the new key is reported.
Rebind(k) ==
    /\ k # wanted /\ budget.changes < MaxChanges /\ Spend("changes")
    /\ wanted' = k /\ shown' = NoKey
    /\ IF current = 0 \/ service[current].closing THEN UNCHANGED service
       ELSE Set(current, [service[current] EXCEPT !.key = k, !.queue = Append(@, k)])
    /\ UNCHANGED <<appVars, keys>>

\* shutdown, as far as it runs at once: callbacks and approvals are cancelled.
Closing(s) == [service[s] EXCEPT !.closing = TRUE, !.cancelled = @ \/ service[s].session # NoKey,
                                 !.down = IF service[s].session # NoKey THEN "closing" ELSE "waiting"]

\* restart_shortcuts and close_shortcuts: the old service is shut down, then a new one starts.
\* The settings of agent shortcuts changed, or, with those enabled, the recording key.
Restart(k) ==
    /\ budget.restarts + 1 < MaxServices /\ Spend("restarts")
    /\ wanted' = k
    /\ gen' = gen + 1 /\ shown' = NoKey /\ current' = 0
    /\ overlap' = (overlap \/ restarts # {})
    /\ restarts' = restarts \cup {current}
    /\ IF current = 0 THEN UNCHANGED service ELSE Set(current, Closing(current))
    /\ UNCHANGED keys

\* start_shortcuts: the service it makes takes the place of any other.
Start(waited) ==
    /\ waited \in restarts /\ (waited # 0 => service[waited].down = "down")
    /\ restarts' = restarts \ {waited}
    /\ service' = [service EXCEPT ![Fresh] = Started(gen)] /\ current' = Fresh
    /\ UNCHANGED <<wanted, gen, shown, keys, overlap, budget>>

-----------------------------------------------------------------------------
\* GlobalShortcutService: the task at the head of the queue holds the lock.

HeadKey(s) == Head(service[s].queue)
At(s, step) == Made(s) /\ service[s].queue # <<>> /\ service[s].step = step
Pop(r) == [r EXCEPT !.queue = Tail(@), !.step = "idle"]

\* replace_session up to the close of the previous session.
Stale(s) == service[s].closing \/ service[s].key # HeadKey(s) \/ service[s].bound = HeadKey(s)
Replace(s) ==
    /\ At(s, "idle")
    /\ Set(s, IF Stale(s) THEN Pop(service[s])
              ELSE [service[s] EXCEPT !.step = "replacing", !.session = NoKey])
    /\ UNCHANGED <<wanted, appVars, shown, keys, budget>>

\* The previous session is closed and no longer bound; a new one connects unless the service closes.
Unbound(s) == NoKey
Connect(s) ==
    /\ At(s, "replacing")
    /\ LET free == [service[s] EXCEPT !.bound = Unbound(s), !.portal = {}, !.cancelled = FALSE] IN
       Set(s, IF service[s].closing THEN Pop(free)
              ELSE [free EXCEPT !.step = "creating", !.session = HeadKey(s), !.portal = {"request"}])
    /\ UNCHANGED <<wanted, appVars, shown, keys, budget>>

\* PortalSession::connect: the session exists, then its shortcuts wait for an approval.
Created(s) ==
    /\ At(s, "creating") /\ ~ service[s].cancelled
    /\ Set(s, [service[s] EXCEPT !.step = "approving", !.portal = {"session", "request"}])
    /\ UNCHANGED <<wanted, appVars, shown, keys, budget>>

Approved(s) ==
    /\ At(s, "approving") /\ ~ service[s].cancelled
    /\ Set(s, [service[s] EXCEPT !.step = "applying", !.portal = @ \ {"request"}])
    /\ UNCHANGED <<wanted, appVars, shown, keys, budget>>

\* A refused approval, a failing call, or the cancellation: the request is kept for the close.
Refused(s) ==
    /\ service[s].step \in {"creating", "approving"}
    /\ \/ service[s].cancelled /\ UNCHANGED budget
       \/ ~ service[s].cancelled /\ budget.faults < MaxFaults /\ Spend("faults")
    /\ Set(s, [service[s] EXCEPT !.step = "failing", !.cancelled = TRUE])
    /\ UNCHANGED <<wanted, appVars, shown, keys>>

\* hyprland::apply checks for keys of others, binds its own and reads them back; nothing cancels it.
Applied(s) ==
    /\ At(s, "applying")
    /\ \/ keys' = (IF Managed THEN HeadKey(s) ELSE keys) /\ UNCHANGED budget
       \/ Managed /\ budget.faults < MaxFaults /\ Spend("faults") /\ UNCHANGED keys
    /\ Set(s, Pop([service[s] EXCEPT !.bound = HeadKey(s)]))
    /\ IF ~ service[s].closing /\ service[s].key = HeadKey(s) /\ wanted = HeadKey(s)
       THEN Heard(s, HeadKey(s)) ELSE UNCHANGED shown
    /\ UNCHANGED <<wanted, appVars>>

\* The failed session is closed, and the key it asked for is reported unbound.
Dropped(s) ==
    /\ At(s, "failing")
    /\ Set(s, Pop([service[s] EXCEPT !.portal = {}, !.session = NoKey]))
    /\ IF ~ service[s].closing /\ service[s].key = HeadKey(s) /\ wanted = HeadKey(s)
       THEN Heard(s, NoKey) ELSE UNCHANGED shown
    /\ UNCHANGED <<wanted, appVars, keys, budget>>

\* The rest of shutdown: the session is closed, then every queued task has returned.
SessionClosed(s) ==
    /\ service[s].down = "closing"
    /\ Set(s, [service[s] EXCEPT !.down = "waiting", !.portal = {}])
    /\ UNCHANGED <<wanted, appVars, shown, keys, budget>>

Down(s) ==
    /\ service[s].down = "waiting" /\ service[s].queue = <<>>
    /\ Set(s, [service[s] EXCEPT !.down = "down", !.session = NoKey, !.bound = NoKey])
    /\ UNCHANGED <<wanted, appVars, shown, keys, budget>>

\* The desktop closes the session: the status says so, and the key still counts as bound.
Expired(s) ==
    /\ Made(s) /\ "session" \in service[s].portal /\ budget.faults < MaxFaults /\ Spend("faults")
    /\ Set(s, [service[s] EXCEPT !.portal = @ \ {"session"}])
    /\ UNCHANGED <<wanted, appVars, shown, keys>>

Next ==
    \/ \E k \in Keys : Rebind(k) \/ Restart(k)
    \/ \E s \in {0} \cup Services : Start(s)
    \/ \E s \in Services :
        \/ Replace(s) \/ Connect(s) \/ Created(s) \/ Approved(s) \/ Refused(s) \/ Applied(s) \/ Dropped(s)
        \/ SessionClosed(s) \/ Down(s) \/ Expired(s)

Spec == Init /\ [][Next]_vars

-----------------------------------------------------------------------------

TypeOK ==
    /\ wanted \in Keys /\ current \in {0} \cup Services /\ restarts \subseteq {0} \cup Services
    /\ shown \in Keys \cup {NoKey} /\ keys \in Keys \cup {NoKey}
    /\ \A s \in Services :
        /\ service[s].bound \in Keys \cup {NoKey} /\ service[s].session \in Keys \cup {NoKey}
        /\ service[s].queue \in Seq(Keys) /\ service[s].portal \subseteq {"request", "session"}

Idle(s) == service[s].queue = <<>> /\ ~ service[s].closing

\* A service that counts a key as bound has the session of that key, and what it tells is what it has;
\* at rest, and undisturbed, the key of the settings is the one bound, in the portal and the compositor.
KeysAreBound ==
    /\ \A s \in Services : service[s].bound # NoKey /\ service[s].step = "idle" =>
        service[s].session = service[s].bound
    /\ ~ overlap /\ shown # NoKey => current # 0 /\ service[current].bound = shown
    /\ ~ overlap /\ current # 0 /\ Idle(current) /\ budget.faults = 0 =>
        /\ service[current].bound = wanted
        /\ Managed => keys = wanted
        /\ "session" \in service[current].portal

\* "Stop accepting events immediately, close any outstanding approval and compositor session, then wait
\* for all queued replacements" (global_shortcuts.rs): nothing stays open at the portal.
ClosedIsClean ==
    \A s \in Services : service[s].down = "down" => service[s].portal = {} /\ service[s].step = "idle"
=============================================================================
