---------------------------- MODULE WidgetInstall ----------------------------
(***************************************************************************)
(* The setup of the Omarchy widget (mluva-install/src/widget.rs): an       *)
(* earlier widget moves into a backup directory, the staged one takes its  *)
(* place, and Omarchy has to discover and enable it; a failure removes     *)
(* what was put there and moves the earlier one back.                      *)
(*                                                                         *)
(* The earlier widget may have another directory name than the new one.    *)
(* Another program may put its directory where the new widget goes, or in  *)
(* its place; the earlier one it leaves alone.  A failing rescan after a   *)
(* rollback is ignored.                                                    *)
(***************************************************************************)
EXTENDS Naturals

CONSTANTS MaxForeign, MaxFaults, Kill

VARIABLES
    phase,    \* "checking", "staged", "aside", "promoted", "discovered", "failing",
              \* "undoing", "installed", "failed", "killed"
    plugins,  \* what is in each plugin directory: "none", "old", "ours", "theirs", "edited"
    backup,   \* what is in the backup directory: "none", "old"
    shown,    \* the widget Omarchy lists as enabled: "none", "old", "ours"
    before,   \* what was there at first
    uses

vars == <<phase, plugins, backup, shown, before, uses>>

\* The identity of the widget, and the name of a legacy checkout.
Names == {"id", "legacy"}

Init ==
    /\ phase = "checking" /\ backup = "none"
    /\ plugins \in [Names -> {"none", "old", "edited"}] /\ before = plugins
    /\ shown = IF "old" \in {plugins[n] : n \in Names} THEN "old" ELSE "none"
    /\ uses = [foreign |-> 0, faults |-> 0]

Widgets == {n \in Names : plugins[n] # "none"}

\* existing_plugin and check_existing: two widgets, or one with local changes, are left alone.
Unmanaged == {n \in Names : plugins[n] = "edited"}
Checks ==
    /\ phase = "checking"
    /\ phase' = IF (\A n, m \in Widgets : n = m) /\ Unmanaged = {} THEN "staged" ELSE "failed"
    /\ UNCHANGED <<plugins, backup, shown, before, uses>>

\* The earlier widget moves into its backup directory, which stays.
Aside ==
    /\ phase = "staged"
    /\ \/ /\ \A n \in Names : before[n] = "none"
          /\ UNCHANGED <<plugins, backup>>
       \/ \E n \in Names :
            /\ before[n] = "old"
            /\ backup' = plugins[n] /\ plugins' = [plugins EXCEPT ![n] = "none"]
    /\ phase' = "aside"
    /\ UNCHANGED <<shown, before, uses>>

\* The staged directory is renamed; a directory with content in its place refuses the rename.
Promote ==
    /\ phase = "aside"
    /\ IF plugins["id"] = "none"
       THEN plugins' = [plugins EXCEPT !["id"] = "ours"] /\ phase' = "promoted"
       ELSE plugins' = plugins /\ phase' = "failing"
    /\ UNCHANGED <<backup, shown, before, uses>>

\* rescanPlugins, and up to forty readings of the plugin list.
Discover ==
    /\ phase = "promoted" /\ phase' = "discovered"
    /\ shown' = IF plugins["id"] = "ours" THEN "ours" ELSE shown
    /\ UNCHANGED <<plugins, backup, before, uses>>

Enable ==
    /\ phase = "discovered" /\ phase' = "installed"
    /\ UNCHANGED <<plugins, backup, shown, before, uses>>

\* A step after the checks fails.
Faulty ==
    /\ phase \in {"staged", "aside", "promoted", "discovered"} /\ uses.faults < MaxFaults
    /\ phase' = IF phase = "staged" THEN "failed" ELSE IF phase = "aside" THEN "failing" ELSE "undoing"
    /\ uses' = [uses EXCEPT !.faults = @ + 1]
    /\ UNCHANGED <<plugins, backup, shown, before>>

\* The rollback removes only the directory it put there, by identity, and only then moves the backup
\* back; rescan shows Omarchy what is there.
OursThere == plugins["id"] = "ours"
Earlier == CHOOSE n \in Names : before[n] = "old"
Returned(now) ==
    IF backup # "none" /\ now[Earlier] = "none" THEN [now EXCEPT ![Earlier] = backup] ELSE now
Undo ==
    /\ phase \in {"failing", "undoing"} /\ phase' = "failed"
    /\ LET removed == IF phase = "failing" THEN plugins
                      ELSE IF OursThere THEN [plugins EXCEPT !["id"] = "none"] ELSE plugins
           stopped == phase = "undoing" /\ ~ OursThere
       IN  /\ plugins' = IF stopped THEN plugins ELSE Returned(removed)
           /\ backup' = IF ~ stopped /\ Returned(removed) # removed THEN "none" ELSE backup
           /\ shown' = IF \E n \in Names : plugins'[n] = "old" THEN "old" ELSE "none"
    /\ UNCHANGED <<before, uses>>

Foreign ==
    /\ phase \in {"staged", "aside", "promoted", "discovered", "failing", "undoing"} /\ uses.foreign < MaxForeign
    /\ plugins["id"] \in {"none", "ours"}
    /\ plugins' = [plugins EXCEPT !["id"] = "theirs"]
    /\ uses' = [uses EXCEPT !.foreign = @ + 1]
    /\ UNCHANGED <<phase, backup, shown, before>>

Killed ==
    /\ Kill /\ phase \notin {"installed", "failed", "killed"} /\ phase' = "killed"
    /\ UNCHANGED <<plugins, backup, shown, before, uses>>

Next == Checks \/ Aside \/ Promote \/ Discover \/ Enable \/ Faulty \/ Undo \/ Foreign \/ Killed
Spec == Init /\ [][Next]_vars

-----------------------------------------------------------------------------

TypeOK ==
    /\ phase \in {"checking", "staged", "aside", "promoted", "discovered", "failing", "undoing",
                  "installed", "failed", "killed"}
    /\ plugins \in [Names -> {"none", "old", "ours", "theirs", "edited"}]
    /\ backup \in {"none", "old"} /\ shown \in {"none", "old", "ours"}

\* "Previous widget preserved" and "Backups survive outside discovery" (widget.rs): an earlier widget is
\* in its directory or its backup, another program's directory stays, and local edits are not touched.
WidgetsStand ==
    /\ \A n \in Names : before[n] = "old" => "old" \in {plugins[n], backup}
    /\ uses.foreign > 0 => plugins["id"] = "theirs"
    /\ \A n \in Names : before[n] = "edited" => plugins[n] = "edited"
    \* Undisturbed, a failure leaves the widget that was there, and Omarchy shows it.
    /\ phase = "failed" /\ uses.foreign = 0 =>
        plugins = before /\ (shown = "old" <=> "old" \in {before[n] : n \in Names})
=============================================================================
