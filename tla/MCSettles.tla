------------------------------ MODULE MCSettles ------------------------------
(***************************************************************************)
(* What has to come to rest, for TLC: a note between two devices, and what *)
(* an annotated recording puts on the screen and into files.  They share   *)
(* no state; one of them moves in each behaviour (`part`).                 *)
(***************************************************************************)
EXTENDS AccountSync, TLC

CONSTANTS d1, d2, n1, left, right, NoneOf

VARIABLES
    part,
    \* AnnotationBindings
    mluva, turned, portal, rec, going, slot, kept, stage, closed, binding, bound, cmds, dog, dirs, uses,
    \* InkOverlay
    over, presses, ink, current, first, origin, strokes, lines, pulses, locating, pinning, images, pictures,
    \* AnnotationBundle
    program, phase, holder, sealed, marks, pins, grabs, frames, files, handed, late, summary, writer,
    bundle, owner, convs, told, spends

TwoDevices == {d1, d2}
MadeOnFirst == (n1 :> d1)
Calls == TwoDevices \X {"call"}

\* Recordings whose bindings were confirmed, with one failing call; the program's ends, and its crashes.
Bindings == INSTANCE AnnotationBindings WITH up <- mluva, enabled <- turned, spent <- uses,
    N <- 2, Interrupt <- FALSE, MaxToggles <- 0, MaxRestarts <- 1, MaxExits <- 0, MaxFaults <- 1
Exits == INSTANCE AnnotationBindings WITH up <- mluva, enabled <- turned, spent <- uses,
    N <- 2, Interrupt <- TRUE, MaxToggles <- 0, MaxRestarts <- 0, MaxExits <- 2, MaxFaults <- 0

Ink == INSTANCE InkOverlay WITH closed <- over, marks <- strokes, grabs <- images, frames <- pictures,
    Screens <- {left, right}, MaxPresses <- 1, MaxMarks <- 2, MaxFrames <- 1

Bundle == INSTANCE AnnotationBundle WITH
    up <- program, closed <- sealed, task <- summary, row <- owner, spent <- spends,
    MaxMarks <- 2, MaxToggles <- 1, MaxExits <- 1, Kill <- TRUE, MaxFaults <- 1

bindingVars == <<mluva, turned, portal, rec, going, slot, kept, stage, closed, binding, bound, cmds, dog,
    dirs, uses>>
inkVars == <<over, presses, ink, current, first, origin, strokes, lines, pulses, locating, pinning, images,
    pictures>>
bundleVars == <<program, phase, holder, sealed, marks, pins, grabs, frames, files, handed, late, summary,
    writer, bundle, owner, convs, told, spends>>
restVars == <<bindingVars, inkVars, bundleVars>>

Parts ==
    /\ part \in {"account", "bindings", "exits", "crash", "ink", "bundle"}
    /\ Init /\ Bindings!Init /\ Ink!Init /\ Bundle!Init

Steps ==
    /\ UNCHANGED part
    /\ \/ part = "account" /\ Next /\ UNCHANGED restVars
       \/ /\ \/ part = "bindings" /\ Bindings!Next
             \/ part = "exits" /\ Exits!Next
             \/ part = "crash" /\ Exits!Next /\ uses'.exits <= 1
          /\ UNCHANGED <<vars, inkVars, bundleVars>>
       \/ part = "ink" /\ Ink!Next /\ UNCHANGED <<vars, bindingVars, bundleVars>>
       \/ part = "bundle" /\ Bundle!Next /\ UNCHANGED <<vars, bindingVars, inkVars>>

\* The fairness of each module, for the part that moves.  Mluva is started again only in "exits".
Ends == {"bindings", "exits", "crash"}
BindingFairness ==
    /\ \A s \in 1..2 : WF_bindingVars(part \in Ends /\ Exits!Work(s))
    /\ \A c \in Exits!Commands : WF_bindingVars(part \in Ends /\ Exits!Lands(c))
    /\ WF_bindingVars(part \in Ends /\ Exits!Exit)
    /\ WF_bindingVars(part = "exits" /\ Exits!Restart)

BundleFairness ==
    /\ WF_bundleVars(part = "bundle" /\ Bundle!Recognised)
    /\ WF_bundleVars(part = "bundle" /\ \E timeout \in BOOLEAN : Bundle!Collect(timeout))
    /\ WF_bundleVars(part = "bundle" /\ Bundle!Reserve)
    /\ WF_bundleVars(part = "bundle" /\ (Bundle!Load \/ Bundle!Write))
    /\ WF_bundleVars(part = "bundle" /\ Bundle!Written) /\ WF_bundleVars(part = "bundle" /\ Bundle!Deliver)
    /\ WF_bundleVars(part = "bundle" /\ Bundle!Finish)

Behaviours ==
    /\ Parts /\ [][Steps]_<<part, vars, restVars>>
    /\ Fairness /\ BindingFairness /\ BundleFairness
    /\ WF_inkVars(part = "ink" /\ \E g \in images : Ink!Captured(g))

-----------------------------------------------------------------------------

\* An annotated recording leaves nothing on the screen for good, neither bindings nor hidden ink, and
\* never keeps its dictation.
AnnotationEnds ==
    /\ part = "bindings" => Bindings!BindingsGo
    /\ part = "exits" => Exits!RestartCleans
    /\ part = "crash" => Exits!WatchdogCleans
    /\ Ink!InkAppears /\ Bundle!Delivers
=============================================================================
