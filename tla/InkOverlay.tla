----------------------------- MODULE InkOverlay -----------------------------
(***************************************************************************)
(* Drawing on an annotated recording: the strokes of                       *)
(* rust/mluva-gtk/src/screen_annotation/session.rs and the lines they show *)
(* on the transparent windows of overlay.rs.                               *)
(*                                                                         *)
(* Every stroke and pin takes an image of its screen, by a process that    *)
(* runs for a while and copies the screen at some moment of that while.    *)
(* The ink is later drawn onto that image, so whatever ink the moment      *)
(* shows is there twice or belongs to another mark.  The pointer of a      *)
(* press is read by a call of its own and may answer after the next press. *)
(*                                                                         *)
(* Strokes, pins and their lines are numbered together in the order they   *)
(* begin.  Where a point lies on its screen is left out.                   *)
(***************************************************************************)
EXTENDS Naturals, FiniteSets, Sequences

CONSTANTS
    Screens,      \* the outputs
    MaxPresses,   \* presses of the drawing key
    MaxMarks,     \* strokes and pins
    MaxFrames     \* `MAX_FRAMES`: images kept or under way

\* The values the model is meant for.
ConstantsAssumption ==
    /\ IsFiniteSet(Screens) /\ Screens # {}
    /\ {MaxPresses, MaxMarks, MaxFrames} \subseteq Nat

None == "none"
Marks == 1 .. MaxMarks

VARIABLES
    closed,     \* `stop` was called
    presses,    \* presses so far
    ink,        \* "none", "pressed" before the pointer moved, or "drawing"
    current,    \* the stroke being drawn, 0 without one
    first,      \* the first stroke of the press, 0 before it began
    origin,     \* the screen of the pointer as the key went down, None before it is read
    marks,      \* the marks: their screen, press, whether a pin and the reading that leads them
    lines,      \* lines on the overlays: [of, held, released]
    pulses,     \* rings of pins being shown
    locating,   \* presses whose pointer is being read
    pinning,    \* clicks whose pointer is being read
    grabs,      \* images under way: [of, shot, sees]
    frames      \* images kept: [of, sees]

press == <<closed, presses, ink, current, first, origin, locating>>
drawing == <<marks, lines, pulses, pinning>>
images == <<grabs, frames>>
vars == <<press, drawing, images>>

Init ==
    /\ closed = FALSE /\ presses = 0 /\ ink = None /\ current = 0 /\ first = 0
    /\ origin = None /\ marks = <<>> /\ lines = {} /\ pulses = {}
    /\ locating = {} /\ pinning = 0 /\ grabs = {} /\ frames = {}

Line(m) == [of |-> m, held |-> TRUE, released |-> FALSE]

---------------------------------------------------------------------------
(* The lines of the overlays.                                              *)

\* `hide_ink`: ink still fading goes, shown or not.
HideInk == {l \in lines : ~l.released}

\* `reveal`: the one line whose image was taken.
Reveal(m) == {IF l.of = m THEN [l EXCEPT !.held = FALSE] ELSE l : l \in lines}

\* What the window of a screen shows.
Visible(screen) ==
    {l.of : l \in {k \in lines : ~k.held /\ marks[k.of].screen = screen}}
        \cup {p \in pulses : marks[p].screen = screen}

---------------------------------------------------------------------------
(* The images.                                                             *)

Room == Cardinality(frames) + Cardinality(grabs) < MaxFrames

Grab(m) == [of |-> m, shot |-> FALSE, sees |-> {}]

\* `capture` of a stroke: without room its line is shown at once.
Capture(m) ==
    /\ grabs' = IF Room THEN grabs \cup {Grab(m)} ELSE grabs
    /\ lines' = lines \cup {[Line(m) EXCEPT !.held = Room]}

\* The screen is copied as it is at this moment.
Shoot(g) ==
    /\ g \in grabs /\ ~g.shot
    /\ grabs' = (grabs \ {g}) \cup {[g EXCEPT !.shot = TRUE, !.sees = Visible(marks[g.of].screen)]}
    /\ UNCHANGED <<press, drawing, frames>>

\* The image is there, or could not be taken; its stroke is shown or its pin rings.
Captured(g) ==
    /\ g \in grabs
    /\ \/ g.shot /\ frames' = frames \cup {[of |-> g.of, sees |-> g.sees]}
       \/ frames' = frames
    /\ grabs' = grabs \ {g}
    /\ IF marks[g.of].pin
       THEN pulses' = (IF closed THEN pulses ELSE pulses \cup {g.of}) /\ lines' = lines
       ELSE lines' = Reveal(g.of) /\ pulses' = pulses
    /\ UNCHANGED <<press, marks, pinning>>

---------------------------------------------------------------------------
(* The drawing key and the pointer.                                        *)

InkDown ==
    /\ ~closed /\ ink = None /\ presses < MaxPresses
    /\ presses' = presses + 1
    /\ ink' = "pressed" /\ current' = 0 /\ first' = 0 /\ origin' = None
    /\ locating' = locating \cup {presses + 1}
    /\ lines' = HideInk
    /\ UNCHANGED <<closed, marks, pulses, pinning, images>>

InkUp ==
    /\ ~closed /\ ink # None
    /\ ink' = None /\ current' = 0
    /\ lines' = {[l EXCEPT !.released = TRUE] : l \in lines}
    /\ UNCHANGED <<closed, presses, first, origin, locating, marks, pulses, pinning, images>>

\* Whether the pointer read at a press leads a stroke on SCREEN: not one of another screen.
Leads(screen, at) == at = screen

\* The pointer moved over SCREEN: a point of the stroke being drawn, or the start of one as the
\* first movement or after crossing from another screen.
Motion(screen) ==
    /\ ~closed /\ ink # None
    /\ current = 0 \/ (current # 0 /\ marks[current].screen # screen)
    /\ Len(marks) + pinning < MaxMarks
    /\ LET m == Len(marks) + 1
           led == IF first = 0 /\ Leads(screen, origin) THEN presses ELSE 0
       IN  /\ marks' = Append(marks, [screen |-> screen, press |-> presses, pin |-> FALSE,
                                      led |-> led])
           /\ ink' = "drawing" /\ current' = m
           /\ first' = IF first = 0 THEN m ELSE first
           /\ origin' = IF first = 0 THEN None ELSE origin
           /\ Capture(m)
    /\ UNCHANGED <<closed, presses, locating, pulses, pinning, frames>>

OwnPress(p) == p = presses

\* `locate_press` answers, with a pointer on SCREEN or not at all.
Located(p, screen) ==
    /\ p \in locating
    /\ locating' = locating \ {p}
    /\ \/ /\ ~closed /\ OwnPress(p) /\ screen # None /\ first = 0
          /\ origin' = screen /\ UNCHANGED marks
       \/ /\ ~closed /\ OwnPress(p) /\ screen # None /\ first # 0
          /\ marks' = IF Leads(marks[first].screen, screen)
                      THEN [marks EXCEPT ![first].led = p] ELSE marks
          /\ UNCHANGED origin
       \/ (closed \/ ~OwnPress(p) \/ screen = None) /\ UNCHANGED <<origin, marks>>
    /\ UNCHANGED <<closed, presses, ink, current, first, lines, pulses, pinning, images>>

\* A click while the key is held.
Pin ==
    /\ ~closed /\ ink # None /\ Len(marks) + pinning < MaxMarks
    /\ pinning' = pinning + 1
    /\ UNCHANGED <<press, marks, lines, pulses, images>>

\* Its pointer is read, also after Stop, and found on SCREEN or nowhere.
Pinned(screen) ==
    /\ pinning > 0
    /\ pinning' = pinning - 1
    /\ \/ screen = None /\ UNCHANGED <<marks, pulses, grabs>>
       \/ /\ screen # None
          /\ marks' = Append(marks, [screen |-> screen, press |-> presses, pin |-> TRUE, led |-> 0])
          /\ grabs' = IF Room THEN grabs \cup {Grab(Len(marks) + 1)} ELSE grabs
          /\ pulses' = IF Room \/ closed THEN pulses ELSE pulses \cup {Len(marks) + 1}
    /\ UNCHANGED <<press, lines, frames>>

\* Released ink and rings disappear after a while.
Fade ==
    /\ \/ \E l \in lines : l.released /\ lines' = lines \ {l} /\ pulses' = pulses
       \/ \E p \in pulses : pulses' = pulses \ {p} /\ lines' = lines
    /\ UNCHANGED <<press, marks, pinning, images>>

\* The recording stops: the windows are closed; images under way still finish.
Stop ==
    /\ ~closed
    /\ closed' = TRUE /\ ink' = None /\ current' = 0
    /\ lines' = {} /\ pulses' = {}
    /\ UNCHANGED <<presses, first, origin, locating, marks, pinning, images>>

Next ==
    \/ InkDown \/ InkUp \/ Pin \/ Fade \/ Stop
    \/ \E s \in Screens : Motion(s)
    \/ \E s \in Screens \cup {None} : Pinned(s)
    \/ \E p \in 1 .. MaxPresses, s \in Screens \cup {None} : Located(p, s)
    \/ \E g \in grabs : Shoot(g) \/ Captured(g)

\* An image process ends within its timeout.
Fairness == WF_vars(\E g \in grabs : Captured(g))

Spec == Init /\ [][Next]_vars /\ Fairness

---------------------------------------------------------------------------
(* Properties.                                                             *)

TypeOK ==
    /\ ConstantsAssumption
    /\ closed \in BOOLEAN /\ presses \in 0 .. MaxPresses
    /\ ink \in {None, "pressed", "drawing"}
    /\ origin \in Screens \cup {None}
    /\ marks \in Seq([screen : Screens, press : 0 .. MaxPresses, pin : BOOLEAN,
                      led : 0 .. MaxPresses])
    /\ {current, first} \subseteq 0 .. Len(marks)
    /\ \A l \in lines : l.of \in 1 .. Len(marks) /\ {l.held, l.released} \subseteq BOOLEAN
    /\ pulses \subseteq 1 .. Len(marks)
    /\ locating \subseteq 1 .. presses
    /\ Len(marks) + pinning <= MaxMarks
    /\ Cardinality(grabs) + Cardinality(frames) <= MaxFrames
    \* One stroke is drawn at a time, and only while the key is held.
    /\ (current # 0) = (ink = "drawing")

\* No image shows the ink of its own stroke: that is drawn onto it afterwards.
OwnInkHidden == \A f \in frames : f.of \notin f.sees

\* The image of a stroke shows no ink of an earlier press of the key, however late that ink's own
\* image was finished.
NoStaleInk ==
    \A f \in frames : ~marks[f.of].pin =>
        \A m \in f.sees : marks[m].pin \/ marks[m].press >= marks[f.of].press

\* A late pointer reading only ever touches its own press, and there the first stroke.
LedByItsPress ==
    \A m \in 1 .. Len(marks) : marks[m].led # 0 =>
        /\ marks[m].led = marks[m].press
        /\ \A k \in 1 .. m - 1 : marks[k].pin \/ marks[k].press # marks[m].press

\* A stroke is shown in the end, whether its image could be taken or not, unless it faded before.
InkAppears == \A m \in Marks : (\E l \in lines : l.of = m) ~> ~(\E l \in lines : l.of = m /\ l.held)

\* "The ink is composited onto a clean frame" (docs/screen-annotation.md): no image shows ink.
FramesAreClean == \A f \in frames : f.sees = {}
=============================================================================
