------------------------------ MODULE ShowHide ------------------------------
(***************************************************************************)
(* show, hide and toggle of one element, at once or animated: the inline   *)
(* styles they write, and the notes "olddisplay" and "fxshow" from which   *)
(* the styles of before are brought back.                                  *)
(*                                                                         *)
(* The element is in the page and has one animated property.  Animations   *)
(* run one after the other (module Fx has the queue); one may be stopped   *)
(* midway, and show and hide may come in between.  A size is 0, 1 for      *)
(* anything between, or 2 for the size of the style sheet; an inline style *)
(* that is not set is Unset.                                               *)
(***************************************************************************)
EXTENDS Integers

CONSTANTS
    Requests,    \* the animations that are asked for
    Unset

VARIABLES
    sheet,       \* the display of the element by the style sheets
    dimension,   \* whether the animated property is its height or width
    natural,     \* how it is to be displayed when it is not hidden
    display,     \* style.display
    size,        \* the inline style of the animated property
    overflow,    \* style.overflow
    olddisplay,  \* data_priv "olddisplay"
    fxshow,      \* data_priv "fxshow": the size, and hidden
    anim,        \* the animation that runs
    asked        \* history: the last request, its direction and whether it is done

vars == <<sheet, dimension, natural, display, size, overflow, olddisplay, fxshow, anim, asked>>

Default == "inline"
NoShow == [size |-> Unset, hidden |-> Unset]
NoAnim == [what |-> Unset, orig |-> Unset, hides |-> FALSE, overflow |-> Unset]
Asked(what, hides, done) == [what |-> what, hides |-> hides, done |-> done]

Init ==
    /\ sheet \in {"inline", "none"}
    /\ display \in {Unset, "none", "block"}
    /\ dimension \in BOOLEAN
    /\ natural = IF display = "block" THEN "block" ELSE IF sheet = "none" THEN Default ELSE sheet
    /\ size = Unset
    /\ overflow = Unset
    /\ olddisplay = Unset
    /\ fxshow = NoShow
    /\ anim = NoAnim
    /\ asked = Asked(Unset, FALSE, FALSE)

Running == anim # NoAnim

\* Computed styles, with the inline styles d and s.
Computed(d) == IF d = Unset THEN sheet ELSE d
IsHidden(d) == Computed(d) = "none"
Cur(s) == IF s = Unset THEN 2 ELSE s

-----------------------------------------------------------------------------
\* (Mutant: what is shown is shown as a block.)
ShownAsBlock(d, old) ==
    LET kept == IF d \in {Unset, "none"} /\ sheet = "none" THEN "block" ELSE old
    IN <<IF d \in {"none", Unset} THEN kept ELSE d, kept>>

\* showHide for one element: style.display and olddisplay after it.
Shown(d, old) ==
    LET reset == IF old = Unset /\ d = "none" THEN Unset ELSE d
        kept == IF reset = Unset /\ IsHidden(reset) THEN Default ELSE old
    IN <<IF reset \in {"none", Unset} THEN kept ELSE reset, kept>>

Hidden(d, old) ==
    <<"none",
      IF old = Unset /\ ~IsHidden(d) THEN Computed(d) ELSE old>>

Become(styles) == display' = styles[1] /\ olddisplay' = styles[2]

\* show(), hide() and toggle() without a speed.
ShowNow ==
    /\ Become(Shown(display, olddisplay))
    /\ asked' = Asked("show now", FALSE, TRUE)
    /\ UNCHANGED <<sheet, dimension, natural, size, overflow, fxshow, anim>>

HideNow ==
    /\ Become(Hidden(display, olddisplay))
    /\ asked' = Asked("hide now", TRUE, TRUE)
    /\ UNCHANGED <<sheet, dimension, natural, size, overflow, fxshow, anim>>

ToggleNow == IF IsHidden(display) THEN ShowNow ELSE HideNow

-----------------------------------------------------------------------------

\* The direction of an animation: it starts from a hidden element, in its view.
\* A note left over by a stopped animation makes a show start.
Pretends(what, d) == IsHidden(d) \/ (what = "show" /\ fxshow.size # Unset)

\* Nothing is to be done, to show what is shown or to hide what is hidden.
Idle(what, d) == what = (IF IsHidden(d) THEN "hide" ELSE "show") /\ ~(what = "show" /\ Pretends(what, d))

FromHidden(what, d) == IF fxshow.hidden # Unset THEN fxshow.hidden ELSE Pretends(what, d)

\* (Mutant: the direction of a toggle is not stored.)
StoresNothing(what, hidden) == fxshow.hidden

\* dataShow.hidden
Stores(what, hidden) == IF what = "toggle" THEN ~hidden ELSE fxshow.hidden

\* The overflow pass.
Inlined == IF dimension /\ Computed(display) = "inline" THEN "inline-block" ELSE display

\* orig[prop]
Orig == IF fxshow.size # Unset THEN fxshow.size ELSE size

\* Animation, with its defaultPrefilter and its first tick.
Begin(what) ==
    /\ ~Running
    /\ what \in Requests
    /\ ~Idle(what, display)
    /\ LET hidden == FromHidden(what, display)
           first == fxshow.size = Unset
       IN
        /\ overflow' = IF dimension THEN "hidden" ELSE overflow
        /\ IF hidden THEN Become(Shown(Inlined, olddisplay))
           ELSE display' = Inlined /\ UNCHANGED olddisplay
        /\ fxshow' = [size |-> IF first THEN Cur(size) ELSE fxshow.size,
                      hidden |-> Stores(what, hidden)]
        /\ size' = IF hidden /\ first THEN 0 ELSE Cur(size)
        /\ anim' = [what |-> what, orig |-> Orig, hides |-> ~hidden, overflow |-> overflow]
        /\ asked' = Asked(what, ~hidden, FALSE)
    /\ UNCHANGED <<sheet, dimension, natural>>

\* One without tweens is done by its first tick.
BeginAndEnd(what) ==
    /\ ~Running
    /\ what \in Requests
    /\ Idle(what, display)
    /\ display' = Inlined
    /\ asked' = Asked(what, what = "hide", TRUE)
    /\ UNCHANGED <<sheet, dimension, natural, size, overflow, olddisplay, fxshow, anim>>

\* The tick of an animation on its way.
Tick ==
    /\ Running
    /\ size' = 1
    /\ UNCHANGED <<sheet, dimension, natural, display, overflow, olddisplay, fxshow, anim, asked>>

\* The animation is done, by its last tick or by stop with gotoEnd: hide, and
\* the style of before.
Done ==
    /\ Running
    /\ overflow' = IF dimension THEN anim.overflow ELSE overflow
    /\ IF anim.hides THEN Become(Hidden(display, olddisplay))
       ELSE UNCHANGED <<display, olddisplay>>
    /\ fxshow' = NoShow
    /\ size' = anim.orig
    /\ anim' = NoAnim
    /\ asked' = [asked EXCEPT !.done = TRUE]
    /\ UNCHANGED <<sheet, dimension, natural>>

\* stop: the notes stay.
Stop ==
    /\ Running
    /\ overflow' = IF dimension THEN anim.overflow ELSE overflow
    /\ anim' = NoAnim
    /\ UNCHANGED <<sheet, dimension, natural, display, size, olddisplay, fxshow, asked>>

Next ==
    \/ ShowNow
    \/ HideNow
    \/ ToggleNow
    \/ \E what \in Requests : Begin(what) \/ BeginAndEnd(what)
    \/ Tick
    \/ Done
    \/ Stop

Spec == Init /\ [][Next]_vars
-----------------------------------------------------------------------------
\* There is a note as long as an animation runs.
TypeOK ==
    /\ display \in {Unset, "none", "inline", "block", "inline-block"}
    /\ size \in {Unset} \cup 0..2
    /\ overflow \in {Unset, "hidden"}
    /\ olddisplay \in {Unset, "inline", "block", "inline-block"}
    /\ fxshow.size \in {Unset, 2}
    /\ Running => fxshow # NoShow

\* With no animation running, and none stopped midway since, the element has
\* the size it had at first, and its overflow is always brought back.
SizeRestored ==
    ~Running => overflow = Unset /\ (fxshow = NoShow => Cur(size) = 2)

\* Whenever it can be seen it is displayed as it was, however often it was
\* hidden: by its own display, or inline-block after its height was animated.
DisplayRestored ==
    IsHidden(display) \/
    Computed(display) \in {natural} \cup (IF dimension THEN {"inline-block"} ELSE {})

\* show, hide and toggle bring back what they took away.
ShowHideInv == TypeOK /\ SizeRestored /\ DisplayRestored

\* Of two toggles in a row the second turns the first about, stopped or done.
ToggleReverses ==
    [][~Running /\ Running' /\ asked.what = "toggle" /\ anim'.what = "toggle"
           => anim'.hides # asked.hides]_vars
=============================================================================
