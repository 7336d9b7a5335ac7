------------------------------ MODULE LoaderHUD ------------------------------
(***************************************************************************)
(* The one progress HUD of the app: the static JGProgressHUD that every    *)
(* view controller shows and hides through showLoader(_:).                 *)
(*                                                                         *)
(* The operations below are JGProgressHUD's showInView: and                *)
(* dismissAnimated:, with the two clean-ups an animation's completion      *)
(* runs.  The HUD keeps a weak reference to the view it covers (`target'), *)
(* a flag telling that a fade is running (`transitioning'), which fade it  *)
(* was (`presenting', kept by the animation object) and a dismissal        *)
(* postponed until the fade ends (`dismissAfter').  `anims' counts the     *)
(* fades whose completion block has not run.                               *)
(*                                                                         *)
(* Everything runs on the main thread, except that addContent calls        *)
(* showLoader(false) from the URLSession queue when the search finds no    *)
(* photo.  That call races with the main thread, so its reads and writes   *)
(* of the HUD's unsynchronised flags are steps of their own, and `bg' says *)
(* how far it has got.  A handler of the main thread is one step: it       *)
(* falls between two steps of the background call.                         *)
(***************************************************************************)
EXTENDS Naturals

CONSTANTS
    Views,      \* identities of the views of forms and detail screens
    NoView,     \* nil
    OffMain,    \* may showLoader(false) be called off the main thread?
    MaxAnims    \* bound: fades outstanding when a new one may be started

ASSUME LoaderAssumption ==
    /\ NoView \notin Views
    /\ OffMain \in BOOLEAN
    /\ MaxAnims \in Nat

VARIABLES
    alive,          \* the views some strong reference keeps alive
    target,
    transitioning,
    presenting,
    dismissAfter,
    anims,
    bg

hudVars == <<target, transitioning, presenting, dismissAfter, anims, bg>>
vars == <<alive, hudVars>>

\* Where the background dismissal stands: before the test of _transitioning,
\* after it read YES, after the first of its two writes, or after it read NO.
BackgroundSteps == {"idle", "sawTransition", "flagged", "sawRest"}

\* The weak reference as a read of it sees it.
Target == IF target \in alive THEN target ELSE NoView

\* The HUD covers v and takes its touches: the fade in is over, the fade out
\* has not begun.  (While it fades, UIKit does not deliver touches to it.)
Covers(v) == Target = v /\ ~transitioning

-----------------------------------------------------------------------------
(* JGProgressHUD, called from the main thread.                             *)

\* showInView: does nothing while a fade runs or another view is covered.
ShowLoader(v) ==
    \/ /\ transitioning \/ Target # NoView
       /\ UNCHANGED hudVars
    \/ /\ ~transitioning /\ Target = NoView
       /\ target' = v
       /\ transitioning' = TRUE
       /\ presenting' = TRUE
       /\ anims' = anims + 1
       /\ UNCHANGED <<dismissAfter, bg>>

\* Faulty form, for a mutant: a dismissal during a fade is ignored.
HideWithoutPostponing ==
    \/ /\ transitioning \/ Target = NoView
       /\ UNCHANGED hudVars
    \/ /\ ~transitioning /\ Target # NoView
       /\ transitioning' = TRUE
       /\ presenting' = FALSE
       /\ anims' = anims + 1
       /\ UNCHANGED <<target, dismissAfter, bg>>

\* dismissAnimated: is postponed while a fade runs.
HideLoader ==
    \/ /\ transitioning
       /\ dismissAfter' = TRUE
       /\ UNCHANGED <<target, transitioning, presenting, anims, bg>>
    \/ /\ ~transitioning /\ Target = NoView
       /\ UNCHANGED hudVars
    \/ /\ ~transitioning /\ Target # NoView
       /\ transitioning' = TRUE
       /\ presenting' = FALSE
       /\ anims' = anims + 1
       /\ UNCHANGED <<target, dismissAfter, bg>>

\* cleanUpAfterDismissal.
Removed ==
    /\ target' = NoView
    /\ transitioning' = FALSE
    /\ dismissAfter' = FALSE

\* Faulty form, for a mutant: the postponed dismissal is forgotten.
PresentedWithoutDismissal ==
    /\ presenting
    /\ transitioning' = FALSE
    /\ anims' = anims - 1
    /\ UNCHANGED <<target, presenting, dismissAfter, bg>>

\* A fade's completion when the last fade started was a fade in:
\* cleanUpAfterPresentation, and the dismissal postponed meanwhile.  The
\* dismissal is animated unless the background call has written only the
\* first of the two flags that ask for it.
Presented ==
    /\ presenting
    /\ \/ /\ dismissAfter => Target = NoView
          /\ transitioning' = FALSE
          /\ dismissAfter' = FALSE
          /\ anims' = anims - 1
          /\ UNCHANGED <<target, presenting, bg>>
       \/ /\ dismissAfter /\ Target # NoView
          /\ transitioning' = TRUE
          /\ presenting' = FALSE
          /\ dismissAfter' = FALSE
          /\ UNCHANGED <<target, anims, bg>>
       \/ /\ dismissAfter /\ Target # NoView /\ bg = "flagged"
          /\ Removed
          /\ anims' = anims - 1
          /\ UNCHANGED <<presenting, bg>>

\* A fade's completion when the last fade started was a fade out.
Dismissed ==
    /\ ~presenting
    /\ Removed
    /\ anims' = anims - 1
    /\ UNCHANGED <<presenting, bg>>

\* Faulty form, for a mutant: a completion runs again.
FinishedMoreThanOnce == Presented \/ Dismissed

\* A fade's completion block runs, once: animationDidFinish.
AnimationFinished ==
    /\ anims > 0
    /\ Presented \/ Dismissed

-----------------------------------------------------------------------------
(* dismissAnimated: called from the URLSession queue.                      *)

BackgroundHide ==
    /\ bg = "idle"
    /\ bg' = IF transitioning THEN "sawTransition" ELSE "sawRest"
    /\ UNCHANGED <<target, transitioning, presenting, dismissAfter, anims>>

BackgroundPostpones ==
    \/ /\ bg = "sawTransition"
       /\ bg' = "flagged"
       /\ dismissAfter' = TRUE
       /\ UNCHANGED <<target, transitioning, presenting, anims>>
    \/ /\ bg = "flagged"
       /\ bg' = "idle"
       /\ UNCHANGED <<target, transitioning, presenting, dismissAfter, anims>>

\* Faulty form, for a mutant: the fade is marked but never begun.
BackgroundMarksOnly ==
    /\ bg = "sawRest"
    /\ bg' = "idle"
    /\ transitioning' = TRUE
    /\ UNCHANGED <<target, presenting, dismissAfter, anims>>

BackgroundDismisses ==
    /\ bg = "sawRest"
    /\ bg' = "idle"
    /\ \/ /\ Target = NoView
          /\ UNCHANGED <<transitioning, presenting, anims>>
       \/ /\ Target # NoView
          /\ transitioning' = TRUE
          /\ presenting' = FALSE
          /\ anims' = anims + 1
    /\ UNCHANGED <<target, dismissAfter>>

BackgroundStep == BackgroundPostpones \/ BackgroundDismisses

-----------------------------------------------------------------------------
(* The HUD among callers that may show and hide it at any time.            *)

HudInit ==
    /\ target = NoView
    /\ transitioning = FALSE
    /\ presenting = FALSE
    /\ dismissAfter = FALSE
    /\ anims = 0
    /\ bg = "idle"

\* A new process starts with a HUD never shown.
HudRelaunched ==
    /\ target' = NoView
    /\ transitioning' = FALSE
    /\ presenting' = FALSE
    /\ dismissAfter' = FALSE
    /\ anims' = 0
    /\ bg' = "idle"

Init == alive = {} /\ HudInit

\* A view controller loads its view; an identity is taken again only when
\* the HUD's zeroed reference cannot be mistaken for it.
LoadView(v) ==
    /\ v \notin alive /\ v # target
    /\ alive' = alive \cup {v}
    /\ UNCHANGED hudVars

\* The last strong reference to a view goes.
ReleaseView(v) ==
    /\ v \in alive
    /\ alive' = alive \ {v}
    /\ UNCHANGED hudVars

Show(v) ==
    /\ v \in alive
    /\ anims < MaxAnims
    /\ ShowLoader(v)
    /\ UNCHANGED alive

Hide ==
    /\ anims < MaxAnims
    /\ HideLoader
    /\ UNCHANGED alive

HideOffMain ==
    /\ OffMain
    /\ BackgroundHide
    /\ UNCHANGED alive

FinishOffMain ==
    /\ BackgroundStep
    /\ UNCHANGED alive

FinishAnimation ==
    /\ AnimationFinished
    /\ UNCHANGED alive

Next ==
    \/ \E v \in Views : LoadView(v) \/ ReleaseView(v) \/ Show(v)
    \/ Hide
    \/ HideOffMain
    \/ FinishOffMain
    \/ FinishAnimation

\* UIKit runs every completion block, and a call once begun returns.
Fairness == WF_vars(FinishAnimation) /\ WF_vars(FinishOffMain)

Spec == Init /\ [][Next]_vars /\ Fairness

-----------------------------------------------------------------------------
(* Properties.                                                             *)

FlagsOK ==
    /\ transitioning \in BOOLEAN
    /\ presenting \in BOOLEAN
    /\ dismissAfter \in BOOLEAN

CountersOK ==
    /\ target \in Views \cup {NoView}
    /\ anims \in Nat
    /\ bg \in BackgroundSteps

HudTypeOK == FlagsOK /\ CountersOK

\* The state is well formed, whatever order callers use showLoader in.
TypeOK == alive \subseteq Views /\ HudTypeOK

\* The HUD is never wedged: while showInView: and dismissAnimated: are
\* turned away because a fade runs, a completion that ends the fade is still
\* to come.  It holds even when showLoader(false) races off the main thread.
NotWedged == transitioning => anims > 0

\* With every call on the main thread, one fade is outstanding exactly while
\* the HUD says so, and a postponed dismissal always has a fade to wait for.
OneFadeAtATime ==
    ~OffMain => /\ anims = (IF transitioning THEN 1 ELSE 0)
                /\ dismissAfter => transitioning

\* Someone has called showLoader(false) and the HUD has taken note of it.
DismissalAsked ==
    dismissAfter \/ bg # "idle" \/ (transitioning /\ ~presenting)

\* A dismissal takes effect: after showLoader(false) the HUD leaves the view.
DismissalTakesEffect == DismissalAsked ~> Target = NoView

\* The HUD accepts calls again after every fade.
FadesEnd == transitioning ~> ~transitioning
=============================================================================
