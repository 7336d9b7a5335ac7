--------------------------- MODULE LoaderHUD_proofs ---------------------------
(***************************************************************************)
(* Proofs about the shared HUD, for any set of views and any callers.      *)
(***************************************************************************)
EXTENDS LoaderHUD, TLAPS

\* What a count of outstanding fades that has grown is known by.
LEMMA MoreThanNone == \A n \in Nat : n + 1 > 0
  OBVIOUS

\* The flags stay Boolean in every step of a caller, of an animation or of the
\* background dismissal.
LEMMA FlagsStep == FlagsOK /\ [Next]_vars => FlagsOK'
<1> SUFFICES ASSUME FlagsOK, [Next]_vars PROVE FlagsOK'
  OBVIOUS
<1> USE DEF FlagsOK, hudVars
<1>1. ASSUME NEW v \in Views, LoadView(v) \/ ReleaseView(v) \/ Show(v)
      PROVE  FlagsOK'
  BY <1>1, Zenon DEF LoadView, ReleaseView, Show, ShowLoader
<1>2. CASE Hide
  BY <1>2, Zenon DEF Hide, HideLoader
<1>3. CASE HideOffMain
  BY <1>3, Zenon DEF HideOffMain, BackgroundHide
<1>4. CASE FinishOffMain
  BY <1>4, Zenon DEF FinishOffMain, BackgroundStep, BackgroundPostpones, BackgroundDismisses
<1>5. CASE FinishAnimation
  BY <1>5, Zenon DEF FinishAnimation, AnimationFinished, Presented, Dismissed, Removed
<1>6. CASE UNCHANGED vars
  BY <1>6, Zenon DEF vars
<1> QED
  BY <1>1, <1>2, <1>3, <1>4, <1>5, <1>6 DEF Next

\* So do the target, the count of fades and the background call's position.
LEMMA CountersStep == CountersOK /\ [Next]_vars => CountersOK'
<1> SUFFICES ASSUME CountersOK, [Next]_vars PROVE CountersOK'
  OBVIOUS
<1> USE DEF CountersOK, BackgroundSteps, hudVars
<1>1. ASSUME NEW v \in Views, LoadView(v) \/ ReleaseView(v) \/ Show(v)
      PROVE  CountersOK'
  BY <1>1 DEF LoadView, ReleaseView, Show, ShowLoader
<1>2. CASE Hide
  BY <1>2 DEF Hide, HideLoader
<1>3. CASE HideOffMain
  BY <1>3 DEF HideOffMain, BackgroundHide
<1>4. CASE FinishOffMain
  BY <1>4 DEF FinishOffMain, BackgroundStep, BackgroundPostpones, BackgroundDismisses
<1>5. CASE FinishAnimation
  BY <1>5 DEF FinishAnimation, AnimationFinished, Presented, Dismissed, Removed
<1>6. CASE UNCHANGED vars
  BY <1>6 DEF vars
<1> QED
  BY <1>1, <1>2, <1>3, <1>4, <1>5, <1>6 DEF Next

\* The living views are views.
LEMMA AliveStep == alive \subseteq Views /\ [Next]_vars => (alive \subseteq Views)'
  BY DEF Next, vars, LoadView, ReleaseView, Show, Hide, HideOffMain, FinishOffMain,
         FinishAnimation

\* The HUD's state is well formed in every reachable state, whatever order the
\* callers of showLoader come in.
THEOREM TypeCorrect == Spec => []TypeOK
<1>1. Init => TypeOK
  <2>1. Init => alive \subseteq Views /\ CountersOK
    BY DEF Init, HudInit, CountersOK, BackgroundSteps
  <2>2. Init => FlagsOK
    BY Zenon DEF Init, HudInit, FlagsOK
  <2> QED
    BY <2>1, <2>2 DEF TypeOK, HudTypeOK
<1>2. TypeOK /\ [Next]_vars => TypeOK'
  BY FlagsStep, CountersStep, AliveStep DEF TypeOK, HudTypeOK
<1> QED
  BY <1>1, <1>2, PTL DEF Spec

-----------------------------------------------------------------------------

\* The HUD is never wedged: showInView: and dismissAnimated: are turned away
\* only while the completion of a fade is outstanding.  This holds although
\* addContent calls showLoader(false) off the main thread.
THEOREM NeverWedged == Spec => []NotWedged
<1>1. Init => NotWedged
  BY Zenon DEF Init, HudInit, NotWedged
<1>2. TypeOK /\ NotWedged /\ [Next]_vars => NotWedged'
  <2> SUFFICES ASSUME anims \in Nat, NotWedged, [Next]_vars PROVE NotWedged'
    BY DEF TypeOK, HudTypeOK, CountersOK
  <2> USE DEF NotWedged, hudVars
  <2>1. ASSUME NEW v \in Views, LoadView(v) \/ ReleaseView(v) \/ Show(v)
        PROVE  NotWedged'
    BY <2>1, MoreThanNone, Zenon DEF LoadView, ReleaseView, Show, ShowLoader
  <2>2. CASE Hide
    BY <2>2, MoreThanNone, Zenon DEF Hide, HideLoader
  <2>3. CASE HideOffMain
    BY <2>3, Zenon DEF HideOffMain, BackgroundHide
  <2>4. CASE FinishOffMain
    BY <2>4, MoreThanNone, Zenon
       DEF FinishOffMain, BackgroundStep, BackgroundPostpones, BackgroundDismisses
  <2>5. CASE FinishAnimation
    BY <2>5, Zenon DEF FinishAnimation, AnimationFinished, Presented, Dismissed, Removed
  <2>6. CASE UNCHANGED vars
    BY <2>6, Zenon DEF vars
  <2> QED
    BY <2>1, <2>2, <2>3, <2>4, <2>5, <2>6 DEF Next
<1> QED
  BY <1>1, <1>2, TypeCorrect, PTL DEF Spec

-----------------------------------------------------------------------------

\* What makes OneFadeAtATime inductive: without calls off the main thread
\* the background dismissal never starts.
MainOnly == OneFadeAtATime /\ (~OffMain => bg = "idle")

\* With every showLoader call on the main thread, the fades run one at a
\* time, and a dismissal is only postponed while one runs.
THEOREM FadesRunOneAtATime == Spec => []OneFadeAtATime
<1>1. Init => MainOnly
  BY DEF Init, HudInit, MainOnly, OneFadeAtATime
<1>2. TypeOK /\ MainOnly /\ [Next]_vars => MainOnly'
  <2> SUFFICES ASSUME TypeOK, MainOnly, ~OffMain, [Next]_vars PROVE MainOnly'
    BY LoaderAssumption DEF MainOnly, OneFadeAtATime
  <2> USE DEF TypeOK, HudTypeOK, CountersOK, MainOnly, OneFadeAtATime, hudVars
  <2>1. ASSUME NEW v \in Views, LoadView(v) \/ ReleaseView(v)
        PROVE  MainOnly'
    BY <2>1 DEF LoadView, ReleaseView
  <2>2. ASSUME NEW v \in Views, Show(v) PROVE MainOnly'
    BY <2>2 DEF Show, ShowLoader
  <2>3. CASE Hide
    BY <2>3 DEF Hide, HideLoader
  <2>4. CASE HideOffMain
    BY <2>4 DEF HideOffMain
  <2>5. CASE FinishOffMain
    BY <2>5 DEF FinishOffMain, BackgroundStep, BackgroundPostpones, BackgroundDismisses
  <2>6. CASE FinishAnimation
    BY <2>6 DEF FinishAnimation, AnimationFinished, Presented, Dismissed, Removed
  <2>7. CASE UNCHANGED vars
    BY <2>7 DEF vars
  <2> QED
    BY <2>1, <2>2, <2>3, <2>4, <2>5, <2>6, <2>7 DEF Next
<1>3. MainOnly => OneFadeAtATime
  BY DEF MainOnly
<1> QED
  BY <1>1, <1>2, <1>3, TypeCorrect, PTL DEF Spec
=============================================================================
