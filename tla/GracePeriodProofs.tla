-------------------------- MODULE GracePeriodProofs --------------------------
(* What grace-period reclamation guarantees whatever implements it.        *)
EXTENDS GracePeriod, TLAPS

\* Types, and that only sections opened so far can block an object.
LEMMA TypeCorrect == Spec => []TypeOK
<1>1. Init => TypeOK
  BY DEF Init, TypeOK
<1>2. TypeOK /\ [Next]_vars => TypeOK'
  <2> SUFFICES ASSUME TypeOK, [Next]_vars PROVE TypeOK'
    OBVIOUS
  <2>1. ASSUME NEW s \in Sections, Enter(s) PROVE TypeOK'
    BY <2>1 DEF TypeOK, Enter
  <2>2. ASSUME NEW s \in Sections, Exit(s) PROVE TypeOK'
    BY <2>2 DEF TypeOK, Exit
  <2>3. ASSUME NEW o \in Objects, Unlink(o) PROVE TypeOK'
    BY <2>3 DEF TypeOK, Unlink
  <2>4. ASSUME NEW o \in Objects, Free(o) PROVE TypeOK'
    BY <2>4 DEF TypeOK, Free
  <2>5. CASE UNCHANGED vars
    BY <2>5 DEF TypeOK, vars
  <2>. QED BY <2>1, <2>2, <2>3, <2>4, <2>5 DEF Next
<1>. QED BY <1>1, <1>2, PTL DEF Spec

\* A freed object is never reachable from a section still open: a section that
\* opens later is a new one, and a section once closed does not open again.
THEOREM NoUseAfterFreeHolds == Spec => []NoUseAfterFree
<1>1. Init => NoUseAfterFree
  BY DEF Init, NoUseAfterFree
<1>2. TypeOK /\ NoUseAfterFree /\ [Next]_vars => NoUseAfterFree'
  <2> SUFFICES ASSUME TypeOK, NoUseAfterFree, [Next]_vars PROVE NoUseAfterFree'
    OBVIOUS
  <2>1. ASSUME NEW s \in Sections, Enter(s) PROVE NoUseAfterFree'
    BY <2>1 DEF TypeOK, NoUseAfterFree, Enter
  <2>2. ASSUME NEW s \in Sections, Exit(s) PROVE NoUseAfterFree'
    BY <2>2 DEF TypeOK, NoUseAfterFree, Exit
  <2>3. ASSUME NEW o \in Objects, Unlink(o) PROVE NoUseAfterFree'
    BY <2>3 DEF TypeOK, NoUseAfterFree, Unlink
  <2>4. ASSUME NEW o \in Objects, Free(o) PROVE NoUseAfterFree'
    BY <2>4 DEF TypeOK, NoUseAfterFree, Free
  <2>5. CASE UNCHANGED vars
    BY <2>5 DEF NoUseAfterFree, vars
  <2>. QED BY <2>1, <2>2, <2>3, <2>4, <2>5 DEF Next
<1>. QED BY <1>1, <1>2, TypeCorrect, PTL DEF Spec
===============================================================================
