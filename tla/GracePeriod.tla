----------------------------- MODULE GracePeriod -----------------------------
(***************************************************************************)
(* What limbo promises its clients (src/include/lf/limbo.hh:9-24,136-139). *)
(* A section is the life of one LimboHandle.  An object that is taken out  *)
(* of the shared structures may still be referenced by every section open  *)
(* at that moment (its blockers); it is freed only after all of them ended.*)
(***************************************************************************)

CONSTANTS Sections,   \* identities of LimboHandles, one per new_handle
          Objects     \* memory reachable through the shared structures

VARIABLES entered,    \* sections ever opened
          active,     \* sections open now
          linked,     \* objects reachable from the shared structures
          blockers,   \* per object: the sections open when it was unlinked
          freed       \* objects given back to the allocator

vars == <<entered, active, linked, blockers, freed>>

Init == /\ entered = {}
        /\ active = {}
        /\ linked = Objects
        /\ blockers = [o \in Objects |-> {}]
        /\ freed = {}

Enter(s) == /\ s \in Sections \ entered
            /\ entered' = entered \cup {s}
            /\ active' = active \cup {s}
            /\ UNCHANGED <<linked, blockers, freed>>

Exit(s) == /\ s \in active
           /\ active' = active \ {s}
           /\ UNCHANGED <<entered, linked, blockers, freed>>

Unlink(o) == /\ o \in linked
             /\ linked' = linked \ {o}
             /\ blockers' = [blockers EXCEPT ![o] = active]
             /\ UNCHANGED <<entered, active, freed>>

Free(o) == /\ o \in Objects \ (linked \cup freed)
           /\ blockers[o] \cap active = {}
           /\ freed' = freed \cup {o}
           /\ UNCHANGED <<entered, active, linked, blockers>>

Next == \/ \E s \in Sections : Enter(s) \/ Exit(s)
        \/ \E o \in Objects : Unlink(o) \/ Free(o)

Spec == Init /\ [][Next]_vars

TypeOK == /\ entered \in SUBSET Sections
          /\ active \in SUBSET entered
          /\ linked \in SUBSET Objects
          /\ blockers \in [Objects -> SUBSET entered]
          /\ freed \in SUBSET (Objects \ linked)

\* No section that could reach an object when it was unlinked is still open
\* once the object is freed.
NoUseAfterFree == \A o \in freed : blockers[o] \cap active = {}
===============================================================================
