---------------------------- MODULE EventualView ----------------------------
(***************************************************************************)
(* What a page of the console may expect of the lists it shows, without    *)
(* requests, retries or invalidations.  The engine goes through versions;  *)
(* the view of a list is empty or a version the engine has had; it never   *)
(* goes back to an older one; and while somebody watches a list that is    *)
(* polled, the view keeps moving towards the engine.                       *)
(***************************************************************************)
EXTENDS Naturals

CONSTANTS
    Lists,
    PolledLists  \* a subset of Lists

VARIABLES
    world,    \* the engine's version
    view,     \* each list's version on display, 0 for none
    watched   \* the lists on display

viewVars == <<world, view, watched>>

Start ==
    /\ world = 1
    /\ view = [q \in Lists |-> 0]
    /\ watched \subseteq Lists

\* The engine changes, by anybody's doing.
Change ==
    /\ world' = world + 1
    /\ UNCHANGED <<view, watched>>

\* The user looks elsewhere.
Turn ==
    /\ watched' \in SUBSET Lists
    /\ UNCHANGED <<world, view>>

\* A newer version comes on display.
Advance(q) ==
    /\ view[q] < world
    /\ \E v \in (view[q] + 1)..world : view' = [view EXCEPT ![q] = v]
    /\ UNCHANGED <<world, watched>>

\* A list nobody watches is forgotten.
Forget(q) ==
    /\ q \notin watched
    /\ view' = [view EXCEPT ![q] = 0]
    /\ UNCHANGED <<world, watched>>

Step == Change \/ Turn \/ \E q \in Lists : Advance(q) \/ Forget(q)

KeepsUp == \A q \in PolledLists : WF_viewVars(q \in watched /\ Advance(q))

\* What may never happen, and what must happen in the end.
ViewSafety == Start /\ [][Step]_viewVars

ViewSpec == ViewSafety /\ KeepsUp
=============================================================================
