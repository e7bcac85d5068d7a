-------------------------- MODULE ActiveConnection --------------------------
(***************************************************************************)
(* What the connection manager promises its callers, without HTTP, locks   *)
(* or handlers: there is one active client; it is open; a client that was  *)
(* replaced is closed exactly once, some time later, and never becomes     *)
(* active again; after Close nothing becomes active.                       *)
(***************************************************************************)
CONSTANTS Clients, First

VARIABLES
    active,      \* the client handed to callers
    open,        \* clients created and not closed yet
    superseded,  \* clients that were active and still have to be closed
    spent,       \* clients that were closed
    shut         \* the manager itself was closed

vars == <<active, open, superseded, spent, shut>>

Init ==
    /\ active = First
    /\ open = {First}
    /\ superseded = {}
    /\ spent = {}
    /\ shut = FALSE

\* A new client is created; nobody can see it yet.
Create(c) ==
    /\ c \notin open \cup spent
    /\ open' = open \cup {c}
    /\ UNCHANGED <<active, superseded, spent, shut>>

\* A new client takes over; the previous one must now be closed.
Activate(c) ==
    /\ ~shut
    /\ c \in open \ superseded
    /\ c # active
    /\ active' = c
    /\ superseded' = superseded \cup {active}
    /\ UNCHANGED <<open, spent, shut>>

Close(c) ==
    /\ c \in superseded
    /\ superseded' = superseded \ {c}
    /\ open' = open \ {c}
    /\ spent' = spent \cup {c}
    /\ UNCHANGED <<active, shut>>

Shut ==
    /\ ~shut
    /\ shut' = TRUE
    /\ open' = open \ {active}
    /\ spent' = spent \cup {active}
    /\ UNCHANGED <<active, superseded>>

Next ==
    \/ \E c \in Clients : Create(c) \/ Activate(c) \/ Close(c)
    \/ Shut

Fairness == \A c \in Clients : WF_vars(Close(c))

\* What may never happen, and what must happen in the end.
Safety == Init /\ [][Next]_vars

Spec == Safety /\ Fairness
=============================================================================
