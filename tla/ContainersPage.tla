--------------------------- MODULE ContainersPage ---------------------------
(***************************************************************************)
(* ContainersPage.tsx: the row buttons, the remove confirmation, and the   *)
(* form of CreateContainerModal.  All row buttons share one mutation       *)
(* object and are never disabled while it is at work.  The drawer that a   *)
(* click on a row opens is in MonitorSubscription.                         *)
(***************************************************************************)
EXTENDS CreateContainerModal

CONSTANT Containers

VARIABLES
    containerGoing  \* the container that the confirmation names

containersVars == <<creating, form, containerGoing>>

\* State of a container as the list shows it.
States == {"running", "paused", "other"}

ContainerHooks == {"containerAction", "createContainer", "removeContainer"}

\* containersApi
ContainerRequests ==
    [hook : {"containerAction"}, id : Containers,
     action : {"start", "stop", "restart", "pause", "unpause"}]
    \cup [hook : {"removeContainer"}, id : Containers, force : {TRUE}]

ContainersTypeOK ==
    /\ CreateTypeOK
    /\ containerGoing \in Containers \cup {None}

ContainersFresh ==
    /\ CreateFresh
    /\ containerGoing = None

\* The page is left, or comes on display anew.
ContainersForgotten ==
    /\ Reset
    /\ containerGoing' = None

\* The buttons of a row, by the state it shows.
Buttons(state) ==
    {"restart"}
    \cup (IF state \in {"running", "paused"} THEN {"stop"} ELSE {"start"})
    \cup (CASE state = "running" -> {"pause"} [] state = "paused" -> {"unpause"} [] OTHER -> {})

RunAction(container) ==
    /\ \E state \in States : \E action \in Buttons(state) :
         Mutate([hook |-> "containerAction", id |-> container, action |-> action])
    /\ UNCHANGED containersVars

ActionAnswered ==
    /\ Hear("containerAction")
    /\ UNCHANGED containersVars

OpenRemoveContainer(container) ==
    /\ containerGoing' = container
    /\ Quietly
    /\ UNCHANGED createVars

CloseRemoveContainer ==
    /\ containerGoing # None
    /\ containerGoing' = None
    /\ Quietly
    /\ UNCHANGED createVars

ConfirmRemoveContainer ==
    /\ containerGoing # None /\ "removeContainer" \notin pending
    /\ Mutate([hook |-> "removeContainer", id |-> containerGoing, force |-> TRUE])
    /\ UNCHANGED containersVars

RemoveContainerAnswered ==
    /\ Hear("removeContainer")
    /\ containerGoing' = None
    /\ UNCHANGED createVars

\* The form and the confirmation both listen for it.
ContainersEscape ==
    /\ creating \/ containerGoing # None
    /\ IF creating THEN Reset ELSE UNCHANGED createVars
    /\ containerGoing' = None
    /\ Quietly

ContainersNext ==
    \/ CreateNext /\ UNCHANGED containerGoing
    \/ \E container \in Containers : RunAction(container) \/ OpenRemoveContainer(container)
    \/ ActionAnswered
    \/ CloseRemoveContainer \/ ConfirmRemoveContainer \/ RemoveContainerAnswered
    \/ ContainersEscape

\* What ContainerService refuses before it asks the engine.
ContainerServiceRefuses(request) == request.hook = "createContainer" /\ request.image = Blank
=============================================================================
