---------------------------- MODULE NetworksPage ----------------------------
(***************************************************************************)
(* NetworksPage.tsx: the create dialog and the remove confirmation.        *)
(***************************************************************************)
EXTENDS Mutations

CONSTANT Networks   \* the names in the list

VARIABLES
    network,      \* the create dialog
    networkGoing  \* the network that the confirmation names

networksVars == <<network, networkGoing>>

BUILT_IN == {"bridge", "host", "none"}

NetworkDrivers == {"bridge", "overlay", "macvlan", "ipvlan"}

NetworkHooks == {"createNetwork", "removeNetwork"}

\* networksApi
NetworkRequests ==
    [hook : {"createNetwork"}, name : Texts, driver : NetworkDrivers, internal : BOOLEAN]
    \cup [hook : {"removeNetwork"}, id : Networks]

NetworksTypeOK ==
    /\ network \in [open : BOOLEAN, name : Texts, driver : NetworkDrivers, internal : BOOLEAN]
    /\ networkGoing \in Networks \cup {None}

NoNetwork == [open |-> FALSE, name |-> Blank, driver |-> "bridge", internal |-> FALSE]

NetworksFresh ==
    /\ network = NoNetwork
    /\ networkGoing = None

\* The page is left, or comes on display anew.
NetworksForgotten ==
    /\ network' = NoNetwork
    /\ networkGoing' = None

OpenNetwork ==
    /\ network' = [network EXCEPT !.open = TRUE]
    /\ Quietly
    /\ UNCHANGED networkGoing

CloseNetwork ==
    /\ network.open
    /\ network' = [network EXCEPT !.open = FALSE]
    /\ Quietly
    /\ UNCHANGED networkGoing

EditNetwork ==
    /\ network.open
    /\ \/ \E text \in Texts : network' = [network EXCEPT !.name = text]
       \/ \E driver \in NetworkDrivers : network' = [network EXCEPT !.driver = driver]
       \/ network' = [network EXCEPT !.internal = ~@]
    /\ Quietly
    /\ UNCHANGED networkGoing

SubmitNetwork ==
    /\ network.open /\ "createNetwork" \notin pending
    /\ network.name # Blank
    /\ Mutate([hook |-> "createNetwork", name |-> network.name, driver |-> network.driver,
               internal |-> network.internal])
    /\ UNCHANGED networksVars

NetworkCreated ==
    /\ Hear("createNetwork")
    /\ network' = NoNetwork
    /\ UNCHANGED networkGoing

\* onError makes a toast and keeps the draft.
NetworkNotCreated == Hear("createNetwork") /\ UNCHANGED networksVars

OpenRemoveNetwork(name) ==
    /\ name \notin BUILT_IN
    /\ networkGoing' = name
    /\ Quietly
    /\ UNCHANGED network

\* While the call is under way "Cancel" is disabled, but the dialog's close
\* button and its backdrop are not.
CloseRemoveNetwork ==
    /\ networkGoing # None
    /\ networkGoing' = None
    /\ Quietly
    /\ UNCHANGED network

ConfirmRemoveNetwork ==
    /\ networkGoing # None /\ "removeNetwork" \notin pending
    /\ Mutate([hook |-> "removeNetwork", id |-> networkGoing])
    /\ UNCHANGED networksVars

RemoveNetworkAnswered ==
    /\ Hear("removeNetwork")
    /\ networkGoing' = None
    /\ UNCHANGED network

NetworksEscape ==
    /\ network.open \/ networkGoing # None
    /\ network' = [network EXCEPT !.open = FALSE]
    /\ networkGoing' = None
    /\ Quietly

NetworksNext ==
    \/ OpenNetwork \/ CloseNetwork \/ EditNetwork \/ SubmitNetwork
    \/ NetworkCreated \/ NetworkNotCreated
    \/ \E name \in Networks : OpenRemoveNetwork(name)
    \/ CloseRemoveNetwork \/ ConfirmRemoveNetwork \/ RemoveNetworkAnswered
    \/ NetworksEscape

\* What NetworkService refuses before it asks the engine.
NetworkServiceRefuses(request) == request.hook = "createNetwork" /\ request.name = Blank
=============================================================================
