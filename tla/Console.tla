------------------------------ MODULE Console ------------------------------
(***************************************************************************)
(* The console's pages behind their routes: one page is on display at a    *)
(* time, and leaving a page forgets its dialogs, its drafts and its        *)
(* mutation objects.  React's rendering between two events of the user is  *)
(* taken as immediate.                                                     *)
(***************************************************************************)
EXTENDS ImagesPage, NetworksPage, VolumesPage, ContainersPage

ASSUME ConsoleAssumption == Pages \subseteq {"containers", "images", "networks", "volumes"}

vars == <<mutationVars, imagesVars, networksVars, volumesVars, containersVars>>

HooksOf(p) ==
    CASE p = "images"     -> ImageHooks
      [] p = "networks"   -> NetworkHooks
      [] p = "volumes"    -> VolumeHooks
      [] p = "containers" -> ContainerHooks

Fresh == ImagesFresh /\ NetworksFresh /\ VolumesFresh /\ ContainersFresh

Init == MutationsInit /\ Fresh

OnImages ==
    /\ page = "images"
    /\ ImagesNext
    /\ UNCHANGED <<networksVars, volumesVars, containersVars>>

OnNetworks ==
    /\ page = "networks"
    /\ NetworksNext
    /\ UNCHANGED <<imagesVars, volumesVars, containersVars>>

OnVolumes ==
    /\ page = "volumes"
    /\ VolumesNext
    /\ UNCHANGED <<imagesVars, networksVars, containersVars>>

OnContainers ==
    /\ page = "containers"
    /\ ContainersNext
    /\ UNCHANGED <<imagesVars, networksVars, volumesVars>>

\* NAV_ITEMS, the route's element.
Go(p) ==
    /\ Leave(p)
    /\ ImagesForgotten /\ NetworksForgotten /\ VolumesForgotten /\ ContainersForgotten

Next ==
    \/ OnImages \/ OnNetworks \/ OnVolumes \/ OnContainers
    \/ \E p \in Pages : Go(p)

Spec == Init /\ [][Next]_vars

-----------------------------------------------------------------------------

\* The shape of the pages' state and of what they send.
TypeOK ==
    /\ page \in Pages
    /\ pending \subseteq HooksOf(page)
    /\ \/ sent \in {None, CreateRequest}
       \/ sent \in ImageRequests \cup NetworkRequests \cup VolumeRequests \cup ContainerRequests
    /\ ImagesTypeOK /\ NetworksTypeOK /\ VolumesTypeOK /\ ContainersTypeOK

\* An image is removed by force only if the user ticked the box for that very
\* image in the dialog that is open now: a tick never outlives its dialog, an
\* error, or an answer to an earlier removal.
ForceIsTicked ==
    sent # None /\ sent.hook = "removeImage" => (sent.force <=> ticked = sent.id)

\* The forms check what the services check: no service refuses the arguments of a
\* request of the pages.
ServicesAccept ==
    sent # None =>
        /\ ~ImageServiceRefuses(sent)
        /\ ~NetworkServiceRefuses(sent)
        /\ ~ContainerServiceRefuses(sent)
=============================================================================
