--------------------------- MODULE Console_proofs ---------------------------
(***************************************************************************)
(* What the pages send, for any texts, images, networks, volumes and       *)
(* containers and any number of rows in the form.                          *)
(***************************************************************************)
EXTENDS Console, SequenceTheorems, WellFoundedInduction, TLAPS

-----------------------------------------------------------------------------
(***************************************************************************)
(* The inductive invariant                                                 *)
(***************************************************************************)

\* The remove dialog is a target and a tick.
RemovalTyped == removal \in [target : Images \cup {None}, force : BOOLEAN]

\* The box of an open remove dialog shows what the user did to it for this very image.
TicksAreShown == removal.target # None => (removal.force <=> ticked = removal.target)

\* What the last step sent.
SentWell == ForceIsTicked /\ ServicesAccept

ConsoleInv == RemovalTyped /\ TicksAreShown /\ SentWell

\* A step that sends nothing.
LEMMA SilentStep ==
    ASSUME sent' = None
    PROVE  SentWell'
BY DEF SentWell, ForceIsTicked, ServicesAccept

\* Editing, opening, closing and answers send nothing.
LEMMA QuietStep ==
    ASSUME Quietly \/ \E h : Hear(h)
    PROVE  SentWell'
BY SilentStep DEF Quietly, Hear

\* A button that removes no image sends what the services accept.
LEMMA MutateStep ==
    ASSUME NEW request, Mutate(request), request.hook # "removeImage",
           ~ImageServiceRefuses(request), ~NetworkServiceRefuses(request),
           ~ContainerServiceRefuses(request)
    PROVE  SentWell'
BY DEF Mutate, SentWell, ForceIsTicked, ServicesAccept

\* The dialog stays as it is.
LEMMA UntouchedRemoval ==
    ASSUME ConsoleInv, UNCHANGED <<removal, ticked>>, SentWell'
    PROVE  ConsoleInv'
BY DEF ConsoleInv, RemovalTyped, TicksAreShown

\* The dialog is closed, and whatever it holds is not on display.
LEMMA ClosedRemoval ==
    ASSUME removal' \in [target : {None}, force : BOOLEAN], SentWell'
    PROVE  ConsoleInv'
BY DEF ConsoleInv, RemovalTyped, TicksAreShown

-----------------------------------------------------------------------------
(***************************************************************************)
(* The images page                                                         *)
(***************************************************************************)

\* Pulling, tagging, pruning and importing have nothing to do with the remove dialog.
LEMMA OtherImagesStep ==
    ASSUME ConsoleInv,
           \/ OpenPull \/ ClosePull \/ EditPull \/ SubmitPull \/ PullSucceeds
           \/ CloseTag \/ EditTag \/ SubmitTag \/ TagSucceeds
           \/ \E image \in Images : OpenTag(image)
           \/ PruneDangling \/ ImportFile \/ ImagesToast
    PROVE  ConsoleInv'
<1>1. UNCHANGED <<removal, ticked>>
  BY DEF OpenPull, ClosePull, EditPull, SubmitPull, PullSucceeds, CloseTag, EditTag, SubmitTag,
         TagSucceeds, OpenTag, PruneDangling, ImportFile, ImagesToast, imagesVars
<1>2. CASE \/ OpenPull \/ ClosePull \/ EditPull \/ PullSucceeds
           \/ CloseTag \/ EditTag \/ TagSucceeds
           \/ \E image \in Images : OpenTag(image)
           \/ ImagesToast
  <2>1. Quietly \/ \E h : Hear(h)
    BY <1>2 DEF OpenPull, ClosePull, EditPull, PullSucceeds, CloseTag, EditTag, TagSucceeds,
                OpenTag, ImagesToast
  <2> QED
    BY <1>1, <2>1, QuietStep, UntouchedRemoval
<1>3. CASE SubmitPull
  <2> DEFINE request == [hook |-> "pullImage", image |-> pull.name, tag |-> OrUndefined(pull.tag)]
  <2>1. /\ Mutate(request) /\ request.hook = "pullImage" /\ request.image # Blank
    BY <1>3 DEF SubmitPull
  <2> HIDE DEF request
  <2>2. SentWell'
    BY <2>1, MutateStep DEF ImageServiceRefuses, NetworkServiceRefuses, ContainerServiceRefuses
  <2> QED
    BY <1>1, <2>2, UntouchedRemoval
<1>4. CASE SubmitTag
  <2> DEFINE request ==
        [hook |-> "tagImage", id |-> tagging.target, repository |-> tagging.repository,
         tag |-> IF tagging.tag = Blank THEN "latest" ELSE tagging.tag]
  <2>1. /\ Mutate(request) /\ request.hook = "tagImage" /\ request.repository # Blank
    BY <1>4 DEF SubmitTag
  <2> HIDE DEF request
  <2>2. SentWell'
    BY <2>1, MutateStep DEF ImageServiceRefuses, NetworkServiceRefuses, ContainerServiceRefuses
  <2> QED
    BY <1>1, <2>2, UntouchedRemoval
<1>5. CASE PruneDangling \/ ImportFile
  <2>1. PICK h \in {"pruneImages", "importImage"} : Mutate([hook |-> h])
    BY <1>5 DEF PruneDangling, ImportFile
  <2> DEFINE request == [hook |-> h]
  <2>2. Mutate(request) /\ request.hook = h
    BY <2>1
  <2> HIDE DEF request
  <2>3. SentWell'
    BY <2>1, <2>2, MutateStep
       DEF ImageServiceRefuses, NetworkServiceRefuses, ContainerServiceRefuses
  <2> QED
    BY <1>1, <2>3, UntouchedRemoval
<1> QED
  BY <1>2, <1>3, <1>4, <1>5

\* The remove dialog: a new target starts without a tick, and a tick is the user's.
LEMMA RemovalStep ==
    ASSUME ConsoleInv,
           \/ \E image \in Images : OpenRemove(image)
           \/ CloseRemove \/ TickForce \/ ConfirmRemove \/ RemoveAnswered \/ ImagesEscape
    PROVE  ConsoleInv'
<1> USE DEF ConsoleInv
<1>1. ASSUME NEW image \in Images, OpenRemove(image) PROVE ConsoleInv'
  <2>1. removal' = [target |-> image, force |-> FALSE] /\ ticked' = None /\ Quietly
    BY <1>1 DEF OpenRemove, NoRemoval
  <2>2. image # None
    BY ImagesAssumption
  <2> QED
    BY <2>1, <2>2, QuietStep DEF RemovalTyped, TicksAreShown
<1>2. CASE CloseRemove \/ ImagesEscape
  <2>1. removal' \in [target : {None}, force : BOOLEAN] /\ Quietly
    BY <1>2 DEF CloseRemove, ImagesEscape, RemovalTyped
  <2> QED
    BY <2>1, QuietStep, ClosedRemoval
<1>3. CASE TickForce
  <2>1. /\ removal.target # None /\ removal.target \in Images /\ removal.force \in BOOLEAN
        /\ removal' = [removal EXCEPT !.force = ~removal.force]
        /\ ticked' = IF removal.force THEN None ELSE removal.target
        /\ Quietly
    BY <1>3 DEF TickForce, RemovalTyped
  <2>2. removal' \in [target : Images \cup {None}, force : BOOLEAN]
    BY <2>1 DEF RemovalTyped
  <2>3. removal'.target = removal.target /\ removal'.force = ~removal.force
    BY <2>1 DEF RemovalTyped
  <2> QED
    BY <2>1, <2>2, <2>3, QuietStep DEF RemovalTyped, TicksAreShown
<1>4. CASE ConfirmRemove
  <2> DEFINE request ==
        [hook |-> "removeImage", id |-> removal.target, force |-> removal.force]
  <2>1. /\ removal.target # None
        /\ sent' = request
        /\ UNCHANGED <<removal, ticked>>
    BY <1>4 DEF ConfirmRemove, Mutate, imagesVars
  <2>2. request.force <=> ticked = request.id
    BY <2>1 DEF TicksAreShown
  <2>3. request.hook = "removeImage"
    OBVIOUS
  <2> HIDE DEF request
  <2>4. SentWell'
    BY <2>1, <2>2, <2>3
       DEF SentWell, ForceIsTicked, ServicesAccept,
           ImageServiceRefuses, NetworkServiceRefuses, ContainerServiceRefuses
  <2> QED
    BY <2>1, <2>4, UntouchedRemoval
<1>5. CASE RemoveAnswered
  <2>1. Hear("removeImage") /\ removal' \in [target : {None}, force : BOOLEAN]
    <3>1. Hear("removeImage")
      BY <1>5 DEF RemoveAnswered
    <3>2. CASE removal' = NoRemoval
      BY <3>1, <3>2 DEF NoRemoval
    <3>3. CASE removal' = [removal EXCEPT !.target = None]
      BY <3>1, <3>3 DEF RemovalTyped
    <3> QED
      BY <1>5, <3>2, <3>3 DEF RemoveAnswered
  <2> QED
    BY <2>1, QuietStep, ClosedRemoval
<1> QED
  BY <1>1, <1>2, <1>3, <1>4, <1>5

-----------------------------------------------------------------------------
(***************************************************************************)
(* The other pages                                                         *)
(***************************************************************************)

\* Whatever happens on the networks page keeps the invariant.
LEMMA NetworksStep ==
    ASSUME ConsoleInv, NetworksNext, UNCHANGED imagesVars
    PROVE  ConsoleInv'
<1>1. SentWell'
  <2>1. CASE SubmitNetwork
    <3> DEFINE request ==
          [hook |-> "createNetwork", name |-> network.name, driver |-> network.driver,
           internal |-> network.internal]
    <3>1. /\ Mutate(request) /\ request.hook = "createNetwork" /\ request.name # Blank
      BY <2>1 DEF SubmitNetwork
    <3> HIDE DEF request
    <3> QED
      BY <3>1, MutateStep DEF ImageServiceRefuses, NetworkServiceRefuses, ContainerServiceRefuses
  <2>2. CASE ConfirmRemoveNetwork
    <3> DEFINE request == [hook |-> "removeNetwork", id |-> networkGoing]
    <3>1. /\ Mutate(request) /\ request.hook = "removeNetwork"
      BY <2>2 DEF ConfirmRemoveNetwork
    <3> HIDE DEF request
    <3> QED
      BY <3>1, MutateStep DEF ImageServiceRefuses, NetworkServiceRefuses, ContainerServiceRefuses
  <2>3. CASE ~(SubmitNetwork \/ ConfirmRemoveNetwork)
    <3>1. Quietly \/ \E h : Hear(h)
      BY <2>3 DEF NetworksNext, OpenNetwork, CloseNetwork, EditNetwork, NetworkCreated,
                  NetworkNotCreated, OpenRemoveNetwork, CloseRemoveNetwork,
                  RemoveNetworkAnswered, NetworksEscape
    <3> QED
      BY <3>1, QuietStep
  <2> QED
    BY <2>1, <2>2, <2>3
<1> QED
  BY <1>1, UntouchedRemoval DEF imagesVars

\* Whatever happens on the volumes page keeps the invariant.
LEMMA VolumesStep ==
    ASSUME ConsoleInv, VolumesNext, UNCHANGED imagesVars
    PROVE  ConsoleInv'
<1>1. SentWell'
  <2>1. CASE SubmitVolume \/ ConfirmRemoveVolume \/ PruneVolumes
    <3>1. PICK request : /\ Mutate(request)
                         /\ request.hook \in {"createVolume", "removeVolume", "pruneVolumes"}
      BY <2>1 DEF SubmitVolume, ConfirmRemoveVolume, PruneVolumes
    <3> QED
      BY <3>1, MutateStep DEF ImageServiceRefuses, NetworkServiceRefuses, ContainerServiceRefuses
  <2>2. CASE ~(SubmitVolume \/ ConfirmRemoveVolume \/ PruneVolumes)
    <3>1. Quietly \/ \E h : Hear(h)
      BY <2>2 DEF VolumesNext, OpenVolume, CloseVolume, EditVolume, VolumeCreated,
                  OpenRemoveVolume, CloseRemoveVolume, RemoveVolumeAnswered, VolumesToast,
                  VolumesEscape
    <3> QED
      BY <3>1, QuietStep
  <2> QED
    BY <2>1, <2>2
<1> QED
  BY <1>1, UntouchedRemoval DEF imagesVars

\* Whatever happens on the containers page keeps the invariant.
LEMMA ContainersStep ==
    ASSUME ConsoleInv, ContainersNext, UNCHANGED imagesVars
    PROVE  ConsoleInv'
<1>1. SentWell'
  <2>1. CASE \E container \in Containers : RunAction(container)
    <3>1. PICK request : Mutate(request) /\ request.hook = "containerAction"
      BY <2>1 DEF RunAction
    <3> QED
      BY <3>1, MutateStep DEF ImageServiceRefuses, NetworkServiceRefuses, ContainerServiceRefuses
  <2>2. CASE ConfirmRemoveContainer
    <3>1. PICK request : /\ Mutate(request) /\ request.hook = "removeContainer"
      BY <2>2 DEF ConfirmRemoveContainer
    <3> QED
      BY <3>1, MutateStep DEF ImageServiceRefuses, NetworkServiceRefuses, ContainerServiceRefuses
  <2>3. CASE SubmitCreate
    <3>1. /\ Mutate(CreateRequest)
          /\ CreateRequest.hook = "createContainer" /\ CreateRequest.image # Blank
      BY <2>3 DEF SubmitCreate, CreateRequest
    <3> QED
      BY <3>1, MutateStep DEF ImageServiceRefuses, NetworkServiceRefuses, ContainerServiceRefuses
  <2>4. CASE ~(\/ \E container \in Containers : RunAction(container)
               \/ ConfirmRemoveContainer \/ SubmitCreate)
    <3>1. Quietly \/ \E h : Hear(h)
      BY <2>4 DEF ContainersNext, CreateNext, ContainerCreated, ContainerNotCreated,
                  ActionAnswered, OpenRemoveContainer, CloseRemoveContainer,
                  RemoveContainerAnswered, ContainersEscape
    <3> QED
      BY <3>1, QuietStep
  <2> QED
    BY <2>1, <2>2, <2>3, <2>4
<1> QED
  BY <1>1, UntouchedRemoval DEF imagesVars

-----------------------------------------------------------------------------
(***************************************************************************)
(* The type invariant                                                      *)
(***************************************************************************)

\* The mutation objects are those of the page on display.
CallsTyped ==
    /\ page \in Pages
    /\ pending \subseteq HooksOf(page)

\* A step that sends nothing leaves no call under way but those that were.
LEMMA QuietCalls ==
    ASSUME CallsTyped, Quietly \/ \E h : Hear(h)
    PROVE  CallsTyped' /\ sent' = None
BY DEF CallsTyped, Quietly, Hear

\* A step that sends adds a call of one of the page's own hooks.
LEMMA MutateCalls ==
    ASSUME CallsTyped, NEW request, Mutate(request), request.hook \in HooksOf(page)
    PROVE  CallsTyped' /\ sent' = request
<1>1. pending' = pending \cup {request.hook} /\ sent' = request /\ page' = page
  BY DEF Mutate
<1> QED
  BY <1>1 DEF CallsTyped

\* Types on the images page.
LEMMA ImagesTypes ==
    ASSUME CallsTyped, ImagesTypeOK, page = "images", ImagesNext
    PROVE  CallsTyped' /\ ImagesTypeOK' /\ sent' \in {None} \cup ImageRequests
<1>0. HooksOf(page) = ImageHooks
  BY DEF HooksOf
<1>1. CASE OpenPull \/ ClosePull \/ EditPull \/ PullSucceeds
  <2>1. Quietly \/ \E h : Hear(h)
    BY <1>1 DEF OpenPull, ClosePull, EditPull, PullSucceeds
  <2>2. ImagesTypeOK'
    <3>1. CASE OpenPull \/ ClosePull
      BY <3>1 DEF OpenPull, ClosePull, ImagesTypeOK
    <3>2. CASE EditPull
      BY <3>2 DEF EditPull, ImagesTypeOK
    <3>3. CASE PullSucceeds
      BY <3>3, TextAssumption DEF PullSucceeds, NoPull, Tags, ImagesTypeOK
    <3> QED
      BY <1>1, <3>1, <3>2, <3>3
  <2> QED
    BY <2>1, <2>2, QuietCalls
<1>2. CASE CloseTag \/ EditTag \/ TagSucceeds \/ \E image \in Images : OpenTag(image)
  <2>1. Quietly \/ \E h : Hear(h)
    BY <1>2 DEF CloseTag, EditTag, TagSucceeds, OpenTag
  <2>2. ImagesTypeOK'
    BY <1>2, TextAssumption
       DEF CloseTag, EditTag, TagSucceeds, OpenTag, ImagesTypeOK, NoTagging, Tags
  <2> QED
    BY <2>1, <2>2, QuietCalls
<1>3. CASE CloseRemove \/ TickForce \/ RemoveAnswered \/ \E image \in Images : OpenRemove(image)
  <2>1. Quietly \/ \E h : Hear(h)
    BY <1>3 DEF CloseRemove, TickForce, RemoveAnswered, OpenRemove
  <2>2. ImagesTypeOK'
    <3>1. CASE CloseRemove
      BY <3>1 DEF CloseRemove, ImagesTypeOK
    <3>2. CASE TickForce
      BY <3>2 DEF TickForce, ImagesTypeOK
    <3>3. CASE RemoveAnswered
      <4>1. NoRemoval \in [target : Images \cup {None}, force : BOOLEAN]
        BY DEF NoRemoval
      <4>2. [removal EXCEPT !.target = None] \in [target : Images \cup {None}, force : BOOLEAN]
        BY DEF ImagesTypeOK
      <4> QED
        BY <3>3, <4>1, <4>2 DEF RemoveAnswered, ImagesTypeOK
    <3>4. CASE \E image \in Images : OpenRemove(image)
      BY <3>4 DEF OpenRemove, NoRemoval, ImagesTypeOK
    <3> QED
      BY <1>3, <3>1, <3>2, <3>3, <3>4
  <2> QED
    BY <2>1, <2>2, QuietCalls
<1>4. CASE ImagesToast \/ ImagesEscape
  <2>1. Quietly \/ \E h : Hear(h)
    BY <1>4 DEF ImagesToast, ImagesEscape
  <2>2. ImagesTypeOK'
    BY <1>4 DEF ImagesToast, ImagesEscape, imagesVars, ImagesTypeOK
  <2> QED
    BY <2>1, <2>2, QuietCalls
<1>5. CASE SubmitPull \/ SubmitTag \/ ConfirmRemove \/ PruneDangling \/ ImportFile
  <2>1. UNCHANGED imagesVars
    BY <1>5 DEF SubmitPull, SubmitTag, ConfirmRemove, PruneDangling, ImportFile
  <2>2. \E request \in ImageRequests : Mutate(request) /\ request.hook \in ImageHooks
    <3>1. CASE SubmitPull
      <4> DEFINE request ==
            [hook |-> "pullImage", image |-> pull.name, tag |-> OrUndefined(pull.tag)]
      <4>1. request \in ImageRequests
        BY DEF ImagesTypeOK, ImageRequests, OrUndefined
      <4> QED
        BY <3>1, <4>1 DEF SubmitPull, ImageHooks
    <3>2. CASE SubmitTag
      <4> DEFINE request ==
            [hook |-> "tagImage", id |-> tagging.target, repository |-> tagging.repository,
             tag |-> IF tagging.tag = Blank THEN "latest" ELSE tagging.tag]
      <4>1. request \in ImageRequests
        BY <3>2 DEF SubmitTag, ImagesTypeOK, ImageRequests, Tags
      <4> QED
        BY <3>2, <4>1 DEF SubmitTag, ImageHooks
    <3>3. CASE ConfirmRemove
      <4> DEFINE request ==
            [hook |-> "removeImage", id |-> removal.target, force |-> removal.force]
      <4>1. request \in ImageRequests
        BY <3>3 DEF ConfirmRemove, ImagesTypeOK, ImageRequests
      <4> QED
        BY <3>3, <4>1 DEF ConfirmRemove, ImageHooks
    <3>4. CASE PruneDangling \/ ImportFile
      BY <3>4 DEF PruneDangling, ImportFile, ImageRequests, ImageHooks
    <3> QED
      BY <1>5, <3>1, <3>2, <3>3, <3>4
  <2>3. ImagesTypeOK'
    BY <2>1 DEF ImagesTypeOK, imagesVars
  <2> QED
    BY <1>0, <2>2, <2>3, MutateCalls
<1> QED
  BY <1>1, <1>2, <1>3, <1>4, <1>5 DEF ImagesNext

\* Types on the networks page.
LEMMA NetworksTypes ==
    ASSUME CallsTyped, NetworksTypeOK, page = "networks", NetworksNext
    PROVE  CallsTyped' /\ NetworksTypeOK' /\ sent' \in {None} \cup NetworkRequests
<1>0. HooksOf(page) = NetworkHooks
  BY DEF HooksOf
<1>1. CASE ~(SubmitNetwork \/ ConfirmRemoveNetwork)
  <2>1. Quietly \/ \E h : Hear(h)
    BY <1>1 DEF NetworksNext, OpenNetwork, CloseNetwork, EditNetwork, NetworkCreated,
                NetworkNotCreated, OpenRemoveNetwork, CloseRemoveNetwork,
                RemoveNetworkAnswered, NetworksEscape
  <2>2. NetworksTypeOK'
    <3>1. CASE OpenNetwork \/ CloseNetwork \/ NetworksEscape
      BY <3>1 DEF OpenNetwork, CloseNetwork, NetworksEscape, NetworksTypeOK
    <3>2. CASE EditNetwork
      BY <3>2 DEF EditNetwork, NetworksTypeOK
    <3>3. CASE NetworkCreated \/ NetworkNotCreated
      <4>1. NoNetwork \in [open : BOOLEAN, name : Texts, driver : NetworkDrivers,
                           internal : BOOLEAN]
        BY TextAssumption DEF NoNetwork, NetworkDrivers
      <4> QED
        BY <3>3, <4>1 DEF NetworkCreated, NetworkNotCreated, networksVars, NetworksTypeOK
    <3>4. CASE \/ \E name \in Networks : OpenRemoveNetwork(name)
              \/ CloseRemoveNetwork \/ RemoveNetworkAnswered
      BY <3>4 DEF OpenRemoveNetwork, CloseRemoveNetwork, RemoveNetworkAnswered, NetworksTypeOK
    <3> QED
      BY <1>1, <3>1, <3>2, <3>3, <3>4 DEF NetworksNext
  <2> QED
    BY <2>1, <2>2, QuietCalls
<1>2. CASE SubmitNetwork \/ ConfirmRemoveNetwork
  <2>1. NetworksTypeOK'
    BY <1>2 DEF SubmitNetwork, ConfirmRemoveNetwork, NetworksTypeOK, networksVars
  <2>2. \E request \in NetworkRequests : Mutate(request) /\ request.hook \in NetworkHooks
    <3>1. CASE SubmitNetwork
      <4> DEFINE request ==
            [hook |-> "createNetwork", name |-> network.name, driver |-> network.driver,
             internal |-> network.internal]
      <4>1. request \in NetworkRequests
        BY DEF NetworksTypeOK, NetworkRequests
      <4> QED
        BY <3>1, <4>1 DEF SubmitNetwork, NetworkHooks
    <3>2. CASE ConfirmRemoveNetwork
      BY <3>2 DEF ConfirmRemoveNetwork, NetworksTypeOK, NetworkRequests, NetworkHooks
    <3> QED
      BY <1>2, <3>1, <3>2
  <2> QED
    BY <1>0, <2>1, <2>2, MutateCalls
<1> QED
  BY <1>1, <1>2

\* Types on the volumes page.
LEMMA VolumesTypes ==
    ASSUME CallsTyped, VolumesTypeOK, page = "volumes", VolumesNext
    PROVE  CallsTyped' /\ VolumesTypeOK' /\ sent' \in {None} \cup VolumeRequests
<1>0. HooksOf(page) = VolumeHooks
  BY DEF HooksOf
<1>1. CASE ~(SubmitVolume \/ ConfirmRemoveVolume \/ PruneVolumes)
  <2>1. Quietly \/ \E h : Hear(h)
    BY <1>1 DEF VolumesNext, OpenVolume, CloseVolume, EditVolume, VolumeCreated,
                OpenRemoveVolume, CloseRemoveVolume, RemoveVolumeAnswered, VolumesToast,
                VolumesEscape
  <2>2. VolumesTypeOK'
    <3>1. CASE OpenVolume \/ CloseVolume \/ VolumesEscape
      BY <3>1 DEF OpenVolume, CloseVolume, VolumesEscape, VolumesTypeOK
    <3>2. CASE EditVolume
      BY <3>2 DEF EditVolume, VolumesTypeOK
    <3>3. CASE VolumeCreated \/ VolumesToast
      <4>1. NoVolume \in [open : BOOLEAN, name : Texts, driver : Drivers]
        BY TextAssumption DEF NoVolume, Drivers
      <4> QED
        BY <3>3, <4>1 DEF VolumeCreated, VolumesToast, volumesVars, VolumesTypeOK
    <3>4. CASE \/ \E name \in Volumes : OpenRemoveVolume(name)
              \/ CloseRemoveVolume \/ RemoveVolumeAnswered
      BY <3>4 DEF OpenRemoveVolume, CloseRemoveVolume, RemoveVolumeAnswered, VolumesTypeOK
    <3> QED
      BY <1>1, <3>1, <3>2, <3>3, <3>4 DEF VolumesNext
  <2> QED
    BY <2>1, <2>2, QuietCalls
<1>2. CASE SubmitVolume \/ ConfirmRemoveVolume \/ PruneVolumes
  <2>1. VolumesTypeOK'
    BY <1>2 DEF SubmitVolume, ConfirmRemoveVolume, PruneVolumes, VolumesTypeOK, volumesVars
  <2>2. \E request \in VolumeRequests : Mutate(request) /\ request.hook \in VolumeHooks
    <3>1. CASE SubmitVolume
      <4> DEFINE request ==
            [hook |-> "createVolume", name |-> OrUndefined(volume.name),
             driver |-> OrUndefined(volume.driver)]
      <4>1. request \in VolumeRequests
        BY DEF VolumesTypeOK, VolumeRequests, OrUndefined
      <4> QED
        BY <3>1, <4>1 DEF SubmitVolume, VolumeHooks
    <3>2. CASE ConfirmRemoveVolume
      <4> DEFINE request == [hook |-> "removeVolume", name |-> volumeGoing, force |-> TRUE]
      <4>1. request \in VolumeRequests
        BY <3>2 DEF ConfirmRemoveVolume, VolumesTypeOK, VolumeRequests
      <4> QED
        BY <3>2, <4>1 DEF ConfirmRemoveVolume, VolumeHooks
    <3>3. CASE PruneVolumes
      <4> DEFINE request == [hook |-> "pruneVolumes"]
      <4>1. request \in VolumeRequests
        BY DEF VolumeRequests
      <4> QED
        BY <3>3, <4>1 DEF PruneVolumes, VolumeHooks
    <3> QED
      BY <1>2, <3>1, <3>2, <3>3
  <2> QED
    BY <1>0, <2>1, <2>2, MutateCalls
<1> QED
  BY <1>1, <1>2

\* One row taken out, one row changed.
LEMMA RowRemoved ==
    ASSUME NEW S, NEW rows \in Seq(S), NEW i \in DOMAIN rows
    PROVE  RemoveAt(rows, i) \in Seq(S) /\ Len(RemoveAt(rows, i)) = Len(rows) - 1
BY DEF RemoveAt

LEMMA RowChanged ==
    ASSUME NEW S, NEW rows \in Seq(S), NEW i \in DOMAIN rows, NEW row \in S
    PROVE  /\ [rows EXCEPT ![i] = row] \in Seq(S)
           /\ Len([rows EXCEPT ![i] = row]) = Len(rows)
OBVIOUS

\* An edit of the form leaves a form, with no more rows than there is room for.
LEMMA EditTypes ==
    ASSUME CreateTypeOK, EditForm
    PROVE  CreateTypeOK'
<1> DEFINE nPorts == Len(form.ports)
           nEnv == Len(form.env)
           nVolumes == Len(form.volumes)
<1>0. /\ form \in Form /\ creating' = creating /\ creating \in BOOLEAN
      /\ form.ports \in Seq(PortRow) /\ form.env \in Seq(Texts) /\ form.volumes \in Seq(VolumeRow)
  BY DEF CreateTypeOK, EditForm, Form
<1>a. /\ nPorts \in Nat /\ nEnv \in Nat /\ nVolumes \in Nat
      /\ MaxRows \in Nat
  BY <1>0, FormAssumption
<1>b. nPorts + nEnv + nVolumes <= MaxRows
  BY DEF CreateTypeOK
<1>c. Rows = nPorts + nEnv + nVolumes
  BY DEF Rows
<1> HIDE DEF nPorts, nEnv, nVolumes
<1>1. CASE EditTexts \/ EditStart
  BY <1>0, <1>1, <1>b DEF EditTexts, EditStart, CreateTypeOK, Form, nPorts, nEnv, nVolumes
<1>2. ASSUME NEW rows \in Seq(PortRow), form' = [form EXCEPT !.ports = rows],
             Len(rows) + nEnv + nVolumes <= MaxRows
      PROVE  CreateTypeOK'
  BY <1>0, <1>2 DEF CreateTypeOK, Form, nPorts, nEnv, nVolumes
<1>3. ASSUME NEW rows \in Seq(Texts), form' = [form EXCEPT !.env = rows],
             nPorts + Len(rows) + nVolumes <= MaxRows
      PROVE  CreateTypeOK'
  BY <1>0, <1>3 DEF CreateTypeOK, Form, nPorts, nEnv, nVolumes
<1>4. ASSUME NEW rows \in Seq(VolumeRow), form' = [form EXCEPT !.volumes = rows],
             nPorts + nEnv + Len(rows) <= MaxRows
      PROVE  CreateTypeOK'
  BY <1>0, <1>4 DEF CreateTypeOK, Form, nPorts, nEnv, nVolumes
<1>5. CASE AddPort
  <2>1. emptyPort \in PortRow
    BY DEF emptyPort, PortRow, NoPort
  <2>2. /\ Append(form.ports, emptyPort) \in Seq(PortRow)
        /\ Len(Append(form.ports, emptyPort)) = nPorts + 1
    BY <1>0, <2>1, AppendProperties DEF nPorts, nEnv, nVolumes
  <2> QED
    <3>1. /\ form' = [form EXCEPT !.ports = Append(form.ports, emptyPort)]
          /\ nPorts + nEnv + nVolumes < MaxRows
      BY <1>5, <1>c DEF AddPort
    <3>2. Len(Append(form.ports, emptyPort)) + nEnv + nVolumes <= MaxRows
      BY <1>a, <2>2, <3>1
    <3> QED
      BY <1>2, <2>2, <3>1, <3>2
<1>6. CASE AddVariable
  <2>1. /\ Append(form.env, Blank) \in Seq(Texts)
        /\ Len(Append(form.env, Blank)) = nEnv + 1
    BY <1>0, TextAssumption, AppendProperties DEF nPorts, nEnv, nVolumes
  <2> QED
    <3>1. /\ form' = [form EXCEPT !.env = Append(form.env, Blank)]
          /\ nPorts + nEnv + nVolumes < MaxRows
      BY <1>6, <1>c DEF AddVariable
    <3>2. nPorts + Len(Append(form.env, Blank)) + nVolumes <= MaxRows
      BY <1>a, <2>1, <3>1
    <3> QED
      BY <1>3, <2>1, <3>1, <3>2
<1>7. CASE AddBind
  <2>1. emptyVolume \in VolumeRow
    BY TextAssumption DEF emptyVolume, VolumeRow
  <2>2. /\ Append(form.volumes, emptyVolume) \in Seq(VolumeRow)
        /\ Len(Append(form.volumes, emptyVolume)) = nVolumes + 1
    BY <1>0, <2>1, AppendProperties DEF nPorts, nEnv, nVolumes
  <2> QED
    <3>1. /\ form' = [form EXCEPT !.volumes = Append(form.volumes, emptyVolume)]
          /\ nPorts + nEnv + nVolumes < MaxRows
      BY <1>7, <1>c DEF AddBind
    <3>2. nPorts + nEnv + Len(Append(form.volumes, emptyVolume)) <= MaxRows
      BY <1>a, <2>2, <3>1
    <3> QED
      BY <1>4, <2>2, <3>1, <3>2
<1>8. CASE EditPort
  <2>1. PICK i \in DOMAIN form.ports :
          \/ \E row \in PortRow :
               form' = [form EXCEPT !.ports = [form.ports EXCEPT ![i] = row]]
          \/ form' = [form EXCEPT !.ports = RemoveAt(form.ports, i)]
    <3>1. PICK i \in DOMAIN form.ports :
            \/ \E text \in Ports \cup NoPort :
                 form' = [form EXCEPT !.ports[i].containerPort = text]
            \/ \E text \in HostPorts \cup NoPort :
                 form' = [form EXCEPT !.ports[i].hostPort = text]
            \/ \E protocol \in {"tcp", "udp"} :
                 form' = [form EXCEPT !.ports[i].protocol = protocol]
            \/ form' = [form EXCEPT !.ports = RemoveAt(form.ports, i)]
      BY <1>8 DEF EditPort
    <3>2. form.ports[i] \in PortRow
      BY <1>0
    <3>3. /\ \A text \in Ports \cup NoPort :
               [form.ports[i] EXCEPT !.containerPort = text] \in PortRow
          /\ \A text \in HostPorts \cup NoPort :
               [form.ports[i] EXCEPT !.hostPort = text] \in PortRow
          /\ \A protocol \in {"tcp", "udp"} :
               [form.ports[i] EXCEPT !.protocol = protocol] \in PortRow
      BY <3>2 DEF PortRow
    <3> QED
      BY <3>1, <3>3
  <2>2. CASE \E row \in PortRow : form' = [form EXCEPT !.ports = [form.ports EXCEPT ![i] = row]]
    BY <1>0, <1>2, <1>b, <2>2, RowChanged DEF nPorts, nEnv, nVolumes
  <2>3. CASE form' = [form EXCEPT !.ports = RemoveAt(form.ports, i)]
    <3> DEFINE rows == RemoveAt(form.ports, i)
    <3>1. rows \in Seq(PortRow) /\ Len(rows) = nPorts - 1
      BY <1>0, RowRemoved DEF nPorts, nEnv, nVolumes
    <3> HIDE DEF rows
    <3>2. Len(rows) + nEnv + nVolumes <= MaxRows
      BY <1>a, <1>b, <3>1
    <3> QED
      BY <1>2, <2>3, <3>1, <3>2 DEF rows
  <2> QED
    BY <2>1, <2>2, <2>3
<1>9. CASE EditVariable
  <2>1. PICK i \in DOMAIN form.env :
          \/ \E text \in Texts : form' = [form EXCEPT !.env = [form.env EXCEPT ![i] = text]]
          \/ form' = [form EXCEPT !.env = RemoveAt(form.env, i)]
    BY <1>9 DEF EditVariable
  <2>2. CASE \E text \in Texts : form' = [form EXCEPT !.env = [form.env EXCEPT ![i] = text]]
    BY <1>0, <1>3, <1>b, <2>2, RowChanged DEF nPorts, nEnv, nVolumes
  <2>3. CASE form' = [form EXCEPT !.env = RemoveAt(form.env, i)]
    <3> DEFINE rows == RemoveAt(form.env, i)
    <3>1. rows \in Seq(Texts) /\ Len(rows) = nEnv - 1
      BY <1>0, RowRemoved DEF nPorts, nEnv, nVolumes
    <3> HIDE DEF rows
    <3>2. nPorts + Len(rows) + nVolumes <= MaxRows
      BY <1>a, <1>b, <3>1
    <3> QED
      BY <1>3, <2>3, <3>1, <3>2 DEF rows
  <2> QED
    BY <2>1, <2>2, <2>3
<1>10. CASE EditBind
  <2>1. PICK i \in DOMAIN form.volumes :
          \/ \E row \in VolumeRow :
               form' = [form EXCEPT !.volumes = [form.volumes EXCEPT ![i] = row]]
          \/ form' = [form EXCEPT !.volumes = RemoveAt(form.volumes, i)]
    <3>1. PICK i \in DOMAIN form.volumes :
            \/ \E text \in Texts :
                 \/ form' = [form EXCEPT !.volumes[i].source = text]
                 \/ form' = [form EXCEPT !.volumes[i].target = text]
            \/ form' = [form EXCEPT !.volumes = RemoveAt(form.volumes, i)]
      BY <1>10 DEF EditBind
    <3>2. form.volumes[i] \in VolumeRow
      BY <1>0
    <3>3. \A text \in Texts : /\ [form.volumes[i] EXCEPT !.source = text] \in VolumeRow
                              /\ [form.volumes[i] EXCEPT !.target = text] \in VolumeRow
      BY <3>2 DEF VolumeRow
    <3> QED
      BY <3>1, <3>3
  <2>2. CASE \E row \in VolumeRow :
               form' = [form EXCEPT !.volumes = [form.volumes EXCEPT ![i] = row]]
    BY <1>0, <1>4, <1>b, <2>2, RowChanged DEF nPorts, nEnv, nVolumes
  <2>3. CASE form' = [form EXCEPT !.volumes = RemoveAt(form.volumes, i)]
    <3> DEFINE rows == RemoveAt(form.volumes, i)
    <3>1. rows \in Seq(VolumeRow) /\ Len(rows) = nVolumes - 1
      BY <1>0, RowRemoved DEF nPorts, nEnv, nVolumes
    <3> HIDE DEF rows
    <3>2. nPorts + nEnv + Len(rows) <= MaxRows
      BY <1>a, <1>b, <3>1
    <3> QED
      BY <1>4, <2>3, <3>1, <3>2 DEF rows
  <2> QED
    BY <2>1, <2>2, <2>3
<1> QED
  BY <1>1, <1>5, <1>6, <1>7, <1>8, <1>9, <1>10 DEF EditForm

\* So is the empty form.
LEMMA EmptyTypes ==
    /\ EmptyForm \in Form
    /\ Len(EmptyForm.ports) + Len(EmptyForm.env) + Len(EmptyForm.volumes) <= MaxRows
<1>1. <<>> \in Seq(PortRow) /\ <<>> \in Seq(Texts) /\ <<>> \in Seq(VolumeRow)
  OBVIOUS
<1> QED
  BY <1>1, TextAssumption, FormAssumption DEF EmptyForm, Form

\* Types on the containers page: what it sends is the form on display or a row's request.
LEMMA ContainersTypes ==
    ASSUME CallsTyped, ContainersTypeOK, page = "containers", ContainersNext
    PROVE  /\ CallsTyped' /\ ContainersTypeOK'
           /\ \/ sent' \in {None} \cup ContainerRequests
              \/ sent' = CreateRequest /\ form' = form
<1>0. HooksOf(page) = ContainerHooks
  BY DEF HooksOf
<1>1. ASSUME UNCHANGED createVars \/ Reset PROVE CreateTypeOK'
  BY <1>1, EmptyTypes DEF Reset, CreateTypeOK, ContainersTypeOK, createVars
<1>2. CASE SubmitCreate /\ UNCHANGED containerGoing
  <2>1. Mutate(CreateRequest) /\ CreateRequest.hook \in ContainerHooks /\ UNCHANGED createVars
    BY <1>2 DEF SubmitCreate, CreateRequest, ContainerHooks
  <2> QED
    BY <1>0, <1>1, <1>2, <2>1, MutateCalls DEF ContainersTypeOK, createVars
<1>3. CASE CreateNext /\ ~SubmitCreate /\ UNCHANGED containerGoing
  <2>1. Quietly \/ \E h : Hear(h)
    BY <1>3 DEF CreateNext, ContainerCreated, ContainerNotCreated
  <2>2. CreateTypeOK'
    <3>1. CASE OpenCreate
      BY <3>1 DEF OpenCreate, CreateTypeOK, ContainersTypeOK
    <3>2. CASE EditForm
      BY <3>2, EditTypes DEF ContainersTypeOK
    <3>3. CASE ~(OpenCreate \/ EditForm)
      BY <1>1, <1>3, <3>3 DEF CreateNext, CloseCreate, ContainerCreated, ContainerNotCreated
    <3> QED
      BY <3>1, <3>2, <3>3
  <2> QED
    BY <1>3, <2>1, <2>2, QuietCalls DEF ContainersTypeOK
<1>4. ASSUME NEW container \in Containers, RunAction(container)
      PROVE  /\ CallsTyped' /\ ContainersTypeOK' /\ sent' \in ContainerRequests
  <2>1. PICK state \in States : \E action \in Buttons(state) :
          Mutate([hook |-> "containerAction", id |-> container, action |-> action])
    BY <1>4 DEF RunAction
  <2>1a. PICK action \in Buttons(state) :
          Mutate([hook |-> "containerAction", id |-> container, action |-> action])
    BY <2>1
  <2> DEFINE request == [hook |-> "containerAction", id |-> container, action |-> action]
  <2>2. action \in {"start", "stop", "restart", "pause", "unpause"}
    BY DEF Buttons
  <2>3. request \in ContainerRequests /\ request.hook \in ContainerHooks
    BY <2>2 DEF ContainerRequests, ContainerHooks
  <2>4. CallsTyped' /\ sent' = request
    BY <1>0, <2>1a, <2>3, MutateCalls
  <2>5. UNCHANGED createVars /\ UNCHANGED containerGoing
    BY <1>4 DEF RunAction, containersVars, createVars
  <2> QED
    BY <1>1, <2>3, <2>4, <2>5 DEF ContainersTypeOK
<1>5. CASE ConfirmRemoveContainer
  <2> DEFINE request == [hook |-> "removeContainer", id |-> containerGoing, force |-> TRUE]
  <2>1. request \in ContainerRequests /\ request.hook \in ContainerHooks
    BY <1>5 DEF ConfirmRemoveContainer, ContainersTypeOK, ContainerRequests, ContainerHooks
  <2>2. CallsTyped' /\ sent' = request
    BY <1>0, <1>5, <2>1, MutateCalls DEF ConfirmRemoveContainer
  <2>3. UNCHANGED createVars /\ UNCHANGED containerGoing
    BY <1>5 DEF ConfirmRemoveContainer, containersVars, createVars
  <2> QED
    BY <1>1, <2>1, <2>2, <2>3 DEF ContainersTypeOK
<1>6. CASE \/ \E container \in Containers : OpenRemoveContainer(container)
           \/ ActionAnswered \/ CloseRemoveContainer \/ RemoveContainerAnswered
           \/ ContainersEscape
  <2>1. Quietly \/ \E h : Hear(h)
    BY <1>6 DEF OpenRemoveContainer, ActionAnswered, CloseRemoveContainer,
                RemoveContainerAnswered, ContainersEscape
  <2>2. UNCHANGED createVars \/ Reset
    BY <1>6 DEF OpenRemoveContainer, ActionAnswered, CloseRemoveContainer,
                RemoveContainerAnswered, ContainersEscape, containersVars, createVars
  <2>3. containerGoing' \in Containers \cup {None}
    BY <1>6 DEF OpenRemoveContainer, ActionAnswered, CloseRemoveContainer,
                RemoveContainerAnswered, ContainersEscape, containersVars, ContainersTypeOK
  <2> QED
    BY <1>1, <2>1, <2>2, <2>3, QuietCalls DEF ContainersTypeOK
<1> QED
  BY <1>2, <1>3, <1>4, <1>5, <1>6 DEF ContainersNext

\* What was sent is typed; a request to create a container is that of the form on display.
SentTyped ==
    \/ sent \in {None, CreateRequest}
    \/ sent \in ImageRequests \cup NetworkRequests \cup VolumeRequests \cup ContainerRequests

\* The fields of every dialog, the arguments of every call and the mutation objects under way
\* keep their types on every page, and a page has calls of its own hooks alone under way.
THEOREM ConsoleTyping == Spec => []TypeOK
<1>0. TypeOK <=> /\ CallsTyped /\ SentTyped
                 /\ ImagesTypeOK /\ NetworksTypeOK /\ VolumesTypeOK /\ ContainersTypeOK
  BY DEF TypeOK, CallsTyped, SentTyped
<1>1. ASSUME ImagesForgotten PROVE ImagesTypeOK'
  BY <1>1, TextAssumption
     DEF ImagesForgotten, ImagesTypeOK, NoPull, NoTagging, NoRemoval, Tags
<1>2. ASSUME NetworksForgotten PROVE NetworksTypeOK'
  BY <1>2, TextAssumption DEF NetworksForgotten, NetworksTypeOK, NoNetwork, NetworkDrivers
<1>3. ASSUME VolumesForgotten PROVE VolumesTypeOK'
  BY <1>3, TextAssumption DEF VolumesForgotten, VolumesTypeOK, NoVolume, Drivers
<1>4. ASSUME ContainersForgotten PROVE ContainersTypeOK'
  BY <1>4, EmptyTypes DEF ContainersForgotten, ContainersTypeOK, Reset, CreateTypeOK
<1>5. Init => TypeOK
  <2> SUFFICES ASSUME Init PROVE TypeOK
    OBVIOUS
  <2>1. ImagesTypeOK /\ NetworksTypeOK /\ VolumesTypeOK
    BY TextAssumption
       DEF Init, Fresh, ImagesFresh, NetworksFresh, VolumesFresh, ImagesTypeOK, NetworksTypeOK,
           VolumesTypeOK, NoPull, NoTagging, NoRemoval, NoNetwork, NoVolume, Tags,
           NetworkDrivers, Drivers
  <2>2. ContainersTypeOK
    BY EmptyTypes DEF Init, Fresh, ContainersFresh, CreateFresh, ContainersTypeOK, CreateTypeOK
  <2>3. CallsTyped /\ SentTyped
    BY DEF Init, MutationsInit, CallsTyped, SentTyped
  <2> QED
    BY <1>0, <2>1, <2>2, <2>3
<1>6. TypeOK /\ [Next]_vars => TypeOK'
  <2> SUFFICES ASSUME TypeOK, [Next]_vars PROVE TypeOK'
    OBVIOUS
  <2>0. TypeOK' <=> /\ CallsTyped' /\ SentTyped'
                    /\ ImagesTypeOK' /\ NetworksTypeOK' /\ VolumesTypeOK' /\ ContainersTypeOK'
    BY DEF TypeOK, CallsTyped, SentTyped
  <2>1. ASSUME UNCHANGED imagesVars PROVE ImagesTypeOK'
    BY <1>0, <2>1 DEF imagesVars, ImagesTypeOK
  <2>2. ASSUME UNCHANGED networksVars PROVE NetworksTypeOK'
    BY <1>0, <2>2 DEF networksVars, NetworksTypeOK
  <2>3. ASSUME UNCHANGED volumesVars PROVE VolumesTypeOK'
    BY <1>0, <2>3 DEF volumesVars, VolumesTypeOK
  <2>4. ASSUME UNCHANGED containersVars PROVE ContainersTypeOK'
    BY <1>0, <2>4 DEF containersVars, ContainersTypeOK, CreateTypeOK
  <2>5. ASSUME \/ sent' \in {None} \cup ImageRequests \cup NetworkRequests \cup VolumeRequests
                            \cup ContainerRequests
               \/ sent' = CreateRequest /\ form' = form
        PROVE  SentTyped'
    BY <2>5 DEF SentTyped, CreateRequest
  <2>6. CASE OnImages
    BY <1>0, <2>0, <2>2, <2>3, <2>4, <2>5, <2>6, ImagesTypes DEF OnImages
  <2>7. CASE OnNetworks
    BY <1>0, <2>0, <2>1, <2>3, <2>4, <2>5, <2>7, NetworksTypes DEF OnNetworks
  <2>8. CASE OnVolumes
    BY <1>0, <2>0, <2>1, <2>2, <2>4, <2>5, <2>8, VolumesTypes DEF OnVolumes
  <2>9. CASE OnContainers
    BY <1>0, <2>0, <2>1, <2>2, <2>3, <2>5, <2>9, ContainersTypes DEF OnContainers
  <2>10. ASSUME NEW p \in Pages, Go(p) PROVE TypeOK'
    <3>1. CallsTyped' /\ sent' = None
      BY <2>10 DEF Go, Leave, CallsTyped
    <3> QED
      BY <1>1, <1>2, <1>3, <1>4, <2>0, <2>5, <2>10, <3>1 DEF Go
  <2>11. CASE UNCHANGED vars
    <3>1. CallsTyped' /\ SentTyped'
      BY <1>0, <2>11 DEF vars, mutationVars, containersVars, CallsTyped, SentTyped, CreateRequest
    <3> QED
      BY <2>0, <2>1, <2>2, <2>3, <2>4, <2>11, <3>1 DEF vars
  <2> QED
    BY <2>6, <2>7, <2>8, <2>9, <2>10, <2>11 DEF Next
<1> QED
  BY <1>5, <1>6, PTL DEF Spec

-----------------------------------------------------------------------------
(***************************************************************************)
(* The rows of the form                                                    *)
(***************************************************************************)

\* A set of naturals that holds 0 and every successor of its members holds all of them.
LEMMA SetInduction ==
    ASSUME NEW T \in SUBSET Nat, 0 \in T, \A n \in T : n + 1 \in T
    PROVE  T = Nat
<1> DEFINE R == {pair \in Nat \X Nat : pair[1] < pair[2]}
<1>1. IsWellFoundedOn(R, Nat)
  BY NatLessThanWellFounded DEF OpToRel
<1>2. SUFFICES ASSUME Nat \ T # {} PROVE FALSE
  OBVIOUS
<1>3. PICK m \in Nat \ T : \A n \in Nat \ T : ~(<<n, m>> \in R)
  <2> HIDE DEF R
  <2> QED
    BY <1>1, <1>2, WFMin
<1>4. m - 1 \in Nat \ T
  BY <1>3
<1>5. <<m - 1, m>> \in R
  BY <1>4
<1> QED
  BY <1>3, <1>4, <1>5

\* f[n] holds the rows among the first n that are not blank.
Filters(f, rows, blanks, m) ==
    f = [n \in 0..m |->
           IF n = 0 THEN <<>>
           ELSE IF rows[n] \in blanks THEN f[n - 1] ELSE Append(f[n - 1], rows[n])]

\* There is such an f for every number of rows.
LEMMA FiltersExists ==
    ASSUME NEW rows, NEW blanks, NEW m \in Nat
    PROVE  \E f : Filters(f, rows, blanks, m)
<1> DEFINE N == {k \in Nat : \E f : Filters(f, rows, blanks, k)}
           Next1(before, n) == IF rows[n] \in blanks THEN before ELSE Append(before, rows[n])
<1>1. 0 \in N
  <2>1. Filters([n \in 0..0 |-> <<>>], rows, blanks, 0)
    BY DEF Filters
  <2> QED
    BY <2>1
<1>2. ASSUME NEW k \in N PROVE k + 1 \in N
  <2>1. PICK f : Filters(f, rows, blanks, k)
    OBVIOUS
  <2> DEFINE g == [n \in 0..(k + 1) |-> IF n = k + 1 THEN Next1(f[k], k + 1) ELSE f[n]]
  <2>2. \A n \in 0..k : f[n] = IF n = 0 THEN <<>> ELSE Next1(f[n - 1], n)
    BY <2>1 DEF Filters
  <2> HIDE DEF Next1
  <2>3. ASSUME NEW n \in 0..(k + 1)
        PROVE  g[n] = IF n = 0 THEN <<>> ELSE Next1(g[n - 1], n)
    <3>1. CASE n = k + 1
      BY <3>1
    <3>2. CASE n \in 0..k
      <4>1. g[n] = f[n] /\ (n # 0 => g[n - 1] = f[n - 1])
        BY <3>2
      <4> QED
        BY <2>2, <3>2, <4>1
    <3> QED
      BY <3>1, <3>2
  <2>4. Filters(g, rows, blanks, k + 1)
    BY <2>3, Zenon DEF Filters, Next1
  <2> QED
    BY <2>4
<1>3. N = Nat
  <2>1. N \in SUBSET Nat
    OBVIOUS
  <2> HIDE DEF N
  <2> QED
    BY <1>1, <1>2, <2>1, SetInduction
<1> QED
  BY <1>3

\* What is left of the first n rows is those that are not blank, in their order: `at` says
\* where each of them was.
Left(kept, rows, blanks, n) ==
    \E at \in [1..Len(kept) -> 1..n] :
      /\ \A j, k \in 1..Len(kept) : j < k => at[j] < at[k]
      /\ \A k \in 1..Len(kept) : kept[k] = rows[at[k]]
      /\ \A i \in 1..n : rows[i] \notin blanks <=> \E k \in 1..Len(kept) : at[k] = i

\* Without computes what is left, in its order.
LEMMA WithoutLaw ==
    ASSUME NEW S, NEW rows \in Seq(S), NEW blanks
    PROVE  /\ Without(rows, blanks) \in Seq(S)
           /\ Left(Without(rows, blanks), rows, blanks, Len(rows))
<1> DEFINE m == Len(rows)
           f == CHOOSE f : Filters(f, rows, blanks, m)
           Good(n) == f[n] \in Seq(S) /\ Left(f[n], rows, blanks, n)
           N == {n \in Nat : n <= m => Good(n)}
<1>0. m \in Nat
  OBVIOUS
<1>1. Filters(f, rows, blanks, m)
  BY <1>0, FiltersExists, Zenon
<1>2. Without(rows, blanks) = f[m]
  BY DEF Without, Filters
<1>3. \A n \in 0..m : f[n] = IF n = 0 THEN <<>>
                             ELSE IF rows[n] \in blanks THEN f[n - 1]
                             ELSE Append(f[n - 1], rows[n])
  BY <1>1 DEF Filters
<1> HIDE DEF f, m
<1>4. 0 \in N
  <2>1. f[0] = <<>>
    <3>1. 0 \in 0..m
      BY <1>0
    <3> QED
      BY <1>3, <3>1
  <2>2. <<>> \in Seq(S) /\ Len(<<>>) = 0
    OBVIOUS
  <2>3. Left(<<>>, rows, blanks, 0)
    <3> DEFINE at == [k \in 1..Len(<<>>) |-> k]
    <3>1. at \in [1..Len(<<>>) -> 1..0] /\ 1..Len(<<>>) = {}
      BY <2>2
    <3> QED
      BY <3>1 DEF Left
  <2> QED
    BY <2>1, <2>2, <2>3
<1>5. ASSUME NEW n \in N PROVE n + 1 \in N
  <2> SUFFICES ASSUME n + 1 <= m PROVE Good(n + 1)
    OBVIOUS
  <2>1. n \in Nat /\ n <= m /\ Good(n) /\ n + 1 \in 0..m /\ rows[n + 1] \in S
    BY <1>0 DEF m
  <2> DEFINE w == f[n]
  <2>2. w \in Seq(S) /\ Len(w) \in Nat
    BY <2>1
  <2>3. PICK at \in [1..Len(w) -> 1..n] :
          /\ \A j, k \in 1..Len(w) : j < k => at[j] < at[k]
          /\ \A k \in 1..Len(w) : w[k] = rows[at[k]]
          /\ \A i \in 1..n : rows[i] \notin blanks <=> \E k \in 1..Len(w) : at[k] = i
    BY <2>1 DEF Left
  <2>4. CASE rows[n + 1] \in blanks
    <3>1. f[n + 1] = w
      BY <1>3, <2>1, <2>4
    <3> HIDE DEF w
    <3>2. at \in [1..Len(w) -> 1..(n + 1)]
      BY <2>1, <2>3
    <3>3. ASSUME NEW i \in 1..(n + 1)
          PROVE  rows[i] \notin blanks <=> \E k \in 1..Len(w) : at[k] = i
      <4>1. CASE i \in 1..n
        BY <2>3, <4>1
      <4>2. CASE i = n + 1
        <5>1. \A k \in 1..Len(w) : at[k] # n + 1
          BY <2>1, <2>3
        <5> QED
          BY <2>4, <4>2, <5>1
      <4> QED
        BY <2>1, <4>1, <4>2
    <3>4. Left(w, rows, blanks, n + 1)
      BY <2>3, <3>2, <3>3 DEF Left
    <3> QED
      BY <2>2, <3>1, <3>4
  <2>5. CASE rows[n + 1] \notin blanks
    <3> DEFINE l == Len(w)
               v == Append(w, rows[n + 1])
               to == [k \in 1..(l + 1) |-> IF k <= l THEN at[k] ELSE n + 1]
    <3>1. f[n + 1] = v
      <4>1. n + 1 # 0 /\ (n + 1) - 1 = n
        BY <2>1
      <4> QED
        BY <1>3, <2>1, <2>5, <4>1
    <3>2. /\ v \in Seq(S) /\ Len(v) = l + 1 /\ l \in Nat
          /\ \A k \in 1..l : v[k] = w[k]
          /\ v[l + 1] = rows[n + 1]
      BY <2>1, <2>2, AppendProperties
    <3>3. /\ \A k \in 1..l : at[k] \in 1..n
          /\ \A j, k \in 1..l : j < k => at[j] < at[k]
          /\ \A k \in 1..l : w[k] = rows[at[k]]
          /\ \A i \in 1..n : rows[i] \notin blanks <=> \E k \in 1..l : at[k] = i
      BY <2>3
    <3> HIDE DEF w, l, v
    <3>4. /\ \A k \in 1..l : k \in 1..(l + 1) /\ to[k] = at[k]
          /\ l + 1 \in 1..(l + 1) /\ to[l + 1] = n + 1
          /\ \A k \in 1..(l + 1) : k \in 1..l \/ k = l + 1
      BY <3>2
    <3>5. to \in [1..(l + 1) -> 1..(n + 1)]
      BY <2>1, <3>2, <3>3, <3>4
    <3> HIDE DEF to
    <3>6. ASSUME NEW j \in 1..(l + 1), NEW k \in 1..(l + 1), j < k PROVE to[j] < to[k]
      <4>1. j \in 1..l
        BY <3>2, <3>6
      <4>2. CASE k \in 1..l
        BY <3>3, <3>4, <3>6, <4>1, <4>2
      <4>3. CASE k = l + 1
        BY <2>1, <3>3, <3>4, <4>1, <4>3
      <4> QED
        BY <3>4, <4>2, <4>3
    <3>7. ASSUME NEW k \in 1..(l + 1) PROVE v[k] = rows[to[k]]
      BY <3>2, <3>3, <3>4
    <3>8. ASSUME NEW i \in 1..(n + 1)
          PROVE  rows[i] \notin blanks <=> \E k \in 1..(l + 1) : to[k] = i
      <4>1. CASE i \in 1..n
        <5>1. i # n + 1
          BY <2>1, <4>1
        <5>2. (\E k \in 1..(l + 1) : to[k] = i) <=> \E k \in 1..l : at[k] = i
          BY <3>4, <5>1
        <5> QED
          BY <3>3, <4>1, <5>2
      <4>2. CASE i = n + 1
        BY <2>5, <3>4, <4>2
      <4> QED
        BY <2>1, <4>1, <4>2
    <3>9. Left(v, rows, blanks, n + 1)
      <4>1. /\ to \in [1..Len(v) -> 1..(n + 1)]
            /\ \A j, k \in 1..Len(v) : j < k => to[j] < to[k]
            /\ \A k \in 1..Len(v) : v[k] = rows[to[k]]
            /\ \A i \in 1..(n + 1) :
                 rows[i] \notin blanks <=> \E k \in 1..Len(v) : to[k] = i
        BY <3>2, <3>5, <3>6, <3>7, <3>8
      <4> QED
        BY <4>1, Zenon DEF Left
    <3> QED
      BY <3>1, <3>2, <3>9
  <2> QED
    BY <2>4, <2>5
<1>6. N = Nat
  <2>1. N \in SUBSET Nat
    OBVIOUS
  <2> HIDE DEF N
  <2> QED
    BY <1>4, <1>5, <2>1, SetInduction
<1> QED
  BY <1>0, <1>2, <1>6 DEF m

-----------------------------------------------------------------------------
(***************************************************************************)
(* The engine's port bindings                                              *)
(***************************************************************************)

\* f[n] holds the bindings of the first n ports.
Binds(f, ports, m) ==
    f = [n \in 0..m |-> IF n = 0 THEN <<>> ELSE Bind(f[n - 1], ports[n])]

\* There is such an f for every number of ports.
LEMMA BindsExists ==
    ASSUME NEW ports, NEW m \in Nat
    PROVE  \E f : Binds(f, ports, m)
<1> DEFINE N == {k \in Nat : \E f : Binds(f, ports, k)}
<1>1. 0 \in N
  <2>1. Binds([n \in 0..0 |-> <<>>], ports, 0)
    BY DEF Binds
  <2> QED
    BY <2>1
<1>2. ASSUME NEW k \in N PROVE k + 1 \in N
  <2>1. PICK f : Binds(f, ports, k)
    OBVIOUS
  <2> DEFINE g == [n \in 0..(k + 1) |-> IF n = k + 1 THEN Bind(f[k], ports[k + 1]) ELSE f[n]]
  <2>2. \A n \in 0..k : f[n] = IF n = 0 THEN <<>> ELSE Bind(f[n - 1], ports[n])
    BY <2>1 DEF Binds
  <2>3. ASSUME NEW n \in 0..(k + 1)
        PROVE  g[n] = IF n = 0 THEN <<>> ELSE Bind(g[n - 1], ports[n])
    <3>1. CASE n = k + 1
      BY <3>1
    <3>2. CASE n \in 0..k
      <4>1. g[n] = f[n] /\ (n # 0 => g[n - 1] = f[n - 1])
        BY <3>2
      <4> QED
        BY <2>2, <3>2, <4>1
    <3> QED
      BY <3>1, <3>2
  <2>4. Binds(g, ports, k + 1)
    BY <2>3, Zenon DEF Binds
  <2> QED
    BY <2>4
<1>3. N = Nat
  <2>1. N \in SUBSET Nat
    OBVIOUS
  <2> HIDE DEF N
  <2> QED
    BY <1>1, <1>2, <2>1, SetInduction
<1> QED
  BY <1>3

\* The first n ports bind the keys of those that have a host port, each to the host port of
\* the last of them.
Numbered(ports, n) == {i \in 1..n : ports[i].hostPort # None}

Bound(bindings, ports, n) ==
    /\ DOMAIN bindings = {Key(ports[i]) : i \in Numbered(ports, n)}
    /\ \A i \in Numbered(ports, n) :
         (\A j \in Numbered(ports, n) : Key(ports[j]) = Key(ports[i]) => j <= i)
           => bindings[Key(ports[i])] = ports[i].hostPort

\* One more port keeps the bindings right.
LEMMA BindStep ==
    ASSUME NEW ports, NEW n \in Nat, NEW bindings, Bound(bindings, ports, n)
    PROVE  Bound(Bind(bindings, ports[n + 1]), ports, n + 1)
<1> DEFINE old == Numbered(ports, n)
           new == Numbered(ports, n + 1)
           port == ports[n + 1]
           after == Bind(bindings, port)
<1>1. /\ \A i \in old : i \in Nat /\ i <= n /\ ports[i].hostPort # None
      /\ n + 1 \notin old
  BY DEF Numbered
<1>2. CASE port.hostPort = None
  <2>1. new = old
    BY <1>2 DEF Numbered
  <2>2. after = bindings
    BY <1>2 DEF Bind
  <2> HIDE DEF old, new, after
  <2> QED
    BY <2>1, <2>2 DEF Bound, old, new, after
<1>3. CASE port.hostPort # None
  <2>1. new = old \cup {n + 1}
    BY <1>3 DEF Numbered
  <2>2. after = [key \in DOMAIN bindings \cup {Key(port)} |->
                   IF key = Key(port) THEN port.hostPort ELSE bindings[key]]
    BY <1>3 DEF Bind
  <2>3. /\ DOMAIN bindings = {Key(ports[i]) : i \in old}
        /\ \A i \in old : (\A j \in old : Key(ports[j]) = Key(ports[i]) => j <= i)
                            => bindings[Key(ports[i])] = ports[i].hostPort
    BY DEF Bound
  <2> HIDE DEF old, new, after
  <2>4. DOMAIN after = {Key(ports[i]) : i \in new}
    <3>1. DOMAIN after = DOMAIN bindings \cup {Key(port)}
      BY <2>2
    <3> QED
      BY <2>1, <2>3, <3>1
  <2>5. ASSUME NEW i \in new, \A j \in new : Key(ports[j]) = Key(ports[i]) => j <= i
        PROVE  after[Key(ports[i])] = ports[i].hostPort
    <3>1. CASE i = n + 1
      <4>1. after[Key(port)] = port.hostPort
        BY <2>2
      <4> QED
        BY <3>1, <4>1
    <3>2. CASE i \in old
      <4>1. n + 1 \in new /\ ~(n + 1 <= i)
        BY <1>1, <2>1, <3>2
      <4>2. Key(ports[i]) # Key(port)
        BY <2>5, <4>1
      <4>3. Key(ports[i]) \in DOMAIN bindings
        BY <2>3, <3>2
      <4>4. after[Key(ports[i])] = bindings[Key(ports[i])]
        BY <2>2, <4>2, <4>3
      <4>5. \A j \in old : Key(ports[j]) = Key(ports[i]) => j <= i
        BY <2>1, <2>5
      <4> QED
        BY <2>3, <3>2, <4>4, <4>5
    <3> QED
      BY <2>1, <3>1, <3>2
  <2> QED
    BY <2>4, <2>5 DEF Bound, old, new, after
<1> QED
  BY <1>2, <1>3

\* Bindings has the last row for each port that has a host port.
LEMMA BindingsLaw ==
    ASSUME NEW ports, Len(ports) \in Nat
    PROVE  Bound(Bindings(ports), ports, Len(ports))
<1> DEFINE m == Len(ports)
           f == CHOOSE f : Binds(f, ports, m)
           N == {n \in Nat : n <= m => Bound(f[n], ports, n)}
<1>1. Binds(f, ports, m)
  BY BindsExists, Zenon
<1>2. Bindings(ports) = f[m]
  BY DEF Bindings, Binds
<1>3. \A n \in 0..m : f[n] = IF n = 0 THEN <<>> ELSE Bind(f[n - 1], ports[n])
  BY <1>1 DEF Binds
<1>0. m \in Nat
  OBVIOUS
<1> HIDE DEF f, m
<1>4. 0 \in N
  <2>1. f[0] = <<>>
    BY <1>0, <1>3
  <2>2. Numbered(ports, 0) = {}
    BY DEF Numbered
  <2>3. DOMAIN <<>> = {}
    OBVIOUS
  <2> QED
    BY <2>1, <2>2, <2>3 DEF Bound
<1>5. ASSUME NEW n \in N PROVE n + 1 \in N
  <2> SUFFICES ASSUME n + 1 <= m PROVE Bound(f[n + 1], ports, n + 1)
    OBVIOUS
  <2>1. n \in Nat /\ n <= m /\ Bound(f[n], ports, n) /\ n + 1 \in 0..m
    BY <1>0
  <2>2. f[n + 1] = Bind(f[n], ports[n + 1])
    BY <1>3, <2>1
  <2> QED
    BY <2>1, <2>2, BindStep
<1>6. N = Nat
  <2>1. N \in SUBSET Nat
    OBVIOUS
  <2> HIDE DEF N
  <2> QED
    BY <1>4, <1>5, <2>1, SetInduction
<1> QED
  BY <1>0, <1>2, <1>6 DEF m

-----------------------------------------------------------------------------
(***************************************************************************)
(* From the form to the engine                                             *)
(***************************************************************************)

\* What RowsReachEngine says of a request and the fields it was made of: the engine publishes
\* what the rows of ports say, and gets the rest of the form.
Publishes(created, rows) ==
    LET Of(i)    == <<NumberOf[rows[i].containerPort], rows[i].protocol>>
        filled   == {i \in DOMAIN rows : rows[i].containerPort # Blank}
        numbered == {i \in filled : rows[i].hostPort \notin NoPort}
    IN  /\ created.exposed = {Of(i) : i \in filled}
        /\ DOMAIN created.bindings = {Of(i) : i \in numbered}
        /\ \A i \in numbered :
             (\A j \in numbered : Of(j) = Of(i) => j <= i)
                => created.bindings[Of(i)] = NumberOf[rows[i].hostPort]

Gets(created, fields) ==
    /\ \A i \in DOMAIN fields.env :
         fields.env[i] # Blank
           <=> \E k \in DOMAIN created.env : created.env[k] = fields.env[i]
    /\ \A i \in DOMAIN fields.volumes :
         (fields.volumes[i].source # Blank /\ fields.volumes[i].target # Blank)
           <=> \E k \in DOMAIN created.binds : created.binds[k] = fields.volumes[i]
    /\ created.policy = fields.policy

Reaches(request, fields) ==
    /\ Publishes(BuildCreateParameters(request), fields.ports)
    /\ Gets(BuildCreateParameters(request), fields)

\* A list without its blank entries holds just the entries that are not blank.
LEMMA WithoutMembers ==
    ASSUME NEW S, NEW rows \in Seq(S), NEW blanks, NEW i \in DOMAIN rows
    PROVE  rows[i] \notin blanks
             <=> \E k \in DOMAIN Without(rows, blanks) : Without(rows, blanks)[k] = rows[i]
<1> DEFINE w == Without(rows, blanks)
<1>1. /\ w \in Seq(S) /\ Left(w, rows, blanks, Len(rows))
      /\ DOMAIN w = 1..Len(w) /\ i \in 1..Len(rows)
  BY WithoutLaw
<1> HIDE DEF w
<1>2. PICK at \in [1..Len(w) -> 1..Len(rows)] :
        /\ \A k \in 1..Len(w) : w[k] = rows[at[k]]
        /\ \A h \in 1..Len(rows) : rows[h] \notin blanks <=> \E k \in 1..Len(w) : at[k] = h
  BY <1>1 DEF Left
<1>3. ASSUME rows[i] \notin blanks PROVE \E k \in 1..Len(w) : w[k] = rows[i]
  BY <1>1, <1>2, <1>3
<1>4. ASSUME NEW k \in 1..Len(w), w[k] = rows[i] PROVE rows[i] \notin blanks
  <2>1. at[k] \in 1..Len(rows) /\ rows[at[k]] = rows[i]
    BY <1>2, <1>4
  <2> QED
    BY <1>2, <2>1
<1> QED
  BY <1>1, <1>3, <1>4 DEF w

\* The ports that are sent are those of the rows with a container port, in the order of the
\* rows; in a request the server accepts each has its row's key, and a host port just if the
\* row's is a number.
LEMMA PortsAreMapped ==
    ASSUME NEW rows \in Seq(PortRow),
           \A k \in DOMAIN MappedPorts(rows) : MappedPorts(rows)[k].containerPort # None
    PROVE  LET ports  == MappedPorts(rows)
               filled == {i \in DOMAIN rows : rows[i].containerPort # Blank}
           IN  /\ Len(ports) \in Nat /\ DOMAIN ports = 1..Len(ports)
               /\ \E at \in [1..Len(ports) -> filled] :
                    /\ \A j, k \in 1..Len(ports) : j < k => at[j] < at[k]
                    /\ \A i \in filled : \E k \in 1..Len(ports) : at[k] = i
                    /\ \A k \in 1..Len(ports) :
                         /\ Key(ports[k]) = <<NumberOf[rows[at[k]].containerPort], rows[at[k]].protocol>>
                         /\ ports[k].hostPort = Number(rows[at[k]].hostPort)
<1> DEFINE ports == MappedPorts(rows)
           w == Without(rows, BlankPorts)
           filled == {i \in DOMAIN rows : rows[i].containerPort # Blank}
           l == Len(w)
<1>1. w \in Seq(PortRow) /\ Left(w, rows, BlankPorts, Len(rows))
  BY WithoutLaw
<1>2. l \in Nat /\ DOMAIN w = 1..l /\ DOMAIN rows = 1..Len(rows)
  BY <1>1
<1>3. ports = [k \in 1..l |-> [containerPort |-> Number(w[k].containerPort),
                               hostPort      |-> Number(w[k].hostPort),
                               protocol      |-> w[k].protocol]]
  BY <1>2 DEF MappedPorts
<1>4. \A k \in DOMAIN ports : ports[k].containerPort # None
  OBVIOUS
<1> HIDE DEF w, l, ports
<1>5. Len(ports) = l /\ DOMAIN ports = 1..l
  BY <1>2, <1>3
<1>6. PICK at \in [1..l -> 1..Len(rows)] :
        /\ \A j, k \in 1..l : j < k => at[j] < at[k]
        /\ \A k \in 1..l : w[k] = rows[at[k]]
        /\ \A i \in 1..Len(rows) : rows[i] \notin BlankPorts <=> \E k \in 1..l : at[k] = i
  BY <1>1 DEF Left, l
<1>7. filled = {i \in 1..Len(rows) : rows[i] \notin BlankPorts}
  BY <1>2 DEF BlankPorts
<1>8. at \in [1..l -> filled] /\ \A i \in filled : \E k \in 1..l : at[k] = i
  BY <1>6, <1>7
<1>9. ASSUME NEW k \in 1..l
      PROVE  /\ Key(ports[k]) = <<NumberOf[rows[at[k]].containerPort], rows[at[k]].protocol>>
             /\ ports[k].hostPort = Number(rows[at[k]].hostPort)
  <2>1. /\ ports[k].containerPort = Number(rows[at[k]].containerPort)
        /\ ports[k].hostPort = Number(rows[at[k]].hostPort)
        /\ ports[k].protocol = rows[at[k]].protocol
    BY <1>3, <1>6
  <2>2. Number(rows[at[k]].containerPort) # None
    BY <1>4, <1>5, <2>1
  <2>3. Number(rows[at[k]].containerPort) = NumberOf[rows[at[k]].containerPort]
    BY <2>2 DEF Number
  <2> QED
    BY <2>1, <2>3 DEF Key
<1> HIDE DEF filled
<1>10. \E to \in [1..Len(ports) -> filled] :
         /\ \A j, k \in 1..Len(ports) : j < k => to[j] < to[k]
         /\ \A i \in filled : \E k \in 1..Len(ports) : to[k] = i
         /\ \A k \in 1..Len(ports) :
              /\ Key(ports[k]) = <<NumberOf[rows[to[k]].containerPort], rows[to[k]].protocol>>
              /\ ports[k].hostPort = Number(rows[to[k]].hostPort)
  BY <1>5, <1>6, <1>8, <1>9, Zenon
<1> QED
  BY <1>2, <1>5, <1>10 DEF ports, filled

\* The port bindings of a form's rows.
LEMMA PortsReach ==
    ASSUME NEW rows \in Seq(PortRow),
           \A k \in DOMAIN MappedPorts(rows) : MappedPorts(rows)[k].containerPort # None
    PROVE  LET ports    == MappedPorts(rows)
               bindings == Bindings(ports)
               Of(i)    == <<NumberOf[rows[i].containerPort], rows[i].protocol>>
               filled   == {i \in DOMAIN rows : rows[i].containerPort # Blank}
               numbered == {i \in filled : rows[i].hostPort \notin NoPort}
           IN  /\ {Key(ports[k]) : k \in DOMAIN ports} = {Of(i) : i \in filled}
               /\ DOMAIN bindings = {Of(i) : i \in numbered}
               /\ \A i \in numbered :
                    (\A j \in numbered : Of(j) = Of(i) => j <= i)
                       => bindings[Of(i)] = NumberOf[rows[i].hostPort]
<1> DEFINE ports == MappedPorts(rows)
           bindings == Bindings(ports)
           Of(i) == <<NumberOf[rows[i].containerPort], rows[i].protocol>>
           filled == {i \in DOMAIN rows : rows[i].containerPort # Blank}
           numbered == {i \in filled : rows[i].hostPort \notin NoPort}
           l == Len(ports)
           sending == Numbered(ports, l)
<1>1. l \in Nat /\ DOMAIN ports = 1..l
  BY PortsAreMapped
<1>2. PICK at \in [1..l -> filled] :
        /\ \A j, k \in 1..l : j < k => at[j] < at[k]
        /\ \A i \in filled : \E k \in 1..l : at[k] = i
        /\ \A k \in 1..l : /\ Key(ports[k]) = Of(at[k])
                           /\ ports[k].hostPort = Number(rows[at[k]].hostPort)
  BY PortsAreMapped
<1>3. Bound(bindings, ports, l)
  BY <1>1, BindingsLaw
<1>4. /\ \A i \in filled : i \in Nat /\ rows[i] \in PortRow
      /\ sending = {k \in 1..l : ports[k].hostPort # None}
  BY DEF Numbered
<1> HIDE DEF ports, bindings, filled, l, sending
\* A row sends a host port just if it has a number for one.
<1>5. ASSUME NEW k \in 1..l
      PROVE  /\ k \in sending <=> at[k] \in numbered
             /\ k \in sending => ports[k].hostPort = NumberOf[rows[at[k]].hostPort]
  <2>1. at[k] \in filled /\ rows[at[k]].hostPort \in HostPorts \cup NoPort
    BY <1>2, <1>4 DEF PortRow
  <2>2. Number(rows[at[k]].hostPort) = None <=> rows[at[k]].hostPort \in NoPort
    BY <2>1, FormAssumption, TextAssumption DEF Number, NoPort
  <2> QED
    BY <1>2, <1>4, <2>1, <2>2 DEF Number
<1>6. {Key(ports[k]) : k \in 1..l} = {Of(i) : i \in filled}
  BY <1>2
<1>7. {Key(ports[k]) : k \in sending} = {Of(i) : i \in numbered}
  <2>1. \A i \in numbered : \E k \in sending : at[k] = i
    BY <1>2, <1>5
  <2>2. \A k \in sending : k \in 1..l /\ at[k] \in numbered /\ Key(ports[k]) = Of(at[k])
    BY <1>2, <1>4, <1>5
  <2> HIDE DEF numbered, Of
  <2> QED
    BY <2>1, <2>2
<1>8. ASSUME NEW i \in numbered, \A j \in numbered : Of(j) = Of(i) => j <= i
      PROVE  bindings[Of(i)] = NumberOf[rows[i].hostPort]
  <2>1. PICK k \in 1..l : at[k] = i
    BY <1>2
  <2>2. k \in sending /\ ports[k].hostPort = NumberOf[rows[i].hostPort] /\ Key(ports[k]) = Of(i)
    BY <1>2, <1>5, <2>1
  <2>3. ASSUME NEW j \in sending, Key(ports[j]) = Key(ports[k]) PROVE j <= k
    <3>1. j \in 1..l /\ at[j] \in numbered /\ Of(at[j]) = Of(i)
      BY <1>2, <1>4, <1>5, <2>2, <2>3
    <3>2. at[j] <= at[k] /\ at[j] \in Nat /\ at[k] \in Nat
      BY <1>4, <1>8, <2>1, <3>1
    <3>3. ~(k < j)
      BY <1>2, <3>1, <3>2
    <3> QED
      BY <1>1, <3>1, <3>3
  <2>4. bindings[Key(ports[k])] = ports[k].hostPort
    BY <1>3, <2>2, <2>3 DEF Bound, sending
  <2> QED
    BY <2>2, <2>4
<1>9. DOMAIN bindings = {Key(ports[k]) : k \in sending}
  BY <1>3 DEF Bound, sending
<1> HIDE DEF numbered, Of
<1>10. /\ {Key(ports[k]) : k \in DOMAIN ports} = {Of(i) : i \in filled}
       /\ DOMAIN bindings = {Of(i) : i \in numbered}
       /\ \A i \in numbered : (\A j \in numbered : Of(j) = Of(i) => j <= i)
                                 => bindings[Of(i)] = NumberOf[rows[i].hostPort]
  BY <1>1, <1>6, <1>7, <1>8, <1>9
<1> QED
  BY <1>10 DEF ports, bindings, Of, filled, numbered

\* A request that the server can read gives the engine every row of its form.
LEMMA CreateRequestReaches ==
    ASSUME form \in Form, Deserializes(CreateRequest)
    PROVE  Reaches(CreateRequest, form)
<1>1. /\ form.ports \in Seq(PortRow) /\ form.env \in Seq(Texts) /\ form.volumes \in Seq(VolumeRow)
  BY DEF Form
<1>2. \A k \in DOMAIN MappedPorts(form.ports) : MappedPorts(form.ports)[k].containerPort # None
  BY FormAssumption DEF Deserializes, CreateRequest
<1>3. \A i \in DOMAIN form.env :
        form.env[i] # Blank
          <=> \E k \in DOMAIN Without(form.env, {Blank}) : Without(form.env, {Blank})[k] = form.env[i]
  <2> TAKE i \in DOMAIN form.env
  <2> DEFINE rows == form.env
             blanks == {Blank}
  <2>1. rows \in Seq(Texts) /\ i \in DOMAIN rows /\ (rows[i] # Blank <=> rows[i] \notin blanks)
    BY <1>1
  <2> HIDE DEF rows, blanks
  <2>2. rows[i] \notin blanks
          <=> \E k \in DOMAIN Without(rows, blanks) : Without(rows, blanks)[k] = rows[i]
    BY <2>1, WithoutMembers
  <2> QED
    BY <2>1, <2>2 DEF rows, blanks
<1>4. \A i \in DOMAIN form.volumes :
        (form.volumes[i].source # Blank /\ form.volumes[i].target # Blank)
          <=> \E k \in DOMAIN Without(form.volumes, BlankVolumes) :
                Without(form.volumes, BlankVolumes)[k] = form.volumes[i]
  <2> TAKE i \in DOMAIN form.volumes
  <2> DEFINE rows == form.volumes
  <2>1. rows \in Seq(VolumeRow) /\ i \in DOMAIN rows /\ rows[i] \in VolumeRow
    BY <1>1
  <2> HIDE DEF rows
  <2>2. (rows[i].source # Blank /\ rows[i].target # Blank) <=> rows[i] \notin BlankVolumes
    BY <2>1 DEF BlankVolumes
  <2>3. rows[i] \notin BlankVolumes
          <=> \E k \in DOMAIN Without(rows, BlankVolumes) : Without(rows, BlankVolumes)[k] = rows[i]
    BY <2>1, WithoutMembers
  <2> QED
    BY <2>2, <2>3 DEF rows
<1>5. LET ports    == MappedPorts(form.ports)
          bindings == Bindings(ports)
          Of(i)    == <<NumberOf[form.ports[i].containerPort], form.ports[i].protocol>>
          filled   == {i \in DOMAIN form.ports : form.ports[i].containerPort # Blank}
          numbered == {i \in filled : form.ports[i].hostPort \notin NoPort}
      IN  /\ {Key(ports[k]) : k \in DOMAIN ports} = {Of(i) : i \in filled}
          /\ DOMAIN bindings = {Of(i) : i \in numbered}
          /\ \A i \in numbered :
               (\A j \in numbered : Of(j) = Of(i) => j <= i)
                  => bindings[Of(i)] = NumberOf[form.ports[i].hostPort]
  BY <1>1, <1>2, PortsReach
<1> DEFINE created == BuildCreateParameters(CreateRequest)
<1>6. created.env = Without(form.env, {Blank}) /\ created.binds = Without(form.volumes, BlankVolumes)
      /\ created.policy = form.policy /\ created.bindings = Bindings(MappedPorts(form.ports))
      /\ created.exposed = {Key(MappedPorts(form.ports)[i]) : i \in DOMAIN MappedPorts(form.ports)}
  BY DEF BuildCreateParameters, CreateRequest, MappedEnv, MappedVolumes
<1> HIDE DEF created
<1>7. Gets(created, form)
  BY <1>3, <1>4, <1>6 DEF Gets
<1>8. Publishes(created, form.ports)
  <2> DEFINE ports == MappedPorts(form.ports)
             bindings == Bindings(ports)
  <2>1. /\ created.bindings = bindings
        /\ created.exposed = {Key(ports[k]) : k \in DOMAIN ports}
    BY <1>6
  <2> HIDE DEF bindings, ports
  <2> QED
    BY <1>5, <2>1 DEF Publishes, bindings, ports
<1> QED
  BY <1>7, <1>8 DEF Reaches, created

-----------------------------------------------------------------------------
(***************************************************************************)
(* The theorems                                                            *)
(***************************************************************************)

\* The invariant holds throughout.
THEOREM ConsoleInvariance == Spec => []ConsoleInv
<1>1. Init => ConsoleInv
  BY DEF Init, MutationsInit, Fresh, ImagesFresh, NoRemoval, ConsoleInv, RemovalTyped,
         TicksAreShown, SentWell, ForceIsTicked, ServicesAccept
<1>2. ConsoleInv /\ [Next]_vars => ConsoleInv'
  <2> SUFFICES ASSUME ConsoleInv, [Next]_vars PROVE ConsoleInv'
    OBVIOUS
  <2>1. CASE OnImages
    BY <2>1, OtherImagesStep, RemovalStep DEF OnImages, ImagesNext
  <2>2. CASE OnNetworks
    BY <2>2, NetworksStep DEF OnNetworks
  <2>3. CASE OnVolumes
    BY <2>3, VolumesStep DEF OnVolumes
  <2>4. CASE OnContainers
    BY <2>4, ContainersStep DEF OnContainers
  <2>5. ASSUME NEW p \in Pages, Go(p) PROVE ConsoleInv'
    <3>1. sent' = None /\ removal' = [target |-> None, force |-> FALSE]
      BY <2>5 DEF Go, Leave, ImagesForgotten, NoRemoval
    <3> QED
      BY <3>1, SilentStep, ClosedRemoval
  <2>6. CASE UNCHANGED vars
    BY <2>6 DEF vars, mutationVars, imagesVars, ConsoleInv, RemovalTyped, TicksAreShown, SentWell,
                ForceIsTicked, ServicesAccept, ImageServiceRefuses,
                NetworkServiceRefuses, ContainerServiceRefuses
  <2> QED
    BY <2>1, <2>2, <2>3, <2>4, <2>5, <2>6 DEF Next
<1> QED
  BY <1>1, <1>2, PTL DEF Spec

\* ImagesPage removes by force only the image for which the user ticked the box in the
\* dialog that is open, whatever dialogs, errors and late answers came before.
THEOREM ForceIsUsers == Spec => []ForceIsTicked
<1>1. ConsoleInv => ForceIsTicked
  BY DEF ConsoleInv, SentWell
<1> QED
  BY <1>1, ConsoleInvariance, PTL

\* No service refuses the arguments that a page sends.
THEOREM ServicesAreContent == Spec => []ServicesAccept
<1>1. ConsoleInv => ServicesAccept
  BY DEF ConsoleInv, SentWell
<1> QED
  BY <1>1, ConsoleInvariance, PTL

\* Every row of the form that the server accepts reaches the engine, whatever the form holds
\* and however many rows: the last row for a port and protocol that has a host port decides
\* where the port is published, variables that are not blank are set, and a volume is bound
\* just if both its sides are filled in.
THEOREM FormReachesEngine == Spec => []RowsReachEngine
<1>1. TypeOK => RowsReachEngine
  <2> SUFFICES ASSUME TypeOK, sent # None, sent.hook = "createContainer", Deserializes(sent)
               PROVE  Reaches(sent, form)
    BY DEF RowsReachEngine, Reaches, Publishes, Gets
  <2>1. \A request \in ImageRequests \cup NetworkRequests \cup VolumeRequests \cup ContainerRequests :
          request.hook # "createContainer"
    BY DEF ImageRequests, NetworkRequests, VolumeRequests, ContainerRequests
  <2>2. sent = CreateRequest
    BY <2>1 DEF TypeOK
  <2>3. form \in Form
    BY DEF TypeOK, ContainersTypeOK, CreateTypeOK
  <2> QED
    BY <2>2, <2>3, CreateRequestReaches
<1> QED
  BY <1>1, ConsoleTyping, PTL

=============================================================================
