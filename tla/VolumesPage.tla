---------------------------- MODULE VolumesPage ----------------------------
(***************************************************************************)
(* VolumesPage.tsx: the create dialog, the remove confirmation and the     *)
(* prune button.                                                           *)
(***************************************************************************)
EXTENDS Mutations

CONSTANT Volumes

VARIABLES
    volume,      \* the create dialog
    volumeGoing  \* the volume that the confirmation names

volumesVars == <<volume, volumeGoing>>

Drivers == Texts \cup {"local"}

VolumeHooks == {"createVolume", "removeVolume", "pruneVolumes"}

\* volumesApi
VolumeRequests ==
    [hook : {"createVolume"}, name : Texts \cup {None}, driver : Drivers \cup {None}]
    \cup [hook : {"removeVolume"}, name : Volumes, force : {TRUE}]
    \cup [hook : {"pruneVolumes"}]

VolumesTypeOK ==
    /\ volume \in [open : BOOLEAN, name : Texts, driver : Drivers]
    /\ volumeGoing \in Volumes \cup {None}

NoVolume == [open |-> FALSE, name |-> Blank, driver |-> "local"]

VolumesFresh ==
    /\ volume = NoVolume
    /\ volumeGoing = None

\* The page is left, or comes on display anew.
VolumesForgotten ==
    /\ volume' = NoVolume
    /\ volumeGoing' = None

OpenVolume ==
    /\ volume' = [volume EXCEPT !.open = TRUE]
    /\ Quietly
    /\ UNCHANGED volumeGoing

CloseVolume ==
    /\ volume.open
    /\ volume' = [volume EXCEPT !.open = FALSE]
    /\ Quietly
    /\ UNCHANGED volumeGoing

EditVolume ==
    /\ volume.open
    /\ \/ \E text \in Texts : volume' = [volume EXCEPT !.name = text]
       \/ \E text \in Drivers : volume' = [volume EXCEPT !.driver = text]
    /\ Quietly
    /\ UNCHANGED volumeGoing

\* A blank name asks the engine for one.
SubmitVolume ==
    /\ volume.open /\ "createVolume" \notin pending
    /\ Mutate([hook |-> "createVolume", name |-> OrUndefined(volume.name),
               driver |-> OrUndefined(volume.driver)])
    /\ UNCHANGED volumesVars

VolumeCreated ==
    /\ Hear("createVolume")
    /\ volume' = NoVolume
    /\ UNCHANGED volumeGoing

OpenRemoveVolume(name) ==
    /\ volumeGoing' = name
    /\ Quietly
    /\ UNCHANGED volume

CloseRemoveVolume ==
    /\ volumeGoing # None
    /\ volumeGoing' = None
    /\ Quietly
    /\ UNCHANGED volume

ConfirmRemoveVolume ==
    /\ volumeGoing # None /\ "removeVolume" \notin pending
    /\ Mutate([hook |-> "removeVolume", name |-> volumeGoing, force |-> TRUE])
    /\ UNCHANGED volumesVars

RemoveVolumeAnswered ==
    /\ Hear("removeVolume")
    /\ volumeGoing' = None
    /\ UNCHANGED volume

PruneVolumes ==
    /\ "pruneVolumes" \notin pending
    /\ Mutate([hook |-> "pruneVolumes"])
    /\ UNCHANGED volumesVars

\* Answers that only make a toast.
VolumesToast ==
    /\ \E h \in {"createVolume", "pruneVolumes"} : Hear(h)
    /\ UNCHANGED volumesVars

VolumesEscape ==
    /\ volume.open \/ volumeGoing # None
    /\ volume' = [volume EXCEPT !.open = FALSE]
    /\ volumeGoing' = None
    /\ Quietly

VolumesNext ==
    \/ OpenVolume \/ CloseVolume \/ EditVolume \/ SubmitVolume \/ VolumeCreated
    \/ \E name \in Volumes : OpenRemoveVolume(name)
    \/ CloseRemoveVolume \/ ConfirmRemoveVolume \/ RemoveVolumeAnswered
    \/ PruneVolumes \/ VolumesToast \/ VolumesEscape
=============================================================================
