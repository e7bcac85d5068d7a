----------------------------- MODULE ImagesPage -----------------------------
(***************************************************************************)
(* ImagesPage.tsx: three dialogs (pull, tag, remove) and two buttons.  A   *)
(* dialog can be closed at any time, also while its call is under way, and *)
(* may then be opened for another image before the answer comes.           *)
(***************************************************************************)
EXTENDS Mutations

CONSTANT Images

ASSUME ImagesAssumption == None \notin Images

VARIABLES
    pull,     \* the pull dialog
    tagging,  \* the tag dialog, open while it has a target
    removal,  \* the remove dialog, open while it has a target
    ticked    \* history: the image whose open dialog has "Force removal" ticked by the user

imagesVars == <<pull, tagging, removal, ticked>>

Tags == Texts \cup {"latest"}

ImageHooks == {"pullImage", "tagImage", "removeImage", "pruneImages", "importImage"}

\* imagesApi
ImageRequests ==
    [hook : {"pullImage"}, image : Texts, tag : Tags \cup {None}]
    \cup [hook : {"tagImage"}, id : Images, repository : Texts, tag : Tags]
    \cup [hook : {"removeImage"}, id : Images, force : BOOLEAN]
    \cup [hook : {"pruneImages", "importImage"}]

ImagesTypeOK ==
    /\ pull \in [open : BOOLEAN, name : Texts, tag : Tags]
    /\ tagging \in [target : Images \cup {None}, repository : Texts, tag : Tags]
    /\ removal \in [target : Images \cup {None}, force : BOOLEAN]
    /\ ticked \in Images \cup {None}

NoPull == [open |-> FALSE, name |-> Blank, tag |-> "latest"]
NoTagging == [target |-> None, repository |-> Blank, tag |-> "latest"]
NoRemoval == [target |-> None, force |-> FALSE]

ImagesFresh ==
    /\ pull = NoPull
    /\ tagging = NoTagging
    /\ removal = NoRemoval
    /\ ticked = None

\* The page is left, or comes on display anew.
ImagesForgotten ==
    /\ pull' = NoPull
    /\ tagging' = NoTagging
    /\ removal' = NoRemoval
    /\ ticked' = None

-----------------------------------------------------------------------------

\* The draft of a dialog that was closed is kept.
OpenPull ==
    /\ pull' = [pull EXCEPT !.open = TRUE]
    /\ Quietly
    /\ UNCHANGED <<tagging, removal, ticked>>

ClosePull ==
    /\ pull.open
    /\ pull' = [pull EXCEPT !.open = FALSE]
    /\ Quietly
    /\ UNCHANGED <<tagging, removal, ticked>>

EditPull ==
    /\ pull.open
    /\ \/ \E text \in Texts : pull' = [pull EXCEPT !.name = text]
       \/ \E text \in Tags : pull' = [pull EXCEPT !.tag = text]
    /\ Quietly
    /\ UNCHANGED <<tagging, removal, ticked>>

\* A blank name only makes a toast.
SubmitPull ==
    /\ pull.open /\ "pullImage" \notin pending
    /\ pull.name # Blank
    /\ Mutate([hook |-> "pullImage", image |-> pull.name, tag |-> OrUndefined(pull.tag)])
    /\ UNCHANGED imagesVars

PullSucceeds ==
    /\ Hear("pullImage")
    /\ pull' = NoPull
    /\ UNCHANGED <<tagging, removal, ticked>>

-----------------------------------------------------------------------------

OpenTag(image) ==
    /\ tagging' = [NoTagging EXCEPT !.target = image]
    /\ Quietly
    /\ UNCHANGED <<pull, removal, ticked>>

CloseTag ==
    /\ tagging.target # None
    /\ tagging' = [tagging EXCEPT !.target = None]
    /\ Quietly
    /\ UNCHANGED <<pull, removal, ticked>>

EditTag ==
    /\ tagging.target # None
    /\ \/ \E text \in Texts : tagging' = [tagging EXCEPT !.repository = text]
       \/ \E text \in Tags : tagging' = [tagging EXCEPT !.tag = text]
    /\ Quietly
    /\ UNCHANGED <<pull, removal, ticked>>

SubmitTag ==
    /\ tagging.target # None /\ "tagImage" \notin pending
    /\ tagging.repository # Blank
    /\ Mutate([hook |-> "tagImage", id |-> tagging.target, repository |-> tagging.repository,
               tag |-> IF tagging.tag = Blank THEN "latest" ELSE tagging.tag])
    /\ UNCHANGED imagesVars

\* It closes whatever tag dialog is open by now.
TagSucceeds ==
    /\ Hear("tagImage")
    /\ tagging' = NoTagging
    /\ UNCHANGED <<pull, removal, ticked>>

-----------------------------------------------------------------------------

\* Mutant of OpenRemove: the tick of the last dialog stays.
OpenRemoveTicked(image) ==
    /\ removal' = [removal EXCEPT !.target = image]
    /\ ticked' = None
    /\ Quietly
    /\ UNCHANGED <<pull, tagging>>

OpenRemove(image) ==
    /\ removal' = [NoRemoval EXCEPT !.target = image]
    /\ ticked' = None
    /\ Quietly
    /\ UNCHANGED <<pull, tagging>>

CloseRemove ==
    /\ removal.target # None
    /\ removal' = [removal EXCEPT !.target = None]
    /\ ticked' = None
    /\ Quietly
    /\ UNCHANGED <<pull, tagging>>

TickForce ==
    /\ removal.target # None
    /\ removal' = [removal EXCEPT !.force = ~@]
    /\ ticked' = IF removal.force THEN None ELSE removal.target
    /\ Quietly
    /\ UNCHANGED <<pull, tagging>>

ConfirmRemove ==
    /\ removal.target # None /\ "removeImage" \notin pending
    /\ Mutate([hook |-> "removeImage", id |-> removal.target, force |-> removal.force])
    /\ UNCHANGED imagesVars

\* Either way the dialog closes that is open by now; after an error the tick stays.
RemoveAnswered ==
    /\ Hear("removeImage")
    /\ \/ removal' = NoRemoval
       \/ removal' = [removal EXCEPT !.target = None]
    /\ ticked' = None
    /\ UNCHANGED <<pull, tagging>>

-----------------------------------------------------------------------------

PruneDangling ==
    /\ "pruneImages" \notin pending
    /\ Mutate([hook |-> "pruneImages"])
    /\ UNCHANGED imagesVars

ImportFile ==
    /\ "importImage" \notin pending
    /\ Mutate([hook |-> "importImage"])
    /\ UNCHANGED imagesVars

\* Answers that only make a toast.
ImagesToast ==
    /\ \E h \in ImageHooks \ {"removeImage"} : Hear(h)
    /\ UNCHANGED imagesVars

\* Every open Modal listens to the window: Escape closes them all.
ImagesEscape ==
    /\ pull.open \/ tagging.target # None \/ removal.target # None
    /\ pull' = [pull EXCEPT !.open = FALSE]
    /\ tagging' = [tagging EXCEPT !.target = None]
    /\ removal' = [removal EXCEPT !.target = None]
    /\ ticked' = None
    /\ Quietly

ImagesNext ==
    \/ OpenPull \/ ClosePull \/ EditPull \/ SubmitPull \/ PullSucceeds
    \/ CloseTag \/ EditTag \/ SubmitTag \/ TagSucceeds
    \/ CloseRemove \/ TickForce \/ ConfirmRemove \/ RemoveAnswered
    \/ \E image \in Images : OpenTag(image) \/ OpenRemove(image)
    \/ PruneDangling \/ ImportFile \/ ImagesToast \/ ImagesEscape

\* What ImageService refuses before it asks the engine.
ImageServiceRefuses(request) ==
    \/ request.hook = "pullImage" /\ request.image = Blank
    \/ request.hook = "tagImage" /\ request.repository = Blank
=============================================================================
