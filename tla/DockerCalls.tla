---------------------------- MODULE DockerCalls ----------------------------
(***************************************************************************)
(* How many Docker calls each REST operation makes, one after the other.   *)
(* Every call reads IDockerConnectionManager.Client anew.                  *)
(***************************************************************************)
EXTENDS Naturals

SystemCalls == [info |-> 2, ping |-> 1, df |-> 3]

\* PerformAsync has the actions start, kill, pause and unpause (actOnContainer),
\* stop and restart (stopContainer).
ContainerCalls ==
    [listContainers   |-> 1,
     inspectContainer |-> 1,
     createContainer  |-> 1,
     createAndStart   |-> 2,
     actOnContainer   |-> 1,
     stopContainer    |-> 1,
     removeContainer  |-> 1,
     containerLogs    |-> 1,
     pruneContainers  |-> 1]

\* A created network is inspected.
NetworkCalls ==
    [listNetworks |-> 1, inspectNetwork |-> 1, createNetwork |-> 2, deleteNetwork |-> 1]

ImageCalls ==
    [listImages   |-> 1,
     inspectImage |-> 1,
     pullImage    |-> 1,
     importImage  |-> 1,
     tagImage     |-> 1,
     deleteImage  |-> 1,
     pruneImages  |-> 1]

VolumeCalls ==
    [listVolumes |-> 1, createVolume |-> 1, removeVolume |-> 1, pruneVolumes |-> 1]

\* PUT /api/settings/connection pings after the switch; GET asks no engine.
SettingsCalls == [update |-> 1, connection |-> 0]

Operations ==
    DOMAIN SettingsCalls \cup DOMAIN SystemCalls \cup DOMAIN ContainerCalls
        \cup DOMAIN NetworkCalls \cup DOMAIN ImageCalls \cup DOMAIN VolumeCalls

Calls ==
    [o \in Operations |->
        CASE o \in DOMAIN SettingsCalls  -> SettingsCalls[o]
          [] o \in DOMAIN SystemCalls    -> SystemCalls[o]
          [] o \in DOMAIN ContainerCalls -> ContainerCalls[o]
          [] o \in DOMAIN NetworkCalls   -> NetworkCalls[o]
          [] o \in DOMAIN ImageCalls     -> ImageCalls[o]
          [] o \in DOMAIN VolumeCalls    -> VolumeCalls[o]]

\* Operations that refuse a blank id, image, repository or name, or an empty
\* archive.
Validated ==
    {"inspectContainer", "createContainer", "createAndStart", "actOnContainer",
     "stopContainer", "removeContainer", "containerLogs", "inspectNetwork",
     "createNetwork", "deleteNetwork", "inspectImage", "pullImage", "importImage",
     "tagImage", "deleteImage", "removeVolume"}

\* Operations whose call Docker.DotNet runs without the client's default
\* timeout: their answer is a stream, or the engine is asked to wait first.
Unbounded == {"containerLogs", "stopContainer", "pullImage", "importImage"}
=============================================================================
