----------------------------- MODULE QueryCache -----------------------------
(***************************************************************************)
(* The client's cache of server data: the hooks over react-query and the   *)
(* pages that use them.  A page that is mounted observes its queries; a    *)
(* query is fetched when it comes on display and is stale, by its poll, on *)
(* focus, by the refresh button, and when a mutation of this browser has   *)
(* invalidated it.                                                         *)
(*                                                                         *)
(* What an engine holds is a version number: `world` grows with every      *)
(* change, whoever makes it, and with every switch to another engine.  The *)
(* data of a query is the version its answer was made from, 0 for none.    *)
(* react-query is a library: its part is external, and modelled by what    *)
(* version 5 does with the options the code gives it.                      *)
(***************************************************************************)
EXTENDS Naturals

CONSTANTS
    Pages,        \* the pages the user may visit
    Queries,      \* the queries looked at
    Hooks,        \* the mutations the user may start
    MaxWorld,     \* bound: versions of the engine
    None          \* no request, no call

AllPages == {"dashboard", "containers", "inspect", "images", "volumes",
             "networks", "settings"}

\* queryKeys; "inspect" stands for the one container the drawer shows.
AllQueries == {"systemInfo", "ping", "connection", "images", "containers",
               "inspect", "volumes", "networks"}

\* The mutations; no page uses usePruneContainers.
ContainerHooks == {"containerAction", "createContainer", "removeContainer"}
ImageHooks == {"pullImage", "tagImage", "removeImage", "pruneImages", "importImage"}
VolumeHooks == {"createVolume", "removeVolume", "pruneVolumes"}
NetworkHooks == {"createNetwork", "removeNetwork"}
SettingsHooks == {"updateConnection"}

AllHooks == ContainerHooks \cup ImageHooks \cup VolumeHooks \cup NetworkHooks \cup SettingsHooks

ASSUME CacheAssumption ==
    /\ Pages \subseteq AllPages /\ Pages # {}
    /\ Queries \subseteq AllQueries
    /\ Hooks \subseteq AllHooks
    /\ MaxWorld \in Nat \ {0}
    /\ None \notin [seen : 0..MaxWorld, retry : {"left", "cancelled", "used"}]

VARIABLES
    page,         \* the page on display
    focused,      \* the window has the focus
    world,        \* the engine's version
    calls,        \* each hook's mutation call
    data,         \* each query's version in the cache, 0 for none
    request,      \* each query's request under way
    fresh,        \* data younger than staleTime
    invalidated,  \* isInvalidated
    failed,       \* isError
    owed          \* history: the newest own change each query still has to show

vars == <<page, focused, world, calls, data, request, fresh, invalidated, failed, owed>>

Request == [seen : 0..MaxWorld, retry : {"left", "cancelled", "used"}]

Call == [stage : {"sent", "applied", "refused"}, at : 0..MaxWorld]

TypeOK ==
    /\ page \in Pages
    /\ focused \in BOOLEAN
    /\ world \in 1..MaxWorld
    /\ calls \in [Hooks -> Call \cup {None}]
    /\ data \in [Queries -> 0..MaxWorld]
    /\ request \in [Queries -> Request \cup {None}]
    /\ fresh \in [Queries -> BOOLEAN]
    /\ invalidated \in [Queries -> BOOLEAN]
    /\ failed \in [Queries -> BOOLEAN]
    /\ owed \in [Queries -> 0..MaxWorld]

-----------------------------------------------------------------------------
(***************************************************************************)
(* The hooks                                                               *)
(***************************************************************************)

\* The queries of a page; the shell's sidebar asks for ping on every page.
Observes(p) ==
    Queries \cap
    ({"ping"} \cup
     CASE p = "dashboard"  -> {"systemInfo"}
       [] p = "containers" -> {"containers"}
       [] p = "inspect"    -> {"containers", "inspect"}
       [] p = "images"     -> {"images"}
       [] p = "volumes"    -> {"volumes"}
       [] p = "networks"   -> {"networks"}
       [] p = "settings"   -> {"connection"})

\* Mutant of Polled: useSystemInfo without a refetchInterval.
PolledContainersOnly == Queries \cap {"containers", "ping"}

\* refetchInterval: 5000
Polled == Queries \cap {"containers", "systemInfo", "ping"}

\* refetchOnWindowFocus; the client's default is off.
RefetchedOnFocus == Queries \cap {"images", "volumes", "networks"}

\* Where a mutation is started.
PageOf(h) ==
    CASE h \in ContainerHooks -> "containers"
      [] h \in ImageHooks     -> "images"
      [] h \in VolumeHooks    -> "volumes"
      [] h \in NetworkHooks   -> "networks"
      [] h \in SettingsHooks  -> "settings"

\* Mutant of Invalidates: the image hooks lack their onSuccess.
InvalidatesNoImages(h) ==
    Queries \cap
    CASE PageOf(h) = "containers" -> {"containers", "inspect", "systemInfo"}
      [] PageOf(h) = "images"     -> {"systemInfo"}
      [] PageOf(h) = "volumes"    -> {"volumes"}
      [] PageOf(h) = "networks"   -> {"networks"}
      [] PageOf(h) = "settings"   -> {"connection", "ping", "systemInfo"}

\* onSuccess of the hooks.  The key ['containers'] is a prefix of the key of an
\* inspected container.
Invalidates(h) ==
    Queries \cap
    CASE PageOf(h) = "containers" -> {"containers", "inspect", "systemInfo"}
      [] PageOf(h) = "images"     -> {"images", "systemInfo"}
      [] PageOf(h) = "volumes"    -> {"volumes"}
      [] PageOf(h) = "networks"   -> {"networks"}
      [] PageOf(h) = "settings"   -> {"connection", "ping", "systemInfo"}

-----------------------------------------------------------------------------
(***************************************************************************)
(* Requests                                                                *)
(***************************************************************************)

Active == Observes(page)

Fetching(q) == request[q] # None

\* `retry: 1`
NewRequest == [seen |-> 0, retry |-> "left"]

\* A query has one request at a time; asking again joins it.
Joined(r) ==
    IF r = None THEN NewRequest
    ELSE IF r.retry = "cancelled" THEN [r EXCEPT !.retry = "left"]
    ELSE r

Fetch(qs) ==
    request' = [q \in Queries |-> IF q \in qs THEN Joined(request[q]) ELSE request[q]]

Stale(q) == ~fresh[q] \/ invalidated[q] \/ data[q] = 0

\* cancelRefetch: an invalidation gives up the request of an active query and
\* makes a new one, unless the query has no data yet.
Restarts(q) == q \in Active /\ data[q] # 0

\* invalidateQueries: active queries are fetched at once.
Invalidate(qs) ==
    /\ invalidated' = [q \in Queries |-> invalidated[q] \/ q \in qs]
    /\ request' = [q \in Queries |->
            IF q \notin qs \cap Active THEN request[q]
            ELSE IF Restarts(q) THEN NewRequest
            ELSE Joined(request[q])]

Init ==
    /\ page \in Pages
    /\ focused = TRUE
    /\ world = 1
    /\ calls = [h \in Hooks |-> None]
    /\ data = [q \in Queries |-> 0]
    /\ request = [q \in Queries |-> IF q \in Active THEN NewRequest ELSE None]
    /\ fresh = [q \in Queries |-> FALSE]
    /\ invalidated = [q \in Queries |-> FALSE]
    /\ failed = [q \in Queries |-> FALSE]
    /\ owed = [q \in Queries |-> 0]

-----------------------------------------------------------------------------
(***************************************************************************)
(* The user                                                                *)
(***************************************************************************)

\* Mutant of Go: refetchOnMount is off.
GoUnfetched(p) ==
    /\ p # page
    /\ page' = p
    /\ UNCHANGED <<focused, world, calls, data, request, fresh, invalidated, failed, owed>>

\* The sidebar's link, or the drawer's tab.  What comes on display is fetched
\* if it is stale; a request nobody waits for any more is not retried.
Go(p) ==
    LET mounted == Observes(p) \ Active
        left    == Active \ Observes(p)
        joining == {q \in mounted : Stale(q)}
    IN  /\ p # page
        /\ page' = p
        /\ request' = [q \in Queries |->
                IF q \in joining THEN Joined(request[q])
                ELSE IF q \in left /\ Fetching(q) /\ request[q].retry = "left"
                     THEN [request[q] EXCEPT !.retry = "cancelled"]
                ELSE request[q]]
        /\ UNCHANGED <<focused, world, calls, data, fresh, invalidated, failed, owed>>

LoseFocus ==
    /\ focused
    /\ focused' = FALSE
    /\ UNCHANGED <<page, world, calls, data, request, fresh, invalidated, failed, owed>>

GainFocus ==
    /\ ~focused
    /\ focused' = TRUE
    /\ Fetch({q \in Active \cap RefetchedOnFocus : Stale(q)})
    /\ UNCHANGED <<page, world, calls, data, fresh, invalidated, failed, owed>>

\* "Refresh data" of the top bar, disabled while anything is fetched.
RefreshAll ==
    /\ \A q \in Queries : ~Fetching(q)
    /\ Invalidate(Queries)
    /\ UNCHANGED <<page, focused, world, calls, data, fresh, failed, owed>>

\* Bound: one call of a hook at a time.
Submit(h) ==
    /\ page = PageOf(h)
    /\ calls[h] = None
    /\ calls' = [calls EXCEPT ![h] = [stage |-> "sent", at |-> 0]]
    /\ UNCHANGED <<page, focused, world, data, request, fresh, invalidated, failed, owed>>

-----------------------------------------------------------------------------
(***************************************************************************)
(* The server                                                              *)
(***************************************************************************)

\* The call changes the engine, or switches to another one.  It may be answered
\* with an error all the same: a switch whose ping fails, a container that is
\* created and does not start, an answer that is lost.
Apply(h) ==
    /\ calls[h] # None /\ calls[h].stage = "sent"
    /\ world < MaxWorld
    /\ world' = world + 1
    /\ \/ calls' = [calls EXCEPT ![h] = [stage |-> "applied", at |-> world + 1]]
       \/ calls' = [calls EXCEPT ![h] = [stage |-> "refused", at |-> 0]]
    /\ UNCHANGED <<page, focused, data, request, fresh, invalidated, failed, owed>>

Refuse(h) ==
    /\ calls[h] # None /\ calls[h].stage = "sent"
    /\ calls' = [calls EXCEPT ![h].stage = "refused"]
    /\ UNCHANGED <<page, focused, world, data, request, fresh, invalidated, failed, owed>>

\* Another browser, or Docker itself.
OthersChange ==
    /\ world < MaxWorld
    /\ world' = world + 1
    /\ UNCHANGED <<page, focused, calls, data, request, fresh, invalidated, failed, owed>>

\* The list is made.
Serve(q) ==
    /\ Fetching(q) /\ request[q].seen = 0
    /\ request' = [request EXCEPT ![q].seen = world]
    /\ UNCHANGED <<page, focused, world, calls, data, fresh, invalidated, failed, owed>>

-----------------------------------------------------------------------------
(***************************************************************************)
(* Answers and timers                                                      *)
(***************************************************************************)

\* The lists that the user may expect to show the change.
Concerned(h) == Invalidates(h) \cup (Observes(PageOf(h)) \ {"ping"})

\* The invalidation meets a first load, or a request of a page that was left.
Crosses(q) == Fetching(q) /\ ~(q \in Active /\ data[q] # 0)

\* onSuccess of the hook; it runs whether or not its page is still on display.
Acknowledge(h) ==
    /\ calls[h] # None /\ calls[h].stage = "applied"
    /\ calls' = [calls EXCEPT ![h] = None]
    /\ Invalidate(Invalidates(h))
    /\ owed' = [q \in Queries |->
            IF q \in Concerned(h) /\ ~Crosses(q) /\ calls[h].at > owed[q]
            THEN calls[h].at ELSE owed[q]]
    /\ UNCHANGED <<page, focused, world, data, fresh, failed>>

ReportRefusal(h) ==
    /\ calls[h] # None /\ calls[h].stage = "refused"
    /\ calls' = [calls EXCEPT ![h] = None]
    /\ UNCHANGED <<page, focused, world, data, request, fresh, invalidated, failed, owed>>

Succeed(q) ==
    /\ Fetching(q) /\ request[q].seen # 0
    /\ data' = [data EXCEPT ![q] = request[q].seen]
    /\ request' = [request EXCEPT ![q] = None]
    /\ fresh' = [fresh EXCEPT ![q] = TRUE]
    /\ invalidated' = [invalidated EXCEPT ![q] = FALSE]
    /\ failed' = [failed EXCEPT ![q] = FALSE]
    /\ owed' = [owed EXCEPT ![q] = IF request[q].seen < @ THEN @ ELSE 0]
    /\ UNCHANGED <<page, focused, world, calls>>

Retry(q) ==
    /\ Fetching(q) /\ request[q].retry = "left"
    /\ request' = [request EXCEPT ![q] = [seen |-> 0, retry |-> "used"]]
    /\ UNCHANGED <<page, focused, world, calls, data, fresh, invalidated, failed, owed>>

\* The data stays, but the page shows the error in its place.
Fail(q) ==
    /\ Fetching(q) /\ request[q].retry # "left"
    /\ request' = [request EXCEPT ![q] = None]
    /\ failed' = [failed EXCEPT ![q] = TRUE]
    /\ invalidated' = [invalidated EXCEPT ![q] = TRUE]
    /\ UNCHANGED <<page, focused, world, calls, data, fresh, owed>>

Poll(q) ==
    /\ q \in Polled \cap Active
    /\ focused
    /\ ~Fetching(q)
    /\ Fetch({q})
    /\ UNCHANGED <<page, focused, world, calls, data, fresh, invalidated, failed, owed>>

\* staleTime is over.
GrowStale(q) ==
    /\ fresh[q]
    /\ fresh' = [fresh EXCEPT ![q] = FALSE]
    /\ UNCHANGED <<page, focused, world, calls, data, request, invalidated, failed, owed>>

\* gcTime is over for a query nobody observes.
Collect(q) ==
    /\ q \notin Active /\ ~Fetching(q)
    /\ data' = [data EXCEPT ![q] = 0]
    /\ fresh' = [fresh EXCEPT ![q] = FALSE]
    /\ invalidated' = [invalidated EXCEPT ![q] = FALSE]
    /\ failed' = [failed EXCEPT ![q] = FALSE]
    /\ UNCHANGED <<page, focused, world, calls, request, owed>>

-----------------------------------------------------------------------------

User ==
    \/ \E p \in Pages : Go(p)
    \/ LoseFocus \/ GainFocus \/ RefreshAll
    \/ \E h \in Hooks : Submit(h)

Mutation(h) == Apply(h) \/ Refuse(h) \/ Acknowledge(h) \/ ReportRefusal(h)

Query(q) ==
    \/ Serve(q) \/ Succeed(q) \/ Retry(q) \/ Fail(q)
    \/ Poll(q) \/ GrowStale(q) \/ Collect(q)

Next ==
    \/ User
    \/ OthersChange
    \/ \E h \in Hooks : Mutation(h)
    \/ \E q \in Queries : Query(q)

\* Timers fire, and a request that is repeated for ever is served some time, and
\* answered some time.  Nobody has to visit a page or to change anything.
Fairness ==
    \A q \in Queries : WF_vars(Poll(q)) /\ SF_vars(Serve(q)) /\ SF_vars(Succeed(q))

Spec == Init /\ [][Next]_vars /\ Fairness

-----------------------------------------------------------------------------
(***************************************************************************)
(* What is on display                                                      *)
(***************************************************************************)

\* isLoading: the first answer is awaited.
IsLoading(q) == data[q] = 0 /\ Fetching(q)

\* isError; a first load that is tried again is loading, not in error.
IsError(q) == failed[q] /\ ~IsLoading(q)

\* The panels of a page that shows a list.
ListPanel(q) ==
    IF IsLoading(q) THEN "loading" ELSE IF IsError(q) THEN "error"
    ELSE IF data[q] # 0 THEN "data" ELSE "blank"

\* The dashboard and the inspect tab have no blank panel: without data they
\* show their error.
DashboardPanel ==
    IF IsLoading("systemInfo") THEN "loading"
    ELSE IF IsError("systemInfo") \/ data["systemInfo"] = 0 THEN "error" ELSE "data"

InspectPanel ==
    IF IsLoading("inspect") THEN "loading"
    ELSE IF IsError("inspect") \/ data["inspect"] = 0 THEN "error" ELSE "data"

\* The settings page looks at isLoading only: after an error its form is shown,
\* with what the cache has or with the defaults.
SettingsPanel == IF IsLoading("connection") THEN "loading" ELSE "data"

\* The sidebar's status.
StatusPanel == IF data["ping"] # 0 /\ ~IsError("ping") THEN "data" ELSE "error"

Panel(q) ==
    CASE q = "systemInfo" -> DashboardPanel
      [] q = "inspect"    -> InspectPanel
      [] q = "connection" -> SettingsPanel
      [] q = "ping"       -> StatusPanel
      [] OTHER            -> ListPanel(q)

-----------------------------------------------------------------------------

\* A list on display that is not being fetched and shows no error shows every
\* change that this browser was told had succeeded, if the change was made on the
\* list's page or its hook invalidates the list - on whatever page the change was made, and however
\* polls, navigation, focus and the cache's timers fall.  The exception is
\* an invalidation that met a first load, or a request of a page that was left:
\* react-query lets such a request finish and takes its older answer for new.
\* The settings form has no error panel and may show an old connection.
ListShowsOwnChanges ==
    \A q \in Active \ {"connection"} :
        Panel(q) = "data" /\ data[q] # 0 /\ ~Fetching(q) => owed[q] = 0

\* A page never comes up blank: whatever was cached, collected, cancelled or
\* failed before, its list is loading, in error or there.
NeverBlank == \A q \in Active : Panel(q) # "blank" /\ (data[q] = 0 => Fetching(q) \/ failed[q])

\* The cache gives the pages the views they may expect: no list ever goes back
\* to an older version, and a polled list on display in a focused window keeps
\* up with the engine, failures and switches notwithstanding.
View == INSTANCE EventualView WITH
    Lists <- Queries,
    PolledLists <- Queries \cap {"containers", "systemInfo", "ping"},
    view <- data,
    watched <- IF focused THEN Active ELSE {}

KeepsView == View!ViewSpec
=============================================================================
