-------------------------- MODULE QueryCache_proofs --------------------------
(***************************************************************************)
(* The safety of QueryCache, for any choice of pages, queries and hooks    *)
(* and any number of changes.                                              *)
(***************************************************************************)
EXTENDS QueryCache, TLAPS

USE CacheAssumption DEF CacheAssumption

\* Nothing is newer than the engine, and an answer under way is not older than the
\* data it replaces.
Versions ==
    /\ \A q \in Queries : data[q] <= world
    /\ \A q \in Queries : request[q] # None =>
         request[q].seen <= world /\ (request[q].seen = 0 \/ request[q].seen >= data[q])
    /\ \A h \in Hooks : calls[h] # None => calls[h].at <= world

\* A query on display without data is being fetched or has failed.
Waiting == \A q \in Active : data[q] = 0 => Fetching(q) \/ failed[q]

\* A query that owes a change is being asked for it, or has failed and says so, or
\* will be fetched when it comes on display.
Owing ==
    \A q \in Queries : owed[q] # 0 =>
        /\ owed[q] <= world
        /\ Fetching(q) => request[q].seen = 0 \/ request[q].seen >= owed[q]
        /\ ~Fetching(q) => /\ invalidated[q] \/ data[q] = 0
                           /\ q \in Active => failed[q]

CacheInv == TypeOK /\ Versions /\ Waiting /\ Owing

-----------------------------------------------------------------------------
(* Requests.                                                               *)

LEMMA NewRequestType == NewRequest \in Request /\ NewRequest # None /\ NewRequest.seen = 0
BY DEF NewRequest, Request

\* To join a request keeps what it has seen.
LEMMA JoinedType ==
    ASSUME NEW r \in Request \cup {None}
    PROVE  /\ Joined(r) \in Request /\ Joined(r) # None
           /\ r = None => Joined(r).seen = 0
           /\ r # None => Joined(r).seen = r.seen
BY NewRequestType DEF Joined, Request

LEMMA ObservesQueries == \A p : Observes(p) \subseteq Queries
BY DEF Observes

\* A fetch touches nothing but the requests, and loses none of them.
LEMMA Fetches ==
    ASSUME TypeOK, NEW qs, Fetch(qs)
    PROVE  /\ request' \in [Queries -> Request \cup {None}]
           /\ \A q \in Queries : q \in qs => request'[q] # None
           /\ \A q \in Queries : request'[q] = request[q]
                \/ /\ request'[q] # None
                   /\ IF request[q] = None THEN request'[q].seen = 0
                      ELSE request'[q].seen = request[q].seen
BY JoinedType DEF Fetch, TypeOK

\* An invalidation makes a request new, joins it, or leaves it; an active query is
\* fetched, and anew if it has data.
LEMMA Invalidation ==
    ASSUME TypeOK, NEW qs, Invalidate(qs)
    PROVE  /\ request' \in [Queries -> Request \cup {None}]
           /\ invalidated' \in [Queries -> BOOLEAN]
           /\ \A q \in Queries : (invalidated[q] \/ q \in qs) <=> invalidated'[q]
           /\ \A q \in Queries : q \in qs /\ q \in Active => request'[q] # None
           /\ \A q \in Queries : q \in qs /\ q \in Active /\ data[q] # 0 => request'[q].seen = 0
           /\ \A q \in Queries : request'[q] = request[q]
                \/ /\ request'[q] # None
                   /\ \/ request'[q].seen = 0
                      \/ request[q] # None /\ request'[q].seen = request[q].seen
BY JoinedType, NewRequestType DEF Invalidate, Restarts, TypeOK

-----------------------------------------------------------------------------
(* Types.                                                                  *)

LEMMA TypeStep == ASSUME TypeOK, [Next]_vars PROVE TypeOK'
<1> USE DEF TypeOK
<1>1. ASSUME NEW p \in Pages, Go(p) PROVE TypeOK'
  <2>1. ASSUME NEW q \in Queries PROVE request'[q] \in Request \cup {None}
    BY <1>1, JoinedType DEF Go, Fetching, Request
  <2>2. request' \in [Queries -> Request \cup {None}]
    BY <1>1, <2>1 DEF Go
  <2> QED
    BY <1>1, <2>2 DEF Go
<1>2. CASE LoseFocus
  BY <1>2 DEF LoseFocus
<1>3. CASE GainFocus
  BY <1>3, Fetches DEF GainFocus
<1>4. CASE RefreshAll
  BY <1>4, Invalidation DEF RefreshAll
<1>5. ASSUME NEW h \in Hooks, Submit(h) PROVE TypeOK'
  BY <1>5 DEF Submit, Call
<1>6. ASSUME NEW h \in Hooks, Apply(h) PROVE TypeOK'
  BY <1>6 DEF Apply, Call
<1>7. ASSUME NEW h \in Hooks, Refuse(h) PROVE TypeOK'
  BY <1>7 DEF Refuse, Call
<1>8. ASSUME NEW h \in Hooks, Acknowledge(h) PROVE TypeOK'
  <2>1. calls[h].at \in 0..MaxWorld
    BY <1>8 DEF Acknowledge, Call
  <2>2. owed' \in [Queries -> 0..MaxWorld]
    BY <1>8, <2>1 DEF Acknowledge
  <2> QED
    BY <1>8, <2>2, Invalidation DEF Acknowledge
<1>9. ASSUME NEW h \in Hooks, ReportRefusal(h) PROVE TypeOK'
  BY <1>9 DEF ReportRefusal
<1>10. CASE OthersChange
  BY <1>10 DEF OthersChange
<1>11. ASSUME NEW q \in Queries, Serve(q) PROVE TypeOK'
  BY <1>11 DEF Serve, Fetching, Request
<1>12. ASSUME NEW q \in Queries, Succeed(q) PROVE TypeOK'
  BY <1>12 DEF Succeed, Fetching, Request
<1>13. ASSUME NEW q \in Queries, Retry(q) PROVE TypeOK'
  BY <1>13 DEF Retry, Fetching, Request
<1>14. ASSUME NEW q \in Queries, Fail(q) \/ Collect(q) \/ GrowStale(q) PROVE TypeOK'
  <2>1. CASE Fail(q)
    BY <2>1 DEF Fail
  <2>2. CASE Collect(q)
    BY <2>2 DEF Collect
  <2>3. CASE GrowStale(q)
    BY <2>3 DEF GrowStale
  <2> QED
    BY <1>14, <2>1, <2>2, <2>3
<1>15. ASSUME NEW q \in Queries, Poll(q) PROVE TypeOK'
  BY <1>15, Fetches DEF Poll
<1>16. CASE UNCHANGED vars
  BY <1>16 DEF vars
<1> QED
  BY <1>1, <1>2, <1>3, <1>4, <1>5, <1>6, <1>7, <1>8, <1>9, <1>10, <1>11, <1>12, <1>13, <1>14,
     <1>15, <1>16
     DEF Next, User, Mutation, Query

\* A page that comes on display joins the requests of what it needs and is stale.
LEMMA Visits ==
    ASSUME TypeOK, NEW p \in Pages, Go(p)
    PROVE  /\ Active' = Observes(p)
           /\ \A q \in Queries : request[q] # None => request'[q] # None
           /\ \A q \in Queries : request'[q] = request[q]
                \/ /\ request'[q] # None
                   /\ IF request[q] = None THEN request'[q].seen = 0
                      ELSE request'[q].seen = request[q].seen
           /\ \A q \in Observes(p) \ Active : Stale(q) => request'[q] # None
<1>1. ASSUME NEW q \in Queries
      PROVE  /\ request[q] # None => request'[q] # None
             /\ \/ request'[q] = request[q]
                \/ /\ request'[q] # None
                   /\ IF request[q] = None THEN request'[q].seen = 0
                      ELSE request'[q].seen = request[q].seen
             /\ q \in Observes(p) \ Active /\ Stale(q) => request'[q] # None
  BY JoinedType DEF Go, Fetching, Request, TypeOK
<1> QED
  BY <1>1, ObservesQueries DEF Active, Go

-----------------------------------------------------------------------------
(* Versions.                                                               *)

LEMMA VersionsStep ==
    ASSUME TypeOK, Versions, [Next]_vars
    PROVE  Versions' /\ world <= world'
<1> USE DEF TypeOK, Versions
<1>1. ASSUME NEW p \in Pages, Go(p) PROVE Versions' /\ world <= world'
  BY <1>1, Visits DEF Go
<1>2. CASE LoseFocus
  BY <1>2 DEF LoseFocus
<1>3. CASE GainFocus
  BY <1>3, Fetches DEF GainFocus
<1>4. CASE RefreshAll
  BY <1>4, Invalidation DEF RefreshAll
<1>5. ASSUME NEW h \in Hooks, Submit(h) PROVE Versions' /\ world <= world'
  BY <1>5 DEF Submit
<1>6. ASSUME NEW h \in Hooks, Apply(h) PROVE Versions' /\ world <= world'
  <2>1. world \in Nat /\ world' = world + 1 /\ UNCHANGED <<data, request>>
    BY <1>6 DEF Apply
  <2>2. \A g \in Hooks : calls'[g] # None => calls'[g].at <= world'
    BY <1>6, <2>1 DEF Apply, Call
  <2>3. \A q \in Queries : data'[q] <= world'
    BY <2>1
  <2>4. \A q \in Queries : request'[q] # None =>
          request'[q].seen <= world' /\ (request'[q].seen = 0 \/ request'[q].seen >= data'[q])
    BY <2>1 DEF Request
  <2> QED
    BY <2>1, <2>2, <2>3, <2>4
<1>7. ASSUME NEW h \in Hooks, Refuse(h) PROVE Versions' /\ world <= world'
  BY <1>7 DEF Refuse, Call
<1>8. ASSUME NEW h \in Hooks, Acknowledge(h) PROVE Versions' /\ world <= world'
  BY <1>8, Invalidation DEF Acknowledge
<1>9. ASSUME NEW h \in Hooks, ReportRefusal(h) PROVE Versions' /\ world <= world'
  BY <1>9 DEF ReportRefusal
<1>10. CASE OthersChange
  <2>1. world \in Nat /\ world' = world + 1 /\ UNCHANGED <<data, request, calls>>
    BY <1>10 DEF OthersChange
  <2> QED
    BY <2>1 DEF Request, Call
<1>11. ASSUME NEW q \in Queries, Serve(q) PROVE Versions' /\ world <= world'
  BY <1>11 DEF Serve, Fetching, Request
<1>12. ASSUME NEW q \in Queries, Succeed(q) PROVE Versions' /\ world <= world'
  BY <1>12 DEF Succeed, Fetching, Request
<1>13. ASSUME NEW q \in Queries, Retry(q) PROVE Versions' /\ world <= world'
  BY <1>13 DEF Retry, Fetching, Request
<1>14. ASSUME NEW q \in Queries, Fail(q) \/ Collect(q) \/ GrowStale(q)
       PROVE  Versions' /\ world <= world'
  BY <1>14 DEF Fail, Collect, GrowStale, Request
<1>15. ASSUME NEW q \in Queries, Poll(q) PROVE Versions' /\ world <= world'
  BY <1>15, Fetches DEF Poll
<1>16. CASE UNCHANGED vars
  BY <1>16 DEF vars
<1> QED
  BY <1>1, <1>2, <1>3, <1>4, <1>5, <1>6, <1>7, <1>8, <1>9, <1>10, <1>11, <1>12, <1>13, <1>14,
     <1>15, <1>16
     DEF Next, User, Mutation, Query

-----------------------------------------------------------------------------
(* Waiting.                                                                *)

\* A query without data that comes on display is stale, so it is fetched; only an
\* answer ends a request without an error.
LEMMA WaitingStep ==
    ASSUME TypeOK, Waiting, [Next]_vars
    PROVE  Waiting'
<1> USE DEF TypeOK, Waiting, Fetching
<1>0. \A q \in Active : q \in Queries
  BY ObservesQueries DEF Active
<1>1. ASSUME NEW p \in Pages, Go(p) PROVE Waiting'
  <2>1. Active' = Observes(p) /\ Observes(p) \subseteq Queries /\ UNCHANGED <<data, failed>>
    BY <1>1, Visits, ObservesQueries DEF Go
  <2>2. ASSUME NEW q \in Observes(p), data[q] = 0 PROVE request'[q] # None \/ failed[q]
    BY <1>1, <2>1, <2>2, Visits DEF Stale
  <2> QED
    BY <2>1, <2>2
<1>2. CASE GainFocus
  BY <1>0, <1>2, Fetches DEF GainFocus, Active
<1>3. CASE RefreshAll
  BY <1>0, <1>3, Invalidation DEF RefreshAll, Active
<1>4. ASSUME NEW h \in Hooks, Acknowledge(h) PROVE Waiting'
  BY <1>0, <1>4, Invalidation DEF Acknowledge, Active
<1>5. ASSUME NEW q \in Queries, Serve(q) \/ Retry(q) PROVE Waiting'
  <2>1. request'[q] # None /\ \A r \in Queries \ {q} : request'[r] = request[r]
    BY <1>5 DEF Serve, Retry, Request
  <2>2. UNCHANGED <<data, failed, page>>
    BY <1>5 DEF Serve, Retry
  <2> QED
    BY <1>0, <2>1, <2>2 DEF Active
<1>6. ASSUME NEW q \in Queries, Succeed(q) PROVE Waiting'
  BY <1>0, <1>6 DEF Succeed, Active
<1>7. ASSUME NEW q \in Queries, Fail(q) PROVE Waiting'
  BY <1>0, <1>7 DEF Fail, Active
<1>8. ASSUME NEW q \in Queries, Poll(q) PROVE Waiting'
  BY <1>0, <1>8, Fetches DEF Poll, Active
<1>9. ASSUME NEW q \in Queries, Collect(q) PROVE Waiting'
  BY <1>0, <1>9 DEF Collect, Active
<1>10. CASE UNCHANGED <<page, data, request, failed>>
  BY <1>10 DEF Active
<1>11. \/ UNCHANGED <<page, data, request, failed>>
       \/ GainFocus \/ RefreshAll
       \/ \E p \in Pages : Go(p)
       \/ \E h \in Hooks : Acknowledge(h)
       \/ \E q \in Queries : Serve(q) \/ Retry(q) \/ Succeed(q) \/ Fail(q) \/ Poll(q) \/ Collect(q)
  BY DEF vars, Next, User, Mutation, Query, LoseFocus, Submit, Apply, Refuse, ReportRefusal,
         OthersChange, GrowStale
<1> QED
  BY <1>1, <1>2, <1>3, <1>4, <1>5, <1>6, <1>7, <1>8, <1>9, <1>10, <1>11

-----------------------------------------------------------------------------
(* Debts.                                                                  *)

\* Every query that a change concerns is invalidated by its hook.
LEMMA ConcernedInvalidated ==
    ASSUME NEW h \in Hooks
    PROVE  Concerned(h) \subseteq Invalidates(h)
BY DEF Concerned, Invalidates, Observes, PageOf, AllHooks, ContainerHooks, ImageHooks,
       VolumeHooks, NetworkHooks, SettingsHooks

LEMMA OwingStep ==
    ASSUME CacheInv, [Next]_vars
    PROVE  Owing'
<1> USE DEF CacheInv, TypeOK, Owing, Fetching
<1>0. \A q \in Active : q \in Queries
  BY ObservesQueries DEF Active
<1>1. ASSUME NEW p \in Pages, Go(p) PROVE Owing'
  <2>1. /\ Active' = Observes(p) /\ Observes(p) \subseteq Queries
        /\ UNCHANGED <<data, failed, owed, invalidated, world>>
    BY <1>1, Visits, ObservesQueries DEF Go
  <2>2. ASSUME NEW q \in Queries, owed[q] # 0, request'[q] # None
        PROVE  request'[q].seen = 0 \/ request'[q].seen >= owed[q]
    BY <1>1, <2>2, Visits
  <2>3. ASSUME NEW q \in Queries, owed[q] # 0, request'[q] = None
        PROVE  (invalidated[q] \/ data[q] = 0) /\ (q \in Observes(p) => failed[q])
    BY <1>1, <2>3, Visits DEF Stale
  <2> QED
    BY <2>1, <2>2, <2>3
<1>2. CASE GainFocus
  BY <1>2, Fetches DEF GainFocus, Active
<1>3. CASE RefreshAll
  BY <1>3, Invalidation DEF RefreshAll, Active
<1>4. ASSUME NEW h \in Hooks, Acknowledge(h) PROVE Owing'
  <2>1. /\ Invalidate(Invalidates(h)) /\ UNCHANGED <<page, world, data, failed>>
        /\ Active' = Active
        /\ calls[h].at <= world
    BY <1>4 DEF Acknowledge, Active, Versions
  <2>2. ASSUME NEW q \in Queries, owed'[q] # 0 PROVE owed'[q] <= world
    BY <1>4, <2>1, <2>2 DEF Acknowledge
  <2>3. ASSUME NEW q \in Queries, owed'[q] # owed[q]
        PROVE  /\ q \in Invalidates(h) /\ invalidated'[q]
               /\ request'[q] # None => request'[q].seen = 0
               /\ q \in Active => request'[q] # None
    <3>1. q \in Invalidates(h) /\ ~Crosses(q)
      BY <1>4, <2>3, ConcernedInvalidated DEF Acknowledge
    <3>2. request[q] # None => q \in Active /\ data[q] # 0
      BY <3>1 DEF Crosses
    <3> QED
      BY <2>1, <3>1, <3>2, Invalidation
  <2>4. ASSUME NEW q \in Queries, owed'[q] = owed[q], owed[q] # 0
        PROVE  /\ request'[q] # None => request'[q].seen = 0 \/ request'[q].seen >= owed[q]
               /\ request'[q] = None => /\ invalidated'[q] \/ data[q] = 0
                                        /\ q \in Active => failed[q]
    BY <2>1, <2>4, Invalidation
  <2> QED
    BY <2>1, <2>2, <2>3, <2>4
<1>5. ASSUME NEW q \in Queries, Serve(q) PROVE Owing'
  <2>1. /\ request'[q] # None /\ request'[q].seen = world
        /\ \A r \in Queries \ {q} : request'[r] = request[r]
    BY <1>5 DEF Serve, Request
  <2>2. UNCHANGED <<data, failed, page, owed, invalidated, world>>
    BY <1>5 DEF Serve
  <2> QED
    BY <2>1, <2>2 DEF Active
<1>6. ASSUME NEW q \in Queries, Retry(q) PROVE Owing'
  <2>1. /\ request'[q] # None /\ request'[q].seen = 0
        /\ \A r \in Queries \ {q} : request'[r] = request[r]
    BY <1>6 DEF Retry, Request
  <2>2. UNCHANGED <<data, failed, page, owed, invalidated, world>>
    BY <1>6 DEF Retry
  <2> QED
    BY <2>1, <2>2 DEF Active
<1>7. ASSUME NEW q \in Queries, Succeed(q) PROVE Owing'
  <2>1. owed'[q] = 0
    BY <1>7 DEF Succeed, Request
  <2>2. /\ \A r \in Queries \ {q} : /\ request'[r] = request[r] /\ owed'[r] = owed[r]
                                    /\ data'[r] = data[r] /\ failed'[r] = failed[r]
                                    /\ invalidated'[r] = invalidated[r]
        /\ UNCHANGED <<page, world>>
    BY <1>7 DEF Succeed
  <2> QED
    BY <2>1, <2>2 DEF Active
<1>8. ASSUME NEW q \in Queries, Fail(q) PROVE Owing'
  BY <1>8 DEF Fail, Active
<1>9. ASSUME NEW q \in Queries, Poll(q) PROVE Owing'
  BY <1>9, Fetches DEF Poll, Active
<1>10. ASSUME NEW q \in Queries, Collect(q) PROVE Owing'
  BY <1>10 DEF Collect, Active
<1>11. CASE UNCHANGED <<page, data, request, failed, invalidated, owed>>
  <2>1. world <= world' /\ world \in Nat /\ world' \in Nat
    BY VersionsStep, TypeStep
  <2>2. \A q \in Queries : owed[q] \in Nat /\ (owed[q] <= world => owed[q] <= world')
    BY <2>1
  <2>3. Active' = Active
    BY <1>11 DEF Active
  <2> QED
    BY <1>11, <2>2, <2>3
<1>12. \/ UNCHANGED <<page, data, request, failed, invalidated, owed>>
       \/ GainFocus \/ RefreshAll
       \/ \E p \in Pages : Go(p)
       \/ \E h \in Hooks : Acknowledge(h)
       \/ \E q \in Queries : Serve(q) \/ Retry(q) \/ Succeed(q) \/ Fail(q) \/ Poll(q) \/ Collect(q)
  BY DEF vars, Next, User, Mutation, Query, LoseFocus, Submit, Apply, Refuse, ReportRefusal,
         OthersChange, GrowStale
<1> QED
  BY <1>1, <1>2, <1>3, <1>4, <1>5, <1>6, <1>7, <1>8, <1>9, <1>10, <1>11, <1>12

-----------------------------------------------------------------------------
(* The theorems.                                                           *)

LEMMA InitInv == ASSUME Init PROVE CacheInv
<1> USE DEF Init
<1>1. \A q \in Queries : request[q] \in Request \cup {None} /\ (request[q] # None => request[q].seen = 0)
  BY NewRequestType
<1>2. TypeOK
  BY <1>1 DEF TypeOK
<1>3. Versions
  BY <1>1 DEF Versions
<1>4. Waiting
  BY NewRequestType, ObservesQueries DEF Waiting, Active, Fetching
<1>5. Owing
  BY DEF Owing
<1> QED
  BY <1>2, <1>3, <1>4, <1>5 DEF CacheInv

\* The inductive invariant holds in every reachable state.
THEOREM CacheInvariance == Spec => []CacheInv
<1>1. Init => CacheInv
  BY InitInv
<1>2. CacheInv /\ [Next]_vars => CacheInv'
  BY TypeStep, VersionsStep, WaitingStep, OwingStep DEF CacheInv
<1> QED
  BY <1>1, <1>2, PTL DEF Spec

\* No page is blank: whatever staleTime, gcTime, focus, retries and navigation do.
THEOREM PagesNeverBlank == Spec => []NeverBlank
<1>1. CacheInv => NeverBlank
  <2> SUFFICES ASSUME CacheInv, NEW q \in Active
               PROVE  Panel(q) # "blank" /\ (data[q] = 0 => Fetching(q) \/ failed[q])
    BY DEF NeverBlank
  <2>1. data[q] = 0 => Fetching(q) \/ failed[q]
    BY DEF CacheInv, Waiting
  <2>2. ListPanel(q) # "blank"
    BY <2>1 DEF ListPanel, IsLoading, IsError
  <2> QED
    BY <2>1, <2>2 DEF Panel, DashboardPanel, InspectPanel, SettingsPanel, StatusPanel
<1> QED
  BY <1>1, CacheInvariance, PTL

\* A change of this browser that was acknowledged is on display wherever a list is at
\* rest: the hooks' onSuccess invalidates enough, on every page.
THEOREM OwnChangesShown == Spec => []ListShowsOwnChanges
<1>1. CacheInv => ListShowsOwnChanges
  <2> SUFFICES ASSUME CacheInv, NEW q \in Active \ {"connection"},
                      Panel(q) = "data", data[q] # 0, ~Fetching(q)
               PROVE  owed[q] = 0
    BY DEF ListShowsOwnChanges
  <2>1. q \in Queries /\ q \in Active
    BY ObservesQueries DEF Active
  <2>2. ~failed[q]
    BY DEF Panel, DashboardPanel, InspectPanel, SettingsPanel, StatusPanel, ListPanel, IsLoading,
           IsError
  <2> QED
    BY <2>1, <2>2 DEF CacheInv, Owing
<1> QED
  BY <1>1, CacheInvariance, PTL

\* Every step of the cache is a step of EventualView, or none: no list goes back
\* to an older version, and a list on display is not forgotten.
LEMMA ViewStep ==
    ASSUME CacheInv, [Next]_vars
    PROVE  [View!Step]_(View!viewVars)
<1> USE DEF CacheInv, TypeOK, Versions, Fetching, View!viewVars
<1>1. ASSUME NEW q \in Queries, Succeed(q) PROVE [View!Step]_(View!viewVars)
  <2>1. /\ request[q] # None /\ data' = [data EXCEPT ![q] = request[q].seen]
        /\ UNCHANGED <<world, page, focused>>
    BY <1>1 DEF Succeed
  <2>2. request[q].seen \in Nat /\ data[q] <= request[q].seen /\ request[q].seen <= world
    BY <1>1, <2>1 DEF Succeed, Request
  <2>3. CASE request[q].seen = data[q]
    BY <2>1, <2>3 DEF Active
  <2>4. CASE request[q].seen # data[q]
    <3>1. data[q] < world /\ request[q].seen \in (data[q] + 1)..world
      BY <2>2, <2>4
    <3>2. View!Advance(q)
      BY <2>1, <3>1 DEF View!Advance, Active
    <3> QED
      BY <3>2 DEF View!Step
  <2> QED
    BY <2>3, <2>4
<1>2. ASSUME NEW q \in Queries, Collect(q) PROVE [View!Step]_(View!viewVars)
  <2>1. View!Forget(q)
    BY <1>2 DEF Collect, View!Forget, Active
  <2> QED
    BY <2>1 DEF View!Step
<1>3. CASE UNCHANGED data /\ world' = world + 1 /\ UNCHANGED <<page, focused>>
  BY <1>3 DEF View!Step, View!Change, Active
<1>4. CASE UNCHANGED <<data, world>>
  <2>1. Active' \subseteq Queries
    BY ObservesQueries DEF Active
  <2>2. View!Turn
    BY <1>4, <2>1 DEF View!Turn
  <2> QED
    BY <2>2 DEF View!Step
<1>5. \/ \E q \in Queries : Succeed(q) \/ Collect(q)
      \/ UNCHANGED data /\ world' = world + 1 /\ UNCHANGED <<page, focused>>
      \/ UNCHANGED <<data, world>>
  BY DEF vars, Next, User, Mutation, Query, Go, LoseFocus, GainFocus, RefreshAll, Submit, Apply,
         Refuse, Acknowledge, ReportRefusal, OthersChange, Serve, Retry, Fail, Poll, GrowStale
<1> QED
  BY <1>1, <1>2, <1>3, <1>4, <1>5

\* The cache implements the safety of EventualView.
THEOREM ImplementsView == Spec => View!ViewSafety
<1>1. Init => View!Start
  BY ObservesQueries DEF Init, View!Start, Active
<1>2. CacheInv /\ [Next]_vars => [View!Step]_(View!viewVars)
  BY ViewStep
<1> QED
  BY <1>1, <1>2, CacheInvariance, PTL DEF Spec, View!ViewSafety
=============================================================================
