--------------------- MODULE MonitorSubscription_proofs ---------------------
(***************************************************************************)
(* The safety of MonitorSubscription, for any number of effects, items and *)
(* lines.                                                                  *)
(***************************************************************************)
EXTENDS MonitorSubscription, SequenceTheorems, TLAPS

USE SubscriptionAssumption DEF SubscriptionAssumption, Effects

-----------------------------------------------------------------------------
(* The last lines of a text.                                               *)

\* v shows the last m of what was heard from e.
Matches(v, h, e, m) ==
    /\ Len(v) = IF Len(h) <= m THEN Len(h) ELSE m
    /\ \A i \in 1..Len(v) : v[i] = [from |-> e, n |-> h[Len(h) - Len(v) + i]]

\* What Newest keeps is the end of the sequence, in its order.
LEMMA NewestIsEnd ==
    ASSUME NEW S, NEW s \in Seq(S), NEW m \in Nat \ {0}
    PROVE  /\ Newest(s, m) \in Seq(S)
           /\ Len(Newest(s, m)) = IF Len(s) <= m THEN Len(s) ELSE m
           /\ \A i \in 1..Len(Newest(s, m)) :
                Newest(s, m)[i] = s[Len(s) - Len(Newest(s, m)) + i]
<1>1. CASE Len(s) <= m
  BY <1>1 DEF Newest
<1>2. CASE Len(s) > m
  <2>1. Newest(s, m) = SubSeq(s, Len(s) - m + 1, Len(s))
    BY <1>2 DEF Newest
  <2>2. Len(s) \in Nat /\ Len(s) - m + 1 \in 1..Len(s) /\ Len(s) \in 1..Len(s)
    BY <1>2
  <2> DEFINE t == SubSeq(s, Len(s) - m + 1, Len(s))
  <2>3. /\ t \in Seq(S) /\ Len(t) = Len(s) - (Len(s) - m + 1) + 1
        /\ \A i \in 1..Len(t) : t[i] = s[Len(s) - m + 1 + i - 1]
    BY <2>2, SubSeqProperties
  <2>4. Len(t) = m /\ \A i \in 1..Len(t) : t[i] = s[Len(s) - m + i]
    <3> HIDE DEF t
    <3> QED
      BY <2>2, <2>3
  <2> QED
    BY <1>2, <2>1, <2>3, <2>4
<1> QED
  BY <1>1, <1>2

\* A line that comes is the last, and pushes the first out if there are too many.
LEMMA MatchesNext ==
    ASSUME NEW S, NEW v \in Seq(S), NEW h \in Seq(Nat), NEW e, NEW m \in Nat \ {0},
           Matches(v, h, e, m), NEW x \in Nat, [from |-> e, n |-> x] \in S
    PROVE  Matches(Newest(Append(v, [from |-> e, n |-> x]), m), Append(h, x), e, m)
<1> DEFINE a == Append(v, [from |-> e, n |-> x])
           b == Append(h, x)
           k == Newest(a, m)
<1>1. /\ a \in Seq(S) /\ Len(a) = Len(v) + 1 /\ a[Len(v) + 1] = [from |-> e, n |-> x]
      /\ \A i \in 1..Len(v) : a[i] = v[i]
      /\ b \in Seq(Nat) /\ Len(b) = Len(h) + 1 /\ b[Len(h) + 1] = x
      /\ \A i \in 1..Len(h) : b[i] = h[i]
      /\ Len(v) \in Nat /\ Len(h) \in Nat
  OBVIOUS
<1> HIDE DEF a, b
<1>2. /\ Len(k) = IF Len(a) <= m THEN Len(a) ELSE m
      /\ \A i \in 1..Len(k) : k[i] = a[Len(a) - Len(k) + i]
  <2>1. a \in Seq(S)
    BY <1>1
  <2>2. /\ Len(Newest(a, m)) = IF Len(a) <= m THEN Len(a) ELSE m
        /\ \A i \in 1..Len(Newest(a, m)) : Newest(a, m)[i] = a[Len(a) - Len(Newest(a, m)) + i]
    BY <2>1, NewestIsEnd
  <2> QED
    BY <2>2
<1> HIDE DEF k
<1>5. /\ Len(v) = IF Len(h) <= m THEN Len(h) ELSE m
      /\ Len(a) = Len(v) + 1 /\ Len(b) = Len(h) + 1 /\ Len(v) \in Nat /\ Len(h) \in Nat
      /\ Len(k) = IF Len(a) <= m THEN Len(a) ELSE m
  BY <1>1, <1>2 DEF Matches
<1>6. Len(k) \in Nat /\ Len(k) = IF Len(v) + 1 <= m THEN Len(v) + 1 ELSE m
  BY <1>5
<1>3. Len(k) = IF Len(b) <= m THEN Len(b) ELSE m
  BY <1>1, <1>2 DEF Matches
<1>4. ASSUME NEW i \in 1..Len(k) PROVE k[i] = [from |-> e, n |-> b[Len(b) - Len(k) + i]]
  <2>1. k[i] = a[Len(a) - Len(k) + i]
    BY <1>2
  <2>2. CASE i = Len(k)
    <3>1. Len(a) - Len(k) + i = Len(v) + 1 /\ Len(b) - Len(k) + i = Len(h) + 1
      BY <1>1, <1>3, <2>2
    <3> QED
      BY <1>1, <2>1, <3>1
  <2>3. CASE i < Len(k)
    <3>0. i \in Nat /\ 1 <= i /\ i < Len(k)
      BY <1>6, <2>3
    <3>4. /\ (Len(v) + 1) - Len(k) + i \in 1..Len(v)
          /\ (Len(h) + 1) - Len(k) + i \in 1..Len(h)
          /\ Len(h) - Len(v) + ((Len(v) + 1) - Len(k) + i) = (Len(h) + 1) - Len(k) + i
      <4>1. Len(h) \in Nat /\ Len(v) \in Nat /\ Len(k) \in Nat /\ i \in Nat
        BY <1>5, <1>6, <3>0
      <4>2. CASE Len(h) < m
        <5>1. Len(v) = Len(h) /\ Len(k) = Len(h) + 1
          BY <1>5, <1>6, <4>1, <4>2
        <5> QED
          BY <3>0, <4>1, <5>1
      <4>3. CASE Len(h) >= m
        <5>1. Len(v) = m /\ Len(k) = m
          BY <1>5, <1>6, <4>1, <4>3
        <5> QED
          BY <3>0, <4>1, <4>3, <5>1
      <4> QED
        BY <4>1, <4>2, <4>3
    <3>1. Len(a) - Len(k) + i \in 1..Len(v) /\ Len(b) - Len(k) + i \in 1..Len(h)
      BY <1>5, <3>4
    <3>2. Len(h) - Len(v) + (Len(a) - Len(k) + i) = Len(b) - Len(k) + i
      BY <1>5, <3>4
    <3>3. v[Len(a) - Len(k) + i] = [from |-> e, n |-> h[Len(b) - Len(k) + i]]
      BY <3>1, <3>2 DEF Matches
    <3> QED
      BY <1>1, <2>1, <3>1, <3>3
  <2> QED
    BY <1>5, <2>2, <2>3
<1> QED
  BY <1>3, <1>4 DEF Matches, a, b, k

-----------------------------------------------------------------------------
(***************************************************************************)
(* The inductive invariant                                                 *)
(***************************************************************************)

\* How many items the tab on display keeps.
Depth == IF tab = "logs" THEN MaxLines ELSE 1

\* Nothing is known yet of an effect that has not run.
Numbered ==
    /\ live \subseteq 1..current
    /\ disposed \subseteq 1..current
    /\ \A e \in Effects : e > current => /\ conn[e] = "disconnected"
                                         /\ starting[e] = "none"
                                         /\ sub[e] = "none"

\* Of the effects of a mounted tab only the last was not cleaned up.
LastIsCurrent ==
    /\ Mounted => current \in live /\ current \notin disposed
    /\ \A e \in live : e = current \/ e \in disposed

\* A tab is mounted only while it is on display.
OnTab == Mounted => tab \in Live

\* What was cleaned up has no subscription.
DisposedIsDeaf == \A e \in disposed : sub[e] # "active"

\* Only the Logs tab is ever paused.
LogsPause == tab # "logs" => ~paused

\* The view shows the end of what was heard.
ViewMatches == Matches(view, heard, current, Depth)

MonitorInv ==
    /\ TypeOK
    /\ Numbered
    /\ LastIsCurrent
    /\ OnTab
    /\ DisposedIsDeaf
    /\ LogsPause
    /\ ViewMatches
    /\ InterruptionShown

LEMMA EmptyMatches ==
    ASSUME NEW e, NEW m \in Nat
    PROVE  Matches(<<>>, <<>>, e, m)
BY DEF Matches

\* A cleanup leaves nothing to hear for the effects it disposes.
LEMMA CleanedIsDeaf ==
    ASSUME TypeOK, DisposedIsDeaf, NEW cleaned \in SUBSET Effects, Clean(cleaned)
    PROVE  DisposedIsDeaf'
<1>1. ASSUME NEW e \in disposed' PROVE sub'[e] # "active"
  <2>1. e \in Effects /\ (e \in disposed \/ e \in cleaned)
    BY <1>1 DEF Clean, TypeOK
  <2>2. sub'[e] = IF e \in cleaned /\ sub[e] = "active" THEN "disposed" ELSE sub[e]
    BY <2>1 DEF Clean
  <2> QED
    BY <2>1, <2>2 DEF DisposedIsDeaf
<1> QED
  BY <1>1 DEF DisposedIsDeaf

\* The cleanup of at most the current effect, followed by an effect that runs: what
\* Mount and Rerun have in common.
LEMMA RunEffectStep ==
    ASSUME MonitorInv, NEW cleaned, NEW old,
           \/ Mounted /\ old = current /\ cleaned = {current}
           \/ ~Mounted /\ old = 0 /\ cleaned = {},
           RunEffect(old), Clean(cleaned),
           live' = {current + 1} \/ (Mounted /\ live' = live \cup {current + 1}),
           tab' \in Live, paused' \in BOOLEAN, tab' # "logs" => ~paused'
    PROVE  MonitorInv'
<1> USE DEF MonitorInv
<1>0. current \in Nat /\ current + 1 \in Effects /\ current' = current + 1
  BY DEF RunEffect, TypeOK
<1>1. TypeOK'
  <2>1. disposed' \subseteq Effects /\ live' \subseteq Effects
    BY <1>0 DEF TypeOK, Clean, LastIsCurrent
  <2>2. conn' \in [Effects -> {"disconnected", "connecting", "connected",
                               "reconnecting", "disconnecting"}]
    BY DEF RunEffect, Conn, TypeOK
  <2>3. starting' \in [Effects -> {"none", "pending", "fulfilled", "rejected", "settled"}]
    BY DEF RunEffect, TypeOK
  <2>4. sub' \in [Effects -> {"none", "active", "disposed", "completed", "failed"}]
    BY DEF Clean, TypeOK
  <2>5. view' \in Seq(Items) /\ Len(view') = 0 /\ heard' \in Seq(1..MaxItems)
    BY DEF RunEffect, ClearView
  <2> QED
    BY <1>0, <2>1, <2>2, <2>3, <2>4, <2>5 DEF RunEffect, ClearView, Live, TypeOK
<1>2. Numbered'
  <2>1. live' \subseteq 1..current' /\ disposed' \subseteq 1..current'
    <3>1. 1..current \subseteq 1..current' /\ current + 1 \in 1..current'
      BY <1>0
    <3>2. live \subseteq 1..current' /\ disposed \subseteq 1..current' /\ cleaned \subseteq 1..current'
      BY <3>1 DEF Numbered, LastIsCurrent
    <3> QED
      BY <3>1, <3>2 DEF Clean
  <2>2. ASSUME NEW e \in Effects, e > current'
        PROVE  conn'[e] = "disconnected" /\ starting'[e] = "none" /\ sub'[e] = "none"
    <3>1. e \in Nat /\ e > current /\ e # current + 1
      BY <1>0, <2>2
    <3>2. conn[e] = "disconnected" /\ starting[e] = "none" /\ sub[e] = "none"
      BY <3>1 DEF Numbered
    <3> QED
      BY <3>1, <3>2 DEF RunEffect, Conn, Clean, TypeOK
  <2> QED
    BY <2>1, <2>2 DEF Numbered
<1>3. LastIsCurrent'
  <2>1. current + 1 \in live' /\ current + 1 \notin disposed'
    BY <1>0 DEF Clean, Numbered
  <2>2. ASSUME NEW e \in live', e # current + 1 PROVE e \in disposed'
    BY <2>2 DEF Clean, LastIsCurrent
  <2> QED
    BY <1>0, <2>1, <2>2 DEF LastIsCurrent
<1>4. DisposedIsDeaf'
  BY CleanedIsDeaf DEF LastIsCurrent, TypeOK
<1>5. LogsPause' /\ OnTab'
  BY DEF LogsPause, OnTab
<1>6. ViewMatches'
  <2>1. view' = <<>> /\ heard' = <<>> /\ Depth' \in Nat
    BY DEF RunEffect, ClearView, Depth
  <2> QED
    BY <2>1, EmptyMatches DEF ViewMatches
<1>7. InterruptionShown'
  <2>1. starting'[current'] = "pending"
    BY <1>0 DEF RunEffect, TypeOK
  <2> QED
    BY <2>1 DEF InterruptionShown
<1> QED
  BY <1>1, <1>2, <1>3, <1>4, <1>5, <1>6, <1>7

LEMMA MountStep ==
    ASSUME MonitorInv, Mount, tab' \in Live
    PROVE  MonitorInv'
<1>1. CASE Mounted
  BY <1>1, RunEffectStep DEF Mount
<1>2. CASE ~Mounted
  BY <1>2, RunEffectStep DEF Mount
<1> QED
  BY <1>1, <1>2

LEMMA UnmountStep ==
    ASSUME MonitorInv, Unmount, tab' \in {"none", "inspect"}
    PROVE  MonitorInv'
<1> USE DEF MonitorInv
<1>1. TypeOK'
  <2>1. disposed' \subseteq Effects /\ live' \subseteq Effects
    BY DEF Unmount, TypeOK, Clean, LastIsCurrent
  <2>2. conn' \in [Effects -> {"disconnected", "connecting", "connected",
                               "reconnecting", "disconnecting"}]
    BY DEF Unmount, Conn, TypeOK
  <2>3. sub' \in [Effects -> {"none", "active", "disposed", "completed", "failed"}]
    BY DEF Unmount, Clean, TypeOK
  <2>4. view' \in Seq(Items) /\ Len(view') = 0 /\ heard' \in Seq(1..MaxItems)
    BY DEF Unmount, ClearView
  <2>5. Len(view') <= (IF tab' = "logs" THEN MaxLines ELSE 1) /\ sent' \in 0..MaxItems
    BY <2>4 DEF Unmount, ClearView
  <2>6. error' \in 0..MaxEffects /\ paused' \in BOOLEAN
    <3>1. error' = 0 /\ paused' = FALSE
      BY DEF Unmount, ClearView
    <3>2. MaxEffects \in Nat
      OBVIOUS
    <3>3. error' \in 0..MaxEffects
      BY <3>1, <3>2
    <3> QED
      BY <3>1, <3>3
  <2>7. /\ current' \in 0..MaxEffects
        /\ starting' \in [Effects -> {"none", "pending", "fulfilled", "rejected", "settled"}]
        /\ server' \in [Effects -> {"none", "requested", "streaming", "ended"}]
    BY DEF Unmount, TypeOK
  <2>8. tab' \in {"none", "logs", "stats", "inspect"}
    OBVIOUS
  <2> QED
    BY <2>1, <2>2, <2>3, <2>4, <2>5, <2>6, <2>7, <2>8 DEF TypeOK
<1>2. Numbered'
  <2>1. live' \subseteq 1..current' /\ disposed' \subseteq 1..current'
    BY DEF Unmount, Clean, Numbered, LastIsCurrent
  <2>2. ASSUME NEW e \in Effects, e > current'
        PROVE  conn'[e] = "disconnected" /\ starting'[e] = "none" /\ sub'[e] = "none"
    <3>1. conn[e] = "disconnected" /\ starting[e] = "none" /\ sub[e] = "none"
      BY <2>2 DEF Unmount, Numbered
    <3>2. e # 0
      OBVIOUS
    <3> QED
      BY <3>1, <3>2 DEF Unmount, Conn, Clean, TypeOK
  <2> QED
    BY <2>1, <2>2 DEF Numbered
<1>3. LastIsCurrent' /\ InterruptionShown'
  BY DEF Unmount, LastIsCurrent, InterruptionShown, Mounted
<1>4. DisposedIsDeaf'
  BY CleanedIsDeaf DEF Unmount, LastIsCurrent, TypeOK
<1>5. LogsPause' /\ OnTab'
  BY DEF Unmount, LogsPause, OnTab, Mounted
<1>6. ViewMatches'
  <2>1. view' = <<>> /\ heard' = <<>> /\ Depth' \in Nat
    BY DEF Unmount, ClearView, Depth
  <2> QED
    BY <2>1, EmptyMatches DEF ViewMatches
<1> QED
  BY <1>1, <1>2, <1>3, <1>4, <1>5, <1>6

LEMMA UserStep ==
    ASSUME MonitorInv, User
    PROVE  MonitorInv'
<1>1. CASE OpenDrawer
  BY <1>1, MountStep DEF OpenDrawer, Live
<1>2. CASE ChooseTab
  <2>1. PICK chosen \in {"logs", "stats", "inspect"} :
           tab' = chosen /\ IF chosen \in Live THEN Mount ELSE Unmount
    BY <1>2 DEF ChooseTab
  <2> QED
    BY <2>1, MountStep, UnmountStep DEF Live
<1>3. CASE CloseDrawer
  BY <1>3, UnmountStep DEF CloseDrawer
<1>4. CASE Rerun
  <2>1. tab \in Live /\ tab' \in Live /\ paused' = paused /\ tab' = tab
    BY <1>4 DEF Rerun, MonitorInv, OnTab
  <2>2. paused' \in BOOLEAN /\ (tab' # "logs" => ~paused')
    BY <2>1 DEF MonitorInv, TypeOK, LogsPause
  <2> QED
    BY <1>4, <2>1, <2>2, RunEffectStep DEF Rerun
<1>5. CASE TogglePause
  <2> USE <1>5 DEF TogglePause, effect
  <2>1. TypeOK' /\ LogsPause' /\ OnTab'
    BY DEF MonitorInv, TypeOK, LogsPause, OnTab, Mounted, Live
  <2>2. Numbered' /\ LastIsCurrent' /\ DisposedIsDeaf'
    BY DEF MonitorInv, Numbered, LastIsCurrent, DisposedIsDeaf, Mounted
  <2>3. ViewMatches' /\ InterruptionShown'
    BY DEF MonitorInv, ViewMatches, Depth, Matches, InterruptionShown, Mounted
  <2> QED
    BY <2>1, <2>2, <2>3 DEF MonitorInv
<1> QED
  BY <1>1, <1>2, <1>3, <1>4, <1>5 DEF User

\* What the library's part of an effect does comes to this: it concerns that effect
\* alone, opens no stream for one that was cleaned up, and leaves a mounted effect
\* whose start has settled with a stream, an end or an error.
LEMMA OneEffect ==
    ASSUME TypeOK, Numbered, NEW e \in Effects, Library(e)
    PROVE  /\ UNCHANGED <<tab, current, live, disposed, paused>>
           /\ \A x \in Effects \ {e} : /\ conn'[x] = conn[x]
                                       /\ starting'[x] = starting[x]
                                       /\ sub'[x] = sub[x]
           /\ e <= current \/ UNCHANGED <<conn, starting, sub>>
           /\ sub'[e] = "active" => sub[e] = "active" \/ e \notin disposed
           /\ error' = error \/ error' = e
           /\ e \in live /\ e \notin disposed /\ starting'[e] = "settled" =>
                 \/ sub'[e] \in {"active", "completed"}
                 \/ error' = e
                 \/ starting[e] = "settled" /\ sub'[e] = sub[e]
           /\ UNCHANGED <<view, heard>> \/ Receive(e)
<1> USE DEF SetError, display
<1>0. /\ starting[e] # "none" => e <= current
      /\ conn[e] # "disconnected" => e <= current
      /\ sub[e] # "none" => e <= current
  BY DEF Numbered, TypeOK
<1>1. CASE OpenStream(e)
  BY <1>0, <1>1 DEF OpenStream, TypeOK
<1>2. CASE ReportStartFailure(e)
  BY <1>0, <1>2 DEF ReportStartFailure, TypeOK
<1>3. CASE StartSucceeds(e)
  BY <1>0, <1>3 DEF StartSucceeds, TypeOK
<1>4. CASE StartFails(e)
  BY <1>0, <1>4 DEF StartFails, TypeOK
<1>5. CASE Stopped(e)
  BY <1>0, <1>5 DEF Stopped, TypeOK
<1>6. CASE ConnectionLost(e)
  BY <1>0, <1>6 DEF ConnectionLost, TypeOK
<1>7. CASE ReconnectEnds(e)
  BY <1>0, <1>7 DEF ReconnectEnds, TypeOK
<1>8. CASE HubStarts(e)
  BY <1>0, <1>8 DEF HubStarts, TypeOK
<1>9. CASE Receive(e)
  BY <1>0, <1>9 DEF Receive, TypeOK
<1>10. CASE StreamEnds(e)
  BY <1>0, <1>10 DEF StreamEnds, TypeOK
<1>11. CASE HubCancels(e)
  BY <1>0, <1>11 DEF HubCancels, TypeOK
<1> QED
  BY <1>1, <1>2, <1>3, <1>4, <1>5, <1>6, <1>7, <1>8, <1>9, <1>10, <1>11 DEF Library

\* What comes from the effect on display is added to both the view and what was heard;
\* what comes from another adds to neither.
LEMMA ReceiveStep ==
    ASSUME MonitorInv, NEW e \in Effects, Receive(e)
    PROVE  view' \in Seq(Items) /\ heard' \in Seq(1..MaxItems) /\ ViewMatches'
<1> USE DEF MonitorInv
<1> DEFINE item == [from |-> e, n |-> sent + 1]
<1>1. sent + 1 \in 1..MaxItems /\ item \in Items
  BY DEF Receive, TypeOK, Items
<1>2. view \in Seq(Items) /\ heard \in Seq(1..MaxItems) /\ Depth' = Depth /\ current' = current
  BY DEF TypeOK, Receive, Depth
<1>3. Matches(view, heard, current, Depth) /\ Depth \in Nat \ {0}
  BY DEF ViewMatches, Depth
<1>4. CASE e \notin live
  <2>1. ~(Mounted /\ e = current)
    BY <1>4 DEF LastIsCurrent
  <2>2. UNCHANGED <<view, heard>>
    BY <1>4, <2>1 DEF Receive
  <2> QED
    BY <1>2, <1>3, <2>2 DEF ViewMatches
<1>5. CASE e \in live
  <2>1. e = current /\ Mounted /\ tab \in Live
    BY <1>5 DEF LastIsCurrent, DisposedIsDeaf, Receive, OnTab, Mounted
  <2>2. CASE paused
    <3>1. tab = "logs"
      BY <2>2 DEF LogsPause
    <3>2. UNCHANGED <<view, heard>>
      BY <1>5, <2>2, <3>1 DEF Receive, Shows
    <3> QED
      BY <1>2, <1>3, <3>2 DEF ViewMatches
  <2>3. CASE ~paused
    <3>1. heard' = Append(heard, sent + 1) /\ view' = Shows(item)
      BY <1>5, <2>1, <2>3 DEF Receive
    <3>2. heard' \in Seq(1..MaxItems)
      BY <1>1, <1>2, <3>1
    <3>3. heard \in Seq(Nat) /\ sent + 1 \in Nat
      <4>1. \A i \in 1..Len(heard) : heard[i] \in Nat
        BY <1>2
      <4> QED
        BY <1>1, <1>2, <4>1
    <3>4. Newest(Append(view, item), Depth) \in Seq(Items)
      <4>1. Append(view, item) \in Seq(Items)
        BY <1>1, <1>2
      <4> HIDE DEF item
      <4> QED
        BY <1>3, <4>1, NewestIsEnd
    <3>5. Matches(Newest(Append(view, item), Depth), Append(heard, sent + 1), e, Depth)
      BY <1>1, <1>2, <1>3, <2>1, <3>3, MatchesNext
    <3>6. CASE tab = "logs"
      <4>1. view' = Newest(Append(view, item), Depth)
        BY <2>3, <3>1, <3>6 DEF Shows, Depth
      <4> QED
        BY <1>2, <2>1, <3>1, <3>2, <3>4, <3>5, <4>1 DEF ViewMatches
    <3>7. CASE tab = "stats"
      <4>1. view' = <<item>> /\ Depth = 1
        BY <3>1, <3>7 DEF Shows, Depth
      <4>2. view' \in Seq(Items) /\ Len(view') = 1 /\ view'[1] = item
        <5> HIDE DEF item
        <5> QED
          BY <1>1, <4>1
      <4>3. /\ Len(heard') = Len(heard) + 1 /\ Len(heard) \in Nat
            /\ heard'[Len(heard) + 1] = sent + 1
        BY <1>2, <3>1
      <4>4. Matches(view', heard', e, 1)
        BY <4>2, <4>3 DEF Matches
      <4> QED
        BY <1>2, <2>1, <3>2, <4>1, <4>2, <4>4 DEF ViewMatches
    <3> QED
      BY <2>1, <3>6, <3>7 DEF Live
  <2> QED
    BY <2>2, <2>3
<1> QED
  BY <1>4, <1>5

\* The parts of the state that one effect's step writes keep their types.
LEMMA EffectTyped ==
    ASSUME TypeOK, NEW e \in Effects, Library(e)
    PROVE  /\ conn' \in [Effects -> {"disconnected", "connecting", "connected",
                                     "reconnecting", "disconnecting"}]
           /\ starting' \in [Effects -> {"none", "pending", "fulfilled", "rejected", "settled"}]
           /\ sub' \in [Effects -> {"none", "active", "disposed", "completed", "failed"}]
           /\ server' \in [Effects -> {"none", "requested", "streaming", "ended"}]
           /\ sent' \in 0..MaxItems
           /\ error' \in 0..MaxEffects
<1> USE DEF SetError, display
<1>1. CASE OpenStream(e)
  <2>1. UNCHANGED <<conn, sent>>
    BY <1>1 DEF OpenStream
  <2>2. starting' \in [Effects -> {"none", "pending", "fulfilled", "rejected", "settled"}]
    BY <1>1 DEF OpenStream, TypeOK
  <2>3. sub' \in [Effects -> {"none", "active", "disposed", "completed", "failed"}]
    BY <1>1 DEF OpenStream, TypeOK
  <2>4. server' \in [Effects -> {"none", "requested", "streaming", "ended"}]
    BY <1>1 DEF OpenStream, TypeOK
  <2>5. error' \in 0..MaxEffects
    BY <1>1 DEF OpenStream, TypeOK
  <2> QED
    BY <2>1, <2>2, <2>3, <2>4, <2>5 DEF TypeOK
<1>2. CASE ReportStartFailure(e)
  BY <1>2 DEF ReportStartFailure, TypeOK
<1>3. CASE StartSucceeds(e)
  BY <1>3 DEF StartSucceeds, TypeOK
<1>4. CASE StartFails(e)
  BY <1>4 DEF StartFails, TypeOK
<1>5. CASE Stopped(e)
  BY <1>5 DEF Stopped, TypeOK
<1>6. CASE ConnectionLost(e)
  BY <1>6 DEF ConnectionLost, TypeOK
<1>7. CASE ReconnectEnds(e)
  BY <1>7 DEF ReconnectEnds, TypeOK
<1>8. CASE HubStarts(e)
  BY <1>8 DEF HubStarts, TypeOK
<1>9. CASE Receive(e)
  <2>1. sent' \in 0..MaxItems
    BY <1>9 DEF Receive, TypeOK
  <2>2. UNCHANGED <<conn, starting, sub, server, error>>
    BY <1>9 DEF Receive
  <2> QED
    BY <2>1, <2>2 DEF TypeOK
<1>10. CASE StreamEnds(e)
  BY <1>10 DEF StreamEnds, TypeOK
<1>11. CASE HubCancels(e)
  BY <1>11 DEF HubCancels, TypeOK
<1> QED
  BY <1>1, <1>2, <1>3, <1>4, <1>5, <1>6, <1>7, <1>8, <1>9, <1>10, <1>11 DEF Library

\* Whatever the library does keeps the invariant.
LEMMA LibraryStep ==
    ASSUME MonitorInv, NEW e \in Effects, Library(e)
    PROVE  MonitorInv'
<1> USE DEF MonitorInv
<1>0. /\ UNCHANGED <<tab, current, live, disposed, paused>>
      /\ \A x \in Effects \ {e} : /\ conn'[x] = conn[x]
                                  /\ starting'[x] = starting[x]
                                  /\ sub'[x] = sub[x]
      /\ e <= current \/ UNCHANGED <<conn, starting, sub>>
      /\ sub'[e] = "active" => sub[e] = "active" \/ e \notin disposed
      /\ error' = error \/ error' = e
      /\ e \in live /\ e \notin disposed /\ starting'[e] = "settled" =>
            \/ sub'[e] \in {"active", "completed"}
            \/ error' = e
            \/ starting[e] = "settled" /\ sub'[e] = sub[e]
      /\ UNCHANGED <<view, heard>> \/ Receive(e)
  BY OneEffect
<1>1. view' \in Seq(Items) /\ heard' \in Seq(1..MaxItems) /\ ViewMatches'
  <2>1. CASE UNCHANGED <<view, heard>>
    BY <1>0, <2>1 DEF TypeOK, ViewMatches, Depth
  <2> QED
    BY <1>0, <2>1, ReceiveStep
<1>2. TypeOK'
  <2>1. Len(view') <= (IF tab' = "logs" THEN MaxLines ELSE 1)
    <3>1. /\ Len(view') = IF Len(heard') <= Depth' THEN Len(heard') ELSE Depth'
          /\ Len(heard') \in Nat /\ Depth' \in Nat
      BY <1>1 DEF ViewMatches, Matches, Depth
    <3>2. Len(view') <= Depth'
      BY <3>1
    <3> QED
      BY <3>2 DEF Depth
  <2>2. /\ tab' \in {"none", "logs", "stats", "inspect"} /\ current' \in 0..MaxEffects
        /\ live' \subseteq Effects /\ disposed' \subseteq Effects /\ paused' \in BOOLEAN
    BY <1>0 DEF TypeOK
  <2> QED
    BY <1>1, <2>1, <2>2, EffectTyped DEF TypeOK
<1>3. Numbered'
  <2>1. ASSUME NEW x \in Effects, x > current
        PROVE  conn'[x] = "disconnected" /\ starting'[x] = "none" /\ sub'[x] = "none"
    <3>1. conn[x] = "disconnected" /\ starting[x] = "none" /\ sub[x] = "none"
      BY <2>1 DEF Numbered
    <3>2. x # e \/ UNCHANGED <<conn, starting, sub>>
      BY <1>0, <2>1 DEF TypeOK
    <3> QED
      BY <1>0, <3>1, <3>2
  <2> QED
    BY <1>0, <2>1 DEF Numbered
<1>4. LastIsCurrent' /\ OnTab' /\ LogsPause'
  BY <1>0 DEF LastIsCurrent, OnTab, LogsPause, Mounted
<1>5. DisposedIsDeaf'
  <2>1. ASSUME NEW x \in disposed PROVE sub'[x] # "active"
    BY <1>0, <2>1 DEF DisposedIsDeaf, TypeOK
  <2> QED
    BY <1>0, <2>1 DEF DisposedIsDeaf
<1>6. InterruptionShown'
  <2> SUFFICES ASSUME Mounted, starting'[current] = "settled", error' = 0
               PROVE  sub'[current] \in {"active", "completed"}
    BY <1>0 DEF InterruptionShown, Mounted
  <2>1. current \in live /\ current \notin disposed /\ current \in Effects
    BY DEF LastIsCurrent, TypeOK
  <2>2. error = 0 /\ error' # e
    BY <1>0
  <2>3. starting[current] = "settled" => sub[current] \in {"active", "completed"}
    BY <2>2 DEF InterruptionShown
  <2> QED
    BY <1>0, <2>1, <2>2, <2>3
<1> QED
  BY <1>1, <1>2, <1>3, <1>4, <1>5, <1>6

-----------------------------------------------------------------------------
(***************************************************************************)
(* The theorems                                                            *)
(***************************************************************************)

\* The invariant holds throughout, for any number of effects, items and lines.
THEOREM MonitorInvariance == Spec => []MonitorInv
<1>1. Init => MonitorInv
  <2> SUFFICES ASSUME Init PROVE MonitorInv
    OBVIOUS
  <2> USE DEF Init
  <2>1. view \in Seq(Items) /\ Len(view) = 0 /\ heard \in Seq(1..MaxItems)
    OBVIOUS
  <2>2. TypeOK
    <3>1. 0 \in 0..MaxEffects /\ 0 \in 0..MaxItems
      <4>1. MaxEffects \in Nat /\ MaxItems \in Nat
        OBVIOUS
      <4> QED
        BY <4>1
    <3>2. Len(view) <= (IF tab = "logs" THEN MaxLines ELSE 1)
      BY <2>1
    <3> QED
      BY <2>1, <3>1, <3>2 DEF TypeOK
  <2>3. ViewMatches
    BY EmptyMatches DEF ViewMatches, Depth
  <2> QED
    BY <2>2, <2>3 DEF MonitorInv, Numbered, LastIsCurrent, OnTab, DisposedIsDeaf, LogsPause,
                      InterruptionShown, Mounted
<1>2. MonitorInv /\ [Next]_vars => MonitorInv'
  <2> SUFFICES ASSUME MonitorInv, [Next]_vars PROVE MonitorInv'
    OBVIOUS
  <2>1. CASE User
    BY <2>1, UserStep
  <2>2. CASE \E e \in Effects : Library(e)
    BY <2>2, LibraryStep
  <2>3. CASE UNCHANGED vars
    <3> USE <2>3 DEF vars, effect, display, MonitorInv
    <3>1. TypeOK' /\ Numbered' /\ LastIsCurrent' /\ OnTab' /\ DisposedIsDeaf' /\ LogsPause'
      BY DEF TypeOK, Numbered, LastIsCurrent, OnTab, DisposedIsDeaf, LogsPause, Mounted
    <3>2. ViewMatches' /\ InterruptionShown'
      BY DEF ViewMatches, Depth, InterruptionShown, Mounted
    <3> QED
      BY <3>1, <3>2
  <2> QED
    BY <2>1, <2>2, <2>3 DEF Next
<1> QED
  BY <1>1, <1>2, PTL DEF Spec

\* A live tab shows what the container of the drawer sent last, and nothing of any
\* other: handlers.next of LogsTab and StatsTab and the cleanup of their effects.
THEOREM ShowsItsContainer == Spec => []ViewOfShownContainer
<1>1. MonitorInv => ViewOfShownContainer
  <2> SUFFICES ASSUME MonitorInv PROVE ViewOfShownContainer
    OBVIOUS
  <2>1. /\ Matches(view, heard, current, Depth) /\ Depth \in Nat \ {0}
        /\ heard \in Seq(1..MaxItems) /\ view \in Seq(Items)
    BY DEF MonitorInv, ViewMatches, TypeOK, Depth
  <2> DEFINE last == Newest(heard, Depth)
  <2>2. /\ last \in Seq(1..MaxItems)
        /\ Len(last) = IF Len(heard) <= Depth THEN Len(heard) ELSE Depth
        /\ \A i \in 1..Len(last) : last[i] = heard[Len(heard) - Len(last) + i]
    <3>1. Depth \in Nat \ {0} /\ heard \in Seq(1..MaxItems)
      BY <2>1
    <3> QED
      BY <3>1, NewestIsEnd
  <2> HIDE DEF last
  <2>3. Len(view) = Len(last) /\ DOMAIN view = 1..Len(view) /\ DOMAIN last = 1..Len(last)
    BY <2>1, <2>2 DEF Matches
  <2>4. \A i \in DOMAIN view : view[i] = [from |-> current, n |-> last[i]]
    BY <2>1, <2>2, <2>3 DEF Matches
  <2>5. view = [i \in DOMAIN view |-> view[i]]
    <3>1. view \in [1..Len(view) -> Items]
      BY <2>1
    <3> QED
      BY <2>3, <3>1
  <2>6. DOMAIN view = DOMAIN last
    BY <2>3
  <2>7. [i \in DOMAIN view |-> view[i]] =
           [i \in DOMAIN view |-> [from |-> current, n |-> last[i]]]
    BY <2>4
  <2>8. view = [i \in DOMAIN last |-> [from |-> current, n |-> last[i]]]
    BY <2>5, <2>6, <2>7
  <2> QED
    BY <2>8 DEF ViewOfShownContainer, Depth, last
<1> QED
  BY <1>1, MonitorInvariance, PTL

\* A tab never passes off a broken stream as a live one: ensureStarted's callbacks and
\* handlers.error of the tabs.
THEOREM InterruptionIsShown == Spec => []InterruptionShown
<1>1. MonitorInv => InterruptionShown
  BY DEF MonitorInv
<1> QED
  BY <1>1, MonitorInvariance, PTL

=============================================================================
