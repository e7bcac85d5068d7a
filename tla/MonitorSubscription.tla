------------------------- MODULE MonitorSubscription -------------------------
(***************************************************************************)
(* The browser's side of the live views: the drawer of a container with    *)
(* its Logs and Stats tabs.  Every run of a tab's effect creates a hub     *)
(* connection of its own, starts it, and opens a stream when it has        *)
(* started; the effect's cleanup disposes the subscription and stops the   *)
(* connection.  React runs the effect again for another container, and     *)
(* twice on every mount under StrictMode; the tab's state outlives the     *)
(* effect.                                                                 *)
(*                                                                         *)
(* Connection and stream belong to the SignalR library: here they do what  *)
(* signalr.ts and the tabs rely on.  Effects are numbered as they run, and *)
(* items as they come into a view.                                         *)
(***************************************************************************)
EXTENDS Integers, Sequences

CONSTANTS
    MaxEffects,  \* bound: how often an effect runs
    MaxItems,    \* bound: how many items come into a view
    MaxLines     \* MAX_LINES of the Logs tab

ASSUME SubscriptionAssumption == {MaxEffects, MaxItems, MaxLines} \subseteq Nat \ {0}

Effects == 1..MaxEffects

Items == [from : Effects, n : 1..MaxItems]

VARIABLES
    tab,       \* the drawer's tab, "none" while no container is selected
    current,   \* the last effect that ran
    live,      \* the effects of the mounted component; {} when unmounted
    disposed,  \* the effects that were cleaned up
    conn,      \* each effect's HubConnection.state
    starting,  \* the promise of connection.start(), until its callback ran
    sub,       \* the subscription to the stream
    server,    \* the stream at the hub
    sent,      \* how many items came since the view was cleared
    view,      \* the tab's lines, or its stats as one item
    paused,    \* the Logs tab is paused
    error,     \* the tab's error: the effect that set it, 0 for null
    heard      \* history: what the shown container sent since the tab last turned to it,
               \*   without what came while the tab was paused

effect == <<conn, starting, sub, server, sent>>
display == <<view, paused, error, heard>>
vars == <<tab, current, live, disposed, effect, display>>

TypeOK ==
    /\ tab \in {"none", "logs", "stats", "inspect"}
    /\ current \in 0..MaxEffects
    /\ live \subseteq Effects
    /\ disposed \subseteq Effects
    /\ conn \in [Effects -> {"disconnected", "connecting", "connected",
                             "reconnecting", "disconnecting"}]
    /\ starting \in [Effects -> {"none", "pending", "fulfilled", "rejected", "settled"}]
    /\ sub \in [Effects -> {"none", "active", "disposed", "completed", "failed"}]
    /\ server \in [Effects -> {"none", "requested", "streaming", "ended"}]
    /\ sent \in 0..MaxItems
    /\ view \in Seq(Items) /\ Len(view) <= IF tab = "logs" THEN MaxLines ELSE 1
    /\ paused \in BOOLEAN
    /\ error \in 0..MaxEffects
    /\ heard \in Seq(1..MaxItems)

Init ==
    /\ tab = "none"
    /\ current = 0
    /\ live = {}
    /\ disposed = {}
    /\ conn = [e \in Effects |-> "disconnected"]
    /\ starting = [e \in Effects |-> "none"]
    /\ sub = [e \in Effects |-> "none"]
    /\ server = [e \in Effects |-> "none"]
    /\ sent = 0
    /\ view = <<>>
    /\ paused = FALSE
    /\ error = 0
    /\ heard = <<>>

Mounted == live # {}

Live == {"logs", "stats"}

-----------------------------------------------------------------------------
(***************************************************************************)
(* The drawer and its tabs                                                 *)
(***************************************************************************)

\* Mutant of SetError: the tab passes no error handler.
SetNoError(e) == UNCHANGED error

\* setError in the handler of effect e: React ignores it unless the component
\* instance the effect belongs to is still mounted.
SetError(e) == error' = IF e \in live THEN e ELSE error

\* Mutant of Conn: the cleanup does not stop the connection.
ConnUnstopped(cleaned, started) ==
    [e \in Effects |-> IF e = started THEN "connecting" ELSE conn[e]]

\* connection.stop() of the effect that is cleaned up, start() of the one that
\* runs; 0 stands for no effect.  Stopping a disconnected connection does
\* nothing.
Conn(cleaned, started) ==
    [e \in Effects |->
        IF e = started THEN "connecting"
        ELSE IF e = cleaned /\ conn[e] # "disconnected" THEN "disconnecting"
        ELSE conn[e]]

\* Mutant of Clean: the subscription is not disposed.
CleanUndisposed(cleaned) ==
    /\ disposed' = disposed \cup cleaned
    /\ UNCHANGED sub

\* dispose() of the effects in `cleaned`, one or none.
Clean(cleaned) ==
    /\ disposed' = disposed \cup cleaned
    /\ sub' = [e \in Effects |-> IF e \in cleaned /\ sub[e] = "active" THEN "disposed" ELSE sub[e]]

\* setLines([]) or setStats(null), and setError(null).
ClearView ==
    /\ view' = <<>>
    /\ error' = 0
    /\ sent' = 0
    /\ heard' = <<>>

\* The effect's body: a clean view and a new connection, which is started at
\* once because it is disconnected.
RunEffect(cleaned) ==
    /\ current < MaxEffects
    /\ current' = current + 1
    /\ starting' = [starting EXCEPT ![current + 1] = "pending"]
    /\ conn' = Conn(cleaned, current + 1)
    /\ ClearView
    /\ UNCHANGED server

\* A new instance of the tab, which is not paused.
Mount ==
    /\ RunEffect(IF Mounted THEN current ELSE 0)
    /\ live' = {current + 1}
    /\ Clean(IF Mounted THEN {current} ELSE {})
    /\ paused' = FALSE

Unmount ==
    /\ live' = {}
    /\ ClearView
    /\ paused' = FALSE
    /\ Clean(IF Mounted THEN {current} ELSE {})
    /\ conn' = Conn(IF Mounted THEN current ELSE 0, 0)
    /\ UNCHANGED <<current, starting, server>>

\* A row's name is clicked: the drawer begins with the Logs tab.
OpenDrawer ==
    /\ tab = "none"
    /\ tab' = "logs"
    /\ Mount

ChooseTab ==
    /\ tab # "none"
    /\ \E chosen \in {"logs", "stats", "inspect"} \ {tab} :
        /\ tab' = chosen
        /\ IF chosen \in Live THEN Mount ELSE Unmount

\* Escape, the overlay, or the button; Unmount of the page comes to the same.
CloseDrawer ==
    /\ tab # "none"
    /\ tab' = "none"
    /\ Unmount

\* StrictMode, or another container: cleanup and effect, one after the other.  The
\* instance stays, and with it whether it is paused.
Rerun ==
    /\ Mounted
    /\ RunEffect(current)
    /\ live' = live \cup {current + 1}
    /\ Clean({current})
    /\ UNCHANGED <<tab, paused>>

\* Pause and Resume.
TogglePause ==
    /\ tab = "logs"
    /\ paused' = ~paused
    /\ UNCHANGED <<tab, current, live, disposed, effect, view, error, heard>>

-----------------------------------------------------------------------------
(***************************************************************************)
(* subscribeLogs, subscribeStats: what follows ensureStarted               *)
(***************************************************************************)

\* The then-callback.  A stream on a connection that was lost in between fails.
OpenStream(e) ==
    /\ starting[e] = "fulfilled"
    /\ starting' = [starting EXCEPT ![e] = "settled"]
    /\ \/ /\ e \in disposed
          /\ UNCHANGED <<sub, server, error>>
       \/ /\ e \notin disposed
          /\ conn[e] = "connected"
          /\ sub' = [sub EXCEPT ![e] = "active"]
          /\ server' = [server EXCEPT ![e] = "requested"]
          /\ UNCHANGED error
       \/ /\ e \notin disposed
          /\ conn[e] # "connected"
          /\ sub' = [sub EXCEPT ![e] = "failed"]
          /\ SetError(e)
          /\ UNCHANGED server
    /\ UNCHANGED <<tab, current, live, disposed, conn, sent, view, paused, heard>>

\* Mutant of ReportStartFailure: the rejection is swallowed.
SwallowStartFailure(e) ==
    /\ starting[e] = "rejected"
    /\ starting' = [starting EXCEPT ![e] = "settled"]
    /\ UNCHANGED <<tab, current, live, disposed, conn, sub, server, sent, display>>

\* The catch-callback, which does not ask whether the effect was disposed.
ReportStartFailure(e) ==
    /\ starting[e] = "rejected"
    /\ starting' = [starting EXCEPT ![e] = "settled"]
    /\ SetError(e)
    /\ UNCHANGED <<tab, current, live, disposed, conn, sub, server, sent, view, paused, heard>>

-----------------------------------------------------------------------------
(***************************************************************************)
(* The connection                                                          *)
(***************************************************************************)

StartSucceeds(e) ==
    /\ conn[e] = "connecting"
    /\ conn' = [conn EXCEPT ![e] = "connected"]
    /\ starting' = [starting EXCEPT ![e] = "fulfilled"]
    /\ UNCHANGED <<tab, current, live, disposed, sub, server, sent, display>>

\* The server is away, or does not accept the token.
StartFails(e) ==
    /\ conn[e] = "connecting"
    /\ conn' = [conn EXCEPT ![e] = "disconnected"]
    /\ starting' = [starting EXCEPT ![e] = "rejected"]
    /\ UNCHANGED <<tab, current, live, disposed, sub, server, sent, display>>

\* stop() takes effect; a start() it overtook is rejected.
Stopped(e) ==
    /\ conn[e] = "disconnecting"
    /\ conn' = [conn EXCEPT ![e] = "disconnected"]
    /\ starting' = [starting EXCEPT ![e] = IF @ = "pending" THEN "rejected" ELSE @]
    /\ UNCHANGED <<tab, current, live, disposed, sub, server, sent, display>>

\* The library fails the stream and begins to reconnect.
ConnectionLost(e) ==
    /\ conn[e] = "connected"
    /\ conn' = [conn EXCEPT ![e] = "reconnecting"]
    /\ IF sub[e] = "active"
       THEN sub' = [sub EXCEPT ![e] = "failed"] /\ SetError(e)
       ELSE UNCHANGED <<sub, error>>
    /\ UNCHANGED <<tab, current, live, disposed, starting, server, sent, view, paused, heard>>

\* withAutomaticReconnect: back on a new connection, or given up.  The stream
\* of the old one stays failed.
ReconnectEnds(e) ==
    /\ conn[e] = "reconnecting"
    /\ \E state \in {"connected", "disconnected"} : conn' = [conn EXCEPT ![e] = state]
    /\ UNCHANGED <<tab, current, live, disposed, starting, sub, server, sent, display>>

-----------------------------------------------------------------------------
(***************************************************************************)
(* The stream                                                              *)
(***************************************************************************)

\* The hub calls the service.
HubStarts(e) ==
    /\ server[e] = "requested"
    /\ server' = [server EXCEPT ![e] = "streaming"]
    /\ UNCHANGED <<tab, current, live, disposed, conn, starting, sub, sent, display>>

Newest(items, most) ==
    IF Len(items) <= most THEN items ELSE SubSeq(items, Len(items) - most + 1, Len(items))

\* handlers.next of the tab: the latest stats, or the last lines; a paused tab drops
\* what comes.
Shows(item) ==
    IF tab = "stats" THEN <<item>>
    ELSE IF paused THEN view
    ELSE Newest(Append(view, item), MaxLines)

\* A disposed subscription has no observer any more.
Receive(e) ==
    /\ server[e] = "streaming"
    /\ sub[e] = "active"
    /\ sent < MaxItems
    /\ sent' = sent + 1
    /\ view' = IF e \in live THEN Shows([from |-> e, n |-> sent + 1]) ELSE view
    /\ heard' = IF Mounted /\ e = current /\ ~paused THEN Append(heard, sent + 1) ELSE heard
    /\ UNCHANGED <<tab, current, live, disposed, conn, starting, sub, server, paused, error>>

\* The stream ends: normally, which the tabs have no handler for, or not.
StreamEnds(e) ==
    /\ server[e] = "streaming"
    /\ sub[e] = "active"
    /\ server' = [server EXCEPT ![e] = "ended"]
    /\ \/ sub' = [sub EXCEPT ![e] = "completed"] /\ UNCHANGED error
       \/ sub' = [sub EXCEPT ![e] = "failed"] /\ SetError(e)
    /\ UNCHANGED <<tab, current, live, disposed, conn, starting, sent, view, paused, heard>>

\* The hub sees the cancellation, or that the connection is gone.
HubCancels(e) ==
    /\ server[e] \in {"requested", "streaming"}
    /\ sub[e] # "active"
    /\ server' = [server EXCEPT ![e] = "ended"]
    /\ UNCHANGED <<tab, current, live, disposed, conn, starting, sub, sent, display>>

-----------------------------------------------------------------------------

User == OpenDrawer \/ ChooseTab \/ CloseDrawer \/ Rerun \/ TogglePause

Library(e) ==
    \/ OpenStream(e) \/ ReportStartFailure(e)
    \/ StartSucceeds(e) \/ StartFails(e) \/ Stopped(e)
    \/ ConnectionLost(e) \/ ReconnectEnds(e)
    \/ HubStarts(e) \/ Receive(e) \/ StreamEnds(e) \/ HubCancels(e)

Next == User \/ \E e \in Effects : Library(e)

\* A start ends in one way or the other, callbacks run, a stop takes effect, the
\* hub takes calls and cancellations up, the engine keeps sending samples.  A
\* container need not log anything.
Fairness ==
    \A e \in Effects :
        /\ WF_vars(StartSucceeds(e) \/ StartFails(e))
        /\ WF_vars(OpenStream(e) \/ ReportStartFailure(e))
        /\ WF_vars(Stopped(e))
        /\ WF_vars(HubStarts(e))
        /\ WF_vars(HubCancels(e))
        /\ WF_vars(tab = "stats" /\ Receive(e))

Spec == Init /\ [][Next]_vars /\ Fairness

-----------------------------------------------------------------------------

\* What a live tab shows is what the container of the drawer sent last: the latest
\* stats, or the last MAX_LINES lines that came while the tab was not paused, in
\* their order.  A subscription that was disposed, or a connection that started late,
\* never writes into a later view, whatever tabs and containers were shown before.
ViewOfShownContainer ==
    view = [i \in DOMAIN Newest(heard, IF tab = "logs" THEN MaxLines ELSE 1) |->
               [from |-> current, n |-> Newest(heard, IF tab = "logs" THEN MaxLines ELSE 1)[i]]]

\* A mounted tab whose start has settled has an open stream, says that it was
\* interrupted, or shows the last items of a stream that ended normally: it
\* never passes off a broken stream as a live one, whatever start, loss and
\* reconnection do.
InterruptionShown ==
    Mounted /\ starting[current] = "settled" =>
        sub[current] \in {"active", "completed"} \/ error # 0

\* Whatever a cleanup interrupts, the connection of a disposed effect comes to
\* rest and the hub's stream of it ends.
DisposedComesToRest ==
    \A e \in Effects :
        e \in disposed ~> /\ conn[e] = "disconnected"
                          /\ server[e] \notin {"requested", "streaming"}

\* "Waiting for live stats" is never the tab's last word: there come stats or
\* an error, unless the tab goes away or the stream ends without a sample.
WaitingEnds ==
    \A e \in Effects :
        e = current /\ tab = "stats" ~>
            view # <<>> \/ error # 0 \/ e \in disposed \/ sub[e] = "completed"
=============================================================================
