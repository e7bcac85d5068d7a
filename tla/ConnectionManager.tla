------------------------- MODULE ConnectionManager -------------------------
(***************************************************************************)
(* DockerConnectionManager, the singleton that owns the DockerClient, under *)
(* the concurrent HTTP requests that use it: SettingsController switches   *)
(* the connection while other requests are between two reads of            *)
(* `_manager.Client`, hold a client they are about to call, or wait for an *)
(* engine's answer.                                                        *)
(*                                                                         *)
(* Each element of Requests is one HTTP request, handled once.  The client *)
(* that an update request builds bears the name of the request; Startup    *)
(* names the client built by the manager's constructor.                    *)
(*                                                                         *)
(* A step is what runs between two points where another thread can be      *)
(* seen: a lock section, a Dispose, the start of a Docker call, its end.   *)
(***************************************************************************)
EXTENDS ConnectionOptions, ErrorMapping, DockerCalls, FiniteSets, Sequences

CONSTANTS
    Requests,        \* the HTTP requests of a behaviour
    Startup,         \* names the client built at startup
    StartupOptions,  \* the "Docker" configuration section
    Workload,        \* the operations requests perform, a subset of Operations
    TriedBodies      \* the bodies update requests carry, a subset of Bodies

ASSUME ManagerAssumption ==
    /\ Startup \notin Requests
    /\ None \notin Requests \cup {Startup}
    /\ StartupOptions \in Options
    /\ BuildFault(StartupOptions) = "none"
    /\ Workload \subseteq Operations
    /\ TriedBodies \subseteq Bodies
    /\ None \notin Infos \cup Uris \cup Faults

Clients == Requests \cup {Startup}

VARIABLES
    client,     \* DockerConnectionManager._client
    current,    \* DockerConnectionManager._current
    closed,     \* DockerConnectionManager._disposed
    info,       \* what each client is connected to; None: not built yet
    disposals,  \* how often each client was disposed
    pc,         \* where each request is
    op,         \* what it does
    body,       \* the body of an update
    replaced,   \* `old` in Reconfigure
    asked,      \* the clients read for its calls; the last is the one in hand
    seen,       \* the value read from Current
    reply,      \* the HTTP answer
    window,     \* history: the clients that were active while the request
                \* ran; for an update, since its own switch
    turn        \* history: which switch installed a client, counted from 1

managerVars == <<client, current, closed>>
clientVars  == <<info, disposals>>
vars == <<client, current, closed, info, disposals, pc, op, body, replaced,
          asked, seen, reply, window, turn>>

Sites == {"idle", "configure", "swap", "retire", "readCurrent", "getClient",
          "send", "await", "done"}

Replies == [status : Statuses,
            fault  : Faults \cup {None},
            conn   : Infos \cup {None}]

TypeOK ==
    /\ client \in Clients
    /\ current \in Infos
    /\ closed \in BOOLEAN
    /\ info \in [Clients -> Infos \cup {None}]
    /\ disposals \in [Clients -> Nat]
    /\ pc \in [Requests -> Sites]
    /\ op \in [Requests -> Operations \cup {None}]
    /\ body \in [Requests -> Bodies \cup {None}]
    /\ replaced \in [Requests -> Clients \cup {None}]
    /\ asked \in [Requests -> Seq(Clients)]
    /\ seen \in [Requests -> Infos \cup {None}]
    /\ reply \in [Requests -> Replies \cup {None}]
    /\ window \in [Requests -> SUBSET Clients]
    /\ turn \in [Clients -> Nat]

Init ==
    /\ client = Startup
    /\ current = InfoOf(StartupOptions)
    /\ closed = FALSE
    /\ info = [c \in Clients |->
                  IF c = Startup THEN InfoOf(StartupOptions) ELSE None]
    /\ disposals = [c \in Clients |-> 0]
    /\ pc = [r \in Requests |-> "idle"]
    /\ op = [r \in Requests |-> None]
    /\ body = [r \in Requests |-> None]
    /\ replaced = [r \in Requests |-> None]
    /\ asked = [r \in Requests |-> <<>>]
    /\ seen = [r \in Requests |-> None]
    /\ reply = [r \in Requests |-> None]
    /\ window = [r \in Requests |-> {}]
    /\ turn = [c \in Clients |-> 0]

-----------------------------------------------------------------------------

Goto(r, site) == pc' = [pc EXCEPT ![r] = site]

Finish(r, status, fault, conn) ==
    /\ Goto(r, "done")
    /\ reply' = [reply EXCEPT ![r] = [status |-> status, fault |-> fault, conn |-> conn]]

\* Mutants of Throw.  A failed ping is left to the middleware; it is tried again.
ThrowUncaught(r, fault) == Finish(r, Classify(fault), fault, None)

ThrowRetries(r, fault) ==
    IF op[r] = "update" THEN Goto(r, "getClient") /\ UNCHANGED reply
                        ELSE Finish(r, Classify(fault), fault, None)

(***************************************************************************)
(* An exception leaves a Docker call.  UpdateConnection catches whatever   *)
(* its ping throws, logs it with the endpoint it read before and answers   *)
(* 502; everywhere else the middleware classifies it.                      *)
(***************************************************************************)
Throw(r, fault) ==
    IF op[r] = "update" THEN Finish(r, 502, fault, seen[r])
                        ELSE Finish(r, Classify(fault), fault, None)

FirstSite(operation) ==
    IF operation = "update" THEN "configure"
    ELSE IF operation = "connection" THEN "readCurrent"
    ELSE "getClient"

Arrive(r) ==
    /\ pc[r] = "idle"
    /\ \E operation \in Workload :
          /\ op' = [op EXCEPT ![r] = operation]
          /\ Goto(r, FirstSite(operation))
          /\ \E b \in IF operation = "update" THEN TriedBodies ELSE {None} :
                body' = [body EXCEPT ![r] = b]
    /\ window' = [window EXCEPT ![r] = {client}]
    /\ UNCHANGED <<managerVars, clientVars, replaced, asked, seen, reply, turn>>

-----------------------------------------------------------------------------
\* SettingsController.UpdateConnection up to and including Reconfigure.

RefuseBody(r) ==
    /\ pc[r] = "configure"
    /\ Refused(body[r])
    /\ Finish(r, 400, None, None)
    /\ UNCHANGED <<managerVars, clientVars, op, body, replaced, asked, seen,
                   window, turn>>

FailBuild(r) ==
    /\ pc[r] = "configure"
    /\ ~Refused(body[r])
    /\ LET fault == BuildFault(BuildOptions(body[r]))
       IN  /\ fault # "none"
           /\ Finish(r, Classify(fault), fault, None)
    /\ UNCHANGED <<managerVars, clientVars, op, body, replaced, asked, seen,
                   window, turn>>

BuildClient(r) ==
    /\ pc[r] = "configure"
    /\ ~Refused(body[r])
    /\ BuildFault(BuildOptions(body[r])) = "none"
    /\ info' = [info EXCEPT ![r] = InfoOf(BuildOptions(body[r]))]
    /\ Goto(r, "swap")
    /\ UNCHANGED <<managerVars, disposals, op, body, replaced, asked, seen,
                   reply, window, turn>>

\* The requests being handled now see one more active client; the window of
\* the update itself starts again.
Running(q) == pc[q] \notin {"idle", "done"}

Witness(r) ==
    [q \in Requests |-> IF q = r THEN {r}
                        ELSE IF Running(q) THEN window[q] \cup {r} ELSE window[q]]

\* Mutants of Swap.  _current is forgotten; _disposed is not looked at; `old` is
\* read after the assignment.
SwapForgetsCurrent(r) ==
    /\ pc[r] = "swap"
    /\ ~closed
    /\ replaced' = [replaced EXCEPT ![r] = client]
    /\ client' = r
    /\ window' = Witness(r)
    /\ turn' = [turn EXCEPT ![r] = turn[client] + 1]
    /\ Goto(r, "retire")
    /\ UNCHANGED <<current, closed, clientVars, op, body, asked, seen, reply>>

SwapIgnoresClosed(r) ==
    /\ pc[r] = "swap"
    /\ replaced' = [replaced EXCEPT ![r] = client]
    /\ client' = r
    /\ current' = info[r]
    /\ window' = Witness(r)
    /\ turn' = [turn EXCEPT ![r] = turn[client] + 1]
    /\ Goto(r, "retire")
    /\ UNCHANGED <<closed, clientVars, op, body, asked, seen, reply>>

SwapReadsOldLate(r) ==
    /\ pc[r] = "swap"
    /\ ~closed
    /\ replaced' = [replaced EXCEPT ![r] = r]
    /\ client' = r
    /\ current' = info[r]
    /\ window' = Witness(r)
    /\ turn' = [turn EXCEPT ![r] = turn[client] + 1]
    /\ Goto(r, "retire")
    /\ UNCHANGED <<closed, clientVars, op, body, asked, seen, reply>>

\* The lock section of Reconfigure.
Swap(r) ==
    /\ pc[r] = "swap"
    /\ ~closed
    /\ replaced' = [replaced EXCEPT ![r] = client]
    /\ client' = r
    /\ current' = info[r]
    /\ window' = Witness(r)
    /\ turn' = [turn EXCEPT ![r] = turn[client] + 1]
    /\ Goto(r, "retire")
    /\ UNCHANGED <<closed, clientVars, op, body, asked, seen, reply>>

\* The lock section finds the manager disposed; the new client is dropped.
SwapRefused(r) ==
    /\ pc[r] = "swap"
    /\ closed
    /\ Finish(r, Classify("ObjectDisposed"), "ObjectDisposed", None)
    /\ UNCHANGED <<managerVars, clientVars, op, body, replaced, asked, seen,
                   window, turn>>

\* Mutant of Retire: the old client is not disposed.
RetireForgets(r) ==
    /\ pc[r] = "retire"
    /\ Goto(r, "readCurrent")
    /\ UNCHANGED <<managerVars, clientVars, op, body, replaced, asked, seen,
                   reply, window, turn>>

\* old?.Dispose(), after the lock was released.
Retire(r) ==
    /\ pc[r] = "retire"
    /\ disposals' = [disposals EXCEPT ![replaced[r]] = @ + 1]
    /\ Goto(r, "readCurrent")
    /\ UNCHANGED <<managerVars, info, op, body, replaced, asked, seen, reply,
                   window, turn>>

-----------------------------------------------------------------------------
\* The getters.  An update reads Current before its ping; GET ping after it.

\* Mutant of ReadCurrent: an update reads Current before Reconfigure.
ReadCurrentEarly(r) ==
    /\ pc[r] = "readCurrent"
    /\ LET known == IF op[r] = "update" THEN info[replaced[r]] ELSE current
       IN  /\ seen' = [seen EXCEPT ![r] = known]
           /\ IF op[r] = "update"
              THEN Goto(r, "getClient") /\ UNCHANGED reply
              ELSE Finish(r, 200, None, known)
    /\ UNCHANGED <<managerVars, clientVars, op, body, replaced, asked, window, turn>>

ReadCurrent(r) ==
    /\ pc[r] = "readCurrent"
    /\ seen' = [seen EXCEPT ![r] = current]
    /\ IF op[r] = "update"
       THEN Goto(r, "getClient") /\ UNCHANGED reply
       ELSE Finish(r, 200, None, current)
    /\ UNCHANGED <<managerVars, clientVars, op, body, replaced, asked, window, turn>>

\* A blank id or name is refused before the first call.
RefuseArguments(r) ==
    /\ pc[r] = "getClient"
    /\ op[r] \in Validated
    /\ asked[r] = <<>>
    /\ Throw(r, "Argument")
    /\ UNCHANGED <<managerVars, clientVars, op, body, replaced, asked, seen,
                   window, turn>>

\* Mutants of GetClient.  A service keeps the client it was created with; the
\* field is read without the lock and may be as old as the request.
GetCachedClient(r) ==
    /\ pc[r] = "getClient"
    /\ asked' = [asked EXCEPT ![r] = Append(@, Startup)]
    /\ Goto(r, "send")
    /\ UNCHANGED <<managerVars, clientVars, op, body, replaced, seen, reply,
                   window, turn>>

GetClientUnlocked(r) ==
    /\ pc[r] = "getClient"
    /\ IF closed
       THEN Throw(r, "ObjectDisposed") /\ UNCHANGED asked
       ELSE /\ \E c \in window[r] : asked' = [asked EXCEPT ![r] = Append(@, c)]
            /\ Goto(r, "send")
            /\ UNCHANGED reply
    /\ UNCHANGED <<managerVars, clientVars, op, body, replaced, seen, window, turn>>

GetClient(r) ==
    /\ pc[r] = "getClient"
    /\ IF closed
       THEN Throw(r, "ObjectDisposed") /\ UNCHANGED asked
       ELSE /\ asked' = [asked EXCEPT ![r] = Append(@, client)]
            /\ Goto(r, "send")
            /\ UNCHANGED reply
    /\ UNCHANGED <<managerVars, clientVars, op, body, replaced, seen, window, turn>>

-----------------------------------------------------------------------------
\* A Docker call.  HttpClient refuses a request once it is disposed; a call
\* under way when the client is disposed may be cancelled or may still be
\* answered.

InHand(r) == asked[r][Len(asked[r])]

Send(r) ==
    /\ pc[r] = "send"
    /\ IF disposals[InHand(r)] > 0
       THEN Throw(r, "ObjectDisposed")
       ELSE Goto(r, "await") /\ UNCHANGED reply
    /\ UNCHANGED <<managerVars, clientVars, op, body, replaced, asked, seen,
                   window, turn>>

\* The engine answers as hoped.
Answer(r) ==
    /\ pc[r] = "await"
    /\ IF Len(asked[r]) < Calls[op[r]]
       THEN Goto(r, "getClient") /\ UNCHANGED reply
       ELSE IF op[r] = "ping"
            THEN Goto(r, "readCurrent") /\ UNCHANGED reply
            ELSE Finish(r, 200, None, seen[r])
    /\ UNCHANGED <<managerVars, clientVars, op, body, replaced, asked, seen,
                   window, turn>>

\* The engine refuses (it does not know the object: another engine made it),
\* cannot be reached, is too slow, or the call is cancelled.
CallFails(r) ==
    /\ pc[r] = "await"
    /\ \E fault \in EngineFaults \cup TransportFaults : Throw(r, fault)
    /\ UNCHANGED <<managerVars, clientVars, op, body, replaced, asked, seen,
                   window, turn>>

-----------------------------------------------------------------------------

\* Mutant of Dispose: the active client survives.
DisposeLeavesClient ==
    /\ ~closed
    /\ closed' = TRUE
    /\ UNCHANGED <<client, current, clientVars, pc, op, body, replaced, asked,
                   seen, reply, window, turn>>

\* The host disposes the singleton at shutdown; a second Dispose does nothing.
Dispose ==
    /\ ~closed
    /\ closed' = TRUE
    /\ disposals' = [disposals EXCEPT ![client] = @ + 1]
    /\ UNCHANGED <<client, current, info, pc, op, body, replaced, asked, seen,
                   reply, window, turn>>

\* The steps a request's thread takes once the request has arrived.
Handle(r) ==
    \/ RefuseBody(r) \/ FailBuild(r) \/ BuildClient(r)
    \/ Swap(r) \/ SwapRefused(r) \/ Retire(r)
    \/ ReadCurrent(r) \/ RefuseArguments(r) \/ GetClient(r)
    \/ Send(r) \/ Answer(r) \/ CallFails(r)

Next ==
    \/ \E r \in Requests : Arrive(r) \/ Handle(r)
    \/ Dispose

\* The request waits for an engine that nothing obliges to answer.
Waits(r) == pc[r] = "await" /\ op[r] \in Unbounded

\* The thread pool runs every handler, and DefaultTimeout (100 s) ends the call
\* of an engine that does not answer, except for the operations in Unbounded.
\* Nothing forces a request or a shutdown to come.
Fairness == \A r \in Requests : WF_vars(~Waits(r) /\ Handle(r))

Spec == Init /\ [][Next]_vars /\ Fairness

-----------------------------------------------------------------------------
(***************************************************************************)
(* Safety                                                                  *)
(***************************************************************************)

Built(c) == info[c] # None
Answered(r) == pc[r] = "done"
Switched(r) == replaced[r] # None

\* Whatever switches are under way, the client that the Client getter hands
\* out has not been disposed and Current describes that very client: the two
\* fields change together and the old client is disposed only when nobody can
\* obtain it any more.
ActiveClientUsable ==
    /\ ~closed => disposals[client] = 0
    /\ current = info[client]

\* No client is disposed twice, although Reconfigure disposes outside the lock
\* and races with other switches and with the shutdown.
NeverDisposedTwice == \A c \in Clients : disposals[c] <= 1

\* A client that exists and is not disposed is the active one or in the hands
\* of an update that will install or dispose it.  The one way to lose a client is
\* a shutdown between the build and the lock: the refused update drops it.
NoClientLeaked ==
    \A c \in Clients : Built(c) /\ disposals[c] = 0 =>
        \/ c = client
        \/ \E r \in Requests :
              \/ pc[r] = "swap" /\ c = r
              \/ pc[r] = "retire" /\ c = replaced[r]
              \/ closed /\ c = r /\ Answered(r) /\ ~Switched(r)

\* A request meets a disposed client (and is answered "Invalid operation")
\* only if the connection was switched or shut down while it ran, for an
\* update: after its own switch.
DisposedOnlyBySwitch ==
    \A r \in Requests :
        Answered(r) /\ reply[r].fault = "ObjectDisposed" =>
            closed \/ \A c \in Clients : window[r] # {c}

\* The connection an answer reports was the active one at some moment while
\* the request ran (for an update: at or after its own switch), and the ping
\* that it speaks of asked that client or, if a switch came in between, one on
\* the other side of it: GET ping reports the pinged client or a newer one, an
\* update pings the reported client or a newer one.
InOrderOfReading(r, c) ==
    \A i \in DOMAIN asked[r] :
        IF op[r] = "update" THEN turn[c] <= turn[asked[r][i]]
                            ELSE turn[asked[r][i]] <= turn[c]

ReportsAnActiveConnection ==
    \A r \in Requests :
        Answered(r) /\ reply[r].conn # None =>
            \E c \in window[r] : reply[r].conn = info[c] /\ InOrderOfReading(r, c)

\* Every Docker call of a request, answered or not, went to a client that was
\* active while the request ran: nobody keeps a client from before ("Do not cache; read per
\* call").
CallsGoToActiveClients ==
    \A r \in Requests : \A i \in DOMAIN asked[r] : asked[r][i] \in window[r]

\* The status of an update tells whether the switch took place: 200 and 502 say
\* it did, 400 and 500 say it did not.
UpdateStatusTellsSwitch ==
    \A r \in Requests :
        Answered(r) /\ op[r] = "update" => (Switched(r) <=> reply[r].status \in {200, 502})

\* The calls of one request never go back: the steps of an operation (create
\* and start, create and inspect, the lists of a disk usage) ask one client, and
\* from a switch on the newer one.
CallsMoveForward ==
    \A r \in Requests : \A i, j \in DOMAIN asked[r] :
        i < j /\ asked[r][i] # asked[r][j] => turn[asked[r][i]] < turn[asked[r][j]]

-----------------------------------------------------------------------------
(***************************************************************************)
(* Liveness, and the abstract specification                                *)
(***************************************************************************)

\* Every request that arrived is answered, whatever is switched meanwhile, or
\* waits for an engine in a call that no timeout bounds.
EveryRequestAnswered ==
    \A r \in Requests : Running(r) ~> Answered(r) \/ Waits(r)

\* The manager keeps the promise of ActiveConnection: one open active client,
\* replaced clients closed exactly once and never reactivated.
Undisposed == {c \in Clients : Built(c) /\ disposals[c] = 0}
Retiring == {c \in Clients : \E r \in Requests : pc[r] = "retire" /\ replaced[r] = c}
Disposed == {c \in Clients : disposals[c] > 0}

Promise == INSTANCE ActiveConnection WITH
    First      <- Startup,
    active     <- client,
    open       <- Undisposed,
    superseded <- Retiring,
    spent      <- Disposed,
    shut       <- closed

KeepsPromise == Promise!Spec

=============================================================================
