----------------------- MODULE ConnectionManager_proofs -----------------------
(***************************************************************************)
(* Proofs about ConnectionManager, for every set of requests, every set of *)
(* bodies and every assignment of endpoints.                               *)
(***************************************************************************)
EXTENDS ConnectionInvariant, TLAPS

-----------------------------------------------------------------------------
(* The static part: what is built from an update's body.                   *)

\* Every exception has a status, and the status is one that a reply can carry.
LEMMA ClassifyType ==
    ASSUME NEW f \in Faults
    PROVE  Classify(f) \in Statuses
BY DEF Faults, EngineFaults, TransportFaults, LocalFaults, Classify,
       MapApiException, Statuses

\* Build either succeeds or throws one of four exceptions.
LEMMA BuildFaults ==
    ASSUME NEW options
    PROVE  BuildFault(options) \in {"none", "InvalidOperation", "UriFormat",
                                    "Cryptographic", "UnknownScheme"}
BY DEF BuildFault, Endpoint

\* The options of a body that was not refused are well formed.
LEMMA BuildOptionsType ==
    ASSUME NEW b \in Bodies, ~Refused(b)
    PROVE  BuildOptions(b) \in Options
BY OptionsAssumption
   DEF Bodies, Refused, BuildOptions, Options, ModeTexts, Modes, NamedModes, TlsOptions

\* When Build does not throw, what it returns describes a parsed endpoint.
LEMMA InfoType ==
    ASSUME NEW options \in Options, BuildFault(options) = "none"
    PROVE  InfoOf(options) \in Infos
<1>1. Endpoint(options) \in DOMAIN UriOf
  BY OptionsAssumption DEF BuildFault, Endpoint, Options
<1>2. UriOf[Endpoint(options)] \in Uris
  BY <1>1, OptionsAssumption
<1> QED
  BY <1>2 DEF InfoOf, Infos, Options, TlsEnabled, TlsOptions

\* A build that fails is answered 400 or 500, so never like a switch.
LEMMA BuildFaultStatus ==
    ASSUME NEW options, BuildFault(options) # "none"
    PROVE  /\ BuildFault(options) \in Faults
           /\ Classify(BuildFault(options)) \in {400, 500}
BY BuildFaults DEF Faults, LocalFaults, EngineFaults, TransportFaults, Classify,
                   MapApiException

-----------------------------------------------------------------------------
(* How a handler ends.                                                     *)

\* Finish answers one request and leaves the others alone.
LEMMA FinishFrame ==
    ASSUME TypeOK, NEW r \in Requests,
           NEW status \in Statuses, NEW fault \in Faults \cup {None},
           NEW conn \in Infos \cup {None},
           Finish(r, status, fault, conn)
    PROVE  /\ pc' = [pc EXCEPT ![r] = "done"]
           /\ reply' = [reply EXCEPT ![r] = [status |-> status, fault |-> fault, conn |-> conn]]
           /\ pc' \in [Requests -> Sites]
           /\ reply' \in [Requests -> Replies \cup {None}]
           /\ reply'[r] \in Replies
BY DEF TypeOK, Finish, Goto, Sites, Replies

\* So does an exception, whoever maps it to a status.
LEMMA ThrowFrame ==
    ASSUME TypeOK, NEW r \in Requests, NEW fault \in Faults, Throw(r, fault)
    PROVE  /\ pc' = [pc EXCEPT ![r] = "done"]
           /\ pc' \in [Requests -> Sites]
           /\ reply' \in [Requests -> Replies \cup {None}]
           /\ reply'[r] \in Replies
           /\ reply'[r].fault = fault
           /\ reply'[r].conn = IF op[r] = "update" THEN seen[r] ELSE None
           /\ op[r] = "update" => reply'[r].status = 502
           /\ \A q \in Requests : q # r => reply'[q] = reply[q]
<1>1. CASE op[r] = "update"
  <2>1. /\ 502 \in Statuses
        /\ seen[r] \in Infos \cup {None}
        /\ Finish(r, 502, fault, seen[r])
    BY <1>1 DEF TypeOK, Throw, Statuses
  <2> QED
    BY <1>1, <2>1, FinishFrame DEF TypeOK
<1>2. CASE op[r] # "update"
  <2>1. /\ Classify(fault) \in Statuses
        /\ Finish(r, Classify(fault), fault, None)
    BY <1>2, ClassifyType DEF Throw
  <2> QED
    BY <1>2, <2>1, FinishFrame DEF TypeOK
<1> QED
  BY <1>1, <1>2

-----------------------------------------------------------------------------
(* Types.                                                                  *)

\* The initial state is well typed: the startup options build a client.
LEMMA InitType == Init => TypeOK
<1> SUFFICES ASSUME Init PROVE TypeOK
  OBVIOUS
<1>1. InfoOf(StartupOptions) \in Infos
  BY ManagerAssumption, InfoType
<1>2. /\ client \in Clients
      /\ current \in Infos
      /\ closed \in BOOLEAN
      /\ info \in [Clients -> Infos \cup {None}]
      /\ disposals \in [Clients -> Nat]
  BY <1>1 DEF Init, Clients
<1>3. asked \in [Requests -> Seq(Clients)]
  BY DEF Init
<1> QED
  BY <1>2, <1>3 DEF Init, TypeOK, Sites

LEMMA ArriveType ==
    ASSUME Inductive, NEW r \in Requests, Arrive(r)
    PROVE  TypeOK'
<1> USE DEF Inductive
<1>1. PICK operation \in Workload :
          /\ op' = [op EXCEPT ![r] = operation]
          /\ Goto(r, FirstSite(operation))
          /\ \E b \in IF operation = "update" THEN TriedBodies ELSE {None} :
                body' = [body EXCEPT ![r] = b]
  BY DEF Arrive
<1>2. op' \in [Requests -> Operations \cup {None}]
  BY <1>1, ManagerAssumption DEF TypeOK
<1>3. pc' \in [Requests -> Sites]
  BY <1>1 DEF TypeOK, Goto, FirstSite, Sites
<1>4. body' \in [Requests -> Bodies \cup {None}]
  BY <1>1, ManagerAssumption DEF TypeOK
<1>5. window' \in [Requests -> SUBSET Clients]
  BY DEF Arrive, TypeOK
<1> QED
  BY <1>2, <1>3, <1>4, <1>5 DEF Arrive, TypeOK, managerVars, clientVars

LEMMA UpdateType ==
    ASSUME Inductive, NEW r \in Requests,
           \/ RefuseBody(r) \/ FailBuild(r) \/ BuildClient(r)
           \/ Swap(r) \/ SwapRefused(r) \/ Retire(r)
    PROVE  TypeOK'
<1> USE DEF Inductive
<1>1. CASE RefuseBody(r)
  <2>1. 400 \in Statuses /\ Finish(r, 400, None, None)
    BY <1>1 DEF RefuseBody, Statuses
  <2> QED
    BY <1>1, <2>1, FinishFrame, ZenonT(60) DEF RefuseBody, TypeOK, managerVars, clientVars
<1>2. CASE FailBuild(r)
  <2> DEFINE fault == BuildFault(BuildOptions(body[r]))
  <2>1. /\ fault \in Faults
        /\ Classify(fault) \in Statuses
        /\ Finish(r, Classify(fault), fault, None)
    BY <1>2, BuildFaultStatus DEF FailBuild, Statuses
  <2> HIDE DEF fault
  <2> QED
    BY <1>2, <2>1, FinishFrame DEF FailBuild, TypeOK, managerVars, clientVars
<1>3. CASE BuildClient(r)
  <2>1. InfoOf(BuildOptions(body[r])) \in Infos
    BY <1>3, BuildOptionsType, InfoType DEF BuildClient, HandlerInv
  <2> QED
    BY <1>3, <2>1 DEF BuildClient, Goto, TypeOK, managerVars, Clients, Sites
<1>4. CASE Swap(r)
  <2>1. info[r] \in Infos
    BY <1>4 DEF Swap, FreshInv, Built, TypeOK, Clients
  <2>2. window' \in [Requests -> SUBSET Clients]
    BY <1>4 DEF Swap, Witness, TypeOK, Clients
  <2>3. replaced' \in [Requests -> Clients \cup {None}]
    BY <1>4 DEF Swap, TypeOK
  <2>4. turn' \in [Clients -> Nat]
    <3>1. turn[client] + 1 \in Nat
      BY DEF TypeOK
    <3> QED
      BY <1>4, <3>1 DEF Swap, TypeOK
  <2> QED
    BY <1>4, <2>1, <2>2, <2>3, <2>4 DEF Swap, Goto, TypeOK, clientVars, Clients, Sites
<1>5. CASE SwapRefused(r)
  <2>1. /\ Classify("ObjectDisposed") \in Statuses
        /\ "ObjectDisposed" \in Faults
    BY ClassifyType DEF Faults, LocalFaults
  <2> QED
    BY <1>5, <2>1, FinishFrame DEF SwapRefused, TypeOK, managerVars, clientVars
<1>6. CASE Retire(r)
  BY <1>6 DEF Retire, Goto, RetireInv, TypeOK, managerVars, Sites
<1> QED
  BY <1>1, <1>2, <1>3, <1>4, <1>5, <1>6

LEMMA CallType ==
    ASSUME Inductive, NEW r \in Requests,
           \/ ReadCurrent(r) \/ RefuseArguments(r) \/ GetClient(r)
           \/ Send(r) \/ Answer(r) \/ CallFails(r)
    PROVE  TypeOK'
<1> USE DEF Inductive
<1>0. /\ EngineFaults \cup TransportFaults \subseteq Faults
      /\ "ObjectDisposed" \in Faults
      /\ "Argument" \in Faults
      /\ 200 \in Statuses
  BY DEF Faults, LocalFaults, Statuses
<1>1. CASE ReadCurrent(r)
  <2>1. seen' \in [Requests -> Infos \cup {None}]
    BY <1>1 DEF ReadCurrent, TypeOK
  <2>2. /\ pc' \in [Requests -> Sites]
        /\ reply' \in [Requests -> Replies \cup {None}]
    <3>1. CASE op[r] = "update"
      BY <1>1, <3>1 DEF ReadCurrent, Goto, TypeOK, Sites
    <3>2. CASE op[r] # "update"
      <4>1. Finish(r, 200, None, current) /\ current \in Infos
        BY <1>1, <3>2 DEF ReadCurrent, TypeOK
      <4> QED
        BY <4>1, <1>0, FinishFrame
    <3> QED
      BY <3>1, <3>2
  <2> QED
    BY <1>1, <2>1, <2>2 DEF ReadCurrent, TypeOK, managerVars, clientVars
<1>2. CASE RefuseArguments(r)
  BY <1>2, <1>0, ThrowFrame DEF RefuseArguments, TypeOK, managerVars, clientVars
<1>3. CASE GetClient(r)
  <2>1. CASE closed
    BY <1>3, <2>1, <1>0, ThrowFrame DEF GetClient, TypeOK, managerVars, clientVars
  <2>2. CASE ~closed
    <3>1. asked' \in [Requests -> Seq(Clients)]
      <4>1. Append(asked[r], client) \in Seq(Clients)
        BY DEF TypeOK
      <4> QED
        BY <1>3, <2>2, <4>1 DEF GetClient, TypeOK
    <3> QED
      BY <1>3, <2>2, <3>1 DEF GetClient, Goto, TypeOK, managerVars, clientVars, Sites
  <2> QED
    BY <2>1, <2>2
<1>4. CASE Send(r)
  <2>1. CASE disposals[InHand(r)] > 0
    BY <1>4, <2>1, <1>0, ThrowFrame DEF Send, TypeOK, managerVars, clientVars
  <2>2. CASE ~(disposals[InHand(r)] > 0)
    BY <1>4, <2>2 DEF Send, Goto, TypeOK, managerVars, clientVars, Sites
  <2> QED
    BY <2>1, <2>2
<1>5. CASE Answer(r)
  <2>1. /\ pc' \in [Requests -> Sites]
        /\ reply' \in [Requests -> Replies \cup {None}]
    <3>1. CASE Finish(r, 200, None, seen[r])
      <4>1. seen[r] \in Infos \cup {None}
        BY DEF TypeOK
      <4> QED
        BY <3>1, <4>1, <1>0, FinishFrame
    <3>2. CASE ~Finish(r, 200, None, seen[r])
      <4>1. /\ Goto(r, "getClient") \/ Goto(r, "readCurrent")
            /\ UNCHANGED reply
        BY <1>5, <3>2 DEF Answer
      <4> QED
        BY <4>1 DEF Goto, TypeOK, Sites
    <3> QED
      BY <3>1, <3>2
  <2> QED
    BY <1>5, <2>1 DEF Answer, TypeOK, managerVars, clientVars
<1>6. CASE CallFails(r)
  BY <1>6, <1>0, ThrowFrame DEF CallFails, TypeOK, managerVars, clientVars
<1> QED
  BY <1>1, <1>2, <1>3, <1>4, <1>5, <1>6

LEMMA DisposeType ==
    ASSUME Inductive, Dispose
    PROVE  TypeOK'
BY DEF Inductive, TypeOK, Dispose

-----------------------------------------------------------------------------
(* Initially everything holds.                                             *)

LEMMA InitInductive == Init => Inductive
<1> SUFFICES ASSUME Init PROVE Inductive
  OBVIOUS
<1>1. TypeOK
  BY InitType
<1>2. InfoOf(StartupOptions) \in Infos /\ InfoOf(StartupOptions) # None
  BY ManagerAssumption, InfoType
<1>3. ManagerInv /\ DisposalInv
  BY <1>2 DEF Init, ManagerInv, DisposalInv, Built, Clients
<1>4. FreshInv /\ RetireInv
  BY ManagerAssumption DEF Init, FreshInv, RetireInv, Built, Clients
<1>5. HandlerInv
  BY DEF Init, HandlerInv, Running, Answered
<1>6. WindowInv /\ TurnInv /\ CallsMoveForward
  BY DEF Init, WindowInv, TurnInv, CallsMoveForward, Running
<1>7. NoClientLeaked
  BY DEF Init, NoClientLeaked, Built
<1>8. DisposedOnlyBySwitch /\ ReportsAnActiveConnection /\ UpdateStatusTellsSwitch
  BY DEF Init, DisposedOnlyBySwitch, ReportsAnActiveConnection,
         UpdateStatusTellsSwitch, Answered
<1> QED
  BY <1>1, <1>3, <1>4, <1>5, <1>6, <1>7, <1>8 DEF Inductive

-----------------------------------------------------------------------------
(* Steps that touch one request only.                                      *)

Late == {"readCurrent", "getClient", "send", "await", "done"}

\* Whatever a request can have seen was installed before the active client, or is it.
LEMMA WindowOlder ==
    ASSUME TypeOK, TurnInv, NEW r \in Requests, NEW c \in window[r]
    PROVE  turn[c] <= turn[client] /\ turn[c] \in Nat /\ turn[client] \in Nat
<1>1. c \in Clients /\ client \in Clients
  BY DEF TypeOK
<1>2. turn[c] \in Nat /\ turn[client] \in Nat
  BY <1>1 DEF TypeOK
<1>3. c # client => turn[c] < turn[client]
  BY DEF TurnInv
<1> QED
  BY <1>2, <1>3

\* A step of r's handler that changes neither the manager nor any client.
Quiet(r) ==
    /\ UNCHANGED <<client, current, closed, info, disposals, op, body, replaced,
                   window, turn>>
    /\ \A q \in Requests : q # r =>
          /\ pc'[q] = pc[q]
          /\ asked'[q] = asked[q]
          /\ seen'[q] = seen[q]
          /\ reply'[q] = reply[q]

\* What r itself must satisfy after such a step.
Carries(r) ==
    /\ op[r] = "update" /\ pc'[r] # "done" => replaced[r] # None
    /\ pc'[r] = "readCurrent" /\ op[r] = "update" => asked'[r] = <<>>
    /\ pc'[r] # "done" /\ seen'[r] # None => op[r] = "update"
    /\ pc'[r] \in {"send", "await"} => asked'[r] # <<>>
    /\ \A i \in DOMAIN asked'[r] : asked'[r][i] \in window[r]
    /\ \A i, j \in DOMAIN asked'[r] :
          i < j /\ asked'[r][i] # asked'[r][j] => turn[asked'[r][i]] < turn[asked'[r][j]]
    /\ seen'[r] # None =>
          \E c \in window[r] : seen'[r] = info[c] /\ InOrderOfReading(r, c)'

\* What r's answer must satisfy.
Honest(r) ==
    /\ reply'[r] \in Replies
    /\ reply'[r].fault = "ObjectDisposed" =>
          closed \/ \A c \in Clients : window[r] # {c}
    /\ reply'[r].conn # None =>
          \E c \in window[r] : reply'[r].conn = info[c] /\ InOrderOfReading(r, c)'
    /\ op[r] = "update" => (replaced[r] # None <=> reply'[r].status \in {200, 502})

\* A step of one handler that carries what it should and answers honestly
\* preserves the invariant.
LEMMA QuietStep ==
    ASSUME Inductive, TypeOK', NEW r \in Requests, Quiet(r),
           pc[r] \notin {"idle", "retire", "done"}, pc'[r] \in Late,
           pc[r] = "swap" => closed /\ pc'[r] = "done",
           Carries(r), pc'[r] = "done" => Honest(r)
    PROVE  Inductive'
<1> USE DEF Inductive, Quiet
<1>1. ManagerInv' /\ DisposalInv'
  BY DEF ManagerInv, DisposalInv, Built
<1>2. FreshInv'
  BY DEF FreshInv, Built, Late
<1>3. RetireInv'
  BY DEF RetireInv, Built, Late
<1>4. HandlerInv'
  BY DEF HandlerInv, Running, Answered, Carries, Honest, Late
<1>5. WindowInv'
  <2> SUFFICES ASSUME NEW q \in Requests PROVE WindowInv!(q)'
    BY DEF WindowInv
  <2>1. CASE q = r
    BY <2>1 DEF WindowInv, Running, Built, Carries, Late
  <2>2. CASE q # r
    BY <2>2 DEF WindowInv, Running, Built, InOrderOfReading
  <2> QED
    BY <2>1, <2>2
<1>6. TurnInv' /\ CallsMoveForward'
  BY DEF TurnInv, CallsMoveForward, Carries
<1>7. NoClientLeaked'
  BY DEF NoClientLeaked, HandlerInv, Built, Answered, Switched, Late
<1>8. DisposedOnlyBySwitch'
  BY DEF DisposedOnlyBySwitch, Answered, Honest
<1>9. ReportsAnActiveConnection'
  <2> SUFFICES ASSUME NEW q \in Requests, Answered(q)', reply'[q].conn # None
               PROVE  \E c \in window[q] : reply'[q].conn = info[c] /\ InOrderOfReading(q, c)'
    BY DEF ReportsAnActiveConnection
  <2>1. CASE q = r
    BY <2>1 DEF Answered, Honest
  <2>2. CASE q # r
    BY <2>2 DEF ReportsAnActiveConnection, Answered, InOrderOfReading
  <2> QED
    BY <2>1, <2>2
<1>10. UpdateStatusTellsSwitch'
  BY DEF UpdateStatusTellsSwitch, Switched, Answered, Honest
<1> QED
  BY <1>1, <1>2, <1>3, <1>4, <1>5, <1>6, <1>7, <1>8, <1>9, <1>10

\* An exception in a handler that holds no switched-in client is answered
\* honestly, unless it is a disposed client without a switch.
LEMMA ThrowStep ==
    ASSUME Inductive, TypeOK', NEW r \in Requests, NEW fault \in Faults,
           Throw(r, fault), pc[r] \in {"getClient", "send", "await"},
           fault = "ObjectDisposed" =>
               closed \/ \A c \in Clients : window[r] # {c},
           UNCHANGED <<managerVars, clientVars, op, body, replaced, asked,
                       seen, window, turn>>
    PROVE  Inductive'
<1>1. /\ pc' = [pc EXCEPT ![r] = "done"]
      /\ reply'[r] \in Replies
      /\ reply'[r].fault = fault
      /\ reply'[r].conn = IF op[r] = "update" THEN seen[r] ELSE None
      /\ op[r] = "update" => reply'[r].status = 502
      /\ \A q \in Requests : q # r => reply'[q] = reply[q]
  BY ThrowFrame DEF Inductive
<1>2. Quiet(r)
  BY <1>1 DEF Quiet, managerVars, clientVars, Inductive, TypeOK
<1>3. pc'[r] = "done"
  BY <1>1 DEF Inductive, TypeOK
<1>4. Carries(r)
  BY <1>3 DEF Carries, Inductive, WindowInv, CallsMoveForward, InOrderOfReading
<1>5. Honest(r)
  BY <1>1 DEF Honest, Inductive, WindowInv, HandlerInv, Running, InOrderOfReading
<1> QED
  BY <1>2, <1>3, <1>4, <1>5, QuietStep DEF Late

LEMMA RefusalStep ==
    ASSUME Inductive, TypeOK', NEW r \in Requests,
           RefuseBody(r) \/ FailBuild(r) \/ SwapRefused(r)
    PROVE  Inductive'
<1> USE DEF Inductive
<1>1. PICK status \in {400, 500}, fault \in Faults \cup {None} :
          /\ Finish(r, status, fault, None)
          /\ fault = "ObjectDisposed" => closed
          /\ UNCHANGED <<client, current, closed, info, disposals, op, body,
                         replaced, asked, seen, window, turn>>
          /\ pc[r] \in {"configure", "swap"}
          /\ pc[r] = "swap" => closed
  <2>1. CASE RefuseBody(r)
    <3>1. Finish(r, 400, None, None) /\ None # "ObjectDisposed"
      BY <2>1, ManagerAssumption DEF RefuseBody, Faults, LocalFaults
    <3> QED
      BY <2>1, <3>1 DEF RefuseBody, managerVars, clientVars
  <2>2. CASE FailBuild(r)
    <3> DEFINE f == BuildFault(BuildOptions(body[r]))
    <3>1. /\ f \in Faults
          /\ f # "ObjectDisposed"
          /\ Classify(f) \in {400, 500}
      BY <2>2, BuildFaults, BuildFaultStatus DEF FailBuild
    <3> QED
      BY <2>2, <3>1 DEF FailBuild, managerVars, clientVars
  <2>3. CASE SwapRefused(r)
    <3>1. /\ "ObjectDisposed" \in Faults
          /\ Finish(r, 400, "ObjectDisposed", None)
      BY <2>3 DEF SwapRefused, Faults, LocalFaults, Classify, EngineFaults
    <3> QED
      BY <2>3, <3>1 DEF SwapRefused, managerVars, clientVars
  <2> QED
    BY <2>1, <2>2, <2>3
<1>2. /\ pc' = [pc EXCEPT ![r] = "done"]
      /\ reply' = [reply EXCEPT ![r] =
                      [status |-> status, fault |-> fault, conn |-> None]]
      /\ reply'[r] \in Replies
  BY <1>1, FinishFrame DEF Statuses
<1>3. Quiet(r) /\ pc'[r] = "done"
  BY <1>1, <1>2 DEF Quiet, TypeOK
<1>4. Carries(r)
  BY <1>1, <1>3 DEF Carries, WindowInv, CallsMoveForward, InOrderOfReading
<1>5. Honest(r)
  <2>1. /\ reply'[r].status = status
        /\ reply'[r].fault = fault
        /\ reply'[r].conn = None
    BY <1>2 DEF TypeOK
  <2> QED
    BY <1>1, <1>2, <2>1, ManagerAssumption DEF Honest, HandlerInv
<1> QED
  BY <1>1, <1>3, <1>4, <1>5, QuietStep DEF Late

LEMMA CallStep ==
    ASSUME Inductive, TypeOK', NEW r \in Requests,
           \/ ReadCurrent(r) \/ RefuseArguments(r) \/ GetClient(r)
           \/ Send(r) \/ Answer(r) \/ CallFails(r)
    PROVE  Inductive'
<1> USE DEF Inductive
<1>0. /\ EngineFaults \cup TransportFaults \subseteq Faults
      /\ "ObjectDisposed" \in Faults \ (EngineFaults \cup TransportFaults)
      /\ "Argument" \in Faults
      /\ 200 \in Statuses
      /\ None # "ObjectDisposed"
  BY ManagerAssumption
     DEF Faults, LocalFaults, EngineFaults, TransportFaults, Statuses
<1>1. CASE ReadCurrent(r)
  <2>1. /\ client \in window[r]
        /\ current = info[client]
        /\ seen' = [seen EXCEPT ![r] = current]
        /\ UNCHANGED <<client, current, closed, info, disposals, op, body,
                       replaced, asked, window, turn>>
    BY <1>1 DEF ReadCurrent, ManagerInv, WindowInv, Running, managerVars, clientVars
  <2>2. InOrderOfReading(r, client)'
    \* An update has asked nobody yet; whoever others asked is not newer.
    <3>1. op[r] = "update" => asked[r] = <<>>
      BY <1>1 DEF ReadCurrent, HandlerInv
    <3>2. \A i \in DOMAIN asked[r] : turn[asked[r][i]] <= turn[client]
      BY WindowOlder DEF WindowInv
    <3> QED
      BY <2>1, <3>1, <3>2 DEF InOrderOfReading
  <2>3. CASE op[r] = "update"
    <3>1. pc' = [pc EXCEPT ![r] = "getClient"] /\ reply' = reply
      BY <1>1, <2>3 DEF ReadCurrent, Goto
    <3>2. Quiet(r) /\ pc'[r] = "getClient"
      BY <2>1, <3>1 DEF Quiet, TypeOK
    <3>3. replaced[r] # None /\ asked'[r] = asked[r]
      BY <1>1, <2>1, <2>3 DEF ReadCurrent, HandlerInv, Running
    <3>4. seen'[r] = info[client]
      BY <2>1 DEF TypeOK
    <3>5. Carries(r)
      BY <2>1, <2>2, <2>3, <3>2, <3>3, <3>4 DEF Carries, WindowInv, CallsMoveForward
    <3> QED
      BY <1>1, <3>2, <3>5, QuietStep DEF ReadCurrent, Late
  <2>4. CASE op[r] # "update"
    <3>1. Finish(r, 200, None, current) /\ current \in Infos
      BY <1>1, <2>4 DEF ReadCurrent, TypeOK
    <3>2. /\ pc' = [pc EXCEPT ![r] = "done"]
          /\ reply' = [reply EXCEPT ![r] = [status |-> 200, fault |-> None, conn |-> current]]
          /\ reply'[r] \in Replies
      BY <3>1, <1>0, FinishFrame
    <3>3. Quiet(r) /\ pc'[r] = "done"
      BY <2>1, <3>2 DEF Quiet, TypeOK
    <3>4. Carries(r)
      BY <2>1, <2>2, <2>4, <3>3 DEF Carries, WindowInv, CallsMoveForward, TypeOK
    <3>5. Honest(r)
      BY <2>1, <2>2, <2>4, <3>2, <1>0 DEF Honest, TypeOK
    <3> QED
      BY <1>1, <3>3, <3>4, <3>5, QuietStep DEF ReadCurrent, Late
  <2> QED
    BY <2>3, <2>4
<1>2. CASE RefuseArguments(r)
  BY <1>2, <1>0, ThrowStep DEF RefuseArguments
<1>3. CASE GetClient(r)
  <2>1. CASE closed
    BY <1>3, <2>1, <1>0, ThrowStep DEF GetClient
  <2>2. CASE ~closed
    <3>1. /\ asked' = [asked EXCEPT ![r] = Append(asked[r], client)]
          /\ pc' = [pc EXCEPT ![r] = "send"]
          /\ UNCHANGED <<client, current, closed, info, disposals, op, body,
                         replaced, seen, reply, window, turn>>
          /\ pc[r] = "getClient"
      BY <1>3, <2>2 DEF GetClient, Goto, managerVars, clientVars
    <3>2. Quiet(r) /\ pc'[r] = "send" /\ asked'[r] = Append(asked[r], client)
      BY <3>1 DEF Quiet, TypeOK
    <3>3. /\ asked[r] \in Seq(Clients) /\ client \in Clients /\ client \in window[r]
          /\ window[r] \subseteq Clients
          /\ \A i \in DOMAIN asked[r] : asked[r][i] \in window[r]
          /\ \A c \in window[r] : turn[c] <= turn[client]
          /\ \A c \in window[r] : c # client => turn[c] < turn[client]
      BY <3>1, WindowOlder DEF WindowInv, TurnInv, Running, TypeOK
    <3>4. /\ DOMAIN asked'[r] = DOMAIN asked[r] \cup {Len(asked[r]) + 1}
          /\ \A i \in DOMAIN asked[r] : i < Len(asked[r]) + 1 /\ asked'[r][i] = asked[r][i]
          /\ asked'[r][Len(asked[r]) + 1] = client
          /\ asked'[r] # <<>>
      BY <3>2, <3>3
    <3>5. \A i \in DOMAIN asked'[r] : asked'[r][i] \in window[r]
      BY <3>3, <3>4
    <3>6. ASSUME NEW i \in DOMAIN asked'[r], NEW j \in DOMAIN asked'[r],
                 i < j, asked'[r][i] # asked'[r][j]
          PROVE  turn[asked'[r][i]] < turn[asked'[r][j]]
      <4>1. i \in DOMAIN asked[r]
        BY <3>3, <3>4, <3>6
      <4>2. CASE j \in DOMAIN asked[r]
        BY <3>4, <3>6, <4>1, <4>2 DEF CallsMoveForward
      <4>3. CASE j = Len(asked[r]) + 1
        BY <3>3, <3>4, <3>6, <4>1, <4>3
      <4> QED
        BY <3>4, <4>2, <4>3
    <3>7. ASSUME seen'[r] # None
          PROVE  \E c \in window[r] : seen'[r] = info[c] /\ InOrderOfReading(r, c)'
      <4>1. op[r] = "update"
        BY <3>1, <3>7 DEF HandlerInv, Running
      <4>2. PICK c \in window[r] : seen[r] = info[c] /\ InOrderOfReading(r, c)
        BY <3>1, <3>7 DEF WindowInv
      <4>3. InOrderOfReading(r, c)'
        BY <3>1, <3>3, <3>4, <4>1, <4>2 DEF InOrderOfReading
      <4> QED
        BY <3>1, <4>2, <4>3
    <3>8. Carries(r)
      BY <3>1, <3>2, <3>4, <3>5, <3>6, <3>7 DEF Carries, HandlerInv, Running
    <3> QED
      BY <3>1, <3>2, <3>8, QuietStep DEF Late
  <2> QED
    BY <2>1, <2>2
<1>4. CASE Send(r)
  <2>1. CASE disposals[InHand(r)] > 0
    \* The client in hand was active once and is now replaced, or closed.
    <3>1. /\ InHand(r) \in window[r]
          /\ client \in window[r]
      <4>1. asked[r] \in Seq(Clients) /\ asked[r] # <<>>
        BY <1>4 DEF Send, HandlerInv, TypeOK
      <4>2. Len(asked[r]) \in DOMAIN asked[r]
        BY <4>1
      <4> QED
        BY <1>4, <4>2 DEF Send, InHand, WindowInv, Running
    <3>2. closed \/ InHand(r) # client
      BY <2>1 DEF ManagerInv
    <3> QED
      BY <1>4, <2>1, <1>0, <3>1, <3>2, ThrowStep DEF Send
  <2>2. CASE ~(disposals[InHand(r)] > 0)
    <3>1. /\ pc' = [pc EXCEPT ![r] = "await"]
          /\ UNCHANGED <<client, current, closed, info, disposals, op, body,
                         replaced, asked, seen, reply, window, turn>>
          /\ pc[r] = "send"
      BY <1>4, <2>2 DEF Send, Goto, managerVars, clientVars
    <3>2. Quiet(r) /\ pc'[r] = "await"
      BY <3>1 DEF Quiet, TypeOK
    <3>3. Carries(r)
      BY <3>1, <3>2
         DEF Carries, WindowInv, CallsMoveForward, HandlerInv, Running, InOrderOfReading
    <3> QED
      BY <3>1, <3>2, <3>3, QuietStep DEF Late
  <2> QED
    BY <2>1, <2>2
<1>5. CASE Answer(r)
  <2>1. /\ UNCHANGED <<client, current, closed, info, disposals, op, body,
                       replaced, asked, seen, window, turn>>
        /\ pc[r] = "await"
    BY <1>5 DEF Answer, managerVars, clientVars
  <2>2. CASE Finish(r, 200, None, seen[r])
    <3>1. seen[r] \in Infos \cup {None}
      BY DEF TypeOK
    <3>2. /\ pc' = [pc EXCEPT ![r] = "done"]
          /\ reply' = [reply EXCEPT ![r] = [status |-> 200, fault |-> None, conn |-> seen[r]]]
          /\ reply'[r] \in Replies
      BY <2>2, <3>1, <1>0, FinishFrame
    <3>3. Quiet(r) /\ pc'[r] = "done"
      BY <2>1, <3>2 DEF Quiet, TypeOK
    <3>4. Carries(r)
      BY <2>1, <3>3 DEF Carries, WindowInv, CallsMoveForward, InOrderOfReading
    <3>5. /\ reply'[r].status = 200
          /\ reply'[r].fault = None
          /\ reply'[r].conn = seen[r]
      BY <3>2 DEF TypeOK
    <3>6. Honest(r)
      BY <2>1, <3>2, <3>5, <1>0
         DEF Honest, WindowInv, HandlerInv, Running, InOrderOfReading
    <3> QED
      BY <2>1, <3>3, <3>4, <3>6, QuietStep DEF Late
  <2>3. CASE ~Finish(r, 200, None, seen[r])
    <3>1. /\ \/ Goto(r, "getClient")
             \/ op[r] = "ping" /\ Goto(r, "readCurrent")
          /\ UNCHANGED reply
      BY <1>5, <2>3 DEF Answer
    <3>2. /\ Quiet(r)
          /\ pc'[r] \in {"getClient", "readCurrent"}
          /\ pc'[r] = "readCurrent" => op[r] # "update"
      BY <2>1, <3>1 DEF Quiet, Goto, TypeOK
    <3>3. Carries(r)
      BY <2>1, <3>2
         DEF Carries, WindowInv, CallsMoveForward, HandlerInv, Running, InOrderOfReading
    <3> QED
      BY <2>1, <3>2, <3>3, QuietStep DEF Late
  <2> QED
    BY <2>2, <2>3
<1>6. CASE CallFails(r)
  BY <1>6, <1>0, ThrowStep DEF CallFails
<1> QED
  BY <1>1, <1>2, <1>3, <1>4, <1>5, <1>6

-----------------------------------------------------------------------------
(* Steps that several requests can see.                                    *)

LEMMA ArriveStep ==
    ASSUME Inductive, TypeOK', NEW r \in Requests, Arrive(r)
    PROVE  Inductive'
<1> USE DEF Inductive
<1>1. /\ pc[r] = "idle"
      /\ UNCHANGED <<client, current, closed, info, disposals, replaced, asked,
                     seen, reply, turn>>
      /\ window' = [window EXCEPT ![r] = {client}]
  BY DEF Arrive, managerVars, clientVars
<1>2. PICK operation \in Workload :
          /\ op' = [op EXCEPT ![r] = operation]
          /\ pc' = [pc EXCEPT ![r] = FirstSite(operation)]
          /\ \E b \in IF operation = "update" THEN TriedBodies ELSE {None} :
                body' = [body EXCEPT ![r] = b]
  BY DEF Arrive, Goto
<1>3. /\ op'[r] = operation
      /\ operation \in Operations
      /\ pc'[r] = FirstSite(operation)
      /\ pc'[r] \in {"configure", "readCurrent", "getClient"}
      /\ pc'[r] = "configure" <=> operation = "update"
      /\ operation = "update" => body'[r] \in Bodies
      /\ \A q \in Requests : q # r => /\ op'[q] = op[q]
                                      /\ pc'[q] = pc[q]
                                      /\ body'[q] = body[q]
  BY <1>2, ManagerAssumption DEF TypeOK, FirstSite
<1>4. /\ window'[r] = {client}
      /\ \A q \in Requests : q # r => window'[q] = window[q]
  BY <1>1 DEF TypeOK
<1>5. ManagerInv' /\ DisposalInv'
  BY <1>1 DEF ManagerInv, DisposalInv, Built
<1>6. FreshInv'
  BY <1>1, <1>3, <1>4 DEF FreshInv, Built
<1>7. RetireInv'
  BY <1>1, <1>3 DEF RetireInv, Built
<1>8. HandlerInv'
  BY <1>1, <1>2, <1>3 DEF HandlerInv, Running, Answered
<1>9. WindowInv'
  <2>1. Built(client)
    BY ManagerAssumption DEF ManagerInv, Built, TypeOK
  <2> SUFFICES ASSUME NEW q \in Requests PROVE WindowInv!(q)'
    BY DEF WindowInv
  <2>2. CASE q = r
    BY <1>1, <1>3, <1>4, <2>1, <2>2 DEF WindowInv, Running, Built, HandlerInv
  <2>3. CASE q # r
    BY <1>1, <1>3, <1>4, <2>3 DEF WindowInv, Running, Built, InOrderOfReading
  <2> QED
    BY <2>2, <2>3
<1>10. TurnInv' /\ CallsMoveForward'
  BY <1>1, <1>4 DEF TurnInv, CallsMoveForward
<1>11. NoClientLeaked'
  BY <1>1, <1>3 DEF NoClientLeaked, Built, Answered, Switched
<1>12. DisposedOnlyBySwitch'
  BY <1>1, <1>3, <1>4 DEF DisposedOnlyBySwitch, Answered
<1>13. ReportsAnActiveConnection'
  BY <1>1, <1>3, <1>4 DEF ReportsAnActiveConnection, Answered, InOrderOfReading
<1>14. UpdateStatusTellsSwitch'
  BY <1>1, <1>3 DEF UpdateStatusTellsSwitch, Switched, Answered
<1> QED
  BY <1>5, <1>6, <1>7, <1>8, <1>9, <1>10, <1>11, <1>12, <1>13, <1>14

LEMMA BuildStep ==
    ASSUME Inductive, TypeOK', NEW r \in Requests, BuildClient(r)
    PROVE  Inductive'
<1> USE DEF Inductive
<1>1. /\ pc[r] = "configure" /\ op[r] = "update"
      /\ ~Built(r)
      /\ client # r
      /\ \A q \in Requests : r \notin window[q] /\ replaced[q] # r
      /\ UNCHANGED <<client, current, closed, disposals, op, body, replaced,
                     asked, seen, reply, window, turn>>
  BY DEF BuildClient, FreshInv, HandlerInv, managerVars
<1>2. /\ pc' = [pc EXCEPT ![r] = "swap"]
      /\ info' = [info EXCEPT ![r] = InfoOf(BuildOptions(body[r]))]
      /\ InfoOf(BuildOptions(body[r])) \in Infos
      /\ InfoOf(BuildOptions(body[r])) # None
  BY BuildOptionsType, InfoType, ManagerAssumption
     DEF BuildClient, Goto, HandlerInv
<1>3. /\ pc'[r] = "swap"
      /\ \A q \in Requests : q # r => pc'[q] = pc[q]
      /\ Built(r)'
      /\ \A c \in Clients : c # r => info'[c] = info[c]
  BY <1>2 DEF TypeOK, Built, Clients
<1>4. ManagerInv' /\ DisposalInv'
  BY <1>1, <1>3 DEF ManagerInv, DisposalInv, Built, TypeOK
<1>5. FreshInv'
  BY <1>1, <1>3 DEF FreshInv, Built, Clients
<1>6. RetireInv'
  BY <1>1, <1>3 DEF RetireInv, Built
<1>7. HandlerInv'
  BY <1>1, <1>3 DEF HandlerInv, Running, Answered
<1>8. WindowInv'
  <2> SUFFICES ASSUME NEW q \in Requests PROVE WindowInv!(q)'
    BY DEF WindowInv
  <2>1. \A c \in window[q] : c \in Clients /\ c # r /\ info'[c] = info[c]
    BY <1>1, <1>3 DEF TypeOK
  <2> QED
    BY <1>1, <1>3, <2>1 DEF WindowInv, Running, Built, InOrderOfReading
<1>9. TurnInv' /\ CallsMoveForward'
  BY <1>1 DEF TurnInv, CallsMoveForward
<1>10. NoClientLeaked'
  BY <1>1, <1>3 DEF NoClientLeaked, Built, Answered, Switched
<1>11. DisposedOnlyBySwitch'
  BY <1>1, <1>3 DEF DisposedOnlyBySwitch, Answered
<1>12. ReportsAnActiveConnection'
  <2> SUFFICES ASSUME NEW q \in Requests, Answered(q)', reply'[q].conn # None
               PROVE  \E c \in window'[q] : reply'[q].conn = info'[c] /\ InOrderOfReading(q, c)'
    BY DEF ReportsAnActiveConnection
  <2>1. \A c \in window[q] : c \in Clients /\ c # r /\ info'[c] = info[c]
    BY <1>1, <1>3 DEF TypeOK
  <2> QED
    BY <1>1, <1>3, <2>1 DEF ReportsAnActiveConnection, Answered, InOrderOfReading
<1>13. UpdateStatusTellsSwitch'
  BY <1>1, <1>3 DEF UpdateStatusTellsSwitch, Switched, Answered
<1> QED
  BY <1>4, <1>5, <1>6, <1>7, <1>8, <1>9, <1>10, <1>11, <1>12, <1>13

LEMMA SwapStep ==
    ASSUME Inductive, TypeOK', NEW r \in Requests, Swap(r)
    PROVE  Inductive'
<1> USE DEF Inductive
<1>1. /\ pc[r] = "swap" /\ ~closed
      /\ op[r] = "update" /\ asked[r] = <<>> /\ seen[r] = None
      /\ Built(r) /\ disposals[r] = 0 /\ client # r
      /\ \A q \in Requests : r \notin window[q] /\ replaced[q] # r
  BY DEF Swap, FreshInv, HandlerInv
<1>2. /\ client' = r /\ current' = info[r]
      /\ UNCHANGED <<closed, info, disposals, op, body, asked, seen, reply>>
      /\ replaced' = [replaced EXCEPT ![r] = client]
      /\ pc' = [pc EXCEPT ![r] = "retire"]
      /\ window' = Witness(r)
      /\ turn' = [turn EXCEPT ![r] = turn[client] + 1]
  BY DEF Swap, Goto, clientVars
<1>3. /\ pc'[r] = "retire" /\ replaced'[r] = client /\ window'[r] = {r}
      /\ \A q \in Requests : q # r =>
            /\ pc'[q] = pc[q]
            /\ replaced'[q] = replaced[q]
            /\ window'[q] = IF Running(q) THEN window[q] \cup {r} ELSE window[q]
  BY <1>2 DEF TypeOK, Witness
<1>4. /\ Built(client) /\ disposals[client] = 0
      /\ client \in Clients /\ r \in Clients
  BY <1>1, ManagerAssumption DEF ManagerInv, Built, TypeOK, Clients
<1>5. ManagerInv' /\ DisposalInv'
  BY <1>1, <1>2 DEF ManagerInv, DisposalInv, Built
<1>6. FreshInv'
  <2> SUFFICES ASSUME NEW q \in Requests PROVE FreshInv!(q)'
    BY DEF FreshInv
  <2>1. CASE q = r
    BY <1>3, <2>1
  <2>2. CASE q # r
    <3>1. pc[q] \in {"idle", "configure", "swap"} =>
            /\ client # q /\ disposals[q] = 0
            /\ \A p \in Requests : replaced'[p] # q /\ q \notin window'[p]
      <4> SUFFICES ASSUME pc[q] \in {"idle", "configure", "swap"}, NEW p \in Requests
                   PROVE  /\ client # q /\ disposals[q] = 0
                          /\ replaced'[p] # q /\ q \notin window'[p]
        OBVIOUS
      <4>1. /\ client # q /\ disposals[q] = 0
            /\ replaced[p] # q /\ q \notin window[p]
        BY DEF FreshInv
      <4>2. CASE p = r
        BY <1>3, <2>2, <4>1, <4>2
      <4>3. CASE p # r
        BY <1>3, <2>2, <4>1, <4>3
      <4> QED
        BY <4>1, <4>2, <4>3
    <3>2. /\ pc[q] \in {"idle", "configure"} => ~Built(q)
          /\ pc[q] = "swap" => Built(q)
      BY DEF FreshInv
    <3> QED
      BY <1>2, <1>3, <2>2, <3>1, <3>2 DEF Built
  <2> QED
    BY <2>1, <2>2
<1>7. RetireInv'
  BY <1>1, <1>2, <1>3, <1>4 DEF RetireInv, Built
<1>8. HandlerInv'
  BY <1>1, <1>2, <1>3, <1>4, ManagerAssumption
     DEF HandlerInv, Running, Answered, Clients
\* The new client is the newest, and nobody has read it yet.
<1>9. /\ turn'[r] = turn[client] + 1
      /\ \A c \in Clients : c # r => turn'[c] = turn[c]
      /\ \A q \in Requests : \A c \in window[q] : /\ c \in Clients /\ c # r
                                                   /\ turn[c] < turn'[r]
  <2>1. turn \in [Clients -> Nat] /\ turn[client] \in Nat
    BY <1>4 DEF TypeOK
  <2>2. /\ turn'[r] = turn[client] + 1
        /\ \A c \in Clients : c # r => turn'[c] = turn[c]
    BY <1>2, <1>4, <2>1
  <2>3. \A q \in Requests : \A c \in window[q] : c \in Clients /\ c # r
    BY <1>1 DEF TypeOK
  <2>4. \A q \in Requests : \A c \in window[q] : turn[c] < turn'[r]
    BY <2>1, <2>2, WindowOlder
  <2> QED
    BY <2>2, <2>3, <2>4
<1>10. ASSUME NEW q \in Requests, NEW c \in window[q], InOrderOfReading(q, c)
       PROVE  InOrderOfReading(q, c)'
  <2>1. \A i \in DOMAIN asked[q] : turn'[asked[q][i]] = turn[asked[q][i]]
    BY <1>9 DEF WindowInv
  <2>2. turn'[c] = turn[c]
    BY <1>9
  <2> QED
    BY <1>2, <1>10, <2>1, <2>2 DEF InOrderOfReading
<1>11. WindowInv'
  <2> SUFFICES ASSUME NEW q \in Requests PROVE WindowInv!(q)'
    BY DEF WindowInv
  <2>1. CASE q = r
    BY <1>1, <1>2, <1>3, <2>1 DEF Built
  <2>2. CASE q # r
    <3>1. /\ Running(q)' => client' \in window'[q]
          /\ \A c \in window'[q] : Built(c)'
          /\ \A i \in DOMAIN asked'[q] : asked'[q][i] \in window'[q]
      BY <1>1, <1>2, <1>3, <2>2 DEF WindowInv, Running, Built
    <3>2. ASSUME seen'[q] # None
          PROVE  \E c \in window'[q] : seen'[q] = info'[c] /\ InOrderOfReading(q, c)'
      <4>1. PICK c \in window[q] : seen[q] = info[c] /\ InOrderOfReading(q, c)
        BY <1>2, <3>2 DEF WindowInv
      <4> QED
        BY <1>2, <1>3, <1>10, <2>2, <4>1
    <3> QED
      BY <3>1, <3>2
  <2> QED
    BY <2>1, <2>2
<1>12. TurnInv'
  <2> SUFFICES ASSUME NEW q \in Requests, NEW c \in window'[q], c # client'
               PROVE  turn'[c] < turn'[client']
    BY DEF TurnInv
  <2>1. q # r
    BY <1>2, <1>3
  <2>2. c \in window[q]
    BY <1>2, <1>3, <2>1
  <2> QED
    BY <1>2, <1>9, <2>2
<1>13. CallsMoveForward'
  <2> SUFFICES ASSUME NEW q \in Requests, NEW i \in DOMAIN asked[q], NEW j \in DOMAIN asked[q],
                      i < j, asked[q][i] # asked[q][j]
               PROVE  turn'[asked[q][i]] < turn'[asked[q][j]]
    BY <1>2 DEF CallsMoveForward
  <2>1. /\ turn'[asked[q][i]] = turn[asked[q][i]]
        /\ turn'[asked[q][j]] = turn[asked[q][j]]
    BY <1>9 DEF WindowInv
  <2> QED
    BY <2>1 DEF CallsMoveForward
<1>14. NoClientLeaked'
  BY <1>1, <1>2, <1>3, <1>4 DEF NoClientLeaked, Built
<1>15. DisposedOnlyBySwitch'
  BY <1>2, <1>3 DEF DisposedOnlyBySwitch, Answered, Running
<1>16. ReportsAnActiveConnection'
  <2> SUFFICES ASSUME NEW q \in Requests, Answered(q)', reply'[q].conn # None
               PROVE  \E c \in window'[q] : reply'[q].conn = info'[c] /\ InOrderOfReading(q, c)'
    BY DEF ReportsAnActiveConnection
  <2>1. q # r /\ Answered(q) /\ reply[q].conn # None
    BY <1>2, <1>3 DEF Answered
  <2>2. PICK c \in window[q] : reply[q].conn = info[c] /\ InOrderOfReading(q, c)
    BY <2>1 DEF ReportsAnActiveConnection
  <2> QED
    BY <1>2, <1>3, <1>10, <2>1, <2>2
<1>17. UpdateStatusTellsSwitch'
  BY <1>2, <1>3 DEF UpdateStatusTellsSwitch, Switched, Answered
<1> QED
  BY <1>5, <1>6, <1>7, <1>8, <1>11, <1>12, <1>13, <1>14, <1>15, <1>16, <1>17

LEMMA RetireStep ==
    ASSUME Inductive, TypeOK', NEW r \in Requests, Retire(r)
    PROVE  Inductive'
<1> USE DEF Inductive
<1>1. /\ pc[r] = "retire" /\ op[r] = "update" /\ replaced[r] # None
      /\ replaced[r] \in Clients /\ Built(replaced[r])
      /\ replaced[r] # client /\ disposals[replaced[r]] = 0
      /\ \A q \in Requests : pc[q] = "retire" /\ q # r => replaced[q] # replaced[r]
  BY DEF Retire, RetireInv, HandlerInv, Running
<1>2. /\ UNCHANGED <<client, current, closed, info, op, body, replaced, asked,
                     seen, reply, window, turn>>
      /\ pc' = [pc EXCEPT ![r] = "readCurrent"]
      /\ disposals' = [disposals EXCEPT ![replaced[r]] = 1]
  BY <1>1 DEF Retire, Goto, managerVars, TypeOK
<1>3. /\ pc'[r] = "readCurrent"
      /\ \A q \in Requests : q # r => pc'[q] = pc[q]
      /\ disposals'[replaced[r]] = 1
      /\ \A c \in Clients : c # replaced[r] => disposals'[c] = disposals[c]
  BY <1>1, <1>2 DEF TypeOK
<1>4. ManagerInv' /\ DisposalInv'
  BY <1>1, <1>2, <1>3 DEF ManagerInv, DisposalInv, Built, TypeOK
<1>5. FreshInv'
  BY <1>1, <1>2, <1>3 DEF FreshInv, Built, Clients
<1>6. RetireInv'
  BY <1>1, <1>2, <1>3 DEF RetireInv, Built
<1>7. HandlerInv'
  BY <1>1, <1>2, <1>3 DEF HandlerInv, Running, Answered
<1>8. WindowInv' /\ TurnInv' /\ CallsMoveForward'
  BY <1>1, <1>2, <1>3
     DEF WindowInv, TurnInv, CallsMoveForward, Running, Built, InOrderOfReading
<1>9. NoClientLeaked'
  BY <1>1, <1>2, <1>3 DEF NoClientLeaked, Built, Answered, Switched
<1>10. DisposedOnlyBySwitch'
  BY <1>2, <1>3 DEF DisposedOnlyBySwitch, Answered
<1>11. ReportsAnActiveConnection'
  BY <1>2, <1>3 DEF ReportsAnActiveConnection, Answered, InOrderOfReading
<1>12. UpdateStatusTellsSwitch'
  BY <1>2, <1>3 DEF UpdateStatusTellsSwitch, Switched, Answered
<1> QED
  BY <1>4, <1>5, <1>6, <1>7, <1>8, <1>9, <1>10, <1>11, <1>12

LEMMA DisposeStep ==
    ASSUME Inductive, TypeOK', Dispose
    PROVE  Inductive'
<1> USE DEF Inductive
<1>1. /\ ~closed /\ closed' = TRUE
      /\ UNCHANGED <<client, current, info, pc, op, body, replaced, asked,
                     seen, reply, window, turn>>
      /\ disposals[client] = 0
      /\ client \in Clients /\ Built(client)
  BY ManagerAssumption DEF Dispose, ManagerInv, TypeOK, Built
<1>2. /\ disposals'[client] = 1
      /\ \A c \in Clients : c # client => disposals'[c] = disposals[c]
  BY <1>1 DEF Dispose, TypeOK
<1>3. ManagerInv' /\ DisposalInv'
  BY <1>1, <1>2 DEF ManagerInv, DisposalInv, Built
<1>4. FreshInv'
  BY <1>1, <1>2 DEF FreshInv, Built, Clients
<1>5. RetireInv'
  BY <1>1, <1>2 DEF RetireInv, Built
<1>6. HandlerInv' /\ WindowInv' /\ TurnInv' /\ CallsMoveForward'
  BY <1>1 DEF HandlerInv, WindowInv, TurnInv, CallsMoveForward, Running, Answered,
              Built, InOrderOfReading
<1>7. NoClientLeaked'
  BY <1>1, <1>2 DEF NoClientLeaked, Built, Answered, Switched
<1>8. DisposedOnlyBySwitch'
  BY <1>1 DEF DisposedOnlyBySwitch
<1>9. ReportsAnActiveConnection' /\ UpdateStatusTellsSwitch'
  BY <1>1 DEF ReportsAnActiveConnection, UpdateStatusTellsSwitch, Switched, Answered,
              InOrderOfReading
<1> QED
  BY <1>3, <1>4, <1>5, <1>6, <1>7, <1>8, <1>9

-----------------------------------------------------------------------------
(* The theorems.                                                           *)

\* Every step of the program preserves the invariant.
LEMMA NextInductive == Inductive /\ [Next]_vars => Inductive'
<1> SUFFICES ASSUME Inductive, [Next]_vars PROVE Inductive'
  OBVIOUS
<1>1. ASSUME NEW r \in Requests, Arrive(r) PROVE Inductive'
  BY <1>1, ArriveType, ArriveStep
<1>2. ASSUME NEW r \in Requests, Handle(r) PROVE Inductive'
  <2>1. CASE RefuseBody(r) \/ FailBuild(r) \/ SwapRefused(r)
    <3>1. TypeOK'
      BY <2>1, UpdateType
    <3> QED
      BY <2>1, <3>1, RefusalStep
  <2>2. CASE BuildClient(r)
    BY <2>2, UpdateType, BuildStep
  <2>3. CASE Swap(r)
    BY <2>3, UpdateType, SwapStep
  <2>4. CASE Retire(r)
    BY <2>4, UpdateType, RetireStep
  <2>5. CASE \/ ReadCurrent(r) \/ RefuseArguments(r) \/ GetClient(r)
             \/ Send(r) \/ Answer(r) \/ CallFails(r)
    <3>1. TypeOK'
      BY <2>5, CallType
    <3> QED
      BY <2>5, <3>1, CallStep
  <2> QED
    BY <1>2, <2>1, <2>2, <2>3, <2>4, <2>5 DEF Handle
<1>3. CASE Dispose
  BY <1>3, DisposeType, DisposeStep
<1>4. CASE UNCHANGED vars
  BY <1>4 DEF vars, managerVars, clientVars, Inductive, TypeOK, ManagerInv,
              DisposalInv, FreshInv, RetireInv, HandlerInv, WindowInv, TurnInv,
              CallsMoveForward, InOrderOfReading, NoClientLeaked, DisposedOnlyBySwitch, ReportsAnActiveConnection,
              UpdateStatusTellsSwitch, Built, Answered, Switched, Running
<1> QED
  BY <1>1, <1>2, <1>3, <1>4 DEF Next

\* The invariant holds in every reachable state, whatever the number of
\* concurrent requests.
THEOREM Invariance == Spec => []Inductive
<1>1. Init => Inductive
  BY InitInductive
<1>2. Inductive /\ [Next]_vars => Inductive'
  BY NextInductive
<1> QED
  BY <1>1, <1>2, PTL DEF Spec

\* Every variable keeps its type.
THEOREM Typing == Spec => []TypeOK
<1>1. Inductive => TypeOK
  BY DEF Inductive
<1> QED
  BY <1>1, Invariance, PTL

\* The getter never hands out a disposed client while the manager is open, and
\* Current always describes the client it stands beside.
THEOREM ActiveUsable == Spec => []ActiveClientUsable
<1>1. Inductive => ActiveClientUsable
  BY DEF Inductive, ManagerInv, ActiveClientUsable
<1> QED
  BY <1>1, Invariance, PTL

\* Reconfigure and Dispose together dispose every client at most once.
THEOREM DisposedOnce == Spec => []NeverDisposedTwice
<1>1. Inductive => NeverDisposedTwice
  BY DEF Inductive, DisposalInv, NeverDisposedTwice
<1> QED
  BY <1>1, Invariance, PTL

\* Every live client is the active one, is owned by the update that will install
\* or dispose it, or is that of an update that the shut-down manager refused.
THEOREM NoLeak == Spec => []NoClientLeaked
<1>1. Inductive => NoClientLeaked
  BY DEF Inductive
<1> QED
  BY <1>1, Invariance, PTL

\* "Invalid operation" because of a disposed client is answered only to a
\* request that overlapped a switch or the shutdown.
THEOREM DisposedFaultExplained == Spec => []DisposedOnlyBySwitch
<1>1. Inductive => DisposedOnlyBySwitch
  BY DEF Inductive
<1> QED
  BY <1>1, Invariance, PTL

\* A reported connection was active while the request ran, and lies on the right
\* side of the client that was pinged.
THEOREM ReportsHonestly == Spec => []ReportsAnActiveConnection
<1>1. Inductive => ReportsAnActiveConnection
  BY DEF Inductive
<1> QED
  BY <1>1, Invariance, PTL

\* Docker calls go to clients that were active while the request ran.
THEOREM CallsAreCurrent == Spec => []CallsGoToActiveClients
<1>1. Inductive => CallsGoToActiveClients
  BY DEF Inductive, WindowInv, CallsGoToActiveClients
<1> QED
  BY <1>1, Invariance, PTL

\* The calls of one request never go back to an older client.
THEOREM CallsInOrder == Spec => []CallsMoveForward
<1>1. Inductive => CallsMoveForward
  BY DEF Inductive
<1> QED
  BY <1>1, Invariance, PTL

\* The status of an update tells whether the connection was switched.
THEOREM StatusTellsSwitch == Spec => []UpdateStatusTellsSwitch
<1>1. Inductive => UpdateStatusTellsSwitch
  BY DEF Inductive
<1> QED
  BY <1>1, Invariance, PTL

-----------------------------------------------------------------------------
(* The manager implements ActiveConnection.                                *)

\* A step that moves no client is a stutter of the abstract specification.
LEMMA Stutter ==
    ASSUME NEW r \in Requests, TypeOK,
           UNCHANGED <<client, closed, info, disposals, replaced>>,
           \A q \in Requests : q # r => pc'[q] = pc[q],
           pc[r] # "retire", pc'[r] # "retire"
    PROVE  UNCHANGED Promise!vars
<1>1. Undisposed' = Undisposed /\ Disposed' = Disposed
  BY DEF Undisposed, Disposed, Built
<1>2. Retiring' = Retiring
  BY DEF Retiring
<1> QED
  BY <1>1, <1>2 DEF Promise!vars

\* A finished handler is not about to dispose a client.
LEMMA FinishMoves ==
    ASSUME NEW r \in Requests, TypeOK, NEW status, NEW fault, NEW conn,
           Finish(r, status, fault, conn)
    PROVE  pc'[r] = "done" /\ \A q \in Requests : q # r => pc'[q] = pc[q]
BY DEF Finish, Goto, TypeOK

LEMMA ThrowMoves ==
    ASSUME NEW r \in Requests, TypeOK, NEW fault, Throw(r, fault)
    PROVE  pc'[r] = "done" /\ \A q \in Requests : q # r => pc'[q] = pc[q]
BY FinishMoves DEF Throw

\* Requests that only read, call and answer are stutters.
LEMMA ReadersStutter ==
    ASSUME Inductive, NEW r \in Requests,
           \/ Arrive(r) \/ RefuseBody(r) \/ FailBuild(r) \/ SwapRefused(r)
           \/ ReadCurrent(r) \/ RefuseArguments(r) \/ GetClient(r)
           \/ Send(r) \/ Answer(r) \/ CallFails(r)
    PROVE  UNCHANGED Promise!vars
<1>0. TypeOK
  BY DEF Inductive
<1>1. CASE Arrive(r)
  <2>1. PICK operation \in Workload : Goto(r, FirstSite(operation))
    BY <1>1 DEF Arrive
  <2>2. /\ pc'[r] # "retire"
        /\ \A q \in Requests : q # r => pc'[q] = pc[q]
    BY <1>0, <2>1 DEF Goto, FirstSite, TypeOK
  <2> QED
    BY <1>0, <1>1, <2>2, Stutter DEF Arrive, managerVars, clientVars
<1>2. CASE RefuseBody(r)
  BY <1>0, <1>2, FinishMoves, Stutter DEF RefuseBody, managerVars, clientVars
<1>3. CASE FailBuild(r)
  BY <1>0, <1>3, FinishMoves, Stutter DEF FailBuild, managerVars, clientVars
<1>4. CASE SwapRefused(r)
  BY <1>0, <1>4, FinishMoves, Stutter DEF SwapRefused, managerVars, clientVars
<1>5. CASE ReadCurrent(r)
  <2>1. /\ pc'[r] # "retire"
        /\ \A q \in Requests : q # r => pc'[q] = pc[q]
    BY <1>0, <1>5, FinishMoves DEF ReadCurrent, Goto, TypeOK
  <2> QED
    BY <1>0, <1>5, <2>1, Stutter DEF ReadCurrent, managerVars, clientVars
<1>6. CASE RefuseArguments(r)
  BY <1>0, <1>6, ThrowMoves, Stutter DEF RefuseArguments, managerVars, clientVars
<1>7. CASE GetClient(r)
  <2>1. /\ pc'[r] # "retire"
        /\ \A q \in Requests : q # r => pc'[q] = pc[q]
    BY <1>0, <1>7, ThrowMoves DEF GetClient, Goto, TypeOK
  <2> QED
    BY <1>0, <1>7, <2>1, Stutter DEF GetClient, managerVars, clientVars
<1>8. CASE Send(r)
  <2>1. /\ pc'[r] # "retire"
        /\ \A q \in Requests : q # r => pc'[q] = pc[q]
    BY <1>0, <1>8, ThrowMoves DEF Send, Goto, TypeOK
  <2> QED
    BY <1>0, <1>8, <2>1, Stutter DEF Send, managerVars, clientVars
<1>9. CASE Answer(r)
  <2>1. \/ Goto(r, "getClient") \/ Goto(r, "readCurrent")
        \/ Finish(r, 200, None, seen[r])
    BY <1>9 DEF Answer
  <2>2. /\ pc'[r] # "retire"
        /\ \A q \in Requests : q # r => pc'[q] = pc[q]
    BY <1>0, <2>1, FinishMoves DEF Goto, TypeOK
  <2> QED
    BY <1>0, <1>9, <2>2, Stutter DEF Answer, managerVars, clientVars
<1>10. CASE CallFails(r)
  BY <1>0, <1>10, ThrowMoves, Stutter DEF CallFails, managerVars, clientVars
<1> QED
  BY <1>1, <1>2, <1>3, <1>4, <1>5, <1>6, <1>7, <1>8, <1>9, <1>10

\* Building, swapping in, retiring and shutting down are the abstract steps.
LEMMA OwnersSimulate ==
    ASSUME Inductive,
           \/ \E r \in Requests : BuildClient(r) \/ Swap(r) \/ Retire(r)
           \/ Dispose
    PROVE  Promise!Next
<1> USE DEF Inductive
<1>1. ASSUME NEW r \in Requests, BuildClient(r) PROVE Promise!Create(r)
  <2>1. /\ pc[r] = "configure" /\ ~Built(r) /\ disposals[r] = 0 /\ r \in Clients
        /\ UNCHANGED <<client, closed, disposals, replaced>>
        /\ pc' = [pc EXCEPT ![r] = "swap"]
        /\ info' = [info EXCEPT ![r] = InfoOf(BuildOptions(body[r]))]
        /\ InfoOf(BuildOptions(body[r])) # None
    BY <1>1, BuildOptionsType, InfoType, ManagerAssumption
       DEF BuildClient, Goto, FreshInv, HandlerInv, Clients, managerVars
  <2>2. Undisposed' = Undisposed \cup {r} /\ Disposed' = Disposed
    BY <2>1 DEF Undisposed, Disposed, Built, TypeOK
  <2>3. Retiring' = Retiring
    BY <2>1 DEF Retiring, TypeOK
  <2> QED
    BY <2>1, <2>2, <2>3 DEF Promise!Create, Undisposed, Disposed
<1>2. ASSUME NEW r \in Requests, Swap(r) PROVE Promise!Activate(r)
  <2>1. /\ pc[r] = "swap" /\ ~closed /\ Built(r) /\ disposals[r] = 0
        /\ client # r /\ client \in Clients /\ r \in Clients
        /\ \A q \in Requests : replaced[q] # r
        /\ client' = r
        /\ UNCHANGED <<closed, info, disposals>>
        /\ pc' = [pc EXCEPT ![r] = "retire"]
        /\ replaced' = [replaced EXCEPT ![r] = client]
    BY <1>2 DEF Swap, Goto, FreshInv, Clients, clientVars, TypeOK
  <2>2. Undisposed' = Undisposed /\ Disposed' = Disposed
    BY <2>1 DEF Undisposed, Disposed, Built
  <2>3. Retiring' = Retiring \cup {client}
    BY <2>1 DEF Retiring, TypeOK
  <2> QED
    BY <2>1, <2>2, <2>3 DEF Promise!Activate, Undisposed, Retiring
<1>3. ASSUME NEW r \in Requests, Retire(r) PROVE Promise!Close(replaced[r])
  <2>1. /\ pc[r] = "retire" /\ replaced[r] \in Clients
        /\ Built(replaced[r]) /\ disposals[replaced[r]] = 0
        /\ \A q \in Requests : pc[q] = "retire" /\ q # r => replaced[q] # replaced[r]
        /\ UNCHANGED <<client, closed, info, replaced>>
        /\ pc' = [pc EXCEPT ![r] = "readCurrent"]
        /\ disposals' = [disposals EXCEPT ![replaced[r]] = disposals[replaced[r]] + 1]
    BY <1>3 DEF Retire, Goto, RetireInv, managerVars
  <2>2. /\ Undisposed' = Undisposed \ {replaced[r]}
        /\ Disposed' = Disposed \cup {replaced[r]}
    BY <2>1 DEF Undisposed, Disposed, Built, TypeOK
  <2>3. Retiring' = Retiring \ {replaced[r]}
    BY <2>1 DEF Retiring, TypeOK
  <2> QED
    BY <2>1, <2>2, <2>3 DEF Promise!Close, Retiring
<1>4. ASSUME Dispose PROVE Promise!Shut
  <2>1. /\ ~closed /\ closed' = TRUE
        /\ client \in Clients /\ disposals[client] = 0
        /\ UNCHANGED <<client, info, pc, replaced>>
        /\ disposals' = [disposals EXCEPT ![client] = disposals[client] + 1]
    BY <1>4 DEF Dispose, ManagerInv, TypeOK
  <2>2. /\ Undisposed' = Undisposed \ {client}
        /\ Disposed' = Disposed \cup {client}
    BY <2>1 DEF Undisposed, Disposed, Built, TypeOK
  <2>3. Retiring' = Retiring
    BY <2>1 DEF Retiring
  <2> QED
    BY <2>1, <2>2, <2>3 DEF Promise!Shut
<1>5. \A r \in Requests : r \in Clients /\ (Retire(r) => replaced[r] \in Clients)
  BY DEF Clients, Retire, RetireInv
<1> QED
  BY <1>1, <1>2, <1>3, <1>4, <1>5 DEF Promise!Next

\* The concurrent manager implements the abstract one: every step of the
\* program is an abstract step or a stutter, for any number of requests.
THEOREM ImplementsPromise == Spec => Promise!Safety
<1>1. Init => Promise!Init
  <2> SUFFICES ASSUME Init PROVE Promise!Init
    OBVIOUS
  <2>1. InfoOf(StartupOptions) # None
    BY ManagerAssumption, InfoType
  <2>2. Undisposed = {Startup}
    BY <2>1 DEF Init, Undisposed, Built, Clients
  <2>3. Retiring = {} /\ Disposed = {}
    BY DEF Init, Retiring, Disposed
  <2> QED
    BY <2>2, <2>3 DEF Init, Promise!Init
<1>2. Inductive /\ [Next]_vars => [Promise!Next]_(Promise!vars)
  <2> SUFFICES ASSUME Inductive, [Next]_vars
               PROVE  Promise!Next \/ UNCHANGED Promise!vars
    OBVIOUS
  <2>1. CASE UNCHANGED vars
    BY <2>1 DEF vars, Promise!vars, Undisposed, Retiring, Disposed, Built
  <2>2. CASE Next
    BY <2>2, ReadersStutter, OwnersSimulate DEF Next, Handle
  <2> QED
    BY <2>1, <2>2
<1> QED
  BY <1>1, <1>2, Invariance, PTL DEF Spec, Promise!Safety
=============================================================================
