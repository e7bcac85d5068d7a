------------------------ MODULE CreateContainerModal ------------------------
(***************************************************************************)
(* CreateContainerModal.tsx, the form that creates a container, and        *)
(* ContainerService.BuildCreateParameters, which reads what it sends.      *)
(***************************************************************************)
EXTENDS Mutations, TLC

CONSTANTS
    Ports,      \* texts of a number, tried as container ports
    HostPorts,  \* the same, tried as host ports
    NotAPort,   \* a text that Number() turns into NaN
    NumberOf,   \* the number that each text of a number stands for
    Ints,       \* the numbers among them that an int can hold
    Policies,   \* the restart policies tried
    MaxRows     \* bound: rows of ports, variables and volumes together

RESTART_POLICIES == {"no", "always", "unless-stopped", "on-failure"}

ASSUME FormAssumption ==
    /\ Policies \subseteq RESTART_POLICIES /\ "no" \in Policies
    /\ {NotAPort, Blank, None} \cap (Ports \cup HostPorts) = {} /\ NotAPort \notin {Blank, None}
    /\ Ports \cup HostPorts \subseteq DOMAIN NumberOf
    /\ \A text \in DOMAIN NumberOf : NumberOf[text] # None
    /\ None \notin Ints
    /\ MaxRows \in Nat

VARIABLES
    creating,   \* the form is open
    form        \* its fields

createVars == <<creating, form>>

NoPort == {NotAPort, Blank}

PortRow == [containerPort : Ports \cup NoPort, hostPort : HostPorts \cup NoPort,
            protocol : {"tcp", "udp"}]
VolumeRow == [source : Texts, target : Texts]

Form == [image : Texts, name : Texts, ports : Seq(PortRow), env : Seq(Texts),
         volumes : Seq(VolumeRow), policy : Policies, autoStart : BOOLEAN]

CreateTypeOK ==
    /\ creating \in BOOLEAN
    /\ form \in Form
    /\ Len(form.ports) + Len(form.env) + Len(form.volumes) <= MaxRows

EmptyForm ==
    [image |-> Blank, name |-> Blank, ports |-> <<>>, env |-> <<>>, volumes |-> <<>>,
     policy |-> "no", autoStart |-> TRUE]

CreateFresh ==
    /\ creating = FALSE
    /\ form = EmptyForm

-----------------------------------------------------------------------------
(***************************************************************************)
(* The request                                                             *)
(***************************************************************************)

\* JSON has no NaN: it is sent as null.
Number(text) == IF text \in NoPort THEN None ELSE NumberOf[text]

\* filter(): the rows that are not in `blanks`, in their order.
Without(rows, blanks) ==
    LET kept[n \in 0..Len(rows)] ==
          IF n = 0 THEN <<>>
          ELSE IF rows[n] \in blanks THEN kept[n - 1] ELSE Append(kept[n - 1], rows[n])
    IN  kept[Len(rows)]

BlankPorts == {row \in PortRow : row.containerPort = Blank}
BlankVolumes == {row \in VolumeRow : row.source = Blank \/ row.target = Blank}

MappedPorts(rows) ==
    LET filled == Without(rows, BlankPorts)
    IN  [i \in DOMAIN filled |->
            [containerPort |-> Number(filled[i].containerPort),
             hostPort      |-> Number(filled[i].hostPort),
             protocol      |-> filled[i].protocol]]

MappedVolumes(rows) == Without(rows, BlankVolumes)

MappedEnv(rows) == Without(rows, {Blank})

CreateRequest ==
    [hook      |-> "createContainer",
     image     |-> form.image,
     name      |-> OrUndefined(form.name),
     ports     |-> MappedPorts(form.ports),
     env       |-> MappedEnv(form.env),
     volumes   |-> MappedVolumes(form.volumes),
     policy    |-> form.policy,
     autoStart |-> form.autoStart]

-----------------------------------------------------------------------------
(***************************************************************************)
(* The server                                                              *)
(***************************************************************************)

\* PortMappingDto(int ContainerPort, int? HostPort, string? Protocol): a body
\* is refused for a port that is no int, and for a container port that is null.
Deserializes(request) ==
    \A i \in DOMAIN request.ports :
        /\ request.ports[i].containerPort \in Ints
        /\ request.ports[i].hostPort \in Ints \cup {None}

\* BuildCreateParameters.  A binding is keyed by port and protocol, so a later
\* row takes the place of an earlier one; a row without a host port binds
\* nothing and leaves an earlier binding alone.
Key(port) == <<port.containerPort, port.protocol>>

Bind(bindings, port) ==
    IF port.hostPort = None THEN bindings
    ELSE [key \in DOMAIN bindings \cup {Key(port)} |->
            IF key = Key(port) THEN port.hostPort ELSE bindings[key]]

Bindings(ports) ==
    LET bound[n \in 0..Len(ports)] ==
          IF n = 0 THEN <<>> ELSE Bind(bound[n - 1], ports[n])
    IN  bound[Len(ports)]

\* Mutant of BuildCreateParameters: a key that has a binding keeps it.
KeepFirstBinding(request) ==
    [exposed  |-> {Key(request.ports[i]) : i \in DOMAIN request.ports},
     bindings |-> FoldLeft(LAMBDA b, port : b @@ Bind(<<>>, port), <<>>, request.ports),
     env      |-> request.env,
     binds    |-> request.volumes,
     policy   |-> request.policy]

BuildCreateParameters(request) ==
    [exposed  |-> {Key(request.ports[i]) : i \in DOMAIN request.ports},
     bindings |-> Bindings(request.ports),
     env      |-> request.env,
     binds    |-> request.volumes,
     policy   |-> request.policy]

-----------------------------------------------------------------------------
(***************************************************************************)
(* The form                                                                *)
(***************************************************************************)

\* close(): a form that is closed forgets its fields.
Reset ==
    /\ creating' = FALSE
    /\ form' = EmptyForm

OpenCreate ==
    /\ creating' = TRUE
    /\ UNCHANGED form

CloseCreate == creating /\ Reset

Rows == Len(form.ports) + Len(form.env) + Len(form.volumes)

EditTexts ==
    \E text \in Texts :
        \/ form' = [form EXCEPT !.image = text]
        \/ form' = [form EXCEPT !.name = text]

EditStart ==
    \/ \E policy \in Policies : form' = [form EXCEPT !.policy = policy]
    \/ form' = [form EXCEPT !.autoStart = ~@]

emptyPort == [containerPort |-> Blank, hostPort |-> Blank, protocol |-> "tcp"]
emptyVolume == [source |-> Blank, target |-> Blank]

AddPort == Rows < MaxRows /\ form' = [form EXCEPT !.ports = Append(@, emptyPort)]
AddVariable == Rows < MaxRows /\ form' = [form EXCEPT !.env = Append(@, Blank)]
AddBind == Rows < MaxRows /\ form' = [form EXCEPT !.volumes = Append(@, emptyVolume)]

EditPort ==
    \E i \in DOMAIN form.ports :
        \/ \E text \in Ports \cup NoPort : form' = [form EXCEPT !.ports[i].containerPort = text]
        \/ \E text \in HostPorts \cup NoPort : form' = [form EXCEPT !.ports[i].hostPort = text]
        \/ \E protocol \in {"tcp", "udp"} : form' = [form EXCEPT !.ports[i].protocol = protocol]
        \/ form' = [form EXCEPT !.ports = RemoveAt(@, i)]

EditVariable ==
    \E i \in DOMAIN form.env :
        \/ \E text \in Texts : form' = [form EXCEPT !.env[i] = text]
        \/ form' = [form EXCEPT !.env = RemoveAt(@, i)]

EditBind ==
    \E i \in DOMAIN form.volumes :
        \/ \E text \in Texts :
             \/ form' = [form EXCEPT !.volumes[i].source = text]
             \/ form' = [form EXCEPT !.volumes[i].target = text]
        \/ form' = [form EXCEPT !.volumes = RemoveAt(@, i)]

EditForm ==
    /\ creating
    /\ \/ EditTexts \/ EditStart
       \/ AddPort \/ AddVariable \/ AddBind
       \/ EditPort \/ EditVariable \/ EditBind
    /\ UNCHANGED creating

\* Mutant of SubmitCreate: the image is not looked at.
SubmitCreateUnchecked ==
    /\ creating /\ "createContainer" \notin pending
    /\ Mutate(CreateRequest)
    /\ UNCHANGED createVars

SubmitCreate ==
    /\ creating /\ "createContainer" \notin pending
    /\ form.image # Blank
    /\ Mutate(CreateRequest)
    /\ UNCHANGED createVars

\* It closes and empties the form, also one that was opened again since.
ContainerCreated ==
    /\ Hear("createContainer")
    /\ Reset

ContainerNotCreated ==
    /\ Hear("createContainer")
    /\ UNCHANGED createVars

CreateNext ==
    \/ (OpenCreate \/ CloseCreate \/ EditForm) /\ Quietly
    \/ SubmitCreate \/ ContainerCreated \/ ContainerNotCreated

-----------------------------------------------------------------------------

\* Every row of the form that the server accepts reaches the engine: a row with
\* a container port exposes it and, if its host port is a number, publishes the
\* port at the host port of the last such row for the same port and protocol;
\* nothing else is published; every variable that is not blank is set; a volume
\* is bound just if both its sides are filled in.  Two spellings of one number
\* are the same port.  (A host port that is not a number is dropped without a
\* word; a container port that is not, or a number that is no int, makes the
\* server refuse the form.)
RowsReachEngine ==
    sent # None /\ sent.hook = "createContainer" /\ Deserializes(sent) =>
        LET created == BuildCreateParameters(sent)
            rows    == form.ports
            Of(i)   == <<NumberOf[rows[i].containerPort], rows[i].protocol>>
            filled  == {i \in DOMAIN rows : rows[i].containerPort # Blank}
            numbered == {i \in filled : rows[i].hostPort \notin NoPort}
        IN  /\ created.exposed = {Of(i) : i \in filled}
            /\ DOMAIN created.bindings = {Of(i) : i \in numbered}
            /\ \A i \in numbered :
                 (\A j \in numbered : Of(j) = Of(i) => j <= i)
                    => created.bindings[Of(i)] = NumberOf[rows[i].hostPort]
            /\ \A i \in DOMAIN form.env :
                 form.env[i] # Blank <=> \E k \in DOMAIN created.env : created.env[k] = form.env[i]
            /\ \A i \in DOMAIN form.volumes :
                 (form.volumes[i].source # Blank /\ form.volumes[i].target # Blank)
                    <=> \E k \in DOMAIN created.binds : created.binds[k] = form.volumes[i]
            /\ created.policy = form.policy
=============================================================================
