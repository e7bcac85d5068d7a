------------------------- MODULE SettingsForm_proofs -------------------------
(***************************************************************************)
(* A form that nobody edited saves the connection it shows, for any        *)
(* endpoints, any certificates and any switches of other clients.          *)
(***************************************************************************)
EXTENDS SettingsForm, TLAPS

-----------------------------------------------------------------------------
(* Connections that can be in use.                                         *)

\* A connection that some body leads to: it can be dialled, and has no TLS if it is local.
Usable(info) ==
    /\ info \in Infos
    /\ info.uri \in Dialable
    /\ info.mode = "Local" => ~info.tls

\* What Build returns is usable.
LEMMA BuiltIsUsable ==
    ASSUME NEW o \in Options, BuildFault(o) = "none"
    PROVE  Usable(InfoOf(o))
<1>1. Endpoint(o) \in DOMAIN UriOf /\ UriOf[Endpoint(o)] \in Dialable
  BY OptionsAssumption DEF BuildFault, Endpoint, Options, NamedModes
<1>2. UriOf[Endpoint(o)] \in Uris
  BY <1>1, OptionsAssumption
<1>3. TlsEnabled(o) \in BOOLEAN /\ (o.mode = "Local" => ~TlsEnabled(o))
  BY DEF TlsEnabled, Options, TlsOptions
<1>4. o.mode \in Modes
  BY DEF Options
<1> QED
  BY <1>1, <1>2, <1>3, <1>4 DEF Usable, InfoOf, Infos

\* The body of a well-formed form leads to a usable connection, or is refused.
LEMMA SavedIsUsable ==
    ASSUME NEW f \in Form
    PROVE  LeadsTo(Body(f)) = None \/ Usable(LeadsTo(Body(f)))
<1> DEFINE o == BuildOptions(Body(f))
<1>1. o \in Options
  <2>1. o.mode = f.mode /\ o.mode \in Modes
    BY DEF BuildOptions, Body, Form
  <2>2. /\ o.local \in Endpoints \cup {Blank}
        /\ o.remote \in Endpoints \cup {Blank}
    BY OptionsAssumption DEF BuildOptions, Body, Form
  <2>3. o.tls \in TlsOptions
    BY DEF BuildOptions, Body, Form, TlsOptions
  <2>4. o = [mode |-> o.mode, local |-> o.local, remote |-> o.remote, tls |-> o.tls]
    BY DEF BuildOptions
  <2> HIDE DEF o
  <2> QED
    BY <2>1, <2>2, <2>3, <2>4 DEF Options
<1>2. CASE Refused(Body(f)) \/ BuildFault(o) # "none"
  BY <1>2 DEF LeadsTo
<1>3. CASE ~(Refused(Body(f)) \/ BuildFault(o) # "none")
  <2>1. LeadsTo(Body(f)) = InfoOf(o)
    BY <1>3 DEF LeadsTo
  <2> HIDE DEF o
  <2> QED
    BY <1>1, <1>3, <2>1, BuiltIsUsable
<1> QED
  BY <1>2, <1>3

-----------------------------------------------------------------------------
(* A form that shows a connection.                                         *)

\* The fields of the connection's mode are those of the connection.
Shows(f, info) ==
    /\ f.mode = info.mode
    /\ f.tls = info.tls
    /\ info.mode = "Local" => f.local = info.uri
    /\ info.mode = "Remote" => f.remote = info.uri

\* The effect on [connection] makes any form show it.
LEMMA FilledShows ==
    ASSUME NEW f \in Form, NEW info, Usable(info)
    PROVE  Filled(f, info) \in Form /\ Shows(Filled(f, info), info)
<1>1. /\ info.uri \in Endpoints /\ info.tls \in BOOLEAN /\ info.mode \in Modes
  BY FormAssumption DEF Usable, Infos
<1>2. CASE info.mode = "Local"
  BY <1>1, <1>2 DEF Filled, Form, Shows
<1>3. CASE info.mode # "Local"
  BY <1>1, <1>3 DEF Filled, Form, Shows
<1> QED
  BY <1>2, <1>3

\* A form that shows a connection of a named mode, and names no certificate, leads to it.
LEMMA ShownLeadsBack ==
    ASSUME NEW f \in Form, NEW info, Usable(info), info.mode \in NamedModes, Shows(f, info),
           f.cert = Blank
    PROVE  LeadsTo(Body(f)) = info
<1> DEFINE o == BuildOptions(Body(f))
<1>1. /\ info.uri \in Uris /\ info.uri \in Endpoints /\ info.uri # Blank
      /\ info.uri \in DOMAIN UriOf /\ UriOf[info.uri] = info.uri
      /\ info.uri \in Dialable /\ info.mode \in NamedModes
      /\ info.tls \in BOOLEAN /\ (info.mode = "Local" => ~info.tls)
  BY FormAssumption, OptionsAssumption DEF Usable, Infos
<1>2. Body(f).tls # None
  BY FormAssumption DEF Body, Form, TlsOptions
<1>3. /\ o.mode = info.mode /\ o.tls.enabled = info.tls /\ o.tls.cert = Blank
      /\ Endpoint(o) = info.uri
      /\ o.mode # "Local" => o.remote = info.uri
  <2>1. o.tls = [enabled |-> f.tls, cert |-> f.cert] /\ o.mode = f.mode
    BY <1>2 DEF BuildOptions, Body
  <2>2. CASE info.mode = "Local"
    BY <1>1, <2>1, <2>2 DEF BuildOptions, Body, Shows, Endpoint
  <2>3. CASE info.mode = "Remote"
    BY <1>1, <2>1, <2>3 DEF BuildOptions, Body, Shows, Endpoint
  <2> QED
    BY <1>1, <2>2, <2>3 DEF NamedModes
<1>4. ~Refused(Body(f))
  BY <1>1 DEF Refused, Body, Shows, NamedModes
<1> HIDE DEF o
<1>5. BuildFault(o) = "none"
  BY <1>1, <1>3 DEF BuildFault, LoadsCertificate
<1>6. InfoOf(o) = info
  <2>1. TlsEnabled(o) = info.tls
    BY <1>1, <1>3 DEF TlsEnabled
  <2>2. info = [mode |-> info.mode, uri |-> info.uri, tls |-> info.tls]
    BY DEF Usable, Infos
  <2> QED
    BY <1>1, <1>3, <2>1, <2>2 DEF InfoOf
<1> QED
  BY <1>4, <1>5, <1>6 DEF LeadsTo, o

\* A form whose mode is a numeral sends no endpoint, and Build refuses that.
LEMMA NumeralLeadsNowhere ==
    ASSUME NEW f \in Form, f.mode \notin NamedModes
    PROVE  LeadsTo(Body(f)) = None
<1>1. Body(f).remote = Blank /\ Body(f).mode = f.mode /\ f.mode # "Local"
  BY DEF Body, NamedModes
<1>2. BuildOptions(Body(f)).remote = Blank /\ BuildOptions(Body(f)).mode # "Local"
  BY <1>1 DEF BuildOptions
<1>3. BuildFault(BuildOptions(Body(f))) # "none"
  BY <1>2 DEF BuildFault
<1> QED
  BY <1>3 DEF LeadsTo

-----------------------------------------------------------------------------
(***************************************************************************)
(* The inductive invariant                                                 *)
(***************************************************************************)

\* Whatever connection is anywhere in the system can be in use.
AllUsable ==
    /\ Usable(current)
    /\ cached # None => Usable(cached)
    /\ get \in Infos => Usable(get)
    /\ put # None /\ put.info # None => Usable(put.info)

\* An untouched form shows what is cached.
UntouchedShows == cached # None /\ ~touched => Shows(form, cached)

FormInv == TypeOK /\ AllUsable /\ UntouchedShows

LEMMA DefaultFormType == DefaultForm \in Form
BY FormAssumption DEF DefaultForm, Form, Modes, NamedModes

\* What other clients switch to is usable.
LEMMA OthersUsable ==
    ASSUME NEW o \in OtherOptions
    PROVE  Usable(InfoOf(o))
BY FormAssumption, BuiltIsUsable

LEMMA UsableIsInfo ==
    ASSUME NEW info, Usable(info)
    PROVE  info \in Infos /\ info # None /\ info # Asked
BY FormAssumption DEF Usable

LEMMA InitForm == Init => FormInv
<1> SUFFICES ASSUME Init PROVE FormInv
  OBVIOUS
<1>1. Usable(StartInfo)
  BY FormAssumption, OthersUsable
<1>2. StartInfo \in Infos /\ Asked \notin Infos /\ None \notin Infos
  BY <1>1, FormAssumption, UsableIsInfo
<1> QED
  BY <1>1, <1>2, DefaultFormType DEF Init, FormInv, TypeOK, AllUsable, UntouchedShows

\* The user's steps.
LEMMA UserStep ==
    ASSUME FormInv, Edit \/ Save \/ Refresh \/ Revisit
    PROVE  FormInv'
<1> USE DEF FormInv
<1>0. Asked \notin Infos /\ None \notin Infos
  BY FormAssumption
<1>1. CASE Edit
  <2>1. form' \in Form
    <3>1. CASE \E mode \in NamedModes : form' = [form EXCEPT !.mode = mode]
      BY <3>1 DEF TypeOK, Form, Modes
    <3>2. CASE form' = [form EXCEPT !.tls = ~@]
      BY <3>2 DEF TypeOK, Form
    <3>3. CASE \E text \in Typed : form' = [form EXCEPT !.local = text]
      BY <3>3, FormAssumption DEF TypeOK, Form
    <3>4. CASE \E text \in Typed : form' = [form EXCEPT !.remote = text]
      BY <3>4, FormAssumption DEF TypeOK, Form
    <3>5. CASE \E path \in CertPaths \cup {Blank} : form' = [form EXCEPT !.cert = path]
      BY <3>5 DEF TypeOK, Form
    <3> QED
      BY <1>1, <3>1, <3>2, <3>3, <3>4, <3>5 DEF Edit
  <2> QED
    BY <1>1, <2>1 DEF Edit, TypeOK, AllUsable, UntouchedShows
<1>2. CASE Save
  <2>1. LeadsTo(Body(form)) = None \/ Usable(LeadsTo(Body(form)))
    BY SavedIsUsable DEF TypeOK
  <2>2. LeadsTo(Body(form)) \in Infos \cup {None}
    BY <2>1, UsableIsInfo
  <2> DEFINE led == LeadsTo(Body(form))
  <2>3. put' = [stage |-> "sent", info |-> led] /\ toast' = None /\ told' = None
        /\ UNCHANGED <<current, cached, get, form, touched>>
    BY <1>2 DEF Save
  <2> HIDE DEF led
  <2>4. put' \in Put /\ put'.info = led
    BY <2>2, <2>3 DEF Put, Stages, led
  <2>5. TypeOK'
    BY <2>3, <2>4 DEF TypeOK
  <2> QED
    BY <2>1, <2>3, <2>4, <2>5 DEF AllUsable, UntouchedShows, led
<1>3. CASE Refresh
  BY <1>0, <1>3 DEF Refresh, TypeOK, AllUsable, UntouchedShows
<1>4. CASE Revisit
  <2>1. get' \in {get, Asked}
    BY <1>4 DEF Revisit
  <2>2. CASE cached = None
    <3>1. form' = DefaultForm
      BY <1>4, <2>2 DEF Revisit
    <3> QED
      BY <1>0, <1>4, <2>1, <2>2, <3>1, DefaultFormType
         DEF Revisit, TypeOK, AllUsable, UntouchedShows
  <2>3. CASE cached # None
    <3>1. form' = Filled(DefaultForm, cached) /\ Usable(cached)
      BY <1>4, <2>3 DEF Revisit, AllUsable
    <3>2. form' \in Form /\ Shows(form', cached)
      BY <3>1, DefaultFormType, FilledShows
    <3> QED
      BY <1>0, <1>4, <2>1, <3>1, <3>2 DEF Revisit, TypeOK, AllUsable, UntouchedShows
  <2> QED
    BY <2>2, <2>3
<1> QED
  BY <1>1, <1>2, <1>3, <1>4

\* The server's steps, and those of other clients.
LEMMA ServerStep ==
    ASSUME FormInv, Server \/ OthersSwitch
    PROVE  FormInv'
<1> USE DEF FormInv
<1>0. Asked \notin Infos /\ None \notin Infos
  BY FormAssumption
<1>1. CASE PutRefused
  BY <1>1 DEF PutRefused, TypeOK, AllUsable, UntouchedShows, Put, Stages
<1>2. CASE PutSwitches
  <2>1. Usable(put.info) /\ put.info \in Infos
    BY <1>2, UsableIsInfo DEF PutSwitches, AllUsable
  <2>2. put' \in Put /\ put'.info = put.info
    BY <1>2 DEF PutSwitches, TypeOK, Put, Stages
  <2> QED
    BY <1>2, <2>1, <2>2 DEF PutSwitches, TypeOK, AllUsable, UntouchedShows
<1>3. CASE PutReads
  <2>1. put' \in Put /\ put'.info = current
    BY <1>3 DEF PutReads, TypeOK, Put, Stages
  <2> QED
    BY <1>3, <2>1 DEF PutReads, TypeOK, AllUsable, UntouchedShows
<1>4. CASE PutPinged
  <2>1. put' \in Put /\ put'.info \in {put.info, None}
    BY <1>4 DEF PutPinged, TypeOK, Put, Stages
  <2> QED
    BY <1>4, <2>1 DEF PutPinged, TypeOK, AllUsable, UntouchedShows
<1>5. CASE GetReads
  BY <1>0, <1>5 DEF GetReads, TypeOK, AllUsable, UntouchedShows
<1>6. CASE OthersSwitch
  <2>1. PICK o \in OtherOptions : current' = InfoOf(o)
    BY <1>6 DEF OthersSwitch
  <2>2. Usable(current') /\ current' \in Infos
    BY <2>1, OthersUsable, UsableIsInfo
  <2> QED
    BY <1>6, <2>2 DEF OthersSwitch, TypeOK, AllUsable, UntouchedShows
<1> QED
  BY <1>1, <1>2, <1>3, <1>4, <1>5, <1>6 DEF Server

\* The answers.
LEMMA AnswerStep ==
    ASSUME FormInv, Answers
    PROVE  FormInv'
<1> USE DEF FormInv
<1>0. Asked \notin Infos /\ None \notin Infos
  BY FormAssumption
<1>1. CASE GetArrives
  <2>1. /\ get \in Infos /\ Usable(get) /\ cached' = get /\ get' = None
        /\ toast' = None /\ UNCHANGED <<current, put, told>>
    BY <1>1 DEF GetArrives, AllUsable
  <2>2. /\ form' \in Form /\ touched' \in BOOLEAN
        /\ ~touched' => Shows(form', get)
    <3>1. CASE get = cached
      BY <1>0, <1>1, <2>1, <3>1 DEF GetArrives, TypeOK, UntouchedShows
    <3>2. CASE get # cached
      <4>1. form' = Filled(form, get) /\ touched' = FALSE
        BY <1>1, <3>2 DEF GetArrives
      <4> QED
        BY <2>1, <4>1, FilledShows DEF TypeOK
    <3> QED
      BY <3>1, <3>2
  <2> QED
    BY <1>0, <2>1, <2>2 DEF TypeOK, AllUsable, UntouchedShows
<1>2. CASE GetFails
  BY <1>0, <1>2 DEF GetFails, TypeOK, AllUsable, UntouchedShows
<1>3. CASE SaveSucceeds
  BY <1>0, <1>3 DEF SaveSucceeds, Invalidated, Says, Toasts, TypeOK, AllUsable, UntouchedShows
<1>4. CASE SaveFails
  BY <1>4 DEF SaveFails, Says, Toasts, TypeOK, AllUsable, UntouchedShows
<1> QED
  BY <1>1, <1>2, <1>3, <1>4 DEF Answers

-----------------------------------------------------------------------------

\* The invariant holds throughout.
THEOREM FormInvariance == Spec => []FormInv
<1>1. Init => FormInv
  BY InitForm
<1>2. FormInv /\ [Next]_vars => FormInv'
  <2> SUFFICES ASSUME FormInv, [Next]_vars PROVE FormInv'
    OBVIOUS
  <2>1. CASE Next
    BY <2>1, UserStep, ServerStep, AnswerStep DEF Next
  <2>2. CASE UNCHANGED vars
    BY <2>2 DEF vars, FormInv, TypeOK, AllUsable, UntouchedShows
  <2> QED
    BY <2>1, <2>2
<1> QED
  BY <1>1, <1>2, PTL DEF Spec

\* Saving a form that nobody edited since the effect filled it restores the connection
\* that the page was told of: SettingsPage's effect, its request body, BuildOptions and
\* Build fit together.
THEOREM UntouchedSaves == Spec => []UntouchedSaveKeeps
<1>1. FormInv => UntouchedSaveKeeps
  <2> SUFFICES ASSUME FormInv, cached # None, ~touched, form.cert = Blank
               PROVE  \/ LeadsTo(Body(form)) = cached
                      \/ cached.mode \notin NamedModes /\ LeadsTo(Body(form)) = None
    BY DEF UntouchedSaveKeeps
  <2>1. form \in Form /\ Usable(cached) /\ Shows(form, cached)
    BY DEF FormInv, TypeOK, AllUsable, UntouchedShows
  <2>2. CASE cached.mode \in NamedModes
    BY <2>1, <2>2, ShownLeadsBack
  <2>3. CASE cached.mode \notin NamedModes
    BY <2>1, <2>3, NumeralLeadsNowhere DEF Shows
  <2> QED
    BY <2>2, <2>3
<1> QED
  BY <1>1, FormInvariance, PTL

=============================================================================
