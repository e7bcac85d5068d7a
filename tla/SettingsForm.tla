---------------------------- MODULE SettingsForm ----------------------------
(***************************************************************************)
(* SettingsPage.tsx over the connection API: the form is filled by an      *)
(* effect whenever the cached connection changes, edited by the user, and  *)
(* saved by PUT /api/settings/connection; other clients switch the         *)
(* connection too.  The server's half is ConnectionOptions.                *)
(*                                                                         *)
(* GET answers with the text of the manager's Uri, so every URI is among   *)
(* the endpoints and denotes itself.                                       *)
(***************************************************************************)
EXTENDS ConnectionOptions

CONSTANTS
    FormLocal,     \* DEFAULT_LOCAL of the page
    FormRemote,    \* DEFAULT_REMOTE of the page
    Typed,         \* endpoints the user types
    OtherOptions,  \* what other clients of the API switch to, numerals for modes included
    StartInfo,     \* the connection at the start
    Asked          \* a request for the connection that the server has not read yet

ASSUME FormAssumption ==
    /\ Uris \subseteq Endpoints
    /\ \A u \in Uris : u \in DOMAIN UriOf /\ UriOf[u] = u
    /\ {FormLocal, FormRemote} \cup Typed \subseteq Endpoints \cup {Blank}
    /\ OtherOptions \subseteq Options
    /\ \A o \in OtherOptions : BuildFault(o) = "none"
    /\ StartInfo \in {InfoOf(o) : o \in OtherOptions}
    /\ {Asked, None} \cap Infos = {} /\ Asked # None
    /\ None \notin TlsOptions

VARIABLES
    current,  \* server: the manager's connection
    cached,   \* the connection query's data
    get,      \* the connection query's request: none, asked, or what it read
    form,     \* the fields
    touched,  \* history: the user edited the form since the effect last filled it
    put,      \* the save under way
    toast,    \* the notification that the last step pushed, None if it pushed none
    told      \* history: the connection that the user was told is saved, as long as nobody
              \*   edits, switches or saves again

vars == <<current, cached, get, form, touched, put, toast, told>>

\* The effect takes over whatever mode the API names, also one the list does not offer.
Form == [mode : Modes, local : Endpoints \cup {Blank}, remote : Endpoints \cup {Blank},
         tls : BOOLEAN, cert : CertPaths \cup {Blank}]

\* A save is sent with a body that leads to `info` (None: to a refusal); the server
\* has switched; it has read Current; or it is answered: with the connection the
\* answer names, with a refusal, or with 502 because the ping failed.
Stages == {"sent", "switched", "read", "ok", "refused", "unreachable"}

Put == [stage : Stages, info : Infos \cup {None}]

Toasts == {"Connection saved", "Saved but engine unreachable.", "Save failed"}

TypeOK ==
    /\ current \in Infos
    /\ cached \in Infos \cup {None}
    /\ get \in Infos \cup {Asked, None}
    /\ form \in Form
    /\ touched \in BOOLEAN
    /\ put \in Put \cup {None}
    /\ toast \in Toasts \cup {None}
    /\ told \in Infos \cup {None}

DefaultForm ==
    [mode |-> "Local", local |-> FormLocal, remote |-> FormRemote, tls |-> FALSE, cert |-> Blank]

\* Mutant of Filled: the endpoint goes to the field of the mode that was shown.
FilledByOldMode(f, info) ==
    IF f.mode = "Local"
    THEN [f EXCEPT !.mode = info.mode, !.tls = info.tls, !.local = info.uri]
    ELSE [f EXCEPT !.mode = info.mode, !.tls = info.tls, !.remote = info.uri]

\* The effect on [connection]; it leaves the certificate fields alone.
Filled(f, info) ==
    IF info.mode = "Local"
    THEN [f EXCEPT !.mode = info.mode, !.tls = info.tls, !.local = info.uri]
    ELSE [f EXCEPT !.mode = info.mode, !.tls = info.tls, !.remote = info.uri]

\* The request body: the endpoint of the mode only.
Body(f) ==
    [mode   |-> f.mode,
     local  |-> IF f.mode = "Local" THEN f.local ELSE Blank,
     remote |-> IF f.mode = "Remote" THEN f.remote ELSE Blank,
     tls    |-> [enabled |-> f.tls, cert |-> f.cert]]

\* SettingsController: the connection that a body leads to, None if it is refused
\* or no client can be built.
LeadsTo(body) ==
    IF Refused(body) \/ BuildFault(BuildOptions(body)) # "none" THEN None
    ELSE InfoOf(BuildOptions(body))

Init ==
    /\ current = StartInfo
    /\ cached = None
    /\ get = Asked
    /\ form = DefaultForm
    /\ touched = FALSE
    /\ put = None
    /\ toast = None
    /\ told = None

-----------------------------------------------------------------------------
(***************************************************************************)
(* The user                                                                *)
(***************************************************************************)

\* The form is hidden only while the first answer is awaited.
Visible == ~(cached = None /\ get # None)

Edit ==
    /\ Visible
    /\ \/ \E mode \in NamedModes : form' = [form EXCEPT !.mode = mode]
       \/ form' = [form EXCEPT !.tls = ~@]
       \/ /\ form.mode = "Local"
          /\ \E text \in Typed : form' = [form EXCEPT !.local = text]
       \/ /\ form.mode # "Local"
          /\ \E text \in Typed : form' = [form EXCEPT !.remote = text]
       \/ /\ form.tls
          /\ \E path \in CertPaths \cup {Blank} : form' = [form EXCEPT !.cert = path]
    /\ touched' = TRUE
    /\ told' = None
    /\ toast' = None
    /\ UNCHANGED <<current, cached, get, put>>

Save ==
    /\ Visible /\ put = None
    /\ put' = [stage |-> "sent", info |-> LeadsTo(Body(form))]
    /\ told' = None
    /\ toast' = None
    /\ UNCHANGED <<current, cached, get, form, touched>>

\* "Refresh data" of the top bar.
Refresh ==
    /\ get = None
    /\ get' = Asked
    /\ toast' = None
    /\ UNCHANGED <<current, cached, form, touched, put, told>>

\* The page is left and visited again: a new form, filled from the cache, and a
\* request if the cached connection is stale.  Bound: not during a save.
Revisit ==
    /\ put = None
    /\ form' = IF cached = None THEN DefaultForm ELSE Filled(DefaultForm, cached)
    /\ touched' = FALSE
    /\ get' \in IF get = None /\ cached # None THEN {None, Asked}
                ELSE {IF get = None THEN Asked ELSE get}
    /\ told' = None
    /\ toast' = None
    /\ UNCHANGED <<current, cached, put>>

-----------------------------------------------------------------------------
(***************************************************************************)
(* The server                                                              *)
(***************************************************************************)

PutRefused ==
    /\ put # None /\ put.stage = "sent" /\ put.info = None
    /\ put' = [put EXCEPT !.stage = "refused"]
    /\ toast' = None
    /\ UNCHANGED <<current, cached, get, form, touched, told>>

\* Reconfigure.
PutSwitches ==
    /\ put # None /\ put.stage = "sent" /\ put.info # None
    /\ current' = put.info
    /\ put' = [put EXCEPT !.stage = "switched"]
    /\ toast' = None
    /\ UNCHANGED <<cached, get, form, touched, told>>

\* The answer will name what Current is by now.
PutReads ==
    /\ put # None /\ put.stage = "switched"
    /\ put' = [stage |-> "read", info |-> current]
    /\ toast' = None
    /\ UNCHANGED <<current, cached, get, form, touched, told>>

\* PingAsync returns true or throws: there is no answer with ok = false.
PutPinged ==
    /\ put # None /\ put.stage = "read"
    /\ \/ put' = [put EXCEPT !.stage = "ok"]
       \/ put' = [stage |-> "unreachable", info |-> None]
    /\ toast' = None
    /\ UNCHANGED <<current, cached, get, form, touched, told>>

OthersSwitch ==
    /\ \E options \in OtherOptions : current' = InfoOf(options)
    /\ told' = None
    /\ toast' = None
    /\ UNCHANGED <<cached, get, form, touched, put>>

GetReads ==
    /\ get = Asked
    /\ get' = current
    /\ toast' = None
    /\ UNCHANGED <<current, cached, form, touched, put, told>>

-----------------------------------------------------------------------------
(***************************************************************************)
(* Answers                                                                 *)
(***************************************************************************)

\* Equal data keeps its identity (structural sharing): no effect, and the edits
\* stay.  Other data fills the form.
GetArrives ==
    /\ get \in Infos
    /\ cached' = get
    /\ get' = None
    /\ IF get = cached THEN UNCHANGED <<form, touched>>
       ELSE /\ form' = Filled(form, get)
            /\ touched' = FALSE
    /\ toast' = None
    /\ UNCHANGED <<current, put, told>>

\* After its retry.
GetFails ==
    /\ get # None
    /\ get' = None
    /\ told' = None
    /\ toast' = None
    /\ UNCHANGED <<current, cached, form, touched, put>>

\* onSuccess of the hook invalidates the connection: a request under way is made
\* again, unless it is the first one, which the invalidation joins.
Invalidated == IF cached # None \/ get = None THEN Asked ELSE get

Says(text) == toast' = text

\* Mutant of SaveSucceeds: the connection is not invalidated.
SaveSucceedsQuietly ==
    /\ put # None /\ put.stage = "ok"
    /\ put' = None
    /\ Says("Connection saved")
    /\ told' = IF put.info = current /\ LeadsTo(Body(form)) = current THEN current ELSE None
    /\ UNCHANGED <<current, cached, get, form, touched>>

SaveSucceeds ==
    /\ put # None /\ put.stage = "ok"
    /\ put' = None
    /\ get' = Invalidated
    /\ Says("Connection saved")
    /\ told' = IF Invalidated = Asked /\ put.info = current /\ LeadsTo(Body(form)) = current
               THEN current ELSE None
    /\ UNCHANGED <<current, cached, form, touched>>

SaveFails ==
    /\ put # None /\ put.stage \in {"refused", "unreachable"}
    /\ put' = None
    /\ Says("Save failed")
    /\ UNCHANGED <<current, cached, get, form, touched, told>>

Server == PutRefused \/ PutSwitches \/ PutReads \/ PutPinged \/ GetReads

Answers == GetArrives \/ GetFails \/ SaveSucceeds \/ SaveFails

Next ==
    \/ Edit \/ Save \/ Refresh \/ Revisit \/ OthersSwitch
    \/ Server \/ Answers

\* A request that is under way is read and answered.
Spec == Init /\ [][Next]_vars /\ WF_vars(GetReads) /\ WF_vars(GetArrives)

-----------------------------------------------------------------------------

\* Saving a form that the user has not edited since it was filled restores the
\* connection that the page was told of, whichever mode and endpoint that is and
\* whatever the fields held before: the form, the body, BuildOptions and Build
\* fit together.  (The certificate is no part of what GET answers: it is lost.)
\* If the mode is a numeral, for which the form sends no endpoint, the save is
\* refused: it never leads to another connection.
UntouchedSaveKeeps ==
    cached # None /\ ~touched /\ form.cert = Blank =>
        \/ LeadsTo(Body(form)) = cached
        \/ cached.mode \notin NamedModes /\ LeadsTo(Body(form)) = None

\* After "Connection saved" the page comes to hold and show that connection, unless
\* the user goes on, somebody switches, the request for it fails, or the save met
\* the first load of the page.
SavedIsShown ==
    told # None ~> \/ told = None
                   \/ cached = told /\ LeadsTo(Body(form)) = told

\* A save that switched the connection while the engine cannot be reached says so:
\* 'Saved but engine unreachable.'
UnreachableSaysSaved ==
    [][put # None /\ put.stage = "unreachable" /\ put' = None
          => toast' = "Saved but engine unreachable."]_vars
=============================================================================
