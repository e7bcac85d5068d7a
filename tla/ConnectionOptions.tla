------------------------- MODULE ConnectionOptions -------------------------
(***************************************************************************)
(* The connection settings of DockerWeb and what is built from them:       *)
(* DockerOptions (Configuration/DockerOptions.cs), the body of             *)
(* PUT /api/settings/connection, SettingsController.BuildOptions, and the  *)
(* static half of DockerConnectionManager (Build, ResolveEndpoint,         *)
(* LoadCredentials).                                                       *)
(*                                                                         *)
(* Endpoints are opaque.  What the program does with an endpoint text is   *)
(* parse it: UriOf maps the texts that `new Uri(...)` accepts to the URI   *)
(* they denote (two spellings may denote one URI); every other text throws *)
(* UriFormatException.  Blank stands for null, "" and white space.         *)
(***************************************************************************)
EXTENDS Naturals, Sequences

CONSTANTS
    Endpoints,      \* endpoint texts somebody may type or configure
    Uris,           \* parsed endpoints; each is served by one Docker engine
    UriOf,          \* parsing: the texts in its domain are well formed
    Dialable,       \* the URIs whose scheme DockerClient supports
    CertPaths,      \* client certificate paths somebody may type
    ReadableCerts,  \* those that X509CertificateLoader can load
    DefaultLocal,   \* the initial value of DockerOptions.LocalEndpoint
    Blank,          \* null, the empty string, or white space
    None            \* an absent value (null)

ASSUME OptionsAssumption ==
    /\ Blank \notin Endpoints
    /\ DefaultLocal \in Endpoints
    /\ DOMAIN UriOf \subseteq Endpoints
    /\ \A e \in DOMAIN UriOf : UriOf[e] \in Uris
    /\ Dialable \subseteq Uris
    /\ ReadableCerts \subseteq CertPaths
    /\ Blank \notin CertPaths

(***************************************************************************)
(* Enum.TryParse<DockerConnectionMode> accepts the two names, and also any *)
(* number: "Numbered" is a mode that is neither Local nor Remote.          *)
(***************************************************************************)
NamedModes == {"Local", "Remote"}
Modes == NamedModes \cup {"Numbered"}
ModeTexts == Modes \cup {"Garbage"}

TlsOptions == [enabled : BOOLEAN, cert : CertPaths \cup {Blank}]

Bodies == [mode   : ModeTexts,
           local  : Endpoints \cup {Blank},
           remote : Endpoints \cup {Blank},
           tls    : TlsOptions \cup {None}]

Options == [mode   : Modes,
            local  : Endpoints \cup {Blank},
            remote : Endpoints \cup {Blank},
            tls    : TlsOptions]

Infos == [mode : Modes, uri : Uris, tls : BOOLEAN]

(***************************************************************************)
(* SettingsController.BuildOptions starts from `new DockerOptions`, so a   *)
(* blank local endpoint falls back to the class default, never to the one  *)
(* the server was started with; an absent tls section means TLS off.       *)
(***************************************************************************)
BuildOptions(body) ==
    [mode   |-> body.mode,
     local  |-> IF body.local = Blank THEN DefaultLocal ELSE body.local,
     remote |-> body.remote,
     tls    |-> IF body.tls = None THEN [enabled |-> FALSE, cert |-> Blank]
                                   ELSE body.tls]

\* Why UpdateConnection refuses a body before it touches the manager.
Refused(body) ==
    \/ body.mode = "Garbage"
    \/ body.mode = "Remote" /\ body.remote = Blank

Endpoint(options) ==
    IF options.mode = "Local" THEN options.local ELSE options.remote

TlsEnabled(options) == options.mode # "Local" /\ options.tls.enabled

\* LoadCredentials opens a certificate file only for Remote with TLS on.
LoadsCertificate(options) ==
    /\ options.mode = "Remote"
    /\ TlsEnabled(options)
    /\ options.tls.cert # Blank

(***************************************************************************)
(* The exception Build throws, or "none".  The order is the code's:        *)
(* resolve the endpoint, load the credentials, create the client (whose    *)
(* constructor refuses an unknown scheme).                                 *)
(***************************************************************************)
BuildFault(options) ==
    IF options.mode # "Local" /\ options.remote = Blank THEN "InvalidOperation"
    ELSE IF Endpoint(options) \notin DOMAIN UriOf THEN "UriFormat"
    ELSE IF LoadsCertificate(options) /\ options.tls.cert \notin ReadableCerts
         THEN "Cryptographic"
    ELSE IF UriOf[Endpoint(options)] \notin Dialable THEN "UnknownScheme"
    ELSE "none"

\* The DockerConnectionInfo that describes the client Build returns.
InfoOf(options) ==
    [mode |-> options.mode,
     uri  |-> UriOf[Endpoint(options)],
     tls  |-> TlsEnabled(options)]
=============================================================================
