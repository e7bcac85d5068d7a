---------------------------- MODULE MCSettings ----------------------------
(***************************************************************************)
(* A small instance of SettingsForm: a local engine, a remote one with two *)
(* spellings, a text that is no URI, a certificate, and a numeral for a    *)
(* mode.                                                                   *)
(***************************************************************************)
EXTENDS SettingsForm

mcEndpoints == {"pipe", "host", "host/", "no uri"}
mcUris == {"pipe", "host"}
mcUriOf == [e \in {"pipe", "host", "host/"} |-> IF e = "host/" THEN "host" ELSE e]
mcTyped == {"host/", "no uri", Blank}

Switch(mode, tls) ==
    [mode |-> mode, local |-> "pipe", remote |-> "host", tls |-> [enabled |-> tls, cert |-> Blank]]

mcOtherOptions == {Switch("Local", FALSE), Switch("Remote", FALSE), Switch("Remote", TRUE),
                   Switch("Numbered", TRUE)}
mcStartInfo == [mode |-> "Local", uri |-> "pipe", tls |-> FALSE]
=============================================================================
