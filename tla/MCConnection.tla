---------------------------- MODULE MCConnection ----------------------------
(***************************************************************************)
(* Small instances of ConnectionManager: a local engine, a remote engine   *)
(* with two spellings of its address, a text that is no URI, a URI with a  *)
(* scheme Docker.DotNet does not know, and one unreadable certificate.     *)
(***************************************************************************)
EXTENDS ConnectionInvariant

mcEndpoints == {"pipe", "host", "host/", "no uri", "ftp"}
mcUris == {"pipe", "host", "ftp"}
mcUriOf == [e \in {"pipe", "host", "host/", "ftp"} |-> IF e = "host/" THEN "host" ELSE e]
mcDialable == {"pipe", "host"}
mcCerts == {"admin.pfx", "lost.pfx"}
mcReadable == {"admin.pfx"}

NoTls == [enabled |-> FALSE, cert |-> Blank]
WithCert(path) == [enabled |-> TRUE, cert |-> path]

mcStartupOptions ==
    [mode |-> "Local", local |-> "pipe", remote |-> Blank, tls |-> NoTls]

Put(mode, remote, tls) ==
    [mode |-> mode, local |-> Blank, remote |-> remote, tls |-> tls]

\* Two bodies that switch, between engines and back.
mcSwitches == {Put("Local", Blank, None), Put("Remote", "host", WithCert("admin.pfx"))}

\* One body for each way an update can end before or at the lock.
mcEveryBody ==
    mcSwitches \cup
    {Put("Garbage", Blank, None),
     Put("Remote", Blank, NoTls),
     Put("Remote", "no uri", None),
     Put("Remote", "host/", WithCert("lost.pfx")),
     Put("Remote", "ftp", NoTls),
     Put("Numbered", "host/", WithCert("lost.pfx")),
     Put("Numbered", Blank, None),
     [Put("Local", Blank, None) EXCEPT !.local = "no uri"]}

\* One operation for each number of calls, checked arguments or not, bounded by
\* the default timeout or not.
mcShape(o) == <<Calls[o], o \in Validated, o \in Unbounded>>

mcEveryShape ==
    {CHOOSE o \in Operations \ {"update", "connection", "ping"} : mcShape(o) = mcShape(p)
        : p \in Operations \ {"update", "connection", "ping"}}
    \cup {"update", "connection", "ping"}
=============================================================================
