------------------------ MODULE ConnectionInvariant ------------------------
(***************************************************************************)
(* The inductive invariant behind the safety properties of                 *)
(* ConnectionManager, conjunct by conjunct.  TLC checks it on small        *)
(* instances; ConnectionManager_proofs proves it for every instance.       *)
(***************************************************************************)
EXTENDS ConnectionManager

\* The two manager fields agree, and the active client was disposed exactly if
\* the manager was.
ManagerInv ==
    /\ current = info[client]
    /\ disposals[client] = IF closed THEN 1 ELSE 0

\* Disposal comes at most once, and only to a client that was built.
DisposalInv ==
    \A c \in Clients : /\ disposals[c] \in {0, 1}
                       /\ disposals[c] = 1 => Built(c)

\* Until its update swaps it in, a client is known to nobody else.
FreshInv ==
    \A r \in Requests :
        /\ pc[r] \in {"idle", "configure"} => ~Built(r)
        /\ pc[r] = "swap" => Built(r)
        /\ pc[r] \in {"idle", "configure", "swap"} =>
              /\ client # r
              /\ disposals[r] = 0
              /\ \A q \in Requests : /\ replaced[q] # r
                                     /\ r \notin window[q]

\* A replaced client belongs to one update, which has still to dispose it.
RetireInv ==
    \A r \in Requests : pc[r] = "retire" =>
        /\ replaced[r] \in Clients
        /\ Built(replaced[r])
        /\ replaced[r] # client
        /\ disposals[replaced[r]] = 0
        /\ \A q \in Requests : pc[q] = "retire" /\ q # r => replaced[q] # replaced[r]

\* What a request carries at each point of its handler.
HandlerInv ==
    \A r \in Requests :
        /\ pc[r] # "idle" => op[r] \in Operations
        /\ pc[r] \in {"configure", "swap", "retire"} => op[r] = "update"
        /\ pc[r] = "configure" => body[r] \in Bodies
        /\ pc[r] \in {"idle", "configure", "swap", "retire"} =>
              asked[r] = <<>> /\ seen[r] = None
        /\ pc[r] = "readCurrent" /\ op[r] = "update" => asked[r] = <<>>
        /\ Running(r) /\ seen[r] # None => op[r] = "update"
        /\ pc[r] \in {"send", "await"} => asked[r] # <<>>
        /\ pc[r] \in {"idle", "configure", "swap"} => replaced[r] = None
        /\ Running(r) /\ op[r] = "update" /\ pc[r] \notin {"configure", "swap"} =>
              replaced[r] # None
        /\ Answered(r) => reply[r] \in Replies

\* The window holds whatever the request has read.
WindowInv ==
    \A r \in Requests :
        /\ Running(r) => client \in window[r]
        /\ \A c \in window[r] : Built(c)
        /\ \A i \in DOMAIN asked[r] : asked[r][i] \in window[r]
        /\ seen[r] # None =>
              \E c \in window[r] : seen[r] = info[c] /\ InOrderOfReading(r, c)

\* Nothing that a request can have seen is newer than the active client.
TurnInv ==
    \A r \in Requests : \A c \in window[r] : c # client => turn[c] < turn[client]

Inductive ==
    /\ TypeOK
    /\ ManagerInv
    /\ DisposalInv
    /\ FreshInv
    /\ RetireInv
    /\ HandlerInv
    /\ WindowInv
    /\ TurnInv
    /\ CallsMoveForward
    /\ NoClientLeaked
    /\ DisposedOnlyBySwitch
    /\ ReportsAnActiveConnection
    /\ UpdateStatusTellsSwitch
=============================================================================
