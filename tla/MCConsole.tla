----------------------------- MODULE MCConsole -----------------------------
(***************************************************************************)
(* The pages with a few texts in each field: two spellings of one port, and*)
(* a number that is no int.                                                *)
(***************************************************************************)
EXTENDS Console

\* Number(), as JSON writes the result.
mcNumberOf ==
    [text \in Ports \cup HostPorts |-> IF text = "080" THEN "80" ELSE text]
=============================================================================
