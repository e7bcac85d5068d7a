---------------------------- MODULE ErrorMapping ----------------------------
(***************************************************************************)
(* DockerExceptionMiddleware: the HTTP status a failed request is answered *)
(* with.  A fault is the exception that escaped the controller, named      *)
(* after its .NET type; an exception the Docker API answered with is named *)
(* after the engine's status.                                              *)
(***************************************************************************)
EXTENDS Naturals

\* Exceptions Docker.DotNet raises from an engine's answer.
\* "Unauthorized" stands for a status that is passed on as it is.
EngineFaults == {"NotFound", "Conflict", "NotModified", "BadRequest",
                 "Unauthorized", "EngineError"}

\* Exceptions of the transport: no answer came.  Docker.DotNet turns its own
\* time-out into a cancellation, a failed dial into the other two.
TransportFaults == {"Timeout", "HttpRequest", "OperationCanceled"}

\* Exceptions of the program itself.
LocalFaults == {"InvalidOperation", "ObjectDisposed", "Argument",
                "UriFormat", "Cryptographic", "UnknownScheme"}

Faults == EngineFaults \cup TransportFaults \cup LocalFaults

\* MapApiException: the engine's status decides; a server error is a bad
\* gateway, any other status without an arm of its own is passed on.
MapApiException(fault) ==
    IF fault = "NotFound" THEN 404
    ELSE IF fault \in {"Conflict", "NotModified"} THEN 409
    ELSE IF fault = "BadRequest" THEN 400
    ELSE IF fault = "Unauthorized" THEN 401
    ELSE 502

(***************************************************************************)
(* Classify.  ObjectDisposedException derives from                         *)
(* InvalidOperationException, so a request that met a disposed client is   *)
(* answered 400; UriFormatException and CryptographicException match no    *)
(* arm.                                                                    *)
(***************************************************************************)
Classify(fault) ==
    IF fault \in EngineFaults THEN MapApiException(fault)
    ELSE IF fault \in {"InvalidOperation", "ObjectDisposed", "Argument"} THEN 400
    ELSE IF fault \in {"Timeout", "HttpRequest"} THEN 502
    ELSE IF fault = "OperationCanceled" THEN 499
    ELSE 500

\* 200 stands for every status of a success.
Statuses == {200, 400, 401, 404, 409, 499, 500, 502}
=============================================================================
