----------------------------- MODULE StatsStream -----------------------------
(***************************************************************************)
(* StatsService.StreamStatsAsync: one subscription to the statistics of a  *)
(* container.  Four parties meet in it:                                    *)
(*   - the pump task, which calls the Docker client and completes the      *)
(*     channel when the call ends;                                         *)
(*   - Progress<T>, which posts every sample to the thread pool, where the *)
(*     callbacks run in any order, even at the same time, and possibly     *)
(*     after the call has ended;                                           *)
(*   - the bounded channel, which drops its head when it is full;          *)
(*   - the reader, which the hub pulls, and which awaits the pump at last. *)
(* Cancellation (the browser unsubscribes or disconnects) and a switch of  *)
(* the connection (the Docker client is disposed under the call) can come  *)
(* at any moment.                                                          *)
(*                                                                         *)
(* Samples are numbered in the order the engine sends them.                *)
(***************************************************************************)
EXTENDS Naturals, Sequences, FiniteSets, SequencesExt

CONSTANTS
    Capacity,    \* of the channel; 16 in the code
    MaxSamples   \* bound: how many samples the engine sends at most

ASSUME StreamAssumption ==
    /\ Capacity \in Nat \ {0}
    /\ MaxSamples \in Nat

VARIABLES
    pump,       \* the task: "queued", "calling", "streaming", "done", "skipped"
    sent,       \* samples the engine has sent so far
    posted,     \* samples whose callback waits for a pool thread
    mapping,    \* samples whose callback is running (MapStats)
    queue,      \* the channel's buffer
    channel,    \* "open", "completed", or "failed" (completed with an error)
    reader,     \* "waiting", "draining", "yielding", "joining", "ended"
    outcome,    \* how the reader's loop ended: "normal", "cancelled", "failed"
    cancelled,  \* the cancellation token
    switched,   \* the Docker client of the call was disposed by a switch
    delivered,  \* samples handed to the hub, in order
    dropped,    \* samples the full channel pushed out
    refused,    \* samples written after the channel was completed
    overtaken   \* history: a sample was written before an older one

vars == <<pump, sent, posted, mapping, queue, channel, reader, outcome,
          cancelled, switched, delivered, dropped, refused, overtaken>>

engineVars == <<sent>>
poolVars   == <<posted, mapping>>
outcomes   == <<delivered, dropped, refused, overtaken>>

Samples == 1..MaxSamples

TypeOK ==
    /\ pump \in {"queued", "calling", "streaming", "done", "skipped"}
    /\ sent \in 0..MaxSamples
    /\ posted \subseteq Samples
    /\ mapping \subseteq Samples
    /\ queue \in Seq(Samples)
    /\ channel \in {"open", "completed", "failed"}
    /\ reader \in {"waiting", "draining", "yielding", "joining", "ended"}
    /\ outcome \in {"none", "normal", "cancelled", "failed"}
    /\ cancelled \in BOOLEAN
    /\ switched \in BOOLEAN
    /\ delivered \in Seq(Samples)
    /\ dropped \subseteq Samples
    /\ refused \subseteq Samples
    /\ overtaken \in BOOLEAN

Init ==
    /\ pump = "queued"
    /\ sent = 0
    /\ posted = {}
    /\ mapping = {}
    /\ queue = <<>>
    /\ channel = "open"
    /\ reader = "waiting"
    /\ outcome = "none"
    /\ cancelled = FALSE
    /\ switched = FALSE
    /\ delivered = <<>>
    /\ dropped = {}
    /\ refused = {}
    /\ overtaken = FALSE

-----------------------------------------------------------------------------
\* The pump.  Task.Run(..., ct) does not start a task whose token is cancelled.

PumpStart ==
    /\ pump = "queued"
    /\ pump' = IF cancelled THEN "skipped" ELSE "calling"
    /\ UNCHANGED <<sent, poolVars, queue, channel, reader, outcome, cancelled,
                   switched, outcomes>>

EngineAccepts ==
    /\ pump = "calling"
    /\ pump' = "streaming"
    /\ UNCHANGED <<sent, poolVars, queue, channel, reader, outcome, cancelled,
                   switched, outcomes>>

\* The engine sends a sample; Progress<T>.Report posts its callback.
EngineSends ==
    /\ pump = "streaming"
    /\ sent < MaxSamples
    /\ sent' = sent + 1
    /\ posted' = posted \cup {sent + 1}
    /\ UNCHANGED <<pump, mapping, queue, channel, reader, outcome, cancelled,
                   switched, outcomes>>

\* Mutant of PumpEnds: the handler of other exceptions logs and leaves the
\* channel open.
PumpEndsQuietly(result) ==
    /\ pump' = "done"
    /\ channel' = IF channel = "open" /\ result = "completed" THEN result ELSE channel
    /\ UNCHANGED <<sent, poolVars, queue, reader, outcome, cancelled, switched,
                   outcomes>>

\* TryComplete(), or TryComplete(ex): the first completion counts.
PumpEnds(result) ==
    /\ pump' = "done"
    /\ channel' = IF channel = "open" THEN result ELSE channel
    /\ UNCHANGED <<sent, poolVars, queue, reader, outcome, cancelled, switched,
                   outcomes>>

\* The container stopped or was removed: the call returns.
EngineEnds ==
    /\ pump = "streaming"
    /\ PumpEnds("completed")

\* OperationCanceledException: the token, or the disposal of the client.
CallCancelled ==
    /\ pump \in {"calling", "streaming"}
    /\ cancelled \/ switched
    /\ PumpEnds("completed")

\* Any other exception: no such container, an engine error, a lost connection,
\* a client that was disposed before the call.
CallFails ==
    /\ pump \in {"calling", "streaming"}
    /\ PumpEnds("failed")

-----------------------------------------------------------------------------
\* The callbacks.

CallbackStarts(s) ==
    /\ s \in posted
    /\ posted' = posted \ {s}
    /\ mapping' = mapping \cup {s}
    /\ UNCHANGED <<pump, sent, queue, channel, reader, outcome, cancelled,
                   switched, outcomes>>

\* Mutant of TryWrite: DropNewest.
TryWriteDropNewest(s) ==
    IF channel # "open"
    THEN /\ refused' = refused \cup {s}
         /\ UNCHANGED <<queue, dropped>>
    ELSE IF Len(queue) = Capacity
    THEN /\ queue' = Append(Front(queue), s)
         /\ dropped' = dropped \cup {Last(queue)}
         /\ UNCHANGED refused
    ELSE /\ queue' = Append(queue, s)
         /\ UNCHANGED <<dropped, refused>>

\* TryWrite with DropOldest: a full buffer loses its head, a completed channel
\* refuses.
TryWrite(s) ==
    IF channel # "open"
    THEN /\ refused' = refused \cup {s}
         /\ UNCHANGED <<queue, dropped>>
    ELSE IF Len(queue) = Capacity
    THEN /\ queue' = Append(Tail(queue), s)
         /\ dropped' = dropped \cup {Head(queue)}
         /\ UNCHANGED refused
    ELSE /\ queue' = Append(queue, s)
         /\ UNCHANGED <<dropped, refused>>

CallbackWrites(s) ==
    /\ s \in mapping
    /\ TryWrite(s)
    /\ mapping' = mapping \ {s}
    /\ overtaken' = (overtaken \/ \E t \in posted \cup mapping : t < s)
    /\ UNCHANGED <<pump, sent, posted, channel, reader, outcome, cancelled,
                   switched, delivered>>

-----------------------------------------------------------------------------
\* The reader: ReadAllAsync(ct) waits for data, then drains what it finds
\* without looking at the token, and the hub pulls one sample at a time.

LoopEnds(how) ==
    /\ reader' = "joining"
    /\ outcome' = how
    /\ UNCHANGED <<pump, sent, poolVars, queue, channel, cancelled, switched,
                   outcomes>>

WaitCancelled ==
    /\ reader = "waiting"
    /\ cancelled
    /\ LoopEnds("cancelled")

\* Mutant of WaitFindsData: the reader waits for a full buffer.
WaitFindsBatch ==
    /\ reader = "waiting"
    /\ Len(queue) = Capacity
    /\ ~cancelled
    /\ reader' = "draining"
    /\ UNCHANGED <<pump, sent, poolVars, queue, channel, outcome, cancelled,
                   switched, outcomes>>

WaitFindsData ==
    /\ reader = "waiting"
    /\ queue # <<>>
    /\ ~cancelled
    /\ reader' = "draining"
    /\ UNCHANGED <<pump, sent, poolVars, queue, channel, outcome, cancelled,
                   switched, outcomes>>

\* Mutant of WaitFindsEnd: what is buffered is left behind.
WaitEndsEarly ==
    /\ reader = "waiting"
    /\ ~cancelled
    /\ channel # "open"
    /\ LoopEnds(IF channel = "failed" THEN "failed" ELSE "normal")

WaitFindsEnd ==
    /\ reader = "waiting"
    /\ queue = <<>>
    /\ ~cancelled
    /\ channel # "open"
    /\ LoopEnds(IF channel = "failed" THEN "failed" ELSE "normal")

\* Mutant of TryRead: the head is handed out and stays in the buffer.
TryPeek ==
    /\ reader = "draining"
    /\ IF queue = <<>>
       THEN /\ reader' = "waiting"
            /\ UNCHANGED delivered
       ELSE /\ reader' = "yielding"
            /\ delivered' = Append(delivered, Head(queue))
    /\ UNCHANGED <<pump, sent, poolVars, queue, channel, outcome, cancelled,
                   switched, dropped, refused, overtaken>>

TryRead ==
    /\ reader = "draining"
    /\ IF queue = <<>>
       THEN /\ reader' = "waiting"
            /\ UNCHANGED <<queue, delivered>>
       ELSE /\ reader' = "yielding"
            /\ queue' = Tail(queue)
            /\ delivered' = Append(delivered, Head(queue))
    /\ UNCHANGED <<pump, sent, poolVars, channel, outcome, cancelled, switched,
                   dropped, refused, overtaken>>

HubPulls ==
    /\ reader = "yielding"
    /\ reader' = "draining"
    /\ UNCHANGED <<pump, sent, poolVars, queue, channel, outcome, cancelled,
                   switched, outcomes>>

\* Mutant of JoinPump: a pump that never started is awaited for ever.
JoinCompletedPump ==
    /\ reader = "joining"
    /\ pump = "done"
    /\ reader' = "ended"
    /\ UNCHANGED <<pump, sent, poolVars, queue, channel, outcome, cancelled,
                   switched, outcomes>>

\* finally { await pump; }
JoinPump ==
    /\ reader = "joining"
    /\ pump \in {"done", "skipped"}
    /\ reader' = "ended"
    /\ UNCHANGED <<pump, sent, poolVars, queue, channel, outcome, cancelled,
                   switched, outcomes>>

-----------------------------------------------------------------------------

Cancel ==
    /\ ~cancelled
    /\ reader # "ended"
    /\ cancelled' = TRUE
    /\ UNCHANGED <<pump, sent, poolVars, queue, channel, reader, outcome,
                   switched, outcomes>>

SwitchConnection ==
    /\ ~switched
    /\ pump \in {"calling", "streaming"}
    /\ switched' = TRUE
    /\ UNCHANGED <<pump, sent, poolVars, queue, channel, reader, outcome,
                   cancelled, outcomes>>

Pump == PumpStart \/ EngineAccepts \/ EngineEnds \/ CallCancelled \/ CallFails
Callback(s) == CallbackStarts(s) \/ CallbackWrites(s)
Reader == WaitCancelled \/ WaitFindsData \/ WaitFindsEnd \/ TryRead \/ HubPulls \/ JoinPump

Next ==
    \/ Pump \/ EngineSends
    \/ \E s \in Samples : Callback(s)
    \/ Reader
    \/ Cancel \/ SwitchConnection

(***************************************************************************)
(* The pool runs every task and callback, the hub keeps pulling, and a     *)
(* call whose token is cancelled returns.  Nothing makes an engine send,   *)
(* end or fail, and nothing says that a call notices that its client was   *)
(* disposed.                                                               *)
(***************************************************************************)
Fairness ==
    /\ WF_vars(PumpStart)
    /\ WF_vars(cancelled /\ CallCancelled)
    /\ \A s \in Samples : WF_vars(Callback(s))
    /\ WF_vars(Reader)

Spec == Init /\ [][Next]_vars /\ Fairness

-----------------------------------------------------------------------------

InQueue == ToSet(queue)
Delivered == ToSet(delivered)

\* Every sample the engine sent is in exactly one place, and no sample is
\* delivered twice.
EverySampleAccounted ==
    /\ posted \cup mapping \cup InQueue \cup Delivered \cup dropped \cup refused = 1..sent
    /\ Cardinality(posted) + Cardinality(mapping) + Len(queue) + Len(delivered)
         + Cardinality(dropped) + Cardinality(refused) = sent

\* If no callback overtook an older one, the hub sees the samples in order and
\* an overflow costs only samples older than everything still buffered: what is
\* shown next is never older than what was lost.
OrderedUnlessOvertaken ==
    ~overtaken =>
        /\ \A i, j \in DOMAIN delivered : i < j => delivered[i] < delivered[j]
        /\ \A s \in InQueue : /\ \A d \in dropped : d < s
                              /\ \A d \in Delivered : d < s

\* A stream that ends without error and without being cancelled has delivered
\* everything that was buffered when the call ended.
NormalEndDrains == outcome \in {"normal", "failed"} => queue = <<>>

\* Once the Docker call is over - the container stopped, the engine failed, a
\* switch disposed the client - the stream ends without being cancelled, whatever
\* is still buffered, posted or being mapped.
CallEndsStream == pump = "done" ~> reader = "ended"

\* After the browser cancelled, the stream ends, pump included.
CancelEndsStream == cancelled ~> reader = "ended"

\* Every sample sent is in the end delivered, pushed out by newer ones, or
\* refused because the stream was over: none is stuck.
EverySampleSettles ==
    \A s \in Samples :
        sent >= s ~> s \in Delivered \cup dropped \cup refused \/ reader = "ended"
=============================================================================
