------------------------- MODULE Statistics_proofs --------------------------
(***************************************************************************)
(* The safety of StatsStream, for every capacity of the channel and every  *)
(* number of samples, and the figures of StatsMapping, for every host,     *)
(* number of disks and interfaces, and width of the counters.              *)
(***************************************************************************)
EXTENDS StatsStream, StatsMapping, FiniteSetTheorems, WellFoundedInduction, TLAPS

-----------------------------------------------------------------------------
(* What writing and reading do to a buffer.                                *)

Distinct(q) == \A i, j \in DOMAIN q : i < j => q[i] # q[j]

Rising(q) == \A i, j \in DOMAIN q : i < j => q[i] < q[j]

\* A sample that is appended is in the sequence, after all others.
LEMMA Appended ==
    ASSUME NEW q \in Seq(Samples), NEW s \in Samples
    PROVE  /\ Append(q, s) \in Seq(Samples)
           /\ Len(Append(q, s)) = Len(q) + 1
           /\ ToSet(Append(q, s)) = ToSet(q) \cup {s}
           /\ Distinct(q) /\ s \notin ToSet(q) => Distinct(Append(q, s))
           /\ Rising(q) /\ (\A t \in ToSet(q) : t < s) => Rising(Append(q, s))
<1>1. /\ Append(q, s) \in Seq(Samples)
      /\ Len(Append(q, s)) = Len(q) + 1
      /\ DOMAIN Append(q, s) = 1..Len(q) + 1 /\ DOMAIN q = 1..Len(q)
      /\ \A i \in 1..Len(q) : Append(q, s)[i] = q[i]
      /\ Append(q, s)[Len(q) + 1] = s
  OBVIOUS
<1>2. ToSet(Append(q, s)) = ToSet(q) \cup {s}
  BY <1>1 DEF ToSet
<1>3. ASSUME Distinct(q), s \notin ToSet(q) PROVE Distinct(Append(q, s))
  BY <1>1, <1>3 DEF Distinct, ToSet
<1>4. ASSUME Rising(q), \A t \in ToSet(q) : t < s PROVE Rising(Append(q, s))
  BY <1>1, <1>4 DEF Rising, ToSet
<1> QED
  BY <1>1, <1>2, <1>3, <1>4

\* The head that is taken leaves the others as they are.
LEMMA Taken ==
    ASSUME NEW q \in Seq(Samples), q # <<>>
    PROVE  /\ Head(q) \in Samples /\ Tail(q) \in Seq(Samples)
           /\ Len(q) = Len(Tail(q)) + 1
           /\ ToSet(q) = {Head(q)} \cup ToSet(Tail(q))
           /\ Distinct(q) => Distinct(Tail(q)) /\ Head(q) \notin ToSet(Tail(q))
           /\ Rising(q) => Rising(Tail(q)) /\ \A t \in ToSet(Tail(q)) : Head(q) < t
<1>1. /\ Head(q) \in Samples /\ Tail(q) \in Seq(Samples)
      /\ Len(q) = Len(Tail(q)) + 1 /\ Len(Tail(q)) \in Nat
      /\ DOMAIN Tail(q) = 1..Len(Tail(q)) /\ DOMAIN q = 1..Len(Tail(q)) + 1
      /\ \A i \in 1..Len(Tail(q)) : Tail(q)[i] = q[i + 1]
      /\ Head(q) = q[1]
  OBVIOUS
<1>2. ToSet(q) = {Head(q)} \cup ToSet(Tail(q))
  <2>1. ASSUME NEW i \in DOMAIN q PROVE q[i] \in {Head(q)} \cup ToSet(Tail(q))
    <3>1. CASE i = 1
      BY <1>1, <3>1
    <3>2. CASE i # 1
      <4>1. i - 1 \in DOMAIN Tail(q) /\ q[i] = Tail(q)[i - 1]
        BY <1>1, <3>2
      <4> QED
        BY <4>1 DEF ToSet
    <3> QED
      BY <3>1, <3>2
  <2>2. ASSUME NEW i \in DOMAIN Tail(q) PROVE Tail(q)[i] \in ToSet(q)
    BY <1>1 DEF ToSet
  <2>3. Head(q) \in ToSet(q)
    BY <1>1 DEF ToSet
  <2> QED
    BY <2>1, <2>2, <2>3 DEF ToSet
<1>3. ASSUME Distinct(q) PROVE Distinct(Tail(q)) /\ Head(q) \notin ToSet(Tail(q))
  BY <1>1, <1>3 DEF Distinct, ToSet
<1>4. ASSUME Rising(q) PROVE Rising(Tail(q)) /\ \A t \in ToSet(Tail(q)) : Head(q) < t
  BY <1>1, <1>4 DEF Rising, ToSet
<1> QED
  BY <1>1, <1>2, <1>3, <1>4

\* Nothing is in an empty buffer.
LEMMA Nothing == ToSet(<<>>) = {} /\ Len(<<>>) = 0 /\ <<>> \in Seq(Samples)
                   /\ Distinct(<<>>) /\ Rising(<<>>)
BY DEF ToSet, Distinct, Rising

-----------------------------------------------------------------------------
(* The inductive invariant.                                                *)

\* No sample is in two places that it could be moved from or into.
Apart ==
    /\ posted \cap mapping = {}
    /\ (posted \cup mapping) \cap (InQueue \cup Delivered \cup dropped \cup refused) = {}
    /\ InQueue \cap dropped = {}
    /\ Distinct(queue)

\* Without overtaking, samples go from place to place in their order.
InOrder ==
    ~overtaken =>
        /\ Rising(queue) /\ Rising(delivered)
        /\ \A s \in InQueue : \A d \in Delivered \cup dropped : d < s
        /\ \A s \in posted \cup mapping : \A d \in InQueue \cup Delivered \cup dropped : d < s

\* A loop that ended by itself left an empty channel that nobody can write to.
Drained ==
    /\ outcome # "none" => reader \in {"joining", "ended"}
    /\ outcome \in {"normal", "failed"} => queue = <<>> /\ channel # "open"

StreamInv ==
    /\ TypeOK
    /\ EverySampleAccounted
    /\ Apart
    /\ InOrder
    /\ Drained

USE StreamAssumption DEF StreamAssumption

\* What the samples' places are.
flowVars == <<sent, poolVars, queue, outcomes>>

\* Every other action leaves all samples where they are.
LEMMA Flow ==
    ASSUME [Next]_vars
    PROVE  \/ EngineSends \/ TryRead
           \/ \E s \in Samples : CallbackStarts(s) \/ CallbackWrites(s)
           \/ UNCHANGED flowVars
BY DEF vars, Next, Pump, Reader, Callback, PumpStart, EngineAccepts, EngineEnds, CallCancelled,
       CallFails, PumpEnds, WaitCancelled, WaitFindsData, WaitFindsEnd, LoopEnds, HubPulls,
       JoinPump, Cancel, SwitchConnection, flowVars, poolVars, outcomes

\* The three ways of a write, and what becomes of the buffer.
Refuses(s) ==
    /\ channel # "open"
    /\ refused' = refused \cup {s}
    /\ UNCHANGED <<queue, dropped>>

PushesOut(s) ==
    /\ channel = "open" /\ queue # <<>>
    /\ queue' = Append(Tail(queue), s)
    /\ Len(queue') = Len(queue)
    /\ InQueue' = (InQueue \ {Head(queue)}) \cup {s}
    /\ Head(queue) \in InQueue
    /\ dropped' = dropped \cup {Head(queue)}
    /\ UNCHANGED refused

Buffers(s) ==
    /\ channel = "open"
    /\ queue' = Append(queue, s)
    /\ Len(queue') = Len(queue) + 1
    /\ InQueue' = InQueue \cup {s}
    /\ UNCHANGED <<dropped, refused>>

LEMMA Written ==
    ASSUME TypeOK, Distinct(queue), NEW s \in Samples, TryWrite(s)
    PROVE  Refuses(s) \/ PushesOut(s) \/ Buffers(s)
<1> USE DEF TypeOK, InQueue
<1>1. CASE channel # "open"
  BY <1>1 DEF TryWrite, Refuses
<1>2. CASE channel = "open" /\ Len(queue) = Capacity
  <2>1. queue # <<>>
    BY <1>2, Nothing
  <2>2. /\ queue' = Append(Tail(queue), s) /\ UNCHANGED refused
        /\ dropped' = dropped \cup {Head(queue)}
    BY <1>2 DEF TryWrite
  <2>3. /\ Tail(queue) \in Seq(Samples) /\ Len(queue) = Len(Tail(queue)) + 1
        /\ ToSet(queue) = {Head(queue)} \cup ToSet(Tail(queue))
        /\ Head(queue) \notin ToSet(Tail(queue))
    BY <2>1, Taken
  <2>4. /\ Len(queue') = Len(Tail(queue)) + 1
        /\ ToSet(queue') = ToSet(Tail(queue)) \cup {s}
    BY <2>2, <2>3, Appended
  <2> QED
    BY <1>2, <2>1, <2>2, <2>3, <2>4 DEF PushesOut
<1>3. CASE channel = "open" /\ Len(queue) # Capacity
  BY <1>3, Appended DEF TryWrite, Buffers
<1> QED
  BY <1>1, <1>2, <1>3

LEMMA TypeStep == ASSUME TypeOK, Distinct(queue), [Next]_vars PROVE TypeOK'
<1> USE DEF TypeOK
<1>1. CASE EngineSends
  BY <1>1 DEF EngineSends, Samples, poolVars, outcomes
<1>2. CASE TryRead
  <2>1. CASE queue = <<>>
    BY <1>2, <2>1 DEF TryRead, poolVars
  <2>2. CASE queue # <<>>
    <3>1. Tail(queue) \in Seq(Samples) /\ Append(delivered, Head(queue)) \in Seq(Samples)
      BY <2>2, Taken, Appended
    <3> QED
      BY <1>2, <2>2, <3>1 DEF TryRead, poolVars
  <2> QED
    BY <2>1, <2>2
<1>3. ASSUME NEW s \in Samples, CallbackStarts(s) PROVE TypeOK'
  BY <1>3 DEF CallbackStarts, outcomes
<1>4. ASSUME NEW s \in Samples, CallbackWrites(s) PROVE TypeOK'
  <2>1. CASE Refuses(s) \/ Buffers(s)
    BY <1>4, <2>1, Appended, SMTT(40) DEF CallbackWrites, Refuses, Buffers
  <2>2. CASE PushesOut(s)
    BY <1>4, <2>2, Taken, Appended DEF CallbackWrites, PushesOut
  <2> QED
    BY <1>4, <2>1, <2>2, Written DEF CallbackWrites
<1>5. CASE UNCHANGED flowVars
  <2>1. UNCHANGED <<sent, posted, mapping, queue, delivered, dropped, refused, overtaken>>
    BY <1>5 DEF flowVars, poolVars, outcomes
  <2>2. /\ pump' \in {"queued", "calling", "streaming", "done", "skipped"}
        /\ channel' \in {"open", "completed", "failed"}
        /\ reader' \in {"waiting", "draining", "yielding", "joining", "ended"}
        /\ outcome' \in {"none", "normal", "cancelled", "failed"}
        /\ cancelled' \in BOOLEAN /\ switched' \in BOOLEAN
    <3>1. CASE Pump
      BY <3>1 DEF Pump, PumpStart, EngineAccepts, EngineEnds, CallCancelled, CallFails, PumpEnds
    <3>2. CASE Reader
      BY <3>2 DEF Reader, WaitCancelled, WaitFindsData, WaitFindsEnd, LoopEnds, TryRead,
                  HubPulls, JoinPump
    <3>3. CASE EngineSends \/ \E s \in Samples : Callback(s)
      BY <3>3 DEF EngineSends, Callback, CallbackStarts, CallbackWrites
    <3>4. CASE Cancel \/ SwitchConnection
      BY <3>4 DEF Cancel, SwitchConnection
    <3>5. CASE UNCHANGED vars
      BY <3>5 DEF vars
    <3> QED
      BY <3>1, <3>2, <3>3, <3>4, <3>5 DEF Next
  <2> QED
    BY <2>1, <2>2
<1> QED
  BY <1>1, <1>2, <1>3, <1>4, <1>5, Flow

-----------------------------------------------------------------------------
(* Accounting.                                                             *)

\* The places are finite, so a sample that comes or goes counts one.
LEMMA OneMore ==
    ASSUME NEW S \in SUBSET Samples, NEW x \in Samples
    PROVE  /\ Cardinality(S) \in Nat
           /\ x \notin S => Cardinality(S \cup {x}) = Cardinality(S) + 1
           /\ x \in S => Cardinality(S \ {x}) = Cardinality(S) - 1
<1>1. IsFiniteSet(Samples)
  BY FS_Interval DEF Samples
<1>2. IsFiniteSet(S)
  BY <1>1, FS_Subset
<1> QED
  BY <1>2, FS_CardinalityType, FS_AddElement, FS_RemoveElement

\* The places, and how many samples are in them.
Everywhere == posted \cup mapping \cup InQueue \cup Delivered \cup dropped \cup refused

Count == Cardinality(posted) + Cardinality(mapping) + Len(queue) + Len(delivered)
           + Cardinality(dropped) + Cardinality(refused)

LEMMA Counts ==
    ASSUME TypeOK
    PROVE  /\ Cardinality(posted) \in Nat /\ Cardinality(mapping) \in Nat
           /\ Cardinality(dropped) \in Nat /\ Cardinality(refused) \in Nat
           /\ Len(queue) \in Nat /\ Len(delivered) \in Nat
           /\ sent \in Nat
<1>1. \A S \in SUBSET Samples : Cardinality(S) \in Nat
  <2> TAKE S \in SUBSET Samples
  <2>1. IsFiniteSet(Samples)
    BY FS_Interval DEF Samples
  <2>2. IsFiniteSet(S)
    BY <2>1, FS_Subset
  <2> QED
    BY <2>2, FS_CardinalityType
<1> QED
  BY <1>1 DEF TypeOK

\* A write moves a sample out of the pool and perhaps another out of the buffer.
LEMMA WriteAccounts ==
    ASSUME StreamInv, NEW s \in Samples, CallbackWrites(s)
    PROVE  Everywhere' = Everywhere /\ Count' = Count /\ Apart'
<1> USE DEF StreamInv, Apart
<1>1. /\ mapping' = mapping \ {s} /\ s \in mapping
      /\ Cardinality(mapping') = Cardinality(mapping) - 1
      /\ UNCHANGED <<posted, delivered, sent>>
      /\ Delivered' = Delivered
      /\ s \notin posted \cup InQueue \cup Delivered \cup dropped \cup refused
  BY OneMore DEF CallbackWrites, TypeOK, Delivered
<1>2. CASE Refuses(s)
  <2>1. Cardinality(refused') = Cardinality(refused) + 1
    BY <1>1, <1>2, OneMore DEF Refuses, TypeOK
  <2>2. InQueue' = InQueue
    BY <1>2 DEF Refuses, InQueue
  <2> QED
    <3>1. Everywhere' = Everywhere /\ Apart'
      BY <1>1, <1>2, <2>2 DEF Refuses, Everywhere
    <3>2. /\ Len(queue') = Len(queue) /\ Len(delivered') = Len(delivered)
          /\ Cardinality(posted') = Cardinality(posted)
          /\ Cardinality(dropped') = Cardinality(dropped)
      BY <1>1, <1>2 DEF Refuses
    <3>3. Count' = Count
      <4>1. /\ Cardinality(posted) \in Nat /\ Cardinality(mapping) \in Nat
            /\ Cardinality(dropped) \in Nat /\ Cardinality(refused) \in Nat
            /\ Len(queue) \in Nat /\ Len(delivered) \in Nat
        BY Counts
      <4>2. Cardinality(mapping') + Cardinality(refused') = Cardinality(mapping) + Cardinality(refused)
        BY <1>1, <2>1, <4>1
      <4>3. Cardinality(mapping') \in Nat /\ Cardinality(refused') \in Nat
        <5>1. mapping' \in SUBSET Samples /\ refused' \in SUBSET Samples
          BY <1>1, <1>2 DEF Refuses, TypeOK
        <5> QED
          BY <5>1, OneMore
      <4> HIDE DEF StreamInv, Apart
      <4> QED
        BY <3>2, <4>1, <4>2, <4>3, SMTT(40) DEF Count
    <3> QED
      BY <3>1, <3>3
<1>3. CASE PushesOut(s)
  <2>1. Head(queue) \in Samples /\ Tail(queue) \in Seq(Samples) /\ Distinct(Tail(queue))
          /\ InQueue = {Head(queue)} \cup ToSet(Tail(queue))
    BY <1>3, Taken DEF PushesOut, TypeOK, InQueue
  <2>2. Cardinality(dropped') = Cardinality(dropped) + 1
    BY <1>3, <2>1, OneMore DEF PushesOut, TypeOK
  <2>3. Distinct(queue')
    BY <1>1, <1>3, <2>1, Appended DEF PushesOut
  <2> QED
    <3>1. Everywhere' = Everywhere /\ Apart'
      BY <1>1, <1>3, <2>3 DEF PushesOut, Everywhere
    <3>2. /\ Len(queue') = Len(queue) /\ Len(delivered') = Len(delivered)
          /\ Cardinality(posted') = Cardinality(posted)
          /\ Cardinality(refused') = Cardinality(refused)
      BY <1>1, <1>3 DEF PushesOut
    <3>3. Count' = Count
      <4>1. /\ Cardinality(posted) \in Nat /\ Cardinality(mapping) \in Nat
            /\ Cardinality(dropped) \in Nat /\ Cardinality(refused) \in Nat
            /\ Len(queue) \in Nat /\ Len(delivered) \in Nat
        BY Counts
      <4>2. Cardinality(mapping') = Cardinality(mapping) - 1
        BY <1>1
      <4> HIDE DEF StreamInv, Apart
      <4> QED
        BY <2>2, <3>2, <4>1, <4>2, SMTT(40) DEF Count
    <3> QED
      BY <3>1, <3>3
<1>4. CASE Buffers(s)
  <2>1. Distinct(queue')
    BY <1>1, <1>4, Appended DEF Buffers, TypeOK, InQueue
  <2> QED
    <3>1. Everywhere' = Everywhere /\ Apart'
      BY <1>1, <1>4, <2>1 DEF Buffers, Everywhere
    <3>2. /\ Len(queue') = Len(queue) + 1 /\ Len(delivered') = Len(delivered)
          /\ Cardinality(posted') = Cardinality(posted)
          /\ Cardinality(dropped') = Cardinality(dropped)
          /\ Cardinality(refused') = Cardinality(refused)
      BY <1>1, <1>4 DEF Buffers
    <3>3. Count' = Count
      <4>1. /\ Cardinality(posted) \in Nat /\ Cardinality(mapping) \in Nat
            /\ Cardinality(dropped) \in Nat /\ Cardinality(refused) \in Nat
            /\ Len(queue) \in Nat /\ Len(delivered) \in Nat
        BY Counts
      <4>2. Cardinality(mapping') = Cardinality(mapping) - 1
        BY <1>1
      <4> HIDE DEF StreamInv, Apart
      <4> QED
        BY <3>2, <4>1, <4>2, SMTT(40) DEF Count
    <3> QED
      BY <3>1, <3>3
<1> QED
  BY <1>2, <1>3, <1>4, Written DEF CallbackWrites

LEMMA AccountStep ==
    ASSUME StreamInv, [Next]_vars
    PROVE  EverySampleAccounted' /\ Apart'
<1> USE DEF StreamInv, Apart
<1>1. EverySampleAccounted <=> Everywhere = 1..sent /\ Count = sent
  BY DEF EverySampleAccounted, Everywhere, Count
<1>2. EverySampleAccounted' <=> Everywhere' = 1..sent' /\ Count' = sent'
  BY DEF EverySampleAccounted, Everywhere, Count
<1>3. CASE EngineSends
  <2>1. sent + 1 \in Samples /\ sent + 1 \notin 1..sent /\ 1..sent' = 1..sent \cup {sent + 1}
    BY <1>3, Counts DEF EngineSends, TypeOK, Samples
  <2>2. /\ posted' = posted \cup {sent + 1}
        /\ UNCHANGED <<mapping, queue, delivered, dropped, refused, InQueue, Delivered>>
    BY <1>3 DEF EngineSends, outcomes, InQueue, Delivered
  <2>3. Cardinality(posted') = Cardinality(posted) + 1
    BY <1>1, <2>1, <2>2, OneMore DEF TypeOK, Everywhere
  <2>4. Everywhere' = 1..sent' /\ Apart'
    BY <1>1, <2>1, <2>2 DEF Everywhere
  <2>5. Count' = sent'
    BY <1>1, <1>3, <2>2, <2>3, Counts, SMTT(40) DEF EngineSends, Count
  <2> QED
    BY <1>2, <2>4, <2>5
<1>4. CASE TryRead
  <2>1. CASE queue = <<>>
    <3>1. UNCHANGED <<sent, posted, mapping, queue, delivered, dropped, refused, InQueue, Delivered>>
      BY <1>4, <2>1 DEF TryRead, poolVars, InQueue, Delivered
    <3> QED
      BY <1>1, <1>2, <3>1 DEF Everywhere, Count
  <2>2. CASE queue # <<>>
    <3>1. /\ UNCHANGED <<sent, posted, mapping, dropped, refused>>
          /\ queue' = Tail(queue) /\ delivered' = Append(delivered, Head(queue))
      BY <1>4, <2>2 DEF TryRead, poolVars
    <3>2. /\ InQueue = {Head(queue)} \cup InQueue' /\ Delivered' = Delivered \cup {Head(queue)}
          /\ Len(queue) = Len(queue') + 1 /\ Len(delivered') = Len(delivered) + 1
          /\ Distinct(queue') /\ Len(queue') \in Nat
      BY <2>2, <3>1, Taken, Appended DEF TypeOK, InQueue, Delivered
    <3>3. Everywhere' = Everywhere /\ Apart'
      BY <3>1, <3>2 DEF Everywhere
    <3>4. /\ Cardinality(posted') = Cardinality(posted)
          /\ Cardinality(mapping') = Cardinality(mapping)
          /\ Cardinality(dropped') = Cardinality(dropped)
          /\ Cardinality(refused') = Cardinality(refused)
      BY <3>1
    <3>5. Count' = Count
      <4>1. /\ Cardinality(posted) \in Nat /\ Cardinality(mapping) \in Nat
            /\ Cardinality(dropped) \in Nat /\ Cardinality(refused) \in Nat
            /\ Len(queue) \in Nat /\ Len(delivered) \in Nat /\ Len(queue') \in Nat
        BY <3>2, Counts
      <4>2. Len(queue) = Len(queue') + 1 /\ Len(delivered') = Len(delivered) + 1
        BY <3>2
      <4>3. Len(queue') + Len(delivered') = Len(queue) + Len(delivered)
        BY <4>1, <4>2
      <4>4. Len(delivered') \in Nat
        BY <4>1, <4>2
      <4> HIDE DEF StreamInv, Apart
      <4> QED
        BY <3>4, <4>1, <4>3, <4>4, SMTT(40) DEF Count
    <3> QED
      BY <1>1, <1>2, <3>1, <3>3, <3>5
  <2> QED
    BY <2>1, <2>2
<1>5. ASSUME NEW s \in Samples, CallbackStarts(s) PROVE EverySampleAccounted' /\ Apart'
  <2>1. /\ s \in posted /\ posted' = posted \ {s} /\ mapping' = mapping \cup {s}
        /\ UNCHANGED <<sent, queue, delivered, dropped, refused, InQueue, Delivered>>
    BY <1>5 DEF CallbackStarts, outcomes, InQueue, Delivered
  <2>2. /\ Cardinality(posted') = Cardinality(posted) - 1
        /\ Cardinality(mapping') = Cardinality(mapping) + 1
    BY <2>1, OneMore DEF TypeOK
  <2>3. Everywhere' = Everywhere /\ Apart'
    BY <2>1 DEF Everywhere
  <2>4. Count' = Count
    BY <2>1, <2>2, Counts DEF Count
  <2> QED
    BY <1>1, <1>2, <2>1, <2>3, <2>4
<1>6. ASSUME NEW s \in Samples, CallbackWrites(s) PROVE EverySampleAccounted' /\ Apart'
  BY <1>1, <1>2, <1>6, WriteAccounts DEF CallbackWrites
<1>7. CASE UNCHANGED flowVars
  <2>1. UNCHANGED <<sent, posted, mapping, queue, delivered, dropped, refused, InQueue, Delivered>>
    BY <1>7 DEF flowVars, poolVars, outcomes, InQueue, Delivered
  <2> QED
    BY <1>1, <1>2, <2>1 DEF Everywhere, Count
<1> QED
  BY <1>3, <1>4, <1>5, <1>6, <1>7, Flow

-----------------------------------------------------------------------------
(* Order.                                                                  *)

LEMMA OrderStep ==
    ASSUME StreamInv, [Next]_vars
    PROVE  InOrder'
<1> SUFFICES ASSUME ~overtaken'
             PROVE  /\ Rising(queue') /\ Rising(delivered')
                    /\ \A s \in InQueue' : \A d \in Delivered' \cup dropped' : d < s
                    /\ \A s \in posted' \cup mapping' :
                         \A d \in InQueue' \cup Delivered' \cup dropped' : d < s
  BY DEF InOrder
<1> DEFINE Goal == /\ Rising(queue') /\ Rising(delivered')
                   /\ \A s \in InQueue' : \A d \in Delivered' \cup dropped' : d < s
                   /\ \A s \in posted' \cup mapping' :
                        \A d \in InQueue' \cup Delivered' \cup dropped' : d < s
<1>1. TypeOK /\ Apart /\ InQueue \cup Delivered \cup dropped \subseteq 1..sent
  BY DEF StreamInv, EverySampleAccounted
<1>2. ~overtaken =>
        /\ Rising(queue) /\ Rising(delivered)
        /\ \A s \in InQueue : \A d \in Delivered \cup dropped : d < s
        /\ \A s \in posted \cup mapping : \A d \in InQueue \cup Delivered \cup dropped : d < s
  BY DEF StreamInv, InOrder
<1>3. CASE EngineSends
  <2>1. /\ posted' = posted \cup {sent + 1}
        /\ UNCHANGED <<mapping, queue, delivered, dropped, InQueue, Delivered, overtaken>>
    BY <1>3 DEF EngineSends, outcomes, InQueue, Delivered
  <2>2. \A d \in InQueue \cup Delivered \cup dropped : d < sent + 1
    BY <1>1 DEF TypeOK
  <2> QED
    BY <1>2, <2>1, <2>2
<1>4. CASE TryRead
  <2>1. UNCHANGED <<posted, mapping, dropped, overtaken>>
    BY <1>4 DEF TryRead, poolVars
  <2>2. CASE queue = <<>>
    <3>1. UNCHANGED <<queue, delivered, InQueue, Delivered>>
      BY <1>4, <2>2 DEF TryRead, InQueue, Delivered
    <3> QED
      BY <1>2, <2>1, <3>1
  <2>3. CASE queue # <<>>
    <3>1. queue' = Tail(queue) /\ delivered' = Append(delivered, Head(queue))
      BY <1>4, <2>3 DEF TryRead
    <3>2. /\ InQueue = {Head(queue)} \cup InQueue' /\ Delivered' = Delivered \cup {Head(queue)}
          /\ Rising(queue') /\ \A t \in InQueue' : Head(queue) < t
      BY <1>1, <1>2, <2>1, <2>3, <3>1, Taken, Appended DEF TypeOK, InQueue, Delivered
    <3>3. Rising(delivered')
      BY <1>1, <1>2, <2>1, <2>3, <3>1, <3>2, Taken, Appended DEF TypeOK, Delivered
    <3> QED
      BY <1>2, <2>1, <3>2, <3>3
  <2> QED
    BY <2>2, <2>3
<1>5. ASSUME NEW s \in Samples, CallbackStarts(s) PROVE Goal
  <2>1. /\ s \in posted /\ posted' = posted \ {s} /\ mapping' = mapping \cup {s}
        /\ UNCHANGED <<queue, delivered, dropped, InQueue, Delivered, overtaken>>
    BY <1>5 DEF CallbackStarts, outcomes, InQueue, Delivered
  <2> QED
    BY <1>2, <2>1
<1>6. ASSUME NEW s \in Samples, CallbackWrites(s) PROVE Goal
  <2>1. /\ s \in mapping /\ mapping' = mapping \ {s}
        /\ ~overtaken /\ \A t \in posted \cup mapping : ~(t < s)
        /\ UNCHANGED <<posted, delivered, Delivered>>
    BY <1>6 DEF CallbackWrites, Delivered
  <2>2. \A t \in posted' \cup mapping' : s < t
    BY <1>1, <2>1 DEF TypeOK, Apart, Samples
  <2>3. \A d \in InQueue \cup Delivered \cup dropped : d < s
    BY <1>2, <2>1
  <2>4. CASE Refuses(s)
    <3>1. UNCHANGED <<queue, dropped, InQueue>>
      BY <2>4 DEF Refuses, InQueue
    <3> QED
      BY <1>2, <2>1, <3>1
  <2>5. CASE PushesOut(s)
    <3>1. /\ Tail(queue) \in Seq(Samples) /\ Rising(Tail(queue))
          /\ InQueue = {Head(queue)} \cup ToSet(Tail(queue))
          /\ \A t \in ToSet(Tail(queue)) : Head(queue) < t
      BY <1>1, <1>2, <2>1, <2>5, Taken DEF PushesOut, TypeOK, InQueue
    <3>2. /\ Rising(queue') /\ InQueue' = ToSet(Tail(queue)) \cup {s}
          /\ dropped' = dropped \cup {Head(queue)}
      BY <2>3, <2>5, <3>1, Appended DEF PushesOut, InQueue
    <3>3. \A x \in InQueue' : \A d \in Delivered' \cup dropped' : d < x
      BY <1>2, <2>1, <2>3, <3>1, <3>2
    <3>4. \A x \in posted' \cup mapping' : \A d \in InQueue' \cup Delivered' \cup dropped' : d < x
      BY <1>2, <2>1, <2>2, <3>1, <3>2
    <3> QED
      BY <1>2, <2>1, <3>2, <3>3, <3>4
  <2>6. CASE Buffers(s)
    <3>1. Rising(queue')
      BY <1>1, <1>2, <2>1, <2>3, <2>6, Appended DEF Buffers, TypeOK, InQueue
    <3> QED
      BY <1>2, <2>1, <2>2, <2>3, <2>6, <3>1 DEF Buffers
  <2> QED
    BY <1>1, <1>6, <2>4, <2>5, <2>6, Written DEF CallbackWrites, Apart
<1>7. CASE UNCHANGED flowVars
  <2>1. UNCHANGED <<posted, mapping, queue, delivered, dropped, InQueue, Delivered, overtaken>>
    BY <1>7 DEF flowVars, poolVars, outcomes, InQueue, Delivered
  <2> QED
    BY <1>2, <2>1
<1> QED
  BY <1>3, <1>4, <1>5, <1>6, <1>7, Flow

-----------------------------------------------------------------------------
(* Ends.                                                                   *)

\* A loop that found its end ends for good: the channel stays closed and empty.
LEMMA EndStep ==
    ASSUME TypeOK, Drained, [Next]_vars
    PROVE  Drained'
<1> USE DEF Drained
<1>1. CASE Pump
  BY <1>1 DEF Pump, PumpStart, EngineAccepts, EngineEnds, CallCancelled, CallFails, PumpEnds
<1>2. CASE Reader
  <2>1. CASE TryRead
    BY <1>2, <2>1 DEF TryRead
  <2>2. CASE WaitCancelled \/ WaitFindsEnd
    BY <1>2, <2>2 DEF WaitCancelled, WaitFindsEnd, LoopEnds
  <2>3. CASE WaitFindsData \/ HubPulls \/ JoinPump
    BY <1>2, <2>3 DEF WaitFindsData, HubPulls, JoinPump
  <2> QED
    BY <1>2, <2>1, <2>2, <2>3 DEF Reader
<1>3. CASE EngineSends \/ Cancel \/ SwitchConnection
  BY <1>3 DEF EngineSends, Cancel, SwitchConnection
<1>4. ASSUME NEW s \in Samples, Callback(s) PROVE Drained'
  BY <1>4 DEF Callback, CallbackStarts, CallbackWrites, TryWrite
<1>5. CASE UNCHANGED vars
  BY <1>5 DEF vars
<1> QED
  BY <1>1, <1>2, <1>3, <1>4, <1>5 DEF Next

-----------------------------------------------------------------------------
(* The theorems.                                                           *)

LEMMA InitInv == ASSUME Init PROVE StreamInv
<1> USE DEF Init
<1>1. TypeOK
  <2>1. 0 \in 0..MaxSamples
    OBVIOUS
  <2> QED
    BY <2>1, Nothing DEF TypeOK
<1>2. EverySampleAccounted
  <2>1. InQueue = {} /\ Delivered = {} /\ Len(queue) = 0 /\ Len(delivered) = 0
    BY Nothing DEF InQueue, Delivered
  <2>2. Cardinality({}) = 0
    BY FS_EmptySet
  <2> QED
    BY <2>1, <2>2 DEF EverySampleAccounted
<1>3. Apart /\ InOrder
  BY Nothing DEF Apart, InOrder, InQueue, Delivered
<1>4. Drained
  BY DEF Drained
<1> QED
  BY <1>1, <1>2, <1>3, <1>4 DEF StreamInv

\* The inductive invariant holds in every reachable state.
THEOREM StreamInvariance == Spec => []StreamInv
<1>1. Init => StreamInv
  BY InitInv
<1>2. StreamInv /\ [Next]_vars => StreamInv'
  BY TypeStep, AccountStep, OrderStep, EndStep DEF StreamInv, Apart
<1> QED
  BY <1>1, <1>2, PTL DEF Spec

\* No sample is lost unaccounted and none delivered twice, for any capacity and in
\* any order of the callbacks that Progress<T> posts.
THEOREM SamplesAccounted == Spec => []EverySampleAccounted
BY StreamInvariance, PTL DEF StreamInv

\* The hub sees the samples in their order, and the full channel drops the oldest,
\* unless a callback overtook an older one.
THEOREM SamplesInOrder == Spec => []OrderedUnlessOvertaken
<1>1. StreamInv => OrderedUnlessOvertaken
  BY DEF StreamInv, InOrder, OrderedUnlessOvertaken, Rising
<1> QED
  BY <1>1, StreamInvariance, PTL

\* A stream that found its end has handed out what the channel held.
THEOREM EndsDrained == Spec => []NormalEndDrains
<1>1. StreamInv => NormalEndDrains
  BY DEF StreamInv, Drained, NormalEndDrains
<1> QED
  BY <1>1, StreamInvariance, PTL

-----------------------------------------------------------------------------
HIDE StreamAssumption DEF StreamAssumption

(***************************************************************************)
(* StatsMapping: sums.  The library's fold takes the elements in an order  *)
(* of its own; of numbers, every order gives the same.                     *)
(***************************************************************************)

\* A set of naturals that holds 0 and every successor of its members holds all of them.
LEMMA SetInduction ==
    ASSUME NEW T \in SUBSET Nat, 0 \in T, \A n \in T : n + 1 \in T
    PROVE  T = Nat
<1> DEFINE R == {pair \in Nat \X Nat : pair[1] < pair[2]}
<1>1. IsWellFoundedOn(R, Nat)
  BY NatLessThanWellFounded DEF OpToRel
<1>2. SUFFICES ASSUME Nat \ T # {} PROVE FALSE
  OBVIOUS
<1>3. PICK m \in Nat \ T : \A n \in Nat \ T : ~(<<n, m>> \in R)
  <2> HIDE DEF R
  <2> QED
    BY <1>1, <1>2, WFMin
<1>4. m - 1 \in Nat \ T
  BY <1>3
<1>5. <<m - 1, m>> \in R
  BY <1>4
<1> QED
  BY <1>3, <1>4, <1>5

\* What holds of a finite set when it holds of the set without any one of its elements
\* holds of all finite sets.
LEMMA SubsetInduction ==
    ASSUME NEW S, IsFiniteSet(S), NEW T \in SUBSET (SUBSET S),
           \A s \in SUBSET S : (\A x \in s : s \ {x} \in T) => s \in T
    PROVE  T = SUBSET S
<1> DEFINE R == StrictSubsetOrdering(S)
<1>1. IsWellFoundedOn(R, SUBSET S)
  <2>1. FiniteSubsetsOf(S) = SUBSET S
    BY FS_FiniteSubsetsOfFinite
  <2>2. IsWellFoundedOn(R, FiniteSubsetsOf(S))
    BY FS_StrictSubsetOrderingWellFounded
  <2> HIDE DEF R
  <2> QED
    BY <2>1, <2>2
<1>2. SUFFICES ASSUME (SUBSET S) \ T # {} PROVE FALSE
  OBVIOUS
<1>3. PICK s \in (SUBSET S) \ T : \A t \in (SUBSET S) \ T : ~(<<t, s>> \in R)
  <2> HIDE DEF R
  <2> QED
    BY <1>1, <1>2, WFMin
<1>4. PICK x \in s : s \ {x} \notin T
  BY <1>3
<1>5. <<s \ {x}, s>> \in R
  BY <1>4 DEF StrictSubsetOrdering
<1> QED
  BY <1>3, <1>4, <1>5

\* g is the sum over all subsets of S, as the recursion makes it.
Sums(g, f, S) ==
    g = [s \in SUBSET S |->
           IF s = {} THEN 0
           ELSE f[CHOOSE x \in s : TRUE] + g[s \ {CHOOSE x \in s : TRUE}]]

\* What the library's SumFunctionOnSet is.
LEMMA SumIsSums ==
    ASSUME NEW f, NEW S
    PROVE  SumFunctionOnSet(f, S) = (CHOOSE g : Sums(g, f, S))[S]
  BY DEF SumFunctionOnSet, FoldFunctionOnSet, MapThenFoldSet, Sums

\* The subsets up to a size.
Small(S, n) == {s \in SUBSET S : Cardinality(s) <= n}

\* The recursion defines a function: on the subsets of each size, from those that are smaller.
LEMMA SumsExist ==
    ASSUME NEW f, NEW S, IsFiniteSet(S)
    PROVE  \E g : Sums(g, f, S)
<1> DEFINE pick(s) == CHOOSE x \in s : TRUE
           Upto(g, n) == g = [s \in Small(S, n) |->
                                IF s = {} THEN 0 ELSE f[pick(s)] + g[s \ {pick(s)}]]
           N == {n \in Nat : \E g : Upto(g, n)}
<1>0. \A s \in SUBSET S : /\ IsFiniteSet(s) /\ Cardinality(s) \in Nat
                          /\ Cardinality(s) <= Cardinality(S)
                          /\ Cardinality(s) = 0 <=> s = {}
                          /\ s # {} => /\ pick(s) \in s
                                       /\ Cardinality(s \ {pick(s)}) = Cardinality(s) - 1
  <2> SUFFICES ASSUME NEW s \in SUBSET S
      PROVE  /\ IsFiniteSet(s) /\ Cardinality(s) \in Nat
             /\ Cardinality(s) <= Cardinality(S)
             /\ Cardinality(s) = 0 <=> s = {}
             /\ s # {} => /\ pick(s) \in s
                          /\ Cardinality(s \ {pick(s)}) = Cardinality(s) - 1
    OBVIOUS
  <2>1. IsFiniteSet(s) /\ Cardinality(s) <= Cardinality(S)
    BY FS_Subset
  <2>2. Cardinality(s) \in Nat /\ (Cardinality(s) = 0 <=> s = {})
    BY <2>1, FS_CardinalityType, FS_EmptySet
  <2>3. s # {} => pick(s) \in s
    OBVIOUS
  <2> HIDE DEF pick
  <2>4. s # {} => Cardinality(s \ {pick(s)}) = Cardinality(s) - 1
    BY <2>1, <2>3, FS_RemoveElement
  <2> QED
    BY <2>1, <2>2, <2>3, <2>4
<1> HIDE DEF pick
<1>1. 0 \in N
  <2> DEFINE g == [s \in Small(S, 0) |-> 0]
  <2>1. ASSUME NEW s \in Small(S, 0) PROVE s = {}
    <3>1. s \in SUBSET S /\ Cardinality(s) <= 0
      BY DEF Small
    <3>2. Cardinality(s) \in Nat /\ (Cardinality(s) = 0 <=> s = {})
      BY <1>0, <3>1
    <3> QED
      BY <3>1, <3>2
  <2>2. Upto(g, 0)
    BY <2>1
  <2> QED
    BY <2>2
<1>2. \A n \in N : n + 1 \in N
  <2> SUFFICES ASSUME NEW n \in N PROVE n + 1 \in N
    OBVIOUS
  <2>1. PICK g : Upto(g, n)
    OBVIOUS
  <2> DEFINE h == [s \in Small(S, n + 1) |->
                     IF s = {} THEN 0 ELSE f[pick(s)] + g[s \ {pick(s)}]]
  <2>2. \A s \in Small(S, n + 1) : s # {} => s \ {pick(s)} \in Small(S, n)
    BY <1>0 DEF Small
  <2>3. ASSUME NEW s \in Small(S, n) PROVE s \in Small(S, n + 1)
    <3>1. s \in SUBSET S /\ Cardinality(s) <= n /\ n \in Nat
      BY DEF Small
    <3>2. Cardinality(s) \in Nat
      BY <1>0, <3>1
    <3>3. Cardinality(s) <= n + 1
      BY <3>1, <3>2
    <3> QED
      BY <3>1, <3>3 DEF Small
  <2>4. \A s \in Small(S, n) : h[s] = g[s]
    BY <2>1, <2>3
  <2>5. Upto(h, n + 1)
    BY <2>2, <2>4
  <2>6. n + 1 \in Nat
    OBVIOUS
  <2> HIDE DEF h, Upto
  <2>7. \E g_ : Upto(g_, n + 1)
    BY <2>5, Zenon
  <2> QED
    BY <2>6, <2>7
<1>3. N = Nat
  <2>1. N \in SUBSET Nat
    OBVIOUS
  <2> HIDE DEF N
  <2> QED
    BY <1>1, <1>2, <2>1, SetInduction
<1>4. Cardinality(S) \in Nat /\ Small(S, Cardinality(S)) = SUBSET S
  BY <1>0 DEF Small
<1>5. \E g : Upto(g, Cardinality(S))
  BY <1>3, <1>4
<1> QED
  BY <1>4, <1>5 DEF Sums, pick

\* The sum over a set does not depend on the set whose subset it is.
LEMMA SumsUnique ==
    ASSUME NEW f, NEW S, IsFiniteSet(S), NEW A \in SUBSET S,
           NEW g, Sums(g, f, S), NEW h, Sums(h, f, A)
    PROVE  \A s \in SUBSET A : g[s] = h[s]
<1> DEFINE T == {s \in SUBSET A : g[s] = h[s]}
           pick(s) == CHOOSE x \in s : TRUE
<1>1. IsFiniteSet(A)
  BY FS_Subset
<1>2. ASSUME NEW s \in SUBSET A, \A x \in s : s \ {x} \in T PROVE s \in T
  <2>1. s # {} => pick(s) \in s
    OBVIOUS
  <2> HIDE DEF pick
  <2>2. s # {} => g[s \ {pick(s)}] = h[s \ {pick(s)}]
    BY <1>2, <2>1
  <2>3. g[s] = IF s = {} THEN 0 ELSE f[pick(s)] + g[s \ {pick(s)}]
    BY DEF Sums, pick
  <2>4. h[s] = IF s = {} THEN 0 ELSE f[pick(s)] + h[s \ {pick(s)}]
    BY DEF Sums, pick
  <2> QED
    BY <2>2, <2>3, <2>4
<1>3. T \in SUBSET (SUBSET A)
  OBVIOUS
<1>4. T = SUBSET A
  <2> HIDE DEF T
  <2> QED
    BY <1>1, <1>2, <1>3, SubsetInduction
<1> QED
  BY <1>4

\* The library takes the element that CHOOSE picks first.
LEMMA SumRecursion ==
    ASSUME NEW f, NEW S, IsFiniteSet(S)
    PROVE  SumFunctionOnSet(f, S) =
             IF S = {} THEN 0
             ELSE f[CHOOSE x \in S : TRUE]
                  + SumFunctionOnSet(f, S \ {CHOOSE x \in S : TRUE})
<1> DEFINE y == CHOOSE x \in S : TRUE
           A == S \ {y}
           g == CHOOSE g : Sums(g, f, S)
           h == CHOOSE h : Sums(h, f, A)
<1>1. IsFiniteSet(A) /\ A \in SUBSET S /\ A \in SUBSET A
  BY FS_Subset
<1>2. Sums(g, f, S)
  BY SumsExist, Zenon
<1>3. Sums(h, f, A)
  <2> HIDE DEF A
  <2> QED
    BY <1>1, SumsExist, Zenon
<1>4. SumFunctionOnSet(f, S) = g[S] /\ SumFunctionOnSet(f, A) = h[A]
  BY SumIsSums
<1> HIDE DEF g, h, y
<1>5. g[A] = h[A]
  <2> HIDE DEF A
  <2> QED
    BY <1>1, <1>2, <1>3, SumsUnique
<1>6. g[S] = IF S = {} THEN 0 ELSE f[y] + g[A]
  BY <1>2 DEF Sums, y
<1> QED
  BY <1>4, <1>5, <1>6 DEF y

\* Any element of the set can be taken as the first.
LEMMA SumTakes ==
    ASSUME NEW f, NEW S, IsFiniteSet(S), \A x \in S : f[x] \in Int
    PROVE  /\ SumFunctionOnSet(f, {}) = 0
           /\ SumFunctionOnSet(f, S) \in Int
           /\ \A x \in S : SumFunctionOnSet(f, S) = f[x] + SumFunctionOnSet(f, S \ {x})
<1> DEFINE sum(s) == SumFunctionOnSet(f, s)
           pick(s) == CHOOSE x \in s : TRUE
           T == {s \in SUBSET S : \A x \in s : sum(s) = f[x] + sum(s \ {x})}
<1>1. ASSUME NEW s \in SUBSET S
      PROVE  sum(s) = IF s = {} THEN 0 ELSE f[pick(s)] + sum(s \ {pick(s)})
  <2>1. IsFiniteSet(s)
    BY FS_Subset
  <2> QED
    BY <2>1, SumRecursion
<1>2. \A s \in SUBSET S : s # {} => pick(s) \in s
  OBVIOUS
<1> HIDE DEF sum, pick
<1>3. ASSUME NEW s \in SUBSET S PROVE sum(s) \in Int
  <2> DEFINE N == {t \in SUBSET S : sum(t) \in Int}
  <2>1. ASSUME NEW t \in SUBSET S, \A x \in t : t \ {x} \in N PROVE t \in N
    <3>1. CASE t = {}
      <4>1. sum(t) = 0
        BY <1>1, <3>1
      <4> QED
        BY <4>1
    <3>2. CASE t # {}
      <4>1. pick(t) \in t /\ sum(t) = f[pick(t)] + sum(t \ {pick(t)})
        BY <1>1, <1>2, <3>2
      <4>2. sum(t \ {pick(t)}) \in Int /\ f[pick(t)] \in Int
        BY <2>1, <4>1
      <4> QED
        BY <4>1, <4>2
    <3> QED
      BY <3>1, <3>2
  <2>2. N \in SUBSET (SUBSET S)
    OBVIOUS
  <2>3. N = SUBSET S
    <3> HIDE DEF N
    <3> QED
      BY <2>1, <2>2, SubsetInduction
  <2> QED
    BY <2>3
<1>4. ASSUME NEW s \in SUBSET S, \A x \in s : s \ {x} \in T PROVE s \in T
  <2> SUFFICES ASSUME NEW x \in s PROVE sum(s) = f[x] + sum(s \ {x})
    OBVIOUS
  <2> DEFINE y == pick(s)
             t == (s \ {x}) \ {y}
  <2>1. y \in s /\ y \in S /\ x \in S /\ sum(s) = f[y] + sum(s \ {y})
    BY <1>1, <1>2
  <2> HIDE DEF y
  <2>2. CASE x # y
    <3>1. /\ t = (s \ {y}) \ {x} /\ x \in s \ {y} /\ y \in s \ {x}
          /\ t \in SUBSET S /\ s \ {x} \in SUBSET S /\ s \ {y} \in SUBSET S
      BY <2>1, <2>2
    <3>2. sum(s \ {y}) = f[x] + sum(t)
      BY <1>4, <2>1, <3>1
    <3>3. sum(s \ {x}) = f[y] + sum(t)
      BY <1>4, <3>1
    <3> HIDE DEF t
    <3>4. sum(t) \in Int /\ f[x] \in Int /\ f[y] \in Int
      BY <1>3, <2>1, <3>1
    <3> QED
      BY <2>1, <3>2, <3>3, <3>4
  <2> QED
    BY <2>1, <2>2
<1>5. T = SUBSET S
  <2>1. T \in SUBSET (SUBSET S)
    OBVIOUS
  <2> HIDE DEF T
  <2> QED
    BY <1>4, <2>1, SubsetInduction
<1>6. sum(S) \in Int /\ \A x \in S : sum(S) = f[x] + sum(S \ {x})
  <2>1. S \in SUBSET S
    OBVIOUS
  <2>2. S \in T
    BY <1>5, <2>1, Zenon
  <2> QED
    BY <1>3, <2>1, <2>2
<1>7. sum({}) = 0
  BY <1>1
<1> QED
  BY <1>6, <1>7 DEF sum

\* The same, for all subsets at once.
LEMMA SumsWithin ==
    ASSUME NEW f, NEW S, IsFiniteSet(S), \A x \in S : f[x] \in Int
    PROVE  /\ SumFunctionOnSet(f, {}) = 0
           /\ \A s \in SUBSET S :
                \A x \in s : SumFunctionOnSet(f, s) = f[x] + SumFunctionOnSet(f, s \ {x})
<1>1. ASSUME NEW s \in SUBSET S, NEW x \in s
      PROVE  SumFunctionOnSet(f, s) = f[x] + SumFunctionOnSet(f, s \ {x})
  <2>1. IsFiniteSet(s) /\ \A y \in s : f[y] \in Int
    BY FS_Subset
  <2> QED
    BY <2>1, SumTakes
<1> QED
  BY <1>1, SumTakes

\* Equal numbers have equal sums, whatever they are numbers of.
LEMMA SumReindexed ==
    ASSUME NEW f, NEW S, IsFiniteSet(S), NEW h, NEW T, NEW b \in Bijection(S, T),
           \A x \in S : f[x] \in Int /\ h[b[x]] = f[x]
    PROVE  SumFunctionOnSet(f, S) = SumFunctionOnSet(h, T)
<1> DEFINE image(s) == {b[x] : x \in s}
           sumF(s) == SumFunctionOnSet(f, s)
           sumH(s) == SumFunctionOnSet(h, s)
           N == {s \in SUBSET S : sumF(s) = sumH(image(s))}
<1>1. /\ \A x \in S : b[x] \in T
      /\ \A x, y \in S : b[x] = b[y] => x = y
      /\ \A y \in T : \E x \in S : b[x] = y
  BY DEF Bijection, Injection, Surjection, IsInjective
<1>2. IsFiniteSet(T) /\ \A y \in T : h[y] \in Int
  <2>1. IsFiniteSet(T)
    BY FS_Bijection DEF ExistsBijection
  <2> QED
    BY <1>1, <2>1
<1>3. /\ sumF({}) = 0
      /\ \A s \in SUBSET S : \A x \in s : sumF(s) = f[x] + sumF(s \ {x})
  BY SumsWithin
<1>4. /\ sumH({}) = 0
      /\ \A s \in SUBSET T : \A x \in s : sumH(s) = h[x] + sumH(s \ {x})
  BY <1>2, SumsWithin
<1> HIDE DEF sumF, sumH
<1>5. ASSUME NEW s \in SUBSET S, \A x \in s : s \ {x} \in N PROVE s \in N
  <2>1. CASE s = {}
    <3>1. image(s) = {}
      BY <2>1
    <3> HIDE DEF image
    <3> QED
      BY <1>3, <1>4, <2>1, <3>1
  <2>2. CASE s # {}
    <3>1. PICK x \in s : TRUE
      BY <2>2
    <3>2. /\ image(s) \in SUBSET T /\ b[x] \in image(s)
          /\ image(s) \ {b[x]} = image(s \ {x})
      BY <1>1
    <3> HIDE DEF image
    <3>3. sumH(image(s)) = h[b[x]] + sumH(image(s \ {x}))
      BY <1>4, <3>2
    <3>4. sumF(s) = f[x] + sumF(s \ {x})
      BY <1>3
    <3>5. sumF(s \ {x}) = sumH(image(s \ {x}))
      BY <1>5
    <3> QED
      BY <3>3, <3>4, <3>5
  <2> QED
    BY <2>1, <2>2
<1>6. N = SUBSET S
  <2>1. N \in SUBSET (SUBSET S)
    OBVIOUS
  <2> HIDE DEF N
  <2> QED
    BY <1>5, <2>1, SubsetInduction
<1>7. sumF(S) = sumH(image(S))
  <2>1. S \in SUBSET S
    OBVIOUS
  <2> QED
    BY <1>6, <2>1
<1>8. image(S) = T
  BY <1>1
<1> QED
  BY <1>7, <1>8 DEF sumF, sumH

\* Equal functions have equal sums.
LEMMA SumOfEquals ==
    ASSUME NEW S, IsFiniteSet(S), NEW f, NEW h,
           \A x \in S : f[x] \in Int /\ h[x] = f[x]
    PROVE  SumFunctionOnSet(f, S) = SumFunctionOnSet(h, S)
<1> DEFINE b == [x \in S |-> x]
<1>1. b \in Bijection(S, S) /\ \A x \in S : b[x] = x
  BY DEF Bijection, Injection, Surjection, IsInjective
<1> HIDE DEF b
<1> QED
  BY <1>1, SumReindexed

\* Nothing adds up to nothing.
LEMMA SumOfZeros ==
    ASSUME NEW S, IsFiniteSet(S), NEW f, \A x \in S : f[x] \in Nat /\ f[x] <= 0
    PROVE  SumFunctionOnSet(f, S) = 0
<1> DEFINE sum(s) == SumFunctionOnSet(f, s)
           N == {s \in SUBSET S : sum(s) = 0}
<1>1. /\ sum({}) = 0
      /\ \A s \in SUBSET S : \A x \in s : sum(s) = f[x] + sum(s \ {x})
  <2>1. \A x \in S : f[x] \in Int
    OBVIOUS
  <2> QED
    BY <2>1, SumsWithin
<1> HIDE DEF sum
<1>2. ASSUME NEW s \in SUBSET S, \A x \in s : s \ {x} \in N PROVE s \in N
  <2>1. CASE s = {}
    <3>1. sum(s) = 0
      BY <1>1, <2>1
    <3> QED
      BY <3>1
  <2>2. CASE s # {}
    <3>1. PICK x \in s : TRUE
      BY <2>2
    <3>2. sum(s) = f[x] + sum(s \ {x})
      BY <1>1
    <3>3. sum(s \ {x}) = 0 /\ f[x] = 0
      BY <1>2
    <3> QED
      BY <3>2, <3>3
  <2> QED
    BY <2>1, <2>2
<1>3. N = SUBSET S
  <2>1. N \in SUBSET (SUBSET S)
    OBVIOUS
  <2> HIDE DEF N
  <2> QED
    BY <1>2, <2>1, SubsetInduction
<1>4. S \in SUBSET S
  OBVIOUS
<1>5. sum(S) = 0
  BY <1>3, <1>4
<1> QED
  BY <1>5 DEF sum

\* No count exceeds the sum of the counts.
LEMMA SumBounds ==
    ASSUME NEW S, IsFiniteSet(S), NEW f, \A x \in S : f[x] \in Nat
    PROVE  SumFunctionOnSet(f, S) \in Nat /\ \A x \in S : f[x] <= SumFunctionOnSet(f, S)
<1> DEFINE sum(s) == SumFunctionOnSet(f, s)
           N == {s \in SUBSET S : sum(s) \in Nat}
<1>1. /\ sum({}) = 0
      /\ \A s \in SUBSET S : \A x \in s : sum(s) = f[x] + sum(s \ {x})
  <2>1. \A x \in S : f[x] \in Int
    OBVIOUS
  <2> QED
    BY <2>1, SumsWithin
<1> HIDE DEF sum
<1>2. ASSUME NEW s \in SUBSET S, \A x \in s : s \ {x} \in N PROVE s \in N
  <2>1. CASE s = {}
    <3>1. sum(s) = 0
      BY <1>1, <2>1
    <3> QED
      BY <3>1
  <2>2. CASE s # {}
    <3>1. PICK x \in s : TRUE
      BY <2>2
    <3>2. sum(s) = f[x] + sum(s \ {x})
      BY <1>1
    <3>3. sum(s \ {x}) \in Nat /\ f[x] \in Nat
      BY <1>2
    <3> QED
      BY <3>2, <3>3
  <2> QED
    BY <2>1, <2>2
<1>3. N = SUBSET S
  <2>1. N \in SUBSET (SUBSET S)
    OBVIOUS
  <2> HIDE DEF N
  <2> QED
    BY <1>2, <2>1, SubsetInduction
<1>4. \A s \in SUBSET S : sum(s) \in Nat
  BY <1>3
<1>5. S \in SUBSET S /\ \A x \in S : S \ {x} \in SUBSET S
  OBVIOUS
<1>6. ASSUME NEW x \in S PROVE f[x] <= sum(S)
  <2>1. sum(S) = f[x] + sum(S \ {x})
    BY <1>1, <1>5
  <2>2. sum(S \ {x}) \in Nat /\ f[x] \in Nat
    BY <1>4, <1>5
  <2> QED
    BY <2>1, <2>2
<1> QED
  BY <1>4, <1>5, <1>6 DEF sum

\* One more in a count is one more in the sum.
LEMMA SumOfOneMore ==
    ASSUME NEW S, IsFiniteSet(S), NEW f \in [S -> Nat], NEW x \in S
    PROVE  SumFunctionOnSet([f EXCEPT ![x] = @ + 1], S) = SumFunctionOnSet(f, S) + 1
<1> DEFINE h == [f EXCEPT ![x] = @ + 1]
           A == S \ {x}
<1>1. h[x] = f[x] + 1 /\ h \in [S -> Nat] /\ \A y \in A : h[y] = f[y]
  OBVIOUS
<1>2. IsFiniteSet(A) /\ \A y \in A : f[y] \in Int
  BY FS_Subset
<1> HIDE DEF h, A
<1>3. SumFunctionOnSet(f, A) = SumFunctionOnSet(h, A)
  BY <1>1, <1>2, SumOfEquals
<1>4. SumFunctionOnSet(f, S) = f[x] + SumFunctionOnSet(f, A)
  <2>1. \A y \in S : f[y] \in Int
    OBVIOUS
  <2> QED
    BY <2>1, SumTakes DEF A
<1>5. SumFunctionOnSet(h, S) = h[x] + SumFunctionOnSet(h, A)
  <2>1. \A y \in S : h[y] \in Int
    BY <1>1
  <2> QED
    BY <2>1, SumTakes DEF A
<1>6. SumFunctionOnSet(f, A) \in Int
  BY <1>2, SumTakes
<1> QED
  BY <1>1, <1>3, <1>4, <1>5, <1>6 DEF h

-----------------------------------------------------------------------------
(***************************************************************************)
(* StatsMapping: percentages                                               *)
(***************************************************************************)

\* Division with remainder.
LEMMA Quotient ==
    ASSUME NEW a \in Nat, NEW d \in Nat \ {0}
    PROVE  /\ a \div d \in Nat /\ a % d \in 0..(d - 1)
           /\ a = d * (a \div d) + (a % d)
<1>1. a \div d \in Int /\ a % d \in 0..(d - 1)
  OBVIOUS
<1>2. a = d * (a \div d) + (a % d)
  OBVIOUS
<1>3. a \div d >= 0
  BY <1>1, <1>2
<1> QED
  BY <1>1, <1>2, <1>3

\* There is only one such quotient and remainder.
LEMMA QuotientUnique ==
    ASSUME NEW a \in Nat, NEW d \in Nat \ {0}, NEW q \in Nat, NEW p \in 0..(d - 1),
           a = d * q + p
    PROVE  a \div d = q /\ a % d = p
  OBVIOUS

\* A quotient does not change with a common factor.
LEMMA Cancelled ==
    ASSUME NEW a \in Nat, NEW d \in Nat \ {0}, NEW k \in Nat \ {0}
    PROVE  /\ (k * a) \div (k * d) = a \div d
           /\ (k * a) % (k * d) = 0 <=> a % d = 0
<1> DEFINE q == a \div d
           p == a % d
           b == k * a
           e == k * d
           s == k * p
<1>1. q \in Nat /\ p \in 0..(d - 1) /\ a = d * q + p
  BY Quotient
<1> HIDE DEF q, p
<1>2. e \in Nat \ {0} /\ s \in 0..(e - 1) /\ b \in Nat
  BY <1>1
<1>3. b = e * q + s
  BY <1>1
<1>4. b \div e = q /\ b % e = s
  <2> HIDE DEF b, e, s
  <2> QED
    BY <1>1, <1>2, <1>3, QuotientUnique
<1>5. s = 0 <=> p = 0
  BY <1>1
<1> QED
  <2> HIDE DEF s
  <2> QED
    BY <1>4, <1>5 DEF q, p

\* Rounding a / e, to the even of two that are as near.
Rounded(a, e) == IF a % e = 0 /\ (a \div e) % 2 = 1 THEN (a \div e) - 1 ELSE a \div e

\* The model's Hundredths is such a rounding.
LEMMA HundredthsRounds ==
    ASSUME NEW n, NEW d
    PROVE  Hundredths(n, d) = Rounded(2 * Whole * n + d, 2 * d)
  BY DEF Hundredths, Rounded

\* Rounding does not change with a common factor.
LEMMA RoundedCancelled ==
    ASSUME NEW a \in Nat, NEW e \in Nat \ {0}, NEW k \in Nat \ {0}
    PROVE  Rounded(k * a, k * e) = Rounded(a, e)
<1>1. /\ (k * a) \div (k * e) = a \div e
      /\ (k * a) % (k * e) = 0 <=> a % e = 0
  BY Cancelled, Zenon
<1> QED
  BY <1>1, Zenon DEF Rounded

\* A share of k wholes is at most k times 100 per cent.
LEMMA HundredthsRange ==
    ASSUME NEW n \in Nat, NEW d \in Nat \ {0}, NEW k \in Nat, n <= k * d
    PROVE  Hundredths(n, d) \in 0..(Whole * k)
<1> DEFINE a == 2 * Whole * n + d
           e == 2 * d
           up == a \div e
           p == a % e
<1>1. a \in Nat /\ e \in Nat \ {0}
  BY DEF Whole
<1>2. up \in Nat /\ p \in 0..(e - 1) /\ a = e * up + p
  <2> HIDE DEF a, e
  <2> QED
    BY <1>1, Quotient
<1>3. Hundredths(n, d) = IF p = 0 /\ up % 2 = 1 THEN up - 1 ELSE up
  <2>1. Hundredths(n, d) = Rounded(a, e)
    BY HundredthsRounds
  <2> HIDE DEF a, e
  <2> QED
    BY <2>1 DEF Rounded
<1> HIDE DEF up, p
<1>4. up <= 10000 * k
  <2>1. e * up <= 2 * Whole * (k * d) + d
    BY <1>2 DEF Whole
  <2>2. SUFFICES ASSUME up >= 10000 * k + 1 PROVE FALSE
    BY <1>2
  <2>3. e * up >= e * (10000 * k + 1)
    BY <1>2, <2>2
  <2>4. e * (10000 * k + 1) = 2 * Whole * (k * d) + 2 * d
    BY DEF Whole
  <2> QED
    BY <1>2, <2>1, <2>3, <2>4 DEF Whole
<1>5. up % 2 = 1 => up > 0
  BY <1>2
<1> QED
  BY <1>2, <1>3, <1>4, <1>5 DEF Whole

\* A share does not change with a common factor, whatever is lost in the rounding.
LEMMA HundredthsCancelled ==
    ASSUME NEW n \in Nat, NEW d \in Nat \ {0}, NEW k \in Nat \ {0}
    PROVE  Hundredths(k * n, k * d) = Hundredths(n, d)
<1> DEFINE a == 2 * Whole * n + d
           e == 2 * d
           b == 2 * Whole * (k * n) + k * d
           f == 2 * (k * d)
<1>1. a \in Nat /\ e \in Nat \ {0} /\ b = k * a /\ f = k * e
  BY DEF Whole
<1>2. Hundredths(k * n, k * d) = Rounded(b, f)
  BY HundredthsRounds
<1>3. Hundredths(n, d) = Rounded(a, e)
  BY HundredthsRounds
<1> HIDE DEF a, e, b, f
<1>4. Rounded(k * a, k * e) = Rounded(a, e)
  BY <1>1, RoundedCancelled
<1> QED
  BY <1>1, <1>2, <1>3, <1>4, Zenon

\* Nothing is no share.
LEMMA HundredthsOfNothing ==
    ASSUME NEW d \in Nat \ {0}
    PROVE  Hundredths(0, d) = 0
<1> DEFINE e == 2 * d
<1>1. 2 * Whole * 0 + d = d /\ d = e * 0 + d /\ d \in 0..(e - 1) /\ e \in Nat \ {0}
  BY DEF Whole
<1>2. Hundredths(0, d) = Rounded(d, e)
  BY <1>1, HundredthsRounds
<1> HIDE DEF e
<1>3. d \div e = 0 /\ d % e = d
  BY <1>1, QuotientUnique
<1> QED
  BY <1>2, <1>3 DEF Rounded

-----------------------------------------------------------------------------
(***************************************************************************)
(* StatsMapping: the counters between two samples                          *)
(***************************************************************************)

\* What the CPU part of a sample can be.
CpuParts == [known : BOOLEAN, usage : Nat, system : Nat, online : Nat, percpu : Nat \cup {-1}]

\* The inductive invariant: the types,
FiguresTypes ==
    /\ style \in Styles
    /\ running \in BOOLEAN
    /\ system \in Nat
    /\ usage \in Nat
    /\ disk \in [Disks \X DiskWays -> Nat]
    /\ net \in [Interfaces \X NetWays -> Nat]
    /\ preCpu \in CpuParts
    /\ since \in [busy : Nat, ticks : Nat, pure : BOOLEAN]

\* the container's time never grows by more than the host's, from the sample before or from
\* its start, and both have grown by what `since` tells if the container ran all along,
CpuCounted ==
    /\ usage <= system
    /\ ~running => usage = 0
    /\ preCpu.known <=> style.cpus # "missing"
    /\ usage - preCpu.usage <= system - preCpu.system
    /\ since.pure =>
         /\ running
         /\ preCpu.known =>
              /\ usage - preCpu.usage = since.busy
              /\ system - preCpu.system = Cpus * since.ticks

\* and the bytes are within the bound, and none in a container that does not run.
BytesCounted ==
    /\ Moved <= MaxMoved
    /\ ~running => disk = Zero(Disks, DiskWays) /\ net = Zero(Interfaces, NetWays)

FiguresInv == FiguresTypes /\ CpuCounted /\ BytesCounted

\* There are finitely many counters to add up.
LEMMA CountersAreFinite ==
    /\ IsFiniteSet(Disks \X DiskWays)
    /\ IsFiniteSet(Interfaces \X NetWays)
<1>1. IsFiniteSet(DiskWays) /\ IsFiniteSet(NetWays)
  <2>1. DiskWays = {"read"} \cup {"write"} /\ NetWays = {"rx"} \cup {"tx"}
    BY DEF DiskWays, NetWays
  <2>2. \A x : IsFiniteSet({x})
    BY FS_Singleton
  <2> QED
    BY <2>1, <2>2, FS_Union
<1> QED
  BY <1>1, MappingAssumption, FS_Product

\* What was moved, of counters at zero and after one more byte.
\* Counters at zero add up to zero.
LEMMA SumsOfZeros ==
    /\ SumFunction(Zero(Disks, DiskWays)) = 0
    /\ SumFunction(Zero(Interfaces, NetWays)) = 0
<1>1. ASSUME NEW devices, NEW ways, IsFiniteSet(devices \X ways)
      PROVE  SumFunction(Zero(devices, ways)) = 0
  <2> DEFINE z == Zero(devices, ways)
  <2>1. DOMAIN z = devices \X ways /\ \A x \in DOMAIN z : z[x] = 0
    BY DEF Zero
  <2> HIDE DEF z
  <2>2. SumFunctionOnSet(z, DOMAIN z) = 0
    BY <1>1, <2>1, SumOfZeros
  <2> QED
    BY <2>2 DEF SumFunction, z
<1> QED
  BY <1>1, CountersAreFinite

\* What is moved is a number, and no disk has moved more than it.
LEMMA MovedTypes ==
    ASSUME FiguresTypes
    PROVE  /\ SumFunctionOnSet(disk, Disks \X DiskWays) \in Nat
           /\ SumFunctionOnSet(net, Interfaces \X NetWays) \in Nat
           /\ Moved = SumFunctionOnSet(disk, Disks \X DiskWays)
                      + SumFunctionOnSet(net, Interfaces \X NetWays)
           /\ \A x \in Disks \X DiskWays : disk[x] <= Moved
<1>1. /\ DOMAIN disk = Disks \X DiskWays /\ \A x \in DOMAIN disk : disk[x] \in Nat
      /\ DOMAIN net = Interfaces \X NetWays /\ \A x \in DOMAIN net : net[x] \in Nat
  BY DEF FiguresTypes
<1> DEFINE d == SumFunctionOnSet(disk, DOMAIN disk)
           n == SumFunctionOnSet(net, DOMAIN net)
<1>2. d \in Nat /\ \A x \in DOMAIN disk : disk[x] <= d
  BY <1>1, CountersAreFinite, SumBounds
<1>3. n \in Nat
  BY <1>1, CountersAreFinite, SumBounds
<1>4. Moved = d + n
  BY DEF Moved, SumFunction
<1> HIDE DEF d, n
<1>5. \A x \in DOMAIN disk : disk[x] <= Moved
  BY <1>1, <1>2, <1>3, <1>4
<1> QED
  BY <1>1, <1>2, <1>3, <1>4, <1>5 DEF d, n

\* The CPU part of a sample: whichever way the engine counts them, MapStats finds one to
\* all of the CPUs, and all of them if the engine tells.
LEMMA CpuPartTypes ==
    ASSUME FiguresTypes, CpuCounted
    PROVE  /\ CpuPart \in CpuParts
           /\ CpuPart.known <=> style.cpus # "missing"
           /\ CpuPart.known /\ running => CpuPart.usage = usage /\ CpuPart.system = system
           /\ ~CpuPart.known \/ ~running => CpuPart.usage = 0 /\ CpuPart.system = 0
           /\ OnlineCpus(CpuPart) \in 1..Cpus
           /\ running /\ style.cpus \in {"online", "percpu"} => OnlineCpus(CpuPart) = Cpus
<1>1. Cpus \in Nat \ {0} /\ style.cpus \in {"online", "percpu", "none", "missing"}
  BY MappingAssumption DEF FiguresTypes, Styles
<1>2. CASE style.cpus = "missing"
  <2>1. CpuPart = [known |-> FALSE, usage |-> 0, system |-> 0, online |-> 0, percpu |-> -1]
    BY <1>2 DEF CpuPart, NoCpu
  <2> QED
    BY <1>1, <1>2, <2>1 DEF CpuParts, OnlineCpus
<1>3. CASE style.cpus # "missing" /\ ~running
  <2>1. CpuPart = [known |-> TRUE, usage |-> 0, system |-> 0, online |-> 0, percpu |-> -1]
    BY <1>3 DEF CpuPart, NoCpu
  <2> QED
    BY <1>1, <1>3, <2>1 DEF CpuParts, OnlineCpus
<1>4. CASE style.cpus # "missing" /\ running
  <2> DEFINE online == IF style.cpus = "online" THEN Cpus ELSE 0
             percpu == CASE style.cpus = "percpu" -> Cpus
                         [] style.cpus = "none" -> 0 [] OTHER -> -1
  <2>1. CpuPart = [known |-> TRUE, usage |-> usage, system |-> system,
                   online |-> online, percpu |-> percpu]
    BY <1>4 DEF CpuPart
  <2>2. /\ online \in Nat /\ percpu \in Nat \cup {-1}
        /\ style.cpus = "online" => online = Cpus
        /\ style.cpus = "percpu" => online = 0 /\ percpu = Cpus
        /\ style.cpus = "none" => online = 0 /\ percpu = 0
    BY <1>1
  <2> HIDE DEF online, percpu
  <2>3. OnlineCpus(CpuPart) \in {1, Cpus} /\ (style.cpus # "none" => OnlineCpus(CpuPart) = Cpus)
    BY <1>1, <1>4, <2>1, <2>2 DEF OnlineCpus
  <2> QED
    BY <1>1, <1>4, <2>1, <2>2, <2>3 DEF CpuParts, FiguresTypes
<1> QED
  BY <1>2, <1>3, <1>4

\* A container that has just been started is in the invariant,
LEMMA FiguresInitially ==
    FiguresInit => FiguresInv
<1> SUFFICES ASSUME FiguresInit PROVE FiguresInv
  OBVIOUS
<1>1. Cpus \in Nat \ {0} /\ MaxMoved \in Nat
  BY MappingAssumption
<1>2. FiguresTypes
  BY <1>1 DEF FiguresInit, FiguresTypes, CpuParts, NoCpu, Idle, Zero
<1>3. CpuCounted
  <2>1. preCpu.usage = 0 /\ preCpu.system = 0 /\ system = Cpus /\ usage = 0
    BY DEF FiguresInit, NoCpu
  <2>2. usage <= system /\ usage - preCpu.usage <= system - preCpu.system
    BY <1>1, <2>1
  <2>3. running /\ ~since.pure
    BY DEF FiguresInit, Idle
  <2>4. preCpu.known <=> style.cpus # "missing"
    BY DEF FiguresInit, NoCpu
  <2> QED
    BY <2>2, <2>3, <2>4, Zenon DEF CpuCounted
<1>4. BytesCounted
  BY <1>1, SumsOfZeros DEF FiguresInit, BytesCounted, Moved
<1> QED
  BY <1>2, <1>3, <1>4 DEF FiguresInv

\* What is moved when the counters do not change.
LEMMA MovedUnchanged ==
    ASSUME UNCHANGED <<disk, net>>
    PROVE  Moved' = Moved
  BY DEF Moved, SumFunction

\* and every step keeps it.
LEMMA FiguresSteps ==
    FiguresInv /\ [FiguresNext]_figuresVars => FiguresInv'
<1> SUFFICES ASSUME FiguresInv, [FiguresNext]_figuresVars PROVE FiguresInv'
  OBVIOUS
<1>0. FiguresTypes /\ CpuCounted /\ BytesCounted
  BY DEF FiguresInv
<1>n. Cpus \in Nat \ {0} /\ MaxMoved \in Nat
  BY MappingAssumption
<1>1. ASSUME NEW busy \in 0..Cpus, Tick(busy) PROVE FiguresInv'
  <2>1. FiguresTypes'
    <3>1. /\ system' = system + Cpus /\ usage' = usage + busy /\ busy \in Nat
          /\ since' = [since EXCEPT !.ticks = @ + 1, !.busy = @ + busy]
          /\ UNCHANGED <<style, running, disk, net, preCpu>>
      BY <1>1, <1>n DEF Tick
    <3>2. system' \in Nat /\ usage' \in Nat
      BY <1>0, <1>n, <3>1 DEF FiguresTypes
    <3>3. since' \in [busy : Nat, ticks : Nat, pure : BOOLEAN]
      <4>1. since.busy + busy \in Nat /\ since.ticks + 1 \in Nat
        BY <1>0, <3>1 DEF FiguresTypes
      <4>2. since \in [busy : Nat, ticks : Nat, pure : BOOLEAN]
        BY <1>0 DEF FiguresTypes
      <4> QED
        BY <3>1, <4>1, <4>2
    <3> QED
      BY <1>0, <3>1, <3>2, <3>3 DEF FiguresTypes
  <2>2. CpuCounted'
    <3>1. /\ system' = system + Cpus /\ usage' = usage + busy /\ busy \in Nat /\ busy <= Cpus
          /\ busy = 0 \/ running
          /\ since' = [since EXCEPT !.ticks = @ + 1, !.busy = @ + busy]
          /\ UNCHANGED <<style, running, preCpu>>
      BY <1>1, <1>n DEF Tick
    <3>2. /\ system \in Nat /\ usage \in Nat /\ preCpu.usage \in Nat /\ preCpu.system \in Nat
          /\ since.busy \in Nat /\ since.ticks \in Nat
      BY <1>0 DEF FiguresTypes, CpuParts
    <3>3. /\ since'.pure = since.pure /\ since'.busy = since.busy + busy
          /\ since'.ticks = since.ticks + 1
      BY <1>0, <3>1 DEF FiguresTypes
    <3>4. Cpus * (since.ticks + 1) = Cpus * since.ticks + Cpus /\ Cpus * since.ticks \in Nat
      BY <1>n, <3>2
    <3>5. usage' <= system' /\ usage' - preCpu.usage <= system' - preCpu.system
      BY <1>0, <1>n, <3>1, <3>2 DEF CpuCounted
    <3>6. ASSUME since.pure, preCpu.known
          PROVE  /\ usage' - preCpu.usage = since.busy + busy
                 /\ system' - preCpu.system = Cpus * since.ticks + Cpus
      BY <1>0, <1>n, <3>1, <3>2, <3>4, <3>6 DEF CpuCounted
    <3>7. ~running => usage' = 0
      BY <1>0, <3>1 DEF CpuCounted
    <3> QED
      BY <1>0, <3>1, <3>3, <3>4, <3>5, <3>6, <3>7 DEF CpuCounted
  <2>3. BytesCounted'
    BY <1>0, <1>1, MovedUnchanged DEF Tick, BytesCounted
  <2> QED
    BY <2>1, <2>2, <2>3 DEF FiguresInv
<1>2. ASSUME NEW x \in DOMAIN disk, MoveDisk(x) PROVE FiguresInv'
  <2>0. x \in Disks \X DiskWays /\ disk \in [Disks \X DiskWays -> Nat]
    BY <1>0 DEF FiguresTypes
  <2>1. FiguresTypes'
    BY <1>0, <1>2, <2>0 DEF MoveDisk, FiguresTypes
  <2>2. CpuCounted'
    BY <1>0, <1>2 DEF MoveDisk, CpuCounted
  <2>3. Moved' = Moved + 1 /\ Moved \in Nat
    <3>1. SumFunctionOnSet(disk', Disks \X DiskWays)
            = SumFunctionOnSet(disk, Disks \X DiskWays) + 1
      BY <1>2, <2>0, CountersAreFinite, SumOfOneMore DEF MoveDisk
    <3>2. /\ DOMAIN disk = Disks \X DiskWays /\ DOMAIN disk' = Disks \X DiskWays
          /\ net' = net
      BY <1>2, <2>0 DEF MoveDisk
    <3>3. /\ SumFunctionOnSet(net, Interfaces \X NetWays) \in Nat
          /\ SumFunctionOnSet(disk, Disks \X DiskWays) \in Nat
          /\ DOMAIN net = Interfaces \X NetWays
      BY <1>0, MovedTypes DEF FiguresTypes
    <3> QED
      BY <3>1, <3>2, <3>3 DEF Moved, SumFunction
  <2>4. BytesCounted'
    BY <1>0, <1>2, <1>n, <2>3 DEF MoveDisk, BytesCounted
  <2> QED
    BY <2>1, <2>2, <2>4 DEF FiguresInv
<1>3. ASSUME NEW x \in DOMAIN net, MoveNet(x) PROVE FiguresInv'
  <2>0. x \in Interfaces \X NetWays /\ net \in [Interfaces \X NetWays -> Nat]
    BY <1>0 DEF FiguresTypes
  <2>1. FiguresTypes'
    BY <1>0, <1>3, <2>0 DEF MoveNet, FiguresTypes
  <2>2. CpuCounted'
    BY <1>0, <1>3 DEF MoveNet, CpuCounted
  <2>3. Moved' = Moved + 1 /\ Moved \in Nat
    <3>1. SumFunctionOnSet(net', Interfaces \X NetWays)
            = SumFunctionOnSet(net, Interfaces \X NetWays) + 1
      BY <1>3, <2>0, CountersAreFinite, SumOfOneMore DEF MoveNet
    <3>2. /\ DOMAIN net = Interfaces \X NetWays /\ DOMAIN net' = Interfaces \X NetWays
          /\ disk' = disk
      BY <1>3, <2>0 DEF MoveNet
    <3>3. /\ SumFunctionOnSet(net, Interfaces \X NetWays) \in Nat
          /\ SumFunctionOnSet(disk, Disks \X DiskWays) \in Nat
          /\ DOMAIN disk = Disks \X DiskWays
      BY <1>0, MovedTypes DEF FiguresTypes
    <3> QED
      BY <3>1, <3>2, <3>3 DEF Moved, SumFunction
  <2>4. BytesCounted'
    BY <1>0, <1>3, <1>n, <2>3 DEF MoveNet, BytesCounted
  <2> QED
    BY <2>1, <2>2, <2>4 DEF FiguresInv
<1>4. CASE Stop
  <2>1. FiguresTypes'
    BY <1>0, <1>4 DEF Stop, FiguresTypes, Zero
  <2>2. CpuCounted'
    <3>1. /\ system \in Nat /\ usage \in Nat /\ preCpu.usage \in Nat /\ preCpu.system \in Nat
          /\ since'.pure = FALSE
      BY <1>0, <1>4 DEF FiguresTypes, CpuParts, Stop
    <3> QED
      BY <1>0, <1>4, <3>1 DEF Stop, CpuCounted
  <2>3. Moved' = 0
    <3>1. disk' = Zero(Disks, DiskWays) /\ net' = Zero(Interfaces, NetWays)
      BY <1>4 DEF Stop
    <3> QED
      BY <3>1, SumsOfZeros DEF Moved
  <2>4. BytesCounted'
    BY <1>4, <1>n, <2>3 DEF Stop, BytesCounted
  <2> QED
    BY <2>1, <2>2, <2>4 DEF FiguresInv
<1>5. CASE Start
  <2>1. FiguresTypes'
    BY <1>0, <1>5 DEF Start, FiguresTypes
  <2>2. CpuCounted'
    BY <1>0, <1>5 DEF Start, CpuCounted
  <2>3. BytesCounted'
    BY <1>0, <1>5, MovedUnchanged DEF Start, BytesCounted
  <2> QED
    BY <2>1, <2>2, <2>3 DEF FiguresInv
<1>6. ASSUME NEW memory \in 0..MemoryLimit, Sample(memory) PROVE FiguresInv'
  <2>1. FiguresTypes'
    BY <1>0, <1>6, CpuPartTypes DEF Sample, FiguresTypes, Idle
  <2>2. CpuCounted'
    <3>1. /\ preCpu' = CpuPart /\ since' = [busy |-> 0, ticks |-> 0, pure |-> running]
          /\ UNCHANGED <<style, running, system, usage>>
      BY <1>6 DEF Sample, Idle
    <3>2. system \in Nat /\ usage \in Nat /\ Cpus * 0 = 0
      BY <1>0, <1>n DEF FiguresTypes
    <3>3. usage <= system /\ (~running => usage = 0)
      BY <1>0 DEF CpuCounted
    <3> QED
      BY <1>0, <3>1, <3>2, <3>3, CpuPartTypes DEF CpuCounted
  <2>3. BytesCounted'
    BY <1>0, <1>6, MovedUnchanged DEF Sample, BytesCounted
  <2> QED
    BY <2>1, <2>2, <2>3 DEF FiguresInv
<1>7. CASE UNCHANGED figuresVars
  <2>1. FiguresTypes'
    BY <1>0, <1>7 DEF figuresVars, FiguresTypes
  <2>2. CpuCounted'
    BY <1>0, <1>7 DEF figuresVars, CpuCounted
  <2>3. BytesCounted'
    BY <1>0, <1>7, MovedUnchanged DEF figuresVars, BytesCounted
  <2> QED
    BY <2>1, <2>2, <2>3 DEF FiguresInv
<1> QED
  BY <1>1, <1>2, <1>3, <1>4, <1>5, <1>6, <1>7 DEF FiguresNext

-----------------------------------------------------------------------------
(***************************************************************************)
(* StatsMapping: the figures                                               *)
(***************************************************************************)

\* The CPU share of a sample is in its range, and that of the time since the sample before.
LEMMA CpuShare ==
    ASSUME FiguresInv, NEW response, response.cpu = CpuPart, response.pre = preCpu
    PROVE  /\ ComputeCpuPercent(response) \in 0..(Whole * Cpus)
           /\ since.pure /\ since.ticks > 0 /\ style.cpus \in {"online", "percpu"} =>
                  ComputeCpuPercent(response) = Hundredths(since.busy, since.ticks)
<1> DEFINE cpu == CpuPart
           c == cpu.usage - preCpu.usage
           s == cpu.system - preCpu.system
           k == OnlineCpus(cpu)
           share == ComputeCpuPercent(response)
<1>0. FiguresTypes /\ CpuCounted
  BY DEF FiguresInv
<1>n. Cpus \in Nat \ {0}
  BY MappingAssumption
<1>1. share = IF ~cpu.known \/ ~preCpu.known \/ c <= 0 \/ s <= 0
              THEN 0 ELSE Hundredths(c * k, s)
  BY DEF ComputeCpuPercent, Delta
<1>2. /\ k \in 1..Cpus /\ cpu \in CpuParts
      /\ cpu.known <=> style.cpus # "missing"
      /\ cpu.known /\ running => cpu.usage = usage /\ cpu.system = system
      /\ ~cpu.known \/ ~running => cpu.usage = 0 /\ cpu.system = 0
      /\ running /\ style.cpus \in {"online", "percpu"} => k = Cpus
  BY <1>0, CpuPartTypes
<1> HIDE DEF cpu, k, share
<1>3. /\ cpu.usage \in Nat /\ cpu.system \in Nat
      /\ preCpu.usage \in Nat /\ preCpu.system \in Nat
      /\ since.busy \in Nat /\ since.ticks \in Nat
  BY <1>0, <1>2 DEF FiguresTypes, CpuParts
<1>4. c \in Int /\ s \in Int
  BY <1>3
<1>5. cpu.known /\ running => c <= s
  BY <1>0, <1>2 DEF CpuCounted
<1>6. ~running => c <= 0
  BY <1>2, <1>3
<1>7. since.pure /\ cpu.known => running /\ c = since.busy /\ s = Cpus * since.ticks
  BY <1>0, <1>2 DEF CpuCounted
<1>8. 0 \in 0..(Whole * Cpus)
  BY <1>n DEF Whole
<1> HIDE DEF c, s
<1>9. ASSUME cpu.known, ~(c <= 0), ~(s <= 0)
      PROVE  Hundredths(c * k, s) \in 0..(Whole * Cpus)
  <2>1. running /\ c <= s /\ c \in Nat /\ s \in Nat \ {0} /\ k \in Nat /\ k <= Cpus
    BY <1>2, <1>4, <1>5, <1>6, <1>9, <1>n
  <2>2. c * k \in Nat /\ c * k <= Cpus * s
    <3>1. c * k <= s * k
      BY <2>1
    <3>2. s * k <= s * Cpus
      BY <1>n, <2>1
    <3>3. s * Cpus = Cpus * s /\ c * k \in Nat /\ s * k \in Nat /\ s * Cpus \in Nat
      BY <1>n, <2>1
    <3> QED
      BY <3>1, <3>2, <3>3
  <2> DEFINE n == c * k
  <2> HIDE DEF n
  <2>3. Hundredths(n, s) \in 0..(Whole * Cpus)
    BY <1>n, <2>1, <2>2, HundredthsRange DEF n
  <2> QED
    BY <2>3 DEF n
<1>10. share \in 0..(Whole * Cpus)
  BY <1>1, <1>8, <1>9
<1>11. ASSUME since.pure, since.ticks > 0, style.cpus \in {"online", "percpu"}
       PROVE  share = Hundredths(since.busy, since.ticks)
  <2>1. /\ cpu.known /\ preCpu.known /\ running
        /\ c = since.busy /\ s = Cpus * since.ticks /\ k = Cpus
    BY <1>0, <1>2, <1>7, <1>11 DEF CpuCounted
  <2>2. since.ticks \in Nat \ {0} /\ s > 0 /\ c \in Nat
    BY <1>3, <1>11, <1>n, <2>1
  <2>3. CASE c = 0
    <3>1. share = 0
      BY <1>1, <2>3
    <3> QED
      BY <2>1, <2>2, <2>3, <3>1, HundredthsOfNothing
  <2>4. CASE c # 0
    <3>1. share = Hundredths(c * k, s)
      BY <1>1, <2>1, <2>2, <2>4
    <3>2. c * k = Cpus * since.busy
      BY <1>3, <1>n, <2>1
    <3>3. Hundredths(Cpus * since.busy, Cpus * since.ticks)
            = Hundredths(since.busy, since.ticks)
      BY <1>3, <1>n, <2>2, HundredthsCancelled, Zenon
    <3> QED
      BY <2>1, <3>1, <3>2, <3>3, Zenon
  <2> QED
    BY <2>3, <2>4
<1> QED
  BY <1>10, <1>11 DEF share

\* The memory share is at most the whole: a limit of all ones becomes -1, and there is no share.
LEMMA MemoryShare ==
    ASSUME FiguresInv, NEW memory \in 0..MemoryLimit
    PROVE  MemoryPercent(Response(memory)) \in 0..Whole
<1> DEFINE u == Long(Response(memory).usage)
           l == Long(Response(memory).limit)
<1>1. style.limit \in {MemoryLimit, 2 * Half - 1}
  BY DEF FiguresInv, FiguresTypes, Styles
<1>2. /\ MemoryLimit \in Nat /\ Half \in Nat /\ MemoryLimit < Half
      /\ memory \in Nat /\ memory <= MemoryLimit
  BY MappingAssumption
<1>3. /\ Response(memory).usage \in 0..memory
      /\ Response(memory).limit \in {0, MemoryLimit, 2 * Half - 1}
  BY <1>1, <1>2 DEF Response
<1>4. u \in Nat /\ u <= memory
  BY <1>2, <1>3 DEF Long
<1>5. l \in {0, MemoryLimit, -1}
  BY <1>2, <1>3 DEF Long
<1>6. l > 0 => l = MemoryLimit
  BY <1>5
<1>7. MemoryPercent(Response(memory)) = IF l > 0 THEN Hundredths(u, l) ELSE 0
  BY DEF MemoryPercent
<1> HIDE DEF u, l
<1>8. ASSUME l > 0 PROVE Hundredths(u, l) \in 0..Whole
  <2>1. u \in Nat /\ l \in Nat \ {0} /\ 1 \in Nat /\ u <= 1 * l /\ Whole * 1 = Whole
    BY <1>2, <1>4, <1>6, <1>8 DEF Whole
  <2>2. Hundredths(u, l) \in 0..(Whole * 1)
    BY <2>1, HundredthsRange
  <2> QED
    BY <2>1, <2>2
<1>9. 0 \in 0..Whole
  BY DEF Whole
<1> QED
  BY <1>7, <1>8, <1>9

\* The invariant always holds.
LEMMA FiguresAlways == FiguresSpec => []FiguresInv
<1>1. FiguresInit => FiguresInv
  BY FiguresInitially
<1>2. FiguresInv /\ [FiguresNext]_figuresVars => FiguresInv'
  BY FiguresSteps
<1> QED
  BY <1>1, <1>2, PTL DEF FiguresSpec

\* A step either makes no figures, or those of a sample.
LEMMA FiguresAreSampled ==
    ASSUME [FiguresNext]_figuresVars, NEW dto \in figures'
    PROVE  \/ UNCHANGED figuresVars
           \/ \E memory \in 0..MemoryLimit : dto = MapStats(Response(memory))
<1> SUFFICES ASSUME FiguresNext
             PROVE  \E memory \in 0..MemoryLimit : dto = MapStats(Response(memory))
  OBVIOUS
<1>1. ASSUME NEW busy \in 0..Cpus, Tick(busy) PROVE FALSE
  BY <1>1 DEF Tick
<1>2. ASSUME NEW x \in DOMAIN disk, MoveDisk(x) PROVE FALSE
  BY <1>2 DEF MoveDisk
<1>3. ASSUME NEW x \in DOMAIN net, MoveNet(x) PROVE FALSE
  BY <1>3 DEF MoveNet
<1>4. CASE Stop
  BY <1>4 DEF Stop
<1>5. CASE Start
  BY <1>5 DEF Start
<1>6. ASSUME NEW memory \in 0..MemoryLimit, Sample(memory) PROVE dto = MapStats(Response(memory))
  BY <1>6 DEF Sample
<1> QED
  BY <1>1, <1>2, <1>3, <1>4, <1>5, <1>6 DEF FiguresNext

\* ComputeCpuPercent and the memory percentage of MapStats are true, for every number of
\* CPUs, limit and width of the counters, over restarts and samples in one tick.
THEOREM SharesTrue == FiguresSpec => SharesAreTrue
<1>1. ASSUME FiguresInv, [FiguresNext]_figuresVars
      PROVE  [\A dto \in figures' :
                 /\ dto.cpu \in 0..(Whole * Cpus)
                 /\ dto.memory \in 0..Whole
                 /\ since.pure /\ since.ticks > 0 /\ style.cpus \in {"online", "percpu"} =>
                        dto.cpu = Hundredths(since.busy, since.ticks)]_figuresVars
  <2> SUFFICES ASSUME NEW dto \in figures', ~ UNCHANGED figuresVars
               PROVE  /\ dto.cpu \in 0..(Whole * Cpus)
                      /\ dto.memory \in 0..Whole
                      /\ since.pure /\ since.ticks > 0 /\ style.cpus \in {"online", "percpu"} =>
                             dto.cpu = Hundredths(since.busy, since.ticks)
    OBVIOUS
  <2>1. PICK memory \in 0..MemoryLimit : dto = MapStats(Response(memory))
    BY <1>1, FiguresAreSampled
  <2>2. /\ dto.cpu = ComputeCpuPercent(Response(memory))
        /\ dto.memory = MemoryPercent(Response(memory))
        /\ Response(memory).cpu = CpuPart /\ Response(memory).pre = preCpu
    BY <2>1 DEF MapStats, Response
  <2>3. /\ ComputeCpuPercent(Response(memory)) \in 0..(Whole * Cpus)
        /\ since.pure /\ since.ticks > 0 /\ style.cpus \in {"online", "percpu"} =>
               ComputeCpuPercent(Response(memory)) = Hundredths(since.busy, since.ticks)
    BY <1>1, <2>2, CpuShare
  <2>4. MemoryPercent(Response(memory)) \in 0..Whole
    BY <1>1, MemoryShare
  <2> QED
    BY <2>2, <2>3, <2>4
<1> QED
  BY <1>1, FiguresAlways, PTL DEF FiguresSpec, SharesAreTrue

\* A container that does not run has moved nothing.
LEMMA TotalsOfNothing ==
    ASSUME NEW devices, NEW ways, NEW way, IsFiniteSet(devices \X ways)
    PROVE  Total(Zero(devices, ways), way) = 0
<1> DEFINE z == Zero(devices, ways)
           S == {x \in DOMAIN z : x[2] = way}
<1>1. DOMAIN z = devices \X ways /\ \A x \in S : z[x] = 0
  BY DEF Zero
<1>2. IsFiniteSet(S)
  BY <1>1, FS_Subset
<1> HIDE DEF S, z
<1>3. SumFunctionOnSet(z, S) = 0
  BY <1>1, <1>2, SumOfZeros
<1> QED
  BY <1>3 DEF Total, z, S

\* The network traffic of a sample is that of all interfaces.
LEMMA NetTraffic ==
    ASSUME FiguresInv, NEW way, NEW memory
    PROVE  Total(Response(memory).nets, way) = Total(net, way)
<1>1. CASE running
  BY <1>1 DEF Response
<1>2. CASE ~running
  <2>1. net = Zero(Interfaces, NetWays) /\ Response(memory).nets = <<>>
    BY <1>2 DEF FiguresInv, BytesCounted, Response
  <2>2. Total(net, way) = 0
    BY <2>1, CountersAreFinite, TotalsOfNothing
  <2>3. Total(<<>>, way) = 0
    <3>1. {x \in DOMAIN <<>> : x[2] = way} = {}
      OBVIOUS
    <3>2. IsFiniteSet({}) /\ \A x \in {} : <<>>[x] \in Int
      BY FS_EmptySet
    <3>3. SumFunctionOnSet(<<>>, {}) = 0
      BY <3>2, SumTakes
    <3> QED
      BY <3>1, <3>3 DEF Total
  <2> QED
    BY <2>1, <2>2, <2>3
<1> QED
  BY <1>1, <1>2

\* How an engine spells the name of an entry.
Spelled(way) == IF style.disks = "v1" THEN IF way = "read" THEN "Read" ELSE "Write" ELSE way

\* The entries that count are one for each disk.
LEMMA EntriesThatCount ==
    ASSUME NEW way \in DiskWays, running, style.disks \in {"v1", "v2"}
    PROVE  {e \in DiskEntries : ToLower(e[2]) = way}
             = {<<d, Spelled(way), disk[<<d, way>>]>> : d \in Disks}
<1>1. way \in {"read", "write"}
  BY DEF DiskWays
<1>2. DiskEntries = UNION {EntriesOf(d) : d \in Disks}
  BY DEF DiskEntries
<1>3. ASSUME NEW d \in Disks
      PROVE  \A e : e \in EntriesOf(d) /\ ToLower(e[2]) = way <=>
                      e = <<d, Spelled(way), disk[<<d, way>>]>>
  <2>1. CASE style.disks = "v1"
    BY <1>1, <2>1 DEF EntriesOf, ToLower, Spelled
  <2>2. CASE style.disks = "v2"
    BY <1>1, <2>2 DEF EntriesOf, ToLower, Spelled
  <2> QED
    BY <2>1, <2>2
<1> QED
  BY <1>2, <1>3

\* The disk traffic of a sample is that of all disks: no entry is counted twice, and no sum.
LEMMA DiskTraffic ==
    ASSUME FiguresInv, NEW way \in DiskWays, NEW memory, style.disks # "missing"
    PROVE  ComputeBlockIo(Response(memory), way) = Total(disk, way)
<1>0. FiguresTypes /\ BytesCounted
  BY DEF FiguresInv
<1>1. CASE running
  <2> DEFINE S == {x \in DOMAIN disk : x[2] = way}
             T == {e \in DiskEntries : ToLower(e[2]) = way}
             f == [e \in T |-> Long(e[3])]
             b == [x \in S |-> <<x[1], Spelled(way), disk[x]>>]
  <2>1. style.disks \in {"v1", "v2"}
    BY <1>0 DEF FiguresTypes, Styles
  <2>2. T = {<<d, Spelled(way), disk[<<d, way>>]>> : d \in Disks}
    BY <1>1, <2>1, EntriesThatCount
  <2>3. DOMAIN disk = Disks \X DiskWays /\ disk \in [Disks \X DiskWays -> Nat]
    BY <1>0 DEF FiguresTypes
  <2>4. \A x \in S : x[1] \in Disks /\ x = <<x[1], way>>
    BY <2>3
  <2>5. \A d \in Disks : <<d, way>> \in S
    BY <2>3
  <2>6. \A x \in S : /\ disk[x] \in Nat /\ disk[x] < Half
    <3>1. Moved <= MaxMoved /\ MaxMoved < Half /\ MaxMoved \in Nat /\ Half \in Nat /\ Moved \in Nat
      BY <1>0, MappingAssumption, MovedTypes DEF BytesCounted
    <3>2. \A x \in S : disk[x] <= Moved /\ disk[x] \in Nat
      BY <1>0, <2>3, MovedTypes
    <3> QED
      BY <3>1, <3>2
  <2>7. IsFiniteSet(S)
    BY <2>3, CountersAreFinite, FS_Subset
  <2>8. b \in Bijection(S, T)
    <3>1. \A x \in S : b[x] = <<x[1], Spelled(way), disk[<<x[1], way>>]>> /\ b[x] \in T
      BY <2>2, <2>4
    <3>2. \A x, y \in S : b[x] = b[y] => x = y
      BY <2>4
    <3>3. ASSUME NEW e \in T PROVE \E x \in S : b[x] = e
      <4>1. PICK d \in Disks : e = <<d, Spelled(way), disk[<<d, way>>]>>
        BY <2>2
      <4>2. <<d, way>> \in S /\ b[<<d, way>>] = e
        BY <2>5, <4>1
      <4> HIDE DEF b, S, T
      <4> QED
        BY <4>2
    <3>4. b \in [S -> T]
      BY <3>1
    <3> HIDE DEF b, S, T
    <3> QED
      BY <3>2, <3>3, <3>4 DEF Bijection, Injection, Surjection, IsInjective
  <2>9. \A x \in S : disk[x] \in Int /\ f[b[x]] = disk[x]
    <3>1. \A x \in S : b[x] \in T /\ b[x][3] = disk[x]
      BY <2>2, <2>4
    <3>2. \A x \in S : Long(disk[x]) = disk[x]
      BY <2>6 DEF Long
    <3> HIDE DEF b, S, T
    <3> QED
      BY <2>6, <3>1, <3>2
  <2>10. Total(disk, way) = SumFunctionOnSet(disk, S)
    BY DEF Total
  <2>11. ComputeBlockIo(Response(memory), way) = SumFunctionOnSet(f, T)
    <3>1. Response(memory).entries = DiskEntries
      BY DEF Response
    <3>2. DOMAIN f = T
      OBVIOUS
    <3> QED
      BY <3>1, <3>2 DEF ComputeBlockIo, SumFunction
  <2> HIDE DEF S, T, f, b
  <2> QED
    BY <2>7, <2>8, <2>9, <2>10, <2>11, SumReindexed
<1>2. CASE ~running
  <2>1. disk = Zero(Disks, DiskWays)
    BY <1>0, <1>2 DEF BytesCounted
  <2>2. Total(disk, way) = 0
    BY <2>1, CountersAreFinite, TotalsOfNothing
  <2> DEFINE T == {e \in DiskEntries : ToLower(e[2]) = way}
             f == [e \in T |-> Long(e[3])]
  <2>3. T = {} /\ DOMAIN f = {}
    BY <1>2 DEF DiskEntries
  <2>4. ComputeBlockIo(Response(memory), way) = SumFunctionOnSet(f, DOMAIN f)
    <3>1. Response(memory).entries = DiskEntries
      BY DEF Response
    <3> QED
      BY <3>1 DEF ComputeBlockIo, SumFunction
  <2> HIDE DEF f
  <2>5. SumFunctionOnSet(f, {}) = 0
    <3>1. IsFiniteSet({}) /\ \A x \in {} : f[x] \in Int
      BY FS_EmptySet
    <3> QED
      BY <3>1, SumTakes
  <2> QED
    BY <2>2, <2>3, <2>4, <2>5
<1> QED
  BY <1>1, <1>2

\* ComputeBlockIo and the sums over Networks give the engine's traffic, for every number of
\* disks and interfaces and either spelling of the names.
THEOREM TrafficTrue == FiguresSpec => TrafficIsTheEngines
<1>1. ASSUME FiguresInv, [FiguresNext]_figuresVars
      PROVE  [\A dto \in figures' :
                 /\ dto.rx = Total(net, "rx")
                 /\ dto.tx = Total(net, "tx")
                 /\ style.disks # "missing" =>
                        /\ dto.blockRead = Total(disk, "read")
                        /\ dto.blockWrite = Total(disk, "write")]_figuresVars
  <2> SUFFICES ASSUME NEW dto \in figures', ~ UNCHANGED figuresVars
               PROVE  /\ dto.rx = Total(net, "rx")
                      /\ dto.tx = Total(net, "tx")
                      /\ style.disks # "missing" =>
                             /\ dto.blockRead = Total(disk, "read")
                             /\ dto.blockWrite = Total(disk, "write")
    OBVIOUS
  <2>1. PICK memory \in 0..MemoryLimit : dto = MapStats(Response(memory))
    BY <1>1, FiguresAreSampled
  <2>2. /\ dto.rx = Total(Response(memory).nets, "rx")
        /\ dto.tx = Total(Response(memory).nets, "tx")
        /\ dto.blockRead = ComputeBlockIo(Response(memory), "read")
        /\ dto.blockWrite = ComputeBlockIo(Response(memory), "write")
    BY <2>1 DEF MapStats
  <2>3. "read" \in DiskWays /\ "write" \in DiskWays
    BY DEF DiskWays
  <2> QED
    BY <1>1, <2>2, <2>3, NetTraffic, DiskTraffic
<1> QED
  BY <1>1, FiguresAlways, PTL DEF FiguresSpec, TrafficIsTheEngines
=============================================================================
