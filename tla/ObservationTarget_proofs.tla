---------------------- MODULE ObservationTarget_proofs ----------------------
(***************************************************************************)
(* Theorems about ObservationTarget, for every queue size, decimation and  *)
(* counter range: the record codec, types, the wake-up invariant, and the  *)
(* refinement of RecordStream.                                             *)
(***************************************************************************)
EXTENDS ObservationTarget, TLAPS, SequenceTheorems

-----------------------------------------------------------------------------
(* The record codec, for every width of the clock and of the offsets.       *)

\* A forward offset reads back as the time it was made of exactly when it can
\* be carried, and as unknown otherwise.
LEMMA ForwardReadsBack ==
  ASSUME NEW base \in Times, NEW timestamp \in Times
  PROVE  DecodeEvidence(base, ForwardOffset(base, timestamp))
           = IF Carried(base, timestamp) THEN timestamp ELSE Unknown
<1>1. base \in Int /\ timestamp \in Int /\ OFFSET_RANGE \in Nat /\ OFFSET_RANGE >= 4
  BY RecordWidths DEF Times
<1>2. CASE Carried(base, timestamp)
  <2>1. /\ ForwardOffset(base, timestamp) = timestamp - base
        /\ timestamp - base # UNKNOWN_OFFSET_US
    BY <1>1, <1>2 DEF Carried, ForwardOffset, UNKNOWN_OFFSET_US
  <2>2. base + (timestamp - base) = timestamp
    BY <1>1
  <2> QED BY <1>2, <2>1, <2>2 DEF DecodeEvidence, Reached
<1>3. CASE ~Carried(base, timestamp)
  <2>1. ForwardOffset(base, timestamp) = UNKNOWN_OFFSET_US
    BY <1>1, <1>3 DEF Carried, ForwardOffset, UNKNOWN_OFFSET_US
  <2> QED BY <1>3, <2>1 DEF DecodeEvidence
<1> QED BY <1>2, <1>3

\* The same for a time that may be unknown to begin with.
LEMMA EvidenceReadsBack ==
  ASSUME NEW base \in Times, NEW timestamp \in TimestampEvidence
  PROVE  DecodeEvidence(base, EvidenceOffset(base, timestamp))
           = IF timestamp # Unknown /\ Carried(base, timestamp) THEN timestamp ELSE Unknown
<1>1. CASE timestamp = Unknown
  BY <1>1 DEF EvidenceOffset, DecodeEvidence
<1>2. CASE timestamp \in Times
  <2>1. timestamp # Unknown
    BY <1>2 DEF Times, Unknown
  <2> QED BY <1>2, <2>1, ForwardReadsBack DEF EvidenceOffset
<1> QED BY <1>1, <1>2 DEF TimestampEvidence

\* The same for the signed offset of the sensor's sample.
LEMMA SignedReadsBack ==
  ASSUME NEW base \in Times, NEW timestamp \in TimestampEvidence
  PROVE  DecodeSignedEvidence(base, SignedEvidenceOffset(base, timestamp))
           = IF timestamp # Unknown /\ CarriedSigned(base, timestamp) THEN timestamp ELSE Unknown
<1>1. PICK half \in Nat : OFFSET_RANGE \div 2 = half /\ half >= 2
  BY RecordWidths
<1>2. CASE timestamp # Unknown /\ CarriedSigned(base, timestamp)
  <2>1. timestamp \in Times /\ base \in Int /\ timestamp \in Int
    BY <1>2 DEF TimestampEvidence, Times
  <2>2. /\ SignedEvidenceOffset(base, timestamp) = timestamp - base
        /\ timestamp - base # UNKNOWN_SAMPLE_OFFSET_US
    BY <1>1, <1>2, <2>1 DEF CarriedSigned, SignedEvidenceOffset, UNKNOWN_SAMPLE_OFFSET_US
  <2>3. base + (timestamp - base) = timestamp
    BY <2>1
  <2> QED BY <1>2, <2>1, <2>2, <2>3 DEF DecodeSignedEvidence, Reached
<1>3. CASE ~(timestamp # Unknown /\ CarriedSigned(base, timestamp))
  <2>1. SignedEvidenceOffset(base, timestamp) = UNKNOWN_SAMPLE_OFFSET_US
    <3>1. base \in Int /\ (timestamp # Unknown => timestamp \in Int)
      BY DEF TimestampEvidence, Times
    <3> QED BY <1>1, <1>3, <3>1
            DEF CarriedSigned, SignedEvidenceOffset, UNKNOWN_SAMPLE_OFFSET_US
  <2> QED BY <1>3, <2>1 DEF DecodeSignedEvidence
<1> QED BY <1>2, <1>3

\* The header's checks let through what the decoder's own encoder wrote, and
\* nothing that differs from it in one field.
LEMMA OwnRecordsOnly ==
  ASSUME NEW sender \in Kinds, NEW decoder \in Kinds, PayloadLen(sender) = PayloadLen(decoder),
         NEW h \in {Header(sender)} \cup Damaged(Header(sender))
  PROVE  Validate(decoder, h) = "Ok" <=> h = Header(decoder)
<1>1. CASE h = Header(sender)
  <2>1. /\ h.magic /\ h.version /\ h.sums /\ h.kind = sender /\ h.payload = PayloadLen(decoder)
        /\ h = Header(decoder) <=> sender = decoder
    BY <1>1 DEF Header
  <2> QED BY <2>1 DEF Validate
<1>2. CASE h \in Damaged(Header(sender))
  <2>1. ~h.sums
    BY <1>2 DEF Damaged, Header
  <2>2. h # Header(decoder)
    BY <2>1 DEF Header
  <2>3. Validate(decoder, h) # "Ok"
    BY <2>1 DEF Validate
  <2> QED BY <2>2, <2>3
<1> QED BY <1>1, <1>2

\* A recorded time comes back as it was or as unknown, and a decoder takes its
\* own undamaged records only, for every width of clock and offsets.
THEOREM TruthfulRecords == RecordsTellTheTruth
<1>1. ASSUME NEW o \in Observations
      PROVE  Decode(Encode(o)) =
               IF Carried(o.started, o.completed) THEN {Recovered(o)} ELSE Timing
  <2>1. /\ o.started \in Times /\ o.completed \in Times
        /\ o.sampled \in TimestampEvidence /\ o.captured \in TimestampEvidence
        /\ o.completed # Unknown
        /\ o = [started |-> o.started, completed |-> o.completed,
                sampled |-> o.sampled, captured |-> o.captured]
    BY DEF Observations, Times, Unknown
  <2>2. DecodeRequiredOffset(o.started, Encode(o).completed)
          = IF Carried(o.started, o.completed) THEN o.completed ELSE Unknown
    BY <2>1, ForwardReadsBack DEF DecodeRequiredOffset, Encode
  <2>3. DecodeSignedEvidence(o.started, Encode(o).sampled) = Recovered(o).sampled
    BY <2>1, SignedReadsBack DEF Encode, Recovered
  <2>4. DecodeEvidence(o.started, Encode(o).captured) = Recovered(o).captured
    BY <2>1, EvidenceReadsBack DEF Encode, Recovered
  <2>5. Recovered(o) = [started |-> o.started, completed |-> o.completed,
                        sampled |-> Recovered(o).sampled, captured |-> Recovered(o).captured]
    BY <2>1 DEF Recovered
  <2>6. Encode(o).base = o.started
    BY DEF Encode
  <2> QED BY <2>1, <2>2, <2>3, <2>4, <2>5, <2>6 DEF Decode
<1> QED BY <1>1, OwnRecordsOnly DEF RecordsTellTheTruth

-----------------------------------------------------------------------------
(* The producer and the pump.                                               *)

\* The two counters stay in their ranges.
LEMMA CounterTypes ==
  /\ 0 \in Sequence /\ 0 \in 0 .. DROPPED_MAX
  /\ \A n \in Sequence : WrappingIncrement(n) \in Sequence
  /\ \A n \in 0 .. DROPPED_MAX : SaturatingIncrement(n) \in 0 .. DROPPED_MAX
BY ObservationConstants DEF Sequence, WrappingIncrement, SaturatingIncrement

\* What the producer makes is a record, and the empty value is none.
LEMMA RecordFacts ==
  /\ NoRecord \notin Records
  /\ \A n \in Sequence, d \in 0 .. DROPPED_MAX : [sequence |-> n, dropped |-> d] \in Records
<1>1. NoRecord \notin Records
  BY ObservationConstants DEF NoRecord, Records, Sequence
<1> QED BY <1>1 DEF Records

\* What appending to a queue and taking its head off do to it.
LEMMA QueueFacts ==
  ASSUME NEW q \in Seq(Records)
  PROVE  /\ Len(q) \in Nat
         /\ \A r \in Records : /\ Append(q, r) \in Seq(Records)
                               /\ Len(Append(q, r)) = Len(q) + 1
                               /\ Append(q, r) # <<>>
                               /\ q # <<>> => Head(Append(q, r)) = Head(q)
         /\ q # <<>> => /\ Head(q) \in Records
                        /\ Tail(q) \in Seq(Records)
                        /\ Len(Tail(q)) = Len(q) - 1
<1>1. Len(q) \in Nat
  BY LenProperties
<1>2. \A r \in Records : /\ Append(q, r) \in Seq(Records)
                         /\ Len(Append(q, r)) = Len(q) + 1
                         /\ Append(q, r) # <<>>
                         /\ q # <<>> => Head(Append(q, r)) = Head(q)
  BY AppendProperties, HeadTailAppend
<1>3. q # <<>> => /\ Head(q) \in Records
                  /\ Tail(q) \in Seq(Records)
                  /\ Len(Tail(q)) = Len(q) - 1
  BY HeadTailProperties
<1> QED BY <1>1, <1>2, <1>3

-----------------------------------------------------------------------------
(* The inductive invariant.                                                 *)

\* The state after init satisfies it.
LEMMA InitIInv == Init => IInv
<1> SUFFICES ASSUME Init PROVE IInv OBVIOUS
<1> USE DEF Init, InitPump, IdlePump
<1>1. TypeOK
  <2>1. queue \in Seq(Records) /\ Len(queue) < QUEUE_STORAGE
    BY EmptySeq, RecordQueueStorage
  <2>2. observation_divider \in 0 .. OBSERVATION_DECIMATION - 1
    BY ObservationConstants
  <2> QED BY <2>1, <2>2, CounterTypes DEF TypeOK
<1>2. HandlerOwns
  BY DEF HandlerOwns
<1>3. WakeupsKept /\ NoLostWakeup
  BY DEF WakeupsKept, NoLostWakeup
<1> QED BY <1>1, <1>2, <1>3 DEF IInv

\* The producer keeps it: what it appends, it pends.
LEMMA ImuDataReadyIInv == IInv /\ ImuDataReady => IInv'
<1> SUFFICES ASSUME IInv, ImuDataReady PROVE IInv' OBVIOUS
<1> USE DEF IInv
<1>1. CASE Acquire
  <2>1. observation_divider' \in 0 .. OBSERVATION_DECIMATION - 1
    BY <1>1, ObservationConstants DEF Acquire, TypeOK
  <2>2. TypeOK'
    BY <1>1, <2>1 DEF Acquire, pumping, TypeOK
  <2>3. HandlerOwns' /\ WakeupsKept' /\ NoLostWakeup'
    BY <1>1 DEF Acquire, pumping, HandlerOwns, WakeupsKept, NoLostWakeup
  <2> QED BY <2>2, <2>3
<1>2. CASE Observe
  <2>1. /\ observation_divider' \in 0 .. OBSERVATION_DECIMATION - 1
        /\ sequence' \in Sequence
        /\ dropped_records' \in 0 .. DROPPED_MAX
    BY <1>2, ObservationConstants, CounterTypes DEF Observe, TypeOK
  <2>2. CASE QueueFull
    <3>1. UNCHANGED pumping
      BY <1>2, <2>2 DEF Observe
    <3>2. TypeOK'
      BY <2>1, <3>1 DEF pumping, TypeOK
    <3>3. HandlerOwns' /\ WakeupsKept' /\ NoLostWakeup'
      BY <3>1 DEF pumping, HandlerOwns, WakeupsKept, NoLostWakeup
    <3> QED BY <3>2, <3>3
  <2>3. CASE ~QueueFull
    <3> DEFINE r == [sequence |-> sequence, dropped |-> dropped_records]
    <3>1. /\ r \in Records /\ queue \in Seq(Records)
      BY RecordFacts DEF TypeOK
    <3>2. /\ queue' = Append(queue, r)
          /\ pended' = TRUE
          /\ UNCHANGED <<pump, active, complete, buffer, sent>>
      BY <1>2, <2>3 DEF Observe, Enqueue
    <3> HIDE DEF r
    <3>3. /\ queue' \in Seq(Records) /\ Len(queue') = Len(queue) + 1 /\ queue' # <<>>
          /\ queue # <<>> => Head(queue') = Head(queue)
      BY <3>1, <3>2, QueueFacts
    <3>4. Len(queue') < QUEUE_STORAGE
      BY <2>3, <3>1, <3>3, QueueFacts, RecordQueueStorage DEF QueueFull, TypeOK
    <3>5. TypeOK'
      BY <2>1, <3>2, <3>3, <3>4 DEF TypeOK
    <3>6. HandlerOwns'
      BY <3>2, <3>3 DEF HandlerOwns
    <3>7. WakeupsKept' /\ NoLostWakeup'
      BY <3>2 DEF WakeupsKept, NoLostWakeup
    <3> QED BY <3>5, <3>6, <3>7
  <2> QED BY <2>2, <2>3
<1> QED BY <1>1, <1>2 DEF ImuDataReady

\* Every step of the handler and of the channel keeps it.
LEMMA PumpIInv == IInv /\ Pump => IInv'
<1> SUFFICES ASSUME IInv, Pump PROVE IInv' OBVIOUS
<1> USE DEF IInv
<1>0. UNCHANGED producing
  BY DEF Pump
<1> USE DEF producing
<1>1. CASE TransferComplete
  <2>1. TypeOK'
    BY <1>0, <1>1 DEF TransferComplete, TypeOK
  <2>2. HandlerOwns' /\ WakeupsKept' /\ NoLostWakeup'
    BY <1>1 DEF TransferComplete, HandlerOwns, WakeupsKept, NoLostWakeup
  <2> QED BY <2>1, <2>2
<1>2. CASE EnterPump
  <2>1. TypeOK'
    BY <1>0, <1>2 DEF EnterPump, TypeOK
  <2>2. HandlerOwns' /\ WakeupsKept' /\ NoLostWakeup'
    BY <1>2 DEF EnterPump, TypeOK, HandlerOwns, WakeupsKept, NoLostWakeup
  <2> QED BY <2>1, <2>2
<1>3. CASE TakeState
  <2>1. CASE active /\ ~complete
    <3>1. TypeOK'
      BY <1>0, <1>3, <2>1 DEF TakeState, ReturnFromPump, IdlePump, TypeOK
    <3>2. HandlerOwns' /\ WakeupsKept' /\ NoLostWakeup'
      BY <1>3, <2>1 DEF TakeState, ReturnFromPump, IdlePump, HandlerOwns, WakeupsKept,
                        NoLostWakeup
    <3> QED BY <3>1, <3>2
  <2>2. CASE ~(active /\ ~complete)
    <3>1. TypeOK'
      BY <1>0, <1>3, <2>2 DEF TakeState, TypeOK
    <3>2. HandlerOwns' /\ WakeupsKept' /\ NoLostWakeup'
      BY <1>3, <2>2 DEF TakeState, TypeOK, HandlerOwns, WakeupsKept, NoLostWakeup
    <3> QED BY <3>1, <3>2
  <2> QED BY <2>1, <2>2
<1>4. CASE Dequeue
  <2>1. queue # <<>> => Head(queue) \in Records
    BY QueueFacts DEF TypeOK
  <2>2. TypeOK'
    BY <1>0, <1>4, <2>1 DEF Dequeue, TypeOK
  <2>3. HandlerOwns' /\ WakeupsKept' /\ NoLostWakeup'
    BY <1>4, <2>1 DEF Dequeue, TypeOK, HandlerOwns, WakeupsKept, NoLostWakeup
  <2> QED BY <2>2, <2>3
<1>5. CASE FreeSlot
  <2>1. /\ Tail(queue) \in Seq(Records)
        /\ Len(Tail(queue)) = Len(queue) - 1 /\ Len(queue) \in Nat
    BY <1>5, QueueFacts DEF FreeSlot, HandlerOwns, TypeOK
  <2>2. Len(queue') < QUEUE_STORAGE
    BY <1>5, <2>1, RecordQueueStorage DEF FreeSlot, TypeOK
  <2>3. TypeOK'
    BY <1>0, <1>5, <2>1, <2>2 DEF FreeSlot, TypeOK
  <2>4. HandlerOwns' /\ WakeupsKept' /\ NoLostWakeup'
    BY <1>5 DEF FreeSlot, TypeOK, HandlerOwns, WakeupsKept, NoLostWakeup
  <2> QED BY <2>3, <2>4
<1>6. CASE StartTransfer
  <2>1. TypeOK'
    BY <1>0, <1>6 DEF StartTransfer, ReturnFromPump, IdlePump, HandlerOwns, TypeOK
  <2>2. HandlerOwns' /\ WakeupsKept' /\ NoLostWakeup'
    BY <1>6 DEF StartTransfer, ReturnFromPump, IdlePump, HandlerOwns, WakeupsKept,
                NoLostWakeup
  <2> QED BY <2>1, <2>2
<1>7. CASE Park
  <2>1. TypeOK'
    BY <1>0, <1>7 DEF Park, ReturnFromPump, IdlePump, TypeOK
  <2>2. HandlerOwns' /\ WakeupsKept' /\ NoLostWakeup'
    BY <1>7 DEF Park, ReturnFromPump, IdlePump, HandlerOwns, WakeupsKept, NoLostWakeup
  <2> QED BY <2>1, <2>2
<1> QED BY <1>1, <1>2, <1>3, <1>4, <1>5, <1>6, <1>7 DEF Pump, RecordTxDma

\* Every step keeps the invariant.
LEMMA StepIInv == IInv /\ [Next]_vars => IInv'
<1>1. IInv /\ UNCHANGED vars => IInv'
  BY DEF vars, pumping, producing, IInv, TypeOK, HandlerOwns, WakeupsKept, NoLostWakeup
<1> QED BY <1>1, ImuDataReadyIInv, PumpIInv DEF Next

\* The invariant holds throughout.
THEOREM Invariance == Spec => []IInv
BY InitIInv, StepIInv, PTL DEF Spec

\* Every variable of the target keeps its type; the queue never holds more than
\* its storage allows.
THEOREM TypeCorrect == Spec => []TypeOK
<1>1. IInv => TypeOK
  BY DEF IInv
<1> QED BY Invariance, <1>1, PTL

\* Whatever the interleaving of producer, handler and channel, a waiting record
\* never meets a pump that nothing is going to wake.
THEOREM WakeupNeverLost == Spec => []NoLostWakeup
<1>1. IInv => NoLostWakeup
  BY DEF IInv
<1> QED BY Invariance, <1>1, PTL

-----------------------------------------------------------------------------
(* The target implements RecordStream.                                      *)

\* A record in front of a sequence is its head, and the sequence its tail.
LEMMA PrefixedRecord ==
  ASSUME NEW r \in Records, NEW q \in Seq(Records)
  PROVE  /\ <<r>> \o q # <<>>
         /\ Head(<<r>> \o q) = r
         /\ Tail(<<r>> \o q) = q
<1> DEFINE s == <<r>> \o q
<1>1. /\ <<r>> \in Seq(Records) /\ Len(<<r>>) = 1 /\ <<r>>[1] = r
      /\ Len(q) \in Nat
  BY LenProperties
<1>2. /\ s \in Seq(Records)
      /\ Len(s) = 1 + Len(q)
      /\ \A i \in 1 .. 1 + Len(q) : s[i] = IF i <= 1 THEN <<r>>[i] ELSE q[i - 1]
  BY <1>1, ConcatProperties
<1> HIDE DEF s
<1>3. s # <<>>
  BY <1>1, <1>2, EmptySeq
<1>4. Head(s) = r
  <2>1. Head(s) = s[1]
    BY <1>2, <1>3
  <2> QED BY <1>1, <1>2, <2>1
<1>5. /\ Tail(s) \in Seq(Records) /\ Len(Tail(s)) = Len(q)
      /\ \A i \in 1 .. Len(Tail(s)) : Tail(s)[i] = s[i + 1]
  BY <1>1, <1>2, <1>3, HeadTailProperties
<1>6. \A i \in 1 .. Len(q) : Tail(s)[i] = q[i]
  BY <1>1, <1>2, <1>5
<1>7. Tail(s) = q
  BY <1>5, <1>6, SeqEqual
<1> QED BY <1>3, <1>4, <1>7 DEF s

\* Taking the head off and putting it in front again changes nothing.
LEMMA HeadInFront ==
  ASSUME NEW q \in Seq(Records), q # <<>>
  PROVE  <<Head(q)>> \o Tail(q) = q
<1> DEFINE s == <<Head(q)>> \o Tail(q)
<1>1. /\ Head(q) \in Records /\ Tail(q) \in Seq(Records)
      /\ Len(q) \in Nat /\ Len(Tail(q)) = Len(q) - 1
      /\ \A i \in 1 .. Len(Tail(q)) : Tail(q)[i] = q[i + 1]
  BY HeadTailProperties, LenProperties
<1>2. <<Head(q)>> \in Seq(Records) /\ Len(<<Head(q)>>) = 1 /\ <<Head(q)>>[1] = Head(q)
  BY <1>1
<1>3. /\ s \in Seq(Records) /\ Len(s) = Len(q)
      /\ \A i \in 1 .. Len(q) : s[i] = IF i <= 1 THEN <<Head(q)>>[i] ELSE Tail(q)[i - 1]
  BY <1>1, <1>2, ConcatProperties
<1> HIDE DEF s
<1>4. Head(q) = q[1]
  OBVIOUS
<1>5. \A i \in 1 .. Len(q) : s[i] = q[i]
  BY <1>1, <1>2, <1>3, <1>4
<1>6. s = q
  BY <1>3, <1>5, SeqEqual
<1> QED BY <1>6 DEF s

\* Appending to the queue appends to what is in front of it and the queue.
LEMMA AppendBehind ==
  ASSUME NEW t \in Seq(Records), NEW q \in Seq(Records), NEW r \in Records
  PROVE  t \o Append(q, r) = Append(t \o q, r)
<1>1. <<r>> \in Seq(Records) /\ t \o q \in Seq(Records)
  BY ConcatProperties
<1>2. Append(q, r) = q \o <<r>> /\ Append(t \o q, r) = (t \o q) \o <<r>>
  BY <1>1, AppendIsConcat
<1> QED BY <1>1, <1>2, ConcatAssociative

\* At most one record is in transit, and none when the handler owns the channel.
LEMMA InTransitFacts ==
  ASSUME IInv
  PROVE  /\ InTransit \in Seq(Records)
         /\ pump.pc \in {"dequeue", "free", "park"} => InTransit = <<>>
         /\ Len(queue) \in Nat
         /\ Len(InTransit \o queue) >= Len(queue)
<1>1. InTransit \in Seq(Records)
  BY DEF IInv, HandlerOwns, InTransit
<1>2. pump.pc \in {"dequeue", "free", "park"} => InTransit = <<>>
  BY DEF IInv, HandlerOwns, InTransit
<1>3. Len(queue) \in Nat /\ Len(InTransit) \in Nat
  BY <1>1, LenProperties DEF IInv, TypeOK
<1>4. Len(InTransit \o queue) = Len(InTransit) + Len(queue)
  BY <1>1, ConcatProperties DEF IInv, TypeOK
<1> QED BY <1>1, <1>2, <1>3, <1>4

\* Initially the stream is empty.
LEMMA StreamInit == Init => Stream!Init
<1> SUFFICES ASSUME Init PROVE Stream!Init OBVIOUS
<1>1. InTransit = <<>> /\ queue = <<>>
  BY DEF Init, InitPump, IdlePump, InTransit
<1>2. InTransit \o queue = <<>>
  BY <1>1, EmptySeq, ConcatEmptySeq
<1> QED BY <1>2 DEF Init, InitPump, Stream!Init, Stream!NoRecord, NoRecord

\* The producer accepts or skips a record.
LEMMA ImuDataReadyStream ==
  IInv /\ IInv' /\ ImuDataReady => [Stream!Next]_(Stream!vars)
<1> SUFFICES ASSUME IInv, IInv', ImuDataReady PROVE [Stream!Next]_(Stream!vars) OBVIOUS
<1>1. CASE Acquire
  <2>1. UNCHANGED <<InTransit, queue, sequence, dropped_records, sent>>
    BY <1>1 DEF Acquire, pumping, InTransit
  <2> QED BY <2>1 DEF Stream!vars
<1>2. CASE Observe
  <2>1. sequence' = Stream!NextSequence(sequence)
    BY <1>2 DEF Observe, WrappingIncrement, Stream!NextSequence
  <2>2. CASE QueueFull
    <3>1. /\ UNCHANGED <<InTransit, queue, sent>>
          /\ dropped_records' = Stream!OneMoreDropped(dropped_records)
      BY <1>2, <2>2 DEF Observe, pumping, InTransit, SaturatingIncrement,
                        Stream!OneMoreDropped
    <3>2. Len(InTransit \o queue) >= QUEUE_STORAGE - 1
      BY <2>2, InTransitFacts, RecordQueueStorage DEF QueueFull
    <3> QED BY <2>1, <3>1, <3>2 DEF Stream!Next, Stream!Skip
  <2>3. CASE ~QueueFull
    <3> DEFINE r == [sequence |-> sequence, dropped |-> dropped_records]
    <3>1. /\ queue' = Append(queue, r)
          /\ UNCHANGED <<InTransit, dropped_records, sent>>
      BY <1>2, <2>3 DEF Observe, Enqueue, InTransit
    <3>2. r \in Records /\ queue \in Seq(Records)
      BY RecordFacts DEF IInv, TypeOK
    <3>3. (InTransit \o queue)' = Append(InTransit \o queue, r)
      BY <3>1, <3>2, InTransitFacts, AppendBehind
    <3> QED BY <2>1, <3>1, <3>3 DEF Stream!Next, Stream!Accept
  <2> QED BY <2>2, <2>3
<1> QED BY <1>1, <1>2 DEF ImuDataReady

\* The channel sends the record in transit; the handler moves records along.
LEMMA PumpStream == IInv /\ IInv' /\ Pump => [Stream!Next]_(Stream!vars)
<1> SUFFICES ASSUME IInv, IInv', Pump PROVE [Stream!Next]_(Stream!vars) OBVIOUS
<1>0. UNCHANGED <<sequence, dropped_records>> /\ queue \in Seq(Records)
  BY DEF Pump, producing, IInv, TypeOK
<1>1. CASE TransferComplete
  <2>1. /\ InTransit = <<buffer>> /\ buffer \in Records /\ sent' = buffer
        /\ InTransit' = <<>> /\ queue' = queue
    BY <1>1 DEF TransferComplete, IInv, HandlerOwns, InTransit
  <2>2. (InTransit \o queue)' = queue
    BY <1>0, <2>1, ConcatEmptySeq
  <2>3. /\ InTransit \o queue # <<>>
        /\ sent' = Head(InTransit \o queue)
        /\ (InTransit \o queue)' = Tail(InTransit \o queue)
    BY <1>0, <2>1, <2>2, PrefixedRecord
  <2> QED BY <1>0, <2>3 DEF Stream!Next, Stream!Send
<1>2. CASE FreeSlot
  <2>1. /\ InTransit = <<>> /\ InTransit' = <<Head(queue)>>
        /\ queue # <<>> /\ queue' = Tail(queue) /\ sent' = sent
    BY <1>2 DEF FreeSlot, IInv, TypeOK, HandlerOwns, InTransit
  <2>2. (InTransit \o queue)' = InTransit \o queue
    BY <1>0, <2>1, HeadInFront, ConcatEmptySeq
  <2> QED BY <1>0, <2>1, <2>2 DEF Stream!vars
<1>3. CASE EnterPump \/ TakeState \/ Dequeue \/ StartTransfer \/ Park
  <2>1. UNCHANGED <<InTransit, queue, sent>>
    <3>1. CASE EnterPump
      BY <3>1 DEF EnterPump, IInv, TypeOK, InTransit
    <3>2. CASE TakeState
      BY <3>2 DEF TakeState, ReturnFromPump, IdlePump, IInv, TypeOK, HandlerOwns, InTransit
    <3>3. CASE Dequeue
      BY <3>3 DEF Dequeue, IInv, TypeOK, HandlerOwns, InTransit
    <3>4. CASE StartTransfer
      BY <3>4 DEF StartTransfer, ReturnFromPump, IdlePump, IInv, HandlerOwns, InTransit
    <3>5. CASE Park
      BY <3>5 DEF Park, ReturnFromPump, IdlePump, IInv, HandlerOwns, InTransit
    <3> QED BY <1>3, <3>1, <3>2, <3>3, <3>4, <3>5
  <2> QED BY <1>0, <2>1 DEF Stream!vars
<1> QED BY <1>1, <1>2, <1>3 DEF Pump, RecordTxDma

\* Every step is a step of the stream or changes nothing it can see.
LEMMA NextIsStreamStep == IInv /\ IInv' /\ [Next]_vars => [Stream!Next]_(Stream!vars)
<1>1. UNCHANGED vars => UNCHANGED Stream!vars
  BY DEF vars, pumping, producing, InTransit, Stream!vars
<1> QED BY <1>1, ImuDataReadyStream, PumpStream DEF Next

\* Records go out once each, in order, and are skipped only while the queue is
\* full, in every interleaving of producer, handler and channel.
THEOREM Refinement == Spec => ImplementsStream
BY StreamInit, Invariance, NextIsStreamStep, PTL DEF Spec, ImplementsStream, Stream!Spec

-----------------------------------------------------------------------------
(* The gaps in the stream.                                                  *)

\* The number after n, and one more drop before it.
LEMMA FollowsAccept ==
  ASSUME NEW n \in Sequence, NEW d \in 0 .. DROPPED_MAX
  PROVE  Follows([sequence |-> n, dropped |-> d], WrappingIncrement(n), d)
BY ObservationConstants DEF Follows, Distance, WrappingIncrement, Sequence

LEMMA FollowsSkip ==
  ASSUME NEW r \in Records, NEW n \in Sequence, NEW d \in 0 .. DROPPED_MAX,
         Follows(r, n, d)
  PROVE  Follows(r, WrappingIncrement(n), SaturatingIncrement(d))
<1>1. r.sequence \in Sequence /\ r.dropped \in 0 .. DROPPED_MAX
  BY DEF Records
<1> QED
  BY <1>1, ObservationConstants
  DEF Follows, Distance, WrappingIncrement, SaturatingIncrement, Sequence

\* The stream is a sequence of records, and so is what one step makes of it.
LEMMA StreamType ==
  ASSUME IInv
  PROVE  /\ InTransit \o queue \in Seq(Records)
         /\ sequence \in Sequence /\ dropped_records \in 0 .. DROPPED_MAX
         /\ sent # NoRecord => sent \in Records
<1>1. queue \in Seq(Records)
  BY DEF IInv, TypeOK
<1> QED BY <1>1, InTransitFacts, ConcatProperties DEF IInv, TypeOK

\* Accepting, skipping and sending keep the numbers in step with the drops.
LEMMA StreamCountedStep ==
  ASSUME IInv, IInv', StreamCounted, [Stream!Next]_(Stream!vars)
  PROVE  /\ StreamCounted'
         /\ sent # NoRecord /\ sent' # sent =>
              Follows(sent, sent'.sequence, sent'.dropped)
<1> DEFINE s == InTransit \o queue
<1>1. /\ s \in Seq(Records) /\ s' \in Seq(Records)
      /\ Len(s) \in Nat /\ (s # <<>> <=> Len(s) > 0)
      /\ sequence \in Sequence /\ dropped_records \in 0 .. DROPPED_MAX
      /\ sent # NoRecord => sent \in Records
      /\ \A i \in 1 .. Len(s) : s[i] \in Records
  <2>1. s \in Seq(Records) /\ s' \in Seq(Records)
    <3>1. /\ InTransit \in Seq(Records) /\ queue \in Seq(Records)
          /\ InTransit' \in Seq(Records) /\ queue' \in Seq(Records)
      BY DEF IInv, TypeOK, HandlerOwns, InTransit
    <3> QED BY <3>1, ConcatProperties
  <2>2. Len(s) \in Nat /\ (s # <<>> <=> Len(s) > 0)
    BY <2>1, EmptySeq, LenProperties
  <2>3. \A i \in 1 .. Len(s) : s[i] \in Records
    BY <2>1, ElementOfSeq
  <2> QED BY <2>1, <2>2, <2>3, StreamType
<1>2. /\ \A i \in 1 .. Len(s) - 1 : Follows(s[i], s[i + 1].sequence, s[i + 1].dropped)
      /\ s # <<>> => Follows(s[Len(s)], sequence, dropped_records)
      /\ sent # NoRecord => IF s = <<>> THEN Follows(sent, sequence, dropped_records)
                            ELSE Follows(sent, s[1].sequence, s[1].dropped)
  BY DEF StreamCounted
<1>3. SUFFICES
        /\ \A i \in 1 .. Len(s') - 1 : Follows(s'[i], s'[i + 1].sequence, s'[i + 1].dropped)
        /\ s' # <<>> => Follows(s'[Len(s')], sequence', dropped_records')
        /\ sent' # NoRecord => IF s' = <<>> THEN Follows(sent', sequence', dropped_records')
                               ELSE Follows(sent', s'[1].sequence, s'[1].dropped)
        /\ sent # NoRecord /\ sent' # sent => Follows(sent, sent'.sequence, sent'.dropped)
  BY DEF StreamCounted
<1> HIDE DEF s
<1>4. CASE Stream!Accept
  <2> DEFINE r == [sequence |-> sequence, dropped |-> dropped_records]
  <2>1. /\ s' = Append(s, r) /\ UNCHANGED <<dropped_records, sent>>
        /\ sequence' = WrappingIncrement(sequence)
    BY <1>4 DEF s, Stream!Accept, Stream!NextSequence, WrappingIncrement
  <2>2. r \in Records
    BY <1>1, RecordFacts
  <2>3. /\ Len(s') = Len(s) + 1 /\ s'[Len(s) + 1] = r
        /\ \A i \in 1 .. Len(s) : s'[i] = s[i]
        /\ s' # <<>>
    BY <1>1, <2>1, <2>2, AppendProperties
  <2>4. Follows(r, sequence', dropped_records')
    BY <1>1, <2>1, FollowsAccept
  <2>5. \A i \in 1 .. Len(s') - 1 : Follows(s'[i], s'[i + 1].sequence, s'[i + 1].dropped)
    <3> SUFFICES ASSUME NEW i \in 1 .. Len(s)
                 PROVE  Follows(s[i], s'[i + 1].sequence, s'[i + 1].dropped)
      BY <1>1, <2>3
    <3>1. CASE i = Len(s)
      <4>1. s'[i + 1].sequence = sequence /\ s'[i + 1].dropped = dropped_records
        BY <2>3, <3>1
      <4>2. s # <<>>
        BY <1>1, <3>1
      <4> QED BY <1>2, <3>1, <4>1, <4>2
    <3>2. CASE i # Len(s)
      <4>1. i \in 1 .. Len(s) - 1 /\ i + 1 \in 1 .. Len(s)
        BY <1>1, <3>2
      <4> QED BY <1>2, <2>3, <4>1
    <3> QED BY <3>1, <3>2
  <2>6. sent' # NoRecord => Follows(sent', s'[1].sequence, s'[1].dropped)
    <3>1. CASE s = <<>>
      <4>1. Len(s) = 0
        BY <1>1, <3>1
      <4>2. s'[1].sequence = sequence /\ s'[1].dropped = dropped_records
        BY <2>3, <4>1
      <4> QED BY <1>2, <2>1, <3>1, <4>2
    <3>2. CASE s # <<>>
      BY <1>1, <1>2, <2>1, <2>3, <3>2
    <3> QED BY <3>1, <3>2
  <2> QED BY <1>1, <2>1, <2>3, <2>4, <2>5, <2>6
<1>5. CASE Stream!Skip
  <2>1. /\ s' = s /\ sent' = sent /\ sequence' = WrappingIncrement(sequence)
        /\ dropped_records' = SaturatingIncrement(dropped_records)
    BY <1>5 DEF s, Stream!Skip, Stream!NextSequence, Stream!OneMoreDropped,
                WrappingIncrement, SaturatingIncrement
  <2>2. ASSUME NEW r \in Records, Follows(r, sequence, dropped_records)
        PROVE  Follows(r, sequence', dropped_records')
    BY <1>1, <2>1, <2>2, FollowsSkip
  <2>3. s # <<>> => Follows(s[Len(s)], sequence', dropped_records')
    BY <1>1, <1>2, <2>2
  <2> QED BY <1>1, <1>2, <2>1, <2>2, <2>3
<1>6. CASE Stream!Send
  <2>1. /\ s # <<>> /\ sent' = Head(s) /\ s' = Tail(s)
        /\ UNCHANGED <<sequence, dropped_records>>
    BY <1>6 DEF s, Stream!Send
  <2>2. /\ Head(s) = s[1] /\ s[1] \in Records /\ Len(s) > 0
        /\ Len(s') = Len(s) - 1
        /\ \A i \in 1 .. Len(s) - 1 : s'[i] = s[i + 1]
        /\ s' # <<>> <=> Len(s') > 0
    <3>1. /\ Len(s') = Len(s) - 1 /\ Len(s') \in Nat
          /\ \A i \in 1 .. Len(s') : s'[i] = s[i + 1]
      BY <1>1, <2>1, HeadTailProperties, LenProperties
    <3>2. Head(s) = s[1] /\ s[1] \in Records /\ Len(s) > 0
      BY <1>1, <2>1
    <3>3. s' # <<>> <=> Len(s') > 0
      BY <1>1, EmptySeq
    <3> QED BY <3>1, <3>2, <3>3
  <2>3. \A i \in 1 .. Len(s') - 1 : Follows(s'[i], s'[i + 1].sequence, s'[i + 1].dropped)
    <3> SUFFICES ASSUME NEW i \in 1 .. Len(s) - 2
                 PROVE  Follows(s'[i], s'[i + 1].sequence, s'[i + 1].dropped)
      BY <1>1, <2>2
    <3>1. i \in 1 .. Len(s) - 1 /\ i + 1 \in 1 .. Len(s) - 1
      BY <1>1
    <3> QED BY <1>2, <2>2, <3>1
  <2>4. s' # <<>> => Follows(s'[Len(s')], sequence', dropped_records')
    <3> SUFFICES ASSUME Len(s) > 1 PROVE Follows(s'[Len(s')], sequence', dropped_records')
      BY <1>1, <2>2
    <3>1. s'[Len(s')] = s[Len(s)]
      BY <1>1, <2>2
    <3> QED BY <1>2, <2>1, <3>1
  <2>5. IF s' = <<>> THEN Follows(sent', sequence', dropped_records')
        ELSE Follows(sent', s'[1].sequence, s'[1].dropped)
    <3>1. CASE Len(s) = 1
      <4>1. s' = <<>> /\ s[Len(s)] = sent'
        BY <1>1, <2>1, <2>2, <3>1
      <4> QED BY <1>2, <2>1, <4>1
    <3>2. CASE Len(s) # 1
      <4>1. s' # <<>> /\ s'[1] = s[2] /\ 1 \in 1 .. Len(s) - 1
        BY <1>1, <2>2, <3>2
      <4> QED BY <1>2, <2>1, <2>2, <4>1
    <3> QED BY <3>1, <3>2
  <2> QED BY <1>2, <2>1, <2>2, <2>3, <2>4, <2>5
<1>7. CASE UNCHANGED Stream!vars
  <2>1. UNCHANGED <<s, sequence, dropped_records, sent>>
    BY <1>7 DEF s, Stream!vars
  <2> QED BY <1>2, <2>1
<1> QED BY <1>4, <1>5, <1>6, <1>7 DEF Stream!Next

\* The stream is counted throughout.
THEOREM CountedStream == Spec => []StreamCounted
<1>1. Init => StreamCounted
  <2> SUFFICES ASSUME Init PROVE StreamCounted OBVIOUS
  <2>1. InTransit \o queue = <<>> /\ Len(<<>>) = 0
    BY StreamInit DEF Stream!Init
  <2>2. sent = NoRecord
    BY DEF Init, InitPump
  <2> QED BY <2>1, <2>2 DEF StreamCounted
<1>2. IInv /\ IInv' /\ StreamCounted /\ [Next]_vars => StreamCounted'
  BY NextIsStreamStep, StreamCountedStep
<1> QED BY <1>1, <1>2, Invariance, PTL DEF Spec

\* The numbers missing on the wire are the drops counted between, until the
\* count saturates, however far the stream is behind the producer.
THEOREM GapsAreCounted == Spec => GapsCounted
<1>1. IInv /\ IInv' /\ StreamCounted /\ [Next]_vars =>
        [sent # NoRecord /\ sent' # sent /\ sent'.dropped < DROPPED_MAX =>
           Distance(sent.sequence, sent'.sequence) = 1 + sent'.dropped - sent.dropped]_vars
  BY NextIsStreamStep, StreamCountedStep DEF Follows
<1> QED BY <1>1, Invariance, CountedStream, PTL DEF Spec, GapsCounted

-----------------------------------------------------------------------------
(* The wire.                                                                *)

\* Whatever times a record on the wire carries, its decoder tells them as they
\* were or not at all, for every width of the clock and the offsets.
THEOREM WireIsTruthful == Spec => []WireTellsTheTruth
<1>1. WireTellsTheTruth
  BY TruthfulRecords DEF WireTellsTheTruth
<1> QED BY <1>1, PTL
=============================================================================
