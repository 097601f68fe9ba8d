------------------------- MODULE ObservationTarget --------------------------
(***************************************************************************)
(* The recording of the observation target: every OBSERVATION_DECIMATION-  *)
(* th data-ready interrupt makes a record of its observation and hands it  *)
(* to the DMA pump through the queue.  A record stands for its two counts  *)
(* here; ObservationRecord is what it says of its times, whichever they    *)
(* are.  What is measured, and the timing monitor that qualifies it, is    *)
(* left out: neither decides what is recorded.  imu_data_ready             *)
(* (priority 2) is atomic for the pump (priority 1).                       *)
(***************************************************************************)
EXTENDS RecordPump, ObservationRecord

CONSTANTS
  OBSERVATION_DECIMATION,   (* data-ready interrupts per record             *)
  SEQUENCE_RANGE,           (* sequence is a u32                            *)
  DROPPED_MAX               (* dropped_records is a u16                     *)

ASSUME ObservationConstants ==
  /\ OBSERVATION_DECIMATION \in Nat \ {0}
  /\ SEQUENCE_RANGE \in Nat /\ DROPPED_MAX \in Nat
  /\ DROPPED_MAX < SEQUENCE_RANGE

VARIABLES observation_divider, sequence, dropped_records

producing == <<observation_divider, sequence, dropped_records>>
vars == <<pumping, producing>>

WrappingIncrement(n) == IF n + 1 = SEQUENCE_RANGE THEN 0 ELSE n + 1

\* Mutation of SaturatingIncrement: the count wraps.
WrappedCount(n) == IF n < DROPPED_MAX THEN n + 1 ELSE 0

SaturatingIncrement(n) == IF n < DROPPED_MAX THEN n + 1 ELSE n

Init ==
  /\ InitPump
  /\ observation_divider = 0
  /\ sequence = 0
  /\ dropped_records = 0

\* An interrupt between two records.
Acquire ==
  /\ observation_divider + 1 < OBSERVATION_DECIMATION
  /\ observation_divider' = observation_divider + 1
  /\ UNCHANGED <<pumping, sequence, dropped_records>>

\* Mutation of Observe: a dropped record does not use its sequence number.
ObserveReusingSequence ==
  /\ observation_divider + 1 >= OBSERVATION_DECIMATION
  /\ observation_divider' = 0
  /\ IF QueueFull
     THEN /\ dropped_records' = SaturatingIncrement(dropped_records)
          /\ UNCHANGED <<pumping, sequence>>
     ELSE /\ Enqueue([sequence |-> sequence, dropped |-> dropped_records])
          /\ sequence' = WrappingIncrement(sequence)
          /\ UNCHANGED dropped_records

\* An interrupt that records its observation, or counts it as dropped.
Observe ==
  /\ observation_divider + 1 >= OBSERVATION_DECIMATION
  /\ observation_divider' = 0
  /\ IF QueueFull
     THEN /\ dropped_records' = SaturatingIncrement(dropped_records)
          /\ UNCHANGED pumping
     ELSE /\ Enqueue([sequence |-> sequence, dropped |-> dropped_records])
          /\ UNCHANGED dropped_records
  /\ sequence' = WrappingIncrement(sequence)

ImuDataReady == Acquire \/ Observe

Pump == (RecordTxDma \/ TransferComplete) /\ UNCHANGED producing

Next == ImuDataReady \/ Pump

Spec == Init /\ [][Next]_vars

\* The pump is served between two data-ready interrupts, and the UART empties
\* the buffer it was given.  The sensor may stop.
FairSpec ==
  Spec /\ WF_vars(RecordTxDma /\ UNCHANGED producing)
       /\ WF_vars(TransferComplete /\ UNCHANGED producing)

-----------------------------------------------------------------------------
(* Properties                                                               *)

Sequence == 0 .. SEQUENCE_RANGE - 1
Records == [sequence : Sequence, dropped : 0 .. DROPPED_MAX]

TypeOK ==
  /\ queue \in Seq(Records)
  /\ Len(queue) < QUEUE_STORAGE
  /\ pended \in BOOLEAN
  /\ pump \in [pc : {"idle", "take", "dequeue", "free", "start", "park"},
               record : Records \cup {NoRecord}]
  /\ active \in BOOLEAN
  /\ complete \in BOOLEAN
  /\ buffer \in Records \cup {NoRecord}
  /\ sent \in Records \cup {NoRecord}
  /\ observation_divider \in 0 .. OBSERVATION_DECIMATION - 1
  /\ sequence \in Sequence
  /\ dropped_records \in 0 .. DROPPED_MAX

\* No lost wake-up: the producer pends the vector while its handler runs, or
\* the transfer completes while it does.  Whenever the handler is not running
\* and a record waits, either the vector is pending or a transfer is under way
\* whose completion will pend it.
NoLostWakeup ==
  pump.pc = "idle" /\ queue # <<>> => pended \/ (active /\ ~complete)

Distance(from, to) == IF to >= from THEN to - from ELSE to - from + SEQUENCE_RANGE

\* docs/commissioning/runtime_profile.md: the sequence number and the cumulative
\* dropped-record count are part of the record contract.  Between two records
\* on the wire, the numbers missing are the records counted as dropped, until
\* the count saturates.
GapsCounted ==
  [][sent # NoRecord /\ sent' # sent /\ sent'.dropped < DROPPED_MAX =>
       Distance(sent.sequence, sent'.sequence) = 1 + sent'.dropped - sent.dropped]_vars

\* What is on the wire tells its observation's times as they were, or not at
\* all, whichever they were; and no other decoder takes it.
WireTellsTheTruth == sent # NoRecord => RecordsTellTheTruth

\* Every record that was queued goes out, even if no other one follows.
QueueDrains == \A n \in Sequence :
  (\E i \in DOMAIN queue : queue[i].sequence = n) ~> (sent.sequence = n)

-----------------------------------------------------------------------------
(* The target implements RecordStream.                                      *)

\* The record that has left the queue and is not on the wire yet.
InTransit ==
  IF pump.pc = "start" THEN <<pump.record>>
  ELSE IF active /\ ~complete THEN <<buffer>> ELSE <<>>

Stream == INSTANCE RecordStream WITH stream <- InTransit \o queue, dropped <- dropped_records

\* Records go out once each, in order, and are skipped only while the queue is
\* full, whatever the interleaving of producer, pump and channel.
ImplementsStream == Stream!Spec

-----------------------------------------------------------------------------
(* The inductive invariant behind the theorems.                             *)

\* What each step of the handler has made sure of.
HandlerOwns ==
  /\ pump.pc \in {"dequeue", "free", "start", "park"} => ~active /\ ~complete
  /\ pump.pc = "free" => queue # <<>> /\ pump.record = Head(queue)
  /\ pump.pc \in {"free", "start"} => pump.record \in Records
  /\ active => buffer \in Records
  /\ complete => active

\* Wherever the handler is, a completion or a record it will not see any more
\* has pended the vector.
WakeupsKept ==
  /\ complete => pended \/ pump.pc = "take"
  /\ pump.pc = "park" /\ queue # <<>> => pended

IInv == TypeOK /\ HandlerOwns /\ WakeupsKept /\ NoLostWakeup

\* The numbers from a record to the number n that comes next after d drops are
\* the drops since, until the count saturates.
Follows(r, n, d) ==
  d < DROPPED_MAX => Distance(r.sequence, n) = 1 + d - r.dropped

\* So does each record in the stream the one before it, the first one the
\* record on the wire, and the producer's counters the last one.
StreamCounted ==
  LET stream == InTransit \o queue
  IN  /\ \A i \in 1 .. Len(stream) - 1 :
           Follows(stream[i], stream[i + 1].sequence, stream[i + 1].dropped)
      /\ stream # <<>> => Follows(stream[Len(stream)], sequence, dropped_records)
      /\ sent # NoRecord =>
           IF stream = <<>> THEN Follows(sent, sequence, dropped_records)
           ELSE Follows(sent, stream[1].sequence, stream[1].dropped)
=============================================================================
