----------------------------- MODULE LiveShadow -----------------------------
(***************************************************************************)
(* The live-shadow target: every data-ready interrupt is timed against the *)
(* control deadline, and every PROFILE_DECIMATION-th hands a record of the *)
(* statistics to the same kind of DMA pump as the observation target's.    *)
(*                                                                         *)
(* Three tasks.  timing_health (priority 3) only polls the timing monitor. *)
(* imu_data_ready (priority 2) reads the monitor once, at its event, so    *)
(* one action stands for a whole run of it: a poll that preempts it is one *)
(* that comes before it or after it.  profile_tx_dma (priority 1) is       *)
(* preempted between any two of its steps.                                 *)
(*                                                                         *)
(* Time is in milliseconds and the monitor's stamps are relative to now.   *)
(***************************************************************************)
EXTENDS RecordPump, SensorTiming, RuntimeAuthority, FiniteSetsExt

CONSTANTS
  PROFILE_DECIMATION,       (* runs per record                              *)
  CONTROL_DEADLINE_CYCLES,  (* a run that takes longer is an overrun        *)
  SEQUENCE_RANGE,           (* sequence is a u32                            *)
  DROPPED_MAX,              (* dropped_records is a u16                     *)
  OVERRUN_MAX,              (* overrun_count is a u32                       *)
  Costs,                    (* cycles a run may take                        *)
  MaxRuns                   (* bound: runs of imu_data_ready                *)

ASSUME LiveShadowConstants ==
  /\ PROFILE_DECIMATION \in Nat \ {0}
  /\ CONTROL_DEADLINE_CYCLES \in Nat
  /\ SEQUENCE_RANGE \in Nat \ {0} /\ DROPPED_MAX \in Nat /\ OVERRUN_MAX \in Nat
  /\ Costs \subseteq Nat \ {0}
  /\ MaxRuns \in Nat /\ MaxRuns <= SEQUENCE_RANGE

VARIABLES
  configured,       (* init found, probed and configured the IMU            *)
  monitor,          (* shared: imu_timing_monitor                           *)
  profile_divider, sequence, dropped_records,
  window_max,       (* window_max_critical_path_cycles                      *)
  boot_max,         (* boot_max_critical_path_cycles                        *)
  overrun_count,
  silence,          (* history: ms since the last run, up to TIMEOUT_AFTER  *)
  runs              (* history: of each run, its cost and "on time"         *)

statistics == <<profile_divider, sequence, dropped_records, window_max, boot_max,
                overrun_count, runs>>
vars == <<pumping, configured, monitor, silence, statistics>>

WrappingIncrement(n) == IF n + 1 = SEQUENCE_RANGE THEN 0 ELSE n + 1
SaturatingIncrement(n, top) == IF n < top THEN n + 1 ELSE n

Init ==
  /\ InitPump
  /\ configured \in BOOLEAN
  /\ monitor = NewMonitor(0)
  /\ profile_divider = 0 /\ sequence = 0 /\ dropped_records = 0
  /\ window_max = 0 /\ boot_max = 0 /\ overrun_count = 0
  /\ silence = TIMEOUT_AFTER
  /\ runs = <<>>

\* A millisecond, and the poll at its end.  Ages beyond TIMEOUT_AFTER are alike.
TimingHealth ==
  /\ LET aged == [monitor EXCEPT !.reference = IF @ > -TIMEOUT_AFTER THEN @ - 1 ELSE @]
     IN  monitor' = PollMonitor(aged, 0)
  /\ silence' = SaturatingIncrement(silence, TIMEOUT_AFTER)
  /\ UNCHANGED <<pumping, configured, statistics>>

-----------------------------------------------------------------------------
(* ShadowEngine::step.                                                       *)

\* What RuntimeAuthority decides at the end of a step: the state is always
\* Balancing, and an estimate comes with validity Valid.
TokenMade(timing, wheel) ==
  Evaluate([operating_state |-> "Balancing", timing |-> timing,
            estimate_validity |-> "Valid", reaction_wheel |-> wheel],
           [drive_saturated |-> FALSE, reaction_saturated |-> FALSE]).authorized

\* Whether a step may make an AuthorizedActuation token, which is then dropped.
\* It makes none where scaling, the observer, the control law or the actuator
\* model fails, and the observer refuses a measurement whose timing is not
\* Healthy.  Whichever way it ends, the input it leaves to the next step is zero.
Tokens(timing) ==
  {FALSE} \cup
  IF ClosedLoopEligible(timing)
  THEN {TokenMade(timing, wheel) : wheel \in ReactionWheelAuthority} ELSE {}

-----------------------------------------------------------------------------
(* Task imu_data_ready.                                                      *)

\* The record of a run, from the statistics that include it.
ProfileSample(cost, peak, token) ==
  [sequence |-> sequence, dropped |-> dropped_records, critical |-> cost,
   window_max |-> peak, boot_max |-> boot_max', overruns |-> overrun_count', token |-> token]

\* The statistics of the run, before the record is made.
Account(cost) ==
  /\ boot_max' = Max({boot_max, cost})
  /\ overrun_count' = IF cost > CONTROL_DEADLINE_CYCLES
                      THEN SaturatingIncrement(overrun_count, OVERRUN_MAX) ELSE overrun_count

\* Mutation of Publish: a window lasts until a record of it is queued.
PublishKeepingWindow(sample) ==
  /\ profile_divider' = 0
  /\ IF QueueFull
     THEN /\ dropped_records' = SaturatingIncrement(dropped_records, DROPPED_MAX)
          /\ window_max' = sample.window_max
          /\ UNCHANGED pumping
     ELSE /\ Enqueue(sample)
          /\ window_max' = 0
          /\ UNCHANGED dropped_records

\* Queue the record and pend the pump, or count it as dropped; a new window
\* begins either way.
Publish(sample) ==
  /\ profile_divider' = 0
  /\ IF QueueFull
     THEN /\ dropped_records' = SaturatingIncrement(dropped_records, DROPPED_MAX)
          /\ UNCHANGED pumping
     ELSE /\ Enqueue(sample)
          /\ UNCHANGED dropped_records
  /\ window_max' = 0

ImuDataReady ==
  /\ configured /\ Len(runs) < MaxRuns
  /\ monitor' = OnEvent(monitor, 0)
  /\ \E cost \in Costs, token \in Tokens(monitor'.health) :
       LET peak == Max({window_max, cost})
       IN  /\ Account(cost)
           /\ IF profile_divider + 1 >= PROFILE_DECIMATION
              THEN Publish(ProfileSample(cost, peak, token))
              ELSE /\ profile_divider' = profile_divider + 1
                   /\ window_max' = peak
                   /\ UNCHANGED <<pumping, dropped_records>>
           /\ runs' = Append(runs, [cost |-> cost, on_time |-> silence < LATE_AFTER])
  /\ sequence' = WrappingIncrement(sequence)
  /\ silence' = 0
  /\ UNCHANGED configured

ProfileTxDma == RecordTxDma /\ UNCHANGED <<configured, monitor, silence, statistics>>
ProfileTransferComplete ==
  TransferComplete /\ UNCHANGED <<configured, monitor, silence, statistics>>

Next == TimingHealth \/ ImuDataReady \/ ProfileTxDma \/ ProfileTransferComplete

Spec == Init /\ [][Next]_vars

-----------------------------------------------------------------------------
(* Properties                                                               *)

Records == [sequence : Nat, dropped : 0 .. DROPPED_MAX, critical : Costs, window_max : Costs,
            boot_max : Costs, overruns : 0 .. OVERRUN_MAX, token : BOOLEAN]

TypeOK ==
  /\ configured \in BOOLEAN
  /\ monitor \in Monitors(-TIMEOUT_AFTER .. 0)
  /\ profile_divider \in 0 .. PROFILE_DECIMATION - 1
  /\ sequence \in 0 .. SEQUENCE_RANGE - 1 /\ dropped_records \in 0 .. DROPPED_MAX
  /\ window_max \in Costs \cup {0} /\ boot_max \in Costs \cup {0}
  /\ overrun_count \in 0 .. OVERRUN_MAX
  /\ silence \in 0 .. TIMEOUT_AFTER
  /\ runs \in Seq([cost : Costs, on_time : BOOLEAN])
  /\ queue \in Seq(Records) /\ Len(queue) < QUEUE_STORAGE
  /\ {pump.record, buffer, sent} \subseteq Records \cup {NoRecord}

\* The records on their way: the last one received, the one being sent, the queue.
Stream ==
  (IF sent = NoRecord THEN <<>> ELSE <<sent>>) \o
  (IF pump.pc = "start" THEN <<pump.record>>
   ELSE IF active /\ ~complete THEN <<buffer>> ELSE <<>>) \o queue

CostsOf(first, last) == {runs[n].cost : n \in first .. last}

\* The overruns among the first n runs.
Overruns(n) == {i \in 1 .. n : runs[i].cost > CONTROL_DEADLINE_CYCLES}

\* What a record says is true of the runs up to its own, the recorded ones and
\* the others: the maxima, the overruns, and that a token came of a timely event.
TellsRuns(record) ==
  LET n == record.sequence + 1
  IN  /\ n \in DOMAIN runs /\ n % PROFILE_DECIMATION = 0
      /\ record.critical = runs[n].cost
      /\ record.window_max = Max(CostsOf(n - PROFILE_DECIMATION + 1, n))
      /\ record.boot_max = Max(CostsOf(1, n))
      /\ record.overruns = Min({OVERRUN_MAX, Cardinality(Overruns(n))})
      /\ record.token => runs[n].on_time

\* Between two records that follow each other on the wire, the sequence number
\* has moved by the runs of the window, and of the windows counted as dropped.
TellsDrops(record, next) ==
  next.dropped < DROPPED_MAX =>
    next.sequence - record.sequence =
      PROFILE_DECIMATION * (1 + next.dropped - record.dropped)

\* docs/commissioning/live_shadow_control.md: each record contains the latest
\* step's timing plus window and boot maxima, and decisions are taken from the
\* boot maximum and the overruns.  They are right in every record, although
\* records are dropped, and the wire shows which windows it lost.
StreamTells ==
  /\ TypeOK
  /\ \A i \in DOMAIN Stream : TellsRuns(Stream[i])
  /\ \A i \in 1 .. Len(Stream) - 1 : TellsDrops(Stream[i], Stream[i + 1])

-----------------------------------------------------------------------------
(* The inductive invariant behind the theorem.                              *)

\* What each step of the pump has made sure of.
PumpOwns ==
  /\ pump \in [pc : {"idle", "take", "dequeue", "free", "start", "park"},
               record : Records \cup {NoRecord}]
  /\ active \in BOOLEAN /\ complete \in BOOLEAN
  /\ pump.pc \in {"dequeue", "free", "start", "park"} => ~active /\ ~complete
  /\ pump.pc = "free" => queue # <<>> /\ pump.record = Head(queue)
  /\ pump.pc = "start" => pump.record \in Records
  /\ active => buffer \in Records
  /\ complete => active

\* The monitor's stamp is as old as the silence.
MonitorTimed == monitor.seen => silence = -monitor.reference

\* The greatest cost of some runs, or 0 for none.
IsPeak(value, first, last) ==
  IF first > last THEN value = 0
  ELSE value \in CostsOf(first, last) /\ \A cost \in CostsOf(first, last) : cost <= value

\* The statistics are those of the runs so far, and of the current window.
StatisticsTell ==
  LET n == Len(runs)
  IN  /\ n <= MaxRuns
      /\ sequence = IF n = SEQUENCE_RANGE THEN 0 ELSE n
      /\ profile_divider = n % PROFILE_DECIMATION
      /\ IsPeak(window_max, n - profile_divider + 1, n)
      /\ IsPeak(boot_max, 1, n)
      /\ overrun_count = Min({OVERRUN_MAX, Cardinality(Overruns(n))})

\* The number of the run that a record comes of next.
NextSequence == Len(runs) - profile_divider + PROFILE_DECIMATION - 1

\* The last record on its way and the one to be made next.
NextTells ==
  Stream # <<>> =>
    TellsDrops(Stream[Len(Stream)], [sequence |-> NextSequence, dropped |-> dropped_records])

IInv == StreamTells /\ PumpOwns /\ MonitorTimed /\ StatisticsTell /\ NextTells
=============================================================================
