----------------------------- MODULE CycleClock -----------------------------
(***************************************************************************)
(* The timebase of the firmware targets: the 32-bit DWT cycle counter, and *)
(* capture_timestamp_us, which extends it.  Every interrupt task keeps a   *)
(* clock of its own, and sees a wrap of the counter only as a reading      *)
(* lower than its own last one.                                            *)
(*                                                                         *)
(* A clock's epoch is counted here in whole ranges of the counter.         *)
(***************************************************************************)
EXTENDS Integers

CONSTANTS
  COUNTER_RANGE,   (* the cycle counter wraps here                          *)
  CYCLES_PER_US    (* core clock cycles per microsecond                     *)

ASSUME CycleCounter ==
  /\ COUNTER_RANGE \in Nat \ {0}
  /\ CYCLES_PER_US \in Nat \ {0}

Counts == {n \in Nat : n < COUNTER_RANGE}

\* True time: how often the counter has wrapped, and where it is.
Instants == [turns : Nat, count : Counts]

Clocks == [last : Counts, epoch : Nat]

OneCycleLater(now) ==
  IF now.count + 1 = COUNTER_RANGE
  THEN [turns |-> now.turns + 1, count |-> 0]
  ELSE [now EXCEPT !.count = @ + 1]

Cycles(now) == now.turns * COUNTER_RANGE + now.count

CyclesSince(then, now) == Cycles(now) - Cycles(then)

\* A whole range of the counter, or more, has passed.
WholeRangeSince(then, now) ==
  \/ now.turns > then.turns + 1
  \/ now.turns = then.turns + 1 /\ now.count >= then.count

\* A clock as init leaves it.
NewClock(now) == [last |-> now.count, epoch |-> 0]

\* Mutation of Captured: equal readings are taken for a wrap.
CapturedWrapOnEqual(clock, now) ==
  [last |-> now.count,
   epoch |-> IF now.count <= clock.last THEN clock.epoch + 1 ELSE clock.epoch]

\* Mutation of Captured: the last reading is not kept.
CapturedLastKept(clock, now) ==
  [clock EXCEPT !.epoch = IF now.count < clock.last THEN @ + 1 ELSE @]

\* The clock after capture_timestamp_us.
Captured(clock, now) ==
  [last |-> now.count,
   epoch |-> IF now.count < clock.last THEN clock.epoch + 1 ELSE clock.epoch]

\* What the capture returned.
TimestampUs(clock) == (clock.epoch * COUNTER_RANGE + clock.last) \div CYCLES_PER_US
=============================================================================
