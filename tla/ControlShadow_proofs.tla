------------------------ MODULE ControlShadow_proofs ------------------------
(***************************************************************************)
(* Proofs about the control-shadow target, for every counter range, period *)
(* and budget: what its two clocks read, what its words tell, and what the *)
(* poll and the step make of timestamps from the two clocks.               *)
(***************************************************************************)
EXTENDS ControlShadow, TLAPS

\* A cycle later, the time is later, and by one cycle.
LEMMA OneCycle ==
  ASSUME NEW t \in Instants
  PROVE  /\ OneCycleLater(t) \in Instants
         /\ \/ /\ OneCycleLater(t).turns = t.turns
               /\ OneCycleLater(t).count = t.count + 1
            \/ /\ OneCycleLater(t).turns = t.turns + 1
               /\ OneCycleLater(t).count = 0 /\ t.count + 1 = COUNTER_RANGE
BY CycleCounter DEF Instants, Counts, OneCycleLater

\* A capture is a clock, and keeps the reading.
LEMMA CaptureType ==
  ASSUME NEW clock \in Clocks, NEW t \in Instants
  PROVE  /\ Captured(clock, t) \in Clocks
         /\ Captured(clock, t).last = t.count
         /\ Captured(clock, t).epoch =
              IF t.count < clock.last THEN clock.epoch + 1 ELSE clock.epoch
BY CycleCounter DEF Instants, Counts, Clocks, Captured

\* Within a range of the counter, a capture of an exact clock is exact.
LEMMA CaptureExact ==
  ASSUME NEW clock \in Clocks, NEW then \in Instants, NEW t \in Instants,
         NotBefore(t, then), ~WholeRangeSince(then, t), Reads(clock, then)
  PROVE  Reads(Captured(clock, t), t)
BY CaptureType, CycleCounter DEF Reads, NotBefore, WholeRangeSince, Instants, Counts, Clocks

\* A capture after a whole range loses a wrap, and none is ever won back.
LEMMA CaptureLoses ==
  ASSUME NEW clock \in Clocks, NEW then \in Instants, NEW t \in Instants,
         NotBefore(t, then), clock.last = then.count,
         \/ clock.epoch < then.turns
         \/ clock.epoch = then.turns /\ WholeRangeSince(then, t)
  PROVE  Captured(clock, t).epoch < t.turns
BY CaptureType, CycleCounter DEF NotBefore, WholeRangeSince, Instants, Counts, Clocks

LEMMA CaptureStep ==
  ASSUME ClockInv, CaptureImu, UNCHANGED <<now, since_poll, health_clock>>
  PROVE  ClockInv'
<1>1. /\ now \in Instants /\ truth.captured \in Instants /\ imu_clock \in Clocks
      /\ NotBefore(now, truth.captured) /\ imu_clock.last = truth.captured.count
  BY DEF ClockInv, ClockTypes, ImuClockAge
<1>2. /\ truth'.captured = now /\ DOMAIN truth' = DOMAIN truth
      /\ truth'.slept = (truth.slept \/ WholeRangeSince(truth.captured, now))
  BY DEF CaptureImu, ClockInv, ClockTypes
<1>3. imu_clock' = Captured(imu_clock, now) BY DEF CaptureImu
<1>4. imu_clock' \in Clocks /\ imu_clock'.last = now.count BY <1>1, <1>3, CaptureType
<1>5. ClockTypes'
  BY <1>1, <1>2, <1>4 DEF ClockInv, ClockTypes, WholeRangeSince
<1>6. NotBefore(now, now) BY <1>1 DEF NotBefore, Instants, Counts
<1>7. CASE truth'.slept
  <2>1. \/ imu_clock.epoch < truth.captured.turns
        \/ imu_clock.epoch = truth.captured.turns /\ WholeRangeSince(truth.captured, now)
    BY <1>2, <1>7 DEF ClockInv, ImuClockAge
  <2>2. imu_clock'.epoch < now.turns BY <1>1, <1>3, <2>1, CaptureLoses
  <2> QED BY <1>2, <1>4, <1>5, <1>6, <1>7, <2>2 DEF ClockInv, HealthClockAge, ImuClockAge
<1>8. CASE ~truth'.slept
  <2>1. Reads(imu_clock, truth.captured) /\ ~WholeRangeSince(truth.captured, now)
    BY <1>2, <1>8 DEF ClockInv, ImuClockAge, Reads
  <2>2. imu_clock'.epoch = now.turns BY <1>1, <1>3, <2>1, CaptureExact DEF Reads
  <2> QED BY <1>2, <1>4, <1>5, <1>6, <1>8, <2>2 DEF ClockInv, HealthClockAge, ImuClockAge
<1> QED BY <1>7, <1>8

LEMMA ClockInvInit == Init => ClockInv
<1> SUFFICES ASSUME Init PROVE ClockInv OBVIOUS
<1>1. now \in Instants /\ now.turns = 0
  BY CycleCounter DEF Init, Instants, Counts
<1>2. /\ imu_clock = [last |-> now.count, epoch |-> 0] /\ health_clock = imu_clock
      /\ truth = [captured |-> now, event |-> now, tracked |-> now, slept |-> FALSE]
      /\ since_poll = 0
  BY DEF Init, NewClock
<1> QED BY <1>1, <1>2, ControlShadowConstants
        DEF ClockInv, ClockTypes, HealthClockAge, ImuClockAge, NotBefore, Clocks, Instants, Counts

LEMMA ClockInvNext == ClockInv /\ [Next]_vars => ClockInv'
<1> SUFFICES ASSUME ClockInv, [Next]_vars PROVE ClockInv' OBVIOUS
<1>1. CASE Tick
  <2>1. now \in Instants /\ truth.captured \in Instants /\ health_clock \in Clocks
    BY DEF ClockInv, ClockTypes
  <2>2. /\ now' = OneCycleLater(now) /\ since_poll' = since_poll + 1
        /\ since_poll < HEALTH_PERIOD
        /\ UNCHANGED <<imu_clock, health_clock, truth>>
    BY <1>1 DEF Tick
  <2>3. ClockTypes'
    BY <2>1, <2>2, OneCycle, ControlShadowConstants DEF ClockInv, ClockTypes
  <2>4. HealthClockAge'
    BY <2>1, <2>2, OneCycle, ControlShadowConstants, CycleCounter
    DEF ClockInv, ClockTypes, HealthClockAge, Instants, Counts, Clocks
  <2>5. ImuClockAge'
    BY <2>1, <2>2, OneCycle DEF ClockInv, ImuClockAge, NotBefore, Instants, Counts
  <2> QED BY <2>3, <2>4, <2>5 DEF ClockInv
<1>2. CASE TimingHealth
  <2>1. now \in Instants /\ health_clock \in Clocks /\ since_poll = HEALTH_PERIOD
    BY <1>2 DEF ClockInv, ClockTypes, TimingHealth
  <2>2. /\ health_clock' = Captured(health_clock, now) /\ since_poll' = 0
        /\ UNCHANGED <<now, imu_clock, truth>>
    BY <1>2 DEF TimingHealth
  <2>3. health_clock' \in Clocks /\ health_clock'.last = now.count
    BY <2>1, <2>2, CaptureType
  <2>4. health_clock'.epoch = now.turns
    BY <2>1, <2>2, CaptureType, ControlShadowConstants, CycleCounter
    DEF ClockInv, HealthClockAge, Instants, Counts, Clocks
  <2>5. ClockTypes'
    BY <2>2, <2>3, ControlShadowConstants DEF ClockInv, ClockTypes
  <2>6. HealthClockAge'
    BY <2>1, <2>2, <2>3, <2>4 DEF HealthClockAge, Instants, Counts
  <2> QED BY <2>2, <2>5, <2>6 DEF ClockInv, ImuClockAge
<1>3. CASE Enter
  BY <1>3, CaptureStep DEF Enter
<1>4. CASE StoreTiming
  BY <1>4, CaptureStep DEF StoreTiming, hardware
<1>5. CASE Acquired
  BY <1>5, CaptureStep DEF Acquired, hardware
<1>6. ASSUME /\ UNCHANGED <<now, since_poll, imu_clock, health_clock>>
             /\ truth'.captured = truth.captured /\ truth'.slept = truth.slept
             /\ DOMAIN truth' = DOMAIN truth
      PROVE  ClockInv'
  BY <1>6 DEF ClockInv, ClockTypes, HealthClockAge, ImuClockAge
<1>7. CASE RegisterEvent
  BY <1>6, <1>7 DEF RegisterEvent, hardware, ClockInv, ClockTypes
<1>8. CASE Step
  <2>1. UNCHANGED <<now, since_poll, imu_clock, health_clock>> BY <1>8 DEF Step, hardware
  <2>2. truth' = truth \/ truth' = [truth EXCEPT !.tracked = task.entry]
    BY <1>8 DEF Step, EngineStep, Track
  <2> QED BY <1>6, <2>1, <2>2 DEF ClockInv, ClockTypes
<1>9. CASE DataReady
  BY <1>6, <1>9 DEF DataReady
<1>10. CASE Over \/ UNCHANGED vars
  BY <1>6, <1>10 DEF Over, vars, hardware
<1> QED BY <1>1, <1>2, <1>3, <1>4, <1>5, <1>7, <1>8, <1>9, <1>10 DEF Next, ImuDataReady

\* The poll's clock never errs and the task's clock errs only after it has not
\* been run for a whole counter range, in every behaviour.
THEOREM TwoClocks == Spec => []ClocksRead
<1>1. ClockInv => ClocksRead
  <2> SUFFICES ASSUME ClockInv PROVE ClocksRead OBVIOUS
  <2>1. ASSUME since_poll = 0 PROVE Reads(health_clock, now)
    BY <2>1, CycleCounter
    DEF ClockInv, ClockTypes, HealthClockAge, Reads, Instants, Counts, Clocks
  <2> QED BY <2>1 DEF ClocksRead, ClockInv, ImuClockAge, Reads
<1> QED BY <1>1, ClockInvInit, ClockInvNext, PTL DEF Spec

\* The whole permille in a number of steps.
LEMMA MilliOf ==
  ASSUME NEW steps \in Nat
  PROVE  LET milli == steps \div STEPS_PER_MILLI
         IN  /\ milli \in Nat
             /\ milli * STEPS_PER_MILLI <= steps
             /\ steps < milli * STEPS_PER_MILLI + STEPS_PER_MILLI
<1>1. STEPS_PER_MILLI \in Nat \ {0}
  BY ControlShadowConstants
<1> QED BY <1>1

\* Less effort in steps is not more in permille.
LEMMA MilliCancel ==
  ASSUME NEW a \in Int, NEW b \in Int, a * STEPS_PER_MILLI < b * STEPS_PER_MILLI
  PROVE  a < b
<1> DEFINE s == STEPS_PER_MILLI
<1>1. s \in Nat /\ s > 0 /\ a * s < b * s
  BY ControlShadowConstants
<1> HIDE DEF s
<1>2. ASSUME b <= a PROVE FALSE
  <2>1. PICK d \in Nat : a = b + d
    <3>1. a - b \in Nat /\ a = b + (a - b) BY <1>2
    <3> QED BY <3>1
  <2>2. d * s \in Nat
    BY <1>1
  <2>3. a * s = b * s + d * s
    BY <1>1, <2>1
  <2> QED BY <1>1, <2>2, <2>3
<1> QED BY <1>2

\* An effort and what it leaves of the PWM line make up a full word, or one less.
LEMMA MilliSum ==
  ASSUME NEW effort \in 0 .. FullEffort
  PROVE  LET e == effort \div STEPS_PER_MILLI
             h == (FullEffort - effort) \div STEPS_PER_MILLI
         IN  /\ e \in 0 .. FULL_MILLI /\ h \in 0 .. FULL_MILLI
             /\ h + e \in {FULL_MILLI - 1, FULL_MILLI}
<1> DEFINE s == STEPS_PER_MILLI
           e == effort \div s
           rest == FullEffort - effort
           h == rest \div s
<1>1. /\ FULL_MILLI \in Nat /\ s \in Nat /\ s > 0 /\ FullEffort = FULL_MILLI * s
      /\ effort \in Nat /\ rest \in Nat /\ effort + rest = FULL_MILLI * s
  BY ControlShadowConstants, Resolution
<1>2. e \in Nat /\ e * s <= effort /\ effort < e * s + s
  BY <1>1, MilliOf
<1>3. h \in Nat /\ h * s <= rest /\ rest < h * s + s
  BY <1>1, MilliOf
<1> HIDE DEF e, h, rest
<1>4. (h + e) * s = h * s + e * s /\ (h + e + 2) * s = h * s + e * s + 2 * s
      /\ (FULL_MILLI + 1) * s = FULL_MILLI * s + s
  BY <1>1, <1>2, <1>3
<1>5. (h + e) * s < (FULL_MILLI + 1) * s /\ FULL_MILLI * s < (h + e + 2) * s
  <2> DEFINE es == e * s
             hs == h * s
             fs == FULL_MILLI * s
  <2>1. es \in Int /\ hs \in Int /\ fs \in Int
    BY <1>1, <1>2, <1>3
  <2>2. es <= effort /\ effort < es + s /\ hs <= rest /\ rest < hs + s /\ effort + rest = fs
    BY <1>1, <1>2, <1>3
  <2> HIDE DEF es, hs, fs
  <2>3. hs + es < fs + s /\ fs < hs + es + 2 * s
    BY <1>1, <2>1, <2>2
  <2> QED BY <1>4, <2>3 DEF es, hs, fs
<1>6. h + e < FULL_MILLI + 1 /\ FULL_MILLI < h + e + 2
  BY <1>1, <1>2, <1>3, <1>5, MilliCancel
<1>7. e \in 0 .. FULL_MILLI /\ h \in 0 .. FULL_MILLI /\ h + e \in {FULL_MILLI - 1, FULL_MILLI}
  BY <1>1, <1>2, <1>3, <1>6
<1> QED BY <1>7 DEF e, h, rest

\* scale_milli of a command, and of the line it is encoded on.
LEMMA ChannelsAgree ==
  ASSUME NEW command \in Efforts
  PROVE  /\ ScaleMilli(command) \in -FULL_MILLI .. FULL_MILLI
         /\ ChannelWords(EncodeChannel(command)) \in ChannelMilli
         /\ Agree(ScaleMilli(command), ChannelWords(EncodeChannel(command)))
<1> DEFINE effort == IF command < 0 THEN -command ELSE command
           e == effort \div STEPS_PER_MILLI
           h == (FullEffort - effort) \div STEPS_PER_MILLI
           words_ == ChannelWords(EncodeChannel(command))
<1>1. effort \in 0 .. FullEffort /\ command \in Int /\ FULL_MILLI \in Nat
  BY Resolution, ControlShadowConstants DEF Efforts
<1>2. e \in 0 .. FULL_MILLI /\ h \in 0 .. FULL_MILLI /\ h + e \in {FULL_MILLI - 1, FULL_MILLI}
  BY <1>1, MilliSum
<1>3. ScaleMilli(command) = IF command < 0 THEN -e ELSE e
  BY DEF ScaleMilli
<1>4. ~(FullEffort - effort < 0)
  BY <1>1, Resolution
<1>5. words_.direction_high = (command < 0) /\ words_.pwm_high = h
      /\ words_ = [direction_high |-> command < 0, pwm_high |-> h]
  BY <1>4 DEF ChannelWords, EncodeChannel, ScaleMilli
<1> HIDE DEF e, h, words_
<1>6. words_ \in ChannelMilli
  BY <1>2, <1>5 DEF ChannelMilli
<1>7. ScaleMilli(command) \in -FULL_MILLI .. FULL_MILLI
  BY <1>1, <1>2, <1>3
<1>8. /\ (IF ScaleMilli(command) < 0 THEN -ScaleMilli(command) ELSE ScaleMilli(command)) = e
      /\ ScaleMilli(command) < 0 => command < 0
      /\ ScaleMilli(command) > 0 => ~(command < 0)
  BY <1>1, <1>2, <1>3
<1>9. Agree(ScaleMilli(command), words_)
  BY <1>2, <1>5, <1>8 DEF Agree
<1> QED BY <1>6, <1>7, <1>9 DEF words_

\* The words of a frame, and of the command it encodes.
LEMMA FrameWords ==
  /\ ElectricalWords(ZeroEffort) \in ElectricalMilli
  /\ \A command \in Commands :
       /\ CommandWords(command) \in MilliCommands
       /\ ElectricalWords(EncodeAuthorized(command)) \in ElectricalMilli
       /\ Agree(CommandWords(command).drive, ElectricalWords(EncodeAuthorized(command)).drive)
       /\ Agree(CommandWords(command).reaction,
                ElectricalWords(EncodeAuthorized(command)).reaction)
<1>1. ASSUME NEW command \in [drive : Efforts, reaction : Efforts]
      PROVE  /\ CommandWords(command) \in MilliCommands
             /\ ElectricalWords(EncodeAuthorized(command)) \in ElectricalMilli
             /\ Agree(CommandWords(command).drive,
                      ElectricalWords(EncodeAuthorized(command)).drive)
             /\ Agree(CommandWords(command).reaction,
                      ElectricalWords(EncodeAuthorized(command)).reaction)
  <2>1. command.drive \in Efforts /\ command.reaction \in Efforts
    OBVIOUS
  <2>2. /\ CommandWords(command) = [drive |-> ScaleMilli(command.drive),
                                    reaction |-> ScaleMilli(command.reaction)]
        /\ ElectricalWords(EncodeAuthorized(command)) =
             [drive |-> ChannelWords(EncodeChannel(command.drive)),
              reaction |-> ChannelWords(EncodeChannel(command.reaction))]
    BY DEF CommandWords, ElectricalWords, EncodeAuthorized
  <2> QED BY <2>1, <2>2, ChannelsAgree DEF MilliCommands, ElectricalMilli
<1>2. ScaleMilli(FullEffort) \in 0 .. FULL_MILLI
  <2>1. 0 \in 0 .. FullEffort /\ FullEffort - 0 = FullEffort /\ ~(FullEffort < 0)
    BY Resolution
  <2>2. FullEffort \div STEPS_PER_MILLI \in 0 .. FULL_MILLI
    BY <2>1, MilliSum
  <2> QED BY <2>1, <2>2 DEF ScaleMilli
<1>3. ElectricalWords(ZeroEffort) =
        [drive    |-> [direction_high |-> FALSE, pwm_high |-> ScaleMilli(FullEffort)],
         reaction |-> [direction_high |-> FALSE, pwm_high |-> ScaleMilli(FullEffort)]]
  BY DEF ElectricalWords, ChannelWords, ZeroEffort
<1>4. ElectricalWords(ZeroEffort) \in ElectricalMilli
  BY <1>2, <1>3 DEF ElectricalMilli, ChannelMilli
<1> QED BY <1>1, <1>4, ControlShadowConstants

\* Every step keeps the words and the sink together.
LEMMA WordsInvNext == WordsInv /\ [Next]_vars => WordsInv'
<1> SUFFICES ASSUME WordsInv, [Next]_vars PROVE WordsInv' OBVIOUS
<1>1. ASSUME UNCHANGED <<words, sink>> PROVE WordsInv'
  BY <1>1 DEF WordsInv
<1>2. ASSUME UNCHANGED sink, NEW t, words' = [words EXCEPT !.timing = t] PROVE WordsInv'
  BY <1>2 DEF WordsInv
<1>3. ASSUME NEW stage, StopAt(stage) PROVE WordsInv'
  BY <1>3 DEF WordsInv, StopAt
<1>4. ASSUME NEW command \in Commands, NEW wheel, Finish(command, wheel) PROVE WordsInv'
  <2>1. Decision(wheel).authorized \in BOOLEAN BY DEF Decision, Evaluate
  <2>2. /\ sink' = IF Decision(wheel).authorized THEN EncodeAuthorized(command) ELSE ZeroEffort
        /\ words' = [words EXCEPT !.stage = 7, !.authorized = Decision(wheel).authorized,
                                  !.command = CommandWords(command),
                                  !.electrical = ElectricalWords(sink')]
    BY <1>4 DEF Finish
  <2>3. /\ DOMAIN words' = DOMAIN words /\ words'.authorized = Decision(wheel).authorized
        /\ words'.command = CommandWords(command) /\ words'.electrical = ElectricalWords(sink')
    BY <2>2 DEF WordsInv
  <2> QED BY <2>1, <2>2, <2>3 DEF WordsInv
<1>5. CASE Tick \/ Over \/ DataReady \/ Enter \/ RegisterEvent \/ Acquired \/ UNCHANGED vars
  BY <1>1, <1>5 DEF Tick, Over, DataReady, Enter, RegisterEvent, Acquired, vars
<1>6. CASE TimingHealth
  BY <1>2, <1>6 DEF TimingHealth
<1>7. CASE StoreTiming
  BY <1>2, <1>7 DEF StoreTiming
<1>8. CASE Step
  BY <1>3, <1>4, <1>8 DEF Step, EngineStep
<1> QED BY <1>5, <1>6, <1>7, <1>8 DEF Next, ImuDataReady

\* Whatever stage the steps stop at, between two runs the electrical words are the
\* sink's frame in permille, the AUTHORIZED word tells effort from none, and the
\* COMMAND words tell the same effort as the electrical ones, up to one permille.
THEOREM WordsTrue == Spec => []WordsTellSink
<1>1. Init => WordsInv
  BY DEF Init, NewWords, WordsInv
<1>2. WordsInv => WordsTellSink
  <2> SUFFICES ASSUME WordsInv, words.authorized
               PROVE  /\ Agree(words.command.drive, words.electrical.drive)
                      /\ Agree(words.command.reaction, words.electrical.reaction)
    BY DEF WordsInv, WordsTellSink
  <2>1. PICK command \in Commands : /\ words.command = CommandWords(command)
                                    /\ sink = EncodeAuthorized(command)
    BY DEF WordsInv
  <2>2. words.electrical = ElectricalWords(EncodeAuthorized(command))
    BY <2>1 DEF WordsInv
  <2> QED BY <2>1, <2>2, FrameWords
<1> QED BY <1>1, <1>2, WordsInvNext, PTL DEF Spec


-----------------------------------------------------------------------------
(* Timestamps across the two clocks.                                        *)

\* More turns are more cycles.
LEMMA TurnsInCycles ==
  ASSUME NEW a \in Int, NEW b \in Int
  PROVE  /\ a * COUNTER_RANGE \in Int
         /\ a <= b => a * COUNTER_RANGE <= b * COUNTER_RANGE
         /\ a < b => a * COUNTER_RANGE + COUNTER_RANGE <= b * COUNTER_RANGE
         /\ (a + 1) * COUNTER_RANGE = a * COUNTER_RANGE + COUNTER_RANGE
<1>1. COUNTER_RANGE \in Int /\ COUNTER_RANGE > 0
  BY CycleCounter
<1>2. a * COUNTER_RANGE \in Int /\ (a + 1) * COUNTER_RANGE = a * COUNTER_RANGE + COUNTER_RANGE
  BY <1>1
<1>3. a <= b => a * COUNTER_RANGE <= b * COUNTER_RANGE
  <2>1. a <= b => (b - a) * COUNTER_RANGE >= 0
    BY <1>1
  <2>2. (b - a) * COUNTER_RANGE = b * COUNTER_RANGE - a * COUNTER_RANGE
    BY <1>1
  <2> QED BY <1>1, <2>1, <2>2
<1>4. a < b => a * COUNTER_RANGE + COUNTER_RANGE <= b * COUNTER_RANGE
  <2>1. a < b => (b - (a + 1)) * COUNTER_RANGE >= 0
    BY <1>1
  <2>2. (b - (a + 1)) * COUNTER_RANGE = b * COUNTER_RANGE - a * COUNTER_RANGE - COUNTER_RANGE
    BY <1>1
  <2> QED BY <1>1, <2>1, <2>2
<1> QED BY <1>2, <1>3, <1>4

\* A timestamp tells the reading it is made of.
LEMMA DivisionTells ==
  ASSUME NEW reading \in Nat
  PROVE  /\ reading \div CYCLES_PER_US \in Nat
         /\ Tells(reading \div CYCLES_PER_US, reading)
BY CycleCounter DEF Tells

\* Instants and readings in cycles.
LEMMA InCycles ==
  /\ \A t \in Instants : Cycles(t) \in Nat
  /\ \A clock \in Clocks : /\ Reading(clock) \in Nat
                           /\ TimestampUs(clock) \in Nat
                           /\ Tells(TimestampUs(clock), Reading(clock))
<1>1. \A t \in Instants : Cycles(t) \in Nat
  BY CycleCounter DEF Instants, Counts, Cycles
<1>2. ASSUME NEW clock \in Clocks
      PROVE  /\ Reading(clock) \in Nat
             /\ TimestampUs(clock) \in Nat
             /\ Tells(TimestampUs(clock), Reading(clock))
  <2>1. Reading(clock) \in Nat
    BY CycleCounter DEF Clocks, Counts, Reading
  <2> QED BY <2>1, DivisionTells DEF TimestampUs, Reading
<1> QED BY <1>1, <1>2

\* Later instants are more cycles, and a whole range is COUNTER_RANGE of them.
LEMMA Later ==
  ASSUME NEW then \in Instants, NEW t \in Instants, NotBefore(t, then)
  PROVE  /\ Cycles(then) <= Cycles(t)
         /\ WholeRangeSince(then, t) => CyclesSince(then, t) >= COUNTER_RANGE
<1>1. /\ then.turns \in Int /\ t.turns \in Int /\ then.count \in Nat /\ t.count \in Nat
      /\ then.count < COUNTER_RANGE /\ t.count < COUNTER_RANGE
      /\ COUNTER_RANGE \in Nat
  BY CycleCounter DEF Instants, Counts
<1> DEFINE a == then.turns * COUNTER_RANGE
           b == t.turns * COUNTER_RANGE
<1>2. /\ a \in Int /\ b \in Int
      /\ then.turns < t.turns => a + COUNTER_RANGE <= b
  BY <1>1, TurnsInCycles
<1>3. then.turns + 1 < t.turns => a + COUNTER_RANGE + COUNTER_RANGE <= b
  BY <1>1, TurnsInCycles
<1>4. Cycles(then) = a + then.count /\ Cycles(t) = b + t.count
  BY DEF Cycles
<1>5. then.turns = t.turns => a = b
  OBVIOUS
<1> HIDE DEF a, b
<1> QED BY <1>1, <1>2, <1>3, <1>4, <1>5 DEF NotBefore, WholeRangeSince, CyclesSince

\* A capture never reduces the lag, and within a range it keeps it.
LEMMA CaptureLag ==
  ASSUME NEW clock \in Clocks, NEW then \in Instants, NEW t \in Instants,
         NotBefore(t, then), clock.last = then.count
  PROVE  LET was == Cycles(then) - Reading(clock)
             is  == Cycles(t) - Reading(Captured(clock, t))
         IN  /\ is >= was
             /\ ~WholeRangeSince(then, t) => is = was
<1> DEFINE after == Captured(clock, t)
           lag == then.turns - clock.epoch
           lagged == t.turns - after.epoch
<1>1. /\ then.turns \in Int /\ t.turns \in Int /\ then.count \in Nat /\ t.count \in Nat
      /\ clock.epoch \in Int /\ after.epoch \in Int
      /\ then.count < COUNTER_RANGE /\ t.count < COUNTER_RANGE
      /\ COUNTER_RANGE \in Nat
      /\ after.last = t.count
      /\ after.epoch = IF t.count < clock.last THEN clock.epoch + 1 ELSE clock.epoch
  BY CycleCounter, CaptureType DEF Instants, Counts, Clocks
<1>2. lagged >= lag /\ (~WholeRangeSince(then, t) => lagged = lag)
  BY <1>1 DEF NotBefore, WholeRangeSince
<1>3. /\ Cycles(then) - Reading(clock) = lag * COUNTER_RANGE
      /\ Cycles(t) - Reading(after) = lagged * COUNTER_RANGE
  BY <1>1 DEF Cycles, Reading
<1>4. lag \in Int /\ lagged \in Int
  BY <1>1
<1> HIDE DEF after, lag, lagged
<1>5. lag <= lagged => lag * COUNTER_RANGE <= lagged * COUNTER_RANGE
  BY <1>4, TurnsInCycles
<1>6. lag * COUNTER_RANGE \in Int /\ lagged * COUNTER_RANGE \in Int
  BY <1>1, <1>4
<1> QED BY <1>2, <1>3, <1>4, <1>5, <1>6 DEF after

-----------------------------------------------------------------------------
(* Type correctness                                                         *)

\* The calls of the monitor return a monitor.
LEMMA MonitorType ==
  ASSUME NEW m \in Monitors(Nat), NEW at \in Nat
  PROVE  /\ OnEvent(m, at) \in Monitors(Nat)
         /\ PollMonitor(m, at) \in Monitors(Nat)
         /\ PollMonitor(m, at).reference = m.reference
BY DEF OnEvent, PollMonitor, Monitors, SensorTimingHealth, ClassifyElapsed

\* A frame is one of the actuators' frames, whatever command it encodes.
LEMMA FrameType ==
  /\ ZeroEffort \in ElectricalActuation
  /\ \A command \in Commands : EncodeAuthorized(command) \in ElectricalActuation
<1>1. ZeroEffort \in ElectricalActuation
  BY Resolution DEF ZeroEffort, ElectricalActuation, MotorElectricalCommand
<1>2. ASSUME NEW command \in Commands PROVE EncodeAuthorized(command) \in ElectricalActuation
  <2>1. command.drive \in Efforts /\ command.reaction \in Efforts
    BY ControlShadowConstants
  <2>2. \A effort \in Efforts : EncodeChannel(effort) \in MotorElectricalCommand
    BY Resolution DEF Efforts, EncodeChannel, MotorElectricalCommand
  <2> QED BY <2>1, <2>2 DEF EncodeAuthorized, ElectricalActuation
<1> QED BY <1>1, <1>2

\* The run that has not begun is a task.
LEMMA IdleType ==
  /\ [turns |-> 0, count |-> 0] \in Instants
  /\ IdleTask \in [pc : {"idle", "event", "store", "read", "step"}, entered : 0 .. TaskBudget,
                   started_us : Nat, entry : Instants, timing : SensorTimingHealth,
                   gap : Int, imu_ok : BOOLEAN]
<1>1. [turns |-> 0, count |-> 0] \in Instants
  BY CycleCounter DEF Instants, Counts
<1> QED BY <1>1, ControlShadowConstants DEF IdleTask, SensorTimingHealth

\* The state #[init] leaves has the right types.
LEMMA InitTypeOK == Init => TypeOK
<1> SUFFICES ASSUME Init PROVE TypeOK
  OBVIOUS
<1>1. now \in Instants /\ now.turns = 0
  BY CycleCounter DEF Init, Instants, Counts
<1>2. NewClock(now) \in Clocks
  BY <1>1 DEF NewClock, Clocks, Instants
<1>3. imu_clock \in Clocks /\ health_clock \in Clocks
  BY <1>2 DEF Init
<1>4. monitor \in Monitors(Nat)
  BY <1>2, InCycles DEF Init, NewMonitor, Monitors, SensorTimingHealth
<1>5. words \in ShadowWords
  <2>1. /\ [drive |-> 0, reaction |-> 0] \in MilliCommands
        /\ ElectricalWords(ZeroEffort) \in ElectricalMilli
    BY FrameWords, ControlShadowConstants DEF MilliCommands
  <2> QED BY <2>1 DEF Init, NewWords, SensorTimingHealth, ShadowWords
<1>6. pending \in BOOLEAN /\ configured \in BOOLEAN
  BY Zenon DEF Init
<1> QED
  BY <1>1, <1>3, <1>4, <1>5, <1>6, IdleType, FrameType, ControlShadowConstants DEF Init, TypeOK

\* Every step keeps every variable in its type.
LEMMA StepTypeOK == TypeOK /\ [Next]_vars => TypeOK'
<1> SUFFICES ASSUME TypeOK, [Next]_vars PROVE TypeOK'
  OBVIOUS
<1> USE DEF hardware
<1>1. ASSUME CaptureImu
      PROVE  /\ imu_clock' \in Clocks /\ TimestampUs(imu_clock') \in Nat
             /\ truth' \in [captured : Instants, event : Instants, tracked : Instants,
                            slept : BOOLEAN]
  <2>1. imu_clock' \in Clocks
    BY <1>1, CaptureType DEF CaptureImu, TypeOK
  <2>2. WholeRangeSince(truth.captured, now) \in BOOLEAN
    BY DEF WholeRangeSince
  <2> QED BY <1>1, <2>1, <2>2, InCycles DEF CaptureImu, TypeOK
<1>2. CASE Tick
  <2>1. now' \in Instants
    BY <1>2, OneCycle DEF Tick, TypeOK
  <2>2. since_edge' \in 0 .. MinEdgeGap /\ since_poll' \in 0 .. HEALTH_PERIOD
    BY <1>2, ControlShadowConstants DEF Tick, TypeOK
  <2>3. \/ task' = task
        \/ task.entered < TaskBudget /\ task' = [task EXCEPT !.entered = @ + 1]
    <3>1. CASE task.pc = "idle"
      BY <1>2, <3>1 DEF Tick
    <3>2. CASE task.pc # "idle"
      <4>1. task.entered < TaskBudget
        BY <1>2, <3>2, Zenon DEF Tick
      <4> QED BY <1>2, <3>2, <4>1 DEF Tick
    <3> QED BY <3>1, <3>2
  <2> QED BY <1>2, <2>1, <2>2, <2>3, ControlShadowConstants DEF Tick, TypeOK
<1>3. CASE Over
  BY <1>3 DEF Over, vars, TypeOK
<1>4. CASE DataReady
  BY <1>4, ControlShadowConstants DEF DataReady, TypeOK
<1>5. CASE TimingHealth
  <2>1. health_clock' \in Clocks
    BY <1>5, CaptureType DEF TimingHealth, TypeOK
  <2>2. monitor' \in Monitors(Nat)
    BY <1>5, <2>1, InCycles, MonitorType DEF TimingHealth, TypeOK
  <2>3. words' = [words EXCEPT !.timing = monitor'.health] /\ monitor'.health \in SensorTimingHealth
    BY <1>5, <2>2 DEF TimingHealth, Monitors
  <2> QED BY <1>5, <2>1, <2>2, <2>3, ControlShadowConstants DEF TimingHealth, TypeOK, ShadowWords
<1>6. CASE Enter
  <2>1. task' = [IdleTask EXCEPT !.pc = "event", !.started_us = TimestampUs(imu_clock'),
                              !.entry = now] /\ CaptureImu
    BY <1>6 DEF Enter
  <2>2. task' \in [pc : {"idle", "event", "store", "read", "step"}, entered : 0 .. TaskBudget,
                   started_us : Nat, entry : Instants, timing : SensorTimingHealth,
                   gap : Int, imu_ok : BOOLEAN]
    BY <1>1, <2>1, IdleType DEF TypeOK
  <2> QED BY <1>1, <1>6, <2>1, <2>2 DEF Enter, TypeOK
<1>7. CASE RegisterEvent
  <2>1. monitor' \in Monitors(Nat)
    BY <1>7, MonitorType DEF RegisterEvent, TypeOK
  <2>2. CyclesSince(truth.event, task.entry) \in Int
    BY InCycles DEF CyclesSince, TypeOK
  <2> QED BY <1>7, <2>1, <2>2 DEF RegisterEvent, TypeOK, Monitors
<1>8. CASE StoreTiming
  <2>1. PICK ok \in BOOLEAN : task' = [task EXCEPT !.pc = "read", !.imu_ok = ok]
    BY <1>8 DEF StoreTiming
  <2>2. CaptureImu /\ words' = [words EXCEPT !.timing = task.timing]
    BY <1>8 DEF StoreTiming
  <2> QED BY <1>1, <1>8, <2>1, <2>2 DEF StoreTiming, TypeOK, ShadowWords
<1>9. CASE Acquired
  <2>1. task' = [task EXCEPT !.pc = "step"] /\ CaptureImu
    BY <1>9 DEF Acquired
  <2> QED BY <1>1, <1>9, <2>1 DEF Acquired, TypeOK
<1>10. CASE Step
  <2>1. /\ tracker' \in [primed : BOOLEAN, previous_at_us : Nat]
        /\ truth' \in [captured : Instants, event : Instants, tracked : Instants,
                       slept : BOOLEAN]
    <3>1. \/ UNCHANGED <<tracker, truth>>
          \/ /\ tracker' = [primed |-> TRUE, previous_at_us |-> task.started_us]
             /\ truth' = [truth EXCEPT !.tracked = task.entry]
      BY <1>10, Zenon DEF Step, EngineStep, Track
    <3>2. CASE UNCHANGED <<tracker, truth>>
      BY <3>2 DEF TypeOK
    <3>3. CASE /\ tracker' = [primed |-> TRUE, previous_at_us |-> task.started_us]
               /\ truth' = [truth EXCEPT !.tracked = task.entry]
      <4>1. task.started_us \in Nat /\ task.entry \in Instants
        BY DEF TypeOK
      <4> QED BY <3>3, <4>1 DEF TypeOK
    <3> QED BY <3>1, <3>2, <3>3
  <2>2. /\ sink' \in ElectricalActuation
        /\ words' \in ShadowWords
    <3>1. ASSUME NEW stage \in 0 .. 7, StopAt(stage)
          PROVE  words' \in ShadowWords
                 /\ sink' \in ElectricalActuation
      BY <3>1 DEF StopAt, TypeOK, ShadowWords
    <3>2. ASSUME NEW command \in Commands, NEW wheel, Finish(command, wheel)
          PROVE  words' \in ShadowWords
                 /\ sink' \in ElectricalActuation
      <4>1. Decision(wheel).authorized \in BOOLEAN
        BY DEF Decision, Evaluate
      <4>2. sink' \in ElectricalActuation
        BY <3>2, FrameType DEF Finish
      <4>3. words' = [words EXCEPT !.stage = 7, !.authorized = Decision(wheel).authorized,
                                   !.command = CommandWords(command),
                                   !.electrical = ElectricalWords(sink')]
        BY <3>2 DEF Finish
      <4> DEFINE authorized == Decision(wheel).authorized
                 last == 7
                 efforts == CommandWords(command)
                 lines == ElectricalWords(sink')
      <4>4. /\ authorized \in BOOLEAN /\ last \in 0 .. 7
            /\ efforts \in MilliCommands /\ lines \in ElectricalMilli
        BY <3>2, <4>1, FrameWords DEF Finish
      <4>5. words' = [words EXCEPT !.stage = last, !.authorized = authorized,
                                   !.command = efforts, !.electrical = lines]
        BY <4>3
      <4> HIDE DEF authorized, last, efforts, lines
      <4> QED BY <4>2, <4>4, <4>5 DEF TypeOK, ShadowWords
    <3> QED BY <1>10, <3>1, <3>2 DEF Step, EngineStep
  <2> QED BY <1>10, <2>1, <2>2, IdleType DEF Step, TypeOK
<1>11. CASE UNCHANGED vars
  BY <1>11 DEF vars, TypeOK
<1> QED
  BY <1>2, <1>3, <1>4, <1>5, <1>6, <1>7, <1>8, <1>9, <1>10, <1>11 DEF Next, ImuDataReady

\* Every variable of the target keeps its type, in every behaviour.
THEOREM TypeCorrect == Spec => []TypeOK
BY InitTypeOK, StepTypeOK, PTL DEF Spec

-----------------------------------------------------------------------------
(* What every timestamp tells.                                              *)

\* More microseconds are more cycles.
LEMMA UsInCycles ==
  ASSUME NEW a \in Int, NEW b \in Int
  PROVE  /\ a * CYCLES_PER_US \in Int
         /\ a <= b => a * CYCLES_PER_US <= b * CYCLES_PER_US
         /\ (a - b) * CYCLES_PER_US = a * CYCLES_PER_US - b * CYCLES_PER_US
         /\ CYCLES_PER_US * a = a * CYCLES_PER_US
<1>1. CYCLES_PER_US \in Int /\ CYCLES_PER_US > 0
  BY CycleCounter
<1>2. a <= b => (b - a) * CYCLES_PER_US >= 0
  BY <1>1
<1>3. (b - a) * CYCLES_PER_US = b * CYCLES_PER_US - a * CYCLES_PER_US
  BY <1>1
<1> QED BY <1>1, <1>2, <1>3

\* A clock that has lost no wrap has no lag; one that has lost some is behind.
LEMMA LagSign ==
  ASSUME NEW clock \in Clocks, NEW then \in Instants, clock.last = then.count
  PROVE  /\ clock.epoch <= then.turns => Cycles(then) - Reading(clock) >= 0
         /\ clock.epoch = then.turns => Cycles(then) - Reading(clock) = 0
<1>1. then.turns \in Int /\ clock.epoch \in Int /\ then.count \in Int
  BY DEF Clocks, Instants, Counts
<1>2. /\ clock.epoch * COUNTER_RANGE \in Int /\ then.turns * COUNTER_RANGE \in Int
      /\ clock.epoch <= then.turns =>
           clock.epoch * COUNTER_RANGE <= then.turns * COUNTER_RANGE
  BY <1>1, TurnsInCycles
<1> QED BY <1>1, <1>2 DEF Cycles, Reading

\* What a capture does to the lag and to the history.
LEMMA CaptureTimes ==
  ASSUME TypeOK, ClockInv, CaptureImu, UNCHANGED <<now, since_poll, health_clock>>
  PROVE  /\ truth' = [truth EXCEPT !.captured = now, !.slept = truth'.slept]
         /\ truth'.captured = now /\ truth'.event = truth.event
         /\ truth'.tracked = truth.tracked /\ (~truth'.slept => ~truth.slept)
         /\ imu_clock' \in Clocks
         /\ ImuLag \in Int /\ Cycles(now) - Reading(imu_clock') >= ImuLag
         /\ Cycles(now) - Reading(imu_clock') >= 0
         /\ ~truth'.slept => Cycles(now) - Reading(imu_clock') = 0
         /\ Cycles(truth.captured) <= Cycles(now)
         /\ \/ Cycles(now) - Reading(imu_clock') = ImuLag
            \/ Cycles(now) - Cycles(truth.captured) >= COUNTER_RANGE
<1>1. /\ now \in Instants /\ truth.captured \in Instants /\ imu_clock \in Clocks
      /\ NotBefore(now, truth.captured) /\ imu_clock.last = truth.captured.count
  BY DEF ClockInv, ClockTypes, ImuClockAge
<1>2. /\ imu_clock' = Captured(imu_clock, now)
      /\ truth' = [truth EXCEPT !.captured = now,
                                !.slept = truth.slept \/ WholeRangeSince(truth.captured, now)]
  BY DEF CaptureImu
<1>3. /\ truth'.captured = now /\ truth'.event = truth.event
      /\ truth'.tracked = truth.tracked
      /\ truth'.slept = (truth.slept \/ WholeRangeSince(truth.captured, now))
  BY <1>2 DEF TypeOK
<1>4. truth' = [truth EXCEPT !.captured = now, !.slept = truth'.slept]
  BY <1>2, <1>3
<1>5. imu_clock' \in Clocks /\ imu_clock'.last = now.count
  BY <1>1, <1>2, CaptureType
<1>6. IF truth'.slept THEN imu_clock'.epoch < now.turns ELSE imu_clock'.epoch = now.turns
  BY CaptureStep, <1>3 DEF ClockInv, ImuClockAge
<1>7. /\ Cycles(now) - Reading(imu_clock') >= 0
      /\ ~truth'.slept => Cycles(now) - Reading(imu_clock') = 0
  <2>1. /\ imu_clock'.epoch <= now.turns => Cycles(now) - Reading(imu_clock') >= 0
        /\ imu_clock'.epoch = now.turns => Cycles(now) - Reading(imu_clock') = 0
    BY <1>1, <1>5, LagSign
  <2>2. imu_clock'.epoch \in Int /\ now.turns \in Int
    BY <1>1, <1>5 DEF Clocks, Instants
  <2> QED BY <1>6, <2>1, <2>2
<1>8. /\ Cycles(now) - Reading(imu_clock') >= ImuLag
      /\ ~WholeRangeSince(truth.captured, now) => Cycles(now) - Reading(imu_clock') = ImuLag
  BY <1>1, <1>2, CaptureLag DEF ImuLag
<1>9. /\ Cycles(truth.captured) <= Cycles(now)
      /\ WholeRangeSince(truth.captured, now) =>
           Cycles(now) - Cycles(truth.captured) >= COUNTER_RANGE
  BY <1>1, Later DEF CyclesSince
<1>10. ImuLag \in Int
  BY <1>1, InCycles DEF ImuLag
<1> QED BY <1>3, <1>4, <1>5, <1>7, <1>8, <1>9, <1>10


\* The instants of the history, and the readings, are numbers of cycles.
LEMMA HistoryInts ==
  ASSUME TypeOK
  PROVE  /\ Cycles(now) \in Nat /\ Cycles(truth.captured) \in Nat
         /\ Cycles(truth.event) \in Nat /\ Cycles(truth.tracked) \in Nat
         /\ Cycles(task.entry) \in Nat
         /\ Reading(imu_clock) \in Nat /\ ImuLag \in Int
         /\ monitor.reference \in Nat /\ task.started_us \in Nat
         /\ tracker.previous_at_us \in Nat
         /\ monitor.reference * CYCLES_PER_US \in Int
         /\ task.started_us * CYCLES_PER_US \in Int
         /\ tracker.previous_at_us * CYCLES_PER_US \in Int
         /\ COUNTER_RANGE \in Nat /\ CYCLES_PER_US \in Nat \ {0}
<1>1. /\ now \in Instants /\ truth.captured \in Instants /\ truth.event \in Instants
      /\ truth.tracked \in Instants /\ task.entry \in Instants
      /\ imu_clock \in Clocks
      /\ monitor.reference \in Nat /\ task.started_us \in Nat
      /\ tracker.previous_at_us \in Nat
  BY DEF TypeOK, Monitors
<1>2. /\ Cycles(truth.captured) \in Nat /\ Reading(imu_clock) \in Nat
  BY <1>1, InCycles
<1>3. ImuLag \in Int
  BY <1>2 DEF ImuLag
<1> QED BY <1>1, <1>2, <1>3, InCycles, UsInCycles, CycleCounter

\* A step that touches no timestamp leaves what they tell.
LEMMA TimesStill ==
  ASSUME HistoryOrder, EventTold, EntryTold, SampleTold,
         UNCHANGED <<imu_clock, tracker, truth>>,
         monitor'.reference = monitor.reference,
         UNCHANGED <<task.pc, task.entry, task.started_us, task.timing, task.gap>>
  PROVE  HistoryOrder' /\ EventTold' /\ EntryTold' /\ SampleTold'
<1>1. HistoryOrder'
  BY DEF HistoryOrder, Cycles
<1>2. EventTold'
  BY DEF EventTold, Tells, CyclesSince, Cycles, ImuLag, Reading
<1>3. EntryTold'
  BY DEF EntryTold, Tells, CyclesSince, Cycles, ImuLag, Reading
<1>4. SampleTold'
  BY DEF SampleTold, CyclesSince, Cycles, ImuLag, Reading
<1> QED BY <1>1, <1>2, <1>3, <1>4

\* A capture later in the run: the clock may have lost a wrap, the entry was told.
LEMMA TimesCaptured ==
  ASSUME TimesInv, CaptureImu, UNCHANGED <<now, since_poll, health_clock, tracker, monitor>>,
         UNCHANGED <<task.entry, task.started_us, task.timing, task.gap>>,
         task.pc \in {"store", "read"}, task'.pc \in {"read", "step"}
  PROVE  HistoryOrder' /\ EventTold' /\ EntryTold' /\ SampleTold'
<1> DEFINE lag == Cycles(now) - Reading(imu_clock')
<1>1. /\ TypeOK /\ ClockInv /\ HistoryOrder /\ EventTold /\ EntryTold /\ SampleTold
  BY DEF TimesInv
<1>2. /\ truth'.captured = now /\ truth'.event = truth.event
      /\ truth'.tracked = truth.tracked /\ (~truth'.slept => ~truth.slept)
      /\ lag >= ImuLag /\ lag >= 0 /\ (~truth'.slept => lag = 0)
      /\ Cycles(truth.captured) <= Cycles(now)
      /\ \/ lag = ImuLag
         \/ Cycles(now) - Cycles(truth.captured) >= COUNTER_RANGE
  BY <1>1, CaptureTimes
<1>3. ImuLag' = lag
  BY <1>2 DEF ImuLag, Reading, Cycles
<1>4. Reading(imu_clock') \in Int /\ lag \in Int
  BY <1>1, CaptureTimes, InCycles, HistoryInts
<1> HIDE DEF lag
<1>5. HistoryOrder'
  <2>1. /\ Cycles(truth.event) <= Cycles(now) /\ Cycles(truth.tracked) <= Cycles(now)
        /\ Cycles(truth.tracked) <= Cycles(task.entry) /\ Cycles(task.entry) <= Cycles(now)
    BY <1>1, <1>2, HistoryInts DEF HistoryOrder
  <2> QED BY <1>2, <2>1 DEF HistoryOrder, Cycles
<1>6. EventTold'
  <2>1. /\ monitor.reference * CYCLES_PER_US <= Cycles(truth.event)
        /\ ~truth'.slept => Tells(monitor.reference, Cycles(truth.event))
    BY <1>1, <1>2 DEF EventTold
  <2>2. \/ Cycles(now) - Cycles(truth.event) >= COUNTER_RANGE
        \/ Tells(monitor.reference, Cycles(truth.event) - lag)
    BY <1>1, <1>2, HistoryInts DEF EventTold, HistoryOrder, CyclesSince
  <2> QED BY <1>2, <1>3, <2>1, <2>2 DEF EventTold, CyclesSince, Cycles, Tells
<1>7. EntryTold'
  <2>1. /\ Cycles(task.entry) - lag < task.started_us * CYCLES_PER_US + CYCLES_PER_US
        /\ task.started_us * CYCLES_PER_US <= Cycles(task.entry)
        /\ ~truth'.slept => Tells(task.started_us, Cycles(task.entry))
    BY <1>1, <1>2, <1>4, HistoryInts DEF EntryTold
  <2> QED BY <1>1, <1>3, <2>1 DEF EntryTold, Cycles, Tells
<1>8. SampleTold'
  <2>1. Cycles(truth.tracked) - ImuLag
          < tracker.previous_at_us * CYCLES_PER_US + CYCLES_PER_US =>
        Cycles(truth.tracked) - lag
          < tracker.previous_at_us * CYCLES_PER_US + CYCLES_PER_US
    BY <1>1, <1>2, <1>4, HistoryInts
  <2> QED BY <1>1, <1>2, <1>3, <2>1 DEF SampleTold, CyclesSince, Cycles
<1> QED BY <1>5, <1>6, <1>7, <1>8


\* The entry of a run takes a timestamp of now, as the clock reads it.
LEMMA TimesEntered ==
  ASSUME TimesInv, Enter
  PROVE  HistoryOrder' /\ EventTold' /\ EntryTold' /\ SampleTold'
<1> DEFINE lag == Cycles(now) - Reading(imu_clock')
           us == TimestampUs(imu_clock')
<1>1. /\ TypeOK /\ ClockInv /\ HistoryOrder /\ EventTold /\ SampleTold
  BY DEF TimesInv
<1>2. /\ CaptureImu /\ UNCHANGED <<now, since_poll, health_clock, monitor, tracker>>
      /\ task' = [IdleTask EXCEPT !.pc = "event", !.started_us = us, !.entry = now]
  BY DEF Enter
<1>3. task'.pc = "event" /\ task'.started_us = us /\ task'.entry = now
  BY <1>2 DEF IdleTask
<1>4. /\ truth'.captured = now /\ truth'.event = truth.event
      /\ truth'.tracked = truth.tracked /\ (~truth'.slept => ~truth.slept)
      /\ imu_clock' \in Clocks
      /\ lag >= ImuLag /\ lag >= 0 /\ (~truth'.slept => lag = 0)
      /\ Cycles(truth.captured) <= Cycles(now)
      /\ \/ lag = ImuLag
         \/ Cycles(now) - Cycles(truth.captured) >= COUNTER_RANGE
  BY <1>1, <1>2, CaptureTimes
<1>5. ImuLag' = lag
  BY <1>4 DEF ImuLag, Reading, Cycles
<1>6. /\ Reading(imu_clock') \in Int /\ lag \in Int /\ us \in Nat
      /\ Tells(us, Reading(imu_clock')) /\ us * CYCLES_PER_US \in Int
  <2>1. Reading(imu_clock') \in Int /\ us \in Nat /\ Tells(us, Reading(imu_clock'))
    BY <1>4, InCycles
  <2>2. lag \in Int
    BY <1>1, <2>1, HistoryInts
  <2> HIDE DEF us, lag
  <2>3. us * CYCLES_PER_US \in Int
    BY <2>1, UsInCycles
  <2> QED BY <2>1, <2>2, <2>3
<1>7. Cycles(now) - lag = Reading(imu_clock')
  BY <1>1, <1>6, HistoryInts
<1> HIDE DEF lag, us
<1>8. HistoryOrder'
  <2>1. Cycles(truth.event) <= Cycles(now) /\ Cycles(truth.tracked) <= Cycles(now)
    BY <1>1, <1>4, HistoryInts DEF HistoryOrder
  <2> QED BY <1>1, <1>2, <1>3, <1>4, <2>1, HistoryInts DEF HistoryOrder, Cycles
<1>9. EventTold'
  <2>1. /\ monitor.reference * CYCLES_PER_US <= Cycles(truth.event)
        /\ ~truth'.slept => Tells(monitor.reference, Cycles(truth.event))
    BY <1>1, <1>4 DEF EventTold
  <2>2. \/ Cycles(now) - Cycles(truth.event) >= COUNTER_RANGE
        \/ Tells(monitor.reference, Cycles(truth.event) - lag)
    BY <1>1, <1>4, HistoryInts DEF EventTold, HistoryOrder, CyclesSince
  <2> QED BY <1>2, <1>4, <1>5, <2>1, <2>2 DEF EventTold, CyclesSince, Cycles, Tells
<1>10. EntryTold'
  <2>1. /\ Cycles(now) - lag < us * CYCLES_PER_US + CYCLES_PER_US
        /\ us * CYCLES_PER_US <= Cycles(now)
        /\ ~truth'.slept => Tells(us, Cycles(now))
        /\ Tells(us, Cycles(now) - lag)
    BY <1>1, <1>4, <1>6, <1>7, HistoryInts DEF Tells
  <2> QED BY <1>2, <1>3, <1>5, <2>1 DEF EntryTold, Cycles, Tells
<1>11. SampleTold'
  <2>1. ASSUME tracker.primed
        PROVE  /\ tracker.previous_at_us * CYCLES_PER_US <= Cycles(truth.tracked)
               /\ Cycles(truth.tracked) - lag
                    < tracker.previous_at_us * CYCLES_PER_US + CYCLES_PER_US
               /\ us * CYCLES_PER_US - tracker.previous_at_us * CYCLES_PER_US
                    < Cycles(now) - Cycles(truth.tracked) + CYCLES_PER_US
    <3>1. /\ tracker.previous_at_us * CYCLES_PER_US <= Cycles(truth.tracked)
          /\ Cycles(truth.tracked) - ImuLag
                    < tracker.previous_at_us * CYCLES_PER_US + CYCLES_PER_US
      BY <1>1, <2>1 DEF SampleTold
    <3>2. us * CYCLES_PER_US <= Cycles(now) - lag
      BY <1>6, <1>7 DEF Tells
    <3> QED BY <1>1, <1>4, <1>6, <3>1, <3>2, HistoryInts
  <2> QED BY <1>2, <1>3, <1>4, <1>5, <2>1 DEF SampleTold, CyclesSince, Cycles
<1> QED BY <1>8, <1>9, <1>10, <1>11

\* A run whose event the monitor calls Healthy came soon after the event before,
\* or a whole range later.
LEMMA HealthyGap ==
  ASSUME TimesInv, task.pc = "event",
         OnEvent(monitor, task.started_us).health = "Healthy"
  PROVE  \/ CyclesSince(truth.event, task.entry) < LATE_AFTER * CYCLES_PER_US
         \/ CyclesSince(truth.event, task.entry) >= COUNTER_RANGE
<1>1. TypeOK /\ EventTold /\ EntryTold /\ HistoryOrder
  BY DEF TimesInv
<1>2. /\ task.entry = truth.captured
      /\ Tells(task.started_us, Cycles(task.entry) - ImuLag)
  BY <1>1 DEF EntryTold, HistoryOrder
<1>3. SaturatingSub(task.started_us, monitor.reference) < LATE_AFTER
  BY <1>1, HistoryInts, SensorTimingLimits DEF OnEvent, ClassifyElapsed, SaturatingSub
<1>4. task.started_us - monitor.reference + 1 <= LATE_AFTER
  BY <1>1, <1>3, HistoryInts, SensorTimingLimits DEF SaturatingSub
<1>5. task.started_us * CYCLES_PER_US + CYCLES_PER_US - monitor.reference * CYCLES_PER_US
        <= LATE_AFTER * CYCLES_PER_US
  <2>1. (task.started_us - monitor.reference + 1) * CYCLES_PER_US
          <= LATE_AFTER * CYCLES_PER_US
    <3> DEFINE elapsed == task.started_us - monitor.reference + 1
    <3>1. elapsed \in Int /\ elapsed <= LATE_AFTER /\ LATE_AFTER \in Int
      BY <1>1, <1>4, HistoryInts, SensorTimingLimits
    <3> HIDE DEF elapsed
    <3>2. elapsed * CYCLES_PER_US <= LATE_AFTER * CYCLES_PER_US
      BY <3>1, UsInCycles
    <3> QED BY <3>2 DEF elapsed
  <2>2. (task.started_us - monitor.reference + 1) * CYCLES_PER_US
          = task.started_us * CYCLES_PER_US - monitor.reference * CYCLES_PER_US + CYCLES_PER_US
    BY <1>1, HistoryInts
  <2> QED BY <1>1, <2>1, <2>2, HistoryInts
<1>6. LATE_AFTER * CYCLES_PER_US \in Int
  BY SensorTimingLimits, CycleCounter
<1>7. CASE CyclesSince(truth.event, truth.captured) >= COUNTER_RANGE
  BY <1>2, <1>7
<1>8. CASE Tells(monitor.reference, Cycles(truth.event) - ImuLag)
  BY <1>1, <1>2, <1>5, <1>6, <1>8, HistoryInts DEF Tells, CyclesSince
<1> QED BY <1>1, <1>7, <1>8 DEF EventTold

\* The event a run registers is its own entry.
LEMMA TimesRegistered ==
  ASSUME TimesInv, RegisterEvent
  PROVE  HistoryOrder' /\ EventTold' /\ EntryTold' /\ SampleTold'
<1>1. /\ TypeOK /\ ClockInv /\ HistoryOrder /\ EventTold /\ EntryTold /\ SampleTold
  BY DEF TimesInv
<1>2. /\ task.pc = "event" /\ UNCHANGED <<imu_clock, tracker>>
      /\ monitor' = OnEvent(monitor, task.started_us)
      /\ task' = [task EXCEPT !.pc = "store", !.timing = monitor'.health,
                              !.gap = CyclesSince(truth.event, task.entry)]
      /\ truth' = [truth EXCEPT !.event = task.entry]
  BY DEF RegisterEvent
<1>3. /\ task'.pc = "store" /\ task'.timing = monitor'.health
      /\ task'.gap = CyclesSince(truth.event, task.entry)
      /\ task'.entry = task.entry /\ task'.started_us = task.started_us
      /\ truth'.event = task.entry /\ truth'.captured = truth.captured
      /\ truth'.tracked = truth.tracked /\ truth'.slept = truth.slept
      /\ monitor'.reference = task.started_us
  BY <1>1, <1>2 DEF TypeOK, OnEvent
<1>4. HistoryOrder'
  BY <1>1, <1>2, <1>3 DEF HistoryOrder, Cycles
<1>5. EventTold'
  <2>1. /\ task.started_us * CYCLES_PER_US <= Cycles(task.entry)
        /\ ~truth.slept => Tells(task.started_us, Cycles(task.entry))
        /\ Tells(task.started_us, Cycles(task.entry) - ImuLag)
    BY <1>1, <1>2 DEF EntryTold
  <2> QED BY <1>2, <1>3, <2>1 DEF EventTold, Tells, ImuLag, Reading, Cycles
<1>6. EntryTold'
  <2>1. task'.timing = "Healthy" =>
          task'.gap < LATE_AFTER * CYCLES_PER_US \/ task'.gap >= COUNTER_RANGE
    BY <1>2, <1>3, HealthyGap
  <2> QED BY <1>1, <1>2, <1>3, <2>1 DEF EntryTold, Tells, ImuLag, Reading, Cycles
<1>7. SampleTold'
  BY <1>1, <1>2, <1>3 DEF SampleTold, CyclesSince, ImuLag, Reading, Cycles
<1> QED BY <1>4, <1>5, <1>6, <1>7

\* A step ends the run, and what it tracks is the run's own entry.
LEMMA TimesStepped ==
  ASSUME TimesInv, Step
  PROVE  HistoryOrder' /\ EventTold' /\ EntryTold' /\ SampleTold'
<1>1. /\ TypeOK /\ HistoryOrder /\ EventTold /\ EntryTold /\ SampleTold
  BY DEF TimesInv
<1>2. task.pc = "step" /\ task'.pc = "idle" /\ UNCHANGED <<imu_clock, monitor>>
  BY DEF Step, IdleTask
<1>3. \/ UNCHANGED <<tracker, truth>>
      \/ /\ tracker' = [primed |-> TRUE, previous_at_us |-> task.started_us]
         /\ truth' = [truth EXCEPT !.tracked = task.entry]
  BY Zenon DEF Step, EngineStep, Track
<1>4. CASE UNCHANGED <<tracker, truth>>
  <2>1. HistoryOrder' /\ EventTold' /\ EntryTold'
    BY <1>1, <1>2, <1>4
    DEF HistoryOrder, EventTold, EntryTold, CyclesSince, Tells, ImuLag, Reading, Cycles
  <2>2. SampleTold'
    BY <1>1, <1>2, <1>4 DEF SampleTold, ImuLag, Reading, Cycles
  <2> QED BY <2>1, <2>2
<1>5. CASE /\ tracker' = [primed |-> TRUE, previous_at_us |-> task.started_us]
           /\ truth' = [truth EXCEPT !.tracked = task.entry]
  <2>1. /\ tracker'.previous_at_us = task.started_us /\ truth'.tracked = task.entry
        /\ truth'.event = truth.event /\ truth'.captured = truth.captured
        /\ truth'.slept = truth.slept
    BY <1>1, <1>5 DEF TypeOK
  <2>2. HistoryOrder' /\ EventTold' /\ EntryTold'
    BY <1>1, <1>2, <2>1
    DEF HistoryOrder, EventTold, EntryTold, CyclesSince, Tells, ImuLag, Reading, Cycles
  <2>3. SampleTold'
    BY <1>1, <1>2, <2>1 DEF EntryTold, SampleTold, ImuLag, Reading, Cycles
  <2> QED BY <2>2, <2>3
<1> QED BY <1>3, <1>4, <1>5


LEMMA TimesInit == Init => TimesInv
<1> SUFFICES ASSUME Init PROVE TimesInv
  OBVIOUS
<1>1. TypeOK /\ ClockInv
  BY InitTypeOK, ClockInvInit
<1>2. /\ task.pc = "idle" /\ ~tracker.primed
      /\ truth = [captured |-> now, event |-> now, tracked |-> now, slept |-> FALSE]
      /\ monitor.reference = TimestampUs(NewClock(now)) /\ imu_clock = NewClock(now)
  BY DEF Init, IdleTask, NewMonitor
<1>3. HistoryOrder
  BY <1>1, <1>2, HistoryInts DEF HistoryOrder
<1>4. /\ ImuLag = 0 /\ Reading(imu_clock) = Cycles(now)
  <2>1. now.turns = 0 /\ now \in Instants
    BY <1>1, CycleCounter DEF Init, TypeOK
  <2> QED BY <1>2, <2>1, CycleCounter DEF ImuLag, Reading, Cycles, NewClock, Instants, Counts
<1>5. Tells(monitor.reference, Cycles(now))
  BY <1>1, <1>2, <1>4, InCycles DEF TypeOK
<1>6. EventTold
  BY <1>1, <1>2, <1>4, <1>5, HistoryInts DEF EventTold, Tells
<1>7. EntryTold /\ SampleTold
  BY <1>2 DEF EntryTold, SampleTold
<1> QED BY <1>1, <1>3, <1>6, <1>7 DEF TimesInv

LEMMA TimesNext == TimesInv /\ [Next]_vars => TimesInv'
<1> SUFFICES ASSUME TimesInv, [Next]_vars PROVE TimesInv'
  OBVIOUS
<1>1. TypeOK /\ ClockInv /\ HistoryOrder /\ EventTold /\ EntryTold /\ SampleTold
  BY DEF TimesInv
<1>2. TypeOK' /\ ClockInv'
  BY <1>1, StepTypeOK, ClockInvNext
<1> SUFFICES HistoryOrder' /\ EventTold' /\ EntryTold' /\ SampleTold'
  BY <1>2 DEF TimesInv
<1>3. CASE Tick
  <2>1. UNCHANGED <<imu_clock, tracker, truth, monitor>>
    BY <1>3 DEF Tick
  <2>2. UNCHANGED <<task.pc, task.entry, task.started_us, task.timing, task.gap>>
    BY <1>1, <1>3 DEF Tick, TypeOK
  <2> QED BY <1>1, <2>1, <2>2, TimesStill
<1>4. CASE Over \/ DataReady \/ UNCHANGED vars
  <2>1. UNCHANGED <<imu_clock, tracker, truth, monitor, task>>
    BY <1>4 DEF Over, DataReady, vars
  <2> QED BY <1>1, <2>1, TimesStill
<1>5. CASE TimingHealth
  <2>1. UNCHANGED <<imu_clock, tracker, truth, task>>
    BY <1>5 DEF TimingHealth
  <2>2. monitor'.reference = monitor.reference
    <3>1. health_clock' \in Clocks /\ monitor \in Monitors(Nat)
      BY <1>1, <1>5, CaptureType DEF TimingHealth, TypeOK
    <3>2. TimestampUs(health_clock') \in Nat
      BY <3>1, InCycles
    <3> QED BY <1>5, <3>1, <3>2, MonitorType DEF TimingHealth
  <2> QED BY <1>1, <2>1, <2>2, TimesStill
<1>6. CASE Enter
  BY <1>6, TimesEntered
<1>7. CASE RegisterEvent
  BY <1>7, TimesRegistered
<1>8. CASE StoreTiming
  <2>1. /\ CaptureImu /\ task.pc = "store"
        /\ UNCHANGED <<now, since_poll, health_clock, tracker, monitor>>
        /\ \E ok \in BOOLEAN : task' = [task EXCEPT !.pc = "read", !.imu_ok = ok]
    BY <1>8 DEF StoreTiming, hardware
  <2>2. /\ task'.pc = "read"
        /\ UNCHANGED <<task.entry, task.started_us, task.timing, task.gap>>
    BY <1>1, <2>1 DEF TypeOK
  <2> QED BY <2>1, <2>2, TimesCaptured
<1>9. CASE Acquired
  <2>1. /\ CaptureImu /\ task.pc = "read" /\ task' = [task EXCEPT !.pc = "step"]
        /\ UNCHANGED <<now, since_poll, health_clock, tracker, monitor>>
    BY <1>9 DEF Acquired, hardware
  <2>2. /\ task'.pc = "step"
        /\ UNCHANGED <<task.entry, task.started_us, task.timing, task.gap>>
    BY <1>1, <2>1 DEF TypeOK
  <2> QED BY <2>1, <2>2, TimesCaptured
<1>10. CASE Step
  BY <1>10, TimesStepped
<1> QED
  BY <1>3, <1>4, <1>5, <1>6, <1>7, <1>8, <1>9, <1>10 DEF Next, ImuDataReady

\* In every reachable state each timestamp the target keeps tells its instant, or
\* is behind it by what the task's clock has lost.
THEOREM TimesInvariance == Spec => []TimesInv
BY TimesInit, TimesNext, PTL DEF Spec

-----------------------------------------------------------------------------
(* What the poll and the step make of the timestamps.                       *)

\* Two timestamps less than a limit apart tell instants less than it apart.
LEMMA Elapsed ==
  ASSUME NEW us \in Nat, NEW reference \in Nat, NEW limit \in Nat \ {0}
  PROVE  /\ SaturatingSub(us, reference) < limit =>
              us * CYCLES_PER_US + CYCLES_PER_US - reference * CYCLES_PER_US
                <= limit * CYCLES_PER_US
         /\ SaturatingSub(us, reference) >= limit =>
              us * CYCLES_PER_US - reference * CYCLES_PER_US >= limit * CYCLES_PER_US
<1> DEFINE apart == us - reference
<1>1. /\ apart \in Int /\ apart + 1 \in Int /\ limit \in Int /\ CYCLES_PER_US \in Int
      /\ SaturatingSub(us, reference) < limit => apart + 1 <= limit
      /\ SaturatingSub(us, reference) >= limit => limit <= apart
  BY CycleCounter DEF SaturatingSub
<1>2. /\ apart * CYCLES_PER_US = us * CYCLES_PER_US - reference * CYCLES_PER_US
      /\ (apart + 1) * CYCLES_PER_US
           = us * CYCLES_PER_US + CYCLES_PER_US - reference * CYCLES_PER_US
      /\ limit * CYCLES_PER_US \in Int
  BY <1>1
<1> HIDE DEF apart
<1>3. /\ apart + 1 <= limit => (apart + 1) * CYCLES_PER_US <= limit * CYCLES_PER_US
      /\ limit <= apart => limit * CYCLES_PER_US <= apart * CYCLES_PER_US
  BY <1>1, UsInCycles
<1> QED BY <1>1, <1>2, <1>3

LEMMA PollTells ==
  ASSUME TimesInv, TimesInv', TimingHealth
  PROVE  LET silence == CyclesSince(truth.event, now)
         IN  /\ monitor'.health = "Healthy" => silence < LATE_AFTER * CYCLES_PER_US
             /\ monitor'.health # "Timeout" => silence < TIMEOUT_AFTER * CYCLES_PER_US
             /\ monitor'.health = "Timeout" /\ ~truth.slept =>
                  silence > (TIMEOUT_AFTER - 1) * CYCLES_PER_US
<1> DEFINE us == TimestampUs(health_clock')
           silence == CyclesSince(truth.event, now)
           elapsed == SaturatingSub(us, monitor.reference)
<1>1. /\ TypeOK /\ EventTold /\ ClockInv' /\ TypeOK'
  BY DEF TimesInv
<1>2. /\ since_poll' = 0 /\ now' = now
      /\ monitor' = PollMonitor(monitor, us)
  BY DEF TimingHealth
<1>3. Reads(health_clock', now)
  BY <1>1, <1>2, CycleCounter
  DEF ClockInv, ClockTypes, HealthClockAge, Reads, Instants, Counts, Clocks
<1>4. us \in Nat /\ Tells(us, Cycles(now))
  BY <1>1, <1>3, InCycles DEF TypeOK, Reads, Reading, Cycles
<1>5. /\ monitor.reference * CYCLES_PER_US <= Cycles(truth.event)
      /\ ~truth.slept => Tells(monitor.reference, Cycles(truth.event))
  BY <1>1 DEF EventTold
<1>6. /\ LATE_AFTER \in Nat \ {0} /\ TIMEOUT_AFTER \in Nat \ {0} /\ LATE_AFTER < TIMEOUT_AFTER
  BY SensorTimingLimits
<1>7. /\ monitor'.health = "Healthy" => elapsed < LATE_AFTER
      /\ monitor'.health # "Timeout" => elapsed < TIMEOUT_AFTER
      /\ monitor'.health = "Timeout" => elapsed >= TIMEOUT_AFTER
  <2>1. /\ elapsed \in Int /\ monitor \in Monitors(Nat)
    BY <1>1, <1>4, HistoryInts DEF SaturatingSub, TypeOK
  <2>2. monitor'.health =
          IF ~monitor.cadence_verified /\ elapsed < TIMEOUT_AFTER THEN "Startup"
          ELSE ClassifyElapsed(elapsed)
    BY <1>2, <2>1 DEF PollMonitor, Monitors
  <2> HIDE DEF elapsed
  <2> QED BY <1>6, <2>1, <2>2 DEF ClassifyElapsed
<1> HIDE DEF us
<1>8. /\ us * CYCLES_PER_US \in Int
      /\ LATE_AFTER * CYCLES_PER_US \in Int /\ TIMEOUT_AFTER * CYCLES_PER_US \in Int
      /\ (TIMEOUT_AFTER - 1) * CYCLES_PER_US = TIMEOUT_AFTER * CYCLES_PER_US - CYCLES_PER_US
  BY <1>4, <1>6, CycleCounter
<1>9. /\ elapsed < LATE_AFTER =>
           us * CYCLES_PER_US + CYCLES_PER_US - monitor.reference * CYCLES_PER_US
             <= LATE_AFTER * CYCLES_PER_US
      /\ elapsed < TIMEOUT_AFTER =>
           us * CYCLES_PER_US + CYCLES_PER_US - monitor.reference * CYCLES_PER_US
             <= TIMEOUT_AFTER * CYCLES_PER_US
      /\ elapsed >= TIMEOUT_AFTER =>
           us * CYCLES_PER_US - monitor.reference * CYCLES_PER_US
             >= TIMEOUT_AFTER * CYCLES_PER_US
  BY <1>1, <1>4, <1>6, HistoryInts, Elapsed
<1> HIDE DEF elapsed
<1>10. silence = Cycles(now) - Cycles(truth.event)
  BY DEF CyclesSince
<1> HIDE DEF silence
<1>11. /\ elapsed < LATE_AFTER => silence < LATE_AFTER * CYCLES_PER_US
       /\ elapsed < TIMEOUT_AFTER => silence < TIMEOUT_AFTER * CYCLES_PER_US
       /\ elapsed >= TIMEOUT_AFTER /\ ~truth.slept =>
            silence > (TIMEOUT_AFTER - 1) * CYCLES_PER_US
  BY <1>1, <1>4, <1>5, <1>8, <1>9, <1>10, HistoryInts DEF Tells
<1> QED BY <1>7, <1>11 DEF silence

\* Whatever the two clocks have lost, no poll reports Healthy over a silence of
\* LATE_AFTER or anything but Timeout over one of TIMEOUT_AFTER, and a Timeout is a
\* true one while the task's clock has kept up.
THEOREM SilenceIsSeen == Spec => PollSeesSilence
<1>1. TimesInv /\ TimesInv' /\ [Next]_vars =>
        [TimingHealth =>
           LET silence == CyclesSince(truth.event, now)
           IN  /\ monitor'.health = "Healthy" => silence < LATE_AFTER * CYCLES_PER_US
               /\ monitor'.health # "Timeout" => silence < TIMEOUT_AFTER * CYCLES_PER_US
               /\ monitor'.health = "Timeout" /\ ~truth.slept =>
                    silence > (TIMEOUT_AFTER - 1) * CYCLES_PER_US]_vars
  BY PollTells
<1> QED BY <1>1, TimesInvariance, PTL DEF Spec, PollSeesSilence


LEMMA StepTells ==
  ASSUME TimesInv, Step, words'.stage = 7, words'.authorized
  PROVE  LET span == CYCLES_PER_US * RateSpan(task.started_us)
             true_span == CyclesSince(truth.tracked, task.entry)
         IN  /\ task.gap < LATE_AFTER * CYCLES_PER_US \/ task.gap >= COUNTER_RANGE
             /\ tracker.primed => /\ span <= true_span + CYCLES_PER_US
                                  /\ truth.slept \/ span >= true_span - CYCLES_PER_US
<1> DEFINE us == RateSpan(task.started_us)
           true_span == CyclesSince(truth.tracked, task.entry)
<1>1. TypeOK /\ HistoryOrder /\ EntryTold /\ SampleTold /\ task.pc = "step"
  BY DEF TimesInv, Step
<1>2. task.timing = "Healthy"
  <2>1. ASSUME NEW stage \in 0 .. 6, StopAt(stage) PROVE FALSE
    <3>1. words'.stage = stage
      BY <1>1, <2>1 DEF StopAt, TypeOK, ShadowWords
    <3> QED BY <2>1, <3>1
  <2>2. 1 \in 0 .. 6 /\ 2 \in 0 .. 6 /\ 3 \in 0 .. 6 /\ 4 \in 0 .. 6
    OBVIOUS
  <2>3. EngineStep
    BY DEF Step
  <2> QED BY <2>1, <2>2, <2>3, Zenon DEF EngineStep, ClosedLoopEligible
<1>3. task.gap < LATE_AFTER * CYCLES_PER_US \/ task.gap >= COUNTER_RANGE
  BY <1>1, <1>2 DEF EntryTold
<1>4. ASSUME tracker.primed
      PROVE  /\ CYCLES_PER_US * us <= true_span + CYCLES_PER_US
             /\ truth.slept \/ CYCLES_PER_US * us >= true_span - CYCLES_PER_US
  <2>1. true_span \in Int /\ true_span >= 0
    BY <1>1, HistoryInts DEF HistoryOrder, CyclesSince
  <2>2. /\ task.started_us * CYCLES_PER_US - tracker.previous_at_us * CYCLES_PER_US
             < true_span + CYCLES_PER_US
        /\ truth.slept \/ task.started_us * CYCLES_PER_US
                            - tracker.previous_at_us * CYCLES_PER_US
                              > true_span - CYCLES_PER_US
    <3>1. /\ task.started_us * CYCLES_PER_US - tracker.previous_at_us * CYCLES_PER_US
               < true_span + CYCLES_PER_US
          /\ tracker.previous_at_us * CYCLES_PER_US <= Cycles(truth.tracked)
      BY <1>1, <1>4 DEF SampleTold
    <3>2. truth.slept \/ Cycles(task.entry) < task.started_us * CYCLES_PER_US + CYCLES_PER_US
      BY <1>1 DEF EntryTold, Tells
    <3> QED BY <1>1, <3>1, <3>2, HistoryInts DEF CyclesSince
  <2> HIDE DEF true_span
  <2>3. CASE task.started_us - tracker.previous_at_us >= 1
    <3>1. us = task.started_us - tracker.previous_at_us
      BY <1>1, <2>3, HistoryInts DEF RateSpan, SaturatingSub
    <3>2. CYCLES_PER_US * us
            = task.started_us * CYCLES_PER_US - tracker.previous_at_us * CYCLES_PER_US
      <4>1. task.started_us \in Int /\ tracker.previous_at_us \in Int
        BY <1>1, HistoryInts
      <4>2. /\ us \in Int
            /\ us * CYCLES_PER_US
                 = (task.started_us - tracker.previous_at_us) * CYCLES_PER_US
        BY <3>1, <4>1
      <4> HIDE DEF us
      <4>3. CYCLES_PER_US * us = us * CYCLES_PER_US
        BY <4>2, UsInCycles
      <4>4. (task.started_us - tracker.previous_at_us) * CYCLES_PER_US
              = task.started_us * CYCLES_PER_US - tracker.previous_at_us * CYCLES_PER_US
        BY <4>1, UsInCycles
      <4> QED BY <4>2, <4>3, <4>4
    <3> HIDE DEF us
    <3> QED BY <1>1, <2>1, <2>2, <3>2, HistoryInts
  <2>4. CASE task.started_us - tracker.previous_at_us < 1
    <3>1. us = 1
      BY <1>1, <2>4, HistoryInts DEF RateSpan, SaturatingSub
    <3>2. CYCLES_PER_US * us = CYCLES_PER_US
      BY <3>1, CycleCounter
    <3>3. task.started_us * CYCLES_PER_US - tracker.previous_at_us * CYCLES_PER_US <= 0
      <4>1. task.started_us \in Int /\ tracker.previous_at_us \in Int
        BY <1>1, HistoryInts
      <4>2. task.started_us <= tracker.previous_at_us
        BY <2>4, <4>1
      <4>3. /\ task.started_us * CYCLES_PER_US <= tracker.previous_at_us * CYCLES_PER_US
            /\ task.started_us * CYCLES_PER_US \in Int
            /\ tracker.previous_at_us * CYCLES_PER_US \in Int
        BY <4>1, <4>2, UsInCycles
      <4> QED BY <4>3
    <3> HIDE DEF us
    <3> QED BY <1>1, <2>1, <2>2, <3>2, <3>3, HistoryInts
  <2> QED BY <1>1, <2>3, <2>4, HistoryInts
<1> QED BY <1>3, <1>4

\* An authorized step answers an edge that came in time, or a whole range of the
\* counter late, and the interval its rates are computed with is the true one to
\* within a microsecond unless the task's clock has lost a wrap.
THEOREM AuthorityIsOnTime == Spec => AuthorizedOnTime
<1>1. TimesInv /\ [Next]_vars =>
        [Step /\ words'.stage = 7 /\ words'.authorized =>
           LET span == CYCLES_PER_US * RateSpan(task.started_us)
               true_span == CyclesSince(truth.tracked, task.entry)
           IN  /\ task.gap < LATE_AFTER * CYCLES_PER_US \/ task.gap >= COUNTER_RANGE
               /\ tracker.primed => /\ span <= true_span + CYCLES_PER_US
                                    /\ truth.slept \/ span >= true_span - CYCLES_PER_US]_vars
  BY StepTells
<1> QED BY <1>1, TimesInvariance, PTL DEF Spec, AuthorizedOnTime

=============================================================================
