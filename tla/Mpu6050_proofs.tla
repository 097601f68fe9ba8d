--------------------------- MODULE Mpu6050_proofs ----------------------------
(***************************************************************************)
(* Proofs about the bit-banged bus and the driver on it, for every width   *)
(* of a byte, stretch timeout, number of registers and sample size: driver *)
(* and slave stay in step bit by bit, a transaction leaves the bus idle    *)
(* whatever the slave answered, and a device that runs is configured.      *)
(*                                                                         *)
(* The invariant follows the driver through its pin sequences.  Of each    *)
(* place in them it says who holds which line and what the slave has seen. *)
(***************************************************************************)
EXTENDS Mpu6050, SequenceTheorems, TLAPS

-----------------------------------------------------------------------------
(* Types                                                                    *)

Pins == {"release_sda", "release_scl", "drive_sda", "drive_scl", "wait_scl", "sample",
         "check_ack", "check_idle", "check_bus", "recovered", "pulsed"}

FrameKinds == {"start", "address", "restart", "write", "read", "stop"}
ByteKinds  == {"address", "write", "read"}
Frame      == [kind : FrameKinds, high : BOOLEAN]
Results    == {"Ok", "BusBusy", "NoAcknowledge", "ClockStretchTimeout"}

Masters ==
  [call : {"idle", "recover", "transaction"}, frames : Seq(Frame), bit : 0 .. BITS,
   todo : Seq(Pins), polls : 0 .. STRETCH_TIMEOUT - 1, pulses : 0 .. RECOVERY_PULSES,
   sampled : BOOLEAN, result : Results, holds : SUBSET Lines]

Slaves ==
  [mode : {"idle", "address", "write", "read"}, clock : -1 .. BITS, read : BOOLEAN,
   bytes : 0 .. 2, holds : SUBSET Lines]

Types ==
  /\ master \in Masters /\ slave \in Slaves
  /\ stage \in {"reset", "recover", "probe", "configure", "run", "absent"}
  /\ register \in 0 .. REGISTERS /\ programmed \subseteq 1 .. REGISTERS
  /\ timed_out \in BOOLEAN /\ found_busy \in BOOLEAN

\* Sequences, of primitives and of frames, by their first element and the rest.
Then(first, rest) == <<first>> \o rest

-----------------------------------------------------------------------------
(* The slave at a bit of a byte                                             *)

\* A START has been seen; the first falling edge brings the first bit.
StartedSlave == [IdleSlave EXCEPT !.mode = "address"]

\* The bytes it has taken: "second" tells the second byte of a register write.
BytesAt(kind, bit, second) ==
  IF kind = "write" THEN (IF second THEN 1 ELSE 0) + (IF bit = BITS THEN 1 ELSE 0) ELSE 0

\* The slave acknowledges what is written, and may hold SDA to send.
At(s, kind, bit, second) ==
  /\ s.mode = kind /\ s.clock = bit /\ s.bytes = BytesAt(kind, bit, second)
  /\ bit = BITS /\ kind # "read" => "sda" \in s.holds
  /\ ((bit = BITS) <=> (kind = "read")) => "sda" \notin s.holds

\* Or it has let the byte go unacknowledged.
Low(s, kind, bit, second) ==
  \/ At(s, kind, bit, second)
  \/ s = IdleSlave /\ bit = BITS /\ kind # "read"

\* The same once the clock has risen, SDA let go by the driver or not.
Risen(s, kind, bit, second, free) ==
  /\ "scl" \notin s.holds
  /\ IF kind = "read" /\ bit = BITS /\ free THEN s = IdleSlave ELSE Low(s, kind, bit, second)
  /\ kind = "address" /\ bit = BITS - 1 => (s.read <=> free)

\* After the last byte before a restart or a stop.
Parked(s) ==
  \/ s = IdleSlave
  \/ s.mode = "write" /\ s.clock = 0 /\ "sda" \notin s.holds

-----------------------------------------------------------------------------
(* The frames a transaction has left                                        *)

\* Which frame may follow another one.
Follows(frame, next) ==
  CASE frame.kind = "start"   -> next.kind = "address" /\ ~next.high
    [] frame.kind = "restart" -> next.kind = "address"
    [] frame.kind = "address" -> next.kind = IF frame.high THEN "read" ELSE "write"
    [] frame.kind = "write"   -> next.kind \in {"write", "restart", "stop"}
    [] frame.kind = "read"    -> next.kind = IF frame.high THEN "stop" ELSE "read"
    [] frame.kind = "stop"    -> FALSE

\* The frames of a register write, counted from its end.
WriteKinds == <<"stop", "write", "write", "address", "start">>

\* "writing" tells a register write from a read.
FramesLeft(frames, writing) ==
  /\ \A i \in 1 .. Len(frames) - 1 :
       /\ Follows(frames[i], frames[i + 1])
       /\ ~writing /\ frames[i].kind = "write" => frames[i + 1].kind = "restart"
  /\ frames # <<>> => frames[Len(frames)].kind = "stop"
  /\ writing => /\ Len(frames) <= 5
                /\ \A i \in 1 .. Len(frames) : frames[i].kind = WriteKinds[Len(frames) - i + 1]

-----------------------------------------------------------------------------
(* Where a transaction stands: m is the driver, s the slave.                *)

Begun    == Then("drive_scl", <<>>)
Begin    == Then("drive_sda", Begun)
Start3   == Then("check_idle", Begin)
Start4   == Then("wait_scl", Start3)
Start5   == Then("release_scl", Start4)
Start6   == Then("release_sda", Start5)
Restart3 == Then("wait_scl", Begin)
Restart4 == Then("release_scl", Restart3)
Restart5 == Then("release_sda", Restart4)
Stop1    == Then("release_sda", <<>>)
Stop2    == Then("wait_scl", Stop1)
Stop3    == Then("release_scl", Stop2)
Stop4    == Then("drive_sda", Stop3)

NextFrame(m) == Head(m.frames)

\* Before the START, on a bus of which nothing is known yet.
AtStart(m, s) ==
  /\ m.bit = 0
  /\ \/ m.todo = <<>> /\ NextFrame(m).kind = "start"
     \/ /\ NextFrame(m).kind = "address"
        /\ \/ m.todo = Start6
           \/ m.todo = Start5 /\ "sda" \notin m.holds
           \/ m.todo = Start4 /\ m.holds = {}
           \/ m.todo = Start3 /\ m.holds = {} /\ "scl" \notin s.holds

\* At the START, the first or a repeated one.
AtBegin(m, s) ==
  /\ m.bit = 0 /\ NextFrame(m).kind = "address"
  /\ \/ m.todo = Begin /\ m.holds = {} /\ s.holds = {}
     \/ m.todo = Begun /\ m.holds = {"sda"} /\ s = StartedSlave

AtRestart(m, s) ==
  /\ m.bit = 0 /\ NextFrame(m).kind = "address"
  /\ Parked(s)
  /\ \/ m.todo = Restart5 /\ "scl" \in m.holds
     \/ m.todo = Restart4 /\ m.holds = {"scl"}
     \/ m.todo = Restart3 /\ m.holds = {}

\* Between two bits or frames; "taken" tells that the device has the register.
Between(m, s, writing, taken) ==
  /\ "scl" \in m.holds
  /\ \/ /\ NextFrame(m).kind \in ByteKinds
        /\ Low(s, NextFrame(m).kind, m.bit, writing /\ Len(m.frames) = 2)
        /\ NextFrame(m).kind = "address" /\ m.bit = BITS /\ s # IdleSlave =>
             (s.read <=> NextFrame(m).high)
     \/ /\ NextFrame(m).kind \in {"restart", "stop"}
        /\ m.bit = 0 /\ Parked(s)
        /\ NextFrame(m).kind = "stop" /\ writing => taken

\* Whether the driver samples the bit, and what follows its clock pulse.
Reading(kind, bit) == (kind = "read") # (bit = BITS)

Behind(kind, bit) ==
  IF bit < BITS THEN <<>> ELSE Then(IF kind = "read" THEN "release_sda" ELSE "check_ack", <<>>)

Fall(kind, bit) == Then("drive_scl", Behind(kind, bit))
Work(kind, bit) ==
  IF Reading(kind, bit) THEN Then("sample", Fall(kind, bit)) ELSE Fall(kind, bit)
Wait(kind, bit) == Then("wait_scl", Work(kind, bit))
Free(kind, bit) == Then("release_scl", Wait(kind, bit))

\* What of a bit is fixed: "free" tells that the driver lets go of SDA.
Fixed(s, frame, bit, free) ==
  /\ Reading(frame.kind, bit) => free
  /\ frame.kind = "address" /\ bit = BITS - 1 => (free <=> frame.high)
  /\ frame.kind = "read" /\ bit = BITS => (free <=> frame.high)
  /\ frame.kind = "address" /\ bit = BITS /\ s # IdleSlave => (s.read <=> frame.high)

\* In the pin sequence of one bit, the clock still low or high already.
BeforeRise(m, s, kind, bit, second, free) ==
  /\ Low(s, kind, bit, second)
  /\ \/ /\ "scl" \in m.holds
        /\ m.todo = Then(IF free THEN "release_sda" ELSE "drive_sda", Free(kind, bit))
     \/ /\ "scl" \in m.holds /\ (free <=> "sda" \notin m.holds)
        /\ m.todo = Free(kind, bit)
     \/ /\ "scl" \notin m.holds /\ (free <=> "sda" \notin m.holds)
        /\ "scl" \in s.holds
        /\ m.todo = Wait(kind, bit)

AfterRise(m, s, kind, bit, second, free) ==
  /\ Risen(s, kind, bit, second, free)
  /\ "scl" \notin m.holds /\ (free <=> "sda" \notin m.holds)
  /\ \/ m.todo = Wait(kind, bit)
     \/ Reading(kind, bit) /\ m.todo = Work(kind, bit)
     \/ /\ m.todo = Fall(kind, bit)
        /\ kind # "read" /\ bit = BITS => (m.sampled <=> s = IdleSlave)

InBit(m, s, frame, bit, second, free) ==
  /\ Fixed(s, frame, bit, free)
  /\ \/ BeforeRise(m, s, frame.kind, bit, second, free)
     \/ AfterRise(m, s, frame.kind, bit, second, free)

\* The last bit of a byte has already left its frame.
FramesAt(m, frame, bit) == IF bit = BITS THEN Then(frame, m.frames) ELSE m.frames

AtBit(m, s, writing) ==
  \E frame \in Frame, bit \in 0 .. BITS, free \in BOOLEAN :
    LET frames == FramesAt(m, frame, bit)
    IN  /\ FramesLeft(frames, writing)
        /\ Head(frames) = frame /\ frame.kind \in ByteKinds
        /\ m.bit = IF bit = BITS THEN 0 ELSE bit + 1
        /\ InBit(m, s, frame, bit, writing /\ Len(frames) = 2, free)

\* Behind the clock pulse of the last bit.
AfterByte(m, s, writing, taken) ==
  /\ m.bit = 0
  /\ \/ m.todo = Then("release_sda", <<>>) /\ Between(m, s, writing, taken)
     \/ /\ m.todo = Then("check_ack", <<>>) /\ "scl" \in m.holds
        /\ (m.sampled <=> s = IdleSlave)
        /\ s # IdleSlave => Between(m, s, writing, taken)

\* In the STOP that ends a transaction, or behind it.
AtStop(m, s) ==
  \/ /\ m.result \in {"Ok", "NoAcknowledge"}
     /\ m.result = "NoAcknowledge" => s = IdleSlave
     /\ \/ m.todo = Stop4 /\ "scl" \in m.holds /\ Parked(s)
        \/ m.todo = Stop3 /\ m.holds = Lines /\ Parked(s)
        \/ m.todo = Stop2 /\ m.holds = {"sda"} /\ Parked(s)
        \/ m.todo = Stop1 /\ m.holds = {"sda"} /\ s.holds = {}
        \/ m.todo = <<>> /\ m.holds = {} /\ s = IdleSlave
  \/ /\ m.result = "BusBusy" /\ s.holds = {"sda"}
     /\ \/ m.todo \in {Stop4, <<>>} /\ m.holds = {}
        \/ m.todo \in {Stop3, Stop2, Stop1} /\ m.holds = {"sda"}
  \/ m.result = "ClockStretchTimeout" /\ m.todo \in {Stop4, Stop3, Stop2, Stop1, <<>>}

-----------------------------------------------------------------------------
(* Where the recovery of the bus stands                                     *)

Recover1 == Then("recovered", <<>>)
Recover2 == Then("wait_scl", Recover1)
Recover3 == Then("release_scl", Recover2)
Recover4 == Then("release_sda", Recover3)
Pulse1   == Then("pulsed", <<>>)
Pulse2   == Then("wait_scl", Pulse1)
Pulse3   == Then("release_scl", Pulse2)
Pulse4   == Then("drive_scl", Pulse3)
Check1   == Then("check_bus", <<>>)
Check2   == Then("release_sda", Check1)
Check3   == Then("wait_scl", Check2)
Check4   == Then("release_scl", Check3)
Check5   == Then("drive_sda", Check4)

\* The falling edges since the slave acknowledged a byte; a second one is a whole
\* byte and its acknowledge bit away.
FallsSince(s) == IF s.clock = BITS THEN 0 ELSE s.clock + 1
OneByte(s, falls) ==
  \/ s.bytes = 0
  \/ s.bytes = 1 /\ FallsSince(s) < falls

AtRecovery(m, s) ==
  \/ /\ m.result = "Ok"
     /\ \/ /\ m.pulses = 0 /\ s.bytes = 0 /\ m.holds = {}
           /\ \/ m.todo \in {Recover4, Recover3, Recover2}
              \/ m.todo = Recover1 /\ "scl" \notin s.holds
        \/ /\ m.pulses < RECOVERY_PULSES
           /\ \/ m.todo = Pulse4 /\ m.holds = {} /\ OneByte(s, m.pulses)
              \/ m.todo = Pulse3 /\ m.holds = {"scl"} /\ OneByte(s, m.pulses + 1)
              \/ m.todo = Pulse2 /\ m.holds = {} /\ OneByte(s, m.pulses + 1)
              \/ /\ m.todo = Pulse1 /\ m.holds = {} /\ OneByte(s, m.pulses + 1)
                 /\ "scl" \notin s.holds
        \/ /\ "scl" \notin s.holds
           /\ \/ m.todo \in {Check5, Check1} /\ m.holds = {}
              \/ m.todo \in {Check4, Check3, Check2} /\ m.holds = {"sda"}
        \/ m.todo = <<>> /\ m.holds = {} /\ s.holds = {}
  \/ m.result # "Ok" /\ m.todo = <<>>

-----------------------------------------------------------------------------
(* The invariant                                                            *)

\* Nobody holds a line unless a held clock has ended a call; after a START that
\* found the bus busy the slave holds SDA for good.
Quiet ==
  /\ ~timed_out => master.holds = {} /\ slave.holds = {}
  /\ found_busy => master.holds = {} /\ slave.holds = {"sda"}

Writing == stage = "configure"
Taken == register \in programmed

Transaction ==
  \/ /\ master.frames # <<>> /\ master.result = "Ok" /\ FramesLeft(master.frames, Writing)
     /\ \/ AtStart(master, slave) /\ Quiet
        \/ /\ ~found_busy
           /\ \/ AtBegin(master, slave)
              \/ AtRestart(master, slave)
              \/ AtBit(master, slave, Writing)
              \/ AfterByte(master, slave, Writing, Taken)
              \/ master.todo = <<>> /\ Between(master, slave, Writing, Taken)
  \/ /\ master.frames = <<>> /\ AtStop(master, slave)
     /\ Writing /\ master.result = "Ok" => Taken
     /\ master.result = "BusBusy" => timed_out
     /\ master.result # "BusBusy" => ~found_busy

Calls ==
  CASE stage = "reset"   -> master = IdleMaster /\ slave.bytes = 0 /\ "scl" \notin slave.holds
    [] stage = "recover" -> master.call = "recover" /\ master.frames = <<>>
                              /\ AtRecovery(master, slave)
    [] stage \in {"probe", "configure"} -> master.call = "transaction" /\ Transaction
    [] stage = "run"     -> \/ master.call = "transaction" /\ Transaction
                            \/ /\ master.call = "idle" /\ master.todo = <<>>
                               /\ master.frames = <<>> /\ Quiet
    [] stage = "absent"  -> master.call = "idle" /\ master.todo = <<>> /\ master.frames = <<>>

Registers ==
  /\ stage \in {"reset", "recover", "probe", "configure"} => ~timed_out /\ ~found_busy
  /\ stage = "configure" =>
       /\ register \in 1 .. REGISTERS
       /\ 1 .. register - 1 \subseteq programmed
       /\ slave.bytes = 2 => Taken
  /\ stage = "run" => programmed = 1 .. REGISTERS

IInv == Types /\ Calls /\ Registers

-----------------------------------------------------------------------------
(* Sequences                                                                *)

\* Then puts an element in front of a sequence.
LEMMA ThenIsSeq ==
  ASSUME NEW S, NEW first \in S, NEW rest \in Seq(S)
  PROVE  /\ Then(first, rest) \in Seq(S) /\ Then(first, rest) # <<>>
         /\ Len(Then(first, rest)) = Len(rest) + 1
         /\ Head(Then(first, rest)) = first /\ Tail(Then(first, rest)) = rest
         /\ Then(first, rest)[1] = first
         /\ \A i \in 1 .. Len(rest) : Then(first, rest)[i + 1] = rest[i]
<1> DEFINE t == Then(first, rest)
<1>1. t \in Seq(S) /\ Len(t) = Len(rest) + 1 BY DEF Then
<1>2. t[1] = first /\ \A i \in 1 .. Len(rest) : t[i + 1] = rest[i] BY DEF Then
<1>3. Tail(t) \in Seq(S) /\ Len(Tail(t)) = Len(rest) BY <1>1
<1>4. \A i \in 1 .. Len(rest) : Tail(t)[i] = rest[i] BY <1>1, <1>2
<1>5. Tail(t) = rest BY <1>3, <1>4, SeqEqual
<1>6. Head(t) = first BY <1>1, <1>2
<1> HIDE DEF t
<1> QED BY <1>1, <1>2, <1>5, <1>6 DEF t

\* A sequence is its first element in front of the rest.
LEMMA HeadThenTail ==
  ASSUME NEW S, NEW s \in Seq(S), s # <<>>
  PROVE  /\ Head(s) \in S /\ Tail(s) \in Seq(S) /\ Len(Tail(s)) = Len(s) - 1
         /\ Then(Head(s), Tail(s)) = s
<1>1. Head(s) \in S /\ Tail(s) \in Seq(S) /\ Len(Tail(s)) = Len(s) - 1 OBVIOUS
<1> DEFINE t == Then(Head(s), Tail(s))
<1>2. /\ t \in Seq(S) /\ Len(t) = Len(s) /\ t[1] = Head(s)
      /\ \A i \in 1 .. Len(Tail(s)) : t[i + 1] = Tail(s)[i]
  BY <1>1 DEF Then
<1> HIDE DEF t
<1>3. \A i \in 1 .. Len(s) : t[i] = s[i]
  <2> TAKE i \in 1 .. Len(s)
  <2>1. CASE i = 1 BY <1>2, <2>1
  <2>2. CASE i # 1
    <3>1. i - 1 \in 1 .. Len(Tail(s)) BY <1>1, <2>2
    <3>2. t[(i - 1) + 1] = Tail(s)[i - 1] BY <1>2, <3>1
    <3>3. Tail(s)[i - 1] = s[i] BY <3>1, <2>2
    <3>4. (i - 1) + 1 = i OBVIOUS
    <3> QED BY <3>2, <3>3, <3>4
  <2> QED BY <2>1, <2>2
<1>4. t = s BY <1>2, <1>3, SeqEqual
<1> QED BY <1>1, <1>4 DEF t

\* The same for primitives and for frames.
LEMMA PinThen ==
  ASSUME NEW pin \in Pins, NEW rest \in Seq(Pins)
  PROVE  /\ Then(pin, rest) \in Seq(Pins) /\ Then(pin, rest) # <<>>
         /\ Head(Then(pin, rest)) = pin /\ Tail(Then(pin, rest)) = rest
BY ThenIsSeq

LEMMA FrameThen ==
  ASSUME NEW frame \in Frame, NEW rest \in Seq(Frame)
  PROVE  /\ Then(frame, rest) \in Seq(Frame) /\ Then(frame, rest) # <<>>
         /\ Head(Then(frame, rest)) = frame /\ Tail(Then(frame, rest)) = rest
BY ThenIsSeq

\* The pin sequences of the driver are those the invariant speaks of.
LEMMA PinSequences ==
  /\ Start = Start6 /\ RepeatedStart = Restart5 /\ Stop = Stop4
  /\ RecoverBus = Recover4 /\ Pulse = Pulse4 /\ Stop \o <<"check_bus">> = Check5
  /\ \A free \in BOOLEAN :
       /\ WriteBit(free) = Then(IF free THEN "release_sda" ELSE "drive_sda",
                             Then("release_scl", Then("wait_scl", Then("drive_scl", <<>>))))
       /\ WriteBit(free) \o <<"release_sda">> =
            Then(IF free THEN "release_sda" ELSE "drive_sda",
              Then("release_scl", Then("wait_scl", Then("drive_scl", Then("release_sda", <<>>)))))
  /\ ReadBit = Then("release_sda", Then("release_scl", Then("wait_scl", Then("sample",
                 Then("drive_scl", <<>>)))))
  /\ ReadBit \o <<"check_ack">> =
       Then("release_sda", Then("release_scl", Then("wait_scl", Then("sample",
         Then("drive_scl", Then("check_ack", <<>>))))))
<1>1. Start = Start6
  <2>1. Start \in Seq(Pins) /\ Len(Start) = 6 BY DEF Start, Pins
  <2>2. Start6 \in Seq(Pins) /\ Len(Start6) = 6
    BY DEF Start6, Start5, Start4, Start3, Begin, Begun, Then, Pins
  <2>3. /\ Start6[1] = Start[1] /\ Start6[2] = Start[2] /\ Start6[3] = Start[3]
        /\ Start6[4] = Start[4] /\ Start6[5] = Start[5] /\ Start6[6] = Start[6]
    BY DEF Start, Start6, Start5, Start4, Start3, Begin, Begun, Then
  <2> QED BY <2>1, <2>2, <2>3, SeqEqual
<1>2. RepeatedStart = Restart5
  BY DEF RepeatedStart, Restart5, Restart4, Restart3, Begin, Begun, Then
<1>3. Stop = Stop4 BY DEF Stop, Stop4, Stop3, Stop2, Stop1, Then
<1>4. RecoverBus = Recover4
  BY DEF RecoverBus, Recover4, Recover3, Recover2, Recover1, Then
<1>5. Pulse = Pulse4 BY DEF Pulse, Pulse4, Pulse3, Pulse2, Pulse1, Then
<1>6. Stop \o <<"check_bus">> = Check5
  BY DEF Stop, Check5, Check4, Check3, Check2, Check1, Then
<1>7. ASSUME NEW free \in BOOLEAN
      PROVE  /\ WriteBit(free) =
                  Then(IF free THEN "release_sda" ELSE "drive_sda",
                    Then("release_scl", Then("wait_scl", Then("drive_scl", <<>>))))
             /\ WriteBit(free) \o <<"release_sda">> =
                  Then(IF free THEN "release_sda" ELSE "drive_sda",
                    Then("release_scl", Then("wait_scl",
                      Then("drive_scl", Then("release_sda", <<>>)))))
  BY DEF WriteBit, Then
<1>8. ReadBit = Then("release_sda", Then("release_scl", Then("wait_scl", Then("sample",
                  Then("drive_scl", <<>>)))))
  BY DEF ReadBit, Then
<1>9. ReadBit \o <<"check_ack">> =
        Then("release_sda", Then("release_scl", Then("wait_scl", Then("sample",
          Then("drive_scl", Then("check_ack", <<>>))))))
  BY DEF ReadBit, Then
<1> QED BY <1>1, <1>2, <1>3, <1>4, <1>5, <1>6, <1>7, <1>8, <1>9

-----------------------------------------------------------------------------
(* The frames                                                               *)

\* What is known of the first frame and of those behind it.
LEMMA FramesBehind ==
  ASSUME NEW frames \in Seq(Frame), frames # <<>>, NEW writing \in BOOLEAN,
         FramesLeft(frames, writing)
  PROVE  /\ Head(frames) \in Frame /\ Tail(frames) \in Seq(Frame)
         /\ Len(Tail(frames)) = Len(frames) - 1
         /\ FramesLeft(Tail(frames), writing)
         /\ Head(frames).kind = "stop" => Tail(frames) = <<>>
         /\ Head(frames).kind # "stop" =>
              /\ Tail(frames) # <<>>
              /\ Head(Tail(frames)) \in Frame
              /\ Follows(Head(frames), Head(Tail(frames)))
              /\ ~writing /\ Head(frames).kind = "write" => Head(Tail(frames)).kind = "restart"
         /\ writing => Len(frames) \in 1 .. 5 /\ Head(frames).kind = WriteKinds[Len(frames)]
<1> DEFINE rest == Tail(frames)
<1>1. /\ Len(frames) \in Nat \ {0} /\ rest \in Seq(Frame) /\ Len(rest) = Len(frames) - 1
      /\ Head(frames) = frames[1] /\ Head(frames) \in Frame
      /\ \A i \in 1 .. Len(rest) : rest[i] = frames[i + 1]
  OBVIOUS
<1>2. rest # <<>> => Len(rest) \in Nat \ {0} /\ Head(rest) = frames[2] /\ Head(rest) \in Frame
  BY <1>1
<1> HIDE DEF rest
<1>3. rest = <<>> => Len(frames) = 1 BY <1>1
<1>4. FramesLeft(rest, writing)
  <2>1. \A i \in 1 .. Len(rest) - 1 :
          /\ Follows(rest[i], rest[i + 1])
          /\ ~writing /\ rest[i].kind = "write" => rest[i + 1].kind = "restart"
    <3> TAKE i \in 1 .. Len(rest) - 1
    <3>1. i + 1 \in 1 .. Len(frames) - 1 /\ rest[i] = frames[i + 1] /\ rest[i + 1] = frames[(i + 1) + 1]
      BY <1>1
    <3> QED BY <3>1 DEF FramesLeft
  <2>2. rest # <<>> => rest[Len(rest)].kind = "stop"
    <3> SUFFICES ASSUME rest # <<>> PROVE rest[Len(rest)].kind = "stop" OBVIOUS
    <3>1. rest[Len(rest)] = frames[Len(frames)] BY <1>1, <1>2
    <3> QED BY <3>1 DEF FramesLeft
  <2>3. writing => /\ Len(rest) <= 5
                   /\ \A i \in 1 .. Len(rest) : rest[i].kind = WriteKinds[Len(rest) - i + 1]
    <3> SUFFICES ASSUME writing, NEW i \in 1 .. Len(rest)
                 PROVE  rest[i].kind = WriteKinds[Len(rest) - i + 1]
      BY <1>1 DEF FramesLeft
    <3>1. /\ i + 1 \in 1 .. Len(frames) /\ rest[i] = frames[i + 1]
          /\ Len(frames) - (i + 1) + 1 = Len(rest) - i + 1
      BY <1>1
    <3>2. frames[i + 1].kind = WriteKinds[Len(frames) - (i + 1) + 1] BY <3>1 DEF FramesLeft
    <3> QED BY <3>1, <3>2
  <2> QED BY <2>1, <2>2, <2>3 DEF FramesLeft
<1>5. rest # <<>> =>
        /\ Follows(Head(frames), Head(rest))
        /\ ~writing /\ Head(frames).kind = "write" => Head(rest).kind = "restart"
  <2> SUFFICES ASSUME rest # <<>>
               PROVE  /\ Follows(Head(frames), Head(rest))
                      /\ ~writing /\ Head(frames).kind = "write" => Head(rest).kind = "restart"
    OBVIOUS
  <2>1. 1 \in 1 .. Len(frames) - 1 /\ 1 + 1 = 2 BY <1>1, <1>2
  <2> QED BY <2>1, <1>1, <1>2 DEF FramesLeft
<1>6. Head(frames).kind = "stop" => rest = <<>> BY <1>5 DEF Follows
<1>7. rest = <<>> => Head(frames).kind = "stop" BY <1>1, <1>3 DEF FramesLeft
<1>8. writing => Len(frames) \in 1 .. 5 /\ Head(frames).kind = WriteKinds[Len(frames)]
  <2> SUFFICES ASSUME writing
               PROVE  Len(frames) \in 1 .. 5 /\ Head(frames).kind = WriteKinds[Len(frames)]
    OBVIOUS
  <2>1. 1 \in 1 .. Len(frames) /\ Len(frames) - 1 + 1 = Len(frames) /\ Len(frames) \in 1 .. 5
    <3>1. Len(frames) <= 5 BY Zenon DEF FramesLeft
    <3>2. Len(frames) \in Nat \ {0} BY <1>1
    <3>3. ASSUME NEW n \in Nat \ {0}, n <= 5 PROVE 1 \in 1 .. n /\ n - 1 + 1 = n /\ n \in 1 .. 5
      BY <3>3
    <3> QED BY <3>1, <3>2, <3>3
  <2>2. frames[1].kind = WriteKinds[Len(frames) - 1 + 1] BY <2>1 DEF FramesLeft
  <2>3. WriteKinds[Len(frames) - 1 + 1] = WriteKinds[Len(frames)] BY <2>1
  <2>4. Head(frames) = frames[1] BY <1>1
  <2> QED BY <2>1, <2>2, <2>3, <2>4
<1> QED BY <1>1, <1>2, <1>4, <1>5, <1>6, <1>7, <1>8 DEF rest

-----------------------------------------------------------------------------
(* The slave                                                                *)

\* How it reacts to the driver's pins, by what happens to the clock.
ReactsTo(s, m, n, t) ==
  LET low  == "scl" \in m.holds \/ "scl" \in s.holds
      low2 == "scl" \in n.holds \/ "scl" \in s.holds
  IN  /\ low /\ low2 => t = s
      /\ low /\ ~low2 => t = OnClockRise(s, "sda" \notin n.holds /\ "sda" \notin s.holds)
      /\ ~low /\ low2 => t \in OnClockFall(s)
      /\ ~low /\ ~low2 =>
           \/ t = s /\ ("sda" \in s.holds \/ ("sda" \in m.holds <=> "sda" \in n.holds))
           \/ t = StartedSlave /\ "sda" \notin s.holds /\ "sda" \notin m.holds /\ "sda" \in n.holds
           \/ t = IdleSlave /\ "sda" \notin s.holds /\ "sda" \in m.holds /\ "sda" \notin n.holds

LEMMA Reacting ==
  ASSUME NEW m, NEW n, NEW s \in Slaves, NEW t \in Reactions(s, m, n)
  PROVE  ReactsTo(s, m, n, t)
<1>1. /\ High("scl", m, s) <=> ("scl" \notin m.holds /\ "scl" \notin s.holds)
      /\ High("scl", n, s) <=> ("scl" \notin n.holds /\ "scl" \notin s.holds)
      /\ High("sda", m, s) <=> ("sda" \notin m.holds /\ "sda" \notin s.holds)
      /\ High("sda", n, s) = ("sda" \notin n.holds /\ "sda" \notin s.holds)
  BY DEF High
<1>2. CASE High("scl", m, s) /\ High("scl", n, s)
  <2>1. CASE High("sda", m, s) /\ ~High("sda", n, s)
    BY <1>1, <1>2, <2>1 DEF Reactions, ReactsTo, StartedSlave
  <2>2. CASE ~High("sda", m, s) /\ High("sda", n, s) BY <1>1, <1>2, <2>2 DEF Reactions, ReactsTo
  <2>3. CASE High("sda", m, s) /\ High("sda", n, s)
    <3>1. Reactions(s, m, n) = {s} BY <1>2, <2>3 DEF Reactions
    <3>2. t = s BY <3>1
    <3> QED BY <1>1, <1>2, <2>3, <3>2 DEF ReactsTo
  <2>4. CASE ~High("sda", m, s) /\ ~High("sda", n, s) BY <1>1, <1>2, <2>4 DEF Reactions, ReactsTo
  <2> QED BY <2>1, <2>2, <2>3, <2>4
<1>3. CASE ~High("scl", m, s) /\ High("scl", n, s) BY <1>1, <1>3 DEF Reactions, ReactsTo
<1>4. CASE High("scl", m, s) /\ ~High("scl", n, s) BY <1>1, <1>4 DEF Reactions, ReactsTo
<1>5. CASE ~High("scl", m, s) /\ ~High("scl", n, s) BY <1>1, <1>5 DEF Reactions, ReactsTo
<1> QED BY <1>1, <1>2, <1>3, <1>4, <1>5

\* The slaves a reset of either side leaves are slaves.
LEMMA SlaveKinds ==
  /\ IdleSlave \in Slaves /\ StartedSlave \in Slaves
  /\ IdleSlave.mode = "idle" /\ IdleSlave.holds = {} /\ IdleSlave.bytes = 0
  /\ StartedSlave.mode = "address" /\ StartedSlave.clock = -1 /\ StartedSlave.bytes = 0
  /\ StartedSlave.holds = {} /\ StartedSlave.read = FALSE
<1>1. -1 \in -1 .. BITS /\ 0 \in 0 .. 2 BY BusConstants
<1>2. /\ IdleSlave \in Slaves /\ IdleSlave.mode = "idle" /\ IdleSlave.holds = {}
      /\ IdleSlave.bytes = 0 /\ IdleSlave.clock = -1 /\ IdleSlave.read = FALSE
  BY <1>1 DEF IdleSlave, Slaves
<1> QED BY <1>2 DEF StartedSlave, Slaves

\* Without a falling edge it takes no byte, and a line it lets go of stays free.
LEMMA RiseKeeps ==
  ASSUME NEW s \in Slaves, NEW sda \in BOOLEAN
  PROVE  LET t == OnClockRise(s, sda)
         IN  /\ t \in Slaves /\ t.bytes \in {0, s.bytes}
             /\ \A line \in Lines : line \notin s.holds => line \notin t.holds
             /\ t = IdleSlave \/ /\ t.mode = s.mode /\ t.clock = s.clock /\ t.bytes = s.bytes
                                 /\ t.holds = s.holds
<1>1. CASE s.mode = "address" /\ s.clock = BITS - 1
  BY <1>1 DEF OnClockRise, Slaves
<1>2. CASE s.mode = "read" /\ s.clock = BITS /\ sda
  BY <1>2, SlaveKinds DEF OnClockRise, Slaves
<1>3. CASE /\ ~(s.mode = "address" /\ s.clock = BITS - 1)
           /\ ~(s.mode = "read" /\ s.clock = BITS /\ sda)
  <2>1. OnClockRise(s, sda) = s BY <1>3 DEF OnClockRise
  <2> QED BY <2>1
<1> QED BY <1>1, <1>2, <1>3

\* Letting go of the clock.
Freed(s) == [s EXCEPT !.holds = @ \ {"scl"}]

LEMMA FreedSlave ==
  ASSUME NEW s \in Slaves
  PROVE  /\ Freed(s) \in Slaves
         /\ Freed(s).mode = s.mode /\ Freed(s).clock = s.clock /\ Freed(s).read = s.read
         /\ Freed(s).bytes = s.bytes /\ Freed(s).holds = s.holds \ {"scl"}
BY DEF Freed, Slaves

\* A rising edge in a byte: the address tells the direction, and the answer to a
\* byte the slave has sent whether it sends another one.
LEMMA RiseInByte ==
  ASSUME NEW s \in Slaves, NEW kind \in ByteKinds, NEW bit \in 0 .. BITS,
         NEW second \in BOOLEAN, NEW free \in BOOLEAN,
         Reading(kind, bit) => free,
         Low(s, kind, bit, second), "scl" \notin s.holds
  PROVE  LET t == OnClockRise(s, free /\ "sda" \notin s.holds)
         IN  /\ Risen(t, kind, bit, second, free)
             /\ kind = "address" /\ bit = BITS => t = s
<1> DEFINE sda == free /\ "sda" \notin s.holds
           t == OnClockRise(s, sda)
<1>1. CASE s = IdleSlave /\ bit = BITS /\ kind # "read"
  <2>1. t = s BY <1>1, SlaveKinds DEF OnClockRise
  <2> QED BY <1>1, <2>1, SlaveKinds, BusConstants DEF Risen, Low, ByteKinds
<1>2. CASE At(s, kind, bit, second)
  <2>1. CASE kind = "address" /\ bit = BITS - 1
    <3>1. "sda" \notin s.holds BY <1>2, <2>1, BusConstants DEF At
    <3>2. t = [s EXCEPT !.read = free] BY <1>2, <2>1, <3>1 DEF At, OnClockRise
    <3>3. /\ t.mode = s.mode /\ t.clock = s.clock /\ t.bytes = s.bytes /\ t.holds = s.holds
          /\ t.read = free
      BY <3>2 DEF Slaves
    <3>4. At(t, kind, bit, second) BY <1>2, <3>3 DEF At
    <3> QED BY <2>1, <3>3, <3>4, BusConstants DEF Risen, Low
  <2>2. CASE kind = "read" /\ bit = BITS
    <3>1. "sda" \notin s.holds BY <1>2, <2>2 DEF At
    <3>2. t = IF free THEN IdleSlave ELSE s BY <1>2, <2>2, <3>1 DEF At, OnClockRise
    <3> QED BY <1>2, <2>2, <3>2, SlaveKinds DEF Risen, Low
  <2>3. CASE ~(kind = "address" /\ bit = BITS - 1) /\ ~(kind = "read" /\ bit = BITS)
    <3>1. t = s BY <1>2, <2>3 DEF At, OnClockRise
    <3> QED BY <1>2, <2>3, <3>1 DEF Risen, Low
  <2> QED BY <2>1, <2>2, <2>3
<1> QED BY <1>1, <1>2 DEF Low

\* A falling edge, by what it makes of the slave.
LEMMA Falling ==
  ASSUME NEW s \in Slaves, s.mode # "idle", NEW t \in OnClockFall(s)
  PROVE  LET clock == IF s.clock = BITS THEN 0 ELSE s.clock + 1
             mode  == IF s.mode = "address" /\ s.clock = BITS
                      THEN IF s.read THEN "read" ELSE "write" ELSE s.mode
         IN  \/ t = IdleSlave /\ mode # "read" /\ clock = BITS
             \/ /\ t.mode = mode /\ t.clock = clock /\ t.read = s.read
                /\ t.bytes = IF mode = "read" THEN 0
                             ELSE IF clock < BITS THEN s.bytes
                             ELSE IF mode = "write" THEN s.bytes + 1 ELSE 0
                /\ \/ mode = "read" /\ clock < BITS
                   \/ "sda" \in t.holds <=> mode # "read" /\ clock = BITS
                /\ t.bytes <= 2 => t \in Slaves
<1> DEFINE clock == IF s.clock = BITS THEN 0 ELSE s.clock + 1
           mode  == IF s.mode = "address" /\ clock = 0 /\ s.clock = BITS
                    THEN IF s.read THEN "read" ELSE "write" ELSE s.mode
           sdas  == IF mode = "read" THEN IF clock < BITS THEN {{}, {"sda"}} ELSE {{}}
                    ELSE IF clock < BITS THEN {{}} ELSE {{"sda"}}
           bytes == IF mode = "read" THEN 0
                    ELSE IF clock < BITS THEN s.bytes
                    ELSE IF mode = "write" THEN s.bytes + 1 ELSE 0
           Drives(sda, taken) ==
             {[s EXCEPT !.mode = mode, !.clock = clock, !.bytes = taken,
                        !.holds = IF stretch THEN sda \cup {"scl"} ELSE sda] : stretch \in BOOLEAN}
<1>1. s.clock \in -1 .. BITS /\ s.bytes \in 0 .. 2 /\ s.read \in BOOLEAN
  /\ s.mode \in {"address", "write", "read"}
  BY DEF Slaves
<1>2. clock \in 0 .. BITS /\ mode \in {"address", "write", "read"} /\ bytes \in 0 .. 3
  BY <1>1, BusConstants
<1>3. OnClockFall(s) =
        CASE mode = "read" /\ clock < BITS -> Drives({}, 0) \cup Drives({"sda"}, 0)
          [] mode = "read" /\ clock = BITS -> Drives({}, 0)
          [] mode # "read" /\ clock < BITS -> Drives({}, s.bytes)
          [] mode # "read" /\ clock = BITS ->
               {IdleSlave} \cup Drives({"sda"}, IF mode = "write" THEN s.bytes + 1 ELSE 0)
  BY Zenon DEF OnClockFall, Addressed
<1>4. \/ t = IdleSlave /\ mode # "read" /\ clock = BITS
      \/ \E sda \in sdas : t \in Drives(sda, bytes)
  <2> HIDE DEF clock, mode, Drives
  <2>0. clock < BITS \/ clock = BITS BY <1>2, BusConstants
  <2>1. CASE mode = "read" /\ clock < BITS
    BY <1>3, <2>1
  <2>2. CASE mode = "read" /\ clock = BITS
    BY <1>3, <2>2, BusConstants
  <2>3. CASE mode # "read" /\ clock < BITS
    BY <1>2, <1>3, <2>3, BusConstants
  <2>4. CASE mode # "read" /\ clock = BITS
    BY <1>3, <2>4, BusConstants
  <2> QED BY <2>0, <2>1, <2>2, <2>3, <2>4
<1> HIDE DEF clock, mode, bytes
<1>5. ASSUME NEW sda \in sdas, NEW stretch \in BOOLEAN,
             t = [s EXCEPT !.mode = mode, !.clock = clock, !.bytes = bytes,
                           !.holds = IF stretch THEN sda \cup {"scl"} ELSE sda]
      PROVE  /\ t.mode = mode /\ t.clock = clock /\ t.read = s.read /\ t.bytes = bytes
             /\ \/ mode = "read" /\ clock < BITS
                \/ "sda" \in t.holds <=> mode # "read" /\ clock = BITS
             /\ t.bytes <= 2 => t \in Slaves
  <2>1. /\ t.mode = mode /\ t.clock = clock /\ t.read = s.read /\ t.bytes = bytes
        /\ t.holds = IF stretch THEN sda \cup {"scl"} ELSE sda
    BY <1>5 DEF Slaves
  <2>2. sda \subseteq Lines BY DEF Lines
  <2>3. t.bytes <= 2 => t \in Slaves
    <3>1. (IF stretch THEN sda \cup {"scl"} ELSE sda) \subseteq Lines BY <2>2 DEF Lines
    <3>2. clock \in -1 .. BITS BY <1>2
    <3>3. bytes <= 2 => bytes \in 0 .. 2 BY <1>2
    <3> QED BY <1>2, <1>5, <2>1, <3>1, <3>2, <3>3 DEF Slaves
  <2>4. \/ mode = "read" /\ clock < BITS
        \/ "sda" \in t.holds <=> mode # "read" /\ clock = BITS
    <3>1. "sda" \in t.holds <=> "sda" \in sda BY <2>1
    <3>2. CASE mode = "read" /\ clock < BITS BY <3>2
    <3>3. CASE mode = "read" /\ ~(clock < BITS) BY <3>1, <3>3
    <3>4. CASE mode # "read" /\ clock < BITS BY <1>2, <3>1, <3>4
    <3>5. CASE mode # "read" /\ ~(clock < BITS) BY <1>2, <3>1, <3>5, BusConstants
    <3> QED BY <3>2, <3>3, <3>4, <3>5
  <2> QED BY <2>1, <2>3, <2>4
<1>6. mode = IF s.mode = "address" /\ s.clock = BITS
             THEN IF s.read THEN "read" ELSE "write" ELSE s.mode
  BY DEF clock, mode
<1> QED BY <1>4, <1>5, <1>6 DEF clock, bytes

LEMMA IdleFalls ==
  ASSUME NEW s, s.mode = "idle", NEW t \in OnClockFall(s)
  PROVE  t = s
BY DEF OnClockFall, Addressed

\* A falling edge in a byte: the next bit, with the acknowledge behind the last one.
LEMMA FallInByte ==
  ASSUME NEW s \in Slaves, NEW kind \in ByteKinds, NEW bit \in 0 .. BITS - 1,
         NEW second \in BOOLEAN, NEW free \in BOOLEAN,
         Risen(s, kind, bit, second, free), NEW t \in OnClockFall(s)
  PROVE  /\ t \in Slaves /\ Low(t, kind, bit + 1, second)
         /\ kind = "address" /\ bit = BITS - 1 /\ t # IdleSlave => (t.read <=> free)
         /\ t.bytes \in {0, s.bytes, s.bytes + 1}
<1>1. At(s, kind, bit, second) /\ bit # BITS /\ bit \in Nat
  BY BusConstants DEF Risen, Low
<1>2. /\ s.mode = kind /\ s.clock = bit /\ s.bytes = BytesAt(kind, bit, second)
      /\ kind \in {"address", "write", "read"} /\ s.mode # "idle"
  BY <1>1 DEF At, ByteKinds
<1>3. \/ t = IdleSlave /\ kind # "read" /\ bit + 1 = BITS
      \/ /\ t.mode = kind /\ t.clock = bit + 1 /\ t.read = s.read
         /\ t.bytes = IF kind = "read" THEN 0
                      ELSE IF bit + 1 < BITS THEN s.bytes
                      ELSE IF kind = "write" THEN s.bytes + 1 ELSE 0
         /\ \/ kind = "read" /\ bit + 1 < BITS
            \/ "sda" \in t.holds <=> kind # "read" /\ bit + 1 = BITS
         /\ t.bytes <= 2 => t \in Slaves
  BY <1>1, <1>2, Falling
<1>4. CASE t = IdleSlave /\ kind # "read" /\ bit + 1 = BITS
  BY <1>4, SlaveKinds DEF Low
<1>5. CASE /\ t.mode = kind /\ t.clock = bit + 1 /\ t.read = s.read
           /\ t.bytes = IF kind = "read" THEN 0
                        ELSE IF bit + 1 < BITS THEN s.bytes
                        ELSE IF kind = "write" THEN s.bytes + 1 ELSE 0
           /\ \/ kind = "read" /\ bit + 1 < BITS
              \/ "sda" \in t.holds <=> kind # "read" /\ bit + 1 = BITS
           /\ t.bytes <= 2 => t \in Slaves
  <2>1. t.bytes = BytesAt(kind, bit + 1, second)
    BY <1>1, <1>2, <1>5, BusConstants DEF BytesAt
  <2>2. t \in Slaves BY <1>5, <2>1 DEF BytesAt
  <2>3. At(t, kind, bit + 1, second) BY <1>1, <1>2, <1>5, <2>1, BusConstants DEF At
  <2>4. kind = "address" /\ bit = BITS - 1 => (s.read <=> free) BY DEF Risen
  <2>5. t.bytes \in {0, s.bytes, s.bytes + 1} BY <1>5
  <2> QED BY <1>5, <2>2, <2>3, <2>4, <2>5 DEF Low
<1> QED BY <1>3, <1>4, <1>5

\* A falling edge behind a byte: the next byte, if the slave is to see one.
FallsBehind(s, kind, second, free, t) ==
  /\ t \in Slaves /\ t.bytes \in {0, s.bytes}
  /\ t = IdleSlave <=> s = IdleSlave
  /\ kind = "read" /\ free => t = IdleSlave
  /\ kind = "read" /\ ~free => \A w \in BOOLEAN : Low(t, "read", 0, w)
  /\ kind = "address" /\ t # IdleSlave => Low(t, IF s.read THEN "read" ELSE "write", 0, FALSE)
  /\ kind = "write" /\ t # IdleSlave =>
       /\ t.mode = "write" /\ t.clock = 0 /\ "sda" \notin t.holds
       /\ t.bytes = IF second THEN 2 ELSE 1
       /\ s.bytes = t.bytes

LEMMA FallBehindByte ==
  ASSUME NEW s \in Slaves, NEW kind \in ByteKinds,
         NEW second \in BOOLEAN, NEW free \in BOOLEAN,
         Risen(s, kind, BITS, second, free), NEW t \in OnClockFall(s)
  PROVE  FallsBehind(s, kind, second, free, t)
<1>1. CASE s = IdleSlave
  <2>1. t = s BY <1>1, SlaveKinds, IdleFalls
  <2> QED BY <1>1, <2>1, SlaveKinds DEF FallsBehind, Risen, Low, At, ByteKinds
<1>2. CASE s # IdleSlave
  <2>1. At(s, kind, BITS, second) /\ ~(kind = "read" /\ free)
    BY <1>2 DEF Risen, Low
  <2>2. /\ s.mode = kind /\ s.clock = BITS /\ s.bytes = BytesAt(kind, BITS, second)
        /\ kind \in {"address", "write", "read"} /\ s.mode # "idle"
    BY <2>1 DEF At, ByteKinds
  <2> DEFINE next == IF kind = "address" THEN IF s.read THEN "read" ELSE "write" ELSE kind
  <2>3. /\ t.mode = next /\ t.clock = 0
        /\ t.bytes = IF next = "read" THEN 0 ELSE s.bytes
        /\ next = "read" \/ "sda" \notin t.holds
        /\ t.bytes <= 2 => t \in Slaves
    BY <2>2, Falling, BusConstants
  <2>4. next \in {"write", "read"} BY <2>2
  <2>5. s.bytes = IF kind = "write" THEN (IF second THEN 2 ELSE 1) ELSE 0
    BY <2>2 DEF BytesAt
  <2>6. t \in Slaves /\ t # IdleSlave /\ t.bytes \in {0, s.bytes}
    BY <2>3, <2>4, <2>5, SlaveKinds
  <2>7. kind = "read" => \A w \in BOOLEAN : Low(t, "read", 0, w)
    BY <2>3, BusConstants DEF Low, At, BytesAt
  <2>8. kind = "address" => Low(t, IF s.read THEN "read" ELSE "write", 0, FALSE)
    BY <2>3, <2>4, <2>5, BusConstants DEF Low, At, BytesAt
  <2> QED BY <1>2, <2>1, <2>3, <2>5, <2>6, <2>7, <2>8 DEF FallsBehind
<1> QED BY <1>1, <1>2

-----------------------------------------------------------------------------
(* The driver's primitives: what each does when it is the next one          *)

PinDrivers == {"drive_sda", "drive_scl", "release_sda", "release_scl"}

HoldsAfter(pin, holds) ==
  CASE pin = "drive_sda"   -> holds \cup {"sda"}
    [] pin = "drive_scl"   -> holds \cup {"scl"}
    [] pin = "release_sda" -> holds \ {"sda"}
    [] pin = "release_scl" -> holds \ {"scl"}

\* What no primitive changes that does not fail.
Kept ==
  /\ master' \in Masters
  /\ master'.call = master.call /\ master'.frames = master.frames
  /\ master'.bit = master.bit /\ master'.result = master.result

\* What an error leaves of the call.
FailedWith(error) ==
  /\ master' \in Masters
  /\ master'.call = master.call /\ master'.frames = <<>> /\ master'.holds = master.holds
  /\ master'.todo = IF master.call = "transaction" /\ master.result = "Ok" THEN Stop4 ELSE <<>>
  /\ master'.result = IF master.result = "Ok" THEN error ELSE master.result

LEMMA FailedMaster ==
  ASSUME master \in Masters, NEW error \in Results, master' = Failed(error)
  PROVE  FailedWith(error)
<1>1. Stop \in Seq(Pins) BY DEF Stop, Pins
<1>2. 0 \in 0 .. STRETCH_TIMEOUT - 1 BY BusConstants
<1>3. <<>> \in Seq(Frame) /\ <<>> \in Seq(Pins) OBVIOUS
<1> QED BY <1>1, <1>2, <1>3, PinSequences DEF Failed, FailedWith, Masters

LEMMA PinDriven ==
  ASSUME master \in Masters, slave \in Slaves, NEW pin \in PinDrivers, NEW rest \in Seq(Pins),
         master.todo = Then(pin, rest), Drive
  PROVE  /\ Kept /\ master'.todo = rest /\ master'.pulses = master.pulses
         /\ master'.sampled = master.sampled /\ master'.holds = HoldsAfter(pin, master.holds)
         /\ ReactsTo(slave, master, master', slave')
<1>1. pin \in Pins /\ pin \notin {"wait_scl", "sample", "check_ack", "check_idle", "recovered",
                                  "pulsed", "check_bus"}
  BY DEF PinDrivers, Pins
<1>2. master.todo # <<>> /\ Head(master.todo) = pin /\ Tail(master.todo) = rest
  BY <1>1, PinThen
<1>3. DrivePin BY <1>1, <1>2 DEF Drive, TakeBit, WaitClock, SampleData
<1>4. master' = [master EXCEPT !.todo = rest, !.holds = HoldsAfter(pin, master.holds)]
  BY <1>2, <1>3 DEF DrivePin, Done, HoldsAfter, Lines, PinDrivers, Masters
<1>5. HoldsAfter(pin, master.holds) \in SUBSET Lines
  BY DEF Masters, PinDrivers, HoldsAfter, Lines
<1>6. ReactsTo(slave, master, master', slave') BY <1>3, Reacting DEF DrivePin
<1> HIDE DEF HoldsAfter
<1> QED BY <1>4, <1>5, <1>6 DEF Kept, Masters

LEMMA ClockPolled ==
  ASSUME master \in Masters, NEW rest \in Seq(Pins),
         master.todo = Then("wait_scl", rest), Drive
  PROVE  /\ slave' = slave
         /\ \/ /\ "scl" \notin master.holds \cup slave.holds
               /\ Kept /\ master'.todo = rest /\ master'.holds = master.holds
               /\ master'.pulses = master.pulses /\ master'.sampled = master.sampled
            \/ /\ "scl" \in master.holds \cup slave.holds
               /\ \/ /\ Kept /\ master'.todo = master.todo /\ master'.holds = master.holds
                     /\ master'.pulses = master.pulses /\ master'.sampled = master.sampled
                  \/ FailedWith("ClockStretchTimeout")
<1>1. "wait_scl" \in Pins BY DEF Pins
<1>2. master.todo # <<>> /\ Head(master.todo) = "wait_scl" /\ Tail(master.todo) = rest
  BY <1>1, PinThen
<1>3. WaitClock BY <1>2 DEF Drive, TakeBit, DrivePin, SampleData, Lines
<1>4. 0 \in 0 .. STRETCH_TIMEOUT - 1 BY BusConstants
<1>5. CASE High("scl", master, slave)
  <2>1. master' = [master EXCEPT !.todo = rest, !.polls = 0] BY <1>2, <1>3, <1>5 DEF WaitClock, Done, Masters
  <2> QED BY <1>3, <1>4, <1>5, <2>1 DEF WaitClock, High, Kept, Masters
<1>6. CASE ~High("scl", master, slave) /\ master.polls + 1 < STRETCH_TIMEOUT
  <2>1. master' = [master EXCEPT !.polls = @ + 1] BY <1>3, <1>6 DEF WaitClock
  <2>2. master.polls + 1 \in 0 .. STRETCH_TIMEOUT - 1 BY <1>6, BusConstants DEF Masters
  <2> QED BY <1>3, <1>6, <2>1, <2>2 DEF WaitClock, High, Kept, Masters
<1>7. CASE ~High("scl", master, slave) /\ ~(master.polls + 1 < STRETCH_TIMEOUT)
  <2>1. master' = Failed("ClockStretchTimeout") BY <1>3, <1>7 DEF WaitClock
  <2> QED BY <1>3, <1>7, <2>1, FailedMaster DEF WaitClock, High, Results
<1> QED BY <1>5, <1>6, <1>7

\* The decisions on the level of SDA.
LEMMA DataSampled ==
  ASSUME master \in Masters, Drive, NEW rest \in Seq(Pins),
         NEW pin \in {"sample", "check_ack", "check_idle", "check_bus", "recovered", "pulsed"},
         master.todo = Then(pin, rest)
  PROVE  /\ slave' = slave
         /\ LET high == "sda" \notin master.holds \cup slave.holds
                Goes(todo) == /\ Kept /\ master'.todo = todo /\ master'.holds = master.holds
                              /\ pin # "sample" => master'.sampled = master.sampled
                              /\ pin # "pulsed" => master'.pulses = master.pulses
            IN  /\ pin = "sample" => Goes(rest) /\ master'.sampled = high
                /\ pin = "check_ack" =>
                     IF master.sampled THEN FailedWith("NoAcknowledge") ELSE Goes(rest)
                /\ pin = "check_idle" => IF high THEN Goes(rest) ELSE FailedWith("BusBusy")
                /\ pin = "check_bus" =>
                     IF high /\ "scl" \notin master.holds \cup slave.holds
                     THEN Goes(rest) ELSE FailedWith("BusBusy")
                /\ pin = "recovered" => Goes(IF high THEN <<>> ELSE Pulse4)
                /\ pin = "pulsed" /\ master.pulses < RECOVERY_PULSES =>
                     /\ Goes(IF high \/ master.pulses + 1 = RECOVERY_PULSES THEN Check5 ELSE Pulse4)
                     /\ master'.pulses = master.pulses + 1
<1>1. pin \in Pins /\ pin \notin PinDrivers /\ pin # "wait_scl" BY DEF Pins, PinDrivers
<1>2. master.todo # <<>> /\ Head(master.todo) = pin /\ Tail(master.todo) = rest
  BY <1>1, PinThen
<1>3. SampleData BY <1>1, <1>2 DEF Drive, TakeBit, DrivePin, WaitClock, Lines, PinDrivers
<1> DEFINE high == "sda" \notin master.holds \cup slave.holds
<1>4. High("sda", master, slave) = high BY DEF High
<1>5. Pulse4 \in Seq(Pins) /\ Check5 \in Seq(Pins) /\ Pulse = Pulse4
      /\ Stop \o <<"check_bus">> = Check5 /\ <<>> \in Seq(Pins)
  <2>1. Pulse \in Seq(Pins) /\ Stop \o <<"check_bus">> \in Seq(Pins) /\ <<>> \in Seq(Pins)
    BY DEF Pulse, Stop, Pins
  <2>2. Pulse = Pulse4 /\ Stop \o <<"check_bus">> = Check5 BY PinSequences
  <2> QED BY <2>1, <2>2, Zenon
<1>6. CASE pin = "sample"
  <2>1. master' = [master EXCEPT !.todo = rest, !.sampled = high]
    BY <1>2, <1>3, <1>4, <1>6 DEF SampleData, Done, Masters
  <2> QED BY <1>3, <1>6, <2>1 DEF SampleData, Kept, Masters
<1>7. CASE pin = "check_ack"
  <2>1. master' = IF master.sampled THEN Failed("NoAcknowledge") ELSE [master EXCEPT !.todo = rest]
    BY <1>2, <1>3, <1>7 DEF SampleData, Done
  <2>2. master.sampled => FailedWith("NoAcknowledge") BY <2>1, FailedMaster DEF Results
  <2>3. ~master.sampled => master' = [master EXCEPT !.todo = rest] BY <2>1
  <2> QED BY <1>3, <1>7, <2>2, <2>3 DEF SampleData, Kept, Masters
<1>8. CASE pin = "check_idle"
  <2>1. master' = IF high THEN [master EXCEPT !.todo = rest] ELSE Failed("BusBusy")
    BY <1>2, <1>3, <1>4, <1>8 DEF SampleData, Done
  <2>2. ~high => FailedWith("BusBusy") BY <2>1, FailedMaster DEF Results
  <2>3. high => master' = [master EXCEPT !.todo = rest] BY <2>1
  <2> QED BY <1>3, <1>8, <2>2, <2>3 DEF SampleData, Kept, Masters
<1>9. CASE pin = "check_bus"
  <2> DEFINE both == high /\ "scl" \notin master.holds \cup slave.holds
  <2>1. master' = IF both THEN [master EXCEPT !.todo = rest] ELSE Failed("BusBusy")
    BY <1>2, <1>3, <1>4, <1>9 DEF SampleData, Done, High
  <2>2. ~both => FailedWith("BusBusy") BY <2>1, FailedMaster DEF Results
  <2>3. both => master' = [master EXCEPT !.todo = rest] BY <2>1
  <2> QED BY <1>3, <1>9, <2>2, <2>3 DEF SampleData, Kept, Masters
<1>10. CASE pin = "recovered"
  <2>1. master' = [master EXCEPT !.todo = IF high THEN <<>> ELSE Pulse4]
    BY <1>2, <1>3, <1>4, <1>5, <1>10 DEF SampleData
  <2>2. (IF high THEN <<>> ELSE Pulse4) \in Seq(Pins) BY <1>5
  <2> QED BY <1>3, <1>10, <2>1, <2>2 DEF SampleData, Kept, Masters
<1>11. CASE pin = "pulsed"
  <2> DEFINE todo == IF high \/ master.pulses + 1 = RECOVERY_PULSES THEN Check5 ELSE Pulse4
  <2>1. master' = [master EXCEPT !.pulses = @ + 1, !.todo = todo]
    BY <1>2, <1>3, <1>4, <1>5, <1>11 DEF SampleData
  <2>2. todo \in Seq(Pins) BY <1>5
  <2>3. master.pulses < RECOVERY_PULSES => master.pulses + 1 \in 0 .. RECOVERY_PULSES
    BY BusConstants DEF Masters, RECOVERY_PULSES
  <2> HIDE DEF todo
  <2>4. /\ master'.pulses = master.pulses + 1 /\ master'.todo = todo
        /\ master'.holds = master.holds /\ master'.sampled = master.sampled
    BY <2>1 DEF Masters
  <2>5. master.pulses < RECOVERY_PULSES => Kept BY <2>1, <2>2, <2>3 DEF Kept, Masters
  <2> QED BY <1>3, <1>11, <2>4, <2>5 DEF SampleData, todo
<1> QED BY <1>6, <1>7, <1>8, <1>9, <1>10, <1>11

\* The next bit of the frames, or a frame of its own.
LEMMA BitTaken ==
  ASSUME master \in Masters, master.todo = <<>>, master.frames # <<>>, Drive
  PROVE  LET frame == Head(master.frames)
             last  == frame.kind \in {"start", "restart", "stop"} \/ master.bit = BITS
         IN  /\ slave' = slave /\ master' \in Masters
             /\ master'.call = master.call /\ master'.holds = master.holds
             /\ master'.result = master.result
             /\ master'.todo \in NextBit(frame, master.bit)
             /\ last => master'.bit = 0 /\ master'.frames = Tail(master.frames)
             /\ ~last => master'.bit = master.bit + 1 /\ master'.frames = master.frames
<1> DEFINE frame == Head(master.frames)
           last  == frame.kind \in {"start", "restart", "stop"} \/ master.bit = BITS
<1>1. TakeBit BY DEF Drive, DrivePin, WaitClock, SampleData
<1>2. frame \in Frame /\ Tail(master.frames) \in Seq(Frame) /\ master.bit \in 0 .. BITS
  BY DEF Masters
<1>3. /\ NextBit(frame, master.bit) \subseteq Seq(Pins)
  <2>1. /\ Start \in Seq(Pins) /\ RepeatedStart \in Seq(Pins) /\ Stop \in Seq(Pins)
        /\ ReadBit \in Seq(Pins) /\ <<"release_sda">> \in Seq(Pins) /\ <<"check_ack">> \in Seq(Pins)
    BY DEF Start, RepeatedStart, Stop, ReadBit, Pins
  <2>2. \A high \in BOOLEAN : WriteBit(high) \in Seq(Pins) BY DEF WriteBit, Pins
  <2>3. ReadBit \o <<"check_ack">> \in Seq(Pins) BY <2>1, ConcatProperties
  <2>4. frame.high \in BOOLEAN BY <1>2 DEF Frame
  <2>5. WriteBit(frame.high) \o <<"release_sda">> \in Seq(Pins)
    BY <2>1, <2>2, <2>4, ConcatProperties
  <2>6. frame.kind \in FrameKinds BY <1>2 DEF Frame
  <2> HIDE DEF frame
  <2>7. CASE frame.kind = "start" BY <2>1, <2>7 DEF NextBit
  <2>8. CASE frame.kind = "restart" BY <2>1, <2>8 DEF NextBit
  <2>9. CASE frame.kind = "stop" BY <2>1, <2>9 DEF NextBit
  <2>10. CASE frame.kind = "read"
    <3>1. master.bit < BITS \/ master.bit = BITS BY <1>2, BusConstants
    <3>2. NextBit(frame, master.bit) \in {{ReadBit}, {WriteBit(frame.high) \o <<"release_sda">>}}
      BY <2>10, <3>1, <1>2, BusConstants DEF NextBit
    <3> QED BY <2>1, <2>5, <3>2
  <2>11. CASE frame.kind \in {"address", "write"}
    <3>1. \/ NextBit(frame, master.bit) = {ReadBit \o <<"check_ack">>}
          \/ NextBit(frame, master.bit) = {WriteBit(frame.high)}
          \/ NextBit(frame, master.bit) = {WriteBit(TRUE), WriteBit(FALSE)}
      <4>1. CASE master.bit = BITS
        <5>1. BITS # BITS - 1 /\ ~(BITS < BITS) BY BusConstants
        <5>2. CASE frame.kind = "address" BY <4>1, <5>1, <5>2 DEF NextBit
        <5>3. CASE frame.kind = "write" BY <4>1, <5>1, <5>3 DEF NextBit
        <5> QED BY <2>11, <5>2, <5>3
      <4>2. CASE master.bit # BITS /\ frame.kind = "address" /\ master.bit = BITS - 1
        BY <4>2, BusConstants DEF NextBit
      <4>3. CASE master.bit # BITS /\ ~(frame.kind = "address" /\ master.bit = BITS - 1)
        BY <2>11, <4>3, BusConstants DEF NextBit
      <4> QED BY <4>1, <4>2, <4>3
    <3>2. WriteBit(frame.high) \in Seq(Pins) /\ WriteBit(TRUE) \in Seq(Pins)
          /\ WriteBit(FALSE) \in Seq(Pins)
      BY <2>2, <2>4
    <3>3. CASE NextBit(frame, master.bit) = {ReadBit \o <<"check_ack">>} BY <2>3, <3>3
    <3>4. CASE NextBit(frame, master.bit) = {WriteBit(frame.high)} BY <3>2, <3>4
    <3>5. CASE NextBit(frame, master.bit) = {WriteBit(TRUE), WriteBit(FALSE)} BY <3>2, <3>5
    <3> QED BY <3>1, <3>3, <3>4, <3>5
  <2> QED BY <2>6, <2>7, <2>8, <2>9, <2>10, <2>11 DEF FrameKinds
<1>4. \E todo \in NextBit(frame, master.bit) :
        master' = [master EXCEPT !.todo = todo,
                                 !.bit = IF last THEN 0 ELSE master.bit + 1,
                                 !.frames = IF last THEN Tail(master.frames) ELSE master.frames]
  BY <1>1 DEF TakeBit
<1>5. slave' = slave BY <1>1 DEF TakeBit
<1>6. (IF last THEN 0 ELSE master.bit + 1) \in 0 .. BITS BY <1>2, BusConstants
<1>7. (IF last THEN Tail(master.frames) ELSE master.frames) \in Seq(Frame) BY <1>2 DEF Masters
<1> HIDE DEF frame, last
<1>8. PICK todo \in NextBit(frame, master.bit) :
        master' = [master EXCEPT !.todo = todo,
                                 !.bit = IF last THEN 0 ELSE master.bit + 1,
                                 !.frames = IF last THEN Tail(master.frames) ELSE master.frames]
  BY <1>4
<1>9. todo \in Seq(Pins) BY <1>3
<1>10. /\ master' \in Masters /\ master'.call = master.call /\ master'.holds = master.holds
       /\ master'.result = master.result /\ master'.todo = todo
       /\ master'.bit = (IF last THEN 0 ELSE master.bit + 1)
       /\ master'.frames = IF last THEN Tail(master.frames) ELSE master.frames
  BY <1>6, <1>7, <1>8, <1>9 DEF Masters
<1> QED BY <1>5, <1>10 DEF frame, last

-----------------------------------------------------------------------------
(* A transaction, place by place: what the driver's next step makes of it   *)

\* What a step of the bus leaves of the driver above it.
Stays ==
  /\ stage' = stage /\ register' = register /\ programmed \subseteq programmed'
  /\ timed_out' = timed_out /\ found_busy' = found_busy

Continues ==
  /\ master' \in Masters /\ slave' \in Slaves
  /\ master'.call = "transaction" /\ Transaction'

Calling == master \in Masters /\ slave \in Slaves /\ master.call = "transaction" /\ Stays

\* With frames left nothing has gone wrong yet.
Running ==
  /\ Calling /\ master.result = "Ok"
  /\ master.frames # <<>> /\ FramesLeft(master.frames, Writing)
  /\ Writing /\ slave.bytes = 2 => Taken

\* A held clock ends the transaction with a STOP.
LEMMA ClockHeld ==
  ASSUME Calling, master.result = "Ok", ~found_busy,
         FailedWith("ClockStretchTimeout"), slave' = slave
  PROVE  Continues
BY DEF Calling, Stays, Continues, FailedWith, Transaction, AtStop

\* A pin sequence behind another one.
LEMMA PinSuffixes ==
  /\ <<>> \in Seq(Pins) /\ Begun \in Seq(Pins) /\ Begin \in Seq(Pins)
  /\ Start3 \in Seq(Pins) /\ Start4 \in Seq(Pins) /\ Start5 \in Seq(Pins)
  /\ Restart3 \in Seq(Pins) /\ Restart4 \in Seq(Pins)
  /\ Stop1 \in Seq(Pins) /\ Stop2 \in Seq(Pins) /\ Stop3 \in Seq(Pins)
  /\ "release_sda" \in PinDrivers /\ "release_scl" \in PinDrivers
  /\ "drive_sda" \in PinDrivers /\ "drive_scl" \in PinDrivers
<1>1. <<>> \in Seq(Pins) OBVIOUS
<1>2. Begun \in Seq(Pins) BY <1>1, PinThen DEF Begun, Pins
<1>3. Begin \in Seq(Pins) BY <1>2, PinThen DEF Begin, Pins
<1>4. Start3 \in Seq(Pins) BY <1>3, PinThen DEF Start3, Pins
<1>5. Start4 \in Seq(Pins) BY <1>4, PinThen DEF Start4, Pins
<1>6. Start5 \in Seq(Pins) BY <1>5, PinThen DEF Start5, Pins
<1>7. Restart3 \in Seq(Pins) BY <1>3, PinThen DEF Restart3, Pins
<1>8. Restart4 \in Seq(Pins) BY <1>7, PinThen DEF Restart4, Pins
<1>9. Stop1 \in Seq(Pins) BY <1>1, PinThen DEF Stop1, Pins
<1>10. Stop2 \in Seq(Pins) BY <1>9, PinThen DEF Stop2, Pins
<1>11. Stop3 \in Seq(Pins) BY <1>10, PinThen DEF Stop3, Pins
<1> QED
  BY <1>1, <1>2, <1>3, <1>4, <1>5, <1>6, <1>7, <1>8, <1>9, <1>10, <1>11 DEF PinDrivers

\* Before the START.
LEMMA StartDriven ==
  ASSUME Running, AtStart(master, slave), Quiet, Drive
  PROVE  Continues
<1>1. /\ master \in Masters /\ slave \in Slaves /\ master.call = "transaction"
      /\ master.result = "Ok" /\ master.frames # <<>> /\ FramesLeft(master.frames, Writing)
      /\ master.holds \subseteq Lines /\ slave.holds \subseteq Lines
  BY DEF Running, Calling, Masters, Slaves
<1>2. Writing \in BOOLEAN /\ Writing' = Writing BY DEF Writing, Running, Calling, Stays
\* A step that leaves the lines to themselves.
<1>3. ASSUME Kept, slave' \in Slaves, AtStart(master', slave'), Quiet'
      PROVE  Continues
  BY <1>1, <1>2, <1>3 DEF Continues, Kept, Transaction
<1>4. CASE master.todo = <<>> /\ NextFrame(master).kind = "start"
  <2> DEFINE rest == Tail(master.frames)
  <2>1. /\ slave' = slave /\ master' \in Masters /\ master'.call = "transaction"
        /\ master'.holds = master.holds /\ master'.result = "Ok"
        /\ master'.todo = Start6 /\ master'.bit = 0 /\ master'.frames = rest
    BY <1>1, <1>4, BitTaken, PinSequences DEF NextFrame, NextBit
  <2>2. rest # <<>> /\ FramesLeft(rest, Writing) /\ Head(rest).kind = "address"
    <3> DEFINE frames == master.frames
    <3>1. frames \in Seq(Frame) /\ frames # <<>> /\ Head(frames).kind = "start"
      BY <1>1, <1>4 DEF NextFrame, Masters
    <3>2. FramesLeft(frames, Writing) BY <1>1
    <3> HIDE DEF frames
    <3>3. /\ FramesLeft(Tail(frames), Writing) /\ Tail(frames) # <<>>
          /\ Follows(Head(frames), Head(Tail(frames)))
      BY <1>2, <3>1, <3>2, FramesBehind
    <3>4. Head(Tail(frames)).kind = "address" BY <3>1, <3>3 DEF Follows
    <3> QED BY <3>3, <3>4 DEF frames
  <2>3. Quiet' BY <2>1 DEF Quiet, Running, Calling, Stays
  <2>4. AtStart(master', slave') BY <2>1, <2>2 DEF AtStart, NextFrame
  <2> QED BY <1>1, <1>2, <2>1, <2>2, <2>3, <2>4 DEF Continues, Transaction
<1>5. CASE NextFrame(master).kind = "address" /\ master.bit = 0 /\ master.todo = Start6
  <2>1. /\ Kept /\ master'.todo = Start5 /\ master'.holds = master.holds \ {"sda"}
        /\ ReactsTo(slave, master, master', slave')
    BY <1>1, PinSuffixes, <1>5, PinDriven DEF Start6, HoldsAfter
  <2>2. \/ slave' = slave
        \/ slave' = IdleSlave /\ "sda" \in master.holds
    <3>1. /\ "scl" \in master'.holds <=> "scl" \in master.holds
          /\ "sda" \notin master'.holds
      BY <2>1
    <3>2. CASE "scl" \in master.holds \/ "scl" \in slave.holds
      BY <1>1, <2>1, <3>1, <3>2 DEF ReactsTo
    <3>3. CASE "scl" \notin master.holds /\ "scl" \notin slave.holds
      BY <1>1, <2>1, <3>1, <3>3 DEF ReactsTo
    <3> QED BY <3>2, <3>3
  <2>3. slave' \in Slaves BY <1>1, <2>2, SlaveKinds
  <2>4. Quiet' BY <2>1, <2>2 DEF Quiet, Running, Calling, Stays
  <2>5. AtStart(master', slave') BY <1>5, <2>1 DEF AtStart, NextFrame, Kept
  <2> QED BY <1>3, <2>1, <2>3, <2>4, <2>5
<1>6. CASE /\ NextFrame(master).kind = "address" /\ master.bit = 0
           /\ master.todo = Start5 /\ "sda" \notin master.holds
  <2>1. /\ Kept /\ master'.todo = Start4 /\ master'.holds = master.holds \ {"scl"}
        /\ ReactsTo(slave, master, master', slave')
    BY <1>1, PinSuffixes, <1>6, PinDriven DEF Start5, HoldsAfter
  <2>2. master'.holds = {} BY <1>1, <1>6, <2>1 DEF Lines
  <2>3. \/ slave' = slave
        \/ "scl" \in master.holds /\ \E sda \in BOOLEAN : slave' = OnClockRise(slave, sda)
    <3>1. CASE "scl" \in slave.holds BY <1>1, <2>1, <3>1 DEF ReactsTo
    <3>2. CASE "scl" \notin slave.holds /\ "scl" \in master.holds
      <4> DEFINE sda == "sda" \notin master'.holds /\ "sda" \notin slave.holds
      <4>1. slave' = OnClockRise(slave, sda) BY <1>1, <2>1, <2>2, <3>2 DEF ReactsTo
      <4> QED BY <3>2, <4>1
    <3>3. CASE "scl" \notin slave.holds /\ "scl" \notin master.holds
      BY <1>1, <1>6, <2>1, <2>2, <3>3 DEF ReactsTo
    <3> QED BY <3>1, <3>2, <3>3
  <2>4. slave' \in Slaves BY <1>1, <2>3, RiseKeeps
  <2>5. Quiet'
    <3>1. "scl" \in master.holds => timed_out /\ ~found_busy BY DEF Quiet
    <3> QED BY <2>2, <2>3, <3>1 DEF Quiet, Running, Calling, Stays
  <2>6. AtStart(master', slave') BY <1>6, <2>1, <2>2 DEF AtStart, NextFrame, Kept
  <2> QED BY <1>3, <2>1, <2>4, <2>5, <2>6
<1>7. CASE /\ NextFrame(master).kind = "address" /\ master.bit = 0
           /\ master.todo = Start4 /\ master.holds = {}
  <2>1. slave' = slave BY <1>1, PinSuffixes, <1>7, ClockPolled DEF Start4
  <2>2. CASE Kept /\ master'.holds = master.holds /\ master'.todo = Start3 /\ "scl" \notin slave.holds
    <3>1. AtStart(master', slave') BY <1>7, <2>1, <2>2 DEF AtStart, NextFrame, Kept
    <3>2. Quiet' BY <2>1, <2>2 DEF Quiet, Running, Calling, Stays
    <3> QED BY <1>1, <1>3, <2>1, <2>2, <3>1, <3>2
  <2>3. CASE Kept /\ master'.holds = master.holds /\ master'.todo = Start4
    <3>1. AtStart(master', slave') BY <1>7, <2>1, <2>3 DEF AtStart, NextFrame, Kept
    <3>2. Quiet' BY <2>1, <2>3 DEF Quiet, Running, Calling, Stays
    <3> QED BY <1>1, <1>3, <2>1, <2>3, <3>1, <3>2
  <2>4. CASE FailedWith("ClockStretchTimeout") /\ "scl" \in slave.holds
    <3>1. ~found_busy BY <2>4 DEF Quiet
    <3> QED BY <1>1, <2>1, <2>4, <3>1, ClockHeld DEF Running
  <2> QED BY <1>1, PinSuffixes, <1>7, <2>2, <2>3, <2>4, ClockPolled DEF Start4
<1>8. CASE /\ NextFrame(master).kind = "address" /\ master.bit = 0
            /\ master.todo = Start3 /\ master.holds = {} /\ "scl" \notin slave.holds
  <2>1. /\ slave' = slave
        /\ IF "sda" \notin slave.holds
           THEN Kept /\ master'.todo = Begin /\ master'.holds = {}
           ELSE FailedWith("BusBusy")
    BY <1>1, PinSuffixes, <1>8, DataSampled DEF Start3
  <2>2. CASE "sda" \notin slave.holds
    <3>1. slave.holds = {} BY <1>1, <1>8, <2>2 DEF Lines
    <3>2. ~found_busy' BY <2>2 DEF Quiet, Running, Calling, Stays
    <3>3. AtBegin(master', slave') BY <1>8, <2>1, <2>2, <3>1 DEF AtBegin, NextFrame, Kept
    <3> QED BY <1>1, <1>2, <2>1, <2>2, <3>2, <3>3 DEF Continues, Kept, Transaction
  <2>3. CASE "sda" \in slave.holds
    <3>1. slave.holds = {"sda"} BY <1>1, <1>8, <2>3 DEF Lines
    <3>2. timed_out' BY <2>3 DEF Quiet, Running, Calling, Stays
    <3>3. AtStop(master', slave') BY <1>1, <1>8, <2>1, <2>3, <3>1 DEF AtStop, FailedWith
    <3> QED BY <1>1, <2>1, <2>3, <3>2, <3>3 DEF Continues, FailedWith, Transaction
  <2> QED BY <2>2, <2>3
<1> QED BY <1>4, <1>5, <1>6, <1>7, <1>8 DEF AtStart

\* A transaction that has started goes on.
LEMMA Proceeds ==
  ASSUME Running, ~found_busy, master' \in Masters, slave' \in Slaves,
         master'.call = master.call, master'.result = master.result,
         master'.frames # <<>>, FramesLeft(master'.frames, Writing),
         \/ AtBegin(master', slave')
         \/ AtRestart(master', slave')
         \/ AtBit(master', slave', Writing)
         \/ AfterByte(master', slave', Writing, Taken')
         \/ master'.todo = <<>> /\ Between(master', slave', Writing, Taken')
  PROVE  Continues
<1>1. Writing' = Writing BY DEF Writing, Running, Calling, Stays
<1> QED BY <1>1 DEF Continues, Transaction, Running, Calling, Stays

\* At the START.
LEMMA BeginDriven ==
  ASSUME Running, AtBegin(master, slave), ~found_busy, Drive
  PROVE  Continues
<1>1. /\ master \in Masters /\ slave \in Slaves /\ master.result = "Ok"
      /\ master.frames # <<>> /\ FramesLeft(master.frames, Writing)
      /\ NextFrame(master).kind = "address" /\ master.bit = 0
  BY DEF Running, Calling, AtBegin
<1>2. CASE master.todo = Begin /\ master.holds = {} /\ slave.holds = {}
  <2>1. /\ Kept /\ master'.todo = Begun /\ master'.holds = {"sda"}
        /\ ReactsTo(slave, master, master', slave')
    BY <1>1, <1>2, PinSuffixes, PinDriven DEF Begin, HoldsAfter
  <2>2. slave' = StartedSlave BY <1>2, <2>1 DEF ReactsTo
  <2>3. AtBegin(master', slave') BY <1>1, <2>1, <2>2 DEF AtBegin, NextFrame, Kept
  <2> QED BY <1>1, <2>1, <2>2, <2>3, Proceeds, SlaveKinds DEF Kept
<1>3. CASE master.todo = Begun /\ master.holds = {"sda"} /\ slave = StartedSlave
  <2>1. /\ Kept /\ master'.todo = <<>> /\ master'.holds = {"sda", "scl"}
        /\ ReactsTo(slave, master, master', slave')
    BY <1>1, <1>3, PinSuffixes, PinDriven DEF Begun, HoldsAfter
  <2>2. slave' \in OnClockFall(slave) BY <1>3, <2>1, SlaveKinds DEF ReactsTo
  <2>3. slave.mode = "address" /\ slave.clock = -1 /\ slave.bytes = 0 /\ slave.clock + 1 = 0
        /\ slave.clock # BITS /\ 0 < BITS /\ 0 # BITS
    BY <1>3, SlaveKinds, BusConstants
  <2>4. /\ slave'.mode = "address" /\ slave'.clock = 0 /\ slave'.bytes = 0
        /\ "sda" \notin slave'.holds /\ slave' \in Slaves
    BY <1>1, <2>2, <2>3, Falling
  <2>5. \A second \in BOOLEAN : Low(slave', "address", 0, second)
    BY <2>3, <2>4 DEF Low, At, BytesAt
  <2>6. NextFrame(master') = NextFrame(master) /\ master'.bit = 0
    BY <1>1, <2>1 DEF NextFrame, Kept
  <2>7. Writing \in BOOLEAN BY DEF Writing
  <2>8. Between(master', slave', Writing, Taken')
    BY <1>1, <2>1, <2>3, <2>5, <2>6, <2>7 DEF Between, ByteKinds
  <2> QED BY <1>1, <2>1, <2>4, <2>8, Proceeds DEF Kept
<1> QED BY <1>2, <1>3 DEF AtBegin

\* At a repeated START.
LEMMA RestartDriven ==
  ASSUME Running, AtRestart(master, slave), ~found_busy, Drive
  PROVE  Continues
<1>1. /\ master \in Masters /\ slave \in Slaves /\ master.result = "Ok"
      /\ master.frames # <<>> /\ FramesLeft(master.frames, Writing)
      /\ NextFrame(master).kind = "address" /\ master.bit = 0 /\ Parked(slave)
      /\ slave.holds \subseteq Lines /\ "sda" \notin slave.holds
  BY SlaveKinds DEF Running, Calling, AtRestart, Parked, Slaves
<1>2. \A sda \in BOOLEAN : OnClockRise(slave, sda) = slave
  BY <1>1, SlaveKinds DEF Parked, OnClockRise
<1>3. CASE master.todo = Restart5 /\ "scl" \in master.holds
  <2>1. /\ Kept /\ master'.todo = Restart4 /\ master'.holds = master.holds \ {"sda"}
        /\ ReactsTo(slave, master, master', slave')
    BY <1>1, <1>3, PinSuffixes, PinDriven DEF Restart5, HoldsAfter
  <2>2. slave' = slave BY <1>3, <2>1 DEF ReactsTo
  <2>3. master'.holds = {"scl"} BY <1>1, <1>3, <2>1 DEF Masters, Lines
  <2>4. AtRestart(master', slave') BY <1>1, <2>1, <2>2, <2>3 DEF AtRestart, NextFrame, Kept
  <2> QED BY <1>1, <2>1, <2>2, <2>4, Proceeds DEF Kept
<1>4. CASE master.todo = Restart4 /\ master.holds = {"scl"}
  <2>1. /\ Kept /\ master'.todo = Restart3 /\ master'.holds = {}
        /\ ReactsTo(slave, master, master', slave')
    BY <1>1, <1>4, PinSuffixes, PinDriven DEF Restart4, HoldsAfter
  <2>2. slave' = slave
    <3>1. CASE "scl" \in slave.holds BY <3>1, <2>1 DEF ReactsTo
    <3>2. CASE "scl" \notin slave.holds
      <4> DEFINE sda == "sda" \notin master'.holds /\ "sda" \notin slave.holds
      <4>1. slave' = OnClockRise(slave, sda) BY <1>4, <2>1, <3>2 DEF ReactsTo
      <4> HIDE DEF sda
      <4>2. sda \in BOOLEAN BY DEF sda
      <4> QED BY <1>2, <4>1, <4>2
    <3> QED BY <3>1, <3>2
  <2>3. AtRestart(master', slave') BY <1>1, <2>1, <2>2 DEF AtRestart, NextFrame, Kept
  <2> QED BY <1>1, <2>1, <2>2, <2>3, Proceeds DEF Kept
<1>5. CASE master.todo = Restart3 /\ master.holds = {}
  <2>1. slave' = slave BY <1>1, <1>5, PinSuffixes, ClockPolled DEF Restart3
  <2>2. CASE Kept /\ master'.todo = Begin /\ master'.holds = {} /\ "scl" \notin slave.holds
    <3>1. slave.holds = {} BY <1>1, <2>2 DEF Lines
    <3>2. AtBegin(master', slave') BY <1>1, <2>1, <2>2, <3>1 DEF AtBegin, NextFrame, Kept
    <3> QED BY <1>1, <2>1, <2>2, <3>2, Proceeds DEF Kept
  <2>3. CASE Kept /\ master'.todo = Restart3 /\ master'.holds = {}
    <3>1. AtRestart(master', slave') BY <1>1, <2>1, <2>3 DEF AtRestart, NextFrame, Kept
    <3> QED BY <1>1, <2>1, <2>3, <3>1, Proceeds DEF Kept
  <2>4. CASE FailedWith("ClockStretchTimeout")
    BY <1>1, <2>1, <2>4, ClockHeld DEF Running
  <2> QED BY <1>1, <1>5, <2>2, <2>3, <2>4, PinSuffixes, ClockPolled DEF Restart3
<1> QED BY <1>3, <1>4, <1>5 DEF AtRestart

\* The pin sequences of the bits of a byte.
LEMMA BitSequences ==
  ASSUME NEW frame \in Frame, frame.kind \in ByteKinds, NEW bit \in 0 .. BITS,
         NEW todo \in NextBit(frame, bit)
  PROVE  \E free \in BOOLEAN :
           /\ todo = Then(IF free THEN "release_sda" ELSE "drive_sda", Free(frame.kind, bit))
           /\ Reading(frame.kind, bit) => free
           /\ frame.kind = "address" /\ bit = BITS - 1 => (free <=> frame.high)
           /\ frame.kind = "read" /\ bit = BITS => (free <=> frame.high)
<1> DEFINE kind == frame.kind
<1>1. frame.high \in BOOLEAN BY DEF Frame
<1>2. bit < BITS \/ bit = BITS BY BusConstants
<1>3. CASE kind = "read" /\ bit < BITS
  <2>0. bit # BITS BY <1>3, BusConstants
  <2>1. todo = ReadBit BY <1>3, <2>0 DEF NextBit
  <2>2. Reading(kind, bit) /\ bit # BITS BY <1>3, <2>0 DEF Reading
  <2>3. todo = Then("release_sda", Free(kind, bit))
    BY <1>3, <2>1, <2>2, PinSequences DEF Free, Wait, Work, Fall, Behind
  <2> QED BY <1>3, <2>2, <2>3
<1>4. CASE kind = "read" /\ bit = BITS
  <2>1. todo = WriteBit(frame.high) \o <<"release_sda">> BY <1>4, BusConstants DEF NextBit
  <2>2. ~Reading(kind, bit) /\ ~(bit < BITS) BY <1>4, BusConstants DEF Reading
  <2>3. todo = Then(IF frame.high THEN "release_sda" ELSE "drive_sda", Free(kind, bit))
    BY <1>1, <1>4, <2>1, <2>2, PinSequences DEF Free, Wait, Work, Fall, Behind
  <2> QED BY <1>1, <1>4, <2>2, <2>3
<1>5. CASE kind \in {"address", "write"} /\ bit = BITS
  <2>1. todo = ReadBit \o <<"check_ack">>
    <3>1. BITS # BITS - 1 /\ ~(BITS < BITS) BY BusConstants
    <3>2. CASE kind = "address" BY <1>5, <3>1, <3>2 DEF NextBit
    <3>3. CASE kind = "write" BY <1>5, <3>1, <3>3 DEF NextBit
    <3> QED BY <1>5, <3>2, <3>3
  <2>2. Reading(kind, bit) /\ ~(bit < BITS) /\ bit # BITS - 1
    BY <1>5, BusConstants DEF Reading
  <2>3. todo = Then("release_sda", Free(kind, bit))
    BY <1>5, <2>1, <2>2, PinSequences DEF Free, Wait, Work, Fall, Behind
  <2> QED BY <1>5, <2>2, <2>3
<1>6. CASE kind \in {"address", "write"} /\ bit < BITS
  <2>1. PICK free \in BOOLEAN :
          /\ todo = WriteBit(free)
          /\ kind = "address" /\ bit = BITS - 1 => (free <=> frame.high)
    <3>1. CASE kind = "address" /\ bit = BITS - 1 BY <1>1, <1>6, <3>1, BusConstants DEF NextBit
    <3>2. CASE ~(kind = "address" /\ bit = BITS - 1)
      <4>1. bit # BITS BY <1>6, BusConstants
      <4>2. NextBit(frame, bit) = {WriteBit(TRUE), WriteBit(FALSE)}
        BY <1>6, <3>2, <4>1 DEF NextBit
      <4> QED BY <3>2, <4>2
    <3> QED BY <3>1, <3>2
  <2>2. ~Reading(kind, bit) /\ bit # BITS BY <1>6, BusConstants DEF Reading
  <2>3. todo = Then(IF free THEN "release_sda" ELSE "drive_sda", Free(kind, bit))
    BY <1>6, <2>1, <2>2, PinSequences DEF Free, Wait, Work, Fall, Behind
  <2> QED BY <2>1, <2>2, <2>3
<1> QED BY <1>2, <1>3, <1>4, <1>5, <1>6 DEF ByteKinds

\* Between two bits or frames the driver takes the next one.
LEMMA BetweenDriven ==
  ASSUME Running, master.todo = <<>>, Between(master, slave, Writing, Taken), ~found_busy, Drive
  PROVE  Continues
<1> DEFINE frame == NextFrame(master)
           rest  == Tail(master.frames)
<1>1. /\ master \in Masters /\ slave \in Slaves /\ master.call = "transaction"
      /\ master.result = "Ok" /\ master.frames \in Seq(Frame) /\ master.frames # <<>>
      /\ FramesLeft(master.frames, Writing) /\ Writing \in BOOLEAN
      /\ "scl" \in master.holds /\ master.bit \in 0 .. BITS
  BY DEF Running, Calling, Masters, Between, Writing
<1>2. /\ frame \in Frame /\ rest \in Seq(Frame) /\ FramesLeft(rest, Writing)
      /\ frame.kind = "stop" => rest = <<>>
      /\ frame.kind # "stop" => rest # <<>> /\ Follows(frame, Head(rest))
  BY <1>1, FramesBehind DEF NextFrame
<1>3. /\ slave' = slave /\ master' \in Masters
      /\ master'.call = master.call /\ master'.holds = master.holds
      /\ master'.result = master.result /\ master'.todo \in NextBit(frame, master.bit)
      /\ frame.kind \in {"start", "restart", "stop"} \/ master.bit = BITS =>
           master'.bit = 0 /\ master'.frames = rest
      /\ ~(frame.kind \in {"start", "restart", "stop"} \/ master.bit = BITS) =>
           master'.bit = master.bit + 1 /\ master'.frames = master.frames
  BY <1>1, BitTaken DEF NextFrame
<1> HIDE DEF frame, rest
<1>4. CASE frame.kind = "restart" /\ Parked(slave)
  <2>1. master'.todo = Restart5 BY <1>3, <1>4, PinSequences DEF NextBit
  <2>2. Head(rest).kind = "address" /\ rest # <<>> BY <1>2, <1>4 DEF Follows
  <2>3. AtRestart(master', slave')
    BY <1>1, <1>3, <1>4, <2>1, <2>2 DEF AtRestart, NextFrame
  <2> QED BY <1>2, <1>3, <1>4, <1>1, <2>2, <2>3, Proceeds
<1>5. CASE frame.kind = "stop" /\ Parked(slave) /\ (Writing => Taken)
  <2>1. master'.todo = Stop4 /\ master'.frames = <<>>
    BY <1>2, <1>3, <1>5, PinSequences DEF NextBit
  <2>2. AtStop(master', slave') BY <1>1, <1>3, <1>5, <2>1 DEF AtStop
  <2>3. Writing' => Taken' BY <1>5 DEF Writing, Taken, Running, Calling, Stays
  <2> QED BY <1>1, <1>3, <2>1, <2>2, <2>3 DEF Continues, Transaction, Running, Calling, Stays
<1>6. CASE frame.kind \in ByteKinds
  <2> DEFINE bit == master.bit
             second == Writing /\ Len(master.frames) = 2
  <2>1. /\ Low(slave, frame.kind, bit, second)
        /\ frame.kind = "address" /\ bit = BITS /\ slave # IdleSlave =>
             (slave.read <=> frame.high)
    BY <1>6 DEF Between, ByteKinds, frame
  <2>2. PICK free \in BOOLEAN :
          /\ master'.todo = Then(IF free THEN "release_sda" ELSE "drive_sda",
                              Free(frame.kind, bit))
          /\ Reading(frame.kind, bit) => free
          /\ frame.kind = "address" /\ bit = BITS - 1 => (free <=> frame.high)
          /\ frame.kind = "read" /\ bit = BITS => (free <=> frame.high)
    BY <1>1, <1>2, <1>3, <1>6, BitSequences
  <2>3. /\ frame.kind \notin {"start", "restart", "stop"} /\ frame.kind # "stop" BY <1>6 DEF ByteKinds
  <2>4. FramesAt(master', frame, bit) = master.frames
    <3>1. CASE bit = BITS
      <4>1. Then(frame, rest) = master.frames BY <1>1, HeadThenTail DEF frame, rest, NextFrame
      <4> QED BY <1>3, <2>3, <3>1, <4>1 DEF FramesAt
    <3>2. CASE bit # BITS BY <1>3, <2>3, <3>2 DEF FramesAt
    <3> QED BY <3>1, <3>2
  <2>5. Head(master.frames) = frame BY DEF frame, NextFrame
  <2>6. master'.bit = IF bit = BITS THEN 0 ELSE bit + 1 BY <1>3, <2>3
  <2>7. InBit(master', slave', frame, bit, second, free)
    <3>1. Fixed(slave', frame, bit, free) BY <1>3, <2>1, <2>2 DEF Fixed
    <3>2. BeforeRise(master', slave', frame.kind, bit, second, free)
      BY <1>1, <1>3, <2>1, <2>2 DEF BeforeRise
    <3> QED BY <3>1, <3>2 DEF InBit
  <2>8. AtBit(master', slave', Writing)
    BY <1>1, <1>2, <1>6, <2>4, <2>5, <2>6, <2>7 DEF AtBit
  <2>9. master'.frames # <<>> /\ FramesLeft(master'.frames, Writing)
    BY <1>1, <1>2, <1>3, <2>3
  <2> QED BY <1>1, <1>3, <2>8, <2>9, Proceeds
<1> QED BY <1>4, <1>5, <1>6 DEF Between, frame

LEMMA BitSuffixes ==
  ASSUME NEW kind \in ByteKinds, NEW bit \in 0 .. BITS
  PROVE  /\ Behind(kind, bit) \in Seq(Pins) /\ Fall(kind, bit) \in Seq(Pins)
         /\ Work(kind, bit) \in Seq(Pins) /\ Wait(kind, bit) \in Seq(Pins)
         /\ Free(kind, bit) \in Seq(Pins)
<1>1. Behind(kind, bit) \in Seq(Pins)
  <2>1. <<>> \in Seq(Pins) OBVIOUS
  <2>2. "release_sda" \in Pins /\ "check_ack" \in Pins BY DEF Pins
  <2> QED BY <2>1, <2>2, PinThen DEF Behind
<1>2. Fall(kind, bit) \in Seq(Pins) BY <1>1, PinThen DEF Fall, Pins
<1>3. Work(kind, bit) \in Seq(Pins) BY <1>2, PinThen DEF Work, Pins
<1>4. Wait(kind, bit) \in Seq(Pins) BY <1>3, PinThen DEF Wait, Pins
<1>5. Free(kind, bit) \in Seq(Pins) BY <1>4, PinThen DEF Free, Pins
<1> QED BY <1>1, <1>2, <1>3, <1>4, <1>5

\* A bit whose clock has not risen yet.
LEMMA BeforeRiseDriven ==
  ASSUME master \in Masters, slave \in Slaves, Drive,
         NEW kind \in ByteKinds, NEW bit \in 0 .. BITS,
         NEW second \in BOOLEAN, NEW free \in BOOLEAN, Reading(kind, bit) => free,
         BeforeRise(master, slave, kind, bit, second, free)
  PROVE  \/ /\ Kept /\ slave' \in Slaves
            /\ kind = "address" /\ bit = BITS => slave' = slave
            /\ \/ BeforeRise(master', slave', kind, bit, second, free)
               \/ AfterRise(master', slave', kind, bit, second, free)
         \/ slave' = slave /\ FailedWith("ClockStretchTimeout")
<1>1. Low(slave, kind, bit, second) BY DEF BeforeRise
<1>2. CASE /\ "scl" \in master.holds
           /\ master.todo = Then(IF free THEN "release_sda" ELSE "drive_sda", Free(kind, bit))
  <2> DEFINE pin == IF free THEN "release_sda" ELSE "drive_sda"
  <2>1. pin \in PinDrivers BY DEF PinDrivers
  <2>2. /\ Kept /\ master'.todo = Free(kind, bit)
        /\ master'.holds = HoldsAfter(pin, master.holds)
        /\ ReactsTo(slave, master, master', slave')
    BY <1>2, <2>1, BitSuffixes, PinDriven
  <2>3. "scl" \in master'.holds /\ (free <=> "sda" \notin master'.holds)
    BY <1>2, <2>2 DEF HoldsAfter
  <2>4. slave' = slave BY <1>2, <2>2, <2>3 DEF ReactsTo
  <2> QED BY <1>1, <2>2, <2>3, <2>4 DEF BeforeRise
<1>3. CASE /\ "scl" \in master.holds /\ (free <=> "sda" \notin master.holds)
           /\ master.todo = Free(kind, bit)
  <2>1. /\ Kept /\ master'.todo = Wait(kind, bit) /\ master'.holds = master.holds \ {"scl"}
        /\ ReactsTo(slave, master, master', slave')
    <3>1. "release_scl" \in PinDrivers /\ Wait(kind, bit) \in Seq(Pins)
      BY PinSuffixes, BitSuffixes
    <3>2. master.todo = Then("release_scl", Wait(kind, bit)) BY <1>3 DEF Free
    <3>3. /\ Kept /\ master'.todo = Wait(kind, bit)
          /\ master'.holds = HoldsAfter("release_scl", master.holds)
          /\ ReactsTo(slave, master, master', slave')
      BY <3>1, <3>2, PinDriven
    <3> QED BY <3>3 DEF HoldsAfter
  <2>2. "scl" \notin master'.holds /\ (free <=> "sda" \notin master'.holds) BY <1>3, <2>1
  <2>3. CASE "scl" \in slave.holds
    <3>1. slave' = slave BY <1>3, <2>3, <2>1 DEF ReactsTo
    <3> QED BY <1>1, <2>1, <2>2, <2>3, <3>1 DEF BeforeRise
  <2>4. CASE "scl" \notin slave.holds
    <3> DEFINE sda == "sda" \notin master'.holds /\ "sda" \notin slave.holds
               freed == free /\ "sda" \notin slave.holds
    <3>1. slave' = OnClockRise(slave, sda) BY <1>3, <2>1, <2>2, <2>4 DEF ReactsTo
    <3>2. sda = freed BY <2>2
    <3>3. freed \in BOOLEAN OBVIOUS
    <3>4. /\ Risen(OnClockRise(slave, freed), kind, bit, second, free)
          /\ kind = "address" /\ bit = BITS => OnClockRise(slave, freed) = slave
      BY <1>1, <2>4, RiseInByte
    <3>5. OnClockRise(slave, freed) \in Slaves BY <3>3, RiseKeeps
    <3> HIDE DEF sda, freed
    <3> QED BY <2>1, <2>2, <3>1, <3>2, <3>4, <3>5 DEF AfterRise
  <2> QED BY <2>3, <2>4
<1>4. CASE /\ "scl" \notin master.holds /\ (free <=> "sda" \notin master.holds)
           /\ "scl" \in slave.holds /\ master.todo = Wait(kind, bit)
  <2>1. /\ slave' = slave
        /\ \/ Kept /\ master'.todo = master.todo /\ master'.holds = master.holds
           \/ FailedWith("ClockStretchTimeout")
    BY <1>4, BitSuffixes, ClockPolled DEF Wait
  <2> QED BY <1>1, <1>4, <2>1 DEF BeforeRise
<1> QED BY <1>2, <1>3, <1>4 DEF BeforeRise

\* A bit whose clock is high, up to its falling edge.
LEMMA AfterRiseDriven ==
  ASSUME master \in Masters, slave \in Slaves, Drive,
         NEW kind \in ByteKinds, NEW bit \in 0 .. BITS,
         NEW second \in BOOLEAN, NEW free \in BOOLEAN, Reading(kind, bit) => free,
         AfterRise(master, slave, kind, bit, second, free)
  PROVE  /\ Kept
         /\ \/ slave' = slave /\ AfterRise(master', slave', kind, bit, second, free)
            \/ /\ "scl" \in master'.holds /\ master'.todo = Behind(kind, bit)
               /\ master'.sampled = master.sampled
               /\ slave' \in OnClockFall(slave)
               /\ kind # "read" /\ bit = BITS => (master.sampled <=> slave = IdleSlave)
<1>1. /\ Risen(slave, kind, bit, second, free) /\ "scl" \notin slave.holds
      /\ "scl" \notin master.holds /\ (free <=> "sda" \notin master.holds)
  BY DEF AfterRise, Risen
<1>2. CASE master.todo = Wait(kind, bit)
  <2>1. /\ slave' = slave /\ Kept /\ master'.todo = Work(kind, bit)
        /\ master'.holds = master.holds
    BY <1>1, <1>2, BitSuffixes, ClockPolled DEF Wait
  <2>2. CASE Reading(kind, bit) BY <1>1, <2>1, <2>2 DEF AfterRise
  <2>3. CASE ~Reading(kind, bit)
    <3>1. Work(kind, bit) = Fall(kind, bit) /\ ~(kind # "read" /\ bit = BITS)
      BY <2>3 DEF Work, Reading
    <3> QED BY <1>1, <2>1, <3>1 DEF AfterRise
  <2> QED BY <2>2, <2>3
<1>3. CASE Reading(kind, bit) /\ master.todo = Work(kind, bit)
  <2>1. master.todo = Then("sample", Fall(kind, bit)) BY <1>3 DEF Work
  <2>2. /\ slave' = slave /\ Kept /\ master'.todo = Fall(kind, bit)
        /\ master'.holds = master.holds
        /\ master'.sampled = ("sda" \notin master.holds \cup slave.holds)
    BY <2>1, BitSuffixes, DataSampled
  <2>3. kind # "read" /\ bit = BITS => (master'.sampled <=> slave = IdleSlave)
    <3> SUFFICES ASSUME kind # "read", bit = BITS PROVE master'.sampled <=> slave = IdleSlave
      OBVIOUS
    <3>1. master'.sampled <=> "sda" \notin slave.holds BY <1>1, <1>3, <2>2
    <3>2. Low(slave, kind, bit, second) BY <1>1 DEF Risen
    <3>3. CASE slave = IdleSlave BY <3>1, <3>3, SlaveKinds
    <3>4. CASE At(slave, kind, bit, second)
      BY <3>1, <3>4, SlaveKinds DEF At, ByteKinds
    <3> QED BY <3>2, <3>3, <3>4 DEF Low
  <2> QED BY <1>1, <2>2, <2>3 DEF AfterRise
<1>4. CASE /\ master.todo = Fall(kind, bit)
           /\ kind # "read" /\ bit = BITS => (master.sampled <=> slave = IdleSlave)
  <2>1. /\ Kept /\ master'.todo = Behind(kind, bit) /\ master'.holds = master.holds \cup {"scl"}
        /\ master'.sampled = master.sampled /\ ReactsTo(slave, master, master', slave')
    BY <1>4, PinSuffixes, BitSuffixes, PinDriven DEF Fall, HoldsAfter
  <2>2. slave' \in OnClockFall(slave) BY <1>1, <2>1 DEF ReactsTo
  <2> QED BY <1>4, <2>1, <2>2
<1> QED BY <1>2, <1>3, <1>4 DEF AfterRise

\* Anywhere in a bit: the same bit, or what is behind its clock pulse.
LEMMA BitDriven ==
  ASSUME Running, AtBit(master, slave, Writing), ~found_busy, Drive
  PROVE  Continues
<1>1. PICK frame \in Frame, bit \in 0 .. BITS, free \in BOOLEAN :
        LET frames == FramesAt(master, frame, bit)
        IN  /\ FramesLeft(frames, Writing)
            /\ Head(frames) = frame /\ frame.kind \in ByteKinds
            /\ master.bit = IF bit = BITS THEN 0 ELSE bit + 1
            /\ InBit(master, slave, frame, bit, Writing /\ Len(frames) = 2, free)
  BY DEF AtBit
<1> DEFINE frames == FramesAt(master, frame, bit)
           second == Writing /\ Len(frames) = 2
           kind   == frame.kind
<1>2. /\ master \in Masters /\ slave \in Slaves /\ master.call = "transaction"
      /\ master.result = "Ok" /\ master.frames \in Seq(Frame) /\ master.frames # <<>>
      /\ FramesLeft(master.frames, Writing) /\ Writing \in BOOLEAN /\ second \in BOOLEAN
  BY DEF Running, Calling, Masters, Writing
<1>3. frames \in Seq(Frame) /\ frames # <<>>
  <2>1. Then(frame, master.frames) \in Seq(Frame) /\ Then(frame, master.frames) # <<>>
    BY <1>2, FrameThen
  <2> QED BY <1>2, <2>1 DEF FramesAt
<1>4. bit = BITS => Tail(frames) = master.frames
  <2>1. Tail(Then(frame, master.frames)) = master.frames BY <1>2, FrameThen
  <2> QED BY <2>1 DEF FramesAt
<1>5. bit # BITS => frames = master.frames BY DEF FramesAt
<1>6. Fixed(slave, frame, bit, free) /\ kind \in ByteKinds /\ (Reading(kind, bit) => free)
  BY <1>1 DEF InBit, Fixed
<1> HIDE DEF frames, second
\* The same bit still.
<1>7. ASSUME Kept, slave' \in Slaves, kind = "address" /\ bit = BITS => slave' = slave,
             \/ BeforeRise(master', slave', kind, bit, second, free)
             \/ AfterRise(master', slave', kind, bit, second, free)
      PROVE  Continues
  <2>1. Fixed(slave', frame, bit, free) BY <1>6, <1>7 DEF Fixed
  <2>2. InBit(master', slave', frame, bit, second, free) BY <1>7, <2>1 DEF InBit
  <2>3. master'.frames = master.frames /\ master'.bit = master.bit BY <1>7 DEF Kept
  <2>4. FramesAt(master', frame, bit) = FramesAt(master, frame, bit) BY <2>3 DEF FramesAt
  <2>5. AtBit(master', slave', Writing)
    BY <1>1, <2>2, <2>3, <2>4 DEF AtBit, frames, second
  <2> QED BY <1>2, <1>7, <2>3, <2>5, Proceeds DEF Kept
<1>8. CASE BeforeRise(master, slave, kind, bit, second, free)
  <2>1. \/ /\ Kept /\ slave' \in Slaves
           /\ kind = "address" /\ bit = BITS => slave' = slave
           /\ \/ BeforeRise(master', slave', kind, bit, second, free)
              \/ AfterRise(master', slave', kind, bit, second, free)
        \/ slave' = slave /\ FailedWith("ClockStretchTimeout")
    BY <1>2, <1>6, <1>8, BeforeRiseDriven
  <2> QED BY <1>2, <1>7, <2>1, ClockHeld DEF Running
<1>9. CASE AfterRise(master, slave, kind, bit, second, free)
  <2>1. /\ Kept
        /\ \/ slave' = slave /\ AfterRise(master', slave', kind, bit, second, free)
           \/ /\ "scl" \in master'.holds /\ master'.todo = Behind(kind, bit)
              /\ master'.sampled = master.sampled
              /\ slave' \in OnClockFall(slave)
              /\ kind # "read" /\ bit = BITS => (master.sampled <=> slave = IdleSlave)
    BY <1>2, <1>6, <1>9, AfterRiseDriven
  <2>2. CASE slave' = slave /\ AfterRise(master', slave', kind, bit, second, free)
    BY <1>2, <1>7, <2>1, <2>2
  <2>3. CASE /\ "scl" \in master'.holds /\ master'.todo = Behind(kind, bit)
             /\ master'.sampled = master.sampled
             /\ slave' \in OnClockFall(slave)
             /\ kind # "read" /\ bit = BITS => (master.sampled <=> slave = IdleSlave)
    <3>1. Risen(slave, kind, bit, second, free) BY <1>9 DEF AfterRise
    <3>2. /\ master' \in Masters /\ master'.call = master.call /\ master'.result = master.result
          /\ master'.frames = master.frames /\ master'.bit = master.bit
          /\ NextFrame(master') = Head(master.frames)
      BY <2>1 DEF Kept, NextFrame
    <3>3. CASE bit < BITS
      <4>1. bit \in 0 .. BITS - 1 /\ bit # BITS BY <3>3, BusConstants
      <4>2. /\ slave' \in Slaves /\ Low(slave', kind, bit + 1, second)
            /\ kind = "address" /\ bit = BITS - 1 /\ slave' # IdleSlave => (slave'.read <=> free)
        BY <1>2, <1>6, <2>3, <3>1, <4>1, FallInByte
      <4>3. Head(master.frames) = frame /\ master.bit = bit + 1
            /\ second = (Writing /\ Len(master.frames) = 2)
        BY <1>1, <1>5, <4>1 DEF frames, second
      <4>4. kind = "address" /\ bit = BITS - 1 => (free <=> frame.high) BY <1>6 DEF Fixed
      <4>5. kind = "address" /\ bit + 1 = BITS /\ slave' # IdleSlave => (slave'.read <=> frame.high)
        BY <4>1, <4>2, <4>4, BusConstants
      <4>6. Between(master', slave', Writing, Taken')
        BY <1>6, <2>3, <3>2, <4>2, <4>3, <4>5 DEF Between
      <4>7. master'.todo = <<>> BY <2>3, <3>3 DEF Behind
      <4> QED BY <1>2, <3>2, <4>2, <4>6, <4>7, Proceeds
    <3>4. CASE bit = BITS
      <4> DEFINE next == Head(master.frames)
      <4>1. /\ slave' \in Slaves
            /\ slave' = IdleSlave <=> slave = IdleSlave
            /\ kind = "read" /\ free => slave' = IdleSlave
            /\ kind = "read" /\ ~free => \A w \in BOOLEAN : Low(slave', "read", 0, w)
            /\ kind = "address" /\ slave' # IdleSlave =>
                 Low(slave', IF slave.read THEN "read" ELSE "write", 0, FALSE)
            /\ kind = "write" /\ slave' # IdleSlave =>
                 /\ slave'.mode = "write" /\ slave'.clock = 0 /\ "sda" \notin slave'.holds
                 /\ slave'.bytes = IF second THEN 2 ELSE 1
                 /\ slave.bytes = slave'.bytes
        <5>1. Risen(slave, kind, BITS, second, free) BY <3>1, <3>4
        <5>2. /\ slave \in Slaves /\ kind \in ByteKinds /\ second \in BOOLEAN
              /\ slave' \in OnClockFall(slave)
          BY <1>2, <1>6, <2>3
        <5>3. FallsBehind(slave, kind, second, free, slave') BY <5>1, <5>2, FallBehindByte
        <5> QED BY <5>3 DEF FallsBehind
      <4>2. /\ master.bit = 0 /\ Tail(frames) = master.frames /\ Head(frames) = frame
            /\ kind # "stop" /\ Len(master.frames) = Len(frames) - 1 /\ Len(frames) \in Nat
            /\ next \in Frame /\ Follows(frame, next)
            /\ ~Writing /\ kind = "write" => next.kind = "restart"
            /\ Writing => Len(frames) \in 1 .. 5 /\ kind = WriteKinds[Len(frames)]
        <5>1. FramesLeft(frames, Writing) /\ Head(frames) = frame BY <1>1 DEF frames
        <5>2. master.bit = 0 /\ Tail(frames) = master.frames BY <1>1, <1>4, <3>4
        <5>3. kind # "stop" BY <1>6 DEF ByteKinds
        <5>4. /\ next \in Frame /\ Follows(frame, next)
              /\ ~Writing /\ kind = "write" => next.kind = "restart"
              /\ Len(master.frames) = Len(frames) - 1
              /\ Writing => Len(frames) \in 1 .. 5 /\ kind = WriteKinds[Len(frames)]
          <6>1. Writing \in BOOLEAN /\ frames \in Seq(Frame) /\ frames # <<>> BY <1>2, <1>3
          <6> DEFINE behind == Tail(frames)
          <6>2. /\ Len(behind) = Len(frames) - 1
                /\ Head(frames).kind # "stop" =>
                     /\ Head(behind) \in Frame /\ Follows(Head(frames), Head(behind))
                     /\ ~Writing /\ Head(frames).kind = "write" => Head(behind).kind = "restart"
                /\ Writing => Len(frames) \in 1 .. 5 /\ Head(frames).kind = WriteKinds[Len(frames)]
            BY <5>1, <6>1, FramesBehind
          <6>3. behind = master.frames BY <5>2
          <6> HIDE DEF behind
          <6> QED BY <5>1, <5>3, <6>2, <6>3
        <5>5. Len(frames) \in Nat BY <1>3
        <5> QED BY <5>1, <5>2, <5>3, <5>4, <5>5
      <4>3. Writing => /\ kind # "read"
                       /\ kind = "address" => Len(frames) = 4
                       /\ kind = "write" => Len(frames) \in {2, 3}
        <5> SUFFICES ASSUME Writing
                     PROVE  /\ kind # "read"
                            /\ kind = "address" => Len(frames) = 4
                            /\ kind = "write" => Len(frames) \in {2, 3}
          OBVIOUS
        <5>1. Len(frames) \in {1, 2, 3, 4, 5} BY <4>2
        <5>2. /\ WriteKinds[1] = "stop" /\ WriteKinds[2] = "write" /\ WriteKinds[3] = "write"
              /\ WriteKinds[4] = "address" /\ WriteKinds[5] = "start"
          BY DEF WriteKinds
        <5> QED BY <4>2, <5>1, <5>2
      <4>4. Writing => /\ Len(master.frames) \in 1 .. 5
                       /\ next.kind = WriteKinds[Len(master.frames)]
        BY <1>2, FramesBehind
      <4>5. Behind(kind, bit) = Then(IF kind = "read" THEN "release_sda" ELSE "check_ack", <<>>)
        BY <3>4, BusConstants DEF Behind
      <4>6. 0 # BITS /\ master'.bit = 0 BY <3>2, <4>2, BusConstants
      <4>7. CASE kind = "read"
        <5>1. ~Writing BY <4>3, <4>7
        <5>2. free <=> frame.high BY <1>6, <3>4, <4>7 DEF Fixed
        <5>3. next.kind = IF free THEN "stop" ELSE "read" BY <4>2, <4>7, <5>2 DEF Follows
        <5>4. Between(master', slave', Writing, Taken')
          BY <2>3, <3>2, <4>1, <4>6, <4>7, <5>1, <5>3 DEF Between, ByteKinds, Parked
        <5>5. AfterByte(master', slave', Writing, Taken')
          BY <2>3, <4>5, <4>6, <4>7, <5>4 DEF AfterByte
        <5> QED BY <1>2, <3>2, <4>1, <5>5, Proceeds
      <4>8. CASE kind = "address"
        <5>1. slave' # IdleSlave => (slave.read <=> frame.high)
          BY <1>6, <3>4, <4>1, <4>8 DEF Fixed
        <5>2. next.kind = IF frame.high THEN "read" ELSE "write" BY <4>2, <4>8 DEF Follows
        <5>3. ~(Writing /\ Len(master.frames) = 2)
          <6>1. CASE Writing
            <7>1. Len(frames) = 4 BY <4>3, <4>8, <6>1
            <7> QED BY <4>2, <7>1
          <6>2. CASE ~Writing BY <6>2
          <6> QED BY <6>1, <6>2
        <5>4. slave' # IdleSlave => Low(slave', next.kind, 0, FALSE) BY <4>1, <4>8, <5>1, <5>2
        <5>5. slave' # IdleSlave => Between(master', slave', Writing, Taken')
          BY <2>3, <3>2, <4>6, <5>2, <5>3, <5>4 DEF Between, ByteKinds
        <5>6. master'.sampled <=> slave' = IdleSlave BY <2>3, <3>4, <4>1, <4>8
        <5>7. AfterByte(master', slave', Writing, Taken')
          BY <2>3, <4>5, <4>6, <4>8, <5>5, <5>6 DEF AfterByte
        <5> QED BY <1>2, <3>2, <4>1, <5>7, Proceeds
      <4>9. CASE kind = "write"
        <5>1. slave' # IdleSlave => Between(master', slave', Writing, Taken')
          <6> SUFFICES ASSUME slave' # IdleSlave PROVE Between(master', slave', Writing, Taken')
            OBVIOUS
          <6>1. Parked(slave') BY <4>1, <4>9 DEF Parked
          <6>2. CASE ~Writing
            BY <2>3, <3>2, <4>2, <4>6, <4>9, <6>1, <6>2 DEF Between
          <6>3. CASE Writing /\ Len(frames) = 3
            <7>1. next.kind = "write" /\ Len(master.frames) = 2 BY <4>2, <4>4, <6>3 DEF WriteKinds
            <7>2. ~second BY <6>3 DEF second
            <7>3. Low(slave', "write", 0, TRUE)
              BY <4>1, <4>6, <4>9, <7>2 DEF Low, At, BytesAt
            <7> QED BY <2>3, <3>2, <4>6, <6>3, <7>1, <7>3 DEF Between, ByteKinds
          <6>4. CASE Writing /\ Len(frames) = 2
            <7>1. next.kind = "stop" BY <4>2, <4>4, <6>4 DEF WriteKinds
            <7>2. second BY <6>4 DEF second
            <7>3. slave.bytes = 2 BY <4>1, <4>9, <7>2
            <7>4. Taken' BY <6>4, <7>3 DEF Running, Calling, Stays, Taken
            <7> QED BY <2>3, <3>2, <4>6, <6>1, <7>1, <7>4 DEF Between
          <6> QED BY <4>3, <4>9, <6>2, <6>3, <6>4
        <5>2. master'.sampled <=> slave' = IdleSlave BY <2>3, <3>4, <4>1, <4>9
        <5>3. AfterByte(master', slave', Writing, Taken')
          BY <2>3, <4>5, <4>6, <4>9, <5>1, <5>2 DEF AfterByte
        <5> QED BY <1>2, <3>2, <4>1, <5>3, Proceeds
      <4> QED BY <1>6, <4>7, <4>8, <4>9 DEF ByteKinds
    <3> QED BY <3>3, <3>4, BusConstants
  <2> QED BY <2>1, <2>2, <2>3
<1> QED BY <1>1, <1>8, <1>9 DEF InBit, frames, second

\* Behind the last bit of a byte.
LEMMA AfterByteDriven ==
  ASSUME Running, AfterByte(master, slave, Writing, Taken), ~found_busy, Drive
  PROVE  Continues
<1>1. /\ master \in Masters /\ slave \in Slaves /\ master.call = "transaction"
      /\ master.result = "Ok" /\ master.frames # <<>> /\ FramesLeft(master.frames, Writing)
      /\ Taken => Taken'
  BY DEF Running, Calling, Stays, Taken
\* The driver is between two frames again.
<1>2. ASSUME Kept, slave' = slave, master'.todo = <<>>, "scl" \in master'.holds,
             Between(master, slave, Writing, Taken)
      PROVE  Continues
  <2>1. Between(master', slave', Writing, Taken') BY <1>1, <1>2 DEF Between, NextFrame, Kept
  <2> QED BY <1>1, <1>2, <2>1, Proceeds DEF Kept
<1>3. CASE master.todo = Then("release_sda", <<>>) /\ Between(master, slave, Writing, Taken)
  <2>1. /\ Kept /\ master'.todo = <<>> /\ master'.holds = master.holds \ {"sda"}
        /\ ReactsTo(slave, master, master', slave')
    BY <1>1, <1>3, PinSuffixes, PinDriven DEF HoldsAfter
  <2>2. "scl" \in master.holds /\ "scl" \in master'.holds BY <1>3, <2>1 DEF Between
  <2>3. slave' = slave BY <2>1, <2>2 DEF ReactsTo
  <2> QED BY <1>2, <1>3, <2>1, <2>2, <2>3
<1>4. CASE /\ master.todo = Then("check_ack", <<>>) /\ "scl" \in master.holds
           /\ master.sampled <=> slave = IdleSlave
           /\ slave # IdleSlave => Between(master, slave, Writing, Taken)
  <2>1. /\ slave' = slave
        /\ IF master.sampled THEN FailedWith("NoAcknowledge")
           ELSE Kept /\ master'.todo = <<>> /\ master'.holds = master.holds
    BY <1>1, <1>4, PinSuffixes, DataSampled
  <2>2. CASE master.sampled
    <3>1. AtStop(master', slave')
      BY <1>1, <1>4, <2>1, <2>2 DEF AtStop, FailedWith, Parked
    <3> QED BY <1>1, <2>1, <2>2, <3>1
          DEF Continues, FailedWith, Transaction, Running, Calling, Stays
  <2>3. CASE ~master.sampled BY <1>2, <1>4, <2>1, <2>3
  <2> QED BY <2>2, <2>3
<1> QED BY <1>3, <1>4 DEF AfterByte

\* Without frames left: in the STOP, after whatever result.
Stopping ==
  /\ Calling /\ master.frames = <<>>
  /\ Writing /\ master.result = "Ok" => Taken
  /\ master.result = "BusBusy" => timed_out
  /\ master.result # "BusBusy" => ~found_busy

\* A call that is over leaves the driver nothing to do.
LEMMA NothingToDrive ==
  ASSUME master.todo = <<>>, master.frames = <<>>
  PROVE  ~Drive
BY DEF Drive, TakeBit, DrivePin, WaitClock, SampleData

\* The driver letting go of lines, or driving SDA, brings the slave no falling edge.
LEMMA NoFall ==
  ASSUME NEW m, NEW n, NEW s \in Slaves, NEW t, ReactsTo(s, m, n, t),
         "scl" \in n.holds => "scl" \in m.holds
  PROVE  /\ t \in Slaves /\ t.bytes \in {0, s.bytes}
         /\ "scl" \notin s.holds => "scl" \notin t.holds
         /\ t.bytes # 0 => t.clock = s.clock
<1>1. CASE t = s BY <1>1
<1>2. CASE t = IdleSlave \/ t = StartedSlave BY <1>2, SlaveKinds
<1>3. CASE t = OnClockRise(s, "sda" \notin n.holds /\ "sda" \notin s.holds)
  <2> DEFINE sda == "sda" \notin n.holds /\ "sda" \notin s.holds
  <2>1. sda \in BOOLEAN OBVIOUS
  <2> HIDE DEF sda
  <2> DEFINE r == OnClockRise(s, sda)
  <2>2. /\ r \in Slaves /\ r.bytes \in {0, s.bytes}
        /\ \A line \in Lines : line \notin s.holds => line \notin r.holds
        /\ r = IdleSlave \/ r.clock = s.clock
    BY <2>1, RiseKeeps
  <2> HIDE DEF r
  <2>3. t = r BY <1>3 DEF r, sda
  <2> QED BY <2>2, <2>3, SlaveKinds DEF Lines
<1> QED BY <1>1, <1>2, <1>3 DEF ReactsTo

LEMMA StopDriven ==
  ASSUME Stopping, AtStop(master, slave), Drive
  PROVE  Continues
<1>1. /\ master \in Masters /\ slave \in Slaves /\ master.call = "transaction"
      /\ master.frames = <<>> /\ master.holds \subseteq Lines /\ slave.holds \subseteq Lines
  BY DEF Stopping, Calling, Masters, Slaves
<1>2. ASSUME master' \in Masters, slave' \in Slaves, master'.call = master.call,
             master'.frames = <<>>, master'.result = master.result, AtStop(master', slave')
      PROVE  Continues
  <2>1. Writing' = Writing /\ (Taken => Taken') BY DEF Writing, Taken, Stopping, Calling, Stays
  <2> QED BY <1>1, <1>2, <2>1 DEF Continues, Transaction, Stopping, Calling, Stays
<1>3. master.todo # <<>> BY <1>1, NothingToDrive
<1>4. CASE master.result \in {"Ok", "NoAcknowledge"}
  <2>1. master.result = "NoAcknowledge" => slave = IdleSlave BY <1>4 DEF AtStop
  <2>2. CASE master.todo = Stop4 /\ "scl" \in master.holds /\ Parked(slave)
    <3>1. /\ Kept /\ master'.todo = Stop3 /\ master'.holds = master.holds \cup {"sda"}
          /\ ReactsTo(slave, master, master', slave')
      BY <1>1, <2>2, PinSuffixes, PinDriven DEF Stop4, HoldsAfter
    <3>2. slave' = slave BY <2>2, <3>1 DEF ReactsTo
    <3>3. master'.holds = Lines BY <1>1, <2>2, <3>1 DEF Lines
    <3>4. AtStop(master', slave') BY <1>4, <2>1, <2>2, <3>1, <3>2, <3>3 DEF AtStop, Kept
    <3> QED BY <1>1, <1>2, <3>1, <3>2, <3>4 DEF Kept
  <2>3. CASE master.todo = Stop3 /\ master.holds = Lines /\ Parked(slave)
    <3>1. /\ Kept /\ master'.todo = Stop2 /\ master'.holds = master.holds \ {"scl"}
          /\ ReactsTo(slave, master, master', slave')
      BY <1>1, <2>3, PinSuffixes, PinDriven DEF Stop3, HoldsAfter
    <3>2. master'.holds = {"sda"} BY <2>3, <3>1 DEF Lines
    <3>3. \A sda \in BOOLEAN : OnClockRise(slave, sda) = slave
      BY <2>3, SlaveKinds DEF Parked, OnClockRise
    <3>4. slave' = slave
      <4>1. CASE "scl" \in slave.holds BY <2>3, <3>1, <4>1 DEF ReactsTo, Lines
      <4>2. CASE "scl" \notin slave.holds
        <5> DEFINE sda == "sda" \notin master'.holds /\ "sda" \notin slave.holds
        <5>1. slave' = OnClockRise(slave, sda) BY <2>3, <3>1, <3>2, <4>2 DEF ReactsTo, Lines
        <5>2. sda \in BOOLEAN OBVIOUS
        <5> HIDE DEF sda
        <5> QED BY <3>3, <5>1, <5>2
      <4> QED BY <4>1, <4>2
    <3>5. AtStop(master', slave') BY <1>4, <2>1, <2>3, <3>1, <3>2, <3>4 DEF AtStop, Kept
    <3> QED BY <1>1, <1>2, <3>1, <3>4, <3>5 DEF Kept
  <2>4. CASE master.todo = Stop2 /\ master.holds = {"sda"} /\ Parked(slave)
    <3>1. slave' = slave BY <1>1, <2>4, PinSuffixes, ClockPolled DEF Stop2
    <3>2. CASE Kept /\ master'.todo = Stop1 /\ master'.holds = {"sda"} /\ "scl" \notin slave.holds
      <4>1. slave.holds = {} BY <1>1, <2>4, <3>2, SlaveKinds DEF Parked, Lines
      <4>2. AtStop(master', slave') BY <1>4, <2>1, <3>1, <3>2, <4>1 DEF AtStop, Kept
      <4> QED BY <1>1, <1>2, <3>1, <3>2, <4>2 DEF Kept
    <3>3. CASE Kept /\ master'.todo = Stop2 /\ master'.holds = {"sda"}
      <4>1. AtStop(master', slave') BY <1>4, <2>1, <2>4, <3>1, <3>3 DEF AtStop, Kept
      <4> QED BY <1>1, <1>2, <3>1, <3>3, <4>1 DEF Kept
    <3>4. CASE FailedWith("ClockStretchTimeout") /\ "scl" \in slave.holds
      <4>1. master.result = "Ok" BY <1>4, <2>1, <3>4, SlaveKinds
      <4> QED BY <1>1, <3>1, <3>4, <4>1, ClockHeld DEF Stopping
    <3> QED BY <1>1, <2>4, <3>2, <3>3, <3>4, PinSuffixes, ClockPolled DEF Stop2
  <2>5. CASE master.todo = Stop1 /\ master.holds = {"sda"} /\ slave.holds = {}
    <3>1. /\ Kept /\ master'.todo = <<>> /\ master'.holds = {}
          /\ ReactsTo(slave, master, master', slave')
      BY <1>1, <2>5, PinSuffixes, PinDriven DEF Stop1, HoldsAfter
    <3>2. slave' = IdleSlave BY <2>5, <3>1 DEF ReactsTo
    <3>3. AtStop(master', slave') BY <1>4, <3>1, <3>2 DEF AtStop, Kept
    <3> QED BY <1>1, <1>2, <3>1, <3>2, <3>3, SlaveKinds DEF Kept
  <2> QED BY <1>3, <1>4, <2>2, <2>3, <2>4, <2>5 DEF AtStop
<1>5. CASE master.result = "BusBusy"
  <2>1. slave.holds = {"sda"} BY <1>5 DEF AtStop
  <2>2. ASSUME Kept, slave' = slave,
               \/ master'.todo \in {Stop4, <<>>} /\ master'.holds = {}
               \/ master'.todo \in {Stop3, Stop2, Stop1} /\ master'.holds = {"sda"}
        PROVE  Continues
    <3>1. AtStop(master', slave') BY <1>5, <2>1, <2>2 DEF AtStop, Kept
    <3> QED BY <1>1, <1>2, <2>2, <3>1 DEF Kept
  <2>3. CASE master.todo = Stop4 /\ master.holds = {}
    <3>1. /\ Kept /\ master'.todo = Stop3 /\ master'.holds = {"sda"}
          /\ ReactsTo(slave, master, master', slave')
      BY <1>1, <2>3, PinSuffixes, PinDriven DEF Stop4, HoldsAfter
    <3>2. slave' = slave BY <2>1, <2>3, <3>1 DEF ReactsTo
    <3> QED BY <2>2, <3>1, <3>2
  <2>4. CASE master.todo = Stop3 /\ master.holds = {"sda"}
    <3>1. /\ Kept /\ master'.todo = Stop2 /\ master'.holds = {"sda"}
          /\ ReactsTo(slave, master, master', slave')
      BY <1>1, <2>4, PinSuffixes, PinDriven DEF Stop3, HoldsAfter
    <3>2. slave' = slave BY <2>1, <2>4, <3>1 DEF ReactsTo
    <3> QED BY <2>2, <3>1, <3>2
  <2>5. CASE master.todo = Stop2 /\ master.holds = {"sda"}
    <3>1. /\ slave' = slave /\ Kept /\ master'.todo = Stop1 /\ master'.holds = {"sda"}
      BY <1>1, <2>1, <2>5, PinSuffixes, ClockPolled DEF Stop2
    <3> QED BY <2>2, <3>1
  <2>6. CASE master.todo = Stop1 /\ master.holds = {"sda"}
    <3>1. /\ Kept /\ master'.todo = <<>> /\ master'.holds = {}
          /\ ReactsTo(slave, master, master', slave')
      BY <1>1, <2>6, PinSuffixes, PinDriven DEF Stop1, HoldsAfter
    <3>2. slave' = slave BY <2>1, <2>6, <3>1 DEF ReactsTo
    <3> QED BY <2>2, <3>1, <3>2
  <2> QED BY <1>3, <1>5, <2>3, <2>4, <2>5, <2>6 DEF AtStop
<1>6. CASE master.result = "ClockStretchTimeout"
  <2>1. ASSUME master' \in Masters, slave' \in Slaves, master'.call = master.call,
               master'.frames = <<>>, master'.result = master.result,
               master'.todo \in {Stop4, Stop3, Stop2, Stop1, <<>>}
        PROVE  Continues
    <3>1. AtStop(master', slave') BY <1>6, <2>1 DEF AtStop
    <3> QED BY <1>2, <2>1, <3>1
  <2>2. ASSUME NEW pin \in {"drive_sda", "release_scl", "release_sda"},
               NEW rest \in {Stop3, Stop2, Stop1, <<>>}, master.todo = Then(pin, rest)
        PROVE  Continues
    <3>1. pin \in PinDrivers /\ rest \in Seq(Pins) BY PinSuffixes DEF PinDrivers
    <3>2. /\ Kept /\ master'.todo = rest /\ master'.holds = HoldsAfter(pin, master.holds)
          /\ ReactsTo(slave, master, master', slave')
      BY <1>1, <2>2, <3>1, PinDriven
    <3>3. "scl" \in master'.holds => "scl" \in master.holds BY <3>2 DEF HoldsAfter
    <3>4. slave' \in Slaves BY <1>1, <3>2, <3>3, NoFall
    <3> QED BY <1>1, <2>1, <3>2, <3>4 DEF Kept
  <2>3. CASE master.todo = Stop4 BY <2>2, <2>3 DEF Stop4
  <2>4. CASE master.todo = Stop3 BY <2>2, <2>4 DEF Stop3
  <2>5. CASE master.todo = Stop2
    <3>1. /\ slave' = slave
          /\ \/ Kept /\ master'.todo \in {Stop2, Stop1}
             \/ FailedWith("ClockStretchTimeout")
      BY <1>1, <2>5, PinSuffixes, ClockPolled DEF Stop2
    <3> QED BY <1>1, <1>6, <2>1, <3>1 DEF Kept, FailedWith
  <2>6. CASE master.todo = Stop1 BY <2>2, <2>6 DEF Stop1
  <2> QED BY <1>3, <1>6, <2>3, <2>4, <2>5, <2>6 DEF AtStop
<1> QED BY <1>4, <1>5, <1>6 DEF AtStop

-----------------------------------------------------------------------------
(* The slave lets go of the clock                                           *)

LEMMA Released ==
  ASSUME master \in Masters, slave \in Slaves, ReleaseClock
  PROVE  /\ master' = master /\ "scl" \in slave.holds /\ slave # IdleSlave
         /\ slave' \in Slaves /\ slave'.bytes \in {0, slave.bytes}
         /\ "scl" \in master.holds => slave' = Freed(slave)
         /\ "scl" \notin master.holds =>
              slave' = OnClockRise(Freed(slave),
                                   "sda" \notin master.holds /\ "sda" \notin Freed(slave).holds)
<1>1. "scl" \in slave.holds /\ master' = master BY DEF ReleaseClock
<1>2. /\ Freed(slave) \in Slaves /\ "scl" \notin Freed(slave).holds
      /\ Freed(slave).bytes = slave.bytes
  BY FreedSlave
<1> DEFINE sda == "sda" \notin master.holds /\ "sda" \notin Freed(slave).holds
<1>3. /\ High("scl", master, Freed(slave)) <=> "scl" \notin master.holds
      /\ High("sda", master, Freed(slave)) = sda
  BY <1>2 DEF High
<1>4. slave' = IF High("scl", master, Freed(slave))
               THEN OnClockRise(Freed(slave), High("sda", master, Freed(slave))) ELSE Freed(slave)
  BY DEF ReleaseClock, Freed
<1>5. sda \in BOOLEAN OBVIOUS
<1> HIDE DEF sda
<1>6. slave' \in Slaves /\ slave'.bytes \in {0, slave.bytes}
  <2>1. OnClockRise(Freed(slave), sda) \in Slaves
        /\ OnClockRise(Freed(slave), sda).bytes \in {0, slave.bytes}
    BY <1>2, <1>5, RiseKeeps
  <2> QED BY <1>2, <1>3, <1>4, <2>1
<1>7. slave # IdleSlave BY <1>1, SlaveKinds
<1> QED BY <1>1, <1>3, <1>4, <1>6, <1>7 DEF sda

\* The slave of a byte, or behind the last one, stays where it is.
LEMMA FreedInByte ==
  ASSUME NEW s \in Slaves, "scl" \in s.holds, NEW kind \in ByteKinds, NEW bit \in 0 .. BITS,
         NEW second \in BOOLEAN, Low(s, kind, bit, second)
  PROVE  Low(Freed(s), kind, bit, second) /\ Freed(s) # IdleSlave /\ s # IdleSlave
<1>1. At(s, kind, bit, second) BY SlaveKinds DEF Low
<1>2. At(Freed(s), kind, bit, second) BY <1>1, FreedSlave DEF At
<1>3. kind # "idle" BY DEF ByteKinds
<1> QED BY <1>1, <1>2, <1>3, SlaveKinds DEF Low, At

LEMMA FreedParked ==
  ASSUME NEW s \in Slaves, "scl" \in s.holds, Parked(s)
  PROVE  Parked(Freed(s)) /\ \A sda \in BOOLEAN : OnClockRise(Freed(s), sda) = Freed(s)
<1>1. s.mode = "write" /\ s.clock = 0 /\ "sda" \notin s.holds BY SlaveKinds DEF Parked
<1> QED BY <1>1, FreedSlave DEF Parked, OnClockRise

LEMMA ClockReleased ==
  ASSUME Running, ReleaseClock,
         \/ AtStart(master, slave) /\ Quiet
         \/ /\ ~found_busy
            /\ \/ AtBegin(master, slave)
               \/ AtRestart(master, slave)
               \/ AtBit(master, slave, Writing)
               \/ AfterByte(master, slave, Writing, Taken)
               \/ master.todo = <<>> /\ Between(master, slave, Writing, Taken)
  PROVE  Continues
<1>1. /\ master \in Masters /\ slave \in Slaves /\ master.call = "transaction"
      /\ master.result = "Ok" /\ master.frames # <<>> /\ FramesLeft(master.frames, Writing)
      /\ (Taken => Taken')
  BY DEF Running, Calling, Stays, Taken
<1>2. /\ master' = master /\ "scl" \in slave.holds /\ slave # IdleSlave /\ slave' \in Slaves
      /\ "scl" \in master.holds => slave' = Freed(slave)
      /\ "scl" \notin master.holds =>
           slave' = OnClockRise(Freed(slave),
                                "sda" \notin master.holds /\ "sda" \notin Freed(slave).holds)
  BY <1>1, Released
<1>3. slave.mode # "idle" => Freed(slave) # IdleSlave BY <1>1, FreedSlave, SlaveKinds
<1>4. CASE AtStart(master, slave) /\ Quiet
  <2>1. timed_out /\ ~found_busy BY <1>2, <1>4 DEF Quiet
  <2>2. Quiet' BY <2>1 DEF Quiet, Running, Calling, Stays
  <2>3. AtStart(master', slave') BY <1>2, <1>4 DEF AtStart
  <2>4. Writing' = Writing BY DEF Writing, Running, Calling, Stays
  <2> QED BY <1>1, <1>2, <2>2, <2>3, <2>4 DEF Continues, Transaction
<1>5. CASE AtBegin(master, slave) BY <1>2, <1>5, SlaveKinds DEF AtBegin
<1>6. CASE AtRestart(master, slave) /\ ~found_busy
  <2>1. slave' = Freed(slave) /\ Parked(slave')
    <3>1. Parked(slave) BY <1>6 DEF AtRestart
    <3>2. /\ Parked(Freed(slave))
          /\ \A sda \in BOOLEAN : OnClockRise(Freed(slave), sda) = Freed(slave)
      BY <1>1, <1>2, <3>1, FreedParked
    <3> DEFINE sda == "sda" \notin master.holds /\ "sda" \notin Freed(slave).holds
    <3>3. sda \in BOOLEAN OBVIOUS
    <3>4. "scl" \notin master.holds => slave' = OnClockRise(Freed(slave), sda) BY <1>2
    <3> HIDE DEF sda
    <3> QED BY <1>2, <3>2, <3>3, <3>4
  <2>2. AtRestart(master', slave') BY <1>2, <1>6, <2>1 DEF AtRestart
  <2> QED BY <1>1, <1>2, <1>6, <2>2, Proceeds
\* Between two frames, also with one primitive of the last one left.
<1>7. ASSUME Between(master, slave, Writing, Taken)
      PROVE  Between(master', slave', Writing, Taken') /\ slave' # IdleSlave
  <2>1. "scl" \in master.holds /\ slave' = Freed(slave) BY <1>2, <1>7 DEF Between
  <2>2. CASE /\ NextFrame(master).kind \in ByteKinds
             /\ Low(slave, NextFrame(master).kind, master.bit, Writing /\ Len(master.frames) = 2)
             /\ NextFrame(master).kind = "address" /\ master.bit = BITS /\ slave # IdleSlave =>
                  (slave.read <=> NextFrame(master).high)
    <3> DEFINE second == Writing /\ Len(master.frames) = 2
    <3>1. master.bit \in 0 .. BITS /\ second \in BOOLEAN BY <1>1 DEF Masters
    <3>2. Low(slave, NextFrame(master).kind, master.bit, second) BY <2>2
    <3> HIDE DEF second
    <3>3. Low(Freed(slave), NextFrame(master).kind, master.bit, second)
          /\ Freed(slave) # IdleSlave
      BY <1>1, <1>2, <2>2, <3>1, <3>2, FreedInByte
    <3>4. Freed(slave).read = slave.read BY <1>1, FreedSlave
    <3> QED BY <1>2, <2>1, <2>2, <3>3, <3>4 DEF Between, second
  <2>3. CASE /\ NextFrame(master).kind \in {"restart", "stop"}
             /\ master.bit = 0 /\ Parked(slave)
             /\ NextFrame(master).kind = "stop" /\ Writing => Taken
    <3>1. Parked(Freed(slave)) BY <1>1, <1>2, <2>3, FreedParked
    <3>2. slave.mode # "idle" BY <1>2, <2>3 DEF Parked
    <3> QED BY <1>1, <1>2, <1>3, <2>1, <2>3, <3>1, <3>2 DEF Between
  <2> QED BY <1>7, <2>2, <2>3 DEF Between
<1>8. CASE master.todo = <<>> /\ Between(master, slave, Writing, Taken) /\ ~found_busy
  BY <1>1, <1>2, <1>7, <1>8, Proceeds
<1>9. CASE AfterByte(master, slave, Writing, Taken) /\ ~found_busy
  <2>1. AfterByte(master', slave', Writing, Taken')
    <3>1. Between(master, slave, Writing, Taken) BY <1>2, <1>9 DEF AfterByte
    <3> QED BY <1>2, <1>7, <1>9, <3>1 DEF AfterByte
  <2> QED BY <1>1, <1>2, <1>9, <2>1, Proceeds
<1>10. CASE AtBit(master, slave, Writing) /\ ~found_busy
  <2>1. PICK frame \in Frame, bit \in 0 .. BITS, free \in BOOLEAN :
          LET frames == FramesAt(master, frame, bit)
          IN  /\ FramesLeft(frames, Writing)
              /\ Head(frames) = frame /\ frame.kind \in ByteKinds
              /\ master.bit = IF bit = BITS THEN 0 ELSE bit + 1
              /\ InBit(master, slave, frame, bit, Writing /\ Len(frames) = 2, free)
    BY <1>10 DEF AtBit
  <2> DEFINE frames == FramesAt(master, frame, bit)
             second == Writing /\ Len(frames) = 2
             kind   == frame.kind
  <2>2. /\ Fixed(slave, frame, bit, free) /\ kind \in ByteKinds /\ second \in BOOLEAN
        /\ (Reading(kind, bit) => free)
        /\ \/ BeforeRise(master, slave, kind, bit, second, free)
           \/ AfterRise(master, slave, kind, bit, second, free)
    BY <2>1 DEF InBit, Fixed
  <2> HIDE DEF second
  <2>3. BeforeRise(master, slave, kind, bit, second, free)
    BY <1>2, <2>2 DEF AfterRise, Risen
  <2>4. /\ Low(slave, kind, bit, second)
        /\ Low(Freed(slave), kind, bit, second) /\ Freed(slave) # IdleSlave
        /\ Freed(slave) \in Slaves /\ Freed(slave).read = slave.read
        /\ "scl" \notin Freed(slave).holds
    <3>1. Low(slave, kind, bit, second) BY <2>3 DEF BeforeRise
    <3>2. Low(Freed(slave), kind, bit, second) /\ Freed(slave) # IdleSlave
      BY <1>1, <1>2, <2>2, <3>1, FreedInByte
    <3> QED BY <1>1, <3>1, <3>2, FreedSlave
  <2>5. CASE "scl" \in master.holds
    <3>1. slave' = Freed(slave) BY <1>2, <2>5
    <3>2. BeforeRise(master', slave', kind, bit, second, free)
      BY <1>2, <2>3, <2>4, <2>5, <3>1 DEF BeforeRise
    <3>3. Fixed(slave', frame, bit, free) BY <1>2, <2>2, <2>4, <3>1 DEF Fixed
    <3>4. InBit(master', slave', frame, bit, second, free) BY <3>2, <3>3 DEF InBit
    <3>5. AtBit(master', slave', Writing) BY <1>2, <2>1, <3>4 DEF AtBit, second
    <3> QED BY <1>1, <1>2, <1>10, <3>5, Proceeds
  <2>6. CASE "scl" \notin master.holds
    <3>1. /\ (free <=> "sda" \notin master.holds) /\ master.todo = Wait(kind, bit)
      BY <2>3, <2>6 DEF BeforeRise
    <3> DEFINE sda == "sda" \notin master.holds /\ "sda" \notin Freed(slave).holds
               freed == free /\ "sda" \notin Freed(slave).holds
    <3>2. slave' = OnClockRise(Freed(slave), sda) /\ sda = freed BY <1>2, <2>6, <3>1
    <3>3. /\ Risen(OnClockRise(Freed(slave), freed), kind, bit, second, free)
          /\ kind = "address" /\ bit = BITS => OnClockRise(Freed(slave), freed) = Freed(slave)
      BY <2>2, <2>4, RiseInByte
    <3> HIDE DEF sda, freed
    <3>4. AfterRise(master', slave', kind, bit, second, free)
      BY <1>2, <2>6, <3>1, <3>2, <3>3 DEF AfterRise
    <3>5. Fixed(slave', frame, bit, free) BY <1>2, <2>2, <2>4, <3>2, <3>3 DEF Fixed
    <3>6. InBit(master', slave', frame, bit, second, free) BY <3>4, <3>5 DEF InBit
    <3>7. AtBit(master', slave', Writing) BY <1>2, <2>1, <3>6 DEF AtBit, second
    <3> QED BY <1>1, <1>2, <1>10, <3>7, Proceeds
  <2> QED BY <2>5, <2>6
<1> QED BY <1>4, <1>5, <1>6, <1>8, <1>9, <1>10

LEMMA ClockReleasedAtStop ==
  ASSUME Stopping, AtStop(master, slave), ReleaseClock
  PROVE  Continues
<1>1. master \in Masters /\ slave \in Slaves /\ master.call = "transaction" BY DEF Stopping, Calling
<1>2. /\ master' = master /\ "scl" \in slave.holds /\ slave # IdleSlave /\ slave' \in Slaves
      /\ "scl" \in master.holds => slave' = Freed(slave)
      /\ "scl" \notin master.holds =>
           slave' = OnClockRise(Freed(slave),
                                "sda" \notin master.holds /\ "sda" \notin Freed(slave).holds)
  BY <1>1, Released
<1>3. Parked(slave) => Parked(slave')
  <2> SUFFICES ASSUME Parked(slave) PROVE Parked(slave') OBVIOUS
  <2>1. /\ Parked(Freed(slave))
        /\ \A sda \in BOOLEAN : OnClockRise(Freed(slave), sda) = Freed(slave)
    BY <1>1, <1>2, FreedParked
  <2> DEFINE sda == "sda" \notin master.holds /\ "sda" \notin Freed(slave).holds
  <2>2. sda \in BOOLEAN OBVIOUS
  <2>3. "scl" \notin master.holds => slave' = OnClockRise(Freed(slave), sda) BY <1>2
  <2> HIDE DEF sda
  <2> QED BY <1>2, <2>1, <2>2, <2>3
<1>4. AtStop(master', slave') BY <1>2, <1>3 DEF AtStop
<1>5. Writing' = Writing /\ (Taken => Taken') BY DEF Writing, Taken, Stopping, Calling, Stays
<1> QED BY <1>1, <1>2, <1>4, <1>5 DEF Continues, Transaction, Stopping, Calling, Stays

-----------------------------------------------------------------------------
(* The recovery of the bus                                                  *)

Recovering ==
  /\ master \in Masters /\ slave \in Slaves
  /\ master.call = "recover" /\ master.frames = <<>> /\ AtRecovery(master, slave)

LEMMA RecoverySuffixes ==
  /\ <<>> \in Seq(Pins)
  /\ Recover1 \in Seq(Pins) /\ Recover2 \in Seq(Pins) /\ Recover3 \in Seq(Pins)
  /\ Pulse1 \in Seq(Pins) /\ Pulse2 \in Seq(Pins) /\ Pulse3 \in Seq(Pins)
  /\ Check1 \in Seq(Pins) /\ Check2 \in Seq(Pins) /\ Check3 \in Seq(Pins)
  /\ Check4 \in Seq(Pins)
<1>1. <<>> \in Seq(Pins) OBVIOUS
<1>2. Recover1 \in Seq(Pins) BY <1>1, PinThen DEF Recover1, Pins
<1>3. Recover2 \in Seq(Pins) BY <1>2, PinThen DEF Recover2, Pins
<1>4. Recover3 \in Seq(Pins) BY <1>3, PinThen DEF Recover3, Pins
<1>5. Pulse1 \in Seq(Pins) BY <1>1, PinThen DEF Pulse1, Pins
<1>6. Pulse2 \in Seq(Pins) BY <1>5, PinThen DEF Pulse2, Pins
<1>7. Pulse3 \in Seq(Pins) BY <1>6, PinThen DEF Pulse3, Pins
<1>8. Check1 \in Seq(Pins) BY <1>1, PinThen DEF Check1, Pins
<1>9. Check2 \in Seq(Pins) BY <1>8, PinThen DEF Check2, Pins
<1>10. Check3 \in Seq(Pins) BY <1>9, PinThen DEF Check3, Pins
<1>11. Check4 \in Seq(Pins) BY <1>10, PinThen DEF Check4, Pins
<1> QED BY <1>1, <1>2, <1>3, <1>4, <1>5, <1>6, <1>7, <1>8, <1>9, <1>10, <1>11

\* A pulse more: the second byte would end with the pulse behind the last one.
LEMMA FallInRecovery ==
  ASSUME NEW s \in Slaves, NEW falls \in 0 .. RECOVERY_PULSES - 1, OneByte(s, falls),
         NEW t \in OnClockFall(s)
  PROVE  t \in Slaves /\ OneByte(t, falls + 1)
<1>1. /\ BITS \in Nat /\ BITS >= 2 /\ falls \in Nat /\ falls <= BITS
      /\ s.clock \in -1 .. BITS /\ s.bytes \in 0 .. 2
  BY BusConstants DEF RECOVERY_PULSES, Slaves
<1>2. CASE s.mode = "idle"
  <2>1. t = s BY <1>2, IdleFalls
  <2> QED BY <1>1, <2>1 DEF OneByte, FallsSince
<1>3. CASE s.mode # "idle"
  <2> DEFINE clock == FallsSince(s)
             mode  == IF s.mode = "address" /\ s.clock = BITS
                      THEN IF s.read THEN "read" ELSE "write" ELSE s.mode
  <2>1. clock \in 0 .. BITS BY <1>1 DEF FallsSince
  <2>2. \/ t = IdleSlave
        \/ /\ t.clock = clock
           /\ t.bytes = IF mode = "read" THEN 0
                        ELSE IF clock < BITS THEN s.bytes
                        ELSE IF mode = "write" THEN s.bytes + 1 ELSE 0
           /\ t.bytes <= 2 => t \in Slaves
    BY <1>3, Falling DEF FallsSince
  <2> HIDE DEF mode, clock
  <2>3. s.bytes = 0 \/ (s.bytes = 1 /\ clock < falls) BY DEF OneByte, clock
  <2>4. CASE t = IdleSlave BY <2>4, SlaveKinds DEF OneByte
  <2>5. CASE /\ t.clock = clock
             /\ t.bytes = IF mode = "read" THEN 0
                          ELSE IF clock < BITS THEN s.bytes
                          ELSE IF mode = "write" THEN s.bytes + 1 ELSE 0
             /\ t.bytes <= 2 => t \in Slaves
    <3>1. FallsSince(t) = IF clock = BITS THEN 0 ELSE clock + 1 BY <2>5 DEF FallsSince
    <3>2. t.bytes = 0 \/ (t.bytes = 1 /\ FallsSince(t) < falls + 1)
      BY <1>1, <2>1, <2>3, <2>5, <3>1
    <3> QED BY <2>5, <3>2 DEF OneByte
  <2> QED BY <2>2, <2>4, <2>5
<1> QED BY <1>2, <1>3

LEMMA RecoveryDriven ==
  ASSUME Recovering, Drive
  PROVE  Recovering'
<1>1. /\ master \in Masters /\ slave \in Slaves /\ master.call = "recover"
      /\ master.frames = <<>> /\ slave.holds \subseteq Lines
  BY DEF Recovering, Slaves
<1>2. master.pulses \in Nat /\ RECOVERY_PULSES \in Nat \ {0}
  BY BusConstants DEF Recovering, Masters, RECOVERY_PULSES
<1>3. master.todo # <<>> BY <1>1, NothingToDrive
\* An error ends the call.
<1>4. ASSUME NEW error \in Results \ {"Ok"}, FailedWith(error), slave' = slave, master.result = "Ok"
      PROVE  Recovering'
  BY <1>1, <1>4 DEF Recovering, FailedWith, AtRecovery
<1>5. ASSUME Kept, slave' \in Slaves, AtRecovery(master', slave')
      PROVE  Recovering'
  BY <1>1, <1>5 DEF Recovering, Kept
<1>6. master.result = "Ok" BY <1>3 DEF Recovering, AtRecovery
<1>7. "ClockStretchTimeout" \in Results \ {"Ok"} /\ "BusBusy" \in Results \ {"Ok"} BY DEF Results
\* What the slave makes of a primitive that drives no clock.
<1>8. ASSUME NEW pin \in PinDrivers \ {"drive_scl"}, NEW rest \in Seq(Pins),
             master.todo = Then(pin, rest)
      PROVE  /\ Kept /\ master'.todo = rest /\ master'.pulses = master.pulses
             /\ master'.holds = HoldsAfter(pin, master.holds)
             /\ slave' \in Slaves /\ slave'.bytes \in {0, slave.bytes}
             /\ "scl" \notin slave.holds => "scl" \notin slave'.holds
             /\ \A falls \in Nat : OneByte(slave, falls) => OneByte(slave', falls)
  <2>1. /\ Kept /\ master'.todo = rest /\ master'.pulses = master.pulses
        /\ master'.holds = HoldsAfter(pin, master.holds)
        /\ ReactsTo(slave, master, master', slave')
    BY <1>1, <1>8, PinDriven
  <2>2. "scl" \in master'.holds => "scl" \in master.holds
    BY <1>8, <2>1 DEF HoldsAfter, PinDrivers
  <2>3. /\ slave' \in Slaves /\ slave'.bytes \in {0, slave.bytes}
        /\ "scl" \notin slave.holds => "scl" \notin slave'.holds
        /\ slave'.bytes # 0 => slave'.clock = slave.clock
    BY <1>1, <2>1, <2>2, NoFall
  <2>4. \A falls \in Nat : OneByte(slave, falls) => OneByte(slave', falls)
    BY <2>3 DEF OneByte, FallsSince
  <2> QED BY <2>1, <2>3, <2>4
<1>9. /\ "release_sda" \in PinDrivers \ {"drive_scl"} /\ "release_scl" \in PinDrivers \ {"drive_scl"}
      /\ "drive_sda" \in PinDrivers \ {"drive_scl"} /\ "drive_scl" \in PinDrivers
  BY DEF PinDrivers
<1>10. CASE master.pulses = 0 /\ slave.bytes = 0 /\ master.holds = {}
            /\ \/ master.todo \in {Recover4, Recover3, Recover2}
               \/ master.todo = Recover1 /\ "scl" \notin slave.holds
  <2>1. CASE master.todo = Recover4
    <3>0. master.todo = Then("release_sda", Recover3) BY <2>1 DEF Recover4
    <3>1. /\ Kept /\ master'.todo = Recover3 /\ master'.pulses = 0 /\ master'.holds = {}
          /\ slave' \in Slaves /\ slave'.bytes = 0
      <4>1. "release_sda" \in PinDrivers \ {"drive_scl"} /\ Recover3 \in Seq(Pins)
        BY <1>9, RecoverySuffixes
      <4>2. /\ Kept /\ master'.todo = Recover3 /\ master'.pulses = master.pulses
            /\ master'.holds = HoldsAfter("release_sda", master.holds)
            /\ slave' \in Slaves /\ slave'.bytes \in {0, slave.bytes}
        BY <1>8, <3>0, <4>1
      <4> QED BY <1>10, <4>2 DEF HoldsAfter
    <3>2. AtRecovery(master', slave') BY <1>6, <3>1 DEF AtRecovery, Kept
    <3> QED BY <1>5, <3>1, <3>2
  <2>2. CASE master.todo = Recover3
    <3>1. /\ Kept /\ master'.todo = Recover2 /\ master'.pulses = 0 /\ master'.holds = {}
          /\ slave' \in Slaves /\ slave'.bytes = 0
      <4>1. /\ "release_scl" \in PinDrivers \ {"drive_scl"} /\ Recover2 \in Seq(Pins)
            /\ master.todo = Then("release_scl", Recover2)
        BY <1>9, <2>2, RecoverySuffixes DEF Recover3
      <4>2. /\ Kept /\ master'.todo = Recover2 /\ master'.pulses = master.pulses
            /\ master'.holds = HoldsAfter("release_scl", master.holds)
            /\ slave' \in Slaves /\ slave'.bytes \in {0, slave.bytes}
        BY <1>8, <4>1
      <4> QED BY <1>10, <4>2 DEF HoldsAfter
    <3>2. AtRecovery(master', slave') BY <1>6, <3>1 DEF AtRecovery, Kept
    <3> QED BY <1>5, <3>1, <3>2
  <2>3. CASE master.todo = Recover2
    <3>1. /\ slave' = slave
          /\ \/ /\ Kept /\ master'.holds = {} /\ master'.pulses = 0
                /\ \/ master'.todo = Recover2
                   \/ master'.todo = Recover1 /\ "scl" \notin slave.holds
             \/ FailedWith("ClockStretchTimeout")
      BY <1>1, <1>10, <2>3, RecoverySuffixes, ClockPolled DEF Recover2
    <3>2. CASE FailedWith("ClockStretchTimeout") BY <1>4, <1>6, <1>7, <3>1, <3>2
    <3>3. CASE ~FailedWith("ClockStretchTimeout")
      <4>1. AtRecovery(master', slave')
        BY <1>6, <1>10, <3>1, <3>3 DEF AtRecovery, Kept
      <4> QED BY <1>1, <1>5, <3>1, <3>3, <4>1
    <3> QED BY <3>1, <3>2, <3>3
  <2>4. CASE master.todo = Recover1 /\ "scl" \notin slave.holds
    <3>1. /\ slave' = slave /\ Kept /\ master'.holds = {} /\ master'.pulses = 0
          /\ master'.todo = IF "sda" \notin slave.holds THEN <<>> ELSE Pulse4
      BY <1>1, <1>10, <2>4, RecoverySuffixes, DataSampled DEF Recover1
    <3>2. "sda" \notin slave.holds => slave.holds = {} BY <1>1, <2>4 DEF Lines
    <3>3. AtRecovery(master', slave')
      BY <1>2, <1>6, <1>10, <3>1, <3>2 DEF AtRecovery, Kept, OneByte
    <3> QED BY <1>1, <1>5, <3>1, <3>3
  <2> QED BY <1>10, <2>1, <2>2, <2>3, <2>4
<1>11. CASE /\ master.pulses < RECOVERY_PULSES
            /\ master.todo = Pulse4 /\ master.holds = {} /\ OneByte(slave, master.pulses)
  <2>1. /\ Kept /\ master'.todo = Pulse3 /\ master'.holds = {"scl"}
        /\ master'.pulses = master.pulses
        /\ ReactsTo(slave, master, master', slave')
    <3>1. /\ "drive_scl" \in PinDrivers /\ Pulse3 \in Seq(Pins)
          /\ master.todo = Then("drive_scl", Pulse3)
      BY <1>9, <1>11, RecoverySuffixes DEF Pulse4
    <3>2. /\ Kept /\ master'.todo = Pulse3 /\ master'.pulses = master.pulses
          /\ master'.holds = HoldsAfter("drive_scl", master.holds)
          /\ ReactsTo(slave, master, master', slave')
      BY <1>1, <3>1, PinDriven
    <3> QED BY <1>11, <3>2 DEF HoldsAfter
  <2>2. slave' \in Slaves /\ OneByte(slave', master.pulses + 1)
    <3>1. CASE slave' = slave BY <1>1, <1>2, <1>11, <3>1 DEF OneByte, FallsSince, Slaves
    <3>2. CASE slave' \in OnClockFall(slave)
      <4>1. master.pulses \in 0 .. RECOVERY_PULSES - 1 BY <1>2, <1>11
      <4> QED BY <1>1, <1>11, <3>2, <4>1, FallInRecovery
    <3> QED BY <1>11, <2>1, <3>1, <3>2 DEF ReactsTo
  <2>3. AtRecovery(master', slave') BY <1>6, <1>11, <2>1, <2>2 DEF AtRecovery, Kept
  <2> QED BY <1>5, <2>1, <2>2, <2>3
<1>12. CASE /\ master.pulses < RECOVERY_PULSES
            /\ master.todo = Pulse3 /\ master.holds = {"scl"} /\ OneByte(slave, master.pulses + 1)
  <2>1. /\ Kept /\ master'.todo = Pulse2 /\ master'.holds = {} /\ master'.pulses = master.pulses
        /\ slave' \in Slaves
        /\ \A falls \in Nat : OneByte(slave, falls) => OneByte(slave', falls)
    <3>1. /\ "release_scl" \in PinDrivers \ {"drive_scl"} /\ Pulse2 \in Seq(Pins)
          /\ master.todo = Then("release_scl", Pulse2)
      BY <1>9, <1>12, RecoverySuffixes DEF Pulse3
    <3>2. /\ Kept /\ master'.todo = Pulse2 /\ master'.pulses = master.pulses
          /\ master'.holds = HoldsAfter("release_scl", master.holds)
          /\ slave' \in Slaves
          /\ \A falls \in Nat : OneByte(slave, falls) => OneByte(slave', falls)
      BY <1>8, <3>1
    <3> QED BY <1>12, <3>2 DEF HoldsAfter
  <2>2. OneByte(slave', master.pulses + 1) BY <1>2, <1>12, <2>1
  <2>4. AtRecovery(master', slave') BY <1>6, <1>12, <2>1, <2>2 DEF AtRecovery, Kept
  <2> QED BY <1>5, <2>1, <2>4
<1>13. CASE /\ master.pulses < RECOVERY_PULSES
            /\ master.todo = Pulse2 /\ master.holds = {} /\ OneByte(slave, master.pulses + 1)
  <2>1. /\ slave' = slave
        /\ \/ /\ Kept /\ master'.holds = {} /\ master'.pulses = master.pulses
              /\ \/ master'.todo = Pulse2
                 \/ master'.todo = Pulse1 /\ "scl" \notin slave.holds
           \/ FailedWith("ClockStretchTimeout")
    BY <1>1, <1>13, RecoverySuffixes, ClockPolled DEF Pulse2
  <2>2. CASE FailedWith("ClockStretchTimeout") BY <1>4, <1>6, <1>7, <2>1, <2>2
  <2>3. CASE ~FailedWith("ClockStretchTimeout")
    <3>1. AtRecovery(master', slave')
      BY <1>6, <1>13, <2>1, <2>3 DEF AtRecovery, Kept
    <3> QED BY <1>1, <1>5, <2>1, <2>3, <3>1
  <2> QED BY <2>1, <2>2, <2>3
<1>14. CASE /\ master.pulses < RECOVERY_PULSES
            /\ master.todo = Pulse1 /\ master.holds = {} /\ OneByte(slave, master.pulses + 1)
            /\ "scl" \notin slave.holds
  <2>1. /\ slave' = slave /\ Kept /\ master'.holds = {} /\ master'.pulses = master.pulses + 1
        /\ \/ master'.todo = Check5
           \/ master'.todo = Pulse4 /\ master.pulses + 1 # RECOVERY_PULSES
    BY <1>1, <1>14, RecoverySuffixes, DataSampled DEF Pulse1
  <2>2. AtRecovery(master', slave') BY <1>2, <1>6, <1>14, <2>1 DEF AtRecovery, Kept
  <2> QED BY <1>1, <1>5, <2>1, <2>2
<1>15. CASE /\ "scl" \notin slave.holds
            /\ \/ master.todo \in {Check5, Check1} /\ master.holds = {}
               \/ master.todo \in {Check4, Check3, Check2} /\ master.holds = {"sda"}
  <2>1. ASSUME Kept, slave' \in Slaves, "scl" \notin slave'.holds,
               \/ master'.todo \in {Check5, Check1} /\ master'.holds = {}
               \/ master'.todo \in {Check4, Check3, Check2} /\ master'.holds = {"sda"}
        PROVE  Recovering'
    <3>1. AtRecovery(master', slave') BY <1>6, <2>1 DEF AtRecovery, Kept
    <3> QED BY <1>5, <2>1, <3>1
  <2>2. CASE master.todo = Check5 /\ master.holds = {}
    <3>0. master.todo = Then("drive_sda", Check4) BY <2>2 DEF Check5
    <3>1. /\ Kept /\ master'.todo = Check4 /\ master'.holds = {"sda"}
          /\ slave' \in Slaves /\ "scl" \notin slave'.holds
      <4>1. "drive_sda" \in PinDrivers \ {"drive_scl"} /\ Check4 \in Seq(Pins)
        BY <1>9, RecoverySuffixes
      <4>2. /\ Kept /\ master'.todo = Check4 /\ master'.holds = HoldsAfter("drive_sda", master.holds)
            /\ slave' \in Slaves /\ "scl" \notin slave'.holds
        BY <1>8, <1>15, <3>0, <4>1
      <4> QED BY <2>2, <4>2 DEF HoldsAfter
    <3> QED BY <2>1, <3>1
  <2>3. CASE master.todo = Check4 /\ master.holds = {"sda"}
    <3>0. master.todo = Then("release_scl", Check3) BY <2>3 DEF Check4
    <3>1. /\ Kept /\ master'.todo = Check3 /\ master'.holds = {"sda"}
          /\ slave' \in Slaves /\ "scl" \notin slave'.holds
      <4>1. "release_scl" \in PinDrivers \ {"drive_scl"} /\ Check3 \in Seq(Pins)
        BY <1>9, RecoverySuffixes
      <4>2. /\ Kept /\ master'.todo = Check3 /\ master'.holds = HoldsAfter("release_scl", master.holds)
            /\ slave' \in Slaves /\ "scl" \notin slave'.holds
        BY <1>8, <1>15, <3>0, <4>1
      <4> QED BY <2>3, <4>2 DEF HoldsAfter
    <3> QED BY <2>1, <3>1
  <2>4. CASE master.todo = Check3 /\ master.holds = {"sda"}
    <3>1. slave' = slave /\ Kept /\ master'.todo = Check2 /\ master'.holds = {"sda"}
      BY <1>1, <1>15, <2>4, RecoverySuffixes, ClockPolled DEF Check3
    <3> QED BY <1>1, <1>15, <2>1, <3>1
  <2>5. CASE master.todo = Check2 /\ master.holds = {"sda"}
    <3>1. /\ Kept /\ master'.todo = Check1 /\ master'.holds = {}
          /\ slave' \in Slaves /\ "scl" \notin slave'.holds
      <4>1. /\ "release_sda" \in PinDrivers \ {"drive_scl"} /\ Check1 \in Seq(Pins)
            /\ master.todo = Then("release_sda", Check1)
        BY <1>9, <2>5, RecoverySuffixes DEF Check2
      <4>2. /\ Kept /\ master'.todo = Check1
            /\ master'.holds = HoldsAfter("release_sda", master.holds)
            /\ slave' \in Slaves /\ "scl" \notin slave'.holds
        BY <1>8, <1>15, <4>1
      <4> QED BY <2>5, <4>2 DEF HoldsAfter
    <3> QED BY <2>1, <3>1
  <2>6. CASE master.todo = Check1 /\ master.holds = {}
    <3>1. /\ slave' = slave
          /\ IF "sda" \notin slave.holds
             THEN Kept /\ master'.todo = <<>> /\ master'.holds = {}
             ELSE FailedWith("BusBusy")
      BY <1>1, <1>15, <2>6, RecoverySuffixes, DataSampled DEF Check1
    <3>2. CASE "sda" \notin slave.holds
      <4>1. slave.holds = {} BY <1>1, <1>15, <3>2 DEF Lines
      <4>2. AtRecovery(master', slave') BY <1>6, <3>1, <3>2, <4>1 DEF AtRecovery, Kept
      <4> QED BY <1>1, <1>5, <3>1, <3>2, <4>2
    <3>3. CASE "sda" \in slave.holds BY <1>4, <1>6, <1>7, <3>1, <3>3
    <3> QED BY <3>2, <3>3
  <2> QED BY <1>15, <2>2, <2>3, <2>4, <2>5, <2>6
<1> QED
  BY <1>3, <1>6, <1>10, <1>11, <1>12, <1>13, <1>14, <1>15 DEF Recovering, AtRecovery

LEMMA ClockReleasedInRecovery ==
  ASSUME Recovering, ReleaseClock
  PROVE  Recovering'
<1>1. /\ master \in Masters /\ slave \in Slaves /\ AtRecovery(master, slave)
      /\ slave.clock \in -1 .. BITS
  BY DEF Recovering, Slaves
<1>2. /\ master' = master /\ "scl" \in slave.holds
      /\ slave' \in Slaves /\ slave'.bytes \in {0, slave.bytes}
  BY <1>1, Released
<1>3. slave'.bytes # 0 => slave'.clock = slave.clock
  <2> DEFINE sda == "sda" \notin master.holds /\ "sda" \notin Freed(slave).holds
  <2>1. sda \in BOOLEAN OBVIOUS
  <2>2. slave' = Freed(slave) \/ slave' = OnClockRise(Freed(slave), sda) BY <1>1, Released
  <2> HIDE DEF sda
  <2>3. /\ Freed(slave) \in Slaves /\ Freed(slave).clock = slave.clock BY <1>1, FreedSlave
  <2>4. OnClockRise(Freed(slave), sda) = IdleSlave
        \/ OnClockRise(Freed(slave), sda).clock = slave.clock
    BY <2>1, <2>3, RiseKeeps
  <2> QED BY <2>2, <2>3, <2>4, SlaveKinds
<1>4. \A falls \in Nat : OneByte(slave, falls) => OneByte(slave', falls)
  BY <1>2, <1>3 DEF OneByte, FallsSince
<1>5. master.pulses + 1 \in Nat /\ master.pulses \in Nat BY <1>1 DEF Masters
<1>6. AtRecovery(master', slave')
  <2>1. slave.bytes = 0 => slave'.bytes = 0 BY <1>2
  <2> QED BY <1>1, <1>2, <1>4, <1>5, <2>1 DEF AtRecovery
<1> QED BY <1>2, <1>6 DEF Recovering

-----------------------------------------------------------------------------
(* The frames of the transactions the driver calls                          *)

\* A sequence of one or of two sequences, flattened.
LEMMA FlattenOne ==
  ASSUME NEW S, NEW s \in Seq(Seq(S)), Len(s) = 1
  PROVE  FlattenSeq(s) = s[1]
<1> DEFINE F(flatten) == flatten = [i \in 1 .. Len(s) |->
                                      IF i = 1 THEN s[i] ELSE flatten[i - 1] \o s[i]]
           w == [i \in 1 .. Len(s) |-> s[i]]
           c == CHOOSE flatten : F(flatten)
<1>1. F(w)
  <2>1. \A i \in 1 .. Len(s) : w[i] = IF i = 1 THEN s[i] ELSE w[i - 1] \o s[i] OBVIOUS
  <2> QED BY <2>1
<1>2. F(c) BY <1>1
<1>3. c[1] = s[1]
  <2>1. c = [i \in 1 .. Len(s) |-> IF i = 1 THEN s[i] ELSE c[i - 1] \o s[i]] BY <1>2
  <2> HIDE DEF c
  <2> QED BY <2>1
<1>4. FlattenSeq(s) = c[Len(s)] BY DEF FlattenSeq
<1> QED BY <1>3, <1>4

LEMMA FlattenTwo ==
  ASSUME NEW S, NEW s \in Seq(Seq(S)), Len(s) = 2
  PROVE  FlattenSeq(s) = s[1] \o s[2]
<1> DEFINE F(flatten) == flatten = [i \in 1 .. Len(s) |->
                                      IF i = 1 THEN s[i] ELSE flatten[i - 1] \o s[i]]
           w == [i \in 1 .. Len(s) |-> IF i = 1 THEN s[1] ELSE s[1] \o s[2]]
           c == CHOOSE flatten : F(flatten)
<1>1. F(w)
  <2>1. \A i \in 1 .. Len(s) : w[i] = IF i = 1 THEN s[i] ELSE w[i - 1] \o s[i] OBVIOUS
  <2> QED BY <2>1
<1>2. F(c) BY <1>1
<1>3. c[2] = s[1] \o s[2]
  <2>1. c = [i \in 1 .. Len(s) |-> IF i = 1 THEN s[i] ELSE c[i - 1] \o s[i]] BY <1>2
  <2> HIDE DEF c
  <2>2. c[1] = s[1] BY <2>1
  <2> QED BY <2>1, <2>2
<1>4. FlattenSeq(s) = c[Len(s)] BY DEF FlattenSeq
<1> QED BY <1>3, <1>4

\* The frames of one operation.
Part(operations, index) ==
  AddressFrames(operations, index) \o
    [byte \in 1 .. operations[index].length |->
       IF operations[index].read
       THEN [kind |-> "read", high |-> ~Acknowledged(operations, index, byte)]
       ELSE [kind |-> "write", high |-> FALSE]]

\* transaction() puts them between a START and a STOP.
LEMMA FramesInParts ==
  ASSUME NEW operations
  PROVE  Frames(operations) =
           (<<[kind |-> "start", high |-> FALSE]>>
              \o FlattenSeq([index \in 1 .. Len(operations) |-> Part(operations, index)]))
             \o <<[kind |-> "stop", high |-> FALSE]>>
BY DEF Frames, Part

\* Two sequences, one behind the other.
LEMMA Joined ==
  ASSUME NEW S, NEW a \in Seq(S), NEW b \in Seq(S)
  PROVE  /\ a \o b \in Seq(S) /\ Len(a \o b) = Len(a) + Len(b)
         /\ \A i \in 1 .. Len(a) : (a \o b)[i] = a[i]
         /\ \A i \in 1 .. Len(b) : (a \o b)[i + Len(a)] = b[i]
<1>1. Len(a) \in Nat /\ Len(b) \in Nat OBVIOUS
<1>2. \A i \in 1 .. Len(b) : i + Len(a) \in 1 .. Len(a) + Len(b) /\ ~(i + Len(a) <= Len(a))
                               /\ (i + Len(a)) - Len(a) = i
  BY <1>1
<1> QED BY <1>1, <1>2, ConcatProperties

\* What a transaction is called with.
FramesCalled(frames, writing) ==
  /\ frames \in Seq(Frame) /\ frames # <<>>
  /\ Head(frames).kind = "start" /\ FramesLeft(frames, writing)

\* A register write: START, address, two bytes, STOP.
LEMMA WriteFrames == FramesCalled(Frames(WriteU8), TRUE)
<1> DEFINE start   == [kind |-> "start", high |-> FALSE]
           address == [kind |-> "address", high |-> FALSE]
           write   == [kind |-> "write", high |-> FALSE]
           data    == [byte \in 1 .. 2 |-> write]
           stop    == [kind |-> "stop", high |-> FALSE]
           part    == <<address>> \o data
           s       == [index \in 1 .. Len(WriteU8) |-> Part(WriteU8, index)]
           body    == <<start>> \o part
           f       == Frames(WriteU8)
<1>1. /\ start \in Frame /\ address \in Frame /\ write \in Frame /\ stop \in Frame
      /\ start.kind = "start" /\ address.kind = "address" /\ ~address.high
      /\ write.kind = "write" /\ ~write.high /\ stop.kind = "stop"
  BY DEF Frame, FrameKinds
<1>2. Part(WriteU8, 1) = part /\ Len(WriteU8) = 1
  <2>1. Len(WriteU8) = 1 /\ WriteU8[1].read = FALSE /\ WriteU8[1].length = 2 BY DEF WriteU8
  <2>2. AddressFrames(WriteU8, 1) = <<address>> BY <2>1 DEF AddressFrames
  <2>3. [byte \in 1 .. WriteU8[1].length |->
           IF WriteU8[1].read
           THEN [kind |-> "read", high |-> ~Acknowledged(WriteU8, 1, byte)]
           ELSE [kind |-> "write", high |-> FALSE]] = data
    BY <2>1
  <2> QED BY <2>1, <2>2, <2>3 DEF Part
<1>3. f = (<<start>> \o FlattenSeq(s)) \o <<stop>> BY FramesInParts
<1> HIDE DEF f, start, address, write, stop
<1>4. data \in Seq(Frame) /\ Len(data) = 2 /\ data[1] = write /\ data[2] = write BY <1>1
<1> HIDE DEF data
<1>5. part \in Seq(Frame) /\ Len(part) = 3 /\ part[1] = address /\ part[2] = write /\ part[3] = write
  <2>1. <<address>> \in Seq(Frame) /\ Len(<<address>>) = 1 /\ <<address>>[1] = address BY <1>1
  <2>2. Len(part) = 3 /\ part \in Seq(Frame) /\ part[1] = address BY <1>4, <2>1, Joined
  <2> DEFINE first == <<address>>
  <2>0. first \in Seq(Frame) /\ data \in Seq(Frame) BY <1>4, <2>1
  <2> HIDE DEF first
  <2>3. \A i \in 1 .. Len(data) : (first \o data)[i + Len(first)] = data[i]
    BY <2>0, Joined
  <2>4. part[1 + 1] = write /\ part[2 + 1] = write BY <1>4, <2>1, <2>3 DEF first
  <2> QED BY <2>2, <2>4
<1> HIDE DEF part
<1>6. s \in Seq(Seq(Frame)) /\ Len(s) = 1 /\ s[1] = part BY <1>2, <1>5
<1> HIDE DEF s
<1>7. f = body \o <<stop>> BY <1>3, <1>6, FlattenOne
<1>8. /\ body \in Seq(Frame) /\ Len(body) = 4 /\ body[1] = start /\ body[2] = address
      /\ body[3] = write /\ body[4] = write
  <2>1. <<start>> \in Seq(Frame) /\ Len(<<start>>) = 1 /\ <<start>>[1] = start BY <1>1
  <2> DEFINE first == <<start>>
  <2>0. first \in Seq(Frame) /\ part \in Seq(Frame) BY <1>5, <2>1
  <2> HIDE DEF first
  <2>2. /\ first \o part \in Seq(Frame) /\ Len(first \o part) = Len(first) + Len(part)
        /\ \A i \in 1 .. Len(first) : (first \o part)[i] = first[i]
        /\ \A i \in 1 .. Len(part) : (first \o part)[i + Len(first)] = part[i]
    BY <2>0, Joined
  <2>3. body[1 + 1] = address /\ body[2 + 1] = write /\ body[3 + 1] = write
    BY <1>5, <2>1, <2>2 DEF first
  <2> QED BY <1>5, <2>1, <2>2, <2>3 DEF first
<1> HIDE DEF body
<1>9. /\ f \in Seq(Frame) /\ Len(f) = 5 /\ f[1] = start /\ f[2] = address
      /\ f[3] = write /\ f[4] = write /\ f[5] = stop
  <2>1. <<stop>> \in Seq(Frame) /\ Len(<<stop>>) = 1 /\ <<stop>>[1] = stop BY <1>1
  <2> DEFINE last == <<stop>>
  <2>2. last \in Seq(Frame) /\ Len(last) = 1 /\ last[1] = stop BY <2>1
  <2> HIDE DEF last
  <2>3. /\ body \o last \in Seq(Frame) /\ Len(body \o last) = Len(body) + Len(last)
        /\ \A i \in 1 .. Len(body) : (body \o last)[i] = body[i]
        /\ \A i \in 1 .. Len(last) : (body \o last)[i + Len(body)] = last[i]
    <3>1. body \in Seq(Frame) /\ last \in Seq(Frame) BY <1>8, <2>2
    <3> QED BY <3>1, Joined
  <2>4. f = body \o last BY <1>7 DEF last
  <2> HIDE DEF f, body
  <2>5. f \in Seq(Frame) /\ Len(f) = 5 BY <1>8, <2>2, <2>3, <2>4
  <2>6. f[1] = body[1] /\ f[2] = body[2] /\ f[3] = body[3] /\ f[4] = body[4]
    BY <1>8, <2>3, <2>4
  <2>7. f[5] = stop
    <3>1. 1 \in 1 .. Len(last) /\ 1 + Len(body) = 5 BY <1>8, <2>2
    <3> QED BY <2>2, <2>3, <2>4, <3>1
  <2>8. f[1] = start /\ f[2] = address /\ f[3] = write /\ f[4] = write BY <1>8, <2>6
  <2> QED BY <2>5, <2>7, <2>8
<1>10. f # <<>> /\ Head(f) = start BY <1>9
<1>11. ASSUME NEW i \in 1 .. 4 PROVE Follows(f[i], f[i + 1])
  <2>1. CASE i = 1
    <3>1. f[i] = start /\ f[i + 1] = address BY <1>9, <2>1
    <3> QED BY <1>1, <3>1 DEF Follows
  <2>2. CASE i = 2
    <3>1. f[i] = address /\ f[i + 1] = write BY <1>9, <2>2
    <3> QED BY <1>1, <3>1 DEF Follows
  <2>3. CASE i = 3
    <3>1. f[i] = write /\ f[i + 1] = write BY <1>9, <2>3
    <3> QED BY <1>1, <3>1 DEF Follows
  <2>4. CASE i = 4
    <3>1. f[i] = write /\ f[i + 1] = stop BY <1>9, <2>4
    <3> QED BY <1>1, <3>1 DEF Follows
  <2> QED BY <2>1, <2>2, <2>3, <2>4
<1>12. ASSUME NEW i \in 1 .. 5 PROVE f[i].kind = WriteKinds[5 - i + 1]
  <2>1. CASE i = 1
    <3>1. f[i].kind = "start" /\ 5 - i + 1 = 5 BY <1>1, <1>9, <2>1
    <3> QED BY <3>1 DEF WriteKinds
  <2>2. CASE i = 2
    <3>1. f[i].kind = "address" /\ 5 - i + 1 = 4 BY <1>1, <1>9, <2>2
    <3> QED BY <3>1 DEF WriteKinds
  <2>3. CASE i = 3
    <3>1. f[i].kind = "write" /\ 5 - i + 1 = 3 BY <1>1, <1>9, <2>3
    <3> QED BY <3>1 DEF WriteKinds
  <2>4. CASE i = 4
    <3>1. f[i].kind = "write" /\ 5 - i + 1 = 2 BY <1>1, <1>9, <2>4
    <3> QED BY <3>1 DEF WriteKinds
  <2>5. CASE i = 5
    <3>1. f[i].kind = "stop" /\ 5 - i + 1 = 1 BY <1>1, <1>9, <2>5
    <3> QED BY <3>1 DEF WriteKinds
  <2> QED BY <2>1, <2>2, <2>3, <2>4, <2>5
<1>13. FramesLeft(f, TRUE)
  <2>1. \A i \in 1 .. Len(f) - 1 : Follows(f[i], f[i + 1]) BY <1>9, <1>11
  <2>2. \A i \in 1 .. Len(f) : f[i].kind = WriteKinds[Len(f) - i + 1] BY <1>9, <1>12
  <2>3. f[Len(f)].kind = "stop" /\ Len(f) <= 5 BY <1>1, <1>9
  <2> QED BY <2>1, <2>2, <2>3 DEF FramesLeft
<1>14. f \in Seq(Frame) /\ f # <<>> /\ Head(f).kind = "start" BY <1>1, <1>9, <1>10
<1> HIDE DEF Frames
<1> QED BY <1>13, <1>14 DEF FramesCalled, f

\* A read: START, address, register, repeated START, address, bytes, STOP.
LEMMA ReadFrames ==
  ASSUME NEW n \in Nat \ {0}
  PROVE  FramesCalled(Frames(WriteRead(n)), FALSE)
<1> DEFINE start   == [kind |-> "start", high |-> FALSE]
           restart == [kind |-> "restart", high |-> FALSE]
           to      == [kind |-> "address", high |-> FALSE]
           from    == [kind |-> "address", high |-> TRUE]
           write   == [kind |-> "write", high |-> FALSE]
           sent    == [byte \in 1 .. 1 |-> write]
           data    == [byte \in 1 .. n |-> [kind |-> "read", high |-> byte >= n]]
           stop    == [kind |-> "stop", high |-> FALSE]
           one     == <<to>> \o sent
           two     == <<restart, from>> \o data
           ops     == WriteRead(n)
           s       == [index \in 1 .. Len(ops) |-> Part(ops, index)]
           body    == one \o two
           head    == <<start>> \o body
           f       == Frames(ops)
<1>1. /\ start \in Frame /\ restart \in Frame /\ to \in Frame /\ from \in Frame
      /\ write \in Frame /\ stop \in Frame
      /\ start.kind = "start" /\ restart.kind = "restart" /\ to.kind = "address" /\ ~to.high
      /\ from.kind = "address" /\ from.high /\ write.kind = "write" /\ ~write.high
      /\ stop.kind = "stop"
  BY DEF Frame, FrameKinds
<1>2. /\ data \in Seq(Frame) /\ Len(data) = n
      /\ \A i \in 1 .. n : data[i].kind = "read" /\ (data[i].high <=> i >= n)
  <2>1. \A i \in 1 .. n : [kind |-> "read", high |-> i >= n] \in Frame BY DEF Frame, FrameKinds
  <2>2. data \in [1 .. n -> Frame] BY <2>1
  <2>3. \A i \in 1 .. n : data[i] = [kind |-> "read", high |-> i >= n] OBVIOUS
  <2> HIDE DEF data
  <2>4. data \in Seq(Frame) /\ Len(data) = n BY <2>2
  <2>5. ASSUME NEW i \in 1 .. n PROVE data[i].kind = "read" /\ (data[i].high <=> i >= n)
    <3> DEFINE last == i >= n
    <3>1. data[i] = [kind |-> "read", high |-> last] BY <2>3
    <3> HIDE DEF last
    <3>2. data[i].kind = "read" /\ (data[i].high <=> last) BY <3>1
    <3> QED BY <3>2 DEF last
  <2> QED BY <2>4, <2>5
<1>3. Len(ops) = 2 /\ Part(ops, 1) = one /\ Part(ops, 2) = two
  <2>1. Len(ops) = 2 /\ ops[1].read = FALSE /\ ops[1].length = 1 /\ ops[2].read = TRUE
        /\ ops[2].length = n
    BY DEF WriteRead
  <2> HIDE DEF ops
  <2>2. AddressFrames(ops, 1) = <<to>> BY <2>1 DEF AddressFrames
  <2>3. AddressFrames(ops, 2) = <<restart, from>>
    <3>1. 2 # 1 /\ 2 - 1 = 1 /\ ops[1].read # ops[2].read BY <2>1
    <3> QED BY <2>1, <3>1 DEF AddressFrames
  <2>4. [byte \in 1 .. ops[1].length |->
           IF ops[1].read THEN [kind |-> "read", high |-> ~Acknowledged(ops, 1, byte)]
           ELSE [kind |-> "write", high |-> FALSE]] = sent
    BY <2>1
  <2>5. ASSUME NEW byte \in 1 .. n
        PROVE  (IF ops[2].read THEN [kind |-> "read", high |-> ~Acknowledged(ops, 2, byte)]
                ELSE [kind |-> "write", high |-> FALSE]) = [kind |-> "read", high |-> byte >= n]
    <3>1. ~HasFollowingReadData(ops, 2) BY <2>1 DEF HasFollowingReadData
    <3> DEFINE silent == ~Acknowledged(ops, 2, byte)
               last   == byte >= n
    <3>2. silent = last BY <2>1, <3>1 DEF Acknowledged
    <3> HIDE DEF silent, last
    <3>3. (IF ops[2].read THEN [kind |-> "read", high |-> silent]
           ELSE [kind |-> "write", high |-> FALSE]) = [kind |-> "read", high |-> last]
      BY <2>1, <3>2
    <3> QED BY <3>3 DEF silent, last
  <2>6. [byte \in 1 .. ops[2].length |->
           IF ops[2].read THEN [kind |-> "read", high |-> ~Acknowledged(ops, 2, byte)]
           ELSE [kind |-> "write", high |-> FALSE]] = data
    BY <2>1, <2>5
  <2> HIDE DEF data, sent
  <2> QED BY <2>1, <2>2, <2>3, <2>4, <2>6 DEF Part
<1>4. f = (<<start>> \o FlattenSeq(s)) \o <<stop>> BY FramesInParts
<1> HIDE DEF f, ops, data, start, restart, to, from, write, stop
<1>5. one \in Seq(Frame) /\ Len(one) = 2 /\ one[1] = to /\ one[2] = write
  <2>1. <<to>> \in Seq(Frame) /\ Len(<<to>>) = 1 /\ <<to>>[1] = to BY <1>1
  <2>2. sent \in Seq(Frame) /\ Len(sent) = 1 /\ sent[1] = write BY <1>1
  <2> QED BY <2>1, <2>2
<1>6. /\ two \in Seq(Frame) /\ Len(two) = n + 2 /\ two[1] = restart /\ two[2] = from
      /\ \A i \in 1 .. n : two[i + 2] = data[i]
  <2>1. /\ <<restart, from>> \in Seq(Frame) /\ Len(<<restart, from>>) = 2
        /\ <<restart, from>>[1] = restart /\ <<restart, from>>[2] = from
    BY <1>1
  <2> QED BY <1>2, <2>1
<1> HIDE DEF one, two
<1>7. s \in Seq(Seq(Frame)) /\ Len(s) = 2 /\ s[1] = one /\ s[2] = two BY <1>3, <1>5, <1>6
<1> HIDE DEF s
<1>8. FlattenSeq(s) = body BY <1>7, FlattenTwo
<1>9. /\ body \in Seq(Frame) /\ Len(body) = n + 4
      /\ \A i \in 1 .. 2 : body[i] = one[i]
      /\ \A i \in 1 .. n + 2 : body[i + 2] = two[i]
  <2>0. one \in Seq(Frame) /\ two \in Seq(Frame) BY <1>5, <1>6
  <2>1. /\ body \in Seq(Frame) /\ Len(body) = Len(one) + Len(two)
        /\ \A i \in 1 .. Len(one) : body[i] = one[i]
        /\ \A i \in 1 .. Len(two) : body[i + Len(one)] = two[i]
    BY <2>0, Joined
  <2> HIDE DEF body
  <2> QED BY <1>5, <1>6, <2>1
<1> HIDE DEF body
<1>10. /\ body[1] = to /\ body[2] = write /\ body[3] = restart /\ body[4] = from
       /\ \A i \in 1 .. n : body[i + 4] = data[i]
  <2>1. body[1] = to /\ body[2] = write BY <1>5, <1>9
  <2>2. body[1 + 2] = restart /\ body[2 + 2] = from BY <1>6, <1>9
  <2>3. ASSUME NEW i \in 1 .. n PROVE body[i + 4] = data[i]
    <3>1. i + 2 \in 1 .. n + 2 /\ (i + 2) + 2 = i + 4 OBVIOUS
    <3>2. body[(i + 2) + 2] = two[i + 2] BY <1>9, <3>1
    <3> QED BY <1>6, <3>1, <3>2
  <2> QED BY <2>1, <2>2, <2>3
<1>11. /\ head \in Seq(Frame) /\ Len(head) = n + 5 /\ head[1] = start
       /\ \A i \in 1 .. n + 4 : head[i + 1] = body[i]
  <2>1. <<start>> \in Seq(Frame) /\ Len(<<start>>) = 1 /\ <<start>>[1] = start BY <1>1
  <2> QED BY <1>9, <2>1
<1>12. f = head \o <<stop>> BY <1>4, <1>8
<1> HIDE DEF head
<1>13. /\ f \in Seq(Frame) /\ Len(f) = n + 6 /\ f[n + 6] = stop
       /\ \A i \in 1 .. n + 5 : f[i] = head[i]
  <2>1. <<stop>> \in Seq(Frame) /\ Len(<<stop>>) = 1 /\ <<stop>>[1] = stop BY <1>1
  <2> QED BY <1>11, <1>12, <2>1
<1>14. /\ f[1] = start /\ f[2] = to /\ f[3] = write /\ f[4] = restart /\ f[5] = from
       /\ \A i \in 1 .. n : f[i + 5] = data[i]
  <2>1. \A i \in 1 .. n + 4 : f[i + 1] = body[i] BY <1>11, <1>13
  <2>2. f[1] = start BY <1>11, <1>13
  <2>3. f[1 + 1] = body[1] /\ f[2 + 1] = body[2] /\ f[3 + 1] = body[3] /\ f[4 + 1] = body[4]
    BY <2>1
  <2>4. ASSUME NEW i \in 1 .. n PROVE f[i + 5] = data[i]
    <3>1. i + 4 \in 1 .. n + 4 /\ (i + 4) + 1 = i + 5 OBVIOUS
    <3>2. f[(i + 4) + 1] = body[i + 4] BY <2>1, <3>1
    <3> QED BY <1>10, <3>1, <3>2
  <2> QED BY <1>10, <2>2, <2>3, <2>4
<1>15. ASSUME NEW i \in 1 .. n + 5
       PROVE  /\ Follows(f[i], f[i + 1])
              /\ f[i].kind = "write" => f[i + 1].kind = "restart"
  <2>1. CASE i = 1
    <3>1. f[i] = start /\ f[i + 1] = to BY <1>14, <2>1
    <3> QED BY <1>1, <3>1 DEF Follows
  <2>2. CASE i = 2
    <3>1. f[i] = to /\ f[i + 1] = write BY <1>14, <2>2
    <3> QED BY <1>1, <3>1 DEF Follows
  <2>3. CASE i = 3
    <3>1. f[i] = write /\ f[i + 1] = restart BY <1>14, <2>3
    <3> QED BY <1>1, <3>1 DEF Follows
  <2>4. CASE i = 4
    <3>1. f[i] = restart /\ f[i + 1] = from BY <1>14, <2>4
    <3> QED BY <1>1, <3>1 DEF Follows
  <2>5. CASE i = 5
    <3>1. 1 \in 1 .. n /\ 1 + 5 = 6 /\ i + 1 = 6 BY <2>5
    <3>2. f[6] = data[1] /\ data[1].kind = "read" BY <1>2, <1>14, <3>1
    <3> QED BY <1>1, <1>14, <2>5, <3>1, <3>2 DEF Follows
  <2>6. CASE i > 5
    <3> DEFINE k == i - 5
    <3>1. k \in 1 .. n /\ k + 5 = i BY <2>6
    <3> HIDE DEF k
    <3>2. f[i] = data[k] /\ data[k].kind = "read" /\ (data[k].high <=> k >= n)
      BY <1>2, <1>14, <3>1
    <3>3. CASE k = n
      <4>1. f[i + 1] = stop BY <1>13, <3>1, <3>3
      <4> QED BY <1>1, <3>2, <3>3, <4>1 DEF Follows
    <3>4. CASE k # n
      <4>1. k + 1 \in 1 .. n /\ (k + 1) + 5 = i + 1 /\ ~(k >= n) BY <3>1, <3>4
      <4>2. f[(k + 1) + 5] = data[k + 1] /\ data[k + 1].kind = "read" BY <1>2, <1>14, <4>1
      <4> QED BY <3>2, <4>1, <4>2 DEF Follows
    <3> QED BY <3>3, <3>4
  <2> QED BY <2>1, <2>2, <2>3, <2>4, <2>5, <2>6
<1>16. f # <<>> /\ Head(f).kind = "start" /\ Len(f) - 1 = n + 5 /\ f[Len(f)].kind = "stop"
  BY <1>1, <1>13, <1>14
<1>17. FramesLeft(f, FALSE) BY <1>15, <1>16 DEF FramesLeft
<1> QED BY <1>13, <1>16, <1>17 DEF FramesCalled, f, ops

-----------------------------------------------------------------------------
(* Every step of the driver and the bus                                     *)

\* A step of the driver in a transaction, at whatever place, and one of the slave.
LEMMA TransactionDriven ==
  ASSUME Calling, Transaction, Writing /\ slave.bytes = 2 => Taken, Drive
  PROVE  Continues
<1>1. CASE /\ master.frames # <<>> /\ master.result = "Ok" /\ FramesLeft(master.frames, Writing)
           /\ \/ AtStart(master, slave) /\ Quiet
              \/ /\ ~found_busy
                 /\ \/ AtBegin(master, slave)
                    \/ AtRestart(master, slave)
                    \/ AtBit(master, slave, Writing)
                    \/ AfterByte(master, slave, Writing, Taken)
                    \/ master.todo = <<>> /\ Between(master, slave, Writing, Taken)
  <2>1. Running BY <1>1 DEF Running
  <2> QED
    BY <1>1, <2>1, StartDriven, BeginDriven, RestartDriven, BitDriven, AfterByteDriven,
       BetweenDriven
<1>2. CASE /\ master.frames = <<>> /\ AtStop(master, slave)
           /\ Writing /\ master.result = "Ok" => Taken
           /\ master.result = "BusBusy" => timed_out
           /\ master.result # "BusBusy" => ~found_busy
  <2>1. Stopping BY <1>2 DEF Stopping
  <2> QED BY <1>2, <2>1, StopDriven
<1> QED BY <1>1, <1>2 DEF Transaction

LEMMA TransactionFreed ==
  ASSUME Calling, Transaction, Writing /\ slave.bytes = 2 => Taken, ReleaseClock
  PROVE  Continues
<1>1. CASE /\ master.frames # <<>> /\ master.result = "Ok" /\ FramesLeft(master.frames, Writing)
           /\ \/ AtStart(master, slave) /\ Quiet
              \/ /\ ~found_busy
                 /\ \/ AtBegin(master, slave)
                    \/ AtRestart(master, slave)
                    \/ AtBit(master, slave, Writing)
                    \/ AfterByte(master, slave, Writing, Taken)
                    \/ master.todo = <<>> /\ Between(master, slave, Writing, Taken)
  <2>1. Running BY <1>1 DEF Running
  <2> QED BY <1>1, <2>1, ClockReleased
<1>2. CASE /\ master.frames = <<>> /\ AtStop(master, slave)
           /\ Writing /\ master.result = "Ok" => Taken
           /\ master.result = "BusBusy" => timed_out
           /\ master.result # "BusBusy" => ~found_busy
  <2>1. Stopping BY <1>2 DEF Stopping
  <2> QED BY <1>2, <2>1, ClockReleasedAtStop
<1> QED BY <1>1, <1>2 DEF Transaction

\* The slave acknowledges one byte at a time.
LEMMA BytesCounted ==
  ASSUME slave \in Slaves, master \in Masters, Drive \/ ReleaseClock
  PROVE  slave'.bytes \in {0, slave.bytes, slave.bytes + 1}
<1>1. CASE ReleaseClock BY <1>1, Released
<1>2. CASE Drive
  <2>1. CASE slave' = slave BY <2>1
  <2>2. CASE slave' \in Reactions(slave, master, master')
    <3>1. ReactsTo(slave, master, master', slave') BY <2>2, Reacting
    <3>2. CASE slave' \in OnClockFall(slave)
      <4>1. CASE slave.mode = "idle"
        <5>1. slave' = slave BY <3>2, <4>1, IdleFalls
        <5> QED BY <5>1
      <4>2. CASE slave.mode # "idle"
        <5>1. slave'.bytes \in {0, slave.bytes, slave.bytes + 1} \/ slave' = IdleSlave
          BY <3>2, <4>2, Falling
        <5> QED BY <5>1, SlaveKinds
      <4> QED BY <4>1, <4>2
    <3>3. CASE "scl" \in master'.holds => "scl" \in master.holds
      <4>1. slave'.bytes \in {0, slave.bytes} BY <3>1, <3>3, NoFall
      <4> QED BY <4>1
    <3> QED BY <3>1, <3>2, <3>3 DEF ReactsTo
  <2> QED BY <1>2, <2>1, <2>2 DEF Drive, TakeBit, DrivePin, WaitClock, SampleData
<1> QED BY <1>1, <1>2

\* A step of the bus keeps the invariant in every stage of the driver.
LEMMA BusStep ==
  ASSUME IInv, Bus
  PROVE  IInv'
<1>1. /\ master \in Masters /\ slave \in Slaves /\ register \in 0 .. REGISTERS
      /\ programmed \subseteq 1 .. REGISTERS /\ REGISTERS \in Nat \ {0}
      /\ stage \in {"reset", "recover", "probe", "configure", "run", "absent"}
      /\ timed_out \in BOOLEAN /\ found_busy \in BOOLEAN
  BY DriverConstants DEF IInv, Types
<1>2. /\ stage' = stage /\ register' = register /\ timed_out' = timed_out
      /\ found_busy' = found_busy /\ programmed \subseteq programmed' /\ Stays
      /\ programmed' = IF stage = "configure" /\ slave.bytes = 1 /\ slave'.bytes = 2
                       THEN programmed \cup {register} ELSE programmed
  BY DEF Bus, driver, history, Stays
<1>3. Drive \/ ReleaseClock BY DEF Bus
<1>4. stage = "configure" => register \in 1 .. REGISTERS BY DEF IInv, Registers
<1>5. Registers'
  <2>1. stage \in {"reset", "recover", "probe", "configure"} => ~timed_out' /\ ~found_busy'
    BY <1>2 DEF IInv, Registers
  <2>2. ASSUME stage = "configure"
        PROVE  /\ register' \in 1 .. REGISTERS /\ 1 .. register' - 1 \subseteq programmed'
               /\ slave'.bytes = 2 => Taken'
    <3>1. /\ 1 .. register - 1 \subseteq programmed
          /\ slave.bytes = 2 => register \in programmed
      BY <2>2 DEF IInv, Registers, Taken
    <3>2. slave.bytes \in 0 .. 2 /\ slave'.bytes \in {0, slave.bytes, slave.bytes + 1}
      BY <1>1, <1>3, BytesCounted DEF Slaves
    <3>3. slave'.bytes = 2 => register \in programmed' BY <1>2, <2>2, <3>1, <3>2
    <3> QED BY <1>2, <1>4, <2>2, <3>1, <3>3 DEF Taken
  <2>3. stage = "run" => programmed' = 1 .. REGISTERS BY <1>2 DEF IInv, Registers
  <2> QED BY <1>2, <2>1, <2>2, <2>3 DEF Registers
<1>6. ASSUME master' \in Masters, slave' \in Slaves PROVE Types'
  <2>1. programmed' \subseteq 1 .. REGISTERS BY <1>1, <1>2, <1>4
  <2> QED BY <1>1, <1>2, <1>6, <2>1 DEF Types
\* Nothing is called: the driver does nothing.
<1>7. ASSUME master.todo = <<>>, master.frames = <<>>
      PROVE  ReleaseClock /\ master' = master /\ slave' \in Slaves /\ "scl" \in slave.holds
  <2>1. ReleaseClock BY <1>3, <1>7, NothingToDrive
  <2> QED BY <1>1, <2>1, Released
<1>8. CASE stage = "reset" BY <1>7, <1>8 DEF IInv, Calls, IdleMaster
<1>9. CASE stage = "recover"
  <2>1. Recovering BY <1>1, <1>9 DEF Recovering, IInv, Calls
  <2>2. Recovering' BY <1>3, <2>1, RecoveryDriven, ClockReleasedInRecovery
  <2> QED BY <1>2, <1>5, <1>6, <1>9, <2>2 DEF IInv, Calls, Recovering
<1>10. CASE stage \in {"probe", "configure", "run"} /\ master.call = "transaction"
  <2>1. Calling /\ Transaction BY <1>1, <1>2, <1>10 DEF Calling, IInv, Calls
  <2>2. Writing /\ slave.bytes = 2 => Taken BY DEF IInv, Registers, Writing
  <2>3. Continues BY <1>3, <2>1, <2>2, TransactionDriven, TransactionFreed
  <2> QED BY <1>2, <1>5, <1>6, <1>10, <2>3 DEF IInv, Calls, Continues
<1>11. CASE stage = "run" /\ master.call = "idle"
  <2>1. master.todo = <<>> /\ master.frames = <<>> /\ Quiet BY <1>11 DEF IInv, Calls
  <2>2. master' = master /\ slave' \in Slaves /\ "scl" \in slave.holds BY <1>7, <2>1
  <2>3. timed_out /\ ~found_busy BY <2>1, <2>2 DEF Quiet
  <2>4. Quiet' BY <1>2, <2>3 DEF Quiet
  <2> QED BY <1>1, <1>2, <1>5, <1>6, <1>11, <2>1, <2>2, <2>4 DEF IInv, Calls
<1>12. CASE stage = "absent"
  <2>1. master.call = "idle" /\ master.todo = <<>> /\ master.frames = <<>>
    BY <1>12 DEF IInv, Calls
  <2>2. master' = master /\ slave' \in Slaves BY <1>7, <2>1
  <2> QED BY <1>1, <1>2, <1>5, <1>6, <1>12, <2>1, <2>2 DEF IInv, Calls
<1> QED BY <1>1, <1>8, <1>9, <1>10, <1>11, <1>12 DEF IInv, Calls

\* A pin sequence that is not at its end.
LEMMA PinsLeft ==
  /\ \A pin \in Pins, rest \in Seq(Pins) : Then(pin, rest) # <<>>
  /\ Recover1 # <<>> /\ Recover2 # <<>> /\ Recover3 # <<>> /\ Recover4 # <<>>
  /\ Pulse1 # <<>> /\ Pulse2 # <<>> /\ Pulse3 # <<>> /\ Pulse4 # <<>>
  /\ Check1 # <<>> /\ Check2 # <<>> /\ Check3 # <<>> /\ Check4 # <<>> /\ Check5 # <<>>
  /\ Stop1 # <<>> /\ Stop2 # <<>> /\ Stop3 # <<>> /\ Stop4 # <<>>
<1>1. \A pin \in Pins, rest \in Seq(Pins) : Then(pin, rest) # <<>> BY PinThen
<1>2. /\ "recovered" \in Pins /\ "wait_scl" \in Pins /\ "release_scl" \in Pins
      /\ "release_sda" \in Pins /\ "drive_sda" \in Pins /\ "drive_scl" \in Pins
      /\ "pulsed" \in Pins /\ "check_bus" \in Pins
  BY DEF Pins
<1>3. Recover1 # <<>> /\ Recover2 # <<>> /\ Recover3 # <<>> /\ Recover4 # <<>>
  <2>1. Recover1 # <<>> BY <1>1, <1>2, RecoverySuffixes DEF Recover1
  <2>2. Recover2 # <<>> BY <1>1, <1>2, RecoverySuffixes DEF Recover2
  <2>3. Recover3 # <<>> BY <1>1, <1>2, RecoverySuffixes DEF Recover3
  <2>4. Recover4 # <<>> BY <1>1, <1>2, RecoverySuffixes DEF Recover4
  <2> QED BY <2>1, <2>2, <2>3, <2>4
<1>4. Pulse1 # <<>> /\ Pulse2 # <<>> /\ Pulse3 # <<>> /\ Pulse4 # <<>>
  <2>1. Pulse1 # <<>> BY <1>1, <1>2, RecoverySuffixes DEF Pulse1
  <2>2. Pulse2 # <<>> BY <1>1, <1>2, RecoverySuffixes DEF Pulse2
  <2>3. Pulse3 # <<>> BY <1>1, <1>2, RecoverySuffixes DEF Pulse3
  <2>4. Pulse4 # <<>> BY <1>1, <1>2, RecoverySuffixes DEF Pulse4
  <2> QED BY <2>1, <2>2, <2>3, <2>4
<1>5. Check1 # <<>> /\ Check2 # <<>> /\ Check3 # <<>> /\ Check4 # <<>> /\ Check5 # <<>>
  <2>1. Check1 # <<>> BY <1>1, <1>2, RecoverySuffixes DEF Check1
  <2>2. Check2 # <<>> BY <1>1, <1>2, RecoverySuffixes DEF Check2
  <2>3. Check3 # <<>> BY <1>1, <1>2, RecoverySuffixes DEF Check3
  <2>4. Check4 # <<>> BY <1>1, <1>2, RecoverySuffixes DEF Check4
  <2>5. Check5 # <<>> BY <1>1, <1>2, RecoverySuffixes DEF Check5
  <2> QED BY <2>1, <2>2, <2>3, <2>4, <2>5
<1>6. Stop1 # <<>> /\ Stop2 # <<>> /\ Stop3 # <<>> /\ Stop4 # <<>>
  <2>1. Stop1 # <<>> BY <1>1, <1>2, PinSuffixes DEF Stop1
  <2>2. Stop2 # <<>> BY <1>1, <1>2, PinSuffixes DEF Stop2
  <2>3. Stop3 # <<>> BY <1>1, <1>2, PinSuffixes DEF Stop3
  <2>4. Stop4 # <<>> BY <1>1, <1>2, PinSuffixes DEF Stop4
  <2> QED BY <2>1, <2>2, <2>3, <2>4
<1> QED BY <1>1, <1>3, <1>4, <1>5, <1>6

\* What a transaction leaves that is over.
LEMMA CallEnded ==
  ASSUME master \in Masters, Transaction, CallOver
  PROVE  /\ master.result \in {"Ok", "NoAcknowledge"} => master.holds = {} /\ slave = IdleSlave
         /\ master.result = "BusBusy" => master.holds = {} /\ slave.holds = {"sda"} /\ timed_out
         /\ master.result # "BusBusy" => ~found_busy
         /\ Writing /\ master.result = "Ok" => Taken
<1>1. master.todo = <<>> /\ master.frames = <<>> BY DEF CallOver
<1>2. /\ AtStop(master, slave)
      /\ Writing /\ master.result = "Ok" => Taken
      /\ master.result = "BusBusy" => timed_out
      /\ master.result # "BusBusy" => ~found_busy
  BY <1>1 DEF Transaction
<1> QED BY <1>1, <1>2, PinsLeft DEF AtStop

\* What the next transaction starts from.
LEMMA QuietBehindCall ==
  ASSUME master \in Masters, Transaction, Return, master'.holds = master.holds, slave' = slave,
         timed_out \in BOOLEAN, found_busy \in BOOLEAN
  PROVE  Quiet'
<1>1. CallOver /\ master.result \in Results BY DEF Return, Masters
<1> QED BY <1>1, CallEnded, SlaveKinds DEF Return, Quiet, Results

\* The next transaction.
LEMMA TransactionCalled ==
  ASSUME master \in Masters, master.todo = <<>>, NEW operations,
         master' = CallTransaction(operations),
         FramesCalled(Frames(operations), Writing'), Quiet'
  PROVE  master' \in Masters /\ master'.call = "transaction" /\ Transaction'
<1>1. /\ master' \in Masters /\ master'.call = "transaction" /\ master'.result = "Ok"
      /\ master'.frames = Frames(operations) /\ master'.bit = 0 /\ master'.todo = <<>>
  <2>1. 0 \in 0 .. BITS BY BusConstants
  <2>2. Frames(operations) \in Seq(Frame) BY DEF FramesCalled
  <2> HIDE DEF Frames
  <2> QED BY <2>1, <2>2 DEF CallTransaction, Masters, Results
<1>2. AtStart(master', slave') BY <1>1 DEF AtStart, NextFrame, FramesCalled
<1> QED BY <1>1, <1>2 DEF Transaction, FramesCalled

-----------------------------------------------------------------------------
(* The theorems                                                             *)

\* The slave a reset of the controller left in any byte is in the invariant.
LEMMA InitIsSound == Init => IInv
<1> SUFFICES ASSUME Init PROVE IInv OBVIOUS
<1>1. /\ 0 \in 0 .. BITS /\ 0 \in 0 .. STRETCH_TIMEOUT - 1 /\ 0 \in 0 .. RECOVERY_PULSES
      /\ 0 \in 0 .. REGISTERS /\ \A clock \in 0 .. BITS : clock \in -1 .. BITS
  BY BusConstants, DriverConstants DEF RECOVERY_PULSES
<1>2. master \in Masters
  <2>1. <<>> \in Seq(Frame) /\ <<>> \in Seq(Pins) OBVIOUS
  <2> QED BY <1>1, <2>1 DEF Init, IdleMaster, Masters, Results
<1>3. slave \in Slaves /\ slave.bytes = 0 /\ "scl" \notin slave.holds
  <2>1. CASE slave = IdleSlave BY <2>1, SlaveKinds
  <2>2. CASE slave \in [mode : {"address", "write", "read"}, clock : 0 .. BITS, read : {FALSE},
                        bytes : {0}, holds : {{}, {"sda"}}]
    <3>1. /\ slave.mode \in {"address", "write", "read"} /\ slave.clock \in 0 .. BITS
          /\ slave.read = FALSE /\ slave.bytes = 0 /\ slave.holds \in {{}, {"sda"}}
          /\ slave = [mode |-> slave.mode, clock |-> slave.clock, read |-> slave.read,
                      bytes |-> slave.bytes, holds |-> slave.holds]
      BY <2>2
    <3>2. slave.clock \in -1 .. BITS /\ slave.holds \subseteq Lines /\ slave.bytes \in 0 .. 2
      BY <1>1, <3>1 DEF Lines
    <3> QED BY <3>1, <3>2 DEF Slaves
  <2> QED BY <2>1, <2>2 DEF Init, AbandonedSlaves
<1>4. Types BY <1>1, <1>2, <1>3 DEF Types, Init
<1>5. Calls BY <1>3 DEF Calls, Init
<1>6. Registers BY DEF Registers, Init
<1> QED BY <1>4, <1>5, <1>6 DEF IInv

\* Every step of the driver, of the bus and of the slave keeps the invariant.
LEMMA StepIsSound == IInv /\ [Next]_vars => IInv'
<1> SUFFICES ASSUME IInv, [Next]_vars PROVE IInv' OBVIOUS
<1>1. /\ master \in Masters /\ slave \in Slaves /\ register \in 0 .. REGISTERS
      /\ programmed \subseteq 1 .. REGISTERS /\ REGISTERS \in Nat \ {0}
      /\ SAMPLE_BYTES \in Nat \ {0}
      /\ timed_out \in BOOLEAN /\ found_busy \in BOOLEAN
  BY DriverConstants DEF IInv, Types
<1>2. \A result : timed_out' = (timed_out \/ result) => timed_out' \in BOOLEAN OBVIOUS
\* The driver gives up on the device.
<1>3. ASSUME Absent, CallOver, slave' = slave, programmed' = programmed,
             timed_out' \in BOOLEAN, found_busy' \in BOOLEAN
      PROVE  IInv'
  <2>1. /\ master' \in Masters /\ master'.call = "idle" /\ master'.todo = <<>>
        /\ master'.frames = <<>> /\ stage' = "absent" /\ register' = register
    BY <1>1, <1>3 DEF Absent, CallOver, Masters
  <2>2. Types' BY <1>1, <1>3, <2>1 DEF Types
  <2>3. Calls' BY <2>1 DEF Calls
  <2>4. Registers' BY <2>1 DEF Registers
  <2> QED BY <2>2, <2>3, <2>4 DEF IInv
\* A transaction is called.
<1>4. ASSUME NEW operations, master' = CallTransaction(operations), master.todo = <<>>,
             FramesCalled(Frames(operations), Writing'), Quiet', slave' = slave,
             stage' \in {"probe", "configure", "run"}, register' \in 0 .. REGISTERS,
             programmed' = programmed, timed_out' \in BOOLEAN, found_busy' \in BOOLEAN,
             Registers'
      PROVE  IInv'
  <2>1. master' \in Masters /\ master'.call = "transaction" /\ Transaction'
    BY <1>1, <1>4, TransactionCalled
  <2>2. Types' BY <1>1, <1>4, <2>1 DEF Types
  <2>3. Calls' BY <1>4, <2>1 DEF Calls
  <2> QED BY <1>4, <2>2, <2>3 DEF IInv
\* A call has returned.
<1>5. ASSUME Return
      PROVE  /\ CallOver /\ master.call # "idle" /\ master.todo = <<>> /\ master.frames = <<>>
             /\ timed_out' \in BOOLEAN /\ found_busy' \in BOOLEAN
  BY <1>5 DEF Return, CallOver
<1>6. CASE Boot
  <2>1. master = IdleMaster /\ slave.bytes = 0 /\ stage = "reset" BY <1>6 DEF Boot, IInv, Calls
  <2>2. /\ stage' = "recover" /\ master' = CallRecover /\ slave' = slave
        /\ UNCHANGED <<register, programmed, timed_out, found_busy>>
    BY <1>6 DEF Boot, history
  <2>3. /\ master' \in Masters /\ master'.call = "recover" /\ master'.frames = <<>>
        /\ master'.todo = Recover4 /\ master'.pulses = 0 /\ master'.result = "Ok"
        /\ master'.holds = {}
    <3>1. 0 \in 0 .. RECOVERY_PULSES BY BusConstants DEF RECOVERY_PULSES
    <3>2. RecoverBus \in Seq(Pins) BY DEF RecoverBus, Pins
    <3>3. RecoverBus = Recover4 BY PinSequences
    <3>4. master.holds = {} /\ master.frames = <<>> BY <2>1 DEF IdleMaster
    <3> QED BY <1>1, <2>2, <3>1, <3>2, <3>3, <3>4 DEF CallRecover, Masters, Results
  <2>4. AtRecovery(master', slave') BY <2>1, <2>2, <2>3 DEF AtRecovery
  <2>5. Types' BY <1>1, <2>2, <2>3 DEF Types
  <2>6. Calls' BY <2>2, <2>3, <2>4 DEF Calls
  <2>7. Registers' BY <2>1, <2>2 DEF IInv, Registers
  <2> QED BY <2>5, <2>6, <2>7 DEF IInv
<1>7. CASE Recovered
  <2>1. /\ stage = "recover" /\ Return /\ slave' = slave /\ programmed' = programmed
        /\ master.call = "recover" /\ AtRecovery(master, slave) /\ ~timed_out /\ ~found_busy
    BY <1>7 DEF Recovered, IInv, Calls, Registers
  <2>2. CASE master.result = "Ok"
    <3>1. /\ stage' = "probe" /\ master' = CallTransaction(WriteRead(1)) /\ register' = register
      BY <1>7, <2>2 DEF Recovered
    <3>2. master.holds = {} /\ slave.holds = {}
      BY <1>5, <2>1, <2>2, PinsLeft DEF AtRecovery
    <3>3. ~timed_out' /\ ~found_busy' BY <2>1, <2>2 DEF Return
    <3>4. master'.holds = {} BY <1>1, <3>1, <3>2 DEF CallTransaction, Masters
    <3>5. Quiet' BY <2>1, <3>2, <3>3, <3>4 DEF Quiet
    <3>6. Registers' BY <3>1, <3>3 DEF Registers
    <3>7. FramesCalled(Frames(WriteRead(1)), Writing')
      <4>1. Writing' = FALSE BY <3>1 DEF Writing
      <4>2. 1 \in Nat \ {0} OBVIOUS
      <4>3. FramesCalled(Frames(WriteRead(1)), FALSE) BY <4>2, ReadFrames
      <4> QED BY <4>1, <4>3
    <3> QED BY <1>1, <1>4, <1>5, <2>1, <3>1, <3>3, <3>5, <3>6, <3>7
  <2>3. CASE master.result # "Ok" BY <1>3, <1>5, <1>7, <2>1, <2>3 DEF Recovered
  <2> QED BY <2>2, <2>3
<1>8. CASE Probed
  <2>1. /\ stage = "probe" /\ Return /\ slave' = slave /\ programmed' = programmed
        /\ master.call = "transaction" /\ Transaction /\ ~timed_out /\ ~found_busy
    BY <1>8 DEF Probed, IInv, Calls, Registers
  <2>2. CASE /\ master.result = "Ok" /\ stage' = "configure" /\ register' = 1
             /\ master' = CallTransaction(WriteU8)
    <3>1. slave = IdleSlave BY <1>1, <1>5, <2>1, <2>2, CallEnded
    <3>2. ~timed_out' /\ ~found_busy' BY <2>1, <2>2 DEF Return
    <3>3. master'.holds = master.holds BY <1>1, <2>2 DEF CallTransaction, Masters
    <3>4. Quiet' BY <1>1, <2>1, <3>3, QuietBehindCall
    <3>5. Registers'
      <4>1. 1 .. register' - 1 \subseteq programmed' /\ register' \in 1 .. REGISTERS
        BY <1>1, <2>2
      <4>2. slave'.bytes = 0 BY <2>1, <3>1, SlaveKinds
      <4> QED BY <2>2, <3>2, <4>1, <4>2 DEF Registers
    <3>6. FramesCalled(Frames(WriteU8), Writing')
      <4>1. Writing' = TRUE BY <2>2 DEF Writing
      <4> QED BY <4>1, WriteFrames
    <3>7. register' \in 0 .. REGISTERS BY <1>1, <2>2
    <3> QED BY <1>1, <1>4, <1>5, <2>1, <2>2, <3>4, <3>5, <3>6, <3>7
  <2>3. CASE Absent BY <1>3, <1>5, <2>1, <2>3
  <2> QED BY <1>8, <2>2, <2>3 DEF Probed
<1>9. CASE Configured
  <2>1. /\ stage = "configure" /\ Return /\ slave' = slave /\ programmed' = programmed
        /\ master.call = "transaction" /\ Transaction /\ ~timed_out /\ ~found_busy
        /\ register \in 1 .. REGISTERS /\ 1 .. register - 1 \subseteq programmed
    BY <1>9 DEF Configured, IInv, Calls, Registers
  <2>2. CASE master.result # "Ok" BY <1>3, <1>5, <1>9, <2>1, <2>2 DEF Configured
  <2>3. ASSUME master.result = "Ok"
        PROVE  /\ slave = IdleSlave /\ ~timed_out' /\ ~found_busy'
               /\ 1 .. register \subseteq programmed
    <3>1. slave = IdleSlave /\ Taken BY <1>1, <1>5, <2>1, <2>3, CallEnded DEF Writing
    <3>2. \A r \in 1 .. register : r \in 1 .. register - 1 \/ r = register BY <1>1, <2>1
    <3> QED BY <2>1, <2>3, <3>1, <3>2 DEF Return, Taken
  <2>4. CASE master.result = "Ok" /\ register < REGISTERS
    <3>1. /\ register' = register + 1 /\ master' = CallTransaction(WriteU8) /\ stage' = stage
      BY <1>9, <2>4 DEF Configured
    <3>2. register' \in 1 .. REGISTERS /\ register' - 1 = register BY <1>1, <2>1, <2>4, <3>1
    <3>3. master'.holds = master.holds BY <1>1, <3>1 DEF CallTransaction, Masters
    <3>4. Quiet' BY <1>1, <2>1, <3>3, QuietBehindCall
    <3>5. Registers' BY <2>1, <2>3, <2>4, <3>1, <3>2, SlaveKinds DEF Registers
    <3>6. FramesCalled(Frames(WriteU8), Writing')
      <4>1. Writing' = TRUE BY <2>1, <3>1 DEF Writing
      <4> QED BY <4>1, WriteFrames
    <3>7. register' \in 0 .. REGISTERS BY <1>1, <3>2
    <3> QED BY <1>1, <1>4, <1>5, <2>1, <3>1, <3>4, <3>5, <3>6, <3>7
  <2>5. CASE master.result = "Ok" /\ ~(register < REGISTERS)
    <3>1. /\ stage' = "run" /\ master' = [master EXCEPT !.call = "idle"] /\ register' = register
      BY <1>9, <2>5 DEF Configured
    <3>2. programmed' = 1 .. REGISTERS
      <4>1. register = REGISTERS BY <1>1, <2>1, <2>5
      <4> QED BY <1>1, <2>1, <2>3, <2>5, <4>1
    <3>3. /\ master' \in Masters /\ master'.call = "idle" /\ master'.todo = <<>>
          /\ master'.frames = <<>> /\ master'.holds = master.holds
      BY <1>1, <1>5, <2>1, <3>1 DEF Masters
    <3>4. Quiet' BY <1>1, <2>1, <3>3, QuietBehindCall
    <3>5. Types' BY <1>1, <1>5, <2>1, <3>1, <3>3 DEF Types
    <3>6. Calls' BY <3>1, <3>3, <3>4 DEF Calls
    <3>7. Registers' BY <3>1, <3>2 DEF Registers
    <3> QED BY <3>5, <3>6, <3>7 DEF IInv
  <2> QED BY <2>2, <2>4, <2>5
<1>10. CASE ReadRaw
  <2>1. /\ stage = "run" /\ master.call = "idle" /\ master' = CallTransaction(WriteRead(SAMPLE_BYTES))
        /\ UNCHANGED <<slave, stage, register, programmed, timed_out, found_busy>>
    BY <1>10 DEF ReadRaw, driver, history
  <2>2. master.todo = <<>> /\ Quiet BY <2>1 DEF IInv, Calls
  <2>3. master'.holds = master.holds BY <1>1, <2>1 DEF CallTransaction, Masters
  <2>4. Quiet' BY <2>1, <2>2, <2>3 DEF Quiet
  <2>5. Registers' BY <2>1 DEF IInv, Registers
  <2>6. FramesCalled(Frames(WriteRead(SAMPLE_BYTES)), Writing')
    <3>1. Writing' = FALSE BY <2>1 DEF Writing
    <3>2. FramesCalled(Frames(WriteRead(SAMPLE_BYTES)), FALSE) BY <1>1, ReadFrames
    <3> QED BY <3>1, <3>2
  <2> QED BY <1>1, <1>4, <2>1, <2>2, <2>4, <2>5, <2>6
<1>11. CASE SampleRead
  <2>1. /\ stage = "run" /\ Return /\ master' = [master EXCEPT !.call = "idle"]
        /\ UNCHANGED <<slave, stage, register, programmed>>
    BY <1>11 DEF SampleRead, driver
  <2>2. Transaction BY <1>5, <2>1 DEF IInv, Calls
  <2>3. /\ master' \in Masters /\ master'.call = "idle" /\ master'.todo = <<>>
        /\ master'.frames = <<>> /\ master'.holds = master.holds
    BY <1>1, <1>5, <2>1 DEF Masters
  <2>4. Quiet' BY <1>1, <2>1, <2>2, <2>3, QuietBehindCall
  <2>5. Types' BY <1>1, <1>5, <2>1, <2>3 DEF Types
  <2>6. Calls' BY <2>1, <2>3, <2>4 DEF Calls
  <2>7. Registers' BY <2>1 DEF IInv, Registers
  <2> QED BY <2>5, <2>6, <2>7 DEF IInv
<1>12. CASE Bus BY <1>12, BusStep
<1>13. CASE UNCHANGED vars
  BY <1>13
  DEF vars, driver, history, IInv, Types, Calls, Registers, Transaction, Quiet, Writing, Taken
<1> QED BY <1>6, <1>7, <1>8, <1>9, <1>10, <1>11, <1>12, <1>13 DEF Next

\* The invariant of the bus and of the driver on it holds in every behaviour.
THEOREM Invariance == Spec => []IInv
BY InitIsSound, StepIsSound, PTL DEF Spec

\* What the invariant says of a call, whatever the stage.
LEMMA CallsByKind ==
  ASSUME IInv
  PROVE  /\ master.call = "transaction" => Transaction
         /\ master.call = "recover" => AtRecovery(master, slave)
<1>1. stage \in {"reset", "recover", "probe", "configure", "run", "absent"} /\ Calls
  BY DEF IInv, Types
<1>2. CASE stage = "reset" BY <1>1, <1>2 DEF Calls, IdleMaster
<1>3. CASE stage = "recover" BY <1>1, <1>3 DEF Calls
<1>4. CASE stage = "probe" \/ stage = "configure" BY <1>1, <1>4 DEF Calls
<1>5. CASE stage = "run" BY <1>1, <1>5 DEF Calls
<1>6. CASE stage = "absent" BY <1>1, <1>6 DEF Calls
<1> QED BY <1>1, <1>2, <1>3, <1>4, <1>5, <1>6

\* While a transaction runs and no held clock has been given up on, the device is at
\* the bit the driver is at; a successful recovery leaves both lines high.
THEOREM AlwaysInStep == Spec => []InStep
<1>1. IInv => InStep
  <2> SUFFICES ASSUME IInv PROVE InStep OBVIOUS
  <2>1. master \in Masters /\ slave \in Slaves BY DEF IInv, Types
  <2>2. TypeOK
    <3>1. Range(master.todo) \subseteq Primitives
      <4>1. Range(master.todo) \subseteq Pins BY <2>1 DEF Masters, Range
      <4>2. \A p \in {Start, Stop, ReadBit, RecoverBus, Pulse} : Range(p) \subseteq Primitives
        BY DEF Primitives
      <4>3. /\ {Start[i] : i \in 1 .. 6} \subseteq Range(Start)
            /\ {ReadBit[i] : i \in 1 .. 5} \subseteq Range(ReadBit)
            /\ {RecoverBus[i] : i \in 1 .. 4} \subseteq Range(RecoverBus)
            /\ {Pulse[i] : i \in 1 .. 4} \subseteq Range(Pulse)
        BY DEF Range, Start, ReadBit, RecoverBus, Pulse
      <4>4. /\ Start[1] = "release_sda" /\ Start[2] = "release_scl" /\ Start[3] = "wait_scl"
            /\ Start[4] = "check_idle" /\ Start[5] = "drive_sda" /\ Start[6] = "drive_scl"
            /\ ReadBit[4] = "sample" /\ RecoverBus[4] = "recovered" /\ Pulse[4] = "pulsed"
        BY DEF Start, ReadBit, RecoverBus, Pulse
      <4>5. "check_ack" \in Primitives /\ "check_bus" \in Primitives BY DEF Primitives
      <4>6. Pins \subseteq Primitives
        <5>1. /\ Start[1] \in Primitives /\ Start[2] \in Primitives /\ Start[3] \in Primitives
              /\ Start[4] \in Primitives /\ Start[5] \in Primitives /\ Start[6] \in Primitives
              /\ ReadBit[4] \in Primitives /\ RecoverBus[4] \in Primitives
              /\ Pulse[4] \in Primitives
          BY <4>2, <4>3
        <5> QED BY <4>4, <4>5, <5>1 DEF Pins
      <4> QED BY <4>1, <4>6
    <3> QED BY <2>1, <3>1 DEF IInv, Types, TypeOK, Masters, Slaves, Results
  <2>3. CallOver /\ master.call = "recover" /\ master.result = "Ok" =>
          High("sda", master, slave) /\ High("scl", master, slave)
    <3> SUFFICES ASSUME CallOver, master.call = "recover", master.result = "Ok"
                 PROVE  High("sda", master, slave) /\ High("scl", master, slave)
      OBVIOUS
    <3>1. AtRecovery(master, slave) BY CallsByKind
    <3>2. master.todo = <<>> BY DEF CallOver
    <3>3. master.holds = {} /\ slave.holds = {} BY <3>1, <3>2, PinsLeft DEF AtRecovery
    <3> QED BY <3>3 DEF High
  <2>4. ASSUME master.call = "transaction", master.todo = <<>>, master.frames # <<>>,
               Head(master.frames).kind \in ByteKinds
        PROVE  \/ slave.mode = Head(master.frames).kind /\ slave.clock = master.bit
               \/ slave = IdleSlave /\ master.bit = BITS /\ Head(master.frames).kind # "read"
    <3>1. Transaction BY <2>4, CallsByKind
    <3>2. \A pin \in Pins, rest \in Seq(Pins) : master.todo # Then(pin, rest) BY <2>4, PinsLeft
    <3>3. "release_sda" \in Pins /\ "check_ack" \in Pins /\ "drive_sda" \in Pins
          /\ "release_scl" \in Pins /\ "wait_scl" \in Pins /\ "sample" \in Pins
          /\ "drive_scl" \in Pins /\ "check_idle" \in Pins
      BY DEF Pins
    <3>4. ~AtStart(master, slave)
      BY <2>4, <3>2, <3>3, PinSuffixes
      DEF AtStart, NextFrame, ByteKinds, Start6, Start5, Start4, Start3
    <3>5. ~AtBegin(master, slave) /\ ~AtRestart(master, slave)
      BY <3>2, <3>3, PinSuffixes DEF AtBegin, Begin, Begun, AtRestart, Restart3, Restart4, Restart5
    <3>6. ~AtBit(master, slave, Writing)
      <4>1. ASSUME NEW frame \in Frame, NEW bit \in 0 .. BITS, NEW free \in BOOLEAN,
                   NEW second, frame.kind \in ByteKinds
            PROVE  ~InBit(master, slave, frame, bit, second, free)
        <5>1. /\ Behind(frame.kind, bit) \in Seq(Pins) /\ Fall(frame.kind, bit) \in Seq(Pins)
              /\ Work(frame.kind, bit) \in Seq(Pins) /\ Wait(frame.kind, bit) \in Seq(Pins)
              /\ Free(frame.kind, bit) \in Seq(Pins)
          BY <4>1, BitSuffixes
        <5>2. /\ master.todo # Free(frame.kind, bit) /\ master.todo # Wait(frame.kind, bit)
              /\ master.todo # Fall(frame.kind, bit)
          BY <3>2, <3>3, <5>1 DEF Free, Wait, Fall
        <5>3. Reading(frame.kind, bit) => master.todo # Work(frame.kind, bit)
          BY <3>2, <3>3, <5>1 DEF Work
        <5>4. master.todo # Then(IF free THEN "release_sda" ELSE "drive_sda", Free(frame.kind, bit))
          BY <3>2, <3>3, <5>1
        <5> QED BY <5>2, <5>3, <5>4 DEF InBit, BeforeRise, AfterRise
      <4> QED BY <4>1 DEF AtBit
    <3>7. ~AfterByte(master, slave, Writing, Taken)
      BY <3>2, <3>3, PinSuffixes DEF AfterByte
    <3>8. Between(master, slave, Writing, Taken)
      BY <2>4, <3>1, <3>4, <3>5, <3>6, <3>7 DEF Transaction
    <3> QED BY <2>4, <3>8 DEF Between, NextFrame, ByteKinds, Low, At
  <2> QED BY <2>2, <2>3, <2>4 DEF InStep, ByteKinds
<1> QED BY <1>1, Invariance, PTL

\* Whatever the device answered, a transaction leaves the bus idle, unless a held
\* clock was given up on; then, and only then, can a later one find it busy.
THEOREM TransactionLeavesBusIdle == Spec => []BusLeftIdle
<1>1. IInv => BusLeftIdle
  <2> SUFFICES ASSUME IInv, CallOver, master.call = "transaction"
               PROVE  /\ ~Stretched => master.holds = {} /\ slave = IdleSlave
                      /\ master.result = "BusBusy" => timed_out /\ "sda" \in slave.holds
                      /\ found_busy => master.result # "Ok"
    BY DEF BusLeftIdle
  <2>1. master \in Masters /\ master.result \in Results BY DEF IInv, Types, Masters
  <2>2. Transaction BY CallsByKind
  <2>3. /\ master.result \in {"Ok", "NoAcknowledge"} => master.holds = {} /\ slave = IdleSlave
        /\ master.result = "BusBusy" => slave.holds = {"sda"} /\ timed_out
        /\ master.result # "BusBusy" => ~found_busy
    BY <2>1, <2>2, CallEnded
  <2> QED BY <2>1, <2>3 DEF Stretched, Results
<1> QED BY <1>1, Invariance, PTL

\* A device whose interrupt is enabled has taken a value for every register.
THEOREM RunningIsProgrammed == Spec => []RunsProgrammed
<1>1. IInv => RunsProgrammed BY DEF IInv, Registers, RunsProgrammed
<1> QED BY <1>1, Invariance, PTL
=============================================================================
