---------------------------- MODULE SoftwareI2c -----------------------------
(***************************************************************************)
(* The bit-banged, single-master I2C bus of firmware/buses/software-i2c,   *)
(* line by line, and a slave on it.                                        *)
(*                                                                         *)
(* Both lines are open drain: a line is high while nobody holds it low.    *)
(* The master runs a transaction as a list of frames (start, bytes,        *)
(* restart, stop), a frame as a list of primitives on the two pins, and    *)
(* may find the clock held by a slave at every one of them.  The slave is  *)
(* nobody's code: it follows the edges it sees, acknowledges or not, sends *)
(* any data, and may hold the clock after any falling edge for any time.   *)
(***************************************************************************)
EXTENDS Integers, SequencesExt

CONSTANTS
  BITS,             (* bits of a byte                                       *)
  STRETCH_TIMEOUT   (* polls of a held clock before the master gives up     *)

\* SoftwareI2c::new raises a zero timeout to one.
ASSUME BusConstants == BITS \in Nat /\ BITS >= 2 /\ STRETCH_TIMEOUT \in Nat \ {0}

\* A byte and its acknowledge bit: recover_bus pulses the clock nine times.
RECOVERY_PULSES == BITS + 1

VARIABLES
  master,  (* the driver: its pins and where it is in its call              *)
  slave    (* the device: its pins and where it is in the frame             *)

Lines == {"sda", "scl"}

High(line, m, s) == line \notin m.holds \cup s.holds
-----------------------------------------------------------------------------
(* The slave.                                                               *)

IdleSlave == [mode |-> "idle", clock |-> -1, read |-> FALSE, bytes |-> 0, holds |-> {}]

Addressed(s) == s.mode # "idle"

\* The clock rises: the direction bit of the address, and the master's answer
\* to a byte the slave has sent.
OnClockRise(s, sda) ==
  CASE s.mode = "address" /\ s.clock = BITS - 1 -> [s EXCEPT !.read = sda]
    [] s.mode = "read" /\ s.clock = BITS /\ sda -> IdleSlave
    [] OTHER -> s

\* The clock falls: the next bit of the byte, or the first one of the next.  The
\* slave changes SDA now, for this bit, and may hold the clock.
OnClockFall(s) ==
  LET clock == IF s.clock = BITS THEN 0 ELSE s.clock + 1
      mode  == IF s.mode = "address" /\ clock = 0 /\ s.clock = BITS
               THEN IF s.read THEN "read" ELSE "write" ELSE s.mode
      drive(sda, bytes) ==
        {[s EXCEPT !.mode = mode, !.clock = clock, !.bytes = bytes,
                   !.holds = IF stretch THEN sda \cup {"scl"} ELSE sda] : stretch \in BOOLEAN}
  IN  IF ~Addressed(s) THEN {s}
      ELSE CASE mode = "read" /\ clock < BITS -> drive({}, 0) \cup drive({"sda"}, 0)
             [] mode = "read" /\ clock = BITS -> drive({}, 0)
             [] mode # "read" /\ clock < BITS -> drive({}, s.bytes)
             [] mode # "read" /\ clock = BITS ->
                  {IdleSlave} \cup drive({"sda"}, IF mode = "write" THEN s.bytes + 1 ELSE 0)

\* What the slave may become when the master's pins go from m to n.  SDA moving
\* while the clock is high is a START or a STOP, whoever meant it.
Reactions(s, m, n) ==
  LET was(line) == High(line, m, s)
      is(line)  == High(line, n, s)
  IN  CASE was("scl") /\ is("scl") /\ was("sda") /\ ~is("sda") ->
             {[IdleSlave EXCEPT !.mode = "address"]}
        [] was("scl") /\ is("scl") /\ ~was("sda") /\ is("sda") -> {IdleSlave}
        [] ~was("scl") /\ is("scl") -> {OnClockRise(s, is("sda"))}
        [] was("scl") /\ ~is("scl") -> OnClockFall(s)
        [] OTHER -> {s}

\* The slave lets go of the clock it holds.
ReleaseClock ==
  /\ "scl" \in slave.holds
  /\ LET freed == [slave EXCEPT !.holds = @ \ {"scl"}]
     IN  slave' = IF High("scl", master, freed)
                  THEN OnClockRise(freed, High("sda", master, freed)) ELSE freed
  /\ UNCHANGED master
-----------------------------------------------------------------------------
(* The pin sequences of the driver.                                         *)

Start         == <<"release_sda", "release_scl", "wait_scl", "check_idle", "drive_sda", "drive_scl">>
RepeatedStart == <<"release_sda", "release_scl", "wait_scl", "drive_sda", "drive_scl">>
Stop          == <<"drive_sda", "release_scl", "wait_scl", "release_sda">>
ReadBit       == <<"release_sda", "release_scl", "wait_scl", "sample", "drive_scl">>

\* Mutation of WriteBit: SDA is set after the clock has risen.
WriteBitLate(high) ==
  <<"release_scl", "wait_scl", IF high THEN "release_sda" ELSE "drive_sda", "drive_scl">>

WriteBit(high) ==
  <<IF high THEN "release_sda" ELSE "drive_sda", "release_scl", "wait_scl", "drive_scl">>

\* recover_bus: up to RECOVERY_PULSES pulses, then a STOP.
RecoverBus == <<"release_sda", "release_scl", "wait_scl", "recovered">>
Pulse      == <<"drive_scl", "release_scl", "wait_scl", "pulsed">>

Primitives == (UNION {Range(p) : p \in {Start, Stop, ReadBit, RecoverBus, Pulse}})
                \cup {"check_ack", "check_bus"}

\* A data byte follows this read without a write in between.
HasFollowingReadData(operations, index) ==
  \E next \in index + 1 .. Len(operations) :
    /\ operations[next].length > 0
    /\ \A i \in index + 1 .. next : operations[i].read

\* Mutation of Acknowledged: every byte is acknowledged.
AcknowledgedAlways(operations, index, byte) == TRUE

\* Every byte that is read is acknowledged but the last one.
Acknowledged(operations, index, byte) ==
  byte < operations[index].length \/ HasFollowingReadData(operations, index)

AddressFrames(operations, index) ==
  LET address == [kind |-> "address", high |-> operations[index].read]
      restart == [kind |-> "restart", high |-> FALSE]
  IN  IF index = 1 THEN <<address>>
      ELSE IF operations[index - 1].read # operations[index].read
           THEN <<restart, address>> ELSE <<>>

\* transaction(): the frames of a list of operations.  "high" is the direction
\* bit of an address, and the acknowledge bit, inverted, of a byte that is read.
Frames(operations) ==
  LET data(index) ==
        [byte \in 1 .. operations[index].length |->
           IF operations[index].read
           THEN [kind |-> "read", high |-> ~Acknowledged(operations, index, byte)]
           ELSE [kind |-> "write", high |-> FALSE]]
  IN  <<[kind |-> "start", high |-> FALSE]>>
        \o FlattenSeq([index \in 1 .. Len(operations) |->
                         AddressFrames(operations, index) \o data(index)])
        \o <<[kind |-> "stop", high |-> FALSE]>>
-----------------------------------------------------------------------------
(* The driver at work.                                                      *)

IdleMaster ==
  [call |-> "idle", frames |-> <<>>, bit |-> 0, todo |-> <<>>, polls |-> 0, pulses |-> 0,
   sampled |-> TRUE, result |-> "Ok", holds |-> {}]

CallRecover ==
  [master EXCEPT !.call = "recover", !.todo = RecoverBus, !.pulses = 0, !.result = "Ok"]

CallTransaction(operations) ==
  [master EXCEPT !.call = "transaction", !.frames = Frames(operations), !.bit = 0,
                 !.result = "Ok"]

\* An error ends the call; a transaction still issues a STOP, whose own error
\* is dropped.
Failed(error) ==
  [master EXCEPT !.todo = IF master.call = "transaction" /\ master.result = "Ok"
                          THEN Stop ELSE <<>>,
                 !.frames = <<>>, !.polls = 0, !.result = IF @ = "Ok" THEN error ELSE @]

\* write_byte, read_byte, start, repeated_start and stop, a bit at a time: the pin
\* sequences of the next one, and where the list of frames is after it.
NextBit(frame, bit) ==
  CASE frame.kind = "start"   -> {Start}
    [] frame.kind = "restart" -> {RepeatedStart}
    [] frame.kind = "stop"    -> {Stop}
    [] frame.kind = "read" /\ bit < BITS -> {ReadBit}
    [] frame.kind = "read" /\ bit = BITS -> {WriteBit(frame.high) \o <<"release_sda">>}
    [] frame.kind \in {"address", "write"} /\ bit = BITS -> {ReadBit \o <<"check_ack">>}
    [] frame.kind = "address" /\ bit = BITS - 1 -> {WriteBit(frame.high)}
    [] OTHER -> {WriteBit(TRUE), WriteBit(FALSE)}

TakeBit ==
  /\ master.todo = <<>> /\ master.frames # <<>>
  /\ LET frame == Head(master.frames)
         last  == frame.kind \in {"start", "restart", "stop"} \/ master.bit = BITS
     IN  \E todo \in NextBit(frame, master.bit) :
           master' = [master EXCEPT !.todo = todo,
                                    !.bit = IF last THEN 0 ELSE @ + 1,
                                    !.frames = IF last THEN Tail(@) ELSE @]
  /\ UNCHANGED slave

\* The driver goes on to the statement after the one just executed.
Done == [master EXCEPT !.todo = Tail(@)]

\* One primitive on the pins.
DrivePin ==
  /\ master.todo # <<>>
  /\ \E line \in Lines :
       \/ /\ Head(master.todo) = (IF line = "sda" THEN "drive_sda" ELSE "drive_scl")
          /\ master' = [Done EXCEPT !.holds = @ \cup {line}]
       \/ /\ Head(master.todo) = (IF line = "sda" THEN "release_sda" ELSE "release_scl")
          /\ master' = [Done EXCEPT !.holds = @ \ {line}]
  /\ slave' \in Reactions(slave, master, master')

\* Mutation of WaitClock: the poll is not counted.
WaitClockUncounted ==
  /\ master.todo # <<>> /\ Head(master.todo) = "wait_scl"
  /\ master' = IF High("scl", master, slave) THEN Done ELSE master
  /\ UNCHANGED slave

\* release_scl polls the clock it has released.
WaitClock ==
  /\ master.todo # <<>> /\ Head(master.todo) = "wait_scl"
  /\ master' = IF High("scl", master, slave) THEN [Done EXCEPT !.polls = 0]
               ELSE IF master.polls + 1 < STRETCH_TIMEOUT THEN [master EXCEPT !.polls = @ + 1]
               ELSE Failed("ClockStretchTimeout")
  /\ UNCHANGED slave

\* The decisions the driver takes on the level of SDA.
SampleData ==
  /\ master.todo # <<>>
  /\ LET high == High("sda", master, slave)
     IN  \/ /\ Head(master.todo) = "sample"
            /\ master' = [Done EXCEPT !.sampled = high]
         \/ /\ Head(master.todo) = "check_ack"
            /\ master' = IF master.sampled THEN Failed("NoAcknowledge") ELSE Done
         \/ /\ Head(master.todo) = "check_idle"
            /\ master' = IF high THEN Done ELSE Failed("BusBusy")
         \/ /\ Head(master.todo) = "recovered"
            /\ master' = [master EXCEPT !.todo = IF high THEN <<>> ELSE Pulse]
         \/ /\ Head(master.todo) = "pulsed"
            /\ master' = [master EXCEPT !.pulses = @ + 1,
                            !.todo = IF high \/ master.pulses + 1 = RECOVERY_PULSES
                                     THEN Stop \o <<"check_bus">> ELSE Pulse]
         \/ /\ Head(master.todo) = "check_bus"
            /\ master' = IF high /\ High("scl", master, slave) THEN Done
                         ELSE Failed("BusBusy")
  /\ UNCHANGED slave

\* The call is over, with the result in master.result.
CallOver == master.call # "idle" /\ master.todo = <<>> /\ master.frames = <<>>

Drive == TakeBit \/ DrivePin \/ WaitClock \/ SampleData
=============================================================================
