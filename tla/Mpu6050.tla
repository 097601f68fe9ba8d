------------------------------ MODULE Mpu6050 -------------------------------
(***************************************************************************)
(* The MPU6050 driver on the software bus, as every target uses it: init   *)
(* recovers the bus, probes and configures the device, and enables its     *)
(* interrupt only if all of that succeeded; each event then reads a sample.*)
(* A failed read is reported and the next event tries again; the bus is    *)
(* not recovered a second time.                                            *)
(***************************************************************************)
EXTENDS SoftwareI2c

CONSTANTS
  REGISTERS,     (* configuration registers configure() writes              *)
  SAMPLE_BYTES   (* bytes of one raw sample                                 *)

ASSUME DriverConstants == REGISTERS \in Nat \ {0} /\ SAMPLE_BYTES \in Nat \ {0}

VARIABLES
  stage,       (* how far init has got, then "run" or "absent"              *)
  register,    (* the register configure() is writing                       *)
  programmed,  (* the registers the device has taken a value for            *)
  timed_out,   (* history: a held clock has ended a call                    *)
  found_busy   (* history: a transaction has found the bus busy             *)

driver  == <<stage, register>>
history == <<timed_out, found_busy>>
vars    == <<master, slave, driver, programmed, history>>

WriteU8      == <<[read |-> FALSE, length |-> 2]>>
WriteRead(n) == <<[read |-> FALSE, length |-> 1], [read |-> TRUE, length |-> n]>>

\* The controller may have been reset in the middle of any byte: the slave waits
\* for the next clock, and may be holding SDA for a bit or an acknowledge.
AbandonedSlaves ==
  {IdleSlave} \cup
  {s \in [mode : {"address", "write", "read"}, clock : 0 .. BITS, read : {FALSE},
          bytes : {0}, holds : {{}, {"sda"}}] :
     "sda" \in s.holds => (s.mode = "read") # (s.clock = BITS)}

Init ==
  /\ master = IdleMaster
  /\ slave \in AbandonedSlaves
  /\ stage = "reset" /\ register = 0
  /\ programmed = {} /\ timed_out = FALSE /\ found_busy = FALSE

\* init, by its successive calls: recover_bus, probe and configure.
Boot ==
  /\ stage = "reset"
  /\ stage' = "recover" /\ master' = CallRecover
  /\ UNCHANGED <<slave, register, programmed, history>>

Return ==
  /\ CallOver
  /\ timed_out'  = (timed_out \/ master.result = "ClockStretchTimeout")
  /\ found_busy' = (found_busy \/ (master.call = "transaction" /\ master.result = "BusBusy"))

Absent == stage' = "absent" /\ master' = [master EXCEPT !.call = "idle"] /\ UNCHANGED register

Recovered ==
  /\ stage = "recover" /\ Return
  /\ IF master.result = "Ok"
     THEN /\ stage' = "probe" /\ master' = CallTransaction(WriteRead(1))
          /\ UNCHANGED register
     ELSE Absent
  /\ UNCHANGED <<slave, programmed>>

\* The identity read may be the device's or not.
Probed ==
  /\ stage = "probe" /\ Return
  /\ \/ /\ master.result = "Ok"
        /\ stage' = "configure" /\ register' = 1 /\ master' = CallTransaction(WriteU8)
     \/ Absent
  /\ UNCHANGED <<slave, programmed>>

\* Mutation of Configured: a write that failed is passed over.
ConfiguredAnyway ==
  /\ stage = "configure" /\ Return
  /\ IF register < REGISTERS
     THEN /\ register' = register + 1 /\ master' = CallTransaction(WriteU8)
          /\ UNCHANGED stage
     ELSE /\ stage' = "run" /\ master' = [master EXCEPT !.call = "idle"]
          /\ UNCHANGED register
  /\ UNCHANGED <<slave, programmed>>

\* The next register, or the interrupt is enabled; the first error ends it.
Configured ==
  /\ stage = "configure" /\ Return
  /\ IF master.result # "Ok" THEN Absent
     ELSE IF register < REGISTERS
     THEN /\ register' = register + 1 /\ master' = CallTransaction(WriteU8)
          /\ UNCHANGED stage
     ELSE /\ stage' = "run" /\ master' = [master EXCEPT !.call = "idle"]
          /\ UNCHANGED register
  /\ UNCHANGED <<slave, programmed>>

\* A sensor event: read_raw.
ReadRaw ==
  /\ stage = "run" /\ master.call = "idle"
  /\ master' = CallTransaction(WriteRead(SAMPLE_BYTES))
  /\ UNCHANGED <<slave, driver, programmed, history>>

SampleRead ==
  /\ stage = "run" /\ Return
  /\ master' = [master EXCEPT !.call = "idle"]
  /\ UNCHANGED <<slave, driver, programmed>>

\* The bus at work; the device takes a register with the second byte it acknowledges.
Bus ==
  /\ Drive \/ ReleaseClock
  /\ programmed' = IF stage = "configure" /\ slave.bytes = 1 /\ slave'.bytes = 2
                   THEN programmed \cup {register} ELSE programmed
  /\ UNCHANGED <<driver, history>>

Next == Boot \/ Recovered \/ Probed \/ Configured \/ ReadRaw \/ SampleRead \/ Bus

Spec == Init /\ [][Next]_vars

\* The core executes the driver.  Nothing is assumed of the slave.
FairSpec ==
  /\ Spec
  /\ WF_vars(Bus /\ Drive)
  /\ WF_vars(Recovered \/ Probed \/ Configured \/ SampleRead)
-----------------------------------------------------------------------------
(* Properties                                                               *)

TypeOK ==
  /\ stage \in {"reset", "recover", "probe", "configure", "run", "absent"}
  /\ register \in 0 .. REGISTERS /\ programmed \subseteq 1 .. REGISTERS
  /\ timed_out \in BOOLEAN /\ found_busy \in BOOLEAN
  /\ master.call \in {"idle", "recover", "transaction"}
  /\ master.bit \in 0 .. BITS /\ master.pulses \in 0 .. RECOVERY_PULSES
  /\ master.polls \in 0 .. STRETCH_TIMEOUT - 1 /\ master.sampled \in BOOLEAN
  /\ master.result \in {"Ok", "BusBusy", "NoAcknowledge", "ClockStretchTimeout"}
  /\ Range(master.todo) \subseteq Primitives /\ master.holds \subseteq Lines
  /\ slave \in [mode : {"idle", "address", "write", "read"}, clock : -1 .. BITS,
                read : BOOLEAN, bytes : 0 .. 2, holds : SUBSET Lines]

Stretched == timed_out \/ master.result = "ClockStretchTimeout"

\* Whatever the slave answered, a transaction leaves the bus idle: the master
\* holds no line, the slave has seen the STOP and holds none either.  Only a
\* held clock that was given up on may leave it otherwise; and a bus found busy
\* is one on which a slave was then left in the middle of a byte, holding SDA.
\* As init alone calls recover_bus, no transaction after that ever succeeds.
BusLeftIdle ==
  CallOver /\ master.call = "transaction" =>
    /\ ~Stretched => master.holds = {} /\ slave = IdleSlave
    /\ master.result = "BusBusy" => timed_out /\ "sda" \in slave.holds
    /\ found_busy => master.result # "Ok"

\* Recovery from a reset in the middle of any byte makes the next START possible,
\* and until a held clock is given up on the slave is at the bit of the byte the
\* master is at, and sends exactly while the master reads.
InStep ==
  /\ TypeOK
  /\ CallOver /\ master.call = "recover" /\ master.result = "Ok" =>
       High("sda", master, slave) /\ High("scl", master, slave)
  /\ ~Stretched /\ master.call = "transaction" /\ master.todo = <<>> /\ master.frames # <<>>
       /\ Head(master.frames).kind \in {"address", "write", "read"} =>
     \/ slave.mode = Head(master.frames).kind /\ slave.clock = master.bit
     \/ slave = IdleSlave /\ master.bit = BITS /\ Head(master.frames).kind # "read"

\* A device whose interrupt is enabled has taken every register, whatever went
\* wrong on the way.
RunsProgrammed == stage = "run" => programmed = 1 .. REGISTERS

\* Every call returns, also on a clock that is held for ever.
CallsEnd == master.call # "idle" ~> master.call = "idle"
=============================================================================
