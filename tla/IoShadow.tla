------------------------------ MODULE IoShadow ------------------------------
(***************************************************************************)
(* The outputs of the io-shadow target: one timer task that publishes      *)
(* telemetry every TELEMETRY_DECIMATION-th tick and shows a status page    *)
(* every OLED_DECIMATION-th.  Neither output keeps a queue: what the       *)
(* transport or the display does not take at once is gone.                 *)
(*                                                                         *)
(* What they may answer is a constant.  The target's own stand-ins always  *)
(* take what they are given; the traits they implement, which real ones    *)
(* will too, also allow for busy ones and errors.                          *)
(***************************************************************************)
EXTENDS Integers

CONSTANTS
  TELEMETRY_DECIMATION, OLED_DECIMATION,
  U32_RANGE,        (* tick, sequence and the counters are u32              *)
  TransportAnswers, (* of try_write                                         *)
  DisplayAnswers,   (* of try_present                                       *)
  MaxTicks          (* bound: ticks of a behaviour                          *)

Answers == {"Done", "Busy", "Error"}     \* Written, Presented; Busy; an Err

ASSUME IoShadowConstants ==
  /\ {TELEMETRY_DECIMATION, OLED_DECIMATION} \subseteq 1 .. U32_RANGE
  /\ U32_RANGE \in Nat \ {0} /\ U32_RANGE % TELEMETRY_DECIMATION = 0
  /\ TransportAnswers \subseteq Answers /\ TransportAnswers # {}
  /\ DisplayAnswers \subseteq Answers /\ DisplayAnswers # {}
  /\ MaxTicks \in Nat

VARIABLES
  tick,
  telemetry,     (* TelemetryPublisher: next_sequence and its statistics    *)
  oled,          (* OledPresenter's statistics                              *)
  page,          (* the page to be shown next                               *)
  packet,        (* the last packet the transport took                      *)
  shown,         (* the page on the display                                 *)
  seen           (* history: ticks; each output's failed attempts, its      *)
                 (* attempts since the last it made, and since when it has   *)
                 (* not been tried                                          *)

outputs == <<tick, telemetry, oled, page, packet, shown, seen>>

Increment(n) == (n + 1) % U32_RANGE

Nothing == [sequence |-> -1, sample_index |-> 0]

\* init: ShadowDisplay holds a blank frame.
InitOutputs ==
  /\ tick = 0
  /\ telemetry = [next_sequence |-> 0, opportunities |-> 0, done |-> 0, busy |-> 0]
  /\ oled = [opportunities |-> 0, done |-> 0, busy |-> 0]
  /\ page = "Overview"
  /\ packet = Nothing
  /\ shown = "blank"
  /\ seen = [ticks |-> 0,
             telemetry |-> [errors |-> 0, silent |-> 0, untried |-> 0],
             oled      |-> [errors |-> 0, silent |-> 0, untried |-> 0]]

-----------------------------------------------------------------------------
\* What both publishers do with their statistics; an Err leaves before the count.
Counted(stats, answer) ==
  LET tried == [stats EXCEPT !.opportunities = Increment(@)]
  IN  CASE answer = "Done"  -> [tried EXCEPT !.done = Increment(@)]
        [] answer = "Busy"  -> [tried EXCEPT !.busy = Increment(@)]
        [] answer = "Error" -> tried

\* encode_runtime_packet of telemetry_snapshot, without the measurements, which
\* the target leaves at rest.
Packet(at) == [sequence |-> telemetry.next_sequence, sample_index |-> at]

\* Mutation of PublishLatest: a packet that is not sent does not use its number.
PublishReusingSequence(at, answer) ==
  /\ telemetry' = LET counted == Counted(telemetry, answer) IN
                  IF answer = "Done"
                  THEN [counted EXCEPT !.next_sequence = Increment(@)] ELSE counted
  /\ packet' = IF answer = "Done" THEN Packet(at) ELSE packet

\* TelemetryPublisher::publish_latest, over Ecb02TelemetryTransport::try_send.
PublishLatest(at, answer) ==
  /\ telemetry' = [Counted(telemetry, answer)
                     EXCEPT !.next_sequence = Increment(@)]
  /\ packet' = IF answer = "Done" THEN Packet(at) ELSE packet

\* StatusPage::next
NextPage(p) == CASE p = "Overview" -> "Control"
                 [] p = "Control"  -> "Health"
                 [] p = "Health"   -> "Overview"

\* OledRenderer::render and OledPresenter::present_latest; the page is turned
\* whether or not the frame was taken.
PresentLatest(answer) ==
  /\ oled' = Counted(oled, answer)
  /\ shown' = IF answer = "Done" THEN page ELSE shown
  /\ page' = NextPage(page)

Tried(history, answer) ==
  [errors  |-> history.errors + (IF answer = "Error" THEN 1 ELSE 0),
   silent  |-> IF answer = "Done" THEN 0 ELSE history.silent + 1,
   untried |-> 0]

Untried(history) == [history EXCEPT !.untried = @ + 1]

\* output_cadence
OutputCadence ==
  LET at == Increment(tick)
  IN  /\ seen.ticks < MaxTicks
      /\ tick' = at
      /\ \E written \in TransportAnswers, presented \in DisplayAnswers :
           /\ IF at % TELEMETRY_DECIMATION = 0
              THEN PublishLatest(at, written)
              ELSE UNCHANGED <<telemetry, packet>>
           /\ IF at % OLED_DECIMATION = 0
              THEN PresentLatest(presented)
              ELSE UNCHANGED <<oled, page, shown>>
           /\ seen' = [ticks |-> seen.ticks + 1,
                       telemetry |-> IF at % TELEMETRY_DECIMATION = 0
                                     THEN Tried(seen.telemetry, written)
                                     ELSE Untried(seen.telemetry),
                       oled |-> IF at % OLED_DECIMATION = 0
                                THEN Tried(seen.oled, presented)
                                ELSE Untried(seen.oled)]

\* Bound: the behaviour is over.
Over == seen.ticks = MaxTicks /\ UNCHANGED outputs

NextOutputs == OutputCadence \/ Over

OutputsSpec == InitOutputs /\ [][NextOutputs]_outputs

-----------------------------------------------------------------------------
(* Properties                                                               *)

Statistics == [opportunities : 0 .. U32_RANGE - 1, done : 0 .. U32_RANGE - 1,
               busy : 0 .. U32_RANGE - 1]

Pages == {"Overview", "Control", "Health"}

OutputsTyped ==
  /\ tick \in 0 .. U32_RANGE - 1
  /\ oled \in Statistics
  /\ telemetry \in [next_sequence : 0 .. U32_RANGE - 1, opportunities : 0 .. U32_RANGE - 1,
                    done : 0 .. U32_RANGE - 1, busy : 0 .. U32_RANGE - 1]
  /\ page \in Pages /\ shown \in Pages \cup {"blank"}

\* The attempts that failed can be told from the statistics, although nothing
\* counts them.
ErrorsInferred(stats, history) ==
  (stats.opportunities - stats.done - stats.busy - history.errors) % U32_RANGE = 0

\* The numbers missing before the next packet are the attempts since the last.
GapIsSilence ==
  packet # Nothing =>
    (telemetry.next_sequence - packet.sequence - 1 - seen.telemetry.silent) % U32_RANGE = 0

\* A packet's two numbers agree about when it was made.
PacketDatesItself ==
  packet # Nothing =>
    packet.sample_index = ((packet.sequence + 1) * TELEMETRY_DECIMATION) % U32_RANGE

\* The display is as many pages behind as it refused in a row.
Later(p, turns) == IF turns % 3 = 0 THEN p ELSE IF turns % 3 = 1 THEN NextPage(p)
                   ELSE NextPage(NextPage(p))
DisplayIsRecent == shown # "blank" => page = Later(shown, seen.oled.silent + 1)

\* No output is tried later than its cadence, and the display's one, whose
\* decimation does not divide the counter's range, is early after a wrap.
CadenceKept == /\ seen.telemetry.untried < TELEMETRY_DECIMATION
               /\ seen.oled.untried < OLED_DECIMATION

\* What a receiver and a debugger conclude is what happened: across busy
\* transports, errors that nothing counts and counters that wrap, lost packets
\* show as a gap of as many numbers, a packet tells when it was made, the failed
\* attempts are the difference of the statistics, the display is as stale as it
\* was refused, and no output is late.
OutputsTell ==
  /\ OutputsTyped
  /\ ErrorsInferred(telemetry, seen.telemetry) /\ ErrorsInferred(oled, seen.oled)
  /\ GapIsSilence /\ PacketDatesItself /\ DisplayIsRecent /\ CadenceKept

-----------------------------------------------------------------------------
(* The inductive invariant behind the theorem.                              *)

History == [errors : Nat, silent : Nat, untried : Nat]

HistoryTyped ==
  /\ seen \in [ticks : Nat, telemetry : History, oled : History]
  /\ packet \in [sequence : 0 .. U32_RANGE - 1, sample_index : 0 .. U32_RANGE - 1]
                  \cup {Nothing}

\* Since an output was tried the tick has moved on from a multiple of its
\* decimation, and the telemetry's multiples are its sequence numbers.
CountersInStep ==
  /\ seen.telemetry.untried = tick % TELEMETRY_DECIMATION
  /\ seen.oled.untried = tick % OLED_DECIMATION
  /\ (telemetry.next_sequence * TELEMETRY_DECIMATION + seen.telemetry.untried - tick)
        % U32_RANGE = 0

OutputsInv == OutputsTell /\ HistoryTyped /\ CountersInStep
=============================================================================
