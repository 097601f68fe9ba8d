------------------------- MODULE ObservationRecord --------------------------
(***************************************************************************)
(* The records that leave the targets: how the times of a raw observation  *)
(* are written as offsets from its start and read back, and what each of   *)
(* the three decoders makes of a record that was damaged or was written by *)
(* another encoder.  Fields that are copied are left out.                  *)
(*                                                                         *)
(* Every offset but one is unsigned, and its largest value stands for a    *)
(* time that is not known; the sensor may have taken its sample before the *)
(* acquisition began, so that offset is signed, and its least value stands *)
(* for an unknown time.                                                    *)
(***************************************************************************)
EXTENDS Integers

CONSTANTS
  CLOCK_RANGE,     (* microseconds of the u64 clock                         *)
  OFFSET_RANGE     (* values of a 32-bit offset                             *)

ASSUME RecordWidths ==
  /\ CLOCK_RANGE \in Nat \ {0}
  /\ OFFSET_RANGE \in Nat /\ OFFSET_RANGE % 2 = 0 /\ OFFSET_RANGE >= 4

Times == 0 .. CLOCK_RANGE - 1
Unknown == -1
TimestampEvidence == Times \cup {Unknown}

UNKNOWN_OFFSET_US == OFFSET_RANGE - 1
UNKNOWN_SAMPLE_OFFSET_US == -(OFFSET_RANGE \div 2)

-----------------------------------------------------------------------------
(* Times.  One capture time stands for those of the read and the channels.  *)

Observations == [started : Times, completed : Times, sampled : TimestampEvidence,
                 captured : TimestampEvidence]

\* Mutation of ForwardOffset: the difference is cut to 32 bits.
ForwardOffsetCut(base, timestamp) == (timestamp - base) % OFFSET_RANGE

\* checked_sub, and u32::try_from.
ForwardOffset(base, timestamp) ==
  IF timestamp - base \in 0 .. OFFSET_RANGE - 1 THEN timestamp - base ELSE UNKNOWN_OFFSET_US

EvidenceOffset(base, timestamp) ==
  IF timestamp = Unknown THEN UNKNOWN_OFFSET_US ELSE ForwardOffset(base, timestamp)

\* i32::try_from, and a negative offset no longer than i32::MAX.
SignedEvidenceOffset(base, timestamp) ==
  LET reach == OFFSET_RANGE \div 2 - 1
  IN  IF timestamp # Unknown /\ timestamp - base \in -reach .. reach
      THEN timestamp - base ELSE UNKNOWN_SAMPLE_OFFSET_US

\* RecordedObservation::encode
Encode(o) ==
  [base      |-> o.started,
   completed |-> ForwardOffset(o.started, o.completed),
   sampled   |-> SignedEvidenceOffset(o.started, o.sampled),
   captured  |-> EvidenceOffset(o.started, o.captured)]

\* checked_add, checked_sub
Reached(base, offset) == IF base + offset \in Times THEN base + offset ELSE Unknown

DecodeEvidence(base, offset) ==
  IF offset = UNKNOWN_OFFSET_US THEN Unknown ELSE Reached(base, offset)

DecodeSignedEvidence(base, offset) ==
  IF offset = UNKNOWN_SAMPLE_OFFSET_US THEN Unknown ELSE Reached(base, offset)

\* decode_required_offset gives DecodeError::Timing where this is Unknown.
DecodeRequiredOffset(base, offset) == DecodeEvidence(base, offset)

Timing == {}     (* DecodeError::Timing: no observation                      *)

\* RecordedObservation::decode, of a record that is valid.
Decode(record) ==
  IF DecodeRequiredOffset(record.base, record.completed) = Unknown THEN Timing
  ELSE {[started   |-> record.base,
         completed |-> DecodeRequiredOffset(record.base, record.completed),
         sampled   |-> DecodeSignedEvidence(record.base, record.sampled),
         captured  |-> DecodeEvidence(record.base, record.captured)]}

-----------------------------------------------------------------------------
(* Headers.  "sums" is whether the checksum is that of the bytes before it.  *)

Kinds == {"raw", "profile", "runtime"}

\* RAW_OBSERVATION_, CONTROL_PROFILE_ and RUNTIME_OBSERVATION_PAYLOAD_LEN
PayloadLen(kind) == IF kind = "runtime" THEN 120 ELSE 72

Header(kind) == [magic |-> TRUE, version |-> TRUE, kind |-> kind,
                 payload |-> PayloadLen(kind), sums |-> TRUE]

\* One field damaged on the way, the kind perhaps into another one, or the body:
\* a 16-bit checksum tells every burst that is no longer than itself.
Damaged(h) ==
  {[h EXCEPT !.sums = FALSE],
   [h EXCEPT !.magic = FALSE, !.sums = FALSE],
   [h EXCEPT !.version = FALSE, !.sums = FALSE]}
  \cup {[h EXCEPT !.kind = k, !.sums = FALSE] : k \in Kinds \ {h.kind}}
  \cup {[h EXCEPT !.payload = n, !.sums = FALSE] : n \in {72, 120} \ {h.payload}}

\* The checks at the head of the three decode functions, in their order.
Validate(decoder, h) ==
  IF ~h.magic THEN "Magic"
  ELSE IF ~h.version THEN "Version"
  ELSE IF h.kind # decoder THEN "Kind"
  ELSE IF h.payload # PayloadLen(decoder) THEN "PayloadLength"
  ELSE IF ~h.sums THEN "Crc" ELSE "Ok"

-----------------------------------------------------------------------------
(* Properties                                                               *)

\* The times an offset can carry.
Carried(base, timestamp) == timestamp - base \in 0 .. OFFSET_RANGE - 2
CarriedSigned(base, timestamp) ==
  -(OFFSET_RANGE \div 2) < timestamp - base /\ timestamp - base < OFFSET_RANGE \div 2

\* What a decoder should return for an observation that was recorded.
Recovered(o) ==
  LET kept(timestamp, carried) == IF timestamp # Unknown /\ carried THEN timestamp ELSE Unknown
  IN  [started   |-> o.started,
       completed |-> o.completed,
       sampled   |-> kept(o.sampled, CarriedSigned(o.started, o.sampled)),
       captured  |-> kept(o.captured, Carried(o.started, o.captured))]

\* A recorded time comes back as it was or as unknown, never as another one, and
\* unknown only if its offset cannot be carried; when that is the acquisition's
\* own end the whole record is lost to the decoder, checksum or not.  A decoder
\* takes an undamaged record of its own kind and nothing else, though two kinds
\* have the same length.
RecordsTellTheTruth ==
  /\ \A o \in Observations :
       Decode(Encode(o)) = IF Carried(o.started, o.completed) THEN {Recovered(o)} ELSE Timing
  /\ \A sender, decoder \in Kinds : PayloadLen(sender) = PayloadLen(decoder) =>
       \A h \in {Header(sender)} \cup Damaged(Header(sender)) :
         Validate(decoder, h) = "Ok" <=> h = Header(decoder)
=============================================================================
