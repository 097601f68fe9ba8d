-------------------------- MODULE EncoderTracking ---------------------------
(***************************************************************************)
(* Unwrapping of a 16-bit quadrature counter by EncoderTracker, from       *)
(* firmware/adapters/sensor-calibration, and the channel status that       *)
(* estimator-input makes of it.                                            *)
(*                                                                         *)
(* The shaft moves by whole counts, at most MaxStep from one sample to the *)
(* next; a sample may be read late, twice or never, with any quality.      *)
(* Angles and rates are constant multiples of the counts kept here, and    *)
(* always finite for a transfer that EncoderTransfer::new accepts.         *)
(***************************************************************************)
EXTENDS Integers

CONSTANTS
  MAX_DELTA,           (* max_abs_delta_counts_per_sample                   *)
  MaxStep,             (* the physical envelope: counts moved per sample    *)
  Steps,               (* bound: the movements tried                        *)
  Starts,              (* bound: the positions of the shaft at power-on     *)
  MaxSamples           (* bound: the sampling instants of a run             *)

\* EncoderTransfer::new, for a bound that comes from the speed envelope.
ASSUME EncoderTransferBound ==
  /\ MAX_DELTA \in Nat \ {0} /\ MAX_DELTA < 32768
  /\ MaxStep \in 0 .. MAX_DELTA
  /\ Steps \subseteq (-MaxStep) .. MaxStep
  /\ Starts \subseteq Int
  /\ MaxSamples \in Nat

VARIABLES
  direction,   (* positive_direction                                        *)
  position,    (* the shaft's true position, in counts                      *)
  now,         (* the latest sampling instant                               *)
  tracker,     (* EncoderTracker                                            *)
  status,      (* EncoderChannelStatus of the last observation              *)
  anchor,      (* history: true position at the origin and when last accepted *)
  reach,       (* history: how far the shaft may have moved since the latter *)
  widest       (* history: the widest reach an accepted sample has bridged  *)

shaft   == <<position, now>>
history == <<anchor, reach, widest>>
vars == <<direction, shaft, tracker, status, history>>

None == -1
Counts == {n \in Nat : n < 65536}
EncoderPositiveDirection == {"CounterIncreasing", "CounterDecreasing"}
QualityFlags == {"AVAILABLE", "IO_OK", "IO_ERROR", "TIMING_VALID"}

\* Mutation of Multiplier: the direction is ignored.
MultiplierIgnored == 1

Multiplier == IF direction = "CounterIncreasing" THEN 1 ELSE -1

NewTracker == [previous_count |-> None, previous_at |-> None, unwrapped |-> 0]

Init ==
  /\ direction \in EncoderPositiveDirection
  /\ position \in Starts
  /\ now = 0
  /\ tracker = NewTracker
  /\ status = "Primed"
  /\ anchor = [origin |-> position, last |-> position]
  /\ reach = 0
  /\ widest = 0

\* The shaft turns until the next sampling instant.
Turn ==
  /\ now < MaxSamples
  /\ now' = now + 1
  /\ \E step \in Steps : position' = position + step
  /\ reach' = reach + MaxStep
  /\ UNCHANGED <<direction, tracker, status, anchor, widest>>

\* The timer's count, a u16.
Count == position % 65536

-----------------------------------------------------------------------------
(* EncoderTracker                                                           *)

\* require_usable_encoder
Usable(quality) ==
  "IO_ERROR" \notin quality /\ {"IO_OK", "AVAILABLE", "TIMING_VALID"} \subseteq quality

WrappingSub(a, b) == (a - b) % 65536

\* Mutation of AsI16: the difference is taken as it is.
AsU16(n) == n

AsI16(n) == IF n < 32768 THEN n ELSE n - 65536

RawDelta == AsI16(WrappingSub(Count, tracker.previous_count))

Abs(n) == IF n < 0 THEN -n ELSE n

Primed == tracker.previous_count # None

\* reset, before a new capture window.
Reset ==
  /\ tracker' = NewTracker
  /\ anchor' = [origin |-> position, last |-> position]
  /\ reach' = 0 /\ widest' = 0
  /\ UNCHANGED <<direction, shaft, status>>

\* The first usable sample is the origin.
Prime ==
  /\ ~Primed
  /\ tracker' = [previous_count |-> Count, previous_at |-> now, unwrapped |-> 0]
  /\ status' = "Primed"
  /\ anchor' = [origin |-> position, last |-> position]
  /\ reach' = 0 /\ widest' = 0
  /\ UNCHANGED <<direction, shaft>>

\* A later sample within the bound.
Accept ==
  /\ Primed /\ now > tracker.previous_at
  /\ Abs(RawDelta) <= MAX_DELTA
  /\ tracker' = [previous_count |-> Count, previous_at |-> now,
                 unwrapped |-> tracker.unwrapped + RawDelta * Multiplier]
  /\ status' = "Ready"
  /\ anchor' = [anchor EXCEPT !.last = position]
  /\ reach' = 0
  /\ widest' = IF reach > widest THEN reach ELSE widest
  /\ UNCHANGED <<direction, shaft>>

\* Mutation of RefuseDelta: the refused count is the next one's reference.
RefuseDeltaAdvancing ==
  /\ Primed /\ now > tracker.previous_at
  /\ Abs(RawDelta) > MAX_DELTA
  /\ tracker' = [tracker EXCEPT !.previous_count = Count, !.previous_at = now]
  /\ status' = "Rejected"
  /\ UNCHANGED <<direction, shaft, history>>

\* DeltaBeyondEvidence: the reference stays where it is.
RefuseDelta ==
  /\ Primed /\ now > tracker.previous_at
  /\ Abs(RawDelta) > MAX_DELTA
  /\ status' = "Rejected"
  /\ UNCHANGED <<direction, shaft, tracker, history>>

\* NonMonotonicTimestamp: the sample accepted last, or one from before it.
RefuseTime ==
  /\ Primed /\ \E at \in 0 .. now : at <= tracker.previous_at
  /\ status' = "Rejected"
  /\ UNCHANGED <<direction, shaft, tracker, history>>

\* A sample without a timestamp, or of a quality that is not usable.
RefuseInput ==
  /\ \E quality \in SUBSET QualityFlags, known \in BOOLEAN : ~(Usable(quality) /\ known)
  /\ status' = "Rejected"
  /\ UNCHANGED <<direction, shaft, tracker, history>>

\* observe_encoder with a usable sample of the present.  One read late, but
\* still after the last accepted, is as one accepted before the next Turn.
ObserveUsable ==
  /\ \E quality \in SUBSET QualityFlags : Usable(quality)
  /\ Prime \/ Accept \/ RefuseDelta

Next == Turn \/ Reset \/ ObserveUsable \/ RefuseTime \/ RefuseInput

Spec == Init /\ [][Next]_vars

-----------------------------------------------------------------------------
(* Properties                                                               *)

TypeOK ==
  /\ direction \in EncoderPositiveDirection
  /\ position \in Int
  /\ now \in 0 .. MaxSamples
  /\ tracker \in [previous_count : Counts \cup {None},
                  previous_at : 0 .. MaxSamples \cup {None}, unwrapped : Int]
  /\ tracker.previous_count = None <=> tracker.previous_at = None
  /\ status \in {"Primed", "Ready", "Rejected"}
  /\ anchor \in [origin : Int, last : Int]
  /\ reach \in Nat
  /\ widest \in Nat

\* The displacement the tracker should have unwrapped.
Displacement ==
  IF direction = "CounterIncreasing" THEN anchor.last - anchor.origin
                                     ELSE anchor.origin - anchor.last

\* No reach that was bridged leaves room for a second reading of the difference.
Unambiguous(distance) == distance + MAX_DELTA < 65536

\* As long as no more samples were lost in a row than the envelope allows, the
\* unwrapped count is the true displacement since the origin: through counter
\* wraps, refused, late, repeated and unusable samples alike.
Exact == Primed /\ Unambiguous(widest) => tracker.unwrapped = Displacement

\* And whatever was lost, it is wrong by whole turns of the counter only.
WholeTurns == Primed => (tracker.unwrapped - Displacement) % 65536 = 0

\* Within that reach a later sample is accepted if, and only if, the shaft is
\* no further than the bound from where it was accepted last, wherever the
\* counter stands: a refused or lost sample never locks the channel out.
DecidesByDisplacement ==
  Primed /\ Unambiguous(reach) =>
    (Abs(RawDelta) <= MAX_DELTA <=> Abs(position - anchor.last) <= MAX_DELTA)

\* encoder.rs:182-184: the difference is unique, and the configured bound protects
\* the validity of that assumption: what was accepted is what was moved.
BoundProtectsUnwrapping == Primed => tracker.unwrapped = Displacement

-----------------------------------------------------------------------------
(* The inductive invariant behind the theorems.                             *)

\* The tracker's reference is the counter where it was accepted last, and the
\* shaft is within reach of that.
Anchored ==
  Primed => /\ tracker.previous_count = anchor.last % 65536
            /\ position - anchor.last <= reach
            /\ anchor.last - position <= reach

IInv == TypeOK /\ Anchored /\ Exact /\ WholeTurns
=============================================================================
