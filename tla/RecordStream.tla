---------------------------- MODULE RecordStream ----------------------------
(***************************************************************************)
(* What a target's record stream promises to whoever decodes it: records   *)
(* come out once each and in order; one that could not be queued is        *)
(* skipped, and only while the stream is full; and every record carries    *)
(* its sequence number and the number of records skipped before it.        *)
(***************************************************************************)
EXTENDS Integers, Sequences

CONSTANTS
  QUEUE_STORAGE,     (* slots of the record queue; one of them stays empty  *)
  SEQUENCE_RANGE,    (* sequence numbers wrap here (u32)                    *)
  DROPPED_MAX        (* the dropped count saturates here (u16)              *)

VARIABLES
  stream,      (* records accepted and not yet on the wire                  *)
  sequence,    (* the next sequence number                                  *)
  dropped,     (* records skipped so far, saturated                         *)
  sent         (* the last record on the wire, or NoRecord                  *)

vars == <<stream, sequence, dropped, sent>>

Records == [sequence : 0 .. SEQUENCE_RANGE - 1, dropped : 0 .. DROPPED_MAX]

NoRecord == [sequence |-> -1, dropped |-> 0]

\* u32::wrapping_add and u16::saturating_add, of one.
NextSequence(n) == IF n + 1 = SEQUENCE_RANGE THEN 0 ELSE n + 1
OneMoreDropped(n) == IF n < DROPPED_MAX THEN n + 1 ELSE n

Init == stream = <<>> /\ sequence = 0 /\ dropped = 0 /\ sent = NoRecord

Accept ==
  /\ stream' = Append(stream, [sequence |-> sequence, dropped |-> dropped])
  /\ sequence' = NextSequence(sequence)
  /\ UNCHANGED <<dropped, sent>>

\* The queue is full; the record on its way to the wire is not in it.
Skip ==
  /\ Len(stream) >= QUEUE_STORAGE - 1
  /\ dropped' = OneMoreDropped(dropped)
  /\ sequence' = NextSequence(sequence)
  /\ UNCHANGED <<stream, sent>>

Send ==
  /\ stream # <<>>
  /\ sent' = Head(stream)
  /\ stream' = Tail(stream)
  /\ UNCHANGED <<sequence, dropped>>

Next == Accept \/ Skip \/ Send

Spec == Init /\ [][Next]_vars
=============================================================================
