--------------------------- MODULE RecordCapture ---------------------------
(***************************************************************************)
(* The host end of the record stream: observe.py takes notifications from  *)
(* a Bluetooth link, writes them to a file and decodes them as they come;  *)
(* the two offline decoders read such a file afterwards.  The stream holds *)
(* raw observations and control profiles; bytes of it may be lost or       *)
(* changed anywhere, and the board may restart in the middle of a record.  *)
(*                                                                         *)
(* A byte is a symbol.  A record is its magic, the rest of its header, its *)
(* sequence number and drop count, three bytes of payload and its CRC.  No *)
(* two different records have the same CRC.                                *)
(***************************************************************************)
EXTENDS Integers, Sequences, SequencesExt

CONSTANTS
  SEQUENCE_RANGE,   (* sequence is a u32                                    *)
  FirstSequence,    (* the number the stream has reached                    *)
  PieceLengths,     (* of a notification, and of what is lost at once       *)
  MaxRecords, MaxDropped, MaxFaults, MaxWire, MaxQueue  (* bounds *)

ASSUME RecordCaptureConstants ==
  /\ FirstSequence \in 0 .. SEQUENCE_RANGE - 1
  /\ PieceLengths \subseteq Nat \ {0} /\ PieceLengths # {}
  /\ {MaxDropped, MaxFaults, MaxWire, MaxQueue} \subseteq Nat
  /\ MaxRecords + MaxDropped \in 1 .. SEQUENCE_RANGE - 1   \* no number twice

VARIABLES
  board,      (* sequence, dropped_records; history: raw records and restarts *)
  wire,       (* bytes on their way                                         *)
  faults,     (* history: pieces lost, bytes changed and restarts           *)
  connected,
  queue,      (* chunks that on_notify has queued                           *)
  raw,        (* the file                                                   *)
  decoder,    (* StreamDecoder                                              *)
  rows,       (* history: the rows it has returned                          *)
  stats,      (* LinkStats                                                  *)
  capture     (* "running", "done" at the end of its duration, "failed"     *)

link == <<board, wire, faults, connected>>
host == <<raw, decoder, rows, stats, capture>>
capturing == <<link, queue, host>>

Kinds == {"raw", "profile"}

S == <<"S">>
W == <<"W">>
x == <<"x">>
UNKNOWN_DURATION == <<"unknown">>
Header(kind) == <<kind>>
Fields(sequence, dropped) == <<"fields", sequence, dropped>>

\* crc16_ccitt_false
Crc(body) == <<"crc", body>>

Record(kind, fields, payload) ==
  LET body == <<S, W, Header(kind), fields>> \o payload IN Append(body, Crc(body))

HEADER_LEN == 3
RECORD_LEN == 8

\* Payloads that look like nothing and like a header; the duration of an
\* acquisition may be unknown.
Payloads == {<<x, x, x>>, <<S, W, Header("raw")>>}
RawPayloads == Payloads \cup {<<UNKNOWN_DURATION, S, W>>}

-----------------------------------------------------------------------------
(* The decoders.                                                            *)

NewDecoder == [buffer |-> <<>>, crc_errors |-> 0, invalid_records |-> 0, discarded_bytes |-> 0]

Discard(d, n) ==
  [d EXCEPT !.buffer = SubSeq(@, n + 1, Len(@)), !.discarded_bytes = @ + n]

\* The rest of the header.  The profile decoder accepts any kind of the same
\* version and length.
HeaderAccepted(reader, header) ==
  header \in (IF reader = "raw" THEN {Header("raw")} ELSE {Header(k) : k \in Kinds})

CrcHolds(candidate) == candidate[RECORD_LEN] = Crc(Front(candidate))

\* decode_record of a record whose CRC holds; none of another kind, or of a raw
\* observation whose duration is not known.
DecodeRecord(reader, candidate) ==
  IF candidate[3] # Header(reader) \/ candidate[5] = UNKNOWN_DURATION THEN <<>>
  ELSE <<[sequence |-> candidate[4][2], dropped |-> candidate[4][3]]>>

\* Mutation of Judge: a candidate that is rejected is dropped whole.
JudgeWhole(reader, candidate) ==
  LET row == DecodeRecord(reader, candidate)
      good == CrcHolds(candidate)
  IN  [row |-> IF good THEN row ELSE <<>>,
       taken |-> RECORD_LEN,
       crc_errors |-> IF good THEN 0 ELSE 1,
       invalid_records |-> IF good /\ row = <<>> THEN 1 ELSE 0]

\* What a reader does with a candidate of a whole record's length: the row it
\* returns, the bytes it takes and what it counts.  One that is rejected loses a
\* byte; the profile decoder skips another kind's record whole.
Judge(reader, candidate) ==
  LET row == DecodeRecord(reader, candidate)
      good == CrcHolds(candidate)
  IN  [row |-> IF good THEN row ELSE <<>>,
       taken |-> IF good /\ (row # <<>> \/ reader = "profile") THEN RECORD_LEN ELSE 1,
       crc_errors |-> IF good THEN 0 ELSE 1,
       invalid_records |-> IF good /\ row = <<>> THEN 1 ELSE 0]

\* The loop of StreamDecoder::feed, and of the two records functions, which
\* count nothing: f is the decoder and the rows so far.
RECURSIVE Drain(_, _)
Drain(reader, f) ==
  LET magic == {i \in 1 .. Len(f.d.buffer) - 1 : f.d.buffer[i] = S /\ f.d.buffer[i + 1] = W}
      d == Discard(f.d, Min(magic) - 1)
      verdict == Judge(reader, SubSeq(d.buffer, 1, RECORD_LEN))
      rejected == [d EXCEPT !.crc_errors = @ + verdict.crc_errors,
                            !.invalid_records = @ + verdict.invalid_records]
  IN  CASE magic = {} -> [f EXCEPT !.d = Discard(@, Max({Len(@.buffer) - 1, 0}))]
        [] magic # {} /\ Len(d.buffer) < HEADER_LEN -> [f EXCEPT !.d = d]
        [] magic # {} /\ Len(d.buffer) >= HEADER_LEN /\ ~HeaderAccepted(reader, d.buffer[3]) ->
             Drain(reader, [f EXCEPT !.d = Discard([d EXCEPT !.invalid_records = @ + 1], 1)])
        [] OTHER ->
             IF Len(d.buffer) < RECORD_LEN THEN [f EXCEPT !.d = d]
             ELSE Drain(reader,
                    [d |-> IF verdict.taken = 1 THEN Discard(rejected, 1)
                           ELSE [rejected EXCEPT
                                   !.buffer = SubSeq(@, verdict.taken + 1, Len(@))],
                     rows |-> f.rows \o verdict.row])

Feed(d, data) ==
  Drain("raw", [d |-> [d EXCEPT !.buffer = @ \o data], rows |-> <<>>])

\* An offline decoder on a file that it reads in one piece.
OfflineRows(reader, data) ==
  Drain(reader, [d |-> [NewDecoder EXCEPT !.buffer = data], rows |-> <<>>]).rows

NoSequence == -1

\* The counts of a row, and update_sequence.
CountRow(s, row) ==
  [frames |-> s.frames + 1,
   sequence_gaps |-> s.sequence_gaps + IF s.last_sequence = NoSequence THEN 0
                     ELSE (row.sequence - s.last_sequence - 1) % SEQUENCE_RANGE,
   last_sequence |-> row.sequence]

-----------------------------------------------------------------------------
InitCapture ==
  /\ board = [sequence |-> FirstSequence, dropped |-> 0, sent |-> <<>>, records |-> 0,
              restarts |-> 0]
  /\ wire = <<>> /\ faults = 0 /\ connected = TRUE
  /\ queue = <<>>
  /\ raw = <<>> /\ decoder = NewDecoder /\ rows = <<>>
  /\ stats = [frames |-> 0, sequence_gaps |-> 0, last_sequence |-> NoSequence]
  /\ capture = "running"

(* The board and the link, external.  A row of the board's history is marked  *)
(* when its duration is known.                                                *)
Listening == connected /\ capture = "running"

\* A piece of the wire.
Pieces == {Min({n, Len(wire)}) : n \in PieceLengths}

SendRecord ==
  /\ Listening /\ Len(wire) < MaxWire /\ board.records < MaxRecords
  /\ \/ \E lost \in 0 .. MaxDropped - board.dropped, payload \in RawPayloads :
          LET sequence == (board.sequence + lost) % SEQUENCE_RANGE
              dropped == board.dropped + lost
          IN  /\ wire' = wire \o Record("raw", Fields(sequence, dropped), payload)
              /\ board' = [board EXCEPT
                   !.sequence = (sequence + 1) % SEQUENCE_RANGE, !.dropped = dropped,
                   !.records = @ + 1,
                   !.sent = Append(@, [row |-> [sequence |-> sequence, dropped |-> dropped],
                                       known |-> payload \in Payloads])]
     \/ \E payload \in Payloads :
          /\ wire' = wire \o Record("profile", Fields(0, 0), payload)
          /\ board' = [board EXCEPT !.records = @ + 1]
  /\ UNCHANGED <<faults, connected, queue, host>>

Restart ==
  /\ Listening /\ faults < MaxFaults
  /\ board' = [board EXCEPT !.sequence = 0, !.dropped = 0, !.restarts = @ + 1]
  /\ wire' = <<>>
  /\ faults' = faults + 1
  /\ UNCHANGED <<connected, queue, host>>

\* The next bytes are lost, or one of them is changed.
Damage ==
  /\ Listening /\ wire # <<>> /\ faults < MaxFaults
  /\ \/ \E n \in Pieces : wire' = SubSeq(wire, n + 1, Len(wire))
     \/ wire' = <<x>> \o Tail(wire)
  /\ faults' = faults + 1
  /\ UNCHANGED <<board, connected, queue, host>>

Disconnect ==
  /\ Listening /\ connected' = FALSE
  /\ UNCHANGED <<board, wire, faults, queue, host>>

\* on_notify, between two awaits of capture.
OnNotify ==
  /\ Listening /\ wire # <<>> /\ Len(queue) < MaxQueue
  /\ \E n \in Pieces :
       /\ queue' = Append(queue, SubSeq(wire, 1, n))
       /\ wire' = SubSeq(wire, n + 1, Len(wire))
  /\ UNCHANGED <<board, faults, connected, host>>

\* One turn of the loop: write, decode and count a chunk.
TakeChunk ==
  /\ capture = "running" /\ queue # <<>>
  /\ LET fed == Feed(decoder, Head(queue))
     IN  /\ decoder' = fed.d
         /\ rows' = rows \o fed.rows
         /\ stats' = FoldLeft(CountRow, stats, fed.rows)
  /\ raw' = raw \o Head(queue)
  /\ queue' = Tail(queue)
  /\ UNCHANGED <<link, capture>>

\* The wait for a chunk has expired on a closed connection.  A chunk may have
\* been queued as it expired.
ConnectionClosed ==
  /\ capture = "running" /\ ~connected
  /\ capture' = "failed"
  /\ UNCHANGED <<link, queue, raw, decoder, rows, stats>>

DurationOver ==
  /\ capture = "running"
  /\ capture' = "done"
  /\ UNCHANGED <<link, queue, raw, decoder, rows, stats>>

Captured == capture # "running" /\ UNCHANGED capturing

NextCapture ==
  \/ SendRecord \/ Restart \/ Damage \/ Disconnect
  \/ OnNotify \/ TakeChunk \/ ConnectionClosed \/ DurationOver \/ Captured

-----------------------------------------------------------------------------
(* Properties                                                               *)

\* The records of a kind that are whole in a piece of the stream.
IsRecord(kind, bytes) ==
  /\ Len(bytes) = RECORD_LEN
  /\ \E payload \in {SubSeq(bytes, 5, 7)} :
       bytes = Record(kind, bytes[4], payload) /\ payload[1] # UNKNOWN_DURATION

WholeRecords(kind, data) ==
  LET at(p) == SubSeq(data, p, p + RECORD_LEN - 1)
      row(p) == [sequence |-> at(p)[4][2], dropped |-> at(p)[4][3]]
      starts == {p \in 1 .. Len(data) - RECORD_LEN + 1 : IsRecord(kind, at(p))}
  IN  [i \in 1 .. Cardinality(starts) |->
         row(CHOOSE p \in starts : Cardinality({q \in starts : q <= p}) = i)]

\* Every record that arrived whole is a row, in its order, as soon as its last
\* byte is decoded; and both offline decoders find theirs in the file.
NothingMissed ==
  /\ rows = WholeRecords("raw", raw)
  /\ OfflineRows("raw", raw) = rows
  /\ OfflineRows("profile", raw) = WholeRecords("profile", raw)

\* Each byte is in a row, discarded or still awaited, and few are awaited.
BytesAccounted ==
  /\ decoder.discarded_bytes + RECORD_LEN * stats.frames + Len(decoder.buffer) = Len(raw)
  /\ Len(decoder.buffer) < RECORD_LEN

\* Without a restart the gaps are the drops that the records report and the
\* records that gave no row; with one they are still right modulo the range.
Position(row) == CHOOSE i \in DOMAIN board.sent : board.sent[i].row = row
GapsTold ==
  rows # <<>> =>
    LET first == Head(rows)
        last  == Last(rows)
        unread == Position(last) - Position(first) + 1 - Len(rows)
    IN  /\ board.restarts = 0 => stats.sequence_gaps = last.dropped - first.dropped + unread
        /\ (stats.sequence_gaps - (last.sequence - first.sequence) + Len(rows) - 1)
              % SEQUENCE_RANGE = 0

\* Counters of errors stay zero on an undamaged stream of raw observations whose
\* durations are known.
NoFalseAlarm ==
  faults = 0 /\ Len(board.sent) = board.records
    /\ (\A i \in DOMAIN board.sent : board.sent[i].known)
  => decoder.crc_errors = 0 /\ decoder.invalid_records = 0 /\ decoder.discarded_bytes = 0

\* However the stream was cut, damaged and cut into notifications, and whatever
\* payloads look like: no record that arrived whole is missed, live or offline,
\* the counts tell where every byte and every missing number went, and
\* a good link raises no error count.
CaptureTells == NothingMissed /\ BytesAccounted /\ GapsTold /\ NoFalseAlarm
=============================================================================
