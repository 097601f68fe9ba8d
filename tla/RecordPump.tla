----------------------------- MODULE RecordPump -----------------------------
(***************************************************************************)
(* The record queue and the DMA pump that empties it onto the UART, from   *)
(* the observation target.  The producer runs in an interrupt of higher    *)
(* priority than the pump's vector, so it may come between any two steps   *)
(* of the pump, and never the other way round.                             *)
(*                                                                         *)
(* The pump's vector (DMA1_CHANNEL7) has two causes: the producer pends    *)
(* it, and the channel raises its transfer-complete flag.  The queue is    *)
(* heapless::spsc::Queue: its consumer reads the oldest entry first and    *)
(* frees the slot after that.                                              *)
(***************************************************************************)
EXTENDS Integers, Sequences

CONSTANT QUEUE_STORAGE     (* slots of the queue; one of them stays empty    *)

ASSUME RecordQueueStorage == QUEUE_STORAGE \in Nat /\ QUEUE_STORAGE >= 2

VARIABLES
  queue,          (* the records in the queue                               *)
  pended,         (* the vector's pending bit                               *)
  pump,           (* the activation of record_tx_dma: pc, dequeued record   *)
  active,         (* RecordDmaState: a Transfer owns buffer and channel     *)
  complete,       (* the channel's transfer-complete flag                   *)
  buffer,         (* record_dma_buffer                                      *)
  sent            (* the last record that went out                          *)

pumping == <<queue, pended, pump, active, complete, buffer, sent>>

NoRecord == [sequence |-> -1, dropped |-> 0]

IdlePump == [pc |-> "idle", record |-> NoRecord]

\* UartRecordDmaPump::new, over a queue that is empty.
InitPump ==
  /\ queue = <<>>
  /\ pended = FALSE
  /\ pump = IdlePump
  /\ active = FALSE
  /\ complete = FALSE
  /\ buffer = NoRecord
  /\ sent = NoRecord

-----------------------------------------------------------------------------
(* The producer's side.                                                     *)

QueueFull == Len(queue) = QUEUE_STORAGE - 1

\* Mutation of Enqueue: the pump is left to its next transfer-complete.
EnqueueUnpended(record) ==
  /\ queue' = Append(queue, record)
  /\ UNCHANGED <<pended, pump, active, complete, buffer, sent>>

\* A successful enqueue, and rtic::pend.
Enqueue(record) ==
  /\ queue' = Append(queue, record)
  /\ pended' = TRUE
  /\ UNCHANGED <<pump, active, complete, buffer, sent>>

-----------------------------------------------------------------------------
(* The hardware.                                                            *)

\* The last byte of the buffer has left: the flag rises and pends the vector.
TransferComplete ==
  /\ active /\ ~complete
  /\ complete' = TRUE
  /\ pended' = TRUE
  /\ sent' = buffer
  /\ UNCHANGED <<queue, pump, active, buffer>>

EnterPump ==
  /\ pump.pc = "idle" /\ pended
  /\ pended' = FALSE
  /\ pump' = [pump EXCEPT !.pc = "take"]
  /\ UNCHANGED <<queue, active, complete, buffer, sent>>

\* Mutation of ReturnFromPump: what was pended meanwhile is forgotten.
ReturnForgetting ==
  /\ pump' = IdlePump
  /\ pended' = complete

\* Leaving the handler: a flag that is still raised pends the vector again.
ReturnFromPump ==
  /\ pump' = IdlePump
  /\ pended' = (pended \/ complete)

-----------------------------------------------------------------------------
(* UartRecordDmaPump::on_interrupt, one action per step the producer may     *)
(* come between.                                                            *)

\* A transfer under way is put back.  A finished one is waited for, which
\* clears its flag and gives back the buffer.
TakeState ==
  /\ pump.pc = "take"
  /\ IF active /\ ~complete
     THEN /\ ReturnFromPump
          /\ UNCHANGED <<active, complete>>
     ELSE /\ pump' = [pump EXCEPT !.pc = "dequeue"]
          /\ active' = FALSE
          /\ complete' = FALSE
          /\ UNCHANGED pended
  /\ UNCHANGED <<queue, buffer, sent>>

\* dequeue finds the queue empty, or reads its oldest entry.
Dequeue ==
  /\ pump.pc = "dequeue"
  /\ IF queue = <<>>
     THEN pump' = [pump EXCEPT !.pc = "park"]
     ELSE pump' = [pc |-> "free", record |-> Head(queue)]
  /\ UNCHANGED <<queue, pended, active, complete, buffer, sent>>

\* dequeue frees the slot of the entry it has read.
FreeSlot ==
  /\ pump.pc = "free"
  /\ queue' = Tail(queue)
  /\ pump' = [pump EXCEPT !.pc = "start"]
  /\ UNCHANGED <<pended, active, complete, buffer, sent>>

\* Copy the record and start the transfer.
StartTransfer ==
  /\ pump.pc = "start"
  /\ buffer' = pump.record
  /\ active' = TRUE
  /\ ReturnFromPump
  /\ UNCHANGED <<queue, complete, sent>>

\* Nothing to send: stay Idle.
Park ==
  /\ pump.pc = "park"
  /\ ReturnFromPump
  /\ UNCHANGED <<queue, active, complete, buffer, sent>>

RecordTxDma == EnterPump \/ TakeState \/ Dequeue \/ FreeSlot \/ StartTransfer \/ Park
=============================================================================
