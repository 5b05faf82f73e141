----------------------------- MODULE OperatorLink -----------------------------
(***************************************************************************)
(* The operator's UART link (app_link.c).  Receiving, a circular DMA fills  *)
(* a ring by itself; app_link_poll reads the DMA's counter and decodes what *)
(* lies between the last position and that one, while the DMA goes on, and  *)
(* the error interrupt may restart both.  Sending, frames wait in a ring of *)
(* slots; the thread and the interrupt at the end of a transmission start   *)
(* the next one.                                                            *)
(*                                                                          *)
(* A byte is its number on the line since the start: a frame takes          *)
(* FrameBytes of them, the last one the delimiter.  The CRC is assumed to   *)
(* tell the bytes of one whole frame from any others.  Frames to be sent    *)
(* are numbered in the order in which they were accepted.                   *)
(***************************************************************************)
EXTENDS Integers, FiniteSets, Sequences, SequencesExt

CONSTANTS FrameBytes,  \* bytes of a frame, the delimiter included
          Ring,        \* APP_LINK_RX_BUFFER_BYTES
          DecoderMax,  \* APP_LINK_FRAME_BUFFER_BYTES
          Depth,       \* APP_LINK_TX_QUEUE_DEPTH
          MaxFrames,   \* bound on the frames the operator sends
          MaxSends,    \* bound on the frames accepted for sending
          MaxErrors    \* bound on receive errors

ASSUME LinkAssumption ==
    /\ FrameBytes \in Nat \ {0, 1} /\ Ring \in Nat \ {0} /\ Depth \in Nat \ {0, 1}
    /\ DecoderMax \in Nat /\ DecoderMax >= FrameBytes - 1
    /\ MaxFrames \in Nat /\ MaxSends \in Nat /\ MaxErrors \in Nat

Cells == 0..Ring - 1

Slots == 0..Depth - 1

Frames == 0..MaxFrames - 1

Bytes == 0..FrameBytes * MaxFrames - 1

NoByte == -1

NoSlot == -1

VARIABLES
    sent,      \* bytes the operator has sent
    ring, dma, \* the receive ring and where the DMA writes next
    rx,        \* "on", "aborting" after an error, "off" when it was not restarted
    lastPos,   \* s_uart_rx_last_pos
    poll,      \* app_link_poll: where it is, the position it read, what is left
    decoder,   \* s_uart_decoder
    slots, head, tail, busy, \* the ring of frames to be sent
    uart,      \* the slot the transmit DMA reads, or NoSlot
    kick,      \* app_link_kick_tx in the thread: "idle", "check" or "transmit"
    \* Not in the code:
    handled,   \* the frames dispatched
    unread,    \* cells with bytes that no poll has read
    errors,
    raced,     \* an error interrupt came in the middle of a poll
    lapped,    \* the DMA wrote over a byte that had not been read
    accepted,  \* the number of frames accepted for sending
    wire,      \* those that have been sent, as the DMA read them
    dropped,   \* those given up because the DMA could not be started
    stuck      \* a transmission ended in an error

rxVars == <<sent, ring, dma, rx, lastPos, unread, errors, raced, lapped>>
pollVars == <<poll, decoder, handled>>
txVars == <<slots, head, tail, busy, uart, accepted, wire, dropped, stuck>>
vars == <<rxVars, pollVars, txVars, kick>>

IdlePoll == [pc |-> "idle", pos |-> 0, at |-> 0, left |-> 0]

\* app_link_start
Init ==
    /\ sent = 0 /\ ring = [c \in Cells |-> NoByte] /\ dma = 0 /\ rx = "on"
    /\ lastPos = 0 /\ poll = IdlePoll /\ decoder = <<>>
    /\ slots = [s \in Slots |-> 0] /\ head = 0 /\ tail = 0 /\ busy = FALSE
    /\ uart = NoSlot /\ kick = "idle"
    /\ handled = <<>> /\ unread = {} /\ errors = 0 /\ raced = FALSE /\ lapped = FALSE
    /\ accepted = 0 /\ wire = <<>> /\ dropped = {} /\ stuck = FALSE

-----------------------------------------------------------------------------
(* The line and the receive DMA                                            *)

\* A byte comes and the DMA stores it, or it is lost while nothing receives.
Receive ==
    /\ sent \in Bytes
    /\ sent' = sent + 1
    /\ IF rx = "on"
       THEN /\ ring' = [ring EXCEPT ![dma] = sent]
            /\ dma' = (dma + 1) % Ring
            /\ unread' = unread \cup {dma}
            /\ lapped' = (lapped \/ dma \in unread)
       ELSE UNCHANGED <<ring, dma, unread, lapped>>
    /\ UNCHANGED <<rx, lastPos, errors, raced, pollVars, txVars, kick>>

\* A byte with an error: it is lost, and the HAL stops the DMA.
LineError ==
    /\ rx = "on" /\ sent \in Bytes /\ errors < MaxErrors
    /\ sent' = sent + 1 /\ errors' = errors + 1
    /\ rx' = "aborting"
    /\ UNCHANGED <<ring, dma, lastPos, unread, raced, lapped, pollVars, txVars, kick>>

\* Bug: the position is left where it was.
Bug_Restart(ok) ==
    /\ rx' = IF ok THEN "on" ELSE "off"
    /\ dma' = IF ok THEN 0 ELSE dma
    /\ lastPos' = lastPos
    /\ unread' = {}
    /\ raced' = (raced \/ poll.pc # "idle")

\* HAL_UARTEx_ReceiveToIdle_DMA in the error interrupt succeeds or fails.
Restart(ok) ==
    /\ rx' = IF ok THEN "on" ELSE "off"
    /\ dma' = IF ok THEN 0 ELSE dma
    /\ lastPos' = IF ok THEN 0 ELSE lastPos
    /\ unread' = {}
    /\ raced' = (raced \/ poll.pc # "idle")

\* HAL_UART_ErrorCallback, when the DMA has stopped.
ErrorCallback(ok) ==
    /\ rx = "aborting"
    /\ Restart(ok)
    /\ UNCHANGED <<sent, ring, errors, lapped, pollVars, txVars, kick>>

-----------------------------------------------------------------------------
(* app_link_poll.  The interrupts may come between any two bytes.          *)

\* The counter of the DMA is read.
ReadCounter ==
    /\ kick = "idle" /\ poll.pc = "idle"
    /\ poll' = [IdlePoll EXCEPT !.pc = "begin", !.pos = dma]
    /\ UNCHANGED <<rxVars, decoder, handled, txVars, kick>>

\* Bug: a ring that the DMA has gone round is read up to its end only.
Bug_Pending(pos, last) == IF pos >= last THEN pos - last ELSE Ring - last

\* What lies between the last position and that of the DMA.
Pending(pos, last) == IF pos >= last THEN pos - last ELSE pos + Ring - last

\* It is compared with the last position.
Begin ==
    /\ poll.pc = "begin"
    /\ poll' = IF poll.pos = lastPos THEN IdlePoll
               ELSE [poll EXCEPT !.pc = "chunk", !.at = lastPos,
                                 !.left = Pending(poll.pos, lastPos)]
    /\ UNCHANGED <<rxVars, decoder, handled, txVars, kick>>

IsDelimiter(b) == b % FrameBytes = FrameBytes - 1

\* The ring is in memory that nobody clears: a cell no byte came to may hold a
\* zero as well.
MayDelimit(b) == b = NoByte \/ IsDelimiter(b)

\* robot_frame_decode: the bytes of one frame, all of them, in their order.
Decodes(bytes, f) ==
    /\ Len(bytes) = FrameBytes - 1
    /\ \A i \in DOMAIN bytes : bytes[i] = f * FrameBytes + i - 1

\* Bug: the length of the decoder's buffer is not looked at.
Bug_Stored(b) == Append(decoder, b)

\* app_link_process_chunk_ctx for one byte that ends no frame.
Stored(b) ==
    IF Len(decoder) < DecoderMax THEN Append(decoder, b) ELSE <<>>

\* To the next byte of the chunk.
Advanced == [poll EXCEPT !.at = (poll.at + 1) % Ring, !.left = poll.left - 1]

AtByte(b) ==
    /\ kick = "idle" /\ poll.pc = "chunk" /\ poll.left > 0
    /\ b = ring[poll.at]
    /\ poll' = Advanced
    /\ unread' = unread \ {poll.at}
    /\ UNCHANGED <<sent, ring, dma, rx, lastPos, errors, raced, lapped>>

\* A byte that ends no frame, or ends one that is not whole.
Byte ==
    \E b \in Bytes \cup {NoByte} :
        /\ AtByte(b)
        /\ \/ /\ b = NoByte \/ ~IsDelimiter(b)
              /\ decoder' = Stored(b)
           \/ /\ MayDelimit(b)
              /\ ~ \E f \in Frames : Decodes(decoder, f)
              /\ decoder' = <<>>
        /\ UNCHANGED <<handled, txVars, kick>>

\* Bug: the ring counts as full when every slot is taken.
Bug_Full == FALSE

\* next_head == s_link_tx_tail
Full == (head + 1) % Depth = tail

\* app_link_enqueue_encoded; the frame is refused when the ring is full.
Enqueue ==
    IF Full THEN UNCHANGED <<txVars, kick>>
    ELSE /\ slots' = [slots EXCEPT ![head] = accepted + 1]
         /\ head' = (head + 1) % Depth
         /\ accepted' = accepted + 1
         /\ kick' = "check"
         /\ UNCHANGED <<tail, busy, uart, wire, dropped, stuck>>

\* A frame is whole: it is acknowledged if it asks for that, and dispatched.
Frame(ack) ==
    \E b \in Bytes \cup {NoByte}, f \in Frames :
        /\ AtByte(b) /\ MayDelimit(b) /\ Decodes(decoder, f)
        /\ decoder' = <<>>
        /\ handled' = Append(handled, f)
        /\ ack => accepted < MaxSends
        /\ IF ack THEN Enqueue ELSE UNCHANGED <<txVars, kick>>

\* s_uart_rx_last_pos = pos
EndPoll ==
    /\ kick = "idle" /\ poll.pc = "chunk" /\ poll.left = 0
    /\ lastPos' = poll.pos
    /\ poll' = IdlePoll
    /\ UNCHANGED <<sent, ring, dma, rx, unread, errors, raced, lapped,
                   decoder, handled, txVars, kick>>

-----------------------------------------------------------------------------
(* Sending                                                                 *)

\* app_link_send: telemetry, and the answers of the frames' handlers.
Send ==
    /\ kick = "idle" /\ poll.pc \in {"idle", "chunk"} /\ accepted < MaxSends
    /\ Enqueue
    /\ UNCHANGED <<rxVars, pollVars>>

\* The thread's app_link_kick_tx, up to where it enables the interrupts.
CheckKick ==
    /\ kick = "check"
    /\ IF busy \/ head = tail
       THEN kick' = "idle" /\ UNCHANGED busy
       ELSE kick' = "transmit" /\ busy' = TRUE
    /\ UNCHANGED <<rxVars, pollVars, slots, head, tail, uart, accepted, wire, dropped, stuck>>

\* HAL_UART_Transmit_DMA in the thread.  A DMA that does not start drops the
\* frame, and the next one is tried.
Transmit(ok) ==
    /\ kick = "transmit"
    /\ IF uart # NoSlot
       THEN busy' = FALSE /\ kick' = "idle" /\ UNCHANGED <<tail, uart, dropped>>
       ELSE IF ok
       THEN uart' = tail /\ kick' = "idle" /\ UNCHANGED <<tail, busy, dropped>>
       ELSE /\ busy' = FALSE /\ kick' = "check"
            /\ tail' = (tail + 1) % Depth
            /\ dropped' = dropped \cup {slots[tail]}
            /\ UNCHANGED uart
    /\ UNCHANGED <<rxVars, pollVars, slots, head, accepted, wire, stuck>>

Queued(from) == (head - from + Depth) % Depth

\* Bug: the interrupt does not start the next transmission.
Bug_Kicked(from) == {[tail |-> from, busy |-> FALSE, uart |-> NoSlot]}

\* app_link_kick_tx in the interrupt, with the first frame at from: as many as
\* cannot be started are dropped.
Kicked(from) ==
    LET after(n) == (from + n) % Depth
    IN  {IF n = Queued(from) THEN [tail |-> after(n), busy |-> FALSE, uart |-> NoSlot]
                             ELSE [tail |-> after(n), busy |-> TRUE, uart |-> after(n)] :
            n \in 0..Queued(from)}

\* HAL_UART_TxCpltCallback
TxComplete ==
    /\ uart # NoSlot
    /\ wire' = Append(wire, slots[uart])
    /\ LET from == (tail + 1) % Depth
       IN  \E k \in Kicked(from) :
               /\ tail' = k.tail /\ busy' = k.busy /\ uart' = k.uart
               /\ dropped' = dropped \cup
                     {slots[(from + n) % Depth] : n \in 0..((k.tail - from + Depth) % Depth) - 1}
    /\ UNCHANGED <<rxVars, pollVars, slots, head, accepted, stuck, kick>>

\* The transmit DMA fails: the HAL ends the transmission and calls the error
\* callback only, which restarts the receiver and does not look at
\* s_link_tx_busy.
TxError(ok) ==
    /\ uart # NoSlot /\ rx # "aborting" /\ errors < MaxErrors
    /\ uart' = NoSlot /\ stuck' = TRUE
    /\ errors' = errors + 1
    /\ Restart(ok)
    /\ UNCHANGED <<sent, ring, lapped, pollVars,
                   slots, head, tail, busy, accepted, wire, dropped, kick>>

Poll == ReadCounter \/ Begin \/ Byte \/ (\E ack \in BOOLEAN : Frame(ack)) \/ EndPoll

Kick == CheckKick \/ \E ok \in BOOLEAN : Transmit(ok)

Next ==
    \/ Receive \/ LineError \/ \E ok \in BOOLEAN : ErrorCallback(ok)
    \/ Poll \/ Send \/ Kick
    \/ TxComplete \/ \E ok \in BOOLEAN : TxError(ok)

\* The thread comes back to the poll and goes through with it; what the
\* hardware has begun ends.
Spec ==
    /\ Init /\ [][Next]_vars
    /\ WF_vars(Poll) /\ WF_vars(Kick) /\ WF_vars(TxComplete)
    /\ WF_vars(\E ok \in BOOLEAN : ErrorCallback(ok))

-----------------------------------------------------------------------------
(* Properties                                                              *)

Waiting == {slots[(tail + n) % Depth] : n \in 0..Queued(tail) - 1}

TypeOK ==
    /\ sent \in 0..FrameBytes * MaxFrames
    /\ ring \in [Cells -> Bytes \cup {NoByte}] /\ dma \in Cells /\ lastPos \in Cells
    /\ rx \in {"on", "aborting", "off"}
    /\ poll \in [pc : {"idle", "begin", "chunk"}, pos : Cells, at : Cells, left : 0..Ring]
    /\ decoder \in SeqOf(Bytes \cup {NoByte}, DecoderMax)
    /\ slots \in [Slots -> 0..MaxSends] /\ head \in Slots /\ tail \in Slots
    /\ busy \in BOOLEAN /\ uart \in Slots \cup {NoSlot}
    /\ kick \in {"idle", "check", "transmit"}
    /\ uart # NoSlot => busy /\ uart = tail

\* As long as no error interrupt comes in the middle of a poll and no poll is
\* a whole ring late, no frame is handled twice or out of order, over the end
\* of the ring and over errors between the polls too; and without errors none
\* is left out.
FramesOnce ==
    ~raced /\ ~lapped =>
        \A i, j \in DOMAIN handled :
            /\ i < j => handled[i] < handled[j]
            /\ errors = 0 => handled[i] = i - 1

\* Every frame accepted is waiting, given up or sent once, as it was accepted
\* and in that order: no slot is written over while the DMA may read it, and
\* no end of a transmission counts for another.
SentOnce ==
    /\ \A i, j \in DOMAIN wire : i < j => wire[i] < wire[j]
    /\ \A n \in 1..accepted :
        Cardinality({x \in {"waiting"} : n \in Waiting}
                    \cup {x \in {"dropped"} : n \in dropped}
                    \cup {x \in {"sent"} : n \in ToSet(wire)}) = 1

\* A frame accepted is sent or given up in the end, unless the transmit DMA
\* fails: after that nothing is sent any more.
SentInTheEnd ==
    \A n \in 1..MaxSends :
        accepted >= n ~> n \in ToSet(wire) \cup dropped \/ stuck

\* A frame received whole is handled in the end.  Exactly a ring of unread
\* bytes looks like none until another one comes.
HandledInTheEnd ==
    \A f \in Frames :
        sent >= (f + 1) * FrameBytes
            ~> f \in ToSet(handled) \/ errors > 0 \/ lapped \/ unread = Cells
=============================================================================
