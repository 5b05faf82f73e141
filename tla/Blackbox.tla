------------------------------- MODULE Blackbox -------------------------------
(***************************************************************************)
(* The blackbox log and its dump (blackbox.c, blackbox_dump.c): records go  *)
(* from the control tick into a queue in RAM, from there in chunks into a   *)
(* ring of flash sectors that are erased ahead of the writer, and on        *)
(* request the last of them to a file, while the log goes on or is held.    *)
(*                                                                          *)
(* log is what the firmware keeps and what the chip holds, dump the dump.   *)
(* A cell of flash is a part of a record: a record takes Record of them,    *)
(* and a cell holds the number of its record.  As on the chip, a chunk is a *)
(* whole number of records and shorter than a sector, and the ring is not a *)
(* whole number of records.  All of it runs in the main loop: the control   *)
(* tick's push and the idle tick's three calls never overlap.               *)
(*                                                                          *)
(* The code starts the numbers of records anew at every boot; they go on    *)
(* here, to tell the records of one boot from those of another.             *)
(***************************************************************************)
EXTENDS Integers, Sequences, SequencesExt, LogMeta

CONSTANTS ChunkRecords,  \* records of a chunk
          Sector,        \* cells of a sector
          PreErase,      \* LOG_PREERASE_AHEAD, in sectors
          QueueMax,      \* records the queue holds
          DumpChunk,     \* cells of a read
          Windows,       \* records a dump may be asked for
          MaxSeq,        \* bound on the records pushed
          MaxSeqAfter,   \* the same for runs with a failed flash or a reset
          MaxDisturbances, \* bound on failures of the flash and resets
          MaxSaves, MaxDumps \* bounds

ASSUME GeometryAssumption ==
    /\ ChunkRecords \in Nat \ {0}
    /\ Sector \in Nat \ {0} /\ PreErase \in Nat \ {0}
    /\ Ring % Sector = 0
    /\ Record * ChunkRecords <= Sector
    /\ (PreErase + 2) * Sector <= Ring

ASSUME BoundsAssumption ==
    /\ QueueMax \in Nat /\ DumpChunk \in Nat \ {0} /\ Windows \subseteq Nat
    /\ MaxSeqAfter \in Nat /\ MaxSeq \in Nat /\ MaxSeqAfter <= MaxSeq

Blank == -1   \* an erased cell
Mixed == -2   \* a cell programmed twice, or in part

Numbers == 0..MaxSeq - 1

VARIABLES log, dump

vars == <<log, dump>>

\* s_capture.  owed is not in the code: the records a capture has to wait for.
NoCapture ==
    [active |-> FALSE, consumed |-> FALSE, ready |-> FALSE, failed |-> FALSE,
     protected |-> FALSE, hold |-> FALSE, target |-> 0, endAddr |-> 0,
     available |-> 0, post |-> 0, allowed |-> 0, owed |-> {}]

NoDump == [state |-> "idle", window |-> 0, count |-> 0, at |-> 0, left |-> 0,
           buffer |-> <<>>, file |-> <<>>]

-----------------------------------------------------------------------------
(* The chip                                                                *)

Forward(a, n) == (a + n) % Ring

CellsOf(records) ==
    [i \in 1..Record * Len(records) |-> records[(i - 1) \div Record + 1]]

\* A cell that is not erased cannot be programmed.
Programmed(ring, at, cells) ==
    [c \in Cells |-> IF c < at \/ c >= at + Len(cells) THEN ring[c]
                     ELSE IF ring[c] = Blank THEN cells[c - at + 1] ELSE Mixed]

\* Part of it done, the last cell of that part only in part.
PartProgrammed(ring, at, cells) ==
    {ring, Programmed(ring, at, cells)}
    \cup {Programmed(ring, at, Append(SubSeq(cells, 1, n), Mixed)) :
            n \in 0..Len(cells) - 1}

SectorFilled(ring, from, value) ==
    [c \in Cells |-> IF c \in from..from + Sector - 1 THEN value ELSE ring[c]]

\* s_write_chunk_first_len
FirstLen(l) ==
    IF l.addr + Record * Len(l.chunk) > Ring THEN Ring - l.addr
                                             ELSE Record * Len(l.chunk)

\* s_write_chunk_second_len > 0: the chunk goes over the end of the ring.
Split(l) == FirstLen(l) < Record * Len(l.chunk)

\* Where the write in flight goes and what it writes.
PartAt(l) == IF l.ws = "first" THEN l.addr ELSE 0

Part(l) ==
    LET cells == CellsOf(l.chunk)
    IN  IF l.ws = "first" THEN SubSeq(cells, 1, FirstLen(l))
                          ELSE SubSeq(cells, FirstLen(l) + 1, Len(cells))

\* The ring when the operation in flight on it has ended; part of an operation
\* that failed or was cut short may have been done.
Landed(l, state) ==
    IF l.meta.op # "none" \/ l.qspi = "none" \/ state \notin {"done", "error"}
    THEN {l.ring}
    ELSE LET sector == Forward(l.erase, Ring - Sector)
         IN  CASE l.qspi = "erase" /\ state = "done" ->
                     {SectorFilled(l.ring, sector, Blank)}
               [] l.qspi = "erase" /\ state = "error" ->
                     {l.ring, SectorFilled(l.ring, sector, Blank),
                              SectorFilled(l.ring, sector, Mixed)}
               [] l.qspi = "write" /\ state = "done" ->
                     {Programmed(l.ring, PartAt(l), Part(l))}
               [] l.qspi = "write" /\ state = "error" ->
                     PartProgrammed(l.ring, PartAt(l), Part(l))

-----------------------------------------------------------------------------
(* The writer                                                              *)

Counted(l, fault) == IF fault THEN l.faults + 1 ELSE l.faults

\* Bug: a lost chunk goes unnoticed by the capture.
Bug_ChunkLost(l) == [l EXCEPT !.chunk = <<>>, !.ws = "idle"]

\* The chunk is given up: log_capture_note_write_error
ChunkLost(l) ==
    [l EXCEPT !.chunk = <<>>, !.ws = "idle",
              !.cap.failed = @ \/ (l.cap.active /\ ~l.cap.ready)]

\* Bug: after a wrap the next chunk goes to the start of the ring.
Bug_NextAddr(l) == IF Split(l) THEN 0 ELSE Forward(l.addr, Record * Len(l.chunk))

\* log_advance_write_addr_after_chunk
NextAddr(l) == Forward(l.addr, Record * Len(l.chunk))

\* The chunk is in flash: log_capture_note_write_complete
ChunkDone(l) ==
    LET total == l.total + Len(l.chunk)
    IN  [l EXCEPT !.addr = NextAddr(l), !.total = total,
                  !.written = @ \o l.chunk, !.chunk = <<>>, !.ws = "idle",
                  !.cap = IF l.cap.active /\ ~l.cap.ready /\ l.cap.consumed
                          THEN [@ EXCEPT !.endAddr = NextAddr(l),
                                         !.available = total, !.ready = TRUE]
                          ELSE @]

\* log_flush_write_chunk with a chunk to write and the writer idle.  It is
\* refused while an erase is in flight, and the chunk is given up.
Flushed(l) ==
    {IF s.ok THEN [l EXCEPT !.ws = "first", !.qspi = s.qspi,
                            !.faults = Counted(l, s.fault)]
             ELSE ChunkLost(l) : s \in WriteStarted(l.qspi)}

\* The cells from the write address to the erase address.
Lead(l) ==
    IF l.erase < l.addr THEN l.erase + Ring - l.addr ELSE l.erase - l.addr

\* Bug: a part of a sector counts as one.
Bug_ErasedAhead(l) == Lead(l) + Sector - 1 >= PreErase * Sector

\* log_erase_ahead_ready
ErasedAhead(l) == Lead(l) \div Sector >= PreErase

\* log_erase_tick
EraseTick(l, blocked) ==
    IF l.meta.save # "idle" \/ blocked \/ l.cap.hold \/ l.qspi # "none"
       \/ ErasedAhead(l)
    THEN {l}
    ELSE {[l EXCEPT !.qspi = s.qspi, !.faults = Counted(l, s.fault),
                    !.erase = IF s.ok THEN Forward(@, Sector) ELSE @] :
            s \in EraseStarted(l.qspi)}

\* The end of a writer tick: the second since the last save is over, or not.
PeriodicSave(l) ==
    {l} \cup {[l EXCEPT !.meta = SaveMeta(l.meta, l.addr), !.saves = @ + 1] :
                due \in {x \in {TRUE} : l.saves < MaxSaves}}

\* The boundary of the capture, or of its retention, is reached: what is in
\* the chunk is written first.
Boundary(l) ==
    IF l.cap.ready THEN {[l EXCEPT !.cap.hold = TRUE]} ELSE PeriodicSave(l)

AtBoundary(l) ==
    \/ l.cap.active /\ ~l.cap.ready /\ l.cap.consumed
    \/ l.cap.protected /\ l.cap.post >= l.cap.allowed

\* A record goes from the queue to the chunk.
Copied(l) ==
    LET record == Head(l.queue)
        cap    == l.cap
    IN  [l EXCEPT !.chunk = Append(@, record), !.queue = Tail(@),
                  !.cap.consumed = @ \/ (/\ cap.active /\ ~cap.ready
                                         /\ record = cap.target - 1),
                  !.cap.post = IF cap.active /\ cap.ready THEN @ + 1 ELSE @]

Broken(logs) == {[log |-> l, on |-> FALSE] : l \in logs}

\* A round of the loop of log_writer_tick, and whether it goes on.  A full
\* chunk is written when there is a record for the next one.  A refused chunk
\* makes room.
Round(l) ==
    IF AtBoundary(l)
    THEN Broken(IF l.chunk = <<>> THEN Boundary(l)
                ELSE UNION {IF f.ws = "first" THEN {f} ELSE Boundary(f) : f \in Flushed(l)})
    ELSE IF l.queue = <<>> THEN Broken(PeriodicSave(l))
    ELSE IF Len(l.chunk) = ChunkRecords
    THEN {[log |-> f, on |-> f.ws # "first"] : f \in Flushed(l)}
    ELSE {[log |-> Copied(l), on |-> TRUE]}

\* The rounds of the loop: each takes a record from the queue, or makes room for
\* the next one to, or is the last.
Rounds(l) ==
    LET rounds[n \in 0..2 * Len(l.queue) + 1] ==
            IF n = 0 THEN Round(l)
            ELSE UNION {IF r.on THEN Round(r.log) ELSE {r} : r \in rounds[n - 1]}
    IN  rounds

Gather(l) == {r.log : r \in {s \in Rounds(l)[2 * Len(l.queue) + 1] : ~s.on}}

\* log_writer_tick after log_meta_tick
AfterMeta(l, blocked) ==
    IF l.meta.save # "idle" \/ blocked \/ l.cap.hold \/ l.qspi # "none" THEN {l}
    ELSE UNION {IF ErasedAhead(e) /\ e.ws = "idle" THEN Gather(e) ELSE {e} :
                    e \in EraseTick(l, blocked)}

\* log_writer_tick with the answer of the driver
WriterPolled(l, polled, blocked) ==
    LET second == polled.state = "done" /\ l.ws = "first" /\ Split(l)
        ended  == CASE l.ws # "idle" /\ polled.state = "error" -> ChunkLost(l)
                    [] l.ws # "idle" /\ polled.state = "done" -> ChunkDone(l)
                    [] OTHER -> l
    IN  IF second
        THEN {[l EXCEPT !.ws = "second", !.qspi = s.qspi,
                        !.faults = Counted(l, s.fault)] : s \in WriteStarted("none")}
        ELSE UNION {AfterMeta([ended EXCEPT !.meta = o.meta, !.slots = o.slots,
                                            !.qspi = o.qspi,
                                            !.faults = Counted(l, o.fault)], blocked) :
                       o \in MetaTick(ended.meta, ended.slots, polled, ended.ws = "idle")}

WriterTick(l, polled, blocked) ==
    UNION {WriterPolled([l EXCEPT !.ring = ring, !.qspi = polled.qspi,
                                  !.faults = Counted(l, polled.fault)],
                        polled, blocked) :
              ring \in Landed(l, polled.state)}

-----------------------------------------------------------------------------
(* The dump                                                                *)

Capacity == Ring \div Record

PreEraseRecords == (PreErase * Sector + Record - 1) \div Record

\* Bug: the sectors erased ahead are left out of account.
Bug_Allowed(records) == Capacity - records

\* log_capture_protect
Allowed(records) ==
    IF records + PreEraseRecords >= Capacity THEN 0
    ELSE Capacity - records - PreEraseRecords

\* log_dump_blocks_logging
Blocks(d) == d.state \notin {"idle", "flushing", "captured", "done"}

Outcome(l, d) == [log |-> l, dump |-> d]

Moved(l, d, state) == Outcome(l, [d EXCEPT !.state = state])

\* Bug: the capture is not released with the dump.
Bug_Released(l) == Outcome(l, NoDump)

\* dump_abort_capture, dump_abort_export; and the end of a dump.
Released(l) == Outcome([l EXCEPT !.cap = NoCapture], NoDump)

\* dump_calculate_window and log_capture_protect
Captured(l, d) ==
    LET all     == IF l.cap.available > Capacity THEN Capacity ELSE l.cap.available
        records == IF d.window > all THEN all ELSE d.window
    IN  IF records = 0 THEN Released(l)
        ELSE Outcome([l EXCEPT !.cap.protected = TRUE, !.cap.allowed = Allowed(records)],
                     [d EXCEPT !.state = "captured", !.count = records,
                               !.left = records * Record,
                               !.at = Forward(l.cap.endAddr, Ring - records * Record)])

\* A chunk is read from the ring, over its end if need be.
Read(l, d) ==
    LET n == IF d.left < DumpChunk THEN d.left ELSE DumpChunk
    IN  [d EXCEPT !.state = "writing", !.at = Forward(@, n), !.left = @ - n,
                  !.buffer = [i \in 1..n |-> l.ring[Forward(d.at, i - 1)]]]

Written(d) ==
    [d EXCEPT !.state = IF d.left > 0 THEN "reading" ELSE "finalizing",
              !.file = @ \o d.buffer, !.buffer = <<>>]

\* log_dump_tick.  safe is its argument, not balancing.  An operation on the
\* card or on the flash may fail at any time.
DumpTick(l, d, safe) ==
    CASE Blocks(d) /\ ~safe -> {Outcome(l, d)}
      [] d.state = "idle" -> {Outcome(l, d)}
      [] d.state = "flushing" ->
            IF l.cap.failed THEN {Released(l)}
            ELSE IF l.cap.ready THEN {Captured(l, d)} ELSE {Outcome(l, d)}
      [] d.state = "captured" ->
            IF safe THEN {Moved(l, d, "opening"), Released(l)} ELSE {Outcome(l, d)}
      [] d.state = "opening" /\ safe -> {Moved(l, d, "meta"), Released(l)}
      [] d.state = "meta" /\ safe -> {Moved(l, d, "reading"), Released(l)}
      [] d.state = "reading" /\ safe ->
            IF l.qspi # "none" THEN {Outcome(l, d)}
            ELSE {Outcome(l, Read(l, d)), Released(l)}
      [] d.state = "writing" /\ safe -> {Outcome(l, Written(d)), Released(l)}
      [] d.state = "finalizing" /\ safe -> {Moved(l, d, "done"), Released(l)}
      [] d.state = "done" -> {Released(l)}

-----------------------------------------------------------------------------
(* The actions                                                             *)

\* log_init on a chip with this ring and these slots.
Started(ring, slots, chosen, tailValid, l) ==
    LET loaded == tailValid /\ chosen # NoMeta
        addr   == IF loaded THEN chosen.addr ELSE 0
        meta   == IF loaded THEN LoadedMeta(chosen) ELSE FreshMeta
    IN  [queue |-> <<>>, chunk |-> <<>>, ws |-> "idle", qspi |-> "none",
         seq |-> l.seq, next |-> 0, total |-> 0, written |-> <<>>,
         addr |-> addr, erase |-> (addr \div Sector) * Sector,
         meta |-> SaveMeta(meta, addr), cap |-> NoCapture,
         ring |-> ring, slots |-> slots, faults |-> l.faults,
         boots |-> l.boots + 1, saves |-> l.saves, dumps |-> l.dumps]

\* log_validate_ring_tail: it looks at the header of the record before the
\* write address; one of half a record may have survived.
TailValid(ring, addr) ==
    LET tail == {ring[c] : c \in addr - Record..addr - 1}
    IN  IF addr = 0 \/ \E n \in Numbers : tail = {n} THEN {TRUE}
        ELSE IF ring[addr - Record] = Blank THEN {FALSE} ELSE BOOLEAN

Init ==
    /\ log = Started([c \in Cells |-> Blank], [p \in Parities |-> NoMeta], NoMeta, TRUE,
                     [seq |-> 0, faults |-> 0, boots |-> 0, saves |-> 0, dumps |-> 0])
    /\ dump = NoDump

\* Failures of the flash and resets so far.
Disturbances(l) == l.faults + l.boots - 1

\* The bounds on the records, and on what disturbs the log.
InBounds(l) ==
    /\ Disturbances(l) <= MaxDisturbances
    /\ l.seq <= IF Disturbances(l) = 0 THEN MaxSeq ELSE MaxSeqAfter

\* The control tick: log_push_record.  The number is used up all the same
\* when the record is dropped.
Push ==
    /\ IF Blocks(dump) \/ log.cap.hold \/ Len(log.queue) = QueueMax
       THEN log' = [log EXCEPT !.seq = @ + 1]
       ELSE log' = [log EXCEPT !.seq = @ + 1, !.next = log.seq + 1,
                               !.queue = Append(@, log.seq)]
    /\ InBounds(log')
    /\ UNCHANGED dump

\* The idle tick: log_writer_tick, log_erase_tick and log_dump_tick.  ends is
\* whether the operation in flight has ended.
IdleTick(safe, ends) ==
    \E polled \in Polled(log.qspi) :
        /\ (polled.state = "busy") = ~ends
        /\ \E l \in WriterTick(log, polled, Blocks(dump)) :
           \E e \in EraseTick(l, Blocks(dump)) :
           \E o \in DumpTick(e, dump, safe) :
              /\ InBounds(o.log)
              /\ log' = o.log
              /\ dump' = o.dump

\* Bug: the capture does not look into the chunk.
Bug_Begun(l) ==
    [NoCapture EXCEPT !.active = TRUE, !.target = l.next,
                      !.owed = ToSet(l.chunk) \cup ToSet(l.queue)]

\* log_capture_begin
Begun(l) ==
    [NoCapture EXCEPT !.active = TRUE, !.target = l.next,
                      !.consumed = l.chunk # <<>> /\ Last(l.chunk) = l.next - 1,
                      !.owed = ToSet(l.chunk) \cup ToSet(l.queue)]

\* The operator asks for a dump: log_dump_last_seconds, with a card mounted.
Request(window) ==
    /\ log.dumps < MaxDumps
    /\ dump.state = "idle" /\ ~log.cap.active
    /\ log.total > 0 \/ log.queue # <<>> \/ log.chunk # <<>>
    /\ log' = [log EXCEPT !.cap = Begun(log), !.dumps = @ + 1]
    /\ dump' = [NoDump EXCEPT !.state = "flushing", !.window = window]

\* Power is lost, or the firmware reset, at any moment; it boots again.
Reset ==
    /\ \E ring \in Landed(log, "error"), slots \in HalfDone(log.meta, log.slots) :
        LET chosen == Chosen(slots, Parities)
        IN  \E tailValid \in TailValid(ring, IF chosen = NoMeta THEN 0 ELSE chosen.addr) :
               log' = Started(ring, slots, chosen, tailValid, log)
    /\ InBounds(log')
    /\ dump' = NoDump

Next ==
    \/ Push
    \/ \E safe, ends \in BOOLEAN : IdleTick(safe, ends)
    \/ \E window \in Windows : Request(window)
    \/ Reset

\* The main loop comes back to the idle tick, and an operation of the chip
\* ends.  Nothing is assumed of the robot's getting safe.
Spec == Init /\ [][Next]_vars /\ WF_vars(\E safe \in BOOLEAN : IdleTick(safe, TRUE))

-----------------------------------------------------------------------------
(* Properties                                                              *)

CaptureStates ==
    [active : BOOLEAN, consumed : BOOLEAN, ready : BOOLEAN, failed : BOOLEAN,
     protected : BOOLEAN, hold : BOOLEAN, target : 0..MaxSeq, endAddr : Cells,
     available : 0..MaxSeq, post : 0..MaxSeq, allowed : 0..Capacity,
     owed : SUBSET Numbers]

\* Types, and the sizes of the queue, the chunk and the reads.
TypeOK ==
    /\ log.queue \in SeqOf(Numbers, QueueMax)
    /\ log.chunk \in SeqOf(Numbers, ChunkRecords)
    /\ log.ws \in {"idle", "first", "second"} /\ log.qspi \in Operations
    /\ log.seq \in 0..MaxSeq /\ log.next \in 0..log.seq /\ log.total = Len(log.written)
    /\ log.addr \in Cells /\ log.erase \in {c \in Cells : c % Sector = 0}
    /\ log.meta \in MetaState /\ log.cap \in CaptureStates
    /\ \A c \in Cells : log.ring[c] \in Numbers \cup {Blank, Mixed}
    /\ \A p \in Parities : log.slots[p] \in MetaRecord \cup {NoMeta}
    /\ dump.left + Len(dump.buffer) + Len(dump.file)
          \in {0, dump.count * Record}
    /\ log.cap.active <=> dump.state # "idle"

\* The chip has not failed and this is the first boot.  What goes wrong then is
\* in the README.
Undisturbed == Disturbances(log) = 0

\* Every chunk, the two parts of one that goes over the end of the ring too, is
\* programmed into erased cells: the erase-ahead keeps ahead of the writer over
\* every order of pushes, saves, dumps and holds.
ChunksOnErased == Undisturbed => \A c \in Cells : log.ring[c] # Mixed

\* The sectors from the write address on are kept erased, after a reset too:
\* a chunk is written where the ring is blank, as long as the flash works.
ErasedUnderWriter ==
    log.faults = 0 /\ log.ws # "idle" /\ log.qspi = "write" =>
        \A i \in DOMAIN Part(log) : log.ring[PartAt(log) + i - 1] = Blank

\* Cells from the erase frontier, over the oldest records, to the writer.
Kept == Ring - Lead(log)

\* Back from the write address up to the erase frontier the ring holds the
\* last records written, whole and in their order, after any number of wraps.
RingHoldsTail ==
    Undisturbed =>
        \A k \in 1..Len(log.written) :
            k * Record <= Kept =>
                \A i \in 0..Record - 1 :
                    log.ring[Forward(log.addr, Ring - k * Record + i)]
                        = log.written[Len(log.written) - k + 1]

\* A capture is not ready before every record that was in the queue or in the
\* chunk when it was asked for is in flash, or else it counts as failed; and
\* then the last record in flash is the last one accepted before it.
CapturedWhole ==
    log.cap.ready /\ ~log.cap.failed =>
        /\ log.cap.owed \subseteq ToSet(log.written)
        /\ log.cap.owed # {} => log.written[log.cap.available] = log.cap.target - 1

\* Records in flash since the capture beyond those log_capture_protect allows:
\* the tick that finishes the capture fills another chunk before.
Overrun ==
    LET since == log.total - log.cap.available
    IN  IF since > log.cap.allowed THEN since - log.cap.allowed ELSE 0

\* A dump of a window that fits beside the sectors erased ahead holds the last
\* records up to the capture, though the log went on between the capture and
\* the export; of its oldest sector, and of the records overrun, what the
\* erase-ahead left: the retention that log_capture_protect computes is short
\* of up to a sector and a chunk.
DumpIsTail ==
    /\ Undisturbed /\ dump.state = "done"
    /\ dump.count * Record + PreErase * Sector <= Ring
    => LET n    == log.cap.available
           tail == CellsOf(SubSeq(log.written, n - dump.count + 1, n))
       IN  /\ Len(dump.file) = Len(tail)
           /\ \A i \in DOMAIN tail :
                \/ dump.file[i] = tail[i]
                \/ i <= Sector + Record * Overrun /\ dump.file[i] = Blank

\* A capture whose last record is still to be written is ready or given up in
\* the end, unless the flash fails.
CaptureEnds ==
    /\ dump.state = "flushing" /\ log.faults = 0
    /\ log.next - 1 \in ToSet(log.queue) \cup ToSet(log.chunk)
    ~> dump.state # "flushing" \/ log.faults > 0
=============================================================================
