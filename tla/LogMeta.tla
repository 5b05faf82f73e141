------------------------------- MODULE LogMeta -------------------------------
(***************************************************************************)
(* The metadata of the blackbox (blackbox.c): where the next record goes in *)
(* the flash ring, kept in two slots of one flash sector each, with a       *)
(* sequence number whose parity says which slot it belongs to.  A save      *)
(* erases the slot of the other parity, programs it, reads it back and only *)
(* then counts; a boot takes the newer of the valid slots.                  *)
(*                                                                          *)
(* meta is the firmware's side: the state of a save and the sequence last   *)
(* verified; slots is the flash.  Of a record, the sequence number and the  *)
(* write address; the others do not decide anything.  The CRC is assumed to *)
(* tell a whole record from anything else.                                  *)
(***************************************************************************)
EXTENDS Integers, QspiFlash

CONSTANTS Record,     \* cells of a record
          Ring,       \* cells of the ring
          Half,       \* half the sequence numbers there are: 2^31
          NoMeta      \* a slot without a whole record

ASSUME MetaAssumption ==
    /\ Record \in Nat \ {0} /\ Ring \in Nat \ {0}
    /\ Half \in Nat /\ Half >= 2

\* The addresses of the ring, and those a whole number of records from its
\* start.
Cells == 0..Ring - 1

RingStart == 0

Aligned == {a \in Cells : a % Record = 0}

Sequences == 0..2 * Half - 1

Parities == 0..1

MetaRecord == [seq : Sequences, addr : Cells]

ASSUME NoMetaAssumption == NoMeta \notin MetaRecord

\* s_meta_save_state, s_meta_op_inflight, s_meta_sequence,
\* s_meta_candidate_sequence, s_meta_has_valid, and s_meta_pending's address.
MetaState == [save : {"idle", "erase", "write", "verify"},
              op : Operations,
              seq : Sequences, candidate : Sequences,
              hasValid : BOOLEAN, addr : Cells]

\* Bug: the number does not roll over.
Bug_Following(seq) == seq + 1

\* s_meta_sequence + 1U in uint32_t
Following(seq) == IF seq = 2 * Half - 1 THEN 0 ELSE seq + 1

\* candidate - reference in uint32_t
Ahead(candidate, reference) ==
    IF candidate >= reference THEN candidate - reference
                              ELSE candidate - reference + 2 * Half

\* log_meta_sequence_is_newer
Newer(candidate, reference) ==
    candidate # reference /\ Ahead(candidate, reference) < Half

\* log_validate_meta
ValidMeta(slot) == slot # NoMeta /\ slot.addr \in Aligned

\* What log_load_meta takes for valid in a slot.
InSlot(sl, p) == ValidMeta(sl[p]) /\ sl[p].seq % 2 = p

\* Bug: the larger number is the newer one.
Bug_Chosen(sl, readable) ==
    LET there(p) == p \in readable /\ InSlot(sl, p)
    IN  IF there(0) /\ there(1)
        THEN IF sl[1].seq > sl[0].seq THEN sl[1] ELSE sl[0]
        ELSE IF there(0) THEN sl[0] ELSE IF there(1) THEN sl[1] ELSE NoMeta

\* log_load_meta's choice among the slots whose read succeeds
Chosen(sl, readable) ==
    LET there(p) == p \in readable /\ InSlot(sl, p)
    IN  IF there(0) /\ there(1)
        THEN IF Newer(sl[1].seq, sl[0].seq) THEN sl[1] ELSE sl[0]
        ELSE IF there(0) THEN sl[0] ELSE IF there(1) THEN sl[1] ELSE NoMeta

\* log_format_meta: the metadata part
FreshMeta ==
    [save |-> "idle", op |-> "none", seq |-> 0, candidate |-> 0,
     hasValid |-> FALSE, addr |-> RingStart]

\* The metadata after a boot that loaded a record.
LoadedMeta(r) == [FreshMeta EXCEPT !.seq = r.seq, !.hasValid = TRUE]

\* log_save_meta: refused, and then without effect, while a save is going on
SaveMeta(m, a) ==
    IF m.save # "idle" \/ m.op # "none" THEN m
    ELSE [m EXCEPT !.save = "erase", !.addr = a,
                   !.candidate = IF m.hasValid THEN Following(m.seq) ELSE 0]

Candidate(m) == [seq |-> m.candidate, addr |-> m.addr]

\* s_meta_slot_addr
Target(m) == m.candidate % 2

\* log_meta_save_failed
SaveFailed(m) == [m EXCEPT !.op = "none", !.save = "idle"]

\* What a slot may hold when an operation on it did not end well: the sector
\* untouched, done, or half done.
HalfDone(m, sl) ==
    CASE m.op = "erase" -> {sl, [sl EXCEPT ![Target(m)] = NoMeta]}
      [] m.op = "write" -> {[sl EXCEPT ![Target(m)] = c] : c \in {NoMeta, Candidate(m)}}
      [] m.op = "none" -> {sl}

\* What it holds when the operation ended well.  The sector was erased before
\* it is programmed.
Finished(m, sl) ==
    [sl EXCEPT ![Target(m)] = IF m.op = "erase" THEN NoMeta ELSE Candidate(m)]

\* fault: an operation that this tick starts fails at once.
MetaOutcome(m, sl, qspi, fault) ==
    [meta |-> m, slots |-> sl, qspi |-> qspi, fault |-> fault]

\* log_meta_tick with an operation of its own in flight.  polled is what the
\* driver reported at the start of the tick.
MetaPolled(m, sl, polled) ==
    CASE polled.state = "done" ->
            {MetaOutcome([m EXCEPT !.op = "none",
                                   !.save = IF m.op = "erase" THEN "write" ELSE "verify"],
                         Finished(m, sl), polled.qspi, FALSE)}
      [] polled.state = "error" ->
            {MetaOutcome(SaveFailed(m), half, polled.qspi, FALSE) :
                half \in HalfDone(m, sl)}
      [] OTHER -> {MetaOutcome(m, sl, polled.qspi, FALSE)}

\* The readback: the record counts when it is what was to be written, and valid.
Verified(m, sl, read) ==
    IF read /\ sl[Target(m)] = Candidate(m) /\ ValidMeta(sl[Target(m)])
    THEN [m EXCEPT !.save = "idle", !.seq = m.candidate, !.hasValid = TRUE]
    ELSE SaveFailed(m)

\* log_meta_tick with nothing in flight, the writer idle and the flash ready.
MetaStarted(m, sl) ==
    CASE m.save = "erase" ->
            {MetaOutcome(IF s.ok THEN [m EXCEPT !.op = "erase"] ELSE SaveFailed(m),
                         sl, s.qspi, s.fault) : s \in EraseStarted("none")}
      [] m.save = "write" ->
            {MetaOutcome([m EXCEPT !.op = "write"], sl, s.qspi, s.fault) :
                s \in WriteStarted("none")}
      [] m.save = "verify" ->
            {MetaOutcome(Verified(m, sl, read), sl, "none", ~read) : read \in BOOLEAN}

\* log_meta_tick
MetaTick(m, sl, polled, writerIdle) ==
    IF m.save = "idle" THEN {MetaOutcome(m, sl, polled.qspi, FALSE)}
    ELSE IF m.op # "none" THEN MetaPolled(m, sl, polled)
    ELSE IF ~writerIdle \/ polled.qspi # "none"
    THEN {MetaOutcome(m, sl, polled.qspi, FALSE)}
    ELSE MetaStarted(m, sl)
=============================================================================
