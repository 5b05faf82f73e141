---------------------------- MODULE BlackboxProofs ----------------------------
(***************************************************************************)
(* Proofs for LogMetaSaves and Blackbox.                                    *)
(*                                                                          *)
(* Of LogMetaSaves, for any ring and any number of sequence numbers.  The   *)
(* invariant SavesInv says where the record that is taken for safe is (the  *)
(* slot of its parity), and what the other slot may hold: nothing valid,    *)
(* the record being saved, or one that loses against it.                    *)
(*                                                                          *)
(* Of Blackbox, for any geometry of ring, sector, record and chunk, and any *)
(* number of records, failures and resets.  The invariant IInv says what is *)
(* in RAM and in which order (Sized, Lined), what a capture still waits for *)
(* (Owing), what each cell of the ring holds, counted from the write        *)
(* address forward and back (Laid), what the writer did to a capture since  *)
(* it was ready (Retained), and how far its dump has come (Advanced,        *)
(* Exported).  log_writer_tick is followed step by step: what its parts     *)
(* keep is Base, what they leave to the dump Continues, and what each round *)
(* of its loop keeps its result has, by induction on the rounds.            *)
(***************************************************************************)
EXTENDS Blackbox, LogMetaSaves, FiniteSetTheorems, WellFoundedInduction, SequenceTheorems,
        TLAPS

Other(p) == 1 - p

\* A save that is under way has the number after the verified one.
SaveSound ==
    /\ meta.op # "none" => meta.save # "idle"
    /\ meta.save # "idle" =>
          meta.candidate = IF meta.hasValid THEN Following(meta.seq) ELSE 0

\* The record taken for safe is in the slot of its parity, and the other slot
\* does not outdo it, other than with the save under way.
DurableHeld ==
    meta.hasValid =>
        LET p == meta.seq % 2
        IN  /\ slots[p] = durable /\ durable # NoMeta
            /\ durable.addr \in Aligned /\ durable.seq = meta.seq
            /\ Other(p) \notin unweighed /\ InSlot(slots, Other(p)) =>
                  \/ slots[Other(p)].seq = Following(meta.seq)
                  \/ Chosen(slots, Parities) = durable

\* Before the first save after a format no slot is valid that the boot took
\* into account, but the one the save goes to.
FormatHeld ==
    ~meta.hasValid => (InSlot(slots, 1) => 1 \in unweighed)

SavesInv == SavesTypeOK /\ SaveSound /\ DurableHeld /\ FormatHeld

\* The ring's start is an address of it.
LEMMA StartAddress == RingStart \in Cells
  BY MetaAssumption DEF RingStart, Cells

\* The parity of a sequence number names a slot.
LEMMA SeqParity ==
    ASSUME NEW s \in Sequences
    PROVE  s % 2 \in Parities
  BY MetaAssumption DEF Sequences, Parities

\* The number after another belongs to the other slot and is newer, over the
\* rollover too.
LEMMA FollowingFacts ==
    ASSUME NEW s \in Sequences
    PROVE  /\ Following(s) \in Sequences
           /\ Following(s) % 2 = Other(s % 2)
           /\ Newer(Following(s), s)
           /\ ~Newer(s, Following(s))
  BY MetaAssumption DEF Sequences, Following, Other, Newer, Ahead

SlotStates == [Parities -> MetaRecord \cup {NoMeta}]

\* What a valid slot holds.
LEMMA InSlotFacts ==
    ASSUME NEW sl \in SlotStates, NEW p \in Parities, InSlot(sl, p)
    PROVE  /\ sl[p] \in MetaRecord /\ sl[p] # NoMeta
           /\ sl[p].addr \in Aligned /\ sl[p].seq % 2 = p
           /\ sl[p].seq \in Sequences
  BY NoMetaAssumption DEF SlotStates, InSlot, ValidMeta, MetaRecord

\* The choice is one of the valid slots that were read.
LEMMA ChosenFacts ==
    ASSUME NEW sl \in SlotStates, NEW readable \in SUBSET Parities,
           Chosen(sl, readable) # NoMeta
    PROVE  \E p \in readable : InSlot(sl, p) /\ Chosen(sl, readable) = sl[p]
  BY DEF Chosen, Parities

\* A valid slot is chosen unless the other one is, and always against an
\* older one.
LEMMA ChosenOfTwo ==
    ASSUME NEW sl \in SlotStates, NEW p \in Parities, InSlot(sl, p)
    PROVE  /\ \/ Chosen(sl, Parities) = sl[p]
              \/ /\ InSlot(sl, Other(p))
                 /\ Chosen(sl, Parities) = sl[Other(p)]
           /\ (/\ ~Newer(sl[Other(p)].seq, sl[p].seq)
               /\ Newer(sl[p].seq, sl[Other(p)].seq))
              => Chosen(sl, Parities) = sl[p]
  BY DEF Chosen, Parities, Other

(* What a call of log_save_meta does to the state of a save.                 *)
LEMMA SaveMetaFacts ==
    ASSUME NEW m \in MetaState, NEW a \in Cells
    PROVE  /\ SaveMeta(m, a) \in MetaState
           /\ SaveMeta(m, a).seq = m.seq
           /\ SaveMeta(m, a).hasValid = m.hasValid
           /\ SaveMeta(m, a).op = m.op
           /\ \/ SaveMeta(m, a) = m
              \/ SaveMeta(m, a).candidate =
                    IF m.hasValid THEN Following(m.seq) ELSE 0
  <1>1. 0 \in Sequences
    BY MetaAssumption DEF Sequences
  <1> QED
    BY <1>1, FollowingFacts DEF MetaState, SaveMeta

\* The state of the metadata after a boot that took this record, or none.
LEMMA BootedFacts ==
    ASSUME NEW r \in MetaRecord \cup {NoMeta}, NEW a \in Cells
    PROVE  /\ Booted(r, a) \in MetaState
           /\ Booted(r, a).hasValid <=> r # NoMeta
           /\ r # NoMeta => Booted(r, a).seq = r.seq
           /\ Booted(r, a).candidate =
                 IF r # NoMeta THEN Following(r.seq) ELSE 0
  <1>1. 0 \in Sequences /\ RingStart \in Cells
    BY MetaAssumption, StartAddress DEF Sequences
  <1>2. FreshMeta \in MetaState
    BY <1>1 DEF FreshMeta, MetaState, Operations
  <1>3. CASE r = NoMeta
    BY <1>1, <1>2, <1>3, SaveMetaFacts DEF Booted, FreshMeta, SaveMeta
  <1>4. CASE r # NoMeta
    <2>1. r \in MetaRecord /\ r.seq \in Sequences
      BY <1>4 DEF MetaRecord
    <2>2. LoadedMeta(r) \in MetaState
      BY <1>1, <2>1 DEF LoadedMeta, FreshMeta, MetaState, Operations
    <2> QED
      BY <1>4, <2>1, <2>2, SaveMetaFacts DEF Booted, LoadedMeta, FreshMeta, SaveMeta
  <1> QED
    BY <1>3, <1>4

(* What a reset may leave in the slots: only the slot of the save changes.   *)
LEMMA HalfDoneFacts ==
    ASSUME NEW m \in MetaState, NEW sl \in SlotStates, NEW torn \in HalfDone(m, sl)
    PROVE  /\ Candidate(m) \in MetaRecord /\ Target(m) \in Parities
           /\ torn \in SlotStates
           /\ torn \in {sl, [sl EXCEPT ![Target(m)] = NoMeta],
                            [sl EXCEPT ![Target(m)] = Candidate(m)]}
           /\ m.op = "none" => torn = sl
  <1>1. Candidate(m) \in MetaRecord
    BY DEF Candidate, MetaRecord, MetaState
  <1>2. Target(m) \in Parities
    BY SeqParity DEF Target, MetaState
  <1>3. m.op \in {"none", "write", "erase"}
    BY DEF MetaState, Operations
  <1> QED
    BY <1>1, <1>2, <1>3 DEF HalfDone, SlotStates

(* A tick of a save: it moves on, gives up, or its record has been read back. *)
LEMMA TickFacts ==
    ASSUME NEW m \in MetaState, NEW sl \in SlotStates, NEW op \in Operations,
           NEW polled \in Polled(op), NEW writerIdle \in BOOLEAN,
           NEW o \in MetaTick(m, sl, polled, writerIdle)
    PROVE  /\ o.meta \in MetaState /\ o.qspi \in Operations
           /\ o.slots = sl \/ o.slots \in HalfDone(m, sl)
           /\ o.meta.save # "idle" => m.save # "idle"
           /\ o.meta.op # "none" => o.meta.save # "idle" \/ m.save = "idle"
           /\ m.save = "idle" => o.meta = m
           /\ o.meta.candidate = m.candidate
           /\ \/ o.meta.seq = m.seq /\ o.meta.hasValid = m.hasValid
              \/ /\ m.save = "verify" /\ o.slots = sl
                 /\ sl[Target(m)] = Candidate(m) /\ ValidMeta(Candidate(m))
                 /\ o.meta.seq = m.candidate /\ o.meta.hasValid
                 /\ o.meta.save = "idle"
  <1>1. /\ m.save \in {"idle", "erase", "write", "verify"}
        /\ m.op \in {"none", "write", "erase"}
    BY DEF MetaState, Operations
  <1>2. polled.qspi \in Operations /\ polled.state \in {"idle", "busy", "done", "error"}
    BY DEF Polled, Operations
  <1>3. /\ SaveFailed(m) \in MetaState
        /\ \A op2 \in Operations : [m EXCEPT !.op = op2] \in MetaState
        /\ \A save2 \in {"write", "verify"} :
              [m EXCEPT !.op = "none", !.save = save2] \in MetaState
        /\ [m EXCEPT !.save = "idle", !.seq = m.candidate, !.hasValid = TRUE]
              \in MetaState
    BY DEF MetaState, SaveFailed, Operations
  <1>4. CASE m.save = "idle"
    BY <1>2, <1>4 DEF MetaTick, MetaOutcome
  <1>5. CASE m.save # "idle" /\ m.op # "none"
    <2>1. o \in MetaPolled(m, sl, polled)
      BY <1>5 DEF MetaTick
    <2>2. CASE polled.state = "done"
      <3>1. Finished(m, sl) \in HalfDone(m, sl)
        BY <1>1, <1>5 DEF Finished, HalfDone
      <3>2. /\ o.meta = [m EXCEPT !.op = "none",
                            !.save = IF m.op = "erase" THEN "write" ELSE "verify"]
            /\ o.slots = Finished(m, sl) /\ o.qspi = polled.qspi
        BY <2>1, <2>2 DEF MetaPolled, MetaOutcome
      <3> QED
        BY <1>2, <1>3, <1>5, <3>1, <3>2 DEF MetaState
    <2>3. CASE polled.state = "error"
      <3>1. /\ o.meta = SaveFailed(m)
            /\ o.slots \in HalfDone(m, sl) /\ o.qspi = polled.qspi
        BY <2>1, <2>3 DEF MetaPolled, MetaOutcome
      <3> QED
        BY <1>2, <1>3, <1>5, <3>1 DEF SaveFailed, MetaState
    <2>4. CASE polled.state \notin {"done", "error"}
      <3>1. o.meta = m /\ o.slots = sl /\ o.qspi = polled.qspi
        BY <2>1, <2>4 DEF MetaPolled, MetaOutcome
      <3> QED
        BY <1>2, <1>5, <3>1
    <2> QED
      BY <2>2, <2>3, <2>4
  <1>6. CASE /\ m.save # "idle" /\ m.op = "none"
             /\ ~writerIdle \/ polled.qspi # "none"
    BY <1>2, <1>6 DEF MetaTick, MetaOutcome
  <1>7. CASE /\ m.save # "idle" /\ m.op = "none"
             /\ writerIdle /\ polled.qspi = "none"
    <2>1. o \in MetaStarted(m, sl)
      BY <1>7 DEF MetaTick
    <2>2. CASE m.save = "erase"
      <3>1. PICK st \in EraseStarted("none") :
               o = MetaOutcome(IF st.ok THEN [m EXCEPT !.op = "erase"] ELSE SaveFailed(m),
                               sl, st.qspi, st.fault)
        BY <2>1, <2>2 DEF MetaStarted
      <3>2. st.qspi \in Operations /\ "erase" \in Operations
        BY DEF EraseStarted, Operations
      <3>3. /\ o.slots = sl /\ o.qspi = st.qspi
            /\ o.meta \in {[m EXCEPT !.op = "erase"], SaveFailed(m)}
        BY <3>1 DEF MetaOutcome
      <3>4. /\ o.meta.candidate = m.candidate /\ o.meta.seq = m.seq
            /\ o.meta.hasValid = m.hasValid
            /\ o.meta.op # "none" => o.meta.save = m.save
        BY <3>3 DEF SaveFailed, MetaState
      <3>5. o.meta \in MetaState
        BY <1>3, <3>2, <3>3
      <3> QED
        BY <1>7, <3>2, <3>3, <3>4, <3>5
    <2>3. CASE m.save = "write"
      <3>1. PICK st \in WriteStarted("none") :
               o = MetaOutcome([m EXCEPT !.op = "write"], sl, st.qspi, st.fault)
        BY <2>1, <2>3 DEF MetaStarted
      <3>2. st.qspi \in Operations /\ "write" \in Operations
        BY DEF WriteStarted, Operations
      <3>3. o.slots = sl /\ o.qspi = st.qspi /\ o.meta = [m EXCEPT !.op = "write"]
        BY <3>1 DEF MetaOutcome
      <3> QED
        BY <1>3, <1>7, <3>2, <3>3 DEF MetaState
    <2>4. CASE m.save = "verify"
      <3>1. PICK read \in BOOLEAN : o = MetaOutcome(Verified(m, sl, read), sl, "none", ~read)
        BY <2>1, <2>4 DEF MetaStarted
      <3>2. /\ o.slots = sl /\ o.qspi = "none" /\ "none" \in Operations
            /\ o.meta = Verified(m, sl, read)
        BY <3>1 DEF MetaOutcome, Operations
      <3>3. CASE read /\ sl[Target(m)] = Candidate(m) /\ ValidMeta(sl[Target(m)])
        <4>1. ValidMeta(Candidate(m))
          BY <3>3 DEF ValidMeta
        <4> QED
          BY <1>3, <1>7, <2>4, <3>2, <3>3, <4>1 DEF Verified, MetaState
      <3>4. CASE ~(read /\ sl[Target(m)] = Candidate(m) /\ ValidMeta(sl[Target(m)]))
        <4>1. o.meta = SaveFailed(m)
          BY <3>2, <3>4, Zenon DEF Verified
        <4> QED
          BY <1>3, <1>7, <2>4, <3>2, <4>1 DEF SaveFailed, MetaState
      <3> QED
        BY <3>3, <3>4
    <2> QED
      BY <1>1, <1>7, <2>2, <2>3, <2>4
  <1> QED
    BY <1>4, <1>5, <1>6, <1>7

(* A tick that does not count a record: only the slot of the save changes.   *)
LEMMA TickKeeps ==
    ASSUME SavesInv, NEW writerIdle \in BOOLEAN, Tick(writerIdle),
           meta'.seq = meta.seq, meta'.hasValid = meta.hasValid
    PROVE  durable' = durable /\ DurableHeld' /\ FormatHeld'
  <1>0. PICK polled \in Polled(qspi) :
           \E o \in MetaTick(meta, slots, polled, writerIdle) : TickTo(o)
    BY DEF Tick, TickTo
  <1>1. PICK o \in MetaTick(meta, slots, polled, writerIdle) :
           /\ meta' = o.meta /\ slots' = o.slots
           /\ durable' = IF meta.save = "verify" /\ o.meta.seq = meta.candidate
                            /\ o.meta.hasValid
                         THEN Candidate(meta) ELSE durable
           /\ unweighed' = {p \in unweighed : o.slots[p] = slots[p]}
    BY <1>0 DEF TickTo
  <1>2. /\ meta \in MetaState /\ slots \in SlotStates /\ qspi \in Operations
        /\ meta.seq \in Sequences /\ unweighed \subseteq Parities
    BY DEF SavesInv, SavesTypeOK, SlotStates, MetaState
  <1>3. /\ slots' = slots \/ slots' \in HalfDone(meta, slots)
        /\ meta'.save # "idle" => meta.save # "idle"
    BY <1>1, <1>2, TickFacts
  <1>4. durable' = durable
    <2>1. meta.save = "verify" /\ meta.hasValid => meta.candidate # meta.seq
      BY <1>2, FollowingFacts DEF SavesInv, SaveSound, Newer
    <2> QED
      BY <1>1, <2>1
  <1>5. CASE slots' = slots
    BY <1>1, <1>4, <1>5 DEF SavesInv, DurableHeld, FormatHeld, InSlot
  <1>6. CASE slots' # slots
    <2>1. /\ Target(meta) \in Parities
          /\ slots' \in {[slots EXCEPT ![Target(meta)] = NoMeta],
                         [slots EXCEPT ![Target(meta)] = Candidate(meta)]}
          /\ meta.save # "idle"
      BY <1>2, <1>3, <1>6, HalfDoneFacts DEF SavesInv, SaveSound
    <2>2. DurableHeld'
      <3> SUFFICES ASSUME meta.hasValid
                   PROVE  DurableHeld'
        BY DEF DurableHeld
      <3> DEFINE p == meta.seq % 2
      <3>1. p \in Parities /\ Target(meta) = Other(p) /\ Other(p) # p
        BY <1>2, <2>1, SeqParity, FollowingFacts
        DEF SavesInv, SaveSound, Target, Parities, Other
      <3>2. slots'[p] = slots[p]
        BY <1>2, <2>1, <3>1 DEF SlotStates
      <3>3. \/ slots'[Other(p)] = NoMeta
            \/ slots'[Other(p)] = Candidate(meta)
        BY <1>2, <2>1, <3>1 DEF SlotStates
      <3>4. InSlot(slots', Other(p)) => slots'[Other(p)].seq = Following(meta.seq)
        BY <2>1, <3>3 DEF InSlot, ValidMeta, Candidate, SavesInv, SaveSound
      <3> QED
        BY <1>4, <3>2, <3>4 DEF SavesInv, DurableHeld
    <2>3. FormatHeld'
      <3> SUFFICES ASSUME ~meta.hasValid
                   PROVE  FormatHeld'
        BY DEF FormatHeld
      <3>1. Target(meta) = 0
        BY <2>1 DEF SavesInv, SaveSound, Target
      <3>2. slots'[1] = slots[1]
        BY <1>2, <2>1, <3>1 DEF SlotStates, Parities
      <3> QED
        BY <1>1, <3>2 DEF SavesInv, FormatHeld, InSlot
    <2> QED
      BY <1>4, <2>2, <2>3
  <1> QED
    BY <1>4, <1>5, <1>6

(* A tick whose record has been read back: it outdoes the one before.        *)
LEMMA TickCounts ==
    ASSUME SavesInv, NEW writerIdle \in BOOLEAN, Tick(writerIdle),
           ~(meta'.seq = meta.seq /\ meta'.hasValid = meta.hasValid)
    PROVE  /\ durable' \in MetaRecord
           /\ DurableHeld' /\ FormatHeld'
  <1>0. PICK polled \in Polled(qspi) :
           \E o \in MetaTick(meta, slots, polled, writerIdle) : TickTo(o)
    BY DEF Tick, TickTo
  <1>1. PICK o \in MetaTick(meta, slots, polled, writerIdle) :
           /\ meta' = o.meta /\ slots' = o.slots
           /\ durable' = IF meta.save = "verify" /\ o.meta.seq = meta.candidate
                            /\ o.meta.hasValid
                         THEN Candidate(meta) ELSE durable
           /\ unweighed' = {p \in unweighed : o.slots[p] = slots[p]}
    BY <1>0 DEF TickTo
  <1>2. /\ meta \in MetaState /\ slots \in SlotStates /\ qspi \in Operations
        /\ meta.seq \in Sequences /\ meta.candidate \in Sequences
        /\ unweighed \subseteq Parities
    BY DEF SavesInv, SavesTypeOK, SlotStates, MetaState
  <1>3. /\ meta.save = "verify" /\ slots' = slots
        /\ slots[Target(meta)] = Candidate(meta) /\ ValidMeta(Candidate(meta))
        /\ meta'.seq = meta.candidate /\ meta'.hasValid
    BY <1>1, <1>2, TickFacts
  <1>4. durable' = Candidate(meta) /\ unweighed' = unweighed
    BY <1>1, <1>3
  <1>5. /\ Candidate(meta) \in MetaRecord
        /\ Candidate(meta).seq = meta.candidate
    BY <1>2 DEF Candidate, MetaRecord, MetaState
  <1>6. meta.candidate = IF meta.hasValid THEN Following(meta.seq) ELSE 0
    BY <1>3 DEF SavesInv, SaveSound
  <1> DEFINE p == meta.candidate % 2
  <1>7. /\ p \in Parities /\ Target(meta) = p
        /\ slots[p] = durable' /\ InSlot(slots, p)
    BY <1>2, <1>3, <1>4, <1>5, SeqParity DEF Target, InSlot
  <1>8. durable' # NoMeta /\ durable'.addr \in Aligned
    BY <1>3, <1>4 DEF ValidMeta
  <1>9. Other(p) \notin unweighed /\ InSlot(slots, Other(p)) =>
           Chosen(slots, Parities) = slots[p]
    <2>1. CASE meta.hasValid
      <3>1. /\ meta.seq % 2 = Other(p)
            /\ Newer(meta.candidate, meta.seq) /\ ~Newer(meta.seq, meta.candidate)
        BY <1>2, <1>6, <2>1, FollowingFacts, SeqParity DEF Other, Parities
      <3>2. slots[Other(p)].seq = meta.seq
        BY <2>1, <3>1 DEF SavesInv, DurableHeld
      <3>3. slots[p].seq = meta.candidate
        BY <1>4, <1>5, <1>7
      <3> QED
        BY <1>2, <1>7, <3>1, <3>2, <3>3, ChosenOfTwo
    <2>2. CASE ~meta.hasValid
      <3>1. p = 0 /\ Other(p) = 1
        BY <1>6, <2>2 DEF Other
      <3> QED
        BY <2>2, <3>1 DEF SavesInv, FormatHeld
    <2> QED
      BY <2>1, <2>2
  <1> QED
    BY <1>3, <1>4, <1>5, <1>7, <1>8, <1>9 DEF DurableHeld, FormatHeld, InSlot

\* A tick of the metadata preserves the invariant of the saves.
LEMMA TickInv ==
    ASSUME SavesInv, NEW writerIdle \in BOOLEAN, Tick(writerIdle)
    PROVE  SavesInv'
  <1>0. PICK polled \in Polled(qspi) :
           \E o \in MetaTick(meta, slots, polled, writerIdle) : TickTo(o)
    BY DEF Tick
  <1>1. PICK o \in MetaTick(meta, slots, polled, writerIdle) : TickTo(o)
    BY <1>0
  <1>2. meta \in MetaState /\ slots \in SlotStates /\ qspi \in Operations
    BY DEF SavesInv, SavesTypeOK, SlotStates
  <1>3. /\ meta' \in MetaState /\ qspi' \in Operations
        /\ slots' = slots \/ slots' \in HalfDone(meta, slots)
        /\ meta'.save # "idle" => meta.save # "idle"
        /\ meta'.op # "none" => meta'.save # "idle" \/ meta.save = "idle"
        /\ meta.save = "idle" => meta' = meta
        /\ meta'.candidate = meta.candidate
        /\ (meta'.seq = meta.seq /\ meta'.hasValid = meta.hasValid)
              \/ meta'.save = "idle"
    BY <1>1, <1>2, TickFacts DEF TickTo
  <1>4. slots' \in SlotStates
    BY <1>2, <1>3, HalfDoneFacts
  <1>5. SaveSound'
    BY <1>3 DEF SavesInv, SaveSound
  <1>6. durable' \in MetaRecord \cup {NoMeta} /\ DurableHeld' /\ FormatHeld'
    BY TickKeeps, TickCounts DEF SavesInv, SavesTypeOK
  <1>7. unweighed' \subseteq Parities
    BY <1>1 DEF TickTo, SavesInv, SavesTypeOK
  <1> QED
    BY <1>3, <1>4, <1>5, <1>6, <1>7 DEF SavesInv, SavesTypeOK, SlotStates

\* A call of log_save_meta preserves the invariant of the saves.
LEMMA SaveInv ==
    ASSUME SavesInv, NEW a \in Cells, Save(a)
    PROVE  SavesInv'
  <1>1. meta \in MetaState
    BY DEF SavesInv, SavesTypeOK
  <1>2. /\ meta' \in MetaState /\ meta'.seq = meta.seq
        /\ meta'.hasValid = meta.hasValid /\ meta'.op = meta.op
        /\ meta' = meta \/ meta'.candidate =
              IF meta.hasValid THEN Following(meta.seq) ELSE 0
    BY <1>1, SaveMetaFacts DEF Save
  <1>3. meta.save # "idle" => meta' = meta
    BY DEF Save, SaveMeta
  <1>4. SaveSound'
    BY <1>2, <1>3 DEF SavesInv, SaveSound
  <1> QED
    BY <1>2, <1>4 DEF Save, SavesInv, SavesTypeOK, DurableHeld, FormatHeld

(* A boot restarts from the newer of the valid slots, and what it left out   *)
(* of account is unweighed.                                                  *)
LEMMA RebootInv ==
    ASSUME SavesInv, NEW readable \in SUBSET Parities, NEW tailValid \in BOOLEAN,
           Reboot(readable, tailValid)
    PROVE  SavesInv'
  <1>1. meta \in MetaState /\ slots \in SlotStates
    BY DEF SavesInv, SavesTypeOK, SlotStates
  <1>2. PICK torn \in HalfDone(meta, slots) :
           LET chosen == Chosen(torn, readable)
               taken  == IF tailValid THEN chosen ELSE NoMeta
           IN  /\ meta' = Booted(taken, IF taken = NoMeta THEN RingStart ELSE taken.addr)
               /\ slots' = torn
               /\ qspi' = "none"
               /\ durable' = taken
               /\ unweighed' = ValidSlots(torn) \ (IF taken = NoMeta THEN {} ELSE readable)
    BY DEF Reboot
  <1> DEFINE taken == IF tailValid THEN Chosen(torn, readable) ELSE NoMeta
  <1>3. torn \in SlotStates /\ unweighed' \subseteq Parities
    BY <1>1, <1>2, HalfDoneFacts DEF ValidSlots
  <1>4. CASE taken = NoMeta
    <2>1. /\ meta' = Booted(NoMeta, RingStart)
          /\ durable' = NoMeta /\ unweighed' = ValidSlots(torn)
      BY <1>2, <1>4
    <2>2. /\ meta' \in MetaState /\ ~meta'.hasValid /\ meta'.candidate = 0
          /\ meta'.save = "erase"
      BY <2>1, BootedFacts, StartAddress DEF Booted, SaveMeta, FreshMeta
    <2>3. SaveSound' /\ DurableHeld' /\ FormatHeld'
      BY <1>2, <2>1, <2>2
      DEF SaveSound, DurableHeld, FormatHeld, ValidSlots, Parities, InSlot
    <2> QED
      BY <1>2, <1>3, <2>1, <2>2, <2>3 DEF SavesInv, SavesTypeOK, SlotStates, Operations
  <1>5. CASE taken # NoMeta
    <2>1. PICK p \in readable : InSlot(torn, p) /\ taken = torn[p]
      BY <1>3, <1>5, ChosenFacts
    <2>2. p \in Parities
      BY <2>1
    <2>3. /\ taken \in MetaRecord /\ taken.seq \in Sequences
          /\ taken.addr \in Aligned /\ taken.seq % 2 = p
      BY <1>3, <2>1, <2>2, InSlotFacts
    <2>4. taken.addr \in Cells
      BY <2>3 DEF Aligned
    <2>5. /\ meta' = Booted(taken, taken.addr)
          /\ durable' = taken /\ unweighed' = ValidSlots(torn) \ readable
      BY <1>2, <1>5
    <2>6. /\ meta' \in MetaState /\ meta'.hasValid /\ meta'.seq = taken.seq
          /\ meta'.candidate = Following(taken.seq)
      BY <1>5, <2>3, <2>4, <2>5, BootedFacts
    <2>7. meta'.save = "erase"
      BY <1>5, <2>5 DEF Booted, SaveMeta, LoadedMeta, FreshMeta
    <2>8. Other(p) \notin unweighed' /\ InSlot(torn, Other(p)) =>
             Chosen(torn, Parities) = taken
      <3>1. SUFFICES ASSUME Other(p) \notin unweighed', InSlot(torn, Other(p))
                     PROVE  Chosen(torn, Parities) = taken
        OBVIOUS
      <3>2. Other(p) \in Parities
        BY <2>2 DEF Other, Parities
      <3>3. Other(p) \in readable
        BY <2>5, <3>1, <3>2 DEF ValidSlots
      <3>4. readable = Parities
        <4>1. \A x \in Parities : x = p \/ x = Other(p)
          BY <2>2 DEF Other, Parities
        <4> QED
          BY <2>1, <3>3, <4>1
      <3>5. taken = Chosen(torn, readable)
        BY <1>5
      <3> QED
        BY <3>4, <3>5
    <2>9. SaveSound' /\ DurableHeld' /\ FormatHeld'
      BY <1>2, <1>5, <2>1, <2>3, <2>5, <2>6, <2>7, <2>8
      DEF SaveSound, DurableHeld, FormatHeld, InSlot
    <2> QED
      BY <1>2, <1>3, <2>3, <2>5, <2>6, <2>9 DEF SavesInv, SavesTypeOK, SlotStates, Operations
  <1> QED
    BY <1>4, <1>5

(* Every record the chip or the firmware holds is one it may hold, over any  *)
(* number of resets.                                                         *)
THEOREM SavesInvariance == SavesSpec => []SavesInv
  <1>1. SavesInit => SavesInv
    <2> SUFFICES ASSUME SavesInit
                 PROVE  SavesInv
      OBVIOUS
    <2>1. RingStart \in Cells
      BY StartAddress
    <2>2. /\ meta \in MetaState /\ ~meta.hasValid
          /\ meta.candidate = 0 /\ meta.save = "erase"
      BY <2>1, BootedFacts DEF SavesInit, Booted, SaveMeta, FreshMeta
    <2> QED
      BY <2>2 DEF SavesInit, SavesInv, SavesTypeOK, SaveSound, DurableHeld, FormatHeld,
                  InSlot, ValidMeta, Operations, Parities
  <1>2. SavesInv /\ [SavesNext]_savesVars => SavesInv'
    <2> SUFFICES ASSUME SavesInv, [SavesNext]_savesVars
                 PROVE  SavesInv'
      OBVIOUS
    <2>1. ASSUME NEW a \in Cells, Save(a)
          PROVE  SavesInv'
      BY <2>1, SaveInv
    <2>2. ASSUME NEW writerIdle \in BOOLEAN, Tick(writerIdle)
          PROVE  SavesInv'
      BY <2>2, TickInv
    <2>3. ASSUME NEW readable \in SUBSET Parities, NEW tailValid \in BOOLEAN,
                 Reboot(readable, tailValid)
          PROVE  SavesInv'
      BY <2>3, RebootInv
    <2>4. CASE UNCHANGED savesVars
      BY <2>4 DEF savesVars, SavesInv, SavesTypeOK, SaveSound, DurableHeld, FormatHeld, InSlot
    <2> QED
      BY <2>1, <2>2, <2>3, <2>4 DEF SavesNext
  <1> QED
    BY <1>1, <1>2, PTL DEF SavesSpec

\* The state of a save, the slots and the driver have their types.
THEOREM SavesTypeCorrect == SavesSpec => []SavesTypeOK
  <1>1. SavesInv => SavesTypeOK
    BY DEF SavesInv
  <1> QED
    BY <1>1, SavesInvariance, PTL

(* A loss of power leaves the last good record, or the newer one being saved, *)
(* to the next boot: whatever the ring, and over the rollover.               *)
THEOREM NoSaveLosesBoth == SavesSpec => []VerifiedSurvives
  <1>1. SavesInv => VerifiedSurvives
    <2> SUFFICES ASSUME SavesInv, unweighed = {}, meta.hasValid,
                        NEW torn \in HalfDone(meta, slots)
                 PROVE  LET chosen == Chosen(torn, Parities)
                        IN  /\ chosen # NoMeta
                            /\ chosen = durable \/ chosen.seq = Following(meta.seq)
      BY DEF VerifiedSurvives
    <2> DEFINE p == meta.seq % 2
               q == Other(p)
    <2>1. meta \in MetaState /\ slots \in SlotStates /\ meta.seq \in Sequences
      BY DEF SavesInv, SavesTypeOK, SlotStates, MetaState
    <2>2. p \in Parities /\ q \in Parities /\ p # q
      BY <2>1, SeqParity DEF Other, Parities
    <2>3. /\ torn \in SlotStates
          /\ torn # slots =>
                /\ meta.op # "none"
                /\ torn \in {[slots EXCEPT ![Target(meta)] = NoMeta],
                             [slots EXCEPT ![Target(meta)] = Candidate(meta)]}
      BY <2>1, HalfDoneFacts
    <2>4. /\ slots[p] = durable /\ durable # NoMeta
          /\ durable.addr \in Aligned /\ durable.seq = meta.seq
          /\ InSlot(slots, q) => \/ slots[q].seq = Following(meta.seq)
                                 \/ Chosen(slots, Parities) = durable
      BY DEF SavesInv, DurableHeld
    <2>5. CASE torn = slots
      <3>1. InSlot(torn, p)
        BY <2>4, <2>5 DEF InSlot, ValidMeta
      <3>2. \/ Chosen(torn, Parities) = torn[p]
            \/ InSlot(torn, q) /\ Chosen(torn, Parities) = torn[q]
        BY <2>2, <2>3, <3>1, ChosenOfTwo
      <3>3. InSlot(torn, q) => torn[q] # NoMeta
        BY DEF InSlot, ValidMeta
      <3> QED
        BY <2>4, <2>5, <3>2, <3>3
    <2>6. CASE torn # slots
      <3>1. meta.candidate = Following(meta.seq) /\ Target(meta) = q
        BY <2>1, <2>3, <2>6, FollowingFacts DEF SavesInv, SaveSound, Target
      <3>2. /\ torn[p] = durable
            /\ torn[q] = NoMeta \/ torn[q] = Candidate(meta)
        BY <2>1, <2>2, <2>3, <2>4, <2>6, <3>1 DEF SlotStates
      <3>3. InSlot(torn, p)
        BY <2>4, <3>2 DEF InSlot, ValidMeta
      <3>4. InSlot(torn, q) => torn[q] # NoMeta /\ torn[q].seq = Following(meta.seq)
        BY <3>1, <3>2 DEF InSlot, ValidMeta, Candidate
      <3>5. \/ Chosen(torn, Parities) = torn[p]
            \/ InSlot(torn, q) /\ Chosen(torn, Parities) = torn[q]
        BY <2>2, <2>3, <3>3, ChosenOfTwo
      <3> QED
        BY <2>4, <3>2, <3>4, <3>5
    <2> QED
      BY <2>5, <2>6
  <1> QED
    BY <1>1, SavesInvariance, PTL

-----------------------------------------------------------------------------
(* Blackbox: the invariant.                                                  *)

Contents == Numbers \cup {Blank, Mixed}

Frontiers == {c \in Cells : c % Sector = 0}

Captures ==
    [active : BOOLEAN, consumed : BOOLEAN, ready : BOOLEAN, failed : BOOLEAN,
     protected : BOOLEAN, hold : BOOLEAN, target : Nat, endAddr : Cells,
     available : Nat, post : Nat, allowed : 0..Capacity, owed : SUBSET Numbers]

Logs ==
    [queue : Seq(Numbers), chunk : Seq(Numbers), ws : {"idle", "first", "second"},
     qspi : Operations, seq : 0..MaxSeq, next : Nat, total : Nat, written : Seq(Numbers),
     addr : Cells, erase : Frontiers, meta : MetaState, cap : Captures,
     ring : [Cells -> Contents], slots : SlotStates,
     faults : Nat, boots : Nat, saves : Nat, dumps : Nat]

Dumps ==
    [state : {"idle", "flushing", "captured", "opening", "meta", "reading", "writing",
              "finalizing", "done"},
     window : Nat, count : Nat, at : Cells, left : Nat,
     buffer : Seq(Contents), file : Seq(Contents)]

\* What is where in RAM, and how many.
Sized(l) ==
    /\ Len(l.queue) <= QueueMax /\ Len(l.chunk) <= ChunkRecords
    /\ l.next <= l.seq /\ l.cap.target <= l.seq
    /\ l.total = Len(l.written) /\ l.cap.available <= l.total
    /\ l.total + Len(l.chunk) + Len(l.queue) <= l.seq
    /\ l.cap.post + Len(l.queue) <= l.seq
    /\ l.ws # "idle" => l.meta.save = "idle" /\ l.meta.op = "none" /\ l.chunk # <<>>
    /\ l.meta.op # "none" => l.meta.save # "idle"
    /\ l.boots >= 1

\* The records in RAM are in their order, up to the last one accepted.
Lined(l) ==
    /\ \A i, j \in DOMAIN l.queue : i < j => l.queue[i] < l.queue[j]
    /\ \A i \in DOMAIN l.chunk, j \in DOMAIN l.queue : l.chunk[i] < l.queue[j]
    /\ \A i \in DOMAIN l.queue : l.queue[i] < l.next
    /\ \A i \in DOMAIN l.chunk : l.chunk[i] < l.next
    /\ l.queue # <<>> => l.queue[Len(l.queue)] = l.next - 1
    /\ l.queue = <<>> /\ l.chunk # <<>> => l.chunk[Len(l.chunk)] = l.next - 1

\* What a capture that has not failed waits for is still on its way, and when
\* its last record is in the chunk, it is the chunk's last.
Owing(l) ==
    /\ ~l.cap.active => l.cap = NoCapture
    /\ ~l.cap.ready => l.cap.post = 0 /\ ~l.cap.protected /\ ~l.cap.hold
    /\ l.cap.active /\ ~l.cap.ready /\ ~l.cap.failed =>
        /\ l.cap.owed \subseteq ToSet(l.written) \cup ToSet(l.chunk) \cup ToSet(l.queue)
        /\ \A x \in l.cap.owed : x <= l.cap.target - 1
        /\ l.cap.consumed => l.chunk # <<>> /\ l.chunk[Len(l.chunk)] = l.cap.target - 1
    /\ l.cap.ready /\ ~l.cap.failed =>
        /\ l.cap.owed \subseteq ToSet(l.written)
        /\ l.cap.owed # {} =>
            /\ l.cap.available \in DOMAIN l.written
            /\ l.written[l.cap.available] = l.cap.target - 1

Erasing(l) == l.qspi = "erase" /\ l.meta.op = "none"

\* Cells before the erase address that are erased by now.
Blanked(l) == IF Erasing(l) THEN Lead(l) - Sector ELSE Lead(l)

\* The record whose cell is m cells before the end of the records.
CellBack(records, m) == records[Len(records) - (m - 1) \div Record]

\* The flash from the write address on, and back from it.
Laid(l) ==
    /\ \A c \in Cells : l.ring[c] # Mixed
    /\ Lead(l) < (PreErase + 1) * Sector
    /\ Erasing(l) => Lead(l) >= Sector
    /\ l.qspi = "write" /\ l.meta.op = "none" => l.ws # "idle"
    /\ l.meta.op # "none" => l.qspi = l.meta.op
    /\ l.ws # "idle" => l.qspi = "write" /\ Record * Len(l.chunk) <= Lead(l)
    /\ l.ws = "second" =>
        /\ Split(l)
        /\ \A i \in 0..FirstLen(l) - 1 : l.ring[Forward(l.addr, i)] = CellsOf(l.chunk)[i + 1]
    /\ \A i \in (IF l.ws = "second" THEN FirstLen(l) ELSE 0)..Blanked(l) - 1 :
        l.ring[Forward(l.addr, i)] = Blank
    /\ \A m \in 1..Ring - Lead(l) :
        m <= Record * Len(l.written) =>
            l.ring[Forward(l.addr, Ring - m)] = CellBack(l.written, m)

Since(l) == l.total - l.cap.available

\* What the log did since the capture.
Retained(l) ==
    l.cap.ready =>
        /\ l.addr = Forward(l.cap.endAddr, Record * Since(l))
        /\ Since(l) + Len(l.chunk) <= l.cap.post
        /\ ~l.cap.protected => Since(l) = 0
        /\ l.cap.protected => \/ Since(l) + Len(l.chunk) <= l.cap.allowed
                              \/ Since(l) + Len(l.chunk) <= ChunkRecords

Exporting(d) == d.state \notin {"idle", "flushing"}

\* How far a dump has come.
Progress(l, d) ==
    /\ ~Exporting(d) => d.count = 0 /\ d.left = 0 /\ d.buffer = <<>> /\ d.file = <<>>
    /\ Exporting(d) =>
        /\ d.count >= 1 /\ d.count <= Capacity /\ d.count <= l.cap.available
        /\ l.cap.allowed = Allowed(d.count)
        /\ d.left + Len(d.buffer) + Len(d.file) = Record * d.count
    /\ d.state \in {"captured", "opening", "meta", "reading", "finalizing", "done"} =>
        d.buffer = <<>>
    /\ d.state \in {"captured", "opening", "meta"} => d.file = <<>>
    /\ d.state \in {"finalizing", "done"} => d.left = 0

Advanced(l, d) ==
    /\ l.cap.active <=> d.state # "idle"
    /\ Exporting(d) <=> l.cap.ready
    /\ l.cap.ready => l.cap.protected
    /\ Progress(l, d)

Fits(d) == Record * d.count + PreErase * Sector <= Ring

\* The cell of the dump's file that is its i-th.
Dumped(l, d, i) ==
    CellBack(SubSeq(l.written, 1, l.cap.available), Record * d.count - i + 1)

\* Records written beyond those the capture allows.
Over(l) == IF Since(l) > l.cap.allowed THEN Since(l) - l.cap.allowed ELSE 0

Exported(l, d) ==
    Exporting(d) /\ Fits(d) =>
        /\ d.at = Forward(l.cap.endAddr, Ring - d.left)
        /\ \A i \in 1..Len(d.file) + Len(d.buffer) :
             \/ (d.file \o d.buffer)[i] = Dumped(l, d, i)
             \/ i <= Sector + Record * Over(l) /\ (d.file \o d.buffer)[i] = Blank
-----------------------------------------------------------------------------
(* Numbers.                                                                  *)

\* The sizes, as numbers.
LEMMA Sizes ==
    /\ Record \in Nat /\ Record >= 1 /\ ChunkRecords \in Nat /\ ChunkRecords >= 1
    /\ Sector \in Nat /\ Sector >= 1 /\ PreErase \in Nat /\ PreErase >= 1
    /\ Ring \in Nat /\ Ring >= 1 /\ Ring % Sector = 0
    /\ Record * ChunkRecords \in Nat /\ Record * ChunkRecords <= Sector
    /\ PreErase * Sector \in Nat /\ Sector <= PreErase * Sector
    /\ PreErase * Sector + 2 * Sector <= Ring
  <1>1. /\ Record \in Nat /\ Record >= 1 /\ ChunkRecords \in Nat /\ ChunkRecords >= 1
        /\ Sector \in Nat /\ Sector >= 1 /\ PreErase \in Nat /\ PreErase >= 1
        /\ Ring \in Nat /\ Ring >= 1 /\ Ring % Sector = 0
        /\ Record * ChunkRecords <= Sector /\ (PreErase + 2) * Sector <= Ring
    BY MetaAssumption, GeometryAssumption
  <1>2. Record * ChunkRecords \in Nat /\ PreErase * Sector \in Nat
    BY <1>1
  <1>3. (PreErase + 2) * Sector = PreErase * Sector + 2 * Sector
    BY <1>1
  <1>4. \A p, s \in Nat : p >= 1 => s <= p * s
    OBVIOUS
  <1> QED
    BY <1>1, <1>2, <1>3, <1>4

\* Multiples of the size of a record.
LEMMA Products ==
    /\ \A x \in Nat : Record * x \in Nat /\ x <= Record * x
    /\ \A x \in Int : Record * x \in Int
    /\ \A x, y \in Int : Record * (x + y) = Record * x + Record * y
    /\ \A x, y \in Int : Record * (x - y) = Record * x - Record * y
    /\ \A x, y \in Int : x <= y => Record * x <= Record * y
  <1>1. \A r, x \in Nat : r >= 1 => r * x \in Nat /\ x <= r * x
    OBVIOUS
  <1>2. \A r, x, y \in Int : /\ r * x \in Int
                             /\ r * (x + y) = r * x + r * y
                             /\ r * (x - y) = r * x - r * y
    OBVIOUS
  <1>3. \A r, x, y \in Int : r >= 1 /\ x <= y => r * x <= r * y
    <2> TAKE r, x, y \in Int
    <2> SUFFICES ASSUME r >= 1, x <= y PROVE r * x <= r * y
      OBVIOUS
    <2>1. r * (y - x) >= 0 /\ r * (y - x) = r * y - r * x
      OBVIOUS
    <2> QED
      BY <2>1
  <1> QED
    BY <1>1, <1>2, <1>3, Sizes

\* A quotient is the number of whole records.
LEMMA Quotient ==
    /\ \A x \in Int : /\ x \div Record \in Int
                      /\ Record * (x \div Record) <= x
                      /\ x < Record * (x \div Record) + Record
    /\ \A x, q \in Int : Record * q <= x /\ x < Record * q + Record => x \div Record = q
  <1>1. \A x \in Int : /\ x \div Record \in Int
                       /\ Record * (x \div Record) <= x
                       /\ x < Record * (x \div Record) + Record
    BY Sizes
  <1>2. ASSUME NEW x \in Int, NEW q \in Int, Record * q <= x, x < Record * q + Record
        PROVE  x \div Record = q
    <2> DEFINE p == x \div Record
    <2>1. p \in Int /\ Record * p <= x /\ x < Record * p + Record
      BY <1>1
    <2>2. Record * p + Record = Record * (p + 1) /\ Record * q + Record = Record * (q + 1)
      BY <2>1, Sizes, Products
    <2> HIDE DEF p
    <2>3. CASE p < q
      BY <2>1, <2>2, <2>3, <1>2, Products, Sizes
    <2>4. CASE q < p
      BY <2>1, <2>2, <2>4, <1>2, Products, Sizes
    <2> QED
      BY <2>1, <2>3, <2>4 DEF p
  <1> QED
    BY <1>1, <1>2

\* A step forward from a cell, by less than a round of the ring.
LEMMA ForwardValue ==
    ASSUME NEW a \in Cells, NEW n \in 0..Ring
    PROVE  /\ Forward(a, n) = IF a + n < Ring THEN a + n ELSE a + n - Ring
           /\ Forward(a, n) \in Cells
  BY Sizes DEF Forward, Cells

\* Two steps forward, less than a round or more.
LEMMA ForwardAdds ==
    ASSUME NEW a \in Cells, NEW m \in 0..Ring, NEW n \in 0..Ring
    PROVE  /\ m + n <= Ring => Forward(Forward(a, m), n) = Forward(a, m + n)
           /\ m + n >= Ring => Forward(Forward(a, m), n) = Forward(a, m + n - Ring)
  <1>1. Forward(a, m) \in Cells
    BY ForwardValue
  <1> DEFINE b == Forward(a, m)
  <1>2. /\ b = IF a + m < Ring THEN a + m ELSE a + m - Ring
        /\ a \in Nat /\ a < Ring
    BY ForwardValue, Sizes DEF Cells
  <1>3. Forward(b, n) = IF b + n < Ring THEN b + n ELSE b + n - Ring
    BY <1>1, ForwardValue
  <1>0. n \in Nat /\ n <= Ring /\ m \in Nat /\ m <= Ring /\ b \in Nat
    BY <1>1, Sizes DEF Cells
  <1> HIDE DEF b
  <1>4. ASSUME m + n <= Ring
        PROVE  Forward(b, n) = Forward(a, m + n)
    <2>1. m + n \in 0..Ring
      BY <1>4, Sizes
    <2>2. Forward(a, m + n) = IF a + (m + n) < Ring THEN a + (m + n) ELSE a + (m + n) - Ring
      BY <2>1, ForwardValue
    <2> QED
      BY <1>0, <1>2, <1>3, <1>4, <2>2, Sizes DEF b
  <1>5. ASSUME m + n >= Ring
        PROVE  Forward(b, n) = Forward(a, m + n - Ring)
    <2>1. m + n - Ring \in 0..Ring
      BY <1>5, Sizes
    <2>2. Forward(a, m + n - Ring) = IF a + (m + n - Ring) < Ring THEN a + (m + n - Ring)
                                     ELSE a + (m + n - Ring) - Ring
      BY <2>1, ForwardValue
    <2> QED
      BY <1>0, <1>2, <1>3, <1>5, <2>2, Sizes DEF b
  <1> QED
    BY <1>4, <1>5 DEF b

\* Different cells are at different distances.
LEMMA ForwardOnce ==
    ASSUME NEW a \in Cells, NEW c \in Cells
    PROVE  /\ \E n \in 0..Ring - 1 : Forward(a, n) = c
           /\ \A m, n \in 0..Ring - 1 : Forward(a, m) = Forward(a, n) => m = n
  <1>1. \A n \in 0..Ring - 1 : Forward(a, n) = IF a + n < Ring THEN a + n ELSE a + n - Ring
    BY ForwardValue, Sizes
  <1>2. \E n \in 0..Ring - 1 : Forward(a, n) = c
    <2>1. CASE a <= c
      <3>1. c - a \in 0..Ring - 1 /\ a + (c - a) = c /\ c < Ring
        BY <2>1, Sizes DEF Cells
      <3> QED
        BY <1>1, <3>1
    <2>2. CASE c < a
      <3>1. PICK n \in 0..Ring - 1 : n = c - a + Ring
        BY <2>2, Sizes DEF Cells
      <3>2. a + n >= Ring /\ a + n - Ring = c /\ a + n \in Nat
        BY <3>1, Sizes DEF Cells
      <3>3. Forward(a, n) = c
        BY <1>1, <3>1, <3>2, Sizes
      <3> QED
        BY <3>1, <3>3
    <2> QED
      BY <2>1, <2>2 DEF Cells
  <1> QED
    BY <1>1, <1>2, Sizes DEF Cells

\* Multiples of any size.
LEMMA Multiples ==
    ASSUME NEW s \in Nat, s >= 1
    PROVE  /\ \A x \in Int : x % s = 0 => x \div s \in Int /\ x = s * (x \div s)
           /\ \A q \in Int : (s * q) % s = 0
           /\ \A x, y \in Int : s * x < s * y => s * x + s <= s * y
  <1>1. ASSUME NEW x \in Int, x % s = 0
        PROVE  x \div s \in Int /\ x = s * (x \div s)
    <2>1. x \div s \in Int
      OBVIOUS
    <2>2. x = s * (x \div s)
      BY <1>1
    <2> QED
      BY <2>1, <2>2
  <1>2. ASSUME NEW q \in Int
        PROVE  (s * q) % s = 0
    OBVIOUS
  <1>3. ASSUME NEW x \in Int, NEW y \in Int, s * x < s * y
        PROVE  s * x + s <= s * y
    <2>1. x < y
      <3> SUFFICES ASSUME y <= x PROVE FALSE
        OBVIOUS
      <3>1. s * (x - y) >= 0 /\ s * (x - y) = s * x - s * y
        OBVIOUS
      <3> QED
        BY <1>3, <3>1
    <2>2. y - x - 1 \in Nat
      BY <2>1
    <2>3. \A d \in Nat : s * d >= 0
      OBVIOUS
    <2>4. s * (y - x - 1) >= 0
      BY <2>2, <2>3
    <2>5. s * (y - x - 1) = s * y - s * x - s
      OBVIOUS
    <2> QED
      BY <2>4, <2>5
  <1> QED
    BY <1>1, <1>2, <1>3

\* Erase addresses are starts of sectors.
LEMMA Starts ==
    ASSUME NEW e \in Frontiers
    PROVE  /\ e + Sector <= Ring
           /\ Forward(e, Sector) \in Frontiers
           /\ Forward(e, Sector) = IF e + Sector = Ring THEN 0 ELSE e + Sector
           /\ Forward(e, Ring - Sector) \in Frontiers
           /\ Forward(Forward(e, Sector), Ring - Sector) = e
  <1> DEFINE p == e \div Sector
             q == Ring \div Sector
  <1>1. e \in Cells /\ e % Sector = 0 /\ e \in Nat /\ e < Ring
    BY Sizes DEF Frontiers, Cells
  <1>2. p \in Int /\ q \in Int /\ e = Sector * p /\ Ring = Sector * q
    BY <1>1, Multiples, Sizes
  <1>3. /\ Sector * (p + 1) = e + Sector /\ Sector * (p - 1) = e - Sector
        /\ Sector * (q - 1) = Ring - Sector /\ Sector * 0 = 0
    <2> HIDE DEF p, q
    <2> QED
      BY <1>2, Sizes
  <1>4. /\ (e + Sector) % Sector = 0 /\ (e - Sector) % Sector = 0
        /\ (Ring - Sector) % Sector = 0 /\ 0 % Sector = 0
    <2>1. p + 1 \in Int /\ p - 1 \in Int /\ q - 1 \in Int /\ 0 \in Int
      BY <1>2
    <2>2. /\ (Sector * (p + 1)) % Sector = 0 /\ (Sector * (p - 1)) % Sector = 0
          /\ (Sector * (q - 1)) % Sector = 0 /\ (Sector * 0) % Sector = 0
      <3> HIDE DEF p, q
      <3>1. \A x \in Int : (Sector * x) % Sector = 0
        BY Multiples, Sizes
      <3> QED
        BY <2>1, <3>1, Zenon
    <2> HIDE DEF p, q
    <2> QED
      BY <1>3, <2>2, Zenon
  <1>5. e + Sector <= Ring
    <2> HIDE DEF p, q
    <2> QED
      BY <1>1, <1>2, Multiples, Sizes
  <1>6. e < Sector => e = 0
    <2>1. Sector * 0 = 0 /\ 0 \in Int
      BY Sizes
    <2>2. ~ (0 < e) \/ Sector <= e
      <3> HIDE DEF p
      <3> QED
        BY <1>1, <1>2, <2>1, Multiples, Sizes
    <2> QED
      BY <1>1, <2>2, Sizes
  <1>7. Forward(e, Sector) = IF e + Sector = Ring THEN 0 ELSE e + Sector
    BY <1>1, <1>5, ForwardValue, Sizes
  <1>8. Forward(e, Sector) \in Frontiers
    BY <1>1, <1>4, <1>5, <1>7, Sizes DEF Frontiers, Cells
  <1>9. Forward(e, Ring - Sector) = IF e < Sector THEN Ring - Sector ELSE e - Sector
    BY <1>1, <1>6, ForwardValue, Sizes
  <1>10. Forward(e, Ring - Sector) \in Frontiers
    BY <1>1, <1>4, <1>9, Sizes DEF Frontiers, Cells
  <1>11. Forward(Forward(e, Sector), Ring - Sector) = e
    <2>1. CASE e + Sector = Ring
      <3>1. 0 \in Cells /\ Ring - Sector \in 0..Ring
        BY Sizes DEF Cells
      <3>2. Forward(0, Ring - Sector) = Ring - Sector
        BY <3>1, ForwardValue, Sizes
      <3> QED
        BY <1>1, <1>7, <2>1, <3>2, Sizes
    <2>2. CASE e + Sector # Ring
      <3>1. e + Sector \in Cells /\ Ring - Sector \in 0..Ring
        BY <1>1, <1>5, <2>2, Sizes DEF Cells
      <3>2. Forward(e + Sector, Ring - Sector) = e + Sector + (Ring - Sector) - Ring
        BY <1>1, <3>1, ForwardValue, Sizes
      <3> QED
        BY <1>1, <1>7, <2>2, <3>2, Sizes
    <2> QED
      BY <2>1, <2>2
  <1> QED
    BY <1>5, <1>7, <1>8, <1>10, <1>11

-----------------------------------------------------------------------------
(* The loop of the writer tick.                                              *)

Most(l) == 2 * Len(l.queue) + 1

NextRound(results) == UNION {IF r.on THEN Round(r.log) ELSE {r} : r \in results}

(* A set of numbers that is not empty has a least one.                       *)
LEMMA Least ==
    ASSUME NEW T, T \subseteq Nat, T # {}
    PROVE  \E x \in T : \A y \in T : x <= y
  <1> DEFINE Below(n) == 0..n - 1
             U == {Below(n) : n \in T}
             R == StrictSubsetOrdering(Nat)
  <1>1. IsWellFoundedOn(R, FiniteSubsetsOf(Nat))
    BY FS_StrictSubsetOrderingWellFounded
  <1>2. \A n \in Nat : IsFiniteSet(Below(n)) /\ Below(n) \subseteq Nat
    BY FS_Interval
  <1>3. U \subseteq FiniteSubsetsOf(Nat) /\ U # {}
    BY <1>2 DEF FiniteSubsetsOf
  <1>4. PICK u \in U : \A v \in U : ~ (<<v, u>> \in R)
    <2> HIDE DEF U, R
    <2> QED
      BY <1>1, <1>3, WFMin
  <1>5. PICK x \in T : u = Below(x)
    OBVIOUS
  <1>6. ASSUME NEW y \in T, y < x
        PROVE  FALSE
    <2>1. Below(y) \subseteq Below(x) /\ y \in Below(x) /\ y \notin Below(y)
      BY <1>6
    <2>2. <<Below(y), Below(x)>> \in R
      BY <1>2, <2>1 DEF StrictSubsetOrdering
    <2> QED
      BY <1>4, <1>5, <2>2
  <1> QED
    BY <1>6

\* Induction up to a number, without an operator for a parameter.
LEMMA Rises ==
    ASSUME NEW most \in Nat, NEW S, \A n \in 0..most : (\A m \in 0..n - 1 : m \in S) => n \in S
    PROVE  0..most \subseteq S
  <1> SUFFICES ASSUME NEW c \in 0..most, c \notin S
               PROVE  FALSE
    OBVIOUS
  <1> DEFINE T == {n \in 0..most : n \notin S}
  <1>1. T \subseteq Nat /\ T # {}
    OBVIOUS
  <1>2. PICK x \in T : \A y \in T : x <= y
    <2> HIDE DEF T
    <2> QED
      BY <1>1, Least
  <1>3. ASSUME NEW m \in 0..x - 1
        PROVE  m \in S
    <2>1. m \in 0..most /\ ~ (x <= m)
      OBVIOUS
    <2> QED
      BY <1>2, <2>1
  <1> QED
    BY <1>3

(* The rounds of the loop are what Rounds says they are.                     *)
LEMMA RoundsFacts ==
    ASSUME NEW l, Len(l.queue) \in Nat
    PROVE  /\ Rounds(l)[0] = Round(l)
           /\ \A n \in 1..Most(l) : Rounds(l)[n] = NextRound(Rounds(l)[n - 1])
  <1> DEFINE most == Most(l)
             Found(g, n) == /\ g = [m \in 0..most |-> g[m]]
                            /\ \A m \in 0..n : g[m] = IF m = 0 THEN Round(l)
                                                      ELSE NextRound(g[m - 1])
             S == {n \in 0..most : \E g : Found(g, n)}
  <1>1. most \in Nat /\ most >= 1
    BY DEF Most
  <1>2. ASSUME NEW n \in 0..most, \A m \in 0..n - 1 : m \in S
        PROVE  n \in S
    <2>1. PICK g : /\ g = [m \in 0..most |-> g[m]]
                   /\ \A m \in 0..n - 1 : g[m] = IF m = 0 THEN Round(l) ELSE NextRound(g[m - 1])
      <3>1. CASE n = 0
        <4> WITNESS [m \in 0..most |-> {}]
        <4> QED
          BY <3>1
      <3>2. CASE n # 0
        <4>1. n - 1 \in S
          BY <1>2, <3>2
        <4> QED
          BY <4>1
      <3> QED
        BY <3>1, <3>2
    <2> DEFINE last == IF n = 0 THEN Round(l) ELSE NextRound(g[n - 1])
               h == [m \in 0..most |-> IF m = n THEN last ELSE g[m]]
    <2>2. ASSUME NEW m \in 0..n
          PROVE  h[m] = IF m = 0 THEN Round(l) ELSE NextRound(h[m - 1])
      <3>1. m \in 0..most /\ (m # n => m \in 0..n - 1)
        BY <1>1
      <3>2. m # 0 => m - 1 \in 0..most /\ m - 1 # n
        BY <1>1
      <3>3. m # 0 => h[m - 1] = g[m - 1]
        BY <3>2
      <3> QED
        BY <2>1, <3>1, <3>3
    <2>3. h = [m \in 0..most |-> h[m]]
      OBVIOUS
    <2>4. Found(h, n)
      <3> HIDE DEF h
      <3> QED
        BY <2>2, <2>3
    <2> HIDE DEF Found
    <2> QED
      BY <2>4
  <1>3. most \in S
    <2> HIDE DEF S, most
    <2>1. 0..most \subseteq S
      BY <1>1, <1>2, Rises
    <2> QED
      BY <1>1, <2>1
  <1>4. PICK g : Found(g, most)
    BY <1>3
  <1> DEFINE Step(f, n) == IF n = 0 THEN Round(l)
                           ELSE UNION {IF r.on THEN Round(r.log) ELSE {r} : r \in f[n - 1]}
  <1>5. g = [n \in 0..most |-> Step(g, n)]
    BY <1>4 DEF NextRound
  <1>6. Rounds(l) = CHOOSE f : f = [n \in 0..most |-> Step(f, n)]
    BY DEF Rounds, Most
  <1>7. Rounds(l) = [n \in 0..most |-> Step(Rounds(l), n)]
    <2> HIDE DEF Step, most
    <2> QED
      BY <1>5, <1>6
  <1>8. 0 \in 0..most /\ \A n \in 1..most : n \in 0..most /\ n # 0
    BY <1>1
  <1> HIDE DEF most
  <1>9. \A n \in 0..most : Rounds(l)[n] = Step(Rounds(l), n)
    <2> HIDE DEF Step
    <2> QED
      BY <1>7
  <1> QED
    BY <1>8, <1>9 DEF NextRound, most

(* What every round keeps, all results of the loop have.                     *)
LEMMA RoundsKeep ==
    ASSUME NEW l, Len(l.queue) \in Nat, NEW T, Round(l) \subseteq T[0],
           \A n \in 1..Most(l) : NextRound(T[n - 1]) \subseteq T[n]
    PROVE  Rounds(l)[Most(l)] \subseteq T[Most(l)]
  <1> DEFINE most == Most(l)
             S == {n \in 0..most : Rounds(l)[n] \subseteq T[n]}
  <1>1. most \in Nat
    BY DEF Most
  <1>2. ASSUME NEW n \in 0..most, \A m \in 0..n - 1 : m \in S
        PROVE  n \in S
    <2>1. CASE n = 0
      BY <2>1, RoundsFacts
    <2>2. CASE n # 0
      <3>1. n \in 1..most /\ n - 1 \in 0..n - 1
        BY <2>2
      <3>2. Rounds(l)[n - 1] \subseteq T[n - 1]
        BY <1>2, <3>1
      <3>3. NextRound(Rounds(l)[n - 1]) \subseteq NextRound(T[n - 1])
        BY <3>2 DEF NextRound
      <3>4. /\ Rounds(l)[n] = NextRound(Rounds(l)[n - 1])
            /\ NextRound(T[n - 1]) \subseteq T[n]
        BY <3>1, RoundsFacts
      <3> QED
        BY <3>3, <3>4
    <2> QED
      BY <2>1, <2>2
  <1>3. 0..most \subseteq S
    <2> HIDE DEF S, most
    <2> QED
      BY <1>1, <1>2, Rises
  <1> QED
    BY <1>1, <1>3

-----------------------------------------------------------------------------
(* What a tick of the metadata does to the driver.                           *)

\* What a tick of the metadata returns has its types.
LEMMA TickTyped ==
    ASSUME NEW m \in MetaState, NEW sl \in SlotStates, NEW op \in Operations,
           NEW polled \in Polled(op), NEW writerIdle \in BOOLEAN,
           NEW o \in MetaTick(m, sl, polled, writerIdle),
           m.op # "none" => m.save # "idle"
    PROVE  /\ o.meta \in MetaState /\ o.slots \in SlotStates /\ o.qspi \in Operations
           /\ o.meta.op # "none" => o.meta.save # "idle"
  <1>1. /\ o.meta \in MetaState /\ o.qspi \in Operations
        /\ o.slots = sl \/ o.slots \in HalfDone(m, sl)
        /\ o.meta.op # "none" => o.meta.save # "idle" \/ m.save = "idle"
        /\ m.save = "idle" => o.meta = m
    BY TickFacts
  <1>2. o.slots \in SlotStates
    BY <1>1, HalfDoneFacts
  <1> QED
    BY <1>1, <1>2

\* The operation in flight, after each thing a tick does to the metadata.
LEMMA OpFacts ==
    ASSUME NEW m \in MetaState
    PROVE  /\ m.save \in {"idle", "erase", "write", "verify"} /\ m.op \in Operations
           /\ SaveFailed(m).op = "none"
           /\ \A x \in Operations : [m EXCEPT !.op = x].op = x
           /\ [m EXCEPT !.save = "idle", !.seq = m.candidate, !.hasValid = TRUE].op = m.op
           /\ \A x : [m EXCEPT !.op = "none", !.save = x].op = "none"
  BY DEF MetaState, SaveFailed

\* While an operation of its own is in flight.
LEMMA TickOwn ==
    ASSUME NEW m \in MetaState, NEW sl \in SlotStates, NEW polled,
           NEW o \in MetaTick(m, sl, polled, TRUE), m.op # "none", m.save # "idle"
    PROVE  /\ o.qspi = polled.qspi /\ o.fault = FALSE
           /\ o.meta.op = IF polled.state \in {"done", "error"} THEN "none" ELSE m.op
  <1>1. o \in MetaPolled(m, sl, polled)
    BY DEF MetaTick
  <1>2. CASE polled.state = "done"
    <2>1. /\ o.meta = [m EXCEPT !.op = "none",
                                !.save = IF m.op = "erase" THEN "write" ELSE "verify"]
          /\ o.qspi = polled.qspi /\ o.fault = FALSE
      BY <1>1, <1>2 DEF MetaPolled, MetaOutcome
    <2>2. o.meta.op = "none"
      BY <2>1, OpFacts
    <2> QED
      BY <1>2, <2>1, <2>2
  <1>3. CASE polled.state = "error"
    <2>1. o.meta = SaveFailed(m) /\ o.qspi = polled.qspi /\ o.fault = FALSE
      BY <1>1, <1>3 DEF MetaPolled, MetaOutcome
    <2> QED
      BY <1>3, <2>1, OpFacts
  <1>4. CASE polled.state \notin {"done", "error"}
    <2>1. o.meta = m /\ o.qspi = polled.qspi /\ o.fault = FALSE
      BY <1>1, <1>4 DEF MetaPolled, MetaOutcome
    <2> QED
      BY <1>4, <2>1
  <1> QED
    BY <1>2, <1>3, <1>4

\* With none in flight it leaves the driver alone, or starts one.
LEMMA TickQuiet ==
    ASSUME NEW m \in MetaState, NEW sl \in SlotStates, NEW polled,
           NEW o \in MetaTick(m, sl, polled, TRUE), m.op = "none"
    PROVE  \/ o.meta = m /\ o.qspi = polled.qspi
           \/ polled.qspi = "none" /\ (o.fault = FALSE => o.qspi = o.meta.op)
  <1>1. CASE m.save = "idle" \/ polled.qspi # "none"
    <2>1. o = MetaOutcome(m, sl, polled.qspi, FALSE)
      BY <1>1 DEF MetaTick
    <2> QED
      BY <2>1 DEF MetaOutcome
  <1>2. CASE m.save # "idle" /\ polled.qspi = "none"
    <2>1. o \in MetaStarted(m, sl)
      BY <1>2 DEF MetaTick
    <2>2. CASE m.save = "erase"
      <3>1. PICK st \in EraseStarted("none") :
               o = MetaOutcome(IF st.ok THEN [m EXCEPT !.op = "erase"] ELSE SaveFailed(m),
                               sl, st.qspi, st.fault)
        BY <2>1, <2>2 DEF MetaStarted
      <3>2. \/ st.ok /\ st.qspi = "erase" /\ st.fault = FALSE
            \/ ~st.ok /\ st.qspi = "none" /\ st.fault = TRUE
        BY DEF EraseStarted
      <3>3. o.qspi = st.qspi /\ o.fault = st.fault /\ o.meta.op = st.qspi
        BY <3>1, <3>2, OpFacts DEF MetaOutcome, Operations
      <3> QED
        BY <1>2, <3>3
    <2>3. CASE m.save = "write"
      <3>1. PICK st \in WriteStarted("none") :
               o = MetaOutcome([m EXCEPT !.op = "write"], sl, st.qspi, st.fault)
        BY <2>1, <2>3 DEF MetaStarted
      <3>2. \/ st.fault = FALSE /\ st.qspi = "write"
            \/ st.fault = TRUE
        BY DEF WriteStarted
      <3>3. /\ o.qspi = st.qspi /\ o.fault = st.fault /\ o.meta.op = "write"
        BY <3>1, OpFacts DEF MetaOutcome, Operations
      <3> QED
        BY <1>2, <3>2, <3>3
    <2>4. CASE m.save = "verify"
      <3>1. PICK read \in BOOLEAN : o = MetaOutcome(Verified(m, sl, read), sl, "none", ~read)
        BY <2>1, <2>4 DEF MetaStarted
      <3>2. Verified(m, sl, read).op = "none"
        BY OpFacts DEF Verified
      <3>3. o.qspi = "none" /\ o.meta.op = "none"
        BY <3>1, <3>2 DEF MetaOutcome
      <3> QED
        BY <1>2, <3>3
    <2> QED
      BY <1>2, <2>2, <2>3, <2>4, OpFacts
  <1> QED
    BY <1>1, <1>2

\* Whether a start failed is a truth value.
LEMMA TickFault ==
    ASSUME NEW m \in MetaState, NEW sl \in SlotStates, NEW op \in Operations,
           NEW polled \in Polled(op), NEW o \in MetaTick(m, sl, polled, TRUE)
    PROVE  o.fault \in BOOLEAN
  <1>1. CASE m.save = "idle" \/ (m.op = "none" /\ polled.qspi # "none")
    <2>1. o = MetaOutcome(m, sl, polled.qspi, FALSE)
      BY <1>1 DEF MetaTick
    <2> QED
      BY <2>1 DEF MetaOutcome
  <1>2. CASE m.save # "idle" /\ m.op # "none"
    <2>1. o.fault = FALSE
      BY <1>2, TickOwn
    <2> QED
      BY <2>1
  <1>3. CASE m.save # "idle" /\ m.op = "none" /\ polled.qspi = "none"
    <2>1. o \in MetaStarted(m, sl)
      BY <1>3 DEF MetaTick
    <2>2. CASE m.save = "erase"
      <3>1. PICK st \in EraseStarted("none") :
               o = MetaOutcome(IF st.ok THEN [m EXCEPT !.op = "erase"] ELSE SaveFailed(m),
                               sl, st.qspi, st.fault)
        BY <2>1, <2>2 DEF MetaStarted
      <3>2. o.fault = st.fault
        BY <3>1 DEF MetaOutcome
      <3>3. \/ st.fault = FALSE
            \/ st.fault = TRUE
        BY DEF EraseStarted
      <3> QED
        BY <3>2, <3>3
    <2>3. CASE m.save = "write"
      <3>1. PICK st \in WriteStarted("none") :
               o = MetaOutcome([m EXCEPT !.op = "write"], sl, st.qspi, st.fault)
        BY <2>1, <2>3 DEF MetaStarted
      <3>2. o.fault = st.fault
        BY <3>1 DEF MetaOutcome
      <3>3. \/ st.fault = FALSE
            \/ st.fault = TRUE
        BY DEF WriteStarted
      <3> QED
        BY <3>2, <3>3
    <2>4. CASE m.save = "verify"
      <3>1. PICK read \in BOOLEAN : o = MetaOutcome(Verified(m, sl, read), sl, "none", ~read)
        BY <2>1, <2>4 DEF MetaStarted
      <3> QED
        BY <3>1 DEF MetaOutcome
    <2> QED
      BY <1>3, <2>2, <2>3, <2>4, OpFacts
  <1> QED
    BY <1>1, <1>2, <1>3

-----------------------------------------------------------------------------
(* The chip, in distances from the write address.                            *)

\* The cells of some records.
LEMMA CellsFacts ==
    ASSUME NEW records \in Seq(Numbers)
    PROVE  /\ CellsOf(records) \in Seq(Numbers)
           /\ Len(CellsOf(records)) = Record * Len(records)
           /\ \A i \in 1..Record * Len(records) :
                /\ (i - 1) \div Record + 1 \in 1..Len(records)
                /\ CellsOf(records)[i] = records[(i - 1) \div Record + 1]
  <1> DEFINE n == Len(records)
  <1>1. n \in Nat /\ Record * n \in Nat
    BY Products
  <1>2. ASSUME NEW i \in 1..Record * n
        PROVE  (i - 1) \div Record + 1 \in 1..n
    <2> DEFINE q == (i - 1) \div Record
    <2>1. i \in Int /\ i >= 1 /\ i <= Record * n /\ i - 1 \in Int
      BY <1>1
    <2>2. q \in Int /\ Record * q <= i - 1 /\ i - 1 < Record * q + Record
      BY <2>1, Quotient
    <2> HIDE DEF q, n
    <2>3. Record * (q + 1) = Record * q + Record /\ Record * 0 = 0
      BY <2>2, Sizes
    <2>4. q < n
      <3> SUFFICES ASSUME n <= q PROVE FALSE
        BY <1>1, <2>2
      <3>1. Record * n <= Record * q
        BY <1>1, <2>2, Products
      <3>2. Record * q \in Int
        BY <2>2, Products
      <3> QED
        BY <1>1, <2>1, <2>2, <3>1, <3>2
    <2>5. q >= 0
      <3> SUFFICES ASSUME q + 1 <= 0 PROVE FALSE
        BY <2>2
      <3>1. Record * (q + 1) <= Record * 0
        BY <2>2, Products
      <3>2. Record * q \in Int
        BY <2>2, Products
      <3> QED
        BY <2>1, <2>2, <2>3, <3>1, <3>2, Sizes
    <2> QED
      BY <1>1, <2>2, <2>4, <2>5 DEF q
  <1>3. \A i \in 1..Record * n : records[(i - 1) \div Record + 1] \in Numbers
    BY <1>1, <1>2, ElementOfSeq
  <1>4. CellsOf(records) \in [1..Record * n -> Numbers]
    BY <1>3 DEF CellsOf
  <1>5. CellsOf(records) \in Seq(Numbers) /\ Len(CellsOf(records)) = Record * n
    BY <1>1, <1>4
  <1> QED
    BY <1>2, <1>5 DEF CellsOf

\* The erase address is Lead cells after the write address.
LEMMA LeadFacts ==
    ASSUME NEW l, l.addr \in Cells, l.erase \in Cells
    PROVE  Lead(l) \in 0..Ring - 1 /\ Forward(l.addr, Lead(l)) = l.erase
  <1>1. Lead(l) \in 0..Ring - 1 /\ Lead(l) \in 0..Ring
    BY Sizes DEF Lead, Cells
  <1>2. Forward(l.addr, Lead(l)) = IF l.addr + Lead(l) < Ring THEN l.addr + Lead(l)
                                                              ELSE l.addr + Lead(l) - Ring
    BY <1>1, ForwardValue
  <1> QED
    BY <1>1, <1>2, Sizes DEF Lead, Cells

\* And no other number of cells leads there.
LEMMA LeadIs ==
    ASSUME NEW l, l.addr \in Cells, l.erase \in Cells,
           NEW n \in 0..Ring - 1, Forward(l.addr, n) = l.erase
    PROVE  Lead(l) = n
  BY LeadFacts, ForwardOnce

\* How much of a chunk is written in one operation, and where it begins.
LEMMA PartFacts ==
    ASSUME NEW l \in Logs
    PROVE  /\ Record * Len(l.chunk) \in Nat
           /\ Part(l) \in Seq(Numbers) /\ PartAt(l) \in Cells
           /\ Record * Len(l.chunk) <= Ring =>
                /\ FirstLen(l) \in 0..Ring /\ FirstLen(l) <= Record * Len(l.chunk)
                /\ Split(l) => FirstLen(l) = Ring - l.addr
                /\ ~Split(l) => /\ FirstLen(l) = Record * Len(l.chunk)
                                /\ l.addr + Record * Len(l.chunk) <= Ring
                /\ l.ws = "first" => /\ Len(Part(l)) = FirstLen(l)
                                     /\ \A j \in 1..FirstLen(l) :
                                          Part(l)[j] = CellsOf(l.chunk)[j]
                /\ l.ws = "second" =>
                     /\ Len(Part(l)) = Record * Len(l.chunk) - FirstLen(l)
                     /\ \A j \in 1..Record * Len(l.chunk) - FirstLen(l) :
                          Part(l)[j] = CellsOf(l.chunk)[FirstLen(l) + j]
  <1> DEFINE w == Record * Len(l.chunk)
             cells == CellsOf(l.chunk)
             f == FirstLen(l)
  <1>1. /\ l.chunk \in Seq(Numbers) /\ Len(l.chunk) \in Nat
        /\ l.addr \in Nat /\ l.addr < Ring /\ l.addr \in Cells
    BY Sizes DEF Logs, Cells
  <1>2. w \in Nat
    BY <1>1, Products
  <1>3. cells \in Seq(Numbers) /\ Len(cells) = w
    BY <1>1, CellsFacts
  <1>4. f \in Nat /\ f <= w /\ (Split(l) => f = Ring - l.addr)
        /\ (~Split(l) => f = w /\ l.addr + w <= Ring)
    BY <1>1, <1>2, Sizes DEF FirstLen, Split
  <1>5. PartAt(l) \in Cells
    BY <1>1, Sizes DEF PartAt, Cells
  <1> HIDE DEF w, cells, f
  <1>6. CASE l.ws = "first"
    <2>1. Part(l) = SubSeq(cells, 1, f)
      BY <1>6 DEF Part, cells, f
    <2>2. /\ Part(l) \in Seq(Numbers) /\ Len(Part(l)) = f
          /\ \A j \in 1..f : Part(l)[j] = cells[j]
      BY <1>3, <1>4, <2>1
    <2> QED
      BY <1>2, <1>4, <1>5, <1>6, <2>2, Sizes DEF w, cells, f
  <1>7. CASE l.ws # "first"
    <2>1. Part(l) = SubSeq(cells, f + 1, w)
      BY <1>3, <1>7 DEF Part, cells, f, w
    <2>2. /\ Part(l) \in Seq(Numbers) /\ Len(Part(l)) = w - f
          /\ \A j \in 1..w - f : Part(l)[j] = cells[f + j]
      BY <1>2, <1>3, <1>4, <2>1
    <2>3. w <= Ring => f \in 0..Ring
      BY <1>2, <1>4, Sizes
    <2> QED
      BY <1>2, <1>4, <1>5, <1>7, <2>2, <2>3 DEF w, cells, f
  <1> QED
    BY <1>6, <1>7

\* Programming leaves a ring.
LEMMA ProgrammedTyped ==
    ASSUME NEW r \in [Cells -> Contents], NEW at \in Cells, NEW cells \in Seq(Contents)
    PROVE  Programmed(r, at, cells) \in [Cells -> Contents]
  <1>1. ASSUME NEW c \in Cells, ~ (c < at \/ c >= at + Len(cells))
        PROVE  cells[c - at + 1] \in Contents
    <2>1. c - at + 1 \in 1..Len(cells)
      BY <1>1, Sizes DEF Cells
    <2> QED
      BY <2>1, ElementOfSeq
  <1>2. Mixed \in Contents
    BY DEF Contents
  <1> QED
    BY <1>1, <1>2 DEF Programmed

\* Whatever an operation in flight leaves, it is a ring.
LEMMA LandedTyped ==
    ASSUME NEW l \in Logs, NEW state, NEW r \in Landed(l, state)
    PROVE  r \in [Cells -> Contents]
  <1>1. l.ring \in [Cells -> Contents] /\ l.qspi \in Operations
    BY DEF Logs
  <1>2. /\ Blank \in Contents /\ Mixed \in Contents /\ Numbers \subseteq Contents
    BY DEF Contents
  <1>3. \A from : \A v \in Contents : SectorFilled(l.ring, from, v) \in [Cells -> Contents]
    BY <1>1 DEF SectorFilled
  <1>4. Part(l) \in Seq(Numbers) /\ Part(l) \in Seq(Contents) /\ PartAt(l) \in Cells
    <2>1. Part(l) \in Seq(Numbers) /\ PartAt(l) \in Cells
      BY PartFacts
    <2> QED
      BY <1>2, <2>1
  <1>5. Programmed(l.ring, PartAt(l), Part(l)) \in [Cells -> Contents]
    BY <1>1, <1>4, ProgrammedTyped
  <1>6. ASSUME NEW n \in 0..Len(Part(l)) - 1
        PROVE  Programmed(l.ring, PartAt(l), Append(SubSeq(Part(l), 1, n), Mixed))
                  \in [Cells -> Contents]
    <2>1. SubSeq(Part(l), 1, n) \in Seq(Contents)
      BY <1>4
    <2>2. Append(SubSeq(Part(l), 1, n), Mixed) \in Seq(Contents)
      BY <1>2, <2>1
    <2> QED
      BY <1>1, <1>4, <2>2, ProgrammedTyped
  <1>7. \A x \in PartProgrammed(l.ring, PartAt(l), Part(l)) : x \in [Cells -> Contents]
    BY <1>1, <1>5, <1>6 DEF PartProgrammed
  <1>8. CASE l.meta.op # "none" \/ l.qspi = "none" \/ state \notin {"done", "error"}
    BY <1>1, <1>8 DEF Landed
  <1>9. CASE ~(l.meta.op # "none" \/ l.qspi = "none" \/ state \notin {"done", "error"})
    <2>1. CASE l.qspi = "erase" /\ state = "done"
      BY <1>2, <1>3, <1>9, <2>1 DEF Landed
    <2>2. CASE l.qspi = "erase" /\ state = "error"
      BY <1>1, <1>2, <1>3, <1>9, <2>2 DEF Landed
    <2>3. CASE l.qspi = "write" /\ state = "done"
      BY <1>5, <1>9, <2>3 DEF Landed
    <2>4. CASE l.qspi = "write" /\ state = "error"
      BY <1>7, <1>9, <2>4 DEF Landed
    <2> QED
      BY <1>1, <1>9, <2>1, <2>2, <2>3, <2>4 DEF Operations
  <1> QED
    BY <1>8, <1>9

\* A part of a chunk that is written where the ring is blank.
LEMMA PartWritten ==
    ASSUME NEW l \in Logs, l.ws # "idle", Record * Len(l.chunk) <= Ring,
           l.ws = "second" => Split(l),
           NEW first, first = IF l.ws = "second" THEN FirstLen(l) ELSE 0,
           NEW end, end = IF l.ws = "second" THEN Record * Len(l.chunk) ELSE FirstLen(l),
           \A i \in first..end - 1 : l.ring[Forward(l.addr, i)] = Blank
    PROVE  \A i \in 0..Ring - 1 :
             Programmed(l.ring, PartAt(l), Part(l))[Forward(l.addr, i)]
                = IF i \in first..end - 1 THEN CellsOf(l.chunk)[i + 1]
                  ELSE l.ring[Forward(l.addr, i)]
  <1> DEFINE w == Record * Len(l.chunk)
             f == FirstLen(l)
  <1>1. /\ w \in Nat /\ w <= Ring /\ f \in 0..Ring /\ f <= w
        /\ Split(l) => f = Ring - l.addr
        /\ ~Split(l) => f = w /\ l.addr + w <= Ring
    BY PartFacts
  <1>2. l.ws \in {"first", "second"} /\ l.addr \in Cells /\ l.addr \in Nat /\ l.addr < Ring
    BY Sizes DEF Logs, Cells
  <1> TAKE i \in 0..Ring - 1
  <1> DEFINE c == Forward(l.addr, i)
             at == PartAt(l)
  <1>3. c = (IF l.addr + i < Ring THEN l.addr + i ELSE l.addr + i - Ring) /\ c \in Cells
    BY <1>2, ForwardValue, Sizes
  <1>4. Programmed(l.ring, at, Part(l))[c]
           = IF c < at \/ c >= at + Len(Part(l)) THEN l.ring[c]
             ELSE IF l.ring[c] = Blank THEN Part(l)[c - at + 1] ELSE Mixed
    BY <1>3 DEF Programmed
  <1>5. CASE l.ws = "first"
    <2>1. /\ at = l.addr /\ Len(Part(l)) = f /\ first = 0 /\ end = f
          /\ \A j \in 1..f : Part(l)[j] = CellsOf(l.chunk)[j]
      BY <1>1, <1>5, PartFacts DEF PartAt
    <2> HIDE DEF c, at, w, f
    <2>0. /\ i \in Nat /\ i < Ring /\ f \in Nat /\ l.addr + f <= Ring /\ Ring \in Nat
          /\ at \in Nat /\ at = l.addr /\ at < Ring
          /\ c = IF at + i < Ring THEN at + i ELSE at + i - Ring
      <3>1. i \in Nat /\ i < Ring /\ f \in Nat /\ Ring \in Nat
        BY <1>1, Sizes
      <3>2. l.addr + f <= Ring
        BY <1>1, <1>2, <3>1
      <3> QED
        BY <1>2, <1>3, <2>1, <3>1, <3>2
    <2>2. (c < at \/ c >= at + f) <=> ~ (i \in 0..f - 1)
      <3>1. CASE at + i < Ring
        BY <2>0, <3>1
      <3>2. CASE at + i >= Ring
        BY <2>0, <3>2
      <3> QED
        BY <2>0, <3>1, <3>2
    <2>3. i \in 0..f - 1 => c - at + 1 = i + 1 /\ i + 1 \in 1..f
      BY <2>0
    <2> QED
      BY <1>4, <2>1, <2>2, <2>3 DEF c, at
  <1>6. CASE l.ws = "second"
    <2>1. /\ at = 0 /\ Len(Part(l)) = w - f /\ first = f /\ end = w /\ f = Ring - l.addr
          /\ \A j \in 1..w - f : Part(l)[j] = CellsOf(l.chunk)[f + j]
      BY <1>1, <1>6, PartFacts DEF PartAt
    <2> HIDE DEF c, at, w, f
    <2>0. /\ i \in Nat /\ i < Ring /\ w \in Nat /\ w <= Ring /\ f \in Nat /\ f <= w
          /\ c = IF i < f THEN l.addr + i ELSE i - f
      <3>1. i \in Nat /\ i < Ring /\ w \in Nat /\ w <= Ring /\ f \in Nat /\ f <= w
        BY <1>1, Sizes
      <3>2. f = Ring - l.addr
        BY <2>1
      <3> QED
        BY <1>2, <1>3, <3>1, <3>2, Sizes
    <2>2. (c < at \/ c >= at + (w - f)) <=> ~ (i \in f..w - 1)
      <3>1. CASE i < f
        BY <1>2, <2>0, <2>1, <3>1, Sizes
      <3>2. CASE i >= f
        BY <1>2, <2>0, <2>1, <3>2, Sizes
      <3> QED
        BY <2>0, <3>1, <3>2
    <2>3. i \in f..w - 1 => f + (c - at + 1) = i + 1 /\ c - at + 1 \in 1..w - f
      <3>1. at = 0
        BY <2>1
      <3>2. i \in f..w - 1 => c = i - f
        BY <2>0
      <3> QED
        BY <2>0, <3>1, <3>2
    <2>4. i \in f..w - 1 => Part(l)[c - at + 1] = CellsOf(l.chunk)[i + 1]
      BY <2>1, <2>3
    <2> QED
      BY <1>4, <2>1, <2>2, <2>4 DEF c, at
  <1> QED
    BY <1>2, <1>5, <1>6

\* The erase in flight ends.
LEMMA SectorErased ==
    ASSUME NEW l \in Logs, Lead(l) >= Sector
    PROVE  \A i \in 0..Ring - 1 :
             SectorFilled(l.ring, Forward(l.erase, Ring - Sector), Blank)[Forward(l.addr, i)]
                = IF i \in Lead(l) - Sector..Lead(l) - 1 THEN Blank
                  ELSE l.ring[Forward(l.addr, i)]
  <1>1. /\ l.addr \in Cells /\ l.addr \in Nat /\ l.addr < Ring
        /\ l.erase \in Frontiers /\ l.erase \in Cells /\ l.erase \in Nat /\ l.erase < Ring
    BY Sizes DEF Logs, Frontiers, Cells
  <1> DEFINE s == Forward(l.erase, Ring - Sector)
  <1>2. s \in Cells /\ s + Sector <= Ring /\ s \in Nat
        /\ s = IF l.erase < Sector THEN l.erase + Ring - Sector ELSE l.erase - Sector
    <2>1. s \in Frontiers /\ s \in Cells
      BY <1>1, Starts DEF Frontiers
    <2>0. Ring - Sector \in 0..Ring
      BY Sizes
    <2>2. s = IF l.erase + (Ring - Sector) < Ring THEN l.erase + (Ring - Sector)
                                                 ELSE l.erase + (Ring - Sector) - Ring
      BY <1>1, <2>0, ForwardValue
    <2>3. s + Sector <= Ring
      BY <2>1, Starts
    <2> QED
      BY <1>1, <2>1, <2>2, <2>3, Sizes DEF Cells
  <1> TAKE i \in 0..Ring - 1
  <1> DEFINE c == Forward(l.addr, i)
  <1>3. c = (IF l.addr + i < Ring THEN l.addr + i ELSE l.addr + i - Ring) /\ c \in Cells
    BY <1>1, ForwardValue, Sizes
  <1>4. c \in s..s + Sector - 1 <=> i \in Lead(l) - Sector..Lead(l) - 1
    <2>1. Lead(l) \in Nat /\ Lead(l) < Ring
          /\ Lead(l) = IF l.erase < l.addr THEN l.erase + Ring - l.addr ELSE l.erase - l.addr
      BY <1>1, Sizes DEF Lead
    <2> HIDE DEF c, s
    <2> QED
      BY <1>1, <1>2, <1>3, <2>1, Sizes
  <1>5. SectorFilled(l.ring, s, Blank)[c] = IF c \in s..s + Sector - 1 THEN Blank ELSE l.ring[c]
    BY <1>3 DEF SectorFilled
  <1> QED
    BY <1>4, <1>5

-----------------------------------------------------------------------------
(* The pieces of a writer tick.                                              *)

Base(l) ==
    /\ l \in Logs
    /\ Sized(l) /\ Lined(l) /\ Owing(l) /\ Retained(l)
    /\ Disturbances(l) = 0 => Laid(l)

\* What a tick of the writer leaves of a log to its dump.
Continues(l, x) ==
    /\ x.cap.active = l.cap.active /\ x.cap.protected = l.cap.protected
    /\ x.cap.allowed = l.cap.allowed
    /\ l.cap.ready => /\ x.cap.ready /\ x.cap.available = l.cap.available
                      /\ x.cap.endAddr = l.cap.endAddr
    /\ Len(l.written) <= Len(x.written)
    /\ \A i \in DOMAIN l.written : x.written[i] = l.written[i]
    /\ Disturbances(l) <= Disturbances(x)

\* A failure is counted, and nothing else.
LEMMA CountedFacts ==
    ASSUME NEW l \in Logs, NEW fault \in BOOLEAN
    PROVE  /\ Counted(l, fault) \in Nat /\ l.faults <= Counted(l, fault)
           /\ Counted(l, fault) = l.faults <=> ~fault
  BY DEF Counted, Logs

\* The fields of a log.
LEMMA LogTypes ==
    ASSUME NEW l \in Logs
    PROVE  /\ l.queue \in Seq(Numbers) /\ l.chunk \in Seq(Numbers) /\ l.written \in Seq(Numbers)
           /\ l.ws \in {"idle", "first", "second"} /\ l.qspi \in Operations
           /\ l.seq \in 0..MaxSeq /\ l.next \in Nat /\ l.total \in Nat
           /\ l.addr \in Cells /\ l.erase \in Frontiers /\ l.erase \in Cells
           /\ l.meta \in MetaState /\ l.cap \in Captures /\ l.ring \in [Cells -> Contents]
           /\ l.slots \in SlotStates
           /\ l.faults \in Nat /\ l.boots \in Nat /\ l.saves \in Nat /\ l.dumps \in Nat
           /\ Disturbances(l) = l.faults + l.boots - 1
  BY DEF Logs, Frontiers, Disturbances

\* An erase puts the erase address a sector further from the write address.
LEMMA LeadGrows ==
    ASSUME NEW l \in Logs, Lead(l) < PreErase * Sector,
           NEW x \in Logs, x.addr = l.addr, x.erase = Forward(l.erase, Sector)
    PROVE  Lead(x) = Lead(l) + Sector
  <1> DEFINE n == Lead(l)
  <1>1. l.addr \in Cells /\ l.erase \in Cells /\ x.erase \in Cells
    BY LogTypes
  <1>2. n \in 0..Ring - 1 /\ Forward(l.addr, n) = l.erase
    BY <1>1, LeadFacts
  <1> HIDE DEF n
  <1>3. n + Sector \in 0..Ring - 1 /\ n \in 0..Ring /\ Sector \in 0..Ring /\ n + Sector <= Ring
    BY <1>2, Sizes DEF n
  <1>4. Forward(x.addr, n + Sector) = x.erase
    BY <1>1, <1>2, <1>3, ForwardAdds
  <1> QED
    BY <1>1, <1>3, <1>4, LeadIs DEF n

\* log_erase_ahead_ready, in cells.
LEMMA AheadFacts ==
    ASSUME NEW l \in Logs
    PROVE  ErasedAhead(l) <=> Lead(l) >= PreErase * Sector
  <1>1. Lead(l) \in Nat
    BY LogTypes, LeadFacts, Sizes
  <1>2. \A s, p, x \in Nat : s >= 1 => (x \div s >= p <=> x >= p * s)
    <2> TAKE s, p, x \in Nat
    <2> SUFFICES ASSUME s >= 1 PROVE x \div s >= p <=> x >= p * s
      OBVIOUS
    <2> DEFINE q == x \div s
    <2>1. q \in Int /\ s * q <= x /\ x < s * q + s
      OBVIOUS
    <2> HIDE DEF q
    <2>2. ASSUME q >= p PROVE x >= p * s
      <3>1. s * (q - p) >= 0 /\ s * (q - p) = s * q - p * s
        BY <2>1, <2>2
      <3> QED
        BY <2>1, <3>1
    <2>3. ASSUME ~ (q >= p) PROVE ~ (x >= p * s)
      <3>1. s * (p - q - 1) >= 0 /\ s * (p - q - 1) = p * s - s * q - s
        BY <2>1, <2>3
      <3> QED
        BY <2>1, <3>1
    <2> QED
      BY <2>2, <2>3 DEF q
  <1> QED
    BY <1>1, <1>2, Sizes DEF ErasedAhead

\* log_erase_tick keeps what is known of a log.
LEMMA EraseTickBase ==
    ASSUME NEW l, Base(l), l.meta.op # "none" => l.meta.save # "idle",
           NEW blocked \in BOOLEAN, NEW x \in EraseTick(l, blocked)
    PROVE  /\ Base(x) /\ Continues(l, x)
           /\ x.ws = l.ws /\ x.meta = l.meta /\ x.cap = l.cap
           /\ x.qspi \in {l.qspi, "none", "erase"} /\ x.queue = l.queue
           /\ x.written = l.written /\ x.total = l.total
  <1>1. l \in Logs /\ l.faults \in Nat
    BY LogTypes DEF Base
  <1>2. CASE x = l
    BY <1>1, <1>2, LogTypes DEF Continues
  <1>3. CASE x # l
    <2>1. /\ l.meta.save = "idle" /\ l.qspi = "none" /\ ~ErasedAhead(l)
          /\ l.meta.op = "none"
      BY <1>3 DEF EraseTick
    <2>2. PICK s \in EraseStarted("none") :
             x = [l EXCEPT !.qspi = s.qspi, !.faults = Counted(l, s.fault),
                           !.erase = IF s.ok THEN Forward(@, Sector) ELSE @]
      BY <1>3, <2>1 DEF EraseTick
    <2>3. \/ s.ok = TRUE /\ s.qspi = "erase" /\ s.fault = FALSE
          \/ s.ok = FALSE /\ s.qspi = "none" /\ s.fault = TRUE
      BY DEF EraseStarted
    <2> DEFINE e == IF s.ok THEN Forward(l.erase, Sector) ELSE l.erase
    <2>4. e \in Frontiers /\ l.ws \in {"idle", "first", "second"} /\ s.qspi \in Operations
      BY <1>1, <2>3, LogTypes, Starts DEF Operations
    <2>5. Counted(l, s.fault) \in Nat /\ Counted(l, s.fault) >= l.faults
          /\ (Counted(l, s.fault) = l.faults <=> ~s.fault)
      BY <1>1, <2>3, CountedFacts
    <2>6. x = [l EXCEPT !.ws = l.ws, !.qspi = s.qspi, !.faults = Counted(l, s.fault), !.erase = e]
      BY <1>1, <2>2 DEF Logs
    <2>7. /\ x \in Logs
          /\ x.ws = l.ws /\ x.qspi = s.qspi /\ x.faults = Counted(l, s.fault) /\ x.erase = e
          /\ x.queue = l.queue /\ x.chunk = l.chunk /\ x.written = l.written
          /\ x.seq = l.seq /\ x.next = l.next /\ x.total = l.total
          /\ x.addr = l.addr /\ x.meta = l.meta /\ x.cap = l.cap /\ x.ring = l.ring
          /\ x.slots = l.slots /\ x.boots = l.boots
      <3> HIDE DEF e
      <3> QED
        BY <1>1, <2>4, <2>5, <2>6 DEF Logs
    <2>8. Continues(l, x)
      BY <1>1, <2>5, <2>7, LogTypes DEF Continues
    <2>9. Sized(x) /\ Lined(x) /\ Owing(x) /\ Retained(x)
      <3>1. Sized(x) /\ Lined(x)
        BY <2>7 DEF Base, Sized, Lined
      <3>2. Owing(x)
        BY <2>7 DEF Base, Owing
      <3>3. Retained(x)
        BY <2>7 DEF Base, Retained, Since
      <3> QED
        BY <3>1, <3>2, <3>3
    <2>10. Disturbances(x) = 0 => Laid(x)
      <3> SUFFICES ASSUME Disturbances(x) = 0
                   PROVE  Laid(x)
        OBVIOUS
      <3>1. Disturbances(l) = 0 /\ s.ok = TRUE /\ s.qspi = "erase"
        <4>1. l.boots >= 1 /\ l.boots \in Nat /\ x.faults + x.boots - 1 = 0
          BY <1>1, <2>7, LogTypes DEF Base, Sized
        <4> QED
          BY <1>1, <2>3, <2>5, <2>7, <4>1, LogTypes
      <3>2. Laid(l)
        BY <3>1 DEF Base
      <3>3. Lead(l) < PreErase * Sector /\ Lead(l) \in Nat
        BY <1>1, <2>1, AheadFacts, LogTypes, LeadFacts, Sizes
      <3>4. Lead(x) = Lead(l) + Sector
        BY <1>1, <2>7, <3>1, <3>3, LeadGrows
      <3>5. Erasing(x) /\ Blanked(x) = Lead(l) /\ Blanked(l) = Lead(l)
        BY <2>1, <2>7, <3>1, <3>3, <3>4, Sizes DEF Erasing, Blanked
      <3>6. Lead(x) < (PreErase + 1) * Sector /\ Lead(x) >= Sector
        BY <3>3, <3>4, Sizes
      <3>7. l.ws = "idle"
        BY <2>1, <3>2 DEF Laid
      <3>8. \A m \in 1..Ring - Lead(x) : m \in 1..Ring - Lead(l)
        BY <3>3, <3>4, Sizes
      <3>9. \A i \in 0..Blanked(x) - 1 : x.ring[Forward(x.addr, i)] = Blank
        BY <2>7, <3>2, <3>5, <3>7 DEF Laid
      <3>10. \A m \in 1..Ring - Lead(x) :
                m <= Record * Len(x.written) =>
                    x.ring[Forward(x.addr, Ring - m)] = CellBack(x.written, m)
        BY <2>7, <3>2, <3>8 DEF Laid
      <3>11. \A c \in Cells : x.ring[c] # Mixed
        BY <2>7, <3>2 DEF Laid
      <3> QED
        BY <2>1, <2>7, <3>1, <3>5, <3>6, <3>7, <3>9, <3>10, <3>11 DEF Laid
    <2> QED
      BY <2>3, <2>7, <2>8, <2>9, <2>10 DEF Base
  <1> QED
    BY <1>2, <1>3

-----------------------------------------------------------------------------
(* The rounds of the loop.                                                   *)

\* Where the loop may be between two rounds.
Gathering(l) ==
    /\ Base(l) /\ l.ws = "idle" /\ l.meta.save = "idle" /\ l.meta.op = "none"
    /\ ErasedAhead(l)

\* What two steps leave alone their sequence leaves alone.
LEMMA ContinuesOn ==
    ASSUME NEW l \in Logs, NEW x \in Logs, NEW y \in Logs, Continues(l, x), Continues(x, y)
    PROVE  Continues(l, y)
  <1>1. /\ Len(l.written) \in Nat /\ Len(x.written) \in Nat /\ Len(y.written) \in Nat
        /\ DOMAIN l.written = 1..Len(l.written) /\ DOMAIN x.written = 1..Len(x.written)
    <2>1. \A z \in Logs : Len(z.written) \in Nat /\ DOMAIN z.written = 1..Len(z.written)
      BY LogTypes
    <2> QED
      BY <2>1
  <1>0. Disturbances(l) \in Int /\ Disturbances(x) \in Int /\ Disturbances(y) \in Int
    <2>1. ASSUME NEW z \in Logs
          PROVE  Disturbances(z) \in Int
      <3>1. z.faults \in Nat /\ z.boots \in Nat
        BY LogTypes
      <3> QED
        BY <3>1 DEF Disturbances
    <2> QED
      BY <2>1
  <1>2. \A i \in DOMAIN l.written : y.written[i] = l.written[i]
    BY <1>1 DEF Continues
  <1>3. Len(l.written) <= Len(y.written) /\ Disturbances(l) <= Disturbances(y)
    BY <1>0, <1>1 DEF Continues
  <1> QED
    BY <1>2, <1>3 DEF Continues

\* The periodic save keeps what is known of a log.
LEMMA PeriodicSaveBase ==
    ASSUME NEW l, Base(l), l.ws = "idle", l.meta.op = "none", NEW x \in PeriodicSave(l)
    PROVE  Base(x) /\ Continues(l, x) /\ x.cap = l.cap
  <1>1. l \in Logs
    BY DEF Base
  <1>2. CASE x = l
    BY <1>1, <1>2, LogTypes DEF Continues
  <1>3. CASE x # l
    <2>1. x = [l EXCEPT !.meta = SaveMeta(l.meta, l.addr), !.saves = @ + 1]
      BY <1>3 DEF PeriodicSave
    <2>2. SaveMeta(l.meta, l.addr) \in MetaState /\ SaveMeta(l.meta, l.addr).op = "none"
      BY <1>1, LogTypes, SaveMetaFacts
    <2>3. /\ x \in Logs
          /\ x.ws = l.ws /\ x.qspi = l.qspi /\ x.faults = l.faults /\ x.erase = l.erase
          /\ x.queue = l.queue /\ x.chunk = l.chunk /\ x.written = l.written
          /\ x.seq = l.seq /\ x.next = l.next /\ x.total = l.total
          /\ x.addr = l.addr /\ x.cap = l.cap /\ x.ring = l.ring
          /\ x.boots = l.boots /\ x.meta.op = "none"
      <3>1. l.saves + 1 \in Nat
        BY <1>1, LogTypes
      <3>2. x = [l EXCEPT !.meta = SaveMeta(l.meta, l.addr), !.saves = l.saves + 1]
        BY <1>1, <2>1 DEF Logs
      <3> QED
        BY <1>1, <2>2, <3>1, <3>2 DEF Logs
    <2>4. Lead(x) = Lead(l) /\ Blanked(x) = Blanked(l) /\ (Erasing(x) <=> Erasing(l))
      BY <2>3 DEF Lead, Blanked, Erasing
    <2>5. Disturbances(x) = 0 => Laid(x)
      BY <2>3, <2>4 DEF Laid, Base, Disturbances
    <2>6. Continues(l, x)
      BY <1>1, <2>3, LogTypes DEF Continues, Disturbances
    <2> QED
      BY <2>3, <2>5, <2>6 DEF Base, Sized, Lined, Owing, Retained, Since
  <1> QED
    BY <1>2, <1>3

\* The records that fit into the ring.
LEMMA CapacityFacts == Capacity \in Nat /\ Record * Capacity <= Ring
  BY Sizes, Quotient, Products DEF Capacity

\* The fields of a capture.
LEMMA CaptureTypes ==
    ASSUME NEW c \in Captures
    PROVE  /\ c.active \in BOOLEAN /\ c.consumed \in BOOLEAN /\ c.ready \in BOOLEAN
           /\ c.failed \in BOOLEAN /\ c.protected \in BOOLEAN /\ c.hold \in BOOLEAN
           /\ c.target \in Nat /\ c.endAddr \in Cells /\ c.available \in Nat
           /\ c.post \in Nat /\ c.allowed \in Nat /\ c.owed \subseteq Numbers
  BY CapacityFacts DEF Captures

\* The empty chunk.
LEMMA EmptyChunk == <<>> \in Seq(Numbers) /\ Len(<<>>) = 0 /\ DOMAIN <<>> = {} /\ ToSet(<<>>) = {}
  BY DEF ToSet

(* A chunk is given up.                                                      *)
LEMMA ChunkLostBase ==
    ASSUME NEW l \in Logs, Sized(l), Lined(l), Owing(l), Retained(l),
           Disturbances(l) = 0 => Laid(l) /\ l.ws = "idle"
    PROVE  /\ Base(ChunkLost(l)) /\ Continues(l, ChunkLost(l))
           /\ ChunkLost(l).ws = "idle" /\ ChunkLost(l).chunk = <<>>
           /\ ChunkLost(l).meta = l.meta /\ ChunkLost(l).qspi = l.qspi
           /\ ChunkLost(l).queue = l.queue /\ Lead(ChunkLost(l)) = Lead(l)
           /\ Disturbances(ChunkLost(l)) = Disturbances(l)
  <1> DEFINE x == ChunkLost(l)
             f == l.cap.failed \/ (l.cap.active /\ ~l.cap.ready)
  <1>1. l.cap \in Captures /\ f \in BOOLEAN
    BY LogTypes DEF Captures
  <1>2. x = [l EXCEPT !.chunk = <<>>, !.ws = "idle", !.cap = [l.cap EXCEPT !.failed = f]]
    BY DEF ChunkLost, Logs
  <1> HIDE DEF x, f
  <1>3. /\ [l.cap EXCEPT !.failed = f] \in Captures
        /\ l.cap.failed \in BOOLEAN
        /\ [l.cap EXCEPT !.failed = l.cap.failed] = l.cap
    BY <1>1 DEF Captures
  <1>4. /\ x \in Logs
        /\ x.ws = "idle" /\ x.qspi = l.qspi /\ x.faults = l.faults /\ x.erase = l.erase
        /\ x.queue = l.queue /\ x.chunk = <<>> /\ x.written = l.written
        /\ x.seq = l.seq /\ x.next = l.next /\ x.total = l.total
        /\ x.addr = l.addr /\ x.ring = l.ring /\ x.meta = l.meta /\ x.boots = l.boots
        /\ x.cap = [l.cap EXCEPT !.failed = f]
    BY <1>2, <1>3, EmptyChunk DEF Logs
  <1>5. /\ x.cap.failed = f
        /\ x.cap.active = l.cap.active /\ x.cap.ready = l.cap.ready
        /\ x.cap.protected = l.cap.protected /\ x.cap.hold = l.cap.hold
        /\ x.cap.target = l.cap.target /\ x.cap.endAddr = l.cap.endAddr
        /\ x.cap.available = l.cap.available /\ x.cap.post = l.cap.post
        /\ x.cap.allowed = l.cap.allowed /\ x.cap.owed = l.cap.owed
        /\ x.cap.consumed = l.cap.consumed
    BY <1>1, <1>4 DEF Captures
  <1>6. Sized(x)
    <2>1. /\ Len(l.chunk) \in Nat /\ Len(l.queue) \in Nat /\ l.total \in Nat /\ l.seq \in Nat
          /\ Len(x.chunk) = 0
      <3>1. l.seq \in Nat
        BY LogTypes
      <3> QED
        BY <1>4, <3>1, EmptyChunk, LogTypes
    <2>2. /\ 0 <= ChunkRecords
          /\ l.total + Len(x.chunk) + Len(l.queue) <= l.total + Len(l.chunk) + Len(l.queue)
      BY <2>1, Sizes
    <2>3. l.total + Len(x.chunk) + Len(l.queue) <= l.seq
      <3>1. l.total + Len(l.chunk) + Len(l.queue) <= l.seq
        BY DEF Sized
      <3> HIDE DEF Sized
      <3> QED
        BY <2>1, <2>2, <3>1
    <2> QED
      BY <1>4, <1>5, <2>1, <2>2, <2>3 DEF Sized
  <1>7. Lined(x)
    BY <1>4, EmptyChunk DEF Lined
  <1>8. Owing(x)
    <2>1. ~l.cap.active => x.cap = l.cap
      <3> SUFFICES ASSUME ~l.cap.active PROVE x.cap = l.cap
        OBVIOUS
      <3>1. f = l.cap.failed
        BY <1>3 DEF f
      <3> QED
        BY <1>3, <1>4, <3>1
    <2>2. ~ (x.cap.active /\ ~x.cap.ready /\ ~x.cap.failed)
      BY <1>5 DEF f
    <2>3. ~x.cap.failed => ~l.cap.failed
      BY <1>5 DEF f
    <2> QED
      BY <1>4, <1>5, <2>1, <2>2, <2>3 DEF Owing
  <1>9. Retained(x)
    <2>1. Len(l.chunk) \in Nat /\ Since(l) \in Int /\ Since(x) = Since(l) /\ Len(x.chunk) = 0
          /\ x.cap.post \in Nat /\ x.cap.allowed \in Nat
      <3>1. Len(l.chunk) \in Nat /\ l.total \in Nat
        BY LogTypes
      <3>2. l.cap.available \in Nat /\ l.cap.post \in Nat /\ l.cap.allowed \in Nat
        BY <1>1, CaptureTypes
      <3> QED
        BY <1>4, <1>5, <3>1, <3>2, EmptyChunk DEF Since
    <2>2. \A n \in Nat : Since(l) + Len(l.chunk) <= n => Since(l) + Len(x.chunk) <= n
      BY <2>1
    <2>3. \A n \in Nat : Since(l) + Len(l.chunk) <= n => Since(x) + Len(x.chunk) <= n
      BY <2>1, <2>2
    <2> QED
      BY <1>4, <1>5, <2>1, <2>3, Sizes DEF Retained
  <1>10. Lead(x) = Lead(l) /\ Blanked(x) = Blanked(l) /\ (Erasing(x) <=> Erasing(l))
         /\ Disturbances(x) = Disturbances(l)
    BY <1>4 DEF Lead, Blanked, Erasing, Disturbances
  <1>11. Disturbances(x) = 0 => Laid(x)
    BY <1>4, <1>10 DEF Laid
  <1>12. Continues(l, x)
    BY <1>4, <1>5, <1>10, LogTypes DEF Continues
  <1> QED
    BY <1>4, <1>6, <1>7, <1>8, <1>9, <1>10, <1>11, <1>12 DEF Base, x

(* A chunk is given to the flash, or refused.                                *)
LEMMA FlushedBase ==
    ASSUME NEW l, Gathering(l), l.chunk # <<>>, NEW x \in Flushed(l)
    PROVE  /\ Base(x) /\ Continues(l, x) /\ x.queue = l.queue
           /\ x.ws # "first" => Gathering(x) /\ x.chunk = <<>>
  <1>1. l \in Logs /\ Base(l) /\ l.ws = "idle" /\ l.meta.save = "idle" /\ l.meta.op = "none"
    BY DEF Gathering, Base
  <1>2. CASE l.qspi # "none"
    <2>1. x = ChunkLost(l)
      BY <1>2 DEF Flushed, WriteStarted
    <2>2. ErasedAhead(x)
      BY <2>1, <1>1, ChunkLostBase DEF Base, Gathering, ErasedAhead
    <2> QED
      BY <1>1, <2>1, <2>2, ChunkLostBase DEF Base, Gathering
  <1>3. CASE l.qspi = "none"
    <2>0. PICK s \in WriteStarted("none") :
             x = IF s.ok THEN [l EXCEPT !.ws = "first", !.qspi = s.qspi,
                                        !.faults = Counted(l, s.fault)]
                 ELSE ChunkLost(l)
      BY <1>3 DEF Flushed
    <2>1. x = [l EXCEPT !.ws = "first", !.qspi = s.qspi, !.faults = Counted(l, s.fault)]
      BY <2>0 DEF WriteStarted
    <2>2. \/ s.qspi = "write" /\ s.fault = FALSE
          \/ s.qspi = "none" /\ s.fault = TRUE
      BY DEF WriteStarted
    <2>3. Counted(l, s.fault) \in Nat /\ Counted(l, s.fault) >= l.faults
          /\ (Counted(l, s.fault) = l.faults <=> ~s.fault)
      BY <1>1, <2>2, CountedFacts
    <2>4. s.qspi \in Operations
      BY <2>2 DEF Operations
    <2>5. /\ x \in Logs
          /\ x.ws = "first" /\ x.qspi = s.qspi /\ x.faults = Counted(l, s.fault)
          /\ x.erase = l.erase
          /\ x.queue = l.queue /\ x.chunk = l.chunk /\ x.written = l.written
          /\ x.seq = l.seq /\ x.next = l.next /\ x.total = l.total
          /\ x.addr = l.addr /\ x.meta = l.meta /\ x.cap = l.cap /\ x.ring = l.ring
          /\ x.slots = l.slots /\ x.boots = l.boots
      BY <1>1, <2>1, <2>3, <2>4 DEF Logs
    <2>6. Continues(l, x)
      BY <1>1, <2>3, <2>5, LogTypes DEF Continues
    <2>7. Sized(x) /\ Lined(x) /\ Owing(x) /\ Retained(x)
      BY <1>1, <2>5 DEF Base, Sized, Lined, Owing, Retained, Since
    <2>8. Disturbances(x) = 0 => Laid(x)
      <3> SUFFICES ASSUME Disturbances(x) = 0
                   PROVE  Laid(x)
        OBVIOUS
      <3>1. Disturbances(l) = 0 /\ s.qspi = "write"
        <4>1. l.boots >= 1 /\ l.boots \in Nat /\ x.faults + x.boots - 1 = 0
          BY <1>1, <2>5, LogTypes DEF Base, Sized
        <4> QED
          BY <1>1, <2>2, <2>3, <2>5, <4>1, LogTypes
      <3>2. Laid(l)
        BY <1>1, <3>1 DEF Base
      <3>3. Record * Len(l.chunk) <= Lead(l)
        <4>1. Len(l.chunk) \in Nat /\ Len(l.chunk) <= ChunkRecords
          BY <1>1, LogTypes DEF Base, Sized
        <4>2. Record * Len(l.chunk) <= Record * ChunkRecords /\ Record * Len(l.chunk) \in Nat
          BY <4>1, Products, Sizes
        <4>3. Lead(l) >= PreErase * Sector /\ Lead(l) \in Nat
          BY <1>1, AheadFacts, LogTypes, LeadFacts, Sizes DEF Gathering
        <4> QED
          BY <4>2, <4>3, Sizes
      <3>4. Lead(x) = Lead(l) /\ ~Erasing(x) /\ ~Erasing(l) /\ Blanked(x) = Blanked(l)
        BY <1>3, <2>5, <3>1 DEF Lead, Erasing, Blanked
      <3> QED
        BY <1>1, <2>5, <3>1, <3>2, <3>3, <3>4 DEF Laid
    <2> QED
      BY <2>5, <2>6, <2>7, <2>8 DEF Base
  <1> QED
    BY <1>2, <1>3

(* The record at the head of the queue goes to the chunk.                    *)
LEMMA HeadMoves ==
    ASSUME NEW q \in Seq(Numbers), q # <<>>, NEW c \in Seq(Numbers)
    PROVE  /\ Head(q) \in Numbers /\ Head(q) = q[1]
           /\ Tail(q) \in Seq(Numbers) /\ Len(Tail(q)) = Len(q) - 1 /\ Len(q) >= 1
           /\ Append(c, Head(q)) \in Seq(Numbers) /\ Len(Append(c, Head(q))) = Len(c) + 1
           /\ \A i \in 1..Len(q) - 1 : Tail(q)[i] = q[i + 1]
           /\ \A i \in 1..Len(c) : Append(c, Head(q))[i] = c[i]
           /\ Append(c, Head(q))[Len(c) + 1] = q[1]
           /\ Append(c, Head(q)) # <<>>
           /\ Tail(q) = <<>> => Len(q) = 1
           /\ ToSet(c) \cup ToSet(q)
                 \subseteq ToSet(Append(c, Head(q))) \cup ToSet(Tail(q))
  <1>1. Len(q) \in Nat /\ Len(q) >= 1 /\ Len(c) \in Nat
    BY EmptySeq
  <1>2. Head(q) \in Numbers /\ Head(q) = q[1]
    BY <1>1, ElementOfSeq
  <1>3. /\ Tail(q) \in Seq(Numbers) /\ Len(Tail(q)) = Len(q) - 1
        /\ \A i \in 1..Len(q) - 1 : Tail(q)[i] = q[i + 1]
    BY <1>1
  <1>4. /\ Append(c, Head(q)) \in Seq(Numbers) /\ Len(Append(c, Head(q))) = Len(c) + 1
        /\ \A i \in 1..Len(c) : Append(c, Head(q))[i] = c[i]
        /\ Append(c, Head(q))[Len(c) + 1] = q[1]
    BY <1>1, <1>2
  <1>5. Append(c, Head(q)) # <<>> /\ (Tail(q) = <<>> => Len(q) = 1)
    BY <1>1, <1>3, <1>4, EmptySeq
  <1> DEFINE a == Append(c, Head(q))
             t == Tail(q)
  <1> HIDE DEF a, t
  <1>6. ASSUME NEW i \in DOMAIN c
        PROVE  c[i] \in ToSet(a)
    <2>1. i \in DOMAIN a /\ a[i] = c[i]
      BY <1>1, <1>4 DEF a
    <2> QED
      BY <2>1 DEF ToSet
  <1>7. ASSUME NEW i \in DOMAIN q
        PROVE  q[i] \in ToSet(a) \cup ToSet(t)
    <2>1. CASE i = 1
      <3>1. Len(c) + 1 \in DOMAIN a /\ a[Len(c) + 1] = q[i]
        BY <1>1, <1>4, <2>1 DEF a
      <3> QED
        BY <3>1 DEF ToSet
    <2>2. CASE i # 1
      <3>1. i \in 1..Len(q) /\ i - 1 \in 1..Len(q) - 1 /\ (i - 1) + 1 = i
        BY <1>1, <2>2
      <3>2. i - 1 \in DOMAIN t /\ t[i - 1] = q[i]
        BY <1>3, <3>1 DEF t
      <3> QED
        BY <3>2 DEF ToSet
    <2> QED
      BY <2>1, <2>2
  <1>8. ToSet(c) \cup ToSet(q) \subseteq ToSet(a) \cup ToSet(t)
    BY <1>6, <1>7 DEF ToSet
  <1> QED
    BY <1>1, <1>2, <1>3, <1>4, <1>5, <1>8 DEF a, t

\* A record that goes from the queue to the chunk is not lost on the way, and
\* the capture that waits for it notices.
LEMMA CopiedBase ==
    ASSUME NEW l, Gathering(l), l.queue # <<>>, Len(l.chunk) < ChunkRecords, ~AtBoundary(l)
    PROVE  Gathering(Copied(l)) /\ Continues(l, Copied(l))
  <1> DEFINE x == Copied(l)
             n == IF l.cap.active /\ l.cap.ready THEN l.cap.post + 1 ELSE l.cap.post
             c == l.cap.consumed \/ (/\ l.cap.active /\ ~l.cap.ready
                                     /\ Head(l.queue) = l.cap.target - 1)
             q == l.queue
             k == l.chunk
             r == q[1]
  <1>1. /\ l \in Logs /\ Base(l) /\ l.ws = "idle" /\ l.meta.save = "idle" /\ l.meta.op = "none"
        /\ Sized(l) /\ Lined(l) /\ Owing(l) /\ Retained(l)
    BY DEF Gathering, Base
  <1>2. l.cap \in Captures /\ n \in Nat /\ c \in BOOLEAN
    <2>1. l.cap \in Captures
      BY <1>1, LogTypes
    <2> QED
      BY <2>1, CaptureTypes
  <1>3. /\ q \in Seq(Numbers) /\ k \in Seq(Numbers) /\ Len(q) \in Nat /\ Len(k) \in Nat
        /\ q # <<>> /\ DOMAIN q = 1..Len(q) /\ DOMAIN k = 1..Len(k)
    <2>1. q \in Seq(Numbers) /\ k \in Seq(Numbers)
      BY <1>1, LogTypes
    <2> QED
      BY <2>1
  <1>4. /\ Head(q) \in Numbers /\ Head(q) = r
        /\ Tail(q) \in Seq(Numbers) /\ Len(Tail(q)) = Len(q) - 1 /\ Len(q) >= 1
        /\ Append(k, Head(q)) \in Seq(Numbers) /\ Len(Append(k, Head(q))) = Len(k) + 1
        /\ \A i \in 1..Len(q) - 1 : Tail(q)[i] = q[i + 1]
        /\ \A i \in 1..Len(k) : Append(k, Head(q))[i] = k[i]
        /\ Append(k, Head(q))[Len(k) + 1] = r
        /\ Append(k, Head(q)) # <<>>
        /\ Tail(q) = <<>> => Len(q) = 1
        /\ ToSet(k) \cup ToSet(q) \subseteq ToSet(Append(k, Head(q))) \cup ToSet(Tail(q))
    BY <1>3, HeadMoves
  <1>5. x = [l EXCEPT !.chunk = Append(k, Head(q)), !.queue = Tail(q),
                      !.cap = [l.cap EXCEPT !.consumed = c, !.post = n]]
    BY DEF Copied, Logs
  <1> HIDE DEF x, n, c, q, k, r
  <1>6. [l.cap EXCEPT !.consumed = c, !.post = n] \in Captures
    BY <1>2 DEF Captures
  <1>7. /\ x \in Logs
        /\ x.ws = "idle" /\ x.qspi = l.qspi /\ x.faults = l.faults /\ x.erase = l.erase
        /\ x.queue = Tail(q) /\ x.chunk = Append(k, Head(q)) /\ x.written = l.written
        /\ x.seq = l.seq /\ x.next = l.next /\ x.total = l.total
        /\ x.addr = l.addr /\ x.ring = l.ring /\ x.meta = l.meta /\ x.boots = l.boots
        /\ x.cap = [l.cap EXCEPT !.consumed = c, !.post = n]
    BY <1>1, <1>4, <1>5, <1>6 DEF Logs
  <1>8. /\ x.cap.consumed = c /\ x.cap.post = n
        /\ x.cap.active = l.cap.active /\ x.cap.ready = l.cap.ready
        /\ x.cap.protected = l.cap.protected /\ x.cap.hold = l.cap.hold
        /\ x.cap.target = l.cap.target /\ x.cap.endAddr = l.cap.endAddr
        /\ x.cap.available = l.cap.available /\ x.cap.failed = l.cap.failed
        /\ x.cap.allowed = l.cap.allowed /\ x.cap.owed = l.cap.owed
    BY <1>2, <1>7 DEF Captures
  <1>9. /\ l.total \in Nat /\ l.seq \in Nat /\ l.next \in Nat /\ l.cap.post \in Nat
        /\ l.cap.allowed \in Nat /\ l.cap.available \in Nat
    <2>1. l.total \in Nat /\ l.seq \in Nat /\ l.next \in Nat
      BY <1>1, LogTypes
    <2> QED
      BY <1>2, <2>1, CaptureTypes
  <1>10. Sized(x)
    <2>1. Len(q) <= QueueMax /\ l.total + Len(k) + Len(q) <= l.seq /\ l.cap.post + Len(q) <= l.seq
      BY <1>1 DEF Sized, q, k
    <2>2. Len(Tail(q)) <= QueueMax /\ l.total + Len(Append(k, Head(q))) + Len(Tail(q)) <= l.seq
      <3>1. /\ Len(q) \in Nat /\ Len(k) \in Nat /\ l.total \in Nat /\ l.seq \in Nat
            /\ QueueMax \in Nat
        BY <1>3, <1>9, BoundsAssumption
      <3>2. Len(Tail(q)) = Len(q) - 1 /\ Len(Append(k, Head(q))) = Len(k) + 1
        BY <1>4
      <3>3. /\ Len(q) <= QueueMax => Len(q) - 1 <= QueueMax
            /\ l.total + Len(k) + Len(q) <= l.seq =>
                  l.total + (Len(k) + 1) + (Len(q) - 1) <= l.seq
        BY <3>1
      <3> QED
        BY <2>1, <3>2, <3>3
    <2>3. n + Len(Tail(q)) <= l.seq
      <3>1. /\ Len(q) \in Nat /\ l.cap.post \in Nat /\ l.seq \in Nat
            /\ Len(Tail(q)) = Len(q) - 1
        BY <1>3, <1>4, <1>9
      <3>2. n = l.cap.post \/ n = l.cap.post + 1
        BY DEF n
      <3> QED
        BY <2>1, <3>1, <3>2
    <2>4. Len(Append(k, Head(q))) <= ChunkRecords
      BY <1>3, <1>4, Sizes DEF k
    <2> QED
      BY <1>1, <1>7, <1>8, <2>2, <2>3, <2>4 DEF Sized
  <1>11. Lined(x)
    <2>1. /\ \A i, j \in 1..Len(q) : i < j => q[i] < q[j]
          /\ \A i \in 1..Len(k), j \in 1..Len(q) : k[i] < q[j]
          /\ \A i \in 1..Len(q) : q[i] < l.next
          /\ \A i \in 1..Len(k) : k[i] < l.next
          /\ q[Len(q)] = l.next - 1
      BY <1>1, <1>3 DEF Lined, q, k
    <2> DEFINE a == Append(k, Head(q))
               t == Tail(q)
    <2>2. DOMAIN a = 1..Len(k) + 1 /\ DOMAIN t = 1..Len(q) - 1
      BY <1>3, <1>4
    <2>3. \A i \in 1..Len(q) - 1 : t[i] = q[i + 1] /\ i + 1 \in 1..Len(q) /\ 1 < i + 1
      BY <1>3, <1>4
    <2>4. 1 \in 1..Len(q) /\ Len(t) = Len(q) - 1
      BY <1>3, <1>4
    <2>5. \A i \in DOMAIN a : (i \in 1..Len(k) /\ a[i] = k[i]) \/ a[i] = q[1]
      BY <1>3, <1>4, <2>2 DEF r
    <2> HIDE DEF a, t
    <2>6. \A i, j \in DOMAIN t : i < j => t[i] < t[j]
      <3> TAKE i, j \in DOMAIN t
      <3>1. /\ t[i] = q[i + 1] /\ i + 1 \in 1..Len(q) /\ t[j] = q[j + 1] /\ j + 1 \in 1..Len(q)
            /\ i \in Int /\ j \in Int
        BY <2>2, <2>3
      <3> QED
        BY <2>1, <3>1
    <2>7. \A i \in DOMAIN a, j \in DOMAIN t : a[i] < t[j]
      <3> TAKE i \in DOMAIN a, j \in DOMAIN t
      <3>1. t[j] = q[j + 1] /\ j + 1 \in 1..Len(q) /\ 1 < j + 1
        BY <2>2, <2>3
      <3> QED
        BY <2>1, <2>4, <2>5, <3>1
    <2>8. \A i \in DOMAIN t : t[i] < l.next
      BY <2>1, <2>2, <2>3
    <2>9. \A i \in DOMAIN a : a[i] < l.next
      BY <2>1, <2>4, <2>5
    <2>10. t # <<>> => t[Len(t)] = l.next - 1
      <3> SUFFICES ASSUME t # <<>> PROVE t[Len(t)] = l.next - 1
        OBVIOUS
      <3>1. Len(q) # 1
        <4>1. t \in Seq(Numbers)
          BY <1>4 DEF t
        <4> QED
          BY <2>4, <4>1, EmptySeq
      <3>2. Len(q) - 1 \in 1..Len(q) - 1 /\ (Len(q) - 1) + 1 = Len(q)
        BY <1>3, <1>4, <3>1
      <3> QED
        BY <2>1, <2>3, <2>4, <3>2
    <2>11. t = <<>> => a[Len(a)] = l.next - 1
      <3>1. a[Len(a)] = q[1]
        BY <1>4 DEF a, r
      <3>2. t = <<>> => Len(q) = 1
        BY <1>4 DEF t
      <3> QED
        BY <2>1, <3>1, <3>2
    <2>12. x.queue = t /\ x.chunk = a /\ x.next = l.next
      BY <1>7 DEF a, t
    <2> QED
      BY <2>6, <2>7, <2>8, <2>9, <2>10, <2>11, <2>12 DEF Lined
  <1>12. Owing(x)
    <2>1. ~l.cap.active => x.cap = l.cap
      <3> SUFFICES ASSUME ~l.cap.active PROVE x.cap = l.cap
        OBVIOUS
      <3>1. c = l.cap.consumed /\ n = l.cap.post /\ l.cap.consumed \in BOOLEAN
        BY <1>2, CaptureTypes DEF c, n
      <3>2. [l.cap EXCEPT !.consumed = l.cap.consumed, !.post = l.cap.post] = l.cap
        BY <1>2 DEF Captures
      <3> QED
        BY <1>7, <3>1, <3>2
    <2>2. ~l.cap.ready => n = l.cap.post
      BY DEF n
    <2>3. ASSUME l.cap.active, ~l.cap.ready, ~l.cap.failed
          PROVE  /\ x.cap.owed \subseteq ToSet(x.written) \cup ToSet(x.chunk) \cup ToSet(x.queue)
                 /\ c => x.chunk # <<>> /\ x.chunk[Len(x.chunk)] = l.cap.target - 1
      <3>1. ~l.cap.consumed
        BY <2>3 DEF AtBoundary
      <3>2. l.cap.owed \subseteq ToSet(l.written) \cup ToSet(k) \cup ToSet(q)
        BY <1>1, <2>3 DEF Owing, k, q
      <3>3. x.cap.owed \subseteq ToSet(x.written) \cup ToSet(x.chunk) \cup ToSet(x.queue)
        BY <1>4, <1>7, <1>8, <3>2
      <3>4. x.chunk # <<>> /\ x.chunk[Len(x.chunk)] = r
        BY <1>4, <1>7
      <3>5. c => r = l.cap.target - 1
        BY <1>4, <3>1 DEF c, q
      <3> QED
        BY <3>3, <3>4, <3>5
    <2> QED
      BY <1>1, <1>7, <1>8, <2>1, <2>2, <2>3 DEF Owing
  <1>13. Retained(x)
    <2> SUFFICES ASSUME l.cap.ready
                 PROVE  Retained(x)
      BY <1>8 DEF Retained
    <2>1. l.cap.active
      <3>1. l.cap # NoCapture
        BY DEF NoCapture
      <3> QED
        BY <1>1, <3>1 DEF Owing
    <2>2. n = l.cap.post + 1
      BY <2>1 DEF n
    <2>3. Since(x) = Since(l) /\ Since(l) \in Int /\ Len(x.chunk) = Len(k) + 1
      BY <1>4, <1>7, <1>8, <1>9 DEF Since
    <2>4. Since(l) + Len(k) <= l.cap.post
      BY <1>1 DEF Retained, k
    <2>5. l.cap.protected => l.cap.post < l.cap.allowed
      BY <1>9 DEF AtBoundary
    <2>6. Since(x) + Len(x.chunk) <= x.cap.post
      BY <1>3, <1>8, <1>9, <2>2, <2>3, <2>4
    <2>7. l.cap.protected => Since(x) + Len(x.chunk) <= l.cap.allowed
      BY <1>3, <1>9, <2>3, <2>4, <2>5
    <2> QED
      BY <1>1, <1>7, <1>8, <2>3, <2>6, <2>7 DEF Retained
  <1>14. Lead(x) = Lead(l) /\ Blanked(x) = Blanked(l) /\ (Erasing(x) <=> Erasing(l))
         /\ Disturbances(x) = Disturbances(l)
    BY <1>7 DEF Lead, Blanked, Erasing, Disturbances
  <1>15. Disturbances(x) = 0 => Laid(x)
    BY <1>1, <1>7, <1>14 DEF Base, Laid
  <1>16. Continues(l, x)
    BY <1>1, <1>7, <1>8, <1>14, LogTypes DEF Continues
  <1>17. ErasedAhead(x)
    BY <1>14 DEF Gathering, ErasedAhead
  <1> QED
    BY <1>1, <1>7, <1>10, <1>11, <1>12, <1>13, <1>15, <1>16, <1>17 DEF Gathering, Base, x

\* The boundary of a capture, or of its retention.
LEMMA BoundaryBase ==
    ASSUME NEW l, Gathering(l), NEW x \in Boundary(l)
    PROVE  Base(x) /\ Continues(l, x)
  <1>1. l \in Logs /\ Base(l) /\ l.ws = "idle" /\ l.meta.op = "none"
    BY DEF Gathering, Base
  <1>2. CASE l.cap.ready
    <2>1. x = [l EXCEPT !.cap = [l.cap EXCEPT !.hold = TRUE]]
      BY <1>1, <1>2 DEF Boundary, Logs
    <2>2. l.cap \in Captures /\ [l.cap EXCEPT !.hold = TRUE] \in Captures
      BY <1>1, LogTypes DEF Captures
    <2>3. /\ x \in Logs
          /\ x.ws = l.ws /\ x.qspi = l.qspi /\ x.faults = l.faults /\ x.erase = l.erase
          /\ x.queue = l.queue /\ x.chunk = l.chunk /\ x.written = l.written
          /\ x.seq = l.seq /\ x.next = l.next /\ x.total = l.total
          /\ x.addr = l.addr /\ x.ring = l.ring /\ x.meta = l.meta /\ x.boots = l.boots
          /\ x.cap = [l.cap EXCEPT !.hold = TRUE]
      BY <1>1, <2>1, <2>2 DEF Logs
    <2>4. /\ x.cap.consumed = l.cap.consumed /\ x.cap.post = l.cap.post
          /\ x.cap.active = l.cap.active /\ x.cap.ready = l.cap.ready
          /\ x.cap.protected = l.cap.protected
          /\ x.cap.target = l.cap.target /\ x.cap.endAddr = l.cap.endAddr
          /\ x.cap.available = l.cap.available /\ x.cap.failed = l.cap.failed
          /\ x.cap.allowed = l.cap.allowed /\ x.cap.owed = l.cap.owed
      BY <2>2, <2>3 DEF Captures
    <2>5. l.cap.active
      <3>1. l.cap # NoCapture
        BY <1>2 DEF NoCapture
      <3> QED
        BY <1>1, <3>1 DEF Base, Owing
    <2>6. Sized(x) /\ Lined(x) /\ Retained(x)
      BY <1>1, <2>3, <2>4 DEF Base, Sized, Lined, Retained, Since
    <2>7. Owing(x)
      BY <1>1, <1>2, <2>3, <2>4, <2>5 DEF Base, Owing
    <2>8. Lead(x) = Lead(l) /\ Blanked(x) = Blanked(l) /\ (Erasing(x) <=> Erasing(l))
          /\ Disturbances(x) = Disturbances(l)
      BY <2>3 DEF Lead, Blanked, Erasing, Disturbances
    <2>9. Disturbances(x) = 0 => Laid(x)
      BY <1>1, <2>3, <2>8 DEF Base, Laid
    <2>10. Continues(l, x)
      BY <1>1, <2>3, <2>4, <2>8, LogTypes DEF Continues
    <2> QED
      BY <2>3, <2>6, <2>7, <2>9, <2>10 DEF Base
  <1>3. CASE ~l.cap.ready
    BY <1>1, <1>3, PeriodicSaveBase DEF Boundary
  <1> QED
    BY <1>2, <1>3

\* A round of the loop of log_writer_tick.
LEMMA RoundBase ==
    ASSUME NEW l, Gathering(l), NEW r \in Round(l)
    PROVE  /\ r \in [log : Logs, on : BOOLEAN]
           /\ Base(r.log) /\ Continues(l, r.log) /\ (r.on => Gathering(r.log))
  <1>1. l \in Logs /\ Base(l) /\ l.ws = "idle" /\ l.meta.op = "none"
    BY DEF Gathering, Base
  <1>2. ASSUME NEW x, Base(x), Continues(l, x), r = [log |-> x, on |-> FALSE]
        PROVE  /\ r \in [log : Logs, on : BOOLEAN]
               /\ Base(r.log) /\ Continues(l, r.log) /\ (r.on => Gathering(r.log))
    BY <1>2 DEF Base
  <1>3. CASE AtBoundary(l) /\ l.chunk = <<>>
    <2>1. PICK x \in Boundary(l) : r = [log |-> x, on |-> FALSE]
      BY <1>3 DEF Round, Broken
    <2> QED
      BY <1>2, <2>1, BoundaryBase
  <1>4. CASE AtBoundary(l) /\ l.chunk # <<>>
    <2>1. PICK x \in UNION {IF f.ws = "first" THEN {f} ELSE Boundary(f) : f \in Flushed(l)} :
             r = [log |-> x, on |-> FALSE]
      BY <1>4 DEF Round, Broken
    <2>2. PICK f \in Flushed(l) : x \in IF f.ws = "first" THEN {f} ELSE Boundary(f)
      BY <2>1
    <2>3. Base(f) /\ Continues(l, f) /\ (f.ws # "first" => Gathering(f))
      BY <1>4, FlushedBase
    <2>4. CASE f.ws = "first"
      BY <1>2, <2>1, <2>2, <2>3, <2>4
    <2>5. CASE f.ws # "first"
      <3>1. Base(x) /\ Continues(f, x)
        BY <2>2, <2>3, <2>5, BoundaryBase
      <3>2. Continues(l, x)
        BY <1>1, <2>3, <3>1, ContinuesOn DEF Base
      <3> QED
        BY <1>2, <2>1, <3>1, <3>2
    <2> QED
      BY <2>4, <2>5
  <1>5. CASE ~AtBoundary(l) /\ l.queue = <<>>
    <2>1. PICK x \in PeriodicSave(l) : r = [log |-> x, on |-> FALSE]
      BY <1>5 DEF Round, Broken
    <2> QED
      BY <1>1, <1>2, <2>1, PeriodicSaveBase
  <1>6. CASE ~AtBoundary(l) /\ l.queue # <<>> /\ Len(l.chunk) = ChunkRecords
    <2>1. PICK f \in Flushed(l) : r = [log |-> f, on |-> f.ws # "first"]
      BY <1>6 DEF Round
    <2>2. l.chunk # <<>>
      BY <1>6, Sizes, EmptyChunk
    <2> QED
      BY <2>1, <2>2, FlushedBase DEF Base
  <1>7. CASE ~AtBoundary(l) /\ l.queue # <<>> /\ Len(l.chunk) # ChunkRecords
    <2>1. r = [log |-> Copied(l), on |-> TRUE]
      BY <1>7 DEF Round
    <2>2. Len(l.chunk) < ChunkRecords
      <3>1. l.chunk \in Seq(Numbers) /\ Len(l.chunk) <= ChunkRecords
        BY <1>1, LogTypes DEF Base, Sized
      <3>2. Len(l.chunk) \in Nat
        BY <3>1
      <3> QED
        BY <1>7, <3>1, <3>2, Sizes
    <2>3. Gathering(Copied(l)) /\ Continues(l, Copied(l))
      BY <1>7, <2>2, CopiedBase
    <2>4. Copied(l) \in Logs /\ Base(Copied(l))
      BY <2>3 DEF Gathering, Base
    <2> QED
      BY <2>1, <2>3, <2>4
  <1> QED
    BY <1>3, <1>4, <1>5, <1>6, <1>7

\* The loop leaves a log as its rounds do.
LEMMA GatherBase ==
    ASSUME NEW l, Gathering(l), NEW x \in Gather(l)
    PROVE  Base(x) /\ Continues(l, x)
  <1> DEFINE Kin == {r \in [log : Logs, on : BOOLEAN] :
                       Base(r.log) /\ Continues(l, r.log) /\ (r.on => Gathering(r.log))}
             T == [n \in 0..Most(l) |-> Kin]
  <1>1. l \in Logs /\ l.queue \in Seq(Numbers)
    BY LogTypes DEF Gathering, Base
  <1>2. Len(l.queue) \in Nat /\ Most(l) \in Nat
    BY <1>1 DEF Most
  <1>3. Round(l) \subseteq Kin
    BY RoundBase
  <1>4. NextRound(Kin) \subseteq Kin
    <2> SUFFICES ASSUME NEW r \in Kin, NEW y \in IF r.on THEN Round(r.log) ELSE {r}
                 PROVE  y \in Kin
      BY DEF NextRound
    <2>1. CASE r.on
      <3>1. Gathering(r.log) /\ Continues(l, r.log) /\ r.log \in Logs /\ y \in Round(r.log)
        BY <2>1
      <3>2. /\ y \in [log : Logs, on : BOOLEAN]
            /\ Base(y.log) /\ Continues(r.log, y.log) /\ (y.on => Gathering(y.log))
        BY <3>1, RoundBase
      <3>3. Continues(l, y.log)
        BY <1>1, <3>1, <3>2, ContinuesOn
      <3> QED
        BY <3>2, <3>3
    <2>2. CASE ~r.on
      BY <2>2
    <2> QED
      BY <2>1, <2>2
  <1> HIDE DEF Kin
  <1>5. \A n \in 0..Most(l) : T[n] = Kin
    OBVIOUS
  <1>6. /\ Round(l) \subseteq T[0]
        /\ \A n \in 1..Most(l) : NextRound(T[n - 1]) \subseteq T[n]
    <2>1. 0 \in 0..Most(l) /\ \A n \in 1..Most(l) : n \in 0..Most(l) /\ n - 1 \in 0..Most(l)
      BY <1>2
    <2> QED
      BY <1>3, <1>4, <1>5, <2>1
  <1> HIDE DEF T
  <1>7. Rounds(l)[Most(l)] \subseteq T[Most(l)]
    BY <1>2, <1>6, RoundsKeep
  <1>8. Rounds(l)[Most(l)] \subseteq Kin
    <2>1. Most(l) \in 0..Most(l)
      BY <1>2
    <2> QED
      BY <1>5, <1>7, <2>1
  <1>9. PICK r \in Rounds(l)[Most(l)] : x = r.log
    BY DEF Gather, Most
  <1> QED
    BY <1>8, <1>9 DEF Kin

\* log_writer_tick after log_meta_tick.
LEMMA AfterMetaBase ==
    ASSUME NEW l, Base(l), NEW blocked \in BOOLEAN, NEW x \in AfterMeta(l, blocked)
    PROVE  Base(x) /\ Continues(l, x)
  <1>1. l \in Logs /\ (l.meta.op # "none" => l.meta.save # "idle")
    BY DEF Base, Sized
  <1>2. CASE x = l
    BY <1>1, <1>2, LogTypes DEF Continues
  <1>3. CASE x # l
    <2>1. /\ l.meta.save = "idle" /\ l.meta.op = "none"
      BY <1>1, <1>3 DEF AfterMeta
    <2>2. PICK e \in EraseTick(l, blocked) :
             x \in IF ErasedAhead(e) /\ e.ws = "idle" THEN Gather(e) ELSE {e}
      BY <1>3 DEF AfterMeta
    <2>3. Base(e) /\ Continues(l, e) /\ e.meta = l.meta
      BY <1>1, EraseTickBase
    <2>4. CASE ErasedAhead(e) /\ e.ws = "idle"
      <3>1. Gathering(e)
        BY <2>1, <2>3, <2>4 DEF Gathering
      <3>2. Base(x) /\ Continues(e, x)
        BY <2>2, <2>4, <3>1, GatherBase
      <3> QED
        BY <1>1, <2>3, <3>2, ContinuesOn DEF Base
    <2>5. CASE ~(ErasedAhead(e) /\ e.ws = "idle")
      BY <2>2, <2>3, <2>5
    <2> QED
      BY <2>4, <2>5
  <1> QED
    BY <1>2, <1>3

-----------------------------------------------------------------------------
(* A chunk reaches the flash.                                                *)

\* The ring when the last part of the chunk has been written.
Landing(l) ==
    /\ \A c \in Cells : l.ring[c] # Mixed
    /\ Lead(l) < (PreErase + 1) * Sector
    /\ l.qspi = "none" /\ l.meta.op = "none" /\ Record * Len(l.chunk) <= Lead(l)
    /\ \A i \in 0..Record * Len(l.chunk) - 1 :
         l.ring[Forward(l.addr, i)] = CellsOf(l.chunk)[i + 1]
    /\ \A i \in Record * Len(l.chunk)..Lead(l) - 1 : l.ring[Forward(l.addr, i)] = Blank
    /\ \A m \in 1..Ring - Lead(l) :
         m <= Record * Len(l.written) =>
             l.ring[Forward(l.addr, Ring - m)] = CellBack(l.written, m)

\* Back from the end of a chunk there is the chunk, then what was before it.
LEMMA CellBackFacts ==
    ASSUME NEW records \in Seq(Numbers), NEW chunk \in Seq(Numbers), NEW m \in Nat, m >= 1
    PROVE  /\ m <= Record * Len(chunk) =>
                CellBack(records \o chunk, m) = CellsOf(chunk)[Record * Len(chunk) - m + 1]
           /\ m > Record * Len(chunk) /\ m <= Record * Len(records \o chunk) =>
                /\ m - Record * Len(chunk) <= Record * Len(records)
                /\ CellBack(records \o chunk, m)
                      = CellBack(records, m - Record * Len(chunk))
  <1> DEFINE n == Len(chunk)
             p == Len(records)
             q == (m - 1) \div Record
             w == Record * n
  <1>0. n \in Nat /\ p \in Nat
    OBVIOUS
  <1>1. n \in Nat /\ p \in Nat /\ w \in Nat
    <2> HIDE DEF n
    <2> QED
      BY <1>0, Products
  <1>2. q \in Int /\ Record * q <= m - 1 /\ m - 1 < Record * q + Record
    BY Quotient
  <1>3. /\ Len(records \o chunk) = p + n
        /\ \A i \in 1..p : (records \o chunk)[i] = records[i]
        /\ \A i \in 1..n : (records \o chunk)[p + i] = chunk[i]
    OBVIOUS
  <1>4. CellBack(records \o chunk, m) = (records \o chunk)[p + n - q]
    <2>1. CellBack(records \o chunk, m) = (records \o chunk)[Len(records \o chunk) - q]
      BY DEF CellBack
    <2>2. Len(records \o chunk) = p + n
      BY <1>3
    <2> HIDE DEF n, p, q
    <2>3. Len(records \o chunk) - q = p + n - q
      BY <1>1, <1>2, <2>2
    <2> QED
      BY <2>1, <2>3, Zenon
  <1>5. q >= 0
    <2> SUFFICES ASSUME q + 1 <= 0 PROVE FALSE
      BY <1>2
    <2>1. Record * (q + 1) = Record * q + Record /\ Record * (q + 1) <= Record * 0 /\ Record * 0 = 0
      <3> HIDE DEF q
      <3> QED
        BY <1>2, Sizes, Products
    <2>2. Record * q \in Int
      <3> HIDE DEF q
      <3> QED
        BY <1>2, Products
    <2> HIDE DEF q
    <2> QED
      BY <1>2, <2>1, <2>2, Sizes
  <1> HIDE DEF n, p, q, w
  <1>6. ASSUME m <= w
        PROVE  CellBack(records \o chunk, m) = CellsOf(chunk)[w - m + 1]
    <2>1. w - m \in Int /\ n - q - 1 \in Int /\ Record * q \in Int
          /\ Record * (n - q - 1) = w - Record * q - Record
      <3>1. Record * (n - (q + 1)) = Record * n - Record * (q + 1)
            /\ Record * (q + 1) = Record * q + Record /\ Record * q \in Int
        BY <1>1, <1>2, Products, Sizes
      <3>2. n - (q + 1) = n - q - 1
        BY <1>1, <1>2
      <3> QED
        BY <1>1, <1>2, <3>1, <3>2, Sizes DEF w
    <2>2. (w - m) \div Record = n - q - 1
      <3>1. Record * (n - q - 1) <= w - m /\ w - m < Record * (n - q - 1) + Record
        BY <1>1, <1>2, <2>1, Sizes
      <3> QED
        BY <2>1, <3>1, Quotient
    <2>3. w - m + 1 \in 1..w /\ (w - m + 1) - 1 = w - m
      BY <1>1, <1>6
    <2>4. /\ (w - m) \div Record + 1 \in 1..n
          /\ CellsOf(chunk)[w - m + 1] = chunk[(w - m) \div Record + 1]
      <3> DEFINE j == w - m + 1
      <3>1. j \in 1..Record * Len(chunk) /\ j - 1 = w - m
        BY <2>3 DEF w, n
      <3> HIDE DEF j
      <3>2. /\ (j - 1) \div Record + 1 \in 1..n
            /\ CellsOf(chunk)[j] = chunk[(j - 1) \div Record + 1]
        BY <3>1, CellsFacts DEF n
      <3> QED
        BY <3>1, <3>2 DEF j
    <2>5. n - q \in 1..n /\ CellsOf(chunk)[w - m + 1] = chunk[n - q] /\ p + n - q = p + (n - q)
      <3>1. (n - q - 1) + 1 = n - q
        BY <1>1, <1>2
      <3> QED
        BY <1>1, <1>2, <2>2, <2>4, <3>1
    <2> QED
      BY <1>3, <1>4, <2>5
  <1>7. ASSUME m > w, m <= Record * (p + n)
        PROVE  /\ m - w <= Record * p
               /\ CellBack(records \o chunk, m) = CellBack(records, m - w)
    <2>1. m - w <= Record * p
      <3>1. Record * (p + n) = Record * p + w /\ Record * p \in Int
        <4>1. p \in Int /\ n \in Int
          BY <1>1
        <4>2. Record * (p + n) = Record * p + Record * n /\ Record * p \in Int
          BY <4>1, Products
        <4> QED
          BY <4>2 DEF w
      <3> QED
        BY <1>1, <1>7, <3>1
    <2>2. m - w - 1 \in Int /\ q - n \in Int /\ Record * q \in Int
          /\ Record * (q - n) = Record * q - w
      <3>1. q \in Int /\ n \in Int
        BY <1>1, <1>2
      <3>2. Record * (q - n) = Record * q - Record * n /\ Record * q \in Int
        BY <3>1, Products
      <3> QED
        BY <1>1, <3>1, <3>2 DEF w
    <2>3. Record * (q - n) <= m - w - 1 /\ m - w - 1 < Record * (q - n) + Record
      BY <1>1, <1>2, <2>2, Sizes
    <2>4. (m - w - 1) \div Record = q - n
      BY <2>2, <2>3, Quotient
    <2>5. q - n >= 0 /\ q - n < p
      <3>1. q - n < p
        <4> SUFFICES ASSUME p <= q - n PROVE FALSE
          BY <1>1, <2>2
        <4>1. Record * p <= Record * (q - n) /\ Record * p \in Int
          <5>1. p \in Int /\ q - n \in Int /\ p <= q - n
            BY <1>1, <2>2
          <5> QED
            BY <5>1, Products
        <4> QED
          BY <1>1, <2>1, <2>2, <2>3, <4>1
      <3>2. q - n >= 0
        <4> SUFFICES ASSUME q - n + 1 <= 0 PROVE FALSE
          BY <2>2
        <4>1. Record * (q - n + 1) <= Record * 0 /\ Record * 0 = 0
              /\ Record * (q - n + 1) = Record * (q - n) + Record
          BY <1>1, <2>2, Products, Sizes
        <4> QED
          BY <1>1, <1>7, <2>2, <2>3, <4>1, Sizes
      <3> QED
        BY <3>1, <3>2
    <2>6. p + n - q \in 1..p /\ p + n - q = p - (q - n)
      BY <1>1, <1>2, <2>5
    <2>7. CellBack(records, m - w) = records[p - (q - n)]
      BY <2>4 DEF CellBack, p
    <2> QED
      BY <1>3, <1>4, <2>1, <2>6, <2>7
  <1> QED
    BY <1>3, <1>6, <1>7 DEF n, p, w

\* Where the write address goes, the distances to it follow.
LEMMA AddrMoves ==
    ASSUME NEW l \in Logs, NEW x \in Logs, NEW w \in Nat, w <= Lead(l),
           x.addr = Forward(l.addr, w), x.erase = l.erase
    PROVE  /\ w <= Ring /\ Lead(x) = Lead(l) - w
           /\ \A i \in 0..Ring - 1 - w : Forward(x.addr, i) = Forward(l.addr, i + w)
           /\ \A m \in 1..w : Forward(x.addr, Ring - m) = Forward(l.addr, w - m)
           /\ \A m \in w + 1..Ring : Forward(x.addr, Ring - m) = Forward(l.addr, Ring - (m - w))
  <1>1. l.addr \in Cells /\ l.erase \in Cells /\ x.addr \in Cells /\ x.erase \in Cells
    BY LogTypes
  <1> DEFINE d == Lead(l)
  <1>2. d \in 0..Ring - 1 /\ Forward(l.addr, d) = l.erase
    BY <1>1, LeadFacts
  <1>3. w \in 0..Ring /\ w <= Ring /\ w <= d
    BY <1>2, Sizes
  <1> HIDE DEF d
  <1>4. \A i \in 0..Ring - 1 - w : Forward(x.addr, i) = Forward(l.addr, i + w)
    <2> TAKE i \in 0..Ring - 1 - w
    <2>1. i \in 0..Ring /\ w + i <= Ring /\ w + i = i + w
      BY <1>3, Sizes
    <2> QED
      BY <1>1, <1>3, <2>1, ForwardAdds
  <1>5. Lead(x) = d - w
    <2>1. d - w \in 0..Ring - 1 - w /\ d - w \in 0..Ring - 1 /\ (d - w) + w = d
      BY <1>2, <1>3, Sizes
    <2>2. Forward(x.addr, d - w) = x.erase
      BY <1>2, <1>4, <2>1
    <2> QED
      BY <1>1, <2>1, <2>2, LeadIs
  <1>6. \A m \in 1..w : Forward(x.addr, Ring - m) = Forward(l.addr, w - m)
    <2> TAKE m \in 1..w
    <2>1. Ring - m \in 0..Ring /\ w + (Ring - m) >= Ring /\ w + (Ring - m) - Ring = w - m
      BY <1>3, Sizes
    <2> QED
      BY <1>1, <1>3, <2>1, ForwardAdds
  <1>7. \A m \in w + 1..Ring : Forward(x.addr, Ring - m) = Forward(l.addr, Ring - (m - w))
    <2> TAKE m \in w + 1..Ring
    <2>1. Ring - m \in 0..Ring /\ w + (Ring - m) <= Ring /\ w + (Ring - m) = Ring - (m - w)
      BY <1>3, Sizes
    <2> QED
      BY <1>1, <1>3, <2>1, ForwardAdds
  <1> QED
    BY <1>3, <1>4, <1>5, <1>6, <1>7 DEF d

\* A chunk whose cells are in the ring becomes the end of the records.
LEMMA ChunkLaid ==
    ASSUME NEW l \in Logs, Landing(l), NEW x \in Logs,
           x.addr = NextAddr(l), x.erase = l.erase, x.ring = l.ring,
           x.written = l.written \o l.chunk, x.chunk = <<>>, x.ws = "idle",
           x.qspi = l.qspi, x.meta = l.meta
    PROVE  Laid(x)
  <1> DEFINE w == Record * Len(l.chunk)
             d == Lead(l)
  <1>1. l.chunk \in Seq(Numbers) /\ l.written \in Seq(Numbers) /\ Len(l.chunk) \in Nat
        /\ Len(l.written) \in Nat /\ l.addr \in Cells /\ l.erase \in Cells
    <2>1. /\ l.chunk \in Seq(Numbers) /\ l.written \in Seq(Numbers)
          /\ l.addr \in Cells /\ l.erase \in Cells
      BY LogTypes
    <2> QED
      BY <2>1
  <1>2. w \in Nat /\ d \in 0..Ring - 1 /\ w <= d
    BY <1>1, Products, LeadFacts DEF Landing
  <1>3. x.addr = Forward(l.addr, w)
    BY DEF NextAddr
  <1> HIDE DEF w, d
  <1>4. /\ w <= Ring /\ Lead(x) = d - w
        /\ \A i \in 0..Ring - 1 - w : Forward(x.addr, i) = Forward(l.addr, i + w)
        /\ \A m \in 1..w : Forward(x.addr, Ring - m) = Forward(l.addr, w - m)
        /\ \A m \in w + 1..Ring : Forward(x.addr, Ring - m) = Forward(l.addr, Ring - (m - w))
    BY <1>2, <1>3, AddrMoves DEF d
  <1>5. /\ x.qspi = "none" /\ x.meta.op = "none" /\ ~Erasing(x) /\ Blanked(x) = d - w
        /\ x.ws = "idle" /\ x.ring = l.ring
        /\ \A c \in Cells : x.ring[c] # Mixed
    BY <1>4 DEF Landing, Erasing, Blanked
  <1>6. Lead(x) < (PreErase + 1) * Sector
    <2>1. d < (PreErase + 1) * Sector
      BY DEF Landing, d
    <2>2. (PreErase + 1) * Sector \in Nat
      BY Sizes
    <2> QED
      BY <1>2, <1>4, <2>1, <2>2
  <1>7. \A i \in 0..Blanked(x) - 1 : x.ring[Forward(x.addr, i)] = Blank
    <2> TAKE i \in 0..Blanked(x) - 1
    <2>1. i \in 0..Ring - 1 - w /\ i + w \in w..d - 1
      BY <1>2, <1>5, Sizes
    <2>2. l.ring[Forward(l.addr, i + w)] = Blank
      BY <2>1 DEF Landing, w, d
    <2> QED
      BY <1>4, <1>5, <2>1, <2>2
  <1>8. \A m \in 1..Ring - Lead(x) :
          m <= Record * Len(x.written) =>
             x.ring[Forward(x.addr, Ring - m)] = CellBack(x.written, m)
    <2> TAKE m \in 1..Ring - Lead(x)
    <2> SUFFICES ASSUME m <= Record * Len(x.written)
                 PROVE  x.ring[Forward(x.addr, Ring - m)] = CellBack(x.written, m)
      OBVIOUS
    <2>1. m \in Nat /\ m >= 1 /\ m <= Ring - (d - w)
      BY <1>2, <1>4, Sizes
    <2>2. CASE m <= w
      <3>1. /\ m \in 1..w /\ w - m \in 0..w - 1 /\ (w - m) + 1 = w - m + 1
        BY <1>2, <2>1, <2>2
      <3>2. l.ring[Forward(l.addr, w - m)] = CellsOf(l.chunk)[(w - m) + 1]
        BY <3>1 DEF Landing, w
      <3>3. CellBack(x.written, m) = CellsOf(l.chunk)[w - m + 1]
        BY <1>1, <2>1, <2>2, CellBackFacts DEF w
      <3> QED
        BY <1>4, <1>5, <3>1, <3>2, <3>3
    <2>3. CASE m > w
      <3>1. m \in w + 1..Ring /\ m - w \in 1..Ring - d
        <4>1. m \in Int /\ w \in Int /\ d \in Int /\ Ring \in Int /\ m <= Ring - d + w
              /\ w <= d /\ m > w
          BY <1>2, <2>1, <2>3, Sizes
        <4> QED
          BY <4>1
      <3>2. /\ m - w <= Record * Len(l.written)
            /\ CellBack(x.written, m) = CellBack(l.written, m - w)
        <4>1. /\ m > Record * Len(l.chunk)
              /\ m <= Record * Len(l.written \o l.chunk)
          BY <2>3 DEF w
        <4>2. /\ m - Record * Len(l.chunk) <= Record * Len(l.written)
              /\ CellBack(l.written \o l.chunk, m)
                    = CellBack(l.written, m - Record * Len(l.chunk))
          BY <1>1, <2>1, <4>1, CellBackFacts
        <4> QED
          BY <4>2 DEF w
      <3>3. l.ring[Forward(l.addr, Ring - (m - w))] = CellBack(l.written, m - w)
        BY <3>1, <3>2 DEF Landing, d
      <3> QED
        BY <1>4, <1>5, <3>1, <3>2, <3>3
    <2> QED
      BY <1>2, <2>1, <2>2, <2>3
  <1> QED
    BY <1>5, <1>6, <1>7, <1>8 DEF Laid

\* What is in flash stays, and the chunk comes after it.
LEMMA WrittenGrows ==
    ASSUME NEW r \in Seq(Numbers), NEW k \in Seq(Numbers)
    PROVE  /\ r \o k \in Seq(Numbers) /\ Len(r \o k) = Len(r) + Len(k)
           /\ \A i \in DOMAIN r : i \in DOMAIN (r \o k) /\ (r \o k)[i] = r[i]
           /\ k # <<>> => /\ Len(r) + Len(k) \in DOMAIN (r \o k)
                          /\ (r \o k)[Len(r) + Len(k)] = k[Len(k)]
           /\ ToSet(r) \cup ToSet(k) \subseteq ToSet(r \o k)
  <1>1. Len(r) \in Nat /\ Len(k) \in Nat /\ DOMAIN r = 1..Len(r) /\ DOMAIN k = 1..Len(k)
    OBVIOUS
  <1> DEFINE s == r \o k
  <1>2. /\ s \in Seq(Numbers) /\ Len(s) = Len(r) + Len(k)
        /\ \A i \in 1..Len(r) : s[i] = r[i]
        /\ \A i \in 1..Len(k) : s[Len(r) + i] = k[i]
    OBVIOUS
  <1>3. DOMAIN s = 1..Len(r) + Len(k)
    BY <1>2
  <1>4. k # <<>> => Len(k) \in 1..Len(k)
    BY <1>1, EmptySeq
  <1> HIDE DEF s
  <1>5. \A i \in DOMAIN r : i \in DOMAIN s /\ s[i] = r[i]
    BY <1>1, <1>2, <1>3
  <1>6. \A i \in DOMAIN k : Len(r) + i \in DOMAIN s /\ s[Len(r) + i] = k[i]
    BY <1>1, <1>2, <1>3
  <1>7. ToSet(r) \cup ToSet(k) \subseteq ToSet(s)
    BY <1>5, <1>6 DEF ToSet
  <1>8. k # <<>> => Len(r) + Len(k) \in DOMAIN s /\ s[Len(r) + Len(k)] = k[Len(k)]
    BY <1>1, <1>4, <1>6
  <1> QED
    BY <1>2, <1>5, <1>7, <1>8 DEF s

\* The end of a chunk keeps what is known of a log, and makes a capture ready
\* only when it may.
LEMMA ChunkDoneBase ==
    ASSUME NEW l \in Logs, Sized(l), Lined(l), Owing(l), Retained(l), l.ws # "idle",
           l.cap.ready => l.cap.protected,
           Disturbances(l) = 0 => Landing(l)
    PROVE  /\ Base(ChunkDone(l)) /\ Continues(l, ChunkDone(l))
           /\ ChunkDone(l).ws = "idle" /\ ChunkDone(l).meta = l.meta
           /\ ChunkDone(l).slots = l.slots /\ ChunkDone(l).qspi = l.qspi
           /\ Disturbances(ChunkDone(l)) = Disturbances(l)
  <1> DEFINE x == ChunkDone(l)
             k == l.chunk
             total == l.total + Len(k)
             turn == l.cap.active /\ ~l.cap.ready /\ l.cap.consumed
             cap == IF turn THEN [l.cap EXCEPT !.endAddr = NextAddr(l),
                                               !.available = total, !.ready = TRUE]
                    ELSE l.cap
  <1>1. /\ l.chunk \in Seq(Numbers) /\ l.written \in Seq(Numbers) /\ l.queue \in Seq(Numbers)
        /\ l.cap \in Captures /\ l.addr \in Cells /\ l.total \in Nat /\ l.seq \in Nat
        /\ l.next \in Nat
    BY LogTypes
  <1>2. /\ Len(k) \in Nat /\ Len(l.queue) \in Nat /\ k # <<>> /\ Len(k) >= 1
        /\ total \in Nat /\ l.total = Len(l.written)
        /\ Len(k) <= ChunkRecords
    <2>1. k # <<>> /\ l.total = Len(l.written) /\ Len(k) <= ChunkRecords
      BY DEF Sized
    <2>2. Len(k) \in Nat /\ Len(l.queue) \in Nat /\ Len(k) >= 1
      BY <1>1, <2>1, EmptySeq
    <2> HIDE DEF k
    <2> QED
      BY <1>1, <2>1, <2>2
  <1>3. /\ l.written \o k \in Seq(Numbers) /\ Len(l.written \o k) = total
        /\ \A i \in DOMAIN l.written : /\ i \in DOMAIN (l.written \o k)
                                       /\ (l.written \o k)[i] = l.written[i]
        /\ total \in DOMAIN (l.written \o k) /\ (l.written \o k)[total] = k[Len(k)]
        /\ ToSet(l.written) \cup ToSet(k) \subseteq ToSet(l.written \o k)
    <2>1. total = Len(l.written) + Len(k)
      BY <1>2
    <2>2. l.written \in Seq(Numbers) /\ k \in Seq(Numbers)
      BY <1>1
    <2> HIDE DEF total, k
    <2> QED
      BY <1>2, <2>1, <2>2, WrittenGrows
  <1>4. NextAddr(l) \in Cells /\ NextAddr(l) = Forward(l.addr, Record * Len(k))
        /\ Record * Len(k) \in 0..Ring
    <2>1. Record * Len(k) \in Nat /\ Record * Len(k) <= Record * ChunkRecords
      <3>1. /\ Len(k) \in Nat /\ Len(k) \in Int /\ Len(k) <= ChunkRecords
            /\ ChunkRecords \in Int
        BY <1>2, Sizes
      <3> HIDE DEF k
      <3> QED
        BY <3>1, Products
    <2>2. Record * Len(k) \in 0..Ring
      BY <2>1, Sizes
    <2> QED
      BY <1>1, <2>2, ForwardValue DEF NextAddr
  <1>5. cap \in Captures
    BY <1>1, <1>2, <1>4 DEF Captures
  <1>6. x = [l EXCEPT !.addr = NextAddr(l), !.total = total, !.written = l.written \o k,
                      !.chunk = <<>>, !.ws = "idle", !.cap = cap]
    BY DEF ChunkDone, Logs
  <1> HIDE DEF x, k, total, cap
  <1>7. /\ x \in Logs
        /\ x.ws = "idle" /\ x.qspi = l.qspi /\ x.faults = l.faults /\ x.erase = l.erase
        /\ x.queue = l.queue /\ x.chunk = <<>> /\ x.written = l.written \o k
        /\ x.seq = l.seq /\ x.next = l.next /\ x.total = total
        /\ x.addr = NextAddr(l) /\ x.ring = l.ring /\ x.meta = l.meta /\ x.boots = l.boots
        /\ x.cap = cap /\ x.slots = l.slots
    BY <1>1, <1>2, <1>3, <1>4, <1>5, <1>6, EmptyChunk DEF Logs
  <1>8. /\ x.cap.consumed = l.cap.consumed /\ x.cap.post = l.cap.post
        /\ x.cap.active = l.cap.active /\ x.cap.failed = l.cap.failed
        /\ x.cap.protected = l.cap.protected /\ x.cap.hold = l.cap.hold
        /\ x.cap.target = l.cap.target
        /\ x.cap.allowed = l.cap.allowed /\ x.cap.owed = l.cap.owed
        /\ turn => /\ x.cap.endAddr = x.addr /\ x.cap.available = total
                   /\ x.cap.ready = TRUE
        /\ ~turn => /\ x.cap = l.cap /\ x.cap.endAddr = l.cap.endAddr
                    /\ x.cap.available = l.cap.available /\ x.cap.ready = l.cap.ready
    BY <1>1, <1>7 DEF Captures, cap
  <1>9. /\ l.cap.available \in Nat /\ l.cap.post \in Nat /\ l.cap.allowed \in Nat
        /\ l.cap.target \in Nat
    BY <1>1, CaptureTypes
  <1>10. /\ Len(x.chunk) = 0 /\ ToSet(x.chunk) = {} /\ DOMAIN x.chunk = {}
    BY <1>7, EmptyChunk
  <1>11. Sized(x)
    <2>1. l.total + Len(k) + Len(l.queue) <= l.seq /\ l.cap.available <= l.total
      BY DEF Sized, k
    <2>2. x.total + Len(x.chunk) + Len(x.queue) <= x.seq /\ l.cap.available <= total
      <3>1. /\ x.total = l.total + Len(k) /\ Len(x.chunk) = 0 /\ x.queue = l.queue
            /\ x.seq = l.seq
        BY <1>7, <1>10 DEF total
      <3>2. Len(k) \in Nat /\ Len(l.queue) \in Nat
        BY <1>2
      <3>3. l.total \in Nat /\ l.seq \in Nat /\ l.cap.available \in Nat
        BY <1>1, <1>9
      <3>4. x.total + Len(x.chunk) + Len(x.queue) = l.total + Len(k) + Len(l.queue)
        BY <3>1, <3>2, <3>3
      <3>5. l.cap.available <= l.total + Len(k)
        BY <2>1, <3>2, <3>3
      <3> QED
        BY <2>1, <3>1, <3>4, <3>5 DEF total
    <2>3. x.cap.available <= x.total /\ Len(x.chunk) <= ChunkRecords
      BY <1>2, <1>7, <1>8, <1>10, <2>2, Sizes
    <2> QED
      BY <1>3, <1>7, <1>8, <2>2, <2>3 DEF Sized
  <1>12. Lined(x)
    BY <1>7, <1>10 DEF Lined
  <1>13. Owing(x)
    <2>1. ASSUME turn, ~l.cap.failed
          PROVE  /\ l.cap.owed \subseteq ToSet(x.written)
                 /\ x.written[total] = l.cap.target - 1 /\ total \in DOMAIN x.written
      <3>1. /\ l.cap.owed \subseteq ToSet(l.written) \cup ToSet(k) \cup ToSet(l.queue)
            /\ \A y \in l.cap.owed : y <= l.cap.target - 1
            /\ k[Len(k)] = l.cap.target - 1
        BY <2>1 DEF Owing, k
      <3>2. \A j \in DOMAIN l.queue : l.cap.target - 1 < l.queue[j]
        <4>1. Len(k) \in DOMAIN l.chunk
          BY <1>1, <1>2 DEF k
        <4> QED
          BY <3>1, <4>1 DEF Lined, k
      <3>3. l.cap.owed \cap ToSet(l.queue) = {}
        <4> SUFFICES ASSUME NEW y \in l.cap.owed, NEW j \in DOMAIN l.queue, y = l.queue[j]
                     PROVE  FALSE
          BY DEF ToSet
        <4>1. y <= l.cap.target - 1 /\ l.cap.target - 1 < y
          BY <3>1, <3>2
        <4>2. y \in Int
          <5>1. l.cap.owed \subseteq Numbers
            BY <1>1, CaptureTypes
          <5> QED
            BY <5>1 DEF Numbers
        <4> QED
          BY <1>9, <4>1, <4>2
      <3>4. l.cap.owed \subseteq ToSet(x.written)
        BY <1>3, <1>7, <3>1, <3>3
      <3> QED
        BY <1>3, <1>7, <3>1, <3>4
    <2>2. CASE turn
      BY <1>7, <1>8, <2>1, <2>2 DEF Owing
    <2>3. CASE ~turn
      <3>1. l.cap.active /\ ~l.cap.ready => ~l.cap.consumed
        BY <2>3
      <3>2. l.cap.available \in DOMAIN l.written =>
               /\ x.written[l.cap.available] = l.written[l.cap.available]
               /\ l.cap.available \in DOMAIN x.written
        BY <1>3, <1>7
      <3>3. /\ ToSet(l.written) \cup ToSet(k) \subseteq ToSet(x.written)
        BY <1>3, <1>7
      <3> QED
        BY <1>7, <1>8, <1>10, <2>3, <3>1, <3>2, <3>3 DEF Owing, k
    <2> QED
      BY <2>2, <2>3
  <1>14. Retained(x)
    <2>1. CASE turn
      <3>1. Since(x) = 0 /\ ~x.cap.protected
        BY <1>2, <1>7, <1>8, <2>1 DEF Since, Owing
      <3>2. x.addr \in Cells /\ Forward(x.addr, 0) = x.addr /\ Record * 0 = 0
        <4>1. x.addr \in Cells /\ 0 \in 0..Ring
          BY <1>4, <1>7, Sizes
        <4>2. Forward(x.addr, 0) = IF x.addr + 0 < Ring THEN x.addr + 0 ELSE x.addr + 0 - Ring
          BY <4>1, ForwardValue
        <4> QED
          BY <4>1, <4>2, Sizes DEF Cells
      <3> QED
        BY <1>8, <1>9, <1>10, <2>1, <3>1, <3>2 DEF Retained
    <2>2. CASE ~turn
      <3> SUFFICES ASSUME l.cap.ready
                   PROVE  Retained(x)
        BY <1>8, <2>2 DEF Retained
      <3> DEFINE n == Since(l)
      <3>1. /\ l.addr = Forward(l.cap.endAddr, Record * n)
            /\ n + Len(k) <= l.cap.post /\ l.cap.protected
            /\ n + Len(k) <= l.cap.allowed \/ n + Len(k) <= ChunkRecords
        BY DEF Retained, k
      <3>2. n \in Nat /\ Since(x) = n + Len(k)
        BY <1>1, <1>2, <1>7, <1>8, <1>9, <2>2 DEF Since, Sized, total
      <3> HIDE DEF n
      <3>3. n + Len(k) \in Nat /\ Record * (n + Len(k)) = Record * n + Record * Len(k)
            /\ Record * (n + Len(k)) \in Nat /\ Record * n \in Nat /\ Record * Len(k) \in Nat
        <4>1. Len(k) \in Nat /\ Len(k) \in Int /\ n \in Nat /\ n \in Int /\ n + Len(k) \in Nat
          BY <1>2, <3>2
        <4> QED
          BY <4>1, Products
      <3>4. Record * (n + Len(k)) <= Ring
        <4>1. CASE n + Len(k) <= ChunkRecords
          <5>1. Record * (n + Len(k)) <= Record * ChunkRecords
            BY <3>3, <4>1, Products, Sizes
          <5> QED
            BY <3>3, <5>1, Sizes
        <4>2. CASE n + Len(k) <= l.cap.allowed
          <5>1. l.cap.allowed <= Capacity
            BY <1>1, CapacityFacts DEF Captures
          <5>2. n + Len(k) <= Capacity
            BY <1>9, <3>3, <4>2, <5>1, CapacityFacts
          <5>3. Record * (n + Len(k)) <= Record * Capacity /\ Record * Capacity \in Nat
            BY <3>3, <5>2, Products, CapacityFacts
          <5> QED
            BY <3>3, <5>3, CapacityFacts, Sizes
        <4> QED
          BY <3>1, <4>1, <4>2
      <3>5. Record * n \in 0..Ring
        BY <3>3, <3>4, Sizes
      <3>6. l.cap.endAddr \in Cells
        BY <1>1, CaptureTypes
      <3>7. x.addr = Forward(l.cap.endAddr, Record * (n + Len(k)))
        BY <1>4, <1>7, <3>1, <3>3, <3>4, <3>5, <3>6, ForwardAdds
      <3>8. Since(x) + Len(x.chunk) = n + Len(k)
        BY <1>10, <3>2, <3>3
      <3> QED
        BY <1>8, <2>2, <3>1, <3>2, <3>7, <3>8 DEF Retained
    <2> QED
      BY <2>1, <2>2
  <1>15. Disturbances(x) = Disturbances(l)
    BY <1>7 DEF Disturbances
  <1>16. Disturbances(x) = 0 => Laid(x)
    BY <1>7, <1>15, ChunkLaid DEF k
  <1>17. Continues(l, x)
    <2>1. Len(l.written) <= Len(x.written)
      BY <1>1, <1>2, <1>3, <1>7 DEF total
    <2>2. l.cap.ready => x.cap.ready /\ x.cap.available = l.cap.available
                         /\ x.cap.endAddr = l.cap.endAddr
      BY <1>8
    <2>3. Disturbances(l) \in Int
      BY LogTypes
    <2> QED
      BY <1>3, <1>7, <1>8, <1>15, <2>1, <2>2, <2>3 DEF Continues
  <1> QED
    BY <1>7, <1>11, <1>12, <1>13, <1>14, <1>15, <1>16, <1>17 DEF Base, x

-----------------------------------------------------------------------------
(* The operation in flight ends.                                             *)

\* Logs that differ in the driver and in the metadata.
Alike(l, x) ==
    /\ x.queue = l.queue /\ x.chunk = l.chunk /\ x.ws = l.ws /\ x.seq = l.seq
    /\ x.next = l.next /\ x.total = l.total /\ x.written = l.written /\ x.addr = l.addr
    /\ x.erase = l.erase /\ x.cap = l.cap /\ x.ring = l.ring /\ x.boots = l.boots

\* Most of what is known of a log does not depend on the driver and the metadata.
LEMMA AlikeFacts ==
    ASSUME NEW l \in Logs, Sized(l), Lined(l), Owing(l), Retained(l),
           NEW x \in Logs, Alike(l, x), l.faults <= x.faults,
           x.ws # "idle" => x.meta.save = "idle" /\ x.meta.op = "none",
           x.meta.op # "none" => x.meta.save # "idle"
    PROVE  /\ Sized(x) /\ Lined(x) /\ Owing(x) /\ Retained(x)
           /\ Continues(l, x) /\ Lead(x) = Lead(l)
           /\ Disturbances(l) <= Disturbances(x)
           /\ Disturbances(x) = 0 => Disturbances(l) = 0 /\ l.faults = x.faults
  <1>1. Sized(x) /\ Lined(x) /\ Owing(x) /\ Retained(x)
    BY DEF Alike, Sized, Lined, Owing, Retained, Since
  <1>2. Lead(x) = Lead(l)
    BY DEF Alike, Lead
  <1>3. /\ l.faults \in Nat /\ x.faults \in Nat /\ l.boots \in Nat /\ x.boots = l.boots
        /\ l.boots >= 1
    BY LogTypes DEF Alike, Sized
  <1>4. /\ Disturbances(l) <= Disturbances(x)
        /\ Disturbances(x) = 0 => Disturbances(l) = 0 /\ l.faults = x.faults
    <2>1. /\ Disturbances(l) = l.faults + l.boots - 1
          /\ Disturbances(x) = x.faults + l.boots - 1
      BY <1>3 DEF Disturbances
    <2> DEFINE a == l.faults
               b == x.faults
               c == l.boots
    <2>2. a \in Nat /\ b \in Nat /\ c \in Nat /\ c >= 1 /\ a <= b
      BY <1>3
    <2> HIDE DEF a, b, c
    <2>3. a + c - 1 <= b + c - 1 /\ (b + c - 1 = 0 => a + c - 1 = 0 /\ a = b)
      BY <2>2
    <2> QED
      BY <2>1, <2>3 DEF a, b, c
  <1>5. Continues(l, x)
    BY <1>4, LogTypes DEF Alike, Continues
  <1> QED
    BY <1>1, <1>2, <1>4, <1>5

(* A tick of the metadata while its own operation is in flight.              *)
LEMMA MetaOwn ==
    ASSUME NEW l, Base(l), l.meta.op # "none", NEW polled \in Polled(l.qspi),
           NEW o \in MetaTick(l.meta, l.slots, polled, TRUE),
           NEW x \in Logs, Alike(l, x), x.meta = o.meta, x.qspi = o.qspi,
           l.faults <= x.faults
    PROVE  Base(x) /\ Continues(l, x)
  <1>1. /\ l \in Logs /\ l.meta \in MetaState /\ l.slots \in SlotStates /\ l.qspi \in Operations
        /\ l.meta.save # "idle" /\ l.ws = "idle"
    BY LogTypes DEF Base, Sized
  <1>2. /\ o.meta.op # "none" => o.meta.save # "idle"
        /\ o.qspi = polled.qspi
        /\ o.meta.op = IF polled.state \in {"done", "error"} THEN "none" ELSE l.meta.op
    <2>1. /\ o.qspi = polled.qspi
          /\ o.meta.op = IF polled.state \in {"done", "error"} THEN "none" ELSE l.meta.op
      BY <1>1, TickOwn
    <2>2. o.meta.op # "none" => o.meta.save # "idle"
      <3> TRUE \in BOOLEAN
        OBVIOUS
      <3> QED
        BY <1>1, TickTyped
    <2> QED
      BY <2>1, <2>2
  <1>3. /\ Sized(x) /\ Lined(x) /\ Owing(x) /\ Retained(x) /\ Continues(l, x)
        /\ Lead(x) = Lead(l) /\ (Disturbances(x) = 0 => Disturbances(l) = 0)
    BY <1>1, <1>2, AlikeFacts DEF Base, Alike
  <1>4. Disturbances(x) = 0 => Laid(x)
    <2> SUFFICES ASSUME Disturbances(x) = 0
                 PROVE  Laid(x)
      OBVIOUS
    <2>1. Laid(l)
      BY <1>3 DEF Base
    <2>2. l.qspi = l.meta.op
      BY <2>1 DEF Laid
    <2>3. \/ x.qspi = l.qspi /\ x.meta.op = l.meta.op
          \/ x.qspi = "none" /\ x.meta.op = "none"
      BY <1>2, <2>2 DEF Polled
    <2>4. ~Erasing(x) /\ ~Erasing(l) /\ Blanked(x) = Blanked(l)
      BY <1>3, <2>3 DEF Erasing, Blanked
    <2> QED
      BY <1>1, <1>3, <2>1, <2>2, <2>3, <2>4 DEF Laid, Alike
  <1> QED
    BY <1>3, <1>4 DEF Base

(* A tick of the metadata with none of its operations in flight.             *)
LEMMA MetaOther ==
    ASSUME NEW l, Base(l), l.meta.op = "none", NEW op \in Operations,
           NEW polled \in Polled(op), polled.qspi = l.qspi,
           NEW o, l.ws = "idle" => o \in MetaTick(l.meta, l.slots, polled, TRUE),
           l.ws # "idle" => o = MetaOutcome(l.meta, l.slots, polled.qspi, FALSE),
           NEW x \in Logs, Alike(l, x), x.meta = o.meta, x.qspi = o.qspi,
           l.faults <= x.faults, l.faults = x.faults => o.fault = FALSE
    PROVE  Base(x) /\ Continues(l, x)
  <1>1. /\ l \in Logs /\ l.meta \in MetaState /\ l.slots \in SlotStates /\ l.qspi \in Operations
        /\ (l.ws # "idle" => l.meta.save = "idle")
    BY LogTypes DEF Base, Sized
  <1>2. /\ o.meta.op # "none" => o.meta.save # "idle"
        /\ \/ o.meta = l.meta /\ o.qspi = l.qspi
           \/ l.ws = "idle" /\ l.qspi = "none" /\ (o.fault = FALSE => o.qspi = o.meta.op)
    <2>1. CASE l.ws = "idle"
      <3>1. o.meta.op # "none" => o.meta.save # "idle"
        BY <1>1, <2>1, TickTyped
      <3>2. \/ o.meta = l.meta /\ o.qspi = polled.qspi
            \/ polled.qspi = "none" /\ (o.fault = FALSE => o.qspi = o.meta.op)
        BY <1>1, <2>1, TickQuiet
      <3> QED
        BY <2>1, <3>1, <3>2
    <2>2. CASE l.ws # "idle"
      BY <2>2 DEF MetaOutcome
    <2> QED
      BY <2>1, <2>2
  <1>4. \/ x.meta = l.meta /\ x.qspi = l.qspi
        \/ l.ws = "idle" /\ l.qspi = "none" /\ (o.fault = FALSE => x.qspi = x.meta.op)
    BY <1>2
  <1>5. /\ Sized(x) /\ Lined(x) /\ Owing(x) /\ Retained(x) /\ Continues(l, x)
        /\ Lead(x) = Lead(l)
        /\ Disturbances(x) = 0 => Disturbances(l) = 0 /\ l.faults = x.faults
    <2>1. x.ws # "idle" => x.meta.save = "idle" /\ x.meta.op = "none"
      BY <1>1, <1>4 DEF Alike
    <2>2. x.meta.op # "none" => x.meta.save # "idle"
      BY <1>2
    <2> QED
      BY <1>1, <2>1, <2>2, AlikeFacts DEF Base
  <1>6. Disturbances(x) = 0 => Laid(x)
    <2> SUFFICES ASSUME Disturbances(x) = 0
                 PROVE  Laid(x)
      OBVIOUS
    <2>1. Laid(l) /\ o.fault = FALSE
      BY <1>5 DEF Base
    <2>2. CASE x.meta = l.meta /\ x.qspi = l.qspi
      <3>1. (Erasing(x) <=> Erasing(l)) /\ Blanked(x) = Blanked(l)
        BY <1>5, <2>2 DEF Erasing, Blanked
      <3> QED
        <4>1. /\ x.ring = l.ring /\ x.addr = l.addr /\ x.written = l.written
              /\ x.chunk = l.chunk /\ x.ws = l.ws
              /\ (Split(x) <=> Split(l)) /\ FirstLen(x) = FirstLen(l)
          BY DEF Alike, Split, FirstLen
        <4> QED
          BY <1>5, <2>1, <2>2, <3>1, <4>1 DEF Laid
    <2>3. CASE l.ws = "idle" /\ l.qspi = "none" /\ x.qspi = x.meta.op
      <3>1. ~Erasing(x) /\ ~Erasing(l) /\ Blanked(x) = Blanked(l)
        BY <1>5, <2>3 DEF Erasing, Blanked
      <3> QED
        BY <1>5, <2>1, <2>3, <3>1 DEF Laid, Alike
    <2> QED
      BY <1>4, <2>1, <2>2, <2>3
  <1> QED
    BY <1>5, <1>6 DEF Base

(* The ring after an operation of its own has ended well.                    *)
LEMMA EraseLands ==
    ASSUME NEW l, Base(l), Laid(l), l.ws = "idle", Erasing(l), NEW ring \in Landed(l, "done"),
           NEW x \in Logs, x.ring = ring, x.qspi = "none", x.meta = l.meta,
           x.addr = l.addr, x.erase = l.erase, x.written = l.written, x.ws = l.ws
    PROVE  Laid(x)
  <1>1. l \in Logs /\ Lead(l) >= Sector /\ Lead(l) \in 0..Ring - 1 /\ Lead(x) = Lead(l)
        /\ l.addr \in Cells
    BY LogTypes, LeadFacts DEF Base, Laid, Lead
  <1>2. ring = SectorFilled(l.ring, Forward(l.erase, Ring - Sector), Blank)
    BY DEF Landed, Erasing
  <1>3. \A i \in 0..Ring - 1 :
           ring[Forward(l.addr, i)] = IF i \in Lead(l) - Sector..Lead(l) - 1 THEN Blank
                                      ELSE l.ring[Forward(l.addr, i)]
    BY <1>1, <1>2, SectorErased
  <1>4. ~Erasing(x) /\ Blanked(x) = Lead(l) /\ Blanked(l) = Lead(l) - Sector
    BY <1>1 DEF Erasing, Blanked
  <1>5. \A i \in 0..Blanked(x) - 1 : x.ring[Forward(x.addr, i)] = Blank
    <2> TAKE i \in 0..Blanked(x) - 1
    <2>1. i \in 0..Ring - 1 /\ (i \in Lead(l) - Sector..Lead(l) - 1 \/ i \in 0..Blanked(l) - 1)
      BY <1>1, <1>4, Sizes
    <2>2. i \in 0..Blanked(l) - 1 => l.ring[Forward(l.addr, i)] = Blank
      BY DEF Laid
    <2> QED
      BY <1>3, <2>1, <2>2
  <1>6. \A m \in 1..Ring - Lead(x) :
           m <= Record * Len(x.written) =>
               x.ring[Forward(x.addr, Ring - m)] = CellBack(x.written, m)
    <2> TAKE m \in 1..Ring - Lead(x)
    <2>1. Ring - m \in 0..Ring - 1 /\ ~ (Ring - m \in Lead(l) - Sector..Lead(l) - 1)
      BY <1>1, Sizes
    <2>2. m <= Record * Len(l.written) =>
            l.ring[Forward(l.addr, Ring - m)] = CellBack(l.written, m)
      BY <1>1 DEF Laid
    <2> QED
      BY <1>3, <2>1, <2>2
  <1>7. \A c \in Cells : x.ring[c] # Mixed
    <2> TAKE c \in Cells
    <2>1. PICK i \in 0..Ring - 1 : Forward(l.addr, i) = c
      BY <1>1, ForwardOnce
    <2>2. l.ring[c] # Mixed /\ Blank # Mixed
      BY DEF Laid, Blank, Mixed
    <2> QED
      BY <1>3, <2>1, <2>2
  <1>8. /\ x.ws = "idle" /\ x.qspi = "none" /\ x.meta.op = "none"
        /\ Lead(x) < (PreErase + 1) * Sector
    BY <1>1 DEF Laid, Erasing
  <1> QED
    BY <1>4, <1>5, <1>6, <1>7, <1>8 DEF Laid

\* How far the chunk is in flash when the write in flight has ended.
PartEnd(l) == IF l.ws = "second" THEN Record * Len(l.chunk) ELSE FirstLen(l)

\* The ring when a part of a chunk has been programmed.
LEMMA WriteLands ==
    ASSUME NEW l, Base(l), Laid(l), l.ws # "idle", l.meta.op = "none",
           NEW ring \in Landed(l, "done")
    PROVE  /\ Record * Len(l.chunk) \in Nat /\ Lead(l) \in 0..Ring - 1
           /\ Record * Len(l.chunk) <= Lead(l) /\ PartEnd(l) \in 0..Record * Len(l.chunk)
           /\ ~(l.ws = "first" /\ Split(l)) => PartEnd(l) = Record * Len(l.chunk)
           /\ \A c \in Cells : ring[c] # Mixed
           /\ \A i \in 0..PartEnd(l) - 1 : ring[Forward(l.addr, i)] = CellsOf(l.chunk)[i + 1]
           /\ \A i \in PartEnd(l)..Lead(l) - 1 : ring[Forward(l.addr, i)] = Blank
           /\ \A m \in 1..Ring - Lead(l) :
                m <= Record * Len(l.written) =>
                    ring[Forward(l.addr, Ring - m)] = CellBack(l.written, m)
  <1>1. /\ l \in Logs /\ l.addr \in Cells /\ Lead(l) \in 0..Ring - 1 /\ l.qspi = "write"
        /\ l.ws \in {"first", "second"} /\ l.chunk \in Seq(Numbers)
    BY LogTypes, LeadFacts DEF Base, Laid
  <1> DEFINE w == Record * Len(l.chunk)
             first == IF l.ws = "second" THEN FirstLen(l) ELSE 0
             end == PartEnd(l)
             d == Lead(l)
  <1>2. ring = Programmed(l.ring, PartAt(l), Part(l))
    BY <1>1 DEF Landed
  <1>3. w \in Nat /\ w <= d /\ d \in 0..Ring - 1 /\ w <= Ring
    <2>1. w \in Nat /\ w <= d
      BY <1>1, PartFacts DEF Laid
    <2> HIDE DEF w, d
    <2>2. d \in 0..Ring - 1
      BY <1>1 DEF d
    <2> QED
      BY <2>1, <2>2, Sizes
  <1>4. /\ FirstLen(l) \in 0..Ring /\ FirstLen(l) <= w
        /\ (l.ws = "second" => Split(l)) /\ (~Split(l) => FirstLen(l) = w)
    BY <1>1, <1>3, PartFacts DEF Laid
  <1> HIDE DEF w, d
  <1>5. /\ end \in 0..w /\ first \in 0..end
        /\ (~(l.ws = "first" /\ Split(l)) => end = w)
    <2>1. end = (IF l.ws = "second" THEN w ELSE FirstLen(l)) /\ FirstLen(l) \in Nat
      BY <1>4, Sizes DEF PartEnd, w
    <2> QED
      BY <1>1, <1>3, <1>4, <2>1
  <1>6. \A i \in first..d - 1 : l.ring[Forward(l.addr, i)] = Blank
    <2>1. Blanked(l) = d
      BY <1>1 DEF Blanked, Erasing, d
    <2> QED
      BY <2>1 DEF Laid
  <1>7. \A i \in first..end - 1 : l.ring[Forward(l.addr, i)] = Blank
    <2> TAKE i \in first..end - 1
    <2>1. i \in first..d - 1
      BY <1>3, <1>5
    <2> QED
      BY <1>6, <2>1
  <1>8. \A i \in 0..Ring - 1 :
          ring[Forward(l.addr, i)] = IF i \in first..end - 1 THEN CellsOf(l.chunk)[i + 1]
                                     ELSE l.ring[Forward(l.addr, i)]
    <2>1. end = IF l.ws = "second" THEN w ELSE FirstLen(l)
      BY DEF PartEnd, w
    <2> HIDE DEF first, end
    <2>2. first = IF l.ws = "second" THEN FirstLen(l) ELSE 0
      BY DEF first
    <2> QED
      BY <1>1, <1>2, <1>3, <1>4, <1>7, <2>1, <2>2, PartWritten DEF w
  <1>9. \A i \in 0..first - 1 : l.ring[Forward(l.addr, i)] = CellsOf(l.chunk)[i + 1]
    BY DEF Laid
  <1> HIDE DEF first, end
  <1>10. \A i \in 0..end - 1 : ring[Forward(l.addr, i)] = CellsOf(l.chunk)[i + 1]
    <2> TAKE i \in 0..end - 1
    <2>1. i \in 0..Ring - 1 /\ (i \in first..end - 1 \/ i \in 0..first - 1)
      BY <1>3, <1>5, Sizes
    <2>2. CASE i \in first..end - 1
      BY <1>8, <2>1, <2>2
    <2>3. CASE i \in 0..first - 1
      <3>1. ~ (i \in first..end - 1)
        BY <1>5, <2>3
      <3> QED
        BY <1>8, <1>9, <2>1, <2>3, <3>1
    <2> QED
      BY <2>1, <2>2, <2>3
  <1>11. \A i \in end..d - 1 : ring[Forward(l.addr, i)] = Blank
    <2> TAKE i \in end..d - 1
    <2>1. i \in 0..Ring - 1 /\ i \in first..d - 1 /\ ~ (i \in first..end - 1)
      BY <1>3, <1>5, Sizes
    <2> QED
      BY <1>6, <1>8, <2>1
  <1>12. \A m \in 1..Ring - d :
           m <= Record * Len(l.written) =>
               ring[Forward(l.addr, Ring - m)] = CellBack(l.written, m)
    <2> TAKE m \in 1..Ring - d
    <2>1. Ring - m \in 0..Ring - 1 /\ ~ (Ring - m \in first..end - 1)
      BY <1>3, <1>5, Sizes
    <2>2. m <= Record * Len(l.written) =>
            l.ring[Forward(l.addr, Ring - m)] = CellBack(l.written, m)
      BY DEF Laid, d
    <2> QED
      BY <1>8, <2>1, <2>2
  <1>13. \A c \in Cells : ring[c] # Mixed
    <2> TAKE c \in Cells
    <2>1. PICK i \in 0..Ring - 1 : Forward(l.addr, i) = c
      BY <1>1, ForwardOnce
    <2>2. l.ring[c] # Mixed
      BY DEF Laid
    <2>3. i \in first..end - 1 => CellsOf(l.chunk)[i + 1] # Mixed
      <3> SUFFICES ASSUME i \in first..end - 1
                   PROVE  CellsOf(l.chunk)[i + 1] # Mixed
        OBVIOUS
      <3>1. i + 1 \in 1..w
        BY <1>3, <1>5
      <3>2. CellsOf(l.chunk) \in Seq(Numbers) /\ Len(CellsOf(l.chunk)) = w
        BY <1>1, CellsFacts DEF w
      <3>3. CellsOf(l.chunk)[i + 1] \in Numbers
        BY <3>1, <3>2, ElementOfSeq
      <3> QED
        BY <3>3, BoundsAssumption DEF Numbers, Mixed
    <2> QED
      BY <1>8, <2>1, <2>2, <2>3
  <1> QED
    BY <1>3, <1>5, <1>10, <1>11, <1>12, <1>13 DEF w, d, end

-----------------------------------------------------------------------------
(* The tick of the writer.                                                   *)

\* The tick with none of the metadata's operations in flight.
LEMMA OtherAfter ==
    ASSUME NEW l, Base(l), l.meta.op = "none", NEW op \in Operations,
           NEW polled \in Polled(op), polled.qspi = l.qspi, NEW blocked \in BOOLEAN,
           NEW o, l.ws = "idle" => o \in MetaTick(l.meta, l.slots, polled, TRUE),
           l.ws # "idle" => o = MetaOutcome(l.meta, l.slots, polled.qspi, FALSE),
           NEW faults, faults = Counted(l, o.fault),
           NEW x \in AfterMeta([l EXCEPT !.meta = o.meta, !.slots = o.slots,
                                         !.qspi = o.qspi, !.faults = faults], blocked)
    PROVE  Base(x) /\ Continues(l, x)
  <1> DEFINE y == [l EXCEPT !.meta = o.meta, !.slots = o.slots,
                            !.qspi = o.qspi, !.faults = faults]
  <1>1. /\ l \in Logs /\ l.meta \in MetaState /\ l.slots \in SlotStates /\ l.qspi \in Operations
        /\ l.faults \in Nat
    BY LogTypes DEF Base
  <1>2. o.meta \in MetaState /\ o.slots \in SlotStates /\ o.qspi \in Operations
    <2>1. CASE l.ws = "idle"
      BY <1>1, <2>1, TickTyped
    <2>2. CASE l.ws # "idle"
      BY <1>1, <2>2 DEF MetaOutcome
    <2> QED
      BY <2>1, <2>2
  <1>3. faults \in Nat /\ l.faults <= faults /\ (l.faults = faults => o.fault = FALSE)
    <2>1. faults = IF o.fault THEN l.faults + 1 ELSE l.faults
      BY DEF Counted
    <2>2. CASE l.ws = "idle"
      <3>1. o.fault \in BOOLEAN
        BY <1>1, <2>2, TickFault
      <3> QED
        BY <1>1, <2>1, <3>1
    <2>3. CASE l.ws # "idle"
      <3>1. o.fault = FALSE
        BY <2>3 DEF MetaOutcome
      <3> QED
        BY <1>1, <2>1, <3>1
    <2> QED
      BY <2>2, <2>3
  <1>4. /\ y \in Logs /\ Alike(l, y) /\ y.meta = o.meta /\ y.qspi = o.qspi /\ y.faults = faults
    BY <1>1, <1>2, <1>3 DEF Logs, Alike
  <1>5. Base(y) /\ Continues(l, y)
    <2> HIDE DEF y
    <2> QED
      BY <1>3, <1>4, MetaOther
  <1>6. Base(x) /\ Continues(y, x)
    BY <1>5, AfterMetaBase
  <1> QED
    BY <1>1, <1>4, <1>5, <1>6, ContinuesOn DEF Base

\* The tick with one of them in flight.
LEMMA OwnAfter ==
    ASSUME NEW l, Base(l), l.meta.op # "none", NEW polled \in Polled(l.qspi),
           NEW blocked \in BOOLEAN, NEW o \in MetaTick(l.meta, l.slots, polled, TRUE),
           NEW faults \in Nat, l.faults <= faults,
           NEW x \in AfterMeta([l EXCEPT !.meta = o.meta, !.slots = o.slots,
                                         !.qspi = o.qspi, !.faults = faults], blocked)
    PROVE  Base(x) /\ Continues(l, x)
  <1> DEFINE y == [l EXCEPT !.meta = o.meta, !.slots = o.slots,
                            !.qspi = o.qspi, !.faults = faults]
  <1>1. /\ l \in Logs /\ l.meta \in MetaState /\ l.slots \in SlotStates /\ l.qspi \in Operations
        /\ (l.meta.op # "none" => l.meta.save # "idle")
    BY LogTypes DEF Base, Sized
  <1>2. o.meta \in MetaState /\ o.slots \in SlotStates /\ o.qspi \in Operations
    BY <1>1, TickTyped
  <1>4. /\ y \in Logs /\ Alike(l, y) /\ y.meta = o.meta /\ y.qspi = o.qspi /\ y.faults = faults
    BY <1>1, <1>2 DEF Logs, Alike
  <1>5. Base(y) /\ Continues(l, y)
    <2> HIDE DEF y
    <2> QED
      BY <1>4, MetaOwn
  <1>6. Base(x) /\ Continues(y, x)
    BY <1>5, AfterMetaBase
  <1> QED
    BY <1>1, <1>4, <1>5, <1>6, ContinuesOn DEF Base

\* The second part of a chunk that goes over the end of the ring is begun.
LEMMA SecondBase ==
    ASSUME NEW l, Base(l), l.ws = "first", Split(l), NEW ring \in Landed(l, "done"),
           NEW s \in WriteStarted("none"), NEW x \in Logs,
           Alike([l EXCEPT !.ring = ring, !.ws = "second"], x), x.qspi = s.qspi,
           x.meta = l.meta, x.faults = Counted(l, s.fault)
    PROVE  Base(x) /\ Continues(l, x)
  <1>1. l \in Logs /\ l.meta.save = "idle" /\ l.meta.op = "none" /\ l.faults \in Nat
        /\ l.chunk # <<>>
    BY LogTypes DEF Base, Sized
  <1>2. \/ s.qspi = "write" /\ s.fault = FALSE
        \/ s.qspi = "none" /\ s.fault = TRUE
    BY DEF WriteStarted
  <1>3. l.faults <= x.faults /\ (l.faults = x.faults <=> ~s.fault)
    BY <1>1, <1>2, CountedFacts
  <1>4. /\ x.queue = l.queue /\ x.chunk = l.chunk /\ x.ws = "second" /\ x.seq = l.seq
        /\ x.next = l.next /\ x.total = l.total /\ x.written = l.written /\ x.addr = l.addr
        /\ x.erase = l.erase /\ x.cap = l.cap /\ x.ring = ring /\ x.boots = l.boots
    BY <1>1 DEF Alike, Logs
  <1>5. /\ Lead(x) = Lead(l) /\ FirstLen(x) = FirstLen(l) /\ (Split(x) <=> Split(l))
    BY <1>4 DEF Lead, Split, FirstLen
  <1>6. Sized(x) /\ Lined(x) /\ Owing(x) /\ Retained(x)
    BY <1>1, <1>4 DEF Base, Sized, Lined, Owing, Retained, Since
  <1>7. /\ Disturbances(l) <= Disturbances(x)
        /\ Disturbances(x) = 0 => Disturbances(l) = 0 /\ l.faults = x.faults
    <2>1. /\ x.faults \in Nat /\ l.boots \in Nat /\ l.boots >= 1
          /\ Disturbances(l) = l.faults + l.boots - 1
          /\ Disturbances(x) = x.faults + l.boots - 1
      BY <1>1, <1>4, LogTypes DEF Base, Sized
    <2> QED
      BY <1>1, <1>3, <2>1
  <1>8. Continues(l, x)
    BY <1>1, <1>4, <1>7, LogTypes DEF Continues
  <1>9. Disturbances(x) = 0 => Laid(x)
    <2> SUFFICES ASSUME Disturbances(x) = 0
                 PROVE  Laid(x)
      OBVIOUS
    <2>1. Laid(l) /\ x.qspi = "write"
      BY <1>2, <1>3, <1>7 DEF Base
    <2>2. PartEnd(l) = FirstLen(l)
      BY DEF PartEnd
    <2>3. /\ Record * Len(l.chunk) <= Lead(l)
          /\ \A c \in Cells : ring[c] # Mixed
          /\ \A i \in 0..FirstLen(l) - 1 : ring[Forward(l.addr, i)] = CellsOf(l.chunk)[i + 1]
          /\ \A i \in FirstLen(l)..Lead(l) - 1 : ring[Forward(l.addr, i)] = Blank
          /\ \A m \in 1..Ring - Lead(l) :
                m <= Record * Len(l.written) =>
                    ring[Forward(l.addr, Ring - m)] = CellBack(l.written, m)
      BY <1>1, <2>1, <2>2, WriteLands
    <2>4. Lead(l) < (PreErase + 1) * Sector
      BY <2>1 DEF Laid
    <2>5. ~Erasing(x) /\ Blanked(x) = Lead(l)
      BY <1>5, <2>1 DEF Erasing, Blanked
    <2> QED
      BY <1>1, <1>4, <1>5, <2>1, <2>3, <2>4, <2>5 DEF Laid
  <1> QED
    BY <1>6, <1>8, <1>9 DEF Base

\* What is left of the tick when the answer of the driver has been seen to.
Rest(l, ended, polled, blocked) ==
    UNION {AfterMeta([ended EXCEPT !.meta = o.meta, !.slots = o.slots, !.qspi = o.qspi,
                                   !.faults = Counted(l, o.fault)], blocked) :
              o \in MetaTick(ended.meta, ended.slots, polled, ended.ws = "idle")}

\* The writer's tick from log_meta_tick on.
LEMMA RestBase ==
    ASSUME NEW l, NEW e, Base(e), e.meta.op = "none", e.faults = l.faults,
           NEW op \in Operations, NEW polled \in Polled(op), polled.qspi = e.qspi,
           NEW blocked \in BOOLEAN, NEW x \in Rest(l, e, polled, blocked)
    PROVE  Base(x) /\ Continues(e, x)
  <1>1. PICK o \in MetaTick(e.meta, e.slots, polled, e.ws = "idle") :
           x \in AfterMeta([e EXCEPT !.meta = o.meta, !.slots = o.slots, !.qspi = o.qspi,
                                     !.faults = Counted(l, o.fault)], blocked)
    BY DEF Rest
  <1>2. e.ws = "idle" => o \in MetaTick(e.meta, e.slots, polled, TRUE)
    BY DEF MetaTick
  <1>3. e.ws # "idle" => o = MetaOutcome(e.meta, e.slots, polled.qspi, FALSE)
    <2>1. e.ws # "idle" => e.meta.save = "idle"
      BY DEF Base, Sized
    <2> QED
      BY <2>1 DEF MetaTick
  <1>4. Counted(l, o.fault) = Counted(e, o.fault)
    BY DEF Counted
  <1> QED
    BY <1>1, <1>2, <1>3, <1>4, OtherAfter

Ended(l, polled) ==
    CASE l.ws # "idle" /\ polled.state = "error" -> ChunkLost(l)
      [] l.ws # "idle" /\ polled.state = "done" -> ChunkDone(l)
      [] OTHER -> l

\* The cases of a writer's tick.
LEMMA WriterPolledIs ==
    ASSUME NEW l, NEW polled, NEW blocked, NEW x \in WriterPolled(l, polled, blocked)
    PROVE  /\ polled.state = "done" /\ l.ws = "first" /\ Split(l) =>
                \E s \in WriteStarted("none") :
                   x = [l EXCEPT !.ws = "second", !.qspi = s.qspi, !.faults = Counted(l, s.fault)]
           /\ polled.state = "done" /\ l.ws # "idle" /\ ~(l.ws = "first" /\ Split(l)) =>
                x \in Rest(l, ChunkDone(l), polled, blocked)
           /\ polled.state = "error" /\ l.ws # "idle" =>
                x \in Rest(l, ChunkLost(l), polled, blocked)
           /\ l.ws = "idle" \/ polled.state \notin {"done", "error"} =>
                x \in Rest(l, l, polled, blocked)
  <1>1. CASE polled.state = "done" /\ l.ws = "first" /\ Split(l)
    BY <1>1 DEF WriterPolled
  <1>2. CASE ~(polled.state = "done" /\ l.ws = "first" /\ Split(l))
    <2>1. x \in Rest(l, Ended(l, polled), polled, blocked)
      BY <1>2, Zenon DEF WriterPolled, Rest, Ended
    <2>2. /\ polled.state = "done" /\ l.ws # "idle" => Ended(l, polled) = ChunkDone(l)
          /\ polled.state = "error" /\ l.ws # "idle" => Ended(l, polled) = ChunkLost(l)
          /\ l.ws = "idle" \/ polled.state \notin {"done", "error"} => Ended(l, polled) = l
      BY DEF Ended
    <2> QED
      BY <1>2, <2>1, <2>2
  <1> QED
    BY <1>1, <1>2

\* log_writer_tick keeps what is known of a log, and a capture that is ready.
LEMMA WriterBase ==
    ASSUME NEW l, Base(l), l.cap.ready => l.cap.protected, NEW blocked \in BOOLEAN,
           NEW polled \in Polled(l.qspi), NEW x \in WriterTick(l, polled, blocked)
    PROVE  Base(x) /\ Continues(l, x)
  <1>1. PICK ring \in Landed(l, polled.state) :
           x \in WriterPolled([l EXCEPT !.ring = ring, !.qspi = polled.qspi,
                                        !.faults = Counted(l, polled.fault)], polled, blocked)
    BY DEF WriterTick
  <1> DEFINE y == [l EXCEPT !.ring = ring, !.qspi = polled.qspi,
                            !.faults = Counted(l, polled.fault)]
  <1>2. \/ /\ l.qspi = "none" /\ polled.state = "idle" /\ polled.qspi = l.qspi
           /\ polled.fault = FALSE
        \/ /\ l.qspi # "none" /\ polled.state = "busy" /\ polled.qspi = l.qspi
           /\ polled.fault = FALSE
        \/ /\ l.qspi # "none" /\ polled.state = "done" /\ polled.qspi = "none"
           /\ polled.fault = FALSE
        \/ /\ l.qspi # "none" /\ polled.state = "error" /\ polled.qspi = "none"
           /\ polled.fault = TRUE
    BY DEF Polled
  <1>3. /\ l \in Logs /\ l.faults \in Nat /\ l.qspi \in Operations /\ polled.qspi \in Operations
        /\ ring \in [Cells -> Contents]
    <2>1. /\ l \in Logs /\ l.faults \in Nat /\ l.qspi \in Operations
      BY LogTypes DEF Base
    <2> QED
      BY <1>2, <2>1, LandedTyped DEF Operations
  <1>4. /\ Counted(l, polled.fault) \in Nat /\ l.faults <= Counted(l, polled.fault)
        /\ Counted(l, polled.fault) = l.faults <=> polled.fault = FALSE
    <2>1. polled.fault \in BOOLEAN
      BY <1>2
    <2> QED
      BY <1>3, <2>1, CountedFacts
  <1>5. /\ y \in Logs
        /\ y.queue = l.queue /\ y.chunk = l.chunk /\ y.ws = l.ws /\ y.seq = l.seq
        /\ y.next = l.next /\ y.total = l.total /\ y.written = l.written /\ y.addr = l.addr
        /\ y.erase = l.erase /\ y.cap = l.cap /\ y.ring = ring /\ y.boots = l.boots
        /\ y.meta = l.meta /\ y.slots = l.slots /\ y.qspi = polled.qspi
        /\ y.faults = Counted(l, polled.fault)
    BY <1>3, <1>4 DEF Logs
  <1>6. x \in WriterPolled(y, polled, blocked)
    BY <1>1
  <1> HIDE DEF y
  <1>7. Sized(y) /\ Lined(y) /\ Owing(y) /\ Retained(y)
    BY <1>5 DEF Base, Sized, Lined, Owing, Retained, Since
  <1>8. /\ Disturbances(l) <= Disturbances(y) /\ Disturbances(l) \in Nat
        /\ Disturbances(y) = 0 => Disturbances(l) = 0 /\ polled.fault = FALSE
        /\ polled.fault = FALSE => y.faults = l.faults /\ Disturbances(y) = Disturbances(l)
    <2>1. /\ l.boots \in Nat /\ l.boots >= 1 /\ y.faults \in Nat /\ l.faults <= y.faults
          /\ Disturbances(l) = l.faults + l.boots - 1
          /\ Disturbances(y) = y.faults + l.boots - 1
      BY <1>3, <1>4, <1>5, LogTypes DEF Base, Sized
    <2> QED
      BY <1>3, <1>4, <1>5, <2>1
  <1>9. Continues(l, y)
    BY <1>3, <1>5, <1>8, LogTypes DEF Continues
  <1>10. ASSUME NEW e, Base(e), Continues(y, e), e.meta.op = "none", e.faults = y.faults,
                e.qspi = polled.qspi, x \in Rest(y, e, polled, blocked)
         PROVE  Base(x) /\ Continues(l, x)
    <2>1. Base(x) /\ Continues(e, x)
      BY <1>3, <1>10, RestBase
    <2>2. e \in Logs /\ x \in Logs
      BY <1>10, <2>1 DEF Base
    <2>3. Continues(l, e)
      BY <1>3, <1>5, <1>9, <1>10, <2>2, ContinuesOn
    <2> QED
      BY <1>3, <2>1, <2>2, <2>3, ContinuesOn
  <1>11. CASE l.meta.op # "none"
    <2>1. l.ws = "idle" /\ ring = l.ring
      BY <1>11 DEF Base, Sized, Landed
    <2>2. x \in Rest(y, y, polled, blocked)
      BY <1>5, <1>6, <2>1, WriterPolledIs
    <2>3. PICK o \in MetaTick(y.meta, y.slots, polled, y.ws = "idle") :
             x \in AfterMeta([y EXCEPT !.meta = o.meta, !.slots = o.slots, !.qspi = o.qspi,
                                       !.faults = Counted(y, o.fault)], blocked)
      BY <2>2 DEF Rest
    <2>4. o \in MetaTick(l.meta, l.slots, polled, TRUE)
      BY <1>5, <2>1 DEF MetaTick
    <2> DEFINE faults == Counted(y, o.fault)
    <2>5. faults \in Nat /\ l.faults <= faults
      <3>1. o.fault \in BOOLEAN /\ y.faults \in Nat /\ l.faults <= y.faults
        BY <1>3, <1>4, <1>5, <2>4, LogTypes, TickFault
      <3> QED
        BY <1>3, <3>1 DEF Counted
    <2> HIDE DEF faults
    <2>6. [y EXCEPT !.meta = o.meta, !.slots = o.slots, !.qspi = o.qspi, !.faults = faults]
             = [l EXCEPT !.meta = o.meta, !.slots = o.slots, !.qspi = o.qspi, !.faults = faults]
      BY <1>3, <2>1 DEF Logs, y
    <2>7. x \in AfterMeta([l EXCEPT !.meta = o.meta, !.slots = o.slots, !.qspi = o.qspi,
                                    !.faults = faults], blocked)
      BY <2>3, <2>6 DEF faults
    <2> QED
      BY <1>11, <2>4, <2>5, <2>7, OwnAfter
  <1>12. CASE l.meta.op = "none" /\ polled.state \in {"idle", "busy"}
    <2>1. ring = l.ring
      BY <1>12 DEF Landed
    <2>2. y = l
      <3>1. polled.qspi = l.qspi /\ Counted(l, polled.fault) = l.faults
        BY <1>2, <1>4, <1>12
      <3>2. y = [l EXCEPT !.ring = l.ring, !.qspi = l.qspi, !.faults = l.faults]
        BY <2>1, <3>1 DEF y
      <3> QED
        BY <1>3, <3>2 DEF Logs
    <2>3. x \in Rest(y, y, polled, blocked)
      BY <1>6, <1>12, WriterPolledIs
    <2> QED
      BY <1>5, <1>9, <1>10, <1>12, <2>2, <2>3
  <1>13. CASE l.meta.op = "none" /\ polled.state = "error"
    <2>1. Disturbances(y) # 0
      BY <1>2, <1>8, <1>13
    <2>2. CASE l.ws # "idle"
      <3>1. x \in Rest(y, ChunkLost(y), polled, blocked)
        BY <1>5, <1>6, <1>13, <2>2, WriterPolledIs
      <3>2. /\ Base(ChunkLost(y)) /\ Continues(y, ChunkLost(y)) /\ ChunkLost(y).meta = y.meta
            /\ ChunkLost(y).qspi = y.qspi
        BY <1>5, <1>7, <2>1, ChunkLostBase
      <3>3. ChunkLost(y).faults = y.faults
        BY <1>5 DEF ChunkLost, Logs
      <3> QED
        BY <1>5, <1>10, <1>13, <3>1, <3>2, <3>3
    <2>3. CASE l.ws = "idle"
      <3>1. x \in Rest(y, y, polled, blocked)
        BY <1>5, <1>6, <2>3, WriterPolledIs
      <3>2. Base(y) /\ Continues(y, y)
        BY <1>5, <1>7, <2>1, LogTypes DEF Base, Continues
      <3> QED
        BY <1>5, <1>10, <1>13, <3>1, <3>2
    <2> QED
      BY <2>2, <2>3
  <1>14. CASE l.meta.op = "none" /\ polled.state = "done" /\ l.ws = "idle"
    <2>1. x \in Rest(y, y, polled, blocked)
      BY <1>5, <1>6, <1>14, WriterPolledIs
    <2>2. Disturbances(y) = 0 => Laid(y)
      <3> SUFFICES ASSUME Disturbances(y) = 0 PROVE Laid(y)
        OBVIOUS
      <3>1. Laid(l) /\ l.qspi # "none" /\ polled.qspi = "none"
        BY <1>2, <1>8, <1>14 DEF Base
      <3>2. Erasing(l)
        BY <1>3, <1>14, <3>1 DEF Laid, Erasing, Operations
      <3> QED
        BY <1>5, <1>14, <3>1, <3>2, EraseLands
    <2>3. Base(y) /\ Continues(y, y)
      BY <1>5, <1>7, <2>2, LogTypes DEF Base, Continues
    <2> QED
      BY <1>5, <1>10, <1>14, <2>1, <2>3
  <1>15. CASE /\ l.meta.op = "none" /\ polled.state = "done"
              /\ l.ws = "first" /\ Split(l)
    <2>1. Split(y)
      BY <1>5, <1>15 DEF Split, FirstLen
    <2>2. PICK s \in WriteStarted("none") :
             x = [y EXCEPT !.ws = "second", !.qspi = s.qspi, !.faults = Counted(y, s.fault)]
      <3>1. polled.state = "done" /\ y.ws = "first" /\ Split(y)
        BY <1>5, <1>15, <2>1
      <3> QED
        BY <1>6, <3>1 DEF WriterPolled
    <2>3. /\ s.qspi \in Operations
          /\ Counted(y, s.fault) = Counted(l, s.fault) /\ Counted(l, s.fault) \in Nat
      <3>1. \/ s.qspi = "write" /\ s.fault = FALSE
            \/ s.qspi = "none" /\ s.fault = TRUE
        BY DEF WriteStarted
      <3>2. y.faults = l.faults
        BY <1>2, <1>8, <1>15
      <3> QED
        BY <1>3, <3>1, <3>2 DEF Counted, Operations
    <2>4. /\ x \in Logs /\ Alike([l EXCEPT !.ring = ring, !.ws = "second"], x)
          /\ x.qspi = s.qspi /\ x.meta = l.meta /\ x.faults = Counted(l, s.fault)
      BY <1>3, <1>5, <2>2, <2>3 DEF Logs, Alike
    <2> QED
      BY <1>15, <2>4, SecondBase
  <1>16. CASE /\ l.meta.op = "none" /\ polled.state = "done" /\ l.ws # "idle"
              /\ ~(l.ws = "first" /\ Split(l))
    <2>1. Split(y) <=> Split(l)
      BY <1>5 DEF Split, FirstLen
    <2>2. x \in Rest(y, ChunkDone(y), polled, blocked)
      BY <1>5, <1>6, <1>16, <2>1, WriterPolledIs
    <2>3. Disturbances(y) = 0 => Landing(y)
      <3> SUFFICES ASSUME Disturbances(y) = 0 PROVE Landing(y)
        OBVIOUS
      <3>1. Laid(l) /\ polled.qspi = "none" /\ Lead(y) = Lead(l)
        BY <1>2, <1>5, <1>8, <1>16 DEF Base, Lead
      <3>2. Lead(l) < (PreErase + 1) * Sector
        BY <3>1 DEF Laid
      <3>3. /\ Record * Len(l.chunk) <= Lead(l) /\ PartEnd(l) = Record * Len(l.chunk)
            /\ \A c \in Cells : ring[c] # Mixed
            /\ \A i \in 0..PartEnd(l) - 1 : ring[Forward(l.addr, i)] = CellsOf(l.chunk)[i + 1]
            /\ \A i \in PartEnd(l)..Lead(l) - 1 : ring[Forward(l.addr, i)] = Blank
            /\ \A m \in 1..Ring - Lead(l) :
                 m <= Record * Len(l.written) =>
                     ring[Forward(l.addr, Ring - m)] = CellBack(l.written, m)
        BY <1>16, <3>1, WriteLands
      <3> QED
        BY <1>5, <1>16, <3>1, <3>2, <3>3 DEF Landing
    <2>4. /\ Base(ChunkDone(y)) /\ Continues(y, ChunkDone(y)) /\ ChunkDone(y).meta = y.meta
          /\ ChunkDone(y).qspi = y.qspi
      BY <1>5, <1>7, <1>16, <2>3, ChunkDoneBase
    <2>5. ChunkDone(y).faults = y.faults
      BY <1>5 DEF ChunkDone, Logs
    <2> QED
      BY <1>5, <1>10, <1>16, <2>2, <2>4, <2>5
  <1> QED
    BY <1>2, <1>11, <1>12, <1>13, <1>14, <1>15, <1>16

-----------------------------------------------------------------------------
(* The dump.                                                                 *)

Held(l, d) ==
    /\ Base(l) /\ d \in Dumps /\ Advanced(l, d)
    /\ Disturbances(l) = 0 => Exported(l, d)

\* Between the tick of the writer and that of the dump: a capture may have
\* become ready.
Between(l, d) ==
    /\ Base(l) /\ d \in Dumps /\ Progress(l, d)
    /\ l.cap.active <=> d.state # "idle"
    /\ Exporting(d) => l.cap.ready /\ l.cap.protected
    /\ ~Exporting(d) => ~l.cap.protected
    /\ Disturbances(l) = 0 => Exported(l, d)

\* The fields of a dump.
LEMMA DumpTypes ==
    ASSUME NEW d \in Dumps
    PROVE  /\ d.state \in {"idle", "flushing", "captured", "opening", "meta", "reading",
                           "writing", "finalizing", "done"}
           /\ d.window \in Nat /\ d.count \in Nat /\ d.at \in Cells /\ d.left \in Nat
           /\ d.buffer \in Seq(Contents) /\ d.file \in Seq(Contents)
           /\ Len(d.buffer) \in Nat /\ Len(d.file) \in Nat
  <1>1. d.buffer \in Seq(Contents) /\ d.file \in Seq(Contents)
    BY DEF Dumps
  <1> QED
    BY <1>1 DEF Dumps

\* What is before the capture does not change.
LEMMA PrefixKept ==
    ASSUME NEW r \in Seq(Numbers), NEW s \in Seq(Numbers), Len(r) <= Len(s),
           \A i \in DOMAIN r : s[i] = r[i], NEW n \in Nat, n <= Len(r)
    PROVE  SubSeq(s, 1, n) = SubSeq(r, 1, n)
  <1>1. Len(r) \in Nat /\ Len(s) \in Nat /\ DOMAIN r = 1..Len(r)
    OBVIOUS
  <1>2. \A i \in 1..n : s[i] = r[i]
    BY <1>1
  <1>3. /\ SubSeq(s, 1, n) \in Seq(Numbers) /\ SubSeq(r, 1, n) \in Seq(Numbers)
        /\ Len(SubSeq(s, 1, n)) = n /\ Len(SubSeq(r, 1, n)) = n
        /\ \A i \in 1..n : SubSeq(s, 1, n)[i] = s[i] /\ SubSeq(r, 1, n)[i] = r[i]
    BY <1>1
  <1> QED
    BY <1>2, <1>3, SeqEqual

\* The records overrun do not get fewer.
LEMMA OverGrows ==
    ASSUME NEW l \in Logs, NEW x \in Logs, l.total <= x.total,
           x.cap.available = l.cap.available, x.cap.allowed = l.cap.allowed
    PROVE  Over(l) \in Nat /\ Over(x) \in Nat /\ Record * Over(l) <= Record * Over(x)
  <1>1. /\ l.total \in Nat /\ x.total \in Nat
        /\ l.cap.available \in Nat /\ l.cap.allowed \in Nat
    <2>1. l.total \in Nat /\ x.total \in Nat /\ l.cap \in Captures
      BY LogTypes
    <2> QED
      BY <2>1, CaptureTypes
  <1> DEFINE a == l.total - l.cap.available
             b == x.total - l.cap.available
             m == l.cap.allowed
  <1>2. a \in Int /\ b \in Int /\ a <= b /\ m \in Nat
    BY <1>1
  <1>3. /\ Over(l) = IF a > m THEN a - m ELSE 0
        /\ Over(x) = IF b > m THEN b - m ELSE 0
    BY DEF Over, Since
  <1> HIDE DEF a, b, m
  <1>4. Over(l) \in Nat /\ Over(x) \in Nat /\ Over(l) <= Over(x)
    BY <1>2, <1>3
  <1> QED
    BY <1>4, Products

\* From a tick of the writer to the tick of the dump.
LEMMA ToBetween ==
    ASSUME NEW l, NEW d, Held(l, d), NEW x, Base(x), Continues(l, x)
    PROVE  Between(x, d)
  <1>1. l \in Logs /\ x \in Logs /\ d \in Dumps /\ Base(l) /\ Advanced(l, d)
    BY DEF Held, Base
  <1>2. /\ x.cap.active = l.cap.active /\ x.cap.protected = l.cap.protected
        /\ x.cap.allowed = l.cap.allowed
        /\ l.cap.ready => /\ x.cap.ready /\ x.cap.available = l.cap.available
                          /\ x.cap.endAddr = l.cap.endAddr
        /\ Len(l.written) <= Len(x.written)
        /\ \A i \in DOMAIN l.written : x.written[i] = l.written[i]
        /\ Disturbances(l) <= Disturbances(x)
    BY DEF Continues
  <1>3. ~l.cap.ready => ~l.cap.protected
    BY <1>1 DEF Base, Owing
  <1>4. Progress(x, d)
    BY <1>1, <1>2 DEF Advanced, Progress
  <1>5. ASSUME Disturbances(x) = 0
        PROVE  Exported(x, d)
    <2> SUFFICES ASSUME Exporting(d), Fits(d)
                 PROVE  Exported(x, d)
      BY DEF Exported
    <2>1. l.cap.ready /\ x.cap.available = l.cap.available /\ x.cap.endAddr = l.cap.endAddr
      BY <1>1, <1>2 DEF Advanced
    <2>2. Disturbances(l) = 0
      <3>1. Disturbances(l) \in Nat
        <4>1. l.faults \in Nat /\ l.boots \in Nat /\ l.boots >= 1
              /\ Disturbances(l) = l.faults + l.boots - 1
          BY <1>1, LogTypes DEF Base, Sized
        <4> QED
          BY <4>1
      <3> QED
        BY <1>2, <1>5, <3>1
    <2>3. /\ d.at = Forward(l.cap.endAddr, Ring - d.left)
          /\ \A i \in 1..Len(d.file) + Len(d.buffer) :
               \/ (d.file \o d.buffer)[i] = Dumped(l, d, i)
               \/ i <= Sector + Record * Over(l) /\ (d.file \o d.buffer)[i] = Blank
      BY <2>2 DEF Held, Exported
    <2>4. /\ l.written \in Seq(Numbers) /\ x.written \in Seq(Numbers)
          /\ l.cap.available \in Nat /\ l.cap.available <= Len(l.written)
          /\ l.total <= x.total
      <3>1. /\ l.written \in Seq(Numbers) /\ x.written \in Seq(Numbers)
            /\ l.cap \in Captures
        BY <1>1, LogTypes
      <3>2. /\ l.cap.available <= l.total /\ l.total = Len(l.written)
            /\ x.total = Len(x.written)
        BY <1>1 DEF Base, Sized
      <3> QED
        BY <1>2, <3>1, <3>2, CaptureTypes
    <2>5. SubSeq(x.written, 1, x.cap.available) = SubSeq(l.written, 1, l.cap.available)
      BY <1>2, <2>1, <2>4, PrefixKept
    <2>6. \A i : Dumped(x, d, i) = Dumped(l, d, i)
      BY <2>5 DEF Dumped
    <2>7. Over(l) \in Nat /\ Over(x) \in Nat /\ Record * Over(l) <= Record * Over(x)
      BY <1>1, <1>2, <2>1, <2>4, OverGrows
    <2>8. Sector + Record * Over(l) <= Sector + Record * Over(x)
          /\ Sector + Record * Over(l) \in Nat /\ Sector + Record * Over(x) \in Nat
      BY <2>7, Products, Sizes
    <2>9. ASSUME NEW i \in 1..Len(d.file) + Len(d.buffer)
          PROVE  \/ (d.file \o d.buffer)[i] = Dumped(x, d, i)
                 \/ i <= Sector + Record * Over(x) /\ (d.file \o d.buffer)[i] = Blank
      <3>1. i \in Int
        BY <1>1, DumpTypes
      <3>2. i <= Sector + Record * Over(l) => i <= Sector + Record * Over(x)
        BY <2>8, <3>1
      <3> QED
        BY <2>3, <2>6, <3>2
    <2> QED
      BY <2>1, <2>3, <2>9 DEF Exported
  <1> QED
    BY <1>1, <1>2, <1>3, <1>4, <1>5 DEF Between, Advanced

-----------------------------------------------------------------------------
(* A tick of the dump.                                                       *)

\* The retention that log_capture_protect computes: the dump's records and those
\* allowed fit into the ring, but for the sectors erased ahead.
LEMMA AllowedFacts ==
    ASSUME NEW n \in 1..Capacity
    PROVE  /\ Allowed(n) \in 0..Capacity /\ Record * n \in Nat /\ Record * n <= Ring
           /\ \A s \in Nat : s <= Allowed(n) => Record * n + Record * s <= Ring
           /\ Record * n + PreErase * Sector <= Ring =>
                \A s, o \in Nat : s <= Allowed(n) + o =>
                    Record * n + Record * s + PreErase * Sector <= Ring + Record * o
  <1> DEFINE c == Capacity
             p == PreErase * Sector
             e == PreEraseRecords
             a == Allowed(n)
  <1>1. c \in Nat /\ Record * c <= Ring /\ Record * c \in Nat
    BY CapacityFacts, Products
  <1>2. p \in Nat /\ Ring \in Nat
    BY Sizes
  <1>3. e \in Nat /\ p <= Record * e
    <2> DEFINE x == p + Record - 1
    <2>1. x \in Nat /\ p <= x /\ Record \in Nat /\ Record >= 1 /\ x = p + Record - 1
      BY <1>2, Sizes
    <2>2. e = x \div Record
      BY DEF PreEraseRecords
    <2> HIDE DEF x, p, e
    <2>3. e \in Int /\ Record * e <= x /\ x < Record * e + Record
      BY <2>1, <2>2, Quotient
    <2>4. Record * e \in Int /\ p \in Nat
      BY <1>2, <2>3, Products DEF p
    <2>5. p <= Record * e
      BY <2>1, <2>3, <2>4
    <2>6. e >= 0
      <3> SUFFICES ASSUME e <= -1 PROVE FALSE
        BY <2>3
      <3>1. Record * e <= Record * (-1) /\ Record * (-1) = -Record
        BY <2>1, <2>3, Products
      <3> QED
        BY <2>1, <2>4, <2>5, <3>1
    <2> QED
      BY <2>3, <2>5, <2>6
  <1>4. a = IF n + e >= c THEN 0 ELSE c - n - e
    BY DEF Allowed
  <1>5. n \in Nat /\ n <= c /\ n \in Int
    BY <1>1
  <1> HIDE DEF c, p, e, a
  <1>6. a \in Nat /\ a <= c /\ (a = 0 \/ n + a + e = c)
    BY <1>1, <1>3, <1>4, <1>5
  <1>7. Record * n \in Nat /\ Record * n <= Ring
    <2>1. Record * n <= Record * c /\ Record * n \in Nat
      BY <1>1, <1>5, Products
    <2> QED
      BY <1>1, <1>2, <2>1
  <1>8. \A x, y \in Nat : Record * (x + y) = Record * x + Record * y /\ Record * x \in Nat
    <2> TAKE x, y \in Nat
    <2>1. x \in Int /\ y \in Int
      OBVIOUS
    <2> QED
      BY <2>1, Products
  <1>9. ASSUME NEW s \in Nat, s <= a
        PROVE  Record * n + Record * s <= Ring
    <2>1. CASE s = 0
      <3>1. Record * s = 0
        BY <2>1, Sizes
      <3> QED
        BY <1>2, <1>7, <3>1
    <2>2. CASE s > 0
      <3>1. n + s \in Nat /\ n + s <= c
        BY <1>1, <1>3, <1>5, <1>6, <1>9, <2>2
      <3>2. Record * (n + s) <= Record * c
        BY <1>1, <3>1, Products
      <3>3. Record * (n + s) = Record * n + Record * s /\ Record * s \in Nat
        BY <1>5, <1>8
      <3> QED
        BY <1>1, <1>2, <1>7, <3>2, <3>3
    <2> QED
      BY <2>1, <2>2
  <1>10. ASSUME Record * n + p <= Ring, NEW s \in Nat, NEW o \in Nat, s <= a + o
         PROVE  Record * n + Record * s + p <= Ring + Record * o
    <2>1. Record * s \in Nat /\ Record * o \in Nat /\ Record * e \in Nat
      BY <1>3, <1>8
    <2>2. CASE a = 0
      <3>1. s <= o
        BY <1>10, <2>2
      <3>2. Record * s <= Record * o
        BY <3>1, Products
      <3> QED
        BY <1>2, <1>7, <1>10, <2>1, <3>2
    <2>3. CASE n + a + e = c
      <3>1. n + s \in Nat /\ c + o \in Nat /\ (n + s) + e <= c + o
        BY <1>1, <1>3, <1>5, <1>6, <1>10, <2>3
      <3>0. (n + s) + e \in Int /\ c + o \in Int
        BY <1>3, <3>1
      <3>2. Record * ((n + s) + e) <= Record * (c + o)
        BY <3>0, <3>1, Products
      <3>3. /\ Record * ((n + s) + e) = Record * (n + s) + Record * e
            /\ Record * (n + s) = Record * n + Record * s
            /\ Record * (c + o) = Record * c + Record * o
        BY <1>1, <1>3, <1>5, <1>8, <3>1
      <3> QED
        BY <1>1, <1>2, <1>3, <1>7, <2>1, <3>2, <3>3
    <2> QED
      BY <1>6, <2>2, <2>3
  <1> QED
    BY <1>6, <1>7, <1>9, <1>10 DEF a, c, p

\* A cell read for a dump holds its record, or was erased ahead of the writer.
LEMMA ReadCell ==
    ASSUME NEW l, NEW d, Between(l, d), Disturbances(l) = 0, Exporting(d), Fits(d),
           l.qspi = "none", NEW p \in 1..Record * d.count
    PROVE  \/ l.ring[Forward(l.cap.endAddr, Ring - p)] = Dumped(l, d, Record * d.count - p + 1)
           \/ /\ Record * d.count - p + 1 <= Sector + Record * Over(l)
              /\ l.ring[Forward(l.cap.endAddr, Ring - p)] = Blank
  <1> DEFINE s == Since(l)
             n == d.count
             v == l.cap.available
             w == Record * n
             m == p + Record * s
             e == PreErase * Sector
             k == Lead(l)
             a == l.cap.allowed
             q == (p - 1) \div Record
  <1>1. /\ l \in Logs /\ Base(l) /\ Laid(l) /\ d \in Dumps
        /\ l.cap.ready /\ l.cap.protected
        /\ n >= 1 /\ n <= Capacity /\ n <= v /\ a = Allowed(n)
        /\ w + e <= Ring
    BY DEF Between, Base, Progress, Fits
  <1>2. /\ n \in Nat /\ v \in Nat /\ l.total \in Nat /\ l.cap.endAddr \in Cells /\ a \in Nat
        /\ l.written \in Seq(Numbers) /\ l.addr \in Cells /\ l.erase \in Cells
        /\ l.total = Len(l.written) /\ v <= l.total /\ Len(l.chunk) \in Nat
    <2>1. /\ l.cap \in Captures /\ l.written \in Seq(Numbers) /\ l.addr \in Cells
          /\ l.erase \in Cells /\ l.total \in Nat /\ l.chunk \in Seq(Numbers)
      BY <1>1, LogTypes
    <2> QED
      BY <1>1, <2>1, CaptureTypes, DumpTypes DEF Base, Sized
  <1>3. /\ s \in Nat /\ s = l.total - v /\ l.total = v + s
        /\ l.addr = Forward(l.cap.endAddr, Record * s)
        /\ s <= a \/ s <= ChunkRecords
    <2>0. ChunkRecords \in Nat
      BY Sizes
    <2>1. /\ l.addr = Forward(l.cap.endAddr, Record * Since(l))
          /\ \/ Since(l) + Len(l.chunk) <= l.cap.allowed
             \/ Since(l) + Len(l.chunk) <= ChunkRecords
      BY <1>1 DEF Base, Retained
    <2>2. Since(l) = l.total - l.cap.available
      BY DEF Since
    <2>3. s \in Nat /\ s = l.total - v /\ l.total = v + s
      BY <1>2, <2>2
    <2> HIDE DEF v
    <2>4. s <= a \/ s <= ChunkRecords
      <3>1. s + Len(l.chunk) <= a \/ s + Len(l.chunk) <= ChunkRecords
        BY <2>1
      <3>2. s \in Nat /\ Len(l.chunk) \in Nat /\ a \in Nat
        BY <1>2, <2>3
      <3>3. \A x, y, b, c \in Nat : x + y <= b \/ x + y <= c => x <= b \/ x <= c
        OBVIOUS
      <3> HIDE DEF s, a
      <3> QED
        BY <2>0, <3>1, <3>2, <3>3
    <2> QED
      BY <2>1, <2>3, <2>4
  <1>4. /\ w \in Nat /\ w <= Ring /\ e \in Nat /\ Ring \in Nat /\ Sector \in Nat
        /\ Sector <= e /\ Record * s \in Nat
    <2>1. w \in Nat /\ w <= Ring
      <3>1. n \in 1..Capacity
        BY <1>1, <1>2, CapacityFacts
      <3> QED
        BY <3>1, AllowedFacts
    <2>2. Record * s \in Nat
      <3>1. s \in Nat
        BY <1>3
      <3> HIDE DEF s
      <3> QED
        BY <3>1, Products
    <2>3. e \in Nat /\ Ring \in Nat /\ Sector \in Nat /\ Sector <= e
      BY Sizes
    <2> QED
      BY <2>1, <2>2, <2>3
  <1>5. w + Record * s <= Ring
    <2>1. CASE s <= a
      BY <1>1, <1>2, <1>3, <2>1, AllowedFacts, CapacityFacts
    <2>2. CASE s <= ChunkRecords
      <3>1. Record * s <= Record * ChunkRecords /\ Record * ChunkRecords <= Sector
            /\ Record * ChunkRecords \in Nat
        <4> HIDE DEF s
        <4>1. s \in Int /\ ChunkRecords \in Int /\ s <= ChunkRecords
          BY <1>3, <2>2, Sizes
        <4> QED
          BY <4>1, Products, Sizes
      <3> QED
        BY <1>1, <1>4, <3>1
    <2> QED
      BY <1>3, <2>1, <2>2
  <1>6. k \in 0..Ring - 1 /\ k < e + Sector
    <2>1. k \in 0..Ring - 1
      BY <1>2, LeadFacts
    <2>2. k < (PreErase + 1) * Sector
      BY <1>1 DEF Laid
    <2>3. (PreErase + 1) * Sector = e + Sector
      BY Sizes
    <2> QED
      BY <2>1, <2>2, <2>3
  <1>7. /\ p \in Nat /\ p >= 1 /\ p <= w
        /\ m \in Nat /\ m >= 1 /\ m <= Ring /\ m = p + Record * s
    BY <1>4, <1>5
  <1>8. Forward(l.addr, Ring - m) = Forward(l.cap.endAddr, Ring - p)
    <2>1. /\ Record * s \in 0..Ring /\ Ring - m \in 0..Ring
          /\ Record * s + (Ring - m) = Ring - p /\ Ring - p <= Ring
      <3>1. w + Record * s <= Ring /\ Record * s \in Nat /\ w \in Nat /\ Ring \in Nat
        BY <1>4, <1>5
      <3>2. /\ p \in Nat /\ p >= 1 /\ p <= w /\ m \in Nat /\ m <= Ring
            /\ m = p + Record * s
        BY <1>7
      <3> HIDE DEF m, s, w
      <3> QED
        BY <3>1, <3>2
    <2>2. l.cap.endAddr \in Cells /\ l.addr = Forward(l.cap.endAddr, Record * s)
      BY <1>2, <1>3
    <2> HIDE DEF m, s
    <2> QED
      BY <2>1, <2>2, ForwardAdds
  <1>9. CASE m <= Ring - k
    <2>1. m <= Record * Len(l.written)
      <3>1. Record * (v + s) = Record * v + Record * s /\ w <= Record * v
            /\ Record * v \in Nat /\ Record * (v + s) \in Nat
        <4> HIDE DEF s, v, n
        <4>1. /\ n \in Int /\ v \in Nat /\ v \in Int /\ s \in Int /\ n <= v
              /\ v + s \in Nat
          BY <1>1, <1>2, <1>3
        <4> QED
          BY <4>1, Products
      <3>2. /\ m = p + Record * s /\ p <= w /\ p \in Nat /\ w \in Nat
            /\ Record * s \in Nat /\ Len(l.written) = v + s
        BY <1>2, <1>3, <1>4, <1>7
      <3> HIDE DEF m, s, v, w
      <3>3. m <= Record * (v + s)
        BY <3>1, <3>2
      <3> QED
        BY <3>2, <3>3
    <2>2. l.ring[Forward(l.addr, Ring - m)] = CellBack(l.written, m)
      <3>1. m \in 1..Ring - Lead(l)
        BY <1>6, <1>7, <1>9
      <3> QED
        BY <1>1, <2>1, <3>1 DEF Laid
    <2>3. q \in Int /\ Record * q <= p - 1 /\ p - 1 < Record * q + Record
      BY <1>7, Quotient
    <2> HIDE DEF q, m, w, e, k
    <2>4. q >= 0 /\ q < n
      <3>1. q < n
        <4> SUFFICES ASSUME n <= q PROVE FALSE
          BY <1>2, <2>3
        <4> HIDE DEF n
        <4>0. n \in Int /\ q \in Int /\ n <= q
          BY <1>2, <2>3
        <4>1. w <= Record * q /\ Record * q \in Int
          BY <4>0, Products DEF w
        <4> QED
          BY <1>4, <1>7, <2>3, <4>1
      <3>2. q >= 0
        <4> SUFFICES ASSUME q + 1 <= 0 PROVE FALSE
          BY <2>3
        <4>1. Record * (q + 1) <= Record * 0 /\ Record * 0 = 0
              /\ Record * (q + 1) = Record * q + Record * 1 /\ Record * 1 = Record
              /\ Record * q \in Int /\ Record \in Nat
          BY <2>3, Products, Sizes
        <4> QED
          BY <1>7, <2>3, <4>1
      <3> QED
        BY <3>1, <3>2
    <2>5. (m - 1) \div Record = q + s
      <3>1. Record * (q + s) = Record * q + Record * s /\ Record * q \in Int /\ q + s \in Int
            /\ Record \in Nat
        BY <1>3, <2>3, Products, Sizes
      <3>2. Record * (q + s) <= m - 1 /\ m - 1 < Record * (q + s) + Record /\ m - 1 \in Int
        BY <1>4, <1>7, <2>3, <3>1
      <3> QED
        BY <3>1, <3>2, Quotient
    <2>6. CellBack(l.written, m) = l.written[v - q]
      <3>1. Len(l.written) - (q + s) = v - q
        BY <1>2, <1>3, <2>3
      <3> QED
        BY <2>5, <3>1 DEF CellBack
    <2>7. v - q \in 1..v
      BY <1>1, <1>2, <2>3, <2>4
    <2>8. /\ SubSeq(l.written, 1, v) \in Seq(Numbers) /\ Len(SubSeq(l.written, 1, v)) = v
          /\ SubSeq(l.written, 1, v)[v - q] = l.written[v - q]
      <3>1. l.written \in Seq(Numbers) /\ v \in Nat /\ v <= Len(l.written)
        BY <1>2
      <3> HIDE DEF v
      <3> QED
        BY <2>7, <3>1
    <2>9. Dumped(l, d, w - p + 1) = l.written[v - q]
      <3>1. w - (w - p + 1) + 1 = p
        BY <1>4, <1>7
      <3>2. Dumped(l, d, w - p + 1) = CellBack(SubSeq(l.written, 1, v), p)
        BY <3>1 DEF Dumped, w
      <3> QED
        BY <2>8, <3>2 DEF CellBack, q
    <2> QED
      BY <1>8, <2>2, <2>6, <2>9 DEF w
  <1>10. CASE m > Ring - k
    <2>1. Ring - m \in 0..k - 1
      BY <1>4, <1>6, <1>7, <1>10
    <2>2. l.ring[Forward(l.addr, Ring - m)] = Blank
      <3>1. l.ws = "idle" /\ Blanked(l) = k
        <4>1. l.ws # "idle" => l.qspi = "write"
          BY <1>1 DEF Laid
        <4> QED
          BY <4>1 DEF Blanked, Erasing
      <3>2. \A i \in 0..Blanked(l) - 1 : l.ring[Forward(l.addr, i)] = Blank
        <4>1. \A i \in (IF l.ws = "second" THEN FirstLen(l) ELSE 0)..Blanked(l) - 1 :
                l.ring[Forward(l.addr, i)] = Blank
          BY <1>1 DEF Laid
        <4> QED
          BY <3>1, <4>1
      <3> QED
        BY <2>1, <3>1, <3>2
    <2>3. Over(l) \in Nat /\ s <= a + Over(l) /\ Record * Over(l) \in Nat
      <3>1. Over(l) = IF s > a THEN s - a ELSE 0
        BY DEF Over
      <3>2. Over(l) \in Nat /\ s <= a + Over(l)
        <4> HIDE DEF s, a
        <4> QED
          BY <1>2, <1>3, <3>1
      <3> QED
        BY <3>2, Products
    <2>4. w + Record * s + e <= Ring + Record * Over(l)
      <3>1. n \in 1..Capacity
        BY <1>1, <1>2, CapacityFacts
      <3> HIDE DEF s
      <3> QED
        BY <1>1, <1>3, <2>3, <3>1, AllowedFacts
    <2>5. w - p + 1 <= Sector + Record * Over(l)
      <3> DEFINE o == Record * Over(l)
                 t == Record * s
      <3>1. o \in Nat /\ t \in Nat /\ w + t + e <= Ring + o /\ m = p + t
        BY <1>4, <1>7, <2>3, <2>4
      <3> HIDE DEF o, t, w, e, m, k
      <3>2. w - p + 1 <= Sector + o
        BY <1>4, <1>6, <1>7, <1>10, <3>1
      <3> QED
        BY <3>2 DEF o
    <2> QED
      BY <1>8, <2>2, <2>5
  <1> QED
    BY <1>4, <1>6, <1>7, <1>9, <1>10

\* A log with another capture.
LEMMA CaptureSet ==
    ASSUME NEW l, Base(l), NEW c \in Captures, NEW x, x = [l EXCEPT !.cap = c],
           c.target <= l.seq, c.available <= l.total, c.post + Len(l.queue) <= l.seq,
           Owing(x), Retained(x)
    PROVE  /\ Base(x) /\ x.cap = c /\ Disturbances(x) = Disturbances(l)
           /\ x.written = l.written /\ x.total = l.total
  <1>1. l \in Logs
    BY DEF Base
  <1>2. /\ x \in Logs
        /\ x.ws = l.ws /\ x.qspi = l.qspi /\ x.faults = l.faults /\ x.erase = l.erase
        /\ x.queue = l.queue /\ x.chunk = l.chunk /\ x.written = l.written
        /\ x.seq = l.seq /\ x.next = l.next /\ x.total = l.total
        /\ x.addr = l.addr /\ x.ring = l.ring /\ x.meta = l.meta /\ x.boots = l.boots
        /\ x.cap = c
    BY <1>1 DEF Logs
  <1>3. Sized(x) /\ Lined(x)
    BY <1>1, <1>2 DEF Base, Sized, Lined
  <1>4. Lead(x) = Lead(l) /\ Blanked(x) = Blanked(l) /\ (Erasing(x) <=> Erasing(l))
        /\ Disturbances(x) = Disturbances(l) /\ FirstLen(x) = FirstLen(l)
        /\ (Split(x) <=> Split(l))
    BY <1>2 DEF Lead, Blanked, Erasing, Disturbances, FirstLen, Split
  <1>5. Disturbances(x) = 0 => Laid(x)
    BY <1>2, <1>4 DEF Base, Laid
  <1> QED
    BY <1>2, <1>3, <1>4, <1>5 DEF Base

\* A dump that is over leaves no capture.
LEMMA ReleasedHeld ==
    ASSUME NEW l, Base(l)
    PROVE  Held(Released(l).log, Released(l).dump)
  <1> DEFINE x == [l EXCEPT !.cap = NoCapture]
  <1>1. Released(l).log = x /\ Released(l).dump = NoDump
    BY DEF Released, Outcome
  <1>2. l \in Logs /\ Len(l.queue) \in Nat /\ l.seq \in Nat /\ Len(l.queue) <= l.seq
        /\ l.total \in Nat
    <2>1. l \in Logs
      BY DEF Base
    <2>2. l.queue \in Seq(Numbers) /\ l.chunk \in Seq(Numbers) /\ l.seq \in 0..MaxSeq
          /\ l.total \in Nat
      BY <2>1, LogTypes
    <2>3. l.total + Len(l.chunk) + Len(l.queue) <= l.seq
      BY DEF Base, Sized
    <2> QED
      BY <2>1, <2>2, <2>3
  <1>3. /\ NoCapture \in Captures /\ ~NoCapture.active /\ ~NoCapture.ready
        /\ NoCapture.post = 0 /\ ~NoCapture.protected /\ ~NoCapture.hold
        /\ NoCapture.target = 0 /\ NoCapture.available = 0
    BY CapacityFacts, Sizes DEF NoCapture, Captures, Cells
  <1>4. x.cap = NoCapture
    BY <1>2 DEF Logs
  <1>5. Owing(x) /\ Retained(x)
    BY <1>3, <1>4 DEF Owing, Retained
  <1>6. Base(x)
    <2> HIDE DEF x
    <2>1. x = [l EXCEPT !.cap = NoCapture]
      BY DEF x
    <2> QED
      BY <1>2, <1>3, <1>5, <2>1, CaptureSet
  <1>7. /\ NoDump \in Dumps /\ NoDump.state = "idle" /\ NoDump.count = 0
        /\ NoDump.left = 0 /\ NoDump.buffer = <<>> /\ NoDump.file = <<>>
    BY Sizes DEF NoDump, Dumps, Cells
  <1>8. Advanced(x, NoDump) /\ Exported(x, NoDump)
    BY <1>3, <1>4, <1>7 DEF Advanced, Progress, Exporting, Exported
  <1> QED
    BY <1>1, <1>6, <1>7, <1>8 DEF Held

\* dump_calculate_window and log_capture_protect.
LEMMA CapturedHeld ==
    ASSUME NEW l, NEW d, Between(l, d), d.state = "flushing", l.cap.ready, ~l.cap.failed
    PROVE  Held(Captured(l, d).log, Captured(l, d).dump)
  <1> DEFINE all == IF l.cap.available > Capacity THEN Capacity ELSE l.cap.available
             n == IF d.window > all THEN all ELSE d.window
             c == [l.cap EXCEPT !.protected = TRUE, !.allowed = Allowed(n)]
             x == [l EXCEPT !.cap = c]
             y == [d EXCEPT !.state = "captured", !.count = n, !.left = n * Record,
                            !.at = Forward(l.cap.endAddr, Ring - n * Record)]
  <1>1. /\ Base(l) /\ l \in Logs /\ d \in Dumps /\ ~l.cap.protected /\ l.cap.active
        /\ d.buffer = <<>> /\ d.file = <<>>
    BY DEF Between, Base, Progress, Exporting
  <1>2. l.cap \in Captures /\ l.cap.available \in Nat /\ d.window \in Nat
    BY <1>1, LogTypes, CaptureTypes, DumpTypes
  <1>3. CASE n = 0
    <2>1. Captured(l, d) = Released(l)
      BY <1>3 DEF Captured
    <2> QED
      BY <1>1, <2>1, ReleasedHeld
  <1>4. CASE n # 0
    <2>1. /\ Captured(l, d).log = [l EXCEPT !.cap.protected = TRUE, !.cap.allowed = Allowed(n)]
          /\ Captured(l, d).dump = y
      BY <1>4 DEF Captured, Outcome
    <2>2. [l EXCEPT !.cap.protected = TRUE, !.cap.allowed = Allowed(n)] = x
      BY <1>1, <1>2 DEF Logs, Captures
    <2>3. n \in 1..Capacity /\ n \in Nat /\ n >= 1 /\ n <= Capacity /\ n <= l.cap.available
      BY <1>2, <1>4, CapacityFacts
    <2> HIDE DEF n
    <2>4. Allowed(n) \in 0..Capacity /\ Record * n \in Nat /\ Record * n <= Ring
          /\ n * Record = Record * n
      <3>1. Allowed(n) \in 0..Capacity /\ Record * n \in Nat /\ Record * n <= Ring
        BY <2>3, AllowedFacts
      <3>2. Record \in Nat
        BY Sizes
      <3>3. n * Record = Record * n
        BY <2>3, <3>2
      <3> QED
        BY <3>1, <3>3
    <2>5. c \in Captures
      BY <1>2, <2>4 DEF Captures
    <2>6. /\ c.active = l.cap.active /\ c.consumed = l.cap.consumed /\ c.ready = l.cap.ready
          /\ c.failed = l.cap.failed /\ c.protected = TRUE /\ c.hold = l.cap.hold
          /\ c.target = l.cap.target /\ c.endAddr = l.cap.endAddr
          /\ c.available = l.cap.available /\ c.post = l.cap.post
          /\ c.allowed = Allowed(n) /\ c.owed = l.cap.owed
      BY <1>2 DEF Captures
    <2> HIDE DEF c
    <2>7. x.cap = c /\ x.written = l.written /\ x.chunk = l.chunk /\ x.total = l.total
          /\ x.addr = l.addr /\ x.queue = l.queue
      BY <1>1, <2>5 DEF Logs
    <2> HIDE DEF x
    <2>8. Owing(x)
      BY <1>1, <2>6, <2>7 DEF Base, Owing
    <2>9. Retained(x)
      <3>1. /\ l.addr = Forward(l.cap.endAddr, Record * Since(l))
            /\ Since(l) + Len(l.chunk) <= l.cap.post /\ Since(l) = 0
        BY <1>1 DEF Base, Retained
      <3>2. Since(x) = Since(l)
        BY <2>6, <2>7 DEF Since
      <3>3. Since(x) + Len(x.chunk) <= ChunkRecords
        <4>1. Len(l.chunk) \in Nat /\ Len(l.chunk) <= ChunkRecords
          <5>1. l.chunk \in Seq(Numbers)
            BY <1>1, LogTypes
          <5> QED
            BY <1>1, <5>1 DEF Base, Sized
        <4> QED
          BY <2>7, <3>1, <3>2, <4>1, Sizes
      <3> QED
        BY <2>6, <2>7, <3>1, <3>2, <3>3 DEF Retained
    <2>10. Base(x)
      <3>1. x = [l EXCEPT !.cap = c]
        BY DEF x
      <3>2. c.target <= l.seq /\ c.available <= l.total /\ c.post + Len(l.queue) <= l.seq
        BY <1>1, <2>6 DEF Base, Sized
      <3> QED
        BY <1>1, <2>5, <2>8, <2>9, <3>1, <3>2, CaptureSet
    <2>11. /\ Ring - n * Record \in 0..Ring /\ n * Record \in Nat
           /\ Forward(l.cap.endAddr, Ring - n * Record) \in Cells
      <3>1. Ring - n * Record \in 0..Ring /\ n * Record \in Nat
        BY <2>4, Sizes
      <3> QED
        BY <1>2, <3>1, CaptureTypes, ForwardValue
    <2>12. /\ y \in Dumps /\ y.state = "captured" /\ y.count = n /\ y.left = n * Record
           /\ y.at = Forward(l.cap.endAddr, Ring - n * Record)
           /\ y.buffer = <<>> /\ y.file = <<>>
      BY <1>1, <2>3, <2>11 DEF Dumps
    <2> HIDE DEF y
    <2>13. Exporting(y)
      BY <2>12 DEF Exporting
    <2>14. Advanced(x, y)
      <3>1. y.left + Len(y.buffer) + Len(y.file) = Record * y.count
        BY <2>4, <2>12
      <3> QED
        BY <1>1, <2>3, <2>6, <2>7, <2>12, <2>13, <3>1 DEF Advanced, Progress
    <2>15. Exported(x, y)
      <3>1. 1..Len(y.file) + Len(y.buffer) = {}
        BY <2>12
      <3> QED
        BY <2>6, <2>7, <2>12, <3>1 DEF Exported
    <2> QED
      BY <2>1, <2>2, <2>10, <2>12, <2>14, <2>15 DEF Held
  <1> QED
    BY <1>3, <1>4

\* A dump that goes on, and a log that stays.
LEMMA MovedHeld ==
    ASSUME NEW l, NEW d, Between(l, d), Exporting(d), NEW state, d.buffer = <<>>,
           \/ d.state = "captured" /\ state = "opening"
           \/ d.state = "opening" /\ state = "meta"
           \/ d.state = "meta" /\ state = "reading"
           \/ d.state = "finalizing" /\ state = "done"
    PROVE  Held(Moved(l, d, state).log, Moved(l, d, state).dump)
  <1> DEFINE y == [d EXCEPT !.state = state]
  <1>1. Moved(l, d, state).log = l /\ Moved(l, d, state).dump = y
    BY DEF Moved, Outcome
  <1>2. d \in Dumps
    BY DEF Between
  <1>3. /\ y \in Dumps /\ y.state = state /\ y.count = d.count /\ y.left = d.left
        /\ y.at = d.at /\ y.buffer = d.buffer /\ y.file = d.file
    BY <1>2 DEF Dumps
  <1> HIDE DEF y
  <1>4. Exporting(y) /\ y.state # "idle"
    BY <1>3 DEF Exporting
  <1>5. Advanced(l, y)
    BY <1>3, <1>4 DEF Between, Advanced, Progress, Exporting
  <1>6. Disturbances(l) = 0 => Exported(l, y)
    <2>1. \A i : Dumped(l, y, i) = Dumped(l, d, i)
      BY <1>3 DEF Dumped
    <2>2. Fits(y) => Fits(d)
      BY <1>3 DEF Fits
    <2> QED
      BY <1>3, <2>1, <2>2 DEF Between, Exported
  <1> QED
    BY <1>1, <1>3, <1>5, <1>6 DEF Between, Held

\* Nothing happens to a dump that has the capture it waits for, or none.
LEMMA StaysHeld ==
    ASSUME NEW l, NEW d, Between(l, d),
           d.state = "flushing" => ~l.cap.ready
    PROVE  Held(l, d)
  <1>1. Exporting(d) <=> l.cap.ready
    <2>1. ~l.cap.active => l.cap = NoCapture
      BY DEF Between, Base, Owing
    <2>2. NoCapture.ready = FALSE
      BY DEF NoCapture
    <2>3. d.state = "idle" => ~l.cap.ready
      BY <2>1, <2>2 DEF Between
    <2> QED
      BY <2>3 DEF Between, Exporting
  <1>2. Advanced(l, d)
    BY <1>1 DEF Between, Advanced
  <1> QED
    BY <1>2 DEF Between, Held

\* A read adds the next cells to the dump.
LEMMA ReadHeld ==
    ASSUME NEW l, NEW d, Between(l, d), d.state = "reading", l.qspi = "none"
    PROVE  Held(l, Read(l, d))
  <1> DEFINE n == IF d.left < DumpChunk THEN d.left ELSE DumpChunk
             b == [i \in 1..n |-> l.ring[Forward(d.at, i - 1)]]
             y == Read(l, d)
             k == Len(d.file)
             w == Record * d.count
  <1>1. /\ l \in Logs /\ Base(l) /\ d \in Dumps /\ Exporting(d) /\ l.cap \in Captures
        /\ l.ring \in [Cells -> Contents] /\ d.buffer = <<>>
        /\ l.cap.endAddr \in Cells
    BY LogTypes, CaptureTypes DEF Between, Base, Progress, Exporting
  <1>2. /\ d.left \in Nat /\ k \in Nat /\ d.count \in Nat /\ d.at \in Cells
        /\ d.file \in Seq(Contents) /\ d.left + k = w
        /\ d.count >= 1 /\ d.count <= Capacity
    <2>1. d.left + Len(d.buffer) + Len(d.file) = Record * d.count
          /\ d.count >= 1 /\ d.count <= Capacity
      BY <1>1 DEF Between, Progress
    <2>2. Len(d.buffer) = 0
      BY <1>1
    <2> QED
      BY <1>1, <2>1, <2>2, DumpTypes
  <1>3. w \in Nat /\ w <= Ring /\ Ring \in Nat
    <2>1. d.count \in 1..Capacity
      BY <1>2, CapacityFacts
    <2> QED
      BY <2>1, AllowedFacts, Sizes
  <1>4. n \in Nat /\ n <= d.left /\ n <= Ring
    BY <1>2, <1>3, BoundsAssumption
  <1> HIDE DEF n, k, w
  <1>5. \A i \in 1..n : i - 1 \in 0..Ring /\ Forward(d.at, i - 1) \in Cells
    <2> TAKE i \in 1..n
    <2>1. i - 1 \in 0..Ring
      BY <1>3, <1>4
    <2> QED
      BY <1>2, <2>1, ForwardValue
  <1>6. b \in Seq(Contents) /\ Len(b) = n /\ \A i \in 1..n : b[i] = l.ring[Forward(d.at, i - 1)]
    <2>1. b \in [1..n -> Contents]
      BY <1>1, <1>5
    <2> QED
      BY <1>4, <2>1
  <1>7. Forward(d.at, n) \in Cells
    BY <1>2, <1>3, <1>4, ForwardValue
  <1>8. y = [d EXCEPT !.state = "writing", !.at = Forward(d.at, n), !.left = d.left - n,
                      !.buffer = b]
    BY <1>1 DEF Read, Dumps, n
  <1> HIDE DEF b, y
  <1>9. /\ y \in Dumps /\ y.state = "writing" /\ y.count = d.count /\ y.left = d.left - n
        /\ y.at = Forward(d.at, n) /\ y.buffer = b /\ y.file = d.file
    <2>1. d.left - n \in Nat
      BY <1>2, <1>4
    <2> QED
      BY <1>1, <1>6, <1>7, <1>8, <2>1 DEF Dumps
  <1>10. Exporting(y)
    BY <1>9 DEF Exporting
  <1>11. Advanced(l, y)
    <2>1. y.left + Len(y.buffer) + Len(y.file) = Record * y.count
      <3>1. (d.left - n) + n + k = w
        BY <1>2, <1>4
      <3> QED
        BY <1>6, <1>9, <3>1 DEF k, w
    <2> QED
      BY <1>1, <1>9, <1>10, <2>1 DEF Between, Advanced, Progress
  <1>12. ASSUME Disturbances(l) = 0
         PROVE  Exported(l, y)
    <2> SUFFICES ASSUME Fits(y)
                 PROVE  Exported(l, y)
      BY DEF Exported
    <2>1. Fits(d)
      BY <1>9 DEF Fits
    <2>2. /\ d.at = Forward(l.cap.endAddr, Ring - d.left)
          /\ \A i \in 1..Len(d.file) + Len(d.buffer) :
               \/ (d.file \o d.buffer)[i] = Dumped(l, d, i)
               \/ i <= Sector + Record * Over(l) /\ (d.file \o d.buffer)[i] = Blank
      BY <1>1, <1>12, <2>1 DEF Between, Exported
    <2>3. Len(d.file) + Len(d.buffer) = k /\ d.file \o d.buffer = d.file
      BY <1>1, <1>2 DEF k
    <2>4. Ring - d.left \in 0..Ring /\ d.left \in Nat /\ d.left <= Ring
      BY <1>2, <1>3
    <2>5. y.at = Forward(l.cap.endAddr, Ring - y.left)
      <3>1. n \in 0..Ring /\ (Ring - d.left) + n <= Ring
            /\ (Ring - d.left) + n = Ring - (d.left - n)
        BY <1>3, <1>4, <2>4
      <3> QED
        BY <1>1, <1>9, <2>2, <2>4, <3>1, ForwardAdds
    <2>6. \A i : Dumped(l, y, i) = Dumped(l, d, i)
      BY <1>9 DEF Dumped
    <2>7. /\ y.file \o y.buffer \in Seq(Contents) /\ Len(y.file) + Len(y.buffer) = k + n
          /\ \A i \in 1..k : (y.file \o y.buffer)[i] = d.file[i]
          /\ \A i \in k + 1..k + n : (y.file \o y.buffer)[i] = b[i - k]
      <3>1. b \in Seq(Contents) /\ d.file \in Seq(Contents) /\ Len(d.file) = k
            /\ Len(b) = n /\ k \in Nat /\ n \in Nat
        BY <1>2, <1>4, <1>6 DEF k
      <3>2. d.file \o b \in Seq(Contents)
        BY <3>1
      <3>3. \A i \in 1..k : (d.file \o b)[i] = d.file[i]
        BY <3>1
      <3>4. \A i \in k + 1..k + n : (d.file \o b)[i] = b[i - k]
        BY <3>1
      <3> QED
        BY <1>9, <3>1, <3>2, <3>3, <3>4
    <2>8. ASSUME NEW i \in 1..k
          PROVE  \/ (y.file \o y.buffer)[i] = Dumped(l, d, i)
                 \/ i <= Sector + Record * Over(l) /\ (y.file \o y.buffer)[i] = Blank
      BY <2>2, <2>3, <2>7
    <2>9. ASSUME NEW i \in k + 1..k + n
          PROVE  \/ (y.file \o y.buffer)[i] = Dumped(l, d, i)
                 \/ i <= Sector + Record * Over(l) /\ (y.file \o y.buffer)[i] = Blank
      <3> DEFINE p == w - i + 1
      <3>1. /\ i \in Int /\ i - k \in 1..n /\ p \in 1..w /\ w - p + 1 = i
            /\ i - k - 1 \in 0..Ring /\ (Ring - d.left) + (i - k - 1) = Ring - p
            /\ Ring - p <= Ring
        <4> DEFINE t == d.left
        <4>1. /\ t \in Nat /\ k \in Nat /\ n \in Nat /\ w \in Nat /\ Ring \in Nat
              /\ t + k = w /\ n <= t /\ w <= Ring
          BY <1>2, <1>3, <1>4
        <4> HIDE DEF t
        <4>2. i \in Int /\ k + 1 <= i /\ i <= k + n
          BY <4>1
        <4>3. p \in 1..w /\ w - p + 1 = i /\ Ring - p <= Ring /\ p = w - i + 1
          BY <4>1, <4>2
        <4>4. i - k \in 1..n /\ i - k - 1 \in 0..Ring
          BY <4>1, <4>2
        <4>5. (Ring - t) + (i - k - 1) = Ring - p
          BY <4>1, <4>2
        <4> QED
          BY <4>2, <4>3, <4>4, <4>5 DEF t
      <3> HIDE DEF p
      <3>2. (y.file \o y.buffer)[i] = l.ring[Forward(d.at, i - k - 1)]
        BY <1>6, <2>7, <3>1
      <3>3. Forward(d.at, i - k - 1) = Forward(l.cap.endAddr, Ring - p)
        BY <1>1, <2>2, <2>4, <3>1, ForwardAdds
      <3>4. \/ l.ring[Forward(l.cap.endAddr, Ring - p)] = Dumped(l, d, Record * d.count - p + 1)
            \/ /\ Record * d.count - p + 1 <= Sector + Record * Over(l)
               /\ l.ring[Forward(l.cap.endAddr, Ring - p)] = Blank
        <4>1. p \in 1..Record * d.count
          BY <3>1 DEF w
        <4> QED
          BY <1>1, <1>12, <2>1, <4>1, ReadCell
      <3>5. Record * d.count - p + 1 = i
        BY <3>1 DEF w
      <3> QED
        BY <3>2, <3>3, <3>4, <3>5
    <2>10. \A i \in 1..k + n : i \in 1..k \/ i \in k + 1..k + n
      BY <1>2, <1>4
    <2>11. \A i \in 1..Len(y.file) + Len(y.buffer) :
             \/ (y.file \o y.buffer)[i] = Dumped(l, y, i)
             \/ i <= Sector + Record * Over(l) /\ (y.file \o y.buffer)[i] = Blank
      BY <2>6, <2>7, <2>8, <2>9, <2>10
    <2> QED
      BY <2>5, <2>11 DEF Exported
  <1> QED
    BY <1>1, <1>9, <1>11, <1>12 DEF Between, Held, y

\* What was read is appended to the file.
LEMMA WrittenHeld ==
    ASSUME NEW l, NEW d, Between(l, d), d.state = "writing"
    PROVE  Held(l, Written(d))
  <1> DEFINE s == IF d.left > 0 THEN "reading" ELSE "finalizing"
             y == Written(d)
  <1>1. d \in Dumps /\ Exporting(d) /\ Progress(l, d)
    BY DEF Between, Exporting
  <1>2. d.file \in Seq(Contents) /\ d.buffer \in Seq(Contents) /\ d.left \in Nat
    BY <1>1, DumpTypes
  <1>3. /\ d.file \o d.buffer \in Seq(Contents)
        /\ Len(d.file \o d.buffer) = Len(d.file) + Len(d.buffer)
        /\ Len(d.file) \in Nat /\ Len(d.buffer) \in Nat
        /\ (d.file \o d.buffer) \o <<>> = d.file \o d.buffer
    BY <1>2
  <1>4. y = [d EXCEPT !.state = s, !.file = d.file \o d.buffer, !.buffer = <<>>]
    BY <1>1 DEF Written, Dumps
  <1> HIDE DEF y
  <1>5. /\ y \in Dumps /\ y.state = s /\ y.count = d.count /\ y.left = d.left
        /\ y.at = d.at /\ y.file = d.file \o d.buffer /\ y.buffer = <<>>
    <2>1. s \in {"reading", "finalizing"} /\ <<>> \in Seq(Contents)
      OBVIOUS
    <2> HIDE DEF s
    <2> QED
      BY <1>1, <1>3, <1>4, <2>1 DEF Dumps
  <1>6. Exporting(y) /\ y.state \in {"reading", "finalizing"}
        /\ (y.state = "finalizing" => y.left = 0)
    BY <1>2, <1>5 DEF Exporting
  <1>7. Advanced(l, y)
    <2>1. y.left + Len(y.buffer) + Len(y.file) = Record * y.count
      <3>1. d.left + Len(d.buffer) + Len(d.file) = Record * d.count
        BY <1>1 DEF Progress
      <3>2. Len(y.buffer) = 0 /\ Len(y.file) = Len(d.file) + Len(d.buffer)
        BY <1>3, <1>5
      <3> QED
        <4> DEFINE w == Record * d.count
        <4>1. d.left + Len(d.buffer) + Len(d.file) = w
          BY <3>1
        <4>2. y.left = d.left /\ Record * y.count = w
          BY <1>5
        <4> HIDE DEF w
        <4>3. y.left + Len(y.buffer) + Len(y.file) = w
          <5> DEFINE a == Len(d.file)
                     b == Len(d.buffer)
                     t == d.left
          <5>1. a \in Nat /\ b \in Nat /\ t \in Nat /\ t + b + a = w
            BY <1>2, <1>3, <4>1
          <5>2. y.left = t /\ Len(y.buffer) = 0 /\ Len(y.file) = a + b
            BY <3>2, <4>2
          <5> HIDE DEF a, b, t
          <5>3. t + 0 + (a + b) = t + b + a
            BY <5>1
          <5> QED
            BY <5>1, <5>2, <5>3
        <4> QED
          BY <4>2, <4>3
    <2>2. /\ y.count >= 1 /\ y.count <= Capacity /\ y.count <= l.cap.available
          /\ l.cap.allowed = Allowed(y.count)
      BY <1>1, <1>5 DEF Progress
    <2>3. l.cap.active /\ l.cap.ready /\ l.cap.protected
      BY <1>1 DEF Between, Exporting
    <2>4. Progress(l, y)
      BY <1>5, <1>6, <2>1, <2>2 DEF Progress
    <2> QED
      BY <1>6, <2>3, <2>4 DEF Advanced
  <1>8. Disturbances(l) = 0 => Exported(l, y)
    <2>1. \A i : Dumped(l, y, i) = Dumped(l, d, i)
      BY <1>5 DEF Dumped
    <2>2. Fits(y) => Fits(d)
      BY <1>5 DEF Fits
    <2>3. /\ Len(y.file) + Len(y.buffer) = Len(d.file) + Len(d.buffer)
          /\ y.file \o y.buffer = d.file \o d.buffer
      BY <1>3, <1>5
    <2> QED
      BY <1>1, <1>5, <2>1, <2>2, <2>3 DEF Between, Exported
  <1> QED
    BY <1>5, <1>7, <1>8 DEF Between, Held, y

\* log_dump_tick.
LEMMA DumpTickBase ==
    ASSUME NEW l, NEW d, Between(l, d), NEW safe \in BOOLEAN, NEW o \in DumpTick(l, d, safe)
    PROVE  Held(o.log, o.dump)
  <1>1. Base(l) /\ d \in Dumps
    BY DEF Between
  <1>2. /\ d.state \in {"captured", "opening", "meta", "reading", "writing",
                        "finalizing", "done"} => Exporting(d)
        /\ d.state \in {"captured", "opening", "meta", "finalizing"} => d.buffer = <<>>
    BY DEF Exporting, Between, Progress
  <1>3. CASE o = Outcome(l, d) /\ (d.state = "flushing" => ~l.cap.ready)
    BY <1>3, StaysHeld DEF Outcome
  <1>4. CASE o = Released(l)
    BY <1>1, <1>4, ReleasedHeld
  <1>5. CASE \E state : /\ o = Moved(l, d, state)
                        /\ \/ d.state = "captured" /\ state = "opening"
                           \/ d.state = "opening" /\ state = "meta"
                           \/ d.state = "meta" /\ state = "reading"
                           \/ d.state = "finalizing" /\ state = "done"
    BY <1>2, <1>5, MovedHeld
  <1>6. CASE /\ o = Captured(l, d) /\ d.state = "flushing"
             /\ l.cap.ready /\ ~l.cap.failed
    BY <1>6, CapturedHeld
  <1>7. CASE o = Outcome(l, Read(l, d)) /\ d.state = "reading" /\ l.qspi = "none"
    BY <1>7, ReadHeld DEF Outcome
  <1>8. CASE o = Outcome(l, Written(d)) /\ d.state = "writing"
    BY <1>8, WrittenHeld DEF Outcome
  <1>9. \/ o = Outcome(l, d) /\ (d.state = "flushing" => ~l.cap.ready)
        \/ o = Released(l)
        \/ \E state : /\ o = Moved(l, d, state)
                      /\ \/ d.state = "captured" /\ state = "opening"
                         \/ d.state = "opening" /\ state = "meta"
                         \/ d.state = "meta" /\ state = "reading"
                         \/ d.state = "finalizing" /\ state = "done"
        \/ /\ o = Captured(l, d) /\ d.state = "flushing"
           /\ l.cap.ready /\ ~l.cap.failed
        \/ o = Outcome(l, Read(l, d)) /\ d.state = "reading" /\ l.qspi = "none"
        \/ o = Outcome(l, Written(d)) /\ d.state = "writing"
    <2>0. Blocks(d) => d.state # "flushing"
      BY DEF Blocks
    <2>1. CASE Blocks(d) /\ ~safe
      <3>1. o = Outcome(l, d)
        BY <2>1 DEF DumpTick, Blocks
      <3> QED
        BY <2>0, <2>1, <3>1
    <2>2. CASE ~(Blocks(d) /\ ~safe) /\ d.state \in {"idle", "flushing", "captured"}
      <3>1. CASE d.state = "idle"
        BY <2>2, <3>1 DEF DumpTick
      <3>2. CASE d.state = "flushing"
        BY <2>2, <3>2 DEF DumpTick
      <3>3. CASE d.state = "captured"
        BY <2>2, <3>3 DEF DumpTick
      <3> QED
        BY <2>2, <3>1, <3>2, <3>3
    <2>3. CASE ~(Blocks(d) /\ ~safe) /\ d.state \in {"opening", "meta", "finalizing", "done"}
      <3>0. safe \/ d.state = "done"
        BY <2>3 DEF Blocks
      <3>1. CASE d.state = "opening"
        BY <2>3, <3>0, <3>1 DEF DumpTick
      <3>2. CASE d.state = "meta"
        BY <2>3, <3>0, <3>2 DEF DumpTick
      <3>3. CASE d.state = "finalizing"
        BY <2>3, <3>0, <3>3 DEF DumpTick
      <3>4. CASE d.state = "done"
        BY <2>3, <3>4 DEF DumpTick
      <3> QED
        BY <2>3, <3>1, <3>2, <3>3, <3>4
    <2>4. CASE ~(Blocks(d) /\ ~safe) /\ d.state \in {"reading", "writing"}
      <3>0. safe
        BY <2>4 DEF Blocks
      <3>1. CASE d.state = "reading"
        BY <2>4, <3>0, <3>1 DEF DumpTick
      <3>2. CASE d.state = "writing"
        BY <2>4, <3>0, <3>2 DEF DumpTick
      <3> QED
        BY <2>4, <3>1, <3>2
    <2> QED
      BY <1>1, <2>1, <2>2, <2>3, <2>4, DumpTypes
  <1> QED
    BY <1>3, <1>4, <1>5, <1>6, <1>7, <1>8, <1>9

-----------------------------------------------------------------------------
(* The actions.                                                              *)

IInv == Held(log, dump)

\* What a dump and its capture ask of a log.
LEMMA HeldAlong ==
    ASSUME NEW l, NEW d, Held(l, d), NEW x, Base(x), x.cap = l.cap,
           x.total = l.total, x.written = l.written, Disturbances(x) = Disturbances(l)
    PROVE  Held(x, d)
  <1>1. Advanced(x, d)
    BY DEF Held, Advanced, Progress
  <1>2. Over(x) = Over(l) /\ \A i : Dumped(x, d, i) = Dumped(l, d, i)
    BY DEF Over, Since, Dumped
  <1>3. Disturbances(x) = 0 => Exported(x, d)
    BY <1>2 DEF Held, Exported
  <1> QED
    BY <1>1, <1>3 DEF Held

\* A record is dropped, its number used up.
LEMMA DroppedBase ==
    ASSUME NEW l, Base(l), l.seq < MaxSeq
    PROVE  Base([l EXCEPT !.seq = l.seq + 1])
  <1> DEFINE x == [l EXCEPT !.seq = l.seq + 1]
  <1>1. l \in Logs /\ l.seq \in Nat /\ l.seq + 1 \in 0..MaxSeq
    <2>1. l \in Logs /\ l.seq \in 0..MaxSeq
      BY LogTypes DEF Base
    <2> QED
      BY <2>1, BoundsAssumption
  <1>2. /\ x \in Logs /\ x.seq = l.seq + 1
        /\ x.ws = l.ws /\ x.qspi = l.qspi /\ x.faults = l.faults /\ x.erase = l.erase
        /\ x.queue = l.queue /\ x.chunk = l.chunk /\ x.written = l.written
        /\ x.next = l.next /\ x.total = l.total /\ x.cap = l.cap
        /\ x.addr = l.addr /\ x.ring = l.ring /\ x.meta = l.meta /\ x.boots = l.boots
    BY <1>1 DEF Logs
  <1> HIDE DEF x
  <1>3. Sized(x)
    <2>1. /\ l.next \in Nat /\ l.cap.target \in Nat /\ l.total \in Nat /\ l.cap.post \in Nat
          /\ Len(l.chunk) \in Nat /\ Len(l.queue) \in Nat
      <3>1. /\ l.next \in Nat /\ l.total \in Nat /\ l.cap \in Captures
            /\ l.chunk \in Seq(Numbers) /\ l.queue \in Seq(Numbers)
        BY <1>1, LogTypes
      <3> QED
        BY <3>1, CaptureTypes
    <2>2. /\ l.next <= l.seq /\ l.cap.target <= l.seq
          /\ l.total + Len(l.chunk) + Len(l.queue) <= l.seq
          /\ l.cap.post + Len(l.queue) <= l.seq
      BY DEF Base, Sized
    <2>3. /\ x.next <= x.seq /\ x.cap.target <= x.seq
          /\ x.total + Len(x.chunk) + Len(x.queue) <= x.seq
          /\ x.cap.post + Len(x.queue) <= x.seq
      <3> DEFINE s == l.seq
                 t == l.total + Len(l.chunk) + Len(l.queue)
                 p == l.cap.post + Len(l.queue)
                 g == l.cap.target
      <3>1. s \in Nat /\ t \in Nat /\ p \in Nat /\ g \in Nat
        <4>1. l.seq \in Nat /\ l.cap.target \in Nat /\ l.cap.post + Len(l.queue) \in Nat
          BY <1>1, <2>1
        <4>2. l.total + Len(l.chunk) \in Nat
          BY <2>1
        <4>3. l.total + Len(l.chunk) + Len(l.queue) \in Nat
          BY <2>1, <4>2
        <4> QED
          BY <4>1, <4>3
      <3>2. l.next <= s /\ g <= s /\ t <= s /\ p <= s
        BY <2>2
      <3>3. /\ x.next = l.next /\ x.cap.target = g /\ x.seq = s + 1
            /\ x.total + Len(x.chunk) + Len(x.queue) = t
            /\ x.cap.post + Len(x.queue) = p
        BY <1>2
      <3> HIDE DEF s, t, p, g
      <3>4. l.next <= s + 1 /\ g <= s + 1 /\ t <= s + 1 /\ p <= s + 1
        BY <2>1, <3>1, <3>2
      <3> QED
        BY <3>3, <3>4
    <2> QED
      BY <1>2, <2>3 DEF Base, Sized
  <1>4. Lined(x) /\ Owing(x) /\ Retained(x)
    BY <1>2 DEF Base, Lined, Owing, Retained, Since
  <1>5. Lead(x) = Lead(l) /\ Blanked(x) = Blanked(l) /\ (Erasing(x) <=> Erasing(l))
        /\ Disturbances(x) = Disturbances(l) /\ FirstLen(x) = FirstLen(l)
        /\ (Split(x) <=> Split(l))
    BY <1>2 DEF Lead, Blanked, Erasing, Disturbances, FirstLen, Split
  <1>6. Disturbances(x) = 0 => Laid(x)
    BY <1>2, <1>5 DEF Base, Laid
  <1> QED
    BY <1>2, <1>3, <1>4, <1>6 DEF Base, x

\* A record is queued.
LEMMA QueuedBase ==
    ASSUME NEW l, Base(l), l.seq < MaxSeq, Len(l.queue) # QueueMax
    PROVE  Base([l EXCEPT !.seq = l.seq + 1, !.next = l.seq + 1,
                          !.queue = Append(l.queue, l.seq)])
  <1> DEFINE x == [l EXCEPT !.seq = l.seq + 1, !.next = l.seq + 1,
                            !.queue = Append(l.queue, l.seq)]
             q == Append(l.queue, l.seq)
             n == Len(l.queue)
  <1>1. l \in Logs /\ l.seq \in Nat /\ l.seq + 1 \in 0..MaxSeq /\ l.seq \in Numbers
        /\ l.queue \in Seq(Numbers) /\ l.chunk \in Seq(Numbers) /\ n \in Nat
        /\ l.next \in Nat /\ l.total \in Nat /\ l.cap \in Captures /\ Len(l.chunk) \in Nat
    <2>1. l \in Logs
      BY DEF Base
    <2>2. /\ l.seq \in 0..MaxSeq /\ l.queue \in Seq(Numbers) /\ l.chunk \in Seq(Numbers)
          /\ l.next \in Nat /\ l.total \in Nat /\ l.cap \in Captures
      BY <2>1, LogTypes
    <2>3. l.seq \in Nat /\ l.seq + 1 \in 0..MaxSeq /\ l.seq \in 0..MaxSeq - 1
      BY <2>2, BoundsAssumption
    <2> QED
      BY <2>1, <2>2, <2>3 DEF Numbers
  <1>2. /\ q \in Seq(Numbers) /\ Len(q) = n + 1 /\ q[n + 1] = l.seq
        /\ \A i \in 1..n : q[i] = l.queue[i]
        /\ DOMAIN q = 1..n + 1 /\ DOMAIN l.queue = 1..n /\ q # <<>>
        /\ DOMAIN l.chunk = 1..Len(l.chunk)
    <2>1. q \in Seq(Numbers) /\ Len(q) = n + 1
      BY <1>1
    <2>2. q[n + 1] = l.seq /\ \A i \in 1..n : q[i] = l.queue[i]
      BY <1>1
    <2>3. DOMAIN q = 1..n + 1 /\ DOMAIN l.queue = 1..n /\ DOMAIN l.chunk = 1..Len(l.chunk)
      <3> HIDE DEF q
      <3> QED
        BY <1>1, <2>1
    <2>4. q # <<>>
      <3> HIDE DEF q, n
      <3>1. Len(q) # 0
        BY <1>1, <2>1
      <3> QED
        BY <3>1
    <2> QED
      BY <2>1, <2>2, <2>3, <2>4
  <1>3. ToSet(l.queue) \subseteq ToSet(q)
    BY <1>1, <1>2 DEF ToSet
  <1>4. /\ x \in Logs /\ x.seq = l.seq + 1 /\ x.next = l.seq + 1 /\ x.queue = q
        /\ x.ws = l.ws /\ x.qspi = l.qspi /\ x.faults = l.faults /\ x.erase = l.erase
        /\ x.chunk = l.chunk /\ x.written = l.written /\ x.total = l.total /\ x.cap = l.cap
        /\ x.addr = l.addr /\ x.ring = l.ring /\ x.meta = l.meta /\ x.boots = l.boots
    <2> DEFINE s == l.seq + 1
    <2>1. x = [l EXCEPT !.seq = s, !.next = s, !.queue = q]
      OBVIOUS
    <2>2. l \in Logs /\ s \in 0..MaxSeq /\ s \in Nat /\ q \in Seq(Numbers) /\ s = l.seq + 1
      BY <1>1, <1>2
    <2> HIDE DEF x, q, s, n
    <2>3. /\ x \in Logs /\ x.seq = s /\ x.next = s /\ x.queue = q
          /\ x.ws = l.ws /\ x.qspi = l.qspi /\ x.faults = l.faults /\ x.erase = l.erase
          /\ x.chunk = l.chunk /\ x.written = l.written /\ x.total = l.total
          /\ x.cap = l.cap /\ x.addr = l.addr /\ x.ring = l.ring /\ x.meta = l.meta
          /\ x.boots = l.boots
      BY <2>1, <2>2 DEF Logs
    <2> QED
      BY <2>2, <2>3
  <1> HIDE DEF x, q, n
  <1>5. /\ l.next <= l.seq /\ l.cap.target <= l.seq
        /\ l.total + Len(l.chunk) + n <= l.seq
        /\ l.cap.post + n <= l.seq /\ n <= QueueMax /\ n # QueueMax
    BY DEF Base, Sized, n
  <1>6. Sized(x)
    <2>1. l.cap.target \in Nat /\ l.cap.post \in Nat
      BY <1>1, CaptureTypes
    <2>2. /\ x.next <= x.seq /\ x.cap.target <= x.seq
          /\ x.total + Len(x.chunk) + (n + 1) <= x.seq
          /\ x.cap.post + (n + 1) <= x.seq
      <3> DEFINE s == l.seq
                 t == l.total + Len(l.chunk)
                 p == l.cap.post
                 g == l.cap.target
      <3>1. s \in Nat /\ t \in Nat /\ p \in Nat /\ g \in Nat /\ n \in Nat
        BY <1>1, <2>1
      <3>2. g <= s /\ t + n <= s /\ p + n <= s
        BY <1>5
      <3>3. /\ x.next = s + 1 /\ x.cap.target = g /\ x.seq = s + 1
            /\ x.total + Len(x.chunk) = t /\ x.cap.post = p
        BY <1>4
      <3> HIDE DEF s, t, p, g
      <3>4. s + 1 <= s + 1 /\ g <= s + 1 /\ t + (n + 1) <= s + 1 /\ p + (n + 1) <= s + 1
        BY <3>1, <3>2
      <3> QED
        BY <3>3, <3>4
    <2>3. n + 1 <= QueueMax
      BY <1>1, <1>5, BoundsAssumption
    <2> QED
      BY <1>2, <1>4, <2>2, <2>3 DEF Base, Sized
  <1>7. Lined(x)
    <2>0. \A i \in 1..n : l.queue[i] \in Nat /\ l.queue[i] < l.seq
      <3> TAKE i \in 1..n
      <3>1. l.queue[i] \in Nat
        <4>1. l.queue[i] \in Numbers
          BY <1>1, <1>2
        <4> QED
          BY <4>1 DEF Numbers
      <3>2. l.queue[i] < l.next
        BY <1>2 DEF Base, Lined
      <3> QED
        BY <1>1, <1>5, <3>1, <3>2
    <2>1. \A i \in DOMAIN l.chunk : l.chunk[i] \in Nat /\ l.chunk[i] < l.seq
      <3> TAKE i \in DOMAIN l.chunk
      <3>1. l.chunk[i] \in Nat
        <4>1. l.chunk[i] \in Numbers
          BY <1>1, <1>2
        <4> QED
          BY <4>1 DEF Numbers
      <3>2. l.chunk[i] < l.next
        BY <1>2 DEF Base, Lined
      <3> QED
        BY <1>1, <1>5, <3>1, <3>2
    <2>2. ASSUME NEW i \in 1..n + 1, NEW j \in 1..n + 1, i < j
          PROVE  q[i] < q[j]
      <3>1. i \in 1..n
        BY <1>1, <2>2
      <3>2. CASE j = n + 1
        BY <1>2, <2>0, <3>1, <3>2
      <3>3. CASE j \in 1..n
        <4>1. l.queue[i] < l.queue[j]
          BY <1>2, <2>2, <3>1, <3>3 DEF Base, Lined
        <4> QED
          BY <1>2, <3>1, <3>3, <4>1
      <3> QED
        BY <1>1, <3>2, <3>3
    <2>3. ASSUME NEW i \in DOMAIN l.chunk, NEW j \in 1..n + 1
          PROVE  l.chunk[i] < q[j]
      <3>2. CASE j = n + 1
        BY <1>2, <2>1, <3>2
      <3>3. CASE j \in 1..n
        <4>1. l.chunk[i] < l.queue[j]
          BY <1>2, <3>3 DEF Base, Lined
        <4> QED
          BY <1>2, <3>3, <4>1
      <3> QED
        BY <1>1, <3>2, <3>3
    <2>4. ASSUME NEW i \in 1..n + 1
          PROVE  q[i] < l.seq + 1
      <3>1. CASE i = n + 1
        BY <1>1, <1>2, <3>1
      <3>2. CASE i \in 1..n
        BY <1>1, <1>2, <2>0, <3>2
      <3> QED
        BY <1>1, <3>1, <3>2
    <2>5. \A i \in DOMAIN l.chunk : l.chunk[i] < l.seq + 1
      BY <1>1, <2>1
    <2>6. q[Len(q)] = (l.seq + 1) - 1
      BY <1>1, <1>2
    <2>7. DOMAIN x.queue = 1..n + 1 /\ x.queue = q /\ x.chunk = l.chunk /\ q # <<>>
          /\ x.next = l.seq + 1
      BY <1>2, <1>4
    <2> QED
      <3>1. \A i, j \in DOMAIN x.queue : i < j => x.queue[i] < x.queue[j]
        BY <2>2, <2>7
      <3>2. \A i \in DOMAIN x.chunk, j \in DOMAIN x.queue : x.chunk[i] < x.queue[j]
        BY <2>3, <2>7
      <3>3. \A i \in DOMAIN x.queue : x.queue[i] < x.next
        BY <2>4, <2>7
      <3>4. \A i \in DOMAIN x.chunk : x.chunk[i] < x.next
        BY <2>5, <2>7
      <3>5. x.queue # <<>> /\ x.queue[Len(x.queue)] = x.next - 1
        BY <2>6, <2>7
      <3> QED
        BY <3>1, <3>2, <3>3, <3>4, <3>5 DEF Lined
  <1>8. Owing(x) /\ Retained(x)
    BY <1>3, <1>4 DEF Base, Owing, Retained, Since
  <1>9. Lead(x) = Lead(l) /\ Blanked(x) = Blanked(l) /\ (Erasing(x) <=> Erasing(l))
        /\ Disturbances(x) = Disturbances(l) /\ FirstLen(x) = FirstLen(l)
        /\ (Split(x) <=> Split(l))
    BY <1>4 DEF Lead, Blanked, Erasing, Disturbances, FirstLen, Split
  <1>10. Disturbances(x) = 0 => Laid(x)
    BY <1>4, <1>9 DEF Base, Laid
  <1> QED
    BY <1>4, <1>6, <1>7, <1>8, <1>10 DEF Base, x, q

\* A capture begins.
LEMMA BegunHeld ==
    ASSUME NEW l, NEW d, Held(l, d), d.state = "idle", NEW window \in Nat
    PROVE  Held([l EXCEPT !.cap = Begun(l), !.dumps = l.dumps + 1],
                [NoDump EXCEPT !.state = "flushing", !.window = window])
  <1> DEFINE c == Begun(l)
             x == [l EXCEPT !.cap = c, !.dumps = l.dumps + 1]
             y == [NoDump EXCEPT !.state = "flushing", !.window = window]
             o == ToSet(l.chunk) \cup ToSet(l.queue)
             b == l.chunk # <<>> /\ Last(l.chunk) = l.next - 1
  <1>1. /\ l \in Logs /\ Base(l) /\ l.chunk \in Seq(Numbers) /\ l.queue \in Seq(Numbers)
        /\ l.next \in Nat /\ l.dumps + 1 \in Nat
    BY LogTypes DEF Held, Base
  <1>2. o \subseteq Numbers /\ b \in BOOLEAN
    BY <1>1 DEF ToSet
  <1>3. /\ c \in Captures /\ c.active = TRUE /\ c.ready = FALSE /\ c.failed = FALSE
        /\ c.protected = FALSE /\ c.hold = FALSE /\ c.target = l.next /\ c.endAddr = 0
        /\ c.available = 0 /\ c.post = 0 /\ c.owed = o /\ c.consumed = b
    <2>1. c = [NoCapture EXCEPT !.active = TRUE, !.target = l.next, !.consumed = b,
                                !.owed = o]
      BY DEF Begun
    <2>2. 0 \in Cells /\ 0 \in 0..Capacity
      BY Sizes, CapacityFacts DEF Cells
    <2> HIDE DEF c, b, o
    <2> QED
      BY <1>1, <1>2, <2>1, <2>2 DEF NoCapture, Captures
  <1>4. b => l.chunk # <<>> /\ l.chunk[Len(l.chunk)] = l.next - 1
    BY DEF Last
  <1> HIDE DEF c, b
  <1>5. /\ x \in Logs
        /\ x.ws = l.ws /\ x.qspi = l.qspi /\ x.faults = l.faults /\ x.erase = l.erase
        /\ x.queue = l.queue /\ x.chunk = l.chunk /\ x.written = l.written
        /\ x.seq = l.seq /\ x.next = l.next /\ x.total = l.total
        /\ x.addr = l.addr /\ x.ring = l.ring /\ x.meta = l.meta /\ x.boots = l.boots
        /\ x.cap = c
    BY <1>1, <1>3 DEF Logs
  <1> HIDE DEF x
  <1>6. Sized(x) /\ Lined(x)
    <2>1. /\ l.seq \in Nat /\ l.total \in Nat /\ Len(l.queue) \in Nat /\ Len(l.chunk) \in Nat
          /\ l.next <= l.seq /\ l.total + Len(l.chunk) + Len(l.queue) <= l.seq
      <3>1. l.seq \in 0..MaxSeq /\ l.total \in Nat
        BY <1>1, LogTypes
      <3>2. l.seq \in Nat
        BY <3>1, BoundsAssumption
      <3>3. Len(l.queue) \in Nat /\ Len(l.chunk) \in Nat
        BY <1>1
      <3>4. l.next <= l.seq /\ l.total + Len(l.chunk) + Len(l.queue) <= l.seq
        BY <1>1 DEF Base, Sized
      <3> QED
        BY <3>1, <3>2, <3>3, <3>4
    <2>2. 0 <= l.total /\ 0 + Len(l.queue) <= l.seq
      BY <2>1
    <2>3. Sized(x)
      BY <1>1, <1>3, <1>5, <2>1, <2>2 DEF Base, Sized
    <2> QED
      BY <1>1, <1>5, <2>3 DEF Base, Lined
  <1>7. Owing(x)
    <2>1. ASSUME NEW v \in o
          PROVE  v <= l.next - 1
      <3>1. v \in Nat /\ v < l.next
        <4>1. v \in Numbers
          BY <1>2
        <4>2. v < l.next
          BY <1>1 DEF ToSet, Base, Lined
        <4> QED
          BY <4>1, <4>2 DEF Numbers
      <3> QED
        BY <1>1, <3>1
    <2>2. o \subseteq ToSet(x.written) \cup ToSet(x.chunk) \cup ToSet(x.queue)
      BY <1>5
    <2> HIDE DEF o
    <2> QED
      BY <1>3, <1>4, <1>5, <2>1, <2>2 DEF Owing
  <1>8. Retained(x)
    BY <1>3, <1>5 DEF Retained
  <1>9. Lead(x) = Lead(l) /\ Blanked(x) = Blanked(l) /\ (Erasing(x) <=> Erasing(l))
        /\ Disturbances(x) = Disturbances(l) /\ FirstLen(x) = FirstLen(l)
        /\ (Split(x) <=> Split(l))
    BY <1>5 DEF Lead, Blanked, Erasing, Disturbances, FirstLen, Split
  <1>10. Disturbances(x) = 0 => Laid(x)
    BY <1>1, <1>5, <1>9 DEF Base, Laid
  <1>11. /\ y \in Dumps /\ y.state = "flushing" /\ y.count = 0
         /\ y.left = 0 /\ y.buffer = <<>> /\ y.file = <<>>
    <2>1. /\ NoDump \in Dumps /\ NoDump.count = 0 /\ NoDump.left = 0
          /\ NoDump.buffer = <<>> /\ NoDump.file = <<>>
      BY Sizes DEF NoDump, Dumps, Cells
    <2>2. y = [NoDump EXCEPT !.state = "flushing", !.window = window]
      OBVIOUS
    <2> HIDE DEF y
    <2> QED
      BY <2>1, <2>2 DEF Dumps
  <1> HIDE DEF y
  <1>12. Advanced(x, y) /\ Exported(x, y)
    BY <1>3, <1>5, <1>11 DEF Advanced, Progress, Exporting, Exported
  <1> QED
    BY <1>5, <1>6, <1>7, <1>8, <1>10, <1>11, <1>12 DEF Held, Base, x, y, c

\* The log at the start, on a blank chip or after a reset, with the metadata
\* the boot takes.
Fresh(ring, sl, taken, l) ==
    LET addr == IF taken = NoMeta THEN 0 ELSE taken.addr
    IN  [queue |-> <<>>, chunk |-> <<>>, ws |-> "idle", qspi |-> "none",
         seq |-> l.seq, next |-> 0, total |-> 0, written |-> <<>>,
         addr |-> addr, erase |-> (addr \div Sector) * Sector,
         meta |-> Booted(taken, addr), cap |-> NoCapture,
         ring |-> ring, slots |-> sl, faults |-> l.faults,
         boots |-> l.boots + 1, saves |-> l.saves, dumps |-> l.dumps]

AtStart(x, ring, taken, l) ==
    /\ x \in Logs /\ Sized(x) /\ Lined(x) /\ Owing(x) /\ Retained(x)
    /\ x.faults = l.faults /\ x.boots = l.boots + 1 /\ x.cap = NoCapture
    /\ x.ring = ring /\ x.ws = "idle" /\ x.qspi = "none" /\ x.meta.op = "none"
    /\ x.written = <<>> /\ x.chunk = <<>>
    /\ taken = NoMeta => x.addr = 0 /\ x.erase = 0

\* The log after log_init.
LEMMA FreshFacts ==
    ASSUME NEW ring \in [Cells -> Contents], NEW sl \in SlotStates,
           NEW taken \in MetaRecord \cup {NoMeta},
           NEW l, l.seq \in 0..MaxSeq, l.faults \in Nat, l.boots \in Nat,
           l.saves \in Nat, l.dumps \in Nat,
           NEW x, x = Fresh(ring, sl, taken, l)
    PROVE  AtStart(x, ring, taken, l)
  <1> DEFINE addr == IF taken = NoMeta THEN 0 ELSE taken.addr
             erase == (addr \div Sector) * Sector
             meta1 == Booted(taken, addr)
  <1>1. addr \in Cells /\ (taken = NoMeta => addr = 0)
    BY Sizes DEF Cells, MetaRecord
  <1>2. erase \in Frontiers /\ (addr = 0 => erase = 0)
    <2> HIDE DEF addr
    <2>1. addr \in Nat /\ addr < Ring /\ Sector \in Nat /\ Sector >= 1 /\ Ring \in Nat
      BY <1>1, Sizes DEF Cells
    <2> DEFINE q == addr \div Sector
    <2>2. q \in Int /\ q >= 0 /\ Sector * q <= addr /\ (addr = 0 => q = 0)
      BY <2>1
    <2> HIDE DEF q
    <2>3. /\ q * Sector = Sector * q /\ (Sector * q) % Sector = 0 /\ Sector * q >= 0
          /\ Sector * q \in Int /\ (q = 0 => Sector * q = 0)
      BY <2>1, <2>2, Multiples
    <2>4. erase = Sector * q
      BY <2>3 DEF q
    <2> QED
      BY <2>1, <2>2, <2>3, <2>4 DEF Frontiers, Cells
  <1>3. meta1 \in MetaState
    BY <1>1, BootedFacts
  <1>4. meta1.op = "none" /\ meta1.save # "idle"
    BY <1>1 DEF Booted, SaveMeta, FreshMeta, LoadedMeta
  <1>5. x = [queue |-> <<>>, chunk |-> <<>>, ws |-> "idle", qspi |-> "none",
             seq |-> l.seq, next |-> 0, total |-> 0, written |-> <<>>,
             addr |-> addr, erase |-> erase, meta |-> meta1, cap |-> NoCapture,
             ring |-> ring, slots |-> sl, faults |-> l.faults,
             boots |-> l.boots + 1, saves |-> l.saves, dumps |-> l.dumps]
    BY DEF Fresh
  <1> HIDE DEF addr, erase, meta1
  <1>6. /\ NoCapture \in Captures /\ ~NoCapture.active /\ ~NoCapture.ready
        /\ NoCapture.post = 0 /\ ~NoCapture.protected /\ ~NoCapture.hold
        /\ NoCapture.target = 0 /\ NoCapture.available = 0
    BY CapacityFacts, Sizes DEF NoCapture, Captures, Cells
  <1>7. /\ x \in Logs
        /\ x.queue = <<>> /\ x.chunk = <<>> /\ x.ws = "idle" /\ x.qspi = "none"
        /\ x.seq = l.seq /\ x.next = 0 /\ x.total = 0 /\ x.written = <<>>
        /\ x.addr = addr /\ x.erase = erase /\ x.meta = meta1 /\ x.cap = NoCapture
        /\ x.ring = ring /\ x.faults = l.faults /\ x.boots = l.boots + 1
    <2>1. <<>> \in Seq(Numbers) /\ "none" \in Operations /\ 0 \in Nat
      BY DEF Operations
    <2> QED
      BY <1>1, <1>2, <1>3, <1>5, <1>6, <2>1 DEF Logs
  <1>8. Sized(x)
    <2>1. Len(x.queue) = 0 /\ Len(x.chunk) = 0 /\ Len(x.written) = 0
      BY <1>7
    <2>2. 0 <= QueueMax /\ 0 <= ChunkRecords /\ 0 <= l.seq /\ l.boots + 1 >= 1
      BY BoundsAssumption, Sizes
    <2> QED
      BY <1>4, <1>6, <1>7, <2>1, <2>2 DEF Sized
  <1>9. Lined(x) /\ Owing(x) /\ Retained(x)
    BY <1>6, <1>7 DEF Lined, Owing, Retained
  <1> QED
    BY <1>1, <1>2, <1>4, <1>7, <1>8, <1>9 DEF AtStart

\* The invariant holds of a blank chip.
LEMMA InitHeld ==
    ASSUME Init
    PROVE  IInv
  <1> DEFINE ring == [c \in Cells |-> Blank]
             sl == [p \in Parities |-> NoMeta]
             l == [seq |-> 0, faults |-> 0, boots |-> 0, saves |-> 0, dumps |-> 0]
             x == Fresh(ring, sl, NoMeta, l)
  <1>1. log = x /\ dump = NoDump
    BY DEF Init, Started, Fresh, Booted
  <1>2. ring \in [Cells -> Contents] /\ \A c \in Cells : ring[c] = Blank
    BY DEF Contents
  <1>3. sl \in SlotStates
    BY DEF SlotStates
  <1>4. l.seq \in 0..MaxSeq /\ l.faults = 0 /\ l.boots = 0 /\ l.faults \in Nat
        /\ l.boots \in Nat /\ l.saves \in Nat /\ l.dumps \in Nat
    BY BoundsAssumption
  <1> HIDE DEF ring, sl, l
  <1>5. /\ x \in Logs /\ Sized(x) /\ Lined(x) /\ Owing(x) /\ Retained(x)
        /\ x.faults = l.faults /\ x.boots = l.boots + 1 /\ x.cap = NoCapture
        /\ x.ring = ring /\ x.ws = "idle" /\ x.qspi = "none" /\ x.meta.op = "none"
        /\ x.written = <<>> /\ x.chunk = <<>>
        /\ x.addr = 0 /\ x.erase = 0
    <2>1. NoMeta \in MetaRecord \cup {NoMeta}
      OBVIOUS
    <2>2. x = Fresh(ring, sl, NoMeta, l)
      OBVIOUS
    <2> HIDE DEF x
    <2>3. AtStart(x, ring, NoMeta, l)
      BY <1>2, <1>3, <1>4, <2>1, <2>2, FreshFacts
    <2> QED
      BY <2>3 DEF AtStart
  <1> HIDE DEF x
  <1>6. Laid(x)
    <2>1. Lead(x) = 0 /\ ~Erasing(x) /\ Blanked(x) = 0
      BY <1>5 DEF Lead, Erasing, Blanked
    <2>2. 0 < (PreErase + 1) * Sector
      BY Sizes
    <2>3. \A c \in Cells : x.ring[c] # Mixed
      BY <1>2, <1>5 DEF Blank, Mixed
    <2>4. Record * Len(x.written) = 0
      BY <1>5, Sizes
    <2>5. \A m \in 1..Ring - Lead(x) : ~(m <= Record * Len(x.written))
      BY <2>1, <2>4, Sizes
    <2>6. \A i \in (IF x.ws = "second" THEN FirstLen(x) ELSE 0)..Blanked(x) - 1 :
            x.ring[Forward(x.addr, i)] = Blank
      BY <1>5, <2>1
    <2> QED
      BY <1>5, <2>1, <2>2, <2>3, <2>5, <2>6 DEF Laid
  <1>7. /\ NoDump \in Dumps /\ NoDump.state = "idle" /\ NoDump.count = 0
        /\ NoDump.left = 0 /\ NoDump.buffer = <<>> /\ NoDump.file = <<>>
    BY Sizes DEF NoDump, Dumps, Cells
  <1>8. ~x.cap.active /\ ~x.cap.ready /\ ~x.cap.protected
    BY <1>5 DEF NoCapture
  <1>9. Advanced(x, NoDump) /\ Exported(x, NoDump)
    BY <1>7, <1>8 DEF Advanced, Progress, Exporting, Exported
  <1> QED
    BY <1>1, <1>5, <1>6, <1>7, <1>9 DEF IInv, Held, Base

\* log_push_record preserves the invariant.
LEMMA PushHeld ==
    ASSUME IInv, Push
    PROVE  IInv'
  <1>1. Held(log, dump) /\ Base(log) /\ log \in Logs /\ log.seq \in 0..MaxSeq
    BY LogTypes DEF IInv, Held, Base
  <1>2. log.seq < MaxSeq
    <2>1. log'.seq = log.seq + 1
      BY <1>1 DEF Push, Logs
    <2>2. log'.seq <= MaxSeq
      <3>1. log'.seq <= IF Disturbances(log') = 0 THEN MaxSeq ELSE MaxSeqAfter
        BY DEF Push, InBounds
      <3> QED
        BY <1>1, <2>1, <3>1, BoundsAssumption
    <2> QED
      BY <1>1, <2>1, <2>2, BoundsAssumption
  <1>3. dump' = dump
    BY DEF Push
  <1>4. CASE log' = [log EXCEPT !.seq = log.seq + 1]
    <2>1. Base(log')
      BY <1>1, <1>2, <1>4, DroppedBase
    <2>2. /\ log'.cap = log.cap /\ log'.total = log.total /\ log'.written = log.written
          /\ log'.faults = log.faults /\ log'.boots = log.boots
      BY <1>1, <1>4 DEF Logs
    <2>3. Disturbances(log') = Disturbances(log)
      BY <2>2 DEF Disturbances
    <2> QED
      BY <1>1, <1>3, <2>1, <2>2, <2>3, HeldAlong DEF IInv
  <1>5. CASE /\ log' = [log EXCEPT !.seq = log.seq + 1, !.next = log.seq + 1,
                                   !.queue = Append(log.queue, log.seq)]
             /\ Len(log.queue) # QueueMax
    <2>1. Base(log')
      BY <1>1, <1>2, <1>5, QueuedBase
    <2>2. /\ log'.cap = log.cap /\ log'.total = log.total /\ log'.written = log.written
          /\ log'.faults = log.faults /\ log'.boots = log.boots
      BY <1>1, <1>5 DEF Logs
    <2>3. Disturbances(log') = Disturbances(log)
      BY <2>2 DEF Disturbances
    <2> QED
      BY <1>1, <1>3, <2>1, <2>2, <2>3, HeldAlong DEF IInv
  <1> QED
    BY <1>4, <1>5 DEF Push

\* The idle tick preserves it: the writer, the erase-ahead and the dump in turn.
LEMMA IdleTickHeld ==
    ASSUME IInv, NEW safe \in BOOLEAN, NEW ends \in BOOLEAN, IdleTick(safe, ends)
    PROVE  IInv'
  <1>1. PICK polled \in Polled(log.qspi) :
           \E l \in WriterTick(log, polled, Blocks(dump)) :
           \E e \in EraseTick(l, Blocks(dump)) :
           \E o \in DumpTick(e, dump, safe) : log' = o.log /\ dump' = o.dump
    BY DEF IdleTick
  <1>2. PICK l \in WriterTick(log, polled, Blocks(dump)) :
           \E e \in EraseTick(l, Blocks(dump)) :
           \E o \in DumpTick(e, dump, safe) : log' = o.log /\ dump' = o.dump
    BY <1>1
  <1>3. PICK e \in EraseTick(l, Blocks(dump)) :
           \E o \in DumpTick(e, dump, safe) : log' = o.log /\ dump' = o.dump
    BY <1>2
  <1>4. PICK o \in DumpTick(e, dump, safe) : log' = o.log /\ dump' = o.dump
    BY <1>3
  <1>5. Held(log, dump) /\ Base(log) /\ (log.cap.ready => log.cap.protected)
        /\ Blocks(dump) \in BOOLEAN
    BY DEF IInv, Held, Advanced, Blocks
  <1>6. Base(l) /\ Continues(log, l)
    BY <1>5, WriterBase
  <1>7. Base(e) /\ Continues(l, e)
    <2>1. l.meta.op # "none" => l.meta.save # "idle"
      BY <1>6 DEF Base, Sized
    <2> QED
      BY <1>5, <1>6, <2>1, EraseTickBase
  <1>8. Continues(log, e)
    BY <1>5, <1>6, <1>7, ContinuesOn DEF Base
  <1>9. Between(e, dump)
    BY <1>5, <1>7, <1>8, ToBetween
  <1>10. Held(o.log, o.dump)
    BY <1>9, DumpTickBase
  <1> QED
    BY <1>4, <1>10 DEF IInv

\* A request for a dump preserves it.
LEMMA RequestHeld ==
    ASSUME IInv, NEW window \in Windows, Request(window)
    PROVE  IInv'
  <1>1. window \in Nat /\ dump.state = "idle" /\ Held(log, dump)
    BY BoundsAssumption DEF Request, IInv
  <1>2. /\ log' = [log EXCEPT !.cap = Begun(log), !.dumps = log.dumps + 1]
        /\ dump' = [NoDump EXCEPT !.state = "flushing", !.window = window]
    BY DEF Request
  <1> QED
    BY <1>1, <1>2, BegunHeld DEF IInv

\* A reset preserves it: it leaves nothing in RAM, and the ring to any state.
LEMMA ResetHeld ==
    ASSUME IInv, Reset
    PROVE  IInv'
  <1>1. /\ log \in Logs /\ log.meta \in MetaState /\ log.slots \in SlotStates
        /\ log.seq \in 0..MaxSeq /\ log.faults \in Nat /\ log.boots \in Nat
        /\ log.saves \in Nat /\ log.dumps \in Nat /\ log.boots >= 1
    BY LogTypes DEF IInv, Held, Base, Sized
  <1>2. PICK ring \in Landed(log, "error"), sl \in HalfDone(log.meta, log.slots) :
           LET chosen == Chosen(sl, Parities)
           IN  \E tailValid \in TailValid(ring, IF chosen = NoMeta THEN 0 ELSE chosen.addr) :
                  log' = Started(ring, sl, chosen, tailValid, log)
    BY DEF Reset
  <1> DEFINE chosen == Chosen(sl, Parities)
  <1>3. PICK tailValid \in TailValid(ring, IF chosen = NoMeta THEN 0 ELSE chosen.addr) :
           log' = Started(ring, sl, chosen, tailValid, log)
    BY <1>2
  <1>4. ring \in [Cells -> Contents] /\ sl \in SlotStates /\ tailValid \in BOOLEAN
    <2>1. tailValid \in BOOLEAN
      BY DEF TailValid
    <2> QED
      BY <1>1, <2>1, LandedTyped, HalfDoneFacts
  <1>5. chosen \in MetaRecord \cup {NoMeta}
    <2>1. CASE chosen # NoMeta
      <3>1. PICK p \in Parities : InSlot(sl, p) /\ chosen = sl[p]
        BY <1>4, <2>1, ChosenFacts
      <3> QED
        BY <1>4, <3>1, InSlotFacts
    <2> QED
      BY <2>1
  <1> DEFINE taken == IF tailValid THEN chosen ELSE NoMeta
  <1>0. log' = Fresh(ring, sl, taken, log) /\ taken \in MetaRecord \cup {NoMeta}
    <2> HIDE DEF chosen
    <2>1. (tailValid /\ chosen # NoMeta) <=> taken # NoMeta
      OBVIOUS
    <2>2. taken # NoMeta => taken = chosen
      OBVIOUS
    <2>3. taken \in MetaRecord \cup {NoMeta}
      BY <1>5
    <2>4. log' = Fresh(ring, sl, taken, log)
      BY <1>3, <2>1, <2>2 DEF Started, Fresh, Booted
    <2> QED
      BY <2>3, <2>4
  <1> HIDE DEF chosen, taken
  <1>6. /\ log' \in Logs /\ Sized(log') /\ Lined(log') /\ Owing(log') /\ Retained(log')
        /\ log'.faults = log.faults /\ log'.boots = log.boots + 1 /\ log'.cap = NoCapture
    <2>1. AtStart(log', ring, taken, log)
      BY <1>0, <1>1, <1>4, FreshFacts
    <2> QED
      BY <2>1 DEF AtStart
  <1>7. Disturbances(log') # 0
    BY <1>1, <1>6 DEF Disturbances
  <1>8. /\ NoDump \in Dumps /\ NoDump.state = "idle" /\ NoDump.count = 0
        /\ NoDump.left = 0 /\ NoDump.buffer = <<>> /\ NoDump.file = <<>>
    BY Sizes DEF NoDump, Dumps, Cells
  <1>9. ~log'.cap.active /\ ~log'.cap.ready /\ ~log'.cap.protected
    BY <1>6 DEF NoCapture
  <1>10. Advanced(log', NoDump)
    BY <1>8, <1>9 DEF Advanced, Progress, Exporting
  <1>11. dump' = NoDump
    BY DEF Reset
  <1> QED
    BY <1>6, <1>7, <1>8, <1>10, <1>11 DEF IInv, Held, Base

\* The invariant holds in every state, for any ring, queue, chunk and window.
THEOREM Invariance == Spec => []IInv
  <1>1. Init => IInv
    BY InitHeld
  <1>2. IInv /\ [Next]_vars => IInv'
    <2> SUFFICES ASSUME IInv, [Next]_vars
                 PROVE  IInv'
      OBVIOUS
    <2>1. CASE Push
      BY <2>1, PushHeld
    <2>2. CASE \E safe, ends \in BOOLEAN : IdleTick(safe, ends)
      BY <2>2, IdleTickHeld
    <2>3. CASE \E window \in Windows : Request(window)
      BY <2>3, RequestHeld
    <2>4. CASE Reset
      BY <2>4, ResetHeld
    <2>5. CASE UNCHANGED vars
      BY <2>5 DEF vars, IInv
    <2> QED
      BY <2>1, <2>2, <2>3, <2>4, <2>5 DEF Next
  <1> QED
    BY <1>1, <1>2, PTL DEF Spec

-----------------------------------------------------------------------------
(* What the invariant says.                                                  *)

\* The types, and the sizes of the queue, the chunk and the reads.
THEOREM TypeCorrect == Spec => []TypeOK
  <1>1. ASSUME IInv
        PROVE  TypeOK
    <2>1. /\ log \in Logs /\ dump \in Dumps /\ Base(log) /\ Advanced(log, dump)
      BY <1>1 DEF IInv, Held, Base
    <2>2. /\ log.queue \in Seq(Numbers) /\ log.chunk \in Seq(Numbers)
          /\ log.ws \in {"idle", "first", "second"} /\ log.qspi \in Operations
          /\ log.seq \in 0..MaxSeq /\ log.next \in Nat /\ log.total \in Nat
          /\ log.addr \in Cells /\ log.erase \in Frontiers /\ log.meta \in MetaState
          /\ log.cap \in Captures /\ log.ring \in [Cells -> Contents]
          /\ log.slots \in SlotStates
      BY <2>1, LogTypes
    <2>3. /\ Len(log.queue) <= QueueMax /\ Len(log.chunk) <= ChunkRecords
          /\ log.next <= log.seq /\ log.cap.target <= log.seq
          /\ log.total = Len(log.written) /\ log.cap.available <= log.total
          /\ log.total + Len(log.chunk) + Len(log.queue) <= log.seq
          /\ log.cap.post + Len(log.queue) <= log.seq
      BY <2>1 DEF Base, Sized
    <2>4. ASSUME NEW s \in Seq(Numbers), NEW n \in Nat, Len(s) <= n
          PROVE  s \in SeqOf(Numbers, n)
      <3>1. Len(s) \in 0..n /\ s \in [1..Len(s) -> Numbers]
        BY <2>4
      <3> QED
        BY <3>1 DEF SeqOf
    <2>5. log.queue \in SeqOf(Numbers, QueueMax) /\ log.chunk \in SeqOf(Numbers, ChunkRecords)
      BY <2>2, <2>3, <2>4, BoundsAssumption, GeometryAssumption
    <2>6. log.cap \in CaptureStates
      <3> DEFINE g == log.cap.target
                 v == log.cap.available
                 p == log.cap.post
      <3>1. g \in Nat /\ v \in Nat /\ p \in Nat
        BY <2>2, CaptureTypes
      <3>2. Len(log.queue) \in Nat /\ Len(log.chunk) \in Nat /\ log.seq \in Nat
            /\ log.seq <= MaxSeq /\ MaxSeq \in Nat
        BY <2>2, BoundsAssumption
      <3>3. g <= log.seq /\ v <= log.total /\ p + Len(log.queue) <= log.seq
            /\ log.total + Len(log.chunk) + Len(log.queue) <= log.seq
        BY <2>3
      <3> HIDE DEF g, v, p
      <3>4. g \in 0..MaxSeq /\ p \in 0..MaxSeq
        BY <3>1, <3>2, <3>3
      <3>5. log.total <= log.seq
        BY <2>2, <3>2, <3>3
      <3>6. v \in 0..MaxSeq
        BY <2>2, <3>1, <3>2, <3>3, <3>5
      <3> QED
        BY <2>2, <3>4, <3>6 DEF Captures, CaptureStates, g, v, p
    <2>7. log.next \in 0..log.seq
      BY <2>2, <2>3
    <2>8. \A c \in Cells : log.ring[c] \in Numbers \cup {Blank, Mixed}
      BY <2>2 DEF Contents
    <2>9. \A p \in Parities : log.slots[p] \in MetaRecord \cup {NoMeta}
      BY <2>2 DEF SlotStates
    <2>10. dump.left + Len(dump.buffer) + Len(dump.file) \in {0, dump.count * Record}
      <3>1. CASE Exporting(dump)
        <4>1. dump.left + Len(dump.buffer) + Len(dump.file) = Record * dump.count
          BY <2>1, <3>1 DEF Advanced, Progress
        <4>2. dump.count \in Nat /\ Record \in Nat
          BY <2>1, DumpTypes, Sizes
        <4>3. dump.count * Record = Record * dump.count
          BY <4>2
        <4> QED
          BY <4>1, <4>3
      <3>2. CASE ~Exporting(dump)
        BY <2>1, <3>2 DEF Advanced, Progress
      <3> QED
        BY <3>1, <3>2
    <2>11. log.cap.active <=> dump.state # "idle"
      BY <2>1 DEF Advanced
    <2>12. log.erase \in {c \in Cells : c % Sector = 0}
      BY <2>2 DEF Frontiers
    <2> QED
      BY <2>2, <2>3, <2>5, <2>6, <2>7, <2>8, <2>9, <2>10, <2>11, <2>12 DEF TypeOK
  <1>2. IInv => TypeOK
    BY <1>1
  <1> QED
    BY <1>2, Invariance, PTL

\* log_flush_write_chunk programs erased cells only: whatever the sizes, and in
\* whatever order pushes, saves, captures and dumps come.
THEOREM ErasedFirst == Spec => []ChunksOnErased
  <1>1. IInv => ChunksOnErased
    BY DEF IInv, Held, Base, Laid, ChunksOnErased, Undisturbed
  <1> QED
    BY <1>1, Invariance, PTL

\* The ring keeps the last records whole and in order, from the write address
\* back to the erase frontier, however often the log has gone round.
THEOREM TailIsKept == Spec => []RingHoldsTail
  <1>1. ASSUME IInv, Undisturbed, NEW k \in 1..Len(log.written), k * Record <= Kept,
               NEW i \in 0..Record - 1
        PROVE  log.ring[Forward(log.addr, Ring - k * Record + i)]
                  = log.written[Len(log.written) - k + 1]
    <2> DEFINE n == Len(log.written)
               m == Record * k - i
    <2>1. log \in Logs /\ Laid(log)
      BY <1>1 DEF IInv, Held, Base, Undisturbed
    <2>2. /\ n \in Nat /\ k \in Nat /\ k >= 1 /\ k <= n /\ Record \in Nat /\ Record >= 1
          /\ i \in Nat /\ i <= Record - 1 /\ Ring \in Nat
      <3>1. log.written \in Seq(Numbers)
        BY <2>1, LogTypes
      <3> QED
        BY <3>1, Sizes
    <2>3. /\ k * Record = Record * k /\ Record * k \in Nat /\ Record * n \in Nat
          /\ Record * k <= Record * n
          /\ Record * (k - 1) = Record * k - Record /\ Record * (k - 1) \in Int
      <3> HIDE DEF n
      <3>1. k \in Int /\ n \in Int /\ k - 1 \in Int /\ 1 \in Int /\ Record * 1 = Record
        BY <2>2
      <3>2. Record * k <= Record * n /\ Record * (k - 1) = Record * k - Record * 1
            /\ Record * (k - 1) \in Int
        BY <2>2, <3>1, Products
      <3>3. k * Record = Record * k /\ Record * k \in Nat /\ Record * n \in Nat
        BY <2>2, Products
      <3> QED
        BY <3>1, <3>2, <3>3
    <2>4. Record * k <= Ring - Lead(log) /\ Lead(log) \in 0..Ring - 1
      <3>1. log.addr \in Cells /\ log.erase \in Cells
        BY <2>1, LogTypes
      <3> QED
        BY <1>1, <2>3, <3>1, LeadFacts DEF Kept
    <2>5. /\ m \in 1..Ring - Lead(log) /\ m <= Record * n
          /\ Ring - k * Record + i = Ring - m
          /\ Record * (k - 1) <= m - 1 /\ m - 1 < Record * (k - 1) + Record
          /\ m - 1 \in Int
      <3> DEFINE w == Record * k
                 d == Lead(log)
      <3>1. /\ w \in Nat /\ w >= Record /\ w <= Ring - d /\ d \in 0..Ring - 1
            /\ k * Record = w /\ Record * (k - 1) = w - Record /\ w <= Record * n
            /\ m = w - i /\ Record * n \in Nat
        <4>1. Record * 1 <= Record * k /\ Record * 1 = Record
          BY <2>2, Products
        <4> QED
          BY <2>3, <2>4, <4>1
      <3> HIDE DEF w, d, m
      <3>2. m \in 1..Ring - d /\ m <= Record * n
        BY <2>2, <3>1
      <3>3. (Ring - w) + i = Ring - m /\ w - Record <= m - 1 /\ m - 1 < (w - Record) + Record
            /\ m - 1 \in Int
        BY <2>2, <3>1
      <3> QED
        BY <3>1, <3>2, <3>3 DEF d
    <2> HIDE DEF m
    <2>6. log.ring[Forward(log.addr, Ring - m)] = CellBack(log.written, m)
      BY <2>1, <2>5 DEF Laid
    <2>7. (m - 1) \div Record = k - 1
      <3>1. k - 1 \in Int
        BY <2>2
      <3> QED
        BY <2>5, <3>1, Quotient
    <2>8. CellBack(log.written, m) = log.written[n - (k - 1)]
      BY <2>7 DEF CellBack
    <2>9. n - (k - 1) = n - k + 1
      BY <2>2
    <2> QED
      BY <2>5, <2>6, <2>8, <2>9
  <1>2. IInv => RingHoldsTail
    BY <1>1 DEF RingHoldsTail
  <1> QED
    BY <1>2, Invariance, PTL

\* A capture is ready only when what it was asked for is in flash, also after
\* failures and resets; log_capture_begin looks into the chunk for that.
THEOREM CaptureIsWhole == Spec => []CapturedWhole
  <1>1. IInv => CapturedWhole
    BY DEF IInv, Held, Base, Owing, CapturedWhole
  <1> QED
    BY <1>1, Invariance, PTL

\* A finished dump is the tail of the log at the capture, whatever was pushed,
\* written and erased since, but for what the erase-ahead took: no more than a
\* sector and the records overrun.
THEOREM DumpIsWhole == Spec => []DumpIsTail
  <1>1. ASSUME IInv, Undisturbed, dump.state = "done",
               dump.count * Record + PreErase * Sector <= Ring
        PROVE  LET n    == log.cap.available
                   tail == CellsOf(SubSeq(log.written, n - dump.count + 1, n))
               IN  /\ Len(dump.file) = Len(tail)
                   /\ \A i \in DOMAIN tail :
                        \/ dump.file[i] = tail[i]
                        \/ i <= Sector + Record * Overrun /\ dump.file[i] = Blank
    <2> DEFINE n == log.cap.available
               c == dump.count
               s == SubSeq(log.written, n - c + 1, n)
               tail == CellsOf(s)
               w == Record * c
    <2>1. log \in Logs /\ dump \in Dumps /\ Base(log) /\ Advanced(log, dump)
          /\ Exported(log, dump) /\ Exporting(dump)
      BY <1>1 DEF IInv, Held, Base, Undisturbed, Exporting
    <2>2. /\ c \in Nat /\ c >= 1 /\ c <= n /\ dump.left = 0 /\ dump.buffer = <<>>
          /\ dump.left + Len(dump.buffer) + Len(dump.file) = w
          /\ dump.file \in Seq(Contents) /\ Len(dump.file) \in Nat
      BY <1>1, <2>1, DumpTypes DEF Advanced, Progress
    <2>3. /\ n \in Nat /\ log.written \in Seq(Numbers) /\ n <= Len(log.written)
      BY <2>1, LogTypes, CaptureTypes DEF Base, Sized
    <2>4. Len(dump.file) = w /\ dump.file \o dump.buffer = dump.file
      <3>1. Len(dump.buffer) = 0
        BY <2>2
      <3> HIDE DEF w
      <3>2. Len(dump.file) = w
        BY <2>2, <3>1
      <3> QED
        BY <2>2, <3>2
    <2> HIDE DEF n, c
    <2>5. /\ s \in Seq(Numbers) /\ Len(s) = c
          /\ \A j \in 1..c : s[j] = log.written[(n - c) + j]
      <3>1. n - c + 1 \in 1..n + 1 /\ n - (n - c + 1) + 1 = c
        BY <2>2, <2>3
      <3>2. s \in Seq(Numbers) /\ Len(s) = c
        BY <2>2, <2>3, <3>1
      <3>3. ASSUME NEW j \in 1..c
            PROVE  s[j] = log.written[(n - c) + j]
        <4>1. s[j] = log.written[(n - c + 1) + j - 1]
          BY <2>2, <2>3, <3>1
        <4>2. (n - c + 1) + j - 1 = (n - c) + j
          BY <2>2, <2>3
        <4> QED
          BY <4>1, <4>2
      <3> QED
        BY <3>2, <3>3
    <2> HIDE DEF s
    <2>6. /\ Len(tail) = w /\ DOMAIN tail = 1..w /\ w \in Nat
          /\ \A i \in 1..w : /\ (i - 1) \div Record + 1 \in 1..c
                             /\ tail[i] = s[(i - 1) \div Record + 1]
      <3>1. /\ tail \in Seq(Numbers) /\ Len(tail) = w
            /\ \A i \in 1..w : /\ (i - 1) \div Record + 1 \in 1..c
                               /\ tail[i] = s[(i - 1) \div Record + 1]
        BY <2>5, CellsFacts
      <3>2. w \in Nat
        BY <2>2, Products
      <3> HIDE DEF tail, w
      <3> QED
        BY <3>1, <3>2
    <2>7. Fits(dump)
      <3>1. c * Record = Record * c
        BY <2>2, Sizes
      <3> QED
        BY <1>1, <3>1 DEF Fits, c
    <2>8. \A i \in 1..w : \/ dump.file[i] = Dumped(log, dump, i)
                          \/ i <= Sector + Record * Over(log) /\ dump.file[i] = Blank
      <3>1. \A i \in 1..Len(dump.file) + Len(dump.buffer) :
              \/ (dump.file \o dump.buffer)[i] = Dumped(log, dump, i)
              \/ /\ i <= Sector + Record * Over(log)
                 /\ (dump.file \o dump.buffer)[i] = Blank
        BY <2>1, <2>7 DEF Exported
      <3>2. Len(dump.file) + Len(dump.buffer) = w
        BY <2>2, <2>4, <2>6
      <3> QED
        BY <2>4, <3>1, <3>2
    <2>9. Over(log) = Overrun
      BY DEF Over, Overrun, Since
    <2>10. ASSUME NEW i \in 1..w
           PROVE  Dumped(log, dump, i) = tail[i]
      <3> DEFINE q == (i - 1) \div Record
                 p == w - i + 1
      <3>1. i \in Int /\ i - 1 \in Int /\ q \in Int /\ Record * q <= i - 1
            /\ i - 1 < Record * q + Record
        BY <2>6, Quotient
      <3>2. q + 1 \in 1..c /\ tail[i] = s[q + 1]
        BY <2>6
      <3> HIDE DEF q
      <3>3. (p - 1) \div Record = c - 1 - q
        <4>1. c - 1 - q \in Int /\ p - 1 \in Int /\ p - 1 = w - i
          BY <2>2, <2>6, <3>1
        <4>2. /\ Record * (c - 1 - q) = (w - Record) - Record * q
              /\ Record * q \in Int /\ Record \in Nat
          <5>1. c \in Int /\ c - 1 \in Int /\ 1 \in Int /\ Record * 1 = Record
                /\ Record \in Nat
            BY <2>2, Sizes
          <5>2. Record * (c - 1 - q) = Record * (c - 1) - Record * q /\ Record * q \in Int
            BY <3>1, <5>1, Products
          <5>3. Record * (c - 1) = Record * c - Record * 1
            BY <5>1, Products
          <5> QED
            BY <5>1, <5>2, <5>3
        <4>3. Record * (c - 1 - q) <= p - 1 /\ p - 1 < Record * (c - 1 - q) + Record
          <5> DEFINE t == Record * q
                     u == Record * (c - 1 - q)
          <5>1. t \in Int /\ u = (w - Record) - t /\ Record \in Nat /\ w \in Nat
                /\ t <= i - 1 /\ i - 1 < t + Record /\ p - 1 = w - i
            BY <2>6, <3>1, <4>1, <4>2
          <5> HIDE DEF t, u, p, w
          <5>2. u <= w - i /\ w - i < u + Record
            BY <3>1, <5>1
          <5> QED
            BY <5>1, <5>2 DEF t, u
        <4> HIDE DEF p
        <4> QED
          BY <4>1, <4>3, Quotient
      <3>4. n - (c - 1 - q) = (n - c) + (q + 1) /\ n - (c - 1 - q) \in 1..n
        <4>1. c \in Nat /\ n \in Nat /\ c <= n /\ q \in Int /\ q + 1 >= 1 /\ q + 1 <= c
          BY <2>2, <2>3, <3>1, <3>2
        <4>2. n - (c - 1 - q) = (n - c) + (q + 1)
          BY <4>1
        <4>3. (n - c) + (q + 1) \in 1..n
          BY <4>1
        <4> QED
          BY <4>2, <4>3
      <3>5. /\ SubSeq(log.written, 1, n) \in Seq(Numbers)
            /\ Len(SubSeq(log.written, 1, n)) = n
            /\ \A j \in 1..n : SubSeq(log.written, 1, n)[j] = log.written[j]
        BY <2>3
      <3>6. Dumped(log, dump, i) = SubSeq(log.written, 1, n)[n - (c - 1 - q)]
        <4>1. Dumped(log, dump, i) = CellBack(SubSeq(log.written, 1, n), p)
          BY DEF Dumped, n, c
        <4> HIDE DEF p
        <4> QED
          BY <3>3, <3>5, <4>1 DEF CellBack
      <3> QED
        BY <2>5, <3>2, <3>4, <3>5, <3>6
    <2>11. \A i \in DOMAIN tail : \/ dump.file[i] = tail[i]
                                  \/ i <= Sector + Record * Overrun /\ dump.file[i] = Blank
      BY <2>6, <2>8, <2>9, <2>10
    <2> QED
      BY <2>4, <2>6, <2>11 DEF n, c, s
  <1>2. IInv => DumpIsTail
    BY <1>1 DEF DumpIsTail
  <1> QED
    BY <1>2, Invariance, PTL
=============================================================================
