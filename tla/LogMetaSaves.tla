----------------------------- MODULE LogMetaSaves -----------------------------
(***************************************************************************)
(* Saves of the blackbox's metadata over resets, flash errors and the       *)
(* rollover of their sequence number: LogMeta driven by the writer's        *)
(* periodic save, by the idle tick and by resets at any moment.  Addresses  *)
(* are whatever the writer had reached.                                     *)
(*                                                                          *)
(* Two variables are not in the code.  durable is the record the firmware   *)
(* takes for safe: the one it loaded at boot or verified last.  unweighed   *)
(* are the slots with a valid record that the choice at boot left out of    *)
(* account, because their read failed or the ring was reset all the same.   *)
(***************************************************************************)
EXTENDS LogMeta

VARIABLES meta,       \* the state of a save and the sequence last verified
          slots,      \* what the two sectors hold
          qspi,       \* the operation in flight
          durable, unweighed

savesVars == <<meta, slots, qspi, durable, unweighed>>

SavesTypeOK ==
    /\ meta \in MetaState
    /\ slots \in [Parities -> MetaRecord \cup {NoMeta}]
    /\ qspi \in Operations
    /\ durable \in MetaRecord \cup {NoMeta}
    /\ unweighed \subseteq Parities

ValidSlots(sl) == {p \in Parities : InSlot(sl, p)}

\* log_init: with the record chosen, or formatted when there is none.
Booted(r, a) == SaveMeta(IF r = NoMeta THEN FreshMeta ELSE LoadedMeta(r), a)

\* A chip that was never written.
SavesInit ==
    /\ meta = Booted(NoMeta, RingStart)
    /\ slots = [p \in Parities |-> NoMeta]
    /\ qspi = "none"
    /\ durable = NoMeta
    /\ unweighed = {}

\* log_writer_tick: the periodic save, of the address the writer is at.
Save(a) ==
    /\ meta' = SaveMeta(meta, a)
    /\ UNCHANGED <<slots, qspi, durable, unweighed>>

\* The outcome of a tick; a record that has been read back is taken for safe.
TickTo(o) ==
    /\ meta' = o.meta
    /\ slots' = o.slots
    /\ qspi' = o.qspi
    /\ durable' = IF meta.save = "verify" /\ o.meta.seq = meta.candidate
                     /\ o.meta.hasValid
                  THEN Candidate(meta) ELSE durable
    /\ unweighed' = {p \in unweighed : o.slots[p] = slots[p]}

\* log_writer_tick's call of log_meta_tick.
Tick(writerIdle) ==
    \E polled \in Polled(qspi) :
        \E o \in MetaTick(meta, slots, polled, writerIdle) : TickTo(o)

\* The firmware is reset at any moment and runs log_init: log_load_meta, the
\* check of the ring's last record, which may format what was loaded, and
\* log_save_meta.
Reboot(readable, tailValid) ==
    \E torn \in HalfDone(meta, slots) :
        LET chosen == Chosen(torn, readable)
            taken  == IF tailValid THEN chosen ELSE NoMeta
        IN  /\ meta' = Booted(taken, IF taken = NoMeta THEN RingStart ELSE taken.addr)
            /\ slots' = torn
            /\ qspi' = "none"
            /\ durable' = taken
            /\ unweighed' = ValidSlots(torn) \ (IF taken = NoMeta THEN {} ELSE readable)

SavesNext ==
    \/ \E a \in Cells : Save(a)
    \/ \E writerIdle \in BOOLEAN : Tick(writerIdle)
    \/ \E readable \in SUBSET Parities, tailValid \in BOOLEAN : Reboot(readable, tailValid)

SavesSpec == SavesInit /\ [][SavesNext]_savesVars

\* Wherever power is lost, the next boot that can read both slots restarts
\* from the record the firmware takes for safe, or from the newer one whose
\* save was going on: a save never puts the last good record at risk, over the
\* rollover of the sequence number too.  It is said of the slots the boot took
\* into account: a valid record it left out may be the newer one.
VerifiedSurvives ==
    unweighed = {} /\ meta.hasValid =>
        \A torn \in HalfDone(meta, slots) :
            LET chosen == Chosen(torn, Parities)
            IN  /\ chosen # NoMeta
                /\ chosen = durable \/ chosen.seq = Following(meta.seq)
=============================================================================
