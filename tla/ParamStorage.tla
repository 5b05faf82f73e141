---------------------------- MODULE ParamStorage ----------------------------
(***************************************************************************)
(* The parameter store (param_storage.c): records appended to one flash     *)
(* sector, found again by a scan at every start, the sector erased when the *)
(* next record does not fit.                                                *)
(*                                                                          *)
(* A save blocks the super-loop; what falls between its flash operations is *)
(* a reset (watchdog, supply).  The unit of the sector is the flashword, 32 *)
(* bytes programmed by one operation; the first one of a record holds its   *)
(* header.  A word interrupted in programming, or programmed twice, holds   *)
(* garbage; whether the second programming is reported as an error is left  *)
(* open.  The CRC is assumed to tell a whole record from any other words.   *)
(***************************************************************************)
EXTENDS Integers

CONSTANTS Values,        \* parameter sets
          None,          \* no parameters found: the defaults are used
          Torn,          \* what a record with wrong words would be read as
          Erased, Garbage,
          Words,         \* PARAM_FLASH_SIZE in flashwords
          Sizes,         \* record sizes of this firmware and its successors
          MaxSequence,   \* bound: saves
          MaxFailures    \* bound: flash operations that fail

ASSUME SectorAssumption ==
    /\ Words \in Nat /\ Sizes # {} /\ Sizes \subseteq 1..Words
    /\ MaxSequence \in Nat /\ MaxFailures \in Nat
    /\ None \notin Values /\ Torn \notin Values \cup {None} /\ Erased # Garbage

Addresses == 0..Words - 1

VARIABLES
    flash,      \* the sector
    size,       \* record size of the running firmware
    next,       \* next_write_addr
    sequence,   \* current_sequence
    cache,      \* cached_params, None while cache_valid is false
    pc,         \* what a save is doing
    saving,     \* the parameters it saves
    word,       \* words it has programmed
    failures,   \* failing flash operations left
    kept,       \* history: the parameters acknowledged or loaded last
    tried,      \* history: those whose save was not acknowledged since
    wiped,      \* history: an erase was begun since
    soiled,     \* history: a word was programmed that was not erased
    failed      \* history: a save failed since the start

ramVars == <<next, sequence, cache>>
saveVars == <<pc, saving, word>>
historyVars == <<kept, tried, wiped, soiled, failed>>
vars == <<flash, size, ramVars, saveVars, failures, historyVars>>

Word(part, sz, seq, val) == [part |-> part, size |-> sz, seq |-> seq, val |-> val]

\* A record's word is neither blank nor garbage.
ASSUME WordAssumption ==
    \A p \in Addresses, sz \in Sizes, n \in 1..MaxSequence, v \in Values :
        Word(p, sz, n, v) \notin {Erased, Garbage}

Content ==
    {Erased, Garbage} \cup
    {Word(p, sz, n, v) : p \in Addresses, sz \in Sizes, n \in 1..MaxSequence, v \in Values}

-----------------------------------------------------------------------------
(* The scan.                                                                 *)

\* A header whose record ends inside the sector.
Header(fl, a) ==
    /\ a < Words /\ fl[a] \notin {Erased, Garbage}
    /\ fl[a].part = 0
    /\ a + fl[a].size <= Words

Whole(fl, a) == \A i \in 1..fl[a].size - 1 : fl[a + i] = [fl[a] EXCEPT !.part = i]

\* Bug: the CRC is not checked.
Bug_Valid(fl, a) == TRUE

\* param_validate_record
Valid(fl, a) == Whole(fl, a)

\* The loop of param_scan_sector from each word on: the records up to the
\* first word that is no header; the last valid one with the largest sequence.
ScanFrom(fl) ==
    LET from[a \in 0..Words] ==
            IF ~Header(fl, a) THEN [next |-> a, sequence |-> 0, cache |-> None]
            ELSE LET rest == from[a + fl[a].size]
                 IN  IF Valid(fl, a) /\ rest.sequence < fl[a].seq
                     THEN [rest EXCEPT !.sequence = fl[a].seq,
                                       !.cache = IF Whole(fl, a) THEN fl[a].val ELSE Torn]
                     ELSE rest
    IN  from

\* param_scan_sector: from the start of the sector.
Scan(fl) == ScanFrom(fl)[0]

Ram == [next |-> next, sequence |-> sequence, cache |-> cache]

\* param_storage_init and param_storage_load
Loaded(fl) ==
    LET found == Scan(fl)
    IN  next' = found.next /\ sequence' = found.sequence /\ cache' = found.cache

TypeOK ==
    /\ flash \in [Addresses -> Content]
    /\ size \in Sizes
    /\ next \in 0..Words /\ sequence \in 0..MaxSequence
    /\ cache \in Values \cup {None} /\ kept \in Values \cup {None}
    /\ pc \in {"idle", "erase", "program"}
    /\ saving \in Values \cup {None} /\ tried \subseteq Values
    /\ word \in 0..size /\ (pc = "program" => next + size <= Words /\ word < size)
    /\ failures \in 0..MaxFailures
    /\ {wiped, soiled, failed} \subseteq BOOLEAN

\* A new board.
Init ==
    /\ flash = [a \in Addresses |-> Erased]
    /\ size \in Sizes
    /\ next = 0 /\ sequence = 0 /\ cache = None
    /\ pc = "idle" /\ saving = None /\ word = 0
    /\ failures = MaxFailures
    /\ kept = None /\ tried = {}
    /\ wiped = FALSE /\ soiled = FALSE /\ failed = FALSE

-----------------------------------------------------------------------------
(* param_storage_save, called while the robot does not balance.              *)

\* Bug: the room for one flashword is enough.
Bug_Full == next + 1 > Words

Full == next + size > Words

Save(v) ==
    /\ pc = "idle" /\ sequence < MaxSequence
    /\ pc' = IF Full THEN "erase" ELSE "program"
    /\ saving' = v /\ word' = 0
    /\ tried' = tried \cup {v} /\ wiped' = (wiped \/ Full)
    /\ UNCHANGED <<flash, size, ramVars, failures, kept, soiled, failed>>

Return ==
    /\ pc' = "idle" /\ saving' = None /\ word' = 0

\* The sector is erased as a whole: cut short, it is as it was, erased, or
\* unreadable.
HalfErased == {flash, [a \in Addresses |-> Erased], [a \in Addresses |-> Garbage]}

\* param_erase_sector
Erase ==
    /\ pc = "erase"
    /\ flash' = [a \in Addresses |-> Erased]
    /\ next' = 0
    /\ pc' = "program"
    /\ soiled' = FALSE
    /\ UNCHANGED <<size, sequence, cache, saving, word, failures, kept, tried, wiped, failed>>

EraseFails ==
    /\ pc = "erase" /\ failures > 0
    /\ flash' \in HalfErased
    /\ failures' = failures - 1 /\ failed' = TRUE
    /\ Return
    /\ UNCHANGED <<size, ramVars, kept, tried, wiped, soiled>>

\* The word to be programmed.  The sequence in the header is one larger than
\* that of the last valid record.
Current == Word(word, size, sequence + 1, saving)
Target == next + word

\* What it may hold when the operation is cut short, and when it is done.
HalfProgrammed ==
    CASE flash[Target] = Erased -> {Erased, Garbage, Current}
      [] flash[Target] = Current -> {Current}
      [] OTHER -> {flash[Target], Garbage}

Programmed == IF flash[Target] \in {Erased, Current} THEN Current ELSE Garbage

\* Bug: the sequence of the record is not remembered.
Bug_Acknowledge ==
    /\ next' = next + size /\ cache' = saving
    /\ kept' = saving /\ tried' = {} /\ wiped' = FALSE
    /\ Return
    /\ UNCHANGED sequence

\* The record is complete.
Acknowledge ==
    /\ next' = next + size /\ sequence' = sequence + 1 /\ cache' = saving
    /\ kept' = saving /\ tried' = {} /\ wiped' = FALSE
    /\ Return

\* param_program, one flashword
Program ==
    /\ pc = "program"
    /\ flash' = [flash EXCEPT ![Target] = Programmed]
    /\ soiled' = (soiled \/ flash[Target] # Erased)
    /\ IF word + 1 = size
       THEN Acknowledge
       ELSE word' = word + 1 /\ UNCHANGED <<ramVars, pc, saving, kept, tried, wiped>>
    /\ UNCHANGED <<size, failures, failed>>

\* The save returns PARAM_ERR_FLASH and forgets the words it has programmed.  A
\* word that was not erased need not be a fault of the flash to be refused.
ProgramFails ==
    /\ pc = "program"
    /\ IF flash[Target] = Erased
       THEN failures > 0 /\ failures' = failures - 1
       ELSE UNCHANGED failures
    /\ \E content \in HalfProgrammed : flash' = [flash EXCEPT ![Target] = content]
    /\ soiled' = (soiled \/ flash[Target] # Erased)
    /\ failed' = TRUE
    /\ Return
    /\ UNCHANGED <<size, ramVars, kept, tried, wiped>>

-----------------------------------------------------------------------------
(* A reset, whatever the save is doing; the firmware that starts may be a    *)
(* newer one, with larger records.                                           *)

AfterReset ==
    CASE pc = "idle" -> {flash}
      [] pc = "erase" -> HalfErased
      [] pc = "program" -> {[flash EXCEPT ![Target] = content] : content \in HalfProgrammed}

Reset ==
    /\ flash' \in AfterReset
    /\ size' \in {sz \in Sizes : sz >= size}
    /\ Loaded(flash')
    /\ Return
    /\ soiled' = (soiled \/ (pc = "program" /\ flash[Target] # Erased))
    /\ kept' = cache' /\ tried' = {} /\ wiped' = FALSE /\ failed' = FALSE
    /\ UNCHANGED failures

Next ==
    \/ \E v \in Values : Save(v)
    \/ Erase \/ EraseFails \/ Program \/ ProgramFails
    \/ Reset

Spec == Init /\ [][Next]_vars

-----------------------------------------------------------------------------
(* Properties.                                                               *)

(* A reset at this moment finds the parameters acknowledged last or some     *)
(* whose save was attempted since, whole, never older or torn ones.  Except  *)
(* between an erase and the record written after it, which is the window in  *)
(* which everything is lost, and once a word was programmed twice.           *)
AckedSurvives == wiped \/ soiled \/ Scan(flash).cache \in {kept} \cup tried

(* What the store remembers is what a reset would find: the same place to    *)
(* write, the same sequence number, the same parameters.  Except after a     *)
(* failed save, and once a word was programmed twice.                        *)
RamMatchesFlash == pc = "idle" => failed \/ soiled \/ Ram = Scan(flash)
=============================================================================
