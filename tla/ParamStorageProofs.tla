-------------------------- MODULE ParamStorageProofs --------------------------
(***************************************************************************)
(* Proofs for ParamStorage, for any sector, any sizes of records and any    *)
(* parameters: what a scan finds in a sector that a save was programming,   *)
(* wherever it was cut short.                                               *)
(***************************************************************************)
EXTENDS ParamStorage, FiniteSetTheorems, WellFoundedInduction, TLAPS

Blank(fl, a) == fl[a] \in {Erased, Garbage}

Sector == [Addresses -> Content]

\* The sector as it was before the words from n on were programmed.
Cut(fl, n) == [a \in Addresses |-> IF a < n THEN fl[a] ELSE Erased]

-----------------------------------------------------------------------------
(* Induction over the sector, from its end.                                  *)

(* A set of numbers that is not empty has a least one.                       *)
LEMMA Least ==
    ASSUME NEW T, T \subseteq Nat, T # {}
    PROVE  \E x \in T : \A y \in T : x <= y
  <1> DEFINE Below(n) == 0..n - 1
             U == {Below(n) : n \in T}
             R == StrictSubsetOrdering(Nat)
  <1>1. IsWellFoundedOn(R, FiniteSubsetsOf(Nat))
    BY FS_StrictSubsetOrderingWellFounded
  <1>2. \A n \in Nat : IsFiniteSet(Below(n)) /\ Below(n) \subseteq Nat
    BY FS_Interval
  <1>3. U \subseteq FiniteSubsetsOf(Nat) /\ U # {}
    BY <1>2 DEF FiniteSubsetsOf
  <1>4. PICK u \in U : \A v \in U : ~ (<<v, u>> \in R)
    <2> HIDE DEF U, R
    <2> QED
      BY <1>1, <1>3, WFMin
  <1>5. PICK x \in T : u = Below(x)
    OBVIOUS
  <1>6. ASSUME NEW y \in T, y < x
        PROVE  FALSE
    <2>1. Below(y) \subseteq Below(x) /\ y \in Below(x) /\ y \notin Below(y)
      BY <1>6
    <2>2. <<Below(y), Below(x)>> \in R
      BY <1>2, <2>1 DEF StrictSubsetOrdering
    <2> QED
      BY <1>4, <1>5, <2>2
  <1> QED
    BY <1>6

LEMMA Downward ==
    ASSUME NEW S, \A a \in 0..Words : (\A b \in a + 1..Words : b \in S) => a \in S
    PROVE  0..Words \subseteq S
  <1> SUFFICES ASSUME NEW c \in 0..Words, c \notin S
               PROVE  FALSE
    OBVIOUS
  <1> DEFINE T == {Words - a : a \in {b \in 0..Words : b \notin S}}
  <1>1. Words \in Nat
    BY SectorAssumption
  <1>2. T \subseteq Nat /\ T # {}
    BY <1>1
  <1>3. PICK x \in T : \A y \in T : x <= y
    <2> HIDE DEF T
    <2> QED
      BY <1>2, Least
  <1>4. PICK a \in 0..Words : a \notin S /\ x = Words - a
    OBVIOUS
  <1>5. ASSUME NEW b \in a + 1..Words
        PROVE  b \in S
    <2>1. b \in 0..Words /\ ~ (Words - a <= Words - b)
      BY <1>1
    <2>2. Words - b \notin T
      BY <1>3, <1>4, <2>1
    <2> QED
      BY <2>1, <2>2
  <1> QED
    BY <1>4, <1>5

-----------------------------------------------------------------------------
(* The scan.                                                                 *)

\* One round of the loop at a word, with what the rounds after it find.
Round(fl, found, a) ==
    IF ~Header(fl, a) THEN [next |-> a, sequence |-> 0, cache |-> None]
    ELSE LET rest == found[a + fl[a].size]
         IN  IF Valid(fl, a) /\ rest.sequence < fl[a].seq
             THEN [rest EXCEPT !.sequence = fl[a].seq,
                               !.cache = IF Whole(fl, a) THEN fl[a].val ELSE Torn]
             ELSE rest

LEMMA HeaderFacts ==
    ASSUME NEW fl \in Sector, NEW a \in 0..Words, Header(fl, a)
    PROVE  /\ a \in Addresses /\ fl[a].part = 0
           /\ fl[a].size \in Sizes /\ fl[a].size \in Nat /\ fl[a].size >= 1
           /\ a + fl[a].size \in a + 1..Words
           /\ fl[a].seq \in 1..MaxSequence /\ fl[a].val \in Values
  <1>1. a \in Addresses
    BY SectorAssumption DEF Header, Addresses
  <1>2. PICK p \in Addresses, sz \in Sizes, n \in 1..MaxSequence, v \in Values :
            fl[a] = Word(p, sz, n, v)
    BY <1>1 DEF Header, Sector, Content
  <1>3. fl[a].size = sz /\ fl[a].seq = n /\ fl[a].val = v
    BY <1>2 DEF Word
  <1>4. sz \in Nat /\ sz >= 1
    BY SectorAssumption
  <1> QED
    BY <1>1, <1>2, <1>3, <1>4, SectorAssumption DEF Header

(* The rounds of the loop are what ScanFrom says they are.                   *)
LEMMA Unfolds ==
    ASSUME NEW fl \in Sector
    PROVE  ScanFrom(fl) = [a \in 0..Words |-> Round(fl, ScanFrom(fl), a)]
  <1> DEFINE Found(g, a) == /\ g = [b \in 0..Words |-> g[b]]
                            /\ \A b \in a..Words : g[b] = Round(fl, g, b)
             S == {a \in 0..Words : \E g : Found(g, a)}
  <1>1. Words \in Nat
    BY SectorAssumption
  <1>2. ASSUME NEW a \in 0..Words, \A b \in a + 1..Words : b \in S
        PROVE  a \in S
    <2>1. PICK g : /\ g = [b \in 0..Words |-> g[b]]
                   /\ \A b \in a + 1..Words : g[b] = Round(fl, g, b)
      <3>1. CASE a = Words
        <4> WITNESS [b \in 0..Words |-> None]
        <4> QED
          BY <1>1, <3>1
      <3>2. CASE a # Words
        <4>1. a + 1 \in S
          BY <1>1, <1>2, <3>2
        <4> QED
          BY <4>1
      <3> QED
        BY <3>1, <3>2
    <2> DEFINE h == [b \in 0..Words |-> IF b = a THEN Round(fl, g, a) ELSE g[b]]
    <2>2. ASSUME NEW b \in a..Words
          PROVE  Round(fl, h, b) = Round(fl, g, b)
      <3>1. b \in 0..Words
        BY <1>1
      <3>2. CASE Header(fl, b)
        <4>1. b + fl[b].size \in b + 1..Words
          BY <3>1, <3>2, HeaderFacts
        <4>2. PICK c \in b + 1..Words : c = b + fl[b].size
          BY <4>1
        <4>3. c \in 0..Words /\ c # a
          BY <1>1
        <4>4. h[c] = g[c]
          BY <4>3
        <4> HIDE DEF h
        <4>5. h[b + fl[b].size] = g[b + fl[b].size]
          BY <4>2, <4>4
        <4> QED
          BY <4>5 DEF Round
      <3>3. CASE ~Header(fl, b)
        BY <3>3 DEF Round
      <3> QED
        BY <3>2, <3>3
    <2>3. ASSUME NEW b \in a..Words
          PROVE  h[b] = Round(fl, h, b)
      <3>1. b \in 0..Words /\ (b # a => b \in a + 1..Words)
        BY <1>1
      <3>2. h[b] = Round(fl, g, b)
        BY <2>1, <3>1
      <3> QED
        BY <2>2, <3>2
    <2>4. h = [b \in 0..Words |-> h[b]]
      OBVIOUS
    <2>5. Found(h, a)
      BY <2>3, <2>4
    <2> HIDE DEF Found
    <2> QED
      BY <2>5
  <1>3. 0 \in S
    <2> HIDE DEF S
    <2> QED
      BY <1>1, <1>2, Downward
  <1>4. PICK g : /\ g = [b \in 0..Words |-> g[b]]
                 /\ \A b \in 0..Words : g[b] = Round(fl, g, b)
    BY <1>3
  <1>5. g = [a \in 0..Words |-> Round(fl, g, a)]
    BY <1>4
  <1>6. ScanFrom(fl) = CHOOSE f : f = [a \in 0..Words |-> Round(fl, f, a)]
    BY DEF ScanFrom, Round
  <1> QED
    BY <1>5, <1>6

\* What the rounds from a on have found.
Outcomes(a) ==
    {r \in [next : a..Words, sequence : 0..MaxSequence, cache : Values \cup {None}] :
        r.sequence = 0 => r.cache = None}

LEMMA RoundAt ==
    ASSUME NEW fl \in Sector, NEW a \in 0..Words
    PROVE  ScanFrom(fl)[a] = Round(fl, ScanFrom(fl), a)
  <1> DEFINE g == ScanFrom(fl)
  <1>1. g = [b \in 0..Words |-> Round(fl, g, b)]
    BY Unfolds
  <1> HIDE DEF g
  <1>2. g[a] = Round(fl, g, a)
    BY <1>1
  <1> QED
    BY <1>2 DEF g

(* Where no header is, the scan ends.                                        *)
LEMMA ScanEnds ==
    ASSUME NEW fl \in Sector, NEW a \in 0..Words, ~Header(fl, a)
    PROVE  ScanFrom(fl)[a] = [next |-> a, sequence |-> 0, cache |-> None]
  BY RoundAt DEF Round

(* What a record adds to what is found after it.                             *)
Adds(fl, a, rest) ==
    IF Whole(fl, a) /\ rest.sequence < fl[a].seq
    THEN [rest EXCEPT !.sequence = fl[a].seq, !.cache = fl[a].val]
    ELSE rest

LEMMA ScanGoesOn ==
    ASSUME NEW fl \in Sector, NEW a \in 0..Words, Header(fl, a)
    PROVE  ScanFrom(fl)[a] = Adds(fl, a, ScanFrom(fl)[a + fl[a].size])
  BY RoundAt DEF Round, Adds, Valid

(* A scan from a ends at a or after it, with parameters if it met a record.  *)
LEMMA ScanTyped ==
    ASSUME NEW fl \in Sector
    PROVE  \A a \in 0..Words : ScanFrom(fl)[a] \in Outcomes(a)
  <1> DEFINE S == {a \in 0..Words : ScanFrom(fl)[a] \in Outcomes(a)}
  <1>1. Words \in Nat /\ MaxSequence \in Nat
    BY SectorAssumption
  <1>2. ASSUME NEW a \in 0..Words, \A b \in a + 1..Words : b \in S
        PROVE  ScanFrom(fl)[a] \in Outcomes(a)
    <2>1. CASE ~Header(fl, a)
      <3>1. ScanFrom(fl)[a] = [next |-> a, sequence |-> 0, cache |-> None]
        BY <2>1, ScanEnds
      <3> QED
        BY <1>1, <3>1 DEF Outcomes
    <2>2. CASE Header(fl, a)
      <3>1. PICK c \in a + 1..Words : c = a + fl[a].size
        BY <2>2, HeaderFacts
      <3>2. PICK r \in Outcomes(c) : r = ScanFrom(fl)[c]
        BY <1>2, <3>1
      <3>3. ScanFrom(fl)[a] = Adds(fl, a, r)
        BY <2>2, <3>1, <3>2, ScanGoesOn
      <3>4. r \in Outcomes(a)
        BY <1>1, <3>1, <3>2 DEF Outcomes
      <3>5. fl[a].seq \in 1..MaxSequence /\ fl[a].val \in Values
        BY <2>2, HeaderFacts
      <3>6. CASE Adds(fl, a, r) = r
        BY <3>3, <3>4, <3>6
      <3>7. CASE Adds(fl, a, r) = [r EXCEPT !.sequence = fl[a].seq, !.cache = fl[a].val]
        <4>1. PICK q \in 1..MaxSequence, v \in Values : q = fl[a].seq /\ v = fl[a].val
          BY <3>5
        <4>2. ScanFrom(fl)[a] = [next |-> r.next, sequence |-> q, cache |-> v]
          BY <3>3, <3>4, <3>7, <4>1 DEF Outcomes
        <4>3. q \in 0..MaxSequence /\ q # 0
          BY <1>1
        <4>4. r.next \in a..Words
          BY <3>4 DEF Outcomes
        <4> QED
          BY <4>2, <4>3, <4>4 DEF Outcomes
      <3> QED
        BY <3>6, <3>7 DEF Adds
    <2> QED
      BY <2>1, <2>2
  <1>3. 0..Words \subseteq S
    <2>1. \A a \in 0..Words : (\A b \in a + 1..Words : b \in S) => a \in S
      BY <1>2
    <2> HIDE DEF S
    <2> QED
      BY <2>1, Downward
  <1> QED
    BY <1>3

LEMMA CutTyped ==
    ASSUME NEW fl \in Sector, NEW n \in 0..Words
    PROVE  Cut(fl, n) \in Sector
  BY DEF Cut, Sector, Content

(* Below the cut, a record that fits is read as it was.                      *)
LEMMA CutSame ==
    ASSUME NEW fl \in Sector, NEW n \in 0..Words, NEW a \in 0..Words, a < n
    PROVE  /\ Cut(fl, n)[a] = fl[a]
           /\ Header(Cut(fl, n), a) <=> Header(fl, a)
           /\ Header(fl, a) /\ a + fl[a].size <= n => (Whole(Cut(fl, n), a) <=> Whole(fl, a))
  <1>1. Words \in Nat /\ a \in Addresses
    BY SectorAssumption DEF Addresses
  <1>2. Cut(fl, n)[a] = fl[a]
    BY <1>1 DEF Cut
  <1>3. ASSUME Header(fl, a), a + fl[a].size <= n
        PROVE  Whole(Cut(fl, n), a) <=> Whole(fl, a)
    <2>1. PICK sz \in Nat : sz = fl[a].size /\ a + sz <= n
      BY <1>3, HeaderFacts
    <2>2. \A i \in 1..sz - 1 : a + i \in Addresses /\ a + i < n
      BY <1>1, <2>1 DEF Addresses
    <2>3. \A i \in 1..sz - 1 : Cut(fl, n)[a + i] = fl[a + i]
      BY <2>2 DEF Cut
    <2> QED
      BY <1>2, <2>1, <2>3 DEF Whole
  <1> QED
    BY <1>2, <1>3 DEF Header

LEMMA CutEnds ==
    ASSUME NEW fl \in Sector, NEW n \in 0..Words
    PROVE  ScanFrom(Cut(fl, n))[n] = [next |-> n, sequence |-> 0, cache |-> None]
  <1>1. ~Header(Cut(fl, n), n)
    BY SectorAssumption DEF Header, Cut, Addresses
  <1> QED
    BY <1>1, CutTyped, ScanEnds

\* Of two parts of a scan, the later one wins when it met no older record.
Joined(r, rest) ==
    IF r.sequence <= rest.sequence THEN rest ELSE [r EXCEPT !.next = rest.next]

Outcome == [next : 0..Words, sequence : 0..MaxSequence, cache : Values \cup {None}]

LEMMA AddsJoin ==
    ASSUME NEW fl, NEW a, NEW r \in Outcome, NEW tail \in Outcome,
           fl[a].seq \in 0..MaxSequence, fl[a].val \in Values
    PROVE  Adds(fl, a, Joined(r, tail)) = Joined(Adds(fl, a, r), tail)
  <1> DEFINE Newer(o, q, v) == [next |-> o.next, sequence |-> q, cache |-> v]
  <1>1. ASSUME NEW o \in Outcome, NEW q \in 0..MaxSequence, NEW v \in Values,
               NEW p, p = [o EXCEPT !.sequence = q, !.cache = v]
        PROVE  p = Newer(o, q, v)
    BY <1>1 DEF Outcome
  <1>2. ASSUME NEW o \in Outcome
        PROVE  Adds(fl, a, o) = IF Whole(fl, a) /\ o.sequence < fl[a].seq
                                THEN Newer(o, fl[a].seq, fl[a].val) ELSE o
    BY <1>1 DEF Adds
  <1>3. ASSUME NEW o1 \in Outcome, NEW o2 \in Outcome
        PROVE  Joined(o1, o2) = IF o1.sequence <= o2.sequence THEN o2
                                ELSE [next |-> o2.next, sequence |-> o1.sequence, cache |-> o1.cache]
    <2>1. ASSUME NEW p, p = [o1 EXCEPT !.next = o2.next]
          PROVE  p = [next |-> o2.next, sequence |-> o1.sequence, cache |-> o1.cache]
      BY <2>1 DEF Outcome
    <2> QED
      BY <2>1 DEF Joined
  <1>4. PICK q \in 0..MaxSequence, v \in Values : q = fl[a].seq /\ v = fl[a].val
    OBVIOUS
  <1>5. PICK x \in 0..Words, y \in 0..MaxSequence, z \in Values \cup {None} :
            r = [next |-> x, sequence |-> y, cache |-> z]
    BY DEF Outcome
  <1>6. PICK x1 \in 0..Words, y1 \in 0..MaxSequence, z1 \in Values \cup {None} :
            tail = [next |-> x1, sequence |-> y1, cache |-> z1]
    BY DEF Outcome
  <1> DEFINE rest == [next |-> x1, sequence |-> y, cache |-> z]
             new == [next |-> x, sequence |-> q, cache |-> v]
             last == [next |-> x1, sequence |-> q, cache |-> v]
  <1>7. {rest, new, last} \subseteq Outcome
    BY DEF Outcome
  <1>8. /\ Adds(fl, a, r) = IF Whole(fl, a) /\ y < q THEN new ELSE r
        /\ Adds(fl, a, tail) = IF Whole(fl, a) /\ y1 < q THEN last ELSE tail
        /\ Adds(fl, a, rest) = IF Whole(fl, a) /\ y < q THEN last ELSE rest
    BY <1>2, <1>4, <1>5, <1>6, <1>7
  <1>9. /\ Joined(r, tail) = IF y <= y1 THEN tail ELSE rest
        /\ Joined(new, tail) = IF q <= y1 THEN tail ELSE last
    BY <1>3, <1>5, <1>6, <1>7
  <1> HIDE DEF rest, new, last, Newer
  <1> QED
    BY <1>8, <1>9, SectorAssumption

(* A scan that comes by n is the scan of what lies below, joined to what is  *)
(* found from n on.                                                          *)
LEMMA ScanJoins ==
    ASSUME NEW fl \in Sector, NEW n \in 0..Words, Scan(Cut(fl, n)).next = n
    PROVE  Scan(fl) = Joined(Scan(Cut(fl, n)), ScanFrom(fl)[n])
  <1> DEFINE cut == Cut(fl, n)
             tail == ScanFrom(fl)[n]
             Claim(a) == ScanFrom(cut)[a].next = n =>
                            ScanFrom(fl)[a] = Joined(ScanFrom(cut)[a], tail)
             S == {a \in 0..Words : Claim(a)}
  <1>1. Words \in Nat /\ MaxSequence \in Nat /\ n \in Nat
    BY SectorAssumption
  <1>2. cut \in Sector /\ tail \in Outcomes(n)
    BY CutTyped, ScanTyped
  <1>3. ASSUME NEW a \in 0..Words, \A b \in a + 1..Words : b \in S, ScanFrom(cut)[a].next = n
        PROVE  ScanFrom(fl)[a] = Joined(ScanFrom(cut)[a], tail)
    <2>1. ScanFrom(cut)[a] \in Outcomes(a)
      BY <1>2, ScanTyped
    <2>2. a <= n
      BY <1>1, <1>3, <2>1 DEF Outcomes
    <2>3. CASE a = n
      <3>1. ScanFrom(cut)[a] = [next |-> n, sequence |-> 0, cache |-> None]
        BY <2>3, CutEnds
      <3>2. 0 <= tail.sequence
        BY <1>1, <1>2 DEF Outcomes
      <3> QED
        BY <2>3, <3>1, <3>2 DEF Joined
    <2>4. CASE a < n
      <3>1. Header(cut, a)
        <4> SUFFICES ASSUME ~Header(cut, a)
                     PROVE  FALSE
          OBVIOUS
        <4>1. ScanFrom(cut)[a] = [next |-> a, sequence |-> 0, cache |-> None]
          BY <1>2, ScanEnds
        <4> QED
          BY <1>3, <2>4, <4>1
      <3>2. Header(fl, a) /\ cut[a] = fl[a]
        BY <2>4, <3>1, CutSame
      <3>3. PICK c \in a + 1..Words : c = a + fl[a].size
        BY <3>2, HeaderFacts
      <3>4. PICK r \in Outcomes(c) : r = ScanFrom(cut)[c]
        BY <1>2, <3>3, ScanTyped
      <3>5. ScanFrom(cut)[a] = Adds(cut, a, r)
        BY <1>2, <3>1, <3>2, <3>3, <3>4, ScanGoesOn
      <3>6. r.next = n
        BY <1>3, <3>4, <3>5 DEF Adds, Outcomes
      <3>7. c <= n
        BY <1>1, <3>3, <3>4, <3>6 DEF Outcomes
      <3>8. Adds(cut, a, r) = Adds(fl, a, r)
        BY <2>4, <3>2, <3>3, <3>7, CutSame DEF Adds
      <3>9. ScanFrom(fl)[c] = Joined(r, tail)
        BY <1>3, <3>3, <3>4, <3>6
      <3>10. ScanFrom(fl)[a] = Adds(fl, a, Joined(r, tail))
        BY <3>2, <3>3, <3>9, ScanGoesOn
      <3>11. Adds(fl, a, Joined(r, tail)) = Joined(Adds(fl, a, r), tail)
        <4>1. fl[a].seq \in 0..MaxSequence /\ fl[a].val \in Values
          BY <1>1, <3>2, HeaderFacts
        <4>2. r \in Outcome /\ tail \in Outcome
          BY <1>1, <1>2, <3>1 DEF Outcomes, Outcome
        <4> QED
          BY <4>1, <4>2, AddsJoin
      <3> QED
        BY <3>5, <3>8, <3>10, <3>11
    <2> QED
      BY <1>1, <2>2, <2>3, <2>4
  <1>4. 0 \in S
    <2>1. \A a \in 0..Words : (\A b \in a + 1..Words : b \in S) => a \in S
      BY <1>3
    <2> HIDE DEF S
    <2> QED
      BY <1>1, <2>1, Downward
  <1> QED
    BY <1>4 DEF Scan

(* Nothing from where the scan ends on has a part in it.                     *)
LEMMA CutAtEnd ==
    ASSUME NEW fl \in Sector
    PROVE  /\ Scan(fl).next \in 0..Words
           /\ Scan(Cut(fl, Scan(fl).next)) = Scan(fl)
  <1>1. PICK n \in 0..Words : n = Scan(fl).next
    BY ScanTyped, SectorAssumption DEF Scan, Outcomes
  <1> DEFINE cut == Cut(fl, n)
             S == {a \in 0..Words : ScanFrom(fl)[a].next = n => ScanFrom(cut)[a] = ScanFrom(fl)[a]}
  <1>2. Words \in Nat /\ cut \in Sector
    BY SectorAssumption, CutTyped
  <1>3. ASSUME NEW a \in 0..Words, \A b \in a + 1..Words : b \in S, ScanFrom(fl)[a].next = n
        PROVE  ScanFrom(cut)[a] = ScanFrom(fl)[a]
    <2>1. CASE ~Header(fl, a)
      <3>1. ScanFrom(fl)[a] = [next |-> a, sequence |-> 0, cache |-> None] /\ a = n
        BY <1>3, <2>1, ScanEnds
      <3> QED
        BY <3>1, CutEnds
    <2>2. CASE Header(fl, a)
      <3>1. PICK c \in a + 1..Words : c = a + fl[a].size
        BY <2>2, HeaderFacts
      <3>2. PICK r \in Outcomes(c) : r = ScanFrom(fl)[c]
        BY <3>1, ScanTyped
      <3>3. ScanFrom(fl)[a] = Adds(fl, a, r)
        BY <2>2, <3>1, <3>2, ScanGoesOn
      <3>4. r.next = n
        BY <1>3, <3>2, <3>3 DEF Adds, Outcomes
      <3>5. c <= n /\ a < n
        BY <1>2, <3>1, <3>2, <3>4 DEF Outcomes
      <3>6. Header(cut, a) /\ cut[a] = fl[a] /\ Adds(cut, a, r) = Adds(fl, a, r)
        BY <2>2, <3>1, <3>5, CutSame DEF Adds
      <3>7. ScanFrom(cut)[c] = r
        BY <1>3, <3>1, <3>2, <3>4
      <3> QED
        BY <1>2, <3>1, <3>3, <3>6, <3>7, ScanGoesOn
    <2> QED
      BY <2>1, <2>2
  <1>4. 0 \in S
    <2>1. \A a \in 0..Words : (\A b \in a + 1..Words : b \in S) => a \in S
      BY <1>3
    <2> HIDE DEF S
    <2> QED
      BY <1>2, <2>1, Downward
  <1> QED
    BY <1>1, <1>4 DEF Scan

-----------------------------------------------------------------------------
(* The invariant.                                                            *)

\* The scan of what is acknowledged ends where the next record goes, and has
\* met no later record than the store remembers.
Reached(fl) ==
    /\ Scan(Cut(fl, next)).next = next
    /\ Scan(Cut(fl, next)).sequence <= sequence
    /\ ~wiped => Scan(Cut(fl, next)) = Ram

\* Beyond it are at most the words of one attempt to program the next record.
Beyond(fl) ==
    \A a \in Addresses :
        a >= next /\ ~Blank(fl, a) =>
            /\ ~Full /\ a < next + size /\ ~Blank(fl, next)
            /\ sequence < MaxSequence
            /\ \E v \in tried : fl[a] = Word(a - next, size, sequence + 1, v)

\* An erase that failed may leave a sector with nothing in it.
Emptied(fl) ==
    /\ wiped /\ Full /\ pc # "program"
    /\ \A a \in Addresses : Blank(fl, a)

\* The words programmed so far are the record's.
Programming ==
    pc = "program" =>
        \A i \in 0..word - 1 : flash[next + i] = Word(i, size, sequence + 1, saving)

\* No save has failed and none is going on: nothing lies beyond.
Settled ==
    pc = "idle" /\ ~failed => ~wiped /\ \A a \in Addresses : a >= next => Blank(flash, a)

Legible ==
    /\ (Reached(flash) /\ Beyond(flash)) \/ Emptied(flash)
    /\ Programming
    /\ Settled

\* What a save and the history variables may rely on, in any sector.
Saving ==
    /\ cache = kept
    /\ pc = "idle" => saving = None /\ word = 0
    /\ pc # "idle" => saving \in tried /\ sequence < MaxSequence
    /\ pc = "erase" => Full /\ wiped /\ word = 0
    /\ pc = "program" => ~Full

IInv == TypeOK /\ Saving /\ (~soiled => Legible)

-----------------------------------------------------------------------------
(* What a scan finds in a sector the invariant allows.                       *)

LEMMA NumberTypes ==
    ASSUME TypeOK
    PROVE  /\ Words \in Nat /\ size \in Nat /\ size >= 1 /\ next \in Nat
           /\ sequence \in Nat /\ word \in Nat
           /\ next \in 0..Words /\ next + size \in Nat
           /\ Addresses \subseteq 0..Words /\ \A a \in 0..Words : a < Words => a \in Addresses
           /\ flash \in Sector
  BY SectorAssumption DEF TypeOK, Addresses, Sector

LEMMA BlankEnds ==
    ASSUME NEW fl \in Sector, NEW n \in 0..Words, n = Words \/ Blank(fl, n)
    PROVE  ScanFrom(fl)[n] = [next |-> n, sequence |-> 0, cache |-> None]
  <1>1. ~Header(fl, n)
    BY SectorAssumption DEF Header, Blank
  <1> QED
    BY <1>1, ScanEnds

(* With nothing from n on, the scan is that of what lies below.              *)
LEMMA NothingBeyond ==
    ASSUME NEW fl \in Sector, NEW n \in 0..Words, Scan(Cut(fl, n)).next = n,
           n = Words \/ Blank(fl, n)
    PROVE  Scan(fl) = Scan(Cut(fl, n))
  <1> DEFINE below == Scan(Cut(fl, n))
             tail == ScanFrom(fl)[n]
  <1>1. tail = [next |-> n, sequence |-> 0, cache |-> None]
    BY BlankEnds
  <1>2. below \in Outcomes(0) /\ below.next = n
    BY CutTyped, ScanTyped, SectorAssumption DEF Scan
  <1>3. Scan(fl) = Joined(below, tail)
    BY ScanJoins
  <1> HIDE DEF below, tail
  <1>4. PICK y \in 0..MaxSequence, z \in Values \cup {None} :
            below = [next |-> n, sequence |-> y, cache |-> z] /\ (y = 0 => z = None)
    BY <1>2 DEF Outcomes
  <1>5. CASE y = 0
    BY <1>1, <1>3, <1>4, <1>5 DEF Joined, below
  <1>6. CASE y # 0
    <2>1. ~ (below.sequence <= tail.sequence)
      BY <1>1, <1>4, <1>6, SectorAssumption
    <2>2. Scan(fl) = [below EXCEPT !.next = n]
      BY <1>1, <1>3, <2>1 DEF Joined
    <2>3. Scan(fl) = [next |-> n, sequence |-> y, cache |-> z]
      BY <1>4, <2>2
    <2> QED
      BY <1>4, <2>3 DEF below
  <1> QED
    BY <1>5, <1>6

(* A record with nothing after it, whole or not, joined to what lies below.  *)
LEMMA RecordBeyond ==
    ASSUME NEW fl \in Sector, NEW n \in 0..Words, Scan(Cut(fl, n)).next = n,
           NEW sz \in Sizes, n + sz <= Words,
           NEW q \in 1..MaxSequence, Scan(Cut(fl, n)).sequence < q, NEW v \in Values,
           fl[n] = Word(0, sz, q, v),
           \A a \in Addresses : a >= n + sz => Blank(fl, a)
    PROVE  Scan(fl) = IF Whole(fl, n)
                      THEN [next |-> n + sz, sequence |-> q, cache |-> v]
                      ELSE [Scan(Cut(fl, n)) EXCEPT !.next = n + sz]
  <1> DEFINE below == Scan(Cut(fl, n))
             tail == ScanFrom(fl)[n]
             none == [next |-> n + sz, sequence |-> 0, cache |-> None]
  <1>1. /\ Words \in Nat /\ MaxSequence \in Nat /\ n \in Nat /\ sz \in Nat /\ sz >= 1
        /\ n + sz \in 0..Words
    BY SectorAssumption
  <1>2. n \in Addresses
    BY <1>1 DEF Addresses
  <1>3. 0 \in Addresses
    BY <1>1 DEF Addresses
  <1>4. /\ ~Blank(fl, n) /\ fl[n].part = 0 /\ fl[n].size = sz /\ fl[n].seq = q /\ fl[n].val = v
    <2>1. Word(0, sz, q, v) \notin {Erased, Garbage}
      BY <1>3, WordAssumption
    <2> QED
      BY <2>1 DEF Word, Blank
  <1>5. Header(fl, n)
    BY <1>1, <1>2, <1>4 DEF Header, Blank, Addresses
  <1>6. n + sz = Words \/ Blank(fl, n + sz)
    BY <1>1 DEF Addresses
  <1>7. ScanFrom(fl)[n + sz] = none
    BY <1>1, <1>6, BlankEnds
  <1>8. tail = Adds(fl, n, none)
    BY <1>4, <1>5, <1>7, ScanGoesOn
  <1>9. below \in Outcomes(0)
    BY CutTyped, ScanTyped, SectorAssumption DEF Scan
  <1>10. Scan(fl) = Joined(below, tail)
    BY ScanJoins
  <1>11. CASE Whole(fl, n)
    <2>1. tail = [none EXCEPT !.sequence = q, !.cache = v]
      BY <1>1, <1>4, <1>8, <1>11 DEF Adds
    <2>2. tail = [next |-> n + sz, sequence |-> q, cache |-> v]
      BY <2>1
    <2>3. below.sequence <= tail.sequence
      BY <1>1, <1>9, <2>2 DEF Outcomes
    <2> QED
      BY <1>10, <1>11, <2>2, <2>3 DEF Joined
  <1>12. CASE ~Whole(fl, n)
    <2>1. tail = none
      BY <1>8, <1>12 DEF Adds
    <2> HIDE DEF below, tail
    <2>2. PICK x \in 0..Words, y \in 0..MaxSequence, z \in Values \cup {None} :
              below = [next |-> x, sequence |-> y, cache |-> z] /\ (y = 0 => z = None)
      BY <1>9 DEF Outcomes
    <2>3. [below EXCEPT !.next = n + sz] = [next |-> n + sz, sequence |-> y, cache |-> z]
      BY <2>2
    <2>4. CASE y = 0
      BY <1>10, <2>1, <2>2, <2>3, <2>4, <1>12 DEF Joined, below
    <2>5. CASE y # 0
      <3>1. ~ (below.sequence <= tail.sequence)
        BY <1>1, <2>1, <2>2, <2>5
      <3>2. Scan(fl) = [below EXCEPT !.next = n + sz]
        BY <1>10, <2>1, <3>1 DEF Joined
      <3> QED
        BY <1>12, <3>2 DEF below
    <2> QED
      BY <2>4, <2>5
  <1> QED
    BY <1>11, <1>12

(* A sector with nothing in it.                                              *)
LEMMA BlankSector ==
    ASSUME NEW fl \in Sector, \A a \in Addresses : Blank(fl, a)
    PROVE  Scan(fl) = [next |-> 0, sequence |-> 0, cache |-> None]
  <1>1. 0 \in 0..Words /\ (0 = Words \/ Blank(fl, 0))
    BY SectorAssumption DEF Addresses
  <1> QED
    BY <1>1, BlankEnds DEF Scan

\* What a scan of a sector may find, when a save was cut short or not.
Finds(fl) ==
    /\ Scan(fl).next \in 0..Words
    /\ \A a \in Addresses : a >= Scan(fl).next => Blank(fl, a)
    /\ wiped \/ Scan(fl).cache \in {cache} \cup tried

(* The record beyond what is acknowledged is found when it is whole, and     *)
(* skipped when it is torn; nothing lies beyond it.                          *)
LEMMA ScanFinds ==
    ASSUME TypeOK, NEW fl \in Sector, Reached(fl), Beyond(fl)
    PROVE  Finds(fl)
  <1> USE NumberTypes
  <1>1. CASE next = Words \/ Blank(fl, next)
    <2>1. Scan(fl) = Scan(Cut(fl, next))
      BY <1>1, NothingBeyond DEF Reached
    <2>2. Scan(fl).next = next /\ (wiped \/ Scan(fl).cache = cache)
      BY <2>1 DEF Reached, Ram
    <2>3. \A a \in Addresses : a >= next => Blank(fl, a)
      BY <1>1, SectorAssumption DEF Beyond, Addresses
    <2> QED
      BY <2>2, <2>3 DEF Finds
  <1>2. CASE ~ (next = Words \/ Blank(fl, next))
    <2>1. next \in Addresses /\ next >= next
      BY <1>2
    <2>2. PICK v \in tried : /\ ~Full /\ sequence < MaxSequence
                             /\ fl[next] = Word(next - next, size, sequence + 1, v)
      BY <1>2, <2>1 DEF Beyond
    <2>3. /\ size \in Sizes /\ next + size <= Words /\ sequence + 1 \in 1..MaxSequence
          /\ v \in Values /\ next - next = 0
      BY <2>2, SectorAssumption DEF TypeOK, Full
    <2>4. \A a \in Addresses : a >= next + size => Blank(fl, a)
      BY DEF Beyond, Addresses
    <2>5. Scan(Cut(fl, next)).next = next /\ Scan(Cut(fl, next)).sequence < sequence + 1
      <3>1. Scan(Cut(fl, next)) \in Outcomes(0)
        BY CutTyped, ScanTyped DEF Scan
      <3>2. PICK y \in 0..MaxSequence : y = Scan(Cut(fl, next)).sequence
        BY <3>1 DEF Outcomes
      <3>3. y < sequence + 1
        BY <3>2, SectorAssumption DEF Reached
      <3> QED
        BY <3>2, <3>3 DEF Reached
    <2>6. Scan(fl) = IF Whole(fl, next)
                     THEN [next |-> next + size, sequence |-> sequence + 1, cache |-> v]
                     ELSE [Scan(Cut(fl, next)) EXCEPT !.next = next + size]
      BY <2>2, <2>3, <2>4, <2>5, RecordBeyond
    <2>7. CASE Whole(fl, next)
      <3>1. Scan(fl).next = next + size /\ Scan(fl).cache = v
        BY <2>6, <2>7
      <3> QED
        BY <2>2, <2>3, <2>4, <3>1 DEF Finds
    <2>8. CASE ~Whole(fl, next)
      <3>1. PICK r \in Outcomes(0) : r = Scan(Cut(fl, next))
        BY CutTyped, ScanTyped DEF Scan
      <3>2. Scan(fl).next = next + size /\ Scan(fl).cache = r.cache
        BY <2>6, <2>8, <3>1 DEF Outcomes
      <3>3. wiped \/ r.cache = cache
        BY <3>1 DEF Reached, Ram
      <3> QED
        BY <2>3, <2>4, <3>2, <3>3 DEF Finds
    <2> QED
      BY <2>7, <2>8
  <1> QED
    BY <1>1, <1>2

LEMMA EmptiedFinds ==
    ASSUME NEW fl \in Sector, Emptied(fl)
    PROVE  Finds(fl)
  <1>1. Scan(fl).next = 0
    BY BlankSector DEF Emptied
  <1> QED
    BY <1>1, SectorAssumption DEF Emptied, Finds

(* Programming one more word, wherever it is cut short, keeps what is        *)
(* acknowledged and adds to the attempt.                                     *)
LEMMA WordProgrammed ==
    ASSUME IInv, ~soiled, pc = "program", flash[Target] = Erased,
           NEW content \in {Erased, Garbage, Current}
    PROVE  /\ [flash EXCEPT ![Target] = content] \in Sector
           /\ Reached([flash EXCEPT ![Target] = content])
           /\ Beyond([flash EXCEPT ![Target] = content])
  <1> DEFINE fl == [flash EXCEPT ![Target] = content]
  <1> USE NumberTypes
  <1>1. TypeOK /\ Reached(flash) /\ Beyond(flash) /\ Programming
    BY DEF IInv, Legible, Emptied
  <1>2. /\ word < size /\ next + size <= Words /\ word \in 0..size
        /\ saving \in tried /\ saving \in Values /\ tried \subseteq Values
        /\ sequence < MaxSequence /\ ~Full
    BY DEF IInv, Saving, TypeOK
  <1>3. Target \in Addresses /\ Target = next + word
    BY <1>1, <1>2 DEF Target, Addresses
  <1>4. Current \in Content /\ Current \notin {Erased, Garbage}
    <2>1. /\ word \in Addresses /\ size \in Sizes /\ sequence + 1 \in 1..MaxSequence
      BY <1>1, <1>2, SectorAssumption DEF TypeOK, Addresses
    <2> QED
      BY <1>2, <2>1, WordAssumption DEF Current, Content
  <1>5. fl \in Sector
    BY <1>1, <1>3, <1>4 DEF Sector, Content
  <1>6. /\ fl[Target] = content
        /\ \A a \in Addresses : a # Target => fl[a] = flash[a]
    BY <1>1, <1>3 DEF Sector
  <1> HIDE DEF fl
  <1>7. Cut(fl, next) = Cut(flash, next)
    <2>1. \A a \in Addresses : a < next => fl[a] = flash[a]
      BY <1>1, <1>3, <1>6 DEF Addresses
    <2> QED
      BY <2>1 DEF Cut
  <1>8. Reached(fl)
    BY <1>1, <1>7 DEF Reached
  <1>9. ASSUME NEW a \in Addresses, a >= next, ~Blank(fl, a)
        PROVE  /\ a < next + size /\ ~Blank(fl, next)
               /\ \E v \in tried : fl[a] = Word(a - next, size, sequence + 1, v)
    <2>1. CASE a = Target
      <3>1. fl[a] = Current
        BY <1>6, <1>9, <2>1 DEF Blank
      <3>2. fl[a] = Word(a - next, size, sequence + 1, saving) /\ a < next + size
        BY <1>1, <1>2, <1>3, <2>1, <3>1 DEF Current
      <3>3. ~Blank(fl, next)
        <4>1. CASE word = 0
          <5>1. next = Target
            BY <1>1, <1>3, <4>1
          <5> QED
            BY <1>9, <2>1, <5>1
        <4>2. CASE word # 0
          <5>1. 0 \in 0..word - 1 /\ next + 0 = next /\ next # Target /\ next \in Addresses
            BY <1>1, <1>2, <1>3, <4>2
          <5>2. flash[next] = Word(0, size, sequence + 1, saving)
            BY <1>1, <5>1 DEF Programming
          <5>3. 0 \in Addresses /\ size \in Sizes /\ sequence + 1 \in 1..MaxSequence
            BY <1>1, <1>2, SectorAssumption DEF TypeOK, Addresses
          <5>4. flash[next] \notin {Erased, Garbage}
            BY <1>2, <5>2, <5>3, WordAssumption
          <5> QED
            BY <1>6, <5>1, <5>4 DEF Blank
        <4> QED
          BY <4>1, <4>2
      <3> QED
        BY <1>2, <3>2, <3>3
    <2>2. CASE a # Target
      <3>1. fl[a] = flash[a] /\ ~Blank(flash, a)
        BY <1>6, <1>9, <2>2 DEF Blank
      <3>2. /\ a < next + size /\ ~Blank(flash, next)
            /\ \E v \in tried : flash[a] = Word(a - next, size, sequence + 1, v)
        BY <1>1, <1>9, <3>1 DEF Beyond
      <3>3. next # Target
        BY <3>2 DEF Blank
      <3>4. next \in Addresses
        BY <1>1, <1>2
      <3> QED
        BY <1>6, <3>1, <3>2, <3>3, <3>4 DEF Blank
    <2> QED
      BY <2>1, <2>2
  <1>10. Beyond(fl)
    BY <1>2, <1>9 DEF Beyond
  <1> QED
    BY <1>5, <1>8, <1>10 DEF fl

-----------------------------------------------------------------------------
(* The steps.                                                                *)

LEMMA ErasedSector ==
    /\ [a \in Addresses |-> Erased] \in Sector
    /\ [a \in Addresses |-> Garbage] \in Sector
    /\ \A a \in Addresses : /\ Blank([b \in Addresses |-> Erased], a)
                            /\ Blank([b \in Addresses |-> Garbage], a)
  BY DEF Sector, Content, Blank

LEMMA ReachedKept ==
    ASSUME Reached(flash), UNCHANGED <<flash, next, sequence>>,
           wiped' \/ (wiped' = wiped /\ cache' = cache)
    PROVE  Reached(flash)'
  <1>1. Cut(flash', next') = Cut(flash, next)
    BY DEF Cut
  <1>2. wiped' \/ (~wiped' => Ram' = Ram)
    BY DEF Ram
  <1> QED
    BY <1>1, <1>2 DEF Reached, Ram

LEMMA InitInv ==
    ASSUME Init
    PROVE  IInv
  <1>1. flash \in Sector /\ \A a \in Addresses : Blank(flash, a)
    BY ErasedSector DEF Init
  <1>2. /\ next = 0 /\ 0 \in 0..Words /\ 0 \in 0..MaxSequence /\ Words \in Nat
        /\ MaxFailures \in 0..MaxFailures
    BY SectorAssumption DEF Init
  <1>3. TypeOK
    <2>1. size \in Sizes /\ size \in Nat /\ size >= 1
      BY SectorAssumption DEF Init
    <2>2. word \in 0..size /\ (pc = "program" => next + size <= Words /\ word < size)
      BY <2>1 DEF Init
    <2>3. {wiped, soiled, failed} \subseteq BOOLEAN /\ tried \subseteq Values
      BY DEF Init
    <2> QED
      BY <1>1, <1>2, <2>1, <2>2, <2>3 DEF Init, TypeOK, Sector
  <1>4. Saving
    BY DEF Init, Saving
  <1>5. Scan(Cut(flash, next)) = Ram
    <2>1. Cut(flash, next) \in Sector
      BY <1>1, <1>2, CutTyped
    <2>2. \A a \in Addresses : Blank(Cut(flash, next), a)
      BY <1>1 DEF Cut, Blank
    <2>3. Scan(Cut(flash, next)) = [next |-> 0, sequence |-> 0, cache |-> None]
      BY <2>1, <2>2, BlankSector
    <2> QED
      BY <2>3 DEF Ram, Init
  <1>6. Reached(flash)
    <2>1. Ram.next = 0 /\ Ram.sequence = 0
      BY DEF Ram, Init
    <2> QED
      BY <1>2, <1>5, <2>1 DEF Reached, Init
  <1>7. Beyond(flash) /\ Programming /\ Settled
    BY <1>1 DEF Beyond, Programming, Settled, Init
  <1> QED
    BY <1>3, <1>4, <1>6, <1>7 DEF IInv, Legible

LEMMA SaveInv ==
    ASSUME IInv, NEW v \in Values, Save(v)
    PROVE  IInv'
  <1> USE NumberTypes
  <1>1. TypeOK /\ Saving
    BY DEF IInv
  <1>2. UNCHANGED <<flash, size, next, sequence, cache, kept, soiled, failed, failures>>
    BY DEF Save, ramVars
  <1>3. pc = "idle" /\ saving' = v /\ word' = 0 /\ tried' = tried \cup {v}
    BY DEF Save
  <1>4. CASE Full
    <2>1. pc' = "erase" /\ wiped' = TRUE /\ Full'
      BY <1>1, <1>2, <1>4 DEF Save, Full
    <2>2. TypeOK'
      BY <1>1, <1>2, <1>3, <2>1 DEF TypeOK
    <2>3. Saving'
      BY <1>1, <1>2, <1>3, <2>1 DEF Saving, Save
    <2>4. ASSUME ~soiled
          PROVE  Legible'
      <3>1. Legible
        BY <1>2, <2>4 DEF IInv
      <3>2. CASE Reached(flash) /\ Beyond(flash)
        <4>1. Reached(flash)'
          BY <1>2, <2>1, <3>2, ReachedKept
        <4>2. Beyond(flash)'
          BY <1>2, <1>3, <3>2, <1>4 DEF Beyond, Full, Blank
        <4> QED
          BY <2>1, <4>1, <4>2 DEF Legible, Programming, Settled
      <3>3. CASE Emptied(flash)
        BY <1>2, <2>1, <3>3 DEF Emptied, Full, Blank, Legible, Programming, Settled
      <3> QED
        BY <3>1, <3>2, <3>3 DEF Legible
    <2> QED
      BY <1>2, <2>2, <2>3, <2>4 DEF IInv
  <1>5. CASE ~Full
    <2>1. pc' = "program" /\ wiped' = wiped /\ ~Full'
      BY <1>1, <1>2, <1>5 DEF Save, Full, TypeOK
    <2>2. next + size <= Words /\ 0 < size /\ 0 \in 0..size
      BY <1>1, <1>5 DEF Full
    <2>3. TypeOK'
      BY <1>1, <1>2, <1>3, <2>1, <2>2 DEF TypeOK
    <2>4. Saving'
      BY <1>1, <1>2, <1>3, <2>1 DEF Saving, Save
    <2>5. ASSUME ~soiled
          PROVE  Legible'
      <3>1. Reached(flash) /\ Beyond(flash)
        BY <1>2, <1>5, <2>5 DEF IInv, Legible, Emptied
      <3>2. Reached(flash)'
        BY <1>2, <2>1, <3>1, ReachedKept
      <3>3. Beyond(flash)'
        BY <1>2, <1>3, <3>1 DEF Beyond, Full, Blank
      <3>4. Programming' /\ Settled'
        BY <1>3, <2>1 DEF Programming, Settled
      <3> QED
        BY <3>2, <3>3, <3>4 DEF Legible
    <2> QED
      BY <1>2, <2>3, <2>4, <2>5 DEF IInv
  <1> QED
    BY <1>4, <1>5

LEMMA EraseInv ==
    ASSUME IInv, Erase
    PROVE  IInv'
  <1> USE NumberTypes
  <1>1. TypeOK /\ Saving /\ pc = "erase" /\ pc' = "program"
    BY DEF IInv, Erase
  <1>2. /\ flash' = [a \in Addresses |-> Erased] /\ next' = 0 /\ soiled' = FALSE
        /\ UNCHANGED <<size, sequence, cache, saving, word, failures, kept, tried, wiped, failed>>
    BY DEF Erase
  <1>3. wiped /\ word = 0 /\ saving \in tried /\ sequence < MaxSequence /\ cache = kept
    BY <1>1 DEF Saving
  <1>4. 0 + size <= Words /\ 0 \in 0..Words
    BY <1>1, SectorAssumption DEF TypeOK
  <1>5. flash' \in Sector /\ \A a \in Addresses : Blank(flash', a)
    BY <1>2, ErasedSector
  <1>6. TypeOK'
    <2>1. word' \in 0..size' /\ (pc' = "program" => next' + size' <= Words /\ word' < size')
      BY <1>1, <1>2, <1>3, <1>4
    <2>2. {wiped', soiled', failed'} \subseteq BOOLEAN
      BY <1>1, <1>2 DEF TypeOK
    <2> QED
      BY <1>1, <1>2, <1>4, <1>5, <2>1, <2>2 DEF TypeOK, Sector
  <1>7. Saving'
    BY <1>1, <1>2, <1>3, <1>4 DEF Saving, Full
  <1>8. Reached(flash)'
    <2>1. Cut(flash', 0) \in Sector /\ \A a \in Addresses : Blank(Cut(flash', 0), a)
      BY <1>4, <1>5, CutTyped DEF Cut, Blank
    <2>2. Scan(Cut(flash', 0)) = [next |-> 0, sequence |-> 0, cache |-> None]
      BY <2>1, BlankSector
    <2>3. Scan(Cut(flash', 0)).next = 0 /\ Scan(Cut(flash', 0)).sequence <= sequence
      BY <1>1, <2>2
    <2> QED
      BY <1>2, <1>3, <2>3 DEF Reached
  <1>9. Beyond(flash)'
    BY <1>5 DEF Beyond
  <1>10. Programming' /\ Settled'
    BY <1>1, <1>2, <1>3 DEF Programming, Settled
  <1> QED
    BY <1>6, <1>7, <1>8, <1>9, <1>10 DEF IInv, Legible

LEMMA HalfErasedFacts ==
    ASSUME TypeOK, NEW fl \in HalfErased
    PROVE  fl \in Sector /\ (fl = flash \/ \A a \in Addresses : Blank(fl, a))
  BY ErasedSector, NumberTypes DEF HalfErased

LEMMA EraseFailsInv ==
    ASSUME IInv, EraseFails
    PROVE  IInv'
  <1> USE NumberTypes
  <1>1. /\ TypeOK /\ Saving /\ pc = "erase" /\ pc' = "idle" /\ saving' = None /\ word' = 0
        /\ failed' = TRUE /\ flash' \in HalfErased /\ failures' = failures - 1 /\ failures > 0
        /\ UNCHANGED <<size, next, sequence, cache, kept, tried, wiped, soiled>>
    BY DEF IInv, EraseFails, Return, ramVars
  <1>2. failures' \in 0..MaxFailures
    BY <1>1, SectorAssumption DEF TypeOK
  <1>3. flash' \in Sector /\ (flash' = flash \/ \A a \in Addresses : Blank(flash', a))
    BY <1>1, HalfErasedFacts
  <1>4. TypeOK'
    BY <1>1, <1>2, <1>3 DEF TypeOK, Sector
  <1>5. Saving'
    BY <1>1 DEF Saving
  <1>6. ASSUME ~soiled
        PROVE  Legible'
    <2>1. Programming' /\ Settled'
      BY <1>1 DEF Programming, Settled
    <2>2. wiped' /\ Full' /\ pc' # "program"
      BY <1>1 DEF Saving, Full
    <2>3. CASE \A a \in Addresses : Blank(flash', a)
      BY <2>1, <2>2, <2>3 DEF Emptied, Legible
    <2>4. CASE flash' = flash
      <3>1. CASE Reached(flash) /\ Beyond(flash)
        <4>1. Reached(flash)'
          BY <1>1, <2>2, <2>4, <3>1, ReachedKept
        <4>2. Beyond(flash)'
          BY <1>1, <2>4, <3>1 DEF Beyond, Full, Blank
        <4> QED
          BY <2>1, <4>1, <4>2 DEF Legible
      <3>2. CASE Emptied(flash)
        BY <2>1, <2>2, <2>4, <3>2 DEF Emptied, Blank, Legible
      <3> QED
        BY <1>6, <3>1, <3>2 DEF IInv, Legible
    <2> QED
      BY <1>3, <2>3, <2>4
  <1> QED
    BY <1>1, <1>4, <1>5, <1>6 DEF IInv

(* The word a save programs lies in the sector, and is one of its words.     *)
LEMMA ProgramTyped ==
    ASSUME TypeOK, Saving, pc = "program"
    PROVE  /\ Target \in Addresses /\ Target = next + word
           /\ word < size /\ next + size <= Words /\ ~Full
           /\ saving \in tried /\ saving \in Values /\ tried \subseteq Values
           /\ size \in Sizes /\ sequence < MaxSequence /\ sequence + 1 \in 1..MaxSequence
           /\ Current \in Content /\ Programmed \in Content /\ HalfProgrammed \subseteq Content
           /\ \A content \in Content : [flash EXCEPT ![Target] = content] \in Sector
  <1> USE NumberTypes
  <1>1. /\ word < size /\ next + size <= Words /\ ~Full
        /\ saving \in tried /\ saving \in Values /\ tried \subseteq Values
        /\ size \in Sizes /\ sequence < MaxSequence /\ sequence + 1 \in 1..MaxSequence
    BY SectorAssumption DEF Saving, TypeOK
  <1>2. Target \in Addresses /\ Target = next + word /\ word \in Addresses
    BY <1>1 DEF Target, Addresses
  <1>3. Current \in Content /\ {Erased, Garbage} \subseteq Content
    BY <1>1, <1>2 DEF Current, Content
  <1>4. flash[Target] \in Content
    BY <1>2 DEF Sector
  <1>5. Programmed \in Content /\ HalfProgrammed \subseteq Content
    BY <1>3, <1>4 DEF Programmed, HalfProgrammed
  <1>6. \A content \in Content : [flash EXCEPT ![Target] = content] \in Sector
    BY <1>2 DEF Sector
  <1> QED
    BY <1>1, <1>2, <1>3, <1>5, <1>6

(* With its last word the record is whole, and the scan finds it where the   *)
(* store remembers it.                                                       *)
LEMMA RecordWritten ==
    ASSUME TypeOK, NEW fl \in Sector, Reached(fl), next + size <= Words,
           sequence < MaxSequence, NEW v \in Values,
           \A i \in 0..size - 1 : fl[next + i] = Word(i, size, sequence + 1, v)
    PROVE  Scan(Cut(fl, next + size))
              = [next |-> next + size, sequence |-> sequence + 1, cache |-> v]
  <1> DEFINE c == Cut(fl, next + size)
  <1> USE NumberTypes
  <1>1. /\ size \in Sizes /\ sequence + 1 \in 1..MaxSequence /\ next + size \in 0..Words
        /\ next \in 0..Words
    BY SectorAssumption DEF TypeOK
  <1>2. c \in Sector
    BY <1>1, CutTyped
  <1>3. \A i \in 0..size - 1 : c[next + i] = Word(i, size, sequence + 1, v)
    <2> TAKE i \in 0..size - 1
    <2>1. next + i \in Addresses /\ next + i < next + size
      BY DEF Addresses
    <2> QED
      BY <2>1 DEF Cut
  <1>4. Cut(c, next) = Cut(fl, next)
    BY DEF Cut, Addresses
  <1>5. \A a \in Addresses : a >= next + size => Blank(c, a)
    BY DEF Cut, Blank, Addresses
  <1>6. Scan(Cut(c, next)).next = next /\ Scan(Cut(c, next)).sequence < sequence + 1
    <2>1. Scan(Cut(fl, next)) \in Outcomes(0)
      BY CutTyped, ScanTyped DEF Scan
    <2>2. PICK y \in 0..MaxSequence : y = Scan(Cut(fl, next)).sequence
      BY <2>1 DEF Outcomes
    <2>3. y < sequence + 1
      BY <2>2, SectorAssumption DEF Reached
    <2> QED
      BY <1>4, <2>2, <2>3 DEF Reached
  <1> HIDE DEF c
  <1>7. c[next] = Word(0, size, sequence + 1, v)
    BY <1>3
  <1>8. Whole(c, next)
    <2>1. c[next].size = size
      BY <1>7 DEF Word
    <2>2. ASSUME NEW i \in 1..size - 1
          PROVE  c[next + i] = [c[next] EXCEPT !.part = i]
      <3>1. c[next + i] = Word(i, size, sequence + 1, v)
        BY <1>3
      <3> QED
        BY <1>7, <3>1 DEF Word
    <2> QED
      BY <2>1, <2>2 DEF Whole
  <1>9. Scan(c) = [next |-> next + size, sequence |-> sequence + 1, cache |-> v]
    BY <1>1, <1>2, <1>5, <1>6, <1>7, <1>8, RecordBeyond
  <1> QED
    BY <1>9 DEF c

LEMMA ProgramInv ==
    ASSUME IInv, Program
    PROVE  IInv'
  <1> USE NumberTypes
  <1>1. /\ TypeOK /\ Saving /\ pc = "program" /\ flash' = [flash EXCEPT ![Target] = Programmed]
        /\ soiled' = (soiled \/ flash[Target] # Erased) /\ UNCHANGED <<size, failures, failed>>
    BY DEF IInv, Program
  <1>2. flash' \in Sector
    BY <1>1, ProgramTyped
  <1>3. ASSUME ~soiled'
        PROVE  /\ Reached(flash) /\ Reached(flash') /\ Beyond(flash')
               /\ \A i \in 0..word : flash'[next + i] = Word(i, size, sequence + 1, saving)
    <2>1. ~soiled /\ flash[Target] = Erased /\ Programmed = Current
      BY <1>1, <1>3 DEF Programmed
    <2>2. Legible /\ Reached(flash)
      BY <1>1, <2>1 DEF IInv, Legible, Emptied
    <2>3. Reached(flash') /\ Beyond(flash')
      BY <1>1, <2>1, WordProgrammed
    <2>4. ASSUME NEW i \in 0..word
          PROVE  flash'[next + i] = Word(i, size, sequence + 1, saving)
      <3>1. CASE i = word
        BY <1>1, <2>1, <3>1, ProgramTyped DEF Current, Sector
      <3>2. CASE i # word
        <4>1. i \in 0..word - 1 /\ next + i # next + word
          BY <1>1, <3>2
        <4>2. flash[next + i] = Word(i, size, sequence + 1, saving)
          BY <1>1, <2>2, <4>1 DEF Legible, Programming
        <4>3. next + i \in Addresses
          BY <1>1, <4>1, ProgramTyped DEF Addresses
        <4> QED
          BY <1>1, <4>1, <4>2, <4>3, ProgramTyped DEF Sector
      <3> QED
        BY <3>1, <3>2
    <2> QED
      BY <2>2, <2>3, <2>4
  <1>4. CASE word + 1 # size
    <2>1. word' = word + 1 /\ UNCHANGED <<next, sequence, cache, pc, saving, kept, tried, wiped>>
      BY <1>4 DEF Program, ramVars
    <2>2. TypeOK'
      <3>1. word' \in 0..size' /\ (pc' = "program" => next' + size' <= Words /\ word' < size')
        BY <1>1, <1>4, <2>1, ProgramTyped
      <3>2. soiled' \in BOOLEAN /\ {wiped', soiled', failed'} \subseteq BOOLEAN
        BY <1>1, <2>1 DEF TypeOK
      <3> QED
        BY <1>1, <1>2, <2>1, <3>1, <3>2 DEF TypeOK, Sector
    <2>3. Saving'
      BY <1>1, <2>1 DEF Saving, Full
    <2>4. ASSUME ~soiled'
          PROVE  Legible'
      <3>1. Reached(flash)' /\ Beyond(flash)'
        BY <1>1, <1>3, <2>1, <2>4 DEF Reached, Ram, Beyond, Full, Blank
      <3>2. Programming'
        BY <1>1, <1>3, <2>1, <2>4 DEF Programming
      <3>3. Settled'
        BY <1>1, <2>1 DEF Settled
      <3> QED
        BY <3>1, <3>2, <3>3 DEF Legible
    <2> QED
      BY <2>2, <2>3, <2>4 DEF IInv
  <1>5. CASE word + 1 = size
    <2>1. /\ next' = next + size /\ sequence' = sequence + 1 /\ cache' = saving
          /\ kept' = saving /\ tried' = {} /\ wiped' = FALSE
          /\ pc' = "idle" /\ saving' = None /\ word' = 0
      BY <1>5 DEF Program, Acknowledge, Return
    <2>2. TypeOK'
      <3>1. next' \in 0..Words /\ sequence' \in 0..MaxSequence /\ word' \in 0..size'
        BY <1>1, <2>1, ProgramTyped
      <3>2. {wiped', soiled', failed'} \subseteq BOOLEAN
        BY <1>1, <2>1 DEF TypeOK
      <3>3. cache' \in Values /\ kept' \in Values /\ tried' \subseteq Values
        BY <1>1, <2>1, ProgramTyped
      <3> QED
        BY <1>1, <1>2, <2>1, <3>1, <3>2, <3>3 DEF TypeOK, Sector
    <2>3. Saving'
      BY <2>1 DEF Saving
    <2>4. ASSUME ~soiled'
          PROVE  Legible'
      <3>1. Scan(Cut(flash', next + size))
               = [next |-> next + size, sequence |-> sequence + 1, cache |-> saving]
        <4>1. \A i \in 0..size - 1 : flash'[next + i] = Word(i, size, sequence + 1, saving)
          BY <1>1, <1>3, <1>5, <2>4
        <4> QED
          BY <1>1, <1>2, <1>3, <2>4, <4>1, ProgramTyped, RecordWritten
      <3>2. \A a \in Addresses : a >= next + size => Blank(flash', a)
        <4>1. Beyond(flash')
          BY <1>3, <2>4
        <4>2. \A a \in Addresses : a >= next + size => a >= next /\ ~ (a < next + size)
          BY <1>1
        <4> QED
          BY <4>1, <4>2 DEF Beyond
      <3>3. Reached(flash)'
        BY <1>1, <2>1, <3>1 DEF Reached, Ram
      <3>4. Beyond(flash)'
        BY <2>1, <3>2 DEF Beyond
      <3>5. Programming' /\ Settled'
        BY <2>1, <3>2 DEF Programming, Settled, Blank
      <3> QED
        BY <3>3, <3>4, <3>5 DEF Legible
    <2> QED
      BY <2>2, <2>3, <2>4 DEF IInv
  <1> QED
    BY <1>4, <1>5

LEMMA ProgramFailsInv ==
    ASSUME IInv, ProgramFails
    PROVE  IInv'
  <1> USE NumberTypes
  <1>1. /\ TypeOK /\ Saving /\ pc = "program" /\ failed' = TRUE
        /\ pc' = "idle" /\ saving' = None /\ word' = 0
        /\ soiled' = (soiled \/ flash[Target] # Erased)
        /\ UNCHANGED <<size, next, sequence, cache, kept, tried, wiped>>
    BY DEF IInv, ProgramFails, Return, ramVars
  <1>2. PICK content \in HalfProgrammed : flash' = [flash EXCEPT ![Target] = content]
    BY DEF ProgramFails
  <1>3. failures' \in 0..MaxFailures
    BY <1>1, SectorAssumption DEF ProgramFails, TypeOK
  <1>4. flash' \in Sector
    BY <1>1, <1>2, ProgramTyped
  <1>5. TypeOK'
    <2>1. word' \in 0..size' /\ {wiped', soiled', failed'} \subseteq BOOLEAN
      BY <1>1 DEF TypeOK
    <2> QED
      BY <1>1, <1>3, <1>4, <2>1 DEF TypeOK, Sector
  <1>6. Saving'
    BY <1>1 DEF Saving
  <1>7. ASSUME ~soiled'
        PROVE  Legible'
    <2>1. ~soiled /\ flash[Target] = Erased /\ content \in {Erased, Garbage, Current}
      BY <1>1, <1>2, <1>7 DEF HalfProgrammed
    <2>2. Reached(flash') /\ Beyond(flash')
      BY <1>1, <1>2, <2>1, WordProgrammed
    <2>3. Reached(flash)' /\ Beyond(flash)'
      BY <1>1, <2>2 DEF Reached, Ram, Beyond, Full, Blank
    <2> QED
      BY <1>1, <2>3 DEF Legible, Programming, Settled
  <1> QED
    BY <1>5, <1>6, <1>7 DEF IInv

(* What a reset leaves in the sector, and what the next start finds there.   *)
LEMMA AfterResetFinds ==
    ASSUME IInv, NEW fl \in AfterReset
    PROVE  /\ fl \in Sector
           /\ ~soiled /\ (pc = "program" => flash[Target] = Erased) => Finds(fl)
  <1> USE NumberTypes
  <1>1. TypeOK /\ Saving /\ pc \in {"idle", "erase", "program"}
    BY DEF IInv, TypeOK
  <1>2. ~soiled => (Reached(flash) /\ Beyond(flash)) \/ Emptied(flash)
    BY DEF IInv, Legible
  <1>3. ~soiled => Finds(flash)
    BY <1>1, <1>2, ScanFinds, EmptiedFinds
  <1>4. CASE pc = "idle"
    <2>1. fl = flash
      BY <1>4 DEF AfterReset
    <2> QED
      BY <1>1, <1>3, <2>1
  <1>5. CASE pc = "erase"
    <2>1. fl \in HalfErased
      BY <1>5 DEF AfterReset
    <2>2. fl \in Sector /\ (fl = flash \/ \A a \in Addresses : Blank(fl, a))
      BY <1>1, <2>1, HalfErasedFacts
    <2>3. Emptied(fl) \/ fl = flash
      BY <1>1, <1>5, <2>2 DEF Emptied, Saving
    <2> QED
      BY <1>3, <2>2, <2>3, EmptiedFinds
  <1>6. CASE pc = "program"
    <2>1. PICK content \in HalfProgrammed : fl = [flash EXCEPT ![Target] = content]
      BY <1>6 DEF AfterReset
    <2>2. fl \in Sector
      BY <1>1, <1>6, <2>1, ProgramTyped
    <2>3. ASSUME ~soiled, flash[Target] = Erased
          PROVE  Finds(fl)
      <3>1. content \in {Erased, Garbage, Current}
        BY <2>1, <2>3 DEF HalfProgrammed
      <3>2. Reached(fl) /\ Beyond(fl)
        BY <1>6, <2>1, <2>3, <3>1, WordProgrammed
      <3> QED
        BY <1>1, <2>2, <3>2, ScanFinds
    <2> QED
      BY <1>6, <2>2, <2>3
  <1> QED
    BY <1>1, <1>4, <1>5, <1>6

LEMMA ResetInv ==
    ASSUME IInv, Reset
    PROVE  IInv'
  <1> USE NumberTypes
  <1>1. /\ TypeOK /\ flash' \in AfterReset /\ size' \in Sizes /\ failures' = failures
        /\ pc' = "idle" /\ saving' = None /\ word' = 0
        /\ soiled' = (soiled \/ (pc = "program" /\ flash[Target] # Erased))
        /\ kept' = cache' /\ tried' = {} /\ wiped' = FALSE /\ failed' = FALSE
        /\ next' = Scan(flash').next /\ sequence' = Scan(flash').sequence
        /\ cache' = Scan(flash').cache
    BY DEF IInv, Reset, Return, Loaded
  <1>2. flash' \in Sector
    BY <1>1, AfterResetFinds
  <1>3. PICK x \in 0..Words, y \in 0..MaxSequence, z \in Values \cup {None} :
            Scan(flash') = [next |-> x, sequence |-> y, cache |-> z]
    <2>1. Scan(flash') \in Outcomes(0)
      BY <1>1, <1>2, ScanTyped DEF Scan
    <2> QED
      BY <2>1 DEF Outcomes
  <1>4. next' = x /\ sequence' = y /\ cache' = z
    BY <1>1, <1>3
  <1>5. TypeOK'
    <2>1. size' \in Nat /\ word' \in 0..size'
      BY <1>1, SectorAssumption
    <2>2. soiled \in BOOLEAN /\ soiled' \in BOOLEAN
      BY <1>1 DEF TypeOK
    <2>3. {wiped', soiled', failed'} \subseteq BOOLEAN
      BY <1>1, <2>2
    <2> QED
      BY <1>1, <1>2, <1>4, <2>1, <2>3 DEF TypeOK, Sector
  <1>6. Saving'
    BY <1>1 DEF Saving
  <1>7. ASSUME ~soiled'
        PROVE  Legible'
    <2>1. \A a \in Addresses : a >= next' => Blank(flash', a)
      <3>1. Finds(flash')
        BY <1>1, <1>7, AfterResetFinds
      <3> QED
        BY <1>1, <3>1 DEF Finds
    <2>2. Reached(flash)'
      <3>1. Scan(Cut(flash', next')) = Scan(flash')
        BY <1>1, <1>2, CutAtEnd
      <3>2. y <= y
        OBVIOUS
      <3> QED
        BY <1>3, <1>4, <3>1, <3>2 DEF Reached, Ram
    <2>3. Beyond(flash)'
      BY <2>1 DEF Beyond, Blank
    <2>4. Programming' /\ Settled'
      BY <1>1, <2>1 DEF Programming, Settled, Blank
    <2> QED
      BY <2>2, <2>3, <2>4 DEF Legible
  <1> QED
    BY <1>5, <1>6, <1>7 DEF IInv

-----------------------------------------------------------------------------
(* The theorems.                                                             *)

(* Whatever is saved, fails or is cut short: below the place to write lie    *)
(* the records acknowledged, beyond it at most the words of one attempt.     *)
THEOREM Invariance == Spec => []IInv
  <1>1. Init => IInv
    BY InitInv
  <1>2. IInv /\ [Next]_vars => IInv'
    <2> SUFFICES ASSUME IInv, [Next]_vars
                 PROVE  IInv'
      OBVIOUS
    <2>1. CASE UNCHANGED vars
      <3>1. /\ UNCHANGED <<flash, size, next, sequence, cache, pc, saving, word>>
            /\ UNCHANGED <<failures, kept, tried, wiped, soiled, failed>>
        BY <2>1 DEF vars, ramVars, saveVars, historyVars
      <3>2. TypeOK'
        BY <3>1 DEF IInv, TypeOK
      <3>3. Saving'
        BY <3>1 DEF IInv, Saving, Full
      <3>4. Reached(flash) => Reached(flash)'
        BY <3>1, ReachedKept
      <3>5. (Beyond(flash) => Beyond(flash)') /\ (Emptied(flash) => Emptied(flash)')
        BY <3>1 DEF Beyond, Emptied, Full, Blank
      <3>6. (Programming => Programming') /\ (Settled => Settled')
        BY <3>1 DEF Programming, Settled, Blank
      <3> QED
        BY <3>1, <3>2, <3>3, <3>4, <3>5, <3>6 DEF IInv, Legible
    <2>2. CASE \E v \in Values : Save(v)
      BY <2>2, SaveInv
    <2>3. CASE Erase
      BY <2>3, EraseInv
    <2>4. CASE EraseFails
      BY <2>4, EraseFailsInv
    <2>5. CASE Program
      BY <2>5, ProgramInv
    <2>6. CASE ProgramFails
      BY <2>6, ProgramFailsInv
    <2>7. CASE Reset
      BY <2>7, ResetInv
    <2> QED
      BY <2>1, <2>2, <2>3, <2>4, <2>5, <2>6, <2>7 DEF Next
  <1> QED
    BY <1>1, <1>2, PTL DEF Spec

(* The sector holds flashwords, the next record goes inside it or at its end *)
(* and a word that is programmed lies in it (param_storage.c, the bounds of  *)
(* param_storage_save), for any size of sector and of records.               *)
THEOREM TypeCorrect == Spec => []TypeOK
  <1>1. IInv => TypeOK
    BY DEF IInv
  <1> QED
    BY <1>1, Invariance, PTL

(* What param_scan_sector would find at any moment, a save or an erase cut   *)
(* short there included, is the record acknowledged last or one whose save   *)
(* was attempted since.                                                      *)
THEOREM ResetFindsLast == Spec => []AckedSurvives
  <1>1. IInv => AckedSurvives
    <2> SUFFICES ASSUME IInv
                 PROVE  AckedSurvives
      OBVIOUS
    <2>1. TypeOK /\ flash \in Sector /\ cache = kept
      BY NumberTypes DEF IInv, Saving
    <2>2. ~soiled => Finds(flash)
      BY <2>1, ScanFinds, EmptiedFinds DEF IInv, Legible
    <2> QED
      BY <2>1, <2>2 DEF AckedSurvives, Finds
  <1> QED
    BY <1>1, Invariance, PTL

(* While no save has failed, next_write_addr, current_sequence and           *)
(* cached_params are what param_scan_sector would set them to.               *)
THEOREM RamIsFlash == Spec => []RamMatchesFlash
  <1>1. IInv => RamMatchesFlash
    <2> SUFFICES ASSUME IInv, pc = "idle", ~failed, ~soiled
                 PROVE  Ram = Scan(flash)
      BY DEF RamMatchesFlash
    <2> USE NumberTypes
    <2>1. TypeOK /\ ~wiped /\ \A a \in Addresses : a >= next => Blank(flash, a)
      BY DEF IInv, Legible, Settled
    <2>2. Reached(flash)
      BY <2>1 DEF IInv, Legible, Emptied
    <2>3. Scan(flash) = Scan(Cut(flash, next))
      <3>1. next = Words \/ Blank(flash, next)
        BY <2>1
      <3> QED
        BY <2>1, <2>2, <3>1, NothingBeyond DEF Reached
    <2> QED
      BY <2>1, <2>2, <2>3 DEF Reached
  <1> QED
    BY <1>1, Invariance, PTL

=============================================================================
