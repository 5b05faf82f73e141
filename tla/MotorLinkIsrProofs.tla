------------------------- MODULE MotorLinkIsrProofs -------------------------
(***************************************************************************)
(* The frame-by-frame motor link implements the atomic one, for any nodes,  *)
(* any torques and any order of the nodes; and torque reaches only a drive  *)
(* in closed loop.                                                          *)
(***************************************************************************)
EXTENDS MotorLinkIsr, SequenceTheorems, TLAPS

FrameSet ==
    [kind : {"clear", "mode", "same"}, side : Sides, value : {None}]
    \cup [kind : {"torque"}, side : Sides, value : Torques]
    \cup [kind : {"axis"}, side : Sides, value : {"idle", "closed"}]

Typed ==
    /\ up \in BOOLEAN /\ enabled \in BOOLEAN /\ busOff \in BOOLEAN /\ lost \in BOOLEAN
    /\ sent \in [Sides -> Torques \cup {None}]
    /\ axis \in [Sides -> {"idle", "closed"}] /\ torque \in [Sides -> Torques]
    /\ op \in {"none", "on", "off", "mode", "torque"}
    /\ todo \in Seq(FrameSet)
    /\ op = "torque" => \A i \in DOMAIN todo : todo[i].kind \in {"torque", "same"}
    /\ adding \in BOOLEAN /\ ok \in BOOLEAN /\ isr \in BOOLEAN
    /\ before \in LinkStates
    /\ adding => op # "none" /\ todo # <<>> /\ Head(todo).kind # "same"
    /\ isr => busOff /\ up

\* A frame of this kind for this node has still to be queued.
Pending(kind, s) == \E i \in DOMAIN todo : todo[i].kind = kind /\ todo[i].side = s

\* No node is told the same thing twice.
Once ==
    \A i, j \in DOMAIN todo :
        todo[i].kind = todo[j].kind /\ todo[i].side = todo[j].side => i = j

\* The frames still to be queued are of these kinds and tell these values.
Tell(kinds, state) ==
    \A i \in DOMAIN todo :
        /\ todo[i].kind \in kinds
        /\ todo[i].kind = "torque" => todo[i].value = Zero
        /\ todo[i].kind = "axis" => todo[i].value = state

\* What the drives hold is what they held before, or what they were told.
Towards(state) ==
    \A s \in Sides : /\ torque[s] \in {before.torque[s], Zero}
                     /\ axis[s] \in {before.axis[s], state}

\* How far motor_link_enable(true) has come.
On ==
    /\ sent = before.sent
    /\ Tell({"clear", "mode", "torque", "axis"}, "closed")
    /\ Towards("closed")
    /\ ok => \A s \in Sides : /\ torque[s] = Zero \/ Pending("torque", s)
                              /\ axis[s] = "closed" \/ Pending("axis", s)

\* How far motor_link_enable(false) has come.  A refused frame leaves its node
\* as it was.
Off ==
    /\ sent = before.sent
    /\ Tell({"torque", "axis"}, "idle")
    /\ Towards("idle")
    /\ \A s \in Sides : /\ Pending("torque", s) => before.enabled /\ torque[s] = before.torque[s]
                        /\ Pending("axis", s) => axis[s] = before.axis[s]
    /\ ~before.enabled => torque = before.torque
    /\ ok => \A s \in Sides : /\ before.enabled => torque[s] = Zero \/ Pending("torque", s)
                              /\ axis[s] = "idle" \/ Pending("axis", s)
    /\ ~ok => \E s \in Sides :
                  \/ ~Pending("axis", s) /\ axis[s] = before.axis[s]
                  \/ before.enabled /\ ~Pending("torque", s) /\ torque[s] = before.torque[s]

\* How far motor_link_set_control_mode has come.
ModeSet ==
    /\ before.enabled
    /\ sent = before.sent /\ axis = before.axis
    /\ Tell({"mode", "torque"}, "idle")
    /\ Towards("idle")

\* How far a torque command has come.
Commanded(cmd) ==
    /\ \A i \in DOMAIN todo :
           /\ todo[i].kind \in {"torque", "same"}
           /\ todo[i].kind = "torque" =>
                  todo[i].value = cmd[todo[i].side] /\ before.sent[todo[i].side] # cmd[todo[i].side]
    /\ \A s \in Sides :
           \/ torque[s] = before.torque[s] /\ sent[s] = before.sent[s]
           \/ torque[s] = cmd[s] /\ sent[s] = cmd[s] /\ before.sent[s] # cmd[s]

Torqued ==
    /\ before.enabled /\ axis = before.axis
    /\ \E cmd \in [Sides -> Torques] : Commanded(cmd)

\* What an operation found, and keeps until its end.
Found ==
    /\ up /\ before.up /\ ~before.busOff
    /\ enabled = before.enabled /\ lost = before.lost
    /\ before.enabled => \A s \in Sides : before.axis[s] = "closed"

Progress ==
    /\ op = "none" /\ enabled => \A s \in Sides : axis[s] = "closed"
    /\ op # "none" => Found /\ Once
    /\ op = "on" => On
    /\ op = "off" => Off
    /\ op = "mode" => ModeSet
    /\ op = "torque" => Torqued

\* Once the bus is off an operation comes to nothing.
IInv == Typed /\ (~busOff => Progress)

-----------------------------------------------------------------------------
(* The frames of each operation.                                             *)

LEMMA OrderFacts ==
    /\ Len(Order) \in Nat /\ DOMAIN Order = 1..Len(Order)
    /\ \A i \in 1..Len(Order) : Order[i] \in Sides
    /\ \A s \in Sides : \E i \in 1..Len(Order) : Order[i] = s
    /\ \A i, j \in 1..Len(Order) : Order[i] = Order[j] => i = j
  BY OrderAssumption, LenProperties, ElementOfSeq

\* No two of the frames tell a node the same thing.
Distinct(frames) ==
    \A i, j \in DOMAIN frames :
        frames[i].kind = frames[j].kind /\ frames[i].side = frames[j].side => i = j

Has(frames, kind, s) == \E i \in DOMAIN frames : frames[i].kind = kind /\ frames[i].side = s

LEMMA FrameFacts ==
    ASSUME NEW kind, NEW s, NEW v
    PROVE  /\ Frame(kind, s, v).kind = kind /\ Frame(kind, s, v).side = s
           /\ Frame(kind, s, v).value = v
  BY DEF Frame

EnableKind(n) == IF n = 1 THEN "clear" ELSE IF n = 2 THEN "mode" ELSE IF n = 3 THEN "torque" ELSE "axis"

LEMMA EnableFrameFacts ==
    ASSUME NEW n \in 0..3, NEW s \in Sides, NEW frame, frame = EnableFrame(n, s)
    PROVE  /\ frame \in FrameSet /\ frame.side = s /\ frame.kind = EnableKind(n)
           /\ frame.kind = "torque" => frame.value = Zero
           /\ frame.kind = "axis" => frame.value = "closed"
  <1>1. CASE n = 1
    BY <1>1 DEF EnableFrame, EnableKind, Frame, FrameSet
  <1>2. CASE n = 2
    BY <1>2 DEF EnableFrame, EnableKind, Frame, FrameSet
  <1>3. CASE n = 3
    BY <1>3, TorqueAssumption DEF EnableFrame, EnableKind, Frame, FrameSet
  <1>4. CASE n = 0
    BY <1>4 DEF EnableFrame, EnableKind, Frame, FrameSet
  <1> QED
    BY <1>1, <1>2, <1>3, <1>4

LEMMA EnableFramesFacts ==
    /\ EnableFrames \in Seq(FrameSet) /\ Distinct(EnableFrames)
    /\ \A i \in DOMAIN EnableFrames :
           /\ EnableFrames[i].kind \in {"clear", "mode", "torque", "axis"}
           /\ EnableFrames[i].kind = "torque" => EnableFrames[i].value = Zero
           /\ EnableFrames[i].kind = "axis" => EnableFrames[i].value = "closed"
    /\ \A s \in Sides : Has(EnableFrames, "torque", s) /\ Has(EnableFrames, "axis", s)
  <1> DEFINE total == 4 * Len(Order)
             node(n) == Order[(n + 3) \div 4]
  <1>1. total \in Nat /\ DOMAIN EnableFrames = 1..total
    BY OrderFacts DEF EnableFrames
  <1>2. ASSUME NEW n \in 1..total
        PROVE  /\ (n + 3) \div 4 \in 1..Len(Order) /\ node(n) \in Sides
               /\ n % 4 \in 0..3 /\ n = 4 * ((n + 3) \div 4) + (IF n % 4 = 0 THEN 0 ELSE (n % 4) - 4)
               /\ EnableFrames[n] = EnableFrame(n % 4, node(n))
    BY <1>1, OrderFacts DEF EnableFrames
  <1> HIDE DEF total, node
  <1>3. ASSUME NEW n \in 1..total
        PROVE  /\ EnableFrames[n] \in FrameSet /\ EnableFrames[n].side = node(n)
               /\ EnableFrames[n].kind = EnableKind(n % 4)
               /\ EnableFrames[n].kind = "torque" => EnableFrames[n].value = Zero
               /\ EnableFrames[n].kind = "axis" => EnableFrames[n].value = "closed"
    BY <1>2, EnableFrameFacts
  <1>4. EnableFrames \in Seq(FrameSet)
    <2>1. EnableFrames \in [1..total -> FrameSet]
      BY <1>1, <1>3 DEF EnableFrames
    <2> QED
      BY <1>1, <2>1, SeqDef
  <1>5. Distinct(EnableFrames)
    <2> SUFFICES ASSUME NEW i \in 1..total, NEW j \in 1..total,
                        EnableFrames[i].kind = EnableFrames[j].kind,
                        EnableFrames[i].side = EnableFrames[j].side
                 PROVE  i = j
      BY <1>1 DEF Distinct
    <2>1. i % 4 = j % 4
      <3>1. EnableKind(i % 4) = EnableKind(j % 4)
        BY <1>3
      <3>2. i % 4 \in 0..3 /\ j % 4 \in 0..3
        BY <1>2
      <3> QED
        BY <3>1, <3>2 DEF EnableKind
    <2>2. (i + 3) \div 4 = (j + 3) \div 4
      <3>1. node(i) = node(j)
        BY <1>3
      <3> QED
        BY <1>2, <3>1, OrderFacts DEF node
    <2> QED
      BY <1>2, <2>1, <2>2
  <1>6. ASSUME NEW s \in Sides
        PROVE  Has(EnableFrames, "torque", s) /\ Has(EnableFrames, "axis", s)
    <2>1. PICK i \in 1..Len(Order) : Order[i] = s
      BY OrderFacts
    <2>2. /\ 4 * i \in 1..total /\ (4 * i) % 4 = 0 /\ (4 * i + 3) \div 4 = i
          /\ 4 * i - 1 \in 1..total /\ (4 * i - 1) % 4 = 3 /\ (4 * i - 1 + 3) \div 4 = i
      BY <2>1, OrderFacts DEF total
    <2>3. EnableFrames[4 * i].kind = "axis" /\ EnableFrames[4 * i].side = s
      BY <1>3, <2>1, <2>2 DEF EnableKind, node
    <2>4. EnableFrames[4 * i - 1].kind = "torque" /\ EnableFrames[4 * i - 1].side = s
      BY <1>3, <2>1, <2>2 DEF EnableKind, node
    <2> QED
      BY <1>1, <2>2, <2>3, <2>4 DEF Has
  <1> QED
    BY <1>1, <1>3, <1>4, <1>5, <1>6 DEF EnableKind

LEMMA ToAllFacts ==
    ASSUME NEW kind, NEW v, \A s \in Sides : Frame(kind, s, v) \in FrameSet
    PROVE  /\ ToAll(kind, v) \in Seq(FrameSet) /\ Len(ToAll(kind, v)) = Len(Order)
           /\ \A i \in 1..Len(Order) : /\ ToAll(kind, v)[i].kind = kind
                                       /\ ToAll(kind, v)[i].side = Order[i]
                                       /\ ToAll(kind, v)[i].value = v
  <1>1. ToAll(kind, v) \in [1..Len(Order) -> FrameSet]
    BY OrderFacts DEF ToAll
  <1>2. ToAll(kind, v) \in Seq(FrameSet)
    BY <1>1, OrderFacts, SeqDef
  <1>3. Len(ToAll(kind, v)) = Len(Order)
    BY <1>1, <1>2, OrderFacts, LenProperties
  <1>4. ASSUME NEW i \in 1..Len(Order)
        PROVE  ToAll(kind, v)[i] = Frame(kind, Order[i], v)
    BY OrderFacts DEF ToAll
  <1>5. ASSUME NEW i \in 1..Len(Order)
        PROVE  /\ ToAll(kind, v)[i].kind = kind /\ ToAll(kind, v)[i].side = Order[i]
               /\ ToAll(kind, v)[i].value = v
    BY <1>4, FrameFacts
  <1> QED
    BY <1>2, <1>3, <1>5

LEMMA ConcatFacts ==
    ASSUME NEW S, NEW first \in Seq(S), NEW second \in Seq(S), NEW n \in Nat,
           Len(first) = n, Len(second) = n
    PROVE  /\ first \o second \in Seq(S) /\ DOMAIN (first \o second) = 1..n + n
           /\ \A i \in 1..n : /\ (first \o second)[i] = first[i]
                              /\ (first \o second)[n + i] = second[i]
  <1> DEFINE both == first \o second
  <1>1. both \in Seq(S) /\ Len(both) = n + n
    BY ConcatProperties
  <1>2. DOMAIN both = 1..n + n
    BY <1>1, LenProperties
  <1>3. ASSUME NEW i \in 1..n + n
        PROVE  both[i] = IF i <= n THEN first[i] ELSE second[i - n]
    BY ConcatProperties
  <1>4. ASSUME NEW i \in 1..n
        PROVE  both[i] = first[i] /\ both[n + i] = second[i]
    <2>1. i \in 1..n + n /\ n + i \in 1..n + n /\ i <= n /\ ~ (n + i <= n) /\ n + i - n = i
      OBVIOUS
    <2> QED
      BY <1>3, <2>1
  <1> QED
    BY <1>1, <1>2, <1>4

Rounds(kind1, v1, kind2, v2) == ToAll(kind1, v1) \o ToAll(kind2, v2)

\* The nodes are told two things, one after the other.
ToldTwo(frames, kind1, v1, kind2, v2) ==
    /\ frames \in Seq(FrameSet) /\ Distinct(frames)
    /\ \A i \in DOMAIN frames : \/ frames[i].kind = kind1 /\ frames[i].value = v1
                                \/ frames[i].kind = kind2 /\ frames[i].value = v2
    /\ \A s \in Sides : Has(frames, kind1, s) /\ Has(frames, kind2, s)

LEMMA TwoRounds ==
    ASSUME NEW kind1, NEW kind2, kind1 # kind2, NEW v1, NEW v2,
           \A s \in Sides : Frame(kind1, s, v1) \in FrameSet /\ Frame(kind2, s, v2) \in FrameSet,
           NEW frames, frames = Rounds(kind1, v1, kind2, v2)
    PROVE  ToldTwo(frames, kind1, v1, kind2, v2)
  <1>1. PICK n \in Nat : n = Len(Order)
    BY OrderFacts
  <1>2. PICK first \in Seq(FrameSet) :
            /\ first = ToAll(kind1, v1) /\ Len(first) = n
            /\ \A i \in 1..n : /\ first[i].kind = kind1 /\ first[i].side = Order[i]
                               /\ first[i].value = v1
    BY <1>1, ToAllFacts
  <1>3. PICK second \in Seq(FrameSet) :
            /\ second = ToAll(kind2, v2) /\ Len(second) = n
            /\ \A i \in 1..n : /\ second[i].kind = kind2 /\ second[i].side = Order[i]
                               /\ second[i].value = v2
    BY <1>1, ToAllFacts
  <1>4. /\ frames \in Seq(FrameSet) /\ DOMAIN frames = 1..n + n
        /\ \A i \in 1..n : frames[i] = first[i] /\ frames[n + i] = second[i]
    <2>1. frames = first \o second /\ Len(first) = n /\ Len(second) = n
      BY <1>2, <1>3 DEF Rounds
    <2>2. /\ first \o second \in Seq(FrameSet) /\ DOMAIN (first \o second) = 1..n + n
          /\ \A i \in 1..n : /\ (first \o second)[i] = first[i]
                             /\ (first \o second)[n + i] = second[i]
      <3>1. first \o second \in Seq(FrameSet)
        BY <2>1, ConcatFacts
      <3>2. DOMAIN (first \o second) = 1..n + n
        BY <2>1, ConcatFacts
      <3>3. ASSUME NEW i \in 1..n
          PROVE  (first \o second)[i] = first[i]
        BY <2>1, ConcatFacts
      <3>4. ASSUME NEW i \in 1..n
          PROVE  (first \o second)[n + i] = second[i]
        BY <2>1, ConcatFacts
      <3> QED
        BY <3>1, <3>2, <3>3, <3>4
    <2> QED
      BY <2>1, <2>2
  <1>5. ASSUME NEW i \in 1..n + n
        PROVE  \/ i \in 1..n /\ frames[i].kind = kind1 /\ frames[i].side = Order[i]
                             /\ frames[i].value = v1
               \/ i - n \in 1..n /\ frames[i].kind = kind2 /\ frames[i].side = Order[i - n]
                                 /\ frames[i].value = v2
    <2>1. CASE i \in 1..n
      BY <1>2, <1>4, <2>1
    <2>2. CASE i \notin 1..n
      <3>1. PICK j \in 1..n : i = n + j /\ i - n = j
        BY <2>2
      <3> QED
        BY <1>3, <1>4, <3>1
    <2> QED
      BY <2>1, <2>2
  <1>6. Distinct(frames)
    <2> SUFFICES ASSUME NEW i \in 1..n + n, NEW j \in 1..n + n,
                        frames[i].kind = frames[j].kind, frames[i].side = frames[j].side
                 PROVE  i = j
      BY <1>4 DEF Distinct
    <2>1. CASE frames[i].kind = kind1
      <3>1. i \in 1..n /\ j \in 1..n /\ Order[i] = Order[j]
        BY <1>5, <2>1
      <3> QED
        BY <1>1, <3>1, OrderFacts
    <2>2. CASE frames[i].kind # kind1
      <3>1. i - n \in 1..n /\ j - n \in 1..n /\ Order[i - n] = Order[j - n]
        BY <1>5, <2>2
      <3>2. i - n = j - n
        BY <1>1, <3>1, OrderFacts
      <3> QED
        BY <3>2
    <2> QED
      BY <2>1, <2>2
  <1>7. ASSUME NEW s \in Sides
        PROVE  Has(frames, kind1, s) /\ Has(frames, kind2, s)
    <2>1. PICK i \in 1..n : Order[i] = s
      BY <1>1, OrderFacts
    <2>2. i \in 1..n + n /\ n + i \in 1..n + n
      OBVIOUS
    <2>3. /\ frames[i].kind = kind1 /\ frames[i].side = s
          /\ frames[n + i].kind = kind2 /\ frames[n + i].side = s
      BY <1>2, <1>3, <1>4, <2>1
    <2> QED
      BY <1>4, <2>2, <2>3 DEF Has
  <1> QED
    BY <1>4, <1>5, <1>6, <1>7 DEF ToldTwo

-----------------------------------------------------------------------------
(* The first frames still to be queued are gone when one has been.           *)

LEMMA TailFacts ==
    ASSUME Typed, todo # <<>>, todo' = Tail(todo)
    PROVE  /\ Head(todo) = todo[1] /\ 1 \in DOMAIN todo /\ Head(todo) \in FrameSet
           /\ todo' \in Seq(FrameSet)
           /\ \A i \in DOMAIN todo' : i + 1 \in DOMAIN todo /\ i + 1 # 1 /\ todo'[i] = todo[i + 1]
           /\ \A i \in DOMAIN todo : i # 1 => i - 1 \in DOMAIN todo' /\ todo'[i - 1] = todo[i]
  <1>1. todo \in Seq(FrameSet) /\ Len(todo) \in Nat \ {0} /\ DOMAIN todo = 1..Len(todo)
    BY EmptySeq, LenProperties DEF Typed
  <1>2. /\ todo' \in Seq(FrameSet) /\ Len(todo') = Len(todo) - 1
        /\ \A i \in 1..Len(todo') : todo'[i] = todo[i + 1]
    BY <1>1, HeadTailProperties
  <1>3. DOMAIN todo' = 1..Len(todo')
    BY <1>2, LenProperties
  <1>4. Head(todo) = todo[1] /\ Head(todo) \in FrameSet
    BY <1>1, HeadTailProperties
  <1>5. PICK n \in Nat \ {0} : n = Len(todo) /\ DOMAIN todo = 1..n /\ DOMAIN todo' = 1..n - 1
    BY <1>1, <1>2, <1>3
  <1>6. ASSUME NEW i \in 1..n - 1
        PROVE  i + 1 \in 1..n /\ i + 1 # 1 /\ todo'[i] = todo[i + 1]
    BY <1>2, <1>5
  <1>7. ASSUME NEW i \in 1..n, i # 1
        PROVE  i - 1 \in 1..n - 1 /\ todo'[i - 1] = todo[i]
    <2>1. i - 1 \in 1..n - 1 /\ (i - 1) + 1 = i
      BY <1>7
    <2> QED
      BY <1>6, <2>1
  <1> QED
    BY <1>2, <1>4, <1>5, <1>6, <1>7

LEMMA TailKeeps ==
    ASSUME Typed, todo # <<>>, todo' = Tail(todo), Once
    PROVE  /\ Once'
           /\ \A i \in DOMAIN todo' : \E j \in DOMAIN todo : todo'[i] = todo[j]
           /\ \A kind, s : Pending(kind, s)' <=>
                  Pending(kind, s) /\ ~ (Head(todo).kind = kind /\ Head(todo).side = s)
  <1>1. Once'
    <2> SUFFICES ASSUME NEW i \in DOMAIN todo', NEW j \in DOMAIN todo',
                        todo'[i].kind = todo'[j].kind, todo'[i].side = todo'[j].side
                 PROVE  i = j
      BY DEF Once
    <2>1. /\ i + 1 \in DOMAIN todo /\ j + 1 \in DOMAIN todo
          /\ todo'[i] = todo[i + 1] /\ todo'[j] = todo[j + 1]
      BY TailFacts
    <2>2. i + 1 = j + 1
      BY <2>1 DEF Once
    <2>3. todo' \in Seq(FrameSet)
      BY TailFacts
    <2>4. i \in Nat /\ j \in Nat
      BY <2>3, LenProperties
    <2> QED
      BY <2>2, <2>4
  <1>2. \A i \in DOMAIN todo' : \E j \in DOMAIN todo : todo'[i] = todo[j]
    BY TailFacts
  <1>3. ASSUME NEW kind, NEW s
        PROVE  Pending(kind, s)' <=>
                   Pending(kind, s) /\ ~ (Head(todo).kind = kind /\ Head(todo).side = s)
    <2>1. ASSUME Pending(kind, s)'
          PROVE  Pending(kind, s) /\ ~ (Head(todo).kind = kind /\ Head(todo).side = s)
      <3>1. PICK i \in DOMAIN todo' : todo'[i].kind = kind /\ todo'[i].side = s
        BY <2>1 DEF Pending
      <3>2. i + 1 \in DOMAIN todo /\ i + 1 # 1 /\ todo[i + 1] = todo'[i]
        BY TailFacts
      <3>3. 1 \in DOMAIN todo /\ Head(todo) = todo[1]
        BY TailFacts
      <3> QED
        BY <3>1, <3>2, <3>3 DEF Pending, Once
    <2>2. ASSUME Pending(kind, s), ~ (Head(todo).kind = kind /\ Head(todo).side = s)
          PROVE  Pending(kind, s)'
      <3>1. PICK i \in DOMAIN todo : todo[i].kind = kind /\ todo[i].side = s
        BY <2>2 DEF Pending
      <3>2. i # 1
        BY <2>2, <3>1, TailFacts
      <3>3. i - 1 \in DOMAIN todo' /\ todo'[i - 1] = todo[i]
        BY <3>2, TailFacts
      <3> QED
        BY <3>1, <3>3 DEF Pending
    <2> QED
      BY <2>1, <2>2
  <1> QED
    BY <1>1, <1>2, <1>3

-----------------------------------------------------------------------------
(* The invariant.                                                            *)

LEMMA InitInv ==
    ASSUME Init
    PROVE  IInv
  <1>1. before \in LinkStates
    BY TorqueAssumption DEF Init, Current, LinkStates, ZeroTorque
  <1>2. Typed
    BY <1>1, TorqueAssumption, EmptySeq DEF Init, Typed, ZeroTorque
  <1> QED
    BY <1>2 DEF Init, IInv, Progress

\* An operation finds the link as it is.
LEMMA BeginInv ==
    ASSUME IInv, NEW name \in {"on", "off", "mode", "torque"},
           NEW frames \in Seq(FrameSet), Begin(name, frames),
           name = "torque" => \A i \in DOMAIN frames : frames[i].kind \in {"torque", "same"}
    PROVE  /\ Typed' /\ op' = name /\ todo' = frames /\ ok' = TRUE
           /\ UNCHANGED <<up, enabled, busOff, sent, axis, torque, lost, adding, isr>>
           /\ before'.up = up /\ before'.enabled = enabled /\ before'.busOff = busOff
           /\ before'.sent = sent /\ before'.axis = axis /\ before'.torque = torque
           /\ before'.lost = lost
           /\ ~busOff' /\ up => Found'
  <1>1. /\ op = "none" /\ op' = name /\ todo' = frames /\ ok' = TRUE /\ before' = Current
        /\ UNCHANGED <<up, enabled, busOff, sent, axis, torque, lost, adding, isr>>
    BY DEF Begin, backendVars, driveVars
  <1>2. /\ before'.up = up /\ before'.enabled = enabled /\ before'.busOff = busOff
        /\ before'.sent = sent /\ before'.axis = axis /\ before'.torque = torque
        /\ before'.lost = lost
    BY <1>1 DEF Current
  <1>3. before' \in LinkStates
    BY <1>1 DEF IInv, Typed, Current, LinkStates
  <1>4. Typed'
    BY <1>1, <1>3 DEF IInv, Typed
  <1>5. ~busOff' /\ up => Found'
    BY <1>1, <1>2 DEF IInv, Progress, Found
  <1> QED
    BY <1>1, <1>2, <1>4, <1>5

LEMMA EnableInv ==
    ASSUME IInv, Enable
    PROVE  IInv'
  <1>1. up /\ ~busOff /\ Begin("on", EnableFrames) /\ EnableFrames \in Seq(FrameSet)
    BY EnableFramesFacts DEF Enable
  <1>2. /\ Typed' /\ op' = "on" /\ todo' = EnableFrames /\ Found'
        /\ UNCHANGED <<sent, axis, torque>>
        /\ before'.sent = sent /\ before'.axis = axis /\ before'.torque = torque
    BY <1>1, BeginInv
  <1>3. Once'
    BY <1>2, EnableFramesFacts DEF Distinct, Once
  <1>4. \A s \in Sides : Pending("torque", s)' /\ Pending("axis", s)'
    BY <1>2, EnableFramesFacts DEF Has, Pending
  <1>5. Tell({"clear", "mode", "torque", "axis"}, "closed")'
    BY <1>2, EnableFramesFacts DEF Tell
  <1>6. On'
    BY <1>2, <1>4, <1>5 DEF On, Towards
  <1> QED
    BY <1>2, <1>3, <1>6 DEF IInv, Progress

LEMMA OffFrames ==
    /\ ToAll("axis", "idle") \in Seq(FrameSet)
    /\ ToAll("torque", Zero) \o ToAll("axis", "idle") \in Seq(FrameSet)
    /\ DisableFrames \in Seq(FrameSet) /\ Distinct(DisableFrames)
    /\ \A i \in DOMAIN DisableFrames :
           \/ DisableFrames[i].kind = "axis" /\ DisableFrames[i].value = "idle"
           \/ enabled /\ DisableFrames[i].kind = "torque" /\ DisableFrames[i].value = Zero
    /\ \A s \in Sides : /\ Has(DisableFrames, "axis", s)
                        /\ enabled => Has(DisableFrames, "torque", s)
  <1>1. \A s \in Sides : /\ Frame("axis", s, "idle") \in FrameSet
                         /\ Frame("torque", s, Zero) \in FrameSet
    BY TorqueAssumption DEF Frame, FrameSet
  <1>2. /\ ToAll("axis", "idle") \in Seq(FrameSet) /\ Len(ToAll("axis", "idle")) = Len(Order)
        /\ \A i \in 1..Len(Order) : /\ ToAll("axis", "idle")[i].kind = "axis"
                                    /\ ToAll("axis", "idle")[i].side = Order[i]
                                    /\ ToAll("axis", "idle")[i].value = "idle"
    BY <1>1, ToAllFacts
  <1>3. PICK both : both = ToAll("torque", Zero) \o ToAll("axis", "idle")
    OBVIOUS
  <1>4. /\ both \in Seq(FrameSet) /\ Distinct(both)
        /\ \A i \in DOMAIN both : \/ both[i].kind = "torque" /\ both[i].value = Zero
                                  \/ both[i].kind = "axis" /\ both[i].value = "idle"
        /\ \A s \in Sides : Has(both, "torque", s) /\ Has(both, "axis", s)
    <2>1. "torque" # "axis" /\ \A s \in Sides : /\ Frame("torque", s, Zero) \in FrameSet
                                               /\ Frame("axis", s, "idle") \in FrameSet
      BY <1>1
    <2>2. both = Rounds("torque", Zero, "axis", "idle")
      BY <1>3 DEF Rounds
    <2>3. ToldTwo(both, "torque", Zero, "axis", "idle")
      BY <2>1, <2>2, TwoRounds
    <2> QED
      BY <2>3 DEF ToldTwo
  <1>5. CASE enabled
    <2>1. DisableFrames = both
      BY <1>3, <1>5 DEF DisableFrames
    <2> QED
      BY <1>2, <1>3, <1>4, <1>5, <2>1
  <1>6. CASE ~enabled
    <2>1. DisableFrames = ToAll("axis", "idle")
      <3>1. DisableFrames = <<>> \o ToAll("axis", "idle")
        BY <1>6 DEF DisableFrames
      <3> QED
        BY <1>2, <3>1, ConcatEmptySeq
    <2>2. DOMAIN DisableFrames = 1..Len(Order)
      BY <1>2, <2>1, LenProperties
    <2>3. Distinct(DisableFrames)
      BY <1>2, <2>1, <2>2, OrderFacts DEF Distinct
    <2>4. \A s \in Sides : Has(DisableFrames, "axis", s)
      <3> SUFFICES ASSUME NEW s \in Sides
                   PROVE  \E i \in 1..Len(Order) :
                              DisableFrames[i].kind = "axis" /\ DisableFrames[i].side = s
        BY <2>2 DEF Has
      <3>1. PICK i \in 1..Len(Order) : Order[i] = s
        BY OrderFacts
      <3> QED
        BY <1>2, <2>1, <3>1
    <2> QED
      BY <1>2, <1>3, <1>4, <1>6, <2>1, <2>2, <2>3, <2>4
  <1> QED
    BY <1>5, <1>6

LEMMA DisableInv ==
    ASSUME IInv, Disable
    PROVE  IInv'
  <1>1. up /\ ~busOff /\ Begin("off", DisableFrames) /\ DisableFrames \in Seq(FrameSet)
    BY OffFrames DEF Disable
  <1>2. PICK frames \in Seq(FrameSet) : frames = DisableFrames
    BY <1>1
  <1>3. /\ Typed' /\ op' = "off" /\ todo' = frames /\ Found' /\ ok' = TRUE
        /\ UNCHANGED <<sent, axis, torque>> /\ before'.enabled = enabled
        /\ before'.sent = sent /\ before'.axis = axis /\ before'.torque = torque
    BY <1>1, <1>2, BeginInv
  <1>4. Once'
    BY <1>2, <1>3, OffFrames DEF Distinct, Once
  <1>5. \A s \in Sides : Pending("axis", s)' /\ (enabled => Pending("torque", s)')
    BY <1>2, <1>3, OffFrames DEF Has, Pending
  <1>6. ASSUME NEW i \in DOMAIN todo'
        PROVE  \/ todo'[i].kind = "axis" /\ todo'[i].value = "idle"
               \/ enabled /\ todo'[i].kind = "torque" /\ todo'[i].value = Zero
    BY <1>2, <1>3, OffFrames
  <1>7. Tell({"torque", "axis"}, "idle")'
    BY <1>6 DEF Tell
  <1>8. \A s : Pending("torque", s)' => enabled
    BY <1>6 DEF Pending
  <1>9. Off'
    BY <1>3, <1>5, <1>7, <1>8 DEF Off, Towards
  <1> QED
    BY <1>3, <1>4, <1>9 DEF IInv, Progress

LEMMA SetModeInv ==
    ASSUME IInv, SetMode
    PROVE  IInv'
  <1>1. PICK frames : frames = ToAll("mode", None) \o ToAll("torque", Zero)
    OBVIOUS
  <1>2. \A s \in Sides : /\ Frame("mode", s, None) \in FrameSet
                         /\ Frame("torque", s, Zero) \in FrameSet
    BY TorqueAssumption DEF Frame, FrameSet
  <1>3. /\ frames \in Seq(FrameSet) /\ Distinct(frames)
        /\ \A i \in DOMAIN frames : \/ frames[i].kind = "mode" /\ frames[i].value = None
                                    \/ frames[i].kind = "torque" /\ frames[i].value = Zero
    <2>1. "mode" # "torque"
      OBVIOUS
    <2>2. frames = Rounds("mode", None, "torque", Zero)
      BY <1>1 DEF Rounds
    <2>3. ToldTwo(frames, "mode", None, "torque", Zero)
      BY <1>2, <2>1, <2>2, TwoRounds
    <2> QED
      BY <2>3 DEF ToldTwo
  <1>4. up /\ enabled /\ Begin("mode", frames)
    BY <1>1 DEF SetMode, ModeFrames
  <1>5. /\ Typed' /\ op' = "mode" /\ todo' = frames /\ (~busOff' => Found')
        /\ UNCHANGED <<sent, axis, torque>> /\ before'.enabled = enabled
        /\ before'.sent = sent /\ before'.axis = axis /\ before'.torque = torque
    BY <1>3, <1>4, BeginInv
  <1>6. Once' /\ Tell({"mode", "torque"}, "idle")'
    BY <1>3, <1>5 DEF Distinct, Once, Tell
  <1>7. ModeSet'
    BY <1>4, <1>5, <1>6 DEF ModeSet, Towards
  <1> QED
    BY <1>5, <1>6, <1>7 DEF IInv, Progress

LEMMA TorqueInv ==
    ASSUME IInv, NEW cmd \in [Sides -> Torques], Torque(cmd)
    PROVE  IInv'
  <1>1. PICK frames : frames = TorqueFrames(cmd)
    OBVIOUS
  <1>2. DOMAIN frames = 1..Len(Order)
    BY <1>1, OrderFacts DEF TorqueFrames
  <1>3. ASSUME NEW i \in 1..Len(Order)
        PROVE  /\ frames[i] \in FrameSet /\ frames[i].side = Order[i]
               /\ \/ frames[i].kind = "same"
                  \/ /\ frames[i].kind = "torque" /\ frames[i].value = cmd[Order[i]]
                     /\ sent[Order[i]] # cmd[Order[i]]
    <2>1. Order[i] \in Sides
      BY OrderFacts
    <2>2. CASE sent[Order[i]] # cmd[Order[i]]
      <3>1. frames[i] = Frame("torque", Order[i], cmd[Order[i]])
        BY <1>1, <2>2, OrderFacts DEF TorqueFrames
      <3> QED
        BY <2>1, <2>2, <3>1 DEF Frame, FrameSet
    <2>3. CASE sent[Order[i]] = cmd[Order[i]]
      <3>1. frames[i] = Frame("same", Order[i], None)
        BY <1>1, <2>3, OrderFacts DEF TorqueFrames
      <3> QED
        BY <2>1, <3>1 DEF Frame, FrameSet
    <2> QED
      BY <2>2, <2>3
  <1>4. frames \in Seq(FrameSet)
    <2>1. frames = [i \in 1..Len(Order) |-> frames[i]]
      BY <1>1, <1>2 DEF TorqueFrames
    <2>2. frames \in [1..Len(Order) -> FrameSet]
      BY <1>3, <2>1
    <2> QED
      BY <2>2, OrderFacts, SeqDef
  <1>5. up /\ enabled /\ ~busOff /\ Begin("torque", frames)
    BY <1>1 DEF Torque
  <1>6. /\ Typed' /\ op' = "torque" /\ todo' = frames /\ Found'
        /\ UNCHANGED <<sent, axis, torque>> /\ before'.enabled = enabled
        /\ before'.sent = sent /\ before'.axis = axis /\ before'.torque = torque
    BY <1>2, <1>3, <1>4, <1>5, BeginInv
  <1>7. Once'
    BY <1>2, <1>3, <1>6, OrderFacts DEF Once
  <1>8. Commanded(cmd)'
    BY <1>2, <1>3, <1>6 DEF Commanded
  <1>9. Torqued'
    BY <1>5, <1>6, <1>8 DEF Torqued
  <1> QED
    BY <1>6, <1>7, <1>9 DEF IInv, Progress

\* A frame is passed over, or refused.
LEMMA PassInv ==
    ASSUME IInv, op # "none", todo # <<>>, todo' = Tail(todo), adding' = FALSE,
           UNCHANGED <<up, enabled, busOff, sent, axis, torque, lost, op, before, isr>>,
           \/ ok' = FALSE
           \/ Head(todo).kind = "same" /\ ok' = ok
    PROVE  IInv'
  <1>1. Typed /\ ok' \in BOOLEAN
    BY DEF IInv, Typed
  <1>2. /\ Head(todo) = todo[1] /\ 1 \in DOMAIN todo /\ Head(todo) \in FrameSet
        /\ todo' \in Seq(FrameSet)
        /\ \A i \in DOMAIN todo' : \E j \in DOMAIN todo : todo'[i] = todo[j]
    BY <1>1, TailFacts
  <1>3. Typed'
    BY <1>1, <1>2 DEF Typed
  <1>4. ASSUME ~busOff
        PROVE  Progress'
    <2>1. Progress /\ Found /\ Once
      BY <1>4 DEF IInv, Progress
    <2>2. /\ Once'
          /\ \A kind, s : Pending(kind, s)' <=>
                 Pending(kind, s) /\ ~ (Head(todo).kind = kind /\ Head(todo).side = s)
      BY <1>1, <2>1, TailKeeps
    <2>3. Found'
      BY <2>1 DEF Found
    <2>4. ASSUME NEW kinds, NEW state, Tell(kinds, state)
          PROVE  Tell(kinds, state)' /\ Head(todo).kind \in kinds
      BY <1>2, <2>4 DEF Tell
    <2>5. Towards("idle") => Towards("idle")'
      BY DEF Towards
    <2>6. Towards("closed") => Towards("closed")'
      BY DEF Towards
    <2>7. CASE op = "on"
      <3>1. On
        BY <2>1, <2>7 DEF Progress
      <3>2. ok' = FALSE
        BY <2>4, <3>1 DEF On
      <3>3. On'
        BY <2>4, <2>6, <3>1, <3>2 DEF On
      <3> QED
        BY <2>2, <2>3, <2>7, <3>3 DEF Progress
    <2>8. CASE op = "off"
      <3>1. Off
        BY <2>1, <2>8 DEF Progress
      <3>2. Head(todo).kind \in {"torque", "axis"} /\ Tell({"torque", "axis"}, "idle")'
        BY <2>4, <3>1 DEF Off
      <3>3. ok' = FALSE
        BY <3>2
      <3>4. PICK s \in Sides : s = Head(todo).side /\ Pending(Head(todo).kind, s)
        BY <1>2 DEF FrameSet, Pending
      <3>5. \/ ~Pending("axis", s)' /\ axis[s] = before.axis[s]
            \/ before.enabled /\ ~Pending("torque", s)' /\ torque[s] = before.torque[s]
        BY <2>2, <3>1, <3>2, <3>4 DEF Off
      <3>6. \A t \in Sides :
                /\ Pending("torque", t)' => before.enabled /\ torque[t] = before.torque[t]
                /\ Pending("axis", t)' => axis[t] = before.axis[t]
        BY <2>2, <3>1 DEF Off
      <3>7. Off'
        BY <2>5, <3>1, <3>2, <3>3, <3>5, <3>6 DEF Off
      <3> QED
        BY <2>2, <2>3, <2>8, <3>7 DEF Progress
    <2>9. CASE op = "mode"
      <3>1. ModeSet'
        BY <2>1, <2>4, <2>5, <2>9 DEF Progress, ModeSet
      <3> QED
        BY <2>2, <2>3, <2>9, <3>1 DEF Progress
    <2>10. CASE op = "torque"
      <3>1. Torqued
        BY <2>1, <2>10 DEF Progress
      <3>2. PICK cmd \in [Sides -> Torques] : Commanded(cmd)
        BY <3>1 DEF Torqued
      <3>3. Commanded(cmd)'
        BY <1>2, <3>2 DEF Commanded
      <3>4. Torqued'
        BY <3>1, <3>3 DEF Torqued
      <3> QED
        BY <2>2, <2>3, <2>10, <3>4 DEF Progress
    <2> QED
      BY <1>1, <2>7, <2>8, <2>9, <2>10 DEF Typed
  <1> QED
    BY <1>3, <1>4 DEF IInv

LEMMA SkipRefuseCheckInv ==
    ASSUME IInv, Skip \/ Refuse \/ Check
    PROVE  IInv'
  <1>1. op # "none" /\ todo # <<>> /\ adding = FALSE /\ isr = FALSE
    BY DEF Skip, Refuse, Check, AtFrame, IInv, Typed
  <1>2. CASE Skip
    BY <1>1, <1>2, PassInv DEF Skip, AtFrame, backendVars, driveVars
  <1>3. CASE Refuse
    BY <1>1, <1>3, PassInv DEF Refuse, backendVars, driveVars
  <1>4. CASE Check
    <2>1. /\ UNCHANGED <<up, enabled, busOff, sent, axis, torque, lost, op, todo, ok, before, isr>>
          /\ adding' = TRUE /\ Head(todo).kind # "same"
      BY <1>4 DEF Check, backendVars, driveVars
    <2>2. Typed'
      BY <1>1, <2>1 DEF IInv, Typed
    <2>3. Progress => Progress'
      BY <2>1 DEF Progress, Found, Once, On, Off, ModeSet, Torqued, Commanded, Tell, Towards,
         Pending
    <2> QED
      BY <2>1, <2>2, <2>3 DEF IInv
  <1> QED
    BY <1>2, <1>3, <1>4

\* The FIFO takes a frame.
LEMMA AddInv ==
    ASSUME IInv, Add
    PROVE  IInv'
  <1>1. /\ adding /\ ~isr /\ op # "none" /\ todo # <<>> /\ Head(todo).kind # "same"
        /\ adding' = FALSE /\ todo' = Tail(todo)
        /\ UNCHANGED <<up, enabled, busOff, lost, op, ok, before, isr>>
    BY DEF Add, IInv, Typed
  <1>2. PICK frame \in FrameSet : frame = Head(todo) /\ frame = todo[1] /\ 1 \in DOMAIN todo
    BY <1>1, TailFacts DEF IInv
  <1>3. /\ axis' = IF frame.kind = "axis" /\ ~busOff
                   THEN [axis EXCEPT ![frame.side] = frame.value] ELSE axis
        /\ torque' = IF frame.kind = "torque" /\ ~busOff
                     THEN [torque EXCEPT ![frame.side] = frame.value] ELSE torque
        /\ sent' = IF op = "torque" THEN [sent EXCEPT ![frame.side] = frame.value] ELSE sent
    BY <1>2 DEF Add
  <1>4. /\ todo' \in Seq(FrameSet)
        /\ \A i \in DOMAIN todo' : \E j \in DOMAIN todo : todo'[i] = todo[j]
    BY <1>1, TailFacts DEF IInv
  <1>5. /\ frame.side \in Sides /\ frame.kind # "same"
        /\ frame.kind = "axis" => frame.value \in {"idle", "closed"}
        /\ frame.kind = "torque" => frame.value \in Torques
    BY <1>1, <1>2 DEF FrameSet
  <1>6. Typed'
    <2>1. op = "torque" => frame.kind = "torque"
      BY <1>2, <1>5 DEF IInv, Typed
    <2>2. axis' \in [Sides -> {"idle", "closed"}]
      BY <1>3, <1>5 DEF IInv, Typed
    <2>3. torque' \in [Sides -> Torques]
      BY <1>3, <1>5 DEF IInv, Typed
    <2>4. sent' \in [Sides -> Torques \cup {None}]
      BY <1>3, <1>5, <2>1 DEF IInv, Typed
    <2> QED
      BY <1>1, <1>4, <2>2, <2>3, <2>4 DEF IInv, Typed
  <1>7. ASSUME ~busOff
        PROVE  Progress'
    <2>1. Typed /\ Progress /\ Found /\ Once
      BY <1>1, <1>7 DEF IInv, Progress
    <2>2. /\ Once'
          /\ \A kind, s : Pending(kind, s)' <=>
                 Pending(kind, s) /\ ~ (frame.kind = kind /\ frame.side = s)
      BY <1>1, <1>2, <2>1, TailKeeps
    <2>3. Found'
      BY <1>1, <2>1 DEF Found
    <2>4. /\ \A s \in Sides : axis'[s] = IF frame.kind = "axis" /\ s = frame.side
                                         THEN frame.value ELSE axis[s]
          /\ \A s \in Sides : torque'[s] = IF frame.kind = "torque" /\ s = frame.side
                                           THEN frame.value ELSE torque[s]
      BY <1>3, <1>7, <2>1 DEF Typed
    <2>5. ASSUME NEW kinds, NEW state, Tell(kinds, state)
          PROVE  /\ Tell(kinds, state)' /\ frame.kind \in kinds
                 /\ frame.kind = "torque" => frame.value = Zero
                 /\ frame.kind = "axis" => frame.value = state
      BY <1>2, <1>4, <2>5 DEF Tell
    <2>6. ASSUME NEW kinds, NEW state, Tell(kinds, state), Towards(state)
          PROVE  Towards(state)'
      BY <1>1, <2>4, <2>5, <2>6 DEF Towards
    <2>7. Pending(frame.kind, frame.side)
      BY <1>2 DEF Pending
    <2>8. CASE op = "on"
      <3>1. On /\ sent' = sent
        BY <1>3, <2>1, <2>8 DEF Progress
      <3>2. /\ Tell({"clear", "mode", "torque", "axis"}, "closed")'
            /\ frame.kind = "torque" => frame.value = Zero
            /\ frame.kind = "axis" => frame.value = "closed"
        BY <2>5, <3>1 DEF On
      <3>3. Towards("closed")'
        BY <2>6, <3>1 DEF On
      <3>4. ok => \A s \in Sides : /\ torque'[s] = Zero \/ Pending("torque", s)'
                                   /\ axis'[s] = "closed" \/ Pending("axis", s)'
        BY <2>2, <2>4, <3>1, <3>2 DEF On
      <3>5. On'
        BY <1>1, <3>1, <3>2, <3>3, <3>4 DEF On
      <3> QED
        BY <1>1, <2>2, <2>3, <2>8, <3>5 DEF Progress
    <2>9. CASE op = "off"
      <3>1. Off /\ sent' = sent
        BY <1>3, <2>1, <2>9 DEF Progress
      <3>2. /\ Tell({"torque", "axis"}, "idle")'
            /\ frame.kind = "torque" => frame.value = Zero
            /\ frame.kind = "axis" => frame.value = "idle"
        BY <2>5, <3>1 DEF Off
      <3>3. Towards("idle")'
        BY <2>6, <3>1 DEF Off
      <3>4. \A s \in Sides :
                /\ Pending("torque", s)' => before.enabled /\ torque'[s] = before.torque[s]
                /\ Pending("axis", s)' => axis'[s] = before.axis[s]
        BY <2>2, <2>4, <3>1 DEF Off
      <3>5. ~before.enabled => torque' = before.torque
        <4>1. frame.kind = "torque" => before.enabled
          BY <1>5, <2>7, <3>1 DEF Off
        <4> QED
          BY <1>3, <3>1, <4>1 DEF Off
      <3>6. ok => \A s \in Sides :
                /\ before.enabled => torque'[s] = Zero \/ Pending("torque", s)'
                /\ axis'[s] = "idle" \/ Pending("axis", s)'
        BY <2>2, <2>4, <3>1, <3>2 DEF Off
      <3>7. ~ok => \E s \in Sides :
                \/ ~Pending("axis", s)' /\ axis'[s] = before.axis[s]
                \/ /\ before.enabled /\ ~Pending("torque", s)'
                   /\ torque'[s] = before.torque[s]
        BY <2>2, <2>4, <2>7, <3>1 DEF Off
      <3>8. Off'
        BY <1>1, <3>1, <3>2, <3>3, <3>4, <3>5, <3>6, <3>7 DEF Off
      <3> QED
        BY <1>1, <2>2, <2>3, <2>9, <3>8 DEF Progress
    <2>10. CASE op = "mode"
      <3>1. ModeSet /\ sent' = sent
        BY <1>3, <2>1, <2>10 DEF Progress
      <3>2. Tell({"mode", "torque"}, "idle")' /\ frame.kind # "axis"
        BY <2>5, <3>1 DEF ModeSet
      <3>3. Towards("idle")'
        BY <2>6, <3>1 DEF ModeSet
      <3>4. ModeSet'
        BY <1>1, <1>3, <3>1, <3>2, <3>3 DEF ModeSet
      <3> QED
        BY <1>1, <2>2, <2>3, <2>10, <3>4 DEF Progress
    <2>11. CASE op = "torque"
      <3>1. Torqued
        BY <2>1, <2>11 DEF Progress
      <3>2. PICK cmd \in [Sides -> Torques] : Commanded(cmd)
        BY <3>1 DEF Torqued
      <3>3. /\ frame.kind = "torque" /\ frame.value = cmd[frame.side]
            /\ before.sent[frame.side] # cmd[frame.side]
        BY <1>2, <1>5, <3>2 DEF Commanded
      <3>4. \A s \in Sides : sent'[s] = IF s = frame.side THEN frame.value ELSE sent[s]
        BY <1>3, <2>1, <2>11 DEF Typed
      <3>5. Commanded(cmd)'
        BY <1>1, <1>4, <2>4, <3>2, <3>3, <3>4 DEF Commanded
      <3>6. Torqued'
        BY <1>1, <1>3, <3>1, <3>3, <3>5 DEF Torqued
      <3> QED
        BY <1>1, <2>2, <2>3, <2>11, <3>6 DEF Progress
    <2> QED
      BY <1>1, <2>1, <2>8, <2>9, <2>10, <2>11 DEF Typed
  <1> QED
    BY <1>1, <1>6, <1>7 DEF IInv

\* The operation's last assignments.
LEMMA FinishInv ==
    ASSUME IInv, Finish
    PROVE  IInv'
  <1>1. /\ op # "none" /\ todo = <<>> /\ op' = "none"
        /\ UNCHANGED <<up, busOff, axis, torque, todo, adding, ok, before, isr>>
    BY DEF Finish, driveVars
  <1>2. \A kind, s : ~Pending(kind, s)
    BY <1>1 DEF Pending
  <1>3. Typed'
    <2>1. enabled' \in BOOLEAN /\ lost' \in BOOLEAN
      BY DEF IInv, Typed, Finish
    <2>2. sent' \in [Sides -> Torques \cup {None}]
      BY DEF IInv, Typed, Finish
    <2> QED
      BY <1>1, <2>1, <2>2 DEF IInv, Typed
  <1>4. ASSUME ~busOff, enabled', NEW s \in Sides
        PROVE  axis[s] = "closed"
    <2>1. Progress /\ Found /\ op \in {"on", "off", "mode", "torque"}
      BY <1>1, <1>4 DEF IInv, Typed, Progress
    <2>2. CASE op = "on"
      BY <1>2, <1>4, <2>1, <2>2 DEF Finish, Progress, On
    <2>3. CASE op = "off"
      BY <1>4, <2>3 DEF Finish
    <2>4. CASE op = "mode"
      BY <2>1, <2>4 DEF Progress, ModeSet, Found
    <2>5. CASE op = "torque"
      BY <2>1, <2>5 DEF Progress, Torqued, Found
    <2> QED
      BY <2>1, <2>2, <2>3, <2>4, <2>5
  <1> QED
    BY <1>1, <1>3, <1>4 DEF IInv, Progress

LEMMA BusOffInv ==
    ASSUME IInv, BusOffSet \/ BusOffClear
    PROVE  IInv'
  <1>1. busOff' = TRUE
    BY DEF BusOffSet, BusOffClear, IInv, Typed
  <1>2. /\ UNCHANGED <<up, sent, axis, torque, op, todo, adding, ok, before>>
        /\ enabled' \in BOOLEAN /\ lost' \in BOOLEAN /\ isr' \in BOOLEAN /\ (isr' => up)
    BY DEF BusOffSet, BusOffClear, driveVars, opVars, IInv, Typed
  <1>3. Typed'
    BY <1>1, <1>2 DEF IInv, Typed
  <1> QED
    BY <1>1, <1>3 DEF IInv

LEMMA NextInv ==
    ASSUME IInv, [Next]_vars
    PROVE  IInv'
  <1>1. CASE UNCHANGED vars
    BY <1>1 DEF vars, backendVars, driveVars, opVars, IInv, Typed, Progress, Found, Once, On,
       Off, ModeSet, Torqued, Commanded, Tell, Towards, Pending
  <1> QED
    BY <1>1, EnableInv, DisableInv, SetModeInv, TorqueInv, SkipRefuseCheckInv, AddInv,
       FinishInv, BusOffInv DEF Next

\* How far each operation has come, wherever the interrupt falls.
THEOREM Invariance == Spec => []IInv
  <1>1. Init => IInv
    BY InitInv
  <1>2. IInv /\ [Next]_vars => IInv'
    BY NextInv
  <1> QED
    BY <1>1, <1>2, PTL DEF Spec

-----------------------------------------------------------------------------
(* What an operation comes to is an outcome of the atomic one.               *)

Reached(l, m) ==
    \/ \E r \in EnableOutcomes(l) : m = r.link
    \/ \E r \in DisableOutcomes(l) : m = r.link
    \/ m \in SetModeOutcomes(l)
    \/ \E cmd \in [Sides -> Torques] : m \in TorqueOutcomes(l, cmd)

LEMMA SameLink ==
    ASSUME NEW l \in LinkStates, NEW m \in LinkStates,
           l.up = m.up, l.enabled = m.enabled, l.busOff = m.busOff, l.sent = m.sent,
           l.axis = m.axis, l.torque = m.torque, l.lost = m.lost
    PROVE  l = m
  BY DEF LinkStates

Complete == ok /\ todo = <<>>

Nothing == [s \in Sides |-> None]

LEMMA OutcomeFacts ==
    ASSUME Typed
    PROVE  /\ Outcome \in LinkStates
           /\ Outcome.up = up /\ Outcome.busOff = FALSE
           /\ Outcome.axis = axis /\ Outcome.torque = torque
           /\ Outcome.enabled = CASE op = "on" -> Complete [] op = "off" -> FALSE
                                  [] OTHER -> enabled
           /\ Outcome.lost = IF op \in {"on", "off"} THEN ~Complete ELSE lost
           /\ Outcome.sent = IF op \in {"off", "mode"} THEN Nothing ELSE sent
  <1>1. Nothing \in [Sides -> Torques \cup {None}] /\ Complete \in BOOLEAN
    BY DEF Nothing, Complete
  <1>2. op \in {"none", "on", "off", "mode", "torque"}
    BY DEF Typed
  <1>3. CASE op = "on"
    BY <1>1, <1>3 DEF Outcome, Complete, LinkStates, Typed
  <1>4. CASE op = "off"
    BY <1>1, <1>4 DEF Outcome, Complete, Nothing, LinkStates, Typed
  <1>5. CASE op = "mode"
    BY <1>1, <1>5 DEF Outcome, Nothing, LinkStates, Typed
  <1>6. CASE op \in {"none", "torque"}
    BY <1>6 DEF Outcome, LinkStates, Typed
  <1> QED
    BY <1>2, <1>3, <1>4, <1>5, <1>6

LEMMA OnReached ==
    ASSUME IInv, ~busOff, op = "on"
    PROVE  Reached(before, Outcome)
  <1>1. Typed /\ Found /\ On /\ before \in LinkStates
    BY DEF IInv, Typed, Progress
  <1>2. PICK m \in LinkStates :
            /\ m = Outcome
            /\ m.up = up /\ m.busOff = FALSE /\ m.axis = axis /\ m.torque = torque
            /\ m.enabled = Complete /\ m.lost = ~Complete /\ m.sent = sent
    BY <1>1, OutcomeFacts
  <1>3. CanSend(before) /\ before.busOff = FALSE /\ before.up = up
    BY <1>1 DEF Found, CanSend, LinkStates, Typed
  <1>4. CASE Complete
    <2>1. PICK l : l = EnableDone(before).link
      OBVIOUS
    <2>2. l = [before EXCEPT !.torque = ZeroTorque, !.axis = [s \in Sides |-> "closed"],
                             !.enabled = TRUE, !.lost = FALSE]
      BY <2>1 DEF EnableDone
    <2>3. \A s \in Sides : torque[s] = Zero /\ axis[s] = "closed"
      <3>1. ok /\ \A kind, s : ~Pending(kind, s)
        BY <1>4 DEF Complete, Pending
      <3> QED
        BY <1>1, <3>1 DEF On
    <2>4. torque = ZeroTorque /\ axis = [s \in Sides |-> "closed"]
      BY <1>1, <2>3 DEF ZeroTorque, Typed
    <2>5. l \in LinkStates
      BY <1>1, <2>2, <2>4 DEF LinkStates, Typed
    <2>6. /\ l.up = m.up /\ l.busOff = m.busOff /\ l.axis = m.axis /\ l.torque = m.torque
          /\ l.enabled = m.enabled /\ l.lost = m.lost /\ l.sent = m.sent
      BY <1>1, <1>2, <1>3, <1>4, <2>2, <2>4 DEF LinkStates, On
    <2>7. m = EnableDone(before).link
      BY <2>1, <2>5, <2>6, SameLink
    <2> QED
      BY <1>2, <1>3, <2>7 DEF Reached, EnableOutcomes
  <1>5. CASE ~Complete
    <2>1. PICK zeroed \in SUBSET Sides : zeroed = {s \in Sides : torque[s] = Zero}
      OBVIOUS
    <2>2. PICK closed \in SUBSET Sides : closed = {s \in Sides : axis[s] = "closed"}
      OBVIOUS
    <2>3. PICK l : l = EnableFailed(before, zeroed, closed).link
      OBVIOUS
    <2>4. l = [before EXCEPT !.torque = Put(before.torque, zeroed, Zero),
                             !.axis = Put(before.axis, closed, "closed"),
                             !.enabled = FALSE, !.lost = TRUE]
      BY <2>3 DEF EnableFailed
    <2>5. torque = Put(before.torque, zeroed, Zero)
      BY <1>1, <2>1 DEF On, Towards, Put, Typed
    <2>6. axis = Put(before.axis, closed, "closed")
      BY <1>1, <2>2 DEF On, Towards, Put, Typed
    <2>7. l \in LinkStates
      BY <1>1, <2>4, <2>5, <2>6 DEF LinkStates, Typed
    <2>8. /\ l.up = m.up /\ l.busOff = m.busOff /\ l.axis = m.axis /\ l.torque = m.torque
          /\ l.enabled = m.enabled /\ l.lost = m.lost /\ l.sent = m.sent
      BY <1>1, <1>2, <1>3, <1>5, <2>4, <2>5, <2>6 DEF LinkStates, On, Complete
    <2>9. m = EnableFailed(before, zeroed, closed).link
      BY <2>3, <2>7, <2>8, SameLink
    <2> QED
      BY <1>2, <1>3, <2>9 DEF Reached, EnableOutcomes
  <1> QED
    BY <1>4, <1>5

LEMMA OffReached ==
    ASSUME IInv, ~busOff, op = "off"
    PROVE  Reached(before, Outcome)
  <1>1. Typed /\ Found /\ Off /\ before \in LinkStates
    BY DEF IInv, Typed, Progress
  <1>2. PICK m \in LinkStates :
            /\ m = Outcome
            /\ m.up = up /\ m.busOff = FALSE /\ m.axis = axis /\ m.torque = torque
            /\ m.enabled = FALSE /\ m.lost = ~Complete /\ m.sent = Nothing
    BY <1>1, OutcomeFacts
  <1>3. CanSend(before) /\ before.busOff = FALSE /\ before.up = up
    BY <1>1 DEF Found, CanSend, LinkStates, Typed
  <1>4. ASSUME NEW zeroed \in SUBSET (IF before.enabled THEN Sides ELSE {}),
               NEW idled \in SUBSET Sides,
               torque = Put(before.torque, zeroed, Zero), axis = Put(before.axis, idled, "idle"),
               Complete <=> (idled = Sides /\ (before.enabled => zeroed = Sides))
        PROVE  Reached(before, Outcome)
    <2>1. PICK l : l = EnableOff(before, zeroed, idled).link
      OBVIOUS
    <2>2. l = [before EXCEPT !.torque = torque, !.axis = axis, !.sent = Nothing,
                             !.enabled = FALSE, !.lost = ~Complete]
      <3>1. (~Complete) = ~(idled = Sides /\ (before.enabled => zeroed = Sides))
        BY <1>4
      <3> QED
        BY <1>4, <2>1, <3>1 DEF EnableOff, Nothing
    <2>3. Nothing \in [Sides -> Torques \cup {None}] /\ (~Complete) \in BOOLEAN
      BY DEF Nothing
    <2>4. l \in LinkStates
      BY <1>1, <2>2, <2>3 DEF LinkStates, Typed
    <2>5. /\ l.up = m.up /\ l.busOff = m.busOff /\ l.axis = m.axis /\ l.torque = m.torque
          /\ l.enabled = m.enabled /\ l.lost = m.lost /\ l.sent = m.sent
      BY <1>1, <1>2, <1>3, <2>2 DEF LinkStates
    <2>6. m = EnableOff(before, zeroed, idled).link
      BY <2>1, <2>4, <2>5, SameLink
    <2> QED
      BY <1>2, <1>3, <2>6 DEF Reached, DisableOutcomes
  <1>5. CASE Complete
    <2>1. PICK zeroed : zeroed = IF before.enabled THEN Sides ELSE {}
      OBVIOUS
    <2>2. \A s \in Sides : /\ axis[s] = "idle"
                           /\ before.enabled => torque[s] = Zero
      <3>1. ok /\ \A kind, s : ~Pending(kind, s)
        BY <1>5 DEF Complete, Pending
      <3> QED
        BY <1>1, <3>1 DEF Off
    <2>3. torque = Put(before.torque, zeroed, Zero)
      BY <1>1, <2>1, <2>2 DEF Off, Put, Typed, LinkStates
    <2>4. axis = Put(before.axis, Sides, "idle")
      BY <1>1, <2>2 DEF Put, Typed
    <2> QED
      BY <1>4, <1>5, <2>1, <2>3, <2>4
  <1>6. CASE ~Complete
    <2>1. PICK w \in Sides : \/ axis[w] = before.axis[w]
                             \/ before.enabled /\ torque[w] = before.torque[w]
      <3>1. CASE ~ok
        BY <1>1, <3>1 DEF Off
      <3>2. CASE todo # <<>>
        <4>1. /\ 1 \in DOMAIN todo /\ todo[1] \in FrameSet
              /\ todo[1].kind \in {"torque", "axis"}
          <5>1. Len(todo) \in Nat \ {0} /\ DOMAIN todo = 1..Len(todo)
            BY <1>1, <3>2, EmptySeq, LenProperties DEF Typed
          <5>2. 1 \in DOMAIN todo
            BY <5>1
          <5> QED
            BY <1>1, <5>1, <5>2, ElementOfSeq DEF Off, Tell, Typed
        <4>2. todo[1].side \in Sides /\ Pending(todo[1].kind, todo[1].side)
          BY <4>1 DEF FrameSet, Pending
        <4> QED
          BY <1>1, <4>1, <4>2 DEF Off
      <3> QED
        BY <1>6, <3>1, <3>2 DEF Complete
    <2>2. CASE axis[w] = before.axis[w]
      <3>1. PICK zeroed \in SUBSET (IF before.enabled THEN Sides ELSE {}) :
                zeroed = IF before.enabled THEN {s \in Sides : torque[s] = Zero} ELSE {}
        OBVIOUS
      <3>2. PICK idled \in SUBSET Sides : idled = {s \in Sides \ {w} : axis[s] = "idle"}
        OBVIOUS
      <3>3. torque = Put(before.torque, zeroed, Zero)
        BY <1>1, <3>1 DEF Off, Towards, Put, Typed, LinkStates
      <3>4. axis = Put(before.axis, idled, "idle")
        BY <1>1, <2>2, <3>2 DEF Off, Towards, Put, Typed
      <3>5. idled # Sides
        BY <3>2
      <3> QED
        BY <1>4, <1>6, <3>1, <3>2, <3>3, <3>4, <3>5
    <2>3. CASE before.enabled /\ torque[w] = before.torque[w]
      <3>1. PICK zeroed \in SUBSET (IF before.enabled THEN Sides ELSE {}) :
                zeroed = {s \in Sides \ {w} : torque[s] = Zero}
        BY <2>3
      <3>2. PICK idled \in SUBSET Sides : idled = {s \in Sides : axis[s] = "idle"}
        OBVIOUS
      <3>3. torque = Put(before.torque, zeroed, Zero)
        BY <1>1, <2>3, <3>1 DEF Off, Towards, Put, Typed
      <3>4. axis = Put(before.axis, idled, "idle")
        BY <1>1, <3>2 DEF Off, Towards, Put, Typed
      <3>5. zeroed # Sides
        BY <3>1
      <3> QED
        BY <1>4, <1>6, <2>3, <3>1, <3>2, <3>3, <3>4, <3>5
    <2> QED
      BY <2>1, <2>2, <2>3
  <1> QED
    BY <1>5, <1>6

LEMMA ModeReached ==
    ASSUME IInv, ~busOff, op = "mode"
    PROVE  Reached(before, Outcome)
  <1>1. Typed /\ Found /\ ModeSet /\ before \in LinkStates
    BY DEF IInv, Typed, Progress
  <1>2. PICK m \in LinkStates :
            /\ m = Outcome
            /\ m.up = up /\ m.busOff = FALSE /\ m.axis = axis /\ m.torque = torque
            /\ m.enabled = enabled /\ m.lost = lost /\ m.sent = Nothing
    BY <1>1, OutcomeFacts
  <1>3. CanSend(before) /\ before.busOff = FALSE /\ before.up = up
    BY <1>1 DEF Found, CanSend, LinkStates, Typed
  <1>4. PICK zeroed \in SUBSET Sides : zeroed = {s \in Sides : torque[s] = Zero}
    OBVIOUS
  <1>5. torque = Put(before.torque, zeroed, Zero)
    BY <1>1, <1>4 DEF ModeSet, Towards, Put, Typed
  <1>6. PICK l : l = [before EXCEPT !.torque = Put(before.torque, zeroed, Zero),
                                    !.sent = [s \in Sides |-> None]]
    OBVIOUS
  <1>7. l \in LinkStates
    BY <1>1, <1>5, <1>6 DEF LinkStates, Typed
  <1>8. /\ l.up = m.up /\ l.busOff = m.busOff /\ l.axis = m.axis /\ l.torque = m.torque
        /\ l.enabled = m.enabled /\ l.lost = m.lost /\ l.sent = m.sent
    BY <1>1, <1>2, <1>3, <1>5, <1>6 DEF LinkStates, ModeSet, Found, Nothing
  <1>9. l = m
    BY <1>7, <1>8, SameLink
  <1>10. l \in SetModeOutcomes(before)
    BY <1>1, <1>3, <1>6 DEF SetModeOutcomes, ModeSet
  <1> QED
    BY <1>2, <1>9, <1>10 DEF Reached

LEMMA TorqueReached ==
    ASSUME IInv, ~busOff, op = "torque"
    PROVE  Reached(before, Outcome)
  <1>1. Typed /\ Found /\ Torqued /\ before \in LinkStates
    BY DEF IInv, Typed, Progress
  <1>2. PICK m \in LinkStates :
            /\ m = Outcome
            /\ m.up = up /\ m.busOff = FALSE /\ m.axis = axis /\ m.torque = torque
            /\ m.enabled = enabled /\ m.lost = lost /\ m.sent = sent
    BY <1>1, OutcomeFacts
  <1>3. CanSend(before) /\ before.busOff = FALSE /\ before.up = up
    BY <1>1 DEF Found, CanSend, LinkStates, Typed
  <1>4. PICK cmd \in [Sides -> Torques] : Commanded(cmd)
    BY <1>1 DEF Torqued
  <1>5. PICK accepted \in SUBSET Changed(before, cmd) :
            accepted = {s \in Changed(before, cmd) : torque[s] = cmd[s] /\ sent[s] = cmd[s]}
    OBVIOUS
  <1>6. ASSUME NEW s \in Sides
        PROVE  /\ torque[s] = IF s \in accepted THEN cmd[s] ELSE before.torque[s]
               /\ sent[s] = IF s \in accepted THEN cmd[s] ELSE before.sent[s]
    BY <1>4, <1>5 DEF Commanded, Changed
  <1>7. /\ torque = [s \in Sides |-> IF s \in accepted THEN cmd[s] ELSE before.torque[s]]
        /\ sent = [s \in Sides |-> IF s \in accepted THEN cmd[s] ELSE before.sent[s]]
    BY <1>1, <1>6 DEF Typed
  <1>8. PICK l : l = SendTorque(before, cmd, accepted)
    OBVIOUS
  <1>9. l = [before EXCEPT !.torque = torque, !.sent = sent]
    BY <1>7, <1>8 DEF SendTorque
  <1>10. l \in LinkStates
    BY <1>1, <1>9 DEF LinkStates, Typed
  <1>11. /\ l.up = m.up /\ l.busOff = m.busOff /\ l.axis = m.axis /\ l.torque = m.torque
         /\ l.enabled = m.enabled /\ l.lost = m.lost /\ l.sent = m.sent
    BY <1>1, <1>2, <1>3, <1>9 DEF LinkStates, Torqued, Found
  <1>12. l = m
    BY <1>10, <1>11, SameLink
  <1>13. l \in TorqueOutcomes(before, cmd)
    BY <1>1, <1>3, <1>5, <1>8 DEF TorqueOutcomes, Torqued
  <1> QED
    BY <1>2, <1>12, <1>13 DEF Reached

-----------------------------------------------------------------------------
(* The refinement.                                                           *)

\* MotorLinkSpec's operators are those of MotorLink.
LEMMA SameOutcomes ==
    ASSUME NEW l
    PROVE  /\ Abs!EnableOutcomes(l) = EnableOutcomes(l)
           /\ Abs!DisableOutcomes(l) = DisableOutcomes(l)
           /\ Abs!SetModeOutcomes(l) = SetModeOutcomes(l)
           /\ \A cmd : Abs!TorqueOutcomes(l, cmd) = TorqueOutcomes(l, cmd)
           /\ Abs!CanSend(l) <=> CanSend(l)
           /\ Abs!BusOffIsr(l) = BusOffIsr(l)
  <1>1. /\ \A f, accepted, v : Abs!Put(f, accepted, v) = Put(f, accepted, v)
        /\ Abs!ZeroTorque = ZeroTorque
        /\ Abs!CanSend(l) <=> CanSend(l)
    BY DEF Abs!Put, Put, Abs!ZeroTorque, ZeroTorque, Abs!CanSend, CanSend
  <1>2. Abs!EnableOutcomes(l) = EnableOutcomes(l)
    <2>1. /\ Abs!EnableDone(l) = EnableDone(l)
          /\ \A zeroed, closed : Abs!EnableFailed(l, zeroed, closed) = EnableFailed(l, zeroed, closed)
      BY <1>1 DEF Abs!EnableDone, EnableDone, Abs!EnableFailed, EnableFailed
    <2>2. \A r : r \in Abs!EnableOutcomes(l) <=> r \in EnableOutcomes(l)
      BY <1>1, <2>1 DEF Abs!EnableOutcomes, EnableOutcomes
    <2> QED
      BY <2>2
  <1>3. Abs!DisableOutcomes(l) = DisableOutcomes(l)
    <2>1. \A zeroed, idled : Abs!EnableOff(l, zeroed, idled) = EnableOff(l, zeroed, idled)
      BY <1>1 DEF Abs!EnableOff, EnableOff
    <2>2. \A r : r \in Abs!DisableOutcomes(l) <=> r \in DisableOutcomes(l)
      BY <1>1, <2>1 DEF Abs!DisableOutcomes, DisableOutcomes
    <2> QED
      BY <2>2
  <1>4. Abs!SetModeOutcomes(l) = SetModeOutcomes(l)
    BY <1>1 DEF Abs!SetModeOutcomes, SetModeOutcomes
  <1>5. ASSUME NEW cmd
        PROVE  Abs!TorqueOutcomes(l, cmd) = TorqueOutcomes(l, cmd)
    <2>1. \A accepted : Abs!SendTorque(l, cmd, accepted) = SendTorque(l, cmd, accepted)
      BY DEF Abs!SendTorque, SendTorque
    <2>2. Abs!Changed(l, cmd) = Changed(l, cmd)
      BY DEF Abs!Changed, Changed
    <2> QED
      BY <1>1, <2>1, <2>2 DEF Abs!TorqueOutcomes, TorqueOutcomes
  <1>6. Abs!BusOffIsr(l) = BusOffIsr(l)
    BY DEF Abs!BusOffIsr, BusOffIsr
  <1> QED
    BY <1>1, <1>2, <1>3, <1>4, <1>5, <1>6

LEMMA ReachedStep ==
    ASSUME Reached(View, View')
    PROVE  Abs!Next
  <1>1. CASE \E r \in EnableOutcomes(View) : View' = r.link
    BY <1>1, SameOutcomes DEF Abs!Next, Abs!Enable
  <1>2. CASE \E r \in DisableOutcomes(View) : View' = r.link
    BY <1>2, SameOutcomes DEF Abs!Next, Abs!Disable
  <1>3. CASE View' \in SetModeOutcomes(View)
    BY <1>3, SameOutcomes DEF Abs!Next, Abs!SetMode
  <1>4. CASE \E cmd \in [Sides -> Torques] : View' \in TorqueOutcomes(View, cmd)
    BY <1>4, SameOutcomes DEF Abs!Next, Abs!Torque
  <1> QED
    BY <1>1, <1>2, <1>3, <1>4 DEF Reached

\* The interrupt sets s_bus_off: the operation it cuts short ends here.
LEMMA SetImplements ==
    ASSUME IInv, BusOffSet
    PROVE  Abs!Next \/ View' = View
  <1>1. /\ ~busOff /\ ~isr /\ isr' = TRUE
        /\ UNCHANGED <<up, enabled, sent, axis, torque, lost, op, todo, ok>>
    BY DEF BusOffSet, driveVars, opVars, IInv, Typed
  <1>2. View' = Outcome
    <2>1. View' = Outcome'
      BY <1>1 DEF View
    <2>2. Outcome' = Outcome
      BY <1>1 DEF Outcome
    <2> QED
      BY <2>1, <2>2
  <1>3. CASE op = "none"
    <2>1. View = Current
      BY <1>1, <1>3 DEF View
    <2>2. Typed
      BY DEF IInv
    <2>3. Current \in LinkStates
      BY <2>2 DEF Typed, Current, LinkStates
    <2>4. PICK l \in LinkStates : /\ l = Current
                                  /\ l.up = up /\ l.busOff = FALSE /\ l.axis = axis
                                  /\ l.torque = torque /\ l.enabled = enabled
                                  /\ l.lost = lost /\ l.sent = sent
      BY <1>1, <2>2, <2>3 DEF Current, Typed
    <2>5. PICK m \in LinkStates : /\ m = Outcome
                                  /\ m.up = up /\ m.busOff = FALSE /\ m.axis = axis
                                  /\ m.torque = torque /\ m.enabled = enabled
                                  /\ m.lost = lost /\ m.sent = sent
      BY <1>3, <2>2, OutcomeFacts
    <2>6. l = m
      BY <2>4, <2>5, SameLink
    <2> QED
      BY <1>2, <2>1, <2>4, <2>5, <2>6
  <1>4. CASE op # "none"
    <2>1. View = before
      BY <1>1, <1>4 DEF View
    <2>2. op \in {"on", "off", "mode", "torque"}
      BY <1>4 DEF IInv, Typed
    <2>3. Reached(before, Outcome)
      BY <1>1, <2>2, OnReached, OffReached, ModeReached, TorqueReached
    <2> QED
      BY <1>2, <2>1, <2>3, ReachedStep
  <1> QED
    BY <1>3, <1>4

\* It clears s_enable_applied: the bus is off for the callers.
LEMMA ClearImplements ==
    ASSUME IInv, BusOffClear
    PROVE  Abs!Next
  <1>1. /\ isr /\ busOff' = TRUE /\ isr' = FALSE /\ enabled' = FALSE /\ lost' = TRUE
        /\ UNCHANGED <<up, sent, axis, torque>> /\ up /\ Typed
    BY DEF BusOffClear, driveVars, IInv, Typed
  <1>2. PICK l \in LinkStates : /\ l = Outcome
                                /\ l.up = up /\ l.busOff = FALSE
                                /\ l.axis = axis /\ l.torque = torque
    BY <1>1, OutcomeFacts
  <1>3. View = l
    BY <1>1, <1>2 DEF View
  <1>4. CanSend(l)
    BY <1>1, <1>2 DEF CanSend
  <1>5. PICK m : m = [up |-> up, enabled |-> FALSE, busOff |-> TRUE, sent |-> Nothing,
                      axis |-> axis, torque |-> torque, lost |-> TRUE]
    OBVIOUS
  <1>6. View' = m
    <2>1. View' = Silenced'
      BY <1>1 DEF View
    <2> QED
      BY <1>1, <1>5, <2>1 DEF Silenced, Nothing
  <1>7. PICK n : n = [BusOffIsr(l) EXCEPT !.sent = Nothing]
    OBVIOUS
  <1>8. Nothing \in [Sides -> Torques \cup {None}]
    BY DEF Nothing
  <1>9. m \in LinkStates
    BY <1>1, <1>5, <1>8 DEF LinkStates, Typed
  <1>10. n \in LinkStates
    BY <1>7, <1>8 DEF LinkStates, BusOffIsr
  <1>11. /\ n.up = m.up /\ n.enabled = m.enabled /\ n.busOff = m.busOff /\ n.sent = m.sent
         /\ n.axis = m.axis /\ n.torque = m.torque /\ n.lost = m.lost
    BY <1>2, <1>5, <1>7, <1>8 DEF LinkStates, BusOffIsr
  <1>12. n = m
    BY <1>9, <1>10, <1>11, SameLink
  <1>13. Abs!BusOff
    BY <1>3, <1>4, <1>6, <1>7, <1>12, SameOutcomes DEF Abs!BusOff, Nothing
  <1> QED
    BY <1>13 DEF Abs!Next

LEMMA FinishImplements ==
    ASSUME IInv, Finish, ~busOff
    PROVE  Abs!Next
  <1>1. /\ ~isr /\ op # "none" /\ op' = "none" /\ todo = <<>>
        /\ UNCHANGED <<up, busOff, axis, torque, isr>> /\ Typed
    BY DEF Finish, driveVars, IInv
  <1>2. View = before /\ View' = Current'
    BY <1>1 DEF View
  <1>3. PICK m \in LinkStates :
            /\ m = Outcome
            /\ m.up = up /\ m.busOff = FALSE /\ m.axis = axis /\ m.torque = torque
            /\ m.enabled = CASE op = "on" -> Complete [] op = "off" -> FALSE [] OTHER -> enabled
            /\ m.lost = IF op \in {"on", "off"} THEN ~Complete ELSE lost
            /\ m.sent = IF op \in {"off", "mode"} THEN Nothing ELSE sent
    BY <1>1, OutcomeFacts
  <1>4. Complete = ok
    BY <1>1 DEF Complete, Typed
  <1>5. enabled' = m.enabled /\ lost' = m.lost /\ sent' = m.sent
    <2>1. enabled' = m.enabled
      BY <1>3, <1>4 DEF Finish
    <2>2. lost' = m.lost
      BY <1>1, <1>3, <1>4 DEF Finish, Typed
    <2>3. sent' = m.sent
      BY <1>3 DEF Finish, Nothing
    <2> QED
      BY <2>1, <2>2, <2>3
  <1>6. PICK l : l = [up |-> up, enabled |-> m.enabled, busOff |-> busOff, sent |-> m.sent,
                      axis |-> axis, torque |-> torque, lost |-> m.lost]
    OBVIOUS
  <1>7. View' = l
    BY <1>1, <1>2, <1>5, <1>6 DEF Current
  <1>8. l \in LinkStates
    BY <1>1, <1>3, <1>6 DEF LinkStates, Typed
  <1>9. /\ l.up = m.up /\ l.enabled = m.enabled /\ l.busOff = m.busOff /\ l.sent = m.sent
        /\ l.axis = m.axis /\ l.torque = m.torque /\ l.lost = m.lost
    BY <1>1, <1>3, <1>6 DEF Typed
  <1>10. l = m
    BY <1>8, <1>9, SameLink
  <1>11. op \in {"on", "off", "mode", "torque"}
    BY <1>1 DEF Typed
  <1>12. Reached(before, Outcome)
    BY <1>11, OnReached, OffReached, ModeReached, TorqueReached
  <1> QED
    BY <1>2, <1>3, <1>7, <1>10, <1>12, ReachedStep

\* With the bus off the callers see nothing of what an operation still does.
LEMMA OffStutters ==
    ASSUME IInv, Next, busOff, ~isr
    PROVE  View' = View
  <1>1. UNCHANGED <<up, busOff, axis, torque, isr>>
    <2>1. CASE SetMode
      BY <2>1 DEF SetMode, Begin, backendVars, driveVars
    <2>2. CASE Skip \/ Refuse
      BY <2>2 DEF Skip, Refuse, backendVars, driveVars
    <2>3. CASE Add
      BY <2>3 DEF Add
    <2>4. CASE Finish
      BY <2>4 DEF Finish, driveVars
    <2> QED
      BY <2>1, <2>2, <2>3, <2>4
         DEF Next, Enable, Disable, Torque, Check, BusOffSet, BusOffClear
  <1>2. Silenced' = Silenced
    BY <1>1 DEF Silenced
  <1> QED
    BY <1>1, <1>2 DEF View

\* The other steps with the bus on are steps inside an operation.
LEMMA InsideStutters ==
    ASSUME IInv, ~busOff, ~isr,
           \/ Enable \/ Disable \/ SetMode \/ \E cmd \in [Sides -> Torques] : Torque(cmd)
           \/ Skip \/ Refuse \/ Check \/ Add
    PROVE  View' = View
  <1>1. CASE \E name \in {"on", "off", "mode", "torque"} : \E frames : Begin(name, frames)
    <2>1. /\ op = "none" /\ op' # "none" /\ before' = Current
          /\ UNCHANGED <<busOff, isr>>
      BY <1>1 DEF Begin, backendVars
    <2> QED
      BY <2>1 DEF View
  <1>2. CASE Skip \/ Refuse \/ Check \/ Add
    <2>1. op # "none" /\ op' = op /\ before' = before /\ UNCHANGED <<busOff, isr>>
      BY <1>2 DEF Skip, Refuse, Check, Add, AtFrame, backendVars, IInv, Typed
    <2> QED
      BY <2>1 DEF View
  <1> QED
    BY <1>1, <1>2 DEF Enable, Disable, SetMode, Torque

LEMMA StepImplements ==
    ASSUME IInv, [Next]_vars
    PROVE  [Abs!Next]_View
  <1>1. CASE UNCHANGED vars
    <2>1. UNCHANGED <<up, enabled, busOff, sent, axis, torque, lost, op, todo, ok, before, isr>>
      BY <1>1 DEF vars, backendVars, driveVars, opVars
    <2>2. Current' = Current
      BY <2>1 DEF Current
    <2>3. Outcome' = Outcome /\ Silenced' = Silenced
      BY <2>1 DEF Outcome, Silenced
    <2> QED
      BY <2>1, <2>2, <2>3 DEF View
  <1>2. CASE BusOffSet
    BY <1>2, SetImplements
  <1>3. CASE BusOffClear
    BY <1>3, ClearImplements
  <1>4. CASE Finish /\ ~busOff
    BY <1>4, FinishImplements
  <1>5. CASE Next /\ busOff /\ ~isr
    BY <1>5, OffStutters
  <1>6. CASE /\ ~busOff
             /\ \/ Enable \/ Disable \/ SetMode \/ \E cmd \in [Sides -> Torques] : Torque(cmd)
                \/ Skip \/ Refuse \/ Check \/ Add
    <2>1. ~isr
      BY <1>6 DEF IInv, Typed
    <2> QED
      BY <1>6, <2>1, InsideStutters
  <1>7. CASE Next /\ isr /\ ~BusOffClear
    BY <1>7 DEF Next, Enable, Disable, SetMode, Torque, Begin, Skip, Refuse, Check, AtFrame,
       Add, Finish, BusOffSet, IInv, Typed
  <1> QED
    BY <1>1, <1>2, <1>3, <1>4, <1>5, <1>6, <1>7 DEF Next

LEMMA InitImplements ==
    ASSUME Init
    PROVE  Abs!Init
  <1>1. up \in BOOLEAN /\ View = Current
    BY DEF Init, View
  <1>2. Current = Abs!LinkInit(up)
    BY DEF Init, Current, ZeroTorque, Abs!LinkInit, Abs!ZeroTorque
  <1> QED
    BY <1>1, <1>2 DEF Abs!Init

(* Whenever the bus-off interrupt preempts enable, disable, set_control_mode *)
(* or a torque command, the callers cannot tell it from an interrupt that    *)
(* came just after it: for any nodes, torques and order of the frames.       *)
THEOREM Implements == Spec => ImplementsSpec
  <1>1. Init => Abs!Init
    BY InitImplements
  <1>2. IInv /\ [Next]_vars => [Abs!Next]_View
    BY StepImplements
  <1> QED
    BY <1>1, <1>2, Invariance, PTL DEF Spec, ImplementsSpec, Abs!Spec

-----------------------------------------------------------------------------
(* Torque and closed loop.                                                   *)

LEMMA TorqueStep ==
    ASSUME IInv, Next, NEW s \in Sides, torque'[s] \notin {torque[s], Zero}
    PROVE  axis[s] = "closed"
  <1>1. Add
    <2>1. torque' # torque
      OBVIOUS
    <2> QED
      BY <2>1 DEF Next, Enable, Disable, SetMode, Torque, Begin, Skip, Refuse, Check, Finish,
         BusOffSet, BusOffClear, backendVars, driveVars
  <1>2. /\ adding /\ op # "none" /\ todo # <<>> /\ todo' = Tail(todo) /\ Typed
        /\ ~busOff /\ Head(todo).kind = "torque"
        /\ torque' = [torque EXCEPT ![Head(todo).side] = Head(todo).value]
    BY <1>1 DEF Add, IInv, Typed
  <1>3. Head(todo).value # Zero
    BY <1>2 DEF Typed
  <1>4. PICK i \in DOMAIN todo : todo[i] = Head(todo)
    BY <1>2, TailFacts
  <1>5. Progress /\ Found
    BY <1>2 DEF IInv, Progress
  <1>6. op = "torque"
    <2>1. ~Tell({"clear", "mode", "torque", "axis"}, "closed")
      BY <1>2, <1>3, <1>4 DEF Tell
    <2>2. ~Tell({"torque", "axis"}, "idle") /\ ~Tell({"mode", "torque"}, "idle")
      BY <1>2, <1>3, <1>4 DEF Tell
    <2> QED
      BY <1>2, <1>5, <2>1, <2>2 DEF Typed, Progress, On, Off, ModeSet
  <1> QED
    BY <1>5, <1>6 DEF Progress, Torqued, Found

\* A torque other than zero reaches only a drive whose enable sequence was
\* queued in full, whatever frames were refused and wherever the interrupt
\* fell.
THEOREM OnlyClosedDrives == Spec => TorqueReachesClosedDrive
  <1> DEFINE A == \A s \in Sides : torque'[s] \notin {torque[s], Zero} => axis[s] = "closed"
  <1>1. IInv /\ [Next]_vars => [A]_vars
    BY TorqueStep
  <1> QED
    BY <1>1, Invariance, PTL DEF Spec, TorqueReachesClosedDrive
=============================================================================
