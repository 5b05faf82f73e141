------------------------- MODULE RobotSafetyProofs -------------------------
(***************************************************************************)
(* Proofs for RobotSafety, for any set of wheels, any torques and any       *)
(* thresholds.  The inductive invariant joins the type invariant, the       *)
(* soundness of the motor link (an enabled link can send) and the           *)
(* properties themselves.  Its part about modes, ownership and the link is   *)
(* Ctl, the types of everything else are Rest; a lemma per operation of the *)
(* link says what it guarantees, a lemma per handler takes Ctl through it,  *)
(* one lemma takes Rest through them all.                                   *)
(***************************************************************************)
EXTENDS RobotSafety, TLAPS

-----------------------------------------------------------------------------
(* What the operations of the motor link guarantee, whatever frames are      *)
(* refused.                                                                  *)

\* A link that is enabled can send, and a link that never came up sent nothing.
Sound(l) == /\ l.enabled => CanSend(l)
            /\ ~l.up => \A s \in Sides : l.sent[s] = None

\* The drives' axis states are as the backend believes, or it lost track.
Believed(l) == /\ l.enabled => \A s \in Sides : l.axis[s] = "closed"
               /\ ~l.enabled => l.lost \/ \A s \in Sides : l.axis[s] = "idle"

\* No drive of l2 holds a torque it did not hold in l1, zero apart.
OnlyZeroed(l1, l2) == \A s \in Sides : l2.torque[s] \in {l1.torque[s], Zero}

(* A fresh backend is well typed and holds nothing enabled.                  *)
LEMMA InitFacts ==
    ASSUME NEW initOk \in BOOLEAN
    PROVE  /\ LinkInit(initOk) \in LinkStates
           /\ Sound(LinkInit(initOk)) /\ Believed(LinkInit(initOk))
           /\ ~LinkInit(initOk).enabled
           /\ \A s \in Sides : LinkInit(initOk).sent[s] = None
    BY TorqueAssumption DEF LinkInit, LinkStates, ZeroTorque, Sound, Believed, CanSend

(* motor_link_enable(true): success leaves both drives in closed loop at     *)
(* zero torque, failure leaves the link disabled.                            *)
LEMMA EnableFacts ==
    ASSUME NEW l \in LinkStates, Sound(l), NEW r \in EnableOutcomes(l)
    PROVE  /\ r.link \in LinkStates /\ r.ok \in BOOLEAN
           /\ Sound(r.link) /\ (Believed(l) => Believed(r.link))
           /\ r.link.enabled = r.ok
           /\ r.ok => \A s \in Sides : r.link.axis[s] = "closed" /\ r.link.torque[s] = Zero
           /\ OnlyZeroed(l, r.link)
           /\ r.link.sent = l.sent /\ r.link.busOff = l.busOff /\ r.link.up = l.up
  <1>1. CASE ~CanSend(l)
    <2>1. r = [link |-> l, ok |-> FALSE]
      BY <1>1 DEF EnableOutcomes
    <2>2. l.enabled = FALSE
      BY <1>1 DEF Sound, LinkStates
    <2> QED
      BY <2>1, <2>2 DEF OnlyZeroed
  <1>2. CASE CanSend(l) /\ r = EnableDone(l)
    <2>1. /\ r.link = [l EXCEPT !.torque = ZeroTorque,
                                !.axis = [s \in Sides |-> "closed"],
                                !.enabled = TRUE, !.lost = FALSE]
          /\ r.ok = TRUE
      BY <1>2 DEF EnableDone
    <2>2. /\ ZeroTorque \in [Sides -> Torques]
          /\ [s \in Sides |-> "closed"] \in [Sides -> {"idle", "closed"}]
      BY TorqueAssumption DEF ZeroTorque
    <2>3. r.link \in LinkStates
      BY <2>1, <2>2 DEF LinkStates
    <2>4. /\ r.link.enabled = TRUE /\ r.link.torque = ZeroTorque
          /\ r.link.axis = [s \in Sides |-> "closed"]
          /\ r.link.sent = l.sent /\ r.link.busOff = l.busOff /\ r.link.up = l.up
      BY <2>1 DEF LinkStates
    <2>5. \A s \in Sides : r.link.axis[s] = "closed" /\ r.link.torque[s] = Zero
      BY <2>4 DEF ZeroTorque
    <2>6. Sound(r.link) /\ Believed(r.link) /\ OnlyZeroed(l, r.link)
      BY <1>2, <2>4, <2>5 DEF Sound, Believed, OnlyZeroed, CanSend
    <2> QED
      BY <2>1, <2>3, <2>4, <2>5, <2>6
  <1>3. ASSUME CanSend(l),
               NEW zeroed \in SUBSET Sides, NEW closed \in SUBSET Sides,
               r = EnableFailed(l, zeroed, closed)
        PROVE  /\ r.link \in LinkStates /\ r.ok = FALSE /\ r.link.enabled = FALSE
               /\ Sound(r.link) /\ Believed(r.link)
               /\ OnlyZeroed(l, r.link)
               /\ r.link.sent = l.sent /\ r.link.busOff = l.busOff /\ r.link.up = l.up
    <2>1. /\ r.link = [l EXCEPT !.torque = Put(l.torque, zeroed, Zero),
                                !.axis = Put(l.axis, closed, "closed"),
                                !.enabled = FALSE, !.lost = TRUE]
          /\ r.ok = FALSE
      BY <1>3 DEF EnableFailed
    <2>2. Put(l.torque, zeroed, Zero) \in [Sides -> Torques]
      BY TorqueAssumption DEF LinkStates, Put
    <2>3. Put(l.axis, closed, "closed") \in [Sides -> {"idle", "closed"}]
      BY DEF LinkStates, Put
    <2>4. r.link \in LinkStates
      BY <2>1, <2>2, <2>3 DEF LinkStates
    <2>5. OnlyZeroed(l, r.link)
      BY <2>1 DEF LinkStates, Put, OnlyZeroed
    <2> QED
      BY <1>3, <2>1, <2>4, <2>5 DEF LinkStates, Sound, Believed, CanSend
  <1>4. CASE CanSend(l) /\ r # EnableDone(l)
    <2>1. PICK zeroed \in SUBSET Sides, closed \in SUBSET Sides :
              r = EnableFailed(l, zeroed, closed)
      BY <1>4 DEF EnableOutcomes
    <2> QED
      BY <1>3, <1>4, <2>1
  <1> QED
    BY <1>1, <1>2, <1>4

(* motor_link_enable(false): a link that can send ends disabled with no      *)
(* record of what was sent; one that cannot was disabled already.            *)
LEMMA DisableFacts ==
    ASSUME NEW l \in LinkStates, Sound(l), NEW r \in DisableOutcomes(l)
    PROVE  /\ r.link \in LinkStates
           /\ Sound(r.link) /\ (Believed(l) => Believed(r.link))
           /\ ~r.link.enabled
           /\ OnlyZeroed(l, r.link)
           /\ ~l.busOff => \A s \in Sides : r.link.sent[s] = None
           /\ r.link.busOff = l.busOff
  <1>1. CASE ~CanSend(l)
    <2>1. r = [link |-> l, ok |-> FALSE]
      BY <1>1 DEF DisableOutcomes
    <2> QED
      BY <1>1, <2>1 DEF Sound, OnlyZeroed, CanSend
  <1>2. CASE CanSend(l)
    <2>1. PICK zeroed \in SUBSET Sides, idled \in SUBSET Sides :
              r = EnableOff(l, zeroed, idled)
      BY <1>2 DEF DisableOutcomes
    <2> DEFINE ok == idled = Sides /\ (l.enabled => zeroed = Sides)
    <2>2. r.link = [l EXCEPT !.torque = Put(l.torque, zeroed, Zero),
                             !.axis = Put(l.axis, idled, "idle"),
                             !.sent = [s \in Sides |-> None],
                             !.enabled = FALSE, !.lost = ~ok]
      BY <2>1 DEF EnableOff
    <2>3. Put(l.torque, zeroed, Zero) \in [Sides -> Torques]
      BY TorqueAssumption DEF LinkStates, Put
    <2>4. Put(l.axis, idled, "idle") \in [Sides -> {"idle", "closed"}]
      BY DEF LinkStates, Put
    <2>5. r.link \in LinkStates
      <3>1. [s \in Sides |-> None] \in [Sides -> Torques \cup {None}]
        OBVIOUS
      <3>2. ok \in BOOLEAN
        OBVIOUS
      <3> QED
        BY <2>2, <2>3, <2>4, <3>1, <3>2 DEF LinkStates
    <2>6. \A s \in Sides : /\ r.link.torque[s] = IF s \in zeroed THEN Zero ELSE l.torque[s]
                           /\ r.link.axis[s] = IF s \in idled THEN "idle" ELSE l.axis[s]
                           /\ r.link.sent[s] = None
      BY <2>2 DEF LinkStates, Put
    <2>7. /\ r.link.enabled = FALSE /\ r.link.lost = ~ok
          /\ r.link.busOff = l.busOff /\ r.link.up = l.up
      BY <2>2 DEF LinkStates
    <2>8. Sound(r.link)
      BY <2>6, <2>7 DEF Sound
    <2>9. Believed(r.link)
      BY <2>6, <2>7 DEF Believed
    <2> QED
      BY <2>5, <2>6, <2>7, <2>8, <2>9 DEF OnlyZeroed
  <1> QED
    BY <1>1, <1>2

(* A torque command: for each side either nothing changed or the drive and   *)
(* the record of what was sent both took the command.                        *)
LEMMA TorqueFacts ==
    ASSUME NEW l \in LinkStates, Sound(l),
           NEW cmd \in [Sides -> Torques], NEW m \in TorqueOutcomes(l, cmd)
    PROVE  /\ m \in LinkStates /\ Sound(m) /\ (Believed(l) => Believed(m))
           /\ m.enabled = l.enabled /\ m.busOff = l.busOff /\ m.up = l.up
           /\ \A s \in Sides :
                  \/ m.sent[s] = l.sent[s] /\ m.torque[s] = l.torque[s]
                  \/ m.sent[s] = cmd[s] /\ m.torque[s] = cmd[s]
           /\ ~l.enabled => m = l
  <1>1. CASE ~(CanSend(l) /\ l.enabled)
    BY <1>1 DEF TorqueOutcomes, Sound
  <1>2. CASE CanSend(l) /\ l.enabled
    <2>1. PICK accepted \in SUBSET Sides : m = SendTorque(l, cmd, accepted)
      BY <1>2 DEF TorqueOutcomes, Changed
    <2> DEFINE torque == [s \in Sides |-> IF s \in accepted THEN cmd[s] ELSE l.torque[s]]
               sent == [s \in Sides |-> IF s \in accepted THEN cmd[s] ELSE l.sent[s]]
    <2>2. m = [l EXCEPT !.torque = torque, !.sent = sent]
      BY <2>1 DEF SendTorque
    <2>3. torque \in [Sides -> Torques] /\ sent \in [Sides -> Torques \cup {None}]
      BY DEF LinkStates
    <2>4. m \in LinkStates
      BY <2>2, <2>3 DEF LinkStates
    <2>5. /\ m.enabled = l.enabled /\ m.busOff = l.busOff /\ m.up = l.up
          /\ m.axis = l.axis /\ m.lost = l.lost /\ m.torque = torque /\ m.sent = sent
      BY <2>2 DEF LinkStates
    <2> QED
      BY <1>2, <2>4, <2>5 DEF Sound, Believed, CanSend
  <1> QED
    BY <1>1, <1>2

(* motor_link_set_control_mode gives no drive a new torque, zero apart, and  *)
(* forgets what an enabled link had sent.                                    *)
LEMMA SetModeFacts ==
    ASSUME NEW l \in LinkStates, Sound(l), NEW m \in SetModeOutcomes(l)
    PROVE  /\ m \in LinkStates /\ Sound(m) /\ (Believed(l) => Believed(m))
           /\ m.enabled = l.enabled /\ m.busOff = l.busOff /\ m.up = l.up
           /\ OnlyZeroed(l, m)
           /\ IF l.enabled THEN \A s \in Sides : m.sent[s] = None ELSE m = l
  <1>1. CASE ~l.enabled
    BY <1>1 DEF SetModeOutcomes, OnlyZeroed
  <1>2. CASE l.enabled
    <2>1. PICK zeroed \in SUBSET Sides :
              m = [l EXCEPT !.torque = Put(l.torque, zeroed, Zero),
                            !.sent = [s \in Sides |-> None]]
      BY <1>2 DEF SetModeOutcomes
    <2>2. /\ Put(l.torque, zeroed, Zero) \in [Sides -> Torques]
          /\ [s \in Sides |-> None] \in [Sides -> Torques \cup {None}]
      BY TorqueAssumption DEF LinkStates, Put
    <2>3. m \in LinkStates
      BY <2>1, <2>2 DEF LinkStates
    <2>4. /\ m.enabled = l.enabled /\ m.busOff = l.busOff /\ m.up = l.up
          /\ m.axis = l.axis /\ m.lost = l.lost
          /\ m.torque = Put(l.torque, zeroed, Zero) /\ m.sent = [s \in Sides |-> None]
      BY <2>1 DEF LinkStates
    <2> QED
      BY <1>2, <2>3, <2>4 DEF Sound, Believed, CanSend, OnlyZeroed, Put
  <1> QED
    BY <1>1, <1>2

(* The bus-off interrupt leaves the link disabled and the drives alone.      *)
LEMMA BusOffFacts ==
    ASSUME NEW l \in LinkStates, Sound(l)
    PROVE  /\ BusOffIsr(l) \in LinkStates /\ Sound(BusOffIsr(l)) /\ Believed(BusOffIsr(l))
           /\ ~BusOffIsr(l).enabled /\ BusOffIsr(l).busOff
           /\ BusOffIsr(l).torque = l.torque
  <1> DEFINE m == BusOffIsr(l)
  <1>1. m \in LinkStates
    BY DEF BusOffIsr, LinkStates
  <1>2. /\ m.enabled = FALSE /\ m.busOff = TRUE /\ m.lost = TRUE
        /\ m.up = l.up /\ m.sent = l.sent /\ m.torque = l.torque
    BY DEF BusOffIsr, LinkStates
  <1> QED
    BY <1>1, <1>2 DEF Sound, Believed

(* A restart leaves the link disabled, forgets what was sent and leaves the  *)
(* drives alone.                                                             *)
LEMMA RestartFacts ==
    ASSUME NEW l \in LinkStates, NEW initOk \in BOOLEAN
    PROVE  /\ Restart(l, initOk) \in LinkStates
           /\ Sound(Restart(l, initOk)) /\ Believed(Restart(l, initOk))
           /\ ~Restart(l, initOk).enabled
           /\ \A s \in Sides : Restart(l, initOk).sent[s] = None
           /\ Restart(l, initOk).torque = l.torque
  <1> DEFINE m == Restart(l, initOk)
             on == \E s \in Sides : l.axis[s] # "idle"
  <1>1. LinkInit(initOk) \in LinkStates /\ on \in BOOLEAN
    BY InitFacts
  <1>2. m = [LinkInit(initOk) EXCEPT !.axis = l.axis, !.torque = l.torque, !.lost = on]
    BY DEF Restart
  <1>3. m \in LinkStates
    BY <1>1, <1>2 DEF LinkStates
  <1>4. /\ m.axis = l.axis /\ m.torque = l.torque /\ m.lost = on
        /\ m.enabled = LinkInit(initOk).enabled /\ m.sent = LinkInit(initOk).sent
        /\ m.up = LinkInit(initOk).up /\ m.busOff = LinkInit(initOk).busOff
    BY <1>1, <1>2 DEF LinkStates
  <1> QED
    BY <1>3, <1>4, InitFacts DEF Sound, Believed

-----------------------------------------------------------------------------
(* The invariant.                                                            *)

(* Without a torque constant only the balancer sends a torque other than     *)
(* zero; a record that survives a change of owner is zero.                   *)
Recorded(m, l) ==
    ~KtKnown /\ ~l.busOff => \A s \in Sides :
        /\ m # "balancing" \/ ~l.enabled => l.sent[s] \in {None, Zero}
        /\ l.enabled => l.sent[s] \in {None, l.torque[s]}

Ctl ==
    /\ mode \in Modes /\ output \in BOOLEAN /\ manual \in BOOLEAN
    /\ manualCmd \in [Sides -> Torques]
    /\ link \in LinkStates /\ Sound(link)
    /\ ManualExcludesController /\ PowerHasOwner
    /\ Believed(link) /\ Recorded(mode, link)

Rest ==
    /\ estimate \in Estimates
    /\ imuAge \in Ages(ImuFatal) /\ irqAge \in Ages(ImuFatal)
    /\ motorAge \in Ages(MotorFatal)
    /\ linkAge \in 0..LinkTimeout + 1
    /\ armHeld \in BOOLEAN /\ reboot \in BOOLEAN

IInv == Ctl /\ Rest

LEMMA ZeroTorqueType == ZeroTorque \in [Sides -> Torques]
  BY TorqueAssumption DEF ZeroTorque

(* Every outcome of app_disarm_robot: power off, or nothing to switch off.   *)
LEMMA DisarmLink ==
    ASSUME NEW l \in LinkStates, Sound(l),
           NEW zeroed \in TorqueOutcomes(l, ZeroTorque),
           NEW r \in DisableOutcomes(zeroed)
    PROVE  /\ r.link \in LinkStates /\ Sound(r.link)
           /\ Believed(l) => Believed(r.link)
           /\ ~r.link.enabled
           /\ OnlyZeroed(l, r.link)
           /\ ~r.link.busOff => \A s \in Sides : r.link.sent[s] = None
  <1>1. /\ zeroed \in LinkStates /\ Sound(zeroed)
        /\ Believed(l) => Believed(zeroed)
        /\ \A s \in Sides : zeroed.torque[s] \in {l.torque[s], Zero}
    BY ZeroTorqueType, TorqueFacts DEF ZeroTorque
  <1>2. /\ r.link \in LinkStates /\ Sound(r.link)
        /\ Believed(zeroed) => Believed(r.link)
        /\ ~r.link.enabled
        /\ OnlyZeroed(zeroed, r.link)
        /\ ~zeroed.busOff => \A s \in Sides : r.link.sent[s] = None
        /\ r.link.busOff = zeroed.busOff
    BY <1>1, DisableFacts
  <1> QED
    BY <1>1, <1>2 DEF OnlyZeroed

(* Manual output: the link stays as sound as it was.                         *)
LEMMA ApplyLink ==
    ASSUME NEW l \in LinkStates, Sound(l), manual \in BOOLEAN,
           NEW cmd \in [Sides -> Torques], NEW m \in ManualApply(l, cmd)
    PROVE  /\ m \in LinkStates /\ Sound(m)
           /\ Believed(l) => Believed(m)
           /\ m.enabled = l.enabled /\ m.busOff = l.busOff
           /\ ~manual => m = l
  <1>1. CASE ~manual
    BY <1>1 DEF ManualApply
  <1>2. CASE manual
    <2> DEFINE wanted == IF KtKnown THEN cmd ELSE ZeroTorque
    <2>1. wanted \in [Sides -> Torques] /\ m \in TorqueOutcomes(l, wanted)
      BY <1>2, ZeroTorqueType DEF ManualApply
    <2> HIDE DEF wanted
    <2> QED
      BY <1>2, <2>1, TorqueFacts
  <1> QED
    BY <1>1, <1>2

-----------------------------------------------------------------------------
(* The handlers, one lemma each.                                             *)

(* Handlers that touch none of it.                                           *)
LEMMA SameStep ==
    ASSUME Ctl, UNCHANGED <<ctlVars, link>>
    PROVE  Ctl'
  BY DEF Ctl, ctlVars, ManualExcludesController, PowerHasOwner, Modes, Sound, Believed, Recorded

(* app_try_arm_balancing: the balancer owns the link or nobody does.         *)
LEMMA TryArmStep ==
    ASSUME Ctl, TryArm
    PROVE  Ctl'
  <1>1. CASE UNCHANGED <<ctlVars, link>>
    BY <1>1, SameStep
  <1>2. CASE /\ mode \in {"disarmed", "fallen"}
             /\ \E r \in EnableOutcomes(link) :
                    /\ mode' = IF r.ok THEN "balancing" ELSE "disarmed"
                    /\ output' = TRUE
                    /\ manual' = FALSE /\ manualCmd' = ZeroTorque
                    /\ link' = r.link
    <2>1. PICK r \in EnableOutcomes(link) :
              /\ mode' = IF r.ok THEN "balancing" ELSE "disarmed"
              /\ output' = TRUE /\ manual' = FALSE /\ manualCmd' = ZeroTorque
              /\ link' = r.link
      BY <1>2
    <2>2. /\ r.link \in LinkStates /\ r.ok \in BOOLEAN
          /\ Sound(r.link) /\ Believed(r.link)
          /\ r.link.enabled = r.ok
          /\ r.ok => \A s \in Sides : r.link.torque[s] = Zero
          /\ r.link.sent = link.sent /\ r.link.busOff = link.busOff
      BY EnableFacts DEF Ctl
    <2>3. Recorded(mode', link')
      BY <1>2, <2>1, <2>2 DEF Ctl, Recorded
    <2> QED
      BY <2>1, <2>2, <2>3, ZeroTorqueType
         DEF Ctl, Modes, ManualExcludesController, PowerHasOwner
  <1> QED
    BY <1>1, <1>2 DEF TryArm, CanArm

(* app_disarm_robot: nobody owns the link, and it is off.                    *)
LEMMA DisarmStep ==
    ASSUME Ctl, NEW l \in LinkStates, Sound(l), Believed(l), ~manual => l = link,
           DisarmFrom(l)
    PROVE  Ctl'
  <1>1. CASE mode = "disarmed" /\ ~manual
    BY <1>1, SameStep DEF DisarmFrom
  <1>2. CASE ~(mode = "disarmed" /\ ~manual)
    <2>1. PICK zeroed \in TorqueOutcomes(l, ZeroTorque) :
              \E r \in DisableOutcomes(zeroed) : link' = r.link
      BY <1>2 DEF DisarmFrom
    <2>2. PICK r \in DisableOutcomes(zeroed) : link' = r.link
      BY <2>1
    <2>3. mode' = "disarmed" /\ output' = TRUE /\ manual' = FALSE /\ manualCmd' = ZeroTorque
      BY <1>2 DEF DisarmFrom
    <2>4. /\ r.link \in LinkStates /\ Sound(r.link) /\ Believed(r.link)
          /\ ~r.link.enabled
          /\ ~r.link.busOff => \A s \in Sides : r.link.sent[s] = None
      BY <2>1, DisarmLink
    <2> QED
      BY <2>2, <2>3, <2>4, ZeroTorqueType
         DEF Ctl, Modes, ManualExcludesController, PowerHasOwner, Recorded
  <1> QED
    BY <1>1, <1>2

(* Manual output (app_motor_manual_apply), from manual_run or the idle tick. *)
LEMMA ApplyStep ==
    ASSUME Ctl, NEW cmd \in [Sides -> Torques], link' \in ManualApply(link, cmd),
           UNCHANGED <<mode, output, manual>>, manualCmd' \in [Sides -> Torques]
    PROVE  Ctl'
  <1>1. /\ link' \in LinkStates /\ Sound(link') /\ Believed(link')
        /\ link'.enabled = link.enabled /\ link'.busOff = link.busOff
        /\ ~manual => link' = link
    BY ApplyLink DEF Ctl
  <1>2. Recorded(mode', link')
    <2>1. CASE ~manual
      BY <1>1, <2>1 DEF Ctl
    <2>2. CASE manual /\ ~KtKnown
      <3>1. /\ link' \in TorqueOutcomes(link, ZeroTorque)
            /\ mode = "disarmed"
        BY <2>2 DEF ManualApply, Ctl, ManualExcludesController
      <3>2. \A s \in Sides :
                \/ link'.sent[s] = link.sent[s] /\ link'.torque[s] = link.torque[s]
                \/ link'.sent[s] = Zero /\ link'.torque[s] = Zero
        BY <3>1, TorqueFacts, ZeroTorqueType DEF Ctl, ZeroTorque
      <3> QED
        BY <1>1, <3>1, <3>2 DEF Ctl, Recorded
    <2>3. CASE KtKnown
      BY <2>3 DEF Recorded
    <2> QED
      BY <2>1, <2>2, <2>3
  <1> QED
    BY <1>1, <1>2 DEF Ctl, Modes, ManualExcludesController, PowerHasOwner

(* app_motor_manual_enable(true): manual mode owns the link, or nobody does. *)
LEMMA ManualOnStep ==
    ASSUME Ctl, ManualOn
    PROVE  Ctl'
  <1>1. PICK l \in SetModeOutcomes(link) : \E r \in EnableOutcomes(l) :
            link' = r.link /\ manual' = r.ok /\ output' = ~r.ok
    BY DEF ManualOn
  <1>2. PICK r \in EnableOutcomes(l) :
            link' = r.link /\ manual' = r.ok /\ output' = ~r.ok
    BY <1>1
  <1>3. mode' = "disarmed" /\ manualCmd' = ZeroTorque
    BY DEF ManualOn
  <1>4. /\ l \in LinkStates /\ Sound(l) /\ Believed(l)
        /\ l.busOff = link.busOff
        /\ IF link.enabled THEN \A s \in Sides : l.sent[s] = None ELSE l = link
    BY SetModeFacts DEF Ctl
  <1>5. /\ r.link \in LinkStates /\ r.ok \in BOOLEAN
        /\ Sound(r.link) /\ Believed(r.link)
        /\ r.link.enabled = r.ok
        /\ r.ok => \A s \in Sides : r.link.torque[s] = Zero
        /\ r.link.sent = l.sent /\ r.link.busOff = l.busOff
    BY <1>4, EnableFacts
  <1>6. Recorded(mode', link')
    BY <1>2, <1>4, <1>5 DEF Ctl, Recorded
  <1> QED
    BY <1>2, <1>3, <1>5, <1>6, ZeroTorqueType
       DEF Ctl, Modes, ManualExcludesController, PowerHasOwner

(* app_motor_manual_enable(false): nobody owns the link, whatever the mode.  *)
LEMMA ManualOffStep ==
    ASSUME Ctl, ManualOff
    PROVE  Ctl'
  <1>1. PICK zeroed \in TorqueOutcomes(link, ZeroTorque) :
            \E r \in DisableOutcomes(zeroed) : link' = r.link
    BY DEF ManualOff
  <1>2. PICK r \in DisableOutcomes(zeroed) : link' = r.link
    BY <1>1
  <1>3. mode' = mode /\ output' = TRUE /\ manual' = FALSE /\ manualCmd' = ZeroTorque
    BY DEF ManualOff
  <1>4. /\ r.link \in LinkStates /\ Sound(r.link) /\ Believed(r.link)
        /\ ~r.link.enabled
        /\ ~r.link.busOff => \A s \in Sides : r.link.sent[s] = None
    BY <1>1, DisarmLink DEF Ctl
  <1> QED
    BY <1>2, <1>3, <1>4, ZeroTorqueType
       DEF Ctl, Modes, ManualExcludesController, PowerHasOwner, Recorded

(* A restart: nobody owns the link.                                          *)
LEMMA RebootStep ==
    ASSUME NEW l \in LinkStates, NEW initOk \in BOOLEAN, Rebooted(Restart(l, initOk))
    PROVE  Ctl' /\ Rest'
  <1>1. Ctl'
    BY RestartFacts, ZeroTorqueType
       DEF Rebooted, Ctl, Modes, ManualExcludesController, PowerHasOwner, Recorded
  <1>2. Rest'
    <2>1. /\ estimate' = "invalid" /\ linkAge' = 0
          /\ imuAge' = Never /\ irqAge' = Never /\ motorAge' = Never
          /\ armHeld' = FALSE /\ reboot' = FALSE
      BY DEF Rebooted
    <2>2. 0 \in 0..LinkTimeout + 1
      BY AgeAssumption
    <2> QED
      BY <2>1, <2>2 DEF Rest, Estimates, Ages
  <1> QED
    BY <1>1, <1>2

(* The bus-off interrupt: nobody owns the link.                              *)
LEMMA BusOffStep ==
    ASSUME Ctl, BusOff
    PROVE  Ctl'
  BY BusOffFacts
     DEF BusOff, Ctl, ctlVars, Modes, ManualExcludesController, PowerHasOwner, Recorded

(* motion_modes_step leaves BALANCING for FALLEN or FAULT, and enters it     *)
(* never.                                                                    *)
LEMMA ModesStepFacts ==
    ASSUME mode \in Modes, NEW kill, NEW imu, NEW irq, NEW motor
    PROVE  /\ ModesStep(kill, imu, irq, motor) \in Modes
           /\ ModesStep(kill, imu, irq, motor) # mode =>
                  /\ mode \in {"balancing", "fallen"}
                  /\ ModesStep(kill, imu, irq, motor) \in {"fallen", "fault"}
  BY DEF ModesStep, Modes

(* The control tick: a change of mode takes the link from the balancer, a    *)
(* tick without one leaves the owner alone.                                  *)
LEMMA TickStep ==
    ASSUME Ctl, NEW imuOk, NEW est, NEW kill, NEW irq, NEW wheelOk,
           Tick(imuOk, est, kill, irq, wheelOk)
    PROVE  /\ Ctl'
           /\ \A s \in Sides :
                  link'.torque[s] \notin {link.torque[s], Zero} =>
                      mode' = "balancing" /\ est # "invalid"
  <1>1. PICK l \in IF mode' # mode THEN {r.link : r \in DisableOutcomes(link)} ELSE {link} :
            IF output THEN \E cmd \in Wanted(mode', est) : link' \in TorqueOutcomes(l, cmd)
                      ELSE link' = l
    BY DEF Tick
  <1>2. /\ mode' \in Modes
        /\ mode' # mode => mode \in {"balancing", "fallen"} /\ mode' \in {"fallen", "fault"}
    BY ModesStepFacts DEF Tick, Ctl
  <1>3. UNCHANGED <<output, manual, manualCmd>>
    BY DEF Tick
  <1>4. /\ l \in LinkStates /\ Sound(l) /\ Believed(l)
        /\ mode' # mode => ~l.enabled
        /\ mode' = mode => l = link
        /\ OnlyZeroed(link, l)
        /\ Recorded(mode', l)
    <2>1. CASE mode' = mode
      BY <1>1, <2>1 DEF Ctl, OnlyZeroed
    <2>2. CASE mode' # mode
      <3>1. PICK r \in DisableOutcomes(link) : l = r.link
        BY <1>1, <2>2
      <3> QED
        BY <2>2, <3>1, DisableFacts DEF Ctl, Recorded
    <2> QED
      BY <2>1, <2>2
  <1>5. CASE ~output
    <2>1. link' = l
      BY <1>1, <1>5
    <2> QED
      BY <1>2, <1>3, <1>4, <1>5, <2>1
         DEF Ctl, ManualExcludesController, PowerHasOwner, OnlyZeroed
  <1>6. CASE output
    <2>1. PICK cmd \in Wanted(mode', est) : link' \in TorqueOutcomes(l, cmd)
      BY <1>1, <1>6
    <2>2. /\ cmd \in [Sides -> Torques]
          /\ ~(mode' = "balancing" /\ est # "invalid") => cmd = ZeroTorque
      BY ZeroTorqueType DEF Wanted
    <2>3. /\ link' \in LinkStates /\ Sound(link') /\ Believed(link')
          /\ link'.enabled = l.enabled /\ link'.busOff = l.busOff
          /\ \A s \in Sides :
                 \/ link'.sent[s] = l.sent[s] /\ link'.torque[s] = l.torque[s]
                 \/ link'.sent[s] = cmd[s] /\ link'.torque[s] = cmd[s]
          /\ ~l.enabled => link' = l
      BY <1>4, <2>1, <2>2, TorqueFacts
    <2>4. mode' # "balancing" => cmd = ZeroTorque
      BY <2>2
    <2>5. Recorded(mode', link')
      BY <1>4, <2>3, <2>4 DEF Recorded, ZeroTorque
    <2>6. \A s \in Sides :
              link'.torque[s] \notin {link.torque[s], Zero} =>
                  mode' = "balancing" /\ est # "invalid"
      BY <1>4, <2>2, <2>3 DEF OnlyZeroed, ZeroTorque
    <2> QED
      BY <1>2, <1>3, <1>4, <2>3, <2>5, <2>6
         DEF Ctl, ManualExcludesController, PowerHasOwner
  <1> QED
    BY <1>5, <1>6

-----------------------------------------------------------------------------
(* The types of the rest.                                                    *)

LEMMA AgedType ==
    ASSUME NEW threshold \in Nat, NEW age \in Ages(threshold)
    PROVE  Aged(age, threshold) \in Ages(threshold) /\ 0 \in Ages(threshold)
  BY DEF Ages, Aged, Never

LEMMA OperatorRest ==
    ASSUME Rest, Operator
    PROVE  Rest'
  <1>1. linkAge' = 0 /\ UNCHANGED <<estimate, imuAge, irqAge, motorAge>>
    BY DEF Operator, LinkAlive, Teleop, Heartbeat, ArmRequest, DisarmRequest,
           RebootRequest, ManualOn, ManualOff, ManualRun
  <1>2. armHeld' \in BOOLEAN /\ reboot' \in BOOLEAN
    BY DEF Rest, Operator, Teleop, Heartbeat, ArmRequest, DisarmRequest,
           RebootRequest, ManualOn, ManualOff, ManualRun
  <1>3. 0 \in 0..LinkTimeout + 1
    BY AgeAssumption
  <1> QED
    BY <1>1, <1>2, <1>3 DEF Rest

LEMMA TickRest ==
    ASSUME Rest, NEW imuOk, NEW est \in Estimates, NEW kill, NEW irq, NEW wheelOk,
           Tick(imuOk, est, kill, irq, wheelOk)
    PROVE  Rest'
  <1>1. /\ estimate' = est
        /\ imuAge' \in {0, imuAge} /\ irqAge' \in {0, irqAge} /\ motorAge' \in {0, motorAge}
        /\ UNCHANGED <<linkAge, armHeld, reboot>>
    BY DEF Tick
  <1>2. 0 \in Ages(ImuFatal) /\ 0 \in Ages(MotorFatal)
    BY AgeAssumption DEF Ages
  <1> QED
    BY <1>1, <1>2 DEF Rest

LEMMA ElapseRest ==
    ASSUME Rest, Elapse
    PROVE  Rest'
  <1>1. /\ imuAge' \in Ages(ImuFatal) /\ irqAge' \in Ages(ImuFatal)
        /\ motorAge' \in Ages(MotorFatal)
    BY AgeAssumption, AgedType DEF Rest, Elapse
  <1>2. linkAge' \in 0..LinkTimeout + 1
    BY AgeAssumption DEF Rest, Elapse, Aged
  <1> QED
    BY <1>1, <1>2 DEF Rest, Elapse

-----------------------------------------------------------------------------
(* The invariant.                                                            *)

LEMMA InitInv ==
    ASSUME Init
    PROVE  IInv
  <1>1. PICK initOk \in BOOLEAN : Booted(LinkInit(initOk))
    BY DEF Init
  <1>2. Ctl
    BY <1>1, InitFacts, ZeroTorqueType
       DEF Booted, Ctl, Modes, ManualExcludesController, PowerHasOwner, Recorded
  <1>3. Rest
    <2>1. 0 \in 0..LinkTimeout + 1
      BY AgeAssumption
    <2> QED
      BY <1>1, <2>1 DEF Booted, Rest, Estimates, Ages
  <1> QED
    BY <1>2, <1>3 DEF IInv

LEMMA NextInv ==
    ASSUME IInv, [Next]_vars
    PROVE  IInv'
  <1>0. Ctl /\ Rest
    BY DEF IInv
  <1>1. CASE Operator
    <2>1. Rest'
      BY <1>0, <1>1, OperatorRest
    <2>2. ASSUME NEW estop \in BOOLEAN, NEW arm \in BOOLEAN, Teleop(estop, arm)
          PROVE  Ctl'
      <3>1. CASE DisarmFrom(link)
        BY <1>0, <3>1, DisarmStep DEF Ctl
      <3>2. CASE TryArm
        BY <1>0, <3>2, TryArmStep
      <3>3. CASE UNCHANGED <<ctlVars, link>>
        BY <1>0, <3>3, SameStep
      <3> QED
        BY <2>2, <3>1, <3>2, <3>3 DEF Teleop
    <2>3. ASSUME Heartbeat \/ \E bootloader \in BOOLEAN : RebootRequest(bootloader)
          PROVE  Ctl'
      BY <1>0, <2>3, SameStep DEF Heartbeat, RebootRequest
    <2>4. ASSUME ArmRequest PROVE Ctl'
      BY <1>0, <2>4, TryArmStep DEF ArmRequest
    <2>5. ASSUME DisarmRequest PROVE Ctl'
      BY <1>0, <2>5, DisarmStep DEF DisarmRequest, Ctl
    <2>6. ASSUME ManualOn \/ ManualOff PROVE Ctl'
      BY <1>0, <2>6, ManualOnStep, ManualOffStep
    <2>7. ASSUME NEW side \in Sides, NEW intensity \in Torques, ManualRun(side, intensity)
          PROVE  Ctl'
      <3>1. manualCmd' \in [Sides -> Torques]
        BY <1>0, <2>7 DEF ManualRun, Ctl
      <3> QED
        BY <1>0, <2>7, <3>1, ApplyStep DEF ManualRun
    <2> QED
      BY <1>1, <2>1, <2>2, <2>3, <2>4, <2>5, <2>6, <2>7 DEF Operator, IInv
  <1>2. CASE ControlTick
    <2>1. PICK imuOk \in BOOLEAN, kill \in BOOLEAN, est \in Estimates,
               irq \in Interrupts, wheelOk \in WheelReports :
              Tick(imuOk, est, kill, irq, wheelOk)
      BY <1>2 DEF ControlTick
    <2> QED
      BY <1>0, <2>1, TickStep, TickRest DEF IInv
  <1>3. CASE IdleTick
    <2>1. PICK l \in ManualApply(link, manualCmd) :
              IF reboot
              THEN \E initOk \in BOOLEAN : Rebooted(Restart(l, initOk))
              ELSE /\ IF linkAge > LinkTimeout THEN DisarmFrom(l)
                      ELSE link' = l /\ UNCHANGED ctlVars
                   /\ UNCHANGED <<estimate, ageVars, armHeld, reboot>>
      BY <1>3 DEF IdleTick
    <2>2. l \in LinkStates /\ Sound(l) /\ Believed(l) /\ (~manual => l = link)
      BY <1>0, ApplyLink DEF Ctl
    <2>3. CASE \E initOk \in BOOLEAN : Rebooted(Restart(l, initOk))
      BY <2>2, <2>3, RebootStep DEF IInv
    <2>4. CASE DisarmFrom(l) /\ UNCHANGED <<estimate, ageVars, armHeld, reboot>>
      BY <1>0, <2>2, <2>4, DisarmStep DEF IInv, Rest, ageVars
    <2>5. CASE link' = l /\ UNCHANGED ctlVars /\ UNCHANGED <<estimate, ageVars, armHeld, reboot>>
      <3>1. Ctl'
        <4>1. /\ manualCmd \in [Sides -> Torques] /\ manualCmd' = manualCmd
              /\ UNCHANGED <<mode, output, manual>>
          BY <1>0, <2>5 DEF Ctl, ctlVars
        <4> QED
          BY <1>0, <2>1, <2>5, <4>1, ApplyStep
      <3>2. Rest'
        BY <1>0, <2>5 DEF Rest, ageVars
      <3> QED
        BY <3>1, <3>2 DEF IInv
    <2> QED
      BY <2>1, <2>3, <2>4, <2>5
  <1>4. CASE McuReset
    BY <1>0, <1>4, RebootStep DEF McuReset, IInv, Ctl
  <1>5. CASE BusOff
    BY <1>0, <1>5, BusOffStep DEF BusOff, IInv, Rest, ageVars
  <1>6. CASE Elapse
    BY <1>0, <1>6, SameStep, ElapseRest DEF Elapse, IInv
  <1>7. CASE UNCHANGED vars
    BY <1>0, <1>7, SameStep DEF IInv, Rest, vars, ctlVars, ageVars
  <1> QED
    BY <1>1, <1>2, <1>3, <1>4, <1>5, <1>6, <1>7 DEF Next

(* The modes, owners, drives and records are as IInv says, for ever.         *)
THEOREM Invariance == Spec => []IInv
  BY InitInv, NextInv, PTL DEF Spec

(* Every variable keeps its type.                                            *)
THEOREM TypeCorrect == Spec => []TypeOK
  <1>1. IInv => TypeOK
    BY DEF IInv, Ctl, Rest, TypeOK
  <1> QED
    BY <1>1, Invariance, PTL

(* An enabled link has an owner: the balancer in BALANCING or manual mode in *)
(* DISARMED.                                                                 *)
THEOREM PowerOwned == Spec => []PowerHasOwner
  <1>1. IInv => PowerHasOwner
    BY DEF IInv, Ctl
  <1> QED
    BY <1>1, Invariance, PTL

(* It never has both: while manual mode is on the robot is disarmed and the  *)
(* controller is silent.                                                     *)
THEOREM OneOwner == Spec => []ManualExcludesController
  <1>1. IInv => ManualExcludesController
    BY DEF IInv, Ctl
  <1> QED
    BY <1>1, Invariance, PTL

(* What the firmware believes about the drives' power is so, or it was told  *)
(* that it is not.                                                           *)
THEOREM BeliefIsTrue == Spec => []BeliefMatchesDrives
  <1>1. IInv => BeliefMatchesDrives
    BY DEF IInv, Ctl, Believed, BeliefMatchesDrives
  <1> QED
    BY <1>1, Invariance, PTL

(* Without a torque constant no torque command is suppressed that the drive  *)
(* does not hold already.                                                    *)
THEOREM RecordIsTrue == Spec => []SentRecordTruthful
  <1>1. IInv => SentRecordTruthful
    BY DEF IInv, Ctl, Recorded, Sound, CanSend, SentRecordTruthful
  <1> QED
    BY <1>1, Invariance, PTL

-----------------------------------------------------------------------------
(* What a step may never do.                                                 *)

(* app_disarm_robot gives no drive a torque.                                 *)
LEMMA DisarmZeroes ==
    ASSUME NEW l \in LinkStates, Sound(l), DisarmFrom(l)
    PROVE  OnlyZeroed(l, link')
  <1>1. CASE link' = l
    BY <1>1 DEF OnlyZeroed
  <1>2. CASE link' # l
    <2>1. PICK zeroed \in TorqueOutcomes(l, ZeroTorque) :
              \E r \in DisableOutcomes(zeroed) : link' = r.link
      BY <1>2 DEF DisarmFrom
    <2> QED
      BY <2>1, DisarmLink
  <1> QED
    BY <1>1, <1>2

(* Arming gives no drive a torque.                                           *)
LEMMA TryArmZeroes ==
    ASSUME Ctl, TryArm
    PROVE  OnlyZeroed(link, link')
  <1>1. CASE link' = link
    BY <1>1 DEF OnlyZeroed
  <1>2. CASE link' # link
    <2>1. PICK r \in EnableOutcomes(link) : link' = r.link
      BY <1>2 DEF TryArm
    <2> QED
      BY <2>1, EnableFacts DEF Ctl
  <1> QED
    BY <1>1, <1>2

(* app_motor_manual_apply gives a drive a torque in manual mode with a       *)
(* torque constant only.                                                     *)
LEMMA ApplyZeroes ==
    ASSUME NEW l \in LinkStates, Sound(l), NEW cmd \in [Sides -> Torques],
           NEW m \in ManualApply(l, cmd), ~(manual /\ KtKnown)
    PROVE  OnlyZeroed(l, m)
  <1>1. CASE ~manual
    BY <1>1 DEF ManualApply, OnlyZeroed
  <1>2. CASE manual
    <2>1. m \in TorqueOutcomes(l, ZeroTorque)
      BY <1>2 DEF ManualApply
    <2> QED
      BY <2>1, TorqueFacts, ZeroTorqueType DEF OnlyZeroed, ZeroTorque
  <1> QED
    BY <1>1, <1>2

LEMMA NextAuthority ==
    ASSUME IInv, Next
    PROVE  \A s \in Sides :
               link'.torque[s] \notin {link.torque[s], Zero} =>
                   \/ mode' = "balancing" /\ estimate' # "invalid"
                   \/ manual /\ KtKnown
  <1>0. Ctl
    BY DEF IInv
  <1>1. CASE Operator
    <2>1. CASE UNCHANGED link
      BY <2>1
    <2>2. CASE DisarmFrom(link)
      BY <1>0, <2>2, DisarmZeroes DEF Ctl, OnlyZeroed
    <2>3. CASE TryArm
      BY <1>0, <2>3, TryArmZeroes DEF OnlyZeroed
    <2>4. CASE ManualOn
      <3>1. PICK l \in SetModeOutcomes(link) : \E r \in EnableOutcomes(l) : link' = r.link
        BY <2>4 DEF ManualOn
      <3>2. PICK r \in EnableOutcomes(l) : link' = r.link
        BY <3>1
      <3>3. l \in LinkStates /\ Sound(l) /\ OnlyZeroed(link, l)
        BY <1>0, SetModeFacts DEF Ctl
      <3>4. OnlyZeroed(l, link')
        BY <3>2, <3>3, EnableFacts
      <3> QED
        BY <3>3, <3>4 DEF OnlyZeroed
    <2>5. CASE ManualOff
      <3>1. PICK zeroed \in TorqueOutcomes(link, ZeroTorque) :
                \E r \in DisableOutcomes(zeroed) : link' = r.link
        BY <2>5 DEF ManualOff
      <3> QED
        BY <1>0, <3>1, DisarmLink DEF Ctl, OnlyZeroed
    <2>6. ASSUME NEW side \in Sides, NEW intensity \in Torques, ManualRun(side, intensity),
                 ~(manual /\ KtKnown)
          PROVE  OnlyZeroed(link, link')
      <3>1. manualCmd' \in [Sides -> Torques] /\ manual' = manual
        BY <1>0, <2>6 DEF ManualRun, Ctl
      <3> QED
        BY <1>0, <2>6, <3>1, ApplyZeroes DEF ManualRun, Ctl
    <2> QED
      BY <1>1, <2>1, <2>2, <2>3, <2>4, <2>5, <2>6
         DEF Operator, Teleop, Heartbeat, ArmRequest, DisarmRequest, RebootRequest, OnlyZeroed
  <1>2. CASE ControlTick
    <2>1. PICK imuOk \in BOOLEAN, kill \in BOOLEAN, est \in Estimates,
               irq \in Interrupts, wheelOk \in WheelReports :
              Tick(imuOk, est, kill, irq, wheelOk)
      BY <1>2 DEF ControlTick
    <2>2. estimate' = est
      BY <2>1 DEF Tick
    <2> QED
      BY <1>0, <2>1, <2>2, TickStep
  <1>3. CASE IdleTick
    <2>1. PICK l \in ManualApply(link, manualCmd) :
              IF reboot
              THEN \E initOk \in BOOLEAN : Rebooted(Restart(l, initOk))
              ELSE IF linkAge > LinkTimeout THEN DisarmFrom(l)
                   ELSE link' = l /\ UNCHANGED ctlVars
      BY <1>3 DEF IdleTick
    <2>2. /\ l \in LinkStates /\ Sound(l)
          /\ ~manual => l = link
      BY <1>0, ApplyLink DEF Ctl
    <2>3. ~(manual /\ KtKnown) => OnlyZeroed(link, l)
      BY <1>0, <2>1, ApplyZeroes DEF Ctl
    <2>4. OnlyZeroed(l, link')
      <3>1. CASE \E initOk \in BOOLEAN : Rebooted(Restart(l, initOk))
        BY <2>2, <3>1, RestartFacts DEF Rebooted, OnlyZeroed
      <3>2. CASE DisarmFrom(l)
        BY <2>2, <3>2, DisarmZeroes
      <3>3. CASE link' = l
        BY <3>3 DEF OnlyZeroed
      <3> QED
        BY <2>1, <3>1, <3>2, <3>3
    <2> QED
      BY <2>3, <2>4 DEF OnlyZeroed
  <1>4. CASE McuReset
    BY <1>0, <1>4, RestartFacts DEF McuReset, Rebooted, Ctl
  <1>5. CASE BusOff
    BY <1>0, <1>5, BusOffFacts DEF BusOff, Ctl
  <1>6. CASE Elapse
    BY <1>6 DEF Elapse
  <1> QED
    BY <1>1, <1>2, <1>3, <1>4, <1>5, <1>6 DEF Next

(* Only app_try_arm_balancing enters BALANCING.                              *)
LEMMA NextArm ==
    ASSUME IInv, Next, mode # "balancing", mode' = "balancing"
    PROVE  /\ mode \in {"disarmed", "fallen"}
           /\ estimate = "upright"
           /\ link'.enabled /\ ~manual'
           /\ \A s \in Sides : link'.axis[s] = "closed" /\ link'.torque[s] = Zero
  <1>0. Ctl
    BY DEF IInv
  <1>1. CASE TryArm
    <2>1. /\ mode \in {"disarmed", "fallen"} /\ estimate = "upright"
          /\ manual' = FALSE
          /\ \E r \in EnableOutcomes(link) : r.ok /\ link' = r.link
      BY <1>1 DEF TryArm, CanArm, ctlVars
    <2>2. PICK r \in EnableOutcomes(link) : r.ok /\ link' = r.link
      BY <2>1
    <2>3. r.link.enabled /\ \A s \in Sides : r.link.axis[s] = "closed" /\ r.link.torque[s] = Zero
      BY <1>0, <2>2, EnableFacts DEF Ctl
    <2> QED
      BY <2>1, <2>2, <2>3
  <1>2. CASE Operator /\ ~TryArm
    BY <1>2 DEF Operator, Teleop, Heartbeat, ArmRequest, DisarmRequest, DisarmFrom,
                RebootRequest, ManualOn, ManualOff, ManualRun, ctlVars
  <1>3. CASE ControlTick
    BY <1>0, <1>3, ModesStepFacts DEF ControlTick, Tick, Ctl
  <1>4. CASE IdleTick \/ McuReset
    BY <1>4 DEF IdleTick, McuReset, Rebooted, DisarmFrom, ctlVars
  <1>5. CASE BusOff \/ Elapse
    BY <1>5 DEF BusOff, Elapse, ctlVars
  <1> QED
    BY <1>1, <1>2, <1>3, <1>4, <1>5 DEF Next

(* Balancing starts at rest, upright, both drives in closed loop.            *)
THEOREM ArmsFromRest == Spec => ArmFromRest
  <1>1. ASSUME IInv, [Next]_vars
        PROVE  [mode # "balancing" /\ mode' = "balancing" =>
                    /\ mode \in {"disarmed", "fallen"}
                    /\ estimate = "upright"
                    /\ link'.enabled /\ ~manual'
                    /\ \A s \in Sides : link'.axis[s] = "closed" /\ link'.torque[s] = Zero]_vars
    BY <1>1, NextArm
  <1> QED
    BY <1>1, Invariance, PTL DEF Spec, ArmFromRest

(* No drive takes a torque from anybody but a balancing tick or, with a      *)
(* torque constant, manual mode.                                             *)
THEOREM AuthorisedTorque == Spec => TorqueNeedsAuthority
  <1>1. ASSUME IInv, [Next]_vars
        PROVE  [\A s \in Sides :
                    link'.torque[s] \notin {link.torque[s], Zero} =>
                        \/ mode' = "balancing" /\ estimate' # "invalid"
                        \/ manual /\ KtKnown]_vars
    BY <1>1, NextAuthority
  <1> QED
    BY <1>1, Invariance, PTL DEF Spec, TorqueNeedsAuthority
=============================================================================
