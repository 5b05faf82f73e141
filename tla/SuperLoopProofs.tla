--------------------------- MODULE SuperLoopProofs ---------------------------
(***************************************************************************)
(* Proofs for SuperLoop: whatever the maxima of the pieces of a round, the  *)
(* control rates at which a late round still leaves the idle budget         *)
(* (Feasible) are enough for the deadlines of the loop.                     *)
(***************************************************************************)
EXTENDS SuperLoop, TLAPS

\* Time since the last release, or since the start or the change of rate.
Since == period - next

\* A round that ran the control tick is over by then.
RoundMax == Latency + ControlMax + LinkMax

\* Where the loop may be how long after a release.
Timed ==
    /\ pending \/ pc = "control" => started
    /\ pc \in {"top", "decide"} => left = 0
    /\ pc = "top" /\ pending => Since <= Latency
    /\ pc = "control" => ~pending /\ Since + left <= Latency + ControlMax
    /\ pc = "poll" => left <= LinkMax
    /\ pc \in {"poll", "decide"} /\ pending => Since + left <= LinkMax
    /\ pc = "idle" => IF pending THEN Since + left <= IdleMax - Budget
                                 ELSE left - next <= IdleMax - Budget

\* An age that every idle tick and nothing else restarts, or that is less:
\* no release came since, or one did and the loop is on its way to the next
\* idle tick.
Restarted(age) ==
    /\ ~pending /\ pc \in {"top", "idle"} => age <= Since
    /\ pending \/ pc = "control" => age <= period + Since
    /\ ~pending /\ pc \in {"poll", "decide"} =>
          \/ age <= Since
          \/ started /\ age <= period + Since /\ Since + left <= RoundMax

IInv ==
    /\ TypeOK /\ Timed
    /\ armed => Restarted(silence - Timeout)
    /\ Restarted(unfed)

\* What is used of the constants.
LEMMA LatencyFacts ==
    /\ Latency \in Int /\ LinkMax <= Latency /\ IdleMax - Budget <= Latency
    /\ LinkMax \in Nat /\ ControlMax \in Nat /\ IdleMax \in Nat
    /\ Budget \in Nat /\ Budget >= 1 /\ Timeout \in Nat /\ AgeCap \in Nat
    /\ Periods \subseteq Nat \ {0}
  BY TimeAssumption DEF Latency, Larger

\* The longest piece of a round.
Longest == Larger(ControlMax, Larger(LinkMax, IdleMax))

LEMMA LongestFacts ==
    Longest \in Nat /\ ControlMax <= Longest /\ LinkMax <= Longest /\ IdleMax <= Longest
  BY LatencyFacts DEF Longest, Larger

LEMMA RoundFits ==
    ASSUME Feasible, NEW p \in Periods
    PROVE  RoundMax + Budget <= p
  BY DEF Feasible, RoundMax

LEMMA Types ==
    ASSUME TypeOK
    PROVE  /\ left \in Nat /\ period \in Periods /\ period \in Nat \ {0}
           /\ next \in Nat /\ 1 <= next /\ next <= period
           /\ Since \in Nat /\ Since + next = period
           /\ silence \in Nat /\ unfed \in Nat
  BY LatencyFacts, LongestFacts DEF TypeOK, Since, Longest

LEMMA OlderFacts ==
    ASSUME NEW age \in Nat
    PROVE  Older(age) \in Nat /\ Older(age) <= age + 1
  BY LatencyFacts DEF Older

LEMMA InitInv ==
    ASSUME Init
    PROVE  IInv
  <1>1. TypeOK
    <2>1. left \in 0..Longest /\ period \in Periods /\ next \in 1..period
      BY LatencyFacts, LongestFacts DEF Init
    <2> QED
      BY <2>1 DEF Init, TypeOK, Longest
  <1>2. Since = 0
    BY <1>1, Types DEF Init, Since
  <1> QED
    BY <1>1, <1>2, Types, LatencyFacts DEF Init, IInv, Timed, Restarted

\* Time goes by only in a piece of the round, and a release finds the last one
\* taken and the control tick over.
LEMMA ReleaseFound ==
    ASSUME Feasible, TypeOK, Timed, left > 0, next = 1
    PROVE  /\ ~pending /\ pc \in {"poll", "idle"}
           /\ Since + 1 = period
           /\ ~ (Since + left <= RoundMax)
  <1>1. /\ Since + 1 = period /\ left >= 1 /\ left \in Nat /\ Since \in Nat
        /\ period \in Nat /\ RoundMax + Budget <= period
    BY Types, RoundFits
  <1>2. /\ RoundMax \in Int /\ LinkMax < period /\ IdleMax - Budget < period
        /\ Latency + ControlMax < period /\ RoundMax < period
    BY <1>1, LatencyFacts DEF RoundMax
  <1>3. ~ (Since + left <= RoundMax) /\ ~ (Since + left <= LinkMax)
        /\ ~ (Since + left <= Latency + ControlMax) /\ ~ (Since + left <= IdleMax - Budget)
    BY <1>1, <1>2, LatencyFacts
  <1>4. pc \in {"top", "control", "poll", "decide", "idle"}
    BY DEF TypeOK
  <1> QED
    BY <1>1, <1>3, <1>4 DEF Timed

LEMMA ElapseTypes ==
    ASSUME TypeOK, Elapse
    PROVE  TypeOK'
  <1>1. next' \in 1..period
    BY Types DEF Elapse, Release
  <1>4. started' \in BOOLEAN /\ pending' \in BOOLEAN
    BY DEF Elapse, Release, TypeOK
  <1>2. silence' \in Nat /\ unfed' \in Nat
    BY Types, OlderFacts DEF Elapse
  <1>3. left' \in 0..Larger(ControlMax, Larger(LinkMax, IdleMax))
    BY Types, LongestFacts DEF Elapse, TypeOK, Longest
  <1> QED
    BY <1>1, <1>2, <1>3, <1>4 DEF Elapse, TypeOK

LEMMA ElapseInv ==
    ASSUME Feasible, IInv, Elapse
    PROVE  IInv'
  <1> USE DEF IInv
  <1>1. /\ left > 0 /\ left' = left - 1 /\ pc' = pc /\ period' = period
        /\ armed' = armed /\ left \in Nat
        /\ silence' \in Int /\ silence' <= silence + 1
        /\ unfed' \in Int /\ unfed' <= unfed + 1
    BY Types, OlderFacts DEF Elapse
  <1>2. TypeOK'
    BY ElapseTypes
  <1>3. CASE next = 1
    <2>1. /\ ~pending /\ pc \in {"poll", "idle"} /\ Since + 1 = period
          /\ ~ (Since + left <= RoundMax)
      BY <1>1, <1>3, ReleaseFound
    <2>2. next' = period /\ started' = TRUE /\ pending' = TRUE /\ Since' = 0
      BY <1>1, <1>2, <1>3, Types DEF Elapse, Release, Since
    <2>3. Timed'
      BY <1>1, <1>3, <2>1, <2>2, Types, LatencyFacts DEF Timed
    <2>4. ASSUME NEW age \in Int, NEW later \in Int, later <= age + 1, Restarted(age)
          PROVE  later <= period' + Since'
      BY <1>1, <2>1, <2>2, <2>4, Types DEF Restarted
    <2>5. armed => silence' - Timeout <= period' + Since'
      BY <1>1, <2>4, Types, LatencyFacts
    <2>6. unfed' <= period' + Since'
      BY <1>1, <2>4, Types
    <2> QED
      BY <1>1, <1>2, <2>2, <2>3, <2>5, <2>6 DEF Restarted
  <1>4. CASE next # 1
    <2>1. /\ next' = next - 1 /\ UNCHANGED <<started, pending>> /\ Since' = Since + 1
          /\ Since' + left' = Since + left
      BY <1>1, <1>4, Types DEF Elapse, Release, Since
    <2>2. Timed'
      BY <1>1, <2>1, Types, LatencyFacts DEF Timed
    <2>3. /\ pc' = pc /\ pending' = pending /\ period' = period /\ started' = started
          /\ RoundMax' = RoundMax
      BY <1>1, <2>1 DEF RoundMax, Latency
    <2>4. armed => Restarted(silence - Timeout)'
      BY <1>1, <2>1, <2>3, Types, LatencyFacts DEF Restarted
    <2>5. Restarted(unfed)'
      BY <1>1, <2>1, <2>3, Types, LatencyFacts DEF Restarted
    <2> QED
      BY <1>1, <1>2, <2>2, <2>4, <2>5
  <1> QED
    BY <1>3, <1>4

LEMMA StartControlInv ==
    ASSUME IInv, StartControl
    PROVE  IInv'
  <1> USE DEF IInv
  <1>1. TypeOK'
    <2>1. left' \in 0..Longest
      BY LatencyFacts, LongestFacts DEF StartControl
    <2>2. armed' \in BOOLEAN /\ pending' \in BOOLEAN
      BY DEF StartControl, TypeOK
    <2> QED
      BY <2>1, <2>2 DEF StartControl, TypeOK, Longest
  <1>2. Since' = Since
    BY DEF StartControl, Since
  <1>3. Timed'
    BY <1>2, Types, LatencyFacts DEF StartControl, Timed
  <1>4. armed' => armed
    BY DEF StartControl
  <1>5. /\ pc = "top" /\ pending /\ pc' = "control"
        /\ UNCHANGED <<period, started, silence, unfed>>
    BY DEF StartControl
  <1>6. ~pending'
    BY DEF StartControl
  <1>7. armed' => Restarted(silence - Timeout)'
    BY <1>2, <1>4, <1>5, <1>6 DEF Restarted
  <1>8. Restarted(unfed)'
    BY <1>2, <1>5, <1>6 DEF Restarted
  <1> QED
    BY <1>1, <1>3, <1>7, <1>8

LEMMA StartPollInv ==
    ASSUME IInv, StartPoll
    PROVE  IInv'
  <1> USE DEF IInv
  <1>1. TypeOK'
    BY LatencyFacts, LongestFacts DEF StartPoll, TypeOK, timerVars, Longest
  <1>2. Since' = Since /\ RoundMax' = RoundMax
    BY DEF StartPoll, Since, timerVars, RoundMax, Latency
  <1>3. ~pending /\ pc \in {"top", "control"} /\ left = 0
    BY DEF StartPoll, Timed
  <1>4. Timed'
    BY <1>2, <1>3, Types, LatencyFacts DEF StartPoll, Timed, timerVars
  <1>5. pc = "control" => started /\ Since' + left' <= RoundMax
    BY <1>2, <1>3, Types, LatencyFacts DEF StartPoll, Timed, RoundMax
  <1>6. ASSUME NEW age \in Int, Restarted(age)
        PROVE  \/ age <= Since'
               \/ started' /\ age <= period' + Since' /\ Since' + left' <= RoundMax'
    BY <1>2, <1>3, <1>5, <1>6 DEF StartPoll, Restarted, timerVars
  <1>7. armed => Restarted(silence - Timeout)'
    BY <1>3, <1>6, Types, LatencyFacts DEF StartPoll, Restarted, timerVars
  <1>8. Restarted(unfed)'
    BY <1>3, <1>6, Types, LatencyFacts DEF StartPoll, Restarted, timerVars
  <1> QED
    BY <1>1, <1>4, <1>7, <1>8 DEF StartPoll

LEMMA EndPollInv ==
    ASSUME IInv, Quiet \/ Frame
    PROVE  IInv'
  <1> USE DEF IInv
  <1>1. TypeOK'
    BY LatencyFacts DEF Quiet, Frame, EndPoll, TypeOK, timerVars
  <1>2. /\ Since' = Since /\ RoundMax' = RoundMax /\ pc = "poll" /\ pc' = "decide"
        /\ left = 0 /\ left' = 0 /\ UNCHANGED <<period, started, pending, unfed>>
    BY DEF Quiet, Frame, EndPoll, Since, timerVars, RoundMax, Latency
  <1>3. Timed'
    BY <1>2 DEF Timed
  <1>4. Restarted(unfed)'
    BY <1>2 DEF Restarted
  <1>5. armed' => Restarted(silence - Timeout)'
    <2>1. CASE Quiet
      BY <1>2, <2>1 DEF Quiet, Restarted
    <2>2. CASE Frame
      <3>1. silence' - Timeout <= Since' /\ Since' <= period' + Since'
        BY <1>2, <2>2, Types, LatencyFacts DEF Frame
      <3>2. silence' - Timeout <= period' + Since'
        BY <1>2, <3>1, <2>2, Types, LatencyFacts DEF Frame
      <3> QED
        BY <1>2, <3>1, <3>2 DEF Restarted
    <2> QED
      BY <2>1, <2>2
  <1> QED
    BY <1>1, <1>3, <1>4, <1>5

LEMMA SetRateInv ==
    ASSUME IInv, NEW p \in Periods, SetRate(p)
    PROVE  IInv'
  <1>1. TypeOK'
    BY LatencyFacts, LongestFacts DEF IInv, SetRate, EndPoll, TypeOK, Longest
  <1>2. Since' = 0 /\ pc' = "decide" /\ left' = 0 /\ pending' /\ started' /\ ~armed' /\ unfed' = 0
    BY <1>1, Types, LatencyFacts DEF SetRate, EndPoll, Since
  <1>3. p \in Nat /\ period' = p /\ Since' = 0 /\ unfed' = 0
    BY <1>2, LatencyFacts DEF SetRate
  <1>4. Timed'
    BY <1>2, LatencyFacts DEF Timed
  <1>5. unfed' <= period' + Since'
    BY <1>3
  <1>6. Restarted(unfed)'
    BY <1>2, <1>5 DEF Restarted
  <1> QED
    BY <1>1, <1>2, <1>4, <1>6 DEF IInv

LEMMA StartIdleInv ==
    ASSUME IInv, StartIdle
    PROVE  IInv'
  <1> USE DEF IInv
  <1>1. TypeOK'
    BY LatencyFacts, LongestFacts DEF StartIdle, TypeOK, timerVars, Longest
  <1>2. /\ Since' = Since /\ pc' = "idle" /\ ~pending' /\ UNCHANGED <<period, next, started>>
        /\ unfed' = 0 /\ silence' = silence
    BY DEF StartIdle, EnoughLeft, Since, timerVars
  <1>3. next >= Budget /\ left' <= IdleMax /\ left' \in Nat
    BY LatencyFacts, Types DEF StartIdle, EnoughLeft, TimeToDeadline
  <1>4. Timed'
    BY <1>2, <1>3, Types, LatencyFacts DEF Timed
  <1>5. armed' => silence' - Timeout <= Since'
    <2>1. armed' => silence <= Timeout
      BY DEF StartIdle
    <2> QED
      BY <1>2, <2>1, Types, LatencyFacts
  <1> QED
    BY <1>1, <1>2, <1>4, <1>5, Types DEF Restarted

\* After a round with a control tick the idle tick does start.
LEMMA AgainInv ==
    ASSUME Feasible, IInv, Again
    PROVE  IInv'
  <1> USE DEF IInv
  <1>1. TypeOK'
    BY LatencyFacts, LongestFacts DEF Again, TypeOK, timerVars, Longest
  <1>2. /\ Since' = Since /\ pc' = "top" /\ left = 0 /\ left' = 0
        /\ UNCHANGED <<period, next, started, pending, armed, silence, unfed>>
    BY DEF Again, Since, timerVars, Timed
  <1>3. pending => Since <= Latency
    BY <1>2, Types, LatencyFacts DEF Again, Timed
  <1>4. Timed'
    BY <1>2, <1>3 DEF Timed, Latency
  <1>5. pc = "decide" /\ ~pending => ~ (started /\ Since + left <= RoundMax)
    BY <1>2, Types, RoundFits, LatencyFacts DEF Again, EnoughLeft, TimeToDeadline, RoundMax
  <1>6. pc \in {"decide", "idle"}
    BY DEF Again
  <1>7. ASSUME NEW age \in Int, Restarted(age)
        PROVE  (~pending => age <= Since) /\ (pending => age <= period + Since)
    BY <1>5, <1>6, <1>7 DEF Restarted
  <1>8. armed => Restarted(silence - Timeout)'
    BY <1>2, <1>7, Types, LatencyFacts DEF Restarted
  <1>9. Restarted(unfed)'
    BY <1>2, <1>7, Types DEF Restarted
  <1> QED
    BY <1>1, <1>2, <1>4, <1>8, <1>9

LEMMA NextInv ==
    ASSUME Feasible, IInv, [Next]_vars
    PROVE  IInv'
  <1>1. CASE Elapse
    BY <1>1, ElapseInv
  <1>2. CASE StartControl
    BY <1>2, StartControlInv
  <1>3. CASE StartPoll
    BY <1>3, StartPollInv
  <1>4. CASE Quiet \/ Frame
    BY <1>4, EndPollInv
  <1>5. CASE \E p \in Periods : SetRate(p)
    BY <1>5, SetRateInv
  <1>6. CASE StartIdle
    BY <1>6, StartIdleInv
  <1>7. CASE Again
    BY <1>7, AgainInv
  <1>8. CASE UNCHANGED vars
    BY <1>8 DEF vars, timerVars, IInv, TypeOK, Timed, Restarted, Since, RoundMax, Latency
  <1> QED
    BY <1>1, <1>2, <1>3, <1>4, <1>5, <1>6, <1>7, <1>8 DEF Next

(* At control rates that leave room for the idle tick, the loop stays where  *)
(* its deadlines can be kept, however long its pieces take.                  *)
THEOREM Invariance == Feasible /\ Spec => []IInv
  <1>1. Feasible /\ Init => IInv
    BY InitInv
  <1>2. Feasible /\ IInv /\ [Next]_vars => IInv'
    BY NextInv
  <1>3. Feasible => Feasible'
    BY DEF Feasible, Latency
  <1> QED
    BY <1>1, <1>2, <1>3, PTL DEF Spec

\* How late the idle tick may be.
LEMMA RestartedBound ==
    ASSUME TypeOK, Timed, NEW age \in Int, Restarted(age)
    PROVE  age <= Gap(period)
  <1>1. pc \in {"top", "control", "poll", "decide", "idle"}
    BY DEF TypeOK
  <1>2. pending => Since <= RoundMax
    BY <1>1, Types, LatencyFacts DEF Timed, RoundMax
  <1>3. pc = "control" => Since <= RoundMax
    BY Types, LatencyFacts DEF Timed, RoundMax
  <1>4. age <= Since \/ age <= period + RoundMax
    BY <1>1, <1>2, <1>3, Types, LatencyFacts DEF Restarted, RoundMax
  <1> QED
    BY <1>4, Types, LatencyFacts DEF Gap, RoundMax

(* The control tick starts at most Latency after its release, at every       *)
(* feasible rate (control_timer_begin_cycle, app_main's loop).               *)
THEOREM ControlStarts == Feasible /\ Spec => []ControlInTime
  <1>1. IInv => ControlInTime
    BY Types, LatencyFacts DEF IInv, Timed, TypeOK, ControlInTime, Since
  <1> QED
    BY <1>1, Invariance, PTL

(* A link that has been silent for the timeout is noticed before another     *)
(* period and round are over, at every feasible rate (app_idle_tick).        *)
THEOREM LinkLossNoticed == Feasible /\ Spec => []LinkLossInTime
  <1>1. IInv => LinkLossInTime
    <2> SUFFICES ASSUME IInv, armed
                 PROVE  silence <= Timeout + Gap(period)
      BY DEF LinkLossInTime
    <2>1. silence - Timeout <= Gap(period)
      BY Types, RestartedBound, LatencyFacts DEF IInv
    <2> QED
      BY <2>1, Types, LatencyFacts DEF IInv, Gap
  <1> QED
    BY <1>1, Invariance, PTL

(* A watchdog that allows for a period and a round is fed in time while the  *)
(* rate is left alone (debug_wdog_refresh).                                  *)
THEOREM WatchdogIsFed ==
    ASSUME \A p \in Periods : Gap(p) <= WatchdogMax
    PROVE  Feasible /\ Spec => []WatchdogFed
  <1>1. IInv => WatchdogFed
    BY Types, RestartedBound, LatencyFacts, TimeAssumption DEF IInv, WatchdogFed, Gap
  <1> QED
    BY <1>1, Invariance, PTL
=============================================================================
