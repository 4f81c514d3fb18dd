------------------------- MODULE MotorCtrlProofs -------------------------
(***************************************************************************)
(* Proofs about MotorCtrl, for every duty cycle range, every mailbox size  *)
(* and every watchdog limit.                                               *)
(***************************************************************************)
EXTENDS MotorCtrl, SequenceTheorems, TLAPS

\* What the sequence operators do to a mailbox.
LEMMA MailFacts ==
  ASSUME NEW q \in Seq({"slow", "fast"})
  PROVE  /\ Len(q) \in Nat
         /\ \A n \in 1 .. Len(q) : q[n] \in {"slow", "fast"}
         /\ q # <<>> => /\ Len(q) > 0
                        /\ Head(q) = q[1]
                        /\ Tail(q) \in Seq({"slow", "fast"})
                        /\ Len(Tail(q)) = Len(q) - 1
                        /\ Tail(q) = <<>> <=> Len(q) = 1
                        /\ Tail(q) # <<>> => Tail(q)[Len(Tail(q))] = q[Len(q)]
         /\ \A e \in {"slow", "fast"} :
              /\ Append(q, e) \in Seq({"slow", "fast"})
              /\ Append(q, e) # <<>>
              /\ Len(Append(q, e)) = Len(q) + 1
              /\ Append(q, e)[Len(Append(q, e))] = e
<1>1. Len(q) \in Nat /\ \A n \in 1 .. Len(q) : q[n] \in {"slow", "fast"}
  BY ElementOfSeq
<1>2. ASSUME q # <<>>
      PROVE  /\ Len(q) > 0
             /\ Head(q) = q[1]
             /\ Tail(q) \in Seq({"slow", "fast"})
             /\ Len(Tail(q)) = Len(q) - 1
             /\ Tail(q) = <<>> <=> Len(q) = 1
             /\ Tail(q) # <<>> => Tail(q)[Len(Tail(q))] = q[Len(q)]
  <2>1. Len(q) > 0 /\ Head(q) = q[1]
    BY <1>2, <1>1, EmptySeq, SMT
  <2>2. /\ Tail(q) \in Seq({"slow", "fast"}) /\ Len(Tail(q)) = Len(q) - 1
        /\ \A i \in 1 .. Len(Tail(q)) : Tail(q)[i] = q[i + 1]
    BY <1>2, HeadTailProperties
  <2>3. Tail(q) = <<>> <=> Len(q) = 1
    BY <2>1, <2>2, <1>1, EmptySeq
  <2>4. Tail(q) # <<>> => Tail(q)[Len(Tail(q))] = q[Len(q)]
    BY <2>1, <2>2, <2>3, <1>1
  <2>5. QED BY <2>1, <2>2, <2>3, <2>4
<1>3. ASSUME NEW e \in {"slow", "fast"}
      PROVE  /\ Append(q, e) \in Seq({"slow", "fast"})
             /\ Append(q, e) # <<>>
             /\ Len(Append(q, e)) = Len(q) + 1
             /\ Append(q, e)[Len(Append(q, e))] = e
  BY AppendProperties
<1>4. QED BY <1>1, <1>2, <1>3

\* Every variable keeps its type, the duty cycle among them: the ramp never
\* decrements CCR_Va0 below zero (motor_x.c:9-14), the mailbox never overflows.
THEOREM MotorTypes == Spec => []TypeOK
<1>1. Init => TypeOK
  <2> SUFFICES ASSUME Init PROVE TypeOK
    OBVIOUS
  <2>1. brake \in BOOLEAN /\ patient \in BOOLEAN
    BY Zenon DEF Init
  <2>2. mb \in Seq({"slow", "fast"}) /\ Len(mb) <= MAILS
    BY MotorAssumption DEF Init
  <2>3. QED BY <2>1, <2>2, MotorAssumption DEF Init, TypeOK, Duty
<1>2. TypeOK /\ [Next]_vars => TypeOK'
  <2> SUFFICES ASSUME TypeOK, [Next]_vars PROVE TypeOK'
    OBVIOUS
  <2> USE DEF TypeOK, Duty, motorVars, canVars, shared
  <2>1. CASE Wake
    BY <2>1 DEF Wake
  <2>2. CASE RecvSlow
    <3>1. mb' \in Seq({"slow", "fast"}) /\ Len(mb') <= MAILS
      BY <2>2, MailFacts, MotorAssumption DEF RecvSlow
    <3>2. QED BY <2>2, <3>1 DEF RecvSlow
  <2>3. CASE StopFast
    <3>1. brake' \in BOOLEAN
      BY <2>3, Zenon DEF StopFast
    <3>2. QED BY <2>3, <3>1, MailFacts, MotorAssumption DEF StopFast
  <2>4. CASE Ramp
    BY <2>4, MotorAssumption DEF Ramp
  <2>5. CASE RampEnd
    <3>1. brake' \in BOOLEAN
      BY <2>5, Zenon DEF RampEnd
    <3>2. QED BY <2>5, <3>1 DEF RampEnd
  <2>6. CASE HandlerStep
    <3>1. CASE SetPins
      <4>1. brake' \in BOOLEAN
        BY <3>1, Zenon DEF SetPins
      <4>2. QED BY <3>1, <4>1 DEF SetPins
    <3>2. CASE SendMail
      BY <3>2, MailFacts, MotorAssumption DEF SendMail
    <3>3. CASE SetControl \/ SetDuty \/ Output \/ SetState
      BY <3>3 DEF SetControl, SetDuty, Output, SetState
    <3>4. QED BY <2>6, <3>1, <3>2, <3>3 DEF HandlerStep
  <2>7. CASE FrameStep
    <3>1. patient' \in BOOLEAN
      BY <2>7, Zenon DEF FrameStep, RecvDrive, RecvStop
    <3>2. ASSUME NEW d \in 1 .. 2, NEW v \in Duty, RecvDrive(d, v)
          PROVE  TypeOK'
      BY <3>1, <3>2, MotorAssumption DEF RecvDrive
    <3>3. ASSUME NEW kind \in {"slow", "fast"}, RecvStop(kind)
          PROVE  TypeOK'
      BY <3>1, <3>3, MotorAssumption DEF RecvStop
    <3>4. QED BY <2>7, <3>2, <3>3 DEF FrameStep
  <2>8. CASE IdleTick
    BY <2>8, MotorAssumption DEF IdleTick
  <2>9. CASE UNCHANGED vars
    BY <2>9 DEF vars
  <2>10. QED BY <2>1, <2>2, <2>3, <2>4, <2>5, <2>6, <2>7, <2>8, <2>9 DEF Next, MotorStep
<1>3. QED BY <1>1, <1>2, PTL DEF Spec

LEMMA MotorInit == Init => MotorInv
BY MotorAssumption DEF Init, MotorInv, Orderly, Driving, Ramping, FastComes, Standstill

\* A host that waits has waited before.
LEMMA PatientBefore ==
  ASSUME [Next]_vars, patient'
  PROVE  patient
BY DEF Next, MotorStep, HandlerStep, FrameStep, Wake, RecvSlow, StopFast, Ramp, RampEnd,
       SetControl, SetPins, SetDuty, Output, SetState, SendMail, RecvDrive, RecvStop,
       IdleTick, vars, motorVars, canVars

\* No step leaves the invariant while the host waits.
LEMMA OrderlyStep ==
  ASSUME TypeOK, Orderly, [Next]_vars, patient'
  PROVE  Orderly'
<1> USE MotorAssumption
    DEF TypeOK, Orderly, Duty, Driving, Ramping, FastComes, Standstill,
        motorVars, canVars, shared
<1>1. CASE Wake
  BY <1>1 DEF Wake
<1>2. CASE RecvSlow
  BY <1>2, MailFacts DEF RecvSlow
<1>3. CASE StopFast
  BY <1>3, MailFacts DEF StopFast
<1>4. CASE Ramp
  BY <1>4 DEF Ramp
<1>5. CASE RampEnd
  BY <1>5 DEF RampEnd
<1>6. CASE SetControl
  BY <1>6 DEF SetControl
<1>7. CASE SetPins
  BY <1>7 DEF SetPins
<1>8. CASE SetDuty
  BY <1>8 DEF SetDuty
<1>9. CASE Output
  BY <1>9 DEF Output
<1>10. CASE SetState
  BY <1>10 DEF SetState
<1>11. CASE SendMail
  <2>1. /\ cpc \in {"slow", "fast"} /\ cpc' = "idle" /\ mb' = Append(mb, cpc)
        /\ cotorl' = cotorl /\ pwm' = pwm /\ ccr' = ccr /\ state' = state
        /\ dir' = dir /\ mpc' = mpc /\ cmd' = cmd
    BY <1>11 DEF SendMail
  <2>2. mb' # <<>> /\ mb'[Len(mb')] = cpc
    BY <2>1, MailFacts
  <2>3. QED BY <2>1, <2>2
<1>12. ASSUME NEW d \in 1 .. 2, NEW v \in Duty, RecvDrive(d, v)
       PROVE Orderly'
  <2>1. Settled
    BY <1>12, Zenon DEF RecvDrive
  <2>2. QED BY <1>12, <2>1 DEF RecvDrive, Settled
<1>13. ASSUME NEW kind \in {"slow", "fast"}, RecvStop(kind)
       PROVE Orderly'
  <2>1. Len(mb) < MAILS
    BY <1>13, Zenon DEF RecvStop
  <2>2. QED BY <1>13, <2>1 DEF RecvStop, Blocked
<1>14. CASE IdleTick
  BY <1>14 DEF IdleTick
<1>15. CASE UNCHANGED vars
  BY <1>15 DEF vars
<1>16. QED
  BY <1>1, <1>2, <1>3, <1>4, <1>5, <1>6, <1>7, <1>8, <1>9, <1>10, <1>11, <1>12, <1>13,
     <1>14, <1>15 DEF Next, MotorStep, HandlerStep, FrameStep

\* So the invariant is inductive whatever the host does.
LEMMA MotorInvStep ==
  ASSUME TypeOK, MotorInv, [Next]_vars
  PROVE  MotorInv'
BY PatientBefore, OrderlyStep DEF MotorInv

\* A host that waits can trust Motor_state = 0: the motor is at a standstill
\* (motor_x.c:7-24), whatever the watchdog and overlapping stops did.
THEOREM StateIsTruthful == Spec => []StateTruthful
<1>1. TypeOK /\ MotorInv /\ [Next]_vars => MotorInv'
  BY MotorInvStep
<1>2. MotorInv => StateTruthful
  BY DEF MotorInv, Orderly, StateTruthful, Settled, Ramping, FastComes
<1>3. QED BY <1>1, <1>2, MotorInit, MotorTypes, PTL DEF Spec

\* Why: the inductive invariant itself (canbus_middle.c:121-163, motor_x.c:7-24).
THEOREM MotorInvariant == Spec => []MotorInv
<1>1. TypeOK /\ MotorInv /\ [Next]_vars => MotorInv'
  BY MotorInvStep
<1>2. QED BY <1>1, MotorInit, MotorTypes, PTL DEF Spec

\* As long as the host waits the motor is never reversed while it is driven
\* (canbus_middle.c:127, 141).
THEOREM NeverReversedMoving == Spec => Interlock
<1>1. TypeOK /\ MotorInv /\ [Next]_vars => MotorInv'
  BY MotorInvStep
<1>2. TypeOK /\ MotorInv /\ [Next]_vars => [patient' /\ dir' # dir => Standstill]_vars
  <2> SUFFICES ASSUME TypeOK, MotorInv, [Next]_vars, patient', dir' # dir PROVE Standstill
    OBVIOUS
  <2>1. SetPins
    BY DEF Next, MotorStep, HandlerStep, FrameStep, Wake, RecvSlow, StopFast, Ramp, RampEnd,
       SetControl, SetDuty, Output, SetState, SendMail, RecvDrive, RecvStop, IdleTick,
       vars, shared, motorVars, canVars
  <2>2. Orderly
    BY PatientBefore DEF MotorInv
  <2>3. cpc = "drive2" /\ dir # cmd[1] /\ mpc = "recv" /\ mb = <<>>
    BY <2>1, <2>2 DEF SetPins, Orderly, Driving
  <2>4. state = 0
    BY <2>2, <2>3 DEF Orderly
  <2>5. QED BY <2>2, <2>3, <2>4 DEF Orderly, Ramping, FastComes
<1>3. QED BY <1>1, <1>2, MotorInit, MotorTypes, PTL DEF Spec, Interlock
\* Why no stop raises the output while the brake is off: without the brake the
\* old duty cycle is not above the output, except in a drive command that has the
\* pins set and the output still to set, and then no ramp turns.
BrakeInv ==
  /\ brake \/ ccr <= pwm \/ cpc \in {"drive3", "drive4"}
  /\ cpc \in {"drive2", "drive3", "drive4", "drive5"} => cotorl # 0
  /\ Driving => want = "go"

\* No step leaves it, whatever the host does.
LEMMA BrakeInvStep ==
  ASSUME TypeOK, BrakeInv, [Next]_vars
  PROVE  BrakeInv'
<1> USE MotorAssumption
    DEF TypeOK, BrakeInv, Duty, Driving, motorVars, canVars, shared
<1>1. CASE Wake
  BY <1>1 DEF Wake
<1>2. CASE RecvSlow
  BY <1>2 DEF RecvSlow
<1>3. CASE StopFast
  BY <1>3 DEF StopFast
<1>4. CASE Ramp
  BY <1>4 DEF Ramp
<1>5. CASE RampEnd
  <2>1. brake => brake'
    BY <1>5, Zenon DEF RampEnd
  <2>2. QED BY <1>5, <2>1 DEF RampEnd
<1>6. CASE HandlerStep
  <2>1. CASE SetControl
    BY <2>1 DEF SetControl
  <2>2. CASE SetPins
    BY <2>2 DEF SetPins
  <2>3. CASE SetDuty
    BY <2>3 DEF SetDuty
  <2>4. CASE Output
    BY <2>4 DEF Output
  <2>5. CASE SetState \/ SendMail
    BY <2>5 DEF SetState, SendMail
  <2>6. QED BY <1>6, <2>1, <2>2, <2>3, <2>4, <2>5 DEF HandlerStep
<1>7. CASE FrameStep
  BY <1>7 DEF FrameStep, RecvDrive, RecvStop
<1>8. CASE IdleTick
  BY <1>8 DEF IdleTick
<1>9. CASE UNCHANGED vars
  BY <1>9 DEF vars
<1>10. QED
  BY <1>1, <1>2, <1>3, <1>4, <1>5, <1>6, <1>7, <1>8, <1>9 DEF Next, MotorStep

\* For any host and any preemption, no stop raises the output while the brake is
\* off, although CCR_Va0 outlives an emergency stop (motor_x.c:12, 21-22).
THEOREM BrakedWhenRaised == Spec => RaisedOnlyBraked
<1>1. Init => BrakeInv
  BY DEF Init, BrakeInv, Driving
<1>2. TypeOK /\ BrakeInv /\ [Next]_vars => BrakeInv'
  BY BrakeInvStep
<1>3. TypeOK /\ BrakeInv /\ [Next]_vars => [pwm' > pwm => want = "go" \/ brake]_vars
  <2> SUFFICES ASSUME TypeOK, BrakeInv, [Next]_vars, pwm' > pwm, pwm' # pwm
               PROVE  want = "go" \/ brake
    BY DEF TypeOK, Duty
  <2>1. StopFast \/ Ramp \/ Output
    BY DEF Next, MotorStep, HandlerStep, FrameStep, Wake, RecvSlow, RampEnd, SetControl,
       SetPins, SetDuty, SetState, SendMail, RecvDrive, RecvStop, IdleTick,
       vars, shared, motorVars, canVars
  <2>2. CASE StopFast
    BY <2>2 DEF StopFast, TypeOK, Duty
  <2>3. CASE Ramp
    BY <2>3 DEF Ramp, BrakeInv, TypeOK, Duty
  <2>4. CASE Output
    BY <2>4 DEF Output, BrakeInv, Driving
  <2>5. QED BY <2>1, <2>2, <2>3, <2>4
<1>4. QED BY <1>1, <1>2, <1>3, MotorTypes, PTL DEF Spec, RaisedOnlyBraked
=============================================================================
