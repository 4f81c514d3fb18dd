----------------------------- MODULE MotorCtrl -----------------------------
(***************************************************************************)
(* The drive motor of the DCG board.                                       *)
(*                                                                         *)
(* The "can" thread (priority 15) takes throttle frames (StdId 0x100) from *)
(* the receive ring: forward, backward, slow stop, emergency stop.  Drive  *)
(* commands it carries out itself; for a stop it sends a mail to the       *)
(* "motor" thread (priority 2), which ramps the PWM down in Stop_low0 or   *)
(* cuts it in Stop_fast0.  Both write CCR_Va0, Motor_state and the pins    *)
(* with no lock.  The motor thread preempts the other one whenever it is   *)
(* ready, and blocks in rt_thread_delay or in rt_mb_recv.                  *)
(*                                                                         *)
(* Duty cycles are 0 .. TOP: a speed byte gives up to 7278, and all above  *)
(* 999 mean full on.  Frames for other nodes and the reported              *)
(* Motor_direction are left out.                                           *)
(***************************************************************************)
EXTENDS Naturals, Sequences

CONSTANTS
  TOP,       \* largest duty cycle
  MAILS,     \* size of the mailbox do_motor_sem (20)
  LIMIT      \* empty polls without a throttle frame before the watchdog acts (400)

ASSUME MotorAssumption ==
  TOP \in Nat /\ MAILS \in Nat \ {0} /\ LIMIT \in Nat

VARIABLES
  cotorl,  \* Motor_cotorl: 0 slow stop, 1 forward, 2 backward, 3 emergency stop
  state,   \* Motor_state: 0 stopped, 1 forward, 2 backward
  ccr,     \* CCR_Va0
  pwm,     \* the duty cycle the timer outputs
  brake,   \* PA.2: the brake is on
  dir,     \* PA.1: 1 forward, 2 backward
  mb,      \* mails waiting in do_motor_sem
  mpc,     \* where the motor thread is
  cpc,     \* where the can thread is in the handling of a frame
  cmd,     \* the drive command it handles: <<direction, duty>>
  timeErr, \* time_err
  want,    \* history: the last command accepted, "go", "slow" or "fast"
  patient  \* history: so far the host has sent a drive command only when nothing
           \* was in progress, and a stop only while the mailbox had room

motorVars == <<mb, mpc>>
canVars   == <<cpc, cmd, timeErr, want, patient>>
shared    == <<cotorl, state, ccr, pwm, brake, dir>>
vars      == <<shared, motorVars, canVars>>

Duty == 0 .. TOP

TypeOK ==
  /\ cotorl \in 0 .. 3 /\ state \in 0 .. 2 /\ dir \in 1 .. 2
  /\ ccr \in Duty /\ pwm \in Duty /\ brake \in BOOLEAN
  /\ mb \in Seq({"slow", "fast"}) /\ Len(mb) <= MAILS
  /\ mpc \in {"start", "recv", "low", "delay"}
  /\ cpc \in {"idle", "drive1", "drive2", "drive3", "drive4", "drive5", "slow", "fast"}
  /\ cmd \in (1 .. 2) \X Duty
  /\ timeErr \in 0 .. LIMIT
  /\ want \in {"none", "go", "slow", "fast"}
  /\ patient \in BOOLEAN

Init ==
  /\ cotorl = 0 /\ state = 0 /\ ccr = 0 /\ pwm = 0 /\ brake = TRUE /\ dir = 1
  /\ mb = <<>> /\ mpc = "start"
  /\ cpc = "idle" /\ cmd = <<1, 0>> /\ timeErr = 0 /\ want = "none"
  /\ patient = TRUE
----------------------------------------------------------------------------
(* The motor thread *)

\* It waits, for time to pass or for mail: only then can the can thread run.
Blocked == mpc \in {"start", "delay"} \/ (mpc = "recv" /\ mb = <<>>)

\* rt_thread_delay returns.
Wake ==
  /\ \/ mpc = "start" /\ mpc' = "recv"
     \/ mpc = "delay" /\ mpc' = "low"
  /\ UNCHANGED <<shared, mb, canVars>>

RecvSlow ==
  /\ mpc = "recv" /\ mb # <<>> /\ Head(mb) = "slow"
  /\ mb' = Tail(mb) /\ mpc' = "low"
  /\ UNCHANGED <<shared, canVars>>

\* Mutant: the PWM is left as it is and only the brake is put on.
StopFastBrakesOnly ==
  /\ mpc = "recv" /\ mb # <<>> /\ Head(mb) = "fast"
  /\ mb' = Tail(mb)
  /\ brake' = TRUE /\ state' = 0
  /\ UNCHANGED <<cotorl, ccr, pwm, dir, mpc, canVars>>

\* Mutant: the PWM is cut and the brake is forgotten.
StopFastCutsOnly ==
  /\ mpc = "recv" /\ mb # <<>> /\ Head(mb) = "fast"
  /\ mb' = Tail(mb)
  /\ pwm' = 0 /\ state' = 0
  /\ UNCHANGED <<cotorl, ccr, brake, dir, mpc, canVars>>

\* Stop_fast0.
StopFast ==
  /\ mpc = "recv" /\ mb # <<>> /\ Head(mb) = "fast"
  /\ mb' = Tail(mb)
  /\ pwm' = 0 /\ brake' = TRUE /\ state' = 0
  /\ UNCHANGED <<cotorl, ccr, dir, mpc, canVars>>

\* Mutant: the ramp does not look where the bottom is.
RampBelowZero ==
  /\ mpc = "low" /\ cotorl = 0
  /\ pwm' = ccr /\ ccr' = ccr - 1
  /\ mpc' = "delay"
  /\ UNCHANGED <<cotorl, state, brake, dir, mb, canVars>>

\* One turn of the loop of Stop_low0: output, then decrement, then wait.
Ramp ==
  /\ mpc = "low" /\ cotorl = 0 /\ ccr > 0
  /\ pwm' = ccr /\ ccr' = ccr - 1
  /\ mpc' = "delay"
  /\ UNCHANGED <<cotorl, state, brake, dir, mb, canVars>>

\* Its end: the ramp is at the bottom, or another command came.
RampEnd ==
  /\ mpc = "low"
  /\ ccr = 0 \/ cotorl # 0
  /\ brake' = (brake \/ ccr = 0)
  /\ state' = 0
  /\ mpc' = "recv"
  /\ UNCHANGED <<cotorl, ccr, pwm, dir, mb, canVars>>

MotorStep == Wake \/ RecvSlow \/ StopFast \/ Ramp \/ RampEnd
----------------------------------------------------------------------------
(* The can thread *)

\* Nothing is in progress.
Settled == cpc = "idle" /\ mpc = "recv" /\ mb = <<>>

\* Mutant: a drive command is obeyed whatever the motor does.
RecvDriveAlways(d, v) ==
  /\ Blocked /\ cpc = "idle"
  /\ patient' = (patient /\ Settled)
  /\ timeErr' = 0
  /\ cpc' = "drive1" /\ cmd' = <<d, v>> /\ want' = "go"
  /\ UNCHANGED <<shared, motorVars>>

\* A drive command is ignored while the motor runs the other way.
RecvDrive(d, v) ==
  /\ Blocked /\ cpc = "idle"
  /\ patient' = (patient /\ Settled)
  /\ timeErr' = 0
  /\ IF state \in {0, d}
       THEN cpc' = "drive1" /\ cmd' = <<d, v>> /\ want' = "go"
       ELSE UNCHANGED <<cpc, cmd, want>>
  /\ UNCHANGED <<shared, motorVars>>

\* The statements of the handler, between which the motor thread may wake.
SetControl ==
  /\ Blocked /\ cpc = "drive1" /\ cpc' = "drive2"
  /\ cotorl' = cmd[1]
  /\ UNCHANGED <<state, ccr, pwm, brake, dir, motorVars, cmd, timeErr, want, patient>>

\* Mutant: only the brake pin is set.
SetBrakeOnly ==
  /\ Blocked /\ cpc = "drive2" /\ cpc' = "drive3"
  /\ brake' = FALSE
  /\ UNCHANGED <<cotorl, state, ccr, pwm, dir, motorVars, cmd, timeErr, want, patient>>

SetPins ==
  /\ Blocked /\ cpc = "drive2" /\ cpc' = "drive3"
  /\ brake' = FALSE /\ dir' = cmd[1]
  /\ UNCHANGED <<cotorl, state, ccr, pwm, motorVars, cmd, timeErr, want, patient>>

SetDuty ==
  /\ Blocked /\ cpc = "drive3" /\ cpc' = "drive4"
  /\ ccr' = cmd[2]
  /\ UNCHANGED <<cotorl, state, pwm, brake, dir, motorVars, cmd, timeErr, want, patient>>

Output ==
  /\ Blocked /\ cpc = "drive4" /\ cpc' = "drive5"
  /\ pwm' = ccr
  /\ UNCHANGED <<cotorl, state, ccr, brake, dir, motorVars, cmd, timeErr, want, patient>>

\* Mutant: the direction is not recorded.
ForgetState ==
  /\ Blocked /\ cpc = "drive5" /\ cpc' = "idle"
  /\ UNCHANGED <<shared, motorVars, cmd, timeErr, want, patient>>

SetState ==
  /\ Blocked /\ cpc = "drive5" /\ cpc' = "idle"
  /\ state' = cmd[1]
  /\ UNCHANGED <<cotorl, ccr, pwm, brake, dir, motorVars, cmd, timeErr, want, patient>>

\* Mutant: a stop only sends the mail.
RecvStopKeepsControl(kind) ==
  /\ Blocked /\ cpc = "idle"
  /\ patient' = (patient /\ Len(mb) < MAILS)
  /\ timeErr' = 0
  /\ cpc' = kind /\ want' = kind
  /\ UNCHANGED <<shared, motorVars, cmd>>

\* A stop sets Motor_cotorl first and sends the mail next.
RecvStop(kind) ==
  /\ Blocked /\ cpc = "idle"
  /\ patient' = (patient /\ Len(mb) < MAILS)
  /\ timeErr' = 0
  /\ cotorl' = IF kind = "slow" THEN 0 ELSE 3
  /\ cpc' = kind /\ want' = kind
  /\ UNCHANGED <<state, ccr, pwm, brake, dir, motorVars, cmd>>

\* rt_mb_send fails when the mailbox is full; nobody looks.
SendMail ==
  /\ Blocked /\ cpc \in {"slow", "fast"} /\ cpc' = "idle"
  /\ mb' = IF Len(mb) = MAILS THEN mb ELSE Append(mb, cpc)
  /\ UNCHANGED <<shared, mpc, cmd, timeErr, want, patient>>

\* The ring is empty: wait a tick, count it, and after LIMIT of them ask for a
\* slow stop, without sending the mail.
IdleTick ==
  /\ Blocked /\ cpc = "idle"
  /\ IF timeErr < LIMIT
       THEN timeErr' = timeErr + 1 /\ UNCHANGED cotorl
       ELSE timeErr' = 0 /\ cotorl' = IF state > 0 THEN 0 ELSE cotorl
  /\ UNCHANGED <<state, ccr, pwm, brake, dir, motorVars, cpc, cmd, want, patient>>

HandlerStep == SetControl \/ SetPins \/ SetDuty \/ Output \/ SetState \/ SendMail

FrameStep ==
  \/ \E d \in 1 .. 2, v \in Duty : RecvDrive(d, v)
  \/ \E kind \in {"slow", "fast"} : RecvStop(kind)

Next == MotorStep \/ HandlerStep \/ FrameStep \/ IdleTick

Spec == Init /\ [][Next]_vars

\* Threads that are ready run, timers expire, and a poll of an empty ring returns.
FairSpec == Spec /\ WF_vars(MotorStep) /\ WF_vars(HandlerStep) /\ WF_vars(IdleTick)
----------------------------------------------------------------------------
(* What must hold *)

\* The output is at most the last step of a ramp.
Standstill == pwm <= 1

\* As long as the host waits, the motor is never reversed while it is driven: the
\* direction pin changes only at a standstill (canbus_middle.c:127, 141).
Interlock == [][patient' /\ dir' # dir => Standstill]_vars

\* Motor_state = 0, on which that rests, means that the motor is not driven.
StateTruthful == patient /\ Settled /\ state = 0 => Standstill

\* Why it does, with a host that waits: a drive command in progress has the
\* motor thread to itself; otherwise a motor that turns with Motor_state = 0 is
\* still being ramped down or has an emergency stop on its way, and the last
\* stop sent decides Motor_cotorl.
Driving == cpc \in {"drive1", "drive2", "drive3", "drive4", "drive5"}
Ramping == mpc \in {"low", "delay"}
FastComes == cpc = "fast" \/ (mb # <<>> /\ mb[Len(mb)] = "fast" /\ cpc # "slow")

Orderly ==
  /\ Driving => mpc = "recv" /\ mb = <<>>
  /\ Driving \/ (mb = <<>> /\ ~Ramping) \/ cotorl = 0 \/ (cotorl = 3 /\ FastComes)
  /\ cpc = "drive4" \/ pwm \in {0, ccr, ccr + 1}
  /\ mpc = "start" => pwm = 0
  /\ cpc \in {"slow", "fast"} => Len(mb) < MAILS /\ cotorl = IF cpc = "slow" THEN 0 ELSE 3
  /\ cpc \in {"drive1", "drive2"} => state \in {0, cmd[1]}
  /\ cpc \in {"drive3", "drive4", "drive5"} => dir = cmd[1] /\ state \in {0, cmd[1]}
  /\ state # 0 => dir = state
  /\ state = 0 /\ ~Standstill => Ramping \/ FastComes \/ cpc = "drive5"

MotorInv == patient => Orderly

\* A slow stop ends with the motor braked at a standstill, unless another
\* command follows: also when its mail did not fit, or found a ramp running.
SlowStopWorks == want = "slow" ~> (want # "slow" \/ (Standstill /\ brake))

\* With a host that waits, an emergency stop cuts the output and brakes.
FastStopWorks ==
  (want = "fast" /\ patient) ~> (want # "fast" \/ ~patient \/ (pwm = 0 /\ brake))

\* An emergency stop cuts the output and brakes (canbus_middle.c:159-163),
\* whatever was sent before it.
EmergencyStops == want = "fast" ~> (want # "fast" \/ (pwm = 0 /\ brake))

\* canbus_middle.c:242-245: without throttle frames the motor is stopped slowly.
WatchdogStops ==
  (cpc = "idle" /\ want = "go" /\ cotorl = 0) ~> (want # "go" \/ cotorl # 0 \/ Standstill)

\* motor_x.c:12 and 21-22: CCR_Va0 outlives an emergency stop, so a slow stop that
\* follows puts the old duty cycle out again and ramps down from there.  But for
\* any host and any preemption no stop raises the output while the brake is off.
RaisedOnlyBraked == [][pwm' > pwm => want = "go" \/ brake]_vars
=============================================================================
