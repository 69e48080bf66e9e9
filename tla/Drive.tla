------------------------------- MODULE Drive -------------------------------
(***************************************************************************)
(* Starting one motor: subroutine Drive and the five routines it hands a   *)
(* motor to (VMEDrive, PiDrive, ZETADrive, EZDrive, PICODrive), with the   *)
(* motor controllers and the motors themselves as the environment.         *)
(*                                                                         *)
(* Positions are in steps.  A Fortran angle a of motor m is the step       *)
(* number a * pulse(m); only the two places where the code mixes the units *)
(* look at Pulse.                                                          *)
(***************************************************************************)
EXTENDS Integers, EventFlags

CONSTANTS
  NumMotors,   \* MAXMOTS
  MotType,     \* mottype: the kind of controller of each motor
  Pulse,       \* pulse: steps per degree
  Back,        \* back: steps by which a move overshoots to take up backlash
  Merr,        \* merr: steps off target that count as being there
  Lo, Hi,      \* the hardware limit switches, the same for every motor
  TrackMoves,  \* trackmoves: keep the last position of every motor in a file
  Nsta,        \* nsta: the station; -5 is SPINS, 8 is BT8
  Stalled,     \* motors that do not turn, although their controller answers
  MaxFaults    \* bound: transactions with a controller that fail

Motor == 1..NumMotors

Kinds == {"ACS", "VME", "PIMOT", "ZETA", "EZ", "PICO"}

ASSUME DriveAssumption ==
  /\ NumMotors \in Nat
  /\ MotType \in [Motor -> Kinds]
  /\ Pulse \in [Motor -> Nat \ {0}]
  /\ Back \in [Motor -> Int]
  /\ Merr \in [Motor -> Nat]
  /\ Lo \in Int /\ Hi \in Int
  /\ TrackMoves \in BOOLEAN
  /\ Nsta \in Int
  /\ Stalled \subseteq Motor
  /\ MaxFaults \in Nat

VARIABLES
  ev,           \* signals and event flags
  moving,       \* moving: Yield has to wait for the motor
  overshot,     \* overshot: the motor is on the first leg of two
  destination,  \* destination: where the motor has to end
  motpos,       \* MOTPOS.BUF: the position on file
  pos,          \* the motor: where it is
  goal,         \* the motor: where its controller sends it
  running,      \* the motor: turning now
  dir,          \* the motor: the direction of its last step
  faults,       \* failed transactions so far
  asked,        \* history: what the command asked of the motor
  driven,       \* history: motors this command has set in motion
  gaveup        \* history: motors a message of this command is about

program == <<moving, overshot, destination, motpos>>
motors  == <<pos, goal, running, dir>>
history == <<asked, driven, gaveup>>
driveVars == <<ev, program, motors, faults, history>>

Abs(n) == IF n < 0 THEN -n ELSE n

NaN     == -998   \* what a negative integer reads as through a REAL*4 dummy
NoAngle == -999   \* RdAngl's -999.99, "signal error?"

-----------------------------------------------------------------------------
\* One more transaction with a controller goes wrong.  Inside Drive that is the
\* whole exchange, its retries included; inside Yield, where control A can come
\* between two retries, it is one of them.
Fault == faults < MaxFaults /\ faults' = faults + 1

\* RdAngl: a PICO controller has no encoder, its position is the one on file.
Known(m) == IF MotType[m] = "PICO" THEN motpos[m] ELSE pos[m]

\* PICODrive uses merr and back, which are in steps, as angles.
Unit(m) == IF MotType[m] = "PICO" THEN Pulse[m] ELSE 1

InPlace(m, target) == Abs(target - Known(m)) <= Merr[m] * Unit(m)

\* Mutant: the sign of the backlash taken the wrong way round.
BacklashReversed(m, change) == change > 0 /\ Back[m] > 0

\* Mutant: motors that are approached from above forgotten.
BacklashUpOnly(m, change) == change < 0 /\ Back[m] > 0

\* Must a move by this change go past its target and come back?
Backlash(m, change) ==
  \/ change < 0 /\ (Back[m] > 0 \/ MotType[m] \in {"PIMOT", "EZ"})
  \/ change > 0 /\ Back[m] < 0 /\ MotType[m] \notin {"PIMOT", "EZ", "PICO"}

\* newpos: the end of the first leg.
FirstLeg(m, target) ==
  IF Backlash(m, target - Known(m)) THEN target - Back[m] * Unit(m) ELSE target

\* The bits of an INTEGER*4 step number, read as a REAL*4.
IntegerAsReal(n) == IF n < 0 THEN NaN ELSE 0

\* The argument of memcurpos, which is called before the go command.
Filed(m, target) ==
  CASE MotType[m] = "ACS"               -> target
    [] MotType[m] \in {"PIMOT", "ZETA"} -> IntegerAsReal(FirstLeg(m, target))
    [] OTHER                            -> FirstLeg(m, target)

\* Mutant: only the motors without an encoder are filed.
MemCurPosPico(m, target) ==
  IF MotType[m] = "PICO"
  THEN motpos' = [motpos EXCEPT ![m] = Filed(m, target)]
  ELSE UNCHANGED motpos

MemCurPos(m, target) ==
  IF TrackMoves \/ MotType[m] = "PICO"
  THEN motpos' = [motpos EXCEPT ![m] = Filed(m, target)]
  ELSE UNCHANGED motpos

\* The controller takes the go command: absolute, but relative on a PICO.
Go(m, target) ==
  LET to == pos[m] + FirstLeg(m, target) - Known(m) IN
  /\ goal' = [goal EXCEPT ![m] = to]
  /\ running' = [running EXCEPT ![m] = m \notin Stalled /\ to # pos[m]]
  /\ UNCHANGED <<pos, dir>>

-----------------------------------------------------------------------------
(***************************************************************************)
(* Drive(m, target), entered with event state e.  onDestination says that  *)
(* the argument is destination(m) itself: EZDrive then overwrites the      *)
(* destination with the end of the first leg, because targetangle is its   *)
(* dummy argument.                                                         *)
(***************************************************************************)

\* The position cannot be read, after all retries: the motor is not moved.
DriveFails(m, e) ==
  /\ MotType[m] # "PICO"
  /\ Fault
  /\ gaveup' = gaveup \cup {m}
  /\ ev' = IF MotType[m] = "ACS" /\ Nsta = 8 THEN SETEF(e, "contr_a") ELSE e
  /\ UNCHANGED <<program, motors, driven>>

DriveInPlace(m, target, e) ==
  /\ InPlace(m, target)
  /\ ev' = e
  /\ UNCHANGED <<program, motors, faults, driven, gaveup>>

DriveMoves(m, target, e, onDestination) ==
  /\ ~InPlace(m, target)
  /\ moving' = [moving EXCEPT ![m] = TRUE]
  /\ overshot' = [overshot EXCEPT ![m] = Backlash(m, target - Known(m))]
  /\ destination' = [destination EXCEPT ![m] =
                       IF onDestination /\ MotType[m] = "EZ"
                       THEN FirstLeg(m, target) ELSE target]
  /\ MemCurPos(m, target)
  /\ \/ Go(m, target) /\ UNCHANGED faults
     \/ Fault /\ UNCHANGED motors           \* the go command is lost
  /\ driven' = driven \cup {m}
  /\ ev' = e
  /\ UNCHANGED gaveup

DriveTo(m, target, e, onDestination) ==
  \/ DriveFails(m, e)
  \/ DriveInPlace(m, target, e)
  \/ DriveMoves(m, target, e, onDestination)

-----------------------------------------------------------------------------
(***************************************************************************)
(* The motors.                                                             *)
(***************************************************************************)

\* One step towards the goal; the motor stops there or at a limit switch.
Turn(m) ==
  LET d    == IF goal[m] > pos[m] THEN 1 ELSE -1
      next == pos[m] + d
  IN /\ running[m]
     /\ IF next \in Lo..Hi
        THEN /\ pos' = [pos EXCEPT ![m] = next]
             /\ dir' = [dir EXCEPT ![m] = d]
             /\ running' = [running EXCEPT ![m] = next # goal[m]]
        ELSE /\ running' = [running EXCEPT ![m] = FALSE]
             /\ UNCHANGED <<pos, dir>>
     /\ UNCHANGED <<ev, program, goal, faults, history>>

\* The limit switch a motor stands on: -1 the minus one, +1 the plus one.
LimitSwitch(m) == IF pos[m] = Lo THEN -1 ELSE IF pos[m] = Hi THEN 1 ELSE 0

DriveInit ==
  /\ ev = NoEvents
  /\ pos \in [Motor -> {p \in Lo..Hi : Lo < p /\ p < Hi}]
  /\ goal = pos
  /\ running = [m \in Motor |-> FALSE]
  /\ dir = [m \in Motor |-> 0]
  /\ moving = [m \in Motor |-> FALSE]
  /\ overshot = [m \in Motor |-> FALSE]
  /\ destination = pos
  /\ motpos = pos
  /\ faults = 0
  /\ asked = pos
  /\ driven = {}
  /\ gaveup = {}

DriveTypeOK ==
  /\ ev \in EventState
  /\ moving \in [Motor -> BOOLEAN]
  /\ overshot \in [Motor -> BOOLEAN]
  /\ destination \in [Motor -> Int]
  /\ motpos \in [Motor -> Int]
  /\ pos \in [Motor -> Int]
  /\ goal \in [Motor -> Int]
  /\ running \in [Motor -> BOOLEAN]
  /\ dir \in [Motor -> {-1, 0, 1}]
  /\ faults \in 0..MaxFaults
  /\ asked \in [Motor -> Int]
  /\ driven \subseteq Motor
  /\ gaveup \subseteq Motor
=============================================================================
