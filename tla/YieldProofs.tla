---------------------------- MODULE YieldProofs ----------------------------
(***************************************************************************)
(* Theorems about Yield, for any number of motors, any mixture of          *)
(* controllers, any number of faults, signals and commands: types and      *)
(* flags first, then that no motor is left turning, then where the motors  *)
(* end.                                                                    *)
(***************************************************************************)
EXTENDS Yield, EventFlagsProofs

\* The numbers among the constants.
LEMMA Params ==
  /\ NumMotors \in Nat /\ Tries \in Nat \ {0} /\ MaxRewrites \in Nat
  /\ MaxFaults \in Nat /\ MaxCommands \in Nat /\ MaxSignals \in Nat
  BY DriveAssumption, YieldAssumption DEF DriveAssumption, YieldAssumption

USE Params

-----------------------------------------------------------------------------
(***************************************************************************)
(* Drive.                                                                  *)
(***************************************************************************)

\* Everything Drive computes from a typed state is a step number.
LEMMA LegType ==
  ASSUME DriveTypeOK, NEW m \in Motor, NEW t \in Int
  PROVE  /\ Known(m) \in Int /\ FirstLeg(m, t) \in Int
         /\ Filed(m, t) \in Int
         /\ Backlash(m, t - Known(m)) \in BOOLEAN
<1>1. Known(m) \in Int
  BY DEF DriveTypeOK, Known
<1>2. Unit(m) \in Int /\ Back[m] \in Int
  BY DriveAssumption DEF Unit, DriveAssumption
<1>3. Backlash(m, t - Known(m)) \in BOOLEAN
  BY DEF Backlash
<1>4. FirstLeg(m, t) \in Int
  BY <1>1, <1>2 DEF FirstLeg
<1>5. Filed(m, t) \in Int
  BY <1>4 DEF Filed, IntegerAsReal, NaN
<1> QED  BY <1>1, <1>3, <1>4, <1>5

\* Drive preserves the types of all it changes.
LEMMA DriveToType ==
  ASSUME DriveTypeOK, NEW m \in Motor, NEW t \in Int, NEW e \in EventState,
         NEW d \in BOOLEAN, DriveTo(m, t, e, d), asked' \in [Motor -> Int]
  PROVE  DriveTypeOK'
<1>1. CASE DriveFails(m, e)
  <2>1. SETEF(e, "contr_a") \in EventState
    BY SetType DEF Flags, Signals
  <2> QED  BY <1>1, <2>1 DEF DriveFails, Fault, DriveTypeOK, program, motors
<1>2. CASE DriveInPlace(m, t, e)
  BY <1>2 DEF DriveInPlace, DriveTypeOK, program, motors
<1>3. CASE DriveMoves(m, t, e, d)
  <2>1. /\ Known(m) \in Int /\ FirstLeg(m, t) \in Int /\ Filed(m, t) \in Int
        /\ Backlash(m, t - Known(m)) \in BOOLEAN
    BY LegType
  <2>2. /\ moving' \in [Motor -> BOOLEAN] /\ overshot' \in [Motor -> BOOLEAN]
        /\ destination' \in [Motor -> Int]
        /\ driven' \subseteq Motor /\ gaveup' \subseteq Motor
        /\ ev' \in EventState
    BY <1>3, <2>1 DEF DriveMoves, DriveTypeOK
  <2>3. motpos' \in [Motor -> Int]
    BY <1>3, <2>1 DEF DriveMoves, MemCurPos, DriveTypeOK
  <2>4. /\ pos' \in [Motor -> Int] /\ goal' \in [Motor -> Int]
        /\ running' \in [Motor -> BOOLEAN] /\ dir' \in [Motor -> {-1, 0, 1}]
        /\ faults' \in 0..MaxFaults
    <3>1. CASE Go(m, t) /\ UNCHANGED faults
      <4>1. running' \in [Motor -> BOOLEAN]
        BY <3>1, Zenon DEF Go, DriveTypeOK
      <4>2. goal' \in [Motor -> Int]
        BY <3>1, <2>1 DEF Go, DriveTypeOK
      <4> QED  BY <3>1, <4>1, <4>2 DEF Go, DriveTypeOK
    <3>2. CASE Fault /\ UNCHANGED motors
      BY <3>2 DEF Fault, motors, DriveTypeOK
    <3> QED  BY <1>3, <3>1, <3>2 DEF DriveMoves
  <2> QED  BY <2>2, <2>3, <2>4 DEF DriveTypeOK
<1> QED  BY <1>1, <1>2, <1>3 DEF DriveTo

\* Drive raises no flag but that of its own motor.
LEMMA DriveToMoving ==
  ASSUME DriveTypeOK, NEW m \in Motor, NEW t, NEW e, NEW d,
         DriveTo(m, t, e, d)
  PROVE  \A k \in Motor \ {m} : moving'[k] = moving[k]
  BY DEF DriveTo, DriveFails, DriveInPlace, DriveMoves, DriveTypeOK, program

-----------------------------------------------------------------------------
(***************************************************************************)
(* Yield.  A step inside the loop over the motors either goes on to the    *)
(* next motor, or keeps attending to this one, or leaves the loop; the     *)
(* invariant is preserved for one reason in each of the three cases.       *)
(***************************************************************************)

\* The inductive invariant: what holds wherever the program is.
IInv == TypeOK /\ FlagsDown /\ PassSound

\* Where each place belongs.
LEMMA PlaceFacts ==
  /\ "idle" \in Places \ Attending /\ "drive" \in Places \ Attending
  /\ "poll" \in Places \ Attending /\ "halt" \in Places \ Attending
  /\ "fix" \in Places \ Attending
  /\ \A p \in {"status", "stopped", "back", "off", "return", "final",
               "correct", "rewrite"} : p \in Places /\ p \in Attending
  /\ Attending \subseteq Places
  BY DEF Places, Attending

\* The fields of Yield's local variables.
LEMMA Fields ==
  ASSUME TypeOK
  PROVE  /\ y \in Locals /\ y.at \in Places /\ y.cur \in 0..NumMotors+1
         /\ y.finished \in BOOLEAN /\ y.rewrites \in 0..MaxRewrites
         /\ y.mtries \in 0..Tries+1 /\ y.notries \in 0..Tries
         /\ y.adjpos \in BOOLEAN
         /\ y.ckpos \in [Motor -> BOOLEAN] /\ y.status \in {-1, 0, 1}
         /\ y.lreply \in {NoReply, Reply}
  BY DEF TypeOK, Locals

\* A poll of contr_a keeps an event state an event state.
LEMMA SeenType ==
  ASSUME TypeOK
  PROVE  Seen \in EventState /\ READEF(ev) \in EventState
  BY ReadefType DEF Seen, TypeOK, DriveTypeOK

\* A step that touches no motor and no flag keeps the types of Drive's variables.
LEMMA QuietType ==
  ASSUME TypeOK, ev' \in EventState, faults' \in 0..MaxFaults,
         gaveup' \subseteq Motor,
         UNCHANGED <<program, motors, asked, driven>>
  PROVE  DriveTypeOK'
  BY DEF TypeOK, DriveTypeOK, program, motors

\* One more fault is within the bound.
LEMMA FaultType == ASSUME TypeOK, Fault PROVE faults' \in 0..MaxFaults
  BY DEF Fault, TypeOK, DriveTypeOK

\* What is left unchanged keeps its type.
LEMMA Kept ==
  ASSUME TypeOK
  PROVE  /\ faults \in 0..MaxFaults /\ gaveup \subseteq Motor
         /\ ev \in EventState /\ moving \in [Motor -> BOOLEAN]
         /\ aborted \in BOOLEAN
  BY DEF TypeOK, DriveTypeOK

\* Going on to the next motor.
LEMMA NextMotorType ==
  ASSUME NEW v \in Locals, v.cur \in Motor
  PROVE  /\ NextMotor(v) \in Locals
         /\ NextMotor(v).at = "poll" /\ NextMotor(v).cur = v.cur + 1
         /\ NextMotor(v).finished = v.finished
         /\ NextMotor(v).ckpos = v.ckpos
<1>1. v.cur + 1 \in 0..NumMotors+1 /\ v.cur <= NumMotors /\ "poll" \in Places
  BY PlaceFacts DEF Motor
<1>2. NextMotor(v) \in Locals
  BY <1>1 DEF NextMotor, Locals
<1> QED  BY <1>1, <1>2 DEF NextMotor, Locals

LEMMA StillMovingType ==
  ASSUME NEW v \in Locals, v.cur \in Motor
  PROVE  /\ StillMoving(v) \in Locals
         /\ StillMoving(v).at = "poll" /\ StillMoving(v).cur = v.cur + 1
         /\ StillMoving(v).finished = FALSE
         /\ StillMoving(v).ckpos = v.ckpos
<1> DEFINE w == [v EXCEPT !.finished = FALSE]
<1>1. w \in Locals /\ w.cur = v.cur /\ w.finished = FALSE /\ w.ckpos = v.ckpos
  BY DEF Locals
<1>2. StillMoving(v) = NextMotor(w)
  BY DEF StillMoving
<1> HIDE DEF w
<1> QED  BY <1>1, <1>2, NextMotorType

\* The step goes on to the next motor.
LEMMA ToNext ==
  ASSUME IInv, Looking, y.at \in Attending \cup {"poll"},
         DriveTypeOK', y' \in Locals, aborted' \in BOOLEAN, UNCHANGED outside,
         y'.at = "poll", y'.cur = y.cur + 1,
         \A k \in Motor \ {y.cur} : moving'[k] = moving[k],
         y'.finished => y.finished /\ ~moving'[y.cur]
  PROVE  IInv'
<1>1. TypeOK'
  BY PlaceFacts, Fields DEF IInv, TypeOK, outside, Looking, Motor
<1>2. FlagsDown'
  BY DEF FlagsDown
<1>3. PassSound'
  <2> SUFFICES ASSUME y'.finished, NEW k \in Motor, k < y'.cur
               PROVE  ~moving'[k]
    BY PlaceFacts DEF PassSound
  <2>1. CASE k = y.cur
    BY <2>1
  <2>2. CASE k # y.cur
    <3>1. k < y.cur
      BY <2>2, Fields DEF Motor, Locals, IInv, Looking
    <3> QED  BY <2>2, <3>1 DEF IInv, PassSound
  <2> QED  BY <2>1, <2>2
<1> QED  BY <1>1, <1>2, <1>3 DEF IInv

\* The step keeps attending to the same motor.
LEMMA Stays ==
  ASSUME IInv, Looking, y.at \in Attending \cup {"poll"},
         DriveTypeOK', y' \in Locals, aborted' \in BOOLEAN, UNCHANGED outside,
         y'.at \in Attending, y'.cur = y.cur,
         \A k \in Motor \ {y.cur} : moving'[k] = moving[k],
         y'.finished => y.finished,
         y'.at = "status" \/ (y'.finished => ~moving'[y.cur])
  PROVE  IInv'
<1>1. TypeOK'
  BY PlaceFacts DEF IInv, TypeOK, outside, Looking
<1>2. FlagsDown'
  BY PlaceFacts DEF FlagsDown
<1>3. PassSound'
  <2>1. ASSUME y'.finished, NEW k \in Motor, k < y'.cur
        PROVE  ~moving'[k]
    <3>1. k \in Motor \ {y.cur} /\ k < y.cur /\ y.finished
      BY <2>1 DEF Motor, Looking
    <3>2. ~moving[k]
      BY <3>1 DEF IInv, PassSound
    <3> QED  BY <3>1, <3>2
  <2> QED  BY <2>1 DEF PassSound
<1> QED  BY <1>1, <1>2, <1>3 DEF IInv

\* The step leaves the loop, with every flag down unless motors are to be halted.
LEMMA LeavesLoop ==
  ASSUME IInv, DriveTypeOK', y' \in Locals, aborted' \in BOOLEAN,
         UNCHANGED outside,
         \/ y'.at = "halt" /\ y'.cur >= 1
         \/ y'.at \in {"fix", "idle"} /\ \A k \in Motor : ~moving'[k]
         \/ y'.at = "drive"
  PROVE  IInv'
<1>1. TypeOK'
  BY PlaceFacts DEF IInv, TypeOK, outside
<1>2. FlagsDown'
  BY DEF FlagsDown
<1>3. PassSound'
  BY PlaceFacts DEF PassSound
<1> QED  BY <1>1, <1>2, <1>3 DEF IInv

\* Initially nothing moves and no command runs.
LEMMA InitIInv == Init => IInv
<1> SUFFICES ASSUME Init PROVE IInv
  OBVIOUS
<1>1. DriveTypeOK
  BY DEF Init, DriveInit, DriveTypeOK, NoEvents, EventState
<1>2. TypeOK
  <2>1. 1 \in 0..NumMotors+1 /\ 0 \in 0..Tries+1 /\ 0 \in 0..Tries
        /\ 0 \in 0..MaxRewrites /\ NoReply \in {NoReply, Reply}
        /\ [m \in Motor |-> FALSE] \in [Motor -> BOOLEAN]
    OBVIOUS
  <2>2. y \in Locals
    BY <2>1, PlaceFacts DEF Init, Locals
  <2>3. y.at = "idle" /\ commands = 0 /\ signals = 0
    BY DEF Init
  <2>4. aborted \in BOOLEAN
    BY Zenon DEF Init
  <2>5. y.at \notin Attending /\ y.at \notin {"poll", "halt"}
    BY <2>3, PlaceFacts
  <2> QED  BY <1>1, <2>2, <2>3, <2>4, <2>5 DEF TypeOK
<1> QED  BY <1>2, PlaceFacts DEF Init, DriveInit, IInv, FlagsDown, PassSound

-----------------------------------------------------------------------------
(***************************************************************************)
(* One lemma per action.                                                   *)
(***************************************************************************)

LEMMA AbortInv == ASSUME IInv, Abort PROVE IInv'
<1>1. TypeOK
  BY DEF IInv
<1>2. DriveTypeOK'
  BY <1>1, QuietType, SeenType, Kept DEF Abort, history
<1>3. y' \in Locals /\ y'.at = "halt" /\ y'.cur = 1
  <2>1. "halt" \in Places /\ 1 \in 0..NumMotors+1 /\ 0 \in 0..Tries
    BY PlaceFacts
  <2>2. y' \in Locals
    BY <1>1, <2>1, Fields DEF Abort, Locals
  <2> QED  BY <1>1, <2>2, Fields DEF Abort, Locals
<1> QED  BY <1>2, <1>3, LeavesLoop DEF Abort

LEMMA CommandInv == ASSUME IInv, Command PROVE IInv'
<1>1. TypeOK
  BY DEF IInv
<1>2. DriveTypeOK'
  <2>1. ev' \in EventState
    BY <1>1, ClrefType, Kept DEF Command, Flags
  <2> QED  BY <1>1, <2>1 DEF Command, TypeOK, DriveTypeOK, program, motors
<1>3. y' \in Locals /\ y'.at = "drive" /\ y'.cur = NumMotors
  <2>1. "drive" \in Places /\ NumMotors \in 0..NumMotors+1
    BY PlaceFacts
  <2>2. y' \in Locals
    BY <1>1, <2>1, Fields DEF Command, Locals
  <2> QED  BY <1>1, <2>2, Fields DEF Command, Locals
<1>4. TypeOK'
  <2>1. commands' \in 0..MaxCommands /\ signals' \in 0..MaxSignals
    BY <1>1 DEF Command, TypeOK
  <2>2. y'.at \notin Attending /\ y'.at \notin {"poll", "halt"}
    BY <1>3, PlaceFacts
  <2>3. aborted' \in BOOLEAN
    BY Zenon DEF Command
  <2> QED  BY <1>2, <1>3, <2>1, <2>2, <2>3 DEF TypeOK
<1> QED  BY <1>3, <1>4, PlaceFacts DEF IInv, FlagsDown, PassSound

LEMMA DriveNextInv == ASSUME IInv, DriveNext PROVE IInv'
<1>1. TypeOK /\ DriveTypeOK /\ Looking /\ y.at = "drive"
  BY DEF IInv, TypeOK, DriveNext
<1>2. DriveTypeOK'
  <2>1. CASE \E p \in Target(m0) :
               /\ DriveTo(m0, p, READEF(ev), FALSE)
               /\ asked' = [asked EXCEPT ![m0] = p]
    <3>1. PICK p \in Target(m0) : /\ DriveTo(m0, p, READEF(ev), FALSE)
                                  /\ asked' = [asked EXCEPT ![m0] = p]
      BY <2>1
    <3>2. p \in Int /\ m0 \in Motor
      BY <1>1 DEF Target, Looking, m0
    <3>3. asked' \in [Motor -> Int]
      BY <1>1, <3>1, <3>2 DEF DriveTypeOK
    <3> QED  BY <1>1, <3>1, <3>2, <3>3, DriveToType, SeenType
  <2>2. CASE ev' = READEF(ev) /\ UNCHANGED <<program, motors, faults, history>>
    BY <1>1, <2>2, QuietType, SeenType, Kept DEF history
  <2> QED  BY <2>1, <2>2 DEF DriveNext
<1>3. y' \in Locals /\ y'.at = "drive"
  <2>1. y.cur - 1 \in 0..NumMotors+1
    BY <1>1 DEF Looking, Motor
  <2>2. y' \in Locals
    BY <1>1, <2>1, Fields DEF DriveNext, Locals
  <2> QED  BY <1>1, <2>2, Fields DEF DriveNext, Locals
<1> QED  BY <1>1, <1>2, <1>3, LeavesLoop, Kept DEF DriveNext

LEMMA EnterYieldInv == ASSUME IInv, EnterYield PROVE IInv'
<1>1. TypeOK
  BY DEF IInv
<1>2. DriveTypeOK'
  BY <1>1, QuietType, SeenType, Kept DEF EnterYield, history
<1>3. y' \in Locals /\ y'.at = "poll" /\ y'.cur = 1
  <2>1. /\ "poll" \in Places /\ 1 \in 0..NumMotors+1 /\ 0 \in 0..MaxRewrites
        /\ [m \in Motor |-> FALSE] \in [Motor -> BOOLEAN]
    BY PlaceFacts
  <2>2. y' \in Locals
    BY <1>1, <2>1, Fields DEF EnterYield, Locals
  <2> QED  BY <1>1, <2>2, Fields DEF EnterYield, Locals
<1>4. TypeOK'
  BY <1>1, <1>2, <1>3, PlaceFacts DEF EnterYield, TypeOK, outside
<1> QED  BY <1>3, <1>4, PlaceFacts DEF IInv, FlagsDown, PassSound, Motor

LEMMA EnterYieldAbortedInv == ASSUME IInv, EnterYieldAborted PROVE IInv'
<1>1. TypeOK
  BY DEF IInv
<1>2. DriveTypeOK'
  BY <1>1, QuietType, SeenType, Kept DEF EnterYieldAborted, history
<1>3. y' \in Locals /\ y'.at = "halt" /\ y'.cur = 1
  <2>1. "halt" \in Places /\ 1 \in 0..NumMotors+1 /\ 0 \in 0..Tries
    BY PlaceFacts
  <2>2. PICK l \in {NoReply, Reply}, c \in [Motor -> BOOLEAN] :
          y' = [y EXCEPT !.at = "halt", !.cur = 1, !.notries = 0,
                         !.stoperr = FALSE, !.lreply = l, !.ckpos = c,
                         !.adjpos = FALSE]
    BY DEF EnterYieldAborted
  <2>3. y' \in Locals
    BY <1>1, <2>1, <2>2, Fields DEF Locals
  <2> QED  BY <1>1, <2>2, <2>3, Fields DEF Locals
<1> QED  BY <1>2, <1>3, LeavesLoop DEF EnterYieldAborted

LEMMA PollMotorInv == ASSUME IInv, PollMotor PROVE IInv'
<1>1. TypeOK /\ Looking /\ y.at = "poll" /\ y.at \in Attending \cup {"poll"}
  BY DEF IInv, PollMotor, At
<1>2. DriveTypeOK' /\ aborted' \in BOOLEAN
  BY <1>1, QuietType, SeenType, Kept DEF PollMotor, history
<1>3. CASE moving[m0]
  <2> DEFINE n == IF PollsFirst(m0) THEN Tries ELSE Tries + 1
  <2>1. /\ "status" \in Places /\ n \in 0..Tries+1 /\ 0 \in {-1, 0, 1}
        /\ NoReply \in {NoReply, Reply}
    BY PlaceFacts
  <2>2. y' = [y EXCEPT !.at = "status", !.lreply = NoReply, !.status = 0,
                       !.mtries = n]
    BY <1>3 DEF PollMotor
  <2> HIDE DEF n
  <2>3. y' \in Locals
    BY <1>1, <2>1, <2>2, Fields DEF Locals
  <2>4. y'.at = "status" /\ y'.cur = y.cur /\ y'.finished = y.finished
    BY <1>1, <2>2, Fields DEF Locals
  <2> QED
    BY <1>1, <1>2, <2>3, <2>4, PlaceFacts, Stays DEF PollMotor, program
<1>4. CASE ~moving[m0]
  <2>1. y' = NextMotor(y)
    BY <1>4 DEF PollMotor
  <2> QED  BY <1>1, <1>2, <1>4, <2>1, NextMotorType, Fields, ToNext
           DEF PollMotor, program, Looking, m0
<1> QED  BY <1>3, <1>4

LEMMA EndOfPassInv == ASSUME IInv, EndOfPass PROVE IInv'
<1>1. TypeOK /\ y.at = "poll" /\ y.cur = NumMotors + 1
  <2>1. TypeOK /\ y.at = "poll" /\ y.cur \notin Motor
    BY DEF IInv, EndOfPass, At, Looking
  <2> QED  BY <2>1, Fields DEF TypeOK, Motor
<1>2. DriveTypeOK' /\ aborted' \in BOOLEAN
  BY <1>1, QuietType, SeenType, Kept DEF EndOfPass, history
<1>3. CASE y.finished
  <2>1. y' = [y EXCEPT !.at = "fix"]
    BY <1>3 DEF EndOfPass
  <2>2. y' \in Locals /\ y'.at = "fix"
    BY <1>1, <2>1, Fields, PlaceFacts DEF Locals
  <2>3. \A k \in Motor : ~moving[k]
    BY <1>1, <1>3 DEF IInv, PassSound, Motor
  <2> QED  BY <1>2, <2>2, <2>3, LeavesLoop DEF EndOfPass, program
<1>4. CASE ~y.finished
  <2>1. y' = [y EXCEPT !.cur = 1, !.finished = TRUE]
    BY <1>4 DEF EndOfPass
  <2>2. 1 \in 0..NumMotors+1 /\ TRUE \in BOOLEAN
    OBVIOUS
  <2>3. y' \in Locals /\ y'.at = "poll" /\ y'.cur = 1
    BY <1>1, <2>1, <2>2, Fields DEF Locals
  <2>4. TypeOK'
    BY <1>1, <1>2, <2>3, PlaceFacts DEF EndOfPass, TypeOK, outside
  <2> QED  BY <2>3, <2>4, PlaceFacts DEF IInv, FlagsDown, PassSound, Motor
<1> QED  BY <1>3, <1>4

\* Wherever Yield asks a question, it is attending to a motor.
LEMMA Attends ==
  ASSUME IInv, NEW p \in Attending, At(p)
  PROVE  /\ TypeOK /\ y.at = p /\ Looking /\ m0 \in Motor
         /\ y.at \in Attending /\ y.at \in Attending \cup {"poll"}
         /\ p # "status" /\ y.finished => ~moving[y.cur]
  BY DEF IInv, TypeOK, At, Looking, m0, PassSound

\* Giving up on a motor.
LEMMA AbandonInv ==
  ASSUME IInv, Looking, y.at \in Attending,
         NEW v \in Locals, v.cur = y.cur, v.finished = y.finished,
         Abandon(m0, v), faults' \in 0..MaxFaults, gaveup' \subseteq Motor,
         UNCHANGED <<overshot, destination, motpos, motors, asked, driven,
                     outside>>
  PROVE  IInv'
<1>1. TypeOK /\ m0 \in Motor /\ v.cur \in Motor
  BY DEF IInv, Looking, m0
<1>2. moving' = [moving EXCEPT ![y.cur] = FALSE]
  BY DEF Abandon, m0
<1>3. DriveTypeOK'
  <2>1. moving' \in [Motor -> BOOLEAN]
    BY <1>1, <1>2, Kept
  <2>2. ev' \in EventState
    BY <1>1, SeenType DEF Abandon
  <2> QED  BY <1>1, <2>1, <2>2 DEF TypeOK, DriveTypeOK, motors
<1>4. /\ \A k \in Motor \ {y.cur} : moving'[k] = moving[k]
      /\ ~moving'[y.cur]
  BY <1>1, <1>2, Kept DEF Looking
<1>5. aborted' \in BOOLEAN
  BY <1>1, Kept DEF Abandon
<1>6. y' \in Locals /\ y'.at = "poll" /\ y'.cur = y.cur + 1
      /\ y'.finished = y.finished
  BY <1>1, NextMotorType DEF Abandon
<1> QED  BY <1>3, <1>4, <1>5, <1>6, ToNext

\* Giving up on a motor of an ACS controller, which may end the whole Yield.
LEMMA AbandonAcsInv ==
  ASSUME IInv, Looking, y.at \in Attending,
         NEW v \in Locals, v.cur = y.cur, v.finished = y.finished,
         AbandonAcs(m0, v), faults' \in 0..MaxFaults, gaveup' \subseteq Motor,
         UNCHANGED <<overshot, destination, motpos, motors, asked, driven,
                     outside>>
  PROVE  IInv'
<1>1. TypeOK /\ m0 \in Motor
  BY DEF IInv, Looking, m0
<1>3. CASE Nsta = 8
  <2>1. /\ ev' = SETEF(ev, "contr_a") /\ moving' = [k \in Motor |-> FALSE]
        /\ y' = [v EXCEPT !.at = "fix"] /\ aborted' = TRUE
    BY <1>3 DEF AbandonAcs
  <2>2. y' \in Locals /\ y'.at = "fix"
    BY <2>1, PlaceFacts DEF Locals
  <2>3. ev' \in EventState
    BY <1>1, <2>1, SetType, Kept DEF Flags, Signals
  <2>4. DriveTypeOK'
    BY <1>1, <2>1, <2>3 DEF TypeOK, DriveTypeOK, motors
  <2>5. aborted' \in BOOLEAN
    BY <2>1
  <2> QED  BY <2>1, <2>2, <2>4, <2>5, LeavesLoop
<1>4. CASE Nsta # 8
  <2>1. Abandon(m0, v)
    BY <1>4 DEF AbandonAcs
  <2> QED  BY <2>1, AbandonInv
<1> QED  BY <1>3, <1>4

\* Marking a position for the check changes nothing else.
LEMMA ToCheckType ==
  ASSUME TypeOK, NEW m \in Motor
  PROVE  /\ ToCheck(m) \in Locals /\ ToCheck(m).cur = y.cur
         /\ ToCheck(m).finished = y.finished
<1>1. [y.ckpos EXCEPT ![m] = @ \/ TrackMoves] \in [Motor -> BOOLEAN]
  BY Fields, Zenon
<1> QED  BY <1>1, Fields DEF ToCheck, Locals

\* A step that asks or waits, and leaves all flags and motors as they are.
LEMMA QuietStays ==
  ASSUME IInv, NEW p \in Attending, At(p),
         y' \in Locals, y'.at \in Attending, y'.cur = y.cur,
         y'.finished = y.finished, p = "status" => y'.at = "status",
         ev' \in EventState, faults' \in 0..MaxFaults,
         gaveup' \subseteq Motor,
         UNCHANGED <<program, motors, asked, driven, aborted, outside>>
  PROVE  IInv'
<1>1. DriveTypeOK' /\ aborted' \in BOOLEAN
  BY Attends, QuietType, Kept
<1>2. moving' = moving
  BY DEF program
<1>3. p # "status" => (y'.finished => ~moving'[y.cur])
  BY <1>2, Attends
<1> QED  BY <1>1, <1>2, <1>3, Attends, Stays

\* A step that goes on to the next motor and changes no flag.
LEMMA QuietNext ==
  ASSUME IInv, NEW p \in Attending \ {"status"}, At(p),
         y' = NextMotor(y),
         ev' \in EventState, faults' \in 0..MaxFaults,
         gaveup' \subseteq Motor,
         UNCHANGED <<program, motors, asked, driven, aborted, outside>>
  PROVE  IInv'
<1>1. DriveTypeOK' /\ aborted' \in BOOLEAN
  BY Attends, QuietType, Kept
<1>2. moving' = moving /\ y.cur \in Motor
  BY Attends DEF program, Looking
<1>3. y' \in Locals /\ y'.at = "poll" /\ y'.cur = y.cur + 1
      /\ y'.finished = y.finished
  BY <1>2, Attends, NextMotorType, Fields
<1> QED  BY <1>1, <1>2, <1>3, Attends, ToNext

\* The motor is sent to its destination once more, and waited for.
LEMMA RedriveInv ==
  ASSUME IInv, NEW p \in Attending, At(p),
         DriveTo(m0, destination[m0], Seen, TRUE), y' = StillMoving(y),
         UNCHANGED <<asked, aborted, outside>>
  PROVE  IInv'
<1>1. /\ TypeOK /\ m0 \in Motor /\ Looking /\ DriveTypeOK
      /\ destination[m0] \in Int /\ asked' \in [Motor -> Int]
  BY Attends DEF TypeOK, DriveTypeOK
<1>2. DriveTypeOK'
  BY <1>1, DriveToType, SeenType
<1>3. \A k \in Motor \ {y.cur} : moving'[k] = moving[k]
  BY <1>1, DriveToMoving DEF m0
<1>4. /\ y' \in Locals /\ y'.at = "poll" /\ y'.cur = y.cur + 1
      /\ y'.finished = FALSE
  BY <1>1, StillMovingType, Fields DEF Looking
<1>5. aborted' \in BOOLEAN
  BY <1>1, Kept
<1> QED  BY <1>1, <1>2, <1>3, <1>4, <1>5, Attends, ToNext

LEMMA StatusReplyInv == ASSUME IInv, StatusReply PROVE IInv'
<1> DEFINE v == [y EXCEPT !.lreply = IF MotType[m0] = "ACS" THEN Reply ELSE @]
<1>1. /\ TypeOK /\ y.at = "status" /\ Looking /\ m0 \in Motor
      /\ y.at \in Attending /\ y.at \in Attending \cup {"poll"}
  BY Attends, PlaceFacts DEF StatusReply
<1>2. v \in Locals /\ v.cur = y.cur /\ v.finished = y.finished
  BY <1>1, Fields DEF Locals
<1>3. ev' \in EventState /\ aborted' \in BOOLEAN
  BY <1>1, SeenType, Kept DEF StatusReply
<1>4. CASE running[m0]
  <2>1. y' = StillMoving(v) /\ moving' = moving
    BY <1>4 DEF StatusReply, v
  <2> HIDE DEF v
  <2>2. DriveTypeOK'
    BY <1>1, <1>3, <2>1 DEF StatusReply, TypeOK, DriveTypeOK, motors, history
  <2>3. y' \in Locals /\ y'.at = "poll" /\ y'.cur = y.cur + 1
        /\ y'.finished = FALSE
    BY <1>1, <1>2, <2>1, StillMovingType DEF Looking
  <2> QED  BY <1>1, <1>3, <2>1, <2>2, <2>3, ToNext DEF StatusReply
<1>5. CASE ~running[m0]
  <2>1. /\ y' = [v EXCEPT !.at = "stopped", !.status = LimitReply(m0)]
        /\ moving' = [moving EXCEPT ![m0] = FALSE]
    BY <1>5 DEF StatusReply, v
  <2> HIDE DEF v
  <2>2. moving' \in [Motor -> BOOLEAN]
    BY <1>1, <2>1, Kept
  <2>3. DriveTypeOK'
    BY <1>1, <1>3, <2>2 DEF StatusReply, TypeOK, DriveTypeOK, motors, history
  <2>4. LimitReply(m0) \in {-1, 0, 1}
    BY <1>1, Fields DEF LimitReply, LimitSwitch
  <2>5. y' \in Locals /\ y'.at = "stopped" /\ y'.cur = y.cur
        /\ y'.finished = y.finished
    BY <1>2, <2>1, <2>4, PlaceFacts DEF Locals
  <2>6. /\ \A k \in Motor \ {y.cur} : moving'[k] = moving[k]
        /\ ~moving'[y.cur]
    BY <1>1, <2>1, Kept DEF m0
  <2> QED  BY <1>1, <1>3, <2>3, <2>5, <2>6, PlaceFacts, Stays DEF StatusReply
<1> QED  BY <1>4, <1>5

LEMMA StatusLastVmeInv == ASSUME IInv, StatusLastVme PROVE IInv'
<1>1. TypeOK /\ Looking /\ m0 \in Motor /\ y.at \in Attending
  BY Attends, PlaceFacts DEF StatusLastVme
<1>2. faults' \in 0..MaxFaults /\ gaveup' \subseteq Motor
  BY <1>1, FaultType, Kept DEF StatusLastVme, Report
<1> QED  BY <1>1, <1>2, AbandonInv, Fields DEF StatusLastVme, Report

LEMMA StatusRetryInv == ASSUME IInv, StatusRetry PROVE IInv'
<1>1. TypeOK /\ y.at = "status"
  BY Attends, PlaceFacts DEF StatusRetry
<1>2. PICK s \in {0, 1} : y' = [y EXCEPT !.mtries = @ - 1, !.status = s]
  BY DEF StatusRetry, WaitStatus
<1>3. y.mtries - 1 \in 0..Tries+1 /\ s \in {-1, 0, 1}
  BY <1>1, Fields DEF StatusRetry
<1>4. y' \in Locals /\ y'.at = "status" /\ y'.cur = y.cur
      /\ y'.finished = y.finished
  BY <1>1, <1>2, <1>3, Fields DEF Locals
<1>5. ev' \in EventState /\ faults' \in 0..MaxFaults /\ gaveup' \subseteq Motor
  BY <1>1, SeenType, FaultType, Kept DEF StatusRetry, history
<1> QED  BY <1>4, <1>5, PlaceFacts, QuietStays DEF StatusRetry, history

LEMMA StatusNoneAcsInv == ASSUME IInv, StatusNoneAcs PROVE IInv'
<1>1. TypeOK /\ Looking /\ m0 \in Motor /\ y.at \in Attending
  BY Attends, PlaceFacts DEF StatusNoneAcs
<1>2. faults' \in 0..MaxFaults /\ gaveup' \subseteq Motor
  BY <1>1, FaultType, Kept DEF StatusNoneAcs, Report
<1> QED  BY <1>1, <1>2, AbandonAcsInv, ToCheckType DEF StatusNoneAcs, Report

LEMMA StatusNoneInv == ASSUME IInv, StatusNone PROVE IInv'
<1>1. /\ TypeOK /\ y.at = "status" /\ Looking /\ m0 \in Motor /\ y.cur \in Motor
      /\ y.at \in Attending /\ y.at \in Attending \cup {"poll"}
  BY Attends, PlaceFacts DEF StatusNone, m0
<1>2. /\ ev' \in EventState /\ aborted' \in BOOLEAN
      /\ faults' \in 0..MaxFaults
  BY <1>1, SeenType, FaultType, Kept DEF StatusNone
<1>3. moving' \in [Motor -> BOOLEAN] => DriveTypeOK'
  BY <1>1, <1>2 DEF StatusNone, TypeOK, DriveTypeOK, motors, history
<1>4. CASE y' = StillMoving(y) /\ UNCHANGED moving
  <2>1. /\ y' \in Locals /\ y'.at = "poll" /\ y'.cur = y.cur + 1
        /\ y'.finished = FALSE
    BY <1>1, <1>4, StillMovingType, Fields
  <2> QED  BY <1>1, <1>2, <1>3, <1>4, <2>1, Kept, ToNext DEF StatusNone
<1>5. CASE /\ moving' = [moving EXCEPT ![m0] = FALSE]
           /\ \E s \in WaitStatus : y' = [y EXCEPT !.at = "stopped", !.status = s]
  <2>1. PICK s \in {0, 1} : y' = [y EXCEPT !.at = "stopped", !.status = s]
    BY <1>5 DEF WaitStatus
  <2>2. s \in {-1, 0, 1}
    OBVIOUS
  <2>3. /\ y' \in Locals /\ y'.at = "stopped" /\ y'.cur = y.cur
        /\ y'.finished = y.finished
    BY <1>1, <2>1, <2>2, Fields, PlaceFacts DEF Locals
  <2>4. moving' \in [Motor -> BOOLEAN]
    BY <1>1, <1>5, Kept
  <2>5. /\ \A k \in Motor \ {y.cur} : moving'[k] = moving[k]
        /\ ~moving'[y.cur]
    BY <1>1, <1>5, Kept DEF m0
  <2> QED
    BY <1>1, <1>2, <1>3, <2>3, <2>4, <2>5, PlaceFacts, Stays DEF StatusNone
<1> QED  BY <1>4, <1>5 DEF StatusNone

LEMMA OnLimitInv == ASSUME IInv, OnLimit PROVE IInv'
<1>1. TypeOK /\ Looking /\ m0 \in Motor /\ y.at \in Attending
  BY Attends, PlaceFacts DEF OnLimit
<1>2. gaveup' \subseteq Motor /\ UNCHANGED <<asked, driven>>
  BY <1>1, Kept DEF OnLimit, Report, history
<1>3. faults' \in 0..MaxFaults
  BY <1>1, Kept DEF OnLimit
<1>4. CASE GoesBack(m0)
  <2> DEFINE c == y.ckpos[m0] \/ (TrackMoves /\ MotType[m0] = "ACS")
  <2>1. y' = [y EXCEPT !.at = "back", !.ckpos[m0] =
                         @ \/ (TrackMoves /\ MotType[m0] = "ACS")]
        /\ UNCHANGED <<ev, moving, aborted>>
    BY <1>4 DEF OnLimit
  <2>2. [y.ckpos EXCEPT ![m0] = @ \/ (TrackMoves /\ MotType[m0] = "ACS")]
           \in [Motor -> BOOLEAN]
    BY <1>1, Fields, Zenon
  <2>3. y' \in Locals /\ y'.at = "back" /\ y'.cur = y.cur
        /\ y'.finished = y.finished
    BY <1>1, <2>1, <2>2, Fields, PlaceFacts DEF Locals
  <2>4. ev' \in EventState
    BY <1>1, <2>1, Kept
  <2>5. At("stopped")
    BY DEF OnLimit
  <2> QED  BY <1>2, <1>3, <2>1, <2>3, <2>4, <2>5, PlaceFacts, QuietStays
           DEF OnLimit, program
<1>5. CASE ~GoesBack(m0) /\ MotType[m0] = "ACS"
  BY <1>1, <1>2, <1>3, <1>5, AbandonAcsInv, ToCheckType DEF OnLimit
<1>6. CASE ~GoesBack(m0) /\ MotType[m0] # "ACS"
  BY <1>1, <1>2, <1>3, <1>6, AbandonInv, Fields DEF OnLimit
<1> QED  BY <1>4, <1>5, <1>6

LEMMA WhereOnLimitInv == ASSUME IInv, WhereOnLimit PROVE IInv'
<1>1. TypeOK /\ y.at = "back" /\ At("back")
  BY Attends, PlaceFacts DEF WhereOnLimit
<1>2. ev' \in EventState /\ faults' \in 0..MaxFaults /\ gaveup' \subseteq Motor
  BY <1>1, SeenType, FaultType, Kept DEF WhereOnLimit, history
<1>3. CASE y' = NextMotor(y)
  BY <1>1, <1>2, <1>3, PlaceFacts, QuietNext DEF WhereOnLimit, history
<1>4. CASE \E p \in {"off", "stopped"} :
             y' = [y EXCEPT !.at = p] \/ y' = [y EXCEPT !.at = p, !.status = 0]
  <2>1. PICK p \in {"off", "stopped"} :
          y' = [y EXCEPT !.at = p] \/ y' = [y EXCEPT !.at = p, !.status = 0]
    BY <1>4
  <2>2. p \in Places /\ p \in Attending /\ 0 \in {-1, 0, 1}
    BY PlaceFacts
  <2>3. y' \in Locals /\ y'.at = p /\ y'.cur = y.cur
        /\ y'.finished = y.finished
    BY <1>1, <2>1, <2>2, Fields DEF Locals
  <2> QED  BY <1>1, <1>2, <2>2, <2>3, PlaceFacts, QuietStays
           DEF WhereOnLimit, history
<1> QED  BY <1>3, <1>4 DEF WhereOnLimit, AfterLimit

LEMMA DriveOffLimitInv == ASSUME IInv, DriveOffLimit PROVE IInv'
<1> DEFINE w == [y EXCEPT !.finished = FALSE]
<1>1. TypeOK /\ At("off") /\ Looking /\ "off" \in Attending
  BY Attends, PlaceFacts DEF DriveOffLimit
<1>2. CASE MotType[m0] = "PIMOT"
  <2>1. y' = [w EXCEPT !.at = "stopped", !.status = 0]
    BY <1>2 DEF DriveOffLimit, AfterLimit, w, m0
  <2>2. w \in Locals /\ w.cur = y.cur /\ w.finished = FALSE
    BY <1>1, Fields DEF Locals
  <2> HIDE DEF w
  <2>3. y' \in Locals /\ y'.at = "stopped" /\ y'.cur = y.cur
        /\ y'.finished = FALSE
    BY <2>1, <2>2, PlaceFacts DEF Locals
  <2>4. /\ m0 \in Motor /\ DriveTypeOK
        /\ destination[m0] \in Int /\ asked' \in [Motor -> Int]
    BY <1>1 DEF TypeOK, DriveTypeOK, DriveOffLimit, Looking, m0
  <2>5. DriveTypeOK'
    BY <1>1, <2>4, DriveToType, SeenType DEF DriveOffLimit
  <2>6. \A k \in Motor \ {y.cur} : moving'[k] = moving[k]
    BY <2>4, DriveToMoving DEF DriveOffLimit, m0
  <2>7. aborted' \in BOOLEAN
    BY <1>1, Kept DEF DriveOffLimit
  <2> QED  BY <1>1, <2>3, <2>5, <2>6, <2>7, Attends, PlaceFacts, Stays
           DEF DriveOffLimit
<1>3. CASE MotType[m0] # "PIMOT"
  <2>1. y' = StillMoving(y)
    BY <1>3 DEF DriveOffLimit, AfterLimit, StillMoving, m0
  <2> QED  BY <1>1, <2>1, RedriveInv DEF DriveOffLimit
<1> QED  BY <1>2, <1>3

LEMMA StoppedInv == ASSUME IInv, Stopped PROVE IInv'
<1>1. /\ TypeOK /\ y.at = "stopped" /\ Looking /\ m0 \in Motor /\ At("stopped")
      /\ y.at \in Attending \cup {"poll"} /\ (y.finished => ~moving[y.cur])
  BY Attends, PlaceFacts DEF Stopped
<1>2. DriveTypeOK'
  <2>1. overshot' \in [Motor -> BOOLEAN]
    BY <1>1 DEF Stopped, TypeOK, DriveTypeOK
  <2> QED  BY <1>1, <2>1 DEF Stopped, TypeOK, DriveTypeOK, motors, history
<1>3. y' \in Locals /\ y'.at \in Attending /\ y'.cur = y.cur
      /\ y'.finished = y.finished
  <2> DEFINE n == IF PollsFirst(m0) THEN Tries ELSE Tries + 1
  <2>1. n \in 0..Tries+1 /\ "return" \in Places /\ "final" \in Places
    BY PlaceFacts
  <2>2. \/ y' = [y EXCEPT !.at = "return"]
        \/ y' = [y EXCEPT !.at = "final", !.mtries = n]
    BY DEF Stopped
  <2> HIDE DEF n
  <2>3. y' \in Locals
    BY <1>1, <2>1, <2>2, Fields DEF Locals
  <2>4. y'.at \in {"return", "final"} /\ y'.cur = y.cur
        /\ y'.finished = y.finished
    BY <1>1, <2>2, Fields DEF Locals
  <2> QED  BY <2>3, <2>4, PlaceFacts
<1>4. aborted' \in BOOLEAN
  BY <1>1, Kept DEF Stopped
<1> QED  BY <1>1, <1>2, <1>3, <1>4, Stays DEF Stopped

LEMMA SecondLegInv == ASSUME IInv, SecondLeg PROVE IInv'
  BY RedriveInv, PlaceFacts DEF SecondLeg

LEMMA CorrectInv == ASSUME IInv, Correct PROVE IInv'
  BY RedriveInv, PlaceFacts DEF Correct

LEMMA RewriteInv == ASSUME IInv, Rewrite PROVE IInv'
  BY RedriveInv, PlaceFacts DEF Rewrite

\* The final position is judged, however it was come by.
LEMMA JudgedInv ==
  ASSUME IInv, At("final"), NEW off \in BOOLEAN, y' = Judged(off),
         ev' = Seen, faults' \in 0..MaxFaults,
         UNCHANGED <<program, motors, history, aborted, outside>>
  PROVE  IInv'
<1>1. /\ TypeOK /\ "final" \in Attending \ {"status"}
  BY Attends, PlaceFacts
<1>2. ev' \in EventState /\ gaveup' \subseteq Motor
  BY <1>1, SeenType, Kept DEF history
<1>3. CASE off
  <2>1. y' = [y EXCEPT !.at = "correct"]
    BY <1>3 DEF Judged
  <2>2. y' \in Locals /\ y'.at = "correct" /\ y'.cur = y.cur
        /\ y'.finished = y.finished
    BY <1>1, <2>1, Fields, PlaceFacts DEF Locals
  <2> QED  BY <1>1, <1>2, <2>2, PlaceFacts, QuietStays DEF history
<1>4. CASE ~off
  BY <1>1, <1>2, <1>4, QuietNext DEF Judged, history
<1> QED  BY <1>3, <1>4

LEMMA FinalPositionInv == ASSUME IInv, FinalPosition PROVE IInv'
<1>1. TypeOK /\ faults' \in 0..MaxFaults
  BY Kept DEF IInv, FinalPosition
<1>2. OffTarget(m0) \in BOOLEAN
  BY DEF OffTarget
<1> QED  BY <1>1, <1>2, JudgedInv DEF FinalPosition

LEMMA FinalNoneInv == ASSUME IInv, FinalNone PROVE IInv'
<1>1. TypeOK /\ faults' \in 0..MaxFaults
  BY FaultType DEF IInv, FinalNone
<1> QED  BY <1>1, JudgedInv DEF FinalNone

LEMMA FinalNoiseInv == ASSUME IInv, FinalNoise PROVE IInv'
<1>1. TypeOK /\ faults' \in 0..MaxFaults
  BY FaultType DEF IInv, FinalNoise
<1> QED  BY <1>1, JudgedInv DEF FinalNoise

LEMMA FinalNoiseLostInv == ASSUME IInv, FinalNoiseLost PROVE IInv'
<1>1. TypeOK /\ Looking /\ m0 \in Motor /\ y.at \in Attending
  BY Attends, PlaceFacts DEF FinalNoiseLost
<1>2. faults' \in 0..MaxFaults /\ gaveup' \subseteq Motor
  BY <1>1, FaultType, Kept DEF FinalNoiseLost, Report
<1> QED  BY <1>1, <1>2, AbandonAcsInv, Fields DEF FinalNoiseLost, Report

LEMMA FinalRetryInv == ASSUME IInv, FinalRetry PROVE IInv'
<1>1. TypeOK /\ y.at = "final"
  BY Attends, PlaceFacts DEF FinalRetry
<1>2. y.mtries - 1 \in 0..Tries+1
  BY <1>1, Fields DEF FinalRetry
<1>3. y' \in Locals /\ y'.at = "final" /\ y'.cur = y.cur
      /\ y'.finished = y.finished
  BY <1>1, <1>2, Fields DEF FinalRetry, Locals
<1>4. ev' \in EventState /\ faults' \in 0..MaxFaults /\ gaveup' \subseteq Motor
  BY <1>1, SeenType, FaultType, Kept DEF FinalRetry, history
<1> QED  BY <1>3, <1>4, PlaceFacts, QuietStays DEF FinalRetry, history

LEMMA FinalNoneAcsInv == ASSUME IInv, FinalNoneAcs PROVE IInv'
<1>1. TypeOK /\ Looking /\ m0 \in Motor /\ y.at \in Attending
  BY Attends, PlaceFacts DEF FinalNoneAcs
<1>2. faults' \in 0..MaxFaults /\ gaveup' \subseteq Motor
  BY <1>1, FaultType, Kept DEF FinalNoneAcs, Report
<1> QED  BY <1>1, <1>2, AbandonAcsInv, ToCheckType DEF FinalNoneAcs, Report

LEMMA CorrectCountedInv == ASSUME IInv, CorrectCounted PROVE IInv'
<1>1. /\ TypeOK /\ y.at = "correct" /\ m0 \in Motor
      /\ "correct" \in Attending \ {"status"} /\ At("correct")
  BY Attends, PlaceFacts DEF CorrectCounted
<1>2. ev' \in EventState /\ faults' \in 0..MaxFaults
  BY <1>1, SeenType, Kept DEF CorrectCounted
<1>3. gaveup' \subseteq Motor /\ UNCHANGED <<asked, driven>>
  BY <1>1, Kept DEF CorrectCounted, Report, history
<1>4. CASE y.rewrites < MaxRewrites
  <2>1. y' = [y EXCEPT !.at = "rewrite", !.rewrites = @ + 1]
    BY <1>4 DEF CorrectCounted
  <2>2. y.rewrites + 1 \in 0..MaxRewrites
    BY <1>1, <1>4, Fields
  <2>3. y' \in Locals /\ y'.at = "rewrite" /\ y'.cur = y.cur
        /\ y'.finished = y.finished
    BY <1>1, <2>1, <2>2, Fields, PlaceFacts DEF Locals
  <2> QED  BY <1>1, <1>2, <1>3, <2>3, PlaceFacts, QuietStays
           DEF CorrectCounted
<1>5. CASE ~(y.rewrites < MaxRewrites)
  BY <1>1, <1>2, <1>3, <1>5, QuietNext DEF CorrectCounted
<1> QED  BY <1>4, <1>5

\* While the motors are halted, only the type of things is at stake.
LEMMA HaltingInv ==
  ASSUME IInv, y.at = "halt", y' \in Locals, y'.at = "halt", y'.cur >= 1,
         moving' \in [Motor -> BOOLEAN], running' \in [Motor -> BOOLEAN],
         faults' \in 0..MaxFaults,
         UNCHANGED <<ev, overshot, destination, motpos, pos, goal, dir,
                     history, aborted, outside>>
  PROVE  IInv'
<1>1. TypeOK
  BY DEF IInv
<1>2. DriveTypeOK'
  BY <1>1 DEF TypeOK, DriveTypeOK, history
<1>3. aborted' \in BOOLEAN
  BY <1>1, Kept
<1> QED  BY <1>2, <1>3, LeavesLoop

LEMMA HaltMotorInv == ASSUME IInv, HaltMotor PROVE IInv'
<1>1. /\ TypeOK /\ y.at = "halt" /\ m0 \in Motor /\ y.cur \in Motor
      /\ y.cur + 1 \in 0..NumMotors+1 /\ y.cur + 1 >= 1
  BY DEF IInv, HaltMotor, Looking, m0, Motor
<1>2. CASE Stop(m0)
           /\ UNCHANGED <<overshot, destination, motpos, pos, goal, dir>>
  <2>1. PICK s \in Stops(m0) \cup LostStops(m0) :
          /\ \/ s \in Stops(m0) /\ UNCHANGED faults
             \/ s \in LostStops(m0) /\ Fault
          /\ running' = [k \in Motor |-> running[k] /\ k \notin s.motors]
          /\ IF s.lreply = NoReply
             THEN /\ y' = [y EXCEPT !.cur = @ + 1, !.lreply = NoReply,
                                    !.stoperr = TRUE]
                  /\ UNCHANGED moving
             ELSE /\ y' = [y EXCEPT !.cur = @ + 1, !.lreply = s.lreply,
                                    !.adjpos = @ \/ TrackMoves,
                                    !.ckpos[m0] = @ \/ TrackMoves]
                  /\ moving' = [moving EXCEPT ![m0] = FALSE]
    BY <1>2 DEF Stop
  <2>2. s.lreply \in {NoReply, Reply}
    BY <1>1, Fields DEF Stops, LostStops
  <2>3. running' \in [Motor -> BOOLEAN]
    BY <2>1, Zenon
  <2>4. faults' \in 0..MaxFaults
    BY <1>1, <2>1, FaultType, Kept
  <2>5. CASE s.lreply = NoReply
    <3>1. /\ y' = [y EXCEPT !.cur = @ + 1, !.lreply = NoReply, !.stoperr = TRUE]
          /\ moving' = moving
      BY <2>1, <2>5
    <3>2. y' \in Locals /\ y'.at = "halt" /\ y'.cur = y.cur + 1
      BY <1>1, <3>1, Fields DEF Locals
    <3>3. moving' \in [Motor -> BOOLEAN]
      BY <1>1, <3>1, Kept
    <3> QED  BY <1>1, <1>2, <2>3, <2>4, <3>2, <3>3, HaltingInv DEF HaltMotor
  <2>6. CASE s.lreply # NoReply
    <3>1. /\ y' = [y EXCEPT !.cur = @ + 1, !.lreply = s.lreply,
                            !.adjpos = @ \/ TrackMoves,
                            !.ckpos[m0] = @ \/ TrackMoves]
          /\ moving' = [moving EXCEPT ![m0] = FALSE]
      BY <2>1, <2>6
    <3>2. [y.ckpos EXCEPT ![m0] = @ \/ TrackMoves] \in [Motor -> BOOLEAN]
      BY <1>1, Fields, Zenon
    <3>3. (y.adjpos \/ TrackMoves) \in BOOLEAN
      OBVIOUS
    <3>4. y' \in Locals
      BY <1>1, <2>2, <3>1, <3>2, <3>3, Fields DEF Locals
    <3>5. y'.at = "halt" /\ y'.cur = y.cur + 1
      BY <1>1, <3>1, Fields DEF Locals
    <3>6. moving' \in [Motor -> BOOLEAN]
      BY <1>1, <3>1, Kept
    <3> QED
      BY <1>1, <1>2, <2>3, <2>4, <3>4, <3>5, <3>6, HaltingInv DEF HaltMotor
  <2> QED  BY <2>5, <2>6
<1>3. CASE y' = [y EXCEPT !.cur = @ + 1] /\ UNCHANGED <<program, motors, faults>>
  <2>1. y' \in Locals /\ y'.at = "halt" /\ y'.cur = y.cur + 1
    BY <1>1, <1>3, Fields DEF Locals
  <2>2. /\ faults' \in 0..MaxFaults /\ moving' \in [Motor -> BOOLEAN]
        /\ running' \in [Motor -> BOOLEAN]
    BY <1>1, <1>3 DEF TypeOK, DriveTypeOK, program, motors
  <2> QED  BY <1>1, <1>3, <2>1, <2>2, HaltingInv DEF HaltMotor, program, motors
<1> QED  BY <1>2, <1>3 DEF HaltMotor

LEMMA HaltAgainInv == ASSUME IInv, HaltAgain PROVE IInv'
<1>1. TypeOK /\ y.at = "halt"
  BY DEF IInv, HaltAgain
<1>2. y.notries + 1 \in 0..Tries /\ 1 \in 0..NumMotors+1
  BY <1>1, Fields DEF HaltAgain
<1>3. y' = [y EXCEPT !.cur = 1, !.stoperr = FALSE, !.notries = @ + 1]
  BY DEF HaltAgain
<1>4. y' \in Locals /\ y'.at = "halt" /\ y'.cur = 1
  BY <1>1, <1>2, <1>3, Fields DEF Locals
<1>5. /\ faults' \in 0..MaxFaults /\ moving' \in [Motor -> BOOLEAN]
      /\ running' \in [Motor -> BOOLEAN]
  BY <1>1 DEF TypeOK, DriveTypeOK, HaltAgain, driveVars, program, motors
<1> QED  BY <1>1, <1>4, <1>5, HaltingInv
         DEF HaltAgain, driveVars, program, motors

LEMMA HaltDoneInv == ASSUME IInv, HaltDone PROVE IInv'
<1>1. TypeOK
  BY DEF IInv
<1>2. DriveTypeOK' /\ aborted' \in BOOLEAN
  BY <1>1 DEF HaltDone, TypeOK, DriveTypeOK, motors, history
<1>3. y' \in Locals /\ y'.at = "fix"
  BY <1>1, Fields, PlaceFacts DEF HaltDone, Locals
<1> QED  BY <1>2, <1>3, LeavesLoop DEF HaltDone

LEMMA FixInv == ASSUME IInv, Fix PROVE IInv'
<1>1. TypeOK
  BY DEF IInv
<1>2. PICK bad \in SUBSET {m \in Checked : MotType[m] # "PICO"} :
       /\ \/ bad = {} /\ UNCHANGED faults
          \/ bad # {} /\ Fault
       /\ motpos' = [m \in Motor |-> IF m \in bad THEN NoAngle
                                     ELSE IF m \in Checked THEN Known(m)
                                     ELSE motpos[m]]
  BY DEF Fix
<1>3. faults' \in 0..MaxFaults
  BY <1>1, <1>2, FaultType, Kept
<1>4. motpos' \in [Motor -> Int]
  BY <1>1, <1>2 DEF TypeOK, DriveTypeOK, Known, NoAngle
<1>5. DriveTypeOK' /\ aborted' \in BOOLEAN
  BY <1>1, <1>3, <1>4 DEF Fix, TypeOK, DriveTypeOK, motors, history
<1>6. y' \in Locals /\ y'.at = "idle"
  BY <1>1, Fields, PlaceFacts DEF Fix, Locals
<1>7. \A k \in Motor : ~moving'[k]
  BY DEF IInv, FlagsDown, Fix
<1> QED  BY <1>5, <1>6, <1>7, LeavesLoop DEF Fix

\* Steps of the operator and of the motors leave Yield where it is.
LEMMA Elsewhere ==
  ASSUME IInv, DriveTypeOK', UNCHANGED <<moving, y, aborted, commands>>,
         signals' \in 0..MaxSignals
  PROVE  IInv'
<1>1. TypeOK'
  BY DEF IInv, TypeOK
<1> QED  BY <1>1 DEF IInv, FlagsDown, PassSound

LEMMA InterruptInv == ASSUME IInv, Interrupt PROVE IInv'
<1>1. TypeOK
  BY DEF IInv
<1>2. ev' \in EventState
  BY <1>1, SetType, Kept DEF Interrupt, Flags, Signals
<1>3. DriveTypeOK'
  BY <1>1, <1>2, QuietType, Kept DEF Interrupt, history
<1>4. signals' \in 0..MaxSignals
  BY <1>1 DEF TypeOK, Interrupt
<1> QED  BY <1>3, <1>4, Elsewhere DEF Interrupt, program

LEMMA TurnMotorInv ==
  ASSUME IInv, NEW m \in Motor, TurnMotor(m) PROVE IInv'
<1>1. TypeOK
  BY DEF IInv
<1>2. /\ pos' \in [Motor -> Int] /\ dir' \in [Motor -> {-1, 0, 1}]
  BY <1>1 DEF TypeOK, DriveTypeOK, TurnMotor, Turn
<1>3. running' \in [Motor -> BOOLEAN]
  BY <1>1, Zenon DEF TypeOK, DriveTypeOK, TurnMotor, Turn
<1>4. DriveTypeOK'
  BY <1>1, <1>2, <1>3
  DEF TypeOK, DriveTypeOK, TurnMotor, Turn, program, history
<1>5. signals' \in 0..MaxSignals
  BY <1>1 DEF TypeOK, TurnMotor, outside
<1> QED  BY <1>4, <1>5, Elsewhere DEF TurnMotor, Turn, program, outside

\* Every step preserves the invariant.
LEMMA StepIInv == ASSUME IInv, [Next]_vars PROVE IInv'
<1>1. CASE Work
  BY <1>1, DriveNextInv, EnterYieldInv, EnterYieldAbortedInv, AbortInv,
     PollMotorInv, EndOfPassInv, StatusReplyInv, StatusLastVmeInv,
     StatusRetryInv, StatusNoneAcsInv, StatusNoneInv, OnLimitInv,
     WhereOnLimitInv, DriveOffLimitInv, StoppedInv, SecondLegInv,
     FinalPositionInv, FinalRetryInv, FinalNoneAcsInv, FinalNoneInv,
     FinalNoiseInv, FinalNoiseLostInv, CorrectInv, CorrectCountedInv, RewriteInv,
     HaltMotorInv, HaltAgainInv, HaltDoneInv, FixInv
  DEF Work
<1>2. CASE UNCHANGED vars
  BY <1>2 DEF vars, driveVars, program, motors, history, IInv, TypeOK,
              DriveTypeOK, FlagsDown, PassSound
<1> QED
  BY <1>1, <1>2, CommandInv, InterruptInv, TurnMotorInv DEF Next, Rest

-----------------------------------------------------------------------------
\* In every reachable state IInv holds.
THEOREM Invariance == Spec => []IInv
  BY InitIInv, StepIInv, PTL DEF Spec

\* Every variable keeps its type: whatever a controller answers, or fails to,
\* Yield's counters stay within their loops' bounds and its motor is a motor.
THEOREM TypeCorrect == Spec => []TypeOK
<1>1. IInv => TypeOK
  BY DEF IInv
<1> QED  BY <1>1, Invariance, PTL

\* When Yield returns no motor is left flagged as moving, by whichever of its
\* three exits it leaves.
THEOREM FlagsComeDown == Spec => []FlagsDown
<1>1. IInv => FlagsDown
  BY DEF IInv
<1> QED  BY <1>1, Invariance, PTL

\* all_finished never covers up a motor that still moves.
THEOREM NoMotorForgotten == Spec => []PassSound
<1>1. IInv => PassSound
  BY DEF IInv
<1> QED  BY <1>1, Invariance, PTL

-----------------------------------------------------------------------------
(***************************************************************************)
(* The motors of ACS controllers do not run away.                          *)
(***************************************************************************)

Acs == {m \in Motor : MotType[m] = "ACS"}

\* Why a motor that turns is not forgotten: Yield still waits for it or has
\* complained about it.  While motors are halted, one whose flag is up has lost a
\* stop command in every pass that looked at it, so the passes end with the
\* flags down before the tries do.
Braked ==
  /\ \A m \in Acs : running[m] => moving[m] \/ m \in gaveup
  /\ y.at = "halt" =>
       \A m \in Acs : moving[m] =>
         /\ m < y.cur => y.stoperr
         /\ y.notries + (IF m < y.cur THEN 1 ELSE 0) <= faults

\* A step that starts no motor and lowers no flag of a turning one.
LEMMA BrakedKept ==
  ASSUME Braked, y'.at # "halt",
         \A m \in Acs : running'[m] => running[m],
         \A m \in Acs : running'[m] /\ moving[m] => moving'[m] \/ m \in gaveup',
         gaveup \subseteq gaveup'
  PROVE  Braked'
  BY DEF Braked

\* A step that only waits, asks or goes on.
LEMMA BrakedQuiet ==
  ASSUME IInv, Braked, y'.at # "halt",
         UNCHANGED <<running, moving>>, gaveup \subseteq gaveup'
  PROVE  Braked'
  BY BrakedKept

\* A motor that is given up on is among those complained about.
LEMMA BrakedAbandon ==
  ASSUME IInv, Braked, Nsta # 8, Looking, NEW v \in Locals, v.cur = y.cur,
         AbandonAcs(m0, v) \/ Abandon(m0, v), UNCHANGED running,
         m0 \in Acs => m0 \in gaveup', gaveup \subseteq gaveup'
  PROVE  Braked'
<1>1. Abandon(m0, v) /\ v.cur \in Motor /\ m0 \in Motor
  BY DEF AbandonAcs, Looking, m0
<1>2. moving' = [moving EXCEPT ![m0] = FALSE] /\ moving \in [Motor -> BOOLEAN]
  BY <1>1, Kept DEF Abandon, IInv
<1>3. y'.at # "halt"
  BY <1>1, NextMotorType DEF Abandon
<1>4. \A m \in Acs : moving[m] => moving'[m] \/ m \in gaveup'
  BY <1>1, <1>2 DEF Acs
<1> QED  BY <1>3, <1>4, BrakedKept

\* A motor that Drive sets in motion is waited for.
LEMMA BrakedDrive ==
  ASSUME DriveTypeOK, Braked, y'.at # "halt", NEW m \in Motor, NEW t, NEW e, NEW d,
         DriveTo(m, t, e, d)
  PROVE  Braked'
<1>1. CASE DriveFails(m, e) \/ DriveInPlace(m, t, e)
  BY <1>1, BrakedKept DEF DriveFails, DriveInPlace, program, motors
<1>2. CASE DriveMoves(m, t, e, d)
  <2>1. moving' = [moving EXCEPT ![m] = TRUE] /\ gaveup' = gaveup
    BY <1>2 DEF DriveMoves
  <2>2. \A k \in Acs : k # m => (running'[k] => running[k])
    BY <1>2 DEF DriveMoves, Go, motors, DriveTypeOK, Acs
  <2>3. \A k \in Acs : running'[k] => moving'[k] \/ k \in gaveup'
    BY <2>1, <2>2 DEF Braked, DriveTypeOK, Acs
  <2> QED  BY <2>3 DEF Braked
<1> QED  BY <1>1, <1>2 DEF DriveTo

\* Yield asks, waits or judges, but changes no motor and no flag.
Quietly ==
  \/ EnterYield \/ PollMotor \/ EndOfPass \/ StatusRetry \/ WhereOnLimit
  \/ Stopped \/ FinalPosition \/ FinalRetry \/ FinalNone \/ FinalNoise
  \/ CorrectCounted \/ Fix

LEMMA QuietlyKeeps ==
  ASSUME Quietly
  PROVE  /\ UNCHANGED <<moving, destination, motors, asked, driven, aborted>>
         /\ gaveup \subseteq gaveup' /\ gaveup' \subseteq gaveup \cup {m0}
  BY Zenon DEF Quietly, EnterYield, PollMotor, EndOfPass, StatusRetry,
     WhereOnLimit, Stopped, FinalPosition, FinalRetry, FinalNone, FinalNoise,
     CorrectCounted, Fix, Report, program, history

\* It is not halting motors then.
LEMMA QuietlyAt ==
  ASSUME TypeOK, Quietly
  PROVE  y'.at # "halt"
<1>1. y \in Locals
  BY Fields
<1>2. CASE EnterYield \/ PollMotor \/ EndOfPass \/ StatusRetry
  BY <1>1, <1>2 DEF EnterYield, PollMotor, EndOfPass, StatusRetry, At, NextMotor, Locals
<1>3. CASE WhereOnLimit \/ Stopped
  BY <1>1, <1>3 DEF WhereOnLimit, AfterLimit, Stopped, NextMotor, Locals
<1>4. CASE FinalPosition \/ FinalRetry \/ FinalNone \/ FinalNoise
  BY <1>1, <1>4 DEF FinalPosition, FinalRetry, FinalNone, FinalNoise, At,
     Judged, NextMotor, Locals
<1>5. CASE CorrectCounted \/ Fix
  BY <1>1, <1>5 DEF CorrectCounted, Fix, NextMotor, Locals
<1> QED  BY <1>2, <1>3, <1>4, <1>5 DEF Quietly

\* Steps that send a motor somewhere.
Drives ==
  \/ DriveOffLimit \/ SecondLeg \/ Correct \/ Rewrite

LEMMA DrivesTo ==
  ASSUME IInv, Drives
  PROVE  /\ y.at \in Attending \ {"status"} /\ Looking /\ m0 \in Motor
         /\ DriveTo(m0, destination[m0], Seen, TRUE)
         /\ UNCHANGED <<asked, aborted, outside>>
         /\ y'.at = "poll" \/ (MotType[m0] = "PIMOT" /\ y'.at = "stopped")
<1>1. /\ TypeOK /\ y.at \in Attending \ {"status"} /\ Looking /\ m0 \in Motor
  BY PlaceFacts DEF Drives, DriveOffLimit, SecondLeg, Correct, Rewrite, At,
                    IInv, TypeOK, Looking, m0
<1>2. /\ DriveTo(m0, destination[m0], Seen, TRUE)
      /\ UNCHANGED <<asked, aborted, outside>>
  BY DEF Drives, DriveOffLimit, SecondLeg, Correct, Rewrite
<1>3. y'.at = "poll" \/ (MotType[m0] = "PIMOT" /\ y'.at = "stopped")
  <2>1. CASE y' = StillMoving(y)
    BY <1>1, <2>1, StillMovingType, Fields DEF Looking
  <2>2. CASE y' = AfterLimit([y EXCEPT !.finished = FALSE])
    BY <1>1, <2>2, Fields DEF AfterLimit, NextMotor, Locals
  <2> QED  BY <2>1, <2>2 DEF Drives, DriveOffLimit, SecondLeg, Correct, Rewrite
<1> QED  BY <1>1, <1>2, <1>3

\* Steps that give up on the motor looked at.
Leaves(v) ==
  /\ Looking /\ y.at \in Attending
  /\ v \in Locals /\ v.cur = y.cur /\ v \in {y, ToCheck(m0)}
  /\ AbandonAcs(m0, v) \/ Abandon(m0, v)
  /\ UNCHANGED <<overshot, destination, motpos, motors, asked, driven, outside>>
  /\ \/ gaveup' = gaveup \cup {m0}
     \/ UNCHANGED gaveup /\ MotType[m0] \notin {"ACS", "VME"}

Gives ==
  \/ StatusLastVme \/ StatusNoneAcs \/ FinalNoneAcs \/ FinalNoiseLost
  \/ OnLimit /\ ~GoesBack(m0)

LEMMA GivesUp == ASSUME IInv, Gives PROVE \E v : Leaves(v)
<1>1. /\ TypeOK /\ y.at \in Attending /\ Looking /\ m0 \in Motor
  BY Attends, PlaceFacts DEF Gives, StatusLastVme, StatusNoneAcs, FinalNoneAcs,
                             FinalNoiseLost, OnLimit
<1>2. /\ y \in Locals /\ ToCheck(m0) \in Locals /\ ToCheck(m0).cur = y.cur
  BY <1>1, Fields, ToCheckType
<1>3. UNCHANGED <<overshot, destination, motpos, motors, asked, driven, outside>>
  BY DEF Gives, StatusLastVme, StatusNoneAcs, FinalNoneAcs, FinalNoiseLost,
         OnLimit, Report, history
<1>4. \/ gaveup' = gaveup \cup {m0}
      \/ UNCHANGED gaveup /\ MotType[m0] \notin {"ACS", "VME"}
  BY DEF Gives, StatusLastVme, StatusNoneAcs, FinalNoneAcs, FinalNoiseLost,
         OnLimit, Report, history
<1>5. \/ AbandonAcs(m0, y) \/ Abandon(m0, y) \/ AbandonAcs(m0, ToCheck(m0))
  BY DEF Gives, StatusLastVme, StatusNoneAcs, FinalNoneAcs, FinalNoiseLost,
         OnLimit
<1> QED  BY <1>1, <1>2, <1>3, <1>4, <1>5 DEF Leaves

LEMMA BrakedLeaves ==
  ASSUME IInv, Braked, Nsta # 8, NEW v, Leaves(v) PROVE Braked'
  BY BrakedAbandon DEF Leaves, motors, Acs

\* Going into the stop loop, nothing is counted yet.
LEMMA BrakedAbort ==
  ASSUME TypeOK, Braked, Abort \/ EnterYieldAborted PROVE Braked'
<1>1. /\ y'.at = "halt" /\ y'.cur = 1 /\ y'.notries = 0
  <2>1. y \in Locals
    BY Fields
  <2>2. CASE Abort
    BY <2>1, <2>2 DEF Abort, Locals
  <2>3. CASE EnterYieldAborted
    BY <2>1, <2>3 DEF EnterYieldAborted, Locals
  <2> QED  BY <2>2, <2>3
<1>2. UNCHANGED <<program, motors, faults, history>> /\ faults \in Nat
  <2>1. faults \in Nat
    BY Kept
  <2> QED  BY <2>1, Zenon DEF Abort, EnterYieldAborted
<1>3. \A m \in Acs : ~(m < y'.cur)
  BY <1>1 DEF Acs, Motor
<1>4. y'.notries + 0 <= faults'
  BY <1>1, <1>2
<1>5. \A m \in Acs : running'[m] => moving'[m] \/ m \in gaveup'
  BY <1>2 DEF Braked, program, motors, history
<1> QED  BY <1>3, <1>4, <1>5 DEF Braked

LEMMA BrakedStatus ==
  ASSUME IInv, Braked, StatusReply \/ StatusNone PROVE Braked'
<1> DEFINE v == [y EXCEPT !.lreply = IF MotType[m0] = "ACS" THEN Reply ELSE @]
<1>1. /\ TypeOK /\ Looking /\ m0 \in Motor /\ moving \in [Motor -> BOOLEAN]
  BY Attends, PlaceFacts, Kept DEF StatusReply, StatusNone
<1>2. v \in Locals /\ v.cur = y.cur
  BY <1>1, Fields DEF Locals
<1>3. UNCHANGED <<motors, history>>
  BY DEF StatusReply, StatusNone
<1>4. y'.at # "halt"
  <2>1. \/ y' = StillMoving(v) \/ y' = StillMoving(y)
        \/ \E s : y' = [v EXCEPT !.at = "stopped", !.status = s]
        \/ \E s : y' = [y EXCEPT !.at = "stopped", !.status = s]
    BY DEF StatusReply, StatusNone
  <2> HIDE DEF v
  <2> QED  BY <1>1, <1>2, <2>1, Fields, StillMovingType DEF Looking, Locals
<1>5. \A m \in Acs : running[m] /\ moving[m] => moving'[m]
  <2>1. moving' = moving \/ moving' = [moving EXCEPT ![m0] = FALSE]
    BY DEF StatusReply, StatusNone
  <2>2. moving' = moving \/ ~running[m0] \/ m0 \notin Acs
    BY DEF StatusReply, StatusNone, Acs
  <2> QED  BY <1>1, <2>1, <2>2 DEF Acs
<1> QED  BY <1>3, <1>4, <1>5, BrakedKept DEF motors, history

\* What a stop command does to the motor of an ACS controller.
LEMMA AcsStops ==
  ASSUME NEW m \in Acs
  PROVE  /\ \A s \in Stops(m) : m \in s.motors /\ s.lreply # NoReply
         /\ \A s \in LostStops(m) : s.lreply = NoReply
<1>1. MotType[m] = "ACS"
  BY DEF Acs
<1>2. Stops(m) = {[motors |-> {m}, lreply |-> Reply]}
  BY <1>1 DEF Stops
<1>3. LostStops(m) = {[motors |-> s, lreply |-> NoReply] : s \in {{}, {m}}}
  BY <1>1 DEF LostStops
<1> QED  BY <1>2, <1>3 DEF NoReply, Reply

LEMMA BrakedHaltMotor == ASSUME IInv, Braked, HaltMotor PROVE Braked'
<1>1. /\ TypeOK /\ y.at = "halt" /\ m0 \in Motor /\ y.cur \in Motor
      /\ y \in Locals /\ y.notries \in Nat /\ faults \in Nat
      /\ moving \in [Motor -> BOOLEAN]
  BY Fields, Kept DEF IInv, HaltMotor, Looking, m0
<1>2. UNCHANGED history
  BY DEF HaltMotor
<1>3. CASE Stop(m0)
  <2>1. PICK s \in Stops(m0) \cup LostStops(m0) :
          /\ \/ s \in Stops(m0) /\ UNCHANGED faults
             \/ s \in LostStops(m0) /\ Fault
          /\ running' = [k \in Motor |-> running[k] /\ k \notin s.motors]
          /\ IF s.lreply = NoReply
             THEN /\ y' = [y EXCEPT !.cur = @ + 1, !.lreply = NoReply,
                                    !.stoperr = TRUE]
                  /\ UNCHANGED moving
             ELSE /\ y' = [y EXCEPT !.cur = @ + 1, !.lreply = s.lreply,
                                    !.adjpos = @ \/ TrackMoves,
                                    !.ckpos[m0] = @ \/ TrackMoves]
                  /\ moving' = [moving EXCEPT ![m0] = FALSE]
    BY <1>3 DEF Stop
  <2>2. /\ y'.at = "halt" /\ y'.cur = y.cur + 1 /\ y'.notries = y.notries
        /\ y'.stoperr = (y.stoperr \/ s.lreply = NoReply)
    BY <1>1, <2>1 DEF Locals
  <2>3. faults' \in Nat /\ faults' >= faults
    BY <1>1, <2>1 DEF Fault
  <2>4. \A m \in Acs \ {m0} : /\ running'[m] => running[m]
                              /\ moving'[m] = moving[m]
    BY <1>1, <2>1 DEF Acs
  <2>5. ASSUME m0 \in Acs
        PROVE  \/ ~running'[m0] /\ ~moving'[m0]
               \/ /\ running'[m0] => running[m0]
                  /\ moving'[m0] = moving[m0]
                  /\ y'.stoperr /\ faults' = faults + 1
    <3>1. CASE s \in Stops(m0)
      <4>1. m0 \in s.motors /\ s.lreply # NoReply
        BY <2>5, <3>1, AcsStops
      <4> QED  BY <1>1, <2>1, <4>1
    <3>2. CASE s \in LostStops(m0) /\ Fault
      <4>1. s.lreply = NoReply
        BY <2>5, <3>2, AcsStops
      <4> QED  BY <1>1, <2>1, <2>2, <3>2, <4>1 DEF Fault
    <3> QED  BY <2>1, <3>1, <3>2
  <2>6. ASSUME NEW m \in Acs
        PROVE  /\ running'[m] => moving'[m] \/ m \in gaveup'
               /\ moving'[m] /\ m < y'.cur => y'.stoperr
               /\ moving'[m] =>
                    y'.notries + (IF m < y'.cur THEN 1 ELSE 0) <= faults'
    <3>1. /\ m \in Motor /\ (m < y'.cur => m < y.cur \/ m = m0)
      BY <1>1, <2>2 DEF Acs, Motor, m0
    <3>2. CASE m = m0
      <4>1. /\ running'[m] => moving'[m] \/ m \in gaveup'
            /\ moving'[m] => y'.stoperr
        BY <1>2, <2>5, <2>6, <3>2 DEF Braked, history
      <4>2. moving'[m] => y'.notries + 1 <= faults'
        <5>1. moving[m] => y.notries <= faults
          <6>1. ~(m < y.cur) /\ y.notries + 0 = y.notries
            BY <1>1, <3>1, <3>2 DEF m0, Motor
          <6> QED  BY <1>1, <2>6, <6>1 DEF Braked
        <5>2. m0 \in Acs /\ m = m0
          BY <2>6, <3>2
        <5>3. moving'[m] => moving[m] /\ faults' = faults + 1
          BY <2>5, <5>2, Zenon
        <5> QED  BY <1>1, <2>2, <5>1, <5>3
      <4> QED  BY <1>1, <2>2, <2>3, <4>1, <4>2
    <3>3. CASE m # m0
      <4>1. /\ running'[m] => running[m]
            /\ moving'[m] = moving[m]
        BY <2>4, <2>6, <3>3
      <4>2. /\ running[m] => moving[m] \/ m \in gaveup
            /\ moving[m] => /\ m < y.cur => y.stoperr
                            /\ y.notries + (IF m < y.cur THEN 1 ELSE 0) <= faults
        BY <1>1, <2>6 DEF Braked
      <4>3. m < y'.cur => m < y.cur
        BY <3>1, <3>3
      <4>4. /\ running'[m] => moving'[m] \/ m \in gaveup'
            /\ moving'[m] /\ m < y'.cur => y'.stoperr
        BY <1>2, <2>2, <4>1, <4>2, <4>3 DEF history
      <4>5. moving'[m] =>
              y'.notries + (IF m < y'.cur THEN 1 ELSE 0) <= faults'
        BY <1>1, <2>2, <2>3, <4>1, <4>2, <4>3
      <4> QED  BY <4>4, <4>5
    <3> QED  BY <3>2, <3>3
  <2> QED  BY <2>6 DEF Braked
<1>4. CASE ~moving[m0] /\ y' = [y EXCEPT !.cur = @ + 1]
           /\ UNCHANGED <<program, motors, faults>>
  <2>1. /\ y'.cur = y.cur + 1 /\ y'.notries = y.notries
        /\ y'.stoperr = y.stoperr
    BY <1>1, <1>4 DEF Locals
  <2>2. UNCHANGED <<moving, running, gaveup, faults>>
    BY <1>2, <1>4 DEF program, motors, history
  <2>3. ASSUME NEW m \in Acs, moving[m]
        PROVE  m < y'.cur => m < y.cur
    BY <1>1, <1>4, <2>1, <2>3 DEF Acs, Motor, m0
  <2> QED  BY <1>1, <2>1, <2>2, <2>3 DEF Braked
<1> QED  BY <1>3, <1>4 DEF HaltMotor

LEMMA BrakedHaltAgain == ASSUME TypeOK, Braked, HaltAgain PROVE Braked'
<1>1. /\ y'.cur = 1 /\ y'.notries = y.notries + 1 /\ ~y'.stoperr
      /\ y.at = "halt" /\ y.notries \in Nat /\ faults \in Nat
      /\ y.cur \notin Motor /\ y.cur \in 0..NumMotors+1 /\ y.cur >= 1
  BY Fields, Kept DEF HaltAgain, Locals, TypeOK, Looking
<1>2. UNCHANGED <<moving, running, gaveup, faults>>
  BY DEF HaltAgain, driveVars, program, motors, history
<1>3. \A m \in Acs : m < y.cur /\ ~(m < y'.cur)
  BY <1>1 DEF Acs, Motor
<1>4. \A m \in Acs : moving[m] => y.notries + 1 <= faults
  BY <1>1, <1>3 DEF Braked
<1>5. \A m \in Acs : moving[m] => y'.notries + 0 <= faults
  BY <1>1, <1>4
<1> QED  BY <1>2, <1>3, <1>5 DEF Braked

\* The flags the stop loop leaves up are none: that would be a fault per try.
LEMMA BrakedHaltDone ==
  ASSUME TypeOK, Braked, MaxFaults < Tries, HaltDone PROVE Braked'
<1>1. /\ y'.at = "fix"
      /\ y.at = "halt" /\ y.notries \in Nat /\ faults \in 0..MaxFaults
      /\ y.cur \notin Motor /\ y.cur \in 0..NumMotors+1 /\ y.cur >= 1
  BY Fields, Kept DEF HaltDone, Locals, TypeOK, Looking
<1>2. \A m \in Acs : m < y.cur
  BY <1>1 DEF Acs, Motor
<1>3. ASSUME NEW m \in Acs, moving[m]
      PROVE  FALSE
  <2>1. y.stoperr /\ y.notries + 1 <= faults
    BY <1>1, <1>2, <1>3 DEF Braked
  <2> QED  BY <1>1, <2>1 DEF HaltDone
<1> QED  BY <1>1, <1>3, BrakedKept DEF HaltDone, motors, history

\* The operator and the motors.
LEMMA BrakedElsewhere ==
  ASSUME Braked, UNCHANGED <<moving, y, gaveup, faults>>,
         \A m \in Acs : running'[m] => running[m]
  PROVE  Braked'
  BY DEF Braked

LEMMA StepBraked ==
  ASSUME IInv, Braked, Nsta # 8, MaxFaults < Tries, [Next]_vars
  PROVE  Braked'
<1>1. TypeOK /\ DriveTypeOK
  BY DEF IInv, TypeOK
<1>2. CASE Quietly
  BY <1>1, <1>2, QuietlyKeeps, QuietlyAt, BrakedQuiet DEF motors
<1>3. CASE Drives
  <2>1. y'.at # "halt" /\ m0 \in Motor
        /\ DriveTo(m0, destination[m0], Seen, TRUE)
    BY <1>3, DrivesTo
  <2> QED  BY <1>1, <2>1, BrakedDrive
<1>4. CASE Gives
  BY <1>4, GivesUp, BrakedLeaves
<1>5. CASE OnLimit /\ GoesBack(m0)
  <2>1. y'.at # "halt"
    BY <1>1, <1>5, Fields DEF OnLimit, Locals
  <2>2. UNCHANGED <<running, moving>> /\ gaveup \subseteq gaveup'
    BY <1>5 DEF OnLimit, motors, Report, history
  <2> QED  BY <2>1, <2>2, BrakedQuiet
<1>6. CASE DriveNext
  <2>1. y'.at # "halt" /\ Looking /\ m0 \in Motor
    BY <1>1, <1>6, Fields DEF DriveNext, Locals, Looking, m0
  <2>2. CASE UNCHANGED <<program, motors, faults, history>>
    BY <2>1, <2>2, BrakedQuiet DEF program, motors, history
  <2>3. CASE \E p \in Target(m0) : DriveTo(m0, p, READEF(ev), FALSE)
    BY <1>1, <2>1, <2>3, BrakedDrive
  <2> QED  BY <1>6, <2>2, <2>3 DEF DriveNext
<1>7. CASE Command
  <2>1. y'.at # "halt"
    BY <1>1, <1>7, Fields DEF Command, Locals
  <2>2. UNCHANGED <<moving, running>>
        /\ \A m \in Acs : m \in gaveup /\ running[m] => m \in gaveup'
    BY <1>7 DEF Command, program, motors
  <2> QED  BY <2>1, <2>2 DEF Braked
<1>8. CASE Interrupt \/ UNCHANGED vars
  BY <1>8, BrakedElsewhere DEF Interrupt, vars, driveVars, program, motors, history
<1>9. ASSUME NEW m \in Motor, TurnMotor(m)
      PROVE  Braked'
  <2>1. \A k \in Acs : running'[k] => running[k]
    BY <1>1, <1>9 DEF TurnMotor, Turn, DriveTypeOK, Acs
  <2> QED  BY <1>9, <2>1, BrakedElsewhere DEF TurnMotor, Turn, program, history
<1> QED
  BY <1>1, <1>2, <1>3, <1>4, <1>5, <1>6, <1>7, <1>8, <1>9, BrakedAbort,
     BrakedStatus, BrakedHaltMotor, BrakedHaltAgain, BrakedHaltDone
  DEF Next, Work, Rest, Quietly, Drives, Gives

\* In a mixture of controllers, with fewer failing transactions than tries and
\* not on BT8, an ACS motor that still turns when Yield returns has been
\* reported: no stop is taken for granted, and no turning motor is let go
\* silently.
AcsCaught == Returned => \A m \in Acs : running[m] => m \in gaveup

THEOREM NoRunawayAcs ==
  ASSUME Nsta # 8, MaxFaults < Tries
  PROVE  Spec => []AcsCaught
<1>1. Init => Braked
  BY DEF Init, DriveInit, Braked, Acs
<1>2. IInv /\ Braked /\ [Next]_vars => Braked'
  BY StepBraked
<1>3. IInv /\ Braked => AcsCaught
  BY PlaceFacts DEF IInv, FlagsDown, Braked, AcsCaught, Returned, Acs
<1> QED  BY <1>1, <1>2, <1>3, Invariance, PTL DEF Spec

\* Where all motors are ACS motors, nothing turns behind the program's back.
THEOREM NoRunawayAlways ==
  ASSUME Acs = Motor, Nsta # 8, MaxFaults < Tries
  PROVE  Spec => []NoRunaway
<1>1. AcsCaught => NoRunaway
  BY DEF AcsCaught, NoRunaway
<1> QED  BY <1>1, NoRunawayAcs, PTL

-----------------------------------------------------------------------------
(***************************************************************************)
(* Where the motors end.  Every invariant below says something of the      *)
(* motors one by one, so every step is looked at twice: what it does to    *)
(* the motor Yield attends to, and that the others stay as they are.       *)
(***************************************************************************)

\* The motors whose final position is read and judged: ACS motors on a clean
\* line, and VME motors that are read at least once in all their tries.
Sure == {m \in Motor : \/ MotType[m] = "ACS" /\ ~LineNoise
                       \/ MotType[m] = "VME" /\ MaxFaults < Tries}

\* Those a command has moved and not complained about.
Worked == Sure \cap (driven \ gaveup)

\* Places where Yield has seen motor y.cur stop and not let go of it.
Judging == {"stopped", "return", "final", "correct", "rewrite"}

Attended(m) == y.at \in Judging /\ y.cur = m

Off(m) == Abs(pos[m] - destination[m]) > Merr[m]

Arrived(m) == ~running[m] /\ ~Off(m)

\* Which motors are waited for, and for what.
Driven ==
  /\ \A m \in Motor : moving[m] => m \in driven
  /\ \A m \in Sure \cap driven : asked[m] = destination[m]
  /\ y.at = "drive" => \A m \in driven : m > y.cur
  /\ y.at = "halt" => aborted

\* What is known of the motor Yield attends to; a VME motor whose position
\* cannot be read costs a fault per try.
Looked ==
  /\ y.at \in Attending => y.cur \in driven
  /\ y.at \in Attending \ {"status"} /\ y.cur \in Sure => ~running[y.cur]
  /\ y.at \in {"back", "off"} => y.cur \in gaveup
  /\ y.at = "final" /\ MotType[y.cur] = "VME" => Tries - y.mtries <= faults

Placed == Driven /\ Looked

\* A motor is waited for, has arrived, or is being looked at.
Reached ==
  ~aborted => \A m \in Worked : moving[m] \/ Arrived(m) \/ Attended(m)

\* A step leaves this motor and what is known of it alone.
Same(k) ==
  UNCHANGED <<moving[k], running[k], pos[k], destination[k], asked[k],
              k \in driven, k \in gaveup>>

LEMMA Kinded ==
  /\ Sure \subseteq Motor
  /\ \A m \in Sure : MotType[m] \in {"ACS", "VME"} /\ Unit(m) = 1
                     /\ Known(m) = pos[m]
  BY DEF Sure, Unit, Known

\* The places where Yield waits or looks.
LEMMA JudgingFacts ==
  /\ Judging \subseteq Attending \ {"status"}
  /\ "poll" \notin Judging /\ "drive" \notin Judging /\ "fix" \notin Judging
  /\ "idle" \notin Judging /\ "halt" \notin Judging /\ "status" \notin Judging
  /\ "back" \notin Judging /\ "off" \notin Judging
  BY DEF Judging, Attending, Places

\* One motor at a time: the others are the same, so only the one the step is
\* about needs a reason.
LEMMA ReachedOne ==
  ASSUME Reached, NEW m, y.at \in Judging => y.cur = m, aborted => aborted',
         \A k \in Motor \ {m} : Same(k),
         ~aborted' /\ m \in Worked' =>
            \/ moving'[m]
            \/ ~running'[m] /\ ~(Abs(pos'[m] - destination'[m]) > Merr[m])
            \/ y'.at \in Judging /\ y'.cur = m
  PROVE  Reached'
<1> SUFFICES ASSUME ~aborted', NEW k \in Worked'
             PROVE  (moving[k] \/ Arrived(k) \/ Attended(k))'
  BY DEF Reached
<1>1. CASE k = m
  BY <1>1 DEF Arrived, Off, Attended
<1>2. CASE k # m
  <2>1. Same(k) /\ k \in Worked
    BY <1>2, Kinded DEF Worked, Same
  <2>2. moving[k] \/ Arrived(k)
    BY <1>2, <2>1 DEF Reached, Attended
  <2> QED  BY <2>1, <2>2 DEF Same, Arrived, Off
<1> QED  BY <1>1, <1>2

\* No motor is touched, and the one being looked at stays so.
LEMMA ReachedStill ==
  ASSUME Reached, aborted => aborted', \A k \in Motor : Same(k),
         y.at \in Judging => y'.at \in Judging /\ y'.cur = y.cur
  PROVE  Reached'
<1> SUFFICES ASSUME ~aborted', NEW k \in Worked'
             PROVE  (moving[k] \/ Arrived(k) \/ Attended(k))'
  BY DEF Reached
<1>1. Same(k) /\ k \in Worked
  BY Kinded DEF Worked, Same
<1>2. moving[k] \/ Arrived(k) \/ Attended(k)
  BY <1>1 DEF Reached
<1> QED  BY <1>1, <1>2 DEF Same, Arrived, Off, Attended

LEMMA DrivenOne ==
  ASSUME Driven, NEW m, y'.at \notin {"drive", "halt"},
         \A k \in Motor \ {m} : Same(k),
         moving'[m] => m \in driven',
         m \in Sure /\ m \in driven' => asked'[m] = destination'[m]
  PROVE  Driven'
<1>1. ASSUME NEW k \in Motor, moving'[k]
      PROVE  k \in driven'
  BY <1>1 DEF Driven, Same
<1>2. ASSUME NEW k \in Sure \cap driven'
      PROVE  asked'[k] = destination'[k]
  <2>1. CASE k # m
    <3>1. Same(k)
      BY <2>1, Kinded
    <3> QED  BY <3>1 DEF Driven, Same
  <2> QED  BY <2>1
<1> QED  BY <1>1, <1>2 DEF Driven

LEMMA DrivenStill ==
  ASSUME Driven, y'.at \notin {"drive", "halt"}, \A k \in Motor : Same(k)
  PROVE  Driven'
<1>1. ASSUME NEW k \in Motor, moving'[k]
      PROVE  k \in driven'
  BY <1>1 DEF Driven, Same
<1>2. ASSUME NEW k \in Sure \cap driven'
      PROVE  asked'[k] = destination'[k]
  <2>1. Same(k)
    BY Kinded
  <2> QED  BY <2>1 DEF Driven, Same
<1> QED  BY <1>1, <1>2 DEF Driven

\* The step keeps looking at a motor that has stopped.
LEMMA LookedSame ==
  ASSUME Looked, y'.cur = y.cur,
         y.cur \in driven', y'.at # "status" /\ y.cur \in Sure => ~running'[y.cur],
         y'.at \in {"back", "off"} => y.cur \in gaveup',
         y'.at = "final" /\ MotType[y.cur] = "VME" => Tries - y'.mtries <= faults'
  PROVE  Looked'
  BY DEF Looked

\* The step looks away.
LEMMA LookedAway == ASSUME y'.at \notin Attending PROVE Looked'
  BY PlaceFacts DEF Looked

\* Where a quiet step goes.
LEMMA QuietlyGoes ==
  ASSUME TypeOK, Quietly
  PROVE  \/ y'.at \in {"poll", "fix", "idle"}
         \/ /\ y'.cur = y.cur /\ y.cur \in Motor
            /\ \/ PollMotor /\ moving[y.cur] /\ y'.at = "status"
               \/ StatusRetry /\ y.at = "status" /\ y'.at = "status"
               \/ /\ WhereOnLimit /\ y.at = "back"
                  /\ y'.at = "off" \/ (MotType[y.cur] = "PIMOT" /\ y'.at = "stopped")
               \/ /\ Stopped /\ y.at = "stopped" /\ y'.at \in {"return", "final"}
                  /\ MotType[y.cur] = "VME" /\ y'.at = "final" => y'.mtries = Tries
               \/ /\ FinalRetry /\ y.at = "final" /\ y'.at = "final"
                  /\ y'.mtries = y.mtries - 1 /\ faults' = faults + 1
               \/ y.at = "final" /\ y'.at = "correct"
               \/ y.at = "correct" /\ y'.at = "rewrite"
<1>1. y \in Locals
  BY Fields
<1>2. CASE EnterYield \/ EndOfPass \/ Fix
  BY <1>1, <1>2 DEF EnterYield, EndOfPass, Fix, At, Locals
<1>3. CASE PollMotor
  BY <1>1, <1>3 DEF PollMotor, Looking, m0, NextMotor, Locals
<1>4. CASE StatusRetry
  BY <1>1, <1>4 DEF StatusRetry, At, Locals, TypeOK, Attending, Places
<1>5. CASE WhereOnLimit
  BY <1>1, <1>5 DEF WhereOnLimit, At, AfterLimit, NextMotor, m0, Locals, TypeOK,
                    Attending, Places
<1>6. CASE Stopped
  BY <1>1, <1>6 DEF Stopped, At, PollsFirst, m0, Locals, TypeOK, Attending, Places
<1>7. CASE FinalPosition \/ FinalNone \/ FinalNoise
  BY <1>1, <1>7 DEF FinalPosition, FinalNone, FinalNoise, At, Judged, NextMotor,
                    Locals, TypeOK, Attending, Places
<1>8. CASE FinalRetry
  BY <1>1, <1>8 DEF FinalRetry, Fault, At, Locals, TypeOK, Attending, Places
<1>9. CASE CorrectCounted
  BY <1>1, <1>9 DEF CorrectCounted, At, NextMotor, Locals, TypeOK, Attending, Places
<1> QED  BY <1>2, <1>3, <1>4, <1>5, <1>6, <1>7, <1>8, <1>9 DEF Quietly

\* The other motors stay as they are.
LEMMA QuietlySame ==
  ASSUME Quietly
  PROVE  /\ \A k \in Motor \ {y.cur} : Same(k)
         /\ UNCHANGED <<moving, running, pos, destination, asked, driven, aborted>>
         /\ gaveup \subseteq gaveup'
<1>1. /\ UNCHANGED <<moving, running, pos, destination, asked, driven, aborted>>
      /\ gaveup \subseteq gaveup' /\ gaveup' \subseteq gaveup \cup {y.cur}
  BY QuietlyKeeps DEF motors, m0
<1> QED  BY <1>1 DEF Same

LEMMA QuietlyDriven == ASSUME IInv, Driven, Quietly PROVE Driven'
<1>1. TypeOK
  BY DEF IInv
<1>2. y'.at \notin {"drive", "halt"}
  BY <1>1, QuietlyGoes, PlaceFacts
<1>3. /\ moving'[y.cur] => moving[y.cur]
      /\ asked'[y.cur] = asked[y.cur] /\ destination'[y.cur] = destination[y.cur]
      /\ driven' = driven
  BY QuietlySame
<1>4. y.cur \in Motor => (moving[y.cur] => y.cur \in driven)
  BY DEF Driven
<1>5. y.cur \in Sure /\ y.cur \in driven => asked[y.cur] = destination[y.cur]
  BY DEF Driven
<1> QED
  BY <1>2, <1>3, <1>4, <1>5, Kinded, QuietlySame, DrivenOne DEF Driven

LEMMA QuietlyLooked == ASSUME IInv, Placed, Quietly PROVE Looked'
<1>1. TypeOK /\ faults \in Nat
  BY Kept DEF IInv
<1>2. CASE y'.at \in {"poll", "fix", "idle"}
  BY <1>2, LookedAway, PlaceFacts
<1>3. /\ driven' = driven /\ running' = running /\ gaveup \subseteq gaveup'
      /\ faults' = faults \/ faults' = faults + 1
  <2>1. faults' = faults \/ faults' = faults + 1
    BY DEF Quietly, EnterYield, PollMotor, EndOfPass, StatusRetry,
           WhereOnLimit, Stopped, FinalPosition, FinalRetry, FinalNone,
           FinalNoise, CorrectCounted, Fix, Fault
  <2> QED  BY <2>1, QuietlySame
<1>4. CASE ~(y'.at \in {"poll", "fix", "idle"})
  <2>1. /\ y'.cur = y.cur /\ y.cur \in Motor
        /\ \/ PollMotor /\ moving[y.cur] /\ y'.at = "status"
           \/ y.at = "status" /\ y'.at = "status"
           \/ /\ y.at = "back"
              /\ y'.at = "off" \/ (MotType[y.cur] = "PIMOT" /\ y'.at = "stopped")
           \/ /\ y.at = "stopped" /\ y'.at \in {"return", "final"}
              /\ MotType[y.cur] = "VME" /\ y'.at = "final" => y'.mtries = Tries
           \/ /\ y.at = "final" /\ y'.at = "final"
              /\ y'.mtries = y.mtries - 1 /\ faults' = faults + 1
           \/ y.at = "final" /\ y'.at = "correct"
           \/ y.at = "correct" /\ y'.at = "rewrite"
    BY <1>1, <1>4, QuietlyGoes
  <2>2. CASE PollMotor /\ moving[y.cur] /\ y'.at = "status"
    BY <1>3, <2>1, <2>2 DEF Placed, Driven, Looked
  <2>3. CASE y.at = "status" /\ y'.at = "status"
    BY <1>3, <2>1, <2>3, PlaceFacts DEF Placed, Looked
  <2>4. CASE y.at = "back" /\ y'.at \in {"off", "stopped"}
    <3>1. y.cur \in driven /\ (y.cur \in Sure => ~running[y.cur]) /\ y.cur \in gaveup
      BY <2>4, PlaceFacts DEF Placed, Looked
    <3> QED  BY <1>3, <2>1, <2>4, <3>1, LookedSame DEF Placed
  <2>5. CASE y.at \in {"stopped", "final", "correct"}
    <3>1. y.cur \in driven /\ (y.cur \in Sure => ~running[y.cur])
      BY <2>5, PlaceFacts DEF Placed, Looked
    <3>2. y'.at \notin {"back", "off"}
      BY <2>1, <2>5
    <3>3. y'.at = "final" /\ MotType[y.cur] = "VME" => Tries - y'.mtries <= faults'
      <4>1. y.at = "final" /\ MotType[y.cur] = "VME" => Tries - y.mtries <= faults
        BY DEF Placed, Looked
      <4>2. y.mtries \in Nat
        BY <1>1, Fields
      <4> QED  BY <1>1, <1>3, <2>1, <2>5, <4>1, <4>2
    <3> QED  BY <1>3, <2>1, <3>1, <3>2, <3>3, LookedSame DEF Placed
  <2> QED  BY <2>1, <2>2, <2>3, <2>4, <2>5
<1> QED  BY <1>2, <1>4

\* What a motor that is sure to be read is found to be is what it is.
LEMMA JudgedRight ==
  ASSUME IInv, Placed, Quietly, y.at = "final", y'.at \notin Judging, y.cur \in Sure
  PROVE  ~Off(y.cur)
<1>1. /\ y \in Locals /\ faults \in 0..MaxFaults
      /\ y.at # "poll" /\ y.at # "drive" /\ y.at # "back" /\ y.at # "correct"
  BY Fields, Kept DEF IInv
<1>2. CASE FinalPosition
  <2>1. ~OffTarget(y.cur)
    BY <1>1, <1>2 DEF FinalPosition, Judged, Judging, Locals, m0
  <2> QED  BY <2>1, Kinded DEF OffTarget, Off
<1>3. CASE FinalNone
  <2>1. /\ MotType[y.cur] = "VME" /\ y.mtries = 1 /\ faults < MaxFaults
    BY <1>3, Kinded DEF FinalNone, Fault, m0
  <2>2. MaxFaults < Tries
    BY <2>1 DEF Sure
  <2>3. Tries - 1 <= faults
    BY <2>1 DEF Placed, Looked
  <2> QED  BY <1>1, <2>1, <2>2, <2>3
<1>4. CASE FinalNoise
  BY <1>4 DEF FinalNoise, Sure, m0
<1>5. ~(Stopped \/ StatusRetry \/ EnterYield \/ PollMotor \/ EndOfPass \/ Fix)
  BY <1>1 DEF Stopped, StatusRetry, EnterYield, PollMotor, EndOfPass, Fix, At
<1>6. ~(WhereOnLimit \/ CorrectCounted \/ FinalRetry)
  BY <1>1 DEF WhereOnLimit, CorrectCounted, FinalRetry, At, Judging, Locals
<1> QED  BY <1>2, <1>3, <1>4, <1>5, <1>6 DEF Quietly

\* Yield lets go of a motor in silence only after it has judged its position.
LEMMA LetGo ==
  ASSUME TypeOK, Quietly, y.at \in Judging, y.at # "final", y'.at \notin Judging
  PROVE  y.cur \in gaveup'
<1>1. y'.at # "rewrite" /\ y \in Locals /\ y.at \notin {"poll", "drive"}
  BY Fields, JudgingFacts DEF Judging
<1>2. ~(PollMotor \/ EnterYield \/ EndOfPass \/ StatusRetry)
  BY <1>1, JudgingFacts DEF PollMotor, EnterYield, EndOfPass, StatusRetry, At
<1>3. ~(WhereOnLimit \/ Fix \/ FinalPosition \/ FinalRetry \/ FinalNone \/ FinalNoise)
  BY JudgingFacts
  DEF WhereOnLimit, Fix, FinalPosition, FinalRetry, FinalNone, FinalNoise, At
<1>4. ~Stopped
  <2>1. Stopped => y'.at \in {"return", "final"}
    BY <1>1 DEF Stopped, Locals
  <2> QED  BY <2>1 DEF Judging
<1>5. CorrectCounted
  BY <1>2, <1>3, <1>4 DEF Quietly
<1>6. y.rewrites < MaxRewrites => y'.at = "rewrite"
  BY <1>1, <1>5 DEF CorrectCounted, Locals
<1> QED  BY <1>1, <1>5, <1>6 DEF CorrectCounted, Report, m0

LEMMA QuietlyReached == ASSUME IInv, Placed, Reached, Quietly PROVE Reached'
<1>1. /\ TypeOK /\ \A k \in Motor \ {y.cur} : Same(k)
      /\ UNCHANGED <<moving, running, pos, destination, asked, driven, aborted>>
      /\ gaveup \subseteq gaveup'
  BY QuietlySame DEF IInv
<1>2. ASSUME ~aborted', y.cur \in Worked'
      PROVE  \/ moving'[y.cur]
             \/ ~running'[y.cur] /\ ~(Abs(pos'[y.cur] - destination'[y.cur]) > Merr[y.cur])
             \/ y'.at \in Judging /\ y'.cur = y.cur
  <2>1. y.cur \in Worked /\ ~aborted
    BY <1>1, <1>2 DEF Worked
  <2>2. moving[y.cur] \/ Arrived(y.cur) \/ y.at \in Judging
    BY <2>1 DEF Reached, Attended
  <2>3. CASE y.at \notin Judging
    BY <1>1, <2>2, <2>3 DEF Arrived, Off
  <2>4. CASE y.at = "final" /\ y'.at \notin Judging
    <3>1. ~running[y.cur]
      BY <2>1, <2>4, PlaceFacts DEF Placed, Looked, Worked
    <3> QED  BY <1>1, <2>1, <2>4, <3>1, JudgedRight DEF Off, Worked
  <2>5. CASE y'.at \in Judging
    <3>1. y'.cur = y.cur
      BY <1>1, <2>5, QuietlyGoes, JudgingFacts
    <3> QED  BY <2>5, <3>1
  <2>6. CASE y.at \in Judging /\ y.at # "final" /\ y'.at \notin Judging
    <3>1. y.cur \in gaveup'
      BY <1>1, <2>6, LetGo
    <3> QED  BY <1>2, <3>1 DEF Worked
  <2> QED  BY <2>3, <2>4, <2>5, <2>6
<1> QED  BY <1>1, <1>2, JudgingFacts, ReachedOne

\* Drive is about one motor.
LEMMA DriveToOthers ==
  ASSUME DriveTypeOK, NEW m \in Motor, NEW t, NEW e, NEW d, DriveTo(m, t, e, d)
  PROVE  /\ \A k \in Motor \ {m} : asked'[k] = asked[k] => Same(k)
         /\ driven \subseteq driven' /\ driven' \subseteq driven \cup {m}
         /\ gaveup \subseteq gaveup'
<1>1. CASE DriveFails(m, e) \/ DriveInPlace(m, t, e)
  BY <1>1 DEF DriveFails, DriveInPlace, program, motors, Same
<1>2. CASE DriveMoves(m, t, e, d)
  <2>1. /\ moving' = [moving EXCEPT ![m] = TRUE]
        /\ destination' = [destination EXCEPT ![m] =
                             IF d /\ MotType[m] = "EZ" THEN FirstLeg(m, t) ELSE t]
        /\ driven' = driven \cup {m} /\ gaveup' = gaveup
    BY <1>2 DEF DriveMoves
  <2>2. /\ pos' = pos
        /\ \A k \in Motor \ {m} : running'[k] = running[k]
    BY <1>2 DEF DriveMoves, Go, motors, DriveTypeOK
  <2>3. \A k \in Motor \ {m} : /\ moving'[k] = moving[k]
                               /\ destination'[k] = destination[k]
    BY <2>1 DEF DriveTypeOK
  <2> QED  BY <2>1, <2>2, <2>3 DEF Same
<1> QED  BY <1>1, <1>2 DEF DriveTo

\* It ends in a message, or finds the motor there, or sets it in motion.
LEMMA DriveToEnds ==
  ASSUME DriveTypeOK, NEW m \in Sure, NEW t \in Int, NEW e, NEW d,
         DriveTo(m, t, e, d)
  PROVE  \/ m \in gaveup' /\ UNCHANGED <<program, motors, driven>>
         \/ /\ ~(Abs(pos[m] - t) > Merr[m])
            /\ UNCHANGED <<program, motors, driven, gaveup>>
         \/ moving'[m] /\ destination'[m] = t
<1>1. CASE DriveFails(m, e)
  BY <1>1 DEF DriveFails
<1>2. CASE DriveInPlace(m, t, e)
  <2>1. pos[m] \in Int /\ Merr[m] \in Int
    BY Kinded, DriveAssumption DEF DriveTypeOK, DriveAssumption
  <2>2. Abs(t - pos[m]) <= Merr[m]
    BY <1>2, <2>1, Kinded DEF DriveInPlace, InPlace
  <2>3. ~(Abs(pos[m] - t) > Merr[m])
    BY <2>1, <2>2 DEF Abs
  <2> QED  BY <1>2, <2>3 DEF DriveInPlace
<1>3. CASE DriveMoves(m, t, e, d)
  BY <1>3, Kinded DEF DriveMoves, DriveTypeOK
<1> QED  BY <1>1, <1>2, <1>3 DEF DriveTo

LEMMA DrivesPlaced == ASSUME IInv, Placed, Reached, Drives PROVE Placed' /\ Reached'
<1>1. /\ TypeOK /\ DriveTypeOK /\ y.at \in Attending \ {"status"}
      /\ m0 \in Motor /\ y.cur \in driven
      /\ DriveTo(m0, destination[m0], Seen, TRUE)
      /\ asked' = asked /\ aborted' = aborted
      /\ y'.at = "poll" \/ (MotType[m0] = "PIMOT" /\ y'.at = "stopped")
  BY DrivesTo DEF IInv, TypeOK, Placed, Looked
<1>2. /\ \A k \in Motor \ {m0} : Same(k)
      /\ driven \subseteq driven' /\ driven' \subseteq driven \cup {m0}
  BY <1>1, DriveToOthers
<1>3. y'.at = "stopped" => y'.cur = y.cur
  BY <1>1, Fields
  DEF Drives, DriveOffLimit, AfterLimit, SecondLeg, Correct, Rewrite,
      StillMoving, NextMotor, Locals
<1>4. ASSUME m0 \in Sure
      PROVE  \/ m0 \in gaveup' /\ UNCHANGED <<program, motors>>
             \/ ~Off(m0) /\ UNCHANGED <<program, motors>>
             \/ moving'[m0] /\ destination'[m0] = destination[m0]
  BY <1>1, <1>4, DriveToEnds DEF DriveTypeOK, Off
<1>5. m0 \in Sure => ~running[m0]
  BY <1>1 DEF Placed, Looked, m0
<1>6. Driven'
  <2>1. m0 \in driven'
    BY <1>1, <1>2 DEF m0
  <2>2. m0 \in Sure => asked'[m0] = destination'[m0]
    BY <1>1, <1>4 DEF Placed, Driven, program, m0
  <2> QED  BY <1>1, <1>2, <2>1, <2>2, DrivenOne DEF Placed
<1>7. Looked'
  <2>1. CASE y'.at = "poll"
    BY <2>1, LookedAway, PlaceFacts
  <2>2. CASE MotType[m0] = "PIMOT" /\ y'.at = "stopped"
    BY <1>1, <1>2, <1>3, <2>2, Kinded DEF Looked, m0
  <2> QED  BY <1>1, <2>1, <2>2
<1>8. Reached'
  <2>1. m0 \in Worked' =>
          \/ moving'[m0]
          \/ ~running'[m0] /\ ~(Abs(pos'[m0] - destination'[m0]) > Merr[m0])
    BY <1>4, <1>5 DEF Worked, Off, program, motors
  <2> QED  BY <1>1, <1>2, <2>1, JudgingFacts, ReachedOne DEF m0
<1> QED  BY <1>6, <1>7, <1>8 DEF Placed

\* Giving up lowers the flag of one motor, or on BT8 of all of them.
LEMMA LeavesGoes ==
  ASSUME IInv, NEW v, Leaves(v)
  PROVE  /\ \/ /\ y'.at = "poll" /\ aborted' = aborted
               /\ \A k \in Motor \ {m0} : Same(k)
            \/ y'.at = "fix" /\ aborted'
         /\ \A k \in Motor : moving'[k] => moving[k]
         /\ m0 \in Motor
         /\ UNCHANGED <<overshot, destination, motpos, motors, asked, driven>>
         /\ m0 \in Sure => m0 \in gaveup'
         /\ gaveup \subseteq gaveup' /\ y'.ckpos = v.ckpos
<1>1. /\ m0 \in Motor /\ v.cur \in Motor /\ v \in Locals
      /\ moving \in [Motor -> BOOLEAN]
      /\ UNCHANGED <<overshot, destination, motpos, motors, asked, driven>>
      /\ gaveup' = gaveup \/ gaveup' = gaveup \cup {m0}
      /\ m0 \in Sure => m0 \in gaveup'
  BY Kinded, Kept DEF Leaves, Looking, m0, IInv
<1>2. CASE Abandon(m0, v)
  <2>1. /\ moving' = [moving EXCEPT ![m0] = FALSE] /\ aborted' = aborted
        /\ y'.at = "poll" /\ y'.ckpos = v.ckpos
    BY <1>1, <1>2, NextMotorType DEF Abandon
  <2> QED  BY <1>1, <2>1 DEF Same, motors
<1>3. CASE Nsta = 8 /\ AbandonAcs(m0, v)
  <2>1. /\ moving' = [k \in Motor |-> FALSE] /\ aborted' /\ y'.at = "fix"
        /\ y'.ckpos = v.ckpos
    BY <1>1, <1>3 DEF AbandonAcs, Locals
  <2> QED  BY <1>1, <2>1
<1> QED  BY <1>2, <1>3 DEF Leaves, AbandonAcs

LEMMA GivesPlaced == ASSUME IInv, Placed, Reached, Gives PROVE Placed' /\ Reached'
<1>1. PICK v : Leaves(v)
  BY GivesUp
<1>2. y'.at = "poll" \/ y'.at = "fix"
  BY <1>1, LeavesGoes
<1>3. Looked'
  BY <1>2, LookedAway, PlaceFacts
<1>4. Driven'
  <2>1. /\ \A k \in Motor : moving'[k] => moving[k]
        /\ UNCHANGED <<destination, asked, driven>>
    BY <1>1, LeavesGoes
  <2> QED  BY <1>2, <2>1 DEF Placed, Driven
<1>5. Reached'
  <2>1. CASE aborted'
    BY <2>1 DEF Reached
  <2>2. CASE aborted' = aborted /\ \A k \in Motor \ {m0} : Same(k)
    <3>1. m0 \notin Worked'
      BY <1>1, LeavesGoes DEF Worked
    <3> QED  BY <2>2, <3>1, JudgingFacts, ReachedOne DEF m0
  <2> QED  BY <1>1, <2>1, <2>2, LeavesGoes
<1> QED  BY <1>3, <1>4, <1>5 DEF Placed

LEMMA OnLimitPlaced ==
  ASSUME IInv, Placed, Reached, OnLimit, GoesBack(m0)
  PROVE  Placed' /\ Reached'
<1>1. /\ TypeOK /\ y.at = "stopped" /\ m0 \in Motor /\ y.cur \in driven
      /\ y.cur \in Sure => ~running[y.cur]
  BY Attends, PlaceFacts DEF OnLimit, Placed, Looked
<1>2. /\ gaveup' = gaveup \cup {m0} /\ UNCHANGED <<asked, driven>>
      /\ UNCHANGED <<moving, destination, motors, aborted>>
  BY DEF OnLimit, GoesBack, Report
<1>3. y'.at = "back" /\ y'.cur = y.cur
  BY <1>1, Fields DEF OnLimit, Locals
<1>4. \A k \in Motor \ {m0} : Same(k)
  BY <1>2 DEF Same, motors
<1>5. Driven'
  BY <1>2, <1>3 DEF Placed, Driven
<1>6. Looked'
  <2>1. y.cur \in driven' /\ (y.cur \in Sure => ~running'[y.cur])
    BY <1>1, <1>2 DEF motors
  <2>2. y.cur \in gaveup'
    BY <1>2 DEF m0
  <2> QED  BY <1>3, <2>1, <2>2, LookedSame DEF Placed
<1>7. Reached'
  BY <1>1, <1>2, <1>4, ReachedOne DEF m0, Worked
<1> QED  BY <1>5, <1>6, <1>7 DEF Placed

\* A reply says that a motor still turns, or that it has stopped.
LEMMA StatusGoes ==
  ASSUME IInv, StatusReply \/ StatusNone
  PROVE  /\ y.at = "status" /\ m0 \in Motor /\ TypeOK
         /\ UNCHANGED <<overshot, destination, motpos, motors, history, aborted>>
         /\ y'.ckpos = y.ckpos
         /\ \A k \in Motor \ {m0} : Same(k) /\ moving'[k] = moving[k]
         /\ \/ y'.at = "poll" /\ moving' = moving
            \/ /\ y'.at = "stopped" /\ y'.cur = y.cur /\ ~moving'[m0]
               /\ m0 \in Sure => StatusReply /\ ~running[m0]
                                 /\ y'.status = LimitReply(m0)
<1> DEFINE v == [y EXCEPT !.lreply = IF MotType[m0] = "ACS" THEN Reply ELSE @]
<1>1. /\ TypeOK /\ Looking /\ m0 \in Motor /\ moving \in [Motor -> BOOLEAN]
      /\ y.at = "status" /\ y.cur \in Motor
  BY Attends, PlaceFacts, Kept DEF StatusReply, StatusNone, Looking
<1>2. v \in Locals /\ v.cur = y.cur /\ y \in Locals /\ v.ckpos = y.ckpos
  BY <1>1, Fields DEF Locals
<1>3. UNCHANGED <<overshot, destination, motpos, motors, history, aborted>>
  BY DEF StatusReply, StatusNone
<1>4. CASE y' = StillMoving(v) \/ y' = StillMoving(y)
  <2>1. y'.at = "poll" /\ y'.ckpos = y.ckpos
    BY <1>1, <1>2, <1>4, StillMovingType
  <2>2. y'.at # "stopped"
    BY <2>1
  <2>3. moving' = moving
    <3>1. CASE StatusReply
      <4>1. ~running[m0] => y' = [v EXCEPT !.at = "stopped", !.status = LimitReply(m0)]
        BY <3>1 DEF StatusReply
      <4>2. ~running[m0] => y'.at = "stopped"
        BY <1>2, <4>1 DEF Locals
      <4> QED  BY <2>2, <3>1, <4>2 DEF StatusReply
    <3>2. CASE StatusNone
      <4>1. (\E s \in WaitStatus : y' = [y EXCEPT !.at = "stopped", !.status = s])
              => y'.at = "stopped"
        BY <1>2 DEF Locals
      <4> QED  BY <2>2, <3>2, <4>1 DEF StatusNone
    <3> QED  BY <3>1, <3>2
  <2> QED  BY <1>1, <1>3, <2>1, <2>3 DEF Same, motors, history
<1>5. CASE /\ StatusReply /\ ~running[m0]
           /\ y' = [v EXCEPT !.at = "stopped", !.status = LimitReply(m0)]
           /\ moving' = [moving EXCEPT ![m0] = FALSE]
  <2>1. /\ y'.at = "stopped" /\ y'.cur = y.cur /\ y'.status = LimitReply(m0)
        /\ y'.ckpos = y.ckpos
    BY <1>2, <1>5 DEF Locals
  <2> QED  BY <1>1, <1>3, <1>5, <2>1 DEF Same, motors, history
<1>6. CASE /\ StatusNone /\ moving' = [moving EXCEPT ![m0] = FALSE]
           /\ \E s \in WaitStatus : y' = [y EXCEPT !.at = "stopped", !.status = s]
  <2>1. y'.at = "stopped" /\ y'.cur = y.cur /\ y'.ckpos = y.ckpos
    BY <1>2, <1>6 DEF Locals
  <2>2. m0 \notin Sure
    BY <1>6, Kinded DEF StatusNone
  <2> QED  BY <1>1, <1>3, <1>6, <2>1, <2>2 DEF Same, motors, history
<1> QED  BY <1>4, <1>5, <1>6 DEF StatusReply, StatusNone

LEMMA StatusPlaced ==
  ASSUME IInv, Placed, Reached, StatusReply \/ StatusNone
  PROVE  Placed' /\ Reached'
<1>1. /\ y.at = "status" /\ m0 \in Motor /\ TypeOK /\ m0 = y.cur
      /\ UNCHANGED <<overshot, destination, motpos, motors, history, aborted>>
      /\ \A k \in Motor \ {m0} : Same(k) /\ moving'[k] = moving[k]
      /\ \/ y'.at = "poll" /\ moving' = moving
         \/ /\ y'.at = "stopped" /\ y'.cur = y.cur /\ ~moving'[m0]
            /\ m0 \in Sure => ~running[m0]
  BY StatusGoes DEF m0
<1>2. y.cur \in driven
  BY <1>1, PlaceFacts DEF Placed, Looked
<1>3. Driven'
  BY <1>1, <1>2, DrivenOne DEF Placed, Driven, history
<1>4. Looked'
  <2>1. CASE y'.at = "poll"
    BY <2>1, LookedAway, PlaceFacts
  <2>2. CASE y'.at = "stopped"
    <3>1. y'.cur = y.cur /\ (y.cur \in Sure => ~running'[y.cur])
      BY <1>1, <2>2 DEF motors
    <3>2. y.cur \in driven'
      BY <1>1, <1>2 DEF history
    <3> QED  BY <2>2, <3>1, <3>2, LookedSame DEF Placed
  <2> QED  BY <1>1, <2>1, <2>2
<1>5. Reached'
  <2>1. CASE y'.at = "poll" /\ moving' = moving
    <3>1. \A k \in Motor : Same(k)
      BY <1>1, <2>1 DEF Same, motors, history
    <3> QED  BY <1>1, <3>1, JudgingFacts, ReachedStill
  <2>2. CASE y'.at = "stopped" /\ y'.cur = y.cur
    <3>1. "stopped" \in Judging
      BY DEF Judging
    <3> QED  BY <1>1, <2>2, <3>1, JudgingFacts, ReachedOne
  <2> QED  BY <1>1, <2>1, <2>2
<1> QED  BY <1>3, <1>4, <1>5 DEF Placed

\* A command starts with no motor, and Drive adds the one it moves.
LEMMA CommandPlaced ==
  ASSUME IInv, Placed, Reached, Command PROVE Placed' /\ Reached'
<1>1. /\ TypeOK /\ \A m \in Motor : ~moving[m]
  BY DEF IInv, FlagsDown, Command
<1>2. y'.at = "drive" /\ driven' = {} /\ moving' = moving
  BY <1>1, Fields DEF Command, Locals, program
<1>3. Driven' /\ Reached'
  BY <1>1, <1>2 DEF Driven, Reached, Worked
<1> QED  BY <1>2, <1>3, LookedAway, PlaceFacts DEF Placed

LEMMA DriveNextPlaced ==
  ASSUME IInv, Placed, Reached, DriveNext PROVE Placed' /\ Reached'
<1>1. /\ TypeOK /\ DriveTypeOK /\ y.at = "drive" /\ m0 \in Motor /\ m0 = y.cur
      /\ aborted' = aborted /\ m0 \notin driven
  BY DEF IInv, TypeOK, DriveNext, Looking, m0, Placed, Driven, Motor
<1>2. y'.at = "drive" /\ y'.cur = y.cur - 1
  BY <1>1, Fields DEF DriveNext, Locals
<1>3. Looked'
  BY <1>2, LookedAway, PlaceFacts
<1>4. y.cur \in Int /\ \A m \in driven : m > y.cur /\ m > y.cur - 1
  <2>1. y.cur \in Int /\ \A m \in driven : m \in Int
    BY <1>1 DEF DriveTypeOK, Motor
  <2>2. \A m \in driven : m > y.cur
    BY <1>1 DEF Placed, Driven
  <2> QED  BY <2>1, <2>2
<1>5. CASE UNCHANGED <<program, motors, faults, history>>
  <2>1. \A k \in Motor : Same(k)
    BY <1>5 DEF program, motors, history, Same
  <2>2. Driven'
    <3>1. UNCHANGED <<moving, driven, asked, destination>>
      BY <1>5 DEF program, history
    <3>2. \A m \in driven : m > y.cur - 1
      BY <1>4
    <3>3. \A m \in driven' : m > y'.cur
      BY <1>2, <3>1, <3>2
    <3>4. /\ \A m \in Motor : moving'[m] => m \in driven'
          /\ \A m \in Sure \cap driven' : asked'[m] = destination'[m]
      BY <3>1, Zenon DEF Placed, Driven
    <3> QED  BY <1>2, <3>3, <3>4 DEF Driven
  <2> QED  BY <1>1, <1>3, <2>1, <2>2, JudgingFacts, ReachedStill DEF Placed
<1>6. ASSUME NEW p \in Target(m0), DriveTo(m0, p, READEF(ev), FALSE),
             asked' = [asked EXCEPT ![m0] = p]
      PROVE  Placed' /\ Reached'
  <2>1. /\ \A k \in Motor \ {m0} : Same(k)
        /\ driven \subseteq driven' /\ driven' \subseteq driven \cup {m0}
        /\ asked'[m0] = p /\ p \in Int
    <3>1. \A k \in Motor \ {m0} : asked'[k] = asked[k]
      BY <1>1, <1>6 DEF DriveTypeOK
    <3>2. asked'[m0] = p /\ p \in Int
      BY <1>1, <1>6 DEF DriveTypeOK, Target
    <3> QED  BY <1>1, <1>6, <3>1, <3>2, DriveToOthers
  <2>2. moving'[m0] => m0 \in driven'
    <3>1. moving'[m0] => moving[m0] \/ m0 \in driven'
      BY <1>6 DEF DriveTo, DriveFails, DriveInPlace, DriveMoves, program
    <3> QED  BY <1>1, <3>1 DEF Placed, Driven
  <2>3. m0 \in Sure /\ m0 \in driven' => moving'[m0] /\ destination'[m0] = p
    BY <1>1, <1>6, <2>1, DriveToEnds
  <2>4. Driven'
    <3>1. ASSUME NEW k \in Motor, moving'[k]
          PROVE  k \in driven'
      BY <2>1, <2>2, <3>1 DEF Placed, Driven, Same
    <3>2. ASSUME NEW k \in Sure \cap driven'
          PROVE  asked'[k] = destination'[k]
      <4>1. CASE k = m0
        BY <2>1, <2>3, <3>2, <4>1
      <4>2. CASE k # m0
        <5>1. Same(k)
          BY <2>1, <4>2, Kinded
        <5> QED  BY <5>1 DEF Placed, Driven, Same
      <4> QED  BY <4>1, <4>2
    <3>3. \A k \in driven' : k > y.cur - 1
      BY <1>1, <1>4, <2>1
    <3>4. \A k \in driven' : k > y'.cur
      BY <1>2, <3>3
    <3> QED  BY <1>2, <3>1, <3>2, <3>4 DEF Driven
  <2>5. Reached'
    BY <1>1, <2>1, <2>3, JudgingFacts, ReachedOne DEF Worked
  <2> QED  BY <1>3, <2>4, <2>5 DEF Placed
<1> QED  BY <1>5, <1>6 DEF DriveNext

\* On the way out of an aborted command nothing is promised any more.
Stopping ==
  \/ Abort \/ EnterYieldAborted \/ HaltMotor \/ HaltAgain \/ HaltDone

LEMMA StoppingGoes ==
  ASSUME IInv, Placed, Stopping
  PROVE  /\ y'.at \in {"halt", "fix"} /\ aborted'
         /\ \A k \in Motor : moving'[k] => moving[k]
         /\ UNCHANGED <<destination, pos, asked, driven>>
<1>1. TypeOK /\ y \in Locals /\ moving \in [Motor -> BOOLEAN]
  BY Fields, Kept DEF IInv
<1>2. CASE Abort \/ HaltAgain
  BY <1>1, <1>2 DEF Abort, HaltAgain, Locals, driveVars, program, motors,
                    history, Placed, Driven
<1>3. CASE EnterYieldAborted
  <2>1. y'.at = "halt"
    BY <1>1, <1>3 DEF EnterYieldAborted, Locals
  <2> QED  BY <1>3, <2>1 DEF EnterYieldAborted, program, motors, history
<1>4. CASE HaltDone
  BY <1>1, <1>4 DEF HaltDone, Locals, motors, history, Placed, Driven
<1>5. CASE HaltMotor
  <2>1. y'.at = "halt"
    BY <1>1, <1>5 DEF HaltMotor, Stop, Locals
  <2>2. moving' = moving \/ moving' = [moving EXCEPT ![m0] = FALSE]
    BY <1>5 DEF HaltMotor, Stop, program
  <2>3. aborted' /\ UNCHANGED <<destination, pos, asked, driven>>
    BY <1>5 DEF HaltMotor, Placed, Driven, program, motors, history
  <2> QED  BY <1>1, <2>1, <2>2, <2>3
<1> QED  BY <1>2, <1>3, <1>4, <1>5 DEF Stopping

LEMMA StoppingPlaced ==
  ASSUME IInv, Placed, Stopping PROVE Placed' /\ Reached'
<1>1. Looked'
  BY StoppingGoes, LookedAway, PlaceFacts
<1>2. Driven' /\ Reached'
  BY StoppingGoes DEF Placed, Driven, Reached
<1> QED  BY <1>1, <1>2 DEF Placed

\* The operator changes nothing, and a motor that turns is waited for.
LEMMA ElsewherePlaced ==
  ASSUME Placed, Reached, NEW m, m \in Sure => running[m],
         UNCHANGED <<y, moving, destination, faults, asked, driven, gaveup, aborted>>,
         \A k \in Motor : running'[k] => running[k],
         \A k \in Motor \ {m} : Same(k)
  PROVE  Placed' /\ Reached'
<1>1. Driven'
  BY DEF Placed, Driven
<1>2. Looked'
  <2>1. y.cur \in Sure => (running'[y.cur] => running[y.cur])
    BY Kinded
  <2> QED  BY <2>1 DEF Placed, Looked
<1>3. Reached'
  <2> SUFFICES ASSUME ~aborted, NEW k \in Worked
               PROVE  (moving[k] \/ Arrived(k) \/ Attended(k))'
    BY DEF Reached, Worked
  <2>1. moving[k] \/ Arrived(k) \/ Attended(k)
    BY DEF Reached
  <2>2. CASE k # m
    <3>1. Same(k)
      BY <2>2, Kinded DEF Worked
    <3> QED  BY <2>1, <3>1 DEF Same, Arrived, Off, Attended
  <2>3. CASE k = m
    <3>1. running[k]
      BY <2>3 DEF Worked
    <3>2. ~Arrived(k)
      BY <3>1 DEF Arrived
    <3> QED  BY <2>1, <3>2 DEF Attended
  <2> QED  BY <2>2, <2>3
<1> QED  BY <1>1, <1>2, <1>3 DEF Placed

LEMMA StepPlaced ==
  ASSUME IInv, Placed, Reached, [Next]_vars PROVE Placed' /\ Reached'
<1>1. CASE Quietly
  BY <1>1, QuietlyDriven, QuietlyLooked, QuietlyReached DEF Placed
<1>2. CASE Interrupt \/ UNCHANGED vars
  <2>1. UNCHANGED <<y, moving, running, pos, destination, faults, asked, driven,
                    gaveup, aborted>>
    BY <1>2 DEF Interrupt, vars, driveVars, program, motors, history
  <2>2. \A k \in Motor : Same(k)
    BY <2>1 DEF Same
  <2>3. 0 \notin Sure
    BY Kinded DEF Motor
  <2> QED  BY <2>1, <2>2, <2>3, ElsewherePlaced
<1>3. ASSUME NEW m \in Motor, TurnMotor(m)
      PROVE  Placed' /\ Reached'
  <2>1. /\ running[m] /\ DriveTypeOK
        /\ UNCHANGED <<y, moving, destination, faults, asked, driven, gaveup, aborted>>
    BY <1>3 DEF TurnMotor, Turn, program, history, IInv, TypeOK
  <2>2. /\ \A k \in Motor : running'[k] => running[k]
        /\ \A k \in Motor \ {m} : running'[k] = running[k] /\ pos'[k] = pos[k]
    BY <1>3, <2>1 DEF TurnMotor, Turn, DriveTypeOK
  <2>3. \A k \in Motor \ {m} : Same(k)
    BY <2>1, <2>2 DEF Same
  <2> QED  BY <2>1, <2>2, <2>3, ElsewherePlaced
<1> QED
  BY <1>1, <1>2, <1>3, DrivesPlaced, GivesPlaced, OnLimitPlaced, StatusPlaced,
     CommandPlaced, DriveNextPlaced, StoppingPlaced
  DEF Next, Work, Rest, Quietly, Drives, Gives, Stopping

LEMMA InitPlaced == ASSUME Init PROVE Placed /\ Reached
<1>1. y.at = "idle" /\ driven = {} /\ \A m \in Motor : ~moving[m]
  BY DEF Init, DriveInit
<1> QED  BY <1>1, PlaceFacts DEF Placed, Driven, Looked, Reached, Worked

\* In a mixture of controllers, a motor on a clean ACS line, or a VME motor that is
\* read at least once in all its tries, ends within merr of the angle it was
\* asked for, unless a message is about it: lost go commands, noisy limits and
\* aborts of other motors notwithstanding.
SureOnTarget ==
  \A m \in Sure \cap Settled : ~running[m] /\ Abs(pos[m] - asked[m]) <= Merr[m]

THEOREM OnTargetSure == Spec => []SureOnTarget
<1>1. IInv /\ Placed /\ Reached => SureOnTarget
  <2> SUFFICES ASSUME IInv, Placed, Reached, NEW m \in Sure \cap Settled
               PROVE  ~running[m] /\ Abs(pos[m] - asked[m]) <= Merr[m]
    BY DEF SureOnTarget
  <2>1. /\ y.at = "idle" /\ ~aborted /\ m \in Worked /\ m \in driven
    BY DEF Settled, Returned, Worked
  <2>2. ~moving[m] /\ ~Attended(m)
    BY <2>1, Kinded, JudgingFacts DEF IInv, FlagsDown, Attended
  <2>3. Arrived(m) /\ asked[m] = destination[m]
    BY <2>1, <2>2 DEF Reached, Placed, Driven
  <2>4. pos[m] \in Int /\ destination[m] \in Int /\ Merr[m] \in Int
    BY Kinded, DriveAssumption DEF IInv, TypeOK, DriveTypeOK, DriveAssumption
  <2> QED  BY <2>3, <2>4 DEF Arrived, Off, Abs
<1> QED  BY <1>1, InitPlaced, StepPlaced, Invariance, PTL DEF Spec

\* Where all motors are of that kind, Yield keeps its word.
THEOREM OnTargetAlways == ASSUME Sure = Motor PROVE Spec => []OnTarget
<1>1. DriveTypeOK => (SureOnTarget => OnTarget)
  BY DEF SureOnTarget, OnTarget, Settled, DriveTypeOK
<1>2. TypeOK => DriveTypeOK
  BY DEF TypeOK
<1> QED  BY <1>1, <1>2, OnTargetSure, TypeCorrect, PTL

-----------------------------------------------------------------------------
(***************************************************************************)
(* How the motors end: the direction of the last step and the position on  *)
(* file.                                                                   *)
(***************************************************************************)

\* A backlash that takes a motor off its target.
Large(m) == Merr[m] < Abs(Back[m])

Right(m) == /\ Back[m] > 0 => dir[m] = 1
            /\ Back[m] < 0 => dir[m] = -1

\* A turning motor is on the first leg of two, or on the leg that takes the
\* backlash up; the file holds where one of them ends.
Underway(m) ==
  /\ \/ overshot[m] /\ goal[m] = destination[m] - Back[m]
     \/ /\ ~overshot[m] /\ goal[m] = destination[m]
        /\ Back[m] > 0 => destination[m] > pos[m]
        /\ Back[m] < 0 => destination[m] < pos[m]
  /\ TrackMoves => motpos[m] \in {destination[m], goal[m]}

AtLimit(m) == pos[m] \in {Lo, Hi}

\* A motor at rest is off target, or on a limit switch, or has done its last leg.
AtRest(m) ==
  \/ Off(m) \/ AtLimit(m)
  \/ /\ Large(m) => ~overshot[m] /\ Right(m)
     /\ TrackMoves => motpos[m] \in {destination[m], pos[m]}

Course(m) == IF running[m] THEN Underway(m) ELSE AtRest(m)

\* A motor Yield has let go of stands on no limit switch.
Steady(m) ==
  /\ Course(m)
  /\ moving[m] \/ Attended(m) \/ ~AtLimit(m)

Steadied == ~aborted => \A m \in Worked : Steady(m)

\* Between the limits, and what Yield knows of them.
Limits ==
  /\ \A m \in Motor : pos[m] \in Lo..Hi
  /\ y.at \in Judging /\ y.cur \in Sure /\ (y.at = "stopped" => y.status = 0)
       => ~AtLimit(y.cur)

\* Only motors that were complained about are checked at the end.
Checking ==
  ~aborted /\ y.at \in {"poll", "fix"} \cup Attending =>
    \A m \in Sure : y.ckpos[m] => m \in gaveup

\* No motor turns behind the back of a command that starts motors.
Calm == y.at = "drive" => \A m \in Sure : running[m] => m \in driven \cup gaveup

\* A step leaves the way of this motor alone.
SameWay(k) == UNCHANGED <<overshot[k], goal[k], dir[k], motpos[k]>>

LEMMA SteadyOther ==
  ASSUME Steadied, ~aborted, NEW k \in Worked, Same(k), SameWay(k),
         ~Attended(k) \/ (y'.at \in Judging /\ y'.cur = k)
  PROVE  Steady(k)'
<1>1. Steady(k)
  BY DEF Steadied
<1> QED  BY <1>1 DEF Steady, Course, Underway, AtRest, AtLimit, Right, Off, Same,
                     SameWay, Attended

\* A motor at rest that is sent somewhere takes the way it should, or stays
\* off target.
LEMMA DriveMovesSteady ==
  ASSUME DriveTypeOK, NEW m \in Sure, NEW t \in Int, NEW e, NEW d,
         ~running[m], DriveMoves(m, t, e, d)
  PROVE  Steady(m)'
<1>1. /\ m \in Motor /\ MotType[m] \in {"ACS", "VME"} /\ Known(m) = pos[m]
      /\ Unit(m) = 1 /\ pos[m] \in Int /\ Merr[m] \in Nat /\ Back[m] \in Int
  BY Kinded, DriveAssumption DEF DriveTypeOK, DriveAssumption
<1>2. /\ moving'[m] /\ destination'[m] = t
      /\ overshot'[m] = Backlash(m, t - pos[m])
      /\ TrackMoves => motpos'[m] = Filed(m, t)
      /\ pos' = pos
  BY <1>1 DEF DriveMoves, MemCurPos, Go, motors, DriveTypeOK
<1>3. /\ Backlash(m, t - pos[m]) <=>
           (t < pos[m] /\ Back[m] > 0) \/ (t > pos[m] /\ Back[m] < 0)
      /\ FirstLeg(m, t) = IF Backlash(m, t - pos[m]) THEN t - Back[m] ELSE t
      /\ Filed(m, t) \in {t, FirstLeg(m, t)}
  BY <1>1 DEF Backlash, FirstLeg, Filed
<1>4. Abs(t - pos[m]) > Merr[m]
  BY <1>1 DEF DriveMoves, InPlace, Abs
<1>5. t # pos[m] /\ Abs(pos[m] - t) > Merr[m]
  BY <1>1, <1>4 DEF Abs
<1>6. Course(m)'
  <2>1. CASE running'[m]
    <3>1. Go(m, t)
      BY <2>1 DEF DriveMoves, motors
    <3>2. goal'[m] = FirstLeg(m, t)
      BY <1>1, <1>3, <3>1 DEF Go, DriveTypeOK
    <3>3. Underway(m)'
      BY <1>1, <1>2, <1>3, <1>5, <3>2 DEF Underway
    <3> QED  BY <2>1, <3>3 DEF Course
  <2>2. CASE ~running'[m]
    BY <1>2, <1>5, <2>2 DEF Course, AtRest, Off
  <2> QED  BY <2>1, <2>2
<1> QED  BY <1>2, <1>6 DEF Steady

\* One step of a turning motor.
LEMMA TurnSteady ==
  ASSUME DriveTypeOK, NEW m \in Sure, pos[m] \in Lo..Hi, Course(m), Turn(m)
  PROVE  Course(m)' /\ pos'[m] \in Lo..Hi
<1>1. /\ m \in Motor /\ Merr[m] \in Nat /\ Back[m] \in Int /\ Lo \in Int /\ Hi \in Int
      /\ pos[m] \in Int /\ goal[m] \in Int /\ destination[m] \in Int
  BY Kinded, DriveAssumption DEF DriveTypeOK, DriveAssumption
<1>2. Underway(m) /\ running[m]
  BY DEF Course, Turn
<1> DEFINE d == IF goal[m] > pos[m] THEN 1 ELSE -1
<1>3. /\ UNCHANGED <<overshot, destination, goal, motpos>>
      /\ d \in {1, -1} /\ (d = 1 <=> goal[m] > pos[m])
  BY DEF Turn, program
<1>4. CASE pos[m] + d \in Lo..Hi
  <2>1. /\ pos' = [pos EXCEPT ![m] = pos[m] + d] /\ dir' = [dir EXCEPT ![m] = d]
        /\ running' = [running EXCEPT ![m] = pos[m] + d # goal[m]]
    BY <1>4 DEF Turn
  <2>2. /\ pos'[m] = pos[m] + d /\ dir'[m] = d
        /\ running'[m] <=> pos[m] + d # goal[m]
    BY <1>1, <2>1 DEF DriveTypeOK
  <2> HIDE DEF d
  <2>3. CASE running'[m]
    <3>1. Underway(m)'
      BY <1>1, <1>2, <1>3, <2>2, <2>3 DEF Underway
    <3> QED  BY <1>4, <2>2, <2>3, <3>1 DEF Course
  <2>4. CASE ~running'[m]
    <3>1. CASE overshot[m] /\ goal[m] = destination[m] - Back[m]
      <4>1. Large(m) => Off(m)'
        BY <1>1, <1>3, <2>2, <2>4, <3>1 DEF Large, Off, Abs
      <4>2. TrackMoves => motpos'[m] \in {destination'[m], pos'[m]}
        BY <1>2, <1>3, <2>2, <2>4 DEF Underway
      <4>3. AtRest(m)'
        BY <4>1, <4>2 DEF AtRest, Large
      <4> QED  BY <1>4, <2>2, <2>4, <4>3 DEF Course
    <3>2. CASE ~overshot[m] /\ goal[m] = destination[m]
      <4>1. Right(m)'
        BY <1>1, <1>2, <1>3, <2>2, <2>4, <3>2 DEF Right, Underway
      <4>2. TrackMoves => motpos'[m] \in {destination'[m], pos'[m]}
        BY <1>2, <1>3, <2>2, <2>4 DEF Underway
      <4>3. AtRest(m)'
        BY <1>3, <3>2, <4>1, <4>2 DEF AtRest
      <4> QED  BY <1>4, <2>2, <2>4, <4>3 DEF Course
    <3> QED  BY <1>2, <3>1, <3>2 DEF Underway
  <2> QED  BY <2>3, <2>4
<1>5. CASE pos[m] + d \notin Lo..Hi
  <2>1. pos' = pos /\ ~running'[m]
    BY <1>1, <1>5 DEF Turn, DriveTypeOK
  <2> HIDE DEF d
  <2>2. pos[m] \in {Lo, Hi}
    BY <1>1, <1>3, <1>5
  <2> QED  BY <2>1, <2>2 DEF Course, AtRest, AtLimit
<1> QED  BY <1>4, <1>5

Settling == Steadied /\ Limits /\ Checking /\ Calm

\* A quiet step leaves the marks for the final check alone.
LEMMA QuietlyChecks ==
  ASSUME TypeOK, Quietly
  PROVE  \/ y'.ckpos = [m \in Motor |-> FALSE]
         \/ y'.ckpos = y.ckpos /\ y.at \in {"poll", "fix"} \cup Attending
<1>1. y \in Locals
  BY Fields
<1>2. CASE EnterYield
  BY <1>1, <1>2 DEF EnterYield, Locals
<1>3. CASE PollMotor \/ EndOfPass \/ Fix
  BY <1>1, <1>3 DEF PollMotor, EndOfPass, Fix, At, NextMotor, Locals
<1>4. CASE StatusRetry \/ FinalRetry
  BY <1>1, <1>4, PlaceFacts DEF StatusRetry, FinalRetry, At, Locals
<1>5. CASE WhereOnLimit \/ Stopped
  BY <1>1, <1>5, PlaceFacts
  DEF WhereOnLimit, Stopped, At, AfterLimit, NextMotor, Locals
<1>6. CASE FinalPosition \/ FinalNone \/ FinalNoise
  BY <1>1, <1>6, PlaceFacts
  DEF FinalPosition, FinalNone, FinalNoise, At, Judged, NextMotor, Locals
<1>7. CASE CorrectCounted
  BY <1>1, <1>7, PlaceFacts DEF CorrectCounted, At, NextMotor, Locals
<1> QED  BY <1>2, <1>3, <1>4, <1>5, <1>6, <1>7 DEF Quietly

\* Only the second leg and the final check change what a motor's way depends on.
LEMMA QuietlyWay ==
  ASSUME DriveTypeOK, Quietly, ~Fix
  PROVE  /\ \A k \in Motor \ {y.cur} : SameWay(k)
         /\ ~Stopped => \A k \in Motor : SameWay(k)
         /\ Stopped => /\ y.cur \in Motor => ~overshot'[y.cur]
                       /\ UNCHANGED <<goal, dir, motpos>>
<1>1. UNCHANGED <<goal, dir>>
  BY QuietlyKeeps DEF motors
<1>2. motpos' = motpos
  BY Zenon DEF Quietly, EnterYield, PollMotor, EndOfPass, StatusRetry,
     WhereOnLimit, Stopped, FinalPosition, FinalRetry, FinalNone, FinalNoise,
     CorrectCounted, program
<1>3. \/ overshot' = overshot
      \/ Stopped /\ overshot' = [overshot EXCEPT ![y.cur] = FALSE]
  BY Zenon DEF Quietly, EnterYield, PollMotor, EndOfPass, StatusRetry,
     WhereOnLimit, Stopped, FinalPosition, FinalRetry, FinalNone, FinalNoise,
     CorrectCounted, program, m0
<1>4. Stopped => overshot' = [overshot EXCEPT ![y.cur] = FALSE]
  BY DEF Stopped, m0
<1> QED  BY <1>1, <1>2, <1>3, <1>4 DEF SameWay, DriveTypeOK

LEMMA QuietlySteadied ==
  ASSUME IInv, Placed, Settling, Quietly PROVE Steadied'
<1>1. /\ TypeOK /\ DriveTypeOK /\ \A k \in Motor \ {y.cur} : Same(k)
      /\ UNCHANGED <<moving, running, pos, destination, asked, driven, aborted>>
      /\ gaveup \subseteq gaveup'
  BY QuietlySame DEF IInv, TypeOK
<1> SUFFICES ASSUME ~aborted', NEW k \in Worked'
             PROVE  Steady(k)'
  BY DEF Steadied
<1>2. k \in Worked /\ k \in Sure /\ k \in Motor /\ ~aborted
  BY <1>1, Kinded DEF Worked
<1>3. k \in driven /\ k \in driven' /\ k \notin gaveup /\ k \notin gaveup'
  BY <1>1 DEF Worked
<1>4. Same(k) /\ Steady(k)
  BY <1>1, <1>2, <1>3 DEF Same, Settling, Steadied
<1>5. CASE Fix
  <2>1. y.at = "fix" /\ ~y.ckpos[k]
    BY <1>2, <1>3, <1>5 DEF Fix, Settling, Checking
  <2>2. k \notin Checked /\ UNCHANGED <<overshot, goal, dir>>
    BY <1>5, <2>1 DEF Fix, Checked, motors
  <2>3. motpos'[k] = motpos[k]
    BY <1>2, <1>5, <2>2 DEF Fix
  <2>4. ~Attended(k)
    BY <2>1, JudgingFacts DEF Attended
  <2> QED  BY <1>2, <1>4, <2>2, <2>3, <2>4, SteadyOther DEF SameWay, Settling
<1>6. CASE ~Fix /\ ~Stopped
  <2>1. SameWay(k)
    BY <1>1, <1>2, <1>6, QuietlyWay
  <2>2. CASE ~Attended(k) \/ y'.at \in Judging
    <3>1. y'.at \in Judging => y'.cur = y.cur
      BY <1>1, QuietlyGoes, JudgingFacts
    <3> QED  BY <1>2, <1>4, <2>1, <2>2, <3>1, SteadyOther DEF Settling, Attended
  <2>3. CASE Attended(k) /\ y'.at \notin Judging
    <3>1. y.at = "final" /\ y.cur = k
      BY <1>1, <1>3, <2>3, LetGo DEF Attended
    <3>2. "final" \in Judging /\ "final" # "stopped"
      BY DEF Judging
    <3>3. ~AtLimit(k)
      BY <1>2, <3>1, <3>2 DEF Settling, Limits
    <3>4. Course(k)' /\ ~AtLimit(k)'
      BY <1>4, <2>1, <3>3 DEF Steady, Course, Underway, AtRest, AtLimit, Right,
                              Off, Same, SameWay
    <3> QED  BY <3>4 DEF Steady
  <2> QED  BY <2>2, <2>3
<1>7. CASE ~Fix /\ Stopped
  <2>1. CASE k # y.cur
    <3>1. SameWay(k)
      BY <1>1, <1>2, <1>7, <2>1, QuietlyWay
    <3> QED  BY <1>2, <1>4, <2>1, <3>1, SteadyOther DEF Settling, Attended
  <2>2. CASE k = y.cur
    <3>1. y.at = "stopped" /\ y'.at \in {"return", "final"} /\ y'.cur = y.cur
      BY <1>1, <1>7, Fields DEF Stopped, At, Locals
    <3>2. ~running[k]
      BY <1>2, <2>2, <3>1, PlaceFacts DEF Placed, Looked
    <3>3. Attended(k)'
      BY <2>2, <3>1 DEF Attended, Judging
    <3>4. ~overshot'[k] /\ UNCHANGED <<goal, dir, motpos>>
      BY <1>1, <1>2, <1>7, <2>2, QuietlyWay
    <3>5. Course(k)'
      BY <1>1, <1>4, <3>2, <3>4 DEF Steady, Course, AtRest, AtLimit, Right, Off
    <3> QED  BY <3>3, <3>5 DEF Steady
  <2> QED  BY <2>1, <2>2
<1> QED  BY <1>5, <1>6, <1>7

LEMMA QuietlySettles ==
  ASSUME IInv, Placed, Settling, Quietly PROVE Settling'
<1>1. /\ TypeOK /\ UNCHANGED <<pos, driven, aborted>> /\ gaveup \subseteq gaveup'
  BY QuietlySame DEF IInv
<1>2. Limits'
  <2>1. ASSUME y'.at \in Judging, y'.cur \in Sure, y'.at = "stopped" => y'.status = 0
        PROVE  /\ y'.cur = y.cur /\ y.at \in Judging
               /\ y.at = "stopped" => y.status = 0
    <3>1. y'.cur = y.cur /\ (y.at \in Judging \/ MotType[y.cur] = "PIMOT")
      <4>1. /\ {"stopped", "final", "correct"} \subseteq Judging
            /\ "off" \notin Judging
        BY DEF Judging
      <4> QED  BY <1>1, <2>1, <4>1, QuietlyGoes, JudgingFacts
    <3>2. y.at \in Judging
      BY <2>1, <3>1, Kinded
    <3>3. y.at = "stopped" => y.status = 0
      <4>1. y.at = "stopped" => Stopped
        BY <1>1, <2>1, QuietlyGoes, JudgingFacts
      <4> QED  BY <4>1 DEF Stopped
    <3> QED  BY <3>1, <3>2, <3>3
  <2> QED  BY <1>1, <2>1 DEF Settling, Limits, AtLimit
<1>3. Checking'
  <2> SUFFICES ASSUME ~aborted', NEW k \in Sure, y'.ckpos[k]
               PROVE  k \in gaveup'
    BY DEF Checking
  <2>1. y'.ckpos = y.ckpos /\ y.at \in {"poll", "fix"} \cup Attending
    BY <1>1, Kinded, QuietlyChecks
  <2> QED  BY <1>1, <2>1 DEF Settling, Checking
<1>4. Calm'
  BY <1>1, QuietlyGoes, PlaceFacts DEF Calm
<1> QED  BY <1>2, <1>3, <1>4, QuietlySteadied DEF Settling

\* Drive is about one motor's way, too.
LEMMA DriveToWay ==
  ASSUME DriveTypeOK, NEW m \in Motor, NEW t, NEW e, NEW d, DriveTo(m, t, e, d)
  PROVE  /\ \A k \in Motor \ {m} : SameWay(k)
         /\ pos' = pos
         /\ \A k \in Motor \ {m} : running'[k] = running[k]
<1>1. CASE DriveFails(m, e) \/ DriveInPlace(m, t, e)
  BY <1>1 DEF DriveFails, DriveInPlace, program, motors, SameWay
<1>2. CASE DriveMoves(m, t, e, d)
  <2>1. \A k \in Motor \ {m} : overshot'[k] = overshot[k]
    BY <1>2 DEF DriveMoves, DriveTypeOK
  <2>2. \A k \in Motor \ {m} : motpos'[k] = motpos[k]
    BY <1>2 DEF DriveMoves, MemCurPos, DriveTypeOK
  <2>3. /\ dir' = dir /\ pos' = pos
        /\ \A k \in Motor \ {m} : goal'[k] = goal[k] /\ running'[k] = running[k]
    BY <1>2 DEF DriveMoves, Go, motors, DriveTypeOK
  <2> QED  BY <2>1, <2>2, <2>3 DEF SameWay
<1> QED  BY <1>1, <1>2 DEF DriveTo

LEMMA DrivesSettles ==
  ASSUME IInv, Placed, Settling, Drives PROVE Settling'
<1>1. /\ TypeOK /\ DriveTypeOK /\ y.at \in Attending \ {"status"}
      /\ m0 \in Motor /\ m0 = y.cur /\ destination[m0] \in Int
      /\ DriveTo(m0, destination[m0], Seen, TRUE)
      /\ asked' = asked /\ aborted' = aborted
      /\ y'.at = "poll" \/ (MotType[m0] = "PIMOT" /\ y'.at = "stopped")
  BY DrivesTo DEF IInv, TypeOK, DriveTypeOK, m0
<1>2. /\ \A k \in Motor \ {m0} : Same(k) /\ SameWay(k)
      /\ gaveup \subseteq gaveup' /\ driven' \subseteq driven \cup {m0} /\ pos' = pos
  BY <1>1, DriveToOthers, DriveToWay
<1>3. y'.ckpos = y.ckpos /\ (y'.at = "stopped" => y'.cur = y.cur)
  BY <1>1, Fields
  DEF Drives, DriveOffLimit, AfterLimit, SecondLeg, Correct, Rewrite,
      StillMoving, NextMotor, Locals
<1>4. y.at \in {"off", "return", "correct", "rewrite"}
  BY DEF Drives, DriveOffLimit, SecondLeg, Correct, Rewrite, At
<1>5. Steadied'
  <2> SUFFICES ASSUME ~aborted', NEW k \in Worked'
               PROVE  Steady(k)'
    BY DEF Steadied
  <2>1. k \in Sure /\ k \in Motor /\ ~aborted /\ k \notin gaveup
    BY <1>1, <1>2, Kinded DEF Worked
  <2>2. CASE k # m0
    <3>1. Same(k) /\ SameWay(k) /\ k \in Worked
      BY <1>2, <2>1, <2>2 DEF Worked
    <3> QED  BY <1>1, <2>1, <2>2, <3>1, SteadyOther DEF Settling, Attended
  <2>3. CASE k = m0
    <3>1. k \in driven /\ ~running[k] /\ y.at # "off"
      BY <1>1, <2>1, <2>3 DEF Placed, Looked
    <3>2. Steady(k) /\ k \in Worked
      BY <2>1, <3>1 DEF Settling, Steadied, Worked
    <3>3. ~AtLimit(k)
      <4>1. y.at \in Judging /\ y.at # "stopped"
        BY <1>4, <3>1 DEF Judging
      <4> QED  BY <1>1, <2>1, <2>3, <4>1 DEF Settling, Limits
    <3>4. CASE DriveInPlace(m0, destination[m0], Seen)
      BY <3>2, <3>3, <3>4 DEF DriveInPlace, program, motors, Steady, Course,
           Underway, AtRest, AtLimit, Right, Off
    <3>5. CASE DriveMoves(m0, destination[m0], Seen, TRUE)
      BY <1>1, <2>1, <2>3, <3>1, <3>5, DriveMovesSteady
    <3>6. ~DriveFails(m0, Seen)
      BY <2>3 DEF DriveFails, Worked
    <3> QED  BY <1>1, <3>4, <3>5, <3>6 DEF DriveTo
  <2> QED  BY <2>2, <2>3
<1>6. Limits'
  <2>1. y'.at \in Judging => y'.cur \notin Sure
    BY <1>1, <1>3, Kinded, JudgingFacts
  <2> QED  BY <1>2, <2>1 DEF Settling, Limits
<1>7. Checking'
  BY <1>1, <1>2, <1>3 DEF Settling, Checking
<1>8. Calm'
  BY <1>1 DEF Calm
<1> QED  BY <1>5, <1>6, <1>7, <1>8 DEF Settling

LEMMA GivesSettles == ASSUME IInv, Placed, Settling, Gives PROVE Settling'
<1>1. PICK v : Leaves(v)
  BY GivesUp
<1>2. /\ \/ /\ y'.at = "poll" /\ aborted' = aborted
            /\ \A k \in Motor \ {m0} : Same(k)
         \/ y'.at = "fix" /\ aborted'
      /\ UNCHANGED <<overshot, destination, motpos, motors, asked, driven>>
      /\ m0 \in Sure => m0 \in gaveup'
      /\ gaveup \subseteq gaveup' /\ y'.ckpos = v.ckpos /\ m0 \in Motor
  BY <1>1, LeavesGoes
<1>3. v \in {y, ToCheck(m0)} /\ y.at \in Attending /\ TypeOK
  BY <1>1 DEF Leaves, IInv
<1>4. Steadied'
  <2> SUFFICES ASSUME ~aborted', NEW k \in Worked'
               PROVE  Steady(k)'
    BY DEF Steadied
  <2>1. k \in Motor /\ k # m0
    BY <1>2, Kinded DEF Worked
  <2>2. Same(k) /\ k \in Worked /\ ~aborted
    BY <1>2, <2>1 DEF Worked
  <2>3. SameWay(k)
    BY <1>2 DEF SameWay, motors
  <2> QED  BY <2>1, <2>2, <2>3, SteadyOther DEF Settling, Attended, m0
<1>5. Limits'
  BY <1>2, JudgingFacts DEF Settling, Limits, motors
<1>6. Checking'
  <2> SUFFICES ASSUME ~aborted', NEW k \in Sure, y'.ckpos[k]
               PROVE  k \in gaveup'
    BY DEF Checking
  <2>1. k \in Motor /\ ~aborted /\ (k # m0 => y.ckpos[k])
    BY <1>2, <1>3, Fields, Kinded DEF ToCheck, Locals
  <2> QED  BY <1>2, <1>3, <2>1 DEF Settling, Checking
<1>7. Calm'
  BY <1>2 DEF Calm
<1> QED  BY <1>4, <1>5, <1>6, <1>7 DEF Settling

LEMMA OnLimitSettles ==
  ASSUME IInv, Placed, Settling, OnLimit, GoesBack(m0) PROVE Settling'
<1>1. /\ TypeOK /\ y.at = "stopped" /\ m0 \in Motor /\ y.at \in Attending
  BY Attends, PlaceFacts DEF OnLimit
<1>2. /\ gaveup' = gaveup \cup {m0} /\ UNCHANGED <<asked, driven>>
      /\ UNCHANGED <<moving, overshot, destination, motpos, motors, aborted>>
  BY DEF OnLimit, GoesBack, Report
<1>3. y'.at = "back" /\ \A k \in Motor \ {m0} : y'.ckpos[k] = y.ckpos[k]
  <2>1. y \in Locals /\ y.ckpos \in [Motor -> BOOLEAN]
    BY <1>1, Fields
  <2>2. y' = [y EXCEPT !.at = "back", !.ckpos[m0] =
                         @ \/ (TrackMoves /\ MotType[m0] = "ACS")]
    BY DEF OnLimit
  <2>3. /\ y'.at = "back"
        /\ y'.ckpos = [y.ckpos EXCEPT ![m0] = @ \/ (TrackMoves /\ MotType[m0] = "ACS")]
    BY <2>1, <2>2, Zenon DEF Locals
  <2> QED  BY <2>1, <2>3, Zenon
<1>4. Steadied'
  <2> SUFFICES ASSUME ~aborted', NEW k \in Worked'
               PROVE  Steady(k)'
    BY DEF Steadied
  <2>1. k # m0 /\ Same(k) /\ SameWay(k) /\ k \in Worked /\ ~aborted
    BY <1>2 DEF Worked, Same, SameWay, motors
  <2> QED  BY <2>1, SteadyOther DEF Settling, Attended, m0
<1>5. Limits'
  BY <1>2, <1>3, JudgingFacts DEF Settling, Limits, motors
<1>6. Checking'
  BY <1>1, <1>2, <1>3, Kinded DEF Settling, Checking
<1>7. Calm'
  BY <1>3 DEF Calm
<1> QED  BY <1>4, <1>5, <1>6, <1>7 DEF Settling

LEMMA StatusSettles ==
  ASSUME IInv, Placed, Settling, StatusReply \/ StatusNone PROVE Settling'
<1>1. /\ y.at = "status" /\ m0 \in Motor /\ TypeOK /\ m0 = y.cur
      /\ UNCHANGED <<overshot, destination, motpos, motors, history, aborted>>
      /\ y'.ckpos = y.ckpos
      /\ \A k \in Motor \ {m0} : Same(k)
      /\ \/ y'.at = "poll" /\ moving' = moving
         \/ /\ y'.at = "stopped" /\ y'.cur = y.cur
            /\ m0 \in Sure => y'.status = LimitReply(m0)
  BY StatusGoes DEF m0
<1>2. \A k : ~Attended(k)
  BY <1>1, JudgingFacts DEF Attended
<1>3. \A k \in Motor : SameWay(k)
  BY <1>1 DEF SameWay, motors
<1>4. Steadied'
  <2> SUFFICES ASSUME ~aborted', NEW k \in Worked'
               PROVE  Steady(k)'
    BY DEF Steadied
  <2>1. k \in Worked /\ ~aborted /\ k \in Motor
    BY <1>1, Kinded DEF Worked, history
  <2>2. CASE Same(k)
    BY <1>2, <1>3, <2>1, <2>2, SteadyOther DEF Settling
  <2>3. CASE k = m0 /\ y'.at = "stopped" /\ y'.cur = y.cur
    <3>1. Attended(k)'
      BY <1>1, <2>3 DEF Attended, Judging
    <3>2. Course(k)'
      BY <1>1, <2>1 DEF Settling, Steadied, Steady, Course, Underway, AtRest,
                        AtLimit, Right, Off, motors
    <3> QED  BY <3>1, <3>2 DEF Steady
  <2>4. y'.at = "poll" => Same(k)
    BY <1>1 DEF Same, motors, history
  <2> QED  BY <1>1, <2>1, <2>2, <2>3, <2>4
<1>5. Limits'
  <2>1. ASSUME y'.at \in Judging, y'.cur \in Sure, y'.status = 0
        PROVE  ~AtLimit(y.cur)
    <3>1. m0 \in Sure /\ LimitReply(m0) = 0
      BY <1>1, <2>1, JudgingFacts
    <3>2. LimitSwitch(m0) = 0
      BY <3>1, Kinded DEF LimitReply
    <3> QED  BY <1>1, <3>2 DEF LimitSwitch, AtLimit
  <2>2. y'.at \in Judging => y'.at = "stopped" /\ y'.cur = y.cur
    BY <1>1, JudgingFacts
  <2> QED  BY <1>1, <2>1, <2>2 DEF Settling, Limits, AtLimit, motors
<1>6. Checking'
  BY <1>1, PlaceFacts DEF Settling, Checking, history
<1>7. Calm'
  BY <1>1 DEF Calm
<1> QED  BY <1>4, <1>5, <1>6, <1>7 DEF Settling

LEMMA CommandSettles ==
  ASSUME IInv, Placed, Settling, NoRunaway, Command PROVE Settling'
<1>1. /\ TypeOK /\ y.at = "idle" /\ driven' = {} /\ ~aborted'
      /\ gaveup' = {m \in gaveup : running[m]} /\ UNCHANGED motors
  BY DEF IInv, Command
<1>2. y'.at = "drive"
  BY <1>1, Fields DEF Command, Locals
<1>3. Steadied' /\ Checking'
  BY <1>1, <1>2, PlaceFacts DEF Steadied, Worked, Checking
<1>4. Limits'
  BY <1>1, <1>2, JudgingFacts DEF Settling, Limits, motors
<1>5. Calm'
  BY <1>1, Kinded DEF Calm, NoRunaway, Returned, motors
<1> QED  BY <1>3, <1>4, <1>5 DEF Settling

LEMMA DriveNextSettles ==
  ASSUME IInv, Placed, Settling, DriveNext PROVE Settling'
<1>1. /\ TypeOK /\ DriveTypeOK /\ y.at = "drive" /\ m0 \in Motor /\ m0 = y.cur
      /\ aborted' = aborted /\ m0 \notin driven
  BY DEF IInv, TypeOK, DriveNext, Looking, m0, Placed, Driven, Motor
<1>2. y'.at = "drive"
  BY <1>1, Fields DEF DriveNext, Locals
<1>3. Checking' /\ \A k : ~Attended(k)
  BY <1>1, <1>2, PlaceFacts, JudgingFacts DEF Checking, Attended
<1>4. CASE UNCHANGED <<program, motors, faults, history>>
  <2>1. \A k \in Motor : Same(k) /\ SameWay(k)
    BY <1>4 DEF program, motors, history, Same, SameWay
  <2>2. Steadied'
    <3> SUFFICES ASSUME ~aborted', NEW k \in Worked'
                 PROVE  Steady(k)'
      BY DEF Steadied
    <3>1. k \in Motor /\ k \in Worked /\ ~aborted
      BY <1>1, <1>4, Kinded DEF Worked, history
    <3> QED  BY <1>3, <2>1, <3>1, SteadyOther DEF Settling
  <2>3. Limits' /\ Calm'
    BY <1>1, <1>2, <1>4, JudgingFacts DEF Settling, Limits, Calm, motors, history
  <2> QED  BY <1>3, <2>2, <2>3 DEF Settling
<1>5. ASSUME NEW p \in Target(m0), DriveTo(m0, p, READEF(ev), FALSE),
             asked' = [asked EXCEPT ![m0] = p]
      PROVE  Settling'
  <2>1. /\ \A k \in Motor \ {m0} : Same(k) /\ SameWay(k)
        /\ driven \subseteq driven' /\ driven' \subseteq driven \cup {m0}
        /\ gaveup \subseteq gaveup' /\ pos' = pos
        /\ \A k \in Motor \ {m0} : running'[k] = running[k]
    <3>1. \A k \in Motor \ {m0} : asked'[k] = asked[k]
      BY <1>1, <1>5 DEF DriveTypeOK
    <3> QED  BY <1>1, <1>5, <3>1, DriveToOthers, DriveToWay
  <2>2. m0 \in driven' => DriveMoves(m0, p, READEF(ev), FALSE)
    BY <1>1, <1>5 DEF DriveTo, DriveFails, DriveInPlace
  <2>3. m0 \in driven' \/ running'[m0] = running[m0]
    BY <1>1, <1>5 DEF DriveTo, DriveFails, DriveInPlace, DriveMoves, motors,
                      DriveTypeOK
  <2>4. Steadied'
    <3> SUFFICES ASSUME ~aborted', NEW k \in Worked'
                 PROVE  Steady(k)'
      BY DEF Steadied
    <3>1. k \in Motor /\ k \in Sure /\ ~aborted /\ k \notin gaveup
      BY <1>1, <2>1, Kinded DEF Worked
    <3>2. CASE k # m0
      <4>1. k \in Worked
        BY <2>1, <3>1, <3>2 DEF Worked
      <4> QED  BY <1>3, <2>1, <3>1, <3>2, <4>1, SteadyOther DEF Settling
    <3>3. CASE k = m0
      <4>1. ~running[k]
        BY <1>1, <3>1, <3>3 DEF Settling, Calm
      <4>2. DriveMoves(k, p, READEF(ev), FALSE) /\ p \in Int
        <5>1. k \in driven' /\ p \in Int
          BY DEF Worked, Target
        <5> QED  BY <2>2, <3>3, <5>1
      <4> QED  BY <1>1, <3>1, <4>1, <4>2, DriveMovesSteady
    <3> QED  BY <3>2, <3>3
  <2>5. Limits'
    BY <1>2, <2>1, JudgingFacts DEF Settling, Limits
  <2>6. Calm'
    <3> SUFFICES ASSUME NEW k \in Sure, running'[k]
                 PROVE  k \in driven' \cup gaveup'
      BY DEF Calm
    <3>1. k \in Motor
      BY Kinded
    <3>2. k \in driven' \/ running[k]
      BY <2>1, <2>3, <3>1
    <3> QED  BY <1>1, <2>1, <3>2 DEF Settling, Calm
  <2> QED  BY <1>3, <2>4, <2>5, <2>6 DEF Settling
<1> QED  BY <1>4, <1>5 DEF DriveNext

LEMMA StoppingSettles ==
  ASSUME IInv, Placed, Settling, Stopping PROVE Settling'
<1>1. y'.at \in {"halt", "fix"} /\ aborted' /\ pos' = pos
  BY StoppingGoes
<1> QED  BY <1>1, JudgingFacts
         DEF Settling, Steadied, Limits, Checking, Calm

LEMMA TurnSettles ==
  ASSUME IInv, Placed, Reached, Settling, NEW m \in Motor, TurnMotor(m)
  PROVE  Settling'
<1>1. /\ DriveTypeOK /\ running[m] /\ Turn(m) /\ pos[m] \in Int
      /\ Lo \in Int /\ Hi \in Int
      /\ UNCHANGED <<y, moving, overshot, destination, motpos, goal, faults,
                     asked, driven, gaveup, aborted>>
  BY DriveAssumption DEF TurnMotor, Turn, program, history, IInv, TypeOK,
                         DriveTypeOK, DriveAssumption
<1>2. /\ \A k \in Motor : running'[k] => running[k]
      /\ \A k \in Motor \ {m} : /\ running'[k] = running[k] /\ pos'[k] = pos[k]
                                /\ dir'[k] = dir[k]
  BY <1>1 DEF Turn, DriveTypeOK
<1>3. \A k \in Motor \ {m} : Same(k) /\ SameWay(k)
  BY <1>1, <1>2 DEF Same, SameWay
<1>4. m \in Sure => ~(y.at \in Judging /\ y.cur = m)
  BY <1>1, JudgingFacts DEF Placed, Looked
<1>5. Steadied'
  <2> SUFFICES ASSUME ~aborted', NEW k \in Worked'
               PROVE  Steady(k)'
    BY DEF Steadied
  <2>1. k \in Motor /\ k \in Sure /\ k \in Worked /\ ~aborted
    BY <1>1, Kinded DEF Worked
  <2>2. CASE k # m
    BY <1>1, <1>3, <2>1, <2>2, SteadyOther DEF Settling, Attended
  <2>3. CASE k = m
    <3>1. Steady(k)
      BY <2>1 DEF Settling, Steadied
    <3>2. moving[k]
      BY <1>1, <1>4, <2>1, <2>3 DEF Reached, Arrived, Attended
    <3>3. pos[k] \in Lo..Hi
      BY <2>1 DEF Settling, Limits
    <3>4. Course(k)'
      BY <1>1, <2>1, <2>3, <3>1, <3>3, TurnSteady DEF Steady
    <3> QED  BY <1>1, <3>2, <3>4 DEF Steady
  <2> QED  BY <2>2, <2>3
<1>6. Limits'
  <2>1. pos'[m] \in Lo..Hi
    <3>1. pos[m] \in Lo..Hi
      BY DEF Settling, Limits
    <3> QED  BY <1>1, <3>1 DEF Turn, DriveTypeOK
  <2>2. y.at \in Judging /\ y.cur \in Sure => pos'[y.cur] = pos[y.cur]
    BY <1>2, <1>4, Kinded
  <2> QED  BY <1>1, <1>2, <2>1, <2>2 DEF Settling, Limits, AtLimit
<1>7. Checking'
  BY <1>1 DEF Settling, Checking
<1>8. Calm'
  BY <1>1, <1>2, Kinded DEF Settling, Calm
<1> QED  BY <1>5, <1>6, <1>7, <1>8 DEF Settling

LEMMA StepSettles ==
  ASSUME IInv, Placed, Reached, Settling, NoRunaway, [Next]_vars
  PROVE  Settling'
<1>1. CASE Interrupt \/ UNCHANGED vars
  BY <1>1 DEF Interrupt, vars, driveVars, program, motors, history, Settling,
     Steadied, Worked, Steady, Course, Underway, AtRest, AtLimit, Right, Off,
     Attended, Limits, Checking, Calm
<1> QED
  BY <1>1, QuietlySettles, DrivesSettles, GivesSettles, OnLimitSettles,
     StatusSettles, CommandSettles, DriveNextSettles, StoppingSettles, TurnSettles
  DEF Next, Work, Rest, Quietly, Drives, Gives, Stopping

LEMMA InitSettles == ASSUME Init PROVE Settling
<1>1. /\ y.at = "idle" /\ driven = {} /\ pos \in [Motor -> {p \in Lo..Hi : Lo < p /\ p < Hi}]
  BY DEF Init, DriveInit
<1>2. \A m \in Motor : pos[m] \in Lo..Hi
  BY <1>1
<1> QED  BY <1>1, <1>2, PlaceFacts, JudgingFacts
         DEF Settling, Steadied, Worked, Limits, Checking, Calm

\* At the end the two promises follow, one for the direction and one for the file.
LEMMA Settles ==
  ASSUME IInv, Placed, Reached, Settling, NEW m \in Sure \cap Settled
  PROVE  /\ Large(m) => Right(m)
         /\ TrackMoves => Abs(motpos[m] - pos[m]) <= Merr[m]
<1>1. /\ y.at = "idle" /\ ~aborted /\ m \in Worked /\ m \in Motor /\ m \in Sure
  BY Kinded DEF Settled, Returned, Worked
<1>2. ~moving[m] /\ ~Attended(m)
  BY <1>1, JudgingFacts DEF IInv, FlagsDown, Attended
<1>3. ~running[m] /\ ~Off(m) /\ ~AtLimit(m) /\ Course(m)
  BY <1>1, <1>2 DEF Reached, Arrived, Settling, Steadied, Steady
<1>4. /\ Large(m) => Right(m)
      /\ TrackMoves => motpos[m] \in {destination[m], pos[m]}
  BY <1>3 DEF Course, AtRest
<1>5. /\ pos[m] \in Int /\ destination[m] \in Int /\ motpos[m] \in Int
      /\ Merr[m] \in Nat
  BY <1>1, DriveAssumption DEF IInv, TypeOK, DriveTypeOK, DriveAssumption
<1>6. Abs(pos[m] - destination[m]) <= Merr[m]
  BY <1>3, <1>5 DEF Off, Abs
<1> QED  BY <1>4, <1>5, <1>6 DEF Abs

\* In a mixture of controllers, where the final position is read and no motor
\* is left turning by an earlier command, a move ends in the direction that
\* takes up a backlash larger than merr, and the file says where the motor is.
SureSettled ==
  \A m \in Sure \cap Settled :
    /\ Back[m] # 0 /\ Large(m) => dir[m] * Back[m] > 0
    /\ TrackMoves => Abs(motpos[m] - pos[m]) <= Merr[m]

THEOREM SettledSure == Spec /\ []NoRunaway => []SureSettled
<1>1. IInv /\ Placed /\ Reached /\ Settling => SureSettled
  <2> SUFFICES ASSUME IInv, Placed, Reached, Settling, NEW m \in Sure \cap Settled
               PROVE  /\ Back[m] # 0 /\ Large(m) => dir[m] * Back[m] > 0
                      /\ TrackMoves => Abs(motpos[m] - pos[m]) <= Merr[m]
    BY DEF SureSettled
  <2>1. Large(m) => Right(m)
    BY Settles
  <2>2. Back[m] \in Int /\ dir[m] \in {-1, 0, 1}
    BY Kinded, DriveAssumption DEF IInv, TypeOK, DriveTypeOK, DriveAssumption
  <2>3. Back[m] # 0 /\ Large(m) => dir[m] * Back[m] > 0
    BY <2>1, <2>2 DEF Right
  <2> QED  BY <2>3, Settles
<1>2. Init => Placed /\ Reached /\ Settling
  BY InitPlaced, InitSettles
<1>3. IInv /\ Placed /\ Reached /\ Settling /\ NoRunaway /\ [Next]_vars
        => Placed' /\ Reached' /\ Settling'
  BY StepPlaced, StepSettles
<1> QED  BY <1>1, <1>2, <1>3, Invariance, PTL DEF Spec

\* Where the constants exclude a runaway, nothing is left to assume: ACS motors
\* on a clean line, off BT8, with fewer failures than tries.
AcsOnly ==
  /\ Acs = Motor /\ ~LineNoise
  /\ Nsta # 8 /\ MaxFaults < Tries

LEMMA AcsSettled == ASSUME AcsOnly PROVE Spec => []SureSettled
  BY NoRunawayAlways, SettledSure, PTL DEF AcsOnly

\* The file says where every motor is that no message is about, although each
\* position was written before the motor started.
THEOREM FileFollowsAlways == ASSUME AcsOnly PROVE Spec => []FileFollows
<1>1. TypeOK /\ SureSettled => FileFollows
  <2>1. TypeOK => Settled \subseteq Motor
    BY DEF TypeOK, DriveTypeOK, Settled
  <2>2. Sure = Motor
    BY DEF AcsOnly, Acs, Sure
  <2> QED  BY <2>1, <2>2 DEF SureSettled, FileFollows
<1> QED  BY <1>1, TypeCorrect, AcsSettled, PTL

\* Every move ends in the direction that takes up the backlash, if the backlash
\* is larger than merr: a smaller one leaves the motor in place after its first
\* leg, and the second leg is not taken.
THEOREM BacklashTakenAlways ==
  ASSUME AcsOnly, \A m \in Motor : Back[m] # 0 => Large(m)
  PROVE  Spec => []BacklashTaken
<1>1. TypeOK /\ SureSettled => BacklashTaken
  <2>1. TypeOK => Settled \subseteq Motor
    BY DEF TypeOK, DriveTypeOK, Settled
  <2>2. Sure = Motor
    BY DEF AcsOnly, Acs, Sure
  <2> QED  BY <2>1, <2>2 DEF SureSettled, BacklashTaken
<1> QED  BY <1>1, TypeCorrect, AcsSettled, PTL
=============================================================================
