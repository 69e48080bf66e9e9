------------------------------- MODULE Yield -------------------------------
(***************************************************************************)
(* Subroutine Yield, "wait for all moving motors to stop at their          *)
(* destination", together with the command that starts the motors.         *)
(*                                                                         *)
(* The program runs one statement at a time; what interleaves with it are  *)
(* the motors, the operator's control A and failing transactions.  A step  *)
(* ends before the next poll of contr_a or the next transaction, so that a *)
(* signal can arrive between any two of them.  y holds the local variables *)
(* of Yield and the place it is at:                                        *)
(*   idle     no command is running                                        *)
(*   drive    the command is starting motors, from the last to the first   *)
(*   poll     label 100 and the head of DO 600, motor y.cur                *)
(*   status   asking the controller whether the motor moves                *)
(*   stopped  "motor is no longer moving"                                  *)
(*   back     overshot onto a limit: where is the motor?                   *)
(*   off      "driving motor off limit to target"                          *)
(*   return   the second leg of an overshooting move                       *)
(*   final    reading the final position                                   *)
(*   correct  the final position is off target                             *)
(*   rewrite  the half second before a rewrite                             *)
(*   halt     label 700: stopping the motors                               *)
(*   fix      label 900: correcting the positions on file                  *)
(***************************************************************************)
EXTENDS Drive

CONSTANTS
  Tries,        \* retries of one transaction (10 in the source)
  MaxRewrites,  \* rewrites of VME and ZETA motors in one Yield (10)
  LineNoise,    \* may a position reply of an ACS controller be undecodable?
  MaxCommands,  \* bound: commands given
  MaxSignals    \* bound: times control A is pressed

ASSUME YieldAssumption ==
  /\ Tries \in Nat \ {0}
  /\ MaxRewrites \in Nat
  /\ LineNoise \in BOOLEAN
  /\ MaxCommands \in Nat /\ MaxSignals \in Nat

VARIABLES
  y,        \* the local variables of Yield
  aborted,  \* history: this command went through label 675 or 725
  commands, \* commands given so far
  signals   \* times control A was pressed

vars == <<driveVars, y, aborted, commands, signals>>
outside == <<commands, signals>>

Places == {"idle", "drive", "poll", "status", "stopped", "back", "off",
           "return", "final", "correct", "rewrite", "halt", "fix"}

\* lreply: what the last call of rs232 returned, if there was one.
NoReply == 0
Reply   == 2

\* The motor Yield is looking at, while there is one.
m0 == y.cur
Looking == y.cur \in Motor

NextMotor(v)   == [v EXCEPT !.at = "poll", !.cur = @ + 1]

\* Mutant: all_finished is left alone.
StillMovingForgotten(v) == NextMotor(v)

StillMoving(v) == NextMotor([v EXCEPT !.finished = FALSE])

-----------------------------------------------------------------------------
(***************************************************************************)
(* Polling contr_a.                                                        *)
(***************************************************************************)

\* The branches of all controllers but ACS poll before they ask.
PollsFirst(m) == MotType[m] # "ACS"

\* Does the source call READEF(contr_a) at this place?
Polls ==
  \/ y.at = "poll" /\ (Looking \/ ~y.finished)
  \/ y.at \in {"status", "final"} /\ PollsFirst(m0)
  \/ y.at = "back" /\ ~PollsFirst(m0)
  \/ y.at \in {"off", "return", "correct"}

Seen == IF Polls THEN READEF(ev) ELSE ev

\* The program is at this place and, if it polls there, sees no abort.
At(place) == y.at = place /\ ~(Polls /\ Aborting(ev))

\* goto 675.
Abort ==
  /\ Polls /\ Aborting(ev)
  /\ ev' = READEF(ev)
  /\ y' = [y EXCEPT !.at = "halt", !.cur = 1, !.notries = 0, !.stoperr = FALSE]
  /\ aborted' = TRUE
  /\ UNCHANGED <<program, motors, faults, history, outside>>

-----------------------------------------------------------------------------
(***************************************************************************)
(* The command: Drive for some motors, then Yield.                         *)
(***************************************************************************)

\* Target angles inside the software limits (inlimits).
Target(m) == {p \in Lo+1..Hi-1 : p % Pulse[m] = 0}

\* A move command: CALL CLREF(contr_a) and the loop over the motors.
Command ==
  /\ y.at = "idle" /\ commands < MaxCommands
  /\ commands' = commands + 1
  /\ ev' = CLREF(ev, "contr_a")
  /\ y' = [y EXCEPT !.at = "drive", !.cur = NumMotors]
  /\ aborted' = FALSE /\ driven' = {}
  /\ gaveup' = {m \in gaveup : running[m]}      \* still turning, still known
  /\ UNCHANGED <<program, motors, faults, asked, signals>>

DriveNext ==
  /\ y.at = "drive" /\ Looking /\ ~Aborting(ev)
  /\ \/ \E p \in Target(m0) :
          /\ DriveTo(m0, p, READEF(ev), FALSE)
          /\ asked' = [asked EXCEPT ![m0] = p]
     \/ ev' = READEF(ev) /\ UNCHANGED <<program, motors, faults, history>>
  /\ y' = [y EXCEPT !.cur = @ - 1]
  /\ UNCHANGED <<aborted, outside>>

\* Yield is called, and looks at contr_a first.
EnterYield ==
  /\ y.at = "drive" /\ ~Looking /\ ~Aborting(ev)
  /\ ev' = READEF(ev)
  /\ y' = [y EXCEPT !.at = "poll", !.cur = 1, !.rewrites = 0,
                    !.finished = TRUE, !.adjpos = FALSE,
                    !.ckpos = [m \in Motor |-> FALSE]]
  /\ UNCHANGED <<program, motors, faults, history, aborted, outside>>

\* goto 675 before ckpos is set and before any call has given lreply a value.
EnterYieldAborted ==
  /\ y.at = "drive" /\ Aborting(ev)
  /\ ev' = READEF(ev)
  /\ \E l \in {NoReply, Reply}, c \in [Motor -> BOOLEAN] :
       y' = [y EXCEPT !.at = "halt", !.cur = 1, !.notries = 0,
                      !.stoperr = FALSE, !.lreply = l, !.ckpos = c,
                      !.adjpos = FALSE]
  /\ aborted' = TRUE
  /\ UNCHANGED <<program, motors, faults, history, outside>>

-----------------------------------------------------------------------------
(***************************************************************************)
(* Giving up.                                                              *)
(***************************************************************************)

\* A message says that the motor is left alone.
Report(m) == gaveup' = gaveup \cup {m} /\ UNCHANGED <<asked, driven>>

\* moving(motorno) = .false. and no further look at the motor.
Abandon(m, v) ==
  /\ moving' = [moving EXCEPT ![m] = FALSE]
  /\ y' = NextMotor(v)
  /\ ev' = Seen
  /\ UNCHANGED aborted

\* if (trackmoves) ckpos(motorno) = .true.: check the position later.
ToCheck(m) == [y EXCEPT !.ckpos[m] = @ \/ TrackMoves]

\* Mutant: BT8 bails out with the flags of the other motors still up.
AbandonAcsAlone(m, v) ==
  IF Nsta = 8
  THEN /\ ev' = SETEF(ev, "contr_a")
       /\ moving' = [moving EXCEPT ![m] = FALSE]
       /\ y' = [v EXCEPT !.at = "fix"]
       /\ aborted' = TRUE
  ELSE Abandon(m, v)

\* ACS: BT8 bails out through label 725 as if the operator had pressed control
\* A, and lowers every flag on the way.
AbandonAcs(m, v) ==
  IF Nsta = 8
  THEN /\ ev' = SETEF(ev, "contr_a")
       /\ moving' = [k \in Motor |-> FALSE]
       /\ y' = [v EXCEPT !.at = "fix"]
       /\ aborted' = TRUE
  ELSE Abandon(m, v)

-----------------------------------------------------------------------------
(***************************************************************************)
(* DO 600: one look at one motor.                                          *)
(***************************************************************************)
PollMotor ==
  /\ At("poll") /\ Looking
  /\ ev' = Seen
  /\ y' = IF moving[m0]
          THEN [y EXCEPT !.at = "status", !.lreply = NoReply, !.status = 0,
                         !.mtries = IF PollsFirst(m0) THEN Tries ELSE Tries + 1]
          ELSE NextMotor(y)
  /\ UNCHANGED <<program, motors, faults, history, aborted, outside>>

\* Mutant: all_finished is set once, before the first pass.
EndOfPassOnce ==
  /\ At("poll") /\ ~Looking
  /\ ev' = Seen
  /\ y' = IF y.finished THEN [y EXCEPT !.at = "fix"] ELSE [y EXCEPT !.cur = 1]
  /\ UNCHANGED <<program, motors, faults, history, aborted, outside>>

\* The end of the pass: leave, or wait a second and look again.
EndOfPass ==
  /\ At("poll") /\ ~Looking
  /\ ev' = Seen
  /\ y' = IF y.finished THEN [y EXCEPT !.at = "fix"]
                        ELSE [y EXCEPT !.cur = 1, !.finished = TRUE]
  /\ UNCHANGED <<program, motors, faults, history, aborted, outside>>

\* What a status reply says of the limits.  PISTATUS overwrites the plus limit
\* with the minus one; EZSTATUS and PICOSTATUS say nothing, so that Yield keeps
\* what LIBWAIT left in the same variable.
LimitReply(m) ==
  CASE MotType[m] = "PIMOT"          -> IF LimitSwitch(m) < 0 THEN -1 ELSE 0
    [] MotType[m] \in {"EZ", "PICO"} -> y.status
    [] OTHER                         -> LimitSwitch(m)

StatusReply ==
  /\ At("status") /\ ~(MotType[m0] = "VME" /\ y.mtries = 1)
  /\ ev' = Seen
  /\ LET v == [y EXCEPT !.lreply = IF MotType[m0] = "ACS" THEN Reply ELSE @] IN
     IF running[m0]
     THEN y' = StillMoving(v) /\ UNCHANGED moving
     ELSE /\ y' = [v EXCEPT !.at = "stopped", !.status = LimitReply(m0)]
          /\ moving' = [moving EXCEPT ![m0] = FALSE]
  /\ UNCHANGED <<overshot, destination, motpos, motors, faults, history,
                 aborted, outside>>

\* The last try at a VME motor: "could not confirm", whatever the answer.
StatusLastVme ==
  /\ At("status") /\ MotType[m0] = "VME" /\ y.mtries = 1
  /\ UNCHANGED faults \/ Fault
  /\ Report(m0) /\ Abandon(m0, y)
  /\ UNCHANGED <<overshot, destination, motpos, motors, outside>>

\* LIBWAIT returns 1, or 0 when control A woke it.
WaitStatus == {1} \cup (IF ev.sigint THEN {0} ELSE {})

StatusRetry ==
  /\ At("status") /\ y.mtries > 1 /\ Fault
  /\ ev' = Seen
  /\ \E s \in WaitStatus : y' = [y EXCEPT !.mtries = @ - 1, !.status = s]
  /\ UNCHANGED <<program, motors, history, aborted, outside>>

StatusNoneAcs ==
  /\ At("status") /\ MotType[m0] = "ACS" /\ y.mtries = 1 /\ Fault
  /\ Report(m0) /\ AbandonAcs(m0, ToCheck(m0))
  /\ UNCHANGED <<overshot, destination, motpos, motors, outside>>

\* A status routine that gets no answer has already said "not moving"; ZETASTATUS
\* may have got the answer to the first of its three questions, "moving".
StatusNone ==
  /\ At("status") /\ MotType[m0] \notin {"ACS", "VME"} /\ y.mtries = 1 /\ Fault
  /\ ev' = Seen
  /\ \/ /\ moving' = [moving EXCEPT ![m0] = FALSE]
        /\ \E s \in WaitStatus : y' = [y EXCEPT !.at = "stopped", !.status = s]
     \/ /\ MotType[m0] = "ZETA" /\ running[m0]
        /\ y' = StillMoving(y) /\ UNCHANGED moving
  /\ UNCHANGED <<overshot, destination, motpos, motors, history, aborted,
                 outside>>

-----------------------------------------------------------------------------
(***************************************************************************)
(* On a limit switch; moving(motorno) is already false.                    *)
(***************************************************************************)
GoesBack(m) ==
  /\ overshot[m]
  /\ \/ MotType[m] = "PIMOT"
     \/ MotType[m] = "ACS" /\ Nsta # 8 /\ y.status < 0

\* VME, PI and ACS say so, ZETA, EZ and PICO give up in silence.
OnLimit ==
  /\ At("stopped") /\ y.status # 0
  /\ IF MotType[m0] \in {"VME", "PIMOT", "ACS"}
     THEN Report(m0) ELSE UNCHANGED history
  /\ IF GoesBack(m0)
     THEN /\ y' = [y EXCEPT !.at = "back", !.ckpos[m0] =
                              @ \/ (TrackMoves /\ MotType[m0] = "ACS")]
          /\ UNCHANGED <<ev, moving, aborted>>
     ELSE IF MotType[m0] = "ACS" THEN AbandonAcs(m0, ToCheck(m0)) ELSE Abandon(m0, y)
  /\ UNCHANGED <<overshot, destination, motpos, motors, faults, outside>>

\* After the limit branch a PI motor falls into the code for free motors.
AfterLimit(v) ==
  IF MotType[m0] = "PIMOT" THEN [v EXCEPT !.at = "stopped", !.status = 0]
                           ELSE NextMotor(v)

\* "see if we are ccw of correct position": PI uses what it has got.
WhereOnLimit ==
  /\ At("back")
  /\ \E below \in BOOLEAN :
       /\ \/ below = (pos[m0] < destination[m0]) /\ UNCHANGED faults
          \/ Fault /\ (below => MotType[m0] = "PIMOT")
       /\ y' = IF below THEN [y EXCEPT !.at = "off"] ELSE AfterLimit(y)
  /\ ev' = Seen
  /\ UNCHANGED <<program, motors, history, aborted, outside>>

DriveOffLimit ==
  /\ At("off")
  /\ DriveTo(m0, destination[m0], Seen, TRUE)
  /\ y' = AfterLimit([y EXCEPT !.finished = FALSE])
  /\ UNCHANGED <<asked, aborted, outside>>

-----------------------------------------------------------------------------
(***************************************************************************)
(* Stopped and free.                                                       *)
(***************************************************************************)

\* "intentionally went too far": now the second leg.
Stopped ==
  /\ At("stopped") /\ y.status = 0
  /\ overshot' = [overshot EXCEPT ![m0] = FALSE]
  /\ y' = IF overshot[m0]
          THEN [y EXCEPT !.at = "return"]
          ELSE [y EXCEPT !.at = "final",
                         !.mtries = IF PollsFirst(m0) THEN Tries ELSE Tries + 1]
  /\ UNCHANGED <<ev, moving, destination, motpos, motors, faults, history,
                 aborted, outside>>

SecondLeg ==
  /\ At("return")
  /\ DriveTo(m0, destination[m0], Seen, TRUE)
  /\ y' = StillMoving(y)
  /\ UNCHANGED <<asked, aborted, outside>>

\* EZ and PICO motors are not checked; a ZETA position in steps is compared
\* with a destination in degrees.
OffTarget(m) ==
  \/ /\ MotType[m] \in {"ACS", "VME", "PIMOT"}
     /\ Abs(pos[m] - destination[m]) > Merr[m]
  \/ /\ MotType[m] = "ZETA"
     /\ Abs(pos[m] * Pulse[m] - destination[m]) > Merr[m]

Judged(off) == IF off THEN [y EXCEPT !.at = "correct"] ELSE NextMotor(y)

FinalPosition ==
  /\ At("final")
  /\ ev' = Seen
  /\ y' = Judged(OffTarget(m0))
  /\ UNCHANGED <<program, motors, faults, history, aborted, outside>>

FinalRetry ==
  /\ At("final") /\ MotType[m0] # "PICO" /\ y.mtries > 1 /\ Fault
  /\ ev' = Seen
  /\ y' = [y EXCEPT !.mtries = @ - 1]
  /\ UNCHANGED <<program, motors, history, aborted, outside>>

\* "could not read final position".
FinalNoneAcs ==
  /\ At("final") /\ MotType[m0] = "ACS" /\ y.mtries = 1 /\ Fault
  /\ Report(m0) /\ AbandonAcs(m0, ToCheck(m0))
  /\ UNCHANGED <<overshot, destination, motpos, motors, outside>>

\* The others go on with whatever the variable holds.
FinalNone ==
  /\ At("final") /\ MotType[m0] \in {"PIMOT", "VME", "ZETA"}
  /\ y.mtries = 1 /\ Fault
  /\ ev' = Seen
  /\ \E off \in BOOLEAN : y' = Judged(off)
  /\ UNCHANGED <<program, motors, history, aborted, outside>>

\* ACS: an undecodable position is asked for once more, and the answer is not
\* decoded; if there is none, the motor is left alone and its position unchecked.
FinalNoise ==
  /\ At("final") /\ MotType[m0] = "ACS" /\ LineNoise /\ Fault
  /\ ev' = Seen
  /\ \E off \in BOOLEAN : y' = Judged(off)
  /\ UNCHANGED <<program, motors, history, aborted, outside>>

FinalNoiseLost ==
  /\ At("final") /\ MotType[m0] = "ACS" /\ LineNoise /\ Fault
  /\ Report(m0) /\ AbandonAcs(m0, y)
  /\ UNCHANGED <<overshot, destination, motpos, motors, outside>>

\* Off target: drive there again.  VME and ZETA count the rewrites of all
\* motors together, and wait before a rewrite.
Correct ==
  /\ At("correct") /\ MotType[m0] \in {"PIMOT", "ACS"}
  /\ DriveTo(m0, destination[m0], Seen, TRUE)
  /\ y' = StillMoving(y)
  /\ UNCHANGED <<asked, aborted, outside>>

\* Mutant: one rewrite too many.
CorrectCountedOneMore ==
  /\ At("correct") /\ MotType[m0] \in {"VME", "ZETA"}
  /\ ev' = Seen
  /\ IF y.rewrites <= MaxRewrites
     THEN /\ y' = [y EXCEPT !.at = "rewrite", !.rewrites = @ + 1]
          /\ UNCHANGED history
     ELSE Report(m0) /\ y' = NextMotor(y)
  /\ UNCHANGED <<program, motors, faults, aborted, outside>>

CorrectCounted ==
  /\ At("correct") /\ MotType[m0] \in {"VME", "ZETA"}
  /\ ev' = Seen
  /\ IF y.rewrites < MaxRewrites
     THEN /\ y' = [y EXCEPT !.at = "rewrite", !.rewrites = @ + 1]
          /\ UNCHANGED history
     ELSE Report(m0) /\ y' = NextMotor(y)
  /\ UNCHANGED <<program, motors, faults, aborted, outside>>

Rewrite ==
  /\ At("rewrite")
  /\ DriveTo(m0, destination[m0], Seen, TRUE)
  /\ y' = StillMoving(y)
  /\ UNCHANGED <<asked, aborted, outside>>

-----------------------------------------------------------------------------
(***************************************************************************)
(* Label 700: stop all.                                                    *)
(***************************************************************************)

\* What one stop command may do: the motors that stop, and lreply after it.
\* Only ACS sets lreply.  PIHALT is called without its argument and halts the
\* axis it happens to find, or none.  ZETA gets the ACS command, on a line no
\* ZETA controller listens to.
Stops(m) ==
  CASE MotType[m] = "ACS"   -> {[motors |-> {m}, lreply |-> Reply]}
    [] MotType[m] = "PIMOT" -> {[motors |-> s, lreply |-> y.lreply] :
                                  s \in {{k} : k \in {k \in Motor :
                                           MotType[k] = "PIMOT"}} \cup {{}}}
    [] MotType[m] = "ZETA"  -> {[motors |-> {}, lreply |-> NoReply]}
    [] OTHER                -> {[motors |-> {m}, lreply |-> y.lreply]}

\* Mutant: the stop command is taken to have worked, reply or not.
LostStopsTrusted(m) == {[motors |-> {}, lreply |-> Reply]}

LostStops(m) ==
  IF MotType[m] = "ACS"
  THEN {[motors |-> s, lreply |-> NoReply] : s \in {{}, {m}}}
  ELSE {[motors |-> {}, lreply |-> y.lreply]}

Stop(m) ==
  \E s \in Stops(m) \cup LostStops(m) :
    /\ \/ s \in Stops(m) /\ UNCHANGED faults
       \/ s \in LostStops(m) /\ Fault
    /\ running' = [k \in Motor |-> running[k] /\ k \notin s.motors]
    /\ IF s.lreply = NoReply
       THEN /\ y' = [y EXCEPT !.cur = @ + 1, !.lreply = NoReply,
                              !.stoperr = TRUE]
            /\ UNCHANGED moving
       ELSE /\ y' = [y EXCEPT !.cur = @ + 1, !.lreply = s.lreply,
                              !.adjpos = @ \/ TrackMoves,
                              !.ckpos[m] = @ \/ TrackMoves]
            /\ moving' = [moving EXCEPT ![m] = FALSE]

HaltMotor ==
  /\ y.at = "halt" /\ Looking
  /\ \/ /\ moving[m0]
        /\ Stop(m0)
        /\ UNCHANGED <<overshot, destination, motpos, pos, goal, dir>>
     \/ /\ ~moving[m0]
        /\ y' = [y EXCEPT !.cur = @ + 1]
        /\ UNCHANGED <<program, motors, faults>>
  /\ UNCHANGED <<ev, history, aborted, outside>>

HaltAgain ==
  /\ y.at = "halt" /\ ~Looking /\ y.stoperr /\ y.notries + 1 < Tries
  /\ y' = [y EXCEPT !.cur = 1, !.stoperr = FALSE, !.notries = @ + 1]
  /\ UNCHANGED <<driveVars, aborted, outside>>

\* Label 800: no flag stays up, confirmed or not.
HaltDone ==
  /\ y.at = "halt" /\ ~Looking /\ (y.stoperr => y.notries + 1 >= Tries)
  /\ moving' = [m \in Motor |-> FALSE]
  /\ y' = [y EXCEPT !.at = "fix"]
  /\ UNCHANGED <<ev, overshot, destination, motpos, motors, faults, history,
                 aborted, outside>>

-----------------------------------------------------------------------------
(***************************************************************************)
(* Label 900: correct the positions on file, and return.                   *)
(***************************************************************************)
Fixes == Nsta = -5 \/ (TrackMoves /\ y.adjpos)

Checked == IF Fixes /\ TrackMoves THEN {m \in Motor : y.ckpos[m]} ELSE {}

\* RdAngl answers -999.99 for a motor it cannot read, and that is filed.
Fix ==
  /\ y.at = "fix"
  /\ \E bad \in SUBSET {m \in Checked : MotType[m] # "PICO"} :
       /\ \/ bad = {} /\ UNCHANGED faults
          \/ bad # {} /\ Fault
       /\ motpos' = [m \in Motor |-> IF m \in bad THEN NoAngle
                                     ELSE IF m \in Checked THEN Known(m)
                                     ELSE motpos[m]]
  /\ y' = [y EXCEPT !.at = "idle"]
  /\ UNCHANGED <<ev, moving, overshot, destination, motors, history, aborted,
                 outside>>

-----------------------------------------------------------------------------
\* Control A.
Interrupt ==
  /\ signals < MaxSignals /\ ~ev.sigint
  /\ signals' = signals + 1
  /\ ev' = SigHandler(ev, "sigint")
  /\ UNCHANGED <<program, motors, faults, history, y, aborted, commands>>

TurnMotor(m) == Turn(m) /\ UNCHANGED <<y, aborted, outside>>

Init ==
  /\ DriveInit
  /\ y = [at |-> "idle", cur |-> 1, mtries |-> 0, status |-> 0,
          lreply |-> NoReply, rewrites |-> 0, finished |-> TRUE,
          notries |-> 0, stoperr |-> FALSE, adjpos |-> FALSE,
          ckpos |-> [m \in Motor |-> FALSE]]
  /\ aborted = FALSE /\ commands = 0 /\ signals = 0

\* What the program does inside Drive and Yield.
Work ==
  \/ DriveNext \/ EnterYield \/ EnterYieldAborted \/ Abort
  \/ PollMotor \/ EndOfPass
  \/ StatusReply \/ StatusLastVme \/ StatusRetry \/ StatusNoneAcs \/ StatusNone
  \/ OnLimit \/ WhereOnLimit \/ DriveOffLimit
  \/ Stopped \/ SecondLeg
  \/ FinalPosition \/ FinalRetry \/ FinalNoneAcs \/ FinalNone
  \/ FinalNoise \/ FinalNoiseLost
  \/ Correct \/ CorrectCounted \/ Rewrite
  \/ HaltMotor \/ HaltAgain \/ HaltDone \/ Fix

\* Out of commands: only here may everything stop.
Rest == y.at = "idle" /\ commands = MaxCommands /\ UNCHANGED vars

Next == Command \/ Work \/ Interrupt \/ Rest \/ \E m \in Motor : TurnMotor(m)

Spec == Init /\ [][Next]_vars

\* The program is never descheduled for good and a motor keeps turning.
FairSpec == Spec /\ WF_vars(Work) /\ \A m \in Motor : WF_vars(TurnMotor(m))
-----------------------------------------------------------------------------
(***************************************************************************)
(* What Yield promises.                                                    *)
(***************************************************************************)
Locals == [at : Places, cur : 0..NumMotors+1, mtries : 0..Tries+1,
           status : {-1, 0, 1}, lreply : {NoReply, Reply},
           rewrites : 0..MaxRewrites, finished : BOOLEAN,
           notries : 0..Tries, stoperr : BOOLEAN, adjpos : BOOLEAN,
           ckpos : [Motor -> BOOLEAN]]

\* Places inside the body of DO 600.
Attending == Places \ {"idle", "drive", "poll", "halt", "fix"}

\* Every variable keeps its type; the loop counter is a motor inside the loop.
TypeOK ==
  /\ DriveTypeOK
  /\ y \in Locals
  /\ y.at \in Attending => y.cur \in Motor
  /\ y.at \in {"poll", "halt"} => y.cur >= 1
  /\ aborted \in BOOLEAN
  /\ commands \in 0..MaxCommands /\ signals \in 0..MaxSignals

Returned == y.at = "idle"

\* The motors a command has moved and not complained about, once Yield has
\* returned without an abort.
Settled == IF Returned /\ ~aborted THEN driven \ gaveup ELSE {}

\* When Yield returns, no flag asks the next Yield to wait for an old move.
FlagsDown == y.at \in {"idle", "fix"} => \A m \in Motor : ~moving[m]

\* What all_finished promises in the middle of a pass: as long as it is up, the
\* motors already looked at have stopped, and so has the one being looked at once
\* its status is known.  Only a new Drive raises a flag then, and that lowers
\* all_finished, or the motor would be left behind.
PassSound ==
  y.finished =>
    /\ y.at \in Attending \cup {"poll"} => \A k \in Motor : k < y.cur => ~moving[k]
    /\ y.at \in Attending \ {"status"} => ~moving[y.cur]

\* Yield waits "for all moving motors to stop at their destination": a motor it
\* does not complain about stands within merr of the angle it was asked for.
OnTarget == \A m \in Settled : ~running[m] /\ Abs(pos[m] - asked[m]) <= Merr[m]

\* The purpose of overshot: every move ends in the direction that takes up the
\* backlash, whatever was lost and repeated on the way.
BacklashTaken == \A m \in Settled : Back[m] # 0 => dir[m] * Back[m] > 0

\* trackmoves: the position on file is the position of the motor, although it
\* is written before the motor starts.
FileFollows ==
  TrackMoves => \A m \in Settled : Abs(motpos[m] - pos[m]) <= Merr[m]

\* Nothing turns behind the program's back: a motor that still turns when
\* Yield returns has been reported, after an abort too ("stop all").
NoRunaway == Returned => \A m \in Motor : running[m] => m \in gaveup

\* "check to see if abort was done and any positions need correction in file":
\* after an abort the file holds the position of every motor that has stopped.
FileAfterAbort ==
  TrackMoves /\ Returned /\ aborted =>
    \A m \in driven : ~running[m] => Abs(motpos[m] - pos[m]) <= Merr[m]

\* A command comes to an end.
YieldReturns == ~Returned ~> Returned
=============================================================================
