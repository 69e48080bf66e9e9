----------------------------- MODULE Instruments -----------------------------
(***************************************************************************)
(* The operations of the instruments that hang on serial lines: what each  *)
(* routine of the drivers asks, in which order, which answers it looks at, *)
(* and what it makes of a missing one.  An instrument has a line of its    *)
(* own; its operations follow one another, and what is left on the line by *)
(* one is there for the next.                                              *)
(***************************************************************************)
EXTENDS Talkers, SerialLine

CONSTANTS
  Kits,      \* the instruments, each the set of its operations
  MaxCalls   \* how many operations follow one another

(***************************************************************************)
(* A question of an operation: the routine that exchanges it, how often it *)
(* is tried, and whether the operation stops when no answer comes (lost)   *)
(* or when it cannot be read (bad).                                        *)
(***************************************************************************)
Question(by, q, lost, bad) ==
  [by |-> by, q |-> q, reads |-> TRUE, tries |-> 1, lost |-> lost, bad |-> bad]

Ask(by, q) == Question(by, q, "stop", "stop")
Order(by, q) == Question(by, q, "stop", "on")
Try(by, q) == Question(by, q, "on", "on")
Tell(by, q) == [Try(by, q) EXCEPT !.reads = FALSE]

(***************************************************************************)
(* An operation: its questions; which of the answers tells that the motor  *)
(* moves, is on the upper or on the lower limit, if any; and whether it is *)
(* done as soon as the motor is known to move.                             *)
(***************************************************************************)
Op(questions) == [questions |-> questions, moving |-> 0, plus |-> 0, minus |-> 0, movingEnds |-> FALSE]

Look(questions, moving, plus, minus) ==
  [Op(questions) EXCEPT !.moving = moving, !.plus = plus, !.minus = minus]
-----------------------------------------------------------------------------
(* The VME controller: motors and scalers.                                 *)

VMESETPOS == Op(<<Ask(RS232V, "motor position to")>>)
VMEGETPOS == Op(<<Ask(RS232V, "motor position")>>)
VMEGOPOS  == Op(<<Ask(RS232V, "motor move")>>)
VMESTATUS == Look(<<Ask(RS232V, "motor motion"), Ask(RS232V, "motor limits")>>, 1, 2, 2)
VMEHALT   == Op(<<Order(RS232V, "motor stop")>>)
VMEENABLE  == Op(<<Try(RS232V, "motor enable")>>)
VMEDISABLE == Op(<<Try(RS232V, "motor disable")>>)
VMEHOME   == Op(<<Order(RS232V, "motor home")>>)
VMEGOLIM  == Op(<<Try(RS232V, "motor findlim")>>)

\* The scaler is armed whether it has taken the preset or not.
VSCALERSTART  == Op(<<Try(RS232V, "scaler preset"), Try(RS232V, "scaler arm")>>)
\* No answer is taken for the end of the count.
VSCALERSTATUS == Op(<<Try(RS232V, "scaler status")>>)
VSCALERSTOP   == Op(<<Try(RS232V, "scaler abort")>>)
VSCALERRESET  == Op(<<Try(RS232V, "scaler reset")>>)
\* No answer, five times, is taken for counts of zero.
VSCALERREAD   == Op(<<[Try(RS232V, "scaler read") EXCEPT !.tries = 5]>>)

Vme == {VMESETPOS, VMEGETPOS, VMEGOPOS, VMESTATUS, VMEHALT, VMEENABLE, VMEDISABLE, VMEHOME, VMEGOLIM,
        VSCALERSTART, VSCALERSTATUS, VSCALERSTOP, VSCALERRESET, VSCALERREAD}
-----------------------------------------------------------------------------
(* The other motor controllers.                                            *)

EZSETPOS == Op(<<Ask(RS232EZ, "z")>>)
EZGETPOS == Op(<<Ask(RS232EZ, "?0")>>)
EZGOPOS  == Op(<<Ask(RS232EZ, "A")>>)
\* The bit of the upper limit is shifted out of the answer.
EZSTATUS == [Look(<<Ask(RS232EZ, "Q"), Ask(RS232EZ, "?4")>>, 1, 0, 0) EXCEPT !.movingEnds = TRUE]
EZHALT   == Op(<<Ask(RS232EZ, "T")>>)
EZHOME   == Op(<<[Ask(RS232EZ, "Z") EXCEPT !.lost = "on", !.bad = "on"]>>)

Ez == {EZSETPOS, EZGETPOS, EZGOPOS, EZSTATUS, EZHALT, EZHOME}

PICOSETPOS == Op(<<Order(RS232I(TRUE), "POS to")>>)
PICOGETPOS == Op(<<Ask(RS232I(TRUE), "POS")>>)
PICOGOREL  == Op(<<Order(RS232I(FALSE), "REL")>>)
PICOSTATUS == Look(<<Ask(RS232I(TRUE), "STA")>>, 1, 0, 0)
PICOHALT   == Op(<<Order(RS232I(FALSE), "STO")>>)

Pico == {PICOSETPOS, PICOGETPOS, PICOGOREL, PICOSTATUS, PICOHALT}

PISETPOS  == Op(<<Tell(RS232P, "POS")>>)
PIGETPOS  == Op(<<Ask(RS232P, "POS?")>>)
PISETVEL  == Op(<<Tell(RS232P, "MVEL")>>)
PISETACC  == Op(<<Tell(RS232P, "ACC")>>)
PIGOPOS   == Op(<<Tell(RS232P, "TARG")>>)
PIHALT    == Op(<<Tell(RS232P, "HALT")>>)
\* The upper limit is overwritten by what the lower one says.
PISTATUS  == Look(<<Ask(RS232P, "STAT:MOT:COND?")>>, 1, 0, 1)
PILIMSTAT == Look(<<Ask(RS232P, "LIM:LEV?")>>, 0, 1, 1)

Pi == {PISETPOS, PIGETPOS, PISETVEL, PISETACC, PIGOPOS, PIHALT, PISTATUS, PILIMSTAT}

ZETASETPOS == Op(<<Order(RS232Z(FALSE), "PSET")>>)
ZETAGETPOS == Op(<<Ask(RS232Z(TRUE), "TPE")>>)
ZETAGOPOS  == Op(<<Order(RS232Z(FALSE), "D"), Order(RS232Z(FALSE), "GO")>>)
ZETASTATUS == Look(<<Ask(RS232Z(TRUE), "tas.1"), Ask(RS232Z(TRUE), "tas.15"), Ask(RS232Z(TRUE), "tas.16")>>,
                   1, 2, 3)
ZETAHALT   == Op(<<Order(RS232Z(FALSE), "S")>>)
ZETAHOME   == Op(<<Order(RS232Z(FALSE), "HOM")>>)

Zeta == {ZETASETPOS, ZETAGETPOS, ZETAGOPOS, ZETASTATUS, ZETAHALT, ZETAHOME}
-----------------------------------------------------------------------------
(* Thermometers, power supplies and relays.  A temperature that cannot be  *)
(* read is not told from one that can, but for the length of the answer of *)
(* the Petite Fleur.                                                       *)

OMCN_READTEMPS == Op(<<Order(OMCN_Inq, "sample"), Order(OMCN_Inq, "setpoint"), Order(OMCN_Inq, "control")>>)
OMCN_WRITETEMP == Op(<<Order(OMCN_Put, "setpoint")>>)
OMCN_PIDR      == Op(<<Order(OMCN_Put, "P"), Order(OMCN_Put, "I"), Order(OMCN_Put, "D"), Order(OMCN_Put, "limit")>>)

Omcn == {OMCN_READTEMPS, OMCN_WRITETEMP, OMCN_PIDR}

THERMO_READTEMPS == Op(<<Order(Thermo_PutMsg, "internal"), Order(Thermo_PutMsg, "external"),
                         Order(Thermo_PutMsg, "setpoint")>>)
THERMO_WRITETEMP == Op(<<Order(Thermo_PutMsg, "set setpoint")>>)

Thermo == {THERMO_READTEMPS, THERMO_WRITETEMP}

OMCNI_READTEMPS == Op(<<Order(OMCNi_Talk, "X01"), Order(OMCNi_Talk, "R01")>>)
OMCNI_WRITETEMP == Op(<<Tell(OMCNi_Talk, "W01")>>)

Omcni == {OMCNI_READTEMPS, OMCNI_WRITETEMP}

PF == Talker("before", <<CR>>, FALSE, <<Text("CR")>>)
PF_QUERY == Op(<<Ask(PF, "M01")>>)

ADAM_SETVOLT == Op(<<Ask(RS232_ADAM, "#")>>)
ADAM_GETVOLT == Op(<<Ask(RS232_ADAM, "$")>>)
\* Off and on again; whether the relay has done so is not asked.
PSSW_TOGGLE  == Op(<<Try(ADAM_TALK, "on"), Try(ADAM_TALK, "off")>>)
PSSW_STATE   == Op(<<Ask(ADAM_TALK, "$")>>)

Adam == {ADAM_SETVOLT, ADAM_GETVOLT}
Relay == {PSSW_TOGGLE, PSSW_STATE}

\* What the routines in Fortran ask of the others is one question at a time.
Single == {RS232TC_RD, RS232TC_LK, OM232O, RS232TC_OM, RS232TC_NL, RS232TC_LV, RS232TC_LR700,
           RS232TC_LTC, RS232TC_FRN(TRUE), RS232TC_FRN(FALSE), RS232TC_CR, RS232TC_OX, RS232HC_SC,
           RS232_OX, RS232_OXMAG, RS232, RS232F, RS232PC}
-----------------------------------------------------------------------------
VARIABLES
  kit,      \* the instrument on the line
  motor,    \* where its motor is
  op,       \* the operation under way or last done
  calls,    \* how many there have been
  at,       \* the question being asked
  tried,    \* how often
  told,     \* what the answers said
  status,   \* of the operation: "busy", "ok", "failed"
  before,   \* where the motor was when the operation was called
  sure,     \* the operation was called when the line was calm
  lateThen, \* how many answers had been late then
  own       \* what was asked has reached the instrument, and was answered

call == <<kit, op, calls, at, tried, told, status, before, sure, lateThen, own>>
vars == <<lineVars, motor, call>>

MotorStates == {"moving", "still", "plus", "minus"}

ASSUME InstrumentsAssumption ==
  /\ MaxCalls \in Nat
  /\ MotorStates \cup {"sound"} \subseteq Says
  /\ \A k \in Kits : \A o \in k :
       /\ Len(o.questions) \in Nat \ {0}
       /\ \A i \in 1..Len(o.questions) :
            o.questions[i].by \in Routines /\ o.questions[i].reads \in BOOLEAN

Looks(o) == {o.moving, o.plus, o.minus} # {0}

\* The routines that an instrument is talked to by.
Asks(k) == UNION {{o.questions[i].by : i \in 1..Len(o.questions)} : o \in k}

\* Routines that never flush and share a line: an answer has one text, and
\* what else it has ends the first part of no answer.
InLine(talks) ==
  \A t \in talks :
    /\ t.flush = "never" /\ t.keep = 1
    /\ \A i \in 1..Len(t.sends) :
         IF t.sends[i].text THEN i = 1 ELSE \A u \in talks : t.sends[i].ends \notin u.until[1]

\* A routine that brings a text whenever it brings an answer.
Keeps(t) ==
  /\ t.keep \in 1..Len(t.until) /\ \A part \in t.optional : part > t.keep
  /\ \A i \in 1..Len(t.sends) : t.sends[i].ends \in t.until[t.keep] => t.sends[i].text

\* What is known of the tables of the drivers.  An operation that asks more than
\* once reads each answer to its end; one that looks at a motor does so with
\* questions it does not go on without.
ASSUME TablesAssumption ==
  \A k \in Kits :
    /\ \A t \in Asks(k) : 1 \notin t.optional
    /\ InLine(Asks(k)) \/ \A t \in Asks(k) : t.flush # "never"
    /\ \A o \in k : LET size == Len(o.questions) IN
         /\ \A i \in 1..size :
              /\ o.questions[i].tries \in Nat
              /\ size > 1 \/ o.questions[i].tries > 1 =>
                   Len(o.questions[i].by.sends) <= Len(o.questions[i].by.until)
         /\ Looks(o) =>
              /\ o.moving \in {0, 1} /\ o.plus \in 0..size /\ o.minus \in 0..size
              /\ \A i \in {o.moving, o.plus, o.minus} \ {0} :
                   LET question == o.questions[i] IN
                   /\ question.reads /\ question.lost = "stop" /\ question.bad = "stop"
                   /\ Keeps(question.by)

\* An instrument whose operations look at no motor has none.
Init ==
  /\ LineInit /\ talker = PF
  /\ kit \in Kits
  /\ motor \in IF \E o \in kit : Looks(o) THEN MotorStates ELSE {"still"}
  /\ op = Op(<<>>) /\ calls = 0 /\ at = 0 /\ tried = 0 /\ told = <<>> /\ status = "ok"
  /\ before = motor /\ sure = TRUE /\ lateThen = 0 /\ own = TRUE

Call(o) ==
  /\ status # "busy" /\ calls < MaxCalls
  /\ Begin(o.questions[1].by, o.questions[1].reads)
  /\ op' = o /\ calls' = calls + 1
  /\ at' = 1 /\ tried' = 1 /\ told' = <<>> /\ status' = "busy"
  /\ before' = motor /\ sure' = calm' /\ lateThen' = late /\ own' = TRUE
  /\ UNCHANGED <<kit, motor>>

Exchanging ==
  /\ status = "busy"
  /\ Exchange(IF Looks(op) THEN motor ELSE "sound")
  /\ UNCHANGED <<motor, call>>

Sound == \A piece \in took : piece.says # "garbled"

Again ==
  /\ status = "busy" /\ phase = "done"
  /\ outcome = "lost" /\ tried < op.questions[at].tries
  /\ Begin(op.questions[at].by, TRUE)
  /\ tried' = tried + 1
  /\ UNCHANGED <<motor, kit, op, calls, at, told, status, before, sure, lateThen, own>>

\* Mutant: a missing answer is not noticed.
GoodAnyway(question) == outcome \in {"lost", "answer", "sent"}

\* Mutant: an answer that cannot be read is not noticed.
GoodUnread(question) ==
  \/ outcome = "lost" /\ question.lost = "on"
  \/ outcome \in {"answer", "sent"}

\* What has come is as good as what the operation looks at.
Good(question) ==
  \/ outcome = "lost" /\ question.lost = "on"
  \/ outcome = "answer" /\ (Sound \/ question.bad = "on")
  \/ outcome = "sent"

\* The operation stops, goes on to its next question, or is done.
Conclude ==
  LET question == op.questions[at]
      said == IF took = {} THEN "nothing" ELSE (CHOOSE piece \in took : TRUE).says
      enough == op.movingEnds /\ said = "moving"
  IN /\ status = "busy" /\ phase = "done"
     /\ ~(outcome = "lost" /\ tried < question.tries)
     /\ told' = Append(told, said)
     /\ own' = (own /\ (question.reads /\ question.lost = "stop" =>
                          /\ asked \in heard
                          /\ outcome = "answer" /\ \A piece \in took : piece.to = asked
                          /\ question.bad = "stop" => Sound))
     /\ IF ~Good(question) \/ at = Len(op.questions) \/ enough
        THEN /\ status' = IF Good(question) THEN "ok" ELSE "failed"
             /\ Return
             /\ UNCHANGED <<at, tried>>
        ELSE /\ at' = at + 1 /\ tried' = 1
             /\ Begin(op.questions[at + 1].by, op.questions[at + 1].reads)
             /\ UNCHANGED status
     /\ UNCHANGED <<motor, kit, op, calls, before, sure, lateThen>>

\* A motor that moves comes to its end, or to a limit.
Turn ==
  /\ motor = "moving"
  /\ motor' \in {"still", "plus", "minus"}
  /\ UNCHANGED <<lineVars, call>>

Arriving == Arrive /\ UNCHANGED <<motor, call>>

Next == (\E o \in kit : Call(o)) \/ Exchanging \/ Again \/ Conclude \/ Turn \/ Arriving

\* The program runs on; what is on its way comes.
Spec == Init /\ [][Next]_vars /\ WF_vars(Exchanging \/ Again \/ Conclude) /\ WF_vars(Arriving)
-----------------------------------------------------------------------------
TypeOK ==
  /\ LineTypeOK
  /\ kit \in Kits /\ motor \in MotorStates /\ before \in MotorStates
  /\ calls \in 0..MaxCalls /\ at \in Nat /\ tried \in Nat
  /\ told \in Seq(MotorStates \cup {"sound", "garbled", "nothing"})
  /\ status \in {"busy", "ok", "failed"}
  /\ sure \in BOOLEAN /\ own \in BOOLEAN /\ lateThen \in Nat

\* The operation began when all was quiet, and no answer came late to it.
Undisturbed == sure /\ late = lateThen

\* An operation that says it has succeeded has: each question that it does not
\* go on without has reached the instrument and was answered by its own answer,
\* although answers are lost, garbled, and left over by operations before it.
Reported == status = "ok" /\ Undisturbed => own

SaysMoving == op.moving # 0 /\ told[op.moving] = "moving"
SaysPlus == op.plus # 0 /\ Len(told) >= op.plus /\ told[op.plus] = "plus"
SaysMinus == op.minus # 0 /\ Len(told) >= op.minus /\ told[op.minus] = "minus"

\* What a status says of the motor was so between its call and its return,
\* although the motor turns on between its questions: a motor said to stand
\* still stands, one on a limit is on it, and a limit that was reached before
\* the call is not overlooked where the controller is asked for it.
MotorSeen ==
  status = "ok" /\ Looks(op) /\ Undisturbed =>
    /\ op.moving # 0 => IF SaysMoving THEN before = "moving" ELSE motor # "moving"
    /\ SaysPlus => motor = "plus"
    /\ SaysMinus => motor = "minus"
    /\ before = "plus" /\ op.plus # 0 => SaysPlus
    /\ before = "minus" /\ op.minus # 0 => SaysMinus

\* Every operation ends, whatever is lost on the line.
Ends == status = "busy" ~> status # "busy"
=============================================================================
