------------------------------- MODULE Counting -------------------------------
(***************************************************************************)
(* The AM9513 scaler: five 16-bit counters behind a driver.  The first     *)
(* counts down from the preset and its output is the gate of the others,   *)
(* which count in pairs, a low and a high word.  A preset too large for    *)
(* one counter is counted in pieces, and the poll that finds a piece at    *)
(* its end adds its reading to the totals.                                 *)
(*                                                                         *)
(* The ioctls of the driver may fail; the code says so and goes on.        *)
(***************************************************************************)
EXTENDS Integers, FiniteSets

CONSTANTS
  Piece,       \* the largest preset of a piece, 65000 in the code
  Word,        \* what a register of 16 bits cannot hold any more
  Presets,     \* what is counted for: pairs of a preset and a mode
  MaxPulses,   \* bounds the pulses of each input that is not counted down
  MaxErrors    \* bounds the ioctls that fail

ASSUME CountingAssumption ==
  /\ Piece \in Nat \ {0} /\ Word \in Nat /\ Piece < Word
  /\ Presets \subseteq Nat \X {"ticks", "monitor"}
  /\ MaxPulses \in [{"ticks", "monitor", "detector"} -> 0 .. Word * Word - 1]
  /\ MaxErrors \in Nat

VARIABLES
  preset,     \* of the count
  ctrmode,    \* the input counted down: "ticks" or "monitor"
  ampreset,   \* what the pieces to come have to count
  load,       \* the load register of the first counter, as the program has it
  hold,       \* the counts read last
  total,      \* amticks, ammonitor and amdetector
  cStatus,    \* the output of the first counter, as read last
  iscounting, \* the last answer of SCALERSTATUS
  chip,       \* the counters
  seen,       \* the pulses the chip has counted since the start
  polls,      \* how often the piece has been added to the totals
  errors,     \* how many ioctls failed
  clean       \* none has since the start

program == <<preset, ctrmode, ampreset, load, hold, total, cStatus, iscounting>>
tally == <<seen, polls, errors, clean>>
scalerVars == <<program, chip, tally>>

Modes == {"ticks", "monitor"}
Inputs == Modes \cup {"detector"}
Pairs == {"other", "detector"}

\* While one input is counted down the other one is counted.
Other(mode) == IF mode = "ticks" THEN "monitor" ELSE "ticks"

None == [p \in Pairs |-> 0]
Nothing == [i \in Inputs |-> 0]

\* The input of the first counter, its load register, the pulses it still has
\* to count, its output, and the counts of the pairs.
ChipReset ==
  [source |-> "ticks", load |-> 0, left |-> 0, out1 |-> FALSE, armed |-> FALSE, pairs |-> None]

\* A pair is read in two words.
Low(n) == n % Word
High(n) == (n \div Word) % Word
val2(low, high) == high * Word + low

Read(pairs) == [p \in Pairs |-> val2(Low(pairs[p]), High(pairs[p]))]

\* The count has ended and was polled no more since.
Ended == ~iscounting /\ polls = 1

(***************************************************************************)
(* The five ioctls that set up a piece, and what they leave of the chip    *)
(* when some of them fail.                                                 *)
(***************************************************************************)
Arming == {"disarm", "configure", "load", "gate", "arm"}

Configured(c, mode, register, failed) ==
  IF "configure" \in failed THEN c ELSE [c EXCEPT !.source = mode, !.load = register]

Loaded(c, failed) ==
  IF "load" \in failed THEN c ELSE [c EXCEPT !.left = c.load + 1, !.pairs = None]

Armed(c, mode, register, failed) ==
  [Loaded(Configured(c, mode, register, failed), failed) EXCEPT
     !.out1 = @ \/ "gate" \notin failed,
     !.armed = "arm" \notin failed \/ (@ /\ "disarm" \in failed)]

Failing(n) ==
  /\ errors + n <= MaxErrors
  /\ errors' = errors + n

\* What of n is counted next.
increment(n) == IF n >= Piece THEN Piece ELSE n

SCALERINIT ==
  /\ preset = 0 /\ ctrmode = "ticks" /\ ampreset = 0
  /\ load = 0 /\ hold = None /\ total = Nothing
  /\ cStatus = FALSE /\ iscounting = FALSE
  /\ chip = ChipReset
  /\ seen = Nothing /\ polls = 0 /\ errors = 0 /\ clean = FALSE

\* Failures are reported and the others done all the same.  A preset of zero
\* leaves the largest number in the load register.
SCALERSTART(n, mode) ==
  /\ preset' = n /\ ctrmode' = mode
  /\ ampreset' = n - increment(n)
  /\ load' = (increment(n) - 1) % Word
  /\ hold' = None /\ total' = Nothing
  /\ \E failed \in SUBSET Arming :
       /\ Failing(Cardinality(failed))
       /\ chip' = Armed(chip, mode, load', failed)
       /\ clean' = (failed = {})
  /\ seen' = Nothing /\ polls' = 0
  /\ UNCHANGED <<cStatus, iscounting>>
-----------------------------------------------------------------------------
(* Polling.                                                                *)

Disarmed(c, lost) == IF "disarm" \in lost THEN c ELSE [c EXCEPT !.armed = FALSE]

\* The preset is taken for what was counted down.
Totals(counts) ==
  [total EXCEPT ![ctrmode] = @ + load + 1,
                ![Other(ctrmode)] = @ + counts["other"],
                !["detector"] = @ + counts["detector"]]

\* When an ioctl of the next piece fails those after it are not done, and the
\* count is over.
Broken(first) ==
  CASE first = "none" -> {}
    [] first = "disarm" -> Arming
    [] first = "configure" -> Arming \ {"disarm"}
    [] first = "load" -> {"load", "gate", "arm"}
    [] first = "gate" -> {"gate", "arm"}
    [] first = "arm" -> {"arm"}

NextPiece(lost, first) ==
  /\ ampreset > 0
  /\ ampreset' = ampreset - increment(ampreset)
  /\ load' = increment(ampreset) - 1
  /\ hold' = None
  /\ chip' = Armed(Disarmed(chip, lost), ctrmode, load', Broken(first))
  /\ iscounting' = (first = "none")
  /\ polls' = IF first = "none" THEN 0 ELSE polls + 1

LastPiece(lost, counts) ==
  /\ ampreset = 0
  /\ hold' = counts
  /\ chip' = Disarmed(chip, lost)
  /\ iscounting' = FALSE
  /\ polls' = polls + 1
  /\ UNCHANGED <<ampreset, load>>

SCALERPROGRESS(lost, first) ==
  LET counts == IF "read" \in lost THEN hold ELSE Read(chip.pairs)
  IN /\ total' = Totals(counts)
     /\ \/ NextPiece(lost, first)
        \/ LastPiece(lost, counts) /\ first = "none"

\* Mutant: the count is over as soon as one piece of it is.
SCALERSTATUSOver ==
  /\ cStatus' = chip.out1 /\ iscounting' = chip.out1
  /\ total' = IF chip.out1 THEN total ELSE Totals(Read(chip.pairs))
  /\ polls' = IF chip.out1 THEN polls ELSE polls + 1
  /\ UNCHANGED <<preset, ctrmode, ampreset, load, hold, chip, seen, errors, clean>>

\* A status that cannot be read is what it was.
SCALERSTATUS ==
  \E lost \in SUBSET {"status", "disarm", "read"}, first \in Arming \cup {"none"} :
    /\ Failing(Cardinality(lost) + IF first = "none" THEN 0 ELSE 1)
    /\ clean' = (clean /\ lost = {} /\ first = "none")
    /\ cStatus' = IF "status" \in lost THEN cStatus ELSE chip.out1
    /\ IF cStatus'
       THEN /\ lost \subseteq {"status"} /\ first = "none"
            /\ iscounting' = TRUE
            /\ UNCHANGED <<ampreset, load, hold, total, chip, polls>>
       ELSE SCALERPROGRESS(lost, first)
    /\ UNCHANGED <<preset, ctrmode, seen>>

\* SCALERREAD: what it returns, in ticks.
SCALERREAD == total

\* A count that has not ended is none any more.
SCALERRESET ==
  /\ \/ chip' = ChipReset /\ UNCHANGED errors
     \/ Failing(1) /\ UNCHANGED chip
  /\ clean' = (clean /\ Ended)
  /\ UNCHANGED <<program, seen, polls>>
-----------------------------------------------------------------------------
(* The inputs.  The first counter counts down and toggles its output at    *)
(* the end; the pairs count while that is high.                            *)

CountDown(i) ==
  /\ i = chip.source /\ chip.left > 0
  /\ chip' = [chip EXCEPT !.left = @ - 1, !.out1 = IF chip.left = 1 THEN ~@ ELSE @]

CountUp(i) ==
  /\ i # chip.source /\ chip.out1 /\ seen[i] < MaxPulses[i]
  /\ chip' = [chip EXCEPT !.pairs[IF i = "detector" THEN i ELSE "other"] = (@ + 1) % (Word * Word)]

Pulse(i) ==
  /\ chip.armed
  /\ CountDown(i) \/ CountUp(i)
  /\ seen' = [seen EXCEPT ![i] = @ + 1]
  /\ UNCHANGED <<program, polls, errors, clean>>

CountingNext ==
  \/ \E p \in Presets : SCALERSTART(p[1], p[2])
  \/ SCALERSTATUS
  \/ SCALERRESET
  \/ \E i \in Inputs : Pulse(i)

CountingSpec == SCALERINIT /\ [][CountingNext]_scalerVars
-----------------------------------------------------------------------------
\* A count for nothing is one for as much as the counter can hold.
Due == IF preset = 0 THEN Word ELSE preset

\* However many pieces it took, the totals of a count are the preset, and all
\* that the chip has counted while it counted the preset down: no piece is lost,
\* none added twice, and no pulse falls between the words of a pair.  A count
\* that was polled again after its end has its last piece twice.
Exact ==
  clean /\ Ended =>
    /\ total[ctrmode] = Due
    /\ total = seen
=============================================================================
