--------------------------- MODULE AreaCountProofs ---------------------------
(***************************************************************************)
(* Counting with an area detector, for any number of elements and size of  *)
(* a block, and any number of mishaps and counts: AIM_XFER implements the  *)
(* abstract Transfer where an element takes one long, the totals are exact *)
(* and what is filed was counted to its end.                               *)
(***************************************************************************)
EXTENDS AreaCount, SequenceTheorems, TLAPS

-----------------------------------------------------------------------------
(***************************************************************************)
(* The AM9513 by itself.  A count that no ioctl failed in is exact, for    *)
(* any preset, any size of a piece and of a word, and however pulses and   *)
(* polls fall.                                                             *)
(***************************************************************************)
Chips ==
  [source : Inputs, load : Nat, left : Nat, out1 : BOOLEAN, armed : BOOLEAN, pairs : [Pairs -> Nat]]

CountTyped ==
  /\ preset \in Nat /\ ctrmode \in Modes /\ ampreset \in Nat /\ load \in 0..Word - 1
  /\ hold \in [Pairs -> Nat] /\ total \in [Inputs -> Nat]
  /\ cStatus \in BOOLEAN /\ iscounting \in BOOLEAN
  /\ chip \in Chips
  /\ seen \in [Inputs -> Nat] /\ polls \in Nat /\ clean \in BOOLEAN

\* A piece is being counted, or its end was not polled yet.
Tallied(i, pairs) == total[i] + pairs = seen[i] /\ seen[i] <= MaxPulses[i]

Piecemeal ==
  /\ chip.armed /\ chip.source = ctrmode
  /\ chip.out1 <=> chip.left > 0
  /\ total[ctrmode] + load + 1 + ampreset = Due
  /\ seen[ctrmode] + chip.left = total[ctrmode] + load + 1
  /\ Tallied(Other(ctrmode), chip.pairs["other"])
  /\ Tallied("detector", chip.pairs["detector"])

\* The last piece has been polled.
Settled ==
  /\ ~chip.armed /\ ~chip.out1 /\ ampreset = 0
  /\ polls = 1 => total[ctrmode] = Due /\ total = seen

CountInv ==
  /\ CountTyped
  /\ clean /\ polls = 0 => Piecemeal
  /\ clean /\ polls # 0 => Settled
-----------------------------------------------------------------------------
(* Numbers.                                                                *)

LEMMA Widths == Word \in Nat /\ Piece \in Nat /\ 0 < Piece /\ Piece < Word /\ Word * Word \in Nat
  BY CountingAssumption

LEMMA SmallMod ==
  ASSUME NEW a \in Nat, NEW b \in Nat, a < b
  PROVE  a % b = a
  OBVIOUS

LEMMA TimesGrows ==
  ASSUME NEW a \in Nat, NEW b \in Nat, NEW c \in Nat, a >= b
  PROVE  c * a >= c * b
<1>1. PICK d \in Nat : a = b + d
  <2>1. a - b \in Nat /\ a = b + (a - b)
    OBVIOUS
  <2>. QED
    BY <2>1
<1>2. c * (b + d) = c * b + c * d /\ c * d \in Nat /\ c * b \in Nat
  OBVIOUS
<1>. QED
  BY <1>1, <1>2

LEMMA Successor == \A num \in Nat : num + 1 > 0
  OBVIOUS

LEMMA InputsAre ==
  ASSUME NEW mode \in Modes
  PROVE  /\ Inputs = {mode, Other(mode), "detector"}
         /\ Other(mode) \in Modes /\ Other(mode) # mode /\ mode # "detector" /\ Other(mode) # "detector"
  BY DEF Inputs, Modes, Other

\* A pair read in two words is what was counted, unless it has overflowed.
LEMMA WordsOfPair ==
  ASSUME NEW num \in Nat, num < Word * Word
  PROVE  val2(Low(num), High(num)) = num
<1>1. Word \in Nat /\ Word > 0
  BY Widths
<1>2. num = Word * (num \div Word) + (num % Word) /\ num % Word \in Nat /\ num \div Word \in Nat
  BY <1>1
<1>3. num \div Word < Word
  <2>1. SUFFICES ASSUME num \div Word >= Word
                 PROVE  FALSE
    BY <1>1, <1>2
  <2>2. Word * (num \div Word) >= Word * Word
    BY <1>1, <1>2, <2>1, TimesGrows
  <2>. QED
    BY <1>1, <1>2, <2>2
<1>4. (num \div Word) % Word = num \div Word
  BY <1>1, <1>2, <1>3, SmallMod
<1>5. (num \div Word) * Word = Word * (num \div Word)
  BY <1>1, <1>2
<1>. QED
  BY <1>2, <1>4, <1>5 DEF val2, Low, High

LEMMA IncrementBounds ==
  ASSUME NEW num \in Nat
  PROVE  /\ increment(num) \in Nat /\ increment(num) <= num /\ increment(num) <= Piece
         /\ num > 0 => increment(num) > 0
  BY Widths DEF increment
-----------------------------------------------------------------------------
(* The ioctls.                                                             *)

LEMMA ArmedTyped ==
  ASSUME NEW c \in Chips, NEW mode \in Inputs, NEW register \in Nat, NEW failed
  PROVE  Armed(c, mode, register, failed) \in Chips
<1>1. Configured(c, mode, register, failed) \in Chips
  BY DEF Configured, Chips
<1>2. None \in [Pairs -> Nat]
  BY DEF None
<1>3. ASSUME NEW d \in Chips
      PROVE  Loaded(d, failed) \in Chips
  <2>1. d.load + 1 \in Nat
    BY DEF Chips
  <2>2. [d EXCEPT !.left = d.load + 1, !.pairs = None] \in Chips
    BY <1>2, <2>1 DEF Chips
  <2>. QED
    BY <2>2 DEF Loaded
<1>4. Loaded(Configured(c, mode, register, failed), failed) \in Chips
  BY <1>1, <1>3
<1>. QED
  <2>. DEFINE d == Loaded(Configured(c, mode, register, failed), failed)
  <2>1. d \in Chips
    BY <1>4
  <2>2. ASSUME NEW out1 \in BOOLEAN, NEW ready \in BOOLEAN
        PROVE  [d EXCEPT !.out1 = out1, !.armed = ready] \in Chips
    <3>. HIDE DEF d
    <3>. QED
      BY <2>1 DEF Chips
  <2>3. (d.out1 \/ "gate" \notin failed) \in BOOLEAN
    OBVIOUS
  <2>4. ("arm" \notin failed \/ (d.armed /\ "disarm" \in failed)) \in BOOLEAN
    OBVIOUS
  <2>. QED
    BY <2>2, <2>3, <2>4 DEF Armed

\* The counter has been set up for a piece and runs.
Running(c, mode, register) ==
  /\ c.source = mode /\ c.load = register /\ c.left = register + 1 /\ c.out1 /\ c.armed
  /\ c.pairs["other"] = 0 /\ c.pairs["detector"] = 0

LEMMA ArmedAll ==
  ASSUME NEW c \in Chips, NEW mode \in Inputs, NEW register \in Nat
  PROVE  Running(Armed(c, mode, register, {}), mode, register)
<1>. DEFINE d == Loaded(Configured(c, mode, register, {}), {})
            a == Armed(c, mode, register, {})
<1>1. /\ d \in Chips /\ d.source = mode /\ d.load = register /\ d.left = register + 1 /\ d.pairs = None
  <2>1. /\ Configured(c, mode, register, {}) \in Chips
        /\ Configured(c, mode, register, {}).source = mode /\ Configured(c, mode, register, {}).load = register
    BY DEF Configured, Chips
  <2>2. None \in [Pairs -> Nat]
    BY DEF None
  <2>3. ASSUME NEW e \in Chips, e.source = mode, e.load = register
        PROVE  /\ Loaded(e, {}) \in Chips /\ Loaded(e, {}).source = mode /\ Loaded(e, {}).load = register
               /\ Loaded(e, {}).left = register + 1 /\ Loaded(e, {}).pairs = None
    <3>1. Loaded(e, {}) = [e EXCEPT !.left = register + 1, !.pairs = None]
      BY <2>3 DEF Loaded
    <3>2. register + 1 \in Nat
      OBVIOUS
    <3>. QED
      BY <2>2, <2>3, <3>1, <3>2 DEF Chips
  <2>. QED
    BY <2>1, <2>3
<1>2. a = [d EXCEPT !.out1 = (d.out1 \/ "gate" \notin {}),
                    !.armed = ("arm" \notin {} \/ (d.armed /\ "disarm" \in {}))]
  BY DEF Armed
<1>3. a.source = d.source /\ a.load = d.load /\ a.left = d.left /\ a.pairs = d.pairs /\ a.out1 /\ a.armed
  <2>. HIDE DEF d, a
  <2>. QED
    BY <1>1, <1>2 DEF Chips
<1>4. None["other"] = 0 /\ None["detector"] = 0
  BY DEF None, Pairs
<1>. QED
  BY <1>1, <1>3, <1>4 DEF Running

LEMMA DisarmedTyped ==
  ASSUME NEW c \in Chips, NEW lost
  PROVE  /\ Disarmed(c, lost) \in Chips
         /\ Disarmed(c, {}) = [c EXCEPT !.armed = FALSE]
  BY DEF Disarmed, Chips

LEMMA ReadTyped ==
  ASSUME NEW pairs \in [Pairs -> Nat]
  PROVE  Read(pairs) \in [Pairs -> Nat]
<1>1. \A p \in Pairs : Low(pairs[p]) \in Nat /\ High(pairs[p]) \in Nat
  BY Widths DEF Low, High
<1>. QED
  BY <1>1, Widths DEF Read, val2

LEMMA TotalsTyped ==
  ASSUME CountTyped, NEW counts \in [Pairs -> Nat]
  PROVE  /\ Totals(counts) \in [Inputs -> Nat]
         /\ Totals(counts)[ctrmode] = total[ctrmode] + load + 1
         /\ Totals(counts)[Other(ctrmode)] = total[Other(ctrmode)] + counts["other"]
         /\ Totals(counts)["detector"] = total["detector"] + counts["detector"]
<1>1. /\ ctrmode \in Inputs /\ Other(ctrmode) \in Inputs /\ "detector" \in Inputs
      /\ Other(ctrmode) # ctrmode /\ ctrmode # "detector" /\ Other(ctrmode) # "detector"
  BY InputsAre DEF CountTyped
<1>2. counts["other"] \in Nat /\ counts["detector"] \in Nat /\ load \in Nat
  BY DEF Pairs, CountTyped
<1>. QED
  BY <1>1, <1>2 DEF Totals, CountTyped
-----------------------------------------------------------------------------
(* The steps.                                                              *)

LEMMA ResetChip == ChipReset \in Chips /\ ~ChipReset.armed /\ ~ChipReset.out1
<1>1. None \in [Pairs -> Nat] /\ "ticks" \in Inputs
  BY DEF None, Inputs, Modes
<1>. QED
  BY <1>1 DEF ChipReset, Chips

LEMMA CountBegins == SCALERINIT => CountInv
<1>. SUFFICES ASSUME SCALERINIT
              PROVE  CountInv
  OBVIOUS
<1>1. ~clean
  BY DEF SCALERINIT
<1>2. None \in [Pairs -> Nat] /\ Nothing \in [Inputs -> Nat] /\ "ticks" \in Modes /\ 0 \in 0..Word - 1
  BY Widths DEF None, Nothing, Modes
<1>3. CountTyped
  BY <1>2, ResetChip DEF SCALERINIT, CountTyped
<1>. QED
  BY <1>1, <1>3 DEF CountInv

LEMMA StartStep ==
  ASSUME CountInv, NEW num \in Nat, NEW mode \in Modes, SCALERSTART(num, mode)
  PROVE  CountInv'
<1>1. /\ preset' = num /\ ctrmode' = mode /\ ampreset' = num - increment(num) /\ ampreset' \in Nat
      /\ total' = Nothing /\ seen' = Nothing /\ hold' = None /\ polls' = 0
      /\ UNCHANGED <<cStatus, iscounting>>
  BY IncrementBounds DEF SCALERSTART
<1>2. load' \in 0..Word - 1 /\ load' + 1 + ampreset' = Due'
  <2>1. CASE num = 0
    <3>1. increment(num) = 0
      BY <2>1, IncrementBounds
    <3>2. (0 - 1) % Word = Word - 1
      BY Widths
    <3>. QED
      BY <1>1, <2>1, <3>1, <3>2, Widths DEF SCALERSTART, Due
  <2>2. CASE num # 0
    <3>1. increment(num) \in Nat /\ increment(num) - 1 \in Nat /\ increment(num) - 1 < Word
      BY <2>2, IncrementBounds, Widths
    <3>2. load' = increment(num) - 1
      BY <3>1, SmallMod, Widths DEF SCALERSTART
    <3>. QED
      BY <1>1, <2>2, <3>1, <3>2, Widths DEF Due
  <2>. QED
    BY <2>1, <2>2
<1>3. chip \in Chips /\ mode \in Inputs /\ load' \in Nat
  BY <1>2, Widths DEF CountInv, CountTyped, Inputs
<1>4. chip' \in Chips /\ clean' \in BOOLEAN
  BY <1>3, ArmedTyped DEF SCALERSTART
<1>5. CountTyped'
  BY <1>1, <1>2, <1>4 DEF CountInv, CountTyped, None, Nothing
<1>6. ASSUME clean'
      PROVE  Piecemeal'
  <2>1. Running(chip, mode, load)'
    <3>1. PICK failed : chip' = Armed(chip, mode, load', failed) /\ clean' = (failed = {})
      BY DEF SCALERSTART
    <3>2. failed = {}
      BY <1>6, <3>1, Zenon
    <3>3. Running(Armed(chip, mode, load', {}), mode, load')
      BY <1>3, ArmedAll
    <3>. QED
      BY <1>1, <3>1, <3>2, <3>3 DEF Running
  <2>2. \A i \in Inputs : total'[i] = 0 /\ seen'[i] = 0 /\ MaxPulses[i] \in Nat
    BY <1>1, Widths, CountingAssumption DEF Nothing, Inputs, Modes
  <2>3. mode \in Inputs /\ Other(mode) \in Inputs /\ "detector" \in Inputs
    BY InputsAre
  <2>4. Tallied(Other(ctrmode), chip.pairs["other"])' /\ Tallied("detector", chip.pairs["detector"])'
    BY <1>1, <2>1, <2>2, <2>3 DEF Tallied, Running
  <2>5. total'[mode] = 0 /\ seen'[mode] = 0 /\ Due' = load' + 1 + ampreset'
    BY <1>2, <2>2, <2>3
  <2>6. /\ chip'.left = load' + 1 /\ chip'.left > 0
        /\ chip'.out1 /\ chip'.armed /\ chip'.source = mode
    <3>1. chip'.left = load' + 1 /\ chip'.source = mode
      BY <2>1 DEF Running
    <3>2. chip'.out1 /\ chip'.armed
      BY <2>1 DEF Running
    <3>3. chip'.left > 0
      BY <1>3, <3>1, Successor
    <3>. QED
      BY <3>1, <3>2, <3>3, Zenon
  <2>7. /\ total'[mode] + load' + 1 + ampreset' = Due'
        /\ seen'[mode] + chip'.left = total'[mode] + load' + 1
    BY <1>1, <1>3, <2>5, <2>6
  <2>. QED
    BY <1>1, <2>4, <2>6, <2>7 DEF Piecemeal
<1>. QED
  BY <1>1, <1>5, <1>6 DEF CountInv

LEMMA ProgressTyped ==
  ASSUME CountInv, NEW lost, NEW first, SCALERPROGRESS(lost, first), cStatus' \in BOOLEAN, clean' \in BOOLEAN,
         UNCHANGED <<preset, ctrmode, seen>>
  PROVE  CountTyped'
<1>1. PICK counts \in [Pairs -> Nat] :
        total' = Totals(counts) /\ (NextPiece(lost, first) \/ LastPiece(lost, counts))
  <2>1. (IF "read" \in lost THEN hold ELSE Read(chip.pairs)) \in [Pairs -> Nat]
    BY ReadTyped DEF CountInv, CountTyped, Chips
  <2>. QED
    BY <2>1 DEF SCALERPROGRESS
<1>2. total' \in [Inputs -> Nat]
  BY <1>1, TotalsTyped DEF CountInv
<1>3. CASE NextPiece(lost, first)
  <2>1. /\ ampreset' \in Nat /\ load' \in 0..Word - 1 /\ load' \in Nat
        /\ hold' \in [Pairs -> Nat] /\ iscounting' \in BOOLEAN /\ polls' \in Nat
    BY <1>3, IncrementBounds, Widths DEF NextPiece, CountInv, CountTyped, None
  <2>2. chip' \in Chips
    <3>1. Disarmed(chip, lost) \in Chips /\ ctrmode \in Inputs
      BY DisarmedTyped DEF CountInv, CountTyped, Inputs
    <3>. QED
      BY <1>3, <2>1, <3>1, ArmedTyped DEF NextPiece
  <2>. QED
    BY <1>2, <2>1, <2>2 DEF CountInv, CountTyped
<1>4. CASE LastPiece(lost, counts)
  <2>1. chip' \in Chips
    BY <1>4, DisarmedTyped DEF LastPiece, CountInv, CountTyped
  <2>2. /\ hold' = counts /\ iscounting' = FALSE /\ polls' = polls + 1
        /\ ampreset' = ampreset /\ load' = load
    BY <1>4 DEF LastPiece
  <2>3. polls' \in Nat
    <3>1. polls \in Nat
      BY DEF CountInv, CountTyped
    <3>. QED
      BY <2>2, <3>1
  <2>4. iscounting' \in BOOLEAN
    BY <2>2, Zenon
  <2>. QED
    BY <1>1, <1>2, <2>1, <2>2, <2>3, <2>4 DEF CountInv, CountTyped
<1>. QED
  BY <1>1, <1>3, <1>4

\* At the end of a piece nothing is lost of what the pairs have counted.
LEMMA ReadExact ==
  ASSUME CountInv, clean, polls = 0, ~chip.out1
  PROVE  /\ Totals(Read(chip.pairs)) \in [Inputs -> Nat]
         /\ Totals(Read(chip.pairs)) = seen
         /\ Totals(Read(chip.pairs))[ctrmode] + ampreset = Due
         /\ seen[Other(ctrmode)] <= MaxPulses[Other(ctrmode)]
         /\ seen["detector"] <= MaxPulses["detector"]
<1>1. /\ CountTyped /\ chip.left = 0 /\ Piecemeal /\ chip.pairs \in [Pairs -> Nat]
  BY DEF CountInv, Piecemeal, CountTyped, Chips
<1>2. /\ Inputs = {ctrmode, Other(ctrmode), "detector"}
      /\ \A i \in Inputs : total[i] \in Nat /\ seen[i] \in Nat
  BY <1>1, InputsAre DEF CountTyped
<1>3. \A i \in Inputs : MaxPulses[i] \in Nat /\ MaxPulses[i] < Word * Word
  BY Widths, CountingAssumption DEF Inputs, Modes
<1>4. /\ chip.pairs["other"] \in Nat /\ chip.pairs["other"] < Word * Word
      /\ chip.pairs["detector"] \in Nat /\ chip.pairs["detector"] < Word * Word
  <2>1. chip.pairs["other"] \in Nat /\ chip.pairs["detector"] \in Nat
    BY <1>1 DEF Pairs
  <2>. QED
    BY <1>1, <1>2, <1>3, <2>1, Widths DEF Piecemeal, Tallied
<1>5. /\ Read(chip.pairs)["other"] = chip.pairs["other"]
      /\ Read(chip.pairs)["detector"] = chip.pairs["detector"]
  BY <1>4, WordsOfPair DEF Read, Pairs
<1>6. Read(chip.pairs) \in [Pairs -> Nat]
  BY <1>1, ReadTyped
<1>7. /\ Totals(Read(chip.pairs)) \in [Inputs -> Nat]
      /\ Totals(Read(chip.pairs))[ctrmode] = total[ctrmode] + load + 1
      /\ Totals(Read(chip.pairs))[Other(ctrmode)] = total[Other(ctrmode)] + chip.pairs["other"]
      /\ Totals(Read(chip.pairs))["detector"] = total["detector"] + chip.pairs["detector"]
  BY <1>1, <1>5, <1>6, TotalsTyped
<1>8. \A i \in Inputs : Totals(Read(chip.pairs))[i] = seen[i]
  BY <1>1, <1>2, <1>7 DEF Piecemeal, Tallied, CountTyped
<1>. QED
  BY <1>1, <1>7, <1>8 DEF Piecemeal, Tallied, CountTyped

LEMMA StatusStep ==
  ASSUME CountInv, SCALERSTATUS
  PROVE  CountInv'
<1>1. PICK lost \in SUBSET {"status", "disarm", "read"}, first \in Arming \cup {"none"} :
        /\ clean' = (clean /\ lost = {} /\ first = "none")
        /\ cStatus' = IF "status" \in lost THEN cStatus ELSE chip.out1
        /\ IF cStatus'
           THEN iscounting' = TRUE /\ UNCHANGED <<ampreset, load, hold, total, chip, polls>>
           ELSE SCALERPROGRESS(lost, first)
        /\ UNCHANGED <<preset, ctrmode, seen>>
  BY DEF SCALERSTATUS
<1>2. cStatus' \in BOOLEAN /\ clean' \in BOOLEAN
  BY <1>1 DEF CountInv, CountTyped, Chips
<1>3. CASE cStatus'
  BY <1>1, <1>2, <1>3 DEF CountInv, CountTyped, Piecemeal, Settled, Tallied, Due
<1>4. CASE ~cStatus'
  <2>1. SCALERPROGRESS(lost, first)
    BY <1>1, <1>4
  <2>2. CountTyped'
    BY <1>1, <1>2, <2>1, ProgressTyped
  <2>3. ASSUME clean'
        PROVE  (polls' = 0 => Piecemeal') /\ (polls' # 0 => Settled')
    <3>1. clean /\ lost = {} /\ first = "none" /\ ~chip.out1
      BY <1>1, <1>4, <2>3
    <3>2. total' = Totals(Read(chip.pairs))
      BY <2>1, <3>1 DEF SCALERPROGRESS
    <3>3. CASE NextPiece(lost, first)
      <4>1. ampreset > 0 /\ polls = 0 /\ polls' = 0
        BY <3>1, <3>3 DEF NextPiece, CountInv, Settled
      <4>2. /\ ampreset' = ampreset - increment(ampreset) /\ load' = increment(ampreset) - 1
            /\ load' \in Nat /\ ampreset \in Nat /\ increment(ampreset) \in Nat
        BY <3>3, <4>1, IncrementBounds DEF NextPiece, CountInv, CountTyped
      <4>3. Running(chip, ctrmode, load)'
        <5>1. Disarmed(chip, lost) \in Chips /\ ctrmode \in Inputs
          BY DisarmedTyped DEF CountInv, CountTyped, Inputs
        <5>2. Broken(first) = {}
          BY <3>1 DEF Broken
        <5>3. chip' = Armed(Disarmed(chip, lost), ctrmode, load', {})
          BY <3>3, <5>2 DEF NextPiece
        <5>4. Running(chip', ctrmode, load')
          BY <4>2, <5>1, <5>3, ArmedAll
        <5>. QED
          BY <1>1, <5>4 DEF Running
      <4>4. /\ total' = seen /\ total'[ctrmode] + ampreset = Due
            /\ seen[Other(ctrmode)] <= MaxPulses[Other(ctrmode)]
            /\ seen["detector"] <= MaxPulses["detector"]
        BY <3>1, <3>2, <4>1, ReadExact
      <4>5. Due' = Due /\ Due \in Nat
        BY <1>1, Widths DEF Due, CountInv, CountTyped
      <4>6. \A i \in Inputs : seen[i] \in Nat
        BY DEF CountInv, CountTyped
      <4>7. ctrmode \in Inputs /\ Other(ctrmode) \in Inputs /\ "detector" \in Inputs
        BY InputsAre DEF CountInv, CountTyped
      <4>8. chip'.pairs["other"] = 0 /\ chip'.pairs["detector"] = 0
        BY <4>3 DEF Running
      <4>9. Tallied(Other(ctrmode), chip.pairs["other"])' /\ Tallied("detector", chip.pairs["detector"])'
        BY <1>1, <4>4, <4>6, <4>7, <4>8 DEF Tallied
      <4>10. chip'.left = load' + 1 /\ chip'.left > 0 /\ chip'.out1 /\ chip'.armed /\ chip'.source = ctrmode
        BY <1>1, <4>2, <4>3 DEF Running
      <4>11. /\ total'[ctrmode] + load' + 1 + ampreset' = Due
             /\ seen'[ctrmode] + chip'.left = total'[ctrmode] + load' + 1
        BY <1>1, <4>2, <4>4, <4>6, <4>7, <4>10
      <4>. QED
        BY <1>1, <4>1, <4>5, <4>9, <4>10, <4>11 DEF Piecemeal
    <3>4. ASSUME NEW counts, LastPiece(lost, counts)
          PROVE  polls' # 0 /\ Settled'
      <4>1. /\ ampreset = 0 /\ ampreset' = 0 /\ polls' = polls + 1 /\ polls \in Nat
            /\ chip' = [chip EXCEPT !.armed = FALSE] /\ chip \in Chips
        BY <3>1, <3>4, DisarmedTyped DEF LastPiece, CountInv, CountTyped
      <4>2. ~chip'.armed /\ ~chip'.out1
        BY <3>1, <4>1 DEF Chips
      <4>3. ASSUME polls' = 1
            PROVE  total' = seen /\ total'[ctrmode] = Due
        <5>1. polls = 0
          BY <4>1, <4>3
        <5>2. total' = seen /\ total'[ctrmode] + ampreset = Due
          BY <3>1, <3>2, <5>1, ReadExact
        <5>3. seen[ctrmode] \in Nat
          BY InputsAre DEF CountInv, CountTyped
        <5>. QED
          BY <4>1, <5>2, <5>3
      <4>. QED
        BY <1>1, <4>1, <4>2, <4>3 DEF Settled, Due
    <3>. QED
      BY <2>1, <3>3, <3>4 DEF SCALERPROGRESS
  <2>. QED
    BY <2>2, <2>3 DEF CountInv
<1>. QED
  BY <1>3, <1>4

LEMMA ResetStep ==
  ASSUME CountInv, SCALERRESET
  PROVE  CountInv'
<1>1. /\ UNCHANGED <<preset, ctrmode, ampreset, load, hold, total, cStatus, iscounting, seen, polls>>
      /\ clean' = (clean /\ Ended) /\ chip' \in {chip, ChipReset}
  BY DEF SCALERRESET, program
<1>2. chip' \in Chips /\ clean' \in BOOLEAN
  BY <1>1, ResetChip DEF CountInv, CountTyped
<1>3. CountTyped'
  BY <1>1, <1>2 DEF CountInv, CountTyped
<1>4. ASSUME clean'
      PROVE  polls' = 1 /\ Settled'
  <2>1. clean /\ polls = 1 /\ Settled
    <3>1. clean /\ Ended
      BY <1>1, <1>4, Zenon
    <3>. QED
      BY <3>1 DEF CountInv, Ended
  <2>2. ~chip'.armed /\ ~chip'.out1
    BY <1>1, <2>1, ResetChip DEF Settled
  <2>. QED
    BY <1>1, <2>1, <2>2 DEF Settled, Due
<1>. QED
  BY <1>3, <1>4 DEF CountInv

LEMMA PulseStep ==
  ASSUME CountInv, NEW i \in Inputs, Pulse(i)
  PROVE  CountInv'
<1>1. /\ UNCHANGED <<preset, ctrmode, ampreset, load, hold, total, cStatus, iscounting, polls, clean>>
      /\ chip.armed /\ seen' = [seen EXCEPT ![i] = @ + 1]
  BY DEF Pulse, program
<1>2. seen' \in [Inputs -> Nat] /\ seen'[i] = seen[i] + 1
      /\ \A j \in Inputs \ {i} : seen'[j] = seen[j]
  BY <1>1 DEF CountInv, CountTyped
<1>3. /\ Inputs = {ctrmode, Other(ctrmode), "detector"} /\ Due' = Due
      /\ Other(ctrmode) # ctrmode /\ ctrmode # "detector" /\ Other(ctrmode) # "detector"
  BY <1>1, InputsAre DEF CountInv, CountTyped, Due
<1>4. clean => polls = 0 /\ Piecemeal
  BY <1>1 DEF CountInv, Settled
<1>5. CASE CountDown(i)
  <2>1. /\ i = chip.source /\ chip.left > 0 /\ chip \in Chips
        /\ chip' = [chip EXCEPT !.left = @ - 1, !.out1 = IF chip.left = 1 THEN ~@ ELSE @]
    BY <1>5 DEF CountDown, CountInv, CountTyped
  <2>2. /\ chip' \in Chips /\ chip'.left = chip.left - 1
        /\ chip'.armed = chip.armed /\ chip'.source = chip.source /\ chip'.pairs = chip.pairs
        /\ chip'.out1 <=> IF chip.left = 1 THEN ~chip.out1 ELSE chip.out1
    <3>. DEFINE o == IF chip.left = 1 THEN ~chip.out1 ELSE chip.out1
    <3>1. chip.left \in Nat /\ chip.left - 1 \in Nat /\ o \in BOOLEAN
      <4>1. chip.left \in Nat /\ chip.out1 \in BOOLEAN
        BY <2>1 DEF Chips
      <4>2. chip.left - 1 \in Nat
        BY <2>1, <4>1
      <4>. QED
        BY <4>1, <4>2
    <3>2. chip' = [chip EXCEPT !.left = chip.left - 1, !.out1 = o]
      BY <2>1
    <3>3. chip' \in Chips /\ chip'.left = chip.left - 1 /\ chip'.out1 = o
          /\ chip'.armed = chip.armed /\ chip'.source = chip.source /\ chip'.pairs = chip.pairs
      <4>. HIDE DEF o
      <4>. QED
        BY <2>1, <3>1, <3>2 DEF Chips
    <3>4. o <=> IF chip.left = 1 THEN ~chip.out1 ELSE chip.out1
      BY Zenon
    <3>5. chip'.out1 <=> o
      BY <3>3
    <3>. HIDE DEF o
    <3>. QED
      BY <3>3, <3>4, <3>5, Zenon
  <2>3. CountTyped'
    BY <1>1, <1>2, <2>2 DEF CountInv, CountTyped
  <2>4. ASSUME clean
        PROVE  Piecemeal'
    <3>1. Piecemeal /\ i = ctrmode /\ chip.left \in Nat
      BY <1>4, <2>1, <2>4 DEF Piecemeal, Chips
    <3>2. chip'.out1 <=> chip'.left > 0
      BY <2>1, <2>2, <3>1 DEF Piecemeal
    <3>3. seen'[ctrmode] + chip'.left = total'[ctrmode] + load' + 1
      BY <1>1, <1>2, <2>2, <3>1 DEF Piecemeal, CountInv, CountTyped
    <3>4. Tallied(Other(ctrmode), chip.pairs["other"])' /\ Tallied("detector", chip.pairs["detector"])'
      BY <1>1, <1>2, <1>3, <2>2, <3>1 DEF Piecemeal, Tallied
    <3>. QED
      BY <1>1, <1>3, <2>2, <3>1, <3>2, <3>3, <3>4 DEF Piecemeal
  <2>. QED
    BY <1>1, <1>4, <2>3, <2>4 DEF CountInv
<1>6. CASE CountUp(i)
  <2>. DEFINE p == IF i = "detector" THEN i ELSE "other"
  <2>1. /\ i # chip.source /\ chip.out1 /\ seen[i] < MaxPulses[i] /\ chip \in Chips
        /\ chip' = [chip EXCEPT !.pairs[p] = (@ + 1) % (Word * Word)]
    BY <1>6 DEF CountUp, CountInv, CountTyped
  <2>2. p \in Pairs /\ chip.pairs \in [Pairs -> Nat] /\ chip.pairs[p] \in Nat
    BY <2>1 DEF Pairs, Chips
  <2>3. Word * Word \in Nat \ {0}
    BY Widths
  <2>4. (chip.pairs[p] + 1) % (Word * Word) \in Nat
    <3>. DEFINE w == Word * Word
    <3>1. w \in Nat \ {0}
      BY <2>3
    <3>. HIDE DEF w
    <3>2. (chip.pairs[p] + 1) % w \in Nat
      BY <2>2, <3>1
    <3>. QED
      BY <3>2 DEF w
  <2>5. /\ chip' \in Chips /\ chip'.left = chip.left /\ chip'.out1 = chip.out1
        /\ chip'.armed = chip.armed /\ chip'.source = chip.source
        /\ chip'.pairs = [chip.pairs EXCEPT ![p] = (@ + 1) % (Word * Word)]
    BY <2>1, <2>2, <2>4 DEF Chips
  <2>6. CountTyped'
    BY <1>1, <1>2, <2>5 DEF CountInv, CountTyped
  <2>7. ASSUME clean
        PROVE  Piecemeal'
    <3>1. Piecemeal /\ i # ctrmode
      BY <1>4, <2>1, <2>7 DEF Piecemeal
    <3>2. /\ total[i] \in Nat /\ seen[i] \in Nat /\ total[i] + chip.pairs[p] = seen[i]
          /\ MaxPulses[i] \in Nat /\ MaxPulses[i] < Word * Word
      <4>1. MaxPulses[i] \in Nat /\ MaxPulses[i] < Word * Word
        BY Widths, CountingAssumption DEF Inputs, Modes
      <4>. QED
        BY <1>3, <3>1, <4>1 DEF Piecemeal, Tallied, CountInv, CountTyped
    <3>3. chip'.pairs[p] = chip.pairs[p] + 1
      <4>1. chip.pairs[p] + 1 < Word * Word
        BY <2>1, <2>2, <2>3, <3>2
      <4>. DEFINE a == chip.pairs[p] + 1
                  b == Word * Word
      <4>2. a \in Nat /\ b \in Nat \ {0} /\ a < b
        BY <2>2, <2>3, <4>1
      <4>3. a % b = a
        <5>. HIDE DEF a, b
        <5>. QED
          BY <4>2, SmallMod
      <4>. QED
        BY <2>2, <2>5, <4>3
    <3>4. \A r \in Pairs \ {p} : chip'.pairs[r] = chip.pairs[r]
      BY <2>2, <2>5
    <3>5. Tallied(Other(ctrmode), chip.pairs["other"])'
      <4>1. CASE i = "detector"
        BY <1>1, <1>2, <1>3, <3>1, <3>4, <4>1 DEF Piecemeal, Tallied, Pairs
      <4>2. CASE i = Other(ctrmode)
        <5>1. p = "other" /\ Other(ctrmode)' = i
          BY <1>1, <1>3, <4>2 DEF Other
        <5>2. chip'.pairs["other"] = chip.pairs["other"] + 1 /\ chip.pairs["other"] \in Nat
          BY <2>2, <3>3, <5>1
        <5>3. total[i] + chip.pairs["other"] = seen[i]
          BY <3>2, <5>1
        <5>. QED
          BY <1>1, <1>2, <2>1, <3>2, <5>1, <5>2, <5>3 DEF Tallied
      <4>. QED
        BY <1>3, <3>1, <4>1, <4>2
    <3>6. Tallied("detector", chip.pairs["detector"])'
      <4>1. CASE i = "detector"
        <5>1. chip'.pairs["detector"] = chip.pairs["detector"] + 1 /\ chip.pairs["detector"] \in Nat
          BY <2>2, <3>3, <4>1
        <5>2. total["detector"] + chip.pairs["detector"] = seen["detector"] /\ total["detector"] \in Nat
          BY <3>2, <4>1
        <5>. QED
          BY <1>1, <1>2, <2>1, <3>2, <4>1, <5>1, <5>2 DEF Tallied
      <4>2. CASE i = Other(ctrmode)
        BY <1>1, <1>2, <1>3, <3>1, <3>4, <4>2 DEF Piecemeal, Tallied, Pairs
      <4>. QED
        BY <1>3, <3>1, <4>1, <4>2
    <3>7. seen'[ctrmode] = seen[ctrmode]
      BY <1>2, <1>3, <3>1
    <3>. QED
      BY <1>1, <1>3, <2>5, <3>1, <3>5, <3>6, <3>7 DEF Piecemeal
  <2>. QED
    BY <1>1, <1>4, <2>6, <2>7 DEF CountInv
<1>. QED
  BY <1>5, <1>6 DEF Pulse

LEMMA CountStutters ==
  ASSUME CountInv, UNCHANGED scalerVars
  PROVE  CountInv'
  BY DEF scalerVars, program, tally, CountInv, CountTyped, Piecemeal, Settled, Tallied, Due

LEMMA CountSteps == CountInv /\ [CountingNext]_scalerVars => CountInv'
<1>1. ASSUME NEW p \in Presets
      PROVE  p[1] \in Nat /\ p[2] \in Modes
  BY CountingAssumption DEF Modes
<1>. QED
  BY <1>1, StartStep, StatusStep, ResetStep, PulseStep, CountStutters DEF CountingNext

LEMMA InvExact == CountInv => Exact
  BY DEF CountInv, Settled, Exact, Ended

\* SCALERSTART, SCALERSTATUS: unless an ioctl fails, a count in as many pieces
\* as its preset takes has counted the preset and all the pulses, exactly.
THEOREM ExactAlways == CountingSpec => []Exact
  BY CountBegins, CountSteps, InvExact, PTL DEF CountingSpec

-----------------------------------------------------------------------------
(***************************************************************************)
(* The histogram and its transfer.                                         *)
(***************************************************************************)

\* How many elements the blocks before block b have.
Before(b) == IF b < Blocks THEN b * PerBlock ELSE Elements

\* A package on its way to the program is the next block, or the last word.
Fresh(p) ==
  /\ p.op \in {"DAT", "ACK"}
  /\ p.op = "DAT" =>
       /\ p.data \in Seq(Contents) /\ Len(p.data) > 0
       /\ recv_len + Len(p.data) <= Elements
       /\ \A k \in 1..Len(p.data) : p.data[k] \in had[recv_len + k]

\* What one side has and the other has yet to get, while a transfer goes on and
\* no package is torn.
Flow ==
  /\ recv_len <= Elements /\ recv_len <= size
  /\ \A k \in 1..Elements : memory[k] \in had[k]
  /\ toClient = <<>> \/ \E p : toClient = <<p>> /\ Fresh(p)
  /\ reset => server = "gone" /\ toClient = <<>>
  /\ server = "send" => toClient = <<>> /\ toServer = <<>> /\ recv_len = Before(block)
  /\ server = "await" =>
       \/ toClient = <<>> /\ recv_len = Before(block + 1) /\ \E q : toServer = <<q>>
       \/ /\ toServer = <<>> /\ recv_len = Before(block)
          /\ \E p : toClient = <<p>> /\ p.op = "DAT" /\ Len(p.data) = Before(block + 1) - Before(block)

Packages == [op : Ops, prm : Int, data : Seq(Contents)]

HistTyped ==
  /\ had \in [1..Elements -> SUBSET Contents] /\ memory \in [1..Elements -> Contents]
  /\ hist \in Seq(Contents) /\ recv_len \in Nat
  /\ client \in {"idle", "recv", "over", "dead"} /\ torn \in BOOLEAN
  /\ toClient \in Seq(Packages)
  /\ block \in Int
  /\ server = "send" => block \in 0..Blocks
  /\ server = "await" => block \in 0..Blocks - 1

HistInv == HistTyped /\ (client = "recv" /\ ~torn => Flow)
-----------------------------------------------------------------------------
(* Blocks.                                                                 *)

LEMMA Division ==
  ASSUME NEW e \in Nat, NEW p \in Nat \ {0}
  PROVE  e = (e \div p) * p + (e % p) /\ e % p \in 0..p - 1 /\ e \div p \in Nat
  OBVIOUS

LEMMA Product ==
  ASSUME NEW i \in Nat, NEW p \in Nat
  PROVE  i * p \in Nat /\ (i + 1) * p = i * p + p
  OBVIOUS

LEMMA ProductGrows ==
  ASSUME NEW i \in Nat, NEW j \in Nat, NEW p \in Nat, i <= j
  PROVE  i * p <= j * p
  OBVIOUS

LEMMA BlockCount ==
  /\ Elements \in Nat /\ PerBlock \in Nat \ {0}
  /\ nfullblks \in Nat /\ nlastblk \in Nat /\ nlastblk < PerBlock
  /\ Elements = nfullblks * PerBlock + nlastblk
  /\ Blocks \in Nat /\ nfullblks * PerBlock \in Nat
  /\ nlastblk = 0 => Blocks = nfullblks
  /\ nlastblk # 0 => Blocks = nfullblks + 1
<1>1. Elements \in Nat /\ PerBlock \in Nat \ {0}
  BY TransferAssumption
<1>2. /\ nfullblks \in Nat /\ nlastblk \in 0..PerBlock - 1
      /\ Elements = nfullblks * PerBlock + nlastblk
  BY <1>1, Division DEF nfullblks, nlastblk
<1>3. nfullblks * PerBlock \in Nat
  BY <1>1, <1>2, Product
<1>. QED
  BY <1>1, <1>2, <1>3 DEF Blocks

\* The blocks lie one behind the other and cover all elements.
LEMMA Borders ==
  ASSUME NEW b \in Nat, b < Blocks
  PROVE  /\ Before(b) \in Nat /\ Before(b + 1) \in Nat
         /\ Before(b) < Before(b + 1) /\ Before(b + 1) <= Elements
         /\ b * PerBlock = Before(b)
         /\ (IF b < nfullblks THEN (b + 1) * PerBlock ELSE Elements) = Before(b + 1)
<1>1. /\ b * PerBlock \in Nat /\ (b + 1) * PerBlock = b * PerBlock + PerBlock
      /\ Before(b) = b * PerBlock
  BY BlockCount, Product DEF Before
<1>2. CASE b < nfullblks
  <2>1. (b + 1) * PerBlock <= nfullblks * PerBlock
    BY <1>2, BlockCount, ProductGrows
  <2>2. CASE b + 1 < Blocks
    <3>1. Before(b + 1) = (b + 1) * PerBlock
      BY <2>2 DEF Before
    <3>. QED
      BY <1>1, <1>2, <2>1, <3>1, BlockCount
  <2>3. CASE b + 1 >= Blocks
    <3>1. b + 1 = nfullblks /\ nlastblk = 0
      BY <1>2, <2>3, BlockCount
    <3>2. (b + 1) * PerBlock = Elements
      BY <3>1, BlockCount
    <3>3. Before(b + 1) = Elements
      BY <2>3, BlockCount DEF Before
    <3>. QED
      BY <1>1, <1>2, <3>2, <3>3, BlockCount
  <2>. QED
    BY <2>2, <2>3, BlockCount
<1>3. CASE b >= nfullblks
  <2>1. b = nfullblks /\ nlastblk # 0 /\ b + 1 = Blocks
    BY <1>3, BlockCount
  <2>2. Before(b + 1) = Elements
    BY <2>1, BlockCount DEF Before
  <2>. QED
    BY <1>1, <1>3, <2>1, <2>2, BlockCount
<1>. QED
  BY <1>2, <1>3, BlockCount

LEMMA FirstBorder == Before(0) = 0 /\ Before(Blocks) = Elements
<1>1. Blocks = 0 => Elements = 0
  <2>1. ASSUME Blocks = 0
        PROVE  Elements = 0
    <3>1. nfullblks = 0 /\ nlastblk = 0
      BY <2>1, BlockCount
    <3>2. 0 * PerBlock = 0
      BY BlockCount
    <3>. QED
      BY <3>1, <3>2, BlockCount
  <2>. QED
    BY <2>1
<1>2. 0 * PerBlock = 0
  BY BlockCount
<1>. QED
  BY <1>1, <1>2, BlockCount DEF Before

\* A block has the elements from its border to the next.
LEMMA BlockData ==
  ASSUME NEW b \in Nat, b < Blocks, memory \in [1..Elements -> Contents]
  PROVE  /\ idata(b) \in Seq(Contents) /\ Len(idata(b)) = Before(b + 1) - Before(b)
         /\ \A k \in 1..Len(idata(b)) : idata(b)[k] = memory[Before(b) + k]
<1>. DEFINE s == [k \in 1..Elements |-> memory[k]]
<1>1. PICK m \in Nat, e \in Nat :
        /\ m = Before(b) /\ e = Before(b + 1) /\ m < e /\ e <= Elements
        /\ idata(b) = SubSeq(s, m + 1, e)
  <2>1. idata(b) = SubSeq(s, Before(b) + 1, Before(b + 1))
    BY Borders DEF idata
  <2>2. /\ Before(b) \in Nat /\ Before(b + 1) \in Nat
        /\ Before(b) < Before(b + 1) /\ Before(b + 1) <= Elements
    BY Borders
  <2>. HIDE DEF s
  <2>. QED
    BY <2>1, <2>2
<1>2. Elements \in Nat
  BY BlockCount
<1>3. \A i \in m + 1..e : s[i] \in Contents /\ s[i] = memory[i]
  BY <1>1, <1>2
<1>. HIDE DEF s
<1>4. /\ SubSeq(s, m + 1, e) \in Seq(Contents) /\ Len(SubSeq(s, m + 1, e)) = e - m
      /\ \A i \in 1..e - m : SubSeq(s, m + 1, e)[i] = s[m + i]
  <2>1. /\ SubSeq(s, m + 1, e) \in Seq(Contents)
        /\ Len(SubSeq(s, m + 1, e)) = IF m + 1 <= e THEN e - (m + 1) + 1 ELSE 0
        /\ \A i \in 1..e - (m + 1) + 1 : SubSeq(s, m + 1, e)[i] = s[m + 1 + i - 1]
    BY <1>3, SubSeqProperties
  <2>2. e - (m + 1) + 1 = e - m /\ m + 1 <= e
    BY <1>1
  <2>3. \A i \in 1..e - m : m + 1 + i - 1 = m + i
    OBVIOUS
  <2>. QED
    BY <2>1, <2>2, <2>3
<1>5. \A i \in 1..e - m : m + i \in m + 1..e
  OBVIOUS
<1>. QED
  BY <1>1, <1>3, <1>4, <1>5
-----------------------------------------------------------------------------
(* Storage.                                                                *)

LEMMA SeqOfFunction ==
  ASSUME NEW S, NEW l \in Nat, NEW f \in [1..l -> S]
  PROVE  f \in Seq(S) /\ Len(f) = l
  OBVIOUS

LEMMA ZeroStorage ==
  ASSUME hist \in Seq(Contents)
  PROVE  /\ [k \in DOMAIN hist |-> Zero] \in Seq(Contents)
         /\ DOMAIN hist = 1..size /\ size \in Nat
         /\ Len([k \in DOMAIN hist |-> Zero]) = size
  BY TransferAssumption, SeqOfFunction DEF size

\* Every word of the storage is one of an element.
LEMMA WordOf ==
  ASSUME NEW w \in Nat \ {0}
  PROVE  ElementOf(w) \in Nat \ {0}
<1>1. w - 1 \in Nat
  OBVIOUS
<1>2. (w - 1) \div LongWords \in Nat
  BY <1>1, Division, TransferAssumption
<1>. QED
  BY <1>2 DEF ElementOf

\* An element has its first word at its number, or behind it.
LEMMA WordFits ==
  ASSUME NEW w \in Nat \ {0}
  PROVE  ElementOf(w) <= w
<1>. DEFINE e == w - 1
            q == e \div LongWords
            rest == e % LongWords
<1>1. q \in Nat /\ rest \in Nat /\ e \in Nat /\ e = q * LongWords + rest
  <2>1. e \in Nat /\ LongWords \in Nat \ {0}
    BY TransferAssumption
  <2>. HIDE DEF e
  <2>2. e = q * LongWords + rest /\ rest \in 0..LongWords - 1 /\ q \in Nat
    BY <2>1, Division
  <2>. QED
    BY <2>1, <2>2
<1>2. q <= q * LongWords
  <2>. HIDE DEF q
  <2>1. LongWords \in Nat /\ 1 <= LongWords
    BY TransferAssumption
  <2>. QED
    BY <1>1, <2>1, ProductGrows
<1>. QED
  BY <1>1, <1>2, TransferAssumption DEF ElementOf

LEMMA Storage ==
  ASSUME hist \in Seq(Contents), NEW data \in Seq(Contents), recv_len \in Nat
  PROVE  /\ Stored(data) \in Seq(Contents)
         /\ DOMAIN Stored(data) = DOMAIN hist /\ Len(Stored(data)) = size
         /\ \A w \in DOMAIN hist :
              /\ ElementOf(w) \in recv_len + 1 .. recv_len + Len(data) =>
                   ElementOf(w) - recv_len \in 1..Len(data)
              /\ Stored(data)[w] = IF ElementOf(w) \in recv_len + 1 .. recv_len + Len(data)
                                   THEN IF Leads(w) THEN data[ElementOf(w) - recv_len] ELSE Zero
                                   ELSE hist[w]
<1>1. DOMAIN hist = 1..size /\ size \in Nat /\ \A w \in 1..size : hist[w] \in Contents
  BY ZeroStorage DEF size
<1>2. DOMAIN data = 1..Len(data) /\ Len(data) \in Nat /\ \A j \in 1..Len(data) : data[j] \in Contents
  BY LenProperties
<1>3. \A w \in DOMAIN hist :
        Stored(data)[w] = IF ElementOf(w) \in recv_len + 1 .. recv_len + Len(data)
                          THEN IF Leads(w) THEN data[ElementOf(w) - recv_len] ELSE Zero
                          ELSE hist[w]
  BY DEF Stored
<1>4. \A w \in DOMAIN hist :
        ElementOf(w) \in recv_len + 1 .. recv_len + Len(data) => ElementOf(w) - recv_len \in 1..Len(data)
  <2>1. \A w \in DOMAIN hist : ElementOf(w) \in Nat
    BY <1>1, WordOf
  <2>. QED
    BY <1>2, <2>1
<1>5. Stored(data) \in [1..size -> Contents]
  <2>1. \A w \in 1..size : Stored(data)[w] \in Contents
    BY <1>1, <1>2, <1>3, <1>4, TransferAssumption
  <2>2. Stored(data) = [w \in 1..size |-> Stored(data)[w]]
    BY <1>1 DEF Stored
  <2>. QED
    BY <2>1, <2>2
<1>. QED
  BY <1>1, <1>3, <1>4, <1>5, SeqOfFunction

\* What has not the end of a block is filled up with zeros.
LEMMA Filled ==
  ASSUME NEW data \in Seq(Contents), NEW came
  PROVE  [k \in DOMAIN data |-> IF k <= came THEN data[k] ELSE Zero] \in Seq(Contents)
<1>1. DOMAIN data = 1..Len(data) /\ Len(data) \in Nat /\ \A k \in 1..Len(data) : data[k] \in Contents
  BY LenProperties
<1>2. [k \in DOMAIN data |-> IF k <= came THEN data[k] ELSE Zero] \in [1..Len(data) -> Contents]
  BY <1>1, TransferAssumption
<1>. QED
  BY <1>1, <1>2, SeqOfFunction
-----------------------------------------------------------------------------
(* The detector.                                                           *)

LEMMA Stutters ==
  ASSUME UNCHANGED <<had, hist, recv_len, client, torn, retn>>
  PROVE  UNCHANGED <<had, hist, IF recv_len > Elements THEN Elements ELSE recv_len, state>>
  BY DEF state

LEMMA ChangeStep ==
  ASSUME HistInv, NEW m \in [1..Elements -> Contents], Change(m)
  PROVE  HistInv' /\ Abstract!Changes
<1>1. /\ memory' = m
      /\ had' = IF client = "recv" THEN [k \in 1..Elements |-> had[k] \cup {m[k]}] ELSE had
      /\ UNCHANGED <<server, block, client, hist, recv_len, opcode, retn, toClient, toServer, reset,
                     torn, shaken, mishaps>>
  BY DEF Change, sending, transfer, wire, strain
<1>2. /\ had' \in [1..Elements -> SUBSET Contents]
      /\ \A k \in 1..Elements : had[k] \subseteq had'[k]
      /\ client = "recv" => \A k \in 1..Elements : m[k] \in had'[k]
  BY <1>1 DEF HistInv, HistTyped
<1>3. HistTyped'
  BY <1>1, <1>2 DEF HistInv, HistTyped
<1>4. ASSUME client = "recv", ~torn
      PROVE  Flow'
  <2>1. Flow
    BY <1>4 DEF HistInv
  <2>2. \A p : Fresh(p) => Fresh(p)'
    <3>. SUFFICES ASSUME NEW p, Fresh(p)
                  PROVE  Fresh(p)'
      OBVIOUS
    <3>1. CASE p.op = "DAT"
      <4>1. /\ p.data \in Seq(Contents) /\ Len(p.data) \in Nat /\ recv_len + Len(p.data) <= Elements
            /\ \A k \in 1..Len(p.data) : p.data[k] \in had[recv_len + k]
            /\ recv_len \in Nat /\ Elements \in Nat
        BY <3>1, BlockCount, LenProperties DEF Fresh, HistInv, HistTyped
      <4>2. \A k \in 1..Len(p.data) : recv_len + k \in 1..Elements
        BY <4>1
      <4>3. \A k \in 1..Len(p.data) : p.data[k] \in had'[recv_len + k]
        BY <1>2, <4>1, <4>2
      <4>. QED
        BY <1>1, <3>1, <4>3 DEF Fresh
    <3>2. CASE p.op # "DAT"
      BY <3>2 DEF Fresh
    <3>. QED
      BY <3>1, <3>2
  <2>3. /\ \A k \in 1..Elements : memory'[k] \in had'[k]
        /\ toClient' = <<>> \/ \E p : toClient' = <<p>> /\ Fresh(p)'
    BY <1>1, <1>2, <1>4, <2>1, <2>2 DEF Flow
  <2>. QED
    BY <1>1, <2>1, <2>3 DEF Flow, size, Before, Blocks, nfullblks, nlastblk
<1>5. Abstract!Changes
  BY <1>1, <1>2 DEF Abstract!Changes, state
<1>. QED
  BY <1>1, <1>3, <1>4, <1>5 DEF HistInv

LEMMA SendStep ==
  ASSUME HistInv, SendBlock
  PROVE  HistInv' /\ UNCHANGED <<had, hist, recv_len, client, torn, retn>>
<1>1. /\ server = "send" /\ server' \in {"gone", "await"}
      /\ server' = "await" => client = "recv" /\ block # Blocks
      /\ client = "recv" => server' = IF block = Blocks THEN "gone" ELSE "await"
      /\ UNCHANGED <<memory, block, client, hist, recv_len, opcode, retn, toServer, reset, torn, had>>
      /\ block \in 0..Blocks /\ Blocks \in Nat
  BY BlockCount DEF SendBlock, transfer, strain, HistInv, HistTyped
<1>2. PICK p : /\ p = IF block = Blocks THEN ACK(nfullblks) ELSE Package("DAT", block, idata(block))
               /\ toClient' = Append(toClient, p)
  BY DEF SendBlock
<1>3. CASE block = Blocks
  <2>1. p = ACK(nfullblks) /\ p.op = "ACK" /\ p \in Packages
    <3>1. <<>> \in Seq(Contents)
      OBVIOUS
    <3>. QED
      BY <1>2, <1>3, <3>1, BlockCount DEF ACK, Package, Packages, Ops
  <2>2. HistTyped'
    BY <1>1, <1>2, <1>3, <2>1 DEF HistInv, HistTyped
  <2>3. ASSUME client = "recv", ~torn
        PROVE  Flow'
    <3>1. Flow /\ server' = "gone" /\ toClient' = <<p>> /\ ~reset
      BY <1>1, <1>2, <1>3, <2>3 DEF HistInv, Flow
    <3>2. Fresh(p)'
      BY <2>1 DEF Fresh
    <3>. QED
      BY <1>1, <3>1, <3>2 DEF Flow, size
  <2>. QED
    BY <1>1, <2>2, <2>3 DEF HistInv
<1>4. CASE block # Blocks
  <2>1. block \in Nat /\ block < Blocks /\ memory \in [1..Elements -> Contents]
    BY <1>1, <1>4 DEF HistInv, HistTyped
  <2>2. /\ p = Package("DAT", block, idata(block)) /\ p.op = "DAT" /\ p.data = idata(block)
        /\ p.data \in Seq(Contents) /\ p \in Packages
    BY <1>2, <1>4, <2>1, BlockData DEF Package, Packages, Ops
  <2>3. HistTyped'
    BY <1>1, <1>2, <2>1, <2>2 DEF HistInv, HistTyped
  <2>4. ASSUME client = "recv", ~torn
        PROVE  Flow'
    <3>1. Flow /\ server' = "await" /\ toClient' = <<p>> /\ ~reset /\ toServer = <<>> /\ recv_len = Before(block)
      BY <1>1, <1>2, <1>4, <2>4 DEF HistInv, Flow
    <3>2. Len(p.data) = Before(block + 1) - Before(block)
      BY <2>1, <2>2, BlockData
    <3>3. Fresh(p)'
      <4>1. /\ Before(block) \in Nat /\ Before(block + 1) \in Nat
            /\ Before(block) < Before(block + 1) /\ Before(block + 1) <= Elements
        BY <2>1, Borders
      <4>2. Len(p.data) > 0 /\ recv_len + Len(p.data) <= Elements
        BY <3>1, <3>2, <4>1, BlockCount
      <4>3. \A k \in 1..Len(p.data) : p.data[k] = memory[recv_len + k]
        BY <2>1, <2>2, <3>1, BlockData
      <4>4. \A k \in 1..Len(p.data) : recv_len + k \in 1..Elements
        BY <3>1, <4>1, <4>2, BlockCount, LenProperties, <2>2
      <4>5. \A k \in 1..Len(p.data) : p.data[k] \in had[recv_len + k]
        BY <3>1, <4>3, <4>4 DEF Flow
      <4>. QED
        BY <1>1, <2>2, <4>2, <4>5 DEF Fresh
    <3>4. Before(block)' = Before(block) /\ Before(block + 1)' = Before(block + 1)
      BY <1>1 DEF Before, Blocks, nfullblks, nlastblk
    <3>. QED
      BY <1>1, <2>2, <3>1, <3>2, <3>3, <3>4 DEF Flow, size
  <2>. QED
    BY <1>1, <2>3, <2>4 DEF HistInv
<1>. QED
  BY <1>1, <1>3, <1>4

LEMMA AckStep ==
  ASSUME HistInv, RecvAck
  PROVE  HistInv' /\ UNCHANGED <<had, hist, recv_len, client, torn, retn>>
<1>1. /\ server = "await" /\ toServer # <<>> /\ toServer' = Tail(toServer)
      /\ UNCHANGED <<memory, client, hist, recv_len, opcode, retn, toClient, reset, torn, had>>
      /\ block \in 0..Blocks - 1 /\ Blocks \in Nat
      /\ \/ server' = "send" /\ block' = block + 1
         \/ server' = "gone" /\ block' = block
  BY BlockCount DEF RecvAck, transfer, strain, HistInv, HistTyped
<1>2. HistTyped'
  BY <1>1 DEF HistInv, HistTyped
<1>3. ASSUME client = "recv", ~torn
      PROVE  Flow'
  <2>1. Flow
    BY <1>3 DEF HistInv
  <2>2. toClient = <<>> /\ recv_len = Before(block + 1) /\ toServer' = <<>> /\ ~reset
    BY <1>1, <2>1 DEF Flow
  <2>3. server' = "send" => recv_len' = Before(block)'
    BY <1>1, <2>2 DEF Before, Blocks, nfullblks, nlastblk
  <2>. QED
    BY <1>1, <2>1, <2>2, <2>3 DEF Flow, size
<1>. QED
  BY <1>1, <1>2, <1>3 DEF HistInv

\* The detector gives up or hangs: what is on its way is as it was.
LEMMA LeaveStep ==
  ASSUME HistInv, NoAck \/ Hangs
  PROVE  HistInv' /\ UNCHANGED <<had, hist, recv_len, client, torn, retn>>
<1>1. /\ server \in {"send", "await"} /\ server' \in {"gone", "stuck"}
      /\ UNCHANGED <<memory, block, client, hist, recv_len, opcode, retn, toClient, toServer, reset, torn, had>>
  BY DEF NoAck, Hangs, Mishap, transfer, wire, strain
<1>2. HistTyped'
  BY <1>1 DEF HistInv, HistTyped
<1>3. ASSUME client = "recv", ~torn
      PROVE  Flow'
  <2>1. Flow /\ ~reset
    BY <1>1, <1>3 DEF HistInv, Flow
  <2>2. \A p : Fresh(p)' <=> Fresh(p)
    BY <1>1 DEF Fresh
  <2>. QED
    BY <1>1, <2>1, <2>2 DEF Flow, size
<1>. QED
  BY <1>1, <1>2, <1>3 DEF HistInv
-----------------------------------------------------------------------------
(* AIM_XFER.                                                               *)

LEMMA XferStep ==
  ASSUME HistInv, AIM_XFER
  PROVE  HistInv' /\ Abstract!Begins
<1>1. /\ client \in {"idle", "over"} /\ hist' = [k \in DOMAIN hist |-> Zero]
      /\ recv_len' = 0 /\ toClient' = <<>> /\ toServer' = <<>> /\ reset' = FALSE /\ torn' = FALSE
      /\ had' = [k \in 1..Elements |-> {memory[k]}] /\ memory' = memory
      /\ \/ client' = "recv" /\ server' = "send" /\ block' = 0
         \/ client' = "over" /\ retn' = -1 /\ server' = server /\ block' = block
  BY DEF AIM_XFER
<1>2. /\ hist' \in Seq(Contents) /\ size' \in Nat /\ Elements \in Nat /\ Blocks \in Nat
      /\ had' \in [1..Elements -> SUBSET Contents]
      /\ \A k \in 1..Elements : memory'[k] \in had'[k]
  BY <1>1, ZeroStorage, BlockCount DEF HistInv, HistTyped, size
<1>3. HistTyped'
  <2>1. toClient' \in Seq(Packages) /\ recv_len' \in Nat /\ torn' \in BOOLEAN
    <3>1. toClient' \in Seq(Packages)
      BY <1>1, EmptySeq
    <3>2. torn' \in BOOLEAN
      BY <1>1, Zenon
    <3>. QED
      BY <1>1, <3>1, <3>2
  <2>2. /\ block' \in Int
        /\ server' = "send" => block' \in 0..Blocks
        /\ server' = "await" => block' \in 0..Blocks - 1
    BY <1>1, <1>2 DEF HistInv, HistTyped
  <2>3. client' \in {"idle", "recv", "over", "dead"} /\ memory' \in [1..Elements -> Contents]
    BY <1>1 DEF HistInv, HistTyped
  <2>4. Blocks' = Blocks
    BY DEF Blocks, nfullblks, nlastblk
  <2>. QED
    BY <1>2, <2>1, <2>2, <2>3, <2>4 DEF HistTyped
<1>4. ASSUME client' = "recv"
      PROVE  Flow'
  <2>1. server' = "send" /\ block' = 0
    BY <1>1, <1>4
  <2>2. Before(block)' = 0
    BY <2>1, FirstBorder DEF Before, Blocks, nfullblks, nlastblk
  <2>3. recv_len' <= Elements /\ recv_len' <= size'
    BY <1>1, <1>2
  <2>. QED
    BY <1>1, <1>2, <2>1, <2>2, <2>3 DEF Flow
<1>5. state # "moving" /\ state' \in {"moving", "failed"}
  BY <1>1, <1>2 DEF state
<1>6. (IF recv_len > Elements THEN Elements ELSE recv_len)' = 0
  BY <1>1, <1>2
<1>. QED
  BY <1>1, <1>2, <1>3, <1>4, <1>5, <1>6 DEF HistInv, Abstract!Begins

LEMMA SendsPackage ==
  ASSUME NEW package, NEW next \in {"recv", "over"}, sendPKG(package, next)
  PROVE  /\ client' \in {next, "dead"}
         /\ client' = "dead" => server = "gone" /\ reset
         /\ server # "gone" => toServer' = Append(toServer, package) /\ (reset' <=> reset)
  BY DEF sendPKG

LEMMA FirstPackage ==
  ASSUME HistInv, toClient # <<>>
  PROVE  /\ Head(toClient) \in Packages /\ Tail(toClient) \in Seq(Packages)
         /\ Head(toClient).data \in Seq(Contents) /\ Head(toClient).op \in Ops
<1>1. toClient \in Seq(Packages)
  BY DEF HistInv, HistTyped
<1>2. Head(toClient) \in Packages /\ Tail(toClient) \in Seq(Packages)
  BY <1>1, HeadTailProperties
<1>. QED
  BY <1>2 DEF Packages

LEMMA StoreTyped ==
  ASSUME HistInv, NEW package, NEW data \in Seq(Contents), Store(package, data)
  PROVE  /\ hist' \in Seq(Contents) /\ DOMAIN hist' = DOMAIN hist /\ size' = size /\ size \in Nat
         /\ recv_len' \in Nat /\ client' \in {"recv", "over", "dead"}
<1>1. hist \in Seq(Contents) /\ recv_len \in Nat /\ Len(data) \in Nat
  BY LenProperties DEF HistInv, HistTyped
<1>2. size \in Nat
  BY <1>1, ZeroStorage
<1>3. hist' = Stored(data)
  BY DEF Store
<1>4. recv_len' = size + 1 \/ recv_len' = recv_len + Len(data)
  BY DEF Store
<1>5. client' \in {"recv", "over", "dead"}
  BY SendsPackage DEF Store
<1>6. size' = Len(hist')
  BY DEF size
<1>. QED
  BY <1>1, <1>2, <1>3, <1>4, <1>5, <1>6, Storage

LEMMA FinishTyped ==
  ASSUME NEW op, Finish(op)
  PROVE  /\ UNCHANGED <<hist, recv_len>> /\ client' \in {"over", "dead"}
         /\ op = "ACK" => retn' = recv_len
         /\ op # "ACK" => retn' = -1
<1>1. CASE op = "ACK"
  BY <1>1 DEF Finish, Over
<1>2. CASE op # "ACK"
  <2>1. retn' = -1 /\ sendPKG(ERR, "over") /\ UNCHANGED <<hist, recv_len>>
    BY <1>2 DEF Finish, Over
  <2>. QED
    BY <1>2, <2>1, SendsPackage
<1>. QED
  BY <1>1, <1>2

\* A block takes the place behind those before it.
LEMMA BlockStep ==
  ASSUME HistInv, client = "recv", ~torn, NEW p, toClient = <<p>>, p.op = "DAT",
         toClient' = <<>>, Store(p, p.data), UNCHANGED <<memory, server, block, torn, had>>
  PROVE  (client' = "recv" => Flow') /\ Abstract!Fills
<1>1. Flow
  BY DEF HistInv
<1>2. /\ p.data \in Seq(Contents) /\ Len(p.data) \in Nat /\ Len(p.data) > 0
      /\ recv_len + Len(p.data) <= Elements
      /\ \A k \in 1..Len(p.data) : p.data[k] \in had[recv_len + k]
  <2>1. Fresh(p)
    BY <1>1 DEF Flow
  <2>. QED
    BY <2>1, LenProperties DEF Fresh
<1>3. /\ recv_len \in Nat /\ recv_len <= Elements /\ recv_len <= size /\ ~reset /\ server # "send"
      /\ hist \in Seq(Contents)
  BY <1>1 DEF Flow, HistInv, HistTyped
<1>4. /\ hist' \in Seq(Contents) /\ DOMAIN hist' = DOMAIN hist /\ size' = size /\ size \in Nat
      /\ DOMAIN hist = 1..size /\ recv_len' \in Nat /\ Elements \in Nat
  BY <1>2, <1>3, StoreTyped, ZeroStorage, BlockCount
<1>5. /\ recv_len' = IF recv_len + Len(p.data) > size THEN size + 1 ELSE recv_len + Len(p.data)
      /\ hist' = Stored(p.data)
      /\ client' = "recv" =>
           /\ recv_len + Len(p.data) <= size
           /\ server # "gone" => \E q : toServer' = Append(toServer, q)
      /\ client' = "recv" \/ (client' = "over" /\ retn' = -1)
      /\ reset' => server = "gone"
  <2>1. CASE recv_len + Len(p.data) > size
    <3>1. sendPKG(ERR, "over") /\ recv_len' = size + 1 /\ retn' = -1
      BY <2>1 DEF Store, Over
    <3>2. client' = "over" /\ (reset' => server = "gone")
      BY <1>3, <3>1 DEF sendPKG
    <3>. QED
      BY <2>1, <3>1, <3>2 DEF Store
  <2>2. CASE ~(recv_len + Len(p.data) > size)
    <3>1. sendPKG(ACK(p.prm), "recv") /\ recv_len' = recv_len + Len(p.data)
      BY <2>2 DEF Store
    <3>2. /\ client' = "recv" /\ (reset' => server = "gone")
          /\ server # "gone" => toServer' = Append(toServer, ACK(p.prm))
      BY <1>3, <3>1 DEF sendPKG
    <3>3. recv_len + Len(p.data) <= size
      BY <1>2, <1>3, <1>4, <2>2
    <3>. QED
      BY <2>2, <3>1, <3>2, <3>3 DEF Store
  <2>. QED
    BY <2>1, <2>2
<1>6. ASSUME client' = "recv"
      PROVE  Flow'
  <2>1. recv_len' = recv_len + Len(p.data) /\ recv_len' <= Elements /\ recv_len' <= size'
    BY <1>2, <1>3, <1>4, <1>5, <1>6
  <2>2. \A k \in 1..Elements : memory'[k] \in had'[k]
    BY <1>1 DEF Flow
  <2>3. ASSUME server = "await"
        PROVE  recv_len' = Before(block + 1)' /\ \E q : toServer' = <<q>>
    <3>1. toServer = <<>> /\ recv_len = Before(block) /\ Len(p.data) = Before(block + 1) - Before(block)
      BY <1>1, <2>3 DEF Flow
    <3>2. block \in Nat /\ block < Blocks
      BY <2>3, BlockCount DEF HistInv, HistTyped
    <3>3. recv_len' = Before(block + 1)
      BY <2>1, <3>1, <3>2, Borders
    <3>4. Before(block + 1)' = Before(block + 1)
      BY DEF Before, Blocks, nfullblks, nlastblk
    <3>5. \E q : toServer' = <<q>>
      BY <1>5, <1>6, <2>3, <3>1
    <3>. QED
      BY <3>3, <3>4, <3>5
  <2>. QED
    BY <1>3, <1>5, <2>1, <2>2, <2>3 DEF Flow
<1>7. Abstract!Fills
  <2>. DEFINE filled == IF recv_len > Elements THEN Elements ELSE recv_len
  <2>1. filled = recv_len /\ filled' = recv_len' /\ recv_len' \in recv_len + 1 .. Elements
    BY <1>2, <1>3, <1>4, <1>5
  <2>2. state = "moving" /\ state' \in {"moving", "failed"}
    BY <1>4, <1>5 DEF state
  <2>3. \A w \in DOMAIN hist :
          IF ElementOf(w) \in recv_len + 1 .. recv_len'
          THEN hist'[w] \in IF Leads(w) THEN had[ElementOf(w)] ELSE {Zero}
          ELSE hist'[w] = hist[w]
    <3>. SUFFICES ASSUME NEW w \in DOMAIN hist
                  PROVE  IF ElementOf(w) \in recv_len + 1 .. recv_len'
                         THEN hist'[w] \in IF Leads(w) THEN had[ElementOf(w)] ELSE {Zero}
                         ELSE hist'[w] = hist[w]
      OBVIOUS
    <3>. DEFINE k == ElementOf(w)
    <3>1. /\ k \in recv_len + 1 .. recv_len + Len(p.data) => k - recv_len \in 1..Len(p.data)
          /\ hist'[w] = IF k \in recv_len + 1 .. recv_len + Len(p.data)
                        THEN IF Leads(w) THEN p.data[k - recv_len] ELSE Zero
                        ELSE hist[w]
      BY <1>2, <1>3, <1>5, Storage
    <3>2. k \in Nat /\ k <= size
      BY <1>4, WordOf, WordFits
    <3>. HIDE DEF k
    <3>3. k \in recv_len + 1 .. recv_len' <=> k \in recv_len + 1 .. recv_len + Len(p.data)
      BY <1>2, <1>3, <1>4, <1>5, <3>2
    <3>4. ASSUME k \in recv_len + 1 .. recv_len + Len(p.data)
          PROVE  p.data[k - recv_len] \in had[k]
      <4>1. k - recv_len \in 1..Len(p.data) /\ recv_len + (k - recv_len) = k
        BY <1>2, <1>3, <1>4, <3>1, <3>4
      <4>. QED
        BY <1>2, <4>1
    <3>5. IF k \in recv_len + 1 .. recv_len'
          THEN hist'[w] \in IF Leads(w) THEN had[k] ELSE {Zero}
          ELSE hist'[w] = hist[w]
      BY <3>1, <3>3, <3>4
    <3>. QED
      BY <3>5 DEF k
  <2>4. \A w \in DOMAIN hist : Abstract!ElementOf(w) = ElementOf(w) /\ (Abstract!Leads(w) <=> Leads(w))
    BY DEF Abstract!ElementOf, Abstract!Leads, ElementOf, Leads
  <2>. QED
    BY <1>4, <2>1, <2>2, <2>3, <2>4 DEF Abstract!Fills
<1>. QED
  BY <1>6, <1>7

LEMMA PackageStep ==
  ASSUME HistInv, recvPKG
  PROVE  HistInv' /\ (Abstract!Fills \/ Abstract!Ends \/ Abstract!Spoils)
<1>. DEFINE package == Head(toClient)
<1>1. /\ client = "recv" /\ toClient # <<>> /\ toClient' = Tail(toClient)
      /\ UNCHANGED <<memory, server, block, torn, shaken, mishaps, had>>
      /\ package.op = "DAT" => Store(package, package.data)
      /\ package.op # "DAT" => Finish(package.op)
  BY DEF recvPKG, sending, strain
<1>2. package \in Packages /\ toClient' \in Seq(Packages) /\ package.data \in Seq(Contents)
  BY <1>1, FirstPackage
<1>3. /\ hist' \in Seq(Contents) /\ DOMAIN hist' = DOMAIN hist /\ recv_len' \in Nat
      /\ client' \in {"recv", "over", "dead"}
      /\ package.op # "DAT" => client' # "recv"
  <2>1. CASE package.op = "DAT"
    BY <1>1, <1>2, <2>1, StoreTyped
  <2>2. CASE package.op # "DAT"
    BY <1>1, <2>2, FinishTyped DEF HistInv, HistTyped
  <2>. QED
    BY <2>1, <2>2
<1>4. HistTyped'
  <2>1. Blocks' = Blocks
    BY DEF Blocks, nfullblks, nlastblk
  <2>. QED
    BY <1>1, <1>2, <1>3, <2>1 DEF HistInv, HistTyped
<1>5. CASE torn
  <2>1. state = "spoilt" /\ state' = "spoilt"
    BY <1>1, <1>3, <1>5 DEF state
  <2>. QED
    BY <1>1, <1>3, <1>4, <1>5, <2>1 DEF HistInv, Abstract!Spoils
<1>6. CASE ~torn
  <2>1. PICK p : toClient = <<p>> /\ Fresh(p)
    BY <1>1, <1>6 DEF HistInv, Flow
  <2>2. package = p /\ toClient' = <<>>
    BY <1>1, <2>1
  <2>3. CASE p.op = "DAT"
    <3>1. (client' = "recv" => Flow') /\ Abstract!Fills
      BY <1>1, <1>6, <2>1, <2>2, <2>3, BlockStep
    <3>. QED
      BY <1>4, <3>1 DEF HistInv
  <2>4. CASE p.op # "DAT"
    <3>1. p.op = "ACK" /\ UNCHANGED <<hist, recv_len>> /\ retn' = recv_len /\ client' = "over"
      <4>1. p.op = "ACK"
        BY <2>1, <2>4 DEF Fresh
      <4>2. Finish("ACK")
        BY <1>1, <2>2, <2>4, <4>1
      <4>. QED
        BY <4>1, <4>2 DEF Finish, Over
    <3>2. recv_len <= Elements /\ recv_len \in Nat /\ Elements \in Nat
      BY <1>1, <1>6, BlockCount DEF HistInv, HistTyped, Flow
    <3>3. state = "moving" /\ state' = IF recv_len = Elements THEN "whole" ELSE "failed"
      BY <1>1, <1>6, <3>1 DEF state
    <3>4. (IF recv_len > Elements THEN Elements ELSE recv_len) = recv_len
      BY <3>2
    <3>. QED
      BY <1>1, <1>4, <3>1, <3>3, <3>4 DEF HistInv, Abstract!Ends
  <2>. QED
    BY <2>3, <2>4
<1>. QED
  BY <1>5, <1>6

LEMMA PartStep ==
  ASSUME HistInv, recvPart
  PROVE  HistInv' /\ Abstract!Spoils
<1>1. /\ client = "recv" /\ toClient # <<>> /\ torn' = TRUE
      /\ UNCHANGED <<memory, server, block, had>>
  BY DEF recvPart, sending
<1>2. PICK op \in Ops :
        /\ toClient' = <<Package(op, 0, <<>>)>> \o Tail(toClient)
        /\ \E came : Store(Head(toClient), [k \in DOMAIN Head(toClient).data |->
                                             IF k <= came THEN Head(toClient).data[k] ELSE Zero])
  BY DEF recvPart
<1>3. Tail(toClient) \in Seq(Packages) /\ Head(toClient).data \in Seq(Contents)
  BY <1>1, FirstPackage
<1>4. toClient' \in Seq(Packages)
  <2>1. <<>> \in Seq(Contents)
    BY EmptySeq
  <2>2. Package(op, 0, <<>>) \in Packages
    BY <1>2, <2>1 DEF Package, Packages
  <2>3. <<Package(op, 0, <<>>)>> \in Seq(Packages)
    BY <2>2
  <2>. QED
    BY <1>2, <1>3, <2>3, ConcatProperties
<1>5. /\ hist' \in Seq(Contents) /\ DOMAIN hist' = DOMAIN hist /\ recv_len' \in Nat
      /\ client' \in {"recv", "over", "dead"}
  BY <1>2, <1>3, Filled, StoreTyped
<1>6. HistTyped'
  <2>1. Blocks' = Blocks
    BY DEF Blocks, nfullblks, nlastblk
  <2>. QED
    BY <1>1, <1>4, <1>5, <2>1 DEF HistInv, HistTyped
<1>7. state \in {"moving", "spoilt"} /\ state' = "spoilt"
  BY <1>1, <1>5 DEF state
<1>. QED
  BY <1>1, <1>5, <1>6, <1>7 DEF HistInv, Abstract!Spoils

LEMMA NoneStep ==
  ASSUME HistInv, recvNone
  PROVE  HistInv' /\ (Abstract!Ends \/ Abstract!Fails \/ Abstract!Spoils)
<1>1. /\ client = "recv" /\ UNCHANGED <<memory, server, block, torn, toClient, had>>
      /\ \E op : Finish(op)
  BY DEF recvNone, sending, strain, Mishap
<1>2. PICK op : Finish(op)
  BY <1>1
<1>3. /\ UNCHANGED <<hist, recv_len>> /\ client' \in {"over", "dead"}
      /\ op = "ACK" => retn' = recv_len /\ client' = "over"
      /\ op # "ACK" => retn' = -1
  BY <1>2, FinishTyped DEF Finish
<1>4. HistInv'
  <2>1. Blocks' = Blocks
    BY DEF Blocks, nfullblks, nlastblk
  <2>. QED
    BY <1>1, <1>3, <2>1 DEF HistInv, HistTyped
<1>5. CASE torn
  <2>1. state = "spoilt" /\ state' = "spoilt"
    BY <1>1, <1>3, <1>5 DEF state
  <2>. QED
    BY <1>1, <1>3, <1>4, <2>1 DEF Abstract!Spoils
<1>6. CASE ~torn
  <2>1. recv_len <= Elements /\ recv_len \in Nat /\ Elements \in Nat
    BY <1>1, <1>6, BlockCount DEF HistInv, HistTyped, Flow
  <2>2. CASE op = "ACK"
    <3>1. state = "moving" /\ state' = IF recv_len = Elements THEN "whole" ELSE "failed"
      BY <1>1, <1>3, <1>6, <2>2 DEF state
    <3>2. (IF recv_len > Elements THEN Elements ELSE recv_len) = recv_len
      BY <2>1
    <3>. QED
      BY <1>1, <1>3, <1>4, <3>1, <3>2 DEF Abstract!Ends
  <2>3. CASE op # "ACK"
    <3>1. state = "moving" /\ state' = "failed"
      BY <1>1, <1>3, <1>6, <2>1, <2>3 DEF state
    <3>. QED
      BY <1>1, <1>3, <1>4, <3>1 DEF Abstract!Fails
  <2>. QED
    BY <2>2, <2>3
<1>. QED
  BY <1>5, <1>6
-----------------------------------------------------------------------------
(* All steps of a transfer.                                                *)

LEMMA HistBegins == HistInit => HistInv /\ Abstract!TransferInit
<1>. SUFFICES ASSUME HistInit
              PROVE  HistInv /\ Abstract!TransferInit
  OBVIOUS
<1>1. PICK room \in Nat : hist = [k \in 1..room |-> Zero]
  BY TransferAssumption DEF HistInit
<1>2. hist \in Seq(Contents) /\ \A k \in DOMAIN hist : hist[k] \in Contents
  <2>1. hist \in [1..room -> Contents]
    BY <1>1, TransferAssumption
  <2>. QED
    BY <2>1, SeqOfFunction
<1>3. /\ had \in [1..Elements -> SUBSET Contents] /\ memory \in [1..Elements -> Contents]
      /\ recv_len = 0 /\ client = "idle" /\ server = "idle" /\ torn = FALSE /\ toClient = <<>> /\ block = 0
  BY TransferAssumption DEF HistInit
<1>4. toClient \in Seq(Packages) /\ torn \in BOOLEAN
  <2>1. toClient \in Seq(Packages)
    BY <1>3, EmptySeq
  <2>. QED
    BY <1>3, <2>1, Zenon
<1>5. HistInv
  BY <1>2, <1>3, <1>4 DEF HistInv, HistTyped
<1>6. state = "idle" /\ (IF recv_len > Elements THEN Elements ELSE recv_len) = 0
  BY <1>3, BlockCount DEF state
<1>. QED
  BY <1>2, <1>3, <1>5, <1>6 DEF Abstract!TransferInit

\* What no side of a transfer looks at changes nothing of it.
LEMMA HistStutters ==
  ASSUME HistInv, UNCHANGED <<memory, server, block, transfer, wire, reset, torn, had>>
  PROVE  HistInv' /\ UNCHANGED Abstract!transferVars
<1>1. UNCHANGED <<memory, server, block, client, hist, recv_len, opcode, retn, toClient, toServer, reset,
                  torn, had>>
  BY DEF transfer, wire
<1>2. UNCHANGED <<Blocks, size>> /\ Before(block)' = Before(block) /\ Before(block + 1)' = Before(block + 1)
  BY <1>1 DEF Blocks, nfullblks, nlastblk, size, Before
<1>3. \A p : Fresh(p)' <=> Fresh(p)
  BY <1>1 DEF Fresh
<1>4. HistInv'
  BY <1>1, <1>2, <1>3 DEF HistInv, HistTyped, Flow
<1>. QED
  BY <1>1, <1>4, Stutters DEF Abstract!transferVars

LEMMA HistSteps ==
  ASSUME HistInv, HistNext
  PROVE  HistInv' /\ (Abstract!TransferNext \/ UNCHANGED Abstract!transferVars)
<1>1. CASE \E m \in [1..Elements -> Contents] : Change(m)
  BY <1>1, ChangeStep DEF Abstract!TransferNext
<1>2. CASE sendHIST \/ Hangs
  <2>1. HistInv' /\ UNCHANGED <<had, hist, recv_len, client, torn, retn>>
    BY <1>2, SendStep, AckStep, LeaveStep DEF sendHIST
  <2>. QED
    BY <2>1, Stutters DEF Abstract!transferVars
<1>3. CASE AIM_XFER
  BY <1>3, XferStep DEF Abstract!TransferNext
<1>4. CASE recvHIST
  BY <1>4, PackageStep, PartStep, NoneStep DEF recvHIST, Abstract!TransferNext
<1>. QED
  BY <1>1, <1>2, <1>3, <1>4 DEF HistNext
-----------------------------------------------------------------------------
(* All steps of a count.                                                   *)

AreaInv == HistInv /\ n \in 0..MaxCounts

LEMMA ExecuteStep ==
  ASSUME HistInv, NEW order, Execute(order)
  PROVE  HistInv' /\ Abstract!Changes
<1>. DEFINE m == IF order = "CLEAR" THEN [k \in 1..Elements |-> Zero] ELSE memory
<1>1. m \in [1..Elements -> Contents] /\ Change(m)
  BY TransferAssumption DEF Execute, HistInv, HistTyped
<1>. QED
  BY <1>1, ChangeStep

LEMMA CommandStep ==
  ASSUME HistInv, NEW order, Command(order)
  PROVE  HistInv' /\ (Abstract!Changes \/ UNCHANGED Abstract!transferVars)
<1>1. CASE Execute(order)
  BY <1>1, ExecuteStep
<1>2. CASE UNCHANGED <<armed, lit, memory, sending, transfer, wire, reset, torn, shaken, had>>
  BY <1>2, HistStutters DEF sending
<1>3. CASE UNCHANGED <<armed, lit, histVars>>
  BY <1>3, HistStutters DEF histVars, sending, strain
<1>. QED
  BY <1>1, <1>2, <1>3 DEF Command

LEMMA NeutronStep ==
  ASSUME AreaInv, Neutron
  PROVE  HistInv' /\ Abstract!Changes
<1>. DEFINE m == [k \in 1..Elements |-> memory[k] \cup IF armed THEN {n} ELSE {}]
<1>1. n \in 1..MaxCounts
  BY AreaAssumption DEF AreaInv, Neutron
<1>2. m \in [1..Elements -> Contents]
  BY <1>1, AreaAssumption DEF AreaInv, HistInv, HistTyped
<1>3. Change(m)
  BY DEF Neutron
<1>. QED
  BY <1>2, <1>3, ChangeStep DEF AreaInv

LEMMA AreaSteps ==
  ASSUME AreaInv, [Next]_vars
  PROVE  AreaInv' /\ (Abstract!TransferNext \/ UNCHANGED Abstract!transferVars)
<1>1. n' \in 0..MaxCounts
  BY AreaAssumption DEF AreaInv, Next, vars, run, Step, Quiet, Reset_Display, Begin, Clear, Arm, Count, Rock_Count,
     Scaler, Stop, Disarm, Fetch, Receiving, Sending, Hanging, Fetched, Counted, Control_A, Late, Neutron,
     Pulsing
<1>2. CASE UNCHANGED histVars
  BY <1>1, <1>2, HistStutters DEF AreaInv, histVars, sending, strain
<1>3. CASE Clear \/ Arm \/ Stop \/ Disarm
  BY <1>1, <1>3, CommandStep
     DEF AreaInv, Clear, Arm, Stop, Disarm, AIM_CLEAR, AIM_ARM, AIM_DISARM, Abstract!TransferNext
<1>4. CASE Late
  BY <1>1, <1>4, ExecuteStep DEF AreaInv, Late, Abstract!TransferNext
<1>5. CASE Neutron
  BY <1>1, <1>5, NeutronStep DEF AreaInv, Abstract!TransferNext
<1>6. CASE Fetch \/ Receiving \/ Sending \/ Hanging
  <2>1. HistNext
    BY <1>6 DEF Fetch, Receiving, Sending, Hanging, HistNext
  <2>. QED
    BY <1>1, <2>1, HistSteps DEF AreaInv
<1>. QED
  BY <1>2, <1>3, <1>4, <1>5, <1>6
     DEF Next, Step, vars, Reset_Display, Begin, Count, Rock_Count, Scaler, Fetched, Counted, Control_A, Pulsing

\* AIM_XFER, whatever becomes of the commands, the packages and the two sides, as
\* part of a run: its storage fills from the beginning with what the detector has
\* had since it began, each element in the first of the words of a long, as far as
\* the storage goes, and it is whole only when all elements have come.
THEOREM XferImplementsTransfer == Spec => Implements
<1>1. Init => AreaInv /\ Abstract!TransferInit
  BY HistBegins, AreaAssumption DEF Init, AreaInv
<1>2. AreaInv /\ [Next]_vars => AreaInv' /\ [Abstract!TransferNext]_Abstract!transferVars
  BY AreaSteps
<1>. QED
  BY <1>1, <1>2, PTL DEF Spec, Implements, Abstract!TransferSpec
-----------------------------------------------------------------------------
(* A transfer that nothing has befallen.                                   *)

Unshaken ==
  /\ client = "recv" /\ ~shaken /\ ~torn =>
       \/ server = "send"
       \/ server = "await" /\ \A q : toServer = <<q>> => q.op = "ACK"
       \/ server = "gone" /\ recv_len = Elements /\ \E p : toClient = <<p>> /\ p.op = "ACK"
  /\ Brought

\* No side has moved.
LEMMA UnshakenStutters ==
  ASSUME Unshaken, UNCHANGED <<server, transfer, wire, torn, shaken>>
  PROVE  Unshaken'
  BY DEF Unshaken, Brought, transfer, wire, size

LEMMA UnshakenSending ==
  ASSUME HistInv, Unshaken, sendHIST \/ Hangs
  PROVE  Unshaken'
<1>1. UNCHANGED <<client, hist, recv_len, retn, torn>>
  BY DEF sendHIST, Hangs, SendBlock, RecvAck, NoAck, transfer, strain, Mishap
<1>2. CASE client # "recv"
  BY <1>1, <1>2 DEF Unshaken, Brought, size, sendHIST, Hangs, SendBlock, RecvAck, NoAck, strain, Mishap
<1>3. CASE client = "recv"
  <2>1. Brought'
    BY <1>1, <1>3 DEF Brought
  <2>2. CASE SendBlock
    <3>1. shaken' = shaken /\ toServer' = toServer /\ server = "send"
      BY <2>2 DEF SendBlock, strain
    <3>2. ASSUME ~shaken, ~torn
          PROVE  \/ server' = "await" /\ \A q : toServer' = <<q>> => q.op = "ACK"
                 \/ server' = "gone" /\ recv_len = Elements /\ \E p : toClient' = <<p>> /\ p.op = "ACK"
      <4>1. toClient = <<>> /\ toServer = <<>> /\ recv_len = Before(block)
        BY <1>3, <3>1, <3>2 DEF HistInv, Flow
      <4>2. CASE block = Blocks
        <5>1. toClient' = <<ACK(nfullblks)>> /\ server' = "gone" /\ ACK(nfullblks).op = "ACK"
          BY <1>3, <2>2, <4>1, <4>2 DEF SendBlock, ACK, Package
        <5>2. recv_len = Elements
          BY <4>1, <4>2, FirstBorder
        <5>. QED
          BY <5>1, <5>2
      <4>3. CASE block # Blocks
        BY <1>3, <2>2, <3>1, <4>1, <4>3 DEF SendBlock
      <4>. QED
        BY <4>2, <4>3
    <3>. QED
      BY <1>1, <2>1, <3>1, <3>2 DEF Unshaken
  <2>3. CASE RecvAck
    <3>1. shaken' = shaken /\ server = "await" /\ toServer # <<>>
      BY <2>3 DEF RecvAck, strain
    <3>2. ASSUME ~shaken, ~torn
          PROVE  server' = "send"
      <4>1. PICK q : toServer = <<q>> /\ q.op = "ACK"
        BY <1>3, <3>1, <3>2 DEF HistInv, Flow, Unshaken
      <4>. QED
        BY <2>3, <4>1 DEF RecvAck
    <3>. QED
      BY <1>1, <2>1, <3>1, <3>2 DEF Unshaken
  <2>4. CASE NoAck \/ Hangs
    <3>1. shaken'
      BY <1>3, <2>4 DEF NoAck, Hangs, Mishap
    <3>. QED
      BY <2>1, <3>1 DEF Unshaken
  <2>. QED
    BY <2>2, <2>3, <2>4 DEF sendHIST
<1>. QED
  BY <1>2, <1>3

LEMMA UnshakenPackage ==
  ASSUME HistInv, Unshaken, recvPKG
  PROVE  Unshaken'
<1>. SUFFICES ASSUME ~shaken, ~torn
              PROVE  Unshaken'
  BY DEF recvPKG, strain, Unshaken, Brought
<1>1. /\ client = "recv" /\ toClient # <<>> /\ toClient' = Tail(toClient)
      /\ UNCHANGED <<server, block, torn, shaken>> /\ Flow
  BY DEF recvPKG, sending, strain, HistInv
<1>2. PICK p : toClient = <<p>> /\ Fresh(p)
  BY <1>1 DEF Flow
<1>3. /\ p.op = "DAT" => Store(p, p.data)
      /\ p.op # "DAT" => Finish(p.op)
  BY <1>2 DEF recvPKG
<1>4. CASE p.op = "DAT"
  <2>1. server = "await" /\ toServer = <<>> /\ ~reset
    BY <1>1, <1>2, <1>4 DEF Flow, Unshaken
  <2>2. Store(p, p.data) /\ size' = size
    BY <1>2, <1>3, <1>4, StoreTyped DEF Fresh
  <2>3. CASE recv_len + Len(p.data) > size
    <3>1. /\ size \in Nat /\ Elements \in Nat /\ recv_len \in Nat /\ Len(p.data) \in Nat
          /\ recv_len + Len(p.data) <= Elements
      BY <1>2, <1>4, ZeroStorage, BlockCount, LenProperties DEF Fresh, HistInv, HistTyped
    <3>2. ~(size' >= Elements)
      BY <2>2, <2>3, <3>1
    <3>3. client' # "recv"
      BY <2>1, <2>2, <2>3 DEF Store, sendPKG
    <3>. QED
      BY <3>2, <3>3 DEF Unshaken, Brought, size
  <2>4. CASE ~(recv_len + Len(p.data) > size)
    <3>1. client' = "recv" /\ toServer' = <<ACK(p.prm)>> /\ ACK(p.prm).op = "ACK"
      BY <2>1, <2>2, <2>4 DEF Store, sendPKG, ACK, Package
    <3>2. \A q : toServer' = <<q>> => q.op = "ACK"
      BY <3>1
    <3>. QED
      BY <1>1, <2>1, <3>1, <3>2 DEF Unshaken, Brought
  <2>. QED
    BY <2>3, <2>4
<1>5. CASE p.op # "DAT"
  <2>1. p.op = "ACK" /\ recv_len = Elements
    BY <1>1, <1>2, <1>5 DEF Fresh, Flow, Unshaken
  <2>2. client' = "over" /\ retn' = Elements
    BY <1>3, <2>1 DEF Finish, Over
  <2>. QED
    BY <2>2 DEF Unshaken, Brought
<1>. QED
  BY <1>4, <1>5

LEMMA UnshakenSteps ==
  ASSUME HistInv, Unshaken, HistNext
  PROVE  Unshaken'
<1>1. CASE \E m \in [1..Elements -> Contents] : Change(m)
  <2>1. UNCHANGED <<server, transfer, wire, torn, shaken>>
    BY <1>1 DEF Change, sending, strain
  <2>. QED
    BY <2>1, UnshakenStutters
<1>2. CASE AIM_XFER
  BY <1>2 DEF AIM_XFER, Unshaken, Brought
<1>3. CASE recvPart
  BY <1>3 DEF recvPart, Unshaken, Brought
<1>4. CASE recvNone
  <2>1. UNCHANGED <<server, toClient, torn>> /\ client = "recv" /\ toClient = <<>>
    BY <1>4 DEF recvNone, sending, strain, Mishap
  <2>2. client' # "recv"
    BY <1>4, FinishTyped DEF recvNone
  <2>3. ~shaken' => ~shaken /\ server \in {"gone", "stuck"}
    BY <1>4 DEF recvNone, strain, Mishap
  <2>4. shaken' \/ torn'
    BY <2>1, <2>3 DEF Unshaken
  <2>. QED
    BY <2>2, <2>4 DEF Unshaken, Brought
<1>. QED
  BY <1>1, <1>2, <1>3, <1>4, UnshakenSending, UnshakenPackage DEF HistNext, recvHIST

\* All elements of a histogram that neither side gave up and none of whose packages
\* was torn are received, if the storage has as many words, whatever has become of
\* the transfers before and of the commands.
THEOREM BroughtAlways == Spec => []Brought
<1>1. Init => AreaInv /\ Unshaken
  <2>1. Init => AreaInv
    BY HistBegins, AreaAssumption DEF Init, AreaInv
  <2>2. Init => Unshaken
    BY DEF Init, HistInit, Unshaken, Brought
  <2>. QED
    BY <2>1, <2>2
<1>2. AreaInv /\ [Next]_vars => AreaInv'
  BY AreaSteps
<1>3. AreaInv /\ Unshaken /\ [Next]_vars => Unshaken'
  <2>. SUFFICES ASSUME AreaInv, Unshaken, [Next]_vars
                PROVE  Unshaken'
    OBVIOUS
  <2>1. CASE UNCHANGED <<sending, transfer, wire, torn, shaken>>
    BY <2>1, UnshakenStutters DEF sending
  <2>2. CASE Fetch \/ Receiving \/ Sending \/ Hanging
    BY <2>2, UnshakenSteps DEF AreaInv, Fetch, Receiving, Sending, Hanging, HistNext
  <2>. QED
    BY <2>1, <2>2
       DEF Next, Step, vars, histVars, strain, Reset_Display, Begin, Clear, Arm, Stop, Disarm, AIM_CLEAR, AIM_ARM, AIM_DISARM,
           Command, Execute, Change, Late, Neutron, Count, Rock_Count, Scaler, Fetched, Counted, Control_A, Pulsing
<1>4. Unshaken => Brought
  BY DEF Unshaken
<1>. QED
  BY <1>1, <1>2, <1>3, <1>4, PTL DEF Spec
-----------------------------------------------------------------------------
(* The scaler in a run, and what is filed.                                 *)

LEMMA ScalerSteps == CountInv /\ [Next]_vars => CountInv'
<1>. SUFFICES ASSUME CountInv, [Next]_vars
              PROVE  CountInv'
  OBVIOUS
<1>1. CASE UNCHANGED scalerVars
  BY <1>1, CountStutters
<1>2. CASE Reset_Display
  BY <1>2, ResetStep DEF Reset_Display
<1>3. CASE Count
  <2>1. PICK p \in Presets \cup AreaPresets : SCALERSTART(p[1], p[2])
    BY <1>3 DEF Count
  <2>2. p[1] \in Nat /\ p[2] \in Modes
    BY CountingAssumption, AreaAssumption DEF Modes
  <2>. QED
    BY <2>1, <2>2, StartStep
<1>4. CASE Rock_Count \/ Scaler
  BY <1>1, <1>4, StatusStep DEF Rock_Count, Scaler
<1>5. CASE Pulsing
  BY <1>5, PulseStep DEF Pulsing
<1>. QED
  BY <1>1, <1>2, <1>3, <1>4, <1>5
     DEF Next, Step, vars, Begin, Clear, Arm, Stop, Disarm, Fetch, Receiving, Sending, Hanging, Fetched, Counted,
         Control_A, Late, Neutron

\* The totals of a run's counts are exact, with rocking motors and the detector,
\* unless a count was polled again after its end.
THEOREM ExactInRuns == Spec => []Exact
<1>1. Init => CountInv
  BY CountBegins DEF Init
<1>. QED
  BY <1>1, ScalerSteps, InvExact, PTL DEF Spec

\* The count is left only when it has ended, or for a control A.
Leaving ==
  /\ at \in {"disarm", "fetch", "transfer"} => ~iscounting
  /\ at \in {"stop", "counted"} => ~iscounting \/ contr_a
  /\ ~filed.stopped

LEMMA LeavingSteps == Leaving /\ [Next]_vars => Leaving'
<1>. SUFFICES ASSUME Leaving, [Next]_vars
              PROVE  Leaving'
  OBVIOUS
<1>1. CASE Begin \/ Count \/ Rock_Count \/ Reset_Display
  BY <1>1 DEF Leaving, Begin, Count, Rock_Count, Reset_Display, Goes, Quiet
<1>2. CASE Scaler
  BY <1>2 DEF Leaving, Scaler, Quiet
<1>3. CASE Counted
  BY <1>3 DEF Leaving, Counted, Goes, Point
<1>4. CASE Control_A
  BY <1>4 DEF Leaving, Control_A, scalerVars, program
<1>. QED
  BY <1>1, <1>2, <1>3, <1>4
     DEF Leaving, Next, Step, vars, run, Goes, Quiet, scalerVars, program, Clear, Arm, Stop, Disarm, Fetch, Receiving,
         Sending, Hanging, Fetched, Late, Neutron, Pulsing, Pulse

\* Run_I_Buf files no point whose count was still going on.
THEOREM FinishedAlways == Spec => []Finished
<1>1. Init => Leaving
  BY DEF Init, Leaving, NoPoint
<1>2. Leaving => Finished
  BY DEF Leaving, Finished
<1>. QED
  BY <1>1, <1>2, LeavingSteps, PTL DEF Spec
-----------------------------------------------------------------------------
(* Whose histogram is filed.                                               *)

\* A content that this count has, and all of it when the detector saw neutrons.
Own(x) == x \subseteq {n} /\ (lit => x = {n})

\* The detector has been cleared, and armed, for this count.
Cleared == {"arm", "start", "rock", "poll", "stop", "disarm", "fetch", "transfer", "counted"}

Taken ==
  /\ \A k \in 1..Elements : \A x \in had[k] : Own(x)
  /\ \A w \in DOMAIN hist : hist[w] \subseteq {n}
  /\ client = "recv" =>
       \A i \in 1..Len(toClient) : \A k \in 1..Len(toClient[i].data) : toClient[i].data[k] \subseteq {n}
  /\ ~torn =>
       \A w \in DOMAIN hist :
         ElementOf(w) <= recv_len /\ ElementOf(w) <= Elements /\ Leads(w) => hist[w] \in had[ElementOf(w)]

\* Where the program can be.
Placed ==
  /\ client = "recv" => at = "transfer"
  /\ client = "over" => retn = -1 \/ retn = recv_len
  /\ at = "stop" => contr_a
  /\ at \in {"clear", "arm"} => ~lit
  /\ ~slipped => orders = <<>>

Watched ==
  psd /\ ~slipped =>
    /\ at \in Cleared => \A k \in 1..Elements : Own(memory[k])
    /\ at \in {"start", "rock", "poll"} => armed
    /\ at = "transfer" => Taken
    /\ at = "counted" /\ ~contr_a => client = "over" /\ Taken

OwnInv == Placed /\ Watched /\ HistogramOwn

LEMMA OwnBegins == Init => OwnInv
  BY DEF Init, HistInit, OwnInv, Placed, Watched, Cleared, HistogramOwn, NoPoint

LEMMA CommandLeaves ==
  ASSUME NEW order, Command(order)
  PROVE  /\ UNCHANGED <<client, retn, recv_len, hist, toClient, torn, lit>>
         /\ ~slipped' => ~slipped /\ orders = <<>> /\ orders' = orders /\ Execute(order)
<1>1. CASE orders = <<>> /\ Execute(order) /\ UNCHANGED <<orders, lit, slipped>>
  <2>1. UNCHANGED <<client, retn, recv_len, hist, toClient, torn>>
    BY <1>1 DEF Execute, Change, transfer, wire, strain
  <2>. QED
    BY <1>1, <2>1, Zenon
<1>2. CASE slipped' = TRUE /\ UNCHANGED <<lit, transfer, wire, torn>>
  BY <1>2 DEF transfer, wire
<1>. QED
  BY <1>1, <1>2 DEF Command, histVars, strain

LEMMA PlacedSteps ==
  ASSUME AreaInv, Placed, [Next]_vars
  PROVE  Placed'
<1>1. CASE UNCHANGED vars
  BY <1>1 DEF Placed, vars, run, detector, histVars, transfer
<1>2. CASE Clear \/ Arm \/ Stop \/ Disarm
  <2>1. /\ client' = client /\ retn' = retn /\ recv_len' = recv_len /\ lit' = lit /\ contr_a' = contr_a
        /\ at \in {"clear", "arm", "stop", "disarm"} /\ at' \in {"arm", "start", "counted", "fetch"}
        /\ at' = "arm" => at = "clear"
        /\ ~slipped' => ~slipped /\ orders' = orders
    <3>1. \E order : Command(order)
      BY <1>2 DEF Clear, Arm, Stop, Disarm, AIM_CLEAR, AIM_ARM, AIM_DISARM
    <3>2. /\ contr_a' = contr_a
          /\ at \in {"clear", "arm", "stop", "disarm"} /\ at' \in {"arm", "start", "counted", "fetch"}
          /\ at' = "arm" => at = "clear"
      BY <1>2 DEF Clear, Arm, Stop, Disarm, Goes, Quiet
    <3>. QED
      BY <3>1, <3>2, CommandLeaves
  <2>. QED
    BY <2>1 DEF Placed
<1>3. CASE Late
  BY <1>3 DEF Late, Execute, Change, transfer, run, Placed
<1>4. CASE Neutron
  BY <1>4 DEF Neutron, Change, transfer, run, Placed
<1>5. CASE Fetch
  BY <1>5 DEF Fetch, AIM_XFER, Goes, Quiet, detector, Placed
<1>6. CASE Receiving
  <2>1. client = "recv" /\ UNCHANGED <<at, contr_a, lit, slipped, orders>>
    BY <1>6 DEF Receiving, recvHIST, recvPKG, recvPart, recvNone, run, detector
  <2>2. client' = "over" => retn' = -1 \/ retn' = recv_len'
    <3>1. ASSUME NEW package, NEW data, Store(package, data)
          PROVE  client' = "over" => retn' = -1
      BY <3>1 DEF Store, sendPKG, Over
    <3>2. ASSUME NEW op, Finish(op)
          PROVE  retn' = -1 \/ retn' = recv_len'
      BY <3>2, FinishTyped
    <3>3. (\E package, data : Store(package, data)) \/ \E op : Finish(op)
      BY <1>6 DEF Receiving, recvHIST, recvPKG, recvPart, recvNone
    <3>. QED
      BY <3>1, <3>2, <3>3
  <2>. QED
    BY <2>1, <2>2 DEF Placed
<1>7. CASE Sending \/ Hanging
  <2>1. UNCHANGED <<client, retn, recv_len, at, contr_a, lit, slipped, orders>>
    BY <1>7 DEF Sending, Hanging, sendHIST, SendBlock, RecvAck, NoAck, Hangs, transfer, run, detector
  <2>. QED
    BY <2>1 DEF Placed
<1>8. CASE Begin \/ Count \/ Rock_Count \/ Reset_Display \/ Scaler \/ Fetched \/ Counted \/ Control_A \/ Pulsing
  <2>1. UNCHANGED <<client, retn, recv_len, orders>>
    BY <1>8 DEF Begin, Count, Rock_Count, Reset_Display, Scaler, Fetched, Counted, Control_A, Pulsing, histVars,
                transfer, detector
  <2>2. client = "recv" => at' = "transfer"
    BY <1>8 DEF Begin, Count, Rock_Count, Reset_Display, Scaler, Fetched, Counted, Control_A, Pulsing, Goes, Placed, run
  <2>3. at' = "stop" => contr_a'
    BY <1>8 DEF Begin, Count, Rock_Count, Reset_Display, Scaler, Fetched, Counted, Control_A, Pulsing, Goes, Placed,
                run, Quiet
  <2>4. at' \in {"clear", "arm"} => ~lit'
    BY <1>8 DEF Begin, Count, Rock_Count, Reset_Display, Scaler, Fetched, Counted, Control_A, Pulsing, Goes, Placed,
                run, detector
  <2>5. ~slipped' => orders = <<>>
    BY <1>8 DEF Begin, Count, Rock_Count, Reset_Display, Scaler, Fetched, Counted, Control_A, Pulsing, Placed, detector
  <2>. QED
    BY <2>1, <2>2, <2>3, <2>4, <2>5 DEF Placed
<1>. QED
  BY <1>1, <1>2, <1>3, <1>4, <1>5, <1>6, <1>7, <1>8 DEF Next, Step

LEMMA ZeroOwn == Zero \subseteq {n} /\ (~lit => Own(Zero))
  BY AreaAssumption DEF Own

LEMMA ChangeTaken ==
  ASSUME HistInv, Taken, n' = n, lit' => lit, NEW m, Change(m), \A k \in 1..Elements : Own(m[k])
  PROVE  Taken'
<1>1. /\ UNCHANGED <<client, hist, recv_len, toClient, torn>>
      /\ had' = IF client = "recv" THEN [k \in 1..Elements |-> had[k] \cup {m[k]}] ELSE had
  BY DEF Change, transfer, wire, strain
<1>2. \A k \in 1..Elements : had[k] \subseteq had'[k] /\ \A x \in had'[k] : Own(x)
  BY <1>1 DEF Taken
<1>3. \A x : Own(x) => Own(x)'
  BY DEF Own
<1>4. \A w \in DOMAIN hist : ElementOf(w) <= Elements => ElementOf(w) \in 1..Elements
  BY ZeroStorage, BlockCount, WordOf DEF HistInv, HistTyped
<1>. QED
  BY <1>1, <1>2, <1>3, <1>4 DEF Taken

LEMMA SendTaken ==
  ASSUME HistInv, Taken, UNCHANGED <<n, lit>>, sendHIST \/ Hangs, \A k \in 1..Elements : Own(memory[k])
  PROVE  Taken'
<1>1. UNCHANGED <<client, hist, recv_len, torn, had>> /\ \A x : Own(x) => Own(x)'
  BY DEF sendHIST, Hangs, SendBlock, RecvAck, NoAck, transfer, strain, Mishap, Own
<1>2. CASE SendBlock
  <2>1. PICK p : /\ p = IF block = Blocks THEN ACK(nfullblks) ELSE Package("DAT", block, idata(block))
                 /\ toClient' = Append(toClient, p)
    BY <1>2 DEF SendBlock
  <2>2. \A k \in 1..Len(p.data) : p.data[k] \subseteq {n}
    <3>1. CASE block = Blocks
      BY <2>1, <3>1 DEF ACK, Package
    <3>2. CASE block # Blocks
      <4>1. block \in Nat /\ block < Blocks /\ memory \in [1..Elements -> Contents]
        BY <1>2, <3>2, BlockCount DEF SendBlock, HistInv, HistTyped
      <4>2. p.data = idata(block)
        BY <2>1, <3>2 DEF Package
      <4>3. /\ Len(p.data) = Before(block + 1) - Before(block)
            /\ \A k \in 1..Len(p.data) : p.data[k] = memory[Before(block) + k]
        BY <4>1, <4>2, BlockData
      <4>4. \A k \in 1..Len(p.data) : Before(block) + k \in 1..Elements
        BY <4>1, <4>3, Borders, BlockCount
      <4>. QED
        BY <4>3, <4>4 DEF Own
    <3>. QED
      BY <3>1, <3>2
  <2>3. toClient \in Seq(Packages) /\ Len(toClient) \in Nat
    BY LenProperties DEF HistInv, HistTyped
  <2>4. \A i \in 1..Len(toClient') : (i \in 1..Len(toClient) /\ toClient'[i] = toClient[i]) \/ toClient'[i] = p
    BY <2>1, <2>3
  <2>5. ASSUME client = "recv"
        PROVE  \A i \in 1..Len(toClient') : \A k \in 1..Len(toClient'[i].data) : toClient'[i].data[k] \subseteq {n}
    BY <2>2, <2>4, <2>5 DEF Taken
  <2>. QED
    BY <1>1, <2>5 DEF Taken
<1>3. CASE UNCHANGED toClient
  BY <1>1, <1>3 DEF Taken
<1>. QED
  BY <1>2, <1>3 DEF sendHIST, RecvAck, NoAck, Hangs, wire

LEMMA XferTaken ==
  ASSUME HistInv, UNCHANGED <<n, lit>>, AIM_XFER, \A k \in 1..Elements : Own(memory[k])
  PROVE  Taken'
<1>1. /\ hist' = [k \in DOMAIN hist |-> Zero] /\ recv_len' = 0 /\ toClient' = <<>>
      /\ had' = [k \in 1..Elements |-> {memory[k]}]
      /\ \A x : Own(x) => Own(x)'
  BY DEF AIM_XFER, Own
<1>2. \A w \in DOMAIN hist : ~(ElementOf(w) <= 0)
  BY ZeroStorage, WordOf DEF HistInv, HistTyped
<1>3. \A w \in DOMAIN hist' : hist'[w] \subseteq {n}
  BY <1>1, ZeroOwn
<1>4. \A k \in 1..Elements : \A x \in had'[k] : Own(x)'
  BY <1>1
<1>5. 1..Len(toClient') = {}
  BY <1>1
<1>. QED
  BY <1>1, <1>2, <1>3, <1>4, <1>5 DEF Taken

\* What has come is the detector's, block after block.
LEMMA FillTaken ==
  ASSUME HistInv, HistInv', Taken, ~torn, had' = had, DOMAIN hist' = DOMAIN hist,
         Abstract!Fills \/ Abstract!Ends \/ Abstract!Fails
  PROVE  \A w \in DOMAIN hist' :
           ElementOf(w) <= recv_len' /\ ElementOf(w) <= Elements /\ Leads(w) => hist'[w] \in had'[ElementOf(w)]
<1>. SUFFICES ASSUME NEW w \in DOMAIN hist, ElementOf(w) <= recv_len', ElementOf(w) <= Elements, Leads(w)
              PROVE  hist'[w] \in had[ElementOf(w)]
  OBVIOUS
<1>. DEFINE filled == IF recv_len > Elements THEN Elements ELSE recv_len
            k == ElementOf(w)
<1>1. k \in Nat \ {0} /\ recv_len \in Nat /\ recv_len' \in Nat /\ Elements \in Nat
  BY ZeroStorage, BlockCount, WordOf DEF HistInv, HistTyped
<1>2. k <= filled => hist[w] \in had[k]
  BY <1>1 DEF Taken
<1>3. k <= filled'
  BY <1>1
<1>4. CASE Abstract!Fills
  <2>1. Abstract!ElementOf(w) = k /\ Abstract!Leads(w)
    BY DEF Abstract!ElementOf, Abstract!Leads, ElementOf, Leads
  <2>2. IF k \in filled + 1 .. filled' THEN hist'[w] \in had[k] ELSE hist'[w] = hist[w]
    BY <1>4, <2>1 DEF Abstract!Fills
  <2>. HIDE DEF k
  <2>3. hist'[w] \in had[k]
    BY <1>1, <1>2, <1>3, <2>2
  <2>. QED
    BY <2>3 DEF k
<1>5. CASE Abstract!Ends \/ Abstract!Fails
  <2>1. filled' = filled /\ hist' = hist
    BY <1>5 DEF Abstract!Ends, Abstract!Fails
  <2>. QED
    BY <1>2, <1>3, <2>1
<1>. QED
  BY <1>4, <1>5

LEMMA StoreTaken ==
  ASSUME HistInv, \A w \in DOMAIN hist : hist[w] \subseteq {n},
         NEW package, NEW data \in Seq(Contents), \A k \in 1..Len(data) : data[k] \subseteq {n},
         Store(package, data)
  PROVE  \A w \in DOMAIN hist' : hist'[w] \subseteq {n}
<1>1. hist' = Stored(data) /\ hist \in Seq(Contents) /\ recv_len \in Nat
  BY DEF Store, HistInv, HistTyped
<1>2. /\ DOMAIN hist' = DOMAIN hist
      /\ \A w \in DOMAIN hist :
           /\ ElementOf(w) \in recv_len + 1 .. recv_len + Len(data) => ElementOf(w) - recv_len \in 1..Len(data)
           /\ hist'[w] = IF ElementOf(w) \in recv_len + 1 .. recv_len + Len(data)
                         THEN IF Leads(w) THEN data[ElementOf(w) - recv_len] ELSE Zero
                         ELSE hist[w]
  BY <1>1, Storage
<1>. QED
  BY <1>2, ZeroOwn

LEMMA RecvTaken ==
  ASSUME HistInv, HistInv', Taken, UNCHANGED <<n, lit>>, recvHIST
  PROVE  Taken'
<1>1. client = "recv" /\ had' = had /\ \A x : Own(x) => Own(x)'
  BY DEF recvHIST, recvPKG, recvPart, recvNone, Own
<1>2. \A k \in 1..Elements : \A x \in had'[k] : Own(x)'
  BY <1>1 DEF Taken
<1>3. /\ \A w \in DOMAIN hist : hist[w] \subseteq {n}
      /\ \A i \in 1..Len(toClient) : \A k \in 1..Len(toClient[i].data) : toClient[i].data[k] \subseteq {n}
  BY <1>1 DEF Taken
<1>4. toClient \in Seq(Packages) /\ Len(toClient) \in Nat
  BY LenProperties DEF HistInv, HistTyped
<1>5. ASSUME toClient # <<>>
      PROVE  /\ Head(toClient) = toClient[1] /\ 1 \in 1..Len(toClient) /\ Len(Tail(toClient)) = Len(toClient) - 1
             /\ \A i \in 1..Len(Tail(toClient)) : i + 1 \in 1..Len(toClient) /\ Tail(toClient)[i] = toClient[i + 1]
  BY <1>4, <1>5
<1>6. CASE recvPKG
  <2>1. toClient # <<>> /\ toClient' = Tail(toClient) /\ torn' = torn
    BY <1>6 DEF recvPKG, strain
  <2>2. \A w \in DOMAIN hist' : hist'[w] \subseteq {n}
    <3>1. CASE Head(toClient).op = "DAT"
      <4>1. /\ Store(Head(toClient), Head(toClient).data) /\ Head(toClient).data \in Seq(Contents)
            /\ \A k \in 1..Len(Head(toClient).data) : Head(toClient).data[k] \subseteq {n}
        BY <1>3, <1>5, <1>6, <2>1, <3>1, FirstPackage DEF recvPKG
      <4>. QED
        BY <1>3, <4>1, StoreTaken
    <3>2. CASE Head(toClient).op # "DAT"
      BY <1>3, <1>6, <3>2, FinishTyped DEF recvPKG
    <3>. QED
      BY <3>1, <3>2
  <2>3. \A i \in 1..Len(toClient') : \A k \in 1..Len(toClient'[i].data) : toClient'[i].data[k] \subseteq {n}
    BY <1>3, <1>5, <2>1
  <2>4. ASSUME ~torn
        PROVE  \A w \in DOMAIN hist' :
                 ElementOf(w) <= recv_len' /\ ElementOf(w) <= Elements /\ Leads(w) =>
                   hist'[w] \in had'[ElementOf(w)]
    <3>1. ~Abstract!Spoils
      BY <1>1, <2>1, <2>4, ZeroStorage DEF Abstract!Spoils, state
    <3>2. Abstract!Fills \/ Abstract!Ends
      BY <1>6, <3>1, PackageStep
    <3>3. DOMAIN hist' = DOMAIN hist
      BY <3>2 DEF Abstract!Fills, Abstract!Ends
    <3>. QED
      BY <1>1, <2>4, <3>2, <3>3, FillTaken
  <2>. QED
    BY <1>2, <2>1, <2>2, <2>3, <2>4 DEF Taken
<1>7. CASE recvPart
  <2>1. PICK op, came :
          /\ toClient # <<>> /\ torn' = TRUE
          /\ toClient' = <<Package(op, 0, <<>>)>> \o Tail(toClient)
          /\ Store(Head(toClient), [k \in DOMAIN Head(toClient).data |->
                                      IF k <= came THEN Head(toClient).data[k] ELSE Zero])
    BY <1>7 DEF recvPart
  <2>. DEFINE part == [k \in DOMAIN Head(toClient).data |-> IF k <= came THEN Head(toClient).data[k] ELSE Zero]
  <2>2. Head(toClient).data \in Seq(Contents) /\ part \in Seq(Contents)
    BY <2>1, FirstPackage, Filled
  <2>3. DOMAIN Head(toClient).data = 1..Len(Head(toClient).data) /\ DOMAIN part = 1..Len(part)
    BY <2>2, LenProperties
  <2>4. \A k \in 1..Len(part) : part[k] \subseteq {n}
    BY <1>3, <1>5, <2>1, <2>3, ZeroOwn
  <2>5. \A w \in DOMAIN hist' : hist'[w] \subseteq {n}
    BY <1>3, <2>1, <2>2, <2>4, StoreTaken
  <2>6. \A i \in 1..Len(toClient') : \A k \in 1..Len(toClient'[i].data) : toClient'[i].data[k] \subseteq {n}
    <3>. SUFFICES ASSUME NEW i \in 1..Len(toClient')
                  PROVE  \A k \in 1..Len(toClient'[i].data) : toClient'[i].data[k] \subseteq {n}
      OBVIOUS
    <3>1. Tail(toClient) \in Seq(Packages) /\ Len(Tail(toClient)) \in Nat
      BY <2>1, FirstPackage, LenProperties
    <3>2. \/ toClient'[i] = Package(op, 0, <<>>)
          \/ \E j \in 1..Len(Tail(toClient)) : toClient'[i] = Tail(toClient)[j]
      BY <2>1, <3>1
    <3>3. CASE toClient'[i] = Package(op, 0, <<>>)
      <4>1. Len(toClient'[i].data) = 0
        BY <3>3 DEF Package
      <4>. QED
        BY <4>1
    <3>4. CASE \E j \in 1..Len(Tail(toClient)) : toClient'[i] = Tail(toClient)[j]
      BY <1>3, <1>5, <2>1, <3>4
    <3>. QED
      BY <3>2, <3>3, <3>4
  <2>. QED
    BY <1>2, <2>1, <2>5, <2>6 DEF Taken
<1>8. CASE recvNone
  <2>1. UNCHANGED <<toClient, torn, hist, recv_len>>
    BY <1>8, FinishTyped DEF recvNone, strain, Mishap
  <2>. QED
    BY <1>1, <1>2, <1>3, <2>1 DEF Taken
<1>. QED
  BY <1>6, <1>7, <1>8 DEF recvHIST


\* Taken does not look at anything else.
LEMMA TakenStutters ==
  ASSUME Taken, UNCHANGED <<n, lit, had, client, hist, recv_len, toClient, torn>>
  PROVE  Taken'
BY DEF Taken, Own

LEMMA ExecuteOwn ==
  ASSUME NEW order, Execute(order)
  PROVE  IF order = "CLEAR" THEN \A k \in 1..Elements : memory'[k] = Zero
                            ELSE memory' = memory
BY DEF Execute, Change

LEMMA WatchedCommands ==
  ASSUME AreaInv, Placed, Watched, psd' = psd, Clear \/ Arm \/ Stop \/ Disarm
  PROVE  Watched'
<1>. SUFFICES ASSUME psd, ~slipped'
              PROVE  /\ \A k \in 1..Elements : Own(memory[k])'
                     /\ at' \in {"start", "rock", "poll"} => armed'
                     /\ at' # "transfer"
                     /\ at' = "counted" => contr_a'
  BY DEF Watched
<1>1. n' = n /\ contr_a' = contr_a
  BY DEF Clear, Arm, Stop, Disarm, Quiet
<1>2. PICK order :
        /\ Command(order)
        /\ \/ at = "clear" /\ at' = "arm" /\ order = "CLEAR"
           \/ at = "arm" /\ at' = "start" /\ order = "START"
           \/ at = "stop" /\ at' = "counted" /\ order = "STOP"
           \/ at = "disarm" /\ at' = "fetch" /\ order = "STOP"
  BY DEF Clear, Arm, Stop, Disarm, AIM_CLEAR, AIM_ARM, AIM_DISARM, Goes
<1>3. lit' = lit /\ ~slipped /\ Execute(order)
  BY <1>2, CommandLeaves
<1>4. \A x : Own(x) => Own(x)'
  BY <1>1, <1>3 DEF Own
<1>5. CASE order = "CLEAR"
  <2>1. Own(Zero) /\ \A k \in 1..Elements : memory'[k] = Zero
    BY <1>2, <1>3, <1>5, ZeroOwn, ExecuteOwn DEF Placed
  <2>. QED
    BY <1>2, <1>4, <1>5, <2>1 DEF Own
<1>6. CASE order # "CLEAR"
  <2>1. memory' = memory /\ \A k \in 1..Elements : Own(memory[k])
    BY <1>2, <1>3, <1>6, ExecuteOwn DEF Watched, Cleared
  <2>2. order = "START" => armed'
    BY <1>3 DEF Execute
  <2>. QED
    BY <1>1, <1>2, <1>4, <1>6, <2>1, <2>2 DEF Own, Placed
<1>. QED
  BY <1>5, <1>6

LEMMA WatchedNeutron ==
  ASSUME AreaInv, Placed, Watched, psd' = psd, Neutron
  PROVE  Watched'
<1>. DEFINE m == [k \in 1..Elements |-> memory[k] \cup IF armed THEN {n} ELSE {}]
<1>1. /\ UNCHANGED <<at, n, contr_a, armed, slipped, client>>
      /\ Change(m) /\ memory' = m
  BY DEF Neutron, run, Change, transfer
<1>2. lit' => lit \/ at \in {"rock", "poll"}
  BY DEF Neutron
<1>. SUFFICES ASSUME psd, ~slipped, at \in Cleared
              PROVE  /\ \A k \in 1..Elements : Own(memory[k])'
                     /\ at = "transfer" => Taken'
                     /\ at = "counted" /\ ~contr_a => Taken'
  BY <1>1 DEF Watched, Cleared
<1>3. \A k \in 1..Elements : Own(memory[k])
  BY DEF Watched
<1>4. \A k \in 1..Elements : Own(m[k]) /\ (armed => m[k] = {n})
  BY <1>3 DEF Own
<1>5. lit' => lit \/ armed
  BY <1>2 DEF Watched
<1>6. \A k \in 1..Elements : Own(memory[k])'
  <2>. SUFFICES ASSUME NEW k \in 1..Elements
                PROVE  memory'[k] \subseteq {n'} /\ (lit' => memory'[k] = {n'})
    BY DEF Own
  <2>1. memory'[k] = m[k] /\ n' = n
    BY <1>1, Zenon
  <2>. QED
    BY <1>4, <1>5, <2>1, Zenon DEF Own
<1>7. ASSUME at \in {"transfer", "counted"}, Taken
      PROVE  Taken'
  <2>1. n' = n /\ (lit' => lit)
    BY <1>1, <1>2, <1>7
  <2>. QED
    BY <1>1, <1>4, <1>7, <2>1, ChangeTaken DEF AreaInv
<1>. QED
  BY <1>6, <1>7 DEF Watched


\* Fetch, and what comes of it.
LEMMA WatchedTransfer ==
  ASSUME AreaInv, AreaInv', Placed, Watched, psd' = psd, Fetch \/ Receiving \/ Sending \/ Hanging
  PROVE  Watched'
<1>1. UNCHANGED <<n, lit, contr_a, armed, slipped, memory>>
  <2>1. UNCHANGED <<n, lit, contr_a, armed, slipped>>
    BY DEF Fetch, Receiving, Sending, Hanging, Quiet, run, detector
  <2>2. memory' = memory
    BY DEF Fetch, Receiving, Sending, Hanging, AIM_XFER, recvHIST, recvPKG, recvPart, recvNone, sendHIST, SendBlock,
           RecvAck, NoAck, Hangs
  <2>. QED
    BY <2>1, <2>2
<1>2. \A k \in 1..Elements : Own(memory[k])' <=> Own(memory[k])
  BY <1>1 DEF Own
<1>3. CASE Fetch
  <2>1. at = "fetch" /\ at' = "transfer" /\ AIM_XFER
    BY <1>3 DEF Fetch, Goes
  <2>2. psd /\ ~slipped => Taken'
    BY <1>1, <2>1, XferTaken DEF AreaInv, Watched, Cleared
  <2>. QED
    BY <1>1, <1>2, <2>1, <2>2 DEF Watched, Cleared
<1>4. CASE Receiving
  <2>1. client = "recv" /\ at' = at /\ at = "transfer" /\ recvHIST
    BY <1>4 DEF Receiving, recvHIST, recvPKG, recvPart, recvNone, run, Placed
  <2>2. psd /\ ~slipped => Taken'
    BY <1>1, <2>1, RecvTaken DEF AreaInv, Watched
  <2>. QED
    BY <1>1, <1>2, <2>1, <2>2 DEF Watched, Cleared
<1>5. CASE Sending \/ Hanging
  <2>1. client' = client /\ at' = at /\ (sendHIST \/ Hangs)
    BY <1>5 DEF Sending, Hanging, sendHIST, SendBlock, RecvAck, NoAck, Hangs, transfer, run
  <2>2. psd /\ ~slipped /\ at \in Cleared /\ Taken => Taken'
    BY <1>1, <2>1, SendTaken DEF AreaInv, Watched
  <2>. QED
    BY <1>1, <1>2, <2>1, <2>2 DEF Watched, Cleared
<1>. QED
  BY <1>3, <1>4, <1>5

\* What does not touch the detector, nor the storage.
LEMMA WatchedProgram ==
  ASSUME Placed, Watched, psd' = psd,
         UNCHANGED vars \/ Begin \/ Count \/ Rock_Count \/ Reset_Display \/ Scaler \/ Fetched \/ Counted \/ Control_A
         \/ Pulsing
  PROVE  Watched'
<1>1. UNCHANGED <<histVars, armed>>
  BY DEF vars, Begin, Count, Rock_Count, Reset_Display, Scaler, Fetched, Counted, Control_A, Pulsing, detector
<1>2. UNCHANGED <<memory, had, client, hist, recv_len, toClient, torn>>
  BY <1>1 DEF histVars, transfer, wire, strain
<1>3. CASE Begin \/ Reset_Display \/ Counted
  <2>1. psd => at' \notin Cleared
    BY <1>3 DEF Begin, Reset_Display, Counted, Goes, Cleared
  <2>. QED
    BY <2>1 DEF Watched, Cleared
<1>4. CASE UNCHANGED vars \/ Count \/ Rock_Count \/ Scaler \/ Fetched \/ Control_A \/ Pulsing
  <2>1. UNCHANGED <<n, lit, slipped>>
    BY <1>4 DEF vars, Count, Rock_Count, Scaler, Fetched, Control_A, Pulsing, run, detector, Quiet
  <2>2. (Taken => Taken') /\ \A k \in 1..Elements : Own(memory[k])' <=> Own(memory[k])
    BY <1>2, <2>1, TakenStutters DEF Own
  <2>3. CASE UNCHANGED <<at, contr_a>> \/ Control_A
    <3>1. at' = at /\ (contr_a => contr_a')
      BY <2>3 DEF Control_A
    <3>. QED
      BY <1>1, <1>2, <2>1, <2>2, <3>1 DEF Watched
  <2>4. CASE Fetched
    <3>1. at = "transfer" /\ at' = "counted" /\ client = "over"
      BY <2>4 DEF Fetched, Goes
    <3>. QED
      BY <1>1, <1>2, <2>1, <2>2, <3>1 DEF Watched, Cleared
  <2>5. CASE Count \/ Rock_Count \/ Scaler
    <3>1. /\ at \in {"start", "rock", "poll"}
          /\ at' \in {"rock", "poll", "stop"} \/ (at' = "disarm" /\ psd) \/ (at' = "counted" /\ ~psd)
      BY <2>5 DEF Count, Rock_Count, Scaler, Goes
    <3>. QED
      BY <1>1, <1>2, <2>1, <2>2, <3>1 DEF Watched, Cleared
  <2>6. UNCHANGED <<at, contr_a>> \/ Control_A \/ Fetched \/ Count \/ Rock_Count \/ Scaler
    BY <1>4 DEF vars, run, Pulsing
  <2>. QED
    BY <2>3, <2>4, <2>5, <2>6
<1>. QED
  BY <1>3, <1>4

LEMMA WatchedSteps ==
  ASSUME AreaInv, AreaInv', Placed, Watched, [Next]_vars
  PROVE  Watched'
<1>1. psd' = psd
  BY DEF Next, vars
<1>2. CASE Late
  <2>1. slipped'
    BY <1>2 DEF Late, Placed
  <2>. QED
    BY <2>1 DEF Watched
<1>. QED
  BY <1>1, <1>2, WatchedCommands, WatchedNeutron, WatchedTransfer, WatchedProgram DEF Next, Step

LEMMA FiledSteps ==
  ASSUME AreaInv, Placed, Watched, HistogramOwn, [Next]_vars
  PROVE  HistogramOwn'
<1>1. CASE filed' = filed
  BY <1>1 DEF HistogramOwn
<1>2. CASE Counted /\ ~contr_a
  <2>1. at = "counted" /\ filed' = Point
    BY <1>2 DEF Counted, Goes
  <2>2. CASE ~psd
    BY <2>1, <2>2 DEF Point, HistogramOwn
  <2>3. CASE psd
    <3>. SUFFICES ASSUME ~slipped, NEW w \in DOMAIN hist
                  PROVE  /\ hist[w] \subseteq {n}
                         /\ client = "over" /\ retn = Elements /\ ~torn /\ lit /\ Leads(w) /\ ElementOf(w) <= Elements
                              => hist[w] = {n}
      BY <2>1, <2>3 DEF Point, HistogramOwn
    <3>1. client = "over" /\ Taken
      BY <1>2, <2>1, <2>3 DEF Watched
    <3>2. hist[w] \subseteq {n}
      BY <3>1 DEF Taken
    <3>3. ASSUME retn = Elements, ~torn, lit, Leads(w), ElementOf(w) <= Elements
          PROVE  hist[w] = {n}
      <4>1. recv_len = Elements
        BY <3>1, <3>3, BlockCount DEF Placed
      <4>2. ElementOf(w) \in 1..Elements
        BY <3>3, ZeroStorage, BlockCount, WordOf DEF AreaInv, HistInv, HistTyped
      <4>3. hist[w] \in had[ElementOf(w)]
        BY <3>1, <3>3, <4>1 DEF Taken
      <4>. QED
        BY <3>1, <3>3, <4>2, <4>3 DEF Taken, Own
    <3>. QED
      BY <3>2, <3>3
  <2>. QED
    BY <2>2, <2>3
<1>3. filed' = filed \/ (Counted /\ ~contr_a)
  BY DEF Next, Step, vars, run, Quiet, Reset_Display, Begin, Clear, Arm, Count, Rock_Count, Scaler, Stop, Disarm,
         Fetch, Receiving, Sending, Hanging, Fetched, Counted, Control_A, Late, Neutron, Pulsing
<1>. QED
  BY <1>1, <1>2, <1>3

\* The histogram filed with a point has nothing of other counts and, when it has
\* come whole, all that this count had in the words to which its elements are
\* written, however the commands, the keys, the neutrons and the transfer fall
\* together, unless a command was lost or late.
THEOREM HistogramOwnAlways == Spec => []HistogramOwn
<1>1. Init => AreaInv /\ OwnInv
  BY HistBegins, OwnBegins, AreaAssumption DEF Init, AreaInv
<1>2. AreaInv /\ OwnInv /\ [Next]_vars => AreaInv' /\ OwnInv'
  <2>1. AreaInv /\ [Next]_vars => AreaInv'
    BY AreaSteps
  <2>. QED
    BY <2>1, PlacedSteps, WatchedSteps, FiledSteps DEF OwnInv
<1>3. OwnInv => HistogramOwn
  BY DEF OwnInv
<1>. QED
  BY <1>1, <1>2, <1>3, PTL DEF Spec

-----------------------------------------------------------------------------
(***************************************************************************)
(* The types of a run, for any width of an element.                        *)
(***************************************************************************)

\* The first counter has no more to count than a register and the count at zero.
Fits(c) == c.load \in 0..Word - 1 /\ c.left \in 0..Word

\* A block that waits for its acknowledgement is one of the histogram, and a
\* transfer that goes on has found room for all it has received.
Bounded ==
  /\ HistTypeOK
  /\ toClient \in Seq(Packages)
  /\ block <= Blocks /\ (server = "await" => block < Blocks)
  /\ client = "recv" => recv_len <= size

TypeInv == CountInv /\ Fits(chip) /\ Bounded /\ n \in 0..MaxCounts

LEMMA TypeInvTyped == TypeInv => TypeOK
  BY DEF TypeInv, CountInv, CountTyped, Fits, Bounded, TypeOK
-----------------------------------------------------------------------------
(* The chip.                                                               *)

LEMMA ArmedFits ==
  ASSUME NEW c \in Chips, Fits(c), NEW mode \in Inputs, NEW register \in 0..Word - 1, NEW failed
  PROVE  Fits(Armed(c, mode, register, failed))
<1>. DEFINE d == Configured(c, mode, register, failed)
            e == Loaded(d, failed)
            out1 == e.out1 \/ "gate" \notin failed
            ready == "arm" \notin failed \/ (e.armed /\ "disarm" \in failed)
<1>1. register \in Nat /\ None \in [Pairs -> Nat]
  BY Widths DEF None
<1>2. d \in Chips /\ Fits(d)
  BY <1>1 DEF Configured, Chips, Fits
<1>3. e \in Chips /\ Fits(e)
  <2>. DEFINE l == d.load + 1
  <2>1. l \in Nat /\ l \in 0..Word
    BY <1>2, Widths DEF Fits
  <2>2. [d EXCEPT !.left = l, !.pairs = None] \in Chips /\ Fits([d EXCEPT !.left = l, !.pairs = None])
    <3>. HIDE DEF d, l
    <3>. QED
      BY <1>1, <1>2, <2>1 DEF Chips, Fits
  <2>. QED
    BY <1>2, <2>2 DEF Loaded
<1>4. Armed(c, mode, register, failed) = [e EXCEPT !.out1 = out1, !.armed = ready]
  BY DEF Armed
<1>. HIDE DEF e, out1, ready
<1>. QED
  BY <1>3, <1>4 DEF Chips, Fits

LEMMA DisarmedFits ==
  ASSUME NEW c \in Chips, Fits(c), NEW lost
  PROVE  Fits(Disarmed(c, lost))
  BY DEF Disarmed, Chips, Fits

LEMMA ResetFits == Fits(ChipReset)
  BY Widths DEF ChipReset, Fits

LEMMA StartFits ==
  ASSUME CountInv, Fits(chip), NEW num \in Nat, NEW mode \in Modes, SCALERSTART(num, mode)
  PROVE  Fits(chip')
<1>1. load' \in 0..Word - 1 /\ mode \in Inputs /\ chip \in Chips
  BY StartStep DEF CountInv, CountTyped, Inputs
<1>2. PICK failed : chip' = Armed(chip, mode, load', failed)
  BY DEF SCALERSTART
<1>. QED
  BY <1>1, <1>2, ArmedFits

LEMMA StatusFits ==
  ASSUME CountInv, Fits(chip), SCALERSTATUS
  PROVE  Fits(chip')
<1>1. PICK lost, first : chip' = chip \/ SCALERPROGRESS(lost, first)
  BY DEF SCALERSTATUS
<1>2. chip \in Chips /\ ctrmode \in Inputs /\ load' \in 0..Word - 1
  BY StatusStep DEF CountInv, CountTyped, Inputs
<1>3. Disarmed(chip, lost) \in Chips /\ Fits(Disarmed(chip, lost))
  BY <1>2, DisarmedTyped, DisarmedFits
<1>4. \/ chip' \in {chip, Disarmed(chip, lost)}
      \/ chip' = Armed(Disarmed(chip, lost), ctrmode, load', Broken(first))
  BY <1>1 DEF SCALERPROGRESS, NextPiece, LastPiece
<1>. QED
  BY <1>2, <1>3, <1>4, ArmedFits

LEMMA PulseFits ==
  ASSUME CountInv, Fits(chip), NEW i \in Inputs, Pulse(i)
  PROVE  Fits(chip')
<1>1. chip \in Chips /\ chip.left \in Nat
  BY DEF CountInv, CountTyped, Chips
<1>2. chip'.load = chip.load /\ chip'.left \in {chip.left, chip.left - 1} /\ chip'.left \in Nat
  <2>1. chip' \in Chips
    BY PulseStep DEF CountInv, CountTyped
  <2>2. CASE CountDown(i)
    BY <1>1, <2>1, <2>2 DEF CountDown, Chips
  <2>3. CASE CountUp(i)
    BY <1>1, <2>1, <2>3 DEF CountUp, Chips
  <2>. QED
    BY <2>2, <2>3 DEF Pulse
<1>. QED
  BY <1>1, <1>2, Widths DEF Fits

LEMMA FitsSteps ==
  ASSUME CountInv, Fits(chip), [Next]_vars
  PROVE  Fits(chip')
<1>1. CASE UNCHANGED scalerVars
  BY <1>1 DEF scalerVars
<1>2. CASE Reset_Display
  BY <1>2, ResetFits DEF Reset_Display, SCALERRESET
<1>3. CASE Count
  <2>1. PICK p \in Presets \cup AreaPresets : SCALERSTART(p[1], p[2])
    BY <1>3 DEF Count
  <2>2. p[1] \in Nat /\ p[2] \in Modes
    BY CountingAssumption, AreaAssumption DEF Modes
  <2>. QED
    BY <2>1, <2>2, StartFits
<1>4. CASE Rock_Count \/ Scaler
  BY <1>1, <1>4, StatusFits DEF Rock_Count, Scaler
<1>5. CASE Pulsing
  BY <1>5, PulseFits DEF Pulsing
<1>. QED
  BY <1>1, <1>2, <1>3, <1>4, <1>5
     DEF Next, Step, vars, Begin, Clear, Arm, Stop, Disarm, Fetch, Receiving, Sending, Hanging, Fetched, Counted,
         Control_A, Late, Neutron
-----------------------------------------------------------------------------
(* The transfer.                                                           *)

LEMMA RoomFacts ==
  ASSUME Bounded
  PROVE  /\ hist \in Seq(Contents) /\ size \in Nat /\ size \in Sizes /\ DOMAIN hist = 1..size
         /\ recv_len \in 0..size + 1 /\ retn \in -1..size /\ Blocks \in Nat /\ block \in 0..Blocks
         /\ past \in 0 .. LongWords * (size + 1) - size
  BY ZeroStorage, BlockCount DEF Bounded, HistTypeOK, size

LEMMA BlocksConstant == Blocks' = Blocks
  BY DEF Blocks, nfullblks, nlastblk

\* There is something behind the storage as far as one long behind as many as it
\* has words.
LEMMA RoomBehind ==
  ASSUME NEW room \in Nat
  PROVE  LongWords * (room + 1) - room \in Nat
<1>1. LongWords \in Nat /\ 1 <= LongWords
  BY TransferAssumption
<1>2. 1 * (room + 1) <= LongWords * (room + 1) /\ LongWords * (room + 1) \in Nat
  BY <1>1, ProductGrows, Product
<1>. QED
  BY <1>2

LEMMA OverrunBehind ==
  ASSUME size \in Nat, past \in 0 .. LongWords * (size + 1) - size, NEW length \in 0..size + 1
  PROVE  Overrun(length) \in 0 .. LongWords * (size + 1) - size
<1>1. LongWords \in Nat
  BY TransferAssumption
<1>2. length * LongWords <= (size + 1) * LongWords /\ length * LongWords \in Nat /\ (size + 1) * LongWords \in Nat
  BY <1>1, ProductGrows, Product
<1>3. LongWords * length = length * LongWords /\ LongWords * (size + 1) = (size + 1) * LongWords
  BY <1>1
<1>4. LongWords * length - size <= LongWords * (size + 1) - size /\ LongWords * length - size \in Int
  BY <1>2, <1>3
<1>. QED
  BY <1>4 DEF Overrun

LEMMA BoundedBegins == HistInit => Bounded
<1>. SUFFICES ASSUME HistInit
              PROVE  Bounded
  OBVIOUS
<1>1. PICK room \in Sizes : hist = [k \in 1..room |-> Zero]
  BY DEF HistInit
<1>2. hist \in Seq(Contents) /\ size = room /\ room \in Nat
  <2>1. hist \in [1..room -> Contents] /\ room \in Nat
    BY <1>1, TransferAssumption
  <2>. QED
    BY <2>1, SeqOfFunction DEF size
<1>3. /\ memory \in [1..Elements -> Contents] /\ had \in [1..Elements -> SUBSET Contents]
      /\ server = "idle" /\ block = 0 /\ client = "idle" /\ recv_len = 0 /\ opcode \in Ops /\ retn = 0
      /\ mishaps = 0 /\ past = 0
  BY TransferAssumption DEF HistInit, Ops
<1>4. reset \in BOOLEAN /\ torn \in BOOLEAN /\ shaken \in BOOLEAN
  BY Zenon DEF HistInit
<1>5. toClient \in Seq(Packages)
  BY EmptySeq DEF HistInit
<1>6. Blocks \in Nat /\ MaxMishaps \in Nat
  BY BlockCount, TransferAssumption
<1>7. past \in 0 .. LongWords * (size + 1) - size
  BY <1>2, <1>3, RoomBehind
<1>. QED
  BY <1>1, <1>2, <1>3, <1>4, <1>5, <1>6, <1>7 DEF Bounded, HistTypeOK

LEMMA BoundedStutters ==
  ASSUME Bounded, UNCHANGED histVars
  PROVE  Bounded'
  BY BlocksConstant DEF histVars, transfer, sending, wire, strain, Bounded, HistTypeOK, size

LEMMA ChangeBounded ==
  ASSUME Bounded, NEW m \in [1..Elements -> Contents], Change(m)
  PROVE  Bounded'
<1>1. had' \in [1..Elements -> SUBSET Contents] /\ memory' \in [1..Elements -> Contents]
  BY DEF Change, Bounded, HistTypeOK
<1>2. UNCHANGED <<sending, transfer, wire, reset, strain>>
  BY DEF Change
<1>. QED
  BY <1>1, <1>2, BlocksConstant DEF transfer, sending, wire, strain, Bounded, HistTypeOK, size

LEMMA MishapBounded ==
  ASSUME mishaps \in 0..MaxMishaps, torn \in BOOLEAN, Mishap
  PROVE  torn' \in BOOLEAN /\ shaken' \in BOOLEAN /\ mishaps' \in 0..MaxMishaps
<1>1. shaken' \in BOOLEAN /\ torn' \in BOOLEAN
  BY Zenon DEF Mishap
<1>. QED
  BY <1>1, TransferAssumption DEF Mishap

LEMMA StrainBounded ==
  ASSUME Bounded, UNCHANGED strain \/ Mishap
  PROVE  torn' \in BOOLEAN /\ shaken' \in BOOLEAN /\ mishaps' \in 0..MaxMishaps
  BY MishapBounded DEF Bounded, HistTypeOK, strain

LEMMA SendBounded ==
  ASSUME Bounded, sendHIST \/ Hangs
  PROVE  Bounded'
<1>1. UNCHANGED <<memory, had, transfer, reset>>
  BY DEF sendHIST, Hangs, SendBlock, RecvAck, NoAck
<1>2. torn' \in BOOLEAN /\ shaken' \in BOOLEAN /\ mishaps' \in 0..MaxMishaps
  BY StrainBounded DEF sendHIST, Hangs, SendBlock, RecvAck, NoAck
<1>3. block \in 0..Blocks /\ Blocks \in Nat /\ memory \in [1..Elements -> Contents] /\ toClient \in Seq(Packages)
  BY RoomFacts DEF Bounded, HistTypeOK
<1>4. /\ server' \in {"send", "await", "gone", "stuck"} /\ block' \in 0..Blocks
      /\ server' = "await" => block' < Blocks
  <2>1. CASE SendBlock
    BY <1>3, <2>1 DEF SendBlock
  <2>2. CASE RecvAck
    BY <1>3, <2>2 DEF RecvAck, Bounded
  <2>3. CASE NoAck \/ Hangs
    BY <1>3, <2>3 DEF NoAck, Hangs
  <2>. QED
    BY <2>1, <2>2, <2>3 DEF sendHIST
<1>5. toClient' \in Seq(Packages)
  <2>1. CASE SendBlock
    <3>1. PICK p : /\ p = IF block = Blocks THEN ACK(nfullblks) ELSE Package("DAT", block, idata(block))
                   /\ toClient' = Append(toClient, p)
      BY <2>1 DEF SendBlock
    <3>2. CASE block = Blocks
      <4>1. <<>> \in Seq(Contents) /\ nfullblks \in Int
        BY EmptySeq, BlockCount
      <4>. QED
        BY <1>3, <3>1, <3>2, <4>1 DEF ACK, Package, Packages, Ops
    <3>3. CASE block # Blocks
      <4>1. idata(block) \in Seq(Contents) /\ block \in Int
        BY <1>3, <3>3, BlockData
      <4>. QED
        BY <1>3, <3>1, <3>3, <4>1 DEF Package, Packages, Ops
    <3>. QED
      BY <3>2, <3>3
  <2>2. CASE RecvAck \/ NoAck \/ Hangs
    BY <1>3, <2>2 DEF RecvAck, NoAck, Hangs, wire
  <2>. QED
    BY <2>1, <2>2 DEF sendHIST
<1>6. UNCHANGED <<memory, had, client, hist, past, recv_len, opcode, retn, reset>> /\ size' = size
  BY <1>1 DEF transfer, size
<1>7. block' \in 0..Blocks' + 1 /\ block' <= Blocks'
  BY <1>3, <1>4, BlocksConstant
<1>. QED
  BY <1>2, <1>4, <1>5, <1>6, <1>7, BlocksConstant DEF Bounded, HistTypeOK

LEMMA XferBounded ==
  ASSUME Bounded, AIM_XFER
  PROVE  Bounded'
<1>1. /\ hist' = [k \in DOMAIN hist |-> Zero] /\ recv_len' = 0 /\ opcode' \in Ops
      /\ toClient' = <<>> /\ memory' = memory /\ had' = [k \in 1..Elements |-> {memory[k]}]
      /\ \/ client' = "recv" /\ server' = "send" /\ block' = 0 /\ retn' = retn
         \/ client' = "over" /\ server' = server /\ block' = block /\ retn' = -1
  BY DEF AIM_XFER, Ops
<1>2. reset' \in BOOLEAN /\ torn' \in BOOLEAN /\ shaken' \in BOOLEAN
  BY Zenon DEF AIM_XFER
<1>3. mishaps' \in 0..MaxMishaps
  BY TransferAssumption DEF AIM_XFER, Bounded, HistTypeOK
<1>4. /\ hist' \in Seq(Contents) /\ size' = size /\ size \in Nat /\ size \in Sizes
      /\ past' = past /\ past \in 0 .. LongWords * (size + 1) - size
  <2>1. past' = past
    BY DEF AIM_XFER
  <2>. QED
    BY <1>1, <2>1, RoomFacts, ZeroStorage DEF size
<1>5. memory' \in [1..Elements -> Contents] /\ had' \in [1..Elements -> SUBSET Contents]
  BY <1>1 DEF Bounded, HistTypeOK
<1>6. toClient' \in Seq(Packages)
  BY <1>1, EmptySeq
<1>7. /\ server' \in {"idle", "send", "await", "gone", "stuck"} /\ block' \in 0..Blocks + 1 /\ block' <= Blocks
      /\ server' = "await" => block' < Blocks
  BY <1>1, RoomFacts DEF Bounded, HistTypeOK
<1>8. recv_len' \in 0..size' + 1 /\ recv_len' <= size' /\ retn' \in -1..size' /\ client' \in {"recv", "over"}
  BY <1>1, <1>4, RoomFacts
<1>. QED
  BY <1>1, <1>2, <1>3, <1>4, <1>5, <1>6, <1>7, <1>8, BlocksConstant DEF Bounded, HistTypeOK

LEMMA SendsTyped ==
  ASSUME NEW package, NEW next \in {"recv", "over"}, sendPKG(package, next), reset \in BOOLEAN
  PROVE  client' \in {next, "dead"} /\ reset' \in BOOLEAN
<1>1. reset' \in BOOLEAN
  BY Zenon DEF sendPKG
<1>. QED
  BY <1>1, SendsPackage

\* What the program has, after a package.
Received ==
  /\ hist' \in Seq(Contents) /\ size' = size /\ past' \in 0 .. LongWords * (size + 1) - size
  /\ recv_len' \in 0..size + 1 /\ (client' = "recv" => recv_len' <= size)
  /\ retn' \in -1..size
  /\ client' \in {"recv", "over", "dead"} /\ reset' \in BOOLEAN

LEMMA StoreReceived ==
  ASSUME Bounded, client = "recv", NEW package, NEW data \in Seq(Contents), Store(package, data)
  PROVE  Received
<1>1. /\ recv_len \in Nat /\ recv_len <= size /\ hist \in Seq(Contents) /\ size \in Nat /\ retn \in -1..size
      /\ past \in 0 .. LongWords * (size + 1) - size
  BY RoomFacts DEF Bounded
<1>2. hist' \in Seq(Contents) /\ size' = size
  BY <1>1, Storage DEF Store, size
<1>3. Len(data) \in Nat /\ reset \in BOOLEAN
  BY LenProperties DEF Bounded, HistTypeOK
<1>4. CASE recv_len + Len(data) > size
  <2>1. recv_len' = size + 1 /\ retn' = -1 /\ sendPKG(ERR, "over")
    BY <1>4 DEF Store, Over
  <2>2. client' \in {"over", "dead"} /\ reset' \in BOOLEAN
    BY <1>3, <2>1, SendsTyped
  <2>3. past' \in 0 .. LongWords * (size + 1) - size
    BY <1>1, <2>1, OverrunBehind DEF Store
  <2>. QED
    BY <1>1, <1>2, <2>1, <2>2, <2>3 DEF Received
<1>5. CASE ~(recv_len + Len(data) > size)
  <2>1. recv_len' = recv_len + Len(data) /\ retn' = retn /\ sendPKG(ACK(package.prm), "recv")
    BY <1>5 DEF Store
  <2>2. client' \in {"recv", "dead"} /\ reset' \in BOOLEAN
    BY <1>3, <2>1, SendsTyped
  <2>3. recv_len' \in 0..size
    BY <1>1, <1>3, <1>5, <2>1
  <2>4. past' \in 0 .. LongWords * (size + 1) - size
    <3>1. recv_len' \in 0..size + 1
      BY <1>1, <2>3
    <3>. QED
      BY <1>1, <3>1, OverrunBehind DEF Store
  <2>. QED
    BY <1>1, <1>2, <2>1, <2>2, <2>3, <2>4 DEF Received
<1>. QED
  BY <1>4, <1>5

LEMMA FinishReceived ==
  ASSUME Bounded, client = "recv", NEW op, Finish(op)
  PROVE  Received
<1>1. recv_len \in 0..size /\ hist \in Seq(Contents) /\ size \in Nat /\ reset \in BOOLEAN
  BY RoomFacts DEF Bounded, HistTypeOK
<1>2. /\ UNCHANGED <<hist, recv_len>> /\ client' \in {"over", "dead"} /\ retn' \in {recv_len, -1}
      /\ past' = past /\ past \in 0 .. LongWords * (size + 1) - size
  BY RoomFacts, FinishTyped DEF Finish
<1>3. reset' \in BOOLEAN
  <2>1. CASE op = "ACK"
    BY <1>1, <2>1 DEF Finish
  <2>2. CASE op # "ACK"
    <3>1. sendPKG(ERR, "over")
      BY <2>2 DEF Finish
    <3>. QED
      BY <1>1, <3>1, SendsTyped
  <2>. QED
    BY <2>1, <2>2
<1>. QED
  BY <1>1, <1>2, <1>3 DEF Received, size

LEMMA RecvBounded ==
  ASSUME Bounded, recvHIST
  PROVE  Bounded'
<1>1. client = "recv" /\ UNCHANGED <<memory, sending, had>>
  BY DEF recvHIST, recvPKG, recvPart, recvNone
<1>2. toClient \in Seq(Packages) /\ opcode \in Ops
  BY DEF Bounded, HistTypeOK
<1>3. ASSUME toClient # <<>>
      PROVE  /\ Head(toClient).data \in Seq(Contents) /\ Head(toClient).op \in Ops
             /\ Tail(toClient) \in Seq(Packages)
  <2>1. Head(toClient) \in Packages /\ Tail(toClient) \in Seq(Packages)
    BY <1>2, <1>3, HeadTailProperties
  <2>. QED
    BY <2>1 DEF Packages
<1>4. /\ Received
      /\ toClient' \in Seq(Packages) /\ opcode' \in Ops
      /\ torn' \in BOOLEAN /\ shaken' \in BOOLEAN /\ mishaps' \in 0..MaxMishaps
  <2>1. CASE recvPKG
    <3>1. toClient # <<>> /\ toClient' = Tail(toClient) /\ opcode' = Head(toClient).op /\ UNCHANGED strain
      BY <2>1 DEF recvPKG
    <3>2. Store(Head(toClient), Head(toClient).data) \/ Finish(Head(toClient).op)
      BY <2>1 DEF recvPKG
    <3>. QED
      BY <1>1, <1>3, <3>1, <3>2, StoreReceived, FinishReceived, StrainBounded
  <2>2. CASE recvPart
    <3>1. PICK num \in 0 .. Len(Head(toClient).data) - 1, op \in Ops :
            /\ toClient' = <<Package(op, 0, <<>>)>> \o Tail(toClient)
            /\ opcode' = Head(toClient).op
            /\ Store(Head(toClient),
                     [k \in DOMAIN Head(toClient).data |-> IF k <= num THEN Head(toClient).data[k] ELSE Zero])
      BY <2>2 DEF recvPart
    <3>. DEFINE data == [k \in DOMAIN Head(toClient).data |-> IF k <= num THEN Head(toClient).data[k] ELSE Zero]
    <3>2. toClient # <<>>
      BY <2>2 DEF recvPart
    <3>3. data \in Seq(Contents)
      <4>. DEFINE d == Head(toClient).data
      <4>1. d \in Seq(Contents)
        BY <1>3, <3>2
      <4>2. Len(d) \in Nat /\ DOMAIN d = 1..Len(d) /\ \A k \in 1..Len(d) : d[k] \in Contents
        <5>. HIDE DEF d
        <5>. QED
          BY <4>1, LenProperties
      <4>3. data \in [1..Len(d) -> Contents]
        BY <4>2, TransferAssumption
      <4>. QED
        BY <4>2, <4>3, SeqOfFunction
    <3>4. Received
      BY <1>1, <3>1, <3>3, StoreReceived
    <3>5. toClient' \in Seq(Packages)
      <4>1. <<>> \in Seq(Contents)
        BY EmptySeq
      <4>2. Package(op, 0, <<>>) \in Packages
        BY <3>1, <4>1 DEF Package, Packages
      <4>. QED
        BY <1>3, <3>1, <3>2, <4>2
    <3>6. torn' \in BOOLEAN /\ shaken' \in BOOLEAN
      BY <2>2 DEF recvPart, Bounded, HistTypeOK
    <3>7. mishaps' \in 0..MaxMishaps
      BY <2>2, TransferAssumption DEF recvPart, Bounded, HistTypeOK
    <3>. QED
      BY <1>3, <3>1, <3>2, <3>4, <3>5, <3>6, <3>7
  <2>3. CASE recvNone
    <3>1. /\ \E op : Finish(op)
          /\ opcode' \in {opcode, "NOP"} /\ toClient' = toClient
          /\ UNCHANGED strain \/ Mishap
      BY <2>3 DEF recvNone
    <3>. QED
      BY <1>1, <1>2, <3>1, FinishReceived, StrainBounded DEF Ops
  <2>. QED
    BY <2>1, <2>2, <2>3 DEF recvHIST
<1>5. /\ size' \in Sizes /\ size' \in Nat /\ size' = size /\ Len(hist)' = size'
  BY <1>4, RoomFacts DEF Received, size
<1>6. UNCHANGED <<server, block>>
  BY <1>1 DEF sending
<1>. QED
  BY <1>1, <1>4, <1>5, <1>6, BlocksConstant DEF Bounded, HistTypeOK, Received
-----------------------------------------------------------------------------
(* All steps of a run.                                                     *)

LEMMA ExecuteBounded ==
  ASSUME Bounded, NEW order, Execute(order)
  PROVE  Bounded'
<1>. DEFINE m == IF order = "CLEAR" THEN [k \in 1..Elements |-> Zero] ELSE memory
<1>1. m \in [1..Elements -> Contents] /\ Change(m)
  BY TransferAssumption DEF Execute, Bounded, HistTypeOK
<1>. QED
  BY <1>1, ChangeBounded

LEMMA CommandBounded ==
  ASSUME Bounded, NEW order, Command(order)
  PROVE  Bounded'
<1>1. CASE Execute(order)
  BY <1>1, ExecuteBounded
<1>2. CASE /\ mishaps < MaxMishaps /\ mishaps' = mishaps + 1
           /\ UNCHANGED <<memory, sending, transfer, wire, reset, torn, shaken, had>>
  <2>1. mishaps' \in 0..MaxMishaps
    BY <1>2, TransferAssumption DEF Bounded, HistTypeOK
  <2>. QED
    BY <1>2, <2>1, BlocksConstant DEF transfer, sending, wire, Bounded, HistTypeOK, size
<1>3. CASE UNCHANGED histVars
  BY <1>3, BoundedStutters
<1>. QED
  BY <1>1, <1>2, <1>3 DEF Command

LEMMA NeutronBounded ==
  ASSUME Bounded, n \in 0..MaxCounts, Neutron
  PROVE  Bounded'
<1>. DEFINE m == [k \in 1..Elements |-> memory[k] \cup IF armed THEN {n} ELSE {}]
<1>1. n \in 1..MaxCounts
  BY AreaAssumption DEF Neutron
<1>2. m \in [1..Elements -> Contents]
  BY <1>1, AreaAssumption DEF Bounded, HistTypeOK
<1>3. Change(m)
  BY DEF Neutron
<1>. QED
  BY <1>2, <1>3, ChangeBounded

LEMMA BoundedSteps ==
  ASSUME Bounded, n \in 0..MaxCounts, [Next]_vars
  PROVE  Bounded' /\ n' \in 0..MaxCounts
<1>1. n' \in 0..MaxCounts
  BY AreaAssumption DEF Next, vars, run, Step, Quiet, Reset_Display, Begin, Clear, Arm, Count, Rock_Count,
     Scaler, Stop, Disarm, Fetch, Receiving, Sending, Hanging, Fetched, Counted, Control_A, Late, Neutron,
     Pulsing
<1>2. SUFFICES Bounded'
  BY <1>1
<1>3. CASE UNCHANGED histVars
  BY <1>3, BoundedStutters
<1>4. CASE Clear \/ Arm \/ Stop \/ Disarm
  BY <1>4, CommandBounded DEF Clear, Arm, Stop, Disarm, AIM_CLEAR, AIM_ARM, AIM_DISARM
<1>5. CASE Late
  BY <1>5, ExecuteBounded DEF Late
<1>6. CASE Neutron
  BY <1>6, NeutronBounded
<1>7. CASE Fetch
  BY <1>7, XferBounded DEF Fetch
<1>8. CASE Receiving
  BY <1>8, RecvBounded DEF Receiving
<1>9. CASE Sending \/ Hanging
  BY <1>9, SendBounded DEF Sending, Hanging
<1>. QED
  BY <1>3, <1>4, <1>5, <1>6, <1>7, <1>8, <1>9
     DEF Next, Step, vars, Reset_Display, Begin, Count, Rock_Count, Scaler, Fetched, Counted, Control_A, Pulsing

\* A run keeps its types: the registers of the chip stay within their width, a
\* block that is waited for is one of the histogram, and recvHIST, which looks
\* after it has stored, writes no further behind the storage than one element
\* more than the storage has words.
THEOREM AreaTyped == Spec => []TypeOK
<1>1. Init => TypeInv
  BY CountBegins, ResetFits, BoundedBegins, AreaAssumption DEF Init, SCALERINIT, TypeInv
<1>2. TypeInv /\ [Next]_vars => TypeInv'
  BY ScalerSteps, FitsSteps, BoundedSteps DEF TypeInv
<1>. QED
  BY <1>1, <1>2, TypeInvTyped, PTL DEF Spec

=============================================================================
