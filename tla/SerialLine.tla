----------------------------- MODULE SerialLine -----------------------------
(***************************************************************************)
(* An instrument on a serial line.  What it sends is on its way for a      *)
(* while, then waits in the input of the line until somebody reads it.  An *)
(* exchange writes a question and reads the answer; nothing in an answer   *)
(* says which question it is for.  Reading gives up when no character      *)
(* comes within SERIALTIMEOUT, or when the operator gives a control A.     *)
(*                                                                         *)
(* A piece is what an instrument sends up to a terminator.  Every question *)
(* that is to be answered has a number, and every piece the number of its  *)
(* question.                                                               *)
(***************************************************************************)
EXTENDS Integers, Sequences

CONSTANTS
  Routines,     \* the routines that use the line
  Says,         \* what an answer may say; one that is garbled says "garbled"
  MaxFaults     \* how often a question or an answer may be lost, garbled or late

Flushes == {"before", "after", "never"}

ASSUME LineAssumption == MaxFaults \in Nat /\ "garbled" \notin Says

ASSUME RoutinesAssumption ==
  \A t \in Routines : /\ t.flush \in Flushes
                     /\ Len(t.until) \in Nat \ {0} /\ t.keep \in Nat
                     /\ t.purges \in BOOLEAN
                     /\ t.sends \in Seq([ends : STRING, text : BOOLEAN])

VARIABLES
  phase,     \* of the exchange
  talker,    \* the routine
  reads,     \* whether it reads an answer
  asked,     \* how many questions have been written that are to be answered
  stage,     \* the part of the answer being read
  took,      \* the texts read for the caller
  outcome,   \* of the last exchange
  heard,     \* the questions that reached the instrument
  transit,   \* the pieces on their way
  input,     \* the pieces that have come and nobody has read
  calm,      \* nothing of earlier exchanges could come any more
  missed,    \* how many exchanges have ended without their answer
  late,      \* ... that was still to come
  faults     \* how many questions and answers were lost, garbled or late

host == <<phase, talker, reads, stage, took, outcome>>
line == <<heard, transit, input>>
ghosts == <<calm, missed, late, faults>>
lineVars == <<host, asked, line, ghosts>>

Phases == {"idle", "flush", "write", "discard", "read", "purge", "done"}

LineInit ==
  /\ phase = "idle" /\ talker \in Routines /\ reads = TRUE
  /\ asked = 0 /\ stage = 1 /\ took = {} /\ outcome = "none"
  /\ heard = {} /\ transit = <<>> /\ input = <<>>
  /\ calm = TRUE /\ missed = 0 /\ late = 0 /\ faults = 0
-----------------------------------------------------------------------------
(* An exchange.                                                            *)

Begin(t, r) ==
  /\ phase \in {"idle", "done"}
  /\ talker' = t /\ reads' = r
  /\ phase' = IF t.flush = "before" THEN "flush" ELSE "write"
  /\ stage' = 1 /\ took' = {} /\ outcome' = "none"
  /\ calm' = (transit = <<>> /\ (t.flush = "before" \/ input = <<>>))
  /\ UNCHANGED <<asked, line, missed, late, faults>>

serialFlush == input' = <<>>

\* Mutant: nothing is discarded before a question is written.
FlushNothing ==
  /\ phase = "flush"
  /\ phase' = "write"
  /\ UNCHANGED <<talker, reads, stage, took, outcome, asked, line, ghosts>>

Flush ==
  /\ phase = "flush"
  /\ serialFlush
  /\ phase' = "write"
  /\ UNCHANGED <<talker, reads, stage, took, outcome, asked, heard, transit, ghosts>>

\* What an instrument sends as its answer to question n.
Answer(t, n, says) ==
  [i \in DOMAIN t.sends |->
     [to |-> n, ends |-> t.sends[i].ends, text |-> t.sends[i].text, says |-> says]]

AllButLast(seq) == SubSeq(seq, 1, Len(seq) - 1)

\* A question or its answer may be lost, or the last part of the answer.
Fault(says) ==
  /\ faults < MaxFaults
  /\ faults' = faults + 1
  /\ \/ UNCHANGED <<heard, transit>>
     \/ /\ reads
        /\ heard' = heard \cup {asked + 1}
        /\ transit' \in {transit, transit \o AllButLast(Answer(talker, asked + 1, says)),
                         transit \o Answer(talker, asked + 1, "garbled")}

\* Mutant: the question goes out without a look at what is in the input.
WriteAnswered(says) ==
  /\ phase = "write"
  /\ asked' = asked + 1
  /\ phase' = IF reads THEN "read" ELSE "done"
  /\ outcome' = IF reads THEN "none" ELSE "sent"
  /\ heard' = heard \cup {asked + 1}
  /\ transit' = transit \o Answer(talker, asked + 1, says)
  /\ UNCHANGED <<talker, reads, stage, took, input, calm, missed, late, faults>>

Write(says) ==
  /\ phase = "write"
  /\ asked' = asked + IF reads THEN 1 ELSE 0
  /\ phase' = CASE talker.flush = "after" -> "discard"
                [] talker.flush # "after" /\ reads -> "read"
                [] OTHER -> "done"
  /\ outcome' = IF reads THEN "none" ELSE "sent"
  /\ \/ /\ heard' = heard \cup IF reads THEN {asked + 1} ELSE {}
        /\ transit' = transit \o IF reads THEN Answer(talker, asked + 1, says) ELSE <<>>
        /\ UNCHANGED faults
     \/ Fault(says)
  /\ UNCHANGED <<talker, reads, stage, took, input, calm, missed, late>>

Discard ==
  /\ phase = "discard"
  /\ serialFlush
  /\ phase' = IF reads THEN "read" ELSE "done"
  /\ UNCHANGED <<talker, reads, stage, took, outcome, asked, heard, transit, ghosts>>

\* The answer is complete when its last part has been read.  Bare terminators
\* left of an earlier answer are stripped, or are blanks to the caller.
terminated_read ==
  /\ phase = "read" /\ input # <<>>
  /\ LET piece == Head(input)
     IN /\ input' = Tail(input)
        /\ took' = IF stage = talker.keep /\ piece.text THEN took \cup {piece} ELSE took
        /\ IF piece.ends \in talker.until[stage]
           THEN stage' = stage + 1
           ELSE UNCHANGED stage
        /\ IF stage' > Len(talker.until)
           THEN phase' = "done" /\ outcome' = "answer"
           ELSE UNCHANGED <<phase, outcome>>
  /\ UNCHANGED <<talker, reads, asked, heard, transit, ghosts>>

\* Mutant: the reading waits for as long as it takes.
GiveUpNever == FALSE /\ UNCHANGED lineVars

\* Mutant: a timeout is reported as a kind of its own.
GiveUpRaw ==
  /\ phase = "read" /\ input = <<>> /\ transit = <<>>
  /\ phase' = "done" /\ outcome' = "timeout"
  /\ UNCHANGED <<talker, reads, stage, took, asked, line, ghosts>>

\* Nothing comes in time, or a control A ends the wait.  A part that is
\* optional is done without.
GiveUp ==
  /\ phase = "read" /\ input = <<>>
  /\ transit # <<>> => faults < MaxFaults
  /\ late' = late + IF transit # <<>> THEN 1 ELSE 0
  /\ faults' = faults + IF transit # <<>> THEN 1 ELSE 0
  /\ IF stage \in talker.optional
     THEN /\ phase' = "done" /\ outcome' = "answer"
          /\ UNCHANGED missed
     ELSE /\ phase' = IF talker.purges THEN "purge" ELSE "done"
          /\ outcome' = "lost"
          /\ missed' = missed + 1
  /\ UNCHANGED <<talker, reads, stage, took, asked, line, calm>>

Purge ==
  /\ phase = "purge"
  /\ serialFlush
  /\ phase' = "done"
  /\ UNCHANGED <<talker, reads, stage, took, outcome, asked, heard, transit, ghosts>>

Exchange(says) == Flush \/ Write(says) \/ Discard \/ terminated_read \/ GiveUp \/ Purge

Arrive ==
  /\ transit # <<>>
  /\ input' = Append(input, Head(transit))
  /\ transit' = Tail(transit)
  /\ UNCHANGED <<host, asked, heard, ghosts>>

Return ==
  /\ phase = "done"
  /\ phase' = "idle"
  /\ UNCHANGED <<talker, reads, stage, took, outcome, asked, line, ghosts>>

LineNext ==
  \/ \E t \in Routines, r \in BOOLEAN : Begin(t, r)
  \/ \E says \in Says : Exchange(says)
  \/ Arrive
  \/ Return

LineSpec == LineInit /\ [][LineNext]_lineVars
-----------------------------------------------------------------------------
Piece == [to : Nat, ends : STRING, text : BOOLEAN, says : Says \cup {"garbled"}]

LineTypeOK ==
  /\ phase \in Phases /\ talker \in Routines /\ reads \in BOOLEAN
  /\ outcome \in {"none", "sent", "answer", "lost"}
  /\ asked \in Nat /\ stage \in Nat
  /\ took \subseteq Piece
  /\ heard \subseteq Nat /\ transit \in Seq(Piece) /\ input \in Seq(Piece)
  /\ calm \in BOOLEAN /\ missed \in Nat /\ late \in Nat /\ faults \in Nat

\* Nothing numbers the answers; a caller that begins when all has been quiet
\* gets the answer to its own question and nothing of any other, whatever of it
\* is lost, and whichever routine it calls.
InStep == calm /\ outcome = "answer" => \A piece \in took : piece.to = asked

\* A routine that never flushes stays behind once an answer came too late; but
\* it is never further behind than the number of answers missed, so that what
\* is wrong with an answer was to be seen before.
Behind ==
  talker.flush = "never" /\ outcome = "answer" =>
    \A piece \in took : asked - piece.to <= missed
=============================================================================
