---------------------------- MODULE CommandQueue ----------------------------
(***************************************************************************)
(* What a command sequence promises, whether it is kept in the last record *)
(* of IBUFFER.BUF (RS) or in a file (RSF): the commands are begun in their *)
(* order and each of them at most once.  A crash may cost the command that *)
(* was about to begin and no other; the operator may change what is still  *)
(* to do.  Every command given is a different one, however it is spelt.    *)
(*                                                                         *)
(* The sequence is shared with an editor and nothing locks it, so a change *)
(* may be overwritten by somebody who has not seen it; after that, the     *)
(* promise is off.                                                         *)
(***************************************************************************)
EXTENDS Naturals, Sequences

CONSTANT Command

VARIABLES
  todo,         \* the commands not begun yet
  begun,        \* the commands begun
  edits,        \* how often the operator changed todo
  overwritten,  \* how often a change was overwritten unseen
  crashes       \* how often the program died

vars == <<todo, begun, edits, overwritten, crashes>>

Distinct(seq) == \A i, j \in 1..Len(seq) : i # j => seq[i] # seq[j]

TypeOK ==
  /\ todo \in Seq(Command) /\ begun \in Seq(Command)
  /\ edits \in Nat /\ overwritten \in Nat /\ crashes \in Nat

Begin ==
  /\ todo # <<>>
  /\ todo' = Tail(todo)
  /\ begun' = Append(begun, Head(todo))
  /\ UNCHANGED <<edits, overwritten, crashes>>

Crash ==
  /\ crashes' = crashes + 1
  /\ todo' = todo \/ (todo # <<>> /\ todo' = Tail(todo))
  /\ UNCHANGED <<begun, edits, overwritten>>

\* The operator appends, removes, moves or drops commands, or gives new ones;
\* none of them comes back.
Edit ==
  /\ edits' = edits + 1
  /\ todo' \in Seq(Command)
  /\ overwritten = 0 => Distinct(begun \o todo')
  /\ UNCHANGED <<begun, overwritten, crashes>>

Overwrite ==
  /\ overwritten' = overwritten + 1
  /\ edits' \in {edits, edits + 1}
  /\ todo' \in Seq(Command)
  /\ UNCHANGED <<begun, crashes>>

Init ==
  /\ todo \in Seq(Command) /\ Distinct(todo)
  /\ begun = <<>>
  /\ edits = 0 /\ overwritten = 0 /\ crashes = 0

Next == Begin \/ Crash \/ Edit \/ Overwrite

Spec == Init /\ [][Next]_vars
-----------------------------------------------------------------------------
\* No command is begun twice, nor begun while it is still to be done.
AtMostOnce == overwritten = 0 => Distinct(begun \o todo)
=============================================================================
