------------------------------ MODULE Sequence ------------------------------
(***************************************************************************)
(* The command sequence in the last record of IBUFFER.BUF: RS= (Parse_RS)  *)
(* appends to it, RS (Do_Sequence) takes its commands one by one, and the  *)
(* sequence editor of the Tcl program prepare changes it from outside,     *)
(* whether or not a sequence is running.  Every read and every write of    *)
(* the record is a step, and nothing is locked between them.               *)
(*                                                                         *)
(* The record has 320 characters, and a # closes the sequence in it.  RS=  *)
(* asks for room before it appends; the editor does not, and its write     *)
(* cuts off what is too long, the # first.  RS and RS= look for the #, so  *)
(* a record without one is empty to them.                                  *)
(*                                                                         *)
(* q.at is the place the program is at:                                    *)
(*   prompt  the command prompt                                            *)
(*   given   Parse_RS has read the record                                  *)
(*   loop    Do_Sequence has read the record, at the head of its loop      *)
(*   taken   the record is written without the command q.command           *)
(*   ran     back from Parse_Contr                                         *)
(*   ask     "Abort entire command sequence [YES]?"                        *)
(*   again   about to read the next command                                *)
(***************************************************************************)
EXTENDS Naturals, Sequences, SequencesExt, EventFlags

CONSTANTS
  Room,        \* how many commands fit into the record with the # behind them
  MaxGiven,    \* bound: commands given, and pieces left of commands cut
  MaxEdits,    \* bound: no RS= once the sequence was changed so often
  MaxSaves,    \* bound: changes made in the editor
  MaxCrashes,  \* bound: times the program dies
  MaxSignals   \* bound: times control A is pressed

ASSUME SequenceAssumption ==
  Room \in Nat /\ MaxGiven \in Nat /\ MaxEdits \in Nat /\ MaxSaves \in Nat
  /\ MaxCrashes \in Nat /\ MaxSignals \in Nat

VARIABLES
  ev,       \* signals and event flags
  record,   \* record NBUF+1 of IBUFFER.BUF
  q,        \* the local variables of the running routine
  editor,   \* the list in the editor and what was read into it
  begun,    \* history: the commands handed to Parse_Contr
  given,    \* commands given so far, and pieces; their numbers are their names
  edits, overwritten, crashes, saves, signals

vars == <<ev, record, q, editor, begun, given, edits, overwritten, crashes,
          saves, signals>>
Command == 1..MaxGiven

None == 0
AtPrompt == [at |-> "prompt", seq |-> <<>>, read |-> <<>>, command |-> None,
             more |-> FALSE]
At(place) == q.at = place

New(n) == [k \in 1..n |-> given + k]

\* INDEX(seq, '#'): one command more than there is room for, and the # is lost.
Closed == Len(record) <= Room
Readable == IF Closed THEN record ELSE <<>>

\* A write of the record by somebody who read it as read: if it has changed
\* since, the change is lost.
WriteRecord(seq, read) ==
  /\ record' = seq
  /\ overwritten' = overwritten + (IF record = read THEN 0 ELSE 1)

-----------------------------------------------------------------------------
(***************************************************************************)
(* RS=.  DEL starts an empty sequence; the room left is reckoned from what *)
(* the record held before, and what does not fit is refused.  A record     *)
(* without a # is overwritten from its start, DEL or not.                  *)
(***************************************************************************)
\* Mutant: the room left is not asked for.
ReadToAppendAll ==
  /\ At("prompt") /\ edits < MaxEdits
  /\ \E n \in 0..(MaxGiven - given), delete \in BOOLEAN :
       LET fit == n IN
       /\ n > 0 \/ delete
       /\ q' = [AtPrompt EXCEPT !.at = "given", !.read = record,
                  !.seq = (IF delete THEN <<>> ELSE Readable) \o New(fit)]
       /\ given' = given + fit
  /\ UNCHANGED <<ev, record, editor, begun, edits, overwritten, crashes, saves,
                 signals>>

ReadToAppend ==
  /\ At("prompt") /\ edits < MaxEdits
  /\ \E n \in 0..(MaxGiven - given), delete \in BOOLEAN :
       LET fit == IF n <= Room - Len(Readable) THEN n ELSE Room - Len(Readable) IN
       /\ n > 0 \/ delete
       /\ q' = [AtPrompt EXCEPT !.at = "given", !.read = record,
                  !.seq = (IF delete THEN <<>> ELSE Readable) \o New(fit)]
       /\ given' = given + fit
  /\ UNCHANGED <<ev, record, editor, begun, edits, overwritten, crashes, saves,
                 signals>>

Parse_RS ==
  /\ At("given")
  /\ WriteRecord(q.seq, q.read)
  /\ edits' = edits + 1
  /\ q' = AtPrompt
  /\ UNCHANGED <<ev, editor, begun, given, crashes, saves, signals>>

-----------------------------------------------------------------------------
(***************************************************************************)
(* RS.                                                                     *)
(***************************************************************************)
ReadRecord ==
  /\ At("prompt") \/ At("again")
  /\ q' = [AtPrompt EXCEPT !.at = "loop", !.seq = Readable, !.read = record]
  /\ UNCHANGED <<ev, record, editor, begun, given, edits, overwritten, crashes,
                 saves, signals>>

\* The string is empty.
Terminated ==
  /\ At("loop") /\ q.seq = <<>>
  /\ q' = AtPrompt
  /\ UNCHANGED <<ev, record, editor, begun, given, edits, overwritten, crashes,
                 saves, signals>>

Taken == [AtPrompt EXCEPT !.at = "taken", !.command = Head(q.seq),
                           !.more = Len(q.seq) > 1]

\* Mutant: the record of a single command is not emptied.
UpdateKeepingLast ==
  /\ At("loop") /\ q.seq # <<>>
  /\ WriteRecord(IF Len(q.seq) > 1 THEN Tail(q.seq) ELSE q.seq, q.read)
  /\ q' = Taken
  /\ UNCHANGED <<ev, editor, begun, given, edits, crashes, saves, signals>>

\* Mutant: every command is taken for the last one.
UpdateEmptying ==
  /\ At("loop") /\ q.seq # <<>>
  /\ WriteRecord(<<>>, q.read)
  /\ q' = Taken
  /\ UNCHANGED <<ev, editor, begun, given, edits, crashes, saves, signals>>

\* "UPDATE SEQUENCE STRING": the first command leaves the record.
Update ==
  /\ At("loop") /\ q.seq # <<>>
  /\ WriteRecord(Tail(q.seq), q.read)
  /\ q' = Taken
  /\ UNCHANGED <<ev, editor, begun, given, edits, crashes, saves, signals>>

\* "EXECUTE EXACTLY ONE COMMAND".  Some commands clear contr_a themselves.
Execute ==
  /\ At("taken")
  /\ begun' = Append(begun, q.command)
  /\ ev' \in {ev, CLREF(ev, "contr_a")}
  /\ q' = [q EXCEPT !.at = "ran", !.command = None]
  /\ UNCHANGED <<record, editor, given, edits, overwritten, crashes, saves,
                 signals>>

\* Label 110.  A remote abort is cleared and the sequence goes on.
Poll ==
  /\ At("ran")
  /\ IF Aborting(ev)
     THEN /\ ev' = CLREF(READEF(ev), "contr_a")
          /\ q' = [q EXCEPT !.at = IF q.more /\ ~ev.hdw_event THEN "ask"
                                   ELSE "again"]
     ELSE ev' = READEF(ev) /\ q' = [q EXCEPT !.at = "again"]
  /\ UNCHANGED <<record, editor, begun, given, edits, overwritten, crashes,
                 saves, signals>>

GoOn ==
  /\ At("ask")
  /\ q' = [q EXCEPT !.at = "again"]
  /\ UNCHANGED <<ev, record, editor, begun, given, edits, overwritten, crashes,
                 saves, signals>>

\* Whatever the record holds by now is dropped.
AbortSequence ==
  /\ At("ask")
  /\ record' = <<>>
  /\ edits' = edits + 1
  /\ q' = AtPrompt
  /\ UNCHANGED <<ev, editor, begun, given, overwritten, crashes, saves, signals>>

-----------------------------------------------------------------------------
(***************************************************************************)
(* The editor, the operator's keys and the end of the program.             *)
(***************************************************************************)
SequenceRead ==
  /\ saves < MaxSaves
  /\ editor' = [list |-> record, read |-> record]
  /\ UNCHANGED <<ev, record, q, begun, given, edits, overwritten, crashes,
                 saves, signals>>

\* Insert a command, delete one or raise one, whatever room there is...
SequenceChange ==
  /\ saves < MaxSaves
  /\ saves' = saves + 1
  /\ LET list == editor.list IN
     \/ /\ given < MaxGiven
        /\ given' = given + 1
        /\ \E k \in 1..(Len(list) + 1) :
             editor' = [editor EXCEPT !.list = InsertAt(list, k, given + 1)]
     \/ /\ UNCHANGED given
        /\ \E k \in 1..Len(list) :
             editor' = [editor EXCEPT !.list = RemoveAt(list, k)]
     \/ /\ UNCHANGED given
        /\ \E k \in 2..Len(list) :
             editor' = [editor EXCEPT !.list = [list EXCEPT ![k] = list[k-1],
                                                            ![k-1] = list[k]]]
  /\ UNCHANGED <<ev, record, q, begun, edits, overwritten, crashes, signals>>

\* binary format A320: of a list that is too long, what is kept ends in the last
\* command or in a piece of it, which is a command nobody gave.
Cut(list, last) == Append(SubSeq(list, 1, Room), last)

WriteList ==
  LET list == editor.list
      read == editor.read
  IN  \/ /\ Len(list) <= Room
         /\ WriteRecord(list, read)
         /\ UNCHANGED given
      \/ /\ Len(list) > Room
         /\ WriteRecord(Cut(list, list[Room + 1]), read)
         /\ UNCHANGED given
      \/ /\ Len(list) > Room /\ given < MaxGiven
         /\ WriteRecord(Cut(list, given + 1), read)
         /\ given' = given + 1

\* Mutant: the editor keeps its list when it has written it.
SequenceWriteStaying ==
  /\ editor.list # editor.read
  /\ WriteList
  /\ edits' = edits + 1
  /\ UNCHANGED <<ev, q, editor, begun, crashes, saves, signals>>

\* ...and OK.  The editor goes away and reads the record anew next time.
SequenceWrite ==
  /\ editor.list # editor.read
  /\ WriteList
  /\ edits' = edits + 1
  /\ editor' = [list |-> <<>>, read |-> <<>>]
  /\ UNCHANGED <<ev, q, begun, crashes, saves, signals>>

Crash ==
  /\ crashes < MaxCrashes
  /\ crashes' = crashes + 1
  /\ ev' = NoEvents
  /\ q' = AtPrompt
  /\ UNCHANGED <<record, editor, begun, given, edits, overwritten, saves, signals>>

ControlA ==
  /\ signals < MaxSignals
  /\ signals' = signals + 1
  /\ ev' = SigHandler(ev, "sigint")
  /\ UNCHANGED <<record, q, editor, begun, given, edits, overwritten, crashes,
                 saves>>

Init ==
  /\ ev = NoEvents
  /\ record = <<>>
  /\ q = AtPrompt
  /\ editor = [list |-> <<>>, read |-> <<>>]
  /\ begun = <<>>
  /\ given = 0 /\ edits = 0 /\ overwritten = 0 /\ crashes = 0 /\ saves = 0
  /\ signals = 0

DoSequence == ReadRecord \/ Terminated \/ Update \/ Execute \/ Poll \/ GoOn
              \/ AbortSequence

Next ==
  \/ ReadToAppend \/ Parse_RS \/ DoSequence
  \/ SequenceRead \/ SequenceChange \/ SequenceWrite
  \/ Crash \/ ControlA

Spec == Init /\ [][Next]_vars

Place == {"prompt", "given", "loop", "taken", "ran", "ask", "again"}
Named == Seq(1..given)

\* Every list holds commands that were given or pieces of them.  RS and RS= hold
\* what they read, or nothing of it.
TypeOK ==
  /\ ev \in EventState
  /\ given \in 0..MaxGiven
  /\ edits \in Nat /\ overwritten \in Nat /\ crashes \in Nat
  /\ begun \in Named /\ record \in Named
  /\ editor \in [list : Named, read : Named]
  /\ q \in [at : Place,
            seq : Named, read : Named, command : 0..given, more : BOOLEAN]
  /\ At("taken") => q.command # None
  /\ ~At("given") => q.seq \in {q.read, <<>>}

\* What RS or RS= is about to write has room, with the # behind it, whatever the
\* editor wrote before; and a record without a # is one that was cut, so that it
\* is full to its last place.
RecordFits == Len(q.seq) <= Room /\ Len(record) <= Room + 1

\* "string is not empty": the loop of RS ends when the record has no command left
\* in it.  It does not: the loop ends when there is no # either.
EndsEmpty == At("loop") /\ q.seq = <<>> => q.read = <<>>
-----------------------------------------------------------------------------
(***************************************************************************)
(* What is still to do: the record, and the command taken out of it.       *)
(***************************************************************************)
ToDo == IF At("taken") THEN <<q.command>> \o record ELSE record

Queue == INSTANCE CommandQueue WITH todo <- ToDo

\* RS implements the queue of commands: in order, each at most once, a crash
\* costs one command at most, and only an unseen overwrite breaks the order.
RunsInOrder == Queue!Spec

\* No command is begun twice, nor is one begun still in the record, as long as
\* no change to the record was overwritten unseen, by the editor or by ICP.
AtMostOnce == Queue!AtMostOnce

Elements(list) == {list[i] : i \in 1..Len(list)}

\* The commands that who holds list has not read from the record.
Own(list, read) == Elements(list) \ Elements(read)

Apart ==
  LET known == Elements(begun \o ToDo)
      hers  == Own(editor.list, editor.read)
      its   == Own(q.seq, q.read)
  IN  /\ Queue!Distinct(begun \o ToDo)
      /\ Queue!Distinct(editor.list) /\ Queue!Distinct(q.seq)
      /\ hers \cap known = {} /\ its \cap known = {} /\ hers \cap its = {}

\* No party holds a command of its own that another one holds, that is in the
\* record or that was begun: writing a list twice, or keeping it after it was
\* written, would bring commands back.
OwnersApart == overwritten = 0 => Apart
=============================================================================
