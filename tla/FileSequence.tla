---------------------------- MODULE FileSequence ----------------------------
(***************************************************************************)
(* RSF (Do_File_Sequence): the commands of a file, one by one.  The file   *)
(* itself remembers how far it got, by a star in front of the next         *)
(* command: a pass over the file writes a copy with the star behind that   *)
(* command, the copy replaces the file, and then the command is executed.  *)
(* An INCLUDE is replaced by the lines of another file, between two        *)
(* comments that mark it, and put back when these lines are done.          *)
(*                                                                         *)
(* A line is a record of its kind and its words.  A word is a command, the *)
(* name of a file to include, the star or the mark of the end; comments    *)
(* are the kinds "note", and "soi" and "eoi" around an included file.      *)
(*                                                                         *)
(* f.at is the place the program is at:                                    *)
(*   prompt  the command prompt                                            *)
(*   open    label 200, opening the file for a pass                        *)
(*   read    the pass is at line f.recnum + 1                              *)
(*   copy    label 500, the copy is written                                *)
(*   treat   the copy has replaced the file: the command is next           *)
(*   poll    looking for control A                                         *)
(***************************************************************************)
EXTENDS Naturals, Sequences, SequencesExt, EventFlags

CONSTANTS
  Main,        \* the file, as the operator wrote it: a sequence of lines
  Included,    \* the files to include: a function from names to lines
  Kept,        \* words left of the line behind an included file, see Cut
  MaxTry,      \* attempts to open a file that is in use (100)
  MaxRuns,     \* bound: times the operator starts the file from its top
  MaxCrashes,  \* bound: times the program dies
  MaxSignals   \* bound: times control A is pressed

Star == "*"
Hash == "#"

TextLine(words) == [k |-> "text", ts |-> words]
Note            == [k |-> "note", ts |-> <<>>]

ASSUME FileSequenceAssumption ==
  /\ \A n \in 1..Len(Main) : Main[n].k \in {"text", "note"}
  /\ Kept \in Nat /\ MaxTry \in Nat \ {0} /\ MaxRuns \in Nat
  /\ MaxCrashes \in Nat /\ MaxSignals \in Nat

VARIABLES
  ev,      \* signals and event flags
  file,    \* the file on disk
  f,       \* the local variables of Do_File_Sequence
  left,    \* history: what the file says is still to do
  done,    \* history: the file was gone through and has no star any more
  run,     \* history: how often it has been started from its top
  begun,   \* history: the commands handed to Parse_Contr, with the run
  crashes, signals

vars == <<ev, file, f, left, done, run, begun, crashes, signals>>

None == ""
AtPrompt == [at |-> "prompt", putstar |-> FALSE, endflag |-> FALSE,
             inclflag |-> FALSE, soipos |-> 0, recnum |-> 0,
             command |-> None, nulltreat |-> FALSE, new |-> <<>>, maxtry |-> 0]
At(place) == f.at = place

-----------------------------------------------------------------------------
(***************************************************************************)
(* What a pass over the file does with a line; p stands for the local      *)
(* variables, and Settled(p) says that the pass has found what it is to do.*)
(***************************************************************************)
Settled(p) == p.command # None \/ p.endflag \/ p.nulltreat

Write(p, lines) == [p EXCEPT !.new = @ \o lines]

\* The lines of an included file: the first record is read into a number and
\* lost, and the first line left that is no comment gets the star.
Starred(lines) ==
  LET first == SelectInSeq(lines, LAMBDA l : l.k = "text") IN
  IF first = 0 THEN lines
  ELSE [lines EXCEPT ![first].ts = <<Star>> \o @]

ReadIncluded(name) ==
  IF Included[name] = <<>> THEN <<>> ELSE Starred(Tail(Included[name]))

HasText(lines) == \E n \in 1..Len(lines) : lines[n].k = "text"

\* INCLUDE: what is before it and what is after it become lines of their own.
\* Nothing is treated in a pass that put a star into an included file.
Include(p, before, name, after) ==
  LET lines == ReadIncluded(name) IN
  [Write(p, (IF before = <<>> THEN <<>> ELSE <<TextLine(before)>>)
            \o <<[k |-> "soi", ts |-> <<name>>]>> \o lines
            \o <<[k |-> "eoi", ts |-> <<name>>]>>
            \o (IF after = <<>> THEN <<>> ELSE <<TextLine(after)>>))
   EXCEPT !.nulltreat = HasText(lines)]

\* Mutant: the star does not move past the command.
MoveKeepingStar(p, before, command, after) ==
  [Write(p, <<TextLine(before \o <<Star, command>> \o after)>>)
   EXCEPT !.command = command]

Move(p, before, command, after) ==
  [Write(p, <<TextLine(before \o <<command, Star>> \o after)>>)
   EXCEPT !.command = command]

\* A line that is not a comment, while the next command is looked for.
Look(q, words) ==
  LET p    == [q EXCEPT !.putstar = FALSE]
      line == IF q.putstar THEN <<Star>> \o words ELSE words
      spos == SelectInSeq(line, LAMBDA w : w = Star) IN
  IF spos = 0 THEN Write(p, <<TextLine(line)>>)
  ELSE LET before == SubSeq(line, 1, spos - 1)
           after  == SubSeq(line, spos + 1, Len(line)) IN
       CASE after = <<>> ->
              [Write(p, <<TextLine(before)>>) EXCEPT !.putstar = TRUE]
         [] after # <<>> /\ Head(after) = Hash ->
              [Write(p, <<TextLine(before \o after)>>) EXCEPT !.endflag = TRUE]
         [] after # <<>> /\ Head(after) \in DOMAIN Included ->
              Include(p, before, Head(after), Tail(after))
         [] OTHER -> Move(p, before, Head(after), Tail(after))

\* A comment: the last !SOI: in front of the first !EOI: before the star, if
\* there is one, marks an included file that is done.
Comment(p, line) ==
  Write(IF p.inclflag THEN p
        ELSE IF line.k = "soi" THEN [p EXCEPT !.soipos = p.recnum]
        ELSE IF line.k = "eoi" /\ p.soipos # 0 /\ p.command = None /\ ~p.nulltreat
        THEN [p EXCEPT !.inclflag = TRUE]
        ELSE p, <<line>>)

\* The line behind !EOI: is written with the length of !EOI:, so the end of a
\* longer one is lost.
Cut(lines) ==
  IF lines = <<>> THEN <<>>
  ELSE [lines EXCEPT ![1].ts =
          SubSeq(@, 1, IF Kept < Len(@) THEN Kept ELSE Len(@))]

\* A finished series of included lines becomes the INCLUDE again.
Compressed ==
  LET eoi == SelectInSubSeq(file, f.soipos, Len(file), LAMBDA l : l.k = "eoi") IN
  IF file[f.soipos].k # "soi" THEN file
  ELSE SubSeq(file, 1, f.soipos - 1) \o <<TextLine(file[f.soipos].ts)>>
       \o Cut(SubSeq(file, eoi + 1, Len(file)))

-----------------------------------------------------------------------------
(***************************************************************************)
(* What is still to do: the words behind the star, or all of them if there *)
(* is none, with the included files in their places, up to the end mark.   *)
(***************************************************************************)
RECURSIVE Flat(_)
Flat(words) ==
  FlattenSeq([n \in 1..Len(words) |->
                IF words[n] \in DOMAIN Included
                THEN FlattenSeq([i \in 1..Len(Included[words[n]]) |->
                                   Flat(Included[words[n]][i].ts)])
                ELSE <<words[n]>>])

\* What an INCLUDE stands for.
Contents == [name \in DOMAIN Included |-> Flat(<<name>>)]

WordsOf(words) ==
  FlattenSeq([n \in 1..Len(words) |->
                IF words[n] \in DOMAIN Included THEN Contents[words[n]]
                ELSE <<words[n]>>])

Find(words, mark) == SelectInSeq(words, LAMBDA w : w = mark)

Left(lines) ==
  LET from == SelectInSeq(lines, LAMBDA l : Contains(l.ts, Star))
      line(n) ==
        IF lines[n].k # "text" THEN <<>>
        ELSE WordsOf(SubSeq(lines[n].ts, Find(lines[n].ts, Star) + 1,
                            Len(lines[n].ts)))
      rest[n \in 1..(Len(lines) + 1)] ==
        IF n > Len(lines) THEN <<>>
        ELSE IF Contains(line(n), Hash)
        THEN SubSeq(line(n), 1, Find(line(n), Hash) - 1)
        ELSE line(n) \o rest[n + 1]
  IN rest[IF from = 0 THEN 1 ELSE from]

-----------------------------------------------------------------------------
HasStar == \E n \in 1..Len(file) : file[n].k = "text" /\ Contains(file[n].ts, Star)

\* RSF: a star in the file is where to go on, otherwise its top is.
Start ==
  /\ At("prompt")
  /\ done => run < MaxRuns
  /\ run' = IF done THEN run + 1 ELSE run
  /\ done' = FALSE
  /\ left' = Left(file)
  /\ f' = [AtPrompt EXCEPT !.at = "open", !.putstar = ~HasStar]
  /\ UNCHANGED <<ev, file, begun, crashes, signals>>

\* The file is in use; ten seconds later it is tried again, unless control A
\* came first, or it was tried often enough.
InUse ==
  /\ At("open")
  /\ f' = IF Aborting(ev) \/ f.maxtry + 1 >= MaxTry THEN AtPrompt
          ELSE [f EXCEPT !.maxtry = @ + 1]
  /\ ev' = IF Aborting(ev) THEN CLREF(READEF(ev), "contr_a") ELSE READEF(ev)
  /\ UNCHANGED <<file, left, done, run, begun, crashes, signals>>

Open ==
  /\ At("open") /\ ~f.inclflag
  /\ f' = [f EXCEPT !.at = "read", !.maxtry = 0, !.recnum = 0, !.soipos = 0,
                    !.command = None, !.nulltreat = FALSE, !.new = <<>>]
  /\ UNCHANGED <<ev, file, left, done, run, begun, crashes, signals>>

ReadLine ==
  /\ At("read") /\ f.recnum < Len(file)
  /\ LET line == file[f.recnum + 1]
         p    == [f EXCEPT !.recnum = @ + 1] IN
     f' = IF line.k # "text" THEN Comment(p, line)
          ELSE IF Settled(p) THEN Write(p, <<line>>)
          ELSE Look(p, line.ts)
  /\ UNCHANGED <<ev, file, left, done, run, begun, crashes, signals>>

EndOfFile ==
  /\ At("read") /\ f.recnum = Len(file)
  /\ f' = [f EXCEPT !.at = "copy"]
  /\ UNCHANGED <<ev, file, left, done, run, begun, crashes, signals>>

\* Mutant: the flag that asks for this is left up.
CompressForever ==
  /\ At("open") /\ f.inclflag
  /\ f' = [f EXCEPT !.at = "copy", !.maxtry = 0, !.nulltreat = TRUE,
                    !.command = None, !.new = Compressed]
  /\ UNCHANGED <<ev, file, left, done, run, begun, crashes, signals>>

Compress ==
  /\ At("open") /\ f.inclflag
  /\ f' = [f EXCEPT !.at = "copy", !.maxtry = 0, !.inclflag = FALSE,
                    !.nulltreat = TRUE, !.command = None, !.new = Compressed]
  /\ UNCHANGED <<ev, file, left, done, run, begun, crashes, signals>>

\* cp tmpfile fcommand, which goes on by itself if the program dies.
Copy ==
  /\ At("copy")
  /\ file' = f.new
  /\ done' = (done \/ f.endflag \/ f.putstar)
  /\ left' = IF done' THEN <<>> ELSE Left(f.new)
  /\ f' = [f EXCEPT !.at = "treat", !.new = <<>>, !.endflag = @ \/ f.putstar]
  /\ UNCHANGED <<ev, run, begun, crashes, signals>>

\* Some commands clear contr_a themselves.
Execute ==
  /\ At("treat") /\ f.command # None
  /\ begun' = Append(begun, <<run, f.command>>)
  /\ ev' \in {ev, CLREF(ev, "contr_a")}
  /\ f' = [f EXCEPT !.at = "poll", !.command = None]
  /\ UNCHANGED <<file, left, done, run, crashes, signals>>

\* "Star missing in command file."
StarMissing == ~f.nulltreat /\ ~f.endflag

NoCommand ==
  /\ At("treat") /\ f.command = None
  /\ f' = IF StarMissing THEN AtPrompt ELSE [f EXCEPT !.at = "poll"]
  /\ UNCHANGED <<ev, file, left, done, run, begun, crashes, signals>>

\* Control A ends the sequence with the star behind the command that saw it.
AbortSequence ==
  /\ At("poll") /\ Aborting(ev) /\ ~ev.hdw_event
  /\ ev' = CLREF(READEF(ev), "contr_a")
  /\ f' = AtPrompt
  /\ UNCHANGED <<file, left, done, run, begun, crashes, signals>>

Continue ==
  /\ At("poll") /\ ~(Aborting(ev) /\ ~ev.hdw_event)
  /\ ev' = IF Aborting(ev)
           THEN CLREF(CLREF(READEF(ev), "contr_a"), "hdw_event") ELSE READEF(ev)
  /\ f' = IF f.endflag /\ ~f.inclflag THEN AtPrompt
          ELSE [f EXCEPT !.at = "open", !.nulltreat = FALSE]
  /\ UNCHANGED <<file, left, done, run, begun, crashes, signals>>

Crash ==
  /\ crashes < MaxCrashes
  /\ crashes' = crashes + 1
  /\ ev' = NoEvents
  /\ f' = AtPrompt
  /\ UNCHANGED <<file, left, done, run, begun, signals>>

ControlA ==
  /\ signals < MaxSignals
  /\ signals' = signals + 1
  /\ ev' = SigHandler(ev, "sigint")
  /\ UNCHANGED <<file, f, left, done, run, begun, crashes>>

Init ==
  /\ ev = NoEvents
  /\ file = Main
  /\ f = AtPrompt
  /\ left = Left(Main)
  /\ done = FALSE
  /\ run = 1
  /\ begun = <<>>
  /\ crashes = 0 /\ signals = 0

Work ==
  \/ InUse \/ Open \/ ReadLine \/ EndOfFile \/ Compress \/ Copy \/ Execute
  \/ NoCommand \/ AbortSequence \/ Continue

Rest == At("prompt") /\ done /\ run = MaxRuns /\ UNCHANGED vars

Next == Start \/ Work \/ Crash \/ ControlA \/ Rest

Spec == Init /\ [][Next]_vars

\* The program runs.
FairSpec == Spec /\ WF_vars(Work)
-----------------------------------------------------------------------------
Hand == IF f.command = None THEN <<>> ELSE <<f.command>>

ToDo ==
  LET words == IF At("treat") THEN Hand \o left ELSE left IN
  [n \in 1..Len(words) |-> <<run, words[n]>>]

Command == (1..MaxRuns) \X (UNION {{l.ts[n] : n \in 1..Len(l.ts)} :
             l \in UNION {{ls[n] : n \in 1..Len(ls)} :
                           ls \in {Main} \cup {Included[i] : i \in DOMAIN Included}}})

Queue == INSTANCE CommandQueue
           WITH todo <- ToDo, edits <- run - 1, overwritten <- 0

\* RSF implements the queue of commands: in the order of the file with all its
\* included files in their places, each at most once, whatever was interrupted
\* by control A or by a crash and begun again; a crash costs one command at most.
\* (edits starts at 0 in the queue and counts the times the file starts over.)
RunsInOrder == Queue!Spec

\* RSF comes back to the prompt.
SequenceEnds == ~At("prompt") ~> At("prompt")

\* "all of included file copied into com file": a pass over the file changes
\* nothing of what is to be done but to take one command out of it.  It does not
\* hold of a pass that includes a file with a command on its first line.
AllCopied ==
  At("copy") /\ ~done =>
    left = Hand \o (IF f.endflag \/ f.putstar THEN <<>> ELSE Left(f.new))
=============================================================================
