---------------------------- MODULE SerialProofs ----------------------------
(***************************************************************************)
(* Who begins an exchange on a quiet line gets the answer to its own       *)
(* question; a routine that never flushes is never further behind than     *)
(* there were answers missed; an operation that says it has succeeded has, *)
(* and what a status says of a motor was so: for any routines, answers,    *)
(* faults and operations that keep the rules of the tables of the drivers. *)
(***************************************************************************)
EXTENDS Instruments, SequenceTheorems, TLAPS
-----------------------------------------------------------------------------
(* Sequences, and what an instrument sends.                                *)

LEMMA EmptyIsSeq == \A S : <<>> \in Seq(S)
  BY EmptySeq

LEMMA SeqSteps ==
  ASSUME NEW S, NEW seq \in Seq(S)
  PROVE  /\ seq # <<>> => Head(seq) \in S /\ Tail(seq) \in Seq(S)
         /\ \A e \in S : Append(seq, e) \in Seq(S)
         /\ \A more \in Seq(S) : seq \o more \in Seq(S)
         /\ <<>> \o seq = seq /\ seq \o <<>> = seq
         /\ AllButLast(seq) \in Seq(S)
<1>1. AllButLast(seq) \in Seq(S)
  <2>1. Len(seq) \in Nat /\ \A i \in 1 .. Len(seq) - 1 : seq[i] \in S
    BY ElementOfSeq, LenProperties
  <2>. QED
    BY <2>1, SubSeqProperties DEF AllButLast
<1>2. \A e \in S : Append(seq, e) \in Seq(S)
  OBVIOUS
<1>. QED
  BY <1>1, <1>2, HeadTailProperties, ConcatProperties, ConcatEmptySeq

\* A piece of the answer of t to question n.
OwnPiece(t, n) ==
  {piece \in Piece : /\ piece.to = n
                     /\ \E i \in 1 .. Len(t.sends) :
                          piece.ends = t.sends[i].ends /\ piece.text = t.sends[i].text}

Saying(S, words) == {piece \in S : piece.says \in words}

LEMMA OwnIsPiece ==
  ASSUME NEW t, NEW n
  PROVE  /\ OwnPiece(t, n) \subseteq Piece
         /\ \A seq \in Seq(OwnPiece(t, n)) : seq \in Seq(Piece)
<1>1. OwnPiece(t, n) \subseteq Piece
  BY DEF OwnPiece
<1>. QED
  BY <1>1, SeqMonotonic

\* The pieces of an answer are those its routine reads, in their order, with the
\* number of the question.
LEMMA AnswerOwn ==
  ASSUME NEW t \in Routines, NEW n \in Nat, NEW says \in Says \cup {"garbled"}
  PROVE  /\ Answer(t, n, says) \in Seq(Saying(OwnPiece(t, n), {says}))
         /\ Answer(t, n, says) \in Seq(OwnPiece(t, n))
         /\ Len(t.sends) \in Nat /\ Len(Answer(t, n, says)) = Len(t.sends)
         /\ \A i \in 1 .. Len(t.sends) :
              /\ Answer(t, n, says)[i].to = n
              /\ Answer(t, n, says)[i].ends = t.sends[i].ends
              /\ Answer(t, n, says)[i].text = t.sends[i].text
<1>. DEFINE piece(i) == [to |-> n, ends |-> t.sends[i].ends, text |-> t.sends[i].text, says |-> says]
<1>1. t.sends \in Seq([ends : STRING, text : BOOLEAN])
  BY RoutinesAssumption
<1>2. Len(t.sends) \in Nat /\ DOMAIN t.sends = 1 .. Len(t.sends)
  BY <1>1, LenProperties
<1>3. Answer(t, n, says) = [i \in 1 .. Len(t.sends) |-> piece(i)]
  BY <1>2 DEF Answer
<1>4. ASSUME NEW i \in 1 .. Len(t.sends)
      PROVE  piece(i) \in OwnPiece(t, n) /\ piece(i).says = says
  <2>1. t.sends[i] \in [ends : STRING, text : BOOLEAN]
    BY <1>1, ElementOfSeq
  <2>2. piece(i) \in Piece
    BY <2>1 DEF Piece
  <2>. QED
    BY <2>2 DEF OwnPiece
<1>5. Answer(t, n, says) \in Seq(Saying(OwnPiece(t, n), {says}))
  <2>1. Answer(t, n, says) \in [1 .. Len(t.sends) -> Saying(OwnPiece(t, n), {says})]
    BY <1>3, <1>4 DEF Saying
  <2>. QED
    BY <1>2, <2>1, SeqDef
<1>6. Answer(t, n, says) \in Seq(OwnPiece(t, n))
  <2>1. Saying(OwnPiece(t, n), {says}) \subseteq OwnPiece(t, n)
    BY DEF Saying
  <2>. QED
    BY <1>5, <2>1, SeqMonotonic
<1>7. Len(Answer(t, n, says)) = Len(t.sends)
  BY <1>2, <1>3, <1>6, LenProperties
<1>8. ASSUME NEW i \in 1 .. Len(t.sends)
      PROVE  /\ Answer(t, n, says)[i].to = n
             /\ Answer(t, n, says)[i].ends = t.sends[i].ends
             /\ Answer(t, n, says)[i].text = t.sends[i].text
  BY <1>3
<1>. QED
  BY <1>2, <1>5, <1>6, <1>7, <1>8
-----------------------------------------------------------------------------
(* Pieces come from a question and move on; nothing else happens to them.  *)

All(S) == transit \in Seq(S) /\ input \in Seq(S) /\ took \subseteq S

LEMMA AllMoved ==
  ASSUME NEW S, All(S), Flush \/ Discard \/ terminated_read \/ GiveUp \/ Purge \/ Arrive \/ Return
  PROVE  transit' \in Seq(S) /\ input' \in Seq(S) /\ took' \subseteq S
<1>1. CASE Flush \/ Discard \/ GiveUp \/ Purge \/ Return
  BY <1>1, EmptyIsSeq DEF Flush, Discard, GiveUp, Purge, Return, serialFlush, line, All
<1>2. CASE terminated_read
  BY <1>2, SeqSteps DEF terminated_read, All
<1>3. CASE Arrive
  <2>1. Head(transit) \in S /\ Tail(transit) \in Seq(S)
    BY <1>3, SeqSteps DEF Arrive, All
  <2>2. Append(input, Head(transit)) \in Seq(S)
    BY <2>1, SeqSteps DEF All
  <2>. QED
    BY <1>3, <2>1, <2>2 DEF Arrive, host, All
<1>. QED
  BY <1>1, <1>2, <1>3

LEMMA AllBegun ==
  ASSUME NEW S, All(S), NEW t, NEW r, Begin(t, r)
  PROVE  transit' \in Seq(S) /\ input' \in Seq(S) /\ took' = {}
  BY DEF Begin, line, All

\* What may come of the question being written.
Coming(says) ==
  {<<>>, Answer(talker, asked + 1, says), AllButLast(Answer(talker, asked + 1, says)),
   Answer(talker, asked + 1, "garbled")}

LEMMA Written ==
  ASSUME LineTypeOK, NEW says \in Says, Write(says)
  PROVE  /\ phase = "write" /\ UNCHANGED <<talker, reads, stage, took, input, calm, missed, late>>
         /\ phase' \in {"discard", "read", "done"}
         /\ talker.flush # "after" => phase' # "discard"
         /\ asked' \in Nat /\ heard' \subseteq Nat /\ faults' \in Nat
         /\ ~reads => /\ UNCHANGED <<asked, transit>>
                      /\ phase' # "read" /\ outcome' = "sent"
         /\ reads => /\ asked' = asked + 1 /\ phase' # "done" /\ outcome' = "none"
                     /\ \E more \in Coming(says) :
                          /\ transit' = transit \o more
                          /\ more # <<>> => asked' \in heard'
<1>1. phase' \in {"discard", "read", "done"} /\ (talker.flush # "after" => phase' # "discard")
  BY Zenon DEF Write
<1>2. (~reads => phase' # "read") /\ (reads => phase' # "done")
  BY Zenon DEF Write
<1>3. heard' \subseteq Nat /\ faults' \in Nat /\ asked' \in Nat
  BY DEF LineTypeOK, Write, Fault
<1>4. transit = transit \o <<>> /\ asked \in Nat
  BY ConcatEmptySeq DEF LineTypeOK
<1>5. CASE reads
  <2>1. CASE /\ heard' = heard \cup {asked + 1}
             /\ transit' = transit \o Answer(talker, asked + 1, says)
    BY <1>1, <1>2, <1>3, <1>5, <2>1 DEF Write, Coming
  <2>2. CASE Fault(says)
    BY <1>1, <1>2, <1>3, <1>4, <1>5, <2>2 DEF Write, Fault, Coming
  <2>. QED
    BY <1>5, <2>1, <2>2 DEF Write
<1>6. CASE ~reads
  <2>1. UNCHANGED transit
    BY <1>4, <1>6 DEF Write, Fault
  <2>2. UNCHANGED asked /\ outcome' = "sent"
    BY <1>4, <1>6 DEF Write
  <2>. QED
    BY <1>1, <1>2, <1>3, <1>6, <2>1, <2>2 DEF Write
<1>. QED
  BY <1>5, <1>6

LEMMA ComingOwn ==
  ASSUME LineTypeOK, NEW says \in Says, NEW more \in Coming(says)
  PROVE  /\ more \in Seq(OwnPiece(talker, asked + 1)) /\ more \in Seq(Piece)
         /\ more \in Seq(Saying(Piece, {says, "garbled"}))
         /\ Len(more) \in Nat /\ Len(more) <= Len(talker.sends) /\ Len(talker.sends) \in Nat
         /\ \A i \in 1 .. Len(more) :
              /\ i \in 1 .. Len(talker.sends)
              /\ more[i].to = asked + 1
              /\ more[i].ends = talker.sends[i].ends /\ more[i].text = talker.sends[i].text
<1>. DEFINE mine == OwnPiece(talker, asked + 1)
            heardSo == Saying(Piece, {says, "garbled"})
<1>1. talker \in Routines /\ asked + 1 \in Nat
  BY DEF LineTypeOK
<1>2. ASSUME NEW s \in {says, "garbled"}
      PROVE  /\ Answer(talker, asked + 1, s) \in Seq(Saying(mine, {s}))
             /\ Answer(talker, asked + 1, s) \in Seq(mine)
             /\ Len(talker.sends) \in Nat /\ Len(Answer(talker, asked + 1, s)) = Len(talker.sends)
             /\ \A i \in 1 .. Len(talker.sends) :
                  /\ Answer(talker, asked + 1, s)[i].to = asked + 1
                  /\ Answer(talker, asked + 1, s)[i].ends = talker.sends[i].ends
                  /\ Answer(talker, asked + 1, s)[i].text = talker.sends[i].text
  <2>1. s \in Says \cup {"garbled"}
    OBVIOUS
  <2>. HIDE DEF mine
  <2>. QED
    BY <1>1, <2>1, AnswerOwn DEF mine
<1>3. ASSUME NEW s \in {says, "garbled"}
      PROVE  Answer(talker, asked + 1, s) \in Seq(heardSo)
  <2>1. mine \subseteq Piece
    BY OwnIsPiece
  <2>2. Saying(mine, {s}) \subseteq heardSo
    <3>. HIDE DEF mine
    <3>. QED
      BY <2>1 DEF Saying
  <2>. QED
    BY <1>2, <2>2, SeqMonotonic
<1>4. CASE more = <<>>
  BY <1>2, <1>4, EmptyIsSeq, EmptySeq
<1>5. CASE \E s \in {says, "garbled"} : more = Answer(talker, asked + 1, s)
  BY <1>2, <1>3, <1>5, OwnIsPiece
<1>6. CASE more = AllButLast(Answer(talker, asked + 1, says))
  <2>. DEFINE answer == Answer(talker, asked + 1, says)
  <2>1. more \in Seq(mine) /\ more \in Seq(heardSo)
    BY <1>2, <1>3, <1>6, SeqSteps
  <2>2. answer \in Seq(mine) /\ Len(answer) = Len(talker.sends) /\ Len(answer) \in Nat
    BY <1>2
  <2>3. more = SubSeq(answer, 1, Len(answer) - 1)
    BY <1>6 DEF AllButLast
  <2>4. /\ Len(more) = IF 1 <= Len(answer) - 1 THEN Len(answer) - 1 ELSE 0
        /\ \A i \in 1 .. Len(answer) - 1 : more[i] = answer[i]
    <3>1. \A i \in 1 .. Len(answer) - 1 : answer[i] \in mine
      BY <2>2, ElementOfSeq
    <3>. HIDE DEF answer, mine
    <3>. QED
      BY <2>2, <2>3, <3>1, SubSeqProperties
  <2>5. \A i \in 1 .. Len(more) : more[i] = answer[i] /\ i \in 1 .. Len(talker.sends)
    <3>. HIDE DEF answer
    <3>. QED
      BY <2>2, <2>4
  <2>6. Len(more) \in Nat /\ Len(more) <= Len(talker.sends)
    <3>. HIDE DEF answer
    <3>. QED
      BY <2>2, <2>4
  <2>. QED
    BY <1>2, <2>1, <2>5, <2>6, OwnIsPiece
<1>. QED
  BY <1>4, <1>5, <1>6 DEF Coming

LEMMA AllWritten ==
  ASSUME LineTypeOK, NEW says \in Says, Write(says), NEW S, All(S), OwnPiece(talker, asked + 1) \subseteq S
  PROVE  transit' \in Seq(S) /\ input' \in Seq(S) /\ took' \subseteq S
<1>1. ASSUME NEW more \in Coming(says), transit' = transit \o more
      PROVE  transit' \in Seq(S)
  <2>1. more \in Seq(S)
    BY ComingOwn, SeqMonotonic
  <2>. QED
    BY <1>1, <2>1, SeqSteps DEF All
<1>. QED
  BY <1>1, Written DEF All

LEMMA AllWrittenSaying ==
  ASSUME LineTypeOK, NEW says \in Says, Write(says), NEW S, All(S),
         Saying(Piece, {says, "garbled"}) \subseteq S
  PROVE  transit' \in Seq(S) /\ input' \in Seq(S) /\ took' \subseteq S
<1>1. ASSUME NEW more \in Coming(says), transit' = transit \o more
      PROVE  transit' \in Seq(S)
  <2>1. more \in Seq(S)
    BY ComingOwn, SeqMonotonic
  <2>. QED
    BY <1>1, <2>1, SeqSteps DEF All
<1>. QED
  BY <1>1, Written DEF All
-----------------------------------------------------------------------------
(* The line alone.                                                         *)

Unwritten == phase \in {"flush", "write"}

\* Before a question is written nothing may be left; afterwards everything on
\* its way is an answer to it.
Quiet ==
  calm =>
    /\ phase = "flush" => transit = <<>>
    /\ phase = "write" => transit = <<>> /\ input = <<>>
    /\ ~Unwritten => All(OwnPiece(talker, asked))

\* The course of an exchange: it reads only what it asked for, and an answer is
\* read to its last part, or to one that is optional.
Course ==
  /\ stage # 0
  /\ Unwritten => stage = 1 /\ took = {}
  /\ Unwritten \/ (phase \in {"discard", "read"} /\ reads) => outcome = "none"
  /\ phase \in {"read", "purge"} \/ outcome \in {"answer", "lost"} => reads
  /\ outcome = "sent" => ~reads
  /\ outcome = "answer" => stage > Len(talker.until) \/ stage \in talker.optional

\* What is left of the answer, and what was taken of it.
Account ==
  calm /\ ~Unwritten =>
    /\ transit # <<>> \/ input # <<>> \/ took # {} \/ stage > 1 => asked \in heard
    /\ ~reads => transit = <<>> /\ input = <<>>
    /\ Len(talker.sends) <= Len(talker.until) =>
         Len(input) + Len(transit) + stage <= Len(talker.until) + 1
    /\ Keeps(talker) /\ stage > talker.keep => took # {}

LineInv == LineTypeOK /\ Quiet /\ Course /\ Account

LEMMA TypeStep ==
  ASSUME LineTypeOK, LineNext
  PROVE  LineTypeOK'
<1>1. All(Piece)
  BY DEF LineTypeOK, All
<1>2. ASSUME NEW t \in Routines, NEW r \in BOOLEAN, Begin(t, r)
      PROVE  LineTypeOK'
  BY <1>2 DEF Begin, LineTypeOK, Phases, line
<1>3. ASSUME Flush \/ Discard \/ Purge
      PROVE  LineTypeOK'
  BY <1>3, EmptyIsSeq DEF Flush, Discard, Purge, serialFlush, LineTypeOK, Phases, ghosts
<1>4. ASSUME NEW says \in Says, Write(says)
      PROVE  LineTypeOK'
  <2>1. transit' \in Seq(Piece) /\ input' \in Seq(Piece) /\ took' \subseteq Piece
    BY <1>1, <1>4, AllWritten, OwnIsPiece
  <2>2. phase' \in Phases /\ outcome' \in {"none", "sent"}
    BY <1>4, Written DEF LineTypeOK, Phases
  <2>. QED
    BY <1>4, <2>1, <2>2, Written DEF LineTypeOK, All
<1>5. ASSUME terminated_read
      PROVE  LineTypeOK'
  <2>1. transit' \in Seq(Piece) /\ input' \in Seq(Piece) /\ took' \subseteq Piece
    BY <1>1, <1>5, AllMoved
  <2>. QED
    BY <1>5, <2>1 DEF terminated_read, LineTypeOK, Phases, ghosts, All
<1>6. ASSUME GiveUp
      PROVE  LineTypeOK'
  BY <1>6 DEF GiveUp, LineTypeOK, Phases, line
<1>7. ASSUME Arrive
      PROVE  LineTypeOK'
  <2>1. transit' \in Seq(Piece) /\ input' \in Seq(Piece) /\ took' \subseteq Piece
    BY <1>1, <1>7, AllMoved
  <2>. QED
    BY <1>7, <2>1 DEF Arrive, LineTypeOK, host, ghosts, All
<1>8. ASSUME Return
      PROVE  LineTypeOK'
  BY <1>8 DEF Return, LineTypeOK, Phases, line, ghosts
<1>. QED
  BY <1>2, <1>3, <1>4, <1>5, <1>6, <1>7, <1>8 DEF LineNext, Exchange

LEMMA QuietStep ==
  ASSUME LineInv, LineNext
  PROVE  Quiet'
<1>. USE DEF LineInv
<1>1. SUFFICES ASSUME calm'
               PROVE  Quiet'
  BY DEF Quiet
<1>2. ASSUME NEW t \in Routines, NEW r \in BOOLEAN, Begin(t, r)
      PROVE  Quiet'
  BY <1>1, <1>2 DEF Begin, Quiet, line, Unwritten
<1>3. ASSUME Flush
      PROVE  Quiet'
  BY <1>1, <1>3 DEF Flush, serialFlush, Quiet, ghosts, Unwritten
<1>4. ASSUME NEW says \in Says, Write(says)
      PROVE  Quiet'
  <2>1. calm /\ phase = "write" /\ Unwritten
    BY <1>1, <1>4, Written DEF Unwritten
  <2>2. transit = <<>> /\ input = <<>> /\ took = {}
    BY <2>1 DEF Quiet, Course
  <2>3. talker \in Routines /\ talker' = talker /\ phase' \in {"discard", "read", "done"}
    BY <1>4, Written DEF LineTypeOK
  <2>4. CASE reads
    <3>1. asked' = asked + 1
      BY <1>4, <2>4, Written
    <3>2. All(OwnPiece(talker, asked + 1))
      BY <2>2, EmptyIsSeq DEF All
    <3>3. /\ transit' \in Seq(OwnPiece(talker, asked + 1)) /\ input' \in Seq(OwnPiece(talker, asked + 1))
          /\ took' \subseteq OwnPiece(talker, asked + 1)
      BY <1>4, <3>2, AllWritten
    <3>. QED
      BY <2>3, <3>1, <3>3 DEF Quiet, Unwritten, All
  <2>5. CASE ~reads
    <3>1. transit' = <<>> /\ input' = <<>> /\ took' = {}
      BY <1>4, <2>2, <2>5, Written
    <3>. QED
      BY <2>3, <3>1, EmptyIsSeq DEF Quiet, Unwritten, All
  <2>. QED
    BY <2>4, <2>5 DEF LineTypeOK
<1>5. ASSUME Discard \/ Purge \/ GiveUp \/ Return \/ terminated_read \/ Arrive
      PROVE  Quiet'
  <2>1. ~Unwritten
    <3>1. CASE Arrive
      BY <1>1, <3>1 DEF Arrive, Quiet, ghosts, Unwritten
    <3>2. CASE ~Arrive
      BY <1>5, <3>2 DEF Discard, Purge, GiveUp, Return, terminated_read, Unwritten
    <3>. QED
      BY <3>1, <3>2
  <2>2. calm /\ UNCHANGED <<talker, asked>> /\ phase' \notin {"flush", "write"}
    BY <1>1, <1>5, <2>1 DEF Discard, Purge, GiveUp, Return, terminated_read, Arrive, host, ghosts, Unwritten
  <2>3. All(OwnPiece(talker, asked))
    BY <2>1, <2>2 DEF Quiet
  <2>4. /\ transit' \in Seq(OwnPiece(talker, asked)) /\ input' \in Seq(OwnPiece(talker, asked))
        /\ took' \subseteq OwnPiece(talker, asked)
    BY <1>5, <2>3, AllMoved
  <2>. QED
    BY <2>2, <2>4 DEF Quiet, Unwritten, All
<1>. QED
  BY <1>2, <1>3, <1>4, <1>5 DEF LineNext, Exchange

LEMMA CourseStep ==
  ASSUME LineInv, LineNext
  PROVE  Course'
<1>. USE DEF LineInv
<1>1. stage \in Nat \ {0} /\ reads \in BOOLEAN
  BY DEF LineTypeOK, Course
<1>2. ASSUME NEW t \in Routines, NEW r \in BOOLEAN, Begin(t, r)
      PROVE  Course'
  BY <1>2 DEF Begin, Course, Unwritten
<1>3. ASSUME Flush \/ Discard \/ Purge
      PROVE  Course'
  BY <1>3 DEF Flush, Discard, Purge, Course, Unwritten
<1>4. ASSUME NEW says \in Says, Write(says)
      PROVE  Course'
  <2>1. UNCHANGED <<stage, reads, talker>> /\ phase' \in {"discard", "read", "done"}
    BY <1>4, Written
  <2>2. CASE reads
    BY <1>4, <2>1, <2>2, Written DEF Course, Unwritten
  <2>3. CASE ~reads
    BY <1>4, <2>1, <2>3, Written DEF Course, Unwritten
  <2>. QED
    BY <1>1, <2>2, <2>3
<1>5. ASSUME terminated_read
      PROVE  Course'
  <2>1. phase = "read" /\ outcome = "none" /\ reads /\ UNCHANGED <<reads, talker>>
    BY <1>5 DEF terminated_read, Course
  <2>2. stage' \in {stage, stage + 1}
    BY <1>5 DEF terminated_read
  <2>3. \/ stage' > Len(talker'.until) /\ phase' = "done" /\ outcome' = "answer"
        \/ UNCHANGED <<phase, outcome>>
    BY <1>5 DEF terminated_read
  <2>. QED
    BY <1>1, <2>1, <2>2, <2>3 DEF Course, Unwritten
<1>6. ASSUME GiveUp
      PROVE  Course'
  BY <1>1, <1>6 DEF GiveUp, Course, Unwritten
<1>7. ASSUME Arrive \/ Return
      PROVE  Course'
  BY <1>7 DEF Arrive, Return, Course, Unwritten, host
<1>. QED
  BY <1>2, <1>3, <1>4, <1>5, <1>6, <1>7 DEF LineNext, Exchange

LEMMA AccountStep ==
  ASSUME LineInv, LineNext
  PROVE  Account'
<1>. USE DEF LineInv
<1>1. SUFFICES ASSUME calm', ~Unwritten'
               PROVE  Account'
  BY DEF Account
<1>2. /\ stage \in Nat \ {0} /\ reads \in BOOLEAN /\ talker \in Routines
      /\ transit \in Seq(Piece) /\ input \in Seq(Piece) /\ Len(transit) \in Nat /\ Len(input) \in Nat
      /\ Len(talker.until) \in Nat \ {0} /\ Len(talker.sends) \in Nat /\ talker.keep \in Nat
  BY RoutinesAssumption, LenProperties DEF LineTypeOK, Course
<1>3. \A t \in Routines, r \in BOOLEAN : ~Begin(t, r)
  BY <1>1 DEF Begin, Unwritten
<1>4. ~Flush
  BY <1>1 DEF Flush, Unwritten
<1>5. ASSUME NEW says \in Says, Write(says)
      PROVE  Account'
  <2>1. calm /\ phase = "write" /\ UNCHANGED <<talker, reads, stage, took, input>>
    BY <1>1, <1>5, Written
  <2>2. transit = <<>> /\ input = <<>> /\ took = {} /\ stage = 1
    BY <2>1 DEF Quiet, Course, Unwritten
  <2>3. CASE reads
    <3>1. PICK more \in Coming(says) : transit' = transit \o more /\ (more # <<>> => asked' \in heard')
      BY <1>5, <2>3, Written
    <3>2. transit' = more /\ Len(more) \in Nat /\ Len(more) <= Len(talker.sends)
      BY <2>2, <3>1, ComingOwn, SeqSteps
    <3>. QED
      BY <1>2, <2>1, <2>2, <2>3, <3>1, <3>2, EmptySeq DEF Account, Keeps
  <2>4. CASE ~reads
    <3>1. transit' = <<>>
      BY <1>5, <2>2, <2>4, Written
    <3>. QED
      BY <1>2, <2>1, <2>2, <2>4, <3>1, EmptySeq DEF Account, Keeps
  <2>. QED
    BY <1>2, <2>3, <2>4
<1>6. ASSUME Discard \/ Purge \/ GiveUp \/ Return
      PROVE  Account'
  <2>1. calm /\ ~Unwritten /\ UNCHANGED <<talker, reads, stage, took, asked, heard, transit>>
    BY <1>1, <1>6 DEF Discard, Purge, GiveUp, Return, Unwritten, line, ghosts
  <2>2. input' \in {input, <<>>}
    BY <1>6 DEF Discard, Purge, GiveUp, Return, serialFlush, line
  <2>. QED
    BY <1>2, <2>1, <2>2, EmptySeq DEF Account, Keeps
<1>7. ASSUME Arrive
      PROVE  Account'
  <2>1. calm /\ ~Unwritten /\ UNCHANGED <<talker, reads, stage, took, asked, heard>> /\ transit # <<>>
    BY <1>1, <1>7 DEF Arrive, Unwritten, host, ghosts
  <2>2. Len(input') = Len(input) + 1 /\ Len(transit') = Len(transit) - 1
    BY <1>2, <1>7, <2>1 DEF Arrive
  <2>. QED
    BY <1>2, <2>1, <2>2 DEF Account, Keeps
<1>8. ASSUME terminated_read
      PROVE  Account'
  <2>1. calm /\ ~Unwritten /\ UNCHANGED <<talker, reads, asked, heard, transit>> /\ input # <<>>
    BY <1>1, <1>8 DEF terminated_read, Unwritten, ghosts
  <2>2. input' = Tail(input) /\ Len(input') = Len(input) - 1
    BY <1>2, <1>8, <2>1 DEF terminated_read
  <2>3. stage' \in {stage, stage + 1}
    BY <1>8 DEF terminated_read
  <2>4. reads /\ asked \in heard
    BY <1>8, <2>1 DEF terminated_read, Account, Course
  <2>5. ASSUME Keeps(talker), stage' > talker.keep
        PROVE  took' # {}
    <3>1. CASE stage > talker.keep
      BY <1>8, <2>1, <2>5, <3>1 DEF terminated_read, Account
    <3>2. CASE ~(stage > talker.keep)
      <4>1. stage = talker.keep /\ stage' = stage + 1
        BY <1>2, <2>3, <2>5, <3>2
      <4>2. Head(input).ends \in talker.until[talker.keep]
        BY <1>2, <1>8, <4>1 DEF terminated_read
      <4>3. input \in Seq(OwnPiece(talker, asked))
        BY <2>1 DEF Quiet, All
      <4>4. Head(input) \in OwnPiece(talker, asked)
        BY <2>1, <4>3, SeqSteps
      <4>5. Head(input).text
        BY <2>5, <4>2, <4>4 DEF OwnPiece, Keeps
      <4>. QED
        BY <1>8, <4>1, <4>5 DEF terminated_read
    <3>. QED
      BY <3>1, <3>2
  <2>. QED
    BY <1>2, <2>1, <2>2, <2>3, <2>4, <2>5 DEF Account
<1>. QED
  BY <1>3, <1>4, <1>5, <1>6, <1>7, <1>8 DEF LineNext, Exchange

LEMMA LineBegins == LineInit => LineInv
<1>1. ASSUME LineInit
      PROVE  LineInv
  <2>1. Len(talker.until) \in Nat \ {0} /\ talker.keep \in Nat
    BY <1>1, RoutinesAssumption DEF LineInit
  <2>2. LineTypeOK /\ Quiet /\ Course
    BY <1>1, EmptyIsSeq DEF LineInit, LineTypeOK, Quiet, Course, Unwritten, Phases, All
  <2>3. Account
    BY <1>1, <2>1, EmptySeq DEF LineInit, Account, Keeps
  <2>. QED
    BY <2>2, <2>3 DEF LineInv
<1>. QED
  BY <1>1

LEMMA LineStep == LineInv /\ [LineNext]_lineVars => LineInv'
<1>1. CASE LineNext
  BY <1>1, TypeStep, QuietStep, CourseStep, AccountStep DEF LineInv
<1>2. CASE UNCHANGED lineVars
  <2>1. UNCHANGED <<phase, talker, reads, stage, took, outcome, asked, heard, transit, input>>
    BY <1>2 DEF lineVars, host, line
  <2>2. UNCHANGED <<calm, missed, late, faults>>
    BY <1>2 DEF lineVars, ghosts
  <2>. QED
    BY <2>1, <2>2 DEF LineInv, LineTypeOK, Quiet, Course, Account, Unwritten, All
<1>. QED
  BY <1>1, <1>2

LEMMA QuietInStep == LineInv => InStep
  BY DEF LineInv, LineTypeOK, Quiet, Course, Unwritten, All, InStep, OwnPiece

\* The line alone keeps its types.
THEOREM LineTyped == LineSpec => []LineTypeOK
  BY LineBegins, LineStep, PTL DEF LineSpec, LineInv

\* The line alone, used by any of the routines in any order: an answer that was
\* waited for on a quiet line is the answer to the question asked.
THEOREM LineInStep == LineSpec => []InStep
  BY LineBegins, LineStep, QuietInStep, PTL DEF LineSpec
-----------------------------------------------------------------------------
(* The line under the operations of an instrument.                         *)

Asking ==
  /\ kit \in Kits /\ motor \in MotorStates /\ before \in MotorStates
  /\ talker \in Asks(kit) \cup {PF}
  /\ lateThen \in Nat /\ lateThen <= late
  /\ status = "busy" \/ Looks(op) => op \in kit
  /\ status = "busy" =>
       /\ at \in 1 .. Len(op.questions)
       /\ tried \in Nat \ {0} /\ (tried > 1 => op.questions[at].tries > 1)
       /\ talker = op.questions[at].by /\ reads = op.questions[at].reads

\* What is known of a question of an operation.
LEMMA QuestionFacts ==
  ASSUME NEW k \in Kits, NEW o \in k, NEW i \in 1 .. Len(o.questions)
  PROVE  /\ Len(o.questions) \in Nat \ {0}
         /\ o.questions[i].by \in Asks(k)
         /\ o.questions[i].by \in Routines /\ o.questions[i].reads \in BOOLEAN
         /\ o.questions[i].tries \in Nat
         /\ 1 \notin o.questions[i].by.optional
         /\ Len(o.questions) > 1 \/ o.questions[i].tries > 1 =>
              Len(o.questions[i].by.sends) <= Len(o.questions[i].by.until)
<1>1. Len(o.questions) \in Nat \ {0} /\ o.questions[i].by \in Routines /\ o.questions[i].reads \in BOOLEAN
  BY InstrumentsAssumption
<1>2. o.questions[i].by \in Asks(k)
  BY DEF Asks
<1>. QED
  BY <1>1, <1>2, TablesAssumption

LEMMA AskingBegins == Init => Asking
  BY DEF Init, LineInit, Asking, MotorStates, Looks, Op

\* What the last question brought.
Saw == IF took = {} THEN "nothing" ELSE (CHOOSE piece \in took : TRUE).says

\* The two ways on from a question.
Stops == ~Good(op.questions[at]) \/ at = Len(op.questions) \/ (op.movingEnds /\ Saw = "moving")

LEMMA ConcludeCases ==
  ASSUME Conclude
  PROVE  /\ status = "busy" /\ phase = "done"
         /\ ~(outcome = "lost" /\ tried < op.questions[at].tries)
         /\ told' = Append(told, Saw)
         /\ UNCHANGED <<motor, kit, op, calls, before, sure, lateThen, late>>
         /\ \/ /\ Stops /\ Return /\ UNCHANGED <<at, tried>>
               /\ status' = IF Good(op.questions[at]) THEN "ok" ELSE "failed"
            \/ /\ ~Stops /\ Begin(op.questions[at + 1].by, op.questions[at + 1].reads)
               /\ at' = at + 1 /\ tried' = 1 /\ UNCHANGED status
<1>1. told' = Append(told, Saw)
  BY DEF Conclude, Saw
<1>2. \/ /\ Stops /\ Return /\ UNCHANGED <<at, tried>>
         /\ status' = IF Good(op.questions[at]) THEN "ok" ELSE "failed"
      \/ /\ ~Stops /\ Begin(op.questions[at + 1].by, op.questions[at + 1].reads)
         /\ at' = at + 1 /\ tried' = 1 /\ UNCHANGED status
  BY DEF Conclude, Stops, Saw
<1>3. late' = late
  BY <1>2 DEF Return, Begin, ghosts
<1>. QED
  BY <1>1, <1>2, <1>3 DEF Conclude

LEMMA GoesOn ==
  ASSUME Asking, Conclude, ~Stops
  PROVE  /\ at + 1 \in 1 .. Len(op.questions) /\ Len(op.questions) > 1
         /\ at' = at + 1 /\ tried' = 1 /\ status = "busy" /\ UNCHANGED status
         /\ Begin(op.questions[at + 1].by, op.questions[at + 1].reads)
<1>1. op \in kit /\ kit \in Kits /\ at \in 1 .. Len(op.questions)
  BY ConcludeCases DEF Asking
<1>2. Len(op.questions) \in Nat /\ at # Len(op.questions)
  BY <1>1, QuestionFacts DEF Stops
<1>. QED
  BY <1>1, <1>2, ConcludeCases

LEMMA AskingStep ==
  ASSUME Asking, LineInv, [Next]_vars
  PROVE  Asking'
<1>1. late \in Nat /\ late' \in Nat /\ late <= late' /\ kit \in Kits
  <2>1. late \in Nat
    BY DEF LineInv, LineTypeOK
  <2>2. late' \in {late, late + 1}
    <3>1. CASE \E o \in kit : Call(o)
      BY <3>1 DEF Call, Begin
    <3>2. CASE Exchanging
      <4>1. CASE GiveUp
        BY <2>1, <4>1 DEF GiveUp
      <4>2. CASE ~GiveUp
        BY <3>2, <4>2 DEF Exchanging, Exchange, Flush, Write, Discard, terminated_read, Purge, ghosts
      <4>. QED
        BY <4>1, <4>2
    <3>3. CASE Again \/ Turn \/ Arriving \/ UNCHANGED vars
      BY <3>3 DEF Again, Begin, Turn, Arriving, Arrive, vars, lineVars, ghosts
    <3>4. CASE Conclude
      BY <3>4, ConcludeCases
    <3>. QED
      BY <3>1, <3>2, <3>3, <3>4 DEF Next
  <2>. QED
    BY <2>1, <2>2 DEF Asking
<1>2. ASSUME NEW o \in kit, Call(o)
      PROVE  Asking'
  <2>1. 1 \in 1 .. Len(o.questions) /\ o.questions[1].by \in Asks(kit)
    BY <1>1, QuestionFacts, InstrumentsAssumption
  <2>. QED
    BY <1>1, <1>2, <2>1 DEF Call, Begin, Asking
<1>3. CASE Exchanging
  <2>1. UNCHANGED <<talker, reads>>
    BY <1>3 DEF Exchanging, Exchange, Flush, Write, Discard, terminated_read, GiveUp, Purge
  <2>. QED
    BY <1>1, <1>3, <2>1 DEF Exchanging, Asking, call
<1>4. CASE Again
  <2>1. /\ status = "busy" /\ outcome = "lost" /\ tried < op.questions[at].tries
        /\ tried' = tried + 1 /\ talker' = op.questions[at].by /\ reads' = TRUE
        /\ UNCHANGED <<motor, kit, op, at, status, before, lateThen>>
    BY <1>4 DEF Again, Begin
  <2>2. /\ op \in kit /\ at \in 1 .. Len(op.questions) /\ tried \in Nat \ {0}
        /\ reads = op.questions[at].reads /\ talker = op.questions[at].by
    BY <2>1 DEF Asking
  <2>3. reads
    BY <2>1 DEF LineInv, Course
  <2>4. op.questions[at].tries > 1 /\ op.questions[at].reads = TRUE
    <3>1. op.questions[at].tries \in Nat /\ op.questions[at].reads \in BOOLEAN
      BY <1>1, <2>2, QuestionFacts
    <3>. QED
      BY <2>1, <2>2, <2>3, <3>1
  <2>5. reads' = op'.questions[at'].reads
    BY <2>1, <2>4
  <2>6. talker' = op'.questions[at'].by /\ talker' \in Asks(kit') \cup {PF}
    BY <2>1, <2>2 DEF Asking
  <2>7. /\ at' \in 1 .. Len(op'.questions) /\ tried' \in Nat \ {0}
        /\ op'.questions[at'].tries > 1
    BY <2>1, <2>2, <2>4
  <2>8. /\ kit' \in Kits /\ motor' \in MotorStates /\ before' \in MotorStates
        /\ lateThen' \in Nat /\ lateThen' <= late' /\ op' \in kit'
    BY <1>1, <2>1, <2>2 DEF Asking
  <2>. QED
    BY <2>5, <2>6, <2>7, <2>8 DEF Asking
<1>5. CASE Conclude
  <2>1. CASE Stops
    <3>1. status' # "busy" /\ UNCHANGED <<kit, motor, before, op, talker, lateThen>> /\ status = "busy"
      BY <1>5, <2>1, ConcludeCases DEF Return
    <3>. QED
      BY <1>1, <3>1 DEF Asking
  <2>2. CASE ~Stops
    <3>1. /\ at + 1 \in 1 .. Len(op.questions) /\ at' = at + 1 /\ tried' = 1 /\ status = "busy"
          /\ talker' = op.questions[at + 1].by /\ reads' = op.questions[at + 1].reads
          /\ UNCHANGED <<kit, motor, before, op, lateThen, status>>
      BY <1>5, <2>2, GoesOn, ConcludeCases DEF Begin
    <3>2. op.questions[at + 1].by \in Asks(kit) /\ op \in kit
      BY <1>1, <3>1, QuestionFacts DEF Asking
    <3>. QED
      BY <1>1, <3>1, <3>2 DEF Asking
  <2>. QED
    BY <2>1, <2>2
<1>6. CASE Turn
  BY <1>6 DEF Turn, Asking, call, lineVars, host, ghosts, MotorStates
<1>7. CASE Arriving \/ UNCHANGED vars
  BY <1>7 DEF Arriving, Arrive, vars, call, Asking, lineVars, host, ghosts
<1>. QED
  BY <1>2, <1>3, <1>4, <1>5, <1>6, <1>7 DEF Next

\* What an instrument answers.
Answers == IF Looks(op) THEN motor ELSE "sound"

\* An operation does nothing to the line that an exchange does not.
LEMMA StepsOfLine ==
  ASSUME Asking, [Next]_vars
  PROVE  [LineNext]_lineVars
<1>1. kit \in Kits
  BY DEF Asking
<1>2. ASSUME NEW o \in kit, Call(o)
      PROVE  LineNext
  <2>1. 1 \in 1 .. Len(o.questions)
    BY <1>1, InstrumentsAssumption
  <2>2. o.questions[1].by \in Routines /\ o.questions[1].reads \in BOOLEAN
    BY <1>1, <2>1, QuestionFacts
  <2>. QED
    BY <1>2, <2>2 DEF Call, LineNext
<1>3. CASE Exchanging
  <2>1. Answers \in Says
    BY InstrumentsAssumption DEF Asking, Answers
  <2>. QED
    BY <1>3, <2>1 DEF Exchanging, LineNext, Answers
<1>4. CASE Again
  <2>1. op \in kit /\ at \in 1 .. Len(op.questions)
    BY <1>4 DEF Again, Asking
  <2>2. op.questions[at].by \in Routines
    BY <1>1, <2>1, QuestionFacts
  <2>. QED
    BY <1>4, <2>2 DEF Again, LineNext
<1>5. CASE Conclude
  <2>1. CASE Stops
    BY <1>5, <2>1, ConcludeCases DEF LineNext
  <2>2. CASE ~Stops
    <3>1. op \in kit /\ at + 1 \in 1 .. Len(op.questions)
      BY <1>5, <2>2, GoesOn DEF Asking
    <3>2. op.questions[at + 1].by \in Routines /\ op.questions[at + 1].reads \in BOOLEAN
      BY <1>1, <3>1, QuestionFacts
    <3>. QED
      BY <1>5, <2>2, <3>2, GoesOn DEF LineNext
  <2>. QED
    BY <2>1, <2>2
<1>6. CASE Arriving \/ Turn \/ UNCHANGED vars
  BY <1>6 DEF Arriving, LineNext, Turn, vars
<1>. QED
  BY <1>2, <1>3, <1>4, <1>5, <1>6 DEF Next

CallInv == LineInv /\ Asking

LEMMA CallBegins == Init => CallInv
  BY LineBegins, AskingBegins DEF Init, CallInv

LEMMA CallStep == CallInv /\ [Next]_vars => CallInv'
  BY StepsOfLine, LineStep, AskingStep DEF CallInv

LEMMA CallInvariant == Spec => []CallInv
  BY CallBegins, CallStep, PTL DEF Spec

\* The operations of the drivers, for any instruments that ask by the routines
\* of the line: what an exchange begun on a quiet line brings is the answer to
\* its own question.
THEOREM InStepAlways == Spec => []InStep
<1>1. CallInv => InStep
  BY QuietInStep DEF CallInv
<1>. QED
  BY <1>1, CallInvariant, PTL
-----------------------------------------------------------------------------
(* What an operation reports.                                              *)

\* As long as nothing comes late, an operation asks on a quiet line, has read an
\* answer to its end before it asks again, and every question before was answered.
Reporting ==
  Undisturbed =>
    /\ status = "busy" => calm /\ own
    /\ status = "busy" /\ phase \in {"purge", "done"} /\ Len(talker.sends) <= Len(talker.until) =>
         transit = <<>> /\ input = <<>>
    /\ status = "ok" => own

\* A question whose answer is good is answered by its own.
LEMMA OwnQuestion ==
  ASSUME CallInv, status = "busy", phase = "done", calm, Good(op.questions[at]),
         op.questions[at].reads, op.questions[at].lost = "stop"
  PROVE  /\ outcome = "answer" /\ asked \in heard /\ stage > 1
         /\ stage > Len(talker.until) \/ stage \in talker.optional
         /\ \A piece \in took : piece.to = asked
         /\ op.questions[at].bad = "stop" => Sound
<1>. DEFINE question == op.questions[at]
<1>1. /\ kit \in Kits /\ op \in kit /\ at \in 1 .. Len(op.questions)
      /\ talker = question.by /\ reads = question.reads
  BY DEF CallInv, Asking
<1>2. outcome # "sent"
  BY <1>1 DEF CallInv, LineInv, Course
<1>3. outcome = "answer" /\ (question.bad = "stop" => Sound)
  BY <1>2 DEF Good
<1>4. stage > Len(talker.until) \/ stage \in talker.optional
  BY <1>3 DEF CallInv, LineInv, Course
<1>5. stage > 1
  <2>1. 1 \notin talker.optional /\ talker \in Routines
    BY <1>1, QuestionFacts
  <2>2. Len(talker.until) \in Nat \ {0} /\ stage \in Nat \ {0}
    BY <2>1, RoutinesAssumption DEF CallInv, LineInv, LineTypeOK, Course
  <2>. QED
    BY <1>4, <2>1, <2>2
<1>6. asked \in heard
  BY <1>5 DEF CallInv, LineInv, Account, Unwritten
<1>7. \A piece \in took : piece.to = asked
  BY <1>3, QuietInStep DEF CallInv, InStep
<1>. QED
  BY <1>3, <1>4, <1>5, <1>6, <1>7

\* Answers that have been read to their end leave nothing behind.
LEMMA ReadOut ==
  ASSUME CallInv, Reporting, Undisturbed, status = "busy", phase = "done",
         Len(op.questions) > 1 \/ op.questions[at].tries > 1
  PROVE  transit = <<>> /\ input = <<>>
<1>1. op \in kit /\ kit \in Kits /\ at \in 1 .. Len(op.questions) /\ talker = op.questions[at].by
  BY DEF CallInv, Asking
<1>2. Len(talker.sends) <= Len(talker.until)
  BY <1>1, QuestionFacts
<1>. QED
  BY <1>2 DEF Reporting

LEMMA ReportingExchange ==
  ASSUME CallInv, CallInv', Reporting, Exchanging, Undisturbed'
  PROVE  Reporting' /\ Undisturbed /\ calm'
<1>1. status = "busy" /\ UNCHANGED <<status, sure, lateThen, own>>
  BY DEF Exchanging, call
<1>2. late \in Nat /\ lateThen \in Nat /\ lateThen <= late
  BY DEF CallInv, Asking, LineInv, LineTypeOK
<1>3. /\ Len(talker'.until) \in Nat \ {0} /\ stage' \in Nat /\ reads' \in BOOLEAN
      /\ Len(transit') \in Nat /\ Len(input') \in Nat
      /\ Len(transit') = 0 => transit' = <<>>
      /\ Len(input') = 0 => input' = <<>>
  <2>1. LineTypeOK'
    BY DEF CallInv, LineInv
  <2>2. talker' \in Routines /\ stage' \in Nat /\ reads' \in BOOLEAN
    BY <2>1 DEF LineTypeOK
  <2>3. transit' \in Seq(Piece) /\ input' \in Seq(Piece)
    BY <2>1 DEF LineTypeOK
  <2>. QED
    BY <2>2, <2>3, RoutinesAssumption, EmptySeq, LenProperties
<1>4. ASSUME Undisturbed, calm'
      PROVE  calm /\ own /\ own'
  BY <1>1, <1>4 DEF Reporting
<1>5. SUFFICES /\ Undisturbed /\ calm'
               /\ phase' \in {"purge", "done"} /\ Len(talker'.sends) <= Len(talker'.until) =>
                    transit' = <<>> /\ input' = <<>>
  BY <1>1, <1>4 DEF Reporting
<1>6. CASE GiveUp
  <2>1. late' = late /\ transit = <<>> /\ input = <<>> /\ UNCHANGED <<transit, input, calm>>
    BY <1>1, <1>2, <1>6 DEF GiveUp, Undisturbed, line
  <2>. QED
    BY <1>1, <2>1 DEF Undisturbed, Reporting
<1>7. CASE ~GiveUp
  <2>1. UNCHANGED <<late, calm>>
    BY <1>7 DEF Exchanging, Exchange, Flush, Write, Discard, terminated_read, Purge, ghosts
  <2>2. Undisturbed /\ calm /\ calm'
    BY <1>1, <2>1 DEF Undisturbed, Reporting
  <2>3. CASE Flush
    BY <2>2, <2>3 DEF Flush
  <2>4. ASSUME NEW says \in Says, Write(says)
        PROVE  phase' \in {"purge", "done"} => transit' = <<>> /\ input' = <<>>
    <3>1. phase' \in {"purge", "done"} => ~reads /\ UNCHANGED <<transit, input>>
      BY <2>4, Written DEF CallInv, LineInv, LineTypeOK
    <3>2. transit = <<>> /\ input = <<>>
      BY <2>2, <2>4 DEF Write, CallInv, LineInv, Quiet
    <3>. QED
      BY <3>1, <3>2
  <2>5. CASE Discard
    <3>1. phase' \in {"purge", "done"} => ~reads'
      BY <2>5 DEF Discard
    <3>2. ~reads' /\ phase' = "done" => transit' = <<>> /\ input' = <<>>
      BY <2>2 DEF CallInv, LineInv, Account, Unwritten
    <3>. QED
      BY <2>2, <2>5, <3>1, <3>2 DEF Discard
  <2>6. CASE terminated_read
    <3>1. phase' \in {"purge", "done"} => stage' > Len(talker'.until)
      BY <2>6 DEF terminated_read
    <3>2. phase' \in {"purge", "done"} /\ Len(talker'.sends) <= Len(talker'.until) =>
            Len(input') + Len(transit') + stage' <= Len(talker'.until) + 1
      BY <2>2 DEF CallInv, LineInv, Account, Unwritten
    <3>. QED
      BY <1>3, <2>2, <3>1, <3>2
  <2>7. CASE Purge
    BY <1>1, <2>2, <2>7 DEF Purge, serialFlush, Reporting
  <2>8. (\E says \in Says : Write(says)) \/ Flush \/ Discard \/ terminated_read \/ Purge
    <3>1. Answers \in Says
      BY InstrumentsAssumption DEF CallInv, Asking, Answers
    <3>. QED
      BY <1>7, <3>1 DEF Exchanging, Exchange, Answers
  <2>. QED
    BY <2>2, <2>3, <2>4, <2>5, <2>6, <2>7, <2>8
<1>. QED
  BY <1>6, <1>7

LEMMA ReportingStep ==
  ASSUME CallInv, CallInv', Reporting, [Next]_vars
  PROVE  Reporting'
<1>1. SUFFICES ASSUME Undisturbed'
               PROVE  Reporting'
  BY DEF Reporting
<1>2. ASSUME NEW o \in kit, Call(o)
      PROVE  Reporting'
  BY <1>1, <1>2 DEF Call, Begin, Reporting, Undisturbed
<1>3. CASE Exchanging
  BY <1>1, <1>3, ReportingExchange
<1>4. CASE Again
  <2>1. /\ status = "busy" /\ phase = "done" /\ outcome = "lost" /\ tried < op.questions[at].tries
        /\ UNCHANGED <<status, sure, late, lateThen, own>>
        /\ phase' \in {"flush", "write"}
        /\ calm' = (transit = <<>> /\ (op.questions[at].by.flush = "before" \/ input = <<>>))
    BY <1>4 DEF Again, Begin
  <2>2. Undisturbed
    BY <1>1, <2>1 DEF Undisturbed
  <2>3. op.questions[at].tries > 1
    <3>1. tried \in Nat \ {0} /\ op.questions[at].tries \in Nat
      BY <2>1, QuestionFacts DEF CallInv, Asking
    <3>. QED
      BY <2>1, <3>1
  <2>4. transit = <<>> /\ input = <<>>
    BY <2>1, <2>2, <2>3, ReadOut
  <2>. QED
    BY <2>1, <2>2, <2>4 DEF Reporting
<1>5. CASE Conclude
  <2>1. status = "busy" /\ phase = "done" /\ UNCHANGED <<sure, late, lateThen>>
    BY <1>5, ConcludeCases
  <2>2. Undisturbed /\ calm /\ own
    BY <1>1, <2>1 DEF Undisturbed, Reporting
  <2>3. ASSUME Good(op.questions[at])
        PROVE  own'
    <3>1. op.questions[at].reads /\ op.questions[at].lost = "stop" =>
            /\ asked \in heard
            /\ outcome = "answer" /\ \A piece \in took : piece.to = asked
            /\ op.questions[at].bad = "stop" => Sound
      BY <2>1, <2>2, <2>3, OwnQuestion
    <3>. QED
      BY <1>5, <2>2, <3>1 DEF Conclude
  <2>4. CASE Stops
    BY <1>5, <2>1, <2>3, <2>4, ConcludeCases DEF Reporting
  <2>5. CASE ~Stops
    <3>1. Len(op.questions) > 1 /\ Begin(op.questions[at + 1].by, op.questions[at + 1].reads) /\ status' = "busy"
      BY <1>5, <2>5, GoesOn DEF CallInv
    <3>2. transit = <<>> /\ input = <<>>
      BY <2>1, <2>2, <3>1, ReadOut
    <3>3. calm' /\ phase' \in {"flush", "write"}
      BY <3>1, <3>2 DEF Begin
    <3>4. own'
      BY <2>3, <2>5 DEF Stops
    <3>. QED
      BY <3>1, <3>3, <3>4 DEF Reporting
  <2>. QED
    BY <2>4, <2>5
<1>6. CASE Turn \/ UNCHANGED vars
  <2>1. UNCHANGED <<status, sure, late, lateThen, own, phase, talker, transit, input, calm>>
    BY <1>6 DEF Turn, vars, lineVars, host, line, ghosts, call
  <2>. QED
    BY <2>1 DEF Reporting, Undisturbed
<1>7. CASE Arriving
  <2>1. /\ UNCHANGED <<status, sure, late, lateThen, own, phase, talker, calm>>
        /\ transit # <<>>
    BY <1>7 DEF Arriving, Arrive, host, ghosts, call
  <2>. QED
    BY <2>1 DEF Reporting, Undisturbed
<1>. QED
  BY <1>2, <1>3, <1>4, <1>5, <1>6, <1>7 DEF Next

LEMMA ReportingInvariant == Spec => []Reporting
<1>1. Init => Reporting
  BY DEF Init, Reporting
<1>2. CallInv /\ CallInv' /\ Reporting /\ [Next]_vars => Reporting'
  BY ReportingStep
<1>. QED
  BY <1>1, <1>2, CallInvariant, PTL DEF Spec

\* An operation that says it has succeeded has: each question that it does not go on
\* without was heard and answered by its own answer, for any table of questions, any
\* number of calls and any faults.
THEOREM ReportedAlways == Spec => []Reported
<1>1. Reporting => Reported
  BY DEF Reporting, Reported
<1>. QED
  BY <1>1, ReportingInvariant, PTL
-----------------------------------------------------------------------------
(* Types.                                                                  *)

Words == MotorStates \cup {"sound", "garbled"}

\* Nothing comes but what an instrument of the tables says.
Spoken ==
  /\ All(Saying(Piece, Words))
  /\ calls \in 0 .. MaxCalls /\ at \in Nat /\ tried \in Nat
  /\ told \in Seq(Words \cup {"nothing"})
  /\ status \in {"busy", "ok", "failed"} /\ sure \in BOOLEAN /\ own \in BOOLEAN

LEMMA SawWord ==
  ASSUME NEW S, took \subseteq S
  PROVE  took # {} => \E piece \in S : piece \in took /\ Saw = piece.says
  BY DEF Saw

LEMMA SpokenStep ==
  ASSUME CallInv, CallInv', Spoken, [Next]_vars
  PROVE  Spoken'
<1>. DEFINE S == Saying(Piece, Words)
<1>1. calls \in Nat /\ MaxCalls \in Nat
  BY InstrumentsAssumption DEF Spoken
<1>2. ASSUME NEW o \in kit, Call(o)
      PROVE  Spoken'
  <2>1. PICK t, r : Begin(t, r)
    BY <1>2 DEF Call
  <2>2. transit' \in Seq(S) /\ input' \in Seq(S) /\ took' = {}
    BY <2>1, AllBegun DEF Spoken
  <2>3. calls < MaxCalls /\ calls' = calls + 1 /\ at' = 1 /\ tried' = 1 /\ told' = <<>> /\ status' = "busy"
    BY <1>2 DEF Call
  <2>4. sure' \in BOOLEAN /\ own' \in BOOLEAN
    <3>1. calm' \in BOOLEAN
      BY DEF CallInv, LineInv, LineTypeOK
    <3>. QED
      BY <1>2, <3>1 DEF Call
  <2>. QED
    BY <1>1, <2>2, <2>3, <2>4, EmptyIsSeq DEF Spoken, All
<1>3. CASE Exchanging
  <2>1. UNCHANGED <<calls, at, tried, told, status, sure, own>>
    BY <1>3 DEF Exchanging, call
  <2>2. ASSUME Write(Answers)
        PROVE  transit' \in Seq(S) /\ input' \in Seq(S) /\ took' \subseteq S
    <3>1. Answers \in Says /\ Answers \in Words
      BY InstrumentsAssumption DEF CallInv, Asking, Answers, Words
    <3>2. Saying(Piece, {Answers, "garbled"}) \subseteq S
      BY <3>1 DEF Saying, Words
    <3>. QED
      BY <2>2, <3>1, <3>2, AllWrittenSaying DEF CallInv, LineInv, Spoken
  <2>3. ASSUME Flush \/ Discard \/ terminated_read \/ GiveUp \/ Purge
        PROVE  transit' \in Seq(S) /\ input' \in Seq(S) /\ took' \subseteq S
    BY <2>3, AllMoved DEF Spoken
  <2>. QED
    BY <1>3, <2>1, <2>2, <2>3 DEF Exchanging, Exchange, Answers, Spoken, All
<1>4. CASE Again
  <2>1. PICK t, r : Begin(t, r)
    BY <1>4 DEF Again
  <2>2. transit' \in Seq(S) /\ input' \in Seq(S) /\ took' = {}
    BY <2>1, AllBegun DEF Spoken
  <2>3. tried' = tried + 1 /\ UNCHANGED <<calls, at, told, status, sure, own>>
    BY <1>4 DEF Again
  <2>. QED
    BY <2>2, <2>3 DEF Spoken, All
<1>5. CASE Conclude
  <2>1. told' \in Seq(Words \cup {"nothing"})
    <3>1. Saw \in Words \cup {"nothing"}
      <4>1. took # {} => \E piece \in S : Saw = piece.says
        BY SawWord DEF Spoken, All
      <4>2. took = {} => Saw = "nothing"
        BY DEF Saw
      <4>. QED
        BY <4>1, <4>2 DEF Saying
    <3>. QED
      BY <1>5, <3>1, ConcludeCases, SeqSteps DEF Spoken
  <2>2. own' \in BOOLEAN
    BY <1>5 DEF Conclude
  <2>3. UNCHANGED <<calls, sure>>
    BY <1>5, ConcludeCases
  <2>4. CASE Stops
    <3>1. Return /\ UNCHANGED <<at, tried>> /\ status' \in {"ok", "failed"}
      BY <1>5, <2>4, ConcludeCases
    <3>2. transit' \in Seq(S) /\ input' \in Seq(S) /\ took' \subseteq S
      BY <3>1, AllMoved DEF Spoken
    <3>. QED
      BY <2>1, <2>2, <2>3, <3>1, <3>2 DEF Spoken, All
  <2>5. CASE ~Stops
    <3>1. /\ at' = at + 1 /\ tried' = 1 /\ status' = "busy"
          /\ Begin(op.questions[at + 1].by, op.questions[at + 1].reads)
      BY <1>5, <2>5, GoesOn DEF CallInv
    <3>2. transit' \in Seq(S) /\ input' \in Seq(S) /\ took' = {}
      BY <3>1, AllBegun DEF Spoken
    <3>. QED
      BY <2>1, <2>2, <2>3, <3>1, <3>2 DEF Spoken, All
  <2>. QED
    BY <2>4, <2>5
<1>6. CASE Turn \/ UNCHANGED vars
  BY <1>6 DEF Turn, vars, lineVars, host, line, call, Spoken, All
<1>7. CASE Arriving
  <2>1. transit' \in Seq(S) /\ input' \in Seq(S) /\ took' \subseteq S
    BY <1>7, AllMoved DEF Arriving, Spoken
  <2>. QED
    BY <1>7, <2>1 DEF Arriving, call, Spoken, All
<1>. QED
  BY <1>2, <1>3, <1>4, <1>5, <1>6, <1>7 DEF Next

LEMMA SpokenInvariant == Spec => []Spoken
<1>1. Init => Spoken
  BY InstrumentsAssumption, EmptyIsSeq DEF Init, LineInit, Spoken, All
<1>2. CallInv /\ CallInv' /\ Spoken /\ [Next]_vars => Spoken'
  BY SpokenStep
<1>. QED
  BY <1>1, <1>2, CallInvariant, PTL DEF Spec

\* The instruments keep their types.
THEOREM InstrumentsTyped == Spec => []TypeOK
<1>1. CallInv /\ Spoken => TypeOK
  <2>1. Words \cup {"nothing"} = MotorStates \cup {"sound", "garbled", "nothing"}
    BY DEF Words
  <2>. QED
    BY <2>1 DEF CallInv, LineInv, Asking, Spoken, TypeOK
<1>. QED
  BY <1>1, CallInvariant, SpokenInvariant, PTL
-----------------------------------------------------------------------------
(* What a status says of the motor.                                        *)

\* A motor only ever stops, so that what was said of it at some time since the call
\* is known to be so, unless it was said to move.
TrueOf(says) ==
  says \in MotorStates /\ IF says = "moving" THEN before = "moving" ELSE motor = says

Faithful == {piece \in Piece : piece.says = "garbled" \/ TrueOf(piece.says)}

LookedAt == {op.moving, op.plus, op.minus} \ {0}

Seeing ==
  /\ motor = before \/ before = "moving"
  /\ status = "busy" => Len(told) = at - 1
  /\ Looks(op) /\ status = "busy" /\ calm /\ ~Unwritten => All(Faithful)
  /\ Looks(op) /\ Undisturbed /\ status \in {"busy", "ok"} =>
       \A i \in LookedAt : i <= Len(told) => TrueOf(told[i])
  /\ Looks(op) /\ Undisturbed /\ status = "ok" =>
       Len(told) # 0 /\ (Len(told) = Len(op.questions) \/ before = "moving")

\* A question that is looked at brings a text, and a true one.
LEMMA SawTrue ==
  ASSUME CallInv, Reporting, Seeing, Undisturbed, status = "busy", phase = "done", Looks(op),
         Good(op.questions[at]), at \in LookedAt
  PROVE  TrueOf(Saw)
<1>. DEFINE question == op.questions[at]
<1>1. /\ kit \in Kits /\ op \in kit /\ at \in 1 .. Len(op.questions)
      /\ talker = question.by /\ reads = question.reads
  BY DEF CallInv, Asking
<1>2. calm /\ All(Faithful)
  BY DEF Reporting, Seeing, Unwritten
<1>3. question.reads /\ question.lost = "stop" /\ question.bad = "stop" /\ Keeps(talker)
  BY <1>1, TablesAssumption DEF LookedAt
<1>4. Sound /\ stage > 1 /\ (stage > Len(talker.until) \/ stage \in talker.optional)
  BY <1>2, <1>3, OwnQuestion
<1>5. stage > talker.keep
  <2>1. talker \in Routines
    BY <1>1, QuestionFacts
  <2>2. Len(talker.until) \in Nat /\ stage \in Nat /\ talker.keep \in 1 .. Len(talker.until)
    BY <1>3, <2>1, RoutinesAssumption DEF CallInv, LineInv, LineTypeOK, Keeps
  <2>. QED
    BY <1>3, <1>4, <2>2 DEF Keeps
<1>6. took # {}
  BY <1>2, <1>3, <1>5 DEF CallInv, LineInv, Account, Unwritten
<1>7. PICK piece \in Faithful : piece \in took /\ Saw = piece.says
  BY <1>2, <1>6, SawWord DEF All
<1>. QED
  BY <1>4, <1>7 DEF Faithful, Sound

\* Whatever brings the word that the motor moves, it moved when it was asked.
LEMMA SawMoving ==
  ASSUME CallInv, Reporting, Seeing, Undisturbed, status = "busy", phase = "done", Looks(op),
         Saw = "moving"
  PROVE  before = "moving"
<1>1. All(Faithful)
  BY DEF Reporting, Seeing, Unwritten
<1>2. took # {}
  BY DEF Saw
<1>3. PICK piece \in Faithful : piece \in took /\ Saw = piece.says
  BY <1>1, <1>2, SawWord DEF All
<1>. QED
  BY <1>3 DEF Faithful, TrueOf

LEMMA SeeingConclude ==
  ASSUME CallInv, Reporting, Seeing, Spoken, Conclude
  PROVE  Seeing'
<1>1. /\ status = "busy" /\ phase = "done" /\ told' = Append(told, Saw)
      /\ UNCHANGED <<motor, kit, op, before, sure, lateThen, late>>
  BY ConcludeCases
<1>2. told \in Seq(Words \cup {"nothing"}) /\ Len(told) \in Nat /\ Len(told) = at - 1
  BY <1>1, LenProperties DEF Spoken, Seeing
<1>3. /\ Saw \in Words \cup {"nothing"}
      /\ Len(told') = Len(told) + 1 /\ told'[Len(told) + 1] = Saw
      /\ \A i \in 1 .. Len(told) : told'[i] = told[i]
  <2>1. Saw \in Words \cup {"nothing"}
    <3>1. took # {} => \E piece \in Saying(Piece, Words) : Saw = piece.says
      BY SawWord DEF Spoken, All
    <3>2. took = {} => Saw = "nothing"
      BY DEF Saw
    <3>. QED
      BY <3>1, <3>2 DEF Saying
  <2>. QED
    BY <1>1, <1>2, <2>1, AppendProperties
<1>4. at \in 1 .. Len(op.questions) /\ op \in kit /\ kit \in Kits /\ Len(op.questions) \in Nat \ {0}
  BY <1>1, QuestionFacts DEF CallInv, Asking
<1>5. motor' = before' \/ before' = "moving"
  BY <1>1 DEF Seeing
<1>6. status' = "busy" => Len(told') = at' - 1
  <2>1. status' = "busy" => at' = at + 1
    BY ConcludeCases
  <2>. QED
    BY <1>2, <1>3, <1>4, <2>1
<1>7. ~(status' = "busy" /\ ~Unwritten')
  <2>1. CASE Stops
    BY <2>1, ConcludeCases
  <2>2. CASE ~Stops
    BY <2>2, ConcludeCases DEF Begin, Unwritten
  <2>. QED
    BY <2>1, <2>2
<1>8. ASSUME Looks(op'), Undisturbed', status' \in {"busy", "ok"}, NEW i \in LookedAt', i <= Len(told')
      PROVE  TrueOf(told[i])'
  <2>1. Looks(op) /\ Undisturbed /\ i \in LookedAt /\ Good(op.questions[at])
    <3>1. Good(op.questions[at])
      BY <1>8, ConcludeCases DEF Stops
    <3>. QED
      BY <1>1, <1>8, <3>1 DEF Undisturbed, LookedAt
  <2>2. i \in Nat \ {0}
    BY <1>4, <2>1, TablesAssumption DEF LookedAt
  <2>3. CASE i <= Len(told)
    <3>1. TrueOf(told[i])
      BY <1>1, <2>1, <2>3 DEF Seeing
    <3>2. told'[i] = told[i]
      BY <1>2, <1>3, <2>2, <2>3
    <3>. QED
      BY <1>1, <3>1, <3>2 DEF TrueOf
  <2>4. CASE ~(i <= Len(told))
    <3>1. i = at /\ told'[i] = Saw
      BY <1>2, <1>3, <1>4, <1>8, <2>2, <2>4
    <3>2. TrueOf(Saw)
      BY <1>1, <2>1, <3>1, SawTrue
    <3>. QED
      BY <1>1, <3>1, <3>2 DEF TrueOf
  <2>. QED
    BY <2>3, <2>4
<1>9. ASSUME Looks(op'), Undisturbed', status' = "ok"
      PROVE  Len(told') # 0 /\ (Len(told') = Len(op'.questions) \/ before' = "moving")
  <2>1. Looks(op) /\ Undisturbed
    BY <1>1, <1>9 DEF Undisturbed
  <2>2. at = Len(op.questions) \/ Saw = "moving"
    BY <1>1, <1>9, ConcludeCases DEF Stops
  <2>3. Saw = "moving" => before = "moving"
    BY <1>1, <2>1, SawMoving
  <2>. QED
    BY <1>1, <1>2, <1>3, <1>4, <2>2, <2>3
<1>. QED
  BY <1>5, <1>6, <1>7, <1>8, <1>9 DEF Seeing

LEMMA SeeingStep ==
  ASSUME CallInv, CallInv', Reporting, Spoken, Seeing, [Next]_vars
  PROVE  Seeing'
<1>1. motor \in MotorStates /\ (status = "busy" => status' = status \/ Conclude)
  <2>1. status = "busy" => status' = status \/ Conclude
    BY DEF Next, Call, Exchanging, Again, Turn, Arriving, call, vars
  <2>. QED
    BY <2>1 DEF CallInv, Asking
<1>2. ASSUME NEW o \in kit, Call(o)
      PROVE  Seeing'
  <2>1. /\ told' = <<>> /\ at' = 1 /\ status' = "busy" /\ before' = motor /\ motor' = motor
        /\ phase' \in {"flush", "write"} /\ op' = o
    BY <1>2 DEF Call, Begin
  <2>2. Len(told') = 0
    BY <2>1, EmptySeq
  <2>3. \A i \in LookedAt' : ~(i <= 0)
    <3>1. LookedAt' = {o.moving, o.plus, o.minus} \ {0}
      BY <2>1 DEF LookedAt
    <3>2. Looks(o) => o.moving \in Nat /\ o.plus \in Nat /\ o.minus \in Nat
      <4>1. kit \in Kits
        BY DEF CallInv, Asking
      <4>2. Len(o.questions) \in Nat
        BY <4>1, InstrumentsAssumption
      <4>. QED
        BY <4>1, <4>2, TablesAssumption
    <3>. QED
      BY <3>1, <3>2 DEF Looks
  <2>. QED
    BY <2>1, <2>2, <2>3 DEF Seeing, Unwritten
<1>3. CASE Exchanging
  <2>1. status = "busy" /\ UNCHANGED <<motor, status, op, told, at, before, sure, lateThen>>
    BY <1>3 DEF Exchanging, call
  <2>2. ASSUME Undisturbed'
        PROVE  Undisturbed
    BY <1>3, <2>2, ReportingExchange
  <2>3. ASSUME Looks(op), calm', ~Unwritten'
        PROVE  transit' \in Seq(Faithful) /\ input' \in Seq(Faithful) /\ took' \subseteq Faithful
    <3>1. calm
      BY <1>3, <2>3 DEF Exchanging, Exchange, Flush, Write, Discard, terminated_read, GiveUp, Purge, ghosts
    <3>2. ASSUME Write(Answers)
          PROVE  transit' \in Seq(Faithful) /\ input' \in Seq(Faithful) /\ took' \subseteq Faithful
      <4>1. Answers = motor /\ Answers \in Says /\ TrueOf(Answers)
        BY <1>1, <2>3, InstrumentsAssumption DEF Answers, Seeing, TrueOf
      <4>2. Saying(Piece, {Answers, "garbled"}) \subseteq Faithful
        BY <4>1 DEF Saying, Faithful
      <4>3. All(Faithful)
        BY <3>1, <3>2, EmptyIsSeq DEF Write, CallInv, LineInv, Quiet, Course, Unwritten, All
      <4>. QED
        BY <3>2, <4>1, <4>2, <4>3, AllWrittenSaying DEF CallInv, LineInv
    <3>3. ASSUME Discard \/ terminated_read \/ GiveUp \/ Purge
          PROVE  transit' \in Seq(Faithful) /\ input' \in Seq(Faithful) /\ took' \subseteq Faithful
      <4>1. ~Unwritten
        BY <3>3 DEF Discard, terminated_read, GiveUp, Purge, Unwritten
      <4>2. All(Faithful)
        BY <2>1, <2>3, <3>1, <4>1 DEF Seeing
      <4>. QED
        BY <3>3, <4>2, AllMoved
    <3>4. ~Flush
      BY <2>3 DEF Flush, Unwritten
    <3>. QED
      BY <1>3, <3>2, <3>3, <3>4 DEF Exchanging, Exchange, Answers
  <2>4. Faithful' = Faithful /\ \A says : TrueOf(says)' = TrueOf(says)
    BY <2>1 DEF Faithful, TrueOf
  <2>. QED
    BY <2>1, <2>2, <2>3, <2>4 DEF Seeing, LookedAt, All
<1>4. CASE Again
  <2>1. /\ status = "busy" /\ UNCHANGED <<motor, status, op, told, at, before, sure, late, lateThen>>
        /\ phase' \in {"flush", "write"}
    BY <1>4 DEF Again, Begin
  <2>. QED
    BY <2>1 DEF Seeing, LookedAt, TrueOf, Undisturbed, Unwritten
<1>5. CASE Conclude
  BY <1>5, SeeingConclude
<1>6. CASE Turn
  <2>1. /\ motor = "moving" /\ motor' \in {"still", "plus", "minus"} /\ before = "moving"
        /\ UNCHANGED <<status, op, told, at, before, sure, late, lateThen, calm, phase, transit, input, took>>
    BY <1>6 DEF Turn, call, lineVars, host, line, ghosts, Seeing
  <2>2. \A says : TrueOf(says) => says = "moving" /\ TrueOf(says)'
    BY <2>1 DEF TrueOf
  <2>3. Faithful \subseteq Faithful'
    BY <2>2 DEF Faithful
  <2>4. All(Faithful) => All(Faithful)'
    BY <2>1, <2>3, SeqMonotonic DEF All
  <2>5. \A i \in LookedAt : TrueOf(told[i]) => TrueOf(told[i])'
    BY <2>1 DEF TrueOf
  <2>. QED
    BY <2>1, <2>4, <2>5 DEF Seeing, LookedAt, Undisturbed, Unwritten
<1>7. CASE Arriving
  <2>1. UNCHANGED <<motor, status, op, told, at, before, sure, late, lateThen, calm, phase>>
    BY <1>7 DEF Arriving, Arrive, call, host, ghosts
  <2>2. ASSUME All(Faithful)
        PROVE  transit' \in Seq(Faithful) /\ input' \in Seq(Faithful) /\ took' \subseteq Faithful
    BY <1>7, <2>2, AllMoved DEF Arriving
  <2>3. Faithful' = Faithful
    BY <2>1 DEF Faithful, TrueOf
  <2>. QED
    BY <2>1, <2>2, <2>3 DEF Seeing, LookedAt, Undisturbed, Unwritten, TrueOf, All
<1>8. CASE UNCHANGED vars
  <2>1. /\ UNCHANGED <<motor, status, op, told, at, before, sure, late, lateThen, calm, phase>>
        /\ UNCHANGED <<transit, input, took>>
    BY <1>8 DEF vars, lineVars, call, host, line, ghosts
  <2>. QED
    BY <2>1 DEF Seeing, LookedAt, Undisturbed, Unwritten, TrueOf, Faithful, All
<1>. QED
  BY <1>2, <1>3, <1>4, <1>5, <1>6, <1>7, <1>8 DEF Next

LEMMA SeeingMotorSeen ==
  ASSUME CallInv, Seeing
  PROVE  MotorSeen
<1>1. SUFFICES ASSUME status = "ok", Looks(op), Undisturbed
               PROVE  /\ op.moving # 0 => IF SaysMoving THEN before = "moving" ELSE motor # "moving"
                      /\ SaysPlus => motor = "plus"
                      /\ SaysMinus => motor = "minus"
                      /\ before = "plus" /\ op.plus # 0 => SaysPlus
                      /\ before = "minus" /\ op.minus # 0 => SaysMinus
  BY DEF MotorSeen
<1>2. op \in kit /\ kit \in Kits
  BY <1>1 DEF CallInv, Asking
<1>3. /\ Len(op.questions) \in Nat /\ op.moving \in {0, 1}
      /\ op.plus \in 0 .. Len(op.questions) /\ op.minus \in 0 .. Len(op.questions)
  BY <1>1, <1>2, TablesAssumption, InstrumentsAssumption
<1>4. Len(told) \in Nat /\ Len(told) # 0 /\ (Len(told) = Len(op.questions) \/ before = "moving")
  BY <1>1 DEF Seeing
<1>5. \A i \in LookedAt : i <= Len(told) => TrueOf(told[i])
  BY <1>1 DEF Seeing
<1>6. motor = before \/ before = "moving"
  BY DEF Seeing
<1>7. op.moving # 0 => IF SaysMoving THEN before = "moving" ELSE motor # "moving"
  <2>1. op.moving # 0 => TrueOf(told[op.moving])
    BY <1>3, <1>4, <1>5 DEF LookedAt
  <2>. QED
    BY <2>1 DEF TrueOf, SaysMoving
<1>8. (SaysPlus => motor = "plus") /\ (before = "plus" /\ op.plus # 0 => SaysPlus)
  <2>1. op.plus # 0 /\ op.plus <= Len(told) => TrueOf(told[op.plus])
    BY <1>5 DEF LookedAt
  <2>2. before = "plus" => op.plus <= Len(told)
    BY <1>3, <1>4
  <2>. QED
    BY <1>3, <1>4, <1>6, <2>1, <2>2 DEF TrueOf, SaysPlus
<1>9. (SaysMinus => motor = "minus") /\ (before = "minus" /\ op.minus # 0 => SaysMinus)
  <2>1. op.minus # 0 /\ op.minus <= Len(told) => TrueOf(told[op.minus])
    BY <1>5 DEF LookedAt
  <2>2. before = "minus" => op.minus <= Len(told)
    BY <1>3, <1>4
  <2>. QED
    BY <1>3, <1>4, <1>6, <2>1, <2>2 DEF TrueOf, SaysMinus
<1>. QED
  BY <1>7, <1>8, <1>9

\* A status that an operation reports, put together from several answers while the
\* motor turns on between the questions, was so between its call and its return.
THEOREM MotorSeenAlways == Spec => []MotorSeen
<1>1. Init => Seeing
  BY DEF Init, LineInit, Seeing, Looks, Op
<1>2. CallInv /\ CallInv' /\ Reporting /\ Spoken /\ Seeing /\ [Next]_vars => Seeing'
  BY SeeingStep
<1>. QED
  BY <1>1, <1>2, SeeingMotorSeen, CallInvariant, ReportingInvariant, SpokenInvariant, PTL DEF Spec
-----------------------------------------------------------------------------
(* Routines that never flush.                                              *)

Unread == input \o transit

\* The question being read has not been answered yet.
Owed == IF phase = "read" /\ stage = 1 THEN 0 ELSE 1

\* The answers come in the order of the questions, each with one text.
Ordered(seq) ==
  \A i, j \in 1 .. Len(seq) : i < j /\ seq[i].text /\ seq[j].text => seq[i].to < seq[j].to

\* No text is older than the answers that were missed account for, and what is no
\* text does not end the first part of an answer.
Due(seq) ==
  \A i \in 1 .. Len(seq) :
    IF seq[i].text
    THEN seq[i].to <= asked /\ asked + Owed - seq[i].to <= missed
    ELSE \A t \in Asks(kit) : seq[i].ends \notin t.until[1]

Lag ==
  InLine(Asks(kit)) =>
    /\ phase \notin {"flush", "discard"}
    /\ Ordered(Unread) /\ Due(Unread)
    /\ \A piece \in took : asked - piece.to <= missed

LEMMA Joined ==
  ASSUME NEW p \in Seq(Piece), NEW q \in Seq(Piece)
  PROVE  /\ p \o q \in Seq(Piece) /\ Len(p) \in Nat /\ Len(q) \in Nat
         /\ Len(p \o q) = Len(p) + Len(q)
         /\ \A i \in 1 .. Len(p \o q) : (p \o q)[i] = IF i <= Len(p) THEN p[i] ELSE q[i - Len(p)]
         /\ \A i \in 1 .. Len(p \o q) : (p \o q)[i] \in Piece /\ (p \o q)[i].to \in Nat
<1>1. /\ p \o q \in Seq(Piece) /\ Len(p) \in Nat /\ Len(q) \in Nat
      /\ Len(p \o q) = Len(p) + Len(q)
      /\ \A i \in 1 .. Len(p \o q) : (p \o q)[i] = IF i <= Len(p) THEN p[i] ELSE q[i - Len(p)]
  BY ConcatProperties, LenProperties
<1>2. \A i \in 1 .. Len(p \o q) : (p \o q)[i] \in Piece
  BY <1>1, ElementOfSeq
<1>. QED
  BY <1>1, <1>2 DEF Piece

LEMMA UnreadSeq ==
  ASSUME LineTypeOK
  PROVE  /\ Unread \in Seq(Piece) /\ Len(Unread) \in Nat
         /\ \A i \in 1 .. Len(Unread) : Unread[i] \in Piece /\ Unread[i].to \in Nat
  BY Joined DEF LineTypeOK, Unread

\* Reading a piece leaves the rest.
LEMMA Rest ==
  ASSUME NEW p \in Seq(Piece), NEW q \in Seq(Piece), p # <<>>
  PROVE  /\ Len(p \o q) \in Nat \ {0} /\ (p \o q)[1] = Head(p)
         /\ Len(Tail(p) \o q) = Len(p \o q) - 1
         /\ \A i \in 1 .. Len(Tail(p) \o q) :
              i + 1 \in 1 .. Len(p \o q) /\ (Tail(p) \o q)[i] = (p \o q)[i + 1]
<1>1. /\ Len(p) \in Nat \ {0} /\ Head(p) = p[1]
      /\ Tail(p) \in Seq(Piece) /\ Len(Tail(p)) = Len(p) - 1
      /\ \A i \in 1 .. Len(Tail(p)) : Tail(p)[i] = p[i + 1]
  BY HeadTailProperties, EmptySeq, LenProperties
<1>2. /\ Len(q) \in Nat
      /\ Len(p \o q) = Len(p) + Len(q)
      /\ \A i \in 1 .. Len(p \o q) : (p \o q)[i] = IF i <= Len(p) THEN p[i] ELSE q[i - Len(p)]
  BY Joined
<1>3. /\ Len(Tail(p) \o q) = Len(Tail(p)) + Len(q)
      /\ \A i \in 1 .. Len(Tail(p) \o q) :
           (Tail(p) \o q)[i] = IF i <= Len(Tail(p)) THEN Tail(p)[i] ELSE q[i - Len(Tail(p))]
  BY <1>1, Joined
<1>4. Len(p \o q) \in Nat \ {0} /\ (p \o q)[1] = Head(p) /\ Len(Tail(p) \o q) = Len(p \o q) - 1
  BY <1>1, <1>2, <1>3
<1>5. ASSUME NEW i \in 1 .. Len(Tail(p) \o q)
      PROVE  i + 1 \in 1 .. Len(p \o q) /\ (Tail(p) \o q)[i] = (p \o q)[i + 1]
  <2>1. i \in Nat \ {0} /\ i + 1 \in 1 .. Len(p \o q)
    BY <1>1, <1>2, <1>3
  <2>2. CASE i <= Len(Tail(p))
    BY <1>1, <1>2, <1>3, <2>1, <2>2
  <2>3. CASE ~(i <= Len(Tail(p)))
    <3>1. (Tail(p) \o q)[i] = q[i - Len(Tail(p))]
      BY <1>3, <2>3
    <3>2. (p \o q)[i + 1] = q[i + 1 - Len(p)]
      BY <1>1, <1>2, <2>1, <2>3
    <3>3. i - Len(Tail(p)) = i + 1 - Len(p)
      BY <1>1, <2>1
    <3>. QED
      BY <2>1, <3>1, <3>2, <3>3
  <2>. QED
    BY <2>2, <2>3
<1>. QED
  BY <1>4, <1>5

\* Only the routines of the instrument are used.
LEMMA NeverFlush ==
  ASSUME CallInv, InLine(Asks(kit)), status = "busy"
  PROVE  /\ talker \in Asks(kit) /\ talker.flush = "never" /\ talker.keep = 1
         /\ 1 \notin talker.optional
<1>1. kit \in Kits /\ op \in kit /\ at \in 1 .. Len(op.questions) /\ talker = op.questions[at].by
  BY DEF CallInv, Asking
<1>2. talker \in Asks(kit) /\ 1 \notin talker.optional
  BY <1>1, QuestionFacts
<1>. QED
  BY <1>2 DEF InLine

\* What comes of a question comes after what is on its way.
LEMMA LagWrite ==
  ASSUME CallInv, CallInv', Lag, status = "busy", InLine(Asks(kit)), UNCHANGED kit,
         NEW says \in Says, Write(says)
  PROVE  Lag'
<1>1. /\ phase = "write" /\ UNCHANGED <<talker, reads, stage, took, input, missed>>
      /\ phase' \in {"read", "done"} /\ stage = 1 /\ took = {}
  BY Written, NeverFlush DEF CallInv, LineInv, LineTypeOK, Course, Unwritten
<1>2. LineTypeOK /\ LineTypeOK' /\ asked \in Nat /\ missed \in Nat /\ Owed = 1 /\ talker \in Routines
  BY <1>1 DEF CallInv, LineInv, LineTypeOK, Owed
<1>3. CASE ~reads
  <2>1. UNCHANGED <<asked, transit>> /\ phase' = "done"
    BY <1>1, <1>2, <1>3, Written
  <2>2. Owed' = 1 /\ Unread' = Unread
    BY <1>1, <2>1 DEF Owed, Unread
  <2>. QED
    BY <1>1, <1>2, <2>1, <2>2 DEF Lag, Due, Ordered
<1>4. CASE reads
  <2>1. asked' = asked + 1 /\ phase' = "read" /\ Owed' = 0
    BY <1>1, <1>2, <1>4, Written DEF Owed
  <2>2. PICK more \in Coming(says) : transit' = transit \o more
    BY <1>2, <1>4, Written
  <2>3. /\ more \in Seq(Piece) /\ Len(more) \in Nat /\ Len(more) <= Len(talker.sends)
        /\ \A i \in 1 .. Len(more) :
              /\ i \in 1 .. Len(talker.sends) /\ more[i].to = asked + 1
              /\ more[i].ends = talker.sends[i].ends /\ more[i].text = talker.sends[i].text
    BY <1>2, ComingOwn
  <2>4. \A i \in 1 .. Len(more) :
          IF more[i].text THEN i = 1 ELSE \A u \in Asks(kit) : more[i].ends \notin u.until[1]
    BY <2>3, NeverFlush DEF InLine
  <2>5. /\ Unread' = Unread \o more /\ Len(Unread') = Len(Unread) + Len(more)
        /\ \A i \in 1 .. Len(Unread') : Unread'[i] = IF i <= Len(Unread) THEN Unread[i] ELSE more[i - Len(Unread)]
    <3>1. Unread' = Unread \o more
      <4>1. input \in Seq(Piece) /\ transit \in Seq(Piece) /\ more \in Seq(Piece)
        BY <1>2, <2>3 DEF LineTypeOK
      <4>2. input \o (transit \o more) = (input \o transit) \o more
        BY <4>1, ConcatAssociative
      <4>. QED
        BY <1>1, <2>2, <4>2 DEF Unread
    <3>. QED
      BY <1>2, <2>3, <3>1, UnreadSeq, Joined
  <2>6. Len(Unread) \in Nat /\ \A i \in 1 .. Len(Unread) : Unread[i].to \in Nat
    BY <1>2, UnreadSeq
  <2>7. Due(Unread)'
    <3>. SUFFICES ASSUME NEW i \in 1 .. Len(Unread')
                  PROVE  IF Unread'[i].text
                         THEN Unread'[i].to <= asked' /\ asked' + Owed' - Unread'[i].to <= missed'
                         ELSE \A t \in Asks(kit') : Unread'[i].ends \notin t.until[1]
      BY DEF Due
    <3>1. CASE i <= Len(Unread)
      <4>1. i \in 1 .. Len(Unread) /\ Unread'[i] = Unread[i] /\ Unread[i].to \in Nat
        BY <2>5, <2>6, <3>1
      <4>2. IF Unread[i].text THEN Unread[i].to <= asked /\ asked + 1 - Unread[i].to <= missed
                              ELSE \A t \in Asks(kit) : Unread[i].ends \notin t.until[1]
        BY <1>2, <4>1 DEF Lag, Due
      <4>. QED
        BY <1>1, <1>2, <2>1, <4>1, <4>2
    <3>2. CASE ~(i <= Len(Unread))
      <4>1. i - Len(Unread) \in 1 .. Len(more) /\ Unread'[i] = more[i - Len(Unread)]
        BY <2>3, <2>5, <2>6, <3>2
      <4>2. /\ Unread'[i].to = asked + 1
            /\ ~Unread'[i].text => \A u \in Asks(kit) : Unread'[i].ends \notin u.until[1]
        BY <2>3, <2>4, <4>1
      <4>. QED
        BY <1>1, <1>2, <2>1, <4>2
    <3>. QED
      BY <3>1, <3>2
  <2>8. Ordered(Unread)'
    <3>. SUFFICES ASSUME NEW i \in 1 .. Len(Unread'), NEW j \in 1 .. Len(Unread'),
                         i < j, Unread'[i].text, Unread'[j].text
                  PROVE  Unread'[i].to < Unread'[j].to
      BY DEF Ordered
    <3>1. CASE j <= Len(Unread)
      <4>1. i \in 1 .. Len(Unread) /\ j \in 1 .. Len(Unread) /\ Unread'[i] = Unread[i] /\ Unread'[j] = Unread[j]
        BY <2>5, <2>6, <3>1
      <4>. QED
        BY <4>1 DEF Lag, Ordered
    <3>2. CASE ~(j <= Len(Unread))
      <4>1. j - Len(Unread) \in 1 .. Len(more) /\ Unread'[j] = more[j - Len(Unread)]
        BY <2>3, <2>5, <2>6, <3>2
      <4>2. j - Len(Unread) = 1 /\ Unread'[j].to = asked + 1
        BY <2>3, <2>4, <4>1
      <4>3. i \in 1 .. Len(Unread) /\ Unread'[i] = Unread[i] /\ Unread[i].to \in Nat
        BY <2>5, <2>6, <4>2
      <4>4. Unread[i].to <= asked
        BY <4>3 DEF Lag, Due
      <4>. QED
        BY <1>2, <4>2, <4>3, <4>4
    <3>. QED
      BY <3>1, <3>2
  <2>. QED
    BY <1>1, <2>1, <2>7, <2>8 DEF Lag
<1>. QED
  BY <1>2, <1>3, <1>4 DEF LineTypeOK

\* Reading takes the oldest; what is left then is younger than a text that was read.
LEMMA LagRead ==
  ASSUME CallInv, CallInv', Lag, status = "busy", InLine(Asks(kit)), UNCHANGED kit, terminated_read
  PROVE  Lag'
<1>1. /\ phase = "read" /\ input # <<>> /\ UNCHANGED <<talker, transit, asked, missed>>
      /\ input' = Tail(input) /\ phase' \in {"read", "done"}
      /\ stage' \in {stage, stage + 1}
      /\ stage' # stage => Head(input).ends \in talker.until[stage]
      /\ took' \subseteq took \cup {Head(input)}
      /\ Head(input) \in took' /\ Head(input) \notin took => stage = talker.keep /\ Head(input).text
      /\ phase' = "read" \/ stage' > Len(talker.until)
  BY DEF terminated_read, ghosts
<1>2. /\ LineTypeOK /\ asked \in Nat /\ missed \in Nat /\ stage \in Nat \ {0} /\ talker \in Routines
      /\ Len(talker.until) \in Nat \ {0} /\ input \in Seq(Piece) /\ transit \in Seq(Piece)
  BY RoutinesAssumption DEF CallInv, LineInv, LineTypeOK, Course
<1>3. /\ Len(Unread) \in Nat \ {0} /\ Unread[1] = Head(input) /\ 1 \in 1 .. Len(Unread)
      /\ Len(Unread') = Len(Unread) - 1
      /\ \A i \in 1 .. Len(Unread') : i + 1 \in 1 .. Len(Unread) /\ Unread'[i] = Unread[i + 1]
  <2>1. Unread' = Tail(input) \o transit
    BY <1>1 DEF Unread
  <2>. QED
    BY <1>1, <1>2, <2>1, Rest DEF Unread
<1>. DEFINE first == Unread[1]
<1>4. IF first.text THEN first.to <= asked /\ asked + Owed - first.to <= missed
                    ELSE \A t \in Asks(kit) : first.ends \notin t.until[1]
  BY <1>3 DEF Lag, Due
<1>5. first.to \in Nat /\ \A i \in 1 .. Len(Unread) : Unread[i].to \in Nat
  BY <1>2, <1>3, UnreadSeq
<1>6. talker \in Asks(kit) /\ talker.keep = 1
  BY NeverFlush
<1>7. /\ Owed \in {0, 1} /\ Owed' \in {0, 1}
      /\ Owed' # Owed => Owed = 0 /\ first.text
  <2>1. Owed' # Owed => stage = 1
    BY <1>1, <1>2 DEF Owed
  <2>2. stage = 1 => Owed = 0
    BY <1>1 DEF Owed
  <2>3. ASSUME stage = 1, Owed' # Owed
        PROVE  first.text
    <3>1. stage' # stage
      BY <1>1, <1>2, <2>3 DEF Owed
    <3>2. first.ends \in talker.until[1]
      BY <1>1, <1>3, <2>3, <3>1
    <3>. QED
      BY <1>4, <1>6, <3>2
  <2>. QED
    BY <2>1, <2>2, <2>3 DEF Owed
<1>8. Ordered(Unread)'
  <2>. SUFFICES ASSUME NEW i \in 1 .. Len(Unread'), NEW j \in 1 .. Len(Unread'),
                       i < j, Unread'[i].text, Unread'[j].text
                PROVE  Unread'[i].to < Unread'[j].to
    BY DEF Ordered
  <2>1. /\ i + 1 \in 1 .. Len(Unread) /\ j + 1 \in 1 .. Len(Unread) /\ i + 1 < j + 1
        /\ Unread'[i] = Unread[i + 1] /\ Unread'[j] = Unread[j + 1]
    BY <1>3
  <2>. QED
    BY <2>1 DEF Lag, Ordered
<1>9. Due(Unread)'
  <2>. SUFFICES ASSUME NEW i \in 1 .. Len(Unread')
                PROVE  IF Unread'[i].text
                       THEN Unread'[i].to <= asked' /\ asked' + Owed' - Unread'[i].to <= missed'
                       ELSE \A t \in Asks(kit') : Unread'[i].ends \notin t.until[1]
    BY DEF Due
  <2>. DEFINE piece == Unread[i + 1]
  <2>1. i + 1 \in 1 .. Len(Unread) /\ Unread'[i] = piece /\ i \in Nat \ {0}
    BY <1>3
  <2>2. /\ piece.to \in Nat
        /\ IF piece.text THEN piece.to <= asked /\ asked + Owed - piece.to <= missed
                         ELSE \A t \in Asks(kit) : piece.ends \notin t.until[1]
    BY <1>5, <2>1 DEF Lag, Due
  <2>3. ASSUME piece.text, Owed' # Owed
        PROVE  asked + 1 - piece.to <= missed
    <3>1. first.to < piece.to
      <4>1. first.text /\ 1 < i + 1
        BY <1>7, <2>1, <2>3
      <4>. QED
        BY <1>3, <2>1, <2>3, <4>1 DEF Lag, Ordered
    <3>2. asked - first.to <= missed
      BY <1>2, <1>4, <1>5, <1>7, <2>3
    <3>. QED
      BY <1>2, <1>5, <2>2, <3>1, <3>2
  <2>4. piece.text => asked + Owed' - piece.to <= missed
    BY <1>2, <1>7, <2>2, <2>3
  <2>. QED
    BY <1>1, <2>1, <2>2, <2>4
<1>10. \A piece \in took' : asked' - piece.to <= missed'
  <2>1. ASSUME first \in took', first \notin took
        PROVE  asked - first.to <= missed
    <3>1. stage = 1 /\ first.text
      BY <1>1, <1>3, <1>6, <2>1
    <3>. QED
      BY <1>1, <1>2, <1>4, <1>5, <3>1 DEF Owed
  <2>. QED
    BY <1>1, <1>3, <2>1 DEF Lag
<1>. QED
  BY <1>1, <1>8, <1>9, <1>10 DEF Lag

LEMMA LagStep ==
  ASSUME CallInv, CallInv', Lag, [Next]_vars
  PROVE  Lag'
<1>1. kit' = kit
  BY ConcludeCases DEF Next, Call, Exchanging, Again, Turn, Arriving, call, vars
<1>2. SUFFICES ASSUME InLine(Asks(kit))
               PROVE  Lag'
  BY <1>1 DEF Lag
<1>3. LineTypeOK /\ asked \in Nat /\ missed \in Nat /\ \A i \in 1 .. Len(Unread) : Unread[i].to \in Nat
  BY UnreadSeq DEF CallInv, LineInv, LineTypeOK
<1>4. ASSUME NEW t \in Asks(kit), NEW r, Begin(t, r), phase \in {"idle", "done"}
      PROVE  Lag'
  <2>1. /\ phase' = "write" /\ took' = {} /\ Owed = 1 /\ Owed' = 1
        /\ UNCHANGED <<asked, transit, input, missed>>
    BY <1>2, <1>4 DEF Begin, Owed, line, InLine
  <2>. QED
    BY <1>1, <1>2, <2>1 DEF Lag, Due, Ordered, Unread
<1>5. ASSUME NEW o \in kit, Call(o)
      PROVE  Lag'
  <2>1. kit \in Kits
    BY DEF CallInv, Asking
  <2>2. 1 \in 1 .. Len(o.questions)
    BY <2>1, InstrumentsAssumption
  <2>3. o.questions[1].by \in Asks(kit)
    BY <2>1, <2>2, QuestionFacts
  <2>. QED
    BY <1>4, <1>5, <2>3 DEF Call, Begin
<1>6. CASE Exchanging
  <2>1. status = "busy"
    BY <1>6 DEF Exchanging
  <2>2. CASE Write(Answers)
    <3>1. Answers \in Says
      BY InstrumentsAssumption DEF CallInv, Asking, Answers
    <3>. QED
      BY <1>1, <1>2, <2>1, <2>2, <3>1, LagWrite
  <2>3. CASE terminated_read
    BY <1>1, <1>2, <2>1, <2>3, LagRead
  <2>4. CASE GiveUp
    <3>1. /\ phase = "read" /\ phase' \in {"purge", "done"} /\ UNCHANGED <<asked, took>>
          /\ Unread' = Unread /\ Owed \in {0, 1} /\ Owed' = 1
      BY <2>4 DEF GiveUp, line, Unread, Owed
    <3>2. missed' + Owed >= missed + Owed'
      <4>1. CASE stage \in talker.optional
        <5>1. stage # 1 /\ missed' = missed
          BY <1>2, <2>1, <2>4, <4>1, NeverFlush DEF GiveUp
        <5>. QED
          BY <1>3, <3>1, <5>1 DEF Owed
      <4>2. CASE stage \notin talker.optional
        <5>1. missed' = missed + 1
          BY <2>4, <4>2 DEF GiveUp
        <5>. QED
          BY <1>3, <3>1, <5>1
      <4>. QED
        BY <4>1, <4>2
    <3>3. missed' \in Nat /\ missed <= missed'
      BY <1>3, <2>4 DEF GiveUp
    <3>4. Due(Unread)'
      <4>. SUFFICES ASSUME NEW i \in 1 .. Len(Unread)
                    PROVE  IF Unread[i].text
                           THEN Unread[i].to <= asked /\ asked + Owed' - Unread[i].to <= missed'
                           ELSE \A t \in Asks(kit) : Unread[i].ends \notin t.until[1]
        BY <1>1, <3>1 DEF Due
      <4>1. IF Unread[i].text
            THEN Unread[i].to <= asked /\ asked + Owed - Unread[i].to <= missed
            ELSE \A t \in Asks(kit) : Unread[i].ends \notin t.until[1]
        BY <1>2 DEF Lag, Due
      <4>2. ASSUME Unread[i].text
            PROVE  asked + Owed' - Unread[i].to <= missed'
        <5>1. asked + Owed - Unread[i].to <= missed /\ Unread[i].to \in Nat
          BY <1>3, <4>1, <4>2
        <5>. QED
          BY <1>3, <3>1, <3>2, <3>3, <5>1
      <4>. QED
        BY <4>1, <4>2
    <3>5. \A piece \in took' : asked' - piece.to <= missed'
      <4>1. \A piece \in took : piece.to \in Nat /\ asked - piece.to <= missed
        BY <1>2, <1>3 DEF Lag, LineTypeOK, Piece
      <4>. QED
        BY <1>3, <3>1, <3>3, <4>1
    <3>. QED
      BY <1>2, <3>1, <3>4, <3>5 DEF Lag, Ordered
  <2>5. CASE Purge
    <3>1. /\ phase = "purge" /\ phase' = "done" /\ UNCHANGED <<asked, took, missed, transit>> /\ input' = <<>>
          /\ Owed = 1 /\ Owed' = 1
      BY <2>5 DEF Purge, serialFlush, ghosts, Owed
    <3>2. /\ Len(Unread') \in Nat /\ Len(input) \in Nat /\ Len(Unread) = Len(input) + Len(Unread')
          /\ \A i \in 1 .. Len(Unread') : Unread'[i] = Unread[Len(input) + i]
      <4>1. input \in Seq(Piece) /\ transit \in Seq(Piece)
        BY <1>3 DEF LineTypeOK
      <4>2. Unread' = transit
        BY <3>1, <4>1, SeqSteps DEF Unread
      <4>3. Len(input) \in Nat /\ Len(transit) \in Nat /\ Len(Unread) = Len(input) + Len(transit)
        BY <4>1, Joined DEF Unread
      <4>4. \A i \in 1 .. Len(Unread) : Unread[i] = IF i <= Len(input) THEN input[i] ELSE transit[i - Len(input)]
        BY <4>1, Joined DEF Unread
      <4>5. ASSUME NEW i \in 1 .. Len(transit)
            PROVE  transit[i] = Unread[Len(input) + i]
        <5>1. Len(input) + i \in 1 .. Len(Unread) /\ ~(Len(input) + i <= Len(input)) /\ Len(input) + i - Len(input) = i
          BY <4>3
        <5>. QED
          BY <4>4, <5>1
      <4>. QED
        BY <4>2, <4>3, <4>5
    <3>3. \A i \in 1 .. Len(Unread') : i \in Nat /\ Len(input) + i \in 1 .. Len(Unread)
      BY <3>2
    <3>4. Due(Unread)'
      <4>. SUFFICES ASSUME NEW i \in 1 .. Len(Unread')
                    PROVE  IF Unread'[i].text
                           THEN Unread'[i].to <= asked' /\ asked' + Owed' - Unread'[i].to <= missed'
                           ELSE \A t \in Asks(kit') : Unread'[i].ends \notin t.until[1]
        BY DEF Due
      <4>. QED
        BY <1>1, <1>2, <3>1, <3>2, <3>3 DEF Lag, Due
    <3>5. Ordered(Unread)'
      <4>. SUFFICES ASSUME NEW i \in 1 .. Len(Unread'), NEW j \in 1 .. Len(Unread'),
                           i < j, Unread'[i].text, Unread'[j].text
                    PROVE  Unread'[i].to < Unread'[j].to
        BY DEF Ordered
      <4>1. Len(input) + i < Len(input) + j
        BY <3>2, <3>3
      <4>. QED
        BY <1>2, <3>2, <3>3, <4>1 DEF Lag, Ordered
    <3>. QED
      BY <1>2, <3>1, <3>4, <3>5 DEF Lag
  <2>6. ~Flush /\ ~Discard
    BY <1>2 DEF Flush, Discard, Lag
  <2>. QED
    BY <1>6, <2>2, <2>3, <2>4, <2>5, <2>6 DEF Exchanging, Exchange, Answers
<1>7. CASE Again
  <2>1. op.questions[at].by \in Asks(kit)
    BY <1>7, QuestionFacts DEF Again, CallInv, Asking
  <2>. QED
    BY <1>4, <1>7, <2>1 DEF Again
<1>8. CASE Conclude
  <2>1. CASE Stops
    <3>1. Return
      BY <1>8, <2>1, ConcludeCases
    <3>2. /\ phase = "done" /\ phase' = "idle" /\ UNCHANGED <<asked, took, missed, transit, input>>
          /\ Owed = 1 /\ Owed' = 1
      BY <3>1 DEF Return, line, ghosts, Owed
    <3>. QED
      BY <1>1, <1>2, <3>2 DEF Lag, Due, Ordered, Unread
  <2>2. CASE ~Stops
    <3>1. at + 1 \in 1 .. Len(op.questions) /\ Begin(op.questions[at + 1].by, op.questions[at + 1].reads) /\ status = "busy"
      BY <1>8, <2>2, GoesOn DEF CallInv
    <3>2. op.questions[at + 1].by \in Asks(kit)
      BY <3>1, QuestionFacts DEF CallInv, Asking
    <3>. QED
      BY <1>4, <3>1, <3>2 DEF Begin
  <2>. QED
    BY <2>1, <2>2
<1>9. CASE Turn \/ UNCHANGED vars
  <2>1. UNCHANGED <<asked, took, missed, transit, input, phase, stage>>
    BY <1>9 DEF Turn, vars, lineVars, host, line, ghosts
  <2>. QED
    BY <1>1, <1>2, <2>1 DEF Lag, Due, Ordered, Unread, Owed
<1>10. CASE Arriving
  <2>1. /\ UNCHANGED <<asked, took, missed, phase, stage>> /\ transit # <<>>
        /\ input' = Append(input, Head(transit)) /\ transit' = Tail(transit)
    BY <1>10 DEF Arriving, Arrive, host, ghosts
  <2>2. Unread' = Unread
    <3>1. input \in Seq(Piece) /\ transit \in Seq(Piece)
      BY <1>3 DEF LineTypeOK
    <3>. QED
      BY <2>1, <3>1 DEF Unread
  <2>. QED
    BY <1>1, <1>2, <2>1, <2>2 DEF Lag, Due, Ordered, Owed
<1>. QED
  BY <1>5, <1>6, <1>7, <1>8, <1>9, <1>10 DEF Next

LEMMA LagBehind ==
  ASSUME CallInv, Lag
  PROVE  Behind
<1>1. SUFFICES ASSUME talker.flush = "never", outcome = "answer"
               PROVE  \A piece \in took : asked - piece.to <= missed
  BY DEF Behind
<1>2. kit \in Kits /\ talker \in Asks(kit) \cup {PF}
  BY DEF CallInv, Asking
<1>3. PF.flush = "before"
  BY DEF PF, Talker
<1>4. InLine(Asks(kit))
  BY <1>1, <1>2, <1>3, TablesAssumption
<1>. QED
  BY <1>4 DEF Lag

\* A routine that never flushes stays behind once an answer came too late, and is never
\* further behind than there were answers missed: for any instrument whose routines all
\* never flush and send one text each.
THEOREM BehindAlways == Spec => []Behind
<1>1. Init => Lag
  <2>1. ASSUME Init
        PROVE  Lag
    <3>1. phase = "idle" /\ input = <<>> /\ transit = <<>> /\ took = {}
      BY <2>1 DEF Init, LineInit
    <3>2. Unread = <<>> /\ Len(Unread) = 0
      BY <3>1, EmptySeq, ConcatEmptySeq, EmptyIsSeq DEF Unread
    <3>. QED
      BY <3>1, <3>2 DEF Lag, Due, Ordered
  <2>. QED
    BY <2>1
<1>2. CallInv /\ CallInv' /\ Lag /\ [Next]_vars => Lag'
  BY LagStep
<1>. QED
  BY <1>1, <1>2, LagBehind, CallInvariant, PTL DEF Spec
=============================================================================
