------------------------- MODULE CommandQueueProofs -------------------------
(***************************************************************************)
(* The queue of commands keeps its promise: no command is begun twice.     *)
(* AtMostOnce is inductive together with the types, because begun followed *)
(* by todo stays one and the same sequence when a command begins.          *)
(***************************************************************************)
EXTENDS CommandQueue, TLAPS

LEMMA Typing == TypeOK /\ [Next]_vars => TypeOK'
<1> SUFFICES ASSUME TypeOK, [Next]_vars PROVE TypeOK'
  OBVIOUS
<1> USE DEF TypeOK
<1>1. CASE Begin
  BY <1>1 DEF Begin
<1>2. CASE Crash
  BY <1>2 DEF Crash
<1>3. CASE Edit
  BY <1>3 DEF Edit
<1>4. CASE Overwrite
  BY <1>4 DEF Overwrite
<1>5. CASE UNCHANGED vars
  BY <1>5 DEF vars
<1> QED
  BY <1>1, <1>2, <1>3, <1>4, <1>5 DEF Next

\* A command that begins moves from the head of one list to the end of the other.
LEMMA BeginMoves ==
  ASSUME NEW S, NEW s \in Seq(S), NEW t \in Seq(S), t # <<>>
  PROVE  Append(s, Head(t)) \o Tail(t) = s \o t
<1> DEFINE u == Append(s, Head(t)) \o Tail(t)
           v == s \o t
<1>1. u \in Seq(S) /\ v \in Seq(S) /\ Len(u) = Len(v)
  OBVIOUS
<1>2. \A i \in 1..Len(v) : u[i] = v[i]
  OBVIOUS
<1> QED
  BY <1>1, <1>2

\* Nothing becomes double when the head of the second list is dropped.
LEMMA DropHead ==
  ASSUME NEW S, NEW s \in Seq(S), NEW t \in Seq(S), t # <<>>, Distinct(s \o t)
  PROVE  Distinct(s \o Tail(t))
<1> DEFINE u == s \o Tail(t)
           v == s \o t
           at(i) == IF i <= Len(s) THEN i ELSE i + 1
<1>1. \A i \in 1..Len(u) : at(i) \in 1..Len(v) /\ u[i] = v[at(i)]
  OBVIOUS
<1>2. \A i, j \in 1..Len(u) : i # j => at(i) # at(j)
  OBVIOUS
<1>3. \A i, j \in 1..Len(v) : i # j => v[i] # v[j]
  BY DEF Distinct
<1>4. \A i, j \in 1..Len(u) : i # j => u[i] # u[j]
  <2> HIDE DEF at, u, v
  <2> QED
    BY <1>1, <1>2, <1>3
<1> QED
  BY <1>4 DEF Distinct

\* No command is begun twice, nor begun while it is still to be done, unless a
\* change to the sequence was overwritten by somebody who had not seen it.
THEOREM OnlyOnce == Spec => []AtMostOnce
<1>1. Init => TypeOK /\ AtMostOnce
  <2> SUFFICES ASSUME Init PROVE TypeOK /\ AtMostOnce
    OBVIOUS
  <2>1. begun \o todo = todo
    BY DEF Init
  <2> QED
    BY <2>1 DEF Init, TypeOK, AtMostOnce
<1>2. TypeOK /\ AtMostOnce /\ [Next]_vars => (TypeOK /\ AtMostOnce)'
  <2> SUFFICES ASSUME TypeOK, AtMostOnce, [Next]_vars PROVE AtMostOnce'
    BY Typing
  <2>1. CASE Begin
    <3>1. begun' \o todo' = begun \o todo
      BY <2>1, BeginMoves DEF Begin, TypeOK
    <3> QED
      BY <2>1, <3>1 DEF Begin, AtMostOnce
  <2>2. CASE Crash
    <3>1. CASE todo' = todo
      BY <2>2, <3>1 DEF Crash, AtMostOnce
    <3>2. CASE todo # <<>> /\ todo' = Tail(todo)
      BY <2>2, <3>2, DropHead DEF Crash, AtMostOnce, TypeOK
    <3> QED
      BY <2>2, <3>1, <3>2 DEF Crash
  <2>3. CASE Edit
    BY <2>3 DEF Edit, AtMostOnce
  <2>4. CASE Overwrite
    BY <2>4 DEF Overwrite, AtMostOnce, TypeOK
  <2>5. CASE UNCHANGED vars
    BY <2>5 DEF vars, AtMostOnce
  <2> QED
    BY <2>1, <2>2, <2>3, <2>4, <2>5 DEF Next
<1> QED
  BY <1>1, <1>2, PTL DEF Spec
=============================================================================
