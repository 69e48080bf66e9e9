--------------------------- MODULE SequenceProofs ---------------------------
(***************************************************************************)
(* The command sequence of RS is the queue that CommandQueue promises.     *)
(*                                                                         *)
(* Three parties hold copies of the record: RS itself, RS= and the editor. *)
(* The invariant behind the refinement is about the commands a party owns, *)
(* those on its list that it did not read from the record: nobody else has *)
(* them.  When it writes its list back over what it read, the list is made *)
(* of commands of the record and commands of its own, so nothing begun can *)
(* come back; when it does not, the write is counted as an overwrite.      *)
(***************************************************************************)
EXTENDS Sequence, EventFlagsProofs, SequenceTheorems

-----------------------------------------------------------------------------
(***************************************************************************)
(* Lists and what is on them.                                              *)
(***************************************************************************)
\* The elements of a list are in the set it is over.
LEMMA ElementsOf ==
  ASSUME NEW S, NEW s \in Seq(S)
  PROVE  Elements(s) \subseteq S
BY DEF Elements

\* A list whose elements are in a set is a list over that set.
LEMMA ElementsSeq ==
  ASSUME NEW S, NEW T, NEW s \in Seq(S), Elements(s) \subseteq T
  PROVE  s \in Seq(T)
<1>1. \A i \in 1..Len(s) : s[i] \in T
  BY DEF Elements
<1>2. s \in [1..Len(s) -> T] /\ Len(s) \in Nat
  BY <1>1
<1> QED
  BY <1>2

\* The empty list has no elements.
LEMMA EmptyList == Elements(<<>>) = {} /\ Queue!Distinct(<<>>)
BY DEF Elements, Queue!Distinct

\* The list of one command.
LEMMA OneElement ==
  ASSUME NEW S, NEW c \in S
  PROVE  /\ Elements(<<c>>) = {c} /\ Queue!Distinct(<<c>>)
         /\ <<c>> \in Seq(S) /\ Len(<<c>>) = 1
<1>1. <<c>> \in Seq(S) /\ Len(<<c>>) = 1 /\ <<c>>[1] = c
  OBVIOUS
<1> QED
  BY <1>1 DEF Elements, Queue!Distinct

\* Two lists one after the other: nothing is twice on it unless it is twice on one
\* of them or on both.
LEMMA Joined ==
  ASSUME NEW S, NEW s \in Seq(S), NEW t \in Seq(S)
  PROVE  /\ s \o t \in Seq(S) /\ Len(s \o t) = Len(s) + Len(t)
         /\ Elements(s \o t) = Elements(s) \cup Elements(t)
         /\ Queue!Distinct(s \o t) <=>
              /\ Queue!Distinct(s) /\ Queue!Distinct(t)
              /\ Elements(s) \cap Elements(t) = {}
<1> DEFINE u == s \o t
<1>1. /\ u \in Seq(S) /\ Len(u) = Len(s) + Len(t)
      /\ Len(s) \in Nat /\ Len(t) \in Nat
      /\ \A i \in 1..Len(s) : i \in 1..Len(u) /\ u[i] = s[i]
      /\ \A j \in 1..Len(t) : Len(s) + j \in 1..Len(u) /\ u[Len(s) + j] = t[j]
      /\ \A k \in 1..Len(u) :
           k \notin 1..Len(s) => k - Len(s) \in 1..Len(t) /\ u[k] = t[k - Len(s)]
  <2>1. Len(s) \in Nat /\ Len(t) \in Nat
    OBVIOUS
  <2>2. /\ u \in Seq(S) /\ Len(u) = Len(s) + Len(t)
        /\ \A k \in 1..(Len(s) + Len(t)) :
             u[k] = IF k <= Len(s) THEN s[k] ELSE t[k - Len(s)]
    BY ConcatProperties
  <2> HIDE DEF u
  <2> QED
    BY <2>1, <2>2
<1> HIDE DEF u
<1>2. Elements(u) = Elements(s) \cup Elements(t)
  <2>1. \A k \in 1..Len(u) : u[k] \in Elements(s) \cup Elements(t)
    BY <1>1 DEF Elements
  <2>2. \A i \in 1..Len(s) : s[i] \in Elements(u)
    BY <1>1 DEF Elements
  <2>3. \A j \in 1..Len(t) : t[j] \in Elements(u)
    BY <1>1 DEF Elements
  <2> QED
    BY <2>1, <2>2, <2>3 DEF Elements
<1>3. ASSUME Queue!Distinct(u)
      PROVE  /\ Queue!Distinct(s) /\ Queue!Distinct(t)
             /\ Elements(s) \cap Elements(t) = {}
  <2>1. Queue!Distinct(s)
    BY <1>1, <1>3 DEF Queue!Distinct
  <2>2. Queue!Distinct(t)
    <3> SUFFICES ASSUME NEW i \in 1..Len(t), NEW j \in 1..Len(t), i # j
                 PROVE  t[i] # t[j]
      BY DEF Queue!Distinct
    <3>1. /\ Len(s) + i \in 1..Len(u) /\ u[Len(s) + i] = t[i]
          /\ Len(s) + j \in 1..Len(u) /\ u[Len(s) + j] = t[j]
          /\ Len(s) + i # Len(s) + j
      BY <1>1
    <3> QED
      BY <1>3, <3>1 DEF Queue!Distinct
  <2>3. \A i \in 1..Len(s), j \in 1..Len(t) : s[i] # t[j]
    <3> SUFFICES ASSUME NEW i \in 1..Len(s), NEW j \in 1..Len(t)
                 PROVE  s[i] # t[j]
      OBVIOUS
    <3>1. /\ i \in 1..Len(u) /\ u[i] = s[i]
          /\ Len(s) + j \in 1..Len(u) /\ u[Len(s) + j] = t[j]
          /\ i # Len(s) + j
      BY <1>1
    <3> QED
      BY <1>3, <3>1 DEF Queue!Distinct
  <2> QED
    BY <2>1, <2>2, <2>3 DEF Elements
<1>4. ASSUME Queue!Distinct(s), Queue!Distinct(t),
             Elements(s) \cap Elements(t) = {}
      PROVE  Queue!Distinct(u)
  <2> SUFFICES ASSUME NEW i \in 1..Len(u), NEW j \in 1..Len(u), i < j
               PROVE  u[i] # u[j]
    BY <1>1 DEF Queue!Distinct
  <2>1. CASE j \in 1..Len(s)
    <3>1. i \in 1..Len(s)
      BY <2>1, <1>1
    <3> QED
      BY <1>1, <1>4, <2>1, <3>1 DEF Queue!Distinct
  <2>2. CASE i \in 1..Len(s) /\ j \notin 1..Len(s)
    <3>1. u[i] = s[i] /\ j - Len(s) \in 1..Len(t) /\ u[j] = t[j - Len(s)]
      BY <1>1, <2>2
    <3>2. u[i] \in Elements(s) /\ u[j] \in Elements(t)
      BY <2>2, <3>1 DEF Elements
    <3> QED
      BY <1>4, <3>2
  <2>3. CASE i \notin 1..Len(s) /\ j \notin 1..Len(s)
    <3>1. /\ i - Len(s) \in 1..Len(t) /\ u[i] = t[i - Len(s)]
          /\ j - Len(s) \in 1..Len(t) /\ u[j] = t[j - Len(s)]
          /\ i - Len(s) # j - Len(s)
      BY <1>1, <2>3
    <3> QED
      BY <1>4, <3>1 DEF Queue!Distinct
  <2> QED
    BY <2>1, <2>2, <2>3, <1>1
<1> QED
  BY <1>1, <1>2, <1>3, <1>4 DEF u

\* A list is its head followed by its tail.
LEMMA WithoutHead ==
  ASSUME NEW S, NEW s \in Seq(S), s # <<>>
  PROVE  /\ s = <<Head(s)>> \o Tail(s)
         /\ Head(s) \in S /\ Tail(s) \in Seq(S) /\ Len(Tail(s)) = Len(s) - 1
<1> DEFINE u == <<Head(s)>> \o Tail(s)
<1>1. Head(s) \in S /\ Tail(s) \in Seq(S) /\ Len(Tail(s)) = Len(s) - 1
  OBVIOUS
<1>2. u \in Seq(S) /\ Len(u) = Len(s) /\ \A i \in 1..Len(s) : u[i] = s[i]
  OBVIOUS
<1> QED
  BY <1>1, <1>2

\* A list is the part before its k-th place followed by the rest.
LEMMA Split ==
  ASSUME NEW S, NEW s \in Seq(S), NEW k \in 1..(Len(s) + 1)
  PROVE  LET a == SubSeq(s, 1, k - 1)
             b == SubSeq(s, k, Len(s))
         IN  /\ a \in Seq(S) /\ Len(a) = k - 1
             /\ b \in Seq(S) /\ Len(b) = Len(s) - k + 1
             /\ s = a \o b
<1> DEFINE a == SubSeq(s, 1, k - 1)
           b == SubSeq(s, k, Len(s))
<1>1. Len(s) \in Nat /\ \A i \in 1..Len(s) : s[i] \in S
  OBVIOUS
<1>2. /\ a \in Seq(S) /\ Len(a) = k - 1
      /\ \A i \in 1..(k - 1) : a[i] = s[i]
  BY <1>1, SubSeqProperties
<1>3. /\ b \in Seq(S) /\ Len(b) = Len(s) - k + 1
      /\ \A i \in 1..(Len(s) - k + 1) : b[i] = s[k + i - 1]
  BY <1>1, SubSeqProperties
<1> HIDE DEF a, b
<1>4. /\ a \o b \in Seq(S) /\ Len(a \o b) = Len(s)
      /\ \A i \in 1..Len(s) :
           (a \o b)[i] = IF i <= k - 1 THEN a[i] ELSE b[i - (k - 1)]
  BY <1>1, <1>2, <1>3, ConcatProperties
<1>5. \A i \in 1..Len(s) : (a \o b)[i] = s[i]
  <2> SUFFICES ASSUME NEW i \in 1..Len(s) PROVE (a \o b)[i] = s[i]
    OBVIOUS
  <2>1. CASE i <= k - 1
    BY <1>1, <1>2, <1>4, <2>1
  <2>2. CASE ~(i <= k - 1)
    <3>1. /\ i - (k - 1) \in 1..(Len(s) - k + 1)
          /\ k + (i - (k - 1)) - 1 = i
      BY <1>1, <2>2
    <3> QED
      BY <1>3, <1>4, <2>2, <3>1
  <2> QED
    BY <2>1, <2>2
<1>6. s = a \o b
  BY <1>4, <1>5, SeqEqual
<1> QED
  BY <1>2, <1>3, <1>6 DEF a, b

\* Inserting a command that is not on the list adds that one and doubles none.
LEMMA Inserted ==
  ASSUME NEW S, NEW s \in Seq(S), NEW k \in 1..(Len(s) + 1), NEW c \in S
  PROVE  /\ InsertAt(s, k, c) \in Seq(S) /\ Len(InsertAt(s, k, c)) = Len(s) + 1
         /\ Elements(InsertAt(s, k, c)) = Elements(s) \cup {c}
         /\ Queue!Distinct(s) /\ c \notin Elements(s)
              => Queue!Distinct(InsertAt(s, k, c))
<1> DEFINE a == SubSeq(s, 1, k - 1)
           b == SubSeq(s, k, Len(s))
           d == <<c>>
<1>1. a \in Seq(S) /\ b \in Seq(S) /\ s = a \o b /\ Len(s) = Len(a) + Len(b)
  <2>1. Len(s) \in Nat
    OBVIOUS
  <2>2. /\ a \in Seq(S) /\ Len(a) = k - 1 /\ s = a \o b
        /\ b \in Seq(S) /\ Len(b) = Len(s) - k + 1
    BY Split
  <2> HIDE DEF a, b
  <2> QED
    BY <2>1, <2>2
<1>2. InsertAt(s, k, c) = (a \o d) \o b
  BY DEF InsertAt
<1> HIDE DEF a, b, d
<1>3. /\ d \in Seq(S) /\ Len(d) = 1
      /\ Elements(d) = {c} /\ Queue!Distinct(d)
  <2>1. c \in S
    OBVIOUS
  <2> QED
    BY <2>1, OneElement DEF d
<1>4. /\ a \o d \in Seq(S) /\ Len(a \o d) = Len(a) + 1
      /\ Elements(a \o d) = Elements(a) \cup {c}
      /\ Queue!Distinct(a) /\ c \notin Elements(a)
           => Queue!Distinct(a \o d)
  <2>1. /\ a \o d \in Seq(S) /\ Len(a \o d) = Len(a) + Len(d)
        /\ Elements(a \o d) = Elements(a) \cup Elements(d)
        /\ /\ Queue!Distinct(a) /\ Queue!Distinct(d)
           /\ Elements(a) \cap Elements(d) = {}
           => Queue!Distinct(a \o d)
    BY <1>1, <1>3, Joined
  <2> QED
    BY <1>3, <2>1
<1>5. /\ Elements(s) = Elements(a) \cup Elements(b)
      /\ Queue!Distinct(s) => /\ Queue!Distinct(a) /\ Queue!Distinct(b)
                              /\ Elements(a) \cap Elements(b) = {}
  BY <1>1, Joined
<1>6. /\ (a \o d) \o b \in Seq(S)
      /\ Len((a \o d) \o b) = Len(a \o d) + Len(b)
      /\ Elements((a \o d) \o b) = Elements(a \o d) \cup Elements(b)
      /\ /\ Queue!Distinct(a \o d) /\ Queue!Distinct(b)
         /\ Elements(a \o d) \cap Elements(b) = {}
         => Queue!Distinct((a \o d) \o b)
  BY <1>1, <1>4, Joined
<1>7. Len(a) \in Nat /\ Len(b) \in Nat
  BY <1>1
<1> QED
  BY <1>1, <1>2, <1>4, <1>5, <1>6, <1>7

\* Removing a command adds none and doubles none.
LEMMA Removed ==
  ASSUME NEW S, NEW s \in Seq(S), NEW k \in 1..Len(s)
  PROVE  /\ RemoveAt(s, k) \in Seq(S) /\ Len(RemoveAt(s, k)) = Len(s) - 1
         /\ Elements(RemoveAt(s, k)) \subseteq Elements(s)
         /\ Queue!Distinct(s) => Queue!Distinct(RemoveAt(s, k))
<1> DEFINE a == SubSeq(s, 1, k - 1)
           b == SubSeq(s, k, Len(s))
<1>1. Len(s) \in Nat /\ \A i \in 1..Len(s) : s[i] \in S
  OBVIOUS
<1>2. /\ a \in Seq(S) /\ Len(a) = k - 1
      /\ b \in Seq(S) /\ Len(b) = Len(s) - k + 1
  BY Split
<1>3. s = a \o b
  BY Split
<1>4. SubSeq(s, k + 1, Len(s)) = Tail(b)
  BY <1>1, HeadTailOfSubSeq
<1>5. RemoveAt(s, k) = a \o Tail(b)
  BY <1>4 DEF RemoveAt
<1> HIDE DEF a, b
<1> DEFINE h == <<Head(b)>>
           v == Tail(b)
<1>6. b # <<>>
  BY <1>1, <1>2
<1>7. /\ h \in Seq(S) /\ v \in Seq(S) /\ b = h \o v
      /\ Len(v) = Len(b) - 1
  BY <1>2, <1>6, WithoutHead, OneElement
<1> HIDE DEF h, v
<1>8. /\ Elements(b) = Elements(h) \cup Elements(v)
      /\ Queue!Distinct(b) => Queue!Distinct(v)
  BY <1>7, Joined
<1>9. /\ Elements(s) = Elements(a) \cup Elements(b)
      /\ Queue!Distinct(s) => /\ Queue!Distinct(a) /\ Queue!Distinct(b)
                              /\ Elements(a) \cap Elements(b) = {}
  BY <1>2, <1>3, Joined
<1>10. /\ a \o v \in Seq(S) /\ Len(a \o v) = Len(a) + Len(v)
       /\ Elements(a \o v) = Elements(a) \cup Elements(v)
       /\ /\ Queue!Distinct(a) /\ Queue!Distinct(v)
          /\ Elements(a) \cap Elements(v) = {}
          => Queue!Distinct(a \o v)
  BY <1>2, <1>7, Joined
<1> QED
  BY <1>1, <1>2, <1>5, <1>7, <1>8, <1>9, <1>10 DEF v

\* Moving a command before the one in front of it adds none and doubles none.
LEMMA Raised ==
  ASSUME NEW S, NEW s \in Seq(S), NEW k \in 2..Len(s)
  PROVE  LET r == [s EXCEPT ![k] = s[k-1], ![k-1] = s[k]] IN
         /\ r \in Seq(S) /\ Len(r) = Len(s)
         /\ Elements(r) \subseteq Elements(s)
         /\ Queue!Distinct(s) => Queue!Distinct(r)
<1> DEFINE r == [s EXCEPT ![k] = s[k-1], ![k-1] = s[k]]
           at(i) == IF i = k THEN k - 1 ELSE IF i = k - 1 THEN k ELSE i
<1>1. /\ r \in Seq(S) /\ Len(r) = Len(s) /\ Len(s) \in Nat
      /\ k - 1 \in 1..Len(s) /\ k \in 1..Len(s)
  OBVIOUS
<1>2. \A i \in 1..Len(r) : at(i) \in 1..Len(s) /\ r[i] = s[at(i)]
  OBVIOUS
<1>3. \A i, j \in 1..Len(r) : i # j => at(i) # at(j)
  BY <1>1
<1> HIDE DEF r, at
<1>4. Elements(r) \subseteq Elements(s)
  BY <1>2 DEF Elements
<1>5. Queue!Distinct(s) => Queue!Distinct(r)
  BY <1>2, <1>3 DEF Queue!Distinct
<1> QED
  BY <1>1, <1>4, <1>5 DEF r

\* New commands are numbered on from the last one given, each once.
LEMMA NewCommands ==
  ASSUME given \in Nat, NEW n \in Nat
  PROVE  /\ New(n) \in Seq((given + 1)..(given + n)) /\ Len(New(n)) = n
         /\ Queue!Distinct(New(n))
<1>1. New(n) \in [1..n -> (given + 1)..(given + n)]
  BY DEF New
<1>2. New(n) \in Seq((given + 1)..(given + n)) /\ Len(New(n)) = n
  BY <1>1
<1>3. Queue!Distinct(New(n))
  BY <1>2 DEF New, Queue!Distinct
<1> QED
  BY <1>2, <1>3
-----------------------------------------------------------------------------
(***************************************************************************)
(* The types.                                                              *)
(***************************************************************************)

\* What was given stays given.
LEMMA StillNamed ==
  ASSUME NEW g \in Nat, NEW h \in Nat, g <= h, NEW s \in Seq(1..g)
  PROVE  s \in Seq(1..h)
<1>1. 1..g \subseteq 1..h
  OBVIOUS
<1> QED
  BY <1>1, SeqMonotonic

\* A write that is not counted is one over what was read.
LEMMA Written ==
  ASSUME TypeOK, NEW s, NEW r, WriteRecord(s, r)
  PROVE  /\ record' = s
         /\ overwritten' \in {overwritten, overwritten + 1}
         /\ overwritten' \in Nat
         /\ overwritten' = overwritten => record = r
<1>1. overwritten \in Nat
  BY DEF TypeOK
<1> QED
  BY <1>1 DEF WriteRecord

\* RS and RS= read a record that is closed, or nothing.
LEMMA Read ==
  ASSUME TypeOK
  PROVE  /\ Readable \in {<<>>, record} /\ Len(Readable) \in 0..Room
         /\ Readable \in Seq(1..given)
<1>1. record \in Seq(1..given) /\ Len(record) \in Nat /\ Room \in Nat
  BY SequenceAssumption DEF TypeOK, Named
<1>2. <<>> \in Seq(1..given) /\ Len(<<>>) = 0
  BY EmptySeq
<1>3. CASE Closed
  <2>1. Readable = record /\ Len(record) <= Room
    BY <1>3 DEF Readable, Closed
  <2> QED
    BY <1>1, <2>1
<1>4. CASE ~Closed
  <2>1. Readable = <<>>
    BY <1>4 DEF Readable
  <2> QED
    BY <1>1, <1>2, <2>1
<1> QED
  BY <1>3, <1>4

\* What RS= makes of the record and of the commands it was given.
LEMMA Appended ==
  ASSUME TypeOK, ReadToAppend
  PROVE  \E n \in 0..(MaxGiven - given), old \in {<<>>, record} :
           /\ given' = given + n
           /\ q' = [AtPrompt EXCEPT !.at = "given", !.read = record,
                                    !.seq = old \o New(n)]
           /\ Len(old) + n <= Room
<1>1. PICK m \in 0..(MaxGiven - given), delete \in BOOLEAN :
        LET fit == IF m <= Room - Len(Readable) THEN m ELSE Room - Len(Readable) IN
        /\ q' = [AtPrompt EXCEPT !.at = "given", !.read = record,
                   !.seq = (IF delete THEN <<>> ELSE Readable) \o New(fit)]
        /\ given' = given + fit
  BY DEF ReadToAppend
<1> DEFINE fit == IF m <= Room - Len(Readable) THEN m ELSE Room - Len(Readable)
           old == IF delete THEN <<>> ELSE Readable
<1>2. Room \in Nat /\ MaxGiven \in Nat
  BY SequenceAssumption
<1>3. Len(Readable) \in 0..Room /\ given \in Nat
  BY Read DEF TypeOK
<1>4. fit \in 0..(MaxGiven - given) /\ fit <= Room - Len(Readable)
  BY <1>2, <1>3
<1>5. old \in {<<>>, record} /\ Len(old) \in 0..Len(Readable)
  <2>1. Readable \in {<<>>, record} /\ Len(<<>>) = 0
    BY Read
  <2> QED
    BY <1>3, <2>1
<1>6. Len(old) + fit <= Room
  <2> HIDE DEF fit, old
  <2> QED
    BY <1>2, <1>3, <1>4, <1>5
<1> QED
  BY <1>1, <1>4, <1>5, <1>6

\* RS= takes commands it was given, each under a number of its own.
LEMMA AppendedType == ASSUME TypeOK, ReadToAppend PROVE TypeOK'
<1>1. PICK n \in 0..(MaxGiven - given), old \in {<<>>, record} :
        /\ given' = given + n
        /\ q' = [AtPrompt EXCEPT !.at = "given", !.read = record,
                                 !.seq = old \o New(n)]
        /\ Len(old) + n <= Room
  BY Appended
<1>2. MaxGiven \in Nat
  BY SequenceAssumption
<1>3. given \in Nat /\ n \in Nat /\ given' \in 0..MaxGiven /\ given <= given'
  BY <1>1, <1>2 DEF TypeOK
<1>4. /\ begun \in Seq(1..given') /\ record \in Seq(1..given')
      /\ old \in Seq(1..given')
      /\ editor \in [list : Seq(1..given'), read : Seq(1..given')]
  <2>1. /\ begun \in Seq(1..given) /\ record \in Seq(1..given)
        /\ editor \in [list : Seq(1..given), read : Seq(1..given)]
    BY DEF TypeOK, Named
  <2>2. given' \in Nat
    BY <1>2, <1>3
  <2>3. Seq(1..given) \subseteq Seq(1..given')
    BY <1>3, <2>2, StillNamed
  <2>4. <<>> \in Seq(1..given')
    BY EmptySeq
  <2>5. editor \in [list : Seq(1..given'), read : Seq(1..given')]
    BY <2>1, <2>3
  <2> QED
    BY <2>1, <2>3, <2>4, <2>5
<1>5. New(n) \in Seq(1..given') /\ Len(New(n)) = n
  <2>1. New(n) \in Seq((given + 1)..(given + n)) /\ Len(New(n)) = n
    BY <1>3, NewCommands
  <2>2. (given + 1)..(given + n) \subseteq 1..given'
    BY <1>1, <1>3
  <2> QED
    BY <2>1, <2>2, SeqMonotonic
<1>6. old \o New(n) \in Seq(1..given')
  BY <1>4, <1>5, Joined
<1>7. q' = [at |-> "given", seq |-> old \o New(n), read |-> record,
            command |-> 0, more |-> FALSE]
  BY <1>1 DEF AtPrompt, None
<1>8. UNCHANGED <<ev, record, editor, begun, edits, overwritten, crashes>>
  BY DEF ReadToAppend
<1>9. q' \in [at : Place,
              seq : Seq(1..given'), read : Seq(1..given'), command : 0..given',
              more : BOOLEAN]
  BY <1>3, <1>4, <1>6, <1>7 DEF Place
<1>10. /\ ev \in EventState
       /\ edits \in Nat /\ overwritten \in Nat /\ crashes \in Nat
  BY DEF TypeOK
<1> QED
  BY <1>3, <1>4, <1>7, <1>8, <1>9, <1>10 DEF TypeOK, Named, At

\* What the editor's commands do to its list.
LEMMA Changed ==
  ASSUME TypeOK, SequenceChange
  PROVE  /\ given' \in {given, given + 1} /\ given' \in 0..MaxGiven
         /\ editor' = [editor EXCEPT !.list = editor'.list]
         /\ editor'.list \in Seq(1..given')
         /\ \A x \in Elements(editor'.list) :
              \/ x \in Elements(editor.list)
              \/ x = given + 1 /\ given' = given + 1
         /\ Queue!Distinct(editor.list) => Queue!Distinct(editor'.list)
<1> DEFINE list == editor.list
           new  == editor'.list
<1>1. /\ list \in Seq(1..given) /\ given \in 0..MaxGiven /\ MaxGiven \in Nat
      /\ editor \in [list : Seq(1..given), read : Seq(1..given)]
  BY SequenceAssumption DEF TypeOK, Named
<1>2. CASE /\ given < MaxGiven
           /\ given' = given + 1
           /\ \E k \in 1..(Len(list) + 1) :
                editor' = [editor EXCEPT !.list = InsertAt(list, k, given + 1)]
  <2>1. PICK k \in 1..(Len(list) + 1) :
          editor' = [editor EXCEPT !.list = InsertAt(list, k, given + 1)]
    BY <1>2
  <2>2. new = InsertAt(list, k, given + 1)
    BY <1>1, <2>1
  <2>3. list \in Seq(1..given') /\ given + 1 \in 1..given'
    BY <1>1, <1>2, StillNamed
  <2>4. /\ new \in Seq(1..given') /\ Len(new) = Len(list) + 1
        /\ Elements(new) = Elements(list) \cup {given + 1}
        /\ Queue!Distinct(list) /\ given + 1 \notin Elements(list)
             => Queue!Distinct(new)
    <3> DEFINE c == given + 1
               S == 1..given'
    <3>1. list \in Seq(S) /\ c \in S
      BY <2>3
    <3> HIDE DEF list, c, S
    <3>2. /\ InsertAt(list, k, c) \in Seq(S)
          /\ Len(InsertAt(list, k, c)) = Len(list) + 1
          /\ Elements(InsertAt(list, k, c)) = Elements(list) \cup {c}
          /\ Queue!Distinct(list) /\ c \notin Elements(list)
               => Queue!Distinct(InsertAt(list, k, c))
      BY <3>1, Inserted
    <3> QED
      BY <2>2, <3>2 DEF c, S, list
  <2>5. given + 1 \notin Elements(list)
    BY <1>1, ElementsOf
  <2> QED
    BY <1>1, <1>2, <2>1, <2>2, <2>4, <2>5
<1>3. CASE /\ UNCHANGED given
           /\ \E k \in 1..Len(list) :
                editor' = [editor EXCEPT !.list = RemoveAt(list, k)]
  <2>1. PICK k \in 1..Len(list) :
          editor' = [editor EXCEPT !.list = RemoveAt(list, k)]
    BY <1>3
  <2>2. new = RemoveAt(list, k)
    BY <1>1, <2>1
  <2>3. /\ new \in Seq(1..given) /\ Len(new) = Len(list) - 1
        /\ Elements(new) \subseteq Elements(list)
        /\ Queue!Distinct(list) => Queue!Distinct(new)
    BY <1>1, <2>2, Removed
  <2>4. editor' = [editor EXCEPT !.list = new]
    BY <2>1, <2>2
  <2>5. given' = given
    BY <1>3
  <2> QED
    BY <1>1, <2>3, <2>4, <2>5
<1>4. CASE /\ UNCHANGED given
           /\ \E k \in 2..Len(list) :
                editor' = [editor EXCEPT !.list = [list EXCEPT ![k] = list[k-1],
                                                              ![k-1] = list[k]]]
  <2>1. PICK k \in 2..Len(list) :
          editor' = [editor EXCEPT !.list = [list EXCEPT ![k] = list[k-1],
                                                        ![k-1] = list[k]]]
    BY <1>4
  <2>2. new = [list EXCEPT ![k] = list[k-1], ![k-1] = list[k]]
    BY <1>1, <2>1
  <2>3. /\ new \in Seq(1..given) /\ Len(new) = Len(list)
        /\ Elements(new) \subseteq Elements(list)
        /\ Queue!Distinct(list) => Queue!Distinct(new)
    BY <1>1, <2>2, Raised
  <2>4. editor' = [editor EXCEPT !.list = new]
    BY <2>1, <2>2
  <2>5. given' = given
    BY <1>4
  <2> QED
    BY <1>1, <2>3, <2>4, <2>5
<1> QED
  BY <1>2, <1>3, <1>4 DEF SequenceChange

\* A list cut after Room commands ends in the command that came next or in a piece.
LEMMA CutList ==
  ASSUME NEW S, NEW s \in Seq(S), NEW x \in S, Room < Len(s)
  PROVE  /\ Cut(s, x) \in Seq(S) /\ Len(Cut(s, x)) = Room + 1
         /\ Elements(Cut(s, x)) \subseteq Elements(s) \cup {x}
         /\ s[Room + 1] \in S
         /\ Queue!Distinct(s) /\ (x \notin Elements(s) \/ x = s[Room + 1])
              => Queue!Distinct(Cut(s, x))
<1> DEFINE a == SubSeq(s, 1, Room)
           b == SubSeq(s, Room + 1, Len(s))
           d == <<x>>
<1>1. /\ Room \in Nat /\ Len(s) \in Nat
      /\ Room + 1 \in 1..(Len(s) + 1) /\ Room + 1 \in 1..Len(s)
      /\ (Room + 1) - 1 = Room
  BY SequenceAssumption
<1>2. /\ a \in Seq(S) /\ Len(a) = Room
      /\ b \in Seq(S) /\ Len(b) = Len(s) - (Room + 1) + 1
      /\ s = a \o b
  <2> DEFINE k == Room + 1
  <2>1. k \in 1..(Len(s) + 1) /\ k - 1 = Room
    BY <1>1
  <2> HIDE DEF k
  <2>2. /\ SubSeq(s, 1, k - 1) \in Seq(S) /\ Len(SubSeq(s, 1, k - 1)) = k - 1
        /\ SubSeq(s, k, Len(s)) \in Seq(S)
        /\ Len(SubSeq(s, k, Len(s))) = Len(s) - k + 1
        /\ s = SubSeq(s, 1, k - 1) \o SubSeq(s, k, Len(s))
    BY <2>1, Split
  <2> QED
    BY <2>1, <2>2 DEF k
<1>3. d \in Seq(S) /\ Elements(d) = {x} /\ Queue!Distinct(d) /\ Len(d) = 1
  BY OneElement
<1>4. Cut(s, x) = a \o d
  BY <1>2, AppendIsConcat DEF Cut
<1>5. s[Room + 1] \in Elements(b) /\ s[Room + 1] \in S
  <2>1. Len(b) \in Nat /\ 1 \in 1..Len(b)
    BY <1>1, <1>2
  <2>2. b[1] = s[Room + 1]
    BY <1>1, SubSeqProperties
  <2>3. s[Room + 1] \in S
    BY <1>1
  <2> HIDE DEF b
  <2> QED
    BY <2>1, <2>2, <2>3 DEF Elements
<1> HIDE DEF a, b, d
<1>6. /\ Elements(s) = Elements(a) \cup Elements(b)
      /\ Queue!Distinct(s) => /\ Queue!Distinct(a)
                              /\ Elements(a) \cap Elements(b) = {}
  BY <1>2, Joined
<1>7. /\ a \o d \in Seq(S) /\ Len(a \o d) = Room + 1
      /\ Elements(a \o d) = Elements(a) \cup {x}
      /\ Queue!Distinct(a) /\ x \notin Elements(a) => Queue!Distinct(a \o d)
  <2>1. /\ a \o d \in Seq(S) /\ Len(a \o d) = Len(a) + Len(d)
        /\ Elements(a \o d) = Elements(a) \cup Elements(d)
        /\ /\ Queue!Distinct(a) /\ Queue!Distinct(d)
           /\ Elements(a) \cap Elements(d) = {}
           => Queue!Distinct(a \o d)
    BY <1>2, <1>3, Joined
  <2> QED
    BY <1>2, <1>3, <2>1
<1> QED
  BY <1>4, <1>5, <1>6, <1>7

\* What the editor leaves in the record: commands of its list, and at most a piece
\* of one under a number of its own.
LEMMA Listed ==
  ASSUME TypeOK, WriteList
  PROVE  \E new : /\ WriteRecord(new, editor.read)
                  /\ given' \in {given, given + 1} /\ given' \in 0..MaxGiven
                  /\ new \in Seq(1..given') /\ Len(new) <= Room + 1
                  /\ \A x \in Elements(new) :
                       \/ x \in Elements(editor.list)
                       \/ x = given + 1 /\ given' = given + 1
                  /\ Queue!Distinct(editor.list) => Queue!Distinct(new)
<1> DEFINE list == editor.list
<1>1. /\ list \in Seq(1..given) /\ given \in 0..MaxGiven /\ MaxGiven \in Nat
      /\ Room \in Nat /\ Len(list) \in Nat
  BY SequenceAssumption DEF TypeOK, Named
<1>2. CASE Len(list) <= Room /\ WriteRecord(list, editor.read) /\ UNCHANGED given
  BY <1>1, <1>2
<1>3. CASE /\ Len(list) > Room /\ UNCHANGED given
           /\ WriteRecord(Cut(list, list[Room + 1]), editor.read)
  <2> DEFINE c == list[Room + 1]
             S == 1..given
  <2>1. Room < Len(list) /\ list \in Seq(S) /\ Room + 1 \in 1..Len(list)
    BY <1>1, <1>3
  <2> HIDE DEF list, S
  <2>2. c \in S /\ c \in Elements(list) /\ c = list[Room + 1]
    BY <2>1 DEF Elements
  <2> HIDE DEF c
  <2>3. /\ Cut(list, c) \in Seq(S) /\ Len(Cut(list, c)) = Room + 1
        /\ Elements(Cut(list, c)) \subseteq Elements(list) \cup {c}
        /\ Queue!Distinct(list) => Queue!Distinct(Cut(list, c))
    BY <2>1, <2>2, CutList
  <2>4. Elements(Cut(list, c)) \subseteq Elements(list)
    BY <2>2, <2>3
  <2>5. WriteRecord(Cut(list, c), editor.read) /\ given' = given
    BY <1>3 DEF c
  <2>6. given' \in 0..MaxGiven /\ Len(Cut(list, c)) <= Room + 1
    BY <1>1, <2>3, <2>5
  <2>7. Cut(list, c) \in Seq(1..given')
    BY <2>3, <2>5 DEF S
  <2> QED
    BY <2>3, <2>4, <2>5, <2>6, <2>7 DEF list
<1>4. CASE /\ Len(list) > Room /\ given < MaxGiven /\ given' = given + 1
           /\ WriteRecord(Cut(list, given + 1), editor.read)
  <2> DEFINE c == given + 1
             S == 1..given'
  <2>1. Room < Len(list) /\ list \in Seq(S) /\ c \in S
    BY <1>1, <1>4, StillNamed
  <2>2. c \notin Elements(list)
    BY <1>1, ElementsOf
  <2>3. given' = c /\ given' \in 0..MaxGiven
    BY <1>1, <1>4
  <2>4. WriteRecord(Cut(list, c), editor.read)
    BY <1>4
  <2> HIDE DEF list, c, S
  <2>5. /\ Cut(list, c) \in Seq(S) /\ Len(Cut(list, c)) = Room + 1
        /\ Elements(Cut(list, c)) \subseteq Elements(list) \cup {c}
        /\ Queue!Distinct(list) => Queue!Distinct(Cut(list, c))
    BY <2>1, <2>2, CutList
  <2>6. Len(Cut(list, c)) <= Room + 1
    BY <1>1, <2>5
  <2>7. Cut(list, c) \in Seq(1..given')
    BY <2>5 DEF S
  <2> QED
    BY <2>3, <2>4, <2>5, <2>6, <2>7 DEF list, c
<1> QED
  BY <1>2, <1>3, <1>4 DEF WriteList

\* What the editor inserts is a command given.
LEMMA ChangedType == ASSUME TypeOK, SequenceChange PROVE TypeOK'
<1>1. /\ given \in Nat /\ given' \in 0..MaxGiven /\ given <= given'
      /\ given' \in Nat
      /\ editor' = [editor EXCEPT !.list = editor'.list]
      /\ editor'.list \in Seq(1..given')
  BY SequenceAssumption, Changed DEF TypeOK
<1>2. Seq(1..given) \subseteq Seq(1..given') /\ 0..given \subseteq 0..given'
  BY <1>1, StillNamed
<1>3. UNCHANGED <<ev, record, q, begun, edits, overwritten, crashes>>
  BY DEF SequenceChange
<1>4. editor' \in [list : Seq(1..given'), read : Seq(1..given')]
  <2>1. editor \in [list : Seq(1..given), read : Seq(1..given)]
    BY DEF TypeOK, Named
  <2>2. editor'.list \in Seq(1..given')
    BY <1>1
  <2> DEFINE new == editor'.list
  <2>3. editor' = [editor EXCEPT !.list = new] /\ new \in Seq(1..given')
    BY <1>1, <2>2
  <2> HIDE DEF new
  <2> QED
    BY <1>2, <2>1, <2>3
<1>5. q \in [at : Place,
            seq : Seq(1..given'), read : Seq(1..given'), command : 0..given',
            more : BOOLEAN]
  BY <1>2 DEF TypeOK, Named
<1> QED
  BY <1>1, <1>2, <1>3, <1>4, <1>5 DEF TypeOK, Named, At

\* What the editor writes is a list of commands given, or of a piece of one.
LEMMA WrittenType == ASSUME TypeOK, SequenceWrite PROVE TypeOK'
<1>1. PICK new :
        /\ WriteRecord(new, editor.read)
        /\ given' \in {given, given + 1} /\ given' \in 0..MaxGiven
        /\ new \in Seq(1..given')
  BY Listed DEF SequenceWrite
<1>2. given \in Nat /\ given' \in Nat /\ given <= given'
  BY <1>1, SequenceAssumption DEF TypeOK
<1>3. /\ Seq(1..given) \subseteq Seq(1..given') /\ 0..given \subseteq 0..given'
      /\ <<>> \in Seq(1..given')
  BY <1>2, StillNamed, EmptySeq
<1>4. record' \in Seq(1..given') /\ overwritten' \in Nat
  BY <1>1, Written
<1>5. /\ UNCHANGED <<ev, q, begun, crashes>> /\ edits' = edits + 1
      /\ editor' = [list |-> <<>>, read |-> <<>>]
  BY DEF SequenceWrite
<1>6. /\ begun \in Seq(1..given')
      /\ q \in [at : Place,
                seq : Seq(1..given'), read : Seq(1..given'), command : 0..given',
                more : BOOLEAN]
  BY <1>3 DEF TypeOK, Named
<1>7. editor' \in [list : Seq(1..given'), read : Seq(1..given')]
  BY <1>3, <1>5
<1>8. edits' \in Nat
  BY <1>5 DEF TypeOK
<1> QED
  BY <1>1, <1>4, <1>5, <1>6, <1>7, <1>8 DEF TypeOK, Named, At

\* The other steps give no commands and take lists over as they are.
LEMMA TypeStep == ASSUME TypeOK, [Next]_vars PROVE TypeOK'
<1>1. /\ given \in 0..MaxGiven /\ MaxGiven \in Nat /\ <<>> \in Seq(1..given)
  BY SequenceAssumption, EmptySeq DEF TypeOK
<1>2. CASE ReadToAppend
  BY <1>2, AppendedType
<1>3. CASE Parse_RS
  <2>1. /\ record' \in Seq(1..given) /\ given' = given
        /\ overwritten' \in Nat
    BY <1>3, Written DEF Parse_RS, TypeOK, Named
  <2> QED
    BY <1>1, <1>3, <2>1 DEF Parse_RS, TypeOK, Named, Place, AtPrompt, None, At
<1>4. CASE ReadRecord
  <2>1. q' = [at |-> "loop", seq |-> Readable, read |-> record, command |-> 0,
              more |-> FALSE]
    BY <1>4 DEF ReadRecord, AtPrompt, None
  <2>2. /\ record \in Seq(1..given) /\ Readable \in Seq(1..given)
        /\ Readable \in {record, <<>>}
    BY Read DEF TypeOK, Named, Place
  <2>3. q' \in [at : Place,
               seq : Seq(1..given), read : Seq(1..given), command : 0..given,
               more : BOOLEAN]
    BY <1>1, <2>1, <2>2 DEF Place
  <2>4. q'.at = "loop" /\ q'.seq = Readable /\ q'.read = record
    BY <2>1
  <2>5. UNCHANGED <<ev, record, editor, begun, given, edits, overwritten,
                    crashes>>
    BY <1>4 DEF ReadRecord
  <2> QED
    BY <1>1, <2>2, <2>3, <2>4, <2>5 DEF TypeOK, Named, Place, At
<1>5. CASE Terminated
  BY <1>1, <1>5 DEF Terminated, TypeOK, Named, Place, AtPrompt, None, At
<1>6. CASE Update
  <2>1. q.seq \in Seq(1..given) /\ q.seq # <<>> /\ Len(q.seq) \in Nat
    BY <1>6 DEF Update, TypeOK, Named, Place
  <2>2. Head(q.seq) \in 1..given /\ Tail(q.seq) \in Seq(1..given)
    <3> DEFINE S == 1..given
    <3>1. q.seq \in Seq(S) /\ q.seq # <<>>
      BY <2>1
    <3> HIDE DEF S
    <3>2. Head(q.seq) \in S /\ Tail(q.seq) \in Seq(S)
      BY <3>1, WithoutHead
    <3> QED
      BY <3>2 DEF S
  <2>3. record' \in Seq(1..given) /\ overwritten' \in Nat
    BY <1>6, <2>2, Written DEF Update
  <2>4. /\ q' = [at |-> "taken", seq |-> <<>>, read |-> <<>>,
                 command |-> Head(q.seq), more |-> Len(q.seq) > 1]
        /\ (Len(q.seq) > 1) \in BOOLEAN
    <3>1. q' = Taken /\ (Len(q.seq) > 1) \in BOOLEAN
      BY <1>6 DEF Update
    <3> DEFINE more == Len(q.seq) > 1
               head == Head(q.seq)
    <3>2. Taken = [AtPrompt EXCEPT !.at = "taken", !.command = head,
                                   !.more = more]
      BY DEF Taken
    <3> HIDE DEF more, head
    <3>3. Taken = [at |-> "taken", seq |-> <<>>, read |-> <<>>,
                   command |-> head, more |-> more]
      BY <3>2 DEF AtPrompt, None
    <3> QED
      BY <3>1, <3>3 DEF more, head
  <2> QED
    BY <1>1, <1>6, <2>2, <2>3, <2>4 DEF Update, TypeOK, Named, Place, None, At
<1>7. CASE Execute
  <2>1. Append(begun, q.command) \in Seq(1..given)
    BY <1>7 DEF Execute, TypeOK, Named, Place, None, At
  <2>2. ev' \in EventState
    BY <1>7, ClrefType DEF Execute, TypeOK, Flags
  <2>3. q' = [q EXCEPT !.at = "ran", !.command = 0]
    BY <1>7 DEF Execute, None
  <2>4. q' \in [at : Place,
               seq : Seq(1..given), read : Seq(1..given), command : 0..given,
               more : BOOLEAN]
    <3> DEFINE S == Seq(1..given)
               C == 0..given
    <3>1. 0 \in C
      BY <1>1
    <3>2. q \in [at : Place,
                seq : S, read : S, command : C, more : BOOLEAN]
      BY DEF TypeOK, Named
    <3> HIDE DEF S, C
    <3>3. q' \in [at : Place,
                 seq : S, read : S, command : C, more : BOOLEAN]
      BY <2>3, <3>1, <3>2 DEF Place
    <3> QED
      BY <3>3 DEF S, C
  <2>5. /\ q'.at = "ran" /\ q'.seq = q.seq /\ q'.read = q.read
        /\ q.seq \in {q.read, <<>>}
    BY <1>7, <2>3 DEF Execute, At, TypeOK
  <2> QED
    BY <1>1, <1>7, <2>1, <2>2, <2>4, <2>5 DEF Execute, TypeOK, Named, Place, At
<1>8. CASE Poll
  <2>1. ev' \in EventState
    BY <1>8, ClrefType, ReadefType DEF Poll, TypeOK, Flags
  <2>2. q' \in {[q EXCEPT !.at = "ask"], [q EXCEPT !.at = "again"]}
    BY <1>8 DEF Poll
  <2> QED
    BY <1>1, <1>8, <2>1, <2>2 DEF Poll, TypeOK, Named, Place, None, At
<1>9. CASE GoOn
  BY <1>9 DEF GoOn, TypeOK, Named, Place, None, At
<1>10. CASE AbortSequence
  BY <1>1, <1>10 DEF AbortSequence, TypeOK, Named, Place, AtPrompt, None, At
<1>11. CASE SequenceRead
  BY <1>11 DEF SequenceRead, TypeOK, Named, Place, At
<1>12. CASE SequenceChange
  BY <1>12, ChangedType
<1>13. CASE SequenceWrite
  BY <1>13, WrittenType
<1>14. CASE Crash
  <2>1. NoEvents \in EventState
    BY DEF NoEvents, EventState
  <2> QED
    BY <1>1, <1>14, <2>1 DEF Crash, TypeOK, Named, Place, AtPrompt, None, At
<1>15. CASE ControlA
  <2>1. ev' \in EventState
    <3>1. "contr_a" \in Flags /\ "sigint" \in Signals
      BY DEF Flags, Signals
    <3> QED
      BY <1>15, <3>1, SetType DEF ControlA, TypeOK
  <2> QED
    BY <1>15, <2>1 DEF ControlA, TypeOK, Named, Place, At
<1>16. CASE UNCHANGED vars
  BY <1>16 DEF vars, TypeOK, Named, Place, At
<1> QED
  BY <1>2, <1>3, <1>4, <1>5, <1>6, <1>7, <1>8, <1>9, <1>10, <1>11, <1>12,
     <1>13, <1>14, <1>15, <1>16 DEF Next, DoSequence

-----------------------------------------------------------------------------
(***************************************************************************)
(* The commands that a party owns.                                         *)
(***************************************************************************)

\* What is still to do is a list of commands given.
LEMMA ToDoType ==
  ASSUME TypeOK
  PROVE  /\ ToDo \in Seq(1..given) /\ begun \in Seq(1..given)
         /\ record \in Seq(1..given)
         /\ editor.list \in Seq(1..given) /\ editor.read \in Seq(1..given)
         /\ q.seq \in Seq(1..given) /\ q.read \in Seq(1..given)
<1>1. record \in Seq(1..given)
  BY DEF TypeOK, Named, Place
<1>2. CASE At("taken")
  <2>1. q.command \in 1..given
    BY <1>2 DEF TypeOK, None
  <2> DEFINE S == 1..given
             c == q.command
  <2>2. c \in S /\ record \in Seq(S)
    BY <1>1, <2>1
  <2> HIDE DEF S, c
  <2>3. <<c>> \o record \in Seq(S)
    BY <2>2, OneElement, Joined
  <2> QED
    BY <1>2, <2>3 DEF ToDo, TypeOK, Named, Place, S, c
<1> QED
  BY <1>1, <1>2 DEF ToDo, TypeOK, Named, Place

\* Apart, with the lists that it joins taken to pieces.
Parts ==
  /\ Queue!Distinct(begun) /\ Queue!Distinct(ToDo)
  /\ Elements(begun) \cap Elements(ToDo) = {}
  /\ Queue!Distinct(editor.list) /\ Queue!Distinct(q.seq)
  /\ \A x \in Own(editor.list, editor.read) :
       x \notin Elements(begun) /\ x \notin Elements(ToDo)
  /\ \A x \in Own(q.seq, q.read) :
       /\ x \notin Elements(begun) /\ x \notin Elements(ToDo)
       /\ x \notin Own(editor.list, editor.read)

\* The two are the same, as far as the types hold.
LEMMA ApartParts == TypeOK => (Apart <=> Parts)
<1> SUFFICES ASSUME TypeOK PROVE Apart <=> Parts
  OBVIOUS
<1> DEFINE S == 1..given
<1>1. ToDo \in Seq(S) /\ begun \in Seq(S)
  BY ToDoType
<1> HIDE DEF S
<1>2. /\ Elements(begun \o ToDo) = Elements(begun) \cup Elements(ToDo)
      /\ Queue!Distinct(begun \o ToDo) <=>
           /\ Queue!Distinct(begun) /\ Queue!Distinct(ToDo)
           /\ Elements(begun) \cap Elements(ToDo) = {}
  BY <1>1, Joined
<1> QED
  BY <1>2 DEF Apart, Parts

\* It is enough to show the pieces of the next state.
LEMMA PartsNext == ASSUME TypeOK', Parts' PROVE Apart'
  BY ApartParts, PTL

\* Who holds what was read, or nothing of it, owns nothing.
LEMMA OwnNothing ==
  ASSUME NEW r, NEW s \in {r, <<>>} PROVE Own(s, r) = {}
BY EmptyList DEF Own

\* Nothing that counts changes hands.
LEMMA Quiet ==
  ASSUME TypeOK, TypeOK', Apart, UNCHANGED <<begun, ToDo, editor>>,
         q'.seq \in {q'.read, <<>>}, Queue!Distinct(q'.seq)
  PROVE  Apart'
<1>1. Own(q'.seq, q'.read) = {}
  BY OwnNothing
<1> QED
  BY <1>1 DEF Apart

\* RS= adds new commands only to what it read.
LEMMA AppendedApart ==
  ASSUME TypeOK, TypeOK', Apart, ReadToAppend PROVE Apart'
<1>1. PICK n \in 0..(MaxGiven - given), old \in {<<>>, record} :
        /\ given' = given + n
        /\ q' = [AtPrompt EXCEPT !.at = "given", !.read = record,
                                 !.seq = old \o New(n)]
        /\ Len(old) + n <= Room
  BY Appended
<1>2. /\ At("prompt") /\ UNCHANGED <<record, editor, begun>>
  BY DEF ReadToAppend
<1>3. q'.at = "given" /\ q'.seq = old \o New(n) /\ q'.read = record
  BY <1>1 DEF AtPrompt
<1>4. ToDo = record /\ ToDo' = record
  BY <1>2, <1>3 DEF ToDo, At
<1>5. given \in Nat /\ n \in Nat
  BY SequenceAssumption DEF TypeOK
<1> DEFINE S == 1..(given + n)
           new == New(n)
<1>6. /\ old \in Seq(S) /\ new \in Seq(S) /\ Queue!Distinct(new)
      /\ \A x \in Elements(new) : x \in (given + 1)..(given + n)
  <2>1. /\ new \in Seq((given + 1)..(given + n)) /\ Queue!Distinct(new)
    BY <1>5, NewCommands
  <2>2. (given + 1)..(given + n) \subseteq S
    BY <1>5
  <2>3. record \in Seq(S)
    BY <1>5, ToDoType, StillNamed
  <2>4. <<>> \in Seq(S)
    BY EmptySeq
  <2>5. new \in Seq(S)
    <3> DEFINE R == (given + 1)..(given + n)
    <3>1. new \in Seq(R) /\ R \subseteq S
      BY <2>1, <2>2
    <3> HIDE DEF R, S, new
    <3> QED
      BY <3>1, SeqMonotonic
  <2> QED
    BY <2>1, <2>3, <2>4, <2>5, ElementsOf
<1>7. /\ \A x \in Elements(begun) : x \in 1..given
      /\ \A x \in Elements(record) : x \in 1..given
      /\ \A x \in Elements(editor.list) : x \in 1..given
  BY ToDoType, ElementsOf
<1>8. \A x \in Elements(new) : /\ x \notin Elements(begun)
                              /\ x \notin Elements(record)
                              /\ x \notin Elements(editor.list)
  <2> HIDE DEF new
  <2> QED
    BY <1>5, <1>6, <1>7
<1>9. Parts
  BY ApartParts
<1>10. Queue!Distinct(old) /\ Elements(old) \subseteq Elements(record)
  BY <1>4, <1>9, EmptyList DEF Parts
<1> HIDE DEF S, new
<1>11. /\ Elements(old \o new) = Elements(old) \cup Elements(new)
       /\ Queue!Distinct(old \o new)
  BY <1>6, <1>8, <1>10, Joined
<1>12. q'.seq = old \o new /\ q'.read = record
  BY <1>3 DEF new
<1>13. Parts'
  BY <1>2, <1>4, <1>8, <1>9, <1>10, <1>11, <1>12 DEF Parts, Own
<1> QED
  BY <1>13, PartsNext

\* What RS= writes is from the record or its own.
LEMMA ParseApart ==
  ASSUME TypeOK, TypeOK', Apart, Parse_RS, overwritten' = overwritten
  PROVE  Apart'
<1>1. record' = q.seq /\ record = q.read
  BY Written DEF Parse_RS, TypeOK
<1>2. At("given") /\ UNCHANGED <<editor, begun>> /\ q' = AtPrompt
  BY DEF Parse_RS
<1>3. ToDo = record /\ ToDo' = q.seq /\ q'.seq = <<>> /\ q'.read = <<>>
  BY <1>1, <1>2 DEF ToDo, At, AtPrompt
<1>4. Parts
  BY ApartParts
<1>5. Parts'
  BY <1>1, <1>2, <1>3, <1>4, EmptyList, OwnNothing DEF Parts, Own
<1> QED
  BY <1>5, PartsNext

\* So is what the editor writes, or a piece of its own, and then it holds nothing.
LEMMA WriteApart ==
  ASSUME TypeOK, TypeOK', Apart, SequenceWrite, overwritten' = overwritten
  PROVE  Apart'
<1> DEFINE piece == given + 1
<1>1. PICK new :
        /\ WriteRecord(new, editor.read)
        /\ new \in Seq(1..given')
        /\ \A x \in Elements(new) : x \in Elements(editor.list) \/ x = piece
        /\ Queue!Distinct(editor.list) => Queue!Distinct(new)
  BY Listed DEF SequenceWrite
<1>2. record' = new /\ record = editor.read
  BY <1>1, Written
<1>3. /\ UNCHANGED <<q, begun>>
      /\ editor'.list = <<>> /\ editor'.read = <<>>
  BY DEF SequenceWrite
<1>4. Parts
  BY ApartParts
<1>5. /\ piece \notin Elements(begun) /\ piece \notin Elements(ToDo)
      /\ piece \notin Elements(q.seq) /\ piece \notin 1..given
  <2>1. given \in Nat
    BY DEF TypeOK
  <2>2. /\ Elements(begun) \subseteq 1..given
        /\ Elements(ToDo) \subseteq 1..given
        /\ Elements(q.seq) \subseteq 1..given
    BY ToDoType, ElementsOf
  <2> QED
    BY <2>1, <2>2
<1>6. \A x \in Elements(new) :
        \/ x \in Elements(record)
        \/ x \in Own(editor.list, editor.read)
        \/ x = piece
  BY <1>1, <1>2 DEF Own
<1>7. Queue!Distinct(new)
  BY <1>1, <1>4 DEF Parts
<1> DEFINE S == 1..given
           c == q.command
<1> HIDE DEF piece
<1>8. CASE ~At("taken")
  <2>1. ToDo = record /\ ToDo' = new
    BY <1>2, <1>3, <1>8 DEF ToDo, At
  <2>2. \A x \in Elements(new) :
          x \notin Elements(begun) /\ x \notin Own(q.seq, q.read)
    BY <1>4, <1>5, <1>6, <2>1 DEF Parts, Own
  <2>3. Parts'
    BY <1>3, <1>4, <1>7, <2>1, <2>2, EmptyList, OwnNothing DEF Parts
  <2> QED
    BY <2>3, PartsNext
<1>9. CASE At("taken")
  <2>1. c \in S /\ record \in Seq(S) /\ piece \notin S
    BY <1>5, <1>9, ToDoType DEF TypeOK, None
  <2>2. ToDo = <<c>> \o record /\ ToDo' = <<c>> \o new
    BY <1>2, <1>3, <1>9 DEF ToDo, At
  <2>3. Own(q.seq, q.read) = {}
    <3>1. q.seq \in {q.read, <<>>}
      BY <1>9 DEF TypeOK, At
    <3> QED
      BY <3>1, OwnNothing
  <2> DEFINE d == <<c>>
             T == 1..given'
  <2>4. d \in Seq(S) /\ Elements(d) = {c} /\ Queue!Distinct(d)
    <3> HIDE DEF S, c
    <3> QED
      BY <2>1, OneElement
  <2>5. c \in T /\ new \in Seq(T)
    <3>1. (q.command \in 0..given)' /\ UNCHANGED q
      BY <1>3 DEF TypeOK
    <3>2. q.command # 0
      BY <1>9 DEF TypeOK, None
    <3>3. given' \in Nat
      BY SequenceAssumption DEF TypeOK
    <3> QED
      BY <1>1, <3>1, <3>2, <3>3
  <2>6. d \in Seq(T)
    <3> HIDE DEF T, c
    <3> QED
      BY <2>5, OneElement
  <2> HIDE DEF S, T, c, d
  <2>7. /\ Elements(d \o record) = {c} \cup Elements(record)
        /\ Queue!Distinct(d \o record) => c \notin Elements(record)
    BY <2>1, <2>4, Joined
  <2>8. /\ Elements(d \o new) = {c} \cup Elements(new)
        /\ c \notin Elements(new) => Queue!Distinct(d \o new)
    BY <1>7, <2>4, <2>5, <2>6, Joined
  <2>9. ToDo = d \o record /\ ToDo' = d \o new
    BY <2>2 DEF d
  <2>10. \A x \in Elements(new) : x # c /\ x \notin Elements(begun)
    BY <1>4, <1>5, <1>6, <2>1, <2>7, <2>9 DEF Parts
  <2>11. Parts'
    BY <1>3, <1>4, <2>3, <2>7, <2>8, <2>9, <2>10, EmptyList, OwnNothing
       DEF Parts
  <2> QED
    BY <2>11, PartsNext
<1> QED
  BY <1>8, <1>9

\* A command leaves the record, but it is still to do.
LEMMA UpdateApart ==
  ASSUME TypeOK, TypeOK', Apart, Update, overwritten' = overwritten
  PROVE  Apart'
<1>1. record' = Tail(q.seq) /\ record = q.read
  BY DEF Update, WriteRecord, TypeOK
<1>2. /\ At("loop") /\ q.seq # <<>> /\ UNCHANGED <<editor, begun>>
      /\ q' = Taken
  BY DEF Update
<1>3. record = q.seq
  BY <1>1, <1>2 DEF TypeOK, At
<1>4. /\ q'.at = "taken" /\ q'.command = Head(q.seq)
      /\ q'.seq = <<>> /\ q'.read = <<>>
  BY <1>2 DEF Taken, AtPrompt
<1>5. ToDo = record /\ ToDo' = <<Head(record)>> \o Tail(record)
  BY <1>1, <1>2, <1>3, <1>4 DEF ToDo, At
<1>6. ToDo' = ToDo
  BY <1>2, <1>3, <1>5, ToDoType, WithoutHead
<1> QED
  BY <1>2, <1>4, <1>6, EmptyList, Quiet

\* A command that begins is the one that was taken.
LEMMA ExecuteApart ==
  ASSUME TypeOK, TypeOK', Apart, Execute PROVE Apart'
<1> DEFINE S == 1..given
           c == q.command
           d == <<c>>
<1>1. /\ At("taken") /\ UNCHANGED <<editor, record>>
      /\ begun' = Append(begun, c)
      /\ q'.at = "ran" /\ q'.seq = q.seq /\ q'.read = q.read
  BY DEF Execute, TypeOK
<1>2. c \in S /\ record \in Seq(S) /\ begun \in Seq(S)
  BY <1>1, ToDoType DEF TypeOK, None
<1>3. ToDo = d \o record /\ ToDo' = record
  BY <1>1 DEF ToDo, At
<1>4. d \in Seq(S) /\ Elements(d) = {c} /\ Queue!Distinct(d)
  <2> HIDE DEF S, c
  <2> QED
    BY <1>2, OneElement
<1>5. begun' = begun \o d
  <2> HIDE DEF S, c
  <2> QED
    BY <1>1, <1>2, AppendIsConcat
<1> HIDE DEF S, c, d
<1>6. Parts
  BY ApartParts
<1>7. /\ Elements(d \o record) = {c} \cup Elements(record)
      /\ Queue!Distinct(d \o record) =>
           c \notin Elements(record) /\ Queue!Distinct(record)
  BY <1>2, <1>4, Joined
<1>8. /\ Elements(begun \o d) = Elements(begun) \cup {c}
      /\ Queue!Distinct(begun) /\ c \notin Elements(begun)
           => Queue!Distinct(begun \o d)
  BY <1>2, <1>4, Joined
<1>9. Parts'
  BY <1>1, <1>3, <1>5, <1>6, <1>7, <1>8 DEF Parts, Own
<1> QED
  BY <1>9, PartsNext

\* A crash loses the command taken, and with it what RS and RS= hold.
LEMMA CrashApart ==
  ASSUME TypeOK, TypeOK', Apart, Crash \/ AbortSequence PROVE Apart'
<1>1. /\ record' \in {record, <<>>} /\ UNCHANGED <<editor, begun>>
      /\ q'.at = "prompt" /\ q'.seq = <<>> /\ q'.read = <<>>
  BY DEF Crash, AbortSequence, AtPrompt
<1>2. ToDo' \in {record, <<>>}
  BY <1>1 DEF ToDo, At
<1>3. Parts
  BY ApartParts
<1>4. Queue!Distinct(record) /\ Elements(record) \subseteq Elements(ToDo)
  <2>1. CASE At("taken")
    <3> DEFINE S == 1..given
               c == q.command
               d == <<c>>
    <3>1. c \in S /\ record \in Seq(S)
      BY <2>1, ToDoType DEF TypeOK, None
    <3> HIDE DEF S, c
    <3>2. d \in Seq(S)
      BY <3>1, OneElement
    <3>3. ToDo = d \o record
      BY <2>1 DEF ToDo, c
    <3> HIDE DEF d
    <3> QED
      BY <1>3, <3>1, <3>2, <3>3, Joined DEF Parts
  <2>2. CASE ~At("taken")
    BY <1>3, <2>2 DEF Parts, ToDo
  <2> QED
    BY <2>1, <2>2
<1>5. Parts'
  BY <1>1, <1>2, <1>3, <1>4, EmptyList, OwnNothing DEF Parts
<1> QED
  BY <1>5, PartsNext

\* The editor adds new commands only.
LEMMA ChangedApart ==
  ASSUME TypeOK, TypeOK', Apart, SequenceChange PROVE Apart'
<1>1. /\ \A x \in Elements(editor'.list) :
           x \in Elements(editor.list) \/ x = given + 1
      /\ Queue!Distinct(editor.list) => Queue!Distinct(editor'.list)
      /\ editor' = [editor EXCEPT !.list = editor'.list]
  BY Changed
<1>2. editor'.read = editor.read
  <2> DEFINE new == editor'.list
  <2>1. editor' = [editor EXCEPT !.list = new]
    BY <1>1
  <2> HIDE DEF new
  <2> QED
    BY <2>1 DEF TypeOK
<1>3. UNCHANGED <<q, record, begun, ToDo>>
  BY DEF SequenceChange, ToDo, At
<1>4. /\ given + 1 \notin Elements(begun) /\ given + 1 \notin Elements(ToDo)
      /\ given + 1 \notin Elements(q.seq)
  <2>1. given \in Nat
    BY DEF TypeOK
  <2>2. /\ Elements(begun) \subseteq 1..given
        /\ Elements(ToDo) \subseteq 1..given
        /\ Elements(q.seq) \subseteq 1..given
    BY ToDoType, ElementsOf
  <2> QED
    BY <2>1, <2>2
<1>5. Parts
  BY ApartParts
<1>6. Parts'
  BY <1>1, <1>2, <1>3, <1>4, <1>5 DEF Parts, Own
<1> QED
  BY <1>6, PartsNext

\* Overwrites are only counted.
LEMMA Counted ==
  ASSUME TypeOK, [Next]_vars
  PROVE  overwritten' = overwritten \/ overwritten' = overwritten + 1
<1>1. ASSUME NEW w, NEW r, WriteRecord(w, r)
      PROVE  overwritten' = overwritten \/ overwritten' = overwritten + 1
  <2>1. overwritten \in Nat
    BY DEF TypeOK
  <2> QED
    BY <1>1, <2>1 DEF WriteRecord
<1>2. CASE Parse_RS \/ Update \/ SequenceWrite
  BY <1>1, <1>2 DEF Parse_RS, Update, SequenceWrite, WriteList
<1>3. CASE UNCHANGED overwritten
  BY <1>3
<1> QED
  BY <1>2, <1>3
     DEF Next, DoSequence, vars, ReadToAppend, ReadRecord, Terminated, Execute,
         Poll, GoOn, AbortSequence, SequenceRead, SequenceChange, Crash, ControlA

\* No step makes two parties own the same command, or one that was begun.
LEMMA ApartStep ==
  ASSUME TypeOK, TypeOK', OwnersApart, [Next]_vars PROVE OwnersApart'
<1> SUFFICES ASSUME overwritten' = 0 PROVE Apart'
  BY DEF OwnersApart
<1>1. overwritten = 0 /\ overwritten' = overwritten
  BY Counted DEF TypeOK
<1>2. Apart
  BY <1>1 DEF OwnersApart
<1>3. Parts
  BY <1>2, ApartParts
<1>4. CASE ReadToAppend
  BY <1>2, <1>4, AppendedApart
<1>5. CASE Parse_RS
  BY <1>1, <1>2, <1>5, ParseApart
<1>6. CASE ReadRecord
  <2>1. /\ q'.at = "loop" /\ q'.seq = Readable /\ q'.read = record
        /\ UNCHANGED <<record, begun, editor>> /\ ~At("taken")
    BY <1>6 DEF ReadRecord, AtPrompt, At
  <2>2. ToDo = record /\ ToDo' = record
    BY <2>1 DEF ToDo, At
  <2>3. Readable \in {record, <<>>} /\ Queue!Distinct(Readable)
    BY <1>3, <2>2, Read, EmptyList DEF Parts
  <2> QED
    BY <1>2, <2>1, <2>2, <2>3, Quiet
<1>7. CASE Terminated
  <2>1. /\ q'.at = "prompt" /\ q'.seq = <<>> /\ q'.read = <<>>
        /\ UNCHANGED <<record, begun, editor>> /\ ~At("taken")
    BY <1>7 DEF Terminated, AtPrompt, At
  <2>2. ToDo' = ToDo
    BY <2>1 DEF ToDo, At
  <2> QED
    BY <1>2, <2>1, <2>2, Quiet, EmptyList
<1>8. CASE Update
  BY <1>1, <1>2, <1>8, UpdateApart
<1>9. CASE Execute
  BY <1>2, <1>9, ExecuteApart
<1>10. CASE Poll \/ GoOn
  <2>1. /\ q'.at # "taken" /\ ~At("taken") /\ ~At("given")
        /\ q'.seq = q.seq /\ q'.read = q.read
        /\ UNCHANGED <<record, begun, editor>>
    BY <1>10 DEF Poll, GoOn, At, TypeOK
  <2>2. ToDo' = ToDo
    BY <2>1 DEF ToDo, At
  <2>3. q'.seq \in {q'.read, <<>>} /\ Queue!Distinct(q'.seq)
    BY <1>3, <2>1 DEF Parts, TypeOK
  <2> QED
    BY <1>2, <2>1, <2>2, <2>3, Quiet
<1>11. CASE Crash \/ AbortSequence
  BY <1>2, <1>11, CrashApart
<1>12. CASE SequenceRead
  <2>1. /\ editor'.list = record /\ editor'.read = record
        /\ UNCHANGED <<record, q, begun>>
    BY <1>12 DEF SequenceRead
  <2>2. ToDo' = ToDo
    BY <2>1 DEF ToDo, At
  <2>3. Queue!Distinct(record)
    <3> DEFINE S == 1..given
               c == q.command
               d == <<c>>
    <3>1. CASE At("taken")
      <4>1. c \in S /\ record \in Seq(S)
        BY <3>1, ToDoType DEF TypeOK, None
      <4> HIDE DEF S, c
      <4>2. d \in Seq(S)
        BY <4>1, OneElement
      <4>3. ToDo = d \o record
        BY <3>1 DEF ToDo, c
      <4> HIDE DEF d
      <4> QED
        BY <1>3, <4>1, <4>2, <4>3, Joined DEF Parts
    <3>2. CASE ~At("taken")
      BY <1>3, <3>2 DEF Parts, ToDo
    <3> QED
      BY <3>1, <3>2
  <2>4. Parts'
    BY <1>3, <2>1, <2>2, <2>3, OwnNothing DEF Parts
  <2> QED
    BY <2>4, PartsNext
<1>13. CASE SequenceChange
  BY <1>2, <1>13, ChangedApart
<1>14. CASE SequenceWrite
  BY <1>1, <1>2, <1>14, WriteApart
<1>15. CASE ControlA \/ UNCHANGED vars
  <2>1. UNCHANGED <<record, q, begun, editor>>
    BY <1>15 DEF ControlA, vars
  <2>2. ToDo' = ToDo
    BY <2>1 DEF ToDo, At
  <2> QED
    BY <1>2, <2>1, <2>2 DEF Apart
<1> QED
  BY <1>4, <1>5, <1>6, <1>7, <1>8, <1>9, <1>10, <1>11, <1>12, <1>13, <1>14,
     <1>15 DEF Next, DoSequence

-----------------------------------------------------------------------------
(***************************************************************************)
(* The theorems.                                                           *)
(***************************************************************************)

\* It all holds at the start.
LEMMA Start == Init => TypeOK /\ OwnersApart
<1> SUFFICES ASSUME Init PROVE TypeOK /\ OwnersApart
  OBVIOUS
<1>1. MaxGiven \in Nat
  BY SequenceAssumption
<1>2. <<>> \in Seq(1..given)
  BY EmptySeq
<1>3. NoEvents \in EventState
  BY DEF NoEvents, EventState
<1>4. TypeOK
  BY <1>1, <1>2, <1>3 DEF Init, TypeOK, Named, Place, AtPrompt, None, At
<1>5. Parts
  BY EmptyList, OwnNothing DEF Init, Parts, ToDo, At, AtPrompt
<1> QED
  BY <1>4, <1>5, ApartParts DEF OwnersApart

\* Whatever is in a list was given, or is a piece of a command that was.
THEOREM TypeCorrect == Spec => []TypeOK
<1>1. Init => TypeOK
  BY Start
<1> QED
  BY <1>1, TypeStep, PTL DEF Spec

\* RS, RS= and the editor never own the same command, nor one that was begun.
THEOREM OwnersStayApart == Spec => []OwnersApart
<1>1. TypeOK /\ TypeOK' /\ OwnersApart /\ [Next]_vars => OwnersApart'
  BY ApartStep
<1> QED
  BY <1>1, Start, TypeCorrect, PTL DEF Spec

\* RS and RS= write no more than the record has room for, and a cut leaves it
\* full to its last place.
LEMMA FitsStep ==
  ASSUME TypeOK, RecordFits, [Next]_vars PROVE RecordFits'
<1>1. /\ Room \in Nat /\ Len(q.seq) \in Nat /\ Len(q.seq) <= Room
      /\ Len(record) \in Nat /\ Len(record) <= Room + 1
  <2>1. record \in Seq(1..given) /\ q.seq \in Seq(1..given)
    BY ToDoType
  <2> QED
    BY <2>1, SequenceAssumption DEF RecordFits
<1>2. Len(<<>>) = 0
  OBVIOUS
<1>3. CASE ReadToAppend
  <2>1. PICK n \in 0..(MaxGiven - given), old \in {<<>>, record} :
          /\ q' = [AtPrompt EXCEPT !.at = "given", !.read = record,
                                   !.seq = old \o New(n)]
          /\ Len(old) + n <= Room
    BY <1>3, Appended
  <2>2. q'.seq = old \o New(n) /\ record' = record
    BY <1>3, <2>1 DEF ReadToAppend, AtPrompt
  <2>3. Len(old \o New(n)) = Len(old) + n
    <3>1. given \in Nat /\ n \in Nat
      BY SequenceAssumption DEF TypeOK
    <3>2. New(n) \in Seq(Nat) /\ Len(New(n)) = n
      <4>1. New(n) \in Seq((given + 1)..(given + n)) /\ Len(New(n)) = n
        BY <3>1, NewCommands
      <4>2. (given + 1)..(given + n) \subseteq Nat
        BY <3>1
      <4> QED
        BY <4>1, <4>2, SeqMonotonic
    <3>3. old \in Seq(Nat)
      <4>1. record \in Seq(1..given) /\ 1..given \subseteq Nat
        BY <3>1, ToDoType
      <4>2. record \in Seq(Nat)
        BY <4>1, SeqMonotonic
      <4> QED
        BY <4>2, EmptySeq
    <3> QED
      BY <3>2, <3>3, Joined
  <2> QED
    BY <1>1, <2>1, <2>2, <2>3 DEF RecordFits
<1>4. CASE Parse_RS
  <2>1. record' = q.seq /\ q'.seq = <<>>
    BY <1>4 DEF Parse_RS, WriteRecord, AtPrompt
  <2> QED
    BY <1>1, <1>2, <2>1 DEF RecordFits
<1>5. CASE ReadRecord
  <2>1. record' = record /\ q'.seq = Readable
    BY <1>5 DEF ReadRecord, AtPrompt
  <2> QED
    BY <1>1, <2>1, Read DEF RecordFits
<1>6. CASE Update
  <2>1. record' = Tail(q.seq) /\ q'.seq = <<>> /\ q.seq # <<>>
    BY <1>6 DEF Update, WriteRecord, Taken, AtPrompt
  <2>2. Len(Tail(q.seq)) = Len(q.seq) - 1
    BY <2>1, ToDoType, WithoutHead
  <2> QED
    BY <1>1, <1>2, <2>1, <2>2 DEF RecordFits
<1>7. CASE Terminated \/ AbortSequence \/ Crash
  <2>1. record' \in {record, <<>>} /\ q'.seq = <<>>
    BY <1>7 DEF Terminated, AbortSequence, Crash, AtPrompt
  <2> QED
    BY <1>1, <1>2, <2>1 DEF RecordFits
<1>8. CASE Execute \/ Poll \/ GoOn
  <2>1. record' = record /\ q'.seq = q.seq
    BY <1>8 DEF Execute, Poll, GoOn, TypeOK
  <2> QED
    BY <1>1, <2>1 DEF RecordFits
<1>9. CASE SequenceWrite
  <2>1. PICK new : WriteRecord(new, editor.read) /\ Len(new) <= Room + 1
    BY <1>9, Listed DEF SequenceWrite
  <2>2. record' = new /\ q' = q
    BY <1>9, <2>1 DEF SequenceWrite, WriteRecord
  <2> QED
    BY <1>1, <2>1, <2>2 DEF RecordFits
<1>10. CASE SequenceRead \/ SequenceChange \/ ControlA \/ UNCHANGED vars
  <2>1. record' = record /\ q' = q
    BY <1>10 DEF SequenceRead, SequenceChange, ControlA, vars
  <2> QED
    BY <1>1, <2>1 DEF RecordFits
<1> QED
  BY <1>3, <1>4, <1>5, <1>6, <1>7, <1>8, <1>9, <1>10 DEF Next, DoSequence

\* What RS or RS= is about to write has room in the record with the # behind it,
\* though the editor writes without asking for room and the record is read, changed
\* and written back in steps that others come between.
THEOREM RecordFitsAlways == Spec => []RecordFits
<1>1. Init => RecordFits
  <2> SUFFICES ASSUME Init PROVE RecordFits
    OBVIOUS
  <2>1. record = <<>> /\ q.seq = <<>> /\ Len(<<>>) = 0
    BY DEF Init, AtPrompt
  <2> QED
    BY <2>1, SequenceAssumption DEF RecordFits
<1>2. TypeOK /\ RecordFits /\ [Next]_vars => RecordFits'
  BY FitsStep
<1> QED
  BY <1>1, <1>2, TypeCorrect, PTL DEF Spec

\* The values that stand for the variables of the queue.
LEMMA SameQueue ==
  ASSUME UNCHANGED <<ToDo, begun, edits, overwritten, crashes>>
  PROVE  UNCHANGED Queue!vars
BY DEF Queue!vars

\* A write is an edit of the queue or an overwrite.
LEMMA WriteStep ==
  ASSUME TypeOK, TypeOK', OwnersApart', NEW w, NEW r, WriteRecord(w, r),
         edits' = edits + 1, UNCHANGED <<begun, crashes>>
  PROVE  Queue!Edit \/ Queue!Overwrite
<1>1. ToDo' \in Seq(Command)
  <2>1. (ToDo \in Seq(1..given))'
    BY ToDoType, PTL
  <2>2. given' \in Nat /\ MaxGiven \in Nat /\ given' <= MaxGiven
    BY SequenceAssumption DEF TypeOK
  <2> QED
    BY <2>1, <2>2, StillNamed DEF Command
<1>2. CASE record = r
  <2>1. overwritten' = overwritten
    BY <1>2 DEF WriteRecord, TypeOK
  <2>2. overwritten = 0 => Queue!Distinct(begun \o ToDo')
    <3> SUFFICES ASSUME overwritten = 0 PROVE Queue!Distinct(begun \o ToDo')
      OBVIOUS
    <3>1. Apart'
      BY <2>1 DEF OwnersApart
    <3> QED
      BY <3>1 DEF Apart
  <2> QED
    BY <1>1, <2>1, <2>2 DEF Queue!Edit
<1>3. CASE record # r
  <2>1. overwritten' = overwritten + 1
    BY <1>3 DEF WriteRecord, TypeOK
  <2> QED
    BY <1>1, <2>1 DEF Queue!Overwrite
<1> QED
  BY <1>2, <1>3

\* Every step is one of the queue's, or the queue does not see it.
LEMMA RefinementStep ==
  ASSUME TypeOK, TypeOK', OwnersApart, OwnersApart', [Next]_vars
  PROVE  [Queue!Next]_Queue!vars
<1>1. CASE Parse_RS \/ SequenceWrite
  <2>1. Queue!Edit \/ Queue!Overwrite
    BY <1>1, WriteStep DEF Parse_RS, SequenceWrite, WriteList
  <2> QED
    BY <2>1 DEF Queue!Next
<1>2. CASE Update
  <2>1. /\ WriteRecord(Tail(q.seq), q.read) /\ q.seq # <<>> /\ At("loop")
        /\ q' = Taken /\ UNCHANGED <<begun, edits, crashes>>
    BY <1>2 DEF Update
  <2>2. q.seq = q.read
    BY <2>1 DEF TypeOK, At
  <2>3. ToDo = record /\ ToDo' = <<Head(q.seq)>> \o record'
    BY <2>1 DEF ToDo, At, Taken, AtPrompt
  <2>4. CASE record = q.read
    <3>1. ToDo' = ToDo
      BY <2>1, <2>2, <2>3, <2>4, ToDoType, WithoutHead DEF WriteRecord
    <3>2. overwritten' = overwritten
      BY <2>1, <2>4 DEF WriteRecord, TypeOK
    <3> QED
      BY <2>1, <3>1, <3>2, SameQueue
  <2>5. CASE record # q.read
    <3>1. overwritten' = overwritten + 1
      BY <2>1, <2>5 DEF WriteRecord
    <3>2. ToDo' \in Seq(Command)
      <4>1. (ToDo \in Seq(1..given))'
        BY ToDoType, PTL
      <4>2. given' \in Nat /\ MaxGiven \in Nat /\ given' <= MaxGiven
        BY SequenceAssumption DEF TypeOK
      <4> QED
        BY <4>1, <4>2, StillNamed DEF Command
    <3> QED
      BY <2>1, <3>1, <3>2 DEF Queue!Overwrite, Queue!Next
  <2> QED
    BY <2>4, <2>5
<1>3. CASE Execute
  <2>1. /\ At("taken") /\ begun' = Append(begun, q.command) /\ q'.at = "ran"
        /\ UNCHANGED <<record, edits, overwritten, crashes>>
    BY <1>3 DEF Execute, TypeOK
  <2>2. ToDo = <<q.command>> \o record /\ ToDo' = record
    BY <2>1 DEF ToDo, At
  <2>3. ToDo # <<>> /\ Head(ToDo) = q.command /\ Tail(ToDo) = record
    <3> DEFINE S == 1..given
               c == q.command
    <3>1. c \in S /\ record \in Seq(S)
      BY <2>1, ToDoType DEF TypeOK, None
    <3> HIDE DEF S, c
    <3>2. /\ <<c>> \o record # <<>> /\ Head(<<c>> \o record) = c
          /\ Tail(<<c>> \o record) = record
      BY <3>1
    <3> QED
      BY <2>2, <3>2 DEF c
  <2> QED
    BY <2>1, <2>2, <2>3 DEF Queue!Begin, Queue!Next
<1>4. CASE Crash
  <2>1. /\ q'.at = "prompt" /\ crashes' = crashes + 1
        /\ UNCHANGED <<record, begun, edits, overwritten>>
    BY <1>4 DEF Crash, AtPrompt
  <2>2. ToDo' = record
    BY <2>1 DEF ToDo, At
  <2>3. ToDo' = ToDo \/ (ToDo # <<>> /\ ToDo' = Tail(ToDo))
    <3>1. CASE At("taken")
      <4> DEFINE S == 1..given
                 c == q.command
      <4>1. c \in S /\ record \in Seq(S)
        BY <3>1, ToDoType DEF TypeOK, None
      <4> HIDE DEF S, c
      <4>2. <<c>> \o record # <<>> /\ Tail(<<c>> \o record) = record
        BY <4>1
      <4> QED
        BY <2>2, <3>1, <4>2 DEF ToDo, c
    <3>2. CASE ~At("taken")
      BY <2>2, <3>2 DEF ToDo
    <3> QED
      BY <3>1, <3>2
  <2> QED
    BY <2>1, <2>3 DEF Queue!Crash, Queue!Next
<1>5. CASE AbortSequence
  <2>1. /\ record' = <<>> /\ q'.at = "prompt" /\ edits' = edits + 1
        /\ UNCHANGED <<begun, overwritten, crashes>>
    BY <1>5 DEF AbortSequence, AtPrompt
  <2>2. ToDo' = <<>>
    BY <2>1 DEF ToDo, At
  <2>3. overwritten = 0 => Queue!Distinct(begun \o ToDo')
    BY <2>1 DEF OwnersApart, Apart
  <2> QED
    BY <2>1, <2>2, <2>3, EmptySeq DEF Queue!Edit, Queue!Next
<1>6. CASE \/ ReadToAppend \/ ReadRecord \/ Terminated \/ Poll \/ GoOn
           \/ SequenceRead \/ SequenceChange \/ ControlA \/ UNCHANGED vars
  <2>1. UNCHANGED <<record, begun, edits, overwritten, crashes>>
    BY <1>6 DEF ReadToAppend, ReadRecord, Terminated, Poll, GoOn, SequenceRead,
                SequenceChange, ControlA, vars
  <2>2. q' = q \/ (~At("taken") /\ q'.at # "taken")
    <3>1. CASE ReadToAppend
      <4>1. PICK n \in 0..(MaxGiven - given), old \in {<<>>, record} :
              q' = [AtPrompt EXCEPT !.at = "given", !.read = record,
                                    !.seq = old \o New(n)]
        BY <3>1, Appended
      <4>2. q'.at = "given"
        BY <4>1 DEF AtPrompt
      <4> QED
        BY <3>1, <4>2 DEF ReadToAppend, At
    <3>2. CASE ReadRecord
      <4>1. q'.at = "loop" /\ ~At("taken")
        BY <3>2 DEF ReadRecord, At, AtPrompt
      <4> QED
        BY <4>1
    <3>5. CASE Terminated
      <4>1. q'.at = "prompt" /\ ~At("taken")
        BY <3>5 DEF Terminated, At, AtPrompt
      <4> QED
        BY <4>1
    <3>3. CASE Poll \/ GoOn
      BY <3>3 DEF Poll, GoOn, At, TypeOK
    <3>4. CASE UNCHANGED q
      BY <3>4
    <3> QED
      BY <1>6, <3>1, <3>2, <3>3, <3>4, <3>5
         DEF SequenceRead, SequenceChange, ControlA, vars
  <2>3. ToDo' = ToDo
    BY <2>1, <2>2 DEF ToDo, At
  <2> QED
    BY <2>1, <2>3, SameQueue
<1> QED
  BY <1>1, <1>2, <1>3, <1>4, <1>5, <1>6 DEF Next, DoSequence

\* RS with its three parties is the queue: every step of it is a step of the
\* queue or leaves the queue alone.
THEOREM SequenceImplementsQueue == Spec => RunsInOrder
<1>1. Init => Queue!Init
  <2> SUFFICES ASSUME Init PROVE Queue!Init
    OBVIOUS
  <2>1. ToDo = <<>> /\ <<>> \in Seq(Command)
    BY EmptySeq DEF Init, ToDo, At, AtPrompt
  <2> QED
    BY <2>1, EmptyList DEF Init, Queue!Init
<1>2. /\ TypeOK /\ TypeOK' /\ OwnersApart /\ OwnersApart' /\ [Next]_vars
      => [Queue!Next]_Queue!vars
  BY RefinementStep
<1> QED
  BY <1>1, <1>2, TypeCorrect, OwnersStayApart, PTL
     DEF Spec, RunsInOrder, Queue!Spec

\* No command is begun twice, whoever changes the sequence and whenever the
\* program dies, as long as no change was overwritten unseen.
THEOREM BegunOnce == Spec => []AtMostOnce
<1>1. OwnersApart => AtMostOnce
  BY DEF OwnersApart, Apart, AtMostOnce, Queue!AtMostOnce
<1> QED
  BY <1>1, OwnersStayApart, PTL

=============================================================================
