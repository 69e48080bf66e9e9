------------------------- MODULE InstanceLockProofs -------------------------
(***************************************************************************)
(* The invariants of InstanceLock, for any instances, process ids and       *)
(* accounts, whichever links an account may remove beside its own.         *)
(***************************************************************************)
EXTENDS InstanceLock, TLAPS

\* Who runs has a process id of its own.
Ids ==
  /\ \A i \in Instances : at[i] \in Running => pid[i] \in Pids \ others
  /\ \A i, j \in Instances : i # j /\ at[i] \in Running /\ at[j] \in Running => pid[i] # pid[j]

\* While starts do not overlap: the one that starts has read the lock that is
\* there still, or was removed by its owner, and once it has found it stale
\* nobody has it.
Calm ==
  ~overlap =>
    /\ \A i, j \in Instances : at[i] \in Starting /\ at[j] \in Starting => i = j
    /\ \A i \in Instances : at[i] = "locked" => lock = pid[i]
    /\ \A i \in Instances : at[i] = "check" => found[i] \in Pids /\ lock \in {found[i], None}
    /\ \A i, j \in Instances : at[i] \in {"unlink", "link", "drop"} => at[j] # "locked"

\* Whoever has seen no reason to be refused finds what it has read, or no link.
Unexcused ==
  \A i \in Instances :
    ~excused[i] =>
      /\ at[i] = "check" => lock = found[i]
      /\ at[i] = "link" => lock = None
      /\ at[i] # "denied"

Inv == TypeOK /\ Ids /\ Calm

LEMMA InitInv == Init => Inv /\ Unexcused
  BY DEF Init, Inv, TypeOK, Ids, Calm, Unexcused, Running, Starting

\* A step of one instance, or of another program, keeps types and ids.
LEMMA StepTyped ==
  ASSUME TypeOK, Ids, Next
  PROVE  TypeOK' /\ Ids'
<1>1. overlap' \in BOOLEAN /\ excused' \in [Instances -> BOOLEAN]
  <2>1. overlap' \in BOOLEAN
    BY DEF Next, Overlapping
  <2>2. excused' \in [Instances -> BOOLEAN]
    BY DEF Next, Excusing, Reason, TypeOK
  <2>. QED
    BY <2>1, <2>2
<1>2. CASE Bystander
  BY <1>1, <1>2 DEF Bystander, TypeOK, Ids, Alive
<1>3. ASSUME NEW i \in Instances, Start(i)
      PROVE  TypeOK' /\ Ids'
  BY <1>1, <1>3 DEF Start, Goes, TypeOK, Ids, Alive, Running, Starting
<1>4. ASSUME NEW i \in Instances, Readlink(i) \/ Getpgid(i) \/ Unlink(i) \/ Drop(i) \/ Symlink(i) \/ RemoveLock(i)
      PROVE  TypeOK' /\ Ids'
  <2>1. at[i] \in Running /\ pid' = pid /\ user' = user /\ others' = others
    BY <1>4 DEF Readlink, Getpgid, Unlink, Drop, Symlink, RemoveLock, Goes, Running, Starting
  <2>2. PICK to \in Running : at' = [at EXCEPT ![i] = to]
    BY <1>4 DEF Readlink, Getpgid, Unlink, Drop, Symlink, RemoveLock, Goes, Running, Starting
  <2>3. found' \in [Instances -> Pids \cup {None}]
    BY <1>4 DEF Readlink, Getpgid, Unlink, Drop, Symlink, RemoveLock, TypeOK
  <2>4. /\ lock' \in Pids \cup {None, Bad, Unread}
        /\ IF lock' = None THEN owner' = None ELSE owner' \in Accounts
    <3>1. pid[i] \in Pids /\ pid[i] # None /\ user[i] \in Accounts
      BY <2>1, LockAssumption DEF TypeOK, Ids, Running, Starting
    <3>. QED
      BY <1>4, <3>1 DEF Readlink, Getpgid, Unlink, Drop, Symlink, RemoveLock, Unlinked, TypeOK
  <2>5. \A j \in Instances : at'[j] # "off" => at[j] # "off"
    BY <2>1, <2>2 DEF TypeOK, Running, Starting
  <2>. QED
    BY <1>1, <2>1, <2>2, <2>3, <2>4, <2>5 DEF TypeOK, Ids
<1>5. ASSUME NEW i \in Instances, Exit(i) \/ Killed(i)
      PROVE  TypeOK' /\ Ids'
  BY <1>1, <1>5 DEF Exit, Killed, Ended, Goes, TypeOK, Ids, Running, Starting
<1>. QED
  BY <1>2, <1>3, <1>4, <1>5 DEF Next, Step, CHKPRIV

\* When nobody starts or has the lock, and when starts do not overlap now, Calm
\* is kept.
LEMMA StepCalm ==
  ASSUME Inv, Next
  PROVE  Calm'
<1>. USE DEF Inv
<1>1. SUFFICES ASSUME ~overlap', TypeOK', Ids'
               PROVE  Calm'
  BY StepTyped DEF Calm
<1>2. CASE overlap
  <2>1. \A i \in Instances : at'[i] \notin Starting \cup {"locked"}
    BY <1>1, <1>2 DEF Next, Overlapping
  <2>. QED
    BY <2>1 DEF Calm, Starting
<1>3. CASE ~overlap
  <2>1. \A i, j \in Instances : at'[i] \in Starting /\ at'[j] \in Starting => i = j
    BY <1>1, <1>3 DEF Next, Overlapping
  <2>2. CASE Bystander
    BY <1>3, <2>1, <2>2 DEF Bystander, Calm
  <2>3. ASSUME NEW i \in Instances, Start(i)
        PROVE  Calm'
    BY <1>3, <2>1, <2>3 DEF Start, Goes, Calm, TypeOK, Starting
  <2>4. ASSUME NEW i \in Instances, Readlink(i)
        PROVE  Calm'
    <3>1. lock' = lock /\ pid' = pid /\ at[i] = "read"
      BY <2>4 DEF Readlink, Goes
    <3>2. CASE lock \in Pids
      BY <1>3, <2>1, <2>4, <3>1, <3>2, LockAssumption DEF Readlink, Goes, Calm, TypeOK, Starting
    <3>3. CASE lock \notin Pids
      <4>1. \A j \in Instances : at[j] # "locked"
        BY <1>3, <3>3 DEF Calm, Ids, Running
      <4>. QED
        BY <1>3, <2>1, <2>4, <3>1, <3>3, <4>1 DEF Readlink, Goes, Calm, TypeOK, Starting
    <3>. QED
      BY <3>2, <3>3
  <2>5. ASSUME NEW i \in Instances, Getpgid(i)
        PROVE  Calm'
    <3>1. lock' = lock /\ pid' = pid /\ at[i] = "check"
      BY <2>5 DEF Getpgid, Goes
    <3>2. ASSUME found[i] \notin Alive, NEW j \in Instances, at[j] = "locked"
          PROVE  FALSE
      BY <1>3, <3>1, <3>2, LockAssumption DEF Calm, Ids, Alive, Running
    <3>. QED
      BY <1>3, <2>1, <2>5, <3>1, <3>2 DEF Getpgid, Goes, Calm, TypeOK, Starting
  <2>6. ASSUME NEW i \in Instances, Unlink(i) \/ Drop(i)
        PROVE  Calm'
    BY <1>3, <2>1, <2>6 DEF Unlink, Drop, Unlinked, Goes, Calm, TypeOK, Starting
  <2>7. ASSUME NEW i \in Instances, Symlink(i)
        PROVE  Calm'
    BY <1>3, <2>1, <2>7 DEF Symlink, Goes, Calm, TypeOK, Starting
  <2>8. ASSUME NEW i \in Instances, RemoveLock(i)
        PROVE  Calm'
    <3>1. \A j \in Instances : at[j] = "locked" => j = i
      BY <1>3, <2>8 DEF RemoveLock, Goes, Calm, Ids, Running
    <3>. QED
      BY <1>3, <2>1, <2>8, <3>1 DEF RemoveLock, Unlinked, Goes, Calm, TypeOK, Starting
  <2>9. ASSUME NEW i \in Instances, Exit(i) \/ Killed(i)
        PROVE  Calm'
    BY <1>3, <2>1, <2>9 DEF Exit, Killed, Ended, Goes, Calm, TypeOK, Starting
  <2>. QED
    BY <2>2, <2>3, <2>4, <2>5, <2>6, <2>7, <2>8, <2>9 DEF Next, Step, CHKPRIV
<1>. QED
  BY <1>2, <1>3

\* Who steps with the lock, or while another starts, is a reason for that one.
LEMMA StepUnexcused ==
  ASSUME Inv, Unexcused, Next
  PROVE  Unexcused'
<1>. USE DEF Inv
<1>1. SUFFICES ASSUME NEW i \in Instances, ~excused'[i]
               PROVE  /\ at'[i] = "check" => lock' = found'[i]
                      /\ at'[i] = "link" => lock' = None
                      /\ at'[i] # "denied"
  BY DEF Unexcused
<1>2. at[i] # "off" => ~excused[i] /\ (at[i] \in Starting => ~Reason(i))
  BY <1>1 DEF Next, Excusing
<1>3. at[i] = "off" => at'[i] \notin {"check", "link", "denied"}
  BY DEF Next, Step, CHKPRIV, Bystander, Start, Readlink, Getpgid, Unlink, Drop, Symlink, RemoveLock,
         Exit, Killed, Ended, Goes, TypeOK, Running, Starting
<1>4. CASE Bystander
  BY <1>1, <1>2, <1>3, <1>4 DEF Bystander, Unexcused
<1>5. ASSUME NEW j \in Instances, j # i, CHKPRIV(j) \/ RemoveLock(j) \/ Exit(j) \/ Killed(j)
      PROVE  /\ at'[i] = at[i] /\ found'[i] = found[i]
             /\ at[i] \in Starting => lock' = lock
  <2>1. at[i] \in Starting => at[j] \notin Starting \cup {"locked"}
    BY <1>2, <1>5 DEF Reason, Starting
  <2>. QED
    BY <1>5, <2>1 DEF CHKPRIV, Start, Readlink, Getpgid, Unlink, Drop, Symlink, RemoveLock, Exit, Killed,
         Ended, Goes, TypeOK, Starting
<1>6. CASE CHKPRIV(i) \/ RemoveLock(i) \/ Exit(i) \/ Killed(i)
  <2>1. CASE Readlink(i)
    BY <1>2, <2>1 DEF Readlink, Goes, TypeOK, Reason, Starting
  <2>2. CASE Getpgid(i)
    BY <1>2, <2>2 DEF Getpgid, Goes, TypeOK, Unexcused, Reason, Starting
  <2>3. CASE Symlink(i)
    BY <1>2, <2>3 DEF Symlink, Goes, TypeOK, Unexcused, Starting
  <2>4. CASE Unlink(i)
    BY <1>2, <2>4 DEF Unlink, Unlinked, Goes, TypeOK, Reason, Starting
  <2>5. CASE Start(i) \/ Drop(i) \/ RemoveLock(i) \/ Exit(i) \/ Killed(i)
    BY <2>5 DEF Start, Drop, RemoveLock, Exit, Killed, Goes, TypeOK
  <2>. QED
    BY <1>6, <2>1, <2>2, <2>3, <2>4, <2>5 DEF CHKPRIV
<1>. QED
  BY <1>2, <1>3, <1>4, <1>5, <1>6 DEF Next, Step, Unexcused, Starting

LEMMA StutterKeeps ==
  ASSUME Inv, Unexcused, UNCHANGED vars
  PROVE  Inv' /\ Unexcused'
  BY DEF vars, Inv, TypeOK, Ids, Calm, Unexcused

LEMMA Invariance == Spec => [](Inv /\ Unexcused)
<1>1. Inv /\ Unexcused /\ [Next]_vars => (Inv /\ Unexcused)'
  BY StepTyped, StepCalm, StepUnexcused, StutterKeeps DEF Inv
<1>. QED
  BY InitInv, <1>1, PTL DEF Spec

\* The types are kept, for any instances, process ids and accounts.
THEOREM Typed == Spec => []TypeOK
  BY Invariance, PTL DEF Inv

\* CHKPRIV, RemoveLock: while the starts do not overlap the lock is that of the
\* one instance that has made it.
THEOREM ExclusiveAlways == Spec => []Exclusive
<1>1. Inv => Exclusive
  BY DEF Inv, Ids, Calm, Exclusive, Running
<1>. QED
  BY Invariance, <1>1, PTL

\* CHKPRIV: no instance is refused without a reason, of which a link it may not
\* remove is one.
THEOREM GrantedAlways == Spec => []Granted
<1>1. Unexcused => Granted
  BY DEF Unexcused, Granted
<1>. QED
  BY Invariance, <1>1, PTL
=============================================================================
