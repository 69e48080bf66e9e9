---------------------------- MODULE InstanceLock ----------------------------
(***************************************************************************)
(* One ICP runs the instrument: CHKPRIV gives the privilege to the         *)
(* instance that can make the lock, a symbolic link with its process id.   *)
(* A lock whose process is gone is removed by the instance that finds it   *)
(* so, in steps during which other instances start, end or are killed and  *)
(* process ids are used again; /tmp lets it do so where its account may    *)
(* remove a link of the account that made it, and nobody looks whether it  *)
(* did.                                                                    *)
(***************************************************************************)
CONSTANTS
  Instances,   \* of ICP
  Pids,        \* the process ids
  None,        \* no process id, no link
  Bad,         \* a link without a colon
  Unread,      \* a link without a process id
  Accounts,    \* that run the instances
  MayUnlink    \* <<u, o>>: u may remove a link of o from /tmp

ASSUME LockAssumption ==
  /\ {None, Bad, Unread} \cap Pids = {}
  /\ None # Bad /\ None # Unread /\ Bad # Unread
  /\ None \notin Accounts
  /\ MayUnlink \subseteq Accounts \X Accounts
  /\ \A u \in Accounts : <<u, u>> \in MayUnlink

VARIABLES
  lock,     \* the process id in the link, or what else there is
  owner,    \* the account that made the link
  at,       \* where an instance is
  pid,      \* its process id
  user,     \* and its account
  found,    \* the process id it has read
  others,   \* the ids of other programs that run
  overlap,  \* instances have started at the same time
  excused   \* what an instance saw while it started is a reason to refuse it

vars == <<lock, owner, at, pid, user, found, others, overlap, excused>>

Starting == {"read", "check", "unlink", "link", "drop"}
Running == Starting \cup {"locked", "unlocked", "denied", "plain", "leaving"}

Alive == others \cup {pid[i] : i \in {j \in Instances : at[j] \in Running}}

Init ==
  /\ lock \in Pids \cup {None, Bad, Unread}
  /\ IF lock = None THEN owner = None ELSE owner \in Accounts
  /\ at = [i \in Instances |-> "off"]
  /\ pid = [i \in Instances |-> None] /\ user = [i \in Instances |-> None]
  /\ found = [i \in Instances |-> None]
  /\ others \in SUBSET Pids
  /\ overlap = FALSE /\ excused = [i \in Instances |-> FALSE]

Goes(i, from, to) == at[i] = from /\ at' = [at EXCEPT ![i] = to]

\* unlink(), whose result is ignored, of whatever link there is by now.
Unlinked(i) ==
  IF <<user[i], owner>> \in MayUnlink
  THEN lock' = None /\ owner' = None
  ELSE UNCHANGED <<lock, owner>>
-----------------------------------------------------------------------------
(* CHKPRIV.                                                                *)

\* An instance may have no access, from a terminal elsewhere.
Start(i) ==
  /\ \E to \in {"read", "plain"} : Goes(i, "off", to)
  /\ \E p \in Pids \ Alive : pid' = [pid EXCEPT ![i] = p]
  /\ \E u \in Accounts : user' = [user EXCEPT ![i] = u]
  /\ UNCHANGED <<lock, owner, found, others>>

\* Mutant: a process id that cannot be read is not told from one that can.
ReadlinkRaw(i) ==
  /\ Goes(i, "read", IF lock = None THEN "link" ELSE IF lock = Bad THEN "drop" ELSE "check")
  /\ found' = [found EXCEPT ![i] = lock]
  /\ UNCHANGED <<lock, owner, pid, user, others>>

Readlink(i) ==
  /\ Goes(i, "read", CASE lock \in {None, Unread} -> "link"
                       [] lock = Bad -> "drop"
                       [] OTHER -> "check")
  /\ found' = [found EXCEPT ![i] = IF lock \in Pids THEN lock ELSE None]
  /\ UNCHANGED <<lock, owner, pid, user, others>>

\* Mutant: the process is not looked for.
GetpgidNot(i) ==
  /\ Goes(i, "check", "unlink")
  /\ UNCHANGED <<lock, owner, pid, user, found, others>>

\* Any process with that id will do.
Getpgid(i) ==
  /\ Goes(i, "check", IF found[i] \in Alive THEN "denied" ELSE "unlink")
  /\ found' = [found EXCEPT ![i] = None]
  /\ UNCHANGED <<lock, owner, pid, user, others>>

\* Mutant: a stale lock is left.
UnlinkNot(i) ==
  /\ Goes(i, "unlink", "link")
  /\ UNCHANGED <<lock, owner, pid, user, found, others>>

Unlink(i) ==
  /\ Goes(i, "unlink", "link")
  /\ Unlinked(i)
  /\ UNCHANGED <<pid, user, found, others>>

\* The privilege, and no lock.
Drop(i) ==
  /\ Goes(i, "drop", "unlocked")
  /\ Unlinked(i)
  /\ UNCHANGED <<pid, user, found, others>>

Symlink(i) ==
  /\ Goes(i, "link", IF lock = None THEN "locked" ELSE "denied")
  /\ IF lock = None
     THEN lock' = pid[i] /\ owner' = user[i]
     ELSE UNCHANGED <<lock, owner>>
  /\ UNCHANGED <<pid, user, found, others>>
-----------------------------------------------------------------------------
(* The ends of an instance, and the other programs.                        *)

\* The lock is removed, whichever instance made it.
RemoveLock(i) ==
  /\ Goes(i, "locked", "leaving")
  /\ Unlinked(i)
  /\ UNCHANGED <<pid, user, found, others>>

Ended(i) ==
  /\ pid' = [pid EXCEPT ![i] = None] /\ user' = [user EXCEPT ![i] = None]
  /\ found' = [found EXCEPT ![i] = None]
  /\ UNCHANGED <<lock, owner, others>>

Exit(i) ==
  /\ \E from \in {"unlocked", "denied", "plain", "leaving"} : Goes(i, from, "off")
  /\ Ended(i)

Killed(i) ==
  /\ \E from \in Running : Goes(i, from, "off")
  /\ Ended(i)

Bystander ==
  /\ \/ \E p \in Pids \ Alive : others' = others \cup {p}
     \/ \E p \in others : others' = others \ {p}
  /\ UNCHANGED <<lock, owner, at, pid, user, found>>

CHKPRIV(i) == Start(i) \/ Readlink(i) \/ Getpgid(i) \/ Unlink(i) \/ Drop(i) \/ Symlink(i)

Step == Bystander \/ \E i \in Instances : CHKPRIV(i) \/ RemoveLock(i) \/ Exit(i) \/ Killed(i)

\* Since nobody started or had the lock.
Overlapping ==
  overlap' =
    /\ \E i \in Instances : at'[i] \in Starting \cup {"locked"}
    /\ overlap \/ \E i, j \in Instances : i # j /\ at'[i] \in Starting /\ at'[j] \in Starting

\* Another instance starts or has the lock, or the lock is not to be told from
\* one of a program that runs, or is not the instance's to remove.
Reason(i) ==
  \/ \E j \in Instances \ {i} : at[j] \in Starting \cup {"locked"}
  \/ lock \in Alive
  \/ lock = Unread
  \/ lock # None /\ <<user[i], owner>> \notin MayUnlink

Excusing ==
  excused' =
    [i \in Instances |->
       at[i] # "off" /\ (excused[i] \/ (at[i] \in Starting /\ Reason(i)))]

Next == Step /\ Overlapping /\ Excusing

Spec == Init /\ [][Next]_vars
-----------------------------------------------------------------------------
TypeOK ==
  /\ lock \in Pids \cup {None, Bad, Unread}
  /\ IF lock = None THEN owner = None ELSE owner \in Accounts
  /\ at \in [Instances -> Running \cup {"off"}]
  /\ pid \in [Instances -> Pids \cup {None}]
  /\ user \in [Instances -> Accounts \cup {None}]
  /\ \A i \in Instances : at[i] # "off" => user[i] \in Accounts
  /\ found \in [Instances -> Pids \cup {None}]
  /\ others \subseteq Pids
  /\ overlap \in BOOLEAN /\ excused \in [Instances -> BOOLEAN]

\* However instances end and process ids are used again, instances that start
\* one after the other do not take the lock from each other: there is at most
\* one that has made it, and it is the one the lock names.
Exclusive ==
  ~overlap =>
    \A i \in Instances :
      at[i] = "locked" =>
        /\ lock = pid[i]
        /\ \A j \in Instances : at[j] = "locked" => j = i

\* A lock that an instance has left behind keeps out nobody who may remove it:
\* an instance with access is refused for another one that had the lock or was
\* starting, for a link that names no process or is of an account whose links
\* it may not remove, or for a program with the number of the dead process.
Granted == \A i \in Instances : at[i] = "denied" => excused[i]

\* What CHKPRIV prints when it has found the process gone, "PID does not exist -
\* we're in business!" (chkpriv.c:79), of an instance that starts alone: no link
\* to a process stands in the way of its own.  It does not hold where the link is
\* another account's that may not be removed.
InBusiness == \A i \in Instances : at[i] = "link" /\ ~overlap => lock \in {None, Unread}
=============================================================================
