--------------------------- MODULE MCInstanceLock ---------------------------
(***************************************************************************)
(* Three instances, one of which may be killed and its process id be used  *)
(* again by another one or by another program; two accounts, one of which  *)
(* (root, say, or the owner of /tmp) may remove the links of the other.    *)
(***************************************************************************)
EXTENDS InstanceLock, TLC

CONSTANTS Root, Guest

\* /tmp is sticky.
Sticky == {<<Root, Root>>, <<Guest, Guest>>, <<Root, Guest>>}

Alike == Permutations(Instances) \cup Permutations(Pids)
=============================================================================
