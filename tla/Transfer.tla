------------------------------- MODULE Transfer -------------------------------
(***************************************************************************)
(* What the transfer of a histogram promises: the storage is zero when it  *)
(* begins and fills from its beginning with what the elements of the       *)
(* detector have been meanwhile, in their order, each in the first of the  *)
(* words it takes, with zeros in the others.  Only when all of them have   *)
(* come is the histogram whole.  A package that is torn spoils the         *)
(* transfer.                                                               *)
(***************************************************************************)
EXTENDS Integers

CONSTANTS
  Contents,   \* what an element of a histogram can be
  Zero,       \* what a cleared one is
  Elements,   \* how many the detector has
  Spread      \* how many words of the storage an element takes

VARIABLES
  had,     \* what the elements of the detector have been since the transfer began
  hist,    \* the storage of the program, by words
  filled,  \* how many elements have come
  state    \* "idle", "moving", "whole", "failed" or "spoilt"

Leads(w) == (w - 1) % Spread = 0
ElementOf(w) == (w - 1) \div Spread + 1

transferVars == <<had, hist, filled, state>>

TransferInit ==
  /\ had \in [1..Elements -> SUBSET Contents]
  /\ \A k \in DOMAIN hist : hist[k] \in Contents
  /\ filled = 0 /\ state = "idle"

\* The detector counts, or is cleared.
Changes ==
  /\ had' \in [1..Elements -> SUBSET Contents]
  /\ \A k \in 1..Elements : had[k] \subseteq had'[k]
  /\ UNCHANGED <<hist, filled, state>>

Begins ==
  /\ state # "moving"
  /\ had' \in [1..Elements -> SUBSET Contents]
  /\ hist' = [k \in DOMAIN hist |-> Zero]
  /\ filled' = 0 /\ state' \in {"moving", "failed"}

Fills ==
  /\ state = "moving"
  /\ filled' \in filled + 1 .. Elements
  /\ DOMAIN hist' = DOMAIN hist
  /\ \A w \in DOMAIN hist :
       IF ElementOf(w) \in filled + 1 .. filled'
       THEN hist'[w] \in IF Leads(w) THEN had[ElementOf(w)] ELSE {Zero}
       ELSE hist'[w] = hist[w]
  /\ UNCHANGED had
  /\ state' \in {"moving", "failed"}

Ends ==
  /\ state = "moving"
  /\ state' = IF filled = Elements THEN "whole" ELSE "failed"
  /\ UNCHANGED <<had, hist, filled>>

Fails ==
  /\ state = "moving" /\ state' = "failed"
  /\ UNCHANGED <<had, hist, filled>>

Spoils ==
  /\ state \in {"moving", "spoilt"} /\ state' = "spoilt"
  /\ DOMAIN hist' = DOMAIN hist
  /\ UNCHANGED had

TransferNext == Changes \/ Begins \/ Fills \/ Ends \/ Fails \/ Spoils

TransferSpec == TransferInit /\ [][TransferNext]_transferVars
=============================================================================
