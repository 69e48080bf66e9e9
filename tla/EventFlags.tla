----------------------------- MODULE EventFlags -----------------------------
(***************************************************************************)
(* The event flags of ICP and the signals that feed them.                  *)
(*                                                                         *)
(* The operator interrupts the program with control keys.  The C signal    *)
(* handler (ttycatch.c) only sets one of three integers; the Fortran code  *)
(* notices it when it next calls READEF, which moves the signal into the   *)
(* event flag cluster.  An event state is one record holding both halves,  *)
(* and the operators below are the effect of each routine on it.  A        *)
(* component keeps one variable of this type and polls it where its source *)
(* calls READEF.                                                           *)
(***************************************************************************)

Signals == {"sigint", "sigtstp", "sigquit"}        \* control A, P and F
Flags   == {"contr_a", "pause", "stop", "hdw_event"}

EventState == [Signals \cup Flags \cup {"finishup"} -> BOOLEAN]

NoEvents == [f \in Signals \cup Flags \cup {"finishup"} |-> FALSE]

\* sighandler: the signal is remembered until somebody polls or clears it.
SigHandler(e, s) == [e EXCEPT ![s] = TRUE]

\* The first half of READEF: control A wins over control P and cancels it.
TakeAbortOrPause(e) ==
  IF e.sigint
  THEN [e EXCEPT !.contr_a = TRUE, !.pause = FALSE, !.sigint = FALSE]
  ELSE IF e.sigtstp
       THEN [e EXCEPT !.pause = TRUE, !.sigtstp = FALSE]
       ELSE e

\* The second half: control F asks for an early, orderly end of the run.
TakeFinish(e) ==
  IF e.sigquit THEN [e EXCEPT !.finishup = TRUE, !.sigquit = FALSE] ELSE e

\* READEF(f) leaves the state READEF(e) behind and returns READEF(e)[f].
READEF(e) == TakeFinish(TakeAbortOrPause(e))

SETEF(e, f) == [e EXCEPT ![f] = TRUE]

\* CLREF also forgets the signal behind the flag, seen or not.
CLREF(e, f) ==
  [e EXCEPT ![f] = FALSE,
            !.sigint  = @ /\ f # "contr_a",
            !.sigtstp = @ /\ f # "pause"]

\* Would a poll of contr_a that starts now see an abort?
Aborting(e) == READEF(e).contr_a
=============================================================================
