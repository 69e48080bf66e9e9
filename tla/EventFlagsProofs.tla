-------------------------- MODULE EventFlagsProofs --------------------------
(***************************************************************************)
(* What the operations on the event flags preserve.                        *)
(***************************************************************************)
EXTENDS EventFlags, TLAPS

\* READEF keeps an event state an event state.
LEMMA ReadefType == ASSUME NEW e \in EventState PROVE READEF(e) \in EventState
  BY DEF READEF, TakeFinish, TakeAbortOrPause, EventState, Signals, Flags

\* CLREF keeps an event state an event state.
LEMMA ClrefType ==
  ASSUME NEW e \in EventState, NEW f \in Flags PROVE CLREF(e, f) \in EventState
  BY DEF CLREF, EventState, Signals, Flags

\* SETEF and the signal handler keep an event state an event state.
LEMMA SetType ==
  ASSUME NEW e \in EventState, NEW f \in Flags, NEW s \in Signals
  PROVE  SETEF(e, f) \in EventState /\ SigHandler(e, s) \in EventState
  BY DEF SETEF, SigHandler, EventState, Signals, Flags
=============================================================================
