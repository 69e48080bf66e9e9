---------------------------- MODULE MCInstruments ----------------------------
(***************************************************************************)
(* Every instrument, two operations one after the other, two faults.       *)
(***************************************************************************)
EXTENDS Instruments

MCRoutines ==
  {RS232V, RS232EZ, RS232I(TRUE), RS232I(FALSE), RS232P, RS232Z(TRUE), RS232Z(FALSE), OMCN_Inq,
   Thermo_PutMsg, OMCNi_Talk, PF, RS232_ADAM, ADAM_TALK} \cup Single

MCSays == MotorStates \cup {"sound"}

MCKits ==
  {Vme, Ez, Pico, Pi, Zeta, Omcn, Thermo, Omcni, {PF_QUERY}, Adam, Relay}
    \cup {{Op(<<Ask(talk, "")>>)} : talk \in Single}
=============================================================================
