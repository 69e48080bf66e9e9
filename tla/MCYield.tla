------------------------------ MODULE MCYield ------------------------------
(***************************************************************************)
(* Small instruments for Yield: who controls the motors, and how they are  *)
(* set up.  The .cfg files pick one of each.                               *)
(***************************************************************************)
EXTENDS Yield

OneAcs == <<"ACS">>
OneVme == <<"VME">>
OneEz  == <<"EZ">>
AcsVme == <<"ACS", "VME">>
Mixed  == <<"ACS", "PIMOT", "ZETA">>

Pulse1   == <<1>>
Pulse11  == <<1, 1>>
Pulse112 == <<1, 1, 2>>

Back1      == <<1>>
BackUpDown == <<1, -1>>
Back010    == <<0, 1, 0>>

Merr0   == <<0>>
Merr00  == <<0, 0>>
Merr000 == <<0, 0, 0>>

Nobody == {}
First  == {1}
=============================================================================
