------------------------------ MODULE Talkers ------------------------------
(***************************************************************************)
(* The routines that exchange a message with an instrument over a serial   *)
(* line.  They write a question and read the answer up to a terminator,    *)
(* and differ in what they do with characters nobody has read:             *)
(*                                                                         *)
(*   flush     "before" the question is written, "after", or "never"       *)
(*   until     the terminators that end the first part of the answer, the  *)
(*             second part, ...                                            *)
(*   keep      the part that is handed to the caller                       *)
(*   optional  the parts that may fail to come without harm                *)
(*   purges    whether an answer that fails to come is followed by a flush *)
(*   sends     what the instrument sends: texts and bare terminators       *)
(***************************************************************************)
EXTENDS Naturals, Sequences

Talker(flush, until, purges, sends) ==
  [flush |-> flush, until |-> until, keep |-> Len(until), optional |-> {},
   purges |-> purges, sends |-> sends]

CR == {"CR"}
LF == {"LF"}

Text(ends) == [ends |-> ends, text |-> TRUE]
Bare(ends) == [ends |-> ends, text |-> FALSE]
-----------------------------------------------------------------------------
(* Temperature controllers.                                                *)

\* Cuts CR LF off the answer.
RS232TC_RD == Talker("before", <<LF>>, FALSE, <<Text("LF")>>)

\* Reads up to CR and leaves the LF that follows it to the next answer,
\* which is stripped of it.
RS232TC_LK == Talker("before", <<CR>>, FALSE, <<Text("CR"), Bare("LF")>>)

OM232O == Talker("before", <<LF>>, FALSE, <<Text("LF")>>)

\* Flushes when the question has been written, so that a quick answer is lost.
RS232TC_OM == Talker("after", <<CR>>, FALSE, <<Text("CR")>>)

RS232TC_NL == Talker("before", <<CR>>, FALSE, <<Text("CR")>>)

RS232TC_LV == Talker("before", <<CR>>, FALSE, <<Text("CR")>>)

RS232TC_LR700 == Talker("never", <<CR>>, FALSE, <<Text("CR")>>)

RS232TC_LTC == Talker("never", <<LF>>, FALSE, <<Text("LF")>>)

\* An inquiry is answered with a checksum behind the terminator, which is read
\* and not compared; a setting is acknowledged or not.
RS232TC_FRN(cksum) ==
  IF cksum
  THEN Talker("never", <<{"ETX", "ACK", "NAK"}>>, FALSE, <<Text("ACK")>>)
  ELSE [Talker("never", <<{"ETX", "ACK", "NAK"}, {"BCC"}>>, FALSE, <<Text("ETX"), Bare("BCC")>>)
          EXCEPT !.keep = 1, !.optional = {2}]

RS232TC_CR == Talker("never", <<LF>>, FALSE, <<Text("LF")>>)

RS232TC_OX == Talker("never", <<CR>>, TRUE, <<Text("CR")>>)

OMCN_Inq == Talker("never", <<CR>>, FALSE, <<Text("CR")>>)

OMCN_Put == Talker("never", <<CR>>, FALSE, <<Text("CR")>>)

\* A frame has its length in it; the checksum is compared and a wrong one logged.
Thermo_GetMsg == <<{"frame"}>>

Thermo_PutMsg == Talker("before", Thermo_GetMsg, FALSE, <<Text("frame")>>)

OMCNi_Talk == Talker("never", <<LF>>, FALSE, <<Text("LF")>>)
-----------------------------------------------------------------------------
(* Magnet controllers, power supplies and relays.                          *)

RS232HC_SC == Talker("before", <<LF>>, FALSE, <<Text("LF")>>)

RS232_OX == Talker("never", <<CR>>, TRUE, <<Text("CR")>>)

RS232_OXMAG == Talker("before", <<CR>>, TRUE, <<Text("CR")>>)

RS232_ADAM == Talker("before", <<CR>>, TRUE, <<Text("CR")>>)

ADAM_TALK == Talker("before", <<CR>>, TRUE, <<Text("CR")>>)
-----------------------------------------------------------------------------
(* Motor controllers.                                                      *)

RS232V == Talker("before", <<CR>>, FALSE, <<Text("CR")>>)

RS232 == Talker("never", <<CR>>, TRUE, <<Text("CR")>>)

RS232F == Talker("before", <<CR>>, TRUE, <<Text("CR")>>)

RS232PC == Talker("before", <<CR>>, TRUE, <<Text("CR")>>)

RS232EZ == Talker("before", <<CR>>, FALSE, <<Text("CR")>>)

\* An answer, if one is expected, comes before the prompt; a prompt that tells
\* of a failure is no failure to the callers.
RS232I(expectreply) ==
  IF expectreply
  THEN [Talker("before", <<LF, {"prompt"}>>, FALSE, <<Text("LF"), Bare("prompt")>>)
          EXCEPT !.keep = 1]
  ELSE Talker("before", <<{"prompt"}>>, FALSE, <<Bare("prompt")>>)

RS232P == Talker("before", <<LF>>, TRUE, <<Text("LF")>>)

\* The controller repeats what it is told, then answers.
RS232Z(getreply) ==
  IF getreply
  THEN Talker("before", <<LF, CR>>, FALSE, <<Text("LF"), Text("CR")>>)
  ELSE Talker("before", <<LF>>, FALSE, <<Text("LF")>>)
=============================================================================
