------------------------------ MODULE AreaCount ------------------------------
(***************************************************************************)
(* Counting with an area detector beside the AM9513 scaler, as Run_I_Buf   *)
(* does it for every prefactor: Count or CnTime clears and arms the        *)
(* detector and starts the scaler, Rock_Count and Scaler poll it, and      *)
(* Readhisto disarms the detector and fetches its histogram.  Each command *)
(* to the detector has a connection of its own, and nobody looks whether   *)
(* it has come through.                                                    *)
(***************************************************************************)
EXTENDS Counting, HistTransfer

CONSTANTS
  AreaPresets,\* what is counted for with an area detector
  Rocks,      \* whether a motor rocks during a count
  MaxCounts   \* bounds the counts

\* An element of a histogram is the set of the counts it has neutrons of.
ASSUME AreaAssumption ==
  /\ AreaPresets \subseteq Nat \X {"ticks", "monitor"}
  /\ MaxCounts \in Nat
  /\ Contents = SUBSET (1..MaxCounts) /\ Zero = {}

VARIABLES
  psd,      \* there is an area detector
  at,       \* where the program is
  n,        \* the number of the count
  rockfl,   \* a motor rocks
  contr_a,  \* control A was given
  orders,   \* the commands the detector has still to execute
  armed,    \* the detector is
  lit,      \* there were neutrons while the scaler counted
  slipped,  \* a command of this count, or before it, was lost or came late
  filed     \* the last point

run == <<at, n, rockfl, contr_a, filed>>
detector == <<orders, armed, lit, slipped>>
vars == <<psd, scalerVars, histVars, run, detector>>

NoPoint == [count |-> 0, hist |-> <<>>, whole |-> FALSE, lit |-> FALSE, own |-> TRUE, stopped |-> FALSE]

Init ==
  /\ SCALERINIT /\ HistInit /\ psd \in BOOLEAN
  /\ at = "idle" /\ n = 0 /\ rockfl = FALSE
  /\ contr_a = FALSE /\ filed = NoPoint
  /\ orders = <<>> /\ armed = FALSE /\ lit = FALSE /\ slipped = FALSE
-----------------------------------------------------------------------------
(* The detector executes one command after the other.                      *)

Execute(order) ==
  /\ armed' = CASE order = "START" -> TRUE [] order = "STOP" -> FALSE [] OTHER -> armed
  /\ Change(IF order = "CLEAR" THEN [k \in 1..Elements |-> Zero] ELSE memory)

\* A command is executed, or lost, or the answer does not come in time and it is
\* executed later; the next ones then have to wait for it.
Command(order) ==
  \/ orders = <<>> /\ Execute(order) /\ UNCHANGED <<orders, lit, slipped>>
  \/ /\ mishaps < MaxMishaps /\ mishaps' = mishaps + 1
     /\ slipped' = TRUE
     /\ orders' \in {orders, Append(orders, order)}
     /\ UNCHANGED <<armed, lit, memory, sending, transfer, wire, reset, torn, shaken, had>>
  \/ /\ orders # <<>>
     /\ slipped' = TRUE
     /\ orders' = Append(orders, order)
     /\ UNCHANGED <<armed, lit, histVars>>

\* Mutant: the histogram goes on from the count before.
AIM_CLEARNot == UNCHANGED <<detector, histVars>>

AIM_CLEAR == Command("CLEAR")
AIM_ARM == Command("START")
AIM_DISARM == Command("STOP")

Late ==
  /\ orders # <<>>
  /\ Execute(Head(orders))
  /\ orders' = Tail(orders)
  /\ UNCHANGED <<scalerVars, run, lit, slipped>>

\* A neutron, which an armed detector adds to its histogram.
Neutron ==
  /\ psd /\ n > 0
  /\ lit' = (lit \/ (at \in {"rock", "poll"} /\ chip.armed /\ chip.out1))
  /\ Change([k \in 1..Elements |-> memory[k] \cup IF armed THEN {n} ELSE {}])
  /\ <<lit', memory'>> # <<lit, memory>>
  /\ UNCHANGED <<scalerVars, run, orders, armed, slipped>>
-----------------------------------------------------------------------------
(* Run_I_Buf, Count or CnTime.                                             *)

Goes(from, to) == at = from /\ at' = to

Quiet == UNCHANGED <<n, rockfl, contr_a, filed>>

\* Reset_Display, before the first prefactor.
Reset_Display ==
  /\ Goes("idle", "reset") /\ Quiet
  /\ SCALERRESET
  /\ UNCHANGED <<histVars, detector>>

Begin ==
  /\ at \in {"idle", "reset"} /\ at' = IF psd THEN "clear" ELSE "start"
  /\ n < MaxCounts /\ n' = n + 1
  /\ rockfl' \in Rocks
  /\ lit' = FALSE /\ slipped' = (slipped \/ orders # <<>>)
  /\ UNCHANGED <<scalerVars, histVars, contr_a, filed, orders, armed>>

Clear == Goes("clear", "arm") /\ Quiet /\ AIM_CLEAR /\ UNCHANGED scalerVars

Arm == Goes("arm", "start") /\ Quiet /\ AIM_ARM /\ UNCHANGED scalerVars

Count ==
  /\ Goes("start", IF rockfl THEN "rock" ELSE "poll") /\ Quiet
  /\ \E p \in IF psd THEN AreaPresets ELSE Presets : SCALERSTART(p[1], p[2])
  /\ UNCHANGED <<histVars, detector>>

\* Rock_Count polls until the end of the count, and Scaler polls again.
Rock_Count ==
  /\ at = "rock"
  /\ IF contr_a
     THEN at' = "poll" /\ UNCHANGED scalerVars
     ELSE SCALERSTATUS /\ at' = IF iscounting' THEN "rock" ELSE "poll"
  /\ Quiet /\ UNCHANGED <<histVars, detector>>

\* Scaler.  A control A is looked for while counting only; it does not stop the
\* AM9513.
Scaler ==
  /\ at = "poll"
  /\ SCALERSTATUS
  /\ at' = CASE ~iscounting' -> IF psd THEN "disarm" ELSE "counted"
             [] iscounting' /\ contr_a -> IF psd THEN "stop" ELSE "counted"
             [] OTHER -> "poll"
  /\ Quiet /\ UNCHANGED <<histVars, detector>>

Stop == Goes("stop", "counted") /\ Quiet /\ AIM_DISARM /\ UNCHANGED scalerVars

\* Readhisto.
Disarm == Goes("disarm", "fetch") /\ Quiet /\ AIM_DISARM /\ UNCHANGED scalerVars

\* The detector that is late with a command does not come to a transfer in time.
Fetch ==
  /\ Goes("fetch", "transfer") /\ Quiet
  /\ AIM_XFER
  /\ orders # <<>> => client' = "over"
  /\ UNCHANGED <<scalerVars, detector>>

Receiving == recvHIST /\ UNCHANGED <<scalerVars, run, detector>>
Sending == sendHIST /\ UNCHANGED <<scalerVars, run, detector>>
Hanging == Hangs /\ UNCHANGED <<scalerVars, run, detector>>

Fetched ==
  /\ Goes("transfer", "counted") /\ Quiet
  /\ client = "over"
  /\ UNCHANGED <<scalerVars, histVars, detector>>

\* The key also interrupts what the program waits for.
Control_A ==
  /\ at # "idle" /\ ~contr_a
  /\ contr_a' = TRUE
  /\ UNCHANGED <<at, n, rockfl, filed, scalerVars, histVars, detector>>

Point ==
  [count |-> n, hist |-> IF psd THEN hist ELSE <<>>, whole |-> client = "over" /\ retn = Elements /\ ~torn,
   lit |-> lit, own |-> ~slipped, stopped |-> iscounting]

\* Mutant: nobody looks for a control A after a count.
CountedAnyway ==
  /\ Goes("counted", "idle")
  /\ filed' = Point /\ contr_a' = FALSE
  /\ slipped' = (orders # <<>>)
  /\ UNCHANGED <<n, rockfl, scalerVars, histVars, orders, armed, lit>>

\* A point is filed, or the abort ends the run.
Counted ==
  /\ Goes("counted", "idle")
  /\ filed' = IF contr_a THEN filed ELSE Point
  /\ contr_a' = FALSE
  /\ slipped' = (orders # <<>>)
  /\ UNCHANGED <<n, rockfl, scalerVars, histVars, orders, armed, lit>>

Pulsing ==
  /\ \E i \in Inputs : Pulse(i)
  /\ UNCHANGED <<histVars, run, detector>>

Step ==
  \/ Reset_Display \/ Begin \/ Clear \/ Arm \/ Count \/ Rock_Count \/ Scaler
  \/ Stop \/ Disarm \/ Fetch \/ Receiving \/ Sending \/ Hanging \/ Fetched \/ Counted
  \/ Control_A \/ Late \/ Neutron \/ Pulsing

\* With an area detector the ioctls do not fail.
Next == Step /\ UNCHANGED psd /\ (psd => errors' = 0)

\* Both sides of a transfer go on by themselves.
Spec ==
  /\ Init /\ [][Next]_vars
  /\ WF_vars(Receiving /\ UNCHANGED psd) /\ WF_vars(Sending /\ UNCHANGED psd)
-----------------------------------------------------------------------------
TypeOK ==
  /\ HistTypeOK
  /\ ampreset \in Nat /\ load \in 0..Word - 1 /\ hold \in [Pairs -> Nat]
  /\ total \in [Inputs -> Nat] /\ chip.left \in 0..Word
  /\ n \in 0..MaxCounts

\* The histogram filed with a count is its own: unless a command to the detector
\* was lost or late it has nothing of other counts, and all that the detector
\* saw while the scaler counted, if the whole of it has come, in the words to
\* which its elements are written.
HistogramOwn ==
  filed.own =>
    \A w \in DOMAIN filed.hist :
      /\ filed.hist[w] \subseteq {filed.count}
      /\ filed.whole /\ filed.lit /\ Leads(w) /\ ElementOf(w) <= Elements =>
           filed.hist[w] = {filed.count}

\* What Readhisto prints of the storage, "Element # i CTS = histodata(i)"
\* (readhisto.F:39-40), and takes the sum over fpwindow to be of: the word of an
\* element is that of its number.  It does not hold of longs of two words.
ElementsFiled ==
  filed.own /\ filed.whole /\ filed.lit =>
    \A k \in DOMAIN filed.hist : k <= Elements => filed.hist[k] = {filed.count}

\* What is filed was counted to its end, however the control A falls into it.
Finished == ~filed.stopped

\* A transfer ends, though the detector hangs in it.
TransferOver == client = "recv" ~> client # "recv"
=============================================================================
