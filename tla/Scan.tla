-------------------------------- MODULE Scan --------------------------------
(***************************************************************************)
(* Run_I_Buf: the scan of an increment buffer, with the routines it calls  *)
(* to count a point (Count, Scaler, ReadScl, Test_Ststcs), to wait for the *)
(* temperature (New_Temp_Field, Hold), to repeat the point with another    *)
(* setting of the flippers (Run_Polar) and to file it (Dmp_Data).  The     *)
(* counts come from a VME scaler on a serial line that may lose a command  *)
(* or a reply.  Yield appears as what the module Yield shows of it: it     *)
(* returns when nothing moves that it still waits for, with the motors     *)
(* where they were sent, or with a motor it has given up (a limit, a       *)
(* status that never came, ten rewrites), or after an abort.               *)
(*                                                                         *)
(* s holds the local variables and the place the program is at:            *)
(*   idle     no buffer is running                                         *)
(*   rating   after Check_Channel, the monitor rating                      *)
(*   head     the head of the loop over the points                         *)
(*   hiber    paused at the head, hiber2: paused after a count             *)
(*   point    limits of the new positions                                  *)
(*   drive    the loop that starts the motors                              *)
(*   yield    waiting for them                                             *)
(*   driven   back from Yield                                              *)
(*   settle   New_Temp_Field, between two holds                            *)
(*   holding  in Hold, held: Hold has looked at contr_a                    *)
(*   settled  back from New_Temp_Field                                     *)
(*   begin    label 100: nothing counted of this point                     *)
(*   count    label 201: starting a count                                  *)
(*   scaler   waiting for the scaler, read: the scaler is said to be ready *)
(*   counted  back from Scaler                                             *)
(*   judge    testing the statistics                                       *)
(*   dump     filing the point                                             *)
(*   next     filed: another flipper setting, or the next point            *)
(***************************************************************************)
EXTENDS Integers, Sequences, EventFlags

CONSTANTS
  Pts,          \* ibuf%pts: number of points
  Mpf,          \* ibuf%mpf: the prefactor, counts that add up to one point
  Sections,     \* cross sections, i.e. flipper settings per point
  Scl,          \* scl: detectors whose statistics are tested
  Retries,      \* counts repeated before the point starts again (10)
  MaxHolds,     \* holds for one point; 0: neither temperature nor field
  MaxRuns,      \* bound: buffers run
  MaxUpsets,    \* bound: failing statistics, lost transactions, lost motors
  MaxSignals    \* bound: control keys pressed

ASSUME ScanAssumption ==
  /\ Pts \in Nat /\ Mpf \in Nat \ {0} /\ Sections \in Nat \ {0}
  /\ Scl \in Nat \ {0} /\ Retries \in Nat /\ MaxHolds \in Nat
  /\ MaxRuns \in Nat /\ MaxUpsets \in Nat /\ MaxSignals \in Nat

VARIABLES
  ev,       \* signals and event flags
  s,        \* local variables of the running routines
  scaler,   \* the scaler: its last count and whether it still counts
  motors,   \* the point the motors stand at
  flippers, \* the cross section the flippers are set to
  file,     \* the data file of each cross section
  runs, upsets, signals,   \* how often, against the bounds
  told      \* history: the control keys this scan was told about

vars == <<ev, s, scaler, motors, flippers, file, runs, upsets, signals, told>>
instrument == <<scaler, motors, flippers>>
tally == <<runs, upsets, signals, told>>

Nowhere == -1

\* What a reading says that is no count: uninitialized, or zero after an error.
NoCount == [id |-> 0, pt |-> Nowhere, sec |-> 0, whole |-> FALSE]

\* The locals of a Run_I_Buf that has just been called.
Fresh == [at |-> "idle", loop |-> 0, prf |-> 1, sec |-> 1, acc |-> <<>>,
          counts |-> NoCount, counting |-> FALSE, retry |-> 0, holds |-> 0,
          limit |-> FALSE, spoilt |-> FALSE, astray |-> FALSE]

At(place) == s.at = place

\* The places from the end of the drive to the end of the point.
Taking == {"settle", "holding", "held", "settled", "begin", "count", "scaler",
           "read", "counted", "hiber2", "judge", "dump", "next"}

\* A command or a reply is lost on the line to the scaler, or a motor fails.
Fault == upsets < MaxUpsets /\ upsets' = upsets + 1

\* A poll of contr_a that shows no abort, and one that does.
Clear   == ~Aborting(ev) /\ ev' = READEF(ev)
Aborted == Aborting(ev) /\ ev' = READEF(ev)

\* Run_I_Buf returns to the loop over the buffers, which calls nobody back.
Return == s' = [s EXCEPT !.at = "idle"] /\ UNCHANGED <<instrument, file, tally>>

-----------------------------------------------------------------------------
(***************************************************************************)
(* The buffer and the loop over its points.                                *)
(***************************************************************************)

\* Mutant: a control F from the end of the last scan ends this one.
StartKeepingFinishup ==
  /\ At("idle") /\ runs < MaxRuns
  /\ runs' = runs + 1
  /\ ev' = CLREF(ev, "contr_a")
  /\ s' = [Fresh EXCEPT !.at = "rating"]
  /\ scaler' = [scaler EXCEPT !.id = 0]
  /\ file' = [k \in 1..Sections |-> <<>>]
  /\ told' = {sig \in Signals \ {"sigint"} : ev[sig]}
  /\ UNCHANGED <<motors, flippers, upsets, signals>>

\* RI: parse_contr clears contr_a, Run_I_Buf clears finishup.  The numbers by
\* which the model tells counts apart start again.
Start ==
  /\ At("idle") /\ runs < MaxRuns
  /\ runs' = runs + 1
  /\ ev' = [CLREF(ev, "contr_a") EXCEPT !.finishup = FALSE]
  /\ s' = [Fresh EXCEPT !.at = "rating"]
  /\ scaler' = [scaler EXCEPT !.id = 0]
  /\ file' = [k \in 1..Sections |-> <<>>]
  /\ told' = {sig \in Signals \ {"sigint"} : ev[sig]}
  /\ UNCHANGED <<motors, flippers, upsets, signals>>

AbortRating == At("rating") /\ Aborted /\ Return

Rated ==
  /\ At("rating") /\ Clear
  /\ s' = [s EXCEPT !.at = "head"]
  /\ UNCHANGED <<instrument, file, tally>>

\* The loop condition looks at finishup as the last poll left it.
MorePoints == s.loop <= Pts - 1 /\ ~ev.finishup

NextPoint ==
  /\ At("head") /\ MorePoints
  /\ ev' = READEF(ev)
  /\ s' = [s EXCEPT !.at = IF READEF(ev).pause THEN "hiber" ELSE "point"]
  /\ UNCHANGED <<instrument, file, tally>>

\* Any signal or ten hours end a pause, and a control A given in it is dropped.
Wake ==
  /\ s.at \in {"hiber", "hiber2"}
  /\ ev' = CLREF(CLREF(CLREF(ev, "contr_a"), "hdw_event"), "pause")
  /\ s' = [s EXCEPT !.at = IF At("hiber") THEN "point" ELSE "judge"]
  /\ told' = told \ {"sigint"}
  /\ UNCHANGED <<instrument, file, runs, upsets, signals>>

\* All points taken, or control F.
LastPoint ==
  /\ At("head") /\ ~MorePoints
  /\ ev' = [ev EXCEPT !.finishup = @ /\ s.loop > Pts - 1]
  /\ Return

\* Set_Flippers; then inlimits for every motor may end the scan.
Point ==
  /\ At("point")
  /\ flippers' = 1
  /\ \E limit \in BOOLEAN :
       s' = [s EXCEPT !.at = IF limit THEN "idle" ELSE "drive", !.limit = limit]
  /\ UNCHANGED <<ev, scaler, motors, file, tally>>

\* The loop that calls Drive; GOTO 50 leaves it for Yield, which sees the abort.
DriveAll ==
  /\ At("drive") /\ Clear
  /\ motors' = Nowhere
  /\ s' = [s EXCEPT !.at = "yield"]
  /\ UNCHANGED <<scaler, flippers, file, tally>>

DriveAborted ==
  /\ At("drive") /\ Aborted
  /\ s' = [s EXCEPT !.at = "driven"]
  /\ UNCHANGED <<instrument, file, tally>>

\* Yield, aborted or not.  A motor on a limit, without a status that can be
\* read, or still off after ten rewrites is dropped with at most a message, and
\* contr_a stays clear.  Drive is called only for positions that changed since
\* the last point: a motor that was dropped may still be where it was.
Yielded ==
  /\ At("yield")
  /\ ev' = READEF(ev)
  /\ \/ /\ Aborting(ev) /\ motors' = Nowhere /\ UNCHANGED upsets
        /\ s' = [s EXCEPT !.at = "driven"]
     \/ /\ ~Aborting(ev) /\ motors' = s.loop /\ UNCHANGED upsets
        /\ s' = [s EXCEPT !.at = "driven", !.astray = FALSE]
     \/ /\ ~Aborting(ev) /\ motors' = Nowhere
        /\ Fault \/ (s.astray /\ UNCHANGED upsets)
        /\ s' = [s EXCEPT !.at = "driven", !.astray = TRUE]
  /\ UNCHANGED <<scaler, flippers, file, runs, signals, told>>

\* "may finish itself": a motor whose status never came stops at its target
\* while the point is taken.
Arrives ==
  /\ s.at \in Taking /\ s.astray /\ motors = Nowhere
  /\ motors' = s.loop
  /\ UNCHANGED <<ev, s, scaler, flippers, file, tally>>

AbortDriven == At("driven") /\ Aborted /\ Return

Driven ==
  /\ At("driven") /\ Clear
  /\ s' = [s EXCEPT !.at = IF MaxHolds = 0 THEN "begin" ELSE "settle",
                    !.holds = 0, !.sec = 1]
  /\ UNCHANGED <<instrument, file, tally>>

-----------------------------------------------------------------------------
(***************************************************************************)
(* New_Temp_Field: the temperature is reached, or the time is up, after    *)
(* some holds, and then there are the requested ones.                      *)
(***************************************************************************)
\* Mutant: nobody looks at the clock while the temperature is awaited.
HoldBeginsUntimed ==
  /\ At("settle") /\ s.holds < MaxHolds
  /\ ev' = SETEF(ev, "stop")
  /\ s' = [s EXCEPT !.at = "holding"]
  /\ UNCHANGED <<instrument, file, tally>>

HoldBegins ==
  /\ At("settle") /\ s.holds < MaxHolds
  /\ ev' = SETEF(ev, "stop")
  /\ s' = [s EXCEPT !.at = "holding", !.holds = @ + 1]
  /\ UNCHANGED <<instrument, file, tally>>

\* if (readef(contr_a)) call clref(stop).
HoldLooks ==
  /\ At("holding")
  /\ ev' = IF Aborting(ev) THEN CLREF(READEF(ev), "stop") ELSE READEF(ev)
  /\ s' = [s EXCEPT !.at = "held"]
  /\ UNCHANGED <<instrument, file, tally>>

\* Hold clears contr_a itself; New_Temp_Field returns at once if stop is down.
HoldEnds ==
  /\ At("held")
  /\ ev' = CLREF(READEF(CLREF(CLREF(ev, "contr_a"), "hdw_event")), "stop")
  /\ s' = [s EXCEPT !.at = IF ev.stop THEN "settle" ELSE "settled"]
  /\ UNCHANGED <<instrument, file, tally>>

Settle ==
  /\ At("settle")
  /\ s' = [s EXCEPT !.at = "settled"]
  /\ UNCHANGED <<ev, instrument, file, tally>>

AbortSettled == At("settled") /\ Aborted /\ Return

Settled ==
  /\ At("settled") /\ Clear
  /\ s' = [s EXCEPT !.at = "begin"]
  /\ UNCHANGED <<instrument, file, tally>>

-----------------------------------------------------------------------------
(***************************************************************************)
(* Counting.                                                               *)
(***************************************************************************)

\* Label 100 of Run_I_Buf and of Run_Polar.
Begin ==
  /\ At("begin")
  /\ s' = [s EXCEPT !.at = "count", !.prf = 1, !.acc = <<>>, !.spoilt = FALSE]
  /\ UNCHANGED <<ev, instrument, file, tally>>

\* Count or CnTime: the scaler starts at zero, unless the command is lost.
Count ==
  /\ At("count")
  /\ \/ /\ scaler' = [id |-> scaler.id + 1, pt |-> motors, sec |-> flippers,
                      on |-> TRUE]
        /\ s' = [s EXCEPT !.at = "scaler", !.counting = TRUE]
        /\ UNCHANGED upsets
     \/ /\ Fault /\ UNCHANGED scaler
        /\ s' = [s EXCEPT !.at = "scaler", !.counting = TRUE, !.spoilt = TRUE]
  /\ UNCHANGED <<ev, motors, flippers, file, runs, signals, told>>

\* The preset is reached.
CountEnds ==
  /\ scaler.on
  /\ scaler' = [scaler EXCEPT !.on = FALSE]
  /\ UNCHANGED <<ev, s, motors, flippers, file, tally>>

StillCounting ==
  /\ At("scaler") /\ scaler.on /\ Clear
  /\ UNCHANGED <<s, instrument, file, tally>>

\* VSCALERSTOP, whose command may be lost; counting stays true and counts is
\* left as it was.
StopCounting ==
  /\ At("scaler") /\ scaler.on /\ Aborted
  /\ \/ scaler' = [scaler EXCEPT !.on = FALSE] /\ UNCHANGED upsets
     \/ UNCHANGED scaler /\ Fault
  /\ s' = [s EXCEPT !.at = "counted", !.spoilt = TRUE]
  /\ UNCHANGED <<motors, flippers, file, runs, signals, told>>

\* VSCALERSTATUS: a lost reply reads as "not counting".
Ready ==
  /\ At("scaler")
  /\ \/ ~scaler.on /\ s' = [s EXCEPT !.at = "read", !.counting = FALSE]
                   /\ UNCHANGED upsets
     \/ /\ Fault
        /\ s' = [s EXCEPT !.at = "read", !.counting = FALSE, !.spoilt = TRUE]
  /\ UNCHANGED <<ev, instrument, file, runs, signals, told>>

\* VSCALERREAD; without a reply, after all its retries, every count is zero.
ReadScl ==
  /\ At("read")
  /\ \/ /\ s' = [s EXCEPT !.at = "counted",
                   !.counts = [id |-> scaler.id, pt |-> scaler.pt,
                               sec |-> scaler.sec, whole |-> ~scaler.on]]
        /\ UNCHANGED upsets
     \/ /\ Fault
        /\ s' = [s EXCEPT !.at = "counted", !.counts = NoCount,
                          !.spoilt = TRUE]
  /\ UNCHANGED <<ev, instrument, file, runs, signals, told>>

\* Run_I_Buf looks for an abort and for a pause after every count...
AbortCounted == At("counted") /\ s.sec = 1 /\ Aborted /\ Return

Counted ==
  /\ At("counted") /\ s.sec = 1 /\ Clear
  /\ s' = [s EXCEPT !.at = IF READEF(ev).pause THEN "hiber2" ELSE "judge"]
  /\ UNCHANGED <<instrument, file, tally>>

\* ...and Run_Polar does not.
CountedPolar ==
  /\ At("counted") /\ s.sec > 1
  /\ s' = [s EXCEPT !.at = "judge"]
  /\ UNCHANGED <<ev, instrument, file, tally>>

-----------------------------------------------------------------------------
(***************************************************************************)
(* Test_Ststcs: nothing is judged before the third count; the third judges *)
(* the first three, and each later one stands for itself.                  *)
(***************************************************************************)
Add(acc) == [s EXCEPT !.acc = acc,
                      !.prf = @ + 1,
                      !.at = IF s.prf >= Mpf THEN "dump" ELSE "count",
                      !.retry = IF s.prf = 3 THEN 0 ELSE @]

Good ==
  /\ At("judge")
  /\ s' = Add(Append(s.acc, s.counts))
  /\ UNCHANGED <<ev, instrument, file, tally>>

\* The statistics are bad.
Fails == upsets < MaxUpsets /\ upsets' = upsets + 1

\* RETURN 1: the point starts again.
BadStart ==
  /\ At("judge") /\ s.prf = 3 /\ Fails
  /\ s' = [s EXCEPT !.at = "begin", !.retry = 0]
  /\ UNCHANGED <<ev, instrument, file, runs, signals, told>>

\* Mutant: the bad count is added before it is repeated.
BadCountAdded ==
  /\ At("judge") /\ s.prf > 3 /\ Fails
  /\ \E n \in 1..Scl :
       s' = IF s.retry + n <= Retries
            THEN [s EXCEPT !.at = "count", !.retry = @ + n,
                           !.acc = Append(@, s.counts)]
            ELSE [s EXCEPT !.at = "begin", !.retry = Retries + 1]
  /\ UNCHANGED <<ev, instrument, file, runs, signals, told>>

\* RETURN 2: n detectors are out of line, the count is repeated; the point
\* starts again when there have been too many of them.
BadCount ==
  /\ At("judge") /\ s.prf > 3 /\ Fails
  /\ \E n \in 1..Scl :
       s' = IF s.retry + n <= Retries
            THEN [s EXCEPT !.at = "count", !.retry = @ + n]
            ELSE [s EXCEPT !.at = "begin", !.retry = Retries + 1]
  /\ UNCHANGED <<ev, instrument, file, runs, signals, told>>

-----------------------------------------------------------------------------
(***************************************************************************)
(* Filing the point.                                                       *)
(***************************************************************************)
Dmp_Data ==
  /\ At("dump")
  /\ file' = [file EXCEPT ![s.sec] =
                Append(@, [pt |-> s.loop, counts |-> s.acc,
                           spoilt |-> s.spoilt, astray |-> s.astray])]
  /\ s' = [s EXCEPT !.at = "next"]
  /\ UNCHANGED <<ev, instrument, tally>>

\* After Run_Polar, though not after the first cross section.
AbortPolar == At("next") /\ s.sec > 1 /\ Aborted /\ Return

PollNext == IF s.sec > 1 THEN Clear ELSE UNCHANGED ev

\* Run_Polar, whose counts are its own.
NextSection ==
  /\ At("next") /\ s.sec < Sections /\ PollNext
  /\ flippers' = s.sec + 1
  /\ s' = [s EXCEPT !.at = "begin", !.sec = @ + 1, !.counts = NoCount]
  /\ UNCHANGED <<scaler, motors, file, tally>>

\* Mutant: the list of cross sections read as if it were at its end.
PointDoneEarly ==
  /\ At("next") /\ PollNext
  /\ s' = [s EXCEPT !.at = "head", !.loop = @ + 1]
  /\ UNCHANGED <<instrument, file, tally>>

PointDone ==
  /\ At("next") /\ s.sec = Sections /\ PollNext
  /\ s' = [s EXCEPT !.at = "head", !.loop = @ + 1]
  /\ UNCHANGED <<instrument, file, tally>>

-----------------------------------------------------------------------------
\* A control key.  A pause drops a control A that comes in it.
Press(sig) ==
  /\ signals < MaxSignals /\ ~ev[sig]
  /\ signals' = signals + 1
  /\ ev' = SigHandler(ev, sig)
  /\ told' = told \cup
       (IF sig = "sigint" /\ s.at \in {"idle", "hiber", "hiber2"} THEN {} ELSE {sig})
  /\ UNCHANGED <<s, instrument, file, runs, upsets>>

Init ==
  /\ ev = NoEvents
  /\ s = Fresh
  /\ scaler = [id |-> 0, pt |-> Nowhere, sec |-> 0, on |-> FALSE]
  /\ motors = Nowhere /\ flippers = 1
  /\ file = [k \in 1..Sections |-> <<>>]
  /\ runs = 0 /\ upsets = 0 /\ signals = 0 /\ told = {}

\* What the program does inside a scan.
Work ==
  \/ AbortRating \/ Rated \/ NextPoint \/ Wake \/ LastPoint
  \/ Point \/ DriveAll \/ DriveAborted \/ Yielded \/ AbortDriven \/ Driven
  \/ HoldBegins \/ HoldLooks \/ HoldEnds \/ Settle \/ AbortSettled \/ Settled
  \/ Begin \/ Count \/ StillCounting \/ StopCounting \/ Ready \/ ReadScl
  \/ AbortCounted \/ Counted \/ CountedPolar
  \/ Good \/ BadStart \/ BadCount
  \/ Dmp_Data \/ AbortPolar \/ NextSection \/ PointDone

Rest == At("idle") /\ runs = MaxRuns /\ UNCHANGED vars

Next == Start \/ Work \/ CountEnds \/ Arrives \/ Rest \/ \E sig \in Signals : Press(sig)

Spec == Init /\ [][Next]_vars

\* The program runs, and a scaler that counts reaches its preset.
FairSpec == Spec /\ WF_vars(Work) /\ WF_vars(CountEnds)
-----------------------------------------------------------------------------
(***************************************************************************)
(* What a scan promises.                                                   *)
(***************************************************************************)
Records == UNION {{file[k][n] : n \in 1..Len(file[k])} : k \in 1..Sections}

\* A point on file is the sum of mpf different complete counts, all taken with
\* the motors at that point and the flippers at the setting the file is for,
\* whatever was repeated or started again: unless a reply was lost on the way or
\* control A came while Run_Polar counted, and at that point as far as Yield
\* had not given up a motor.
PointsWhole ==
  \A k \in 1..Sections : \A n \in 1..Len(file[k]) :
    LET r == file[k][n] IN
    ~r.spoilt =>
      /\ Len(r.counts) = Mpf
      /\ \A i \in 1..Mpf : /\ r.counts[i].whole /\ r.counts[i].sec = k
                           /\ r.counts[i].pt = r.pt \/ r.astray
      /\ \A i, j \in 1..Mpf : i # j => r.counts[i].id # r.counts[j].id

\* The files of the cross sections keep step: the points of each are 0, 1, 2...,
\* no file is more than one point ahead, and none is ahead of an earlier one.
FilesInStep ==
  \A k \in 1..Sections :
    /\ \A n \in 1..Len(file[k]) : file[k][n].pt = n - 1
    /\ k > 1 => Len(file[k-1]) - Len(file[k]) \in {0, 1}
    /\ Len(file[1]) - Len(file[k]) \in {0, 1}

\* Control F "finishes up": unless control A came or a limit stopped it, a scan
\* ends with whole points, every cross section of each on file, and with all of
\* them if no control key was pressed in this scan.
FinishedWhole ==
  At("idle") /\ ~ev.contr_a /\ ~s.limit /\ runs > 0 =>
    /\ \A k \in 1..Sections : Len(file[k]) = s.loop
    /\ told = {} => s.loop = Pts

\* A scan comes to an end.
ScanEnds == ~At("idle") ~> At("idle")

\* "poll counters until they are finished": Scaler returns by itself only when
\* the scaler has stopped.
PolledToEnd == At("counted") /\ ~s.counting => ~scaler.on

\* "wait for all moving motors to stop at their destination": what is filed as a
\* point was counted there.
CountedInPlace ==
  \A k \in 1..Sections : \A n \in 1..Len(file[k]) :
    LET r == file[k][n] IN
    ~r.spoilt => \A i \in 1..Len(r.counts) : r.counts[i].pt = r.pt
=============================================================================
